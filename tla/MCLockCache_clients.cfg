\* One lock; one client with two threads competes with two other clients, so
\* that local hand-over, revoke and a queue of two waiters all occur.
SPECIFICATION FairSpec
CONSTANTS
  ca = ca
  cb = cb
  cc = cc
  NoClient = NoClient
  Clients = {ca, cb, cc}
  Threads = {1, 2, 3, 4}
  Owner <- OwnerThreeClients
  Locks = {1}
  Before <- Ordered
  ServerPool = 2
  ClientPool = 2
INVARIANTS
  IndInv
  MutualExclusion
  CacheMatchesServer
  QueueSound
  CallbackPending
  NoLostWakeup
PROPERTIES
  RevokedNotReused
  ImplementsLockSpec
  RequestGranted
  WaitersServed
