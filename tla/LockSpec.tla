------------------------------ MODULE LockSpec ------------------------------
(***************************************************************************)
(* What the lock service promises its users: a lock is in the hands of at  *)
(* most one application thread at a time.  lock_tester.cc states it in     *)
(* check_grant / check_release; yfs_client and the 2PL transaction server  *)
(* rely on it.  How acquire() gets the lock (local cache, server, revoke   *)
(* and retry callbacks) is invisible here.                                 *)
(***************************************************************************)
CONSTANTS Threads, Locks

VARIABLE held               \* held[t]: the locks thread t has acquired

Init == held = [t \in Threads |-> {}]

\* acquire(l) returns OK to t: nobody holds l.
Acquire(t, l) ==
  /\ \A u \in Threads : l \notin held[u]
  /\ held' = [held EXCEPT ![t] = @ \cup {l}]

\* t calls release(l).
Release(t, l) ==
  /\ l \in held[t]
  /\ held' = [held EXCEPT ![t] = @ \ {l}]

Next == \E t \in Threads, l \in Locks : Acquire(t, l) \/ Release(t, l)

Spec == Init /\ [][Next]_held
=============================================================================
