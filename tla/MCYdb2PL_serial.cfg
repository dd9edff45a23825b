\* Three transactions and three keys in a ring.
SPECIFICATION FairSpec
CONSTANTS
  Keys = {1, 2, 3}
  Txns = {t1, t2, t3}
  Values = {Empty, x}
  x = x
  Empty = Empty
  None = None
  LI = LI
  Read = Read
  t1 = t1
  t2 = t2
  t3 = t3
  Program <- Ring
  TakersFirst = TRUE
INVARIANTS
  TwoPLInv
  NeverReleasedTwice
  NoWaitCycle
PROPERTIES
  ImplementsSerialSpec
  EveryTxnEnds
CHECK_DEADLOCK FALSE
