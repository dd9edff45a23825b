\* Three readers of one key, threads of the lock server in any order.
SPECIFICATION Spec
CONSTANTS
  Keys = {1}
  Txns = {t1, t2, t3}
  Values = {Empty, x}
  x = x
  Empty = Empty
  None = None
  LI = LI
  Read = Read
  t1 = t1
  t2 = t2
  t3 = t3
  Program <- Readers
  TakersFirst = FALSE
INVARIANTS
  NeverReleasedTwice
CHECK_DEADLOCK FALSE
