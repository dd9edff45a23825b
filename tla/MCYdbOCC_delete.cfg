\* Keys are deleted.
SPECIFICATION Spec
CONSTANTS
  Keys = {1, 2}
  Root = 1
  Blocks = {0, 1}
  Txns = {t1, t2}
  Values = {x, y}
  Empty = Empty
  NoBlock <- NoBlockNumber
  None = None
  BlindWrites = FALSE
  Deletes = TRUE
PROPERTIES
  WrittenIsStored
CHECK_DEADLOCK FALSE
