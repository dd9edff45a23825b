\* A key is set that was not read.
SPECIFICATION Spec
CONSTANTS
  Keys = {1}
  Root = 1
  Blocks = {0, 1}
  Txns = {t1, t2, t3}
  Values = {x, y}
  Empty = Empty
  NoBlock <- NoBlockNumber
  None = None
  BlindWrites = TRUE
  Deletes = FALSE
PROPERTIES
  ImplementsSerialSpec
CHECK_DEADLOCK FALSE
