\* Three transactions that read the keys they set, no key is deleted.
SPECIFICATION Spec
CONSTANTS
  Keys = {1, 2}
  Root = 1
  Blocks = {0, 1}
  Txns = {t1, t2, t3}
  Values = {x, y}
  Empty = Empty
  NoBlock <- NoBlockNumber
  None = None
  BlindWrites = FALSE
  Deletes = FALSE
SYMMETRY Symmetry
INVARIANTS
  OccInv
PROPERTIES
  WrittenVersionGrows
  ImplementsSerialSpec
\* Every transaction ends.
CHECK_DEADLOCK FALSE
