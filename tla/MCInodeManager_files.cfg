\* Files of up to three blocks, one of them direct, on a disk that can be full.
SPECIFICATION Spec
CONSTANTS
  Inums = {1, 2}
  Root = 1
  Blocks = {0, 1, 2, 3}
  Contents = {x, y}
  NDirect = 1
  MaxFile = 3
  NoBlock <- NoBlockNumber
  UsesRemoved = FALSE
SYMMETRY Symmetry
INVARIANTS
  InodeInv
  NoLeak
PROPERTIES
  ImplementsFileSpec
