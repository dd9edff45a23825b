\* Three clients share a directory with a file and a symbolic link.
SPECIFICATION OrderlySpec
CONSTANTS
  ca = ca
  cb = cb
  cc = cc
  x = x
  Clients = {ca, cb, cc}
  Inums = {1, 2, 3}
  Root = 1
  DirType = "T_DIR"
  FileType = "T_FILE"
  LinkType = "T_SYMLINK"
  NoType = "0"
  NoEntry = NoEntry
  Names = {"a", "b"}
  Nul = Nul
  Values = {x}
  MaxFile = 2
  Requests <- RequestsShared
INVARIANTS
  Coherent
  CallBackSafe
  NamesSound
  WaitsEnd
  FsInv
PROPERTIES
  ImplementsFsSpec
