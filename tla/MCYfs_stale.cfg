\* A file is unlinked while another client looks it up.
SPECIFICATION JoinedSpec
CONSTANTS
  ca = ca
  cb = cb
  cc = cc
  x = x
  Clients = {ca, cb}
  Inums = {1, 2}
  Root = 1
  DirType = "T_DIR"
  FileType = "T_FILE"
  LinkType = "T_SYMLINK"
  NoType = "0"
  NoEntry = NoEntry
  Names = {"a"}
  Nul = Nul
  Values = {x}
  MaxFile = 2
  Requests <- RequestsStale
INVARIANTS
  CalleesHaveEntry
