\* Connections break, the server is not restarted and no deadline expires.
SPECIFICATION FairSpec
CONSTANTS
  MaxXid = 3
  MaxConn = 2
  MaxSrv = 1
  MayTimeOut = {}
  Lossy = FALSE
  PromptServer = TRUE
PROPERTIES
  CallAnswered
CHECK_DEADLOCK FALSE
