\* One call may time out, one later request may overtake another.
SPECIFICATION Spec
CONSTANTS
  MaxXid = 4
  MaxConn = 1
  MaxSrv = 1
  MayTimeOut = {2}
  Lossy = FALSE
  PromptServer = FALSE
INVARIANTS
  ForgottenWasRun
CHECK_DEADLOCK FALSE
