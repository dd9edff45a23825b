\* Bind and two calls of two threads, a reconnection and a server restart; any
\* call may time out and old requests are sent again.
SPECIFICATION Spec
CONSTANTS
  MaxXid = 3
  MaxConn = 2
  MaxSrv = 2
  MayTimeOut = {1, 2, 3}
  Lossy = TRUE
  PromptServer = FALSE
INVARIANTS
  RpcInv
  AtMostOnce
  RepliedWasRun
  AwaitedNotForgotten
  AnswerInv
CHECK_DEADLOCK FALSE
