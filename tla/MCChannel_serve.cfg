SPECIFICATION FairSpec
CONSTANTS
  a = a
  b = b
  s = s
  w = w
  NoThread = NoThread
  NoReply = NoReply
  Threads = {a, b, s, w}
  Ops <- ServeOps
  Limit <- ServeLimit
  Timed = {FALSE}
  WriteFails = FALSE
CHECK_DEADLOCK FALSE
INVARIANTS NoForgottenWaiter DeliveredOnce NobodyWaitsBoth
PROPERTIES CallsReturn
