SPECIFICATION Spec
CONSTANTS
  a = a
  b = b
  s = s
  w = w
  NoThread = NoThread
  NoReply = NoReply
  Threads = {a, b, s}
  Ops <- AllOps
  Limit <- AllLimit
  Timed = {TRUE}
  WriteFails = TRUE
CHECK_DEADLOCK FALSE
INVARIANTS AckedDelivered AnsweredOnce
