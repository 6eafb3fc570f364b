SPECIFICATION ClientSpec
CONSTANTS
  NULL = NULL
  app1 = app1
  app2 = app2
  net = net
  t1 = t1
  t2 = t2
  Net = net
  Threads <- MCHttp
  Txns <- MCTxns
  MaxTxn = 2
  TxnTimeout = 1
  DescMod = 256
  AtomicLock = TRUE
  ClockSet = FALSE
  MaxTime = 2
  Transport = "HTTP"
  Functions <- MCAllFunctions
  MaxReplyAge = 1
  Reuse = "handled"
  CallbackCalls = FALSE
  Clears = TRUE
  Lossy <- MCTxns
  MaxOps = 2
SYMMETRY MCSymmetry
INVARIANTS
  ReplyReachesOwner
  CallbackSeesVerdict
\* The application has a bounded number of operations, and then stops.
CHECK_DEADLOCK FALSE
