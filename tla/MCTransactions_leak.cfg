SPECIFICATION ClientSpec
CONSTANTS
  NULL = NULL
  app1 = app1
  app2 = app2
  net = net
  t1 = t1
  t2 = t2
  Net = net
  Threads <- MCOneApp
  Txns <- MCTxns
  MaxTxn = 2
  TxnTimeout = 1
  DescMod = 256
  AtomicLock = TRUE
  ClockSet = FALSE
  MaxTime = 3
  Transport = "MQTT"
  Functions <- MCHeartbeat
  MaxReplyAge = 1
  Reuse = "handled"
  CallbackCalls = TRUE
  Clears = FALSE
  Lossy <- MCTxns
  MaxOps = 3
INVARIANT
  ReleasedWhenHandled
