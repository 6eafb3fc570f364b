SPECIFICATION Spec
SYMMETRY MCSymmetry
CONSTANTS
  NULL = NULL
  th1 = th1
  th2 = th2
  t1 = t1
  t2 = t2
  Threads <- MCThreads
  Txns <- MCTxns
  MaxTxn = 2
  TxnTimeout = 0
  DescMod = 256
  AtomicLock = FALSE
  ClockSet = TRUE
  MaxTime = 0
INVARIANT
  OneThreadInside
