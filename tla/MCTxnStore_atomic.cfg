SPECIFICATION Spec
SYMMETRY MCSymmetry
CONSTANTS
  NULL = NULL
  th1 = th1
  th2 = th2
  t1 = t1
  t2 = t2
  Threads <- MCThreads
  Txns <- MCTxns
  MaxTxn = 2
  TxnTimeout = 1
  DescMod = 256
  AtomicLock = TRUE
  ClockSet = TRUE
  MaxTime = 2
INVARIANTS
  TypeOK
  OneThreadInside
  SlotsAgree
  SearchComplete
  TakesFreeSlot
PROPERTY
  ImplementsPool
