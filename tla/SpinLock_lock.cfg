SPECIFICATION FairSpec
CONSTANTS
  w1 = w1
  w2 = w2
  w3 = w3
  Procs = {w1, w2, w3}
  PidOf <- OwnPids
  NoProc = NoProc
CHECK_DEADLOCK FALSE
INVARIANT MutualExclusion
PROPERTY ImplementsCacheLock
PROPERTY OrphanRecovered
