SPECIFICATION Spec
CONSTANTS
  k1 = k1
  k2 = k2
  k3 = k3
  a1 = a1
  a2 = a2
  b1 = b1
  c1 = c1
  w1 = w1
  w2 = w2
  EMPTY = EMPTY
  TOMBSTONE = TOMBSTONE
  Zero = Zero
  Torn = Torn
  Miss = Miss
  NoProc = NoProc
  XorBits <- MCXor
  Home <- Homes
  HashOf <- Hashes
  Class <- Classes
  CHUNK = 2
  MAX_RETRIES = 3
  KeyUnits = 1
  Wrap = 64
  CounterWrap = 66
  BucketCount = 2
  SLOTS = 4
  MAX_KICKS = 8
  Procs = {w1, w2}
  Keys = {k1, k2}
  ValuesFor <- Responses
  Size <- Sizes
  Script <- WriterReader
  MaxCalls <- Calls52
  MaxCrashes = 0
  NPages = 2
  GenMax = 2
  SlotCount = 4
  ArenaCap = 5
CHECK_DEADLOCK FALSE
INVARIANT PagesInOrder
INVARIANT ActiveReadIsWhole
