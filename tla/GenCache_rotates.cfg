SPECIFICATION FairSpec
CONSTANTS
  k1 = k1
  k2 = k2
  k3 = k3
  a1 = a1
  a2 = a2
  b1 = b1
  c1 = c1
  w1 = w1
  w2 = w2
  EMPTY = EMPTY
  TOMBSTONE = TOMBSTONE
  Zero = Zero
  Torn = Torn
  Miss = Miss
  NoProc = NoProc
  XorBits <- MCXor
  Home <- Homes
  HashOf <- Hashes
  Class <- Classes
  CHUNK = 2
  MAX_RETRIES = 3
  KeyUnits = 1
  Procs = {w1}
  Keys = {k1, k2, k3}
  ValuesFor <- OneResponse
  Size <- SameSizes
  Script <- OnlySet
  MaxCalls <- CallsForever
  MaxCrashes = 0
  NPages = 2
  GenMax = 2
  SlotCount = 4
  ArenaCap = 4
  Wrap = 4
  CounterWrap = 2
  BucketCount = 1
  SLOTS = 2
  MAX_KICKS = 1
CHECK_DEADLOCK FALSE
PROPERTIES SetsTakeEffect
