SPECIFICATION FairSpec
CONSTANTS
  k1 = k1
  k2 = k2
  k3 = k3
  a1 = a1
  a2 = a2
  b1 = b1
  c1 = c1
  w1 = w1
  w2 = w2
  EMPTY = EMPTY
  TOMBSTONE = TOMBSTONE
  Zero = Zero
  Torn = Torn
  Miss = Miss
  NoProc = NoProc
  XorBits <- MCXor
  Home <- Homes
  HashOf <- Hashes
  Class <- Classes
  CHUNK = 64
  MAX_RETRIES = 3
  KeyUnits = 1
  Wrap = 64
  CounterWrap = 66
  BucketCount = 2
  SLOTS = 4
  MAX_KICKS = 8
  Procs = {w1, w2}
  Keys = {k1}
  ValuesFor <- OneResponse
  Size <- SameSizes
  Script <- Anything
  MaxCalls <- Calls22
  MaxCrashes = 1
  NPages = 2
  GenMax = 1
  SlotCount = 2
  ArenaCap = 4
CHECK_DEADLOCK FALSE
 
PROPERTY CallsReturn
