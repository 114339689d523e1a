SPECIFICATION Spec
CONSTANTS
  BucketCount = 4
  SLOTS = 2
  MAX_KICKS = 6
  MaxCopies = 2
  XorBits <- MCXor
  HashedKeys <- CollidingKeys
INVARIANT FilterSound
