SPECIFICATION FairSpec
CONSTANTS
  a = a
  b1 = b1
  b2 = b2
  b3 = b3
  d1 = d1
  d2 = d2
  NoKey = NoKey
  Keys = {a, b1, b2, b3, d1}
  BlkLen <- MCBlkLen
  MaxLen = 3
  MinBlk = 2
  StreamMin = 1
  CacheSz = 7
  NbBlkIdx = 3
  Wrap = 32
  MaxTotal = 6
INVARIANTS
  TornByOne
PROPERTY
  ImplementsDreCache
  CallsReturn
CHECK_DEADLOCK FALSE
