SPECIFICATION Spec
CONSTANTS
  a = a
  b1 = b1
  b2 = b2
  c3 = c3
  NoKey = NoKey
  NULL = NULL
  Keys = {a, b1, b2, c3}
  BlkLen <- MCBlkLen
  Bucket <- MCBucket
  BlkHSize = 2
  MaxLen = 3
  MinBlk = 2
  StreamMin = 1
  CacheSz = 8
  NbBlkIdx = 3
  Wrap = 32
  MaxTotal = 7
  LoadsAllowed = {"sound"}
INVARIANTS
  TypeOK
  RingIsList
  ChainsExact
PROPERTY
  ImplementsDreCache
