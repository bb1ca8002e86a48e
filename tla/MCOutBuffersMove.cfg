SPECIFICATION OutSpec
CONSTANTS
  a = a
  b1 = b1
  b2 = b2
  b3 = b3
  c1 = c1
  NoKey = NoKey
  NoByte = NoByte
  Keys = {a, b1, b2, b3, c1}
  BlkLen <- MCBlkLen
  MaxLen = 3
  MinBlk = 2
  StreamMin = 2
  CacheSz = 8
  NbBlkIdx = 4
  Wrap = 32
  MaxTotal = 6
  FakeSz = 5
  MaxOuts = 4
INVARIANT
  ReadsNothingFreed
CHECK_DEADLOCK FALSE
