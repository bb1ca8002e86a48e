SPECIFICATION LinkSpec
CONSTANTS
  a = a
  b1 = b1
  b2 = b2
  b3 = b3
  b4 = b4
  c1 = c1
  c2 = c2
  NoKey = NoKey
  Hole = Hole
  Keys = {a, b1, b2, b3, b4, c1, c2}
  BlkLen <- MCBlkLen
  MaxLen = 3
  MinBlk = 2
  StreamMin = 1
  CacheSz = 8
  NbBlkIdx = 3
  Wrap = 32
  MaxTotal = 7
  DCacheSz = 8
  DMinBlk = 2
  ChanMax = 2
SYMMETRY MCSymmetry
INVARIANT
  RoundTrip
