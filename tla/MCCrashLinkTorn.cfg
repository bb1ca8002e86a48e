SPECIFICATION Spec
CONSTANTS
  a = a
  b1 = b1
  b2 = b2
  b3 = b3
  b4 = b4
  d1 = d1
  d2 = d2
  NoKey = NoKey
  Hole = Hole
  Junk = Junk
  Keys = {a, b1, b2}
  BlkLen <- MCBlkLen
  Cells <- MCCells
  MaxLen = 2
  MinBlk = 1
  StreamMin = 1
  CacheSz = 5
  NbBlkIdx = 2
  Wrap = 32
  MaxTotal = 4
  DCacheSz = 5
  DMinBlk = 1
  ChanMax = 1
  ResumesAllowed = {"sound", "torn"}
INVARIANT
  NoDeath
