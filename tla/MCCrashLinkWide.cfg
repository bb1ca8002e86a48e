SPECIFICATION Spec
CONSTANTS
  a = a
  b1 = b1
  b2 = b2
  b3 = b3
  b4 = b4
  d1 = d1
  d2 = d2
  NoKey = NoKey
  Hole = Hole
  Junk = Junk
  Keys = {b1, b2, b3, b4}
  BlkLen <- MCBlkLen
  Cells <- MCCells
  MaxLen = 2
  MinBlk = 1
  StreamMin = 1
  CacheSz = 6
  NbBlkIdx = 4
  Wrap = 32
  MaxTotal = 6
  DCacheSz = 6
  DMinBlk = 1
  ChanMax = 1
  ResumesAllowed = {"sound"}
SYMMETRY MCSymmetry
INVARIANTS
  InStep
  Mirrored
  NoDeath
PROPERTY
  ImplementsPipe
