SPECIFICATION Spec
CONSTANTS
  a = a
  b1 = b1
  b2 = b2
  b3 = b3
  c1 = c1
  c2 = c2
  NoKey = NoKey
  Keys = {a, b1, b2, b3, c1, c2}
  BlkLen <- MCBlkLen
  MaxLen = 3
  MinBlk = 2
  StreamMin = 1
  CacheSz = 7
  NbBlkIdx = 3
  Wrap = 32
  MaxTotal = 10
SYMMETRY MCSymmetry
INVARIANTS
  TypeOK
  LiveDisjoint
  WithinCache
  IndexBounded
  IInv
PROPERTY
  FaultIsTight
CHECK_DEADLOCK FALSE
