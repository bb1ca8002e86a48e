SPECIFICATION Spec
CONSTANTS
  s1 = s1
  s2 = s2
  a = a
  b = b
  c = c
  Hole = Hole
  Junk = Junk
  Streams = {s1, s2}
  Keys = {a, b, c}
  BlkLen <- MCBlkLen
  Cells <- MCCells
  DCacheSz = 9
  DMinBlk = 2
  MaxBlocks = 4
SYMMETRY MCSymmetry
INVARIANTS
  FilesAreLog
  CleanIsWhole
CHECK_DEADLOCK FALSE
