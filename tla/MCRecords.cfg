SPECIFICATION FairSpec
CONSTANTS
  Lens = {1, 2, 3, 4}
  OffsetSz = 2
  LenSz = 2
  FragSz = 2
  MaxRecords = 3
INVARIANT
  NothingOfACutRecord
PROPERTY
  EndsWithWhole
CHECK_DEADLOCK FALSE
