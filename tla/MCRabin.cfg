SPECIFICATION Spec
CONSTANTS
  Bytes = {0, 1, 3}
  FpMod = 16
  AvgMod = 4
  WinSz = 3
  MinWinSz = 3
  MinBlkSz = 3
  MaxBlkSz = 4
  BuffMax = 4
  StreamMax = 7
INVARIANTS
  FpIsWindow
  NothingLost
  DescribesData
  ContentDefined
  RepeatsFound
