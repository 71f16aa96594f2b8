SPECIFICATION Spec
CONSTANTS
  Macs = {m1, m2}
  NoMac = NoMac
  PoolStart = 1
  PoolEnd = 4
  LeaseTime = 2
  ClockWrap = 4
  NumRanges = 2
  BootCounters = {0}
SYMMETRY Symmetry
PROPERTY LeftRangeIsTimed
