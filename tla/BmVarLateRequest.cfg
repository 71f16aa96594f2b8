SPECIFICATION Spec
CONSTANTS
  Macs = {m1, m2}
  NoMac = NoMac
  PoolStart = 1
  PoolEnd = 3
  LeaseTime = 2
  ClockWrap = 6
  Word = 16
  VarLen = 3
SYMMETRY Symmetry
INVARIANT AckWithinRangeTime
