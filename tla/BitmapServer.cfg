SPECIFICATION Spec
CONSTANTS
  Macs = {m1, m2}
  NoMac = NoMac
  PoolStart = 1
  PoolEnd = 4
  LeaseTime = 2
  ClockWrap = 4
  Word = 7
  VarLen = 3
  NumRanges = 2
  BootCounters = {0, 3}
SYMMETRY Symmetry
INVARIANTS TypeOK LeaseWithinTimer OnlyLateRequestHarms ReplyOnlyOverLate
PROPERTIES RangeResets OldRangeServesAgain
