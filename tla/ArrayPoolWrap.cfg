SPECIFICATION Spec
CONSTANTS
  Macs = {m1, m2, m3}
  NoMac = NoMac
  PoolStart = 1
  PoolEnd = 3
  MaxLeases = 2
  LeaseTime = 2
  ClockWrap = 4
SYMMETRY Symmetry
PROPERTY ExpiryIsAbsolute
