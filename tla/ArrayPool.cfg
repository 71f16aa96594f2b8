SPECIFICATION Spec
CONSTANTS
  Macs = {m1, m2, m3, m4}
  NoMac = NoMac
  PoolStart = 1
  PoolEnd = 3
  MaxLeases = 3
  LeaseTime = 1
  ClockWrap = 2
SYMMETRY Symmetry
INVARIANTS TypeOK TableConsistent RunningLeaseKept NoDoubleGrant OfferUnheld
PROPERTIES HolderServed RunOutLeaseMakesRoom ImplementsLeases
