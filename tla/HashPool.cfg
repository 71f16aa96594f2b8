SPECIFICATION Spec
CONSTANTS
  Macs = {m1, m2, m3, m4}
  NoMac = NoMac
  PoolStart = 1
  PoolEnd = 3
  MaxLeases = 3
  SweepMax = 2
  HASH_N = 4
  Empty = Empty
  LeaseTime = 1
  ClockWrap = 2
  MacHash <- MCMacHash
  IpHash <- MCIpHash
SYMMETRY Symmetry
INVARIANTS TypeOK TablesAgree RunningLeaseKept NoDoubleGrant OfferUnheld
PROPERTIES RunOutLeaseMakesRoom ImplementsLeases
