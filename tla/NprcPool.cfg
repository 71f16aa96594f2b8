SPECIFICATION Spec
CONSTANTS
  Macs = {m1, m2}
  NoMac = NoMac
  PoolStart = 1
  PoolEnd = 7
  BitmapSize = 4
  LeaseTime = 1
  ClockWrap = 1
SYMMETRY Symmetry
INVARIANTS TypeOK WindowExact NoDoubleGrant
PROPERTIES AckedOnce OfferedOnce RecentOfferHonoured
