SPECIFICATION BenchSpec
CONSTANTS
  m1 = m1
  m2 = m2
  Macs = {m1, m2}
  NoMac = NoMac
  Clients <- MCClients
  Xids = {1, 2}
  NoXid = 0
  Draws <- MCDraws
  Workers = {w1, w2}
  MAX_RETRIES = 2
  Backlog = 2
  PoolStart = 1
  PoolEnd = 2
  LeaseTime = 1
  ClockWrap = 1
  BitmapSize = 4
CHECK_DEADLOCK FALSE
INVARIANTS BenchTypeOK PassedIsServed TableExact
PROPERTY Terminates
