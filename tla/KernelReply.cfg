SPECIFICATION KernelSpec
CONSTANTS
  Macs = {m1, m2}
  NoMac = NoMac
  PoolStart = 255
  PoolEnd = 256
  MaxLeases = 2
  LeaseTime = 1
  ClockWrap = 2
  OptLen = 34
  Frames <- MCFrames
  Noise <- MCNoise
  Config <- MCConfig
SYMMETRY Symmetry
INVARIANT ReplyTellsConfig
