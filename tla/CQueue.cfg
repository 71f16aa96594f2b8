SPECIFICATION Spec
CONSTANTS
  CQ_N = 8
  Size = 3
  Items = 4
  NoByte = NoByte
INVARIANTS TypeOK ItemsWhole
PROPERTY ImplementsFifo
