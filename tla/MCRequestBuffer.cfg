SPECIFICATION ClassSpec
CONSTANTS
  Parts = {"ring", "geometry"}
  Request = {r1, r2, r3}
  NoRequest = NoRequest
  mSize = 4
  MaxPos = 9
  W = 6
INVARIANTS
  PositionsInv
  MaskIsModulus
PROPERTY
  ImplementsQueue
