SPECIFICATION Spec
CONSTANTS
  MaxRequests = 2
  MaxStray = 0
  mSize = 2
  NoRequest = 0
  Request = {1, 2}
INVARIANT
  OneWriteAtATime
CHECK_DEADLOCK FALSE
