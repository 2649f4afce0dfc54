SPECIFICATION FairSpec
CONSTANTS
  MaxRequests = 4
  MaxStray = 1
  mSize = 2
  NoRequest = 0
  Request = {1, 2, 3, 4}
INVARIANTS
  RequestsKeepOrder
  OwnResponse
  SlotHeldIfNoStray
  TerminatesOnlyOnOverflow
PROPERTIES
  ImplementsLife
  SetupSettles
  EveryRequestAnswered
CHECK_DEADLOCK FALSE
