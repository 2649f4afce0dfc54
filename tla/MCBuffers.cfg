SPECIFICATION BuffersSpec
CONSTANTS
  Parts = {"static", "flat", "multi", "adaptor", "views", "text", "own", "unsigned", "signed"}
  Capacity = 3
  Sizes = {0, 1, 2, 3, 4}
  MaxFed = 8
  FlatFed = 6
  MultiSizes = {0, 1, 2, 3, 6}
  MultiFed = 4
  MostParts = 2
INVARIANT
  PositionsHold
PROPERTIES
  ImplementsByteQueue
  OthersImplementByteQueue
  StringsBehave
CHECK_DEADLOCK FALSE
