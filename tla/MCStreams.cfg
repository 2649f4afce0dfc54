SPECIFICATION StreamsSpec
CONSTANTS
  Parts = {"basic", "test", "flat", "icy", "buffered", "detect"}
  BasicOps = 3
  Limited = FALSE
  Limit = 1
  MaxBytes = 1
  MaxOps = 3
  Sizes = {0, 2}
  MaxCalls = 3
  MaxArrived = 2
  FailCounts <- MayFail
  Shapes <- AnyShapes
  IcyMaxFailures = 2
  BufferedMaxFailures = 1
  MaxChanges = 1
  AtLeast = 9
  MaxSent = 11
  MaxPreload = 2
  ReadMax = 1
  WriteMax = 2
  Never = Never
  flat_max_size = 4
  max_stack = 3
  Streams <- SomeStreams
  IcySizes = {0, 1, 4}
  Length = 5
  BufferedSizes = {0, 1, 3}
  Capacities = {0, 1, 2, 5}
  buffered_max_size = 4
  Floor = 3
  Calls = {"detect", "read"}
  detect_max_size = 10
  MaxRead = 12
INVARIANTS
  NoWaitLeft
  TimeoutHasOp
  BytesInOrder
  WaitsAndVerdicts
PROPERTY
  ImplementsTimed
CHECK_DEADLOCK FALSE
