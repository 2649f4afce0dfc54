SPECIFICATION StreamsFairSpec
CONSTANTS
  Parts = {"basic", "transfers", "test", "flat", "icy", "buffered", "detect"}
  BasicOps = 2
  Limited = TRUE
  Limit = 1
  MaxBytes = 2
  MaxOps = 6
  Sizes = {1}
  MaxCalls = 2
  MaxArrived = 1
  FailCounts <- OnlyNever
  Shapes <- FullShapes
  IcyMaxFailures = 0
  BufferedMaxFailures = 0
  MaxChanges = 0
  AtLeast = 12
  MaxSent = 9
  MaxPreload = 0
  ReadMax = 1
  WriteMax = 2
  Never = Never
  flat_max_size = 4
  max_stack = 3
  Streams <- SomeStreams
  IcySizes = {0, 1, 4}
  Length = 5
  BufferedSizes = {0, 1, 3}
  Capacities = {0, 1, 2, 5}
  buffered_max_size = 4
  Floor = 3
  Calls = {"detect", "read"}
  detect_max_size = 10
  MaxRead = 12
INVARIANT
  SliceBound
PROPERTY
  StreamsSettle
CHECK_DEADLOCK FALSE
