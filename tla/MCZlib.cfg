SPECIFICATION ZlibSpec
CONSTANTS
  Parts = {"plain", "others", "message", "inflate", "again", "tree", "lengths", "bits", "table", "tables"}
  Repeats <- Repetitive
  Rooms = {2, 100}
  MaxCalls = 1
  Streams <- AllStreams
  Restarted <- FewStreams
  MaxSends = 3
INVARIANTS
  StreamsRoundTrip
  CodesRoundTrip
PROPERTY
  NothingHeldBack
CHECK_DEADLOCK FALSE
