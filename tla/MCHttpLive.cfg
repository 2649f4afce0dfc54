SPECIFICATION HttpFairSpec
CONSTANTS
  Parts = {"ops", "header", "read", "write", "params", "tokens", "exts", "body", "transmit"}
  Header = 2
  Bodies <- AllBodies
  Calls <- OtherCalls
  MaxErrors = 1
  MaxMessages = 1
  Messages <- FewMessages
  PieceSizes = {0, 1}
  MaxBody = 2
  MaxFields = 3
  MaxElements = 2
  Length = 4
  FileModes = {"read", "write_new", "write_existing", "append"}
  Fails = {"open", "close", "read", "write"}
  FileSize = 1
  MaxLen = 2
  NotKnown = NotKnown
PROPERTY
  OperationsEnd
CHECK_DEADLOCK FALSE
