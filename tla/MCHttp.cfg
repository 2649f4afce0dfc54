SPECIFICATION HttpSpec
CONSTANTS
  Parts = {"ops", "header", "read", "write", "fields", "message", "params", "tokens", "exts", "posix", "stdio", "win32", "body", "transmit"}
  Header = 2
  Bodies <- AllBodies
  Calls <- OtherCalls
  MaxErrors = 1
  MaxMessages = 2
  Messages <- AllMessages
  PieceSizes = {0, 1, 2}
  MaxBody = 3
  MaxFields = 3
  MaxElements = 2
  Length = 5
  FileModes = {"read", "write_new", "write_existing", "append"}
  Fails = {"open", "close", "read", "write"}
  FileSize = 1
  MaxLen = 3
  NotKnown = NotKnown
INVARIANTS
  SentOnce
  ReadsAreWhole
  WritesAreWhole
  ReadersFindAll
PROPERTY
  StepsKeepPromises
CHECK_DEADLOCK FALSE
