SPECIFICATION WebSocketFairSpec
CONSTANTS
  Components = {"stream", "sync", "connect"}
  Peers <- PeersQuiet
  Messages <- WritesOne
  Settings <- Watched
  Calls <- CallsChat
  Caller = 1
  Scripts <- ScriptsTalk
  Room = 6
  MayBreak = FALSE
  Accepted <- ServerConnections
  Connected <- SilentConnections
  Timeouts <- HandshakeTimed
  Windowed <- OneWindow
PROPERTY
  CallsEnd
CHECK_DEADLOCK FALSE
