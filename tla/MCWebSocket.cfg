SPECIFICATION WebSocketSpec
CONSTANTS
  Components = {"stream", "sync", "accept", "connect", "pmd", "rules", "lengths", "payload", "utf8", "words"}
  Peers <- PeersTalk
  Messages <- WritesTwo
  Settings <- Timed
  Calls <- CallsTalk
  Caller = 2
  Scripts <- ScriptsTalk
  Room = 3
  MayBreak = TRUE
  Accepted <- ServerConnections
  Connected <- ClientConnections
  Timeouts <- AnyTimeouts
  Windowed <- AllWindows
INVARIANTS
  LocksHeld
  MessagesSurvive
  PeersUnderstand
PROPERTY
  TimeoutsAreTold
CHECK_DEADLOCK FALSE
