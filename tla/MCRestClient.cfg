SPECIFICATION ProgramSpec
CONSTANTS
  Parts = {"threads", "rate"}
  Subscribers = 2
  Minute = 6
  Slots = 8
  AnswerTime = 4
INVARIANTS
  LatePostsBounded
  UsesLiveObjects
  ClientToldWhy
  PaceSuffices
PROPERTY
  EndsAfterStop
