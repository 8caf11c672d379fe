SPECIFICATION Spec
CONSTANTS
  ClockMod = 12
  AckSlots = 2
  Timeout = 2
  Chat = TRUE
  Messages <- MixedMessages
  ZeroCrcs <- OneZero
  Kinds = {"telemetry", "binary"}
  Peers = {"p"}
  CallerTags = {0}
  RtcTimes = {1, 2}
  StartTimes = {10}
  MaxLate = 1
  MaxRequests = 3
  MaxTag = 3
  Restarts = FALSE
  StopTime = 1
INVARIANTS TypeOK RightRequest AtMostOnce ExpiryIsDue
PROPERTIES NothingForgotten
