SPECIFICATION FairSpec
CONSTANTS
  ClockMod = 6
  AckSlots = 2
  Timeout = 2
  Chat = FALSE
  Messages <- MixedMessages
  ZeroCrcs <- NoZero
  Kinds = {"discovery", "trace"}
  Peers = {"p"}
  CallerTags = {0, 7}
  RtcTimes = {1}
  StartTimes = {0}
  MaxLate = 1
  MaxRequests = 2
  MaxTag = 1
  Restarts = TRUE
  StopTime = 6
INVARIANTS CreditedInTime
PROPERTIES NothingForgotten Settles KeepsPromise
