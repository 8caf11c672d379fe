SPECIFICATION FairSpec
CONSTANTS
  Unknown = Unknown
  Node = {"a", "b", "r", "s", "x", "y"}
  Links <- Line
  Hash <- MCHash
  Repeaters = {"r", "s"}
  Contacts <- MCContacts
  Channels <- MCChannels
  ChannelHash <- MCChannelHash
  Routes <- MCRoutes
  ExtraAcks = 1
  MaxPath = 3
  Sends <- MCSends
  MaxFaults = 1
  Quiet = 0
INVARIANTS RightParties GroupOnce AckBudget
PROPERTIES AckSurvives GroupReaches
CHECK_DEADLOCK TRUE
