SPECIFICATION FairSpec
CONSTANTS
  Unknown = Unknown
  Node = {"a", "b", "c"}
  Links <- Triangle
  Hash <- OwnHash
  Repeaters = {"b", "c"}
  FloodMax = 4
  LoopMax = 1
  MaxPath = 4
  TableSize = 1
  Pairs <- NoPairs
  Adverts = {"a"}
  MaxSends = 2
  Quiet = 2
  MaxLost = 0
PROPERTIES Quiesces
CHECK_DEADLOCK FALSE
