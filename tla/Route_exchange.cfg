SPECIFICATION FairSpec
CONSTANTS
  Unknown = Unknown
  Node = {"a", "b", "c", "d"}
  Links <- Kite
  Hash <- OwnHash
  Repeaters = {"b", "c"}
  FloodMax = 4
  LoopMax = 0
  MaxPath = 4
  TableSize = 3
  Pairs <- AtoD
  Adverts = {}
  MaxSends = 2
  Quiet = 0
  MaxLost = 1
INVARIANTS RoutesLead RelayOnce DeliveredOnce AckedMeansDelivered
PROPERTIES Acknowledged
CHECK_DEADLOCK FALSE
