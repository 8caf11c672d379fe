SPECIFICATION Spec
CONSTANTS
  MaxPathLen = 4
  FloodMax = 2
  Node <- MCNode
  PubKey <- MCPubKey
  Policy <- MCPolicy
  Frames <- MCFrames
  MaxPayload = 15
  MaxFrame = 25
  AnonHead = 3
  AdvertHead = 5
  DelayBits = 6
  MaxRelays = 4
CHECK_DEADLOCK TRUE
INVARIANTS Faithful ReadersAgree PathTellsTrail HopLimit FloodsEnd TraceInOrder TraceNotSeen UrgencyKept
