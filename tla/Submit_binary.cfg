SPECIFICATION Spec
CONSTANTS
  MaxPathLen = 64
  Hosts <- MCHosts
  Lens <- MCLens
  Paths <- MCPaths
  Hops <- MCHops
  ForeignData <- MCForeignData
  FloodMax = 63
CHECK_DEADLOCK TRUE
INVARIANTS BinaryReachesHost
