SPECIFICATION FairSpec
CONSTANTS
  Node <- MCNode
  Detached = {"gone"}
  None = None
  Scan = {"scan"}
  OracleComs <- MCOracleComs
  Entry <- MCEntry
  Owner <- MCOwner
  TableNo <- MCTableNo
  Name <- MCName
  Poly <- MCPoly
  PcsCommit <- MCPcsCommit
  MleDigest <- MCMleDigest
INVARIANTS
  CacheSound
PROPERTIES
  MsmOnlyOnOverlap
  Terminates
  ImplementsPass
CHECK_DEADLOCK FALSE
