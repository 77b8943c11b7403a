SPECIFICATION Spec
CONSTANTS
  Rows <- MCRows
  NoFetch = NoFetch
  Scans <- FullScan
  Plans <- LimitPlans
  Sizes <- MCSizes
INVARIANT MirrorTheProver
CHECK_DEADLOCK FALSE
