SPECIFICATION Spec
CONSTANTS
  Rows <- MCRows
  NoFetch = NoFetch
  Scans <- MCScans
  Plans <- MCPlans
  Sizes <- MCSizes
INVARIANTS
  HintsAgree
  Mirrors
  ClaimsHold
  ResultProved
CHECK_DEADLOCK FALSE
