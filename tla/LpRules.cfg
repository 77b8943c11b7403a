SPECIFICATION Spec
CONSTANTS
  NoFetch = NoFetch
  Base <- MCBase
  Active <- MCActive
  Matches <- MCMatches
  MaxPasses = 3
  Queries <- MCQueries
INVARIANTS
  SidesAgree
  RowsKept
  NormalForm
