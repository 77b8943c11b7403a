SPECIFICATION Spec
CONSTANTS
  FieldSize = 1031
  Byte = 2
  None = None
  Null = Null
  MaxCols = 10
  Debug = TRUE
  Queries <- MCQueries
INVARIANTS
  ProjectedIsComputed
  FilterKeepsWhatHolds
  VerifierMirrors
  PanicOnlyOnBareOrError
