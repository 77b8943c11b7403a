SPECIFICATION Spec
CONSTANTS
  FieldSize = 1031
  Byte = 2
  None = None
  Null = Null
  MaxCols = 6
  MaxRows = 2
  Queries <- MCQueries
INVARIANTS
  JoinIsProvable
  VerifierMirrors
  ResultIsJoin
  StopsOnlyWhen
