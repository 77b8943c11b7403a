SPECIFICATION Spec
CONSTANTS
  FieldSize = 1031
  Byte = 2
  None = None
  Null = Null
  MaxCols = 9
  MaxRows = 3
  ArgType = "Int16"
  Queries <- MCQueries
INVARIANTS
  AggregateIsProvable
  VerifierMirrors
  ResultIsGroupBy
