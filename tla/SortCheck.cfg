SPECIFICATION Spec
CONSTANTS
  FieldSize = 1031
  Byte = 2
  None = None
  Null = Null
  MaxCols = 3
  MaxRows = 3
  Types = {"Int16", "UInt16", "Timestamp"}
  Inputs <- MCInputs
INVARIANTS
  SortedIsProvable
  VerifierMirrors
  ShownIsOutput
  AcceptedHasNoRepeats
