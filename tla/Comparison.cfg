SPECIFICATION Spec
CONSTANTS
  FieldSize = 262139
  Byte = 2
  Rows = {1}
  None = None
  Types <- MCTypes
  Samples <- Bounds
  Outputs = {0, 1, 2}
  CheckHonest = TRUE
INVARIANTS
  AcceptedIsCorrect
  VerifierMirrors
  ComputedIsProvable
  RejectedIsWrong
