SPECIFICATION FairSpec
CONSTANTS
  Node <- MCNode
  Arena <- MCArena
  Kind <- MCKind
  Column <- MCColumn
  Cols <- MCCols
  Table = {"t"}
  TableOf <- MCTableOf
  BaseTable = {"lineitem"}
  BaseOf <- MCBaseOf
  GadgetComs <- MCGadgetComs
  ResultCols = 2
  ResultGadget = "resgad"
  MatChoices <- MCMatChoices
  MaxRows = 3
  MaxLog = 2
  MaxVersion = 1
  MaxVerify = 2
INVARIANTS
  TrackersInStep
  EverythingConsumed
  AcceptMeansProved
  SameVerdict
  PanicOnlyOnOracle
PROPERTIES
  StopAtFirstError
  HonestAccepted
CHECK_DEADLOCK FALSE
