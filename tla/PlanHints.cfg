SPECIFICATION HintSpec
CONSTANTS
  Plans <- MCPlans
  RuleLists <- AllRules
  MaxRows = 4
INVARIANTS
  HintsApply
  SamePlan
  WrapsInPlace
CHECK_DEADLOCK FALSE
