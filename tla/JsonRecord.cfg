CONSTANTS
  Keys <- MCKeys
  Values <- MCValues
  Elements <- MCElements
  None = "None"
  Missing = "Missing"
  Fail = "Fail"
  Interrupt = "Interrupt"
  Stock <- MCStock
  Schemas <- MCSchemas
  Objects <- MCObjects
  PartialArgs <- MCPartialArgs
  Apply <- MCApply
  Check <- MCCheck
SPECIFICATION JsonSpec
INVARIANTS
  JsonTypeOK
  JsonDoneMatchesStock
  JsonInterruptMatchesStock
  JsonFallbackJustified
\* one record: the loop ends
CHECK_DEADLOCK FALSE
