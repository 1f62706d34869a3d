CONSTANTS
  Keys <- MCKeys
  Values <- MCValues
  Elements <- MCElements
  None = "None"
  Missing = "Missing"
  Fail = "Fail"
  Interrupt = "Interrupt"
  Stock <- MCStock
  Schemas <- MCSchemas
  Inputs <- MCInputs
  PartialArgs <- MCPartialArgs
  Apply <- MCApply
  Check <- MCCheck
SPECIFICATION Spec
INVARIANT CollectionLikeStock
\* one record: the loop ends
CHECK_DEADLOCK FALSE
