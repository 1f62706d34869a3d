SPECIFICATION Spec
CONSTANTS
  Levels = 3
  ValueDepth = 5
  Results <- Calls
  Amounts <- NumericAtoms
  Validators <- AllValidators
  Fields <- UnlikeFields
  DictInputs <- UnlikeDicts
  JsonInputs <- UnlikeInputs
INVARIANT ConvertsLikeStock
CHECK_DEADLOCK FALSE
