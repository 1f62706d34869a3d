SPECIFICATION Spec
CONSTANTS
  Levels = 3
  ValueDepth = 5
  Results <- Calls
  Amounts <- NumericAtoms
  Validators <- AllValidators
  Fields <- AllFields
  DictInputs <- AllDictInputs
  JsonInputs <- AllJsonInputs
INVARIANTS TypeOK ConvertsLikeStock RaisesLikeStock JsonLikeDict PartialUnread
CHECK_DEADLOCK FALSE
