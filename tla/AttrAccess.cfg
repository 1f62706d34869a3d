CONSTANTS
  Addresses = {"dict", "row", "model"}
  DictType = "dict"
  MaxRuns = 2
SPECIFICATION AttrSpec
INVARIANTS
  AttrTypeOK
  LookupLikeStock
