CONSTANTS
  Addresses = {"dict", "row", "model"}
  DictType = "dict"
  MaxRuns = 1
SPECIFICATION AttrSpec
INVARIANT EveryLookupLikeStock
