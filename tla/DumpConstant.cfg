SPECIFICATION Spec
CONSTANTS
  UsPerSecond = 4
  PyDepth = 8
  Levels = 3
  ValueDepth = 12
  DepthLimit = 2
  ConstantNames = {"k", "r"}
  Raising = {"r"}
  CodePoints <- AllCodePoints
  Moments <- AllMoments
  Results <- Calls
  Cases <- Raisers
INVARIANTS DumpsLikeStock
CHECK_DEADLOCK FALSE
