SPECIFICATION Spec
CONSTANTS
  UsPerSecond = 4
  PyDepth = 8
  Levels = 3
  ValueDepth = 12
  DepthLimit = 2
  ConstantNames = {"k"}
  Raising = {"r"}
  CodePoints <- AllCodePoints
  Moments <- AllMoments
  Results <- Calls
  Cases <- AllCases
INVARIANTS
  TypeOK
  DumpsLikeStock
  RerunsSeeTheSame
  BoundedNesting
CHECK_DEADLOCK FALSE
