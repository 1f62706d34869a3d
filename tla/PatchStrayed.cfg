CONSTANTS
  Attrs <- MCAttrs
  Wrappers = {"tracer", "cache"}
  Tasks = {"t1"}
  NoOriginal = NoOriginal
SPECIFICATION Spec
INVARIANT OriginalsAlwaysFound
