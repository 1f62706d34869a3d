CONSTANTS
  Attrs <- MCAttrs
  Wrappers = {"tracer", "cache"}
  Tasks = {"t1"}
  NoOriginal = NoOriginal
SPECIFICATION Spec
INVARIANTS
  TypeOK
  OriginalsAreFound
  CoreEnteredOnce
  UninstalledIsStock
PROPERTIES
  NoForeignPatchClobbered
  CallsEnd
