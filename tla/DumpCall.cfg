CONSTANT Calls <- AllCalls
SPECIFICATION Spec
INVARIANTS
  TypeOK
  AttemptsBounded
  HooksRunOnce
PROPERTIES
  RefinesPromise
  CallReturns
\* one call: it returns once
CHECK_DEADLOCK FALSE
