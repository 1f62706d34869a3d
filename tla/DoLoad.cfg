CONSTANT Calls <- ReplayableCalls
SPECIFICATION Spec
INVARIANTS
  TypeOK
  HooksRunAgainOnlyAfterDeferral
  RecordsLoadAgainOnlyAfterDeferral
PROPERTIES
  RefinesPromise
  CallReturns
\* one call: it returns once
CHECK_DEADLOCK FALSE
