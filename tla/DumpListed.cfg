CONSTANT Calls <- UnlistedCalls
SPECIFICATION Spec
INVARIANT OnlyIteratorsListed
\* one call: it returns once
CHECK_DEADLOCK FALSE
