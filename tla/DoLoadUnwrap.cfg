CONSTANT Calls <- UnwrapCalls
SPECIFICATION Spec
INVARIANT IdenticalOutcome
CHECK_DEADLOCK FALSE
