CONSTANT Calls <- OverrideCalls
SPECIFICATION Spec
INVARIANT DumpsLikeDump
\* one call: it returns once
CHECK_DEADLOCK FALSE
