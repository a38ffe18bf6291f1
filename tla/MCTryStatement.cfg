\* A function returns or raises.
SPECIFICATION Spec
CHECK_DEADLOCK FALSE
CONSTANTS
    Programs <- NestedTry
    MaxCalls = 8
INVARIANT
    FinallyAlways
