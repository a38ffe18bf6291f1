\* A script ends, and the code may go wrong in a jump ("crossed", "swallowed").
SPECIFICATION Spec
CHECK_DEADLOCK FALSE
CONSTANTS
    MaxFrames = 6
    MaxFuncs = 3
    MaxDepth = 6
    PoolMax <- SmallPools
INVARIANTS
    
    BuffersLive
    PooledAreDead
    BlocksReturnToCaller
PROPERTY
    JumpsExact
