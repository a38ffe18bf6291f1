SPECIFICATION FairSpec
CHECK_DEADLOCK FALSE
CONSTANTS
    T1 = T1
    T2 = T2
    T3 = T3
    A = A
    B = B
    C = C
    NoThread = NoThread
    Threads = {T1, T2}
    Pkgs = {A}
    Names <- OneName
    Deps <- NoDeps
    Failing = {}
    Collecting = {}
PROPERTY
    ImportReturns
