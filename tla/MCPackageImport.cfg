\* The code may stop for ever (see the run import_waits).
SPECIFICATION Spec
CHECK_DEADLOCK FALSE
CONSTANTS
    T1 = T1
    T2 = T2
    T3 = T3
    A = A
    B = B
    C = C
    NoThread = NoThread
    Threads = {T1, T2}
    Pkgs = {A, B, C}
    Names <- MCNames
    Deps <- MCDeps
    Failing = {B}
    Collecting = {T1}
INVARIANTS
    ImportInv
    ExecutedOnce
    NeverHalfImported
    ParentFirst
PROPERTY
    PackagesStay
