SPECIFICATION FairSpec
CONSTANTS
    T1 = T1
    T2 = T2
    T3 = T3
    A = A
    B = B
    NoThread = NoThread
    NoName = NoName
    Threads = {T1, T2, T3}
    Names = {A, B}
    Collecting = {T1}
    PreferWriter = TRUE
INVARIANTS
    SymbolInv
    SymbolsUnique
    SymbolsFound
PROPERTIES
    NamesStay
    CallsReturn
