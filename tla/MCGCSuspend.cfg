SPECIFICATION Spec
CONSTANTS
    Main = Main
    T1 = T1
    T2 = T2
    NoThread = NoThread
    Threads <- MCThreads
    Calls <- AllCalls
    Detached = FALSE
    CounterMod = 4
    MaxGC = 2
INVARIANTS
    TypeOK
    HandshakeInv
    WorldStopped
    CounterExact
    RootsRegistered
PROPERTIES
    CountedThreadsFrozen
    StopsTheWorld
