SPECIFICATION FairSpec
CONSTANTS
    Main = Main
    T1 = T1
    T2 = T2
    NoThread = NoThread
    Threads <- MCThreads
    Calls <- FewCalls
    Detached = FALSE
    CounterMod = 4
    MaxGC = 1
PROPERTIES CollectionEnds ThreadsEnd
