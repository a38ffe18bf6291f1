SPECIFICATION FairSpec
CONSTANTS
    Main = Main
    T1 = T1
    T2 = T2
    NoThread = NoThread
    Threads <- MCThreads
    Calls <- NoJoinCalls
    Detached = TRUE
    CounterMod = 4
    MaxGC = 1
PROPERTY ThreadsEnd
