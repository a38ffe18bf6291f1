\* The code may copy an object twice ("doubled"), and the model stops there.
SPECIFICATION FairSpec
CHECK_DEADLOCK FALSE
CONSTANTS
    Main = Main
    T1 = T1
    A = A
    B = B
    Nil = Nil
    Threads = {Main, T1}
    Slots <- MCSlots
    Objs = {A, B}
    max_age = 2
INVARIANTS
    HeapInv
    RememberedExact
    OneCopy
PROPERTIES
    CollectionsInvisible
    CollectionEnds
