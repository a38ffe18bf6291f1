SPECIFICATION Spec
CONSTANTS
    Keys = {1, 2, 3, 4}
    Values = {a, b}
    Absent = Absent
    Hash <- SomeHashes
    MinSize = 2
    Primes <- SmallPrimes
    MaxDensity = 0
INVARIANTS
    TableInv
    TableShape
PROPERTIES
    EachVisitsOnce
    IsDictionary
