---------------------------- MODULE MCHashTable ----------------------------
\* An instance of HashTable for TLC.  The table grows when it is full, from 1 bin to
\* 3 and 5; of four keys two have one hash, and a third shares their bin until there
\* are 5.
EXTENDS HashTable

SomeHashes == <<0, 0, 3, 4>>
SmallPrimes == <<1, 3, 5>>
=============================================================================
