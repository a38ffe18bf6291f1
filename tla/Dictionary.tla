----------------------------- MODULE Dictionary -----------------------------
(***************************************************************************)
(* What a table promises to the code that uses it (YogTable_insert,        *)
(* _lookup, _delete, _size; Dict and Set are made of them): a partial      *)
(* function from keys to values that knows its size.                       *)
(***************************************************************************)
EXTENDS Naturals, FiniteSets

CONSTANTS Keys, Values,
          Absent        \* the answer for a key that is not there

VARIABLES map,      \* the keys that are there, with their values
          size,     \* the number of keys
          found,    \* the last operation found its key
          value     \* the value it was given, or gave

Init ==
    /\ map = [x \in {} |-> Absent] /\ size = 0
    /\ found = FALSE /\ value = Absent

\* m is map before the step.  Whether the key was there or not, it has the new value.
Set(m, k, v) ==
    /\ value' = v /\ found' = (k \in DOMAIN m)
    /\ map' = [x \in DOMAIN m \cup {k} |-> IF x = k THEN v ELSE m[x]]

Get(m, k) ==
    /\ found' = (k \in DOMAIN m) /\ value' = IF k \in DOMAIN m THEN m[k] ELSE Absent
    /\ map' = m

Remove(m, k) ==
    /\ found' = (k \in DOMAIN m) /\ value' = Absent
    /\ map' = [x \in DOMAIN m \ {k} |-> m[x]]

Next ==
    /\ LET m == map
       IN  \E k \in Keys : Get(m, k) \/ Remove(m, k) \/ \E v \in Values : Set(m, k, v)
    /\ size' = Cardinality(DOMAIN map')

Spec == Init /\ [][Next]_<<map, size, found, value>>

=============================================================================
