---------------------------- MODULE ObjectGraph ----------------------------
(***************************************************************************)
(* What the heap of Yog promises a script: objects that are created, found *)
(* through variables and attributes, and changed, and of which nothing     *)
(* else ever happens.  The collector does not appear: an object that can   *)
(* still be reached is there, once, with the attributes last stored.       *)
(*                                                                         *)
(* An object has one attribute; Slots are the variables (the locals of the *)
(* threads and the members of the virtual machine).                        *)
(***************************************************************************)
EXTENDS Naturals, FiniteSets

CONSTANTS Objs, Slots, Nil

VARIABLES slot,   \* slot[s]: the object in variable s, or Nil
          attr    \* attr[o]: the object in the attribute of o, or Nil, for every
                  \* object that can be reached

graphVars == <<slot, attr>>

\* The objects that are reached from the variables v through the attributes a.
Reached(v, a) ==
    LET reach[n \in 0 .. Cardinality(Objs)] ==
          IF n = 0 THEN {v[s] : s \in Slots} \ {Nil}
          ELSE LET R == reach[n - 1] IN R \cup ({a[o] : o \in R} \ {Nil})
    IN  reach[Cardinality(Objs)]

\* The variables become v and the attributes a; what cannot be reached is gone.
Becomes(v, a) ==
    /\ slot' = v
    /\ LET R == Reached(v, a) IN attr' = [o \in R |-> a[o]]

GraphInit == slot = [s \in Slots |-> Nil] /\ attr = [o \in {} |-> Nil]

\* A new object.
New(s) == \E o \in Objs \ DOMAIN attr :
    Becomes([slot EXCEPT ![s] = o],
            [p \in DOMAIN attr \cup {o} |-> IF p = o THEN Nil ELSE attr[p]])

\* A variable is assigned another variable, nothing, or an attribute.
Move(s, r) == Becomes([slot EXCEPT ![s] = slot[r]], attr)
Drop(S) == Becomes([s \in Slots |-> IF s \in S THEN Nil ELSE slot[s]], attr)
Load(s, r) == slot[r] # Nil /\ Becomes([slot EXCEPT ![s] = attr[slot[r]]], attr)

\* The attribute of the object in s is assigned what is in r, which may be used up.
Store(s, r) ==
    /\ slot[s] # Nil
    /\ \E v \in {slot, [slot EXCEPT ![r] = Nil]} :
          Becomes(v, [attr EXCEPT ![slot[s]] = slot[r]])

GraphNext ==
    \/ \E s, r \in Slots : Move(s, r)
    \/ \E s, r \in Slots : Store(s, r)
    \/ \E S \in SUBSET Slots : Drop(S)
    \/ \E s \in Slots : New(s)
    \/ \E s, r \in Slots : Load(s, r)

GraphSpec == GraphInit /\ [][GraphNext]_graphVars
=============================================================================
