---------------------------- MODULE StopTheWorld ----------------------------
(***************************************************************************)
(* What the collector of Yog promises the rest of the virtual machine: a   *)
(* collection moves and frees objects only while no other thread can read  *)
(* or write the heap.  mutators is the set of threads that may touch heap  *)
(* objects at any moment, collector the thread whose call of the collector *)
(* (src/gc.c, run_gc) is in progress.                                      *)
(*                                                                         *)
(* The module says nothing of locks, counters or condition variables; the  *)
(* handshake that implements it is in GCSuspend.                           *)
(***************************************************************************)
CONSTANTS Threads,   \* the threads of the interpreter
          NoThread   \* not a member of Threads

VARIABLES mutators, collector

stwVars == <<mutators, collector>>

STWInit == collector = NoThread /\ mutators \in SUBSET Threads

\* A thread starts, or goes on, to use the heap: never during a collection.
Resume(t) == /\ collector = NoThread
             /\ t \notin mutators
             /\ mutators' = mutators \cup {t}
             /\ UNCHANGED collector

\* A thread stops using the heap: it parks, blocks in a call or ends.
Pause(t) == /\ t \in mutators
            /\ mutators' = mutators \ {t}
            /\ UNCHANGED collector

\* A thread begins a collection once it alone uses the heap, or nobody does.
Collect(t) == /\ collector = NoThread
              /\ mutators \subseteq {t}
              /\ collector' = t
              /\ mutators' = {}

\* The collection ends and its thread uses the heap again.
Release(t) == /\ collector = t
              /\ collector' = NoThread
              /\ mutators' = {t}

STWNext == \E t \in Threads : Resume(t) \/ Pause(t) \/ Collect(t) \/ Release(t)

STWSpec == STWInit /\ [][STWNext]_stwVars
=============================================================================
