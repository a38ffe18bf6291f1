--------------------------- MODULE GCSuspendProofs ---------------------------
(***************************************************************************)
(* Proofs about the stop-the-world handshake of GCSuspend: type            *)
(* correctness for every script, and the exact counter, the stopped world, *)
(* the registered roots and the refinement of StopTheWorld for scripts     *)
(* that join their threads.                                                *)
(***************************************************************************)
EXTENDS GCSuspend, FiniteSetTheorems, TLAPS

-----------------------------------------------------------------------------
(* Cardinality.                                                            *)

\* suspend_counter can hold the number of threads that count_running_threads
\* (src/gc.c) finds, less the caller's own.
LEMMA CountedFits ==
    ASSUME TypeOK
    PROVE  /\ IsFiniteSet(CountedThreads)
           /\ Cardinality(CountedThreads) \in Nat
           /\ Cardinality(CountedThreads) < CounterMod
           /\ CounterMod \in Nat \ {0}
<1>1. CountedThreads \in SUBSET Threads
  BY DEF CountedThreads, TypeOK
<1>2. /\ IsFiniteSet(CountedThreads)
      /\ Cardinality(CountedThreads) <= Cardinality(Threads)
  BY <1>1, ThreadsAssumption, FS_Subset
<1>3. Cardinality(CountedThreads) \in Nat /\ Cardinality(Threads) \in Nat
  BY <1>2, ThreadsAssumption, FS_CardinalityType
<1> QED
  BY <1>2, <1>3, BoundsAssumption

\* The caller of count_running_threads counts itself, so the counter it sets is
\* a number of other threads.
LEMMA CountedOthers ==
    ASSUME TypeOK, NEW t \in CountedThreads
    PROVE  /\ Cardinality(CountedThreads) - 1 \in 0 .. CounterMod - 1
           /\ Cardinality(CountedThreads \ {t}) = Cardinality(CountedThreads) - 1
<1>1. /\ Cardinality(CountedThreads \ {t}) = Cardinality(CountedThreads) - 1
      /\ IsFiniteSet(CountedThreads \ {t})
  BY CountedFits, FS_RemoveElement
<1>2. Cardinality(CountedThreads \ {t}) \in Nat
  BY <1>1, FS_CardinalityType
<1> QED
  BY <1>1, <1>2, CountedFits

-----------------------------------------------------------------------------
(* What holds for every script.                                            *)

LEMMA InitBasic == Init => BasicInv
<1> SUFFICES ASSUME Init PROVE BasicInv
  OBVIOUS
<1> USE ThreadsAssumption DEF Init, InHeap, Loops, PCs
<1>1. CounterMod \in Nat \ {0}
  <2>1. Cardinality(Threads) \in Nat
    BY FS_CardinalityType
  <2> QED
    BY <2>1, BoundsAssumption
<1>2. TypeOK
  <2>1. running_gc \in BOOLEAN /\ waiting_suspend \in BOOLEAN
    OBVIOUS
  <2>2. /\ pc \in [Threads -> PCs]
        /\ ret \in [Threads -> Loops \cup {"alloc", "performed"}]
        /\ seen \in [Threads -> Nat]
        /\ child \in [Threads -> Threads \cup {NoThread}]
        /\ gc_bound \in [Threads -> BOOLEAN]
    OBVIOUS
  <2>3. suspend_counter \in 0 .. CounterMod - 1 /\ gc_id \in Nat
    BY <1>1
  <2> QED
    BY <2>1, <2>2, <2>3 DEF TypeOK
<1>3. CountedInv
  BY DEF CountedInv, Inside, Outside
<1>4. LifeInv
  BY DEF LifeInv, Creating
<1>5. RootsInv
  BY DEF RootsInv
<1> QED
  BY <1>2, <1>3, <1>4, <1>5 DEF BasicInv

\* Every step of gc.c, vm.c and thread.c keeps registered and counted the
\* threads that use the heap, and registered the roots they use it through.
LEMMA BasicInductive ==
    ASSUME BasicInv, [Next]_vars
    PROVE  BasicInv'
<1>0. Decremented \in 0 .. CounterMod - 1
  BY CountedFits DEF Decremented, TypeOK, BasicInv
<1>a. \A t \in CountedThreads : Cardinality(CountedThreads) - 1 \in 0 .. CounterMod - 1
  BY CountedOthers DEF BasicInv
<1>SuspendLoop. ASSUME NEW t \in Threads, NEW l \in Loops, SuspendLoop(t, l) PROVE BasicInv'
  <2> USE ThreadsAssumption DEF BasicInv, TypeOK, InHeap, Loops, PCs, listVars, gcVars,
     threadVars
  <2>1. /\ pc' = [pc EXCEPT ![t] = "gc_finish"]
        /\ ret' = [ret EXCEPT ![t] = l]
        /\ UNCHANGED <<child, joined, running_threads, gc_bound, locals, handles>>
    BY <1>SuspendLoop DEF SuspendLoop, Suspend, WaitGCFinish, AtLoop, Resumed, Goto
  <2>2. AtLoop(t, l) /\ l # "bind"
    BY <1>SuspendLoop DEF SuspendLoop
  <2>3. TypeOK'
    BY <1>SuspendLoop, <1>0 DEF SuspendLoop, Suspend, WaitGCFinish, AtLoop, Resumed, Goto
  <2>4. CountedInv'
    BY <2>1, <2>2 DEF CountedInv, Inside, Outside, AtLoop, Resumed
  <2>5. LifeInv'
    BY <1>SuspendLoop, <2>1, <2>2 DEF LifeInv, Creating, AtLoop, Resumed, SuspendLoop,
       Suspend, WaitGCFinish, AtLoop, Resumed, Goto
  <2>6. RootsInv'
    BY <2>1, <2>2 DEF RootsInv, AtLoop, Resumed
  <2> QED
    BY <2>3, <2>4, <2>5, <2>6
<1>AllocSuspend. ASSUME NEW t \in Threads, AllocSuspend(t) PROVE BasicInv'
  <2> USE ThreadsAssumption DEF BasicInv, TypeOK, InHeap, Loops, PCs, listVars, gcVars,
     threadVars
  <2>1. /\ pc' = [pc EXCEPT ![t] = "gc_finish"]
        /\ ret' = [ret EXCEPT ![t] = "alloc"]
        /\ UNCHANGED <<child, joined, running_threads, gc_bound, locals, handles>>
    BY <1>AllocSuspend DEF AllocSuspend, Suspend, WaitGCFinish, Goto
  <2>2. pc[t] = "alloc_lock"
    BY <1>AllocSuspend DEF AllocSuspend
  <2>3. TypeOK'
    BY <1>AllocSuspend, <1>0 DEF AllocSuspend, Suspend, WaitGCFinish, Goto
  <2>4. CountedInv'
    BY <2>1, <2>2 DEF CountedInv, Inside, Outside, AtLoop, Resumed
  <2>5. LifeInv'
    BY <1>AllocSuspend, <2>1, <2>2 DEF LifeInv, Creating, AtLoop, Resumed, AllocSuspend,
       Suspend, WaitGCFinish, Goto
  <2>6. RootsInv'
    BY <2>1, <2>2 DEF RootsInv, AtLoop, Resumed
  <2> QED
    BY <2>3, <2>4, <2>5, <2>6
<1>ReturnFromSuspend. ASSUME NEW t \in Threads, ReturnFromSuspend(t) PROVE BasicInv'
  <2> USE ThreadsAssumption DEF BasicInv, TypeOK, InHeap, Loops, PCs, listVars, gcVars,
     threadVars
  <2>1. TypeOK'
    BY <1>ReturnFromSuspend DEF ReturnFromSuspend, Resumed, Goto
  <2>2. CountedInv'
    BY <1>ReturnFromSuspend DEF ReturnFromSuspend, Resumed, Goto, CountedInv, Inside,
       Outside
  <2>3. LifeInv'
    BY <1>ReturnFromSuspend DEF ReturnFromSuspend, Resumed, Goto, LifeInv, Creating
  <2>4. RootsInv'
    BY <1>ReturnFromSuspend DEF ReturnFromSuspend, Resumed, Goto, RootsInv
  <2> QED
    BY <2>1, <2>2, <2>3, <2>4
<1>AllocObject. ASSUME NEW t \in Threads, AllocObject(t) PROVE BasicInv'
  <2> USE ThreadsAssumption DEF BasicInv, TypeOK, InHeap, Loops, PCs, listVars, gcVars,
     threadVars
  <2>1. TypeOK'
    BY <1>AllocObject DEF AllocObject, Goto
  <2>2. CountedInv'
    BY <1>AllocObject DEF AllocObject, Goto, CountedInv, Inside, Outside
  <2>3. LifeInv'
    BY <1>AllocObject DEF AllocObject, Goto, LifeInv, Creating
  <2>4. RootsInv'
    BY <1>AllocObject DEF AllocObject, Goto, RootsInv
  <2> QED
    BY <2>1, <2>2, <2>3, <2>4
<1>AskForGC. ASSUME NEW t \in Threads, AskForGC(t) PROVE BasicInv'
  <2> USE ThreadsAssumption DEF BasicInv, TypeOK, InHeap, Loops, PCs, listVars, gcVars,
     threadVars
  <2>1. TypeOK'
    BY <1>AskForGC DEF AskForGC, Goto
  <2>2. CountedInv'
    BY <1>AskForGC DEF AskForGC, Goto, CountedInv, Inside, Outside
  <2>3. LifeInv'
    BY <1>AskForGC DEF AskForGC, Goto, LifeInv, Creating
  <2>4. RootsInv'
    BY <1>AskForGC DEF AskForGC, Goto, RootsInv
  <2> QED
    BY <2>1, <2>2, <2>3, <2>4
<1>PerformSuspend. ASSUME NEW t \in Threads, PerformSuspend(t) PROVE BasicInv'
  <2> USE ThreadsAssumption DEF BasicInv, TypeOK, InHeap, Loops, PCs, listVars, gcVars,
     threadVars
  <2>1. /\ pc' = [pc EXCEPT ![t] = "gc_finish"]
        /\ ret' = [ret EXCEPT ![t] = "performed"]
        /\ UNCHANGED <<child, joined, running_threads, gc_bound, locals, handles>>
    BY <1>PerformSuspend DEF PerformSuspend, Suspend, WaitGCFinish, Goto
  <2>2. pc[t] = "perform"
    BY <1>PerformSuspend DEF PerformSuspend
  <2>3. TypeOK'
    BY <1>PerformSuspend, <1>0 DEF PerformSuspend, Suspend, WaitGCFinish, Goto
  <2>4. CountedInv'
    BY <2>1, <2>2 DEF CountedInv, Inside, Outside, AtLoop, Resumed
  <2>5. LifeInv'
    BY <1>PerformSuspend, <2>1, <2>2 DEF LifeInv, Creating, AtLoop, Resumed,
       PerformSuspend, Suspend, WaitGCFinish, Goto
  <2>6. RootsInv'
    BY <2>1, <2>2 DEF RootsInv, AtLoop, Resumed
  <2> QED
    BY <2>3, <2>4, <2>5, <2>6
<1>PerformStart. ASSUME NEW t \in Threads, PerformStart(t) PROVE BasicInv'
  <2> USE ThreadsAssumption DEF BasicInv, TypeOK, InHeap, Loops, PCs, listVars, gcVars,
     threadVars
  <2>1. TypeOK'
    <3>1. running_gc' \in BOOLEAN /\ waiting_suspend' \in BOOLEAN
      BY <1>PerformStart DEF PerformStart
    <3>2. pc' \in [Threads -> PCs] /\ asleep' \in SUBSET Threads
      BY <1>PerformStart DEF PerformStart, Goto
    <3>3. suspend_counter' \in 0 .. CounterMod - 1
      <4>1. t \in CountedThreads
        BY <1>PerformStart DEF PerformStart, CountedThreads, CountedInv, Inside
      <4> QED
        BY <1>PerformStart, <1>a, <4>1 DEF PerformStart
    <3>4. UNCHANGED <<ret, seen, child, listVars, gc_id>>
      BY <1>PerformStart DEF PerformStart, Goto
    <3> QED
      BY <3>1, <3>2, <3>3, <3>4
  <2>2. CountedInv'
    BY <1>PerformStart DEF PerformStart, Goto, CountedInv, Inside, Outside
  <2>3. LifeInv'
    BY <1>PerformStart DEF PerformStart, Goto, LifeInv, Creating
  <2>4. RootsInv'
    BY <1>PerformStart DEF PerformStart, Goto, RootsInv
  <2> QED
    BY <2>1, <2>2, <2>3, <2>4
<1>WaitSuspend. ASSUME NEW t \in Threads, WaitSuspend(t) PROVE BasicInv'
  <2> USE ThreadsAssumption DEF BasicInv, TypeOK, InHeap, Loops, PCs, listVars, gcVars,
     threadVars
  <2>1. TypeOK'
    BY <1>WaitSuspend DEF WaitSuspend, Goto
  <2>2. CountedInv'
    BY <1>WaitSuspend DEF WaitSuspend, Goto, CountedInv, Inside, Outside
  <2>3. LifeInv'
    BY <1>WaitSuspend DEF WaitSuspend, Goto, LifeInv, Creating
  <2>4. RootsInv'
    BY <1>WaitSuspend DEF WaitSuspend, Goto, RootsInv
  <2> QED
    BY <2>1, <2>2, <2>3, <2>4
<1>PerformEnd. ASSUME NEW t \in Threads, PerformEnd(t) PROVE BasicInv'
  <2> USE ThreadsAssumption DEF BasicInv, TypeOK, InHeap, Loops, PCs, listVars, gcVars,
     threadVars
  <2>1. TypeOK'
    <3>1. running_gc' \in BOOLEAN /\ waiting_suspend' \in BOOLEAN
      BY <1>PerformEnd DEF PerformEnd
    <3>2. pc' \in [Threads -> PCs] /\ asleep' \in SUBSET Threads
      BY <1>PerformEnd DEF PerformEnd, Goto
    <3>3. gc_id' \in Nat
      BY <1>PerformEnd DEF PerformEnd, Goto
    <3>4. UNCHANGED <<ret, seen, child, suspend_counter, listVars>>
      BY <1>PerformEnd DEF PerformEnd, Goto
    <3> QED
      BY <3>1, <3>2, <3>3, <3>4
  <2>2. CountedInv'
    BY <1>PerformEnd DEF PerformEnd, Goto, CountedInv, Inside, Outside
  <2>3. LifeInv'
    BY <1>PerformEnd DEF PerformEnd, Goto, LifeInv, Creating
  <2>4. RootsInv'
    BY <1>PerformEnd DEF PerformEnd, Goto, RootsInv
  <2> QED
    BY <2>1, <2>2, <2>3, <2>4
<1>AfterPerform. ASSUME NEW t \in Threads, AfterPerform(t) PROVE BasicInv'
  <2> USE ThreadsAssumption DEF BasicInv, TypeOK, InHeap, Loops, PCs, listVars, gcVars,
     threadVars
  <2>1. TypeOK'
    BY <1>AfterPerform DEF AfterPerform, Goto
  <2>2. CountedInv'
    BY <1>AfterPerform DEF AfterPerform, Goto, CountedInv, Inside, Outside
  <2>3. LifeInv'
    BY <1>AfterPerform DEF AfterPerform, Goto, LifeInv, Creating
  <2>4. RootsInv'
    BY <1>AfterPerform DEF AfterPerform, Goto, RootsInv
  <2> QED
    BY <2>1, <2>2, <2>3, <2>4
<1>WaitAgain. ASSUME NEW t \in Threads, WaitAgain(t) PROVE BasicInv'
  <2> USE ThreadsAssumption DEF BasicInv, TypeOK, InHeap, Loops, PCs, listVars, gcVars,
     threadVars
  <2>1. TypeOK'
    BY <1>WaitAgain DEF WaitAgain, Goto
  <2>2. CountedInv'
    BY <1>WaitAgain DEF WaitAgain, Goto, CountedInv, Inside, Outside
  <2>3. LifeInv'
    BY <1>WaitAgain DEF WaitAgain, Goto, LifeInv, Creating
  <2>4. RootsInv'
    BY <1>WaitAgain DEF WaitAgain, Goto, RootsInv
  <2> QED
    BY <2>1, <2>2, <2>3, <2>4
<1>FreeFromGC. ASSUME NEW t \in Threads, FreeFromGC(t) PROVE BasicInv'
  <2> USE ThreadsAssumption DEF BasicInv, TypeOK, InHeap, Loops, PCs, listVars, gcVars,
     threadVars
  <2>1. TypeOK'
    BY <1>FreeFromGC DEF FreeFromGC, LoopDone, AtLoop, Resumed, Goto
  <2>2. CountedInv'
    BY <1>FreeFromGC DEF FreeFromGC, LoopDone, AtLoop, Resumed, Goto, CountedInv, Inside,
       Outside
  <2>3. LifeInv'
    BY <1>FreeFromGC DEF FreeFromGC, LoopDone, AtLoop, Resumed, Goto, LifeInv, Creating
  <2>4. RootsInv'
    BY <1>FreeFromGC DEF FreeFromGC, LoopDone, AtLoop, Resumed, Goto, RootsInv
  <2> QED
    BY <2>1, <2>2, <2>3, <2>4
<1>CallReturns. ASSUME NEW t \in Threads, CallReturns(t) PROVE BasicInv'
  <2> USE ThreadsAssumption DEF BasicInv, TypeOK, InHeap, Loops, PCs, listVars, gcVars,
     threadVars
  <2>1. TypeOK'
    BY <1>CallReturns DEF CallReturns, Goto
  <2>2. CountedInv'
    BY <1>CallReturns DEF CallReturns, Goto, CountedInv, Inside, Outside
  <2>3. LifeInv'
    BY <1>CallReturns DEF CallReturns, Goto, LifeInv, Creating
  <2>4. RootsInv'
    BY <1>CallReturns DEF CallReturns, Goto, RootsInv
  <2> QED
    BY <2>1, <2>2, <2>3, <2>4
<1>BindWait. ASSUME NEW t \in Threads, BindWait(t) PROVE BasicInv'
  <2> USE ThreadsAssumption DEF BasicInv, TypeOK, InHeap, Loops, PCs, listVars, gcVars,
     threadVars
  <2>1. /\ pc' = [pc EXCEPT ![t] = "gc_finish"]
        /\ ret' = [ret EXCEPT ![t] = "bind"]
        /\ UNCHANGED <<child, joined, running_threads, gc_bound, locals, handles>>
    BY <1>BindWait DEF BindWait, WaitGCFinish, AtLoop, Resumed, Goto
  <2>2. AtLoop(t, "bind")
    BY <1>BindWait DEF BindWait
  <2>3. TypeOK'
    BY <1>BindWait, <1>0 DEF BindWait, WaitGCFinish, AtLoop, Resumed, Goto
  <2>4. CountedInv'
    BY <2>1, <2>2 DEF CountedInv, Inside, Outside, AtLoop, Resumed
  <2>5. LifeInv'
    BY <1>BindWait, <2>1, <2>2 DEF LifeInv, Creating, AtLoop, Resumed, BindWait,
       WaitGCFinish, AtLoop, Resumed, Goto
  <2>6. RootsInv'
    BY <2>1, <2>2 DEF RootsInv, AtLoop, Resumed
  <2> QED
    BY <2>3, <2>4, <2>5, <2>6
<1>BindToGC. ASSUME NEW t \in Threads, BindToGC(t) PROVE BasicInv'
  <2> USE ThreadsAssumption DEF BasicInv, TypeOK, InHeap, Loops, PCs, listVars, gcVars,
     threadVars
  <2>1. TypeOK'
    BY <1>BindToGC DEF BindToGC, LoopDone, AtLoop, Resumed, Goto
  <2>2. CountedInv'
    BY <1>BindToGC DEF BindToGC, LoopDone, AtLoop, Resumed, Goto, CountedInv, Inside,
       Outside
  <2>3. LifeInv'
    BY <1>BindToGC DEF BindToGC, LoopDone, AtLoop, Resumed, Goto, LifeInv, Creating
  <2>4. RootsInv'
    BY <1>BindToGC DEF BindToGC, LoopDone, AtLoop, Resumed, Goto, RootsInv
  <2> QED
    BY <2>1, <2>2, <2>3, <2>4
<1>AddThread. ASSUME NEW t \in Threads, AddThread(t) PROVE BasicInv'
  <2> USE ThreadsAssumption DEF BasicInv, TypeOK, InHeap, Loops, PCs, listVars, gcVars,
     threadVars
  <2>1. TypeOK'
    BY <1>AddThread DEF AddThread, LoopDone, AtLoop, Resumed, Goto, LifeInv, Creating
  <2>2. CountedInv'
    BY <1>AddThread DEF AddThread, LoopDone, AtLoop, Resumed, Goto, CountedInv, Inside,
       Outside, LifeInv, Creating
  <2>3. LifeInv'
    BY <1>AddThread DEF AddThread, LoopDone, AtLoop, Resumed, Goto, LifeInv, Creating,
       LifeInv, Creating
  <2>4. RootsInv'
    BY <1>AddThread DEF AddThread, LoopDone, AtLoop, Resumed, Goto, RootsInv, LifeInv,
       Creating
  <2> QED
    BY <2>1, <2>2, <2>3, <2>4
<1>CreateThread. ASSUME NEW t \in Threads, CreateThread(t) PROVE BasicInv'
  <2> USE ThreadsAssumption DEF BasicInv, TypeOK, InHeap, Loops, PCs, listVars, gcVars,
     threadVars
  <2>1. TypeOK'
    BY <1>CreateThread DEF CreateThread, Goto, LifeInv, Creating
  <2>2. CountedInv'
    BY <1>CreateThread DEF CreateThread, Goto, CountedInv, Inside, Outside, LifeInv,
       Creating
  <2>3. LifeInv'
    BY <1>CreateThread DEF CreateThread, Goto, LifeInv, Creating, LifeInv, Creating
  <2>4. RootsInv'
    BY <1>CreateThread DEF CreateThread, Goto, RootsInv, LifeInv, Creating
  <2> QED
    BY <2>1, <2>2, <2>3, <2>4
<1>AddLocals. ASSUME NEW t \in Threads, AddLocals(t) PROVE BasicInv'
  <2> USE ThreadsAssumption DEF BasicInv, TypeOK, InHeap, Loops, PCs, listVars, gcVars,
     threadVars
  <2>1. TypeOK'
    BY <1>AddLocals DEF AddLocals, Goto
  <2>2. CountedInv'
    BY <1>AddLocals DEF AddLocals, Goto, CountedInv, Inside, Outside
  <2>3. LifeInv'
    BY <1>AddLocals DEF AddLocals, Goto, LifeInv, Creating
  <2>4. RootsInv'
    BY <1>AddLocals DEF AddLocals, Goto, RootsInv
  <2> QED
    BY <2>1, <2>2, <2>3, <2>4
<1>AddHandles. ASSUME NEW t \in Threads, AddHandles(t) PROVE BasicInv'
  <2> USE ThreadsAssumption DEF BasicInv, TypeOK, InHeap, Loops, PCs, listVars, gcVars,
     threadVars
  <2>1. TypeOK'
    BY <1>AddHandles DEF AddHandles, Goto
  <2>2. CountedInv'
    BY <1>AddHandles DEF AddHandles, Goto, CountedInv, Inside, Outside
  <2>3. LifeInv'
    BY <1>AddHandles DEF AddHandles, Goto, LifeInv, Creating
  <2>4. RootsInv'
    BY <1>AddHandles DEF AddHandles, Goto, RootsInv
  <2> QED
    BY <2>1, <2>2, <2>3, <2>4
<1>RemoveThread. ASSUME NEW t \in Threads, RemoveThread(t) PROVE BasicInv'
  <2> USE ThreadsAssumption DEF BasicInv, TypeOK, InHeap, Loops, PCs, listVars, gcVars,
     threadVars
  <2>1. TypeOK'
    BY <1>RemoveThread DEF RemoveThread, LoopDone, AtLoop, Resumed, Goto
  <2>2. CountedInv'
    BY <1>RemoveThread DEF RemoveThread, LoopDone, AtLoop, Resumed, Goto, CountedInv,
       Inside, Outside
  <2>3. LifeInv'
    BY <1>RemoveThread DEF RemoveThread, LoopDone, AtLoop, Resumed, Goto, LifeInv, Creating
  <2>4. RootsInv'
    BY <1>RemoveThread DEF RemoveThread, LoopDone, AtLoop, Resumed, Goto, RootsInv
  <2> QED
    BY <2>1, <2>2, <2>3, <2>4
<1>WaitFinish. ASSUME NEW t \in Threads, WaitFinish(t) PROVE BasicInv'
  <2> USE ThreadsAssumption DEF BasicInv, TypeOK, InHeap, Loops, PCs, listVars, gcVars,
     threadVars
  <2>1. TypeOK'
    BY <1>WaitFinish DEF WaitFinish, LoopDone, AtLoop, Resumed, Goto
  <2>2. CountedInv'
    BY <1>WaitFinish DEF WaitFinish, LoopDone, AtLoop, Resumed, Goto, CountedInv, Inside,
       Outside
  <2>3. LifeInv'
    BY <1>WaitFinish DEF WaitFinish, LoopDone, AtLoop, Resumed, Goto, LifeInv, Creating
  <2>4. RootsInv'
    BY <1>WaitFinish DEF WaitFinish, LoopDone, AtLoop, Resumed, Goto, RootsInv
  <2> QED
    BY <2>1, <2>2, <2>3, <2>4
<1>RemoveHandles. ASSUME NEW t \in Threads, RemoveHandles(t) PROVE BasicInv'
  <2> USE ThreadsAssumption DEF BasicInv, TypeOK, InHeap, Loops, PCs, listVars, gcVars,
     threadVars
  <2>1. TypeOK'
    BY <1>RemoveHandles DEF RemoveHandles, Goto
  <2>2. CountedInv'
    BY <1>RemoveHandles DEF RemoveHandles, Goto, CountedInv, Inside, Outside
  <2>3. LifeInv'
    BY <1>RemoveHandles DEF RemoveHandles, Goto, LifeInv, Creating
  <2>4. RootsInv'
    BY <1>RemoveHandles DEF RemoveHandles, Goto, RootsInv
  <2> QED
    BY <2>1, <2>2, <2>3, <2>4
<1>RemoveLocals. ASSUME NEW t \in Threads, RemoveLocals(t) PROVE BasicInv'
  <2> USE ThreadsAssumption DEF BasicInv, TypeOK, InHeap, Loops, PCs, listVars, gcVars,
     threadVars
  <2>1. TypeOK'
    BY <1>RemoveLocals DEF RemoveLocals, Goto
  <2>2. CountedInv'
    BY <1>RemoveLocals DEF RemoveLocals, Goto, CountedInv, Inside, Outside
  <2>3. LifeInv'
    BY <1>RemoveLocals DEF RemoveLocals, Goto, LifeInv, Creating
  <2>4. RootsInv'
    BY <1>RemoveLocals DEF RemoveLocals, Goto, RootsInv
  <2> QED
    BY <2>1, <2>2, <2>3, <2>4
<1>DeleteVM. ASSUME NEW t \in Threads, DeleteVM(t) PROVE BasicInv'
  <2> USE ThreadsAssumption DEF BasicInv, TypeOK, InHeap, Loops, PCs, listVars, gcVars,
     threadVars
  <2>1. TypeOK'
    BY <1>DeleteVM DEF DeleteVM, Goto
  <2>2. CountedInv'
    BY <1>DeleteVM DEF DeleteVM, Goto, CountedInv, Inside, Outside
  <2>3. LifeInv'
    BY <1>DeleteVM DEF DeleteVM, Goto, LifeInv, Creating
  <2>4. RootsInv'
    BY <1>DeleteVM DEF DeleteVM, Goto, RootsInv
  <2> QED
    BY <2>1, <2>2, <2>3, <2>4
<1>ReadFlag. ASSUME NEW t \in Threads, ReadFlag(t) PROVE BasicInv'
  <2> USE ThreadsAssumption DEF BasicInv, TypeOK, InHeap, Loops, PCs, listVars, gcVars,
     threadVars
  <2>1. TypeOK'
    BY <1>ReadFlag DEF ReadFlag, Goto
  <2>2. CountedInv'
    BY <1>ReadFlag DEF ReadFlag, Goto, CountedInv, Inside, Outside
  <2>3. LifeInv'
    BY <1>ReadFlag DEF ReadFlag, Goto, LifeInv, Creating
  <2>4. RootsInv'
    BY <1>ReadFlag DEF ReadFlag, Goto, RootsInv
  <2> QED
    BY <2>1, <2>2, <2>3, <2>4
<1>EndBlock. ASSUME NEW t \in Threads, EndBlock(t) PROVE BasicInv'
  <2> USE ThreadsAssumption DEF BasicInv, TypeOK, InHeap, Loops, PCs, listVars, gcVars,
     threadVars
  <2>1. TypeOK'
    BY <1>EndBlock DEF EndBlock, Goto
  <2>2. CountedInv'
    BY <1>EndBlock DEF EndBlock, Goto, CountedInv, Inside, Outside
  <2>3. LifeInv'
    BY <1>EndBlock DEF EndBlock, Goto, LifeInv, Creating
  <2>4. RootsInv'
    BY <1>EndBlock DEF EndBlock, Goto, RootsInv
  <2> QED
    BY <2>1, <2>2, <2>3, <2>4
<1>SpuriousWakeup. ASSUME NEW t \in Threads, SpuriousWakeup(t) PROVE BasicInv'
  <2> USE ThreadsAssumption DEF BasicInv, TypeOK, InHeap, Loops, PCs, listVars, gcVars,
     threadVars
  <2>1. TypeOK'
    BY <1>SpuriousWakeup DEF SpuriousWakeup, Goto
  <2>2. CountedInv'
    BY <1>SpuriousWakeup DEF SpuriousWakeup, Goto, CountedInv, Inside, Outside
  <2>3. LifeInv'
    BY <1>SpuriousWakeup DEF SpuriousWakeup, Goto, LifeInv, Creating
  <2>4. RootsInv'
    BY <1>SpuriousWakeup DEF SpuriousWakeup, Goto, RootsInv
  <2> QED
    BY <2>1, <2>2, <2>3, <2>4
<1>CallBlocking. ASSUME NEW t \in Threads, NEW u \in Threads \cup {NoThread},
   CallBlocking(t, u) PROVE BasicInv'
  <2> USE ThreadsAssumption DEF BasicInv, TypeOK, InHeap, Loops, PCs, listVars, gcVars,
     threadVars
  <2>1. TypeOK'
    BY <1>CallBlocking DEF CallBlocking, Goto
  <2>2. CountedInv'
    BY <1>CallBlocking DEF CallBlocking, Goto, CountedInv, Inside, Outside
  <2>3. LifeInv'
    BY <1>CallBlocking DEF CallBlocking, Goto, LifeInv, Creating
  <2>4. RootsInv'
    BY <1>CallBlocking DEF CallBlocking, Goto, RootsInv
  <2> QED
    BY <2>1, <2>2, <2>3, <2>4
<1>CallRun. ASSUME NEW t \in Threads, NEW u \in Threads, CallRun(t, u) PROVE BasicInv'
  <2> USE ThreadsAssumption DEF BasicInv, TypeOK, InHeap, Loops, PCs, listVars, gcVars,
     threadVars
  <2>1. TypeOK'
    BY <1>CallRun DEF CallRun, Goto
  <2>2. CountedInv'
    BY <1>CallRun DEF CallRun, Goto, CountedInv, Inside, Outside
  <2>3. LifeInv'
    BY <1>CallRun DEF CallRun, Goto, LifeInv, Creating
  <2>4. RootsInv'
    BY <1>CallRun DEF CallRun, Goto, RootsInv
  <2> QED
    BY <2>1, <2>2, <2>3, <2>4
<1>Stutter. ASSUME UNCHANGED vars PROVE BasicInv'
  BY <1>Stutter DEF vars, BasicInv, TypeOK, CountedInv, LifeInv, RootsInv, Creating,
     Inside, Outside
<1> QED
  BY <1>SuspendLoop, <1>AllocSuspend, <1>ReturnFromSuspend, <1>AllocObject, <1>AskForGC,
     <1>PerformSuspend, <1>PerformStart, <1>WaitSuspend, <1>PerformEnd, <1>AfterPerform,
        <1>WaitAgain, <1>FreeFromGC, <1>CallReturns, <1>BindWait, <1>BindToGC,
           <1>AddThread, <1>CreateThread, <1>AddLocals, <1>AddHandles, <1>RemoveThread,
              <1>WaitFinish, <1>RemoveHandles, <1>RemoveLocals, <1>DeleteVM, <1>ReadFlag,
                 <1>EndBlock, <1>SpuriousWakeup, <1>CallBlocking, <1>CallRun,
                    <1>Stutter DEF Next, Step, Script, Terminated

-----------------------------------------------------------------------------
(* What holds for a script that joins its threads.                         *)

\* run_gc: a counter that is exact and zero means that every other thread has
\* parked or is outside.
LEMMA ExactStopsWorld == HandshakeInv => WorldStopped
<1> SUFFICES ASSUME HandshakeInv,
                    NEW c \in Threads, NEW t \in Threads, pc[c] = "gc", t # c,
                    pc[t] \in InHeap \cup {"gc"}
             PROVE  FALSE
  BY DEF WorldStopped
<1>1. suspend_counter = 0 /\ waiting_suspend /\ ~IsCollector(t)
  BY DEF HandshakeInv, FlagsInv, IsCollector
<1>2. t \in Pending
  BY <1>1 DEF HandshakeInv, BasicInv, CountedInv, Inside, Pending, CountedThreads, Answered,
              IsCollector, InHeap
<1>3. IsFiniteSet(Pending)
  BY CountedFits, FS_Subset DEF Pending, HandshakeInv, BasicInv
<1>4. Cardinality(Pending) = 0
  BY <1>1 DEF HandshakeInv, CounterExact
<1> QED
  BY <1>2, <1>3, <1>4, FS_EmptySet

\* Every step keeps the counter exact.  A thread that suspends leaves Pending as
\* it decrements the counter; no other step changes either of them while a
\* collection waits.
LEMMA HandshakeInductive ==
    ASSUME Detached = FALSE, HandshakeInv, BasicInv', [Next]_vars
    PROVE  HandshakeInv'
<1> USE DEF HandshakeInv, IsCollector
<1>0. IsFiniteSet(Pending) /\ Cardinality(Pending) \in Nat
  BY CountedFits, FS_Subset, FS_CardinalityType DEF Pending, BasicInv
<1>SuspendLoop. ASSUME NEW t \in Threads, NEW l \in Loops, SuspendLoop(t,
   l) PROVE HandshakeInv'
  <2> USE ThreadsAssumption DEF BasicInv, TypeOK, InHeap, Loops, PCs, listVars, gcVars,
     threadVars
  <2>1. /\ pc' = [pc EXCEPT ![t] = "gc_finish"]
        /\ ret' = [ret EXCEPT ![t] = l]
        /\ seen' = [seen EXCEPT ![t] = gc_id]
        /\ suspend_counter' = Decremented
        /\ UNCHANGED <<child, joined, running_threads, gc_bound, running_gc,
           waiting_suspend, gc_id>>
    BY <1>SuspendLoop DEF SuspendLoop, Suspend, WaitGCFinish, AtLoop, Resumed, Goto
  <2>2. GILFree /\ waiting_suspend /\ AtLoop(t, l) /\ l \in {"add", "free", "remove"}
    BY <1>SuspendLoop DEF SuspendLoop, FlagsInv, MainLast, MainEnding, LifeInv, AtLoop,
       Resumed
  <2>3. ~Answered(t) /\ ~IsCollector(t)
    BY <2>2 DEF AtLoop, Resumed, MustWait, Answered, FlagsInv
  <2>4. t \in Pending
    BY <2>2, <2>3 DEF Pending, CountedThreads, CountedInv, Inside, AtLoop, Resumed
  <2>5. Pending' = Pending \ {t}
    BY <2>1, <2>2, <2>4 DEF Pending, CountedThreads, Answered
  <2>6. CounterExact'
    <3>1. /\ Cardinality(Pending \ {t}) = Cardinality(Pending) - 1
          /\ Cardinality(Pending \ {t}) \in Nat
      BY <1>0, <2>4, FS_RemoveElement, FS_CardinalityType
    <3>2. suspend_counter = Cardinality(Pending)
      BY <2>2 DEF CounterExact
    <3>3. Decremented = suspend_counter - 1
      BY <3>1, <3>2, CountedFits DEF Decremented
    <3> QED
      BY <2>1, <2>5, <3>1, <3>2, <3>3 DEF CounterExact
  <2>7. FlagsInv'
    BY <2>1, <2>2, <2>3 DEF FlagsInv, GILFree
  <2>8. MainLast'
    BY <2>1, <2>2 DEF MainLast, MainEnding, AtLoop, Resumed
  <2> QED
    BY <2>6, <2>7, <2>8
<1>AllocSuspend. ASSUME NEW t \in Threads, AllocSuspend(t) PROVE HandshakeInv'
  <2> USE ThreadsAssumption DEF BasicInv, TypeOK, InHeap, Loops, PCs, listVars, gcVars,
     threadVars
  <2>1. /\ pc' = [pc EXCEPT ![t] = "gc_finish"]
        /\ ret' = [ret EXCEPT ![t] = "alloc"]
        /\ seen' = [seen EXCEPT ![t] = gc_id]
        /\ suspend_counter' = Decremented
        /\ UNCHANGED <<child, joined, running_threads, gc_bound, running_gc,
           waiting_suspend, gc_id>>
    BY <1>AllocSuspend DEF AllocSuspend, Suspend, WaitGCFinish, Goto
  <2>2. GILFree /\ waiting_suspend /\ pc[t] = "alloc_lock"
    BY <1>AllocSuspend DEF AllocSuspend, FlagsInv, MainLast, MainEnding, LifeInv, AtLoop,
       Resumed
  <2>3. ~Answered(t) /\ ~IsCollector(t)
    BY <2>2 DEF AtLoop, Resumed, MustWait, Answered, FlagsInv
  <2>4. t \in Pending
    BY <2>2, <2>3 DEF Pending, CountedThreads, CountedInv, Inside, AtLoop, Resumed
  <2>5. Pending' = Pending \ {t}
    BY <2>1, <2>2, <2>4 DEF Pending, CountedThreads, Answered
  <2>6. CounterExact'
    <3>1. /\ Cardinality(Pending \ {t}) = Cardinality(Pending) - 1
          /\ Cardinality(Pending \ {t}) \in Nat
      BY <1>0, <2>4, FS_RemoveElement, FS_CardinalityType
    <3>2. suspend_counter = Cardinality(Pending)
      BY <2>2 DEF CounterExact
    <3>3. Decremented = suspend_counter - 1
      BY <3>1, <3>2, CountedFits DEF Decremented
    <3> QED
      BY <2>1, <2>5, <3>1, <3>2, <3>3 DEF CounterExact
  <2>7. FlagsInv'
    BY <2>1, <2>2, <2>3 DEF FlagsInv, GILFree
  <2>8. MainLast'
    BY <2>1, <2>2 DEF MainLast, MainEnding, AtLoop, Resumed
  <2> QED
    BY <2>6, <2>7, <2>8
<1>ReturnFromSuspend. ASSUME NEW t \in Threads, ReturnFromSuspend(t) PROVE HandshakeInv'
  <2> USE ThreadsAssumption DEF BasicInv, TypeOK, InHeap, Loops, PCs, listVars, gcVars,
     threadVars
  <2>1. FlagsInv'
    BY <1>ReturnFromSuspend DEF ReturnFromSuspend, Resumed, Goto, FlagsInv, GILFree,
       MustWait
  <2>2. MainLast'
    BY <1>ReturnFromSuspend DEF ReturnFromSuspend, Resumed, Goto, MainLast, MainEnding
  <2>3. CounterExact'
    <3>1. waiting_suspend => Pending' = Pending
      BY <1>ReturnFromSuspend DEF ReturnFromSuspend, Resumed, Goto, Pending,
         CountedThreads, Answered, MustWait, FlagsInv
    <3>2. UNCHANGED <<waiting_suspend, suspend_counter>>
      BY <1>ReturnFromSuspend DEF ReturnFromSuspend
    <3> QED
      BY <3>1, <3>2 DEF CounterExact
  <2> QED
    BY <2>1, <2>2, <2>3
<1>AllocObject. ASSUME NEW t \in Threads, AllocObject(t) PROVE HandshakeInv'
  <2> USE ThreadsAssumption DEF BasicInv, TypeOK, InHeap, Loops, PCs, listVars, gcVars,
     threadVars
  <2>1. FlagsInv'
    BY <1>AllocObject DEF AllocObject, Goto, FlagsInv, GILFree, MustWait
  <2>2. MainLast'
    BY <1>AllocObject DEF AllocObject, Goto, MainLast, MainEnding
  <2>3. CounterExact'
    <3>1. waiting_suspend => Pending' = Pending
      BY <1>AllocObject DEF AllocObject, Goto, Pending, CountedThreads, Answered,
         MustWait, FlagsInv
    <3>2. UNCHANGED <<waiting_suspend, suspend_counter>>
      BY <1>AllocObject DEF AllocObject
    <3> QED
      BY <3>1, <3>2 DEF CounterExact
  <2> QED
    BY <2>1, <2>2, <2>3
<1>AskForGC. ASSUME NEW t \in Threads, AskForGC(t) PROVE HandshakeInv'
  <2> USE ThreadsAssumption DEF BasicInv, TypeOK, InHeap, Loops, PCs, listVars, gcVars,
     threadVars
  <2>1. FlagsInv'
    BY <1>AskForGC DEF AskForGC, Goto, FlagsInv, GILFree, MustWait
  <2>2. MainLast'
    BY <1>AskForGC DEF AskForGC, Goto, MainLast, MainEnding
  <2>3. CounterExact'
    <3>1. waiting_suspend => Pending' = Pending
      BY <1>AskForGC DEF AskForGC, Goto, Pending, CountedThreads, Answered, MustWait,
         FlagsInv
    <3>2. UNCHANGED <<waiting_suspend, suspend_counter>>
      BY <1>AskForGC DEF AskForGC
    <3> QED
      BY <3>1, <3>2 DEF CounterExact
  <2> QED
    BY <2>1, <2>2, <2>3
<1>PerformSuspend. ASSUME NEW t \in Threads, PerformSuspend(t) PROVE HandshakeInv'
  <2> USE ThreadsAssumption DEF BasicInv, TypeOK, InHeap, Loops, PCs, listVars, gcVars,
     threadVars
  <2>1. /\ pc' = [pc EXCEPT ![t] = "gc_finish"]
        /\ ret' = [ret EXCEPT ![t] = "performed"]
        /\ seen' = [seen EXCEPT ![t] = gc_id]
        /\ suspend_counter' = Decremented
        /\ UNCHANGED <<child, joined, running_threads, gc_bound, running_gc,
           waiting_suspend, gc_id>>
    BY <1>PerformSuspend DEF PerformSuspend, Suspend, WaitGCFinish, Goto
  <2>2. GILFree /\ waiting_suspend /\ pc[t] = "perform"
    BY <1>PerformSuspend DEF PerformSuspend, FlagsInv, MainLast, MainEnding, LifeInv,
       AtLoop, Resumed
  <2>3. ~Answered(t) /\ ~IsCollector(t)
    BY <2>2 DEF AtLoop, Resumed, MustWait, Answered, FlagsInv
  <2>4. t \in Pending
    BY <2>2, <2>3 DEF Pending, CountedThreads, CountedInv, Inside, AtLoop, Resumed
  <2>5. Pending' = Pending \ {t}
    BY <2>1, <2>2, <2>4 DEF Pending, CountedThreads, Answered
  <2>6. CounterExact'
    <3>1. /\ Cardinality(Pending \ {t}) = Cardinality(Pending) - 1
          /\ Cardinality(Pending \ {t}) \in Nat
      BY <1>0, <2>4, FS_RemoveElement, FS_CardinalityType
    <3>2. suspend_counter = Cardinality(Pending)
      BY <2>2 DEF CounterExact
    <3>3. Decremented = suspend_counter - 1
      BY <3>1, <3>2, CountedFits DEF Decremented
    <3> QED
      BY <2>1, <2>5, <3>1, <3>2, <3>3 DEF CounterExact
  <2>7. FlagsInv'
    BY <2>1, <2>2, <2>3 DEF FlagsInv, GILFree
  <2>8. MainLast'
    BY <2>1, <2>2 DEF MainLast, MainEnding, AtLoop, Resumed
  <2> QED
    BY <2>6, <2>7, <2>8
<1>PerformStart. ASSUME NEW t \in Threads, PerformStart(t) PROVE HandshakeInv'
  <2> USE ThreadsAssumption DEF BasicInv, TypeOK, InHeap, Loops, PCs, listVars, gcVars,
     threadVars
  <2>1. FlagsInv'
    BY <1>PerformStart DEF PerformStart, Goto, FlagsInv, GILFree, MustWait
  <2>2. MainLast'
    BY <1>PerformStart DEF PerformStart, Goto, MainLast, MainEnding
  <2>3. CounterExact'
    <3>1. t \in CountedThreads
      BY <1>PerformStart DEF PerformStart, CountedThreads, CountedInv, Inside
    <3>2. Pending' = CountedThreads \ {t}
      BY <1>PerformStart, <3>1 DEF PerformStart, Goto, Pending, CountedThreads, Answered,
         FlagsInv
    <3> QED
      BY <1>PerformStart, <3>1, <3>2, CountedOthers DEF PerformStart, CounterExact
  <2> QED
    BY <2>1, <2>2, <2>3
<1>WaitSuspend. ASSUME NEW t \in Threads, WaitSuspend(t) PROVE HandshakeInv'
  <2> USE ThreadsAssumption DEF BasicInv, TypeOK, InHeap, Loops, PCs, listVars, gcVars,
     threadVars
  <2>1. FlagsInv'
    BY <1>WaitSuspend DEF WaitSuspend, Goto, FlagsInv, GILFree, MustWait
  <2>2. MainLast'
    BY <1>WaitSuspend DEF WaitSuspend, Goto, MainLast, MainEnding
  <2>3. CounterExact'
    <3>1. waiting_suspend => Pending' = Pending
      BY <1>WaitSuspend DEF WaitSuspend, Goto, Pending, CountedThreads, Answered,
         MustWait, FlagsInv
    <3>2. UNCHANGED <<waiting_suspend, suspend_counter>>
      BY <1>WaitSuspend DEF WaitSuspend
    <3> QED
      BY <3>1, <3>2 DEF CounterExact
  <2> QED
    BY <2>1, <2>2, <2>3
<1>PerformEnd. ASSUME NEW t \in Threads, PerformEnd(t) PROVE HandshakeInv'
  <2> USE ThreadsAssumption DEF BasicInv, TypeOK, InHeap, Loops, PCs, listVars, gcVars,
     threadVars
  <2>1. FlagsInv'
    <3>1. \A s \in Threads \ {t} : pc[s] \notin InHeap \cup {"gc", "wait_suspend"}
      BY <1>PerformEnd, ExactStopsWorld DEF PerformEnd, WorldStopped, FlagsInv
    <3>2. /\ pc' = [pc EXCEPT ![t] = "performed"]
          /\ running_gc' = FALSE /\ waiting_suspend' = FALSE
          /\ gc_id' = gc_id + 1
          /\ UNCHANGED seen
      BY <1>PerformEnd DEF PerformEnd, Goto
    <3>3. \A s \in Threads : pc'[s] = "gc_finish" => seen'[s] <= gc_id' /\ seen'[s] # gc_id'
      BY <3>2 DEF FlagsInv
    <3>4. \A s \in Threads : pc'[s] \notin {"gc", "wait_suspend", "alloc_lock"}
      BY <3>1, <3>2
    <3> QED
      BY <3>2, <3>3, <3>4 DEF FlagsInv
  <2>2. MainLast'
    BY <1>PerformEnd DEF PerformEnd, Goto, MainLast, MainEnding
  <2>3. CounterExact'
    BY <1>PerformEnd DEF PerformEnd, Goto, CounterExact
  <2> QED
    BY <2>1, <2>2, <2>3
<1>AfterPerform. ASSUME NEW t \in Threads, AfterPerform(t) PROVE HandshakeInv'
  <2> USE ThreadsAssumption DEF BasicInv, TypeOK, InHeap, Loops, PCs, listVars, gcVars,
     threadVars
  <2>1. FlagsInv'
    BY <1>AfterPerform DEF AfterPerform, Goto, FlagsInv, GILFree, MustWait
  <2>2. MainLast'
    BY <1>AfterPerform DEF AfterPerform, Goto, MainLast, MainEnding
  <2>3. CounterExact'
    <3>1. waiting_suspend => Pending' = Pending
      BY <1>AfterPerform DEF AfterPerform, Goto, Pending, CountedThreads, Answered,
         MustWait, FlagsInv
    <3>2. UNCHANGED <<waiting_suspend, suspend_counter>>
      BY <1>AfterPerform DEF AfterPerform
    <3> QED
      BY <3>1, <3>2 DEF CounterExact
  <2> QED
    BY <2>1, <2>2, <2>3
<1>WaitAgain. ASSUME NEW t \in Threads, WaitAgain(t) PROVE HandshakeInv'
  <2> USE ThreadsAssumption DEF BasicInv, TypeOK, InHeap, Loops, PCs, listVars, gcVars,
     threadVars
  <2>1. FlagsInv'
    BY <1>WaitAgain DEF WaitAgain, Goto, FlagsInv, GILFree, MustWait
  <2>2. MainLast'
    BY <1>WaitAgain DEF WaitAgain, Goto, MainLast, MainEnding
  <2>3. CounterExact'
    <3>1. waiting_suspend => Pending' = Pending
      BY <1>WaitAgain DEF WaitAgain, Goto, Pending, CountedThreads, Answered, MustWait,
         FlagsInv
    <3>2. UNCHANGED <<waiting_suspend, suspend_counter>>
      BY <1>WaitAgain DEF WaitAgain
    <3> QED
      BY <3>1, <3>2 DEF CounterExact
  <2> QED
    BY <2>1, <2>2, <2>3
<1>FreeFromGC. ASSUME NEW t \in Threads, FreeFromGC(t) PROVE HandshakeInv'
  <2> USE ThreadsAssumption DEF BasicInv, TypeOK, InHeap, Loops, PCs, listVars, gcVars,
     threadVars
  <2>1. FlagsInv'
    BY <1>FreeFromGC DEF FreeFromGC, LoopDone, AtLoop, Resumed, Goto, FlagsInv, GILFree,
       MustWait
  <2>2. MainLast'
    BY <1>FreeFromGC DEF FreeFromGC, LoopDone, AtLoop, Resumed, Goto, MainLast, MainEnding
  <2>3. CounterExact'
    BY <1>FreeFromGC DEF FreeFromGC, LoopDone, AtLoop, Resumed, Goto, CounterExact
  <2> QED
    BY <2>1, <2>2, <2>3
<1>CallReturns. ASSUME NEW t \in Threads, CallReturns(t) PROVE HandshakeInv'
  <2> USE ThreadsAssumption DEF BasicInv, TypeOK, InHeap, Loops, PCs, listVars, gcVars,
     threadVars
  <2>1. FlagsInv'
    BY <1>CallReturns DEF CallReturns, Goto, FlagsInv, GILFree, MustWait
  <2>2. MainLast'
    BY <1>CallReturns DEF CallReturns, Goto, MainLast, MainEnding
  <2>3. CounterExact'
    <3>1. waiting_suspend => Pending' = Pending
      BY <1>CallReturns DEF CallReturns, Goto, Pending, CountedThreads, Answered,
         MustWait, FlagsInv
    <3>2. UNCHANGED <<waiting_suspend, suspend_counter>>
      BY <1>CallReturns DEF CallReturns
    <3> QED
      BY <3>1, <3>2 DEF CounterExact
  <2> QED
    BY <2>1, <2>2, <2>3
<1>BindWait. ASSUME NEW t \in Threads, BindWait(t) PROVE HandshakeInv'
  <2> USE ThreadsAssumption DEF BasicInv, TypeOK, InHeap, Loops, PCs, listVars, gcVars,
     threadVars
  <2>1. /\ pc' = [pc EXCEPT ![t] = "gc_finish"]
        /\ ret' = [ret EXCEPT ![t] = "bind"]
        /\ seen' = [seen EXCEPT ![t] = gc_id]
        /\ UNCHANGED suspend_counter
        /\ UNCHANGED <<child, joined, running_threads, gc_bound, running_gc,
           waiting_suspend, gc_id>>
    BY <1>BindWait DEF BindWait, WaitGCFinish, AtLoop, Resumed, Goto
  <2>2. GILFree /\ waiting_suspend /\ AtLoop(t, "bind")
    BY <1>BindWait DEF BindWait, FlagsInv, MainLast, MainEnding, LifeInv, AtLoop, Resumed
  <2>3. ~Answered(t) /\ ~IsCollector(t)
    BY <2>2 DEF AtLoop, Resumed, MustWait, Answered, FlagsInv
  <2>5. Pending' = Pending
    BY <2>1, <2>2, <2>3 DEF Pending, CountedThreads, Answered, CountedInv, Outside,
       AtLoop, Resumed
  <2>6. CounterExact'
    BY <2>1, <2>5 DEF CounterExact
  <2>7. FlagsInv'
    BY <2>1, <2>2, <2>3 DEF FlagsInv, GILFree
  <2>8. MainLast'
    BY <2>1, <2>2 DEF MainLast, MainEnding, AtLoop, Resumed
  <2> QED
    BY <2>6, <2>7, <2>8
<1>BindToGC. ASSUME NEW t \in Threads, BindToGC(t) PROVE HandshakeInv'
  <2> USE ThreadsAssumption DEF BasicInv, TypeOK, InHeap, Loops, PCs, listVars, gcVars,
     threadVars
  <2>1. FlagsInv'
    BY <1>BindToGC DEF BindToGC, LoopDone, AtLoop, Resumed, Goto, FlagsInv, GILFree,
       MustWait
  <2>2. MainLast'
    BY <1>BindToGC DEF BindToGC, LoopDone, AtLoop, Resumed, Goto, MainLast, MainEnding
  <2>3. CounterExact'
    BY <1>BindToGC DEF BindToGC, LoopDone, AtLoop, Resumed, Goto, CounterExact
  <2> QED
    BY <2>1, <2>2, <2>3
<1>AddThread. ASSUME NEW t \in Threads, AddThread(t) PROVE HandshakeInv'
  <2> USE ThreadsAssumption DEF BasicInv, TypeOK, InHeap, Loops, PCs, listVars, gcVars,
     threadVars
  <2>1. FlagsInv'
    BY <1>AddThread DEF AddThread, LoopDone, AtLoop, Resumed, Goto, FlagsInv, GILFree,
       MustWait
  <2>2. MainLast'
    BY <1>AddThread DEF AddThread, LoopDone, AtLoop, Resumed, Goto, MainLast, MainEnding
  <2>3. CounterExact'
    BY <1>AddThread DEF AddThread, LoopDone, AtLoop, Resumed, Goto, CounterExact
  <2> QED
    BY <2>1, <2>2, <2>3
<1>CreateThread. ASSUME NEW t \in Threads, CreateThread(t) PROVE HandshakeInv'
  <2> USE ThreadsAssumption DEF BasicInv, TypeOK, InHeap, Loops, PCs, listVars, gcVars,
     threadVars
  <2>1. FlagsInv'
    BY <1>CreateThread DEF CreateThread, Goto, FlagsInv, GILFree, MustWait, LifeInv,
       Creating
  <2>2. MainLast'
    BY <1>CreateThread DEF CreateThread, Goto, MainLast, MainEnding, LifeInv, Creating
  <2>3. CounterExact'
    <3>1. waiting_suspend => Pending' = Pending
      BY <1>CreateThread DEF CreateThread, Goto, Pending, CountedThreads, Answered,
         MustWait, FlagsInv, LifeInv, Creating
    <3>2. UNCHANGED <<waiting_suspend, suspend_counter>>
      BY <1>CreateThread DEF CreateThread
    <3> QED
      BY <3>1, <3>2 DEF CounterExact
  <2> QED
    BY <2>1, <2>2, <2>3
<1>AddLocals. ASSUME NEW t \in Threads, AddLocals(t) PROVE HandshakeInv'
  <2> USE ThreadsAssumption DEF BasicInv, TypeOK, InHeap, Loops, PCs, listVars, gcVars,
     threadVars
  <2>1. FlagsInv'
    BY <1>AddLocals DEF AddLocals, Goto, FlagsInv, GILFree, MustWait
  <2>2. MainLast'
    BY <1>AddLocals DEF AddLocals, Goto, MainLast, MainEnding
  <2>3. CounterExact'
    <3>1. waiting_suspend => Pending' = Pending
      BY <1>AddLocals DEF AddLocals, Goto, Pending, CountedThreads, Answered, MustWait,
         FlagsInv
    <3>2. UNCHANGED <<waiting_suspend, suspend_counter>>
      BY <1>AddLocals DEF AddLocals
    <3> QED
      BY <3>1, <3>2 DEF CounterExact
  <2> QED
    BY <2>1, <2>2, <2>3
<1>AddHandles. ASSUME NEW t \in Threads, AddHandles(t) PROVE HandshakeInv'
  <2> USE ThreadsAssumption DEF BasicInv, TypeOK, InHeap, Loops, PCs, listVars, gcVars,
     threadVars
  <2>1. FlagsInv'
    BY <1>AddHandles DEF AddHandles, Goto, FlagsInv, GILFree, MustWait
  <2>2. MainLast'
    BY <1>AddHandles DEF AddHandles, Goto, MainLast, MainEnding
  <2>3. CounterExact'
    <3>1. waiting_suspend => Pending' = Pending
      BY <1>AddHandles DEF AddHandles, Goto, Pending, CountedThreads, Answered, MustWait,
         FlagsInv
    <3>2. UNCHANGED <<waiting_suspend, suspend_counter>>
      BY <1>AddHandles DEF AddHandles
    <3> QED
      BY <3>1, <3>2 DEF CounterExact
  <2> QED
    BY <2>1, <2>2, <2>3
<1>RemoveThread. ASSUME NEW t \in Threads, RemoveThread(t) PROVE HandshakeInv'
  <2> USE ThreadsAssumption DEF BasicInv, TypeOK, InHeap, Loops, PCs, listVars, gcVars,
     threadVars
  <2>1. FlagsInv'
    BY <1>RemoveThread DEF RemoveThread, LoopDone, AtLoop, Resumed, Goto, FlagsInv,
       GILFree, MustWait, LifeInv
  <2>2. MainLast'
    BY <1>RemoveThread DEF RemoveThread, LoopDone, AtLoop, Resumed, Goto, MainLast,
       MainEnding, LifeInv
  <2>3. CounterExact'
    BY <1>RemoveThread DEF RemoveThread, LoopDone, AtLoop, Resumed, Goto, CounterExact
  <2> QED
    BY <2>1, <2>2, <2>3
<1>WaitFinish. ASSUME NEW t \in Threads, WaitFinish(t) PROVE HandshakeInv'
  <2> USE ThreadsAssumption DEF BasicInv, TypeOK, InHeap, Loops, PCs, listVars, gcVars,
     threadVars
  <2>1. FlagsInv'
    BY <1>WaitFinish DEF WaitFinish, LoopDone, AtLoop, Resumed, Goto, FlagsInv, GILFree,
       MustWait, LifeInv
  <2>2. MainLast'
    BY <1>WaitFinish DEF WaitFinish, LoopDone, AtLoop, Resumed, Goto, MainLast,
       MainEnding, LifeInv
  <2>3. CounterExact'
    <3>1. waiting_suspend => Pending' = Pending
      BY <1>WaitFinish DEF WaitFinish, LoopDone, AtLoop, Resumed, Goto, Pending,
         CountedThreads, Answered, MustWait, FlagsInv, LifeInv
    <3>2. UNCHANGED <<waiting_suspend, suspend_counter>>
      BY <1>WaitFinish DEF WaitFinish
    <3> QED
      BY <3>1, <3>2 DEF CounterExact
  <2> QED
    BY <2>1, <2>2, <2>3
<1>RemoveHandles. ASSUME NEW t \in Threads, RemoveHandles(t) PROVE HandshakeInv'
  <2> USE ThreadsAssumption DEF BasicInv, TypeOK, InHeap, Loops, PCs, listVars, gcVars,
     threadVars
  <2>1. FlagsInv'
    BY <1>RemoveHandles DEF RemoveHandles, Goto, FlagsInv, GILFree, MustWait
  <2>2. MainLast'
    BY <1>RemoveHandles DEF RemoveHandles, Goto, MainLast, MainEnding
  <2>3. CounterExact'
    <3>1. waiting_suspend => Pending' = Pending
      BY <1>RemoveHandles DEF RemoveHandles, Goto, Pending, CountedThreads, Answered,
         MustWait, FlagsInv
    <3>2. UNCHANGED <<waiting_suspend, suspend_counter>>
      BY <1>RemoveHandles DEF RemoveHandles
    <3> QED
      BY <3>1, <3>2 DEF CounterExact
  <2> QED
    BY <2>1, <2>2, <2>3
<1>RemoveLocals. ASSUME NEW t \in Threads, RemoveLocals(t) PROVE HandshakeInv'
  <2> USE ThreadsAssumption DEF BasicInv, TypeOK, InHeap, Loops, PCs, listVars, gcVars,
     threadVars
  <2>1. FlagsInv'
    BY <1>RemoveLocals DEF RemoveLocals, Goto, FlagsInv, GILFree, MustWait
  <2>2. MainLast'
    BY <1>RemoveLocals DEF RemoveLocals, Goto, MainLast, MainEnding
  <2>3. CounterExact'
    <3>1. waiting_suspend => Pending' = Pending
      BY <1>RemoveLocals DEF RemoveLocals, Goto, Pending, CountedThreads, Answered,
         MustWait, FlagsInv
    <3>2. UNCHANGED <<waiting_suspend, suspend_counter>>
      BY <1>RemoveLocals DEF RemoveLocals
    <3> QED
      BY <3>1, <3>2 DEF CounterExact
  <2> QED
    BY <2>1, <2>2, <2>3
<1>DeleteVM. ASSUME NEW t \in Threads, DeleteVM(t) PROVE HandshakeInv'
  <2> USE ThreadsAssumption DEF BasicInv, TypeOK, InHeap, Loops, PCs, listVars, gcVars,
     threadVars
  <2>1. FlagsInv'
    BY <1>DeleteVM DEF DeleteVM, Goto, FlagsInv, GILFree, MustWait
  <2>2. MainLast'
    BY <1>DeleteVM DEF DeleteVM, Goto, MainLast, MainEnding
  <2>3. CounterExact'
    <3>1. waiting_suspend => Pending' = Pending
      BY <1>DeleteVM DEF DeleteVM, Goto, Pending, CountedThreads, Answered, MustWait,
         FlagsInv
    <3>2. UNCHANGED <<waiting_suspend, suspend_counter>>
      BY <1>DeleteVM DEF DeleteVM
    <3> QED
      BY <3>1, <3>2 DEF CounterExact
  <2> QED
    BY <2>1, <2>2, <2>3
<1>ReadFlag. ASSUME NEW t \in Threads, ReadFlag(t) PROVE HandshakeInv'
  <2> USE ThreadsAssumption DEF BasicInv, TypeOK, InHeap, Loops, PCs, listVars, gcVars,
     threadVars
  <2>1. FlagsInv'
    BY <1>ReadFlag DEF ReadFlag, Goto, FlagsInv, GILFree, MustWait
  <2>2. MainLast'
    BY <1>ReadFlag DEF ReadFlag, Goto, MainLast, MainEnding
  <2>3. CounterExact'
    <3>1. waiting_suspend => Pending' = Pending
      BY <1>ReadFlag DEF ReadFlag, Goto, Pending, CountedThreads, Answered, MustWait,
         FlagsInv
    <3>2. UNCHANGED <<waiting_suspend, suspend_counter>>
      BY <1>ReadFlag DEF ReadFlag
    <3> QED
      BY <3>1, <3>2 DEF CounterExact
  <2> QED
    BY <2>1, <2>2, <2>3
<1>EndBlock. ASSUME NEW t \in Threads, EndBlock(t) PROVE HandshakeInv'
  <2> USE ThreadsAssumption DEF BasicInv, TypeOK, InHeap, Loops, PCs, listVars, gcVars,
     threadVars
  <2>1. FlagsInv'
    BY <1>EndBlock DEF EndBlock, Goto, FlagsInv, GILFree, MustWait, LifeInv
  <2>2. MainLast'
    BY <1>EndBlock DEF EndBlock, Goto, MainLast, MainEnding, LifeInv
  <2>3. CounterExact'
    <3>1. waiting_suspend => Pending' = Pending
      BY <1>EndBlock DEF EndBlock, Goto, Pending, CountedThreads, Answered, MustWait,
         FlagsInv, LifeInv
    <3>2. UNCHANGED <<waiting_suspend, suspend_counter>>
      BY <1>EndBlock DEF EndBlock
    <3> QED
      BY <3>1, <3>2 DEF CounterExact
  <2> QED
    BY <2>1, <2>2, <2>3
<1>SpuriousWakeup. ASSUME NEW t \in Threads, SpuriousWakeup(t) PROVE HandshakeInv'
  <2> USE ThreadsAssumption DEF BasicInv, TypeOK, InHeap, Loops, PCs, listVars, gcVars,
     threadVars
  <2>1. FlagsInv'
    BY <1>SpuriousWakeup DEF SpuriousWakeup, Goto, FlagsInv, GILFree, MustWait
  <2>2. MainLast'
    BY <1>SpuriousWakeup DEF SpuriousWakeup, Goto, MainLast, MainEnding
  <2>3. CounterExact'
    <3>1. waiting_suspend => Pending' = Pending
      BY <1>SpuriousWakeup DEF SpuriousWakeup, Goto, Pending, CountedThreads, Answered,
         MustWait, FlagsInv
    <3>2. UNCHANGED <<waiting_suspend, suspend_counter>>
      BY <1>SpuriousWakeup DEF SpuriousWakeup
    <3> QED
      BY <3>1, <3>2 DEF CounterExact
  <2> QED
    BY <2>1, <2>2, <2>3
<1>CallBlocking. ASSUME NEW t \in Threads, NEW u \in Threads \cup {NoThread},
   CallBlocking(t, u) PROVE HandshakeInv'
  <2> USE ThreadsAssumption DEF BasicInv, TypeOK, InHeap, Loops, PCs, listVars, gcVars,
     threadVars
  <2>1. FlagsInv'
    BY <1>CallBlocking DEF CallBlocking, Goto, FlagsInv, GILFree, MustWait
  <2>2. MainLast'
    BY <1>CallBlocking DEF CallBlocking, Goto, MainLast, MainEnding
  <2>3. CounterExact'
    <3>1. waiting_suspend => Pending' = Pending
      BY <1>CallBlocking DEF CallBlocking, Goto, Pending, CountedThreads, Answered,
         MustWait, FlagsInv
    <3>2. UNCHANGED <<waiting_suspend, suspend_counter>>
      BY <1>CallBlocking DEF CallBlocking
    <3> QED
      BY <3>1, <3>2 DEF CounterExact
  <2> QED
    BY <2>1, <2>2, <2>3
<1>CallRun. ASSUME NEW t \in Threads, NEW u \in Threads, CallRun(t, u) PROVE HandshakeInv'
  <2> USE ThreadsAssumption DEF BasicInv, TypeOK, InHeap, Loops, PCs, listVars, gcVars,
     threadVars
  <2>1. FlagsInv'
    BY <1>CallRun DEF CallRun, Goto, FlagsInv, GILFree, MustWait
  <2>2. MainLast'
    BY <1>CallRun DEF CallRun, Goto, MainLast, MainEnding
  <2>3. CounterExact'
    <3>1. waiting_suspend => Pending' = Pending
      BY <1>CallRun DEF CallRun, Goto, Pending, CountedThreads, Answered, MustWait, FlagsInv
    <3>2. UNCHANGED <<waiting_suspend, suspend_counter>>
      BY <1>CallRun DEF CallRun
    <3> QED
      BY <3>1, <3>2 DEF CounterExact
  <2> QED
    BY <2>1, <2>2, <2>3
<1>Stutter. ASSUME UNCHANGED vars PROVE HandshakeInv'
  BY <1>Stutter DEF vars, FlagsInv, MainLast, MainEnding, CounterExact, Pending,
     CountedThreads, Answered
<1> QED
  BY <1>SuspendLoop, <1>AllocSuspend, <1>ReturnFromSuspend, <1>AllocObject, <1>AskForGC,
     <1>PerformSuspend, <1>PerformStart, <1>WaitSuspend, <1>PerformEnd, <1>AfterPerform,
        <1>WaitAgain, <1>FreeFromGC, <1>CallReturns, <1>BindWait, <1>BindToGC,
           <1>AddThread, <1>CreateThread, <1>AddLocals, <1>AddHandles, <1>RemoveThread,
              <1>WaitFinish, <1>RemoveHandles, <1>RemoveLocals, <1>DeleteVM, <1>ReadFlag,
                 <1>EndBlock, <1>SpuriousWakeup, <1>CallBlocking, <1>CallRun,
                    <1>Stutter DEF Next, Step, Script, Terminated

-----------------------------------------------------------------------------
(* The theorems.                                                           *)

\* The invariant of every script, from which the next two theorems follow.
THEOREM BasicCorrect == Spec => []BasicInv
<1>1. BasicInv /\ [Next]_vars => BasicInv'
  BY BasicInductive
<1> QED
  BY <1>1, InitBasic, PTL DEF Spec

\* Type correctness: in particular suspend_counter is never set (run_gc) to
\* anything but a number of threads, because the caller of perform is counted.
THEOREM TypeCorrect == Spec => []TypeOK
<1>1. BasicInv => TypeOK
  BY DEF BasicInv
<1> QED
  BY <1>1, BasicCorrect, PTL

\* Whatever the script, a collection finds the roots of every stopped thread
\* (thread_main registers before it runs and unregisters after it has left).
THEOREM RootsCorrect == Spec => []RootsRegistered
<1>1. BasicInv => RootsRegistered
  BY DEF BasicInv, RootsInv, RootsRegistered
<1> QED
  BY <1>1, BasicCorrect, PTL

\* Whatever the script, the set of counted threads changes only between
\* collections (the waiting_suspend loops of gc.c and vm.c).
THEOREM FrozenCorrect == Spec => CountedThreadsFrozen
<1>1. [Next]_vars => [waiting_suspend => CountedThreads' = CountedThreads]_vars
  <2> SUFFICES ASSUME Next, waiting_suspend PROVE CountedThreads' = CountedThreads
    OBVIOUS
  <2>1. \A t \in Threads : ~FreeFromGC(t) /\ ~BindToGC(t) /\ ~AddThread(t) /\ ~RemoveThread(t)
    BY DEF FreeFromGC, BindToGC, AddThread, RemoveThread, LoopDone
  <2>2. UNCHANGED <<running_threads, gc_bound>>
    BY <2>1, ZenonT(30) DEF Next, Step, Script, Terminated, vars, listVars, SuspendLoop, AllocSuspend,
                ReturnFromSuspend, AllocObject, AskForGC, PerformSuspend, PerformStart,
                WaitSuspend, PerformEnd, AfterPerform, WaitAgain, CallReturns, BindWait,
                CreateThread, AddLocals, AddHandles, WaitFinish, RemoveHandles, RemoveLocals,
                DeleteVM, ReadFlag, CallBlocking, CallRun, EndBlock, SpuriousWakeup
  <2> QED
    BY <2>2 DEF CountedThreads
<1> QED
  BY <1>1, PTL DEF Spec, CountedThreadsFrozen

\* The inductive invariant of the handshake.
THEOREM HandshakeCorrect ==
    ASSUME Detached = FALSE
    PROVE  Spec => []HandshakeInv
<1>1. Init => HandshakeInv
  <2> SUFFICES ASSUME Init PROVE HandshakeInv
    OBVIOUS
  <2>1. FlagsInv
    BY ThreadsAssumption DEF Init, FlagsInv, IsCollector
  <2>2. MainLast
    BY ThreadsAssumption DEF Init, MainLast, MainEnding
  <2>3. CounterExact
    BY DEF Init, CounterExact
  <2> QED
    BY <2>1, <2>2, <2>3, InitBasic DEF HandshakeInv
<1>2. HandshakeInv /\ [Next]_vars => HandshakeInv'
  <2> SUFFICES ASSUME HandshakeInv, [Next]_vars PROVE HandshakeInv'
    OBVIOUS
  <2>1. BasicInv'
    BY BasicInductive DEF HandshakeInv
  <2> QED
    BY <2>1, HandshakeInductive
<1> QED
  BY <1>1, <1>2, PTL DEF Spec

\* When a script joins its threads, suspend_counter is exact during every wait
\* of the collector, for any number of threads.
THEOREM CounterCorrect ==
    ASSUME Detached = FALSE
    PROVE  Spec => []CounterExact
<1>1. HandshakeInv => CounterExact
  BY DEF HandshakeInv
<1> QED
  BY <1>1, HandshakeCorrect, PTL

\* When a script joins its threads, run_gc calls the collector only while no
\* other thread can touch the heap, for any number of threads.
THEOREM WorldStoppedCorrect ==
    ASSUME Detached = FALSE
    PROVE  Spec => []WorldStopped
<1> QED
  BY ExactStopsWorld, HandshakeCorrect, PTL

-----------------------------------------------------------------------------
(* The handshake implements StopTheWorld.                                  *)

mutatorsBar == {t \in Threads : pc[t] \in InHeap}
collectorBar == IF GILFree THEN NoThread ELSE CHOOSE t \in Threads : pc[t] = "gc"

\* The thread that holds the lock across actions is the abstract collector.
LEMMA CollectorBar ==
    ASSUME HandshakeInv, NEW c \in Threads, pc[c] = "gc"
    PROVE  collectorBar = c
<1>1. \A d \in Threads : pc[d] = "gc" => d = c
  BY DEF HandshakeInv, FlagsInv, IsCollector
<1>2. ~GILFree
  BY DEF GILFree
<1> QED
  BY <1>1, <1>2 DEF collectorBar

\* A step that moves one thread, neither into nor out of a collection, is a
\* Resume, a Pause or a stutter of StopTheWorld.
LEMMA OneMoves ==
    ASSUME HandshakeInv, HandshakeInv', NEW t \in Threads,
           \A s \in Threads \ {t} : pc'[s] = pc[s],
           pc[t] # "gc", pc'[t] # "gc",
           GILFree \/ pc[t] \in InHeap \/ pc'[t] \notin InHeap
    PROVE  [STW!STWNext]_(STW!stwVars)
<1>1. CASE GILFree
  <2>1. GILFree'
    BY <1>1 DEF GILFree
  <2>2. collectorBar = NoThread /\ collectorBar' = NoThread
    BY <1>1, <2>1 DEF collectorBar
  <2>3. \/ mutatorsBar' = mutatorsBar
        \/ t \notin mutatorsBar /\ mutatorsBar' = mutatorsBar \cup {t}
        \/ t \in mutatorsBar /\ mutatorsBar' = mutatorsBar \ {t}
    BY DEF mutatorsBar
  <2> QED
    BY <2>2, <2>3 DEF STW!STWNext, STW!stwVars, STW!Resume, STW!Pause, mutatorsBar, collectorBar
<1>2. CASE ~GILFree
  <2>1. PICK c \in Threads : pc[c] = "gc"
    BY <1>2 DEF GILFree
  <2>2. pc'[c] = "gc" /\ c # t
    BY <2>1
  <2>3. pc[t] \notin InHeap /\ pc'[t] \notin InHeap
    BY <1>2, <2>1, <2>2, ExactStopsWorld DEF WorldStopped
  <2>4. mutatorsBar' = mutatorsBar
    BY <2>3 DEF mutatorsBar
  <2>5. collectorBar = c
    BY <2>1, CollectorBar
  <2>6. collectorBar' = c
    <3>1. \A d \in Threads : pc'[d] = "gc" => d = c
      BY <2>2 DEF HandshakeInv, FlagsInv, IsCollector
    <3>2. ~GILFree'
      BY <2>2 DEF GILFree
    <3> QED
      BY <2>2, <3>1, <3>2 DEF collectorBar
  <2> QED
    BY <2>4, <2>5, <2>6 DEF STW!stwVars, mutatorsBar, collectorBar
<1> QED
  BY <1>1, <1>2

\* A step into a collection: the thread has the lock and nobody else uses the heap.
LEMMA CollectionBegins ==
    ASSUME HandshakeInv, HandshakeInv', NEW t \in Threads, GILFree,
           pc' = [pc EXCEPT ![t] = "gc"]
    PROVE  STW!Collect(t)
<1>1. pc'[t] = "gc" /\ \A s \in Threads \ {t} : pc'[s] = pc[s]
  BY DEF HandshakeInv, BasicInv, TypeOK
<1>2. \A s \in Threads \ {t} : pc'[s] \notin InHeap \cup {"gc"}
  <2>1. WorldStopped'
    BY ExactStopsWorld, PTL
  <2> QED
    BY <1>1, <2>1 DEF WorldStopped, InHeap
<1>3. mutatorsBar \subseteq {t} /\ mutatorsBar' = {}
  BY <1>1, <1>2 DEF mutatorsBar, InHeap
<1>4. collectorBar = NoThread
  BY DEF collectorBar
<1>5. collectorBar' = t
  BY <1>1, <1>2 DEF collectorBar, GILFree
<1> QED
  BY <1>3, <1>4, <1>5 DEF STW!Collect, mutatorsBar, collectorBar

\* Every step of the handshake is a step of StopTheWorld or leaves it unchanged.
LEMMA StepRefines ==
    ASSUME HandshakeInv, HandshakeInv', [Next]_vars
    PROVE  [STW!STWNext]_(STW!stwVars)
<1> USE DEF InHeap
<1>1. ASSUME NEW t \in Threads, PerformStart(t) \/ WaitSuspend(t)
      PROVE  [STW!STWNext]_(STW!stwVars)
  <2>1. GILFree /\ pc[t] # "gc"
    BY <1>1 DEF PerformStart, WaitSuspend
  <2>2. \/ pc' = [pc EXCEPT ![t] = "gc"]
        \/ pc' = [pc EXCEPT ![t] = "wait_suspend"]
        \/ pc' = pc
    BY <1>1 DEF PerformStart, WaitSuspend, Goto
  <2>3. CASE pc' = [pc EXCEPT ![t] = "gc"]
    BY <2>1, <2>3, CollectionBegins DEF STW!STWNext
  <2>4. CASE pc' = [pc EXCEPT ![t] = "wait_suspend"] \/ pc' = pc
    BY <2>1, <2>4, OneMoves DEF HandshakeInv, BasicInv, TypeOK
  <2> QED
    BY <2>2, <2>3, <2>4
<1>2. ASSUME NEW t \in Threads, PerformEnd(t)
      PROVE  [STW!STWNext]_(STW!stwVars)
  <2>1. pc[t] = "gc" /\ pc' = [pc EXCEPT ![t] = "performed"]
    BY <1>2 DEF PerformEnd, Goto
  <2>2. \A s \in Threads \ {t} : pc[s] \notin InHeap \cup {"gc"}
    BY <2>1, ExactStopsWorld DEF WorldStopped
  <2>3. mutatorsBar' = {t}
    BY <2>1, <2>2 DEF mutatorsBar, HandshakeInv, BasicInv, TypeOK
  <2>4. collectorBar = t
    BY <2>1, CollectorBar
  <2>5. collectorBar' = NoThread
    BY <2>1, <2>2 DEF collectorBar, GILFree, HandshakeInv, BasicInv, TypeOK
  <2> QED
    BY <2>3, <2>4, <2>5 DEF STW!STWNext, STW!Release, mutatorsBar, collectorBar
<1>3. ASSUME NEW t \in Threads, CreateThread(t)
      PROVE  [STW!STWNext]_(STW!stwVars)
  <2>1. /\ pc[t] = "create" /\ child[t] \in Threads /\ pc[child[t]] = "unborn"
        /\ pc' = [pc EXCEPT ![t] = "mutate", ![child[t]] = "add_locals"]
    BY <1>3 DEF CreateThread, HandshakeInv, BasicInv, LifeInv, Creating
  <2>2. GILFree
    BY <2>1, ExactStopsWorld DEF WorldStopped, GILFree
  <2>3. GILFree'
    BY <2>1, <2>2 DEF GILFree, HandshakeInv, BasicInv, TypeOK
  <2>4. child[t] \notin mutatorsBar /\ mutatorsBar' = mutatorsBar \cup {child[t]}
    BY <2>1 DEF mutatorsBar, HandshakeInv, BasicInv, TypeOK
  <2> QED
    BY <2>1, <2>2, <2>3, <2>4 DEF STW!STWNext, STW!Resume, mutatorsBar
<1>4. ASSUME NEW t \in Threads,
             \/ \E l \in Loops : SuspendLoop(t, l)
             \/ AllocSuspend(t) \/ PerformSuspend(t) \/ BindWait(t)
      PROVE  [STW!STWNext]_(STW!stwVars)
  <2>1. GILFree /\ pc' = [pc EXCEPT ![t] = "gc_finish"]
    BY <1>4 DEF SuspendLoop, AllocSuspend, PerformSuspend, BindWait, Suspend, WaitGCFinish,
                AtLoop, Resumed, Goto
  <2> QED
    BY <2>1, OneMoves DEF GILFree, HandshakeInv, BasicInv, TypeOK
<1>5. ASSUME NEW t \in Threads,
             \/ ReturnFromSuspend(t) \/ FreeFromGC(t) \/ BindToGC(t) \/ AddThread(t)
             \/ AddLocals(t) \/ AddHandles(t) \/ RemoveThread(t) \/ WaitFinish(t)
             \/ RemoveHandles(t) \/ RemoveLocals(t)
      PROVE  [STW!STWNext]_(STW!stwVars)
  <2>1. GILFree
    BY <1>5 DEF ReturnFromSuspend, FreeFromGC, BindToGC, AddThread, AddLocals, AddHandles,
                RemoveThread, WaitFinish, RemoveHandles, RemoveLocals, LoopDone, AtLoop, Resumed
  <2>2. \E l \in PCs \ {"gc"} : pc' = [pc EXCEPT ![t] = l]
    BY <1>5 DEF ReturnFromSuspend, FreeFromGC, BindToGC, AddThread, AddLocals, AddHandles,
                RemoveThread, WaitFinish, RemoveHandles, RemoveLocals, Goto, PCs
  <2> QED
    BY <2>1, <2>2, OneMoves DEF GILFree, HandshakeInv, BasicInv, TypeOK
<1>6. ASSUME NEW t \in Threads,
             \/ AllocObject(t) \/ AskForGC(t) \/ AfterPerform(t) \/ CallReturns(t)
             \/ DeleteVM(t) \/ Script(t)
      PROVE  [STW!STWNext]_(STW!stwVars)
  <2>1. PICK l \in PCs \ {"gc"} : pc' = [pc EXCEPT ![t] = l] /\ (pc[t] \in InHeap \/ l \notin InHeap)
    BY <1>6 DEF AllocObject, AskForGC, AfterPerform, CallReturns, DeleteVM, Script, ReadFlag,
                CallBlocking, CallRun, EndBlock, Goto, PCs
  <2>2. pc[t] # "gc"
    BY <1>6 DEF AllocObject, AskForGC, AfterPerform, CallReturns, DeleteVM, Script, ReadFlag,
                CallBlocking, CallRun, EndBlock
  <2> QED
    BY <2>1, <2>2, OneMoves DEF HandshakeInv, BasicInv, TypeOK
<1>7. ASSUME UNCHANGED pc PROVE UNCHANGED STW!stwVars
  BY <1>7 DEF STW!stwVars, GILFree
<1>8. \A t \in Threads : WaitAgain(t) \/ SpuriousWakeup(t) => UNCHANGED pc
  BY DEF WaitAgain, SpuriousWakeup, threadVars
<1>9. UNCHANGED vars => UNCHANGED pc
  BY DEF vars
<1> QED
  BY <1>1, <1>2, <1>3, <1>4, <1>5, <1>6, <1>7, <1>8, <1>9 DEF Next, Step, Terminated

\* When a script joins its threads, the handshake implements StopTheWorld, for
\* any number of threads: the world is stopped and restarted as promised.
THEOREM Refinement ==
    ASSUME Detached = FALSE
    PROVE  Spec => StopsTheWorld
<1>1. Init => STW!STWInit
  <2> SUFFICES ASSUME Init PROVE STW!STWInit
    OBVIOUS
  <2>1. GILFree
    BY DEF Init, GILFree
  <2> QED
    BY <2>1 DEF STW!STWInit
<1>2. HandshakeInv /\ HandshakeInv' /\ [Next]_vars => [STW!STWNext]_(STW!stwVars)
  BY StepRefines
<1> QED
  BY <1>1, <1>2, HandshakeCorrect, PTL DEF Spec, StopsTheWorld, STW!STWSpec
=============================================================================
