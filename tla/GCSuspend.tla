------------------------------ MODULE GCSuspend ------------------------------
(***************************************************************************)
(* The stop-the-world handshake of the garbage collector and the life of   *)
(* the threads that take part in it: src/gc.c (suspend_counter,            *)
(* waiting_suspend, gc_id and the condition variables), src/vm.c           *)
(* (running_threads and the end of the virtual machine), src/thread.c      *)
(* (run, thread_main, join) and the end of main() in src/main.c.           *)
(*                                                                         *)
(* Every access to the shared variables but one is made under              *)
(* vm->global_interp_lock, so a critical section is one action.  The lock  *)
(* is held across actions only by the thread that collects (pc = "gc").    *)
(* The exception is YogGC_alloc, which reads waiting_suspend without the   *)
(* lock and acts on the value it read in a later action.                   *)
(*                                                                         *)
(* pthread_cond_wait is the set asleep: a thread in it sleeps on the       *)
(* condition variable its pc names, signal and broadcast take threads out  *)
(* of the set, and so may SpuriousWakeup.                                  *)
(***************************************************************************)
EXTENDS Integers, FiniteSets

CONSTANTS
    Threads,      \* Thread objects, the main thread included
    Main,         \* the thread that runs main()
    NoThread,     \* not a thread
    Calls,        \* what the scripts do: <<t, "run">>, <<t, "join">>, <<t, "lock">>
    Detached,     \* TRUE if the script may end without joining its threads
    CounterMod,   \* 2^w for the w bits of the unsigned suspend_counter
    MaxGC         \* bound: no collection is asked for once gc_id is MaxGC

ASSUME ThreadsAssumption ==
    /\ IsFiniteSet(Threads)
    /\ Main \in Threads
    /\ NoThread \notin Threads
    /\ Calls \subseteq Threads \X {"run", "join", "lock"}
ASSUME BoundsAssumption ==
    /\ Detached \in BOOLEAN
    /\ MaxGC \in Nat
    /\ CounterMod \in Nat
    /\ Cardinality(Threads) < CounterMod

VARIABLES
    pc,               \* where each thread is
    ret,              \* where it goes on after wait_gc_finish
    seen,             \* the local id of wait_gc_finish
    child,            \* the thread that run creates or join waits for
    asleep,           \* threads blocked in pthread_cond_wait
    joined,           \* threads that pthread_join has returned for
    running_threads,  \* vm->running_threads
    gc_bound,         \* YogThread.gc_bound
    locals,           \* threads whose anchor is in vm->locals
    handles,          \* threads whose handles are in vm->handles
    running_gc, waiting_suspend, suspend_counter, gc_id   \* fields of YogVM

threadVars == <<pc, ret, seen, child>>
listVars == <<joined, running_threads, gc_bound, locals, handles>>
gcVars == <<running_gc, waiting_suspend, suspend_counter, gc_id>>
vars == <<pc, ret, seen, child, asleep, joined, running_threads, gc_bound,
          locals, handles, running_gc, waiting_suspend, suspend_counter, gc_id>>

\* Where a thread may stand and read or write heap objects.
InHeap == {"add_locals", "add_handles", "mutate", "alloc_lock", "alloc", "perform",
           "performed", "add", "create", "free", "remove"}

\* The critical sections that test waiting_suspend in a loop around a wait.
Loops == {"add", "free", "bind", "remove", "finish"}

PCs == InHeap \cup {"unborn", "gc_finish", "wait_suspend", "gc", "outside", "bind",
                    "finish", "wait_finish", "rm_handles", "rm_locals", "delete",
                    "done"}

TypeOK ==
    /\ pc \in [Threads -> PCs]
    /\ ret \in [Threads -> Loops \cup {"alloc", "performed"}]
    /\ seen \in [Threads -> Nat]
    /\ child \in [Threads -> Threads \cup {NoThread}]
    /\ asleep \in SUBSET Threads
    /\ joined \in SUBSET Threads
    /\ running_threads \in SUBSET Threads
    /\ gc_bound \in [Threads -> BOOLEAN]
    /\ locals \in SUBSET Threads
    /\ handles \in SUBSET Threads
    /\ running_gc \in BOOLEAN
    /\ waiting_suspend \in BOOLEAN
    /\ suspend_counter \in 0 .. CounterMod - 1
    /\ gc_id \in Nat

\* YogVM_init, then main() up to the first line of the script: the main thread
\* alone, bound to the collector, its roots registered.
Init ==
    /\ pc = [t \in Threads |-> IF t = Main THEN "mutate" ELSE "unborn"]
    /\ ret = [t \in Threads |-> "alloc"]
    /\ seen = [t \in Threads |-> 0]
    /\ child = [t \in Threads |-> NoThread]
    /\ asleep = {}
    /\ joined = {}
    /\ running_threads = {Main}
    /\ gc_bound = [t \in Threads |-> TRUE]
    /\ locals = {Main}
    /\ handles = {Main}
    /\ running_gc = FALSE
    /\ waiting_suspend = FALSE
    /\ suspend_counter = 0
    /\ gc_id = 0

-----------------------------------------------------------------------------
\* global_interp_lock is free: nobody is inside a collection.
GILFree == \A t \in Threads : pc[t] # "gc"

Goto(t, l) == pc' = [pc EXCEPT ![t] = l]

\* The loop condition of wait_gc_finish.
MustWait(t) == running_gc /\ gc_id = seen[t]

\* t has been woken in wait_gc_finish, has the lock again and leaves the loop.
Resumed(t) == /\ GILFree
              /\ pc[t] = "gc_finish"
              /\ t \notin asleep
              /\ ~MustWait(t)

\* t has the lock at the head of the waiting_suspend loop of section l: on its
\* first round, or after a wait inside the loop.
AtLoop(t, l) == \/ GILFree /\ pc[t] = l
                \/ Resumed(t) /\ ret[t] = l

\* Sleepers on threads_suspend_cond, gc_finish_cond and vm_finish_cond.
SleepersAt(l) == {t \in asleep : pc[t] = l}

\* wait_gc_finish up to the first test of its condition; the thread goes on at r.
WaitGCFinish(t, r, sleepers) ==
    /\ Goto(t, "gc_finish")
    /\ ret' = [ret EXCEPT ![t] = r]
    /\ seen' = [seen EXCEPT ![t] = gc_id]
    /\ asleep' = sleepers \cup (IF running_gc THEN {t} ELSE {})

\* decrement_suspend_counter: an unsigned decrement.
Decremented == (suspend_counter - 1) % CounterMod

\* Mutant of Suspend: decrement_suspend_counter does not wake the collector.
SuspendSilently(t, r) ==
    /\ suspend_counter' = Decremented
    /\ WaitGCFinish(t, r, asleep)
    /\ UNCHANGED <<running_gc, waiting_suspend, gc_id>>

\* YogGC_suspend: decrement_suspend_counter, which wakes the collector when the
\* counter reaches zero, then wait_gc_finish.
Suspend(t, r) ==
    /\ suspend_counter' = Decremented
    /\ WaitGCFinish(t, r, IF Decremented = 0 THEN asleep \ SleepersAt("wait_suspend")
                                             ELSE asleep)
    /\ UNCHANGED <<running_gc, waiting_suspend, gc_id>>

\* while (vm->waiting_suspend) YogGC_suspend(env), one round of it.
SuspendLoop(t, l) == /\ l \in {"add", "free", "remove", "finish"}
                     /\ AtLoop(t, l)
                     /\ waiting_suspend
                     /\ Suspend(t, l)
                     /\ UNCHANGED <<child, listVars>>

\* Mutant of LoopDone: the section does not look at waiting_suspend.
LoopSkipped(t, l) == AtLoop(t, l)

\* The while loop of section l is over and l goes on, still with the lock.
LoopDone(t, l) == AtLoop(t, l) /\ ~waiting_suspend

-----------------------------------------------------------------------------
(* Allocation and collection.                                              *)

\* YogGC_alloc reads waiting_suspend without the lock.
ReadFlag(t) ==
    /\ pc[t] = "mutate"
    /\ Goto(t, IF waiting_suspend THEN "alloc_lock" ELSE "alloc")
    /\ UNCHANGED <<ret, seen, child, asleep, listVars, gcVars>>

\* YogGC_alloc saw waiting_suspend: it takes the lock and suspends once, without
\* looking at waiting_suspend again.
AllocSuspend(t) ==
    /\ GILFree
    /\ pc[t] = "alloc_lock"
    /\ Suspend(t, "alloc")
    /\ UNCHANGED <<child, listVars>>

\* YogGC_alloc and perform go on after YogGC_suspend and release the lock.
ReturnFromSuspend(t) ==
    /\ Resumed(t)
    /\ ret[t] \in {"alloc", "performed"}
    /\ Goto(t, ret[t])
    /\ UNCHANGED <<ret, seen, child, asleep, listVars, gcVars>>

\* The allocator of the heap finds room.
AllocObject(t) ==
    /\ pc[t] = "alloc"
    /\ Goto(t, "mutate")
    /\ UNCHANGED <<ret, seen, child, asleep, listVars, gcVars>>

\* The allocator finds no room (or gc_stress is set) and asks for a collection:
\* YogGC_perform or YogGC_perform_minor.
AskForGC(t) ==
    /\ pc[t] = "alloc"
    /\ gc_id < MaxGC
    /\ Goto(t, "perform")
    /\ UNCHANGED <<ret, seen, child, asleep, listVars, gcVars>>

\* perform: another thread collects already, so this one suspends instead.
PerformSuspend(t) ==
    /\ GILFree
    /\ pc[t] = "perform"
    /\ waiting_suspend
    /\ Suspend(t, "performed")
    /\ UNCHANGED <<child, listVars>>

\* Mutant of CountedThreads: the test of gc_bound the wrong way round.
CountFreeThreads == {t \in running_threads : ~gc_bound[t]}

\* count_running_threads of gc.c: the threads a collection has to wait for.
CountedThreads == {t \in running_threads : gc_bound[t]}

\* perform and run_gc up to wait_suspend.  The caller is itself counted, so the
\* number of threads is never 0 here and run_gc does not return early.
PerformStart(t) ==
    /\ GILFree
    /\ pc[t] = "perform"
    /\ ~waiting_suspend
    /\ running_gc' = TRUE
    /\ waiting_suspend' = TRUE
    /\ suspend_counter' = Cardinality(CountedThreads) - 1
    /\ \/ suspend_counter' = 0 /\ Goto(t, "gc") /\ UNCHANGED asleep
       \/ suspend_counter' # 0 /\ Goto(t, "wait_suspend") /\ asleep' = asleep \cup {t}
    /\ UNCHANGED <<ret, seen, child, listVars, gc_id>>

\* wait_suspend: the collector wakes with the lock and tests suspend_counter.
WaitSuspend(t) ==
    /\ GILFree
    /\ pc[t] = "wait_suspend"
    /\ t \notin asleep
    /\ \/ suspend_counter = 0 /\ Goto(t, "gc") /\ UNCHANGED asleep
       \/ suspend_counter # 0 /\ asleep' = asleep \cup {t} /\ UNCHANGED pc
    /\ UNCHANGED <<ret, seen, child, listVars, gcVars>>

\* Mutant of PerformEnd: gc_id is not incremented.
EndWithSameId(t) ==
    /\ pc[t] = "gc"
    /\ Goto(t, "performed")
    /\ running_gc' = FALSE
    /\ waiting_suspend' = FALSE
    /\ asleep' = asleep \ SleepersAt("gc_finish")
    /\ UNCHANGED <<ret, seen, child, suspend_counter, gc_id, listVars>>

\* (*gc)(env) returns: run_gc and perform finish, the sleepers on gc_finish_cond
\* wake up and the lock is released.
PerformEnd(t) ==
    /\ pc[t] = "gc"
    /\ Goto(t, "performed")
    /\ running_gc' = FALSE
    /\ waiting_suspend' = FALSE
    /\ asleep' = asleep \ SleepersAt("gc_finish")
    /\ gc_id' = gc_id + 1
    /\ UNCHANGED <<ret, seen, child, suspend_counter, listVars>>

\* YogGC_perform_minor and YogCopying_alloc after perform: compaction_flag,
\* major_gc_flag or gc_stress ask for a second, major, collection; or the
\* allocation is tried again and succeeds.
AfterPerform(t) ==
    /\ pc[t] = "performed"
    /\ \/ Goto(t, "mutate")
       \/ gc_id < MaxGC /\ Goto(t, "perform")
    /\ UNCHANGED <<ret, seen, child, asleep, listVars, gcVars>>

\* wait_gc_finish: woken, but the collection waited for is not over.
WaitAgain(t) ==
    /\ GILFree
    /\ pc[t] = "gc_finish"
    /\ t \notin asleep
    /\ MustWait(t)
    /\ asleep' = asleep \cup {t}
    /\ UNCHANGED <<threadVars, listVars, gcVars>>

\* POSIX lets pthread_cond_wait return without a signal.
SpuriousWakeup(t) ==
    /\ t \in asleep
    /\ asleep' = asleep \ {t}
    /\ UNCHANGED <<threadVars, listVars, gcVars>>

-----------------------------------------------------------------------------
(* Calls that block outside the collector's reach.                         *)

\* Thread#join, or acquire_read_lock and the other callers of YogGC_free_from_gc
\* (u = NoThread): the call begins.
CallBlocking(t, u) ==
    /\ pc[t] = "mutate"
    /\ <<t, IF u = NoThread THEN "lock" ELSE "join">> \in Calls
    /\ u # NoThread => /\ u \notin joined \cup {t, Main}
                       /\ pc[u] # "unborn"
                       /\ \A v \in Threads : child[v] # u
    /\ Goto(t, "free")
    /\ child' = [child EXCEPT ![t] = u]
    /\ UNCHANGED <<ret, seen, asleep, listVars, gcVars>>

\* YogGC_free_from_gc, once no collection waits for this thread.
FreeFromGC(t) ==
    /\ LoopDone(t, "free")
    /\ Goto(t, "outside")
    /\ gc_bound' = [gc_bound EXCEPT ![t] = FALSE]
    /\ UNCHANGED <<ret, seen, child, asleep, joined, running_threads, locals, handles,
                   gcVars>>

\* pthread_join, pthread_rwlock_rdlock, ... returns.
CallReturns(t) ==
    /\ pc[t] = "outside"
    /\ child[t] # NoThread => pc[child[t]] = "done"
    /\ joined' = joined \cup ({child[t]} \ {NoThread})
    /\ child' = [child EXCEPT ![t] = NoThread]
    /\ Goto(t, "bind")
    /\ UNCHANGED <<ret, seen, asleep, running_threads, gc_bound, locals, handles, gcVars>>

\* YogGC_bind_to_gc: while (vm->waiting_suspend) wait_gc_finish(env), one round.
BindWait(t) ==
    /\ AtLoop(t, "bind")
    /\ waiting_suspend
    /\ WaitGCFinish(t, "bind", asleep)
    /\ UNCHANGED <<child, listVars, gcVars>>

\* YogGC_bind_to_gc, once no collection is under way.
BindToGC(t) ==
    /\ LoopDone(t, "bind")
    /\ Goto(t, "mutate")
    /\ gc_bound' = [gc_bound EXCEPT ![t] = TRUE]
    /\ UNCHANGED <<ret, seen, child, asleep, joined, running_threads, locals, handles,
                   gcVars>>

-----------------------------------------------------------------------------
(* The life of a thread.                                                   *)

\* Thread#run for a new Thread object u.
CallRun(t, u) ==
    /\ pc[t] = "mutate"
    /\ <<t, "run">> \in Calls
    /\ pc[u] = "unborn"
    /\ \A v \in Threads : child[v] # u
    /\ Goto(t, "add")
    /\ child' = [child EXCEPT ![t] = u]
    /\ UNCHANGED <<ret, seen, asleep, listVars, gcVars>>

\* YogVM_add_thread, once no collection is under way.
AddThread(t) ==
    /\ LoopDone(t, "add")
    /\ running_threads' = running_threads \cup {child[t]}
    /\ Goto(t, "create")
    /\ UNCHANGED <<ret, seen, child, asleep, joined, gc_bound, locals, handles, gcVars>>

\* pthread_create, and the creator goes on.
CreateThread(t) ==
    /\ pc[t] = "create"
    /\ pc' = [pc EXCEPT ![t] = "mutate", ![child[t]] = "add_locals"]
    /\ child' = [child EXCEPT ![t] = NoThread]
    /\ UNCHANGED <<ret, seen, asleep, listVars, gcVars>>

\* thread_main: YogVM_add_locals.
AddLocals(t) ==
    /\ GILFree
    /\ pc[t] = "add_locals"
    /\ locals' = locals \cup {t}
    /\ Goto(t, "add_handles")
    /\ UNCHANGED <<ret, seen, child, asleep, joined, running_threads, gc_bound, handles,
                   gcVars>>

\* Mutant of AddHandles: the handles are not registered.
SkipHandles(t) ==
    /\ GILFree
    /\ pc[t] = "add_handles"
    /\ Goto(t, "mutate")
    /\ UNCHANGED <<ret, seen, child, asleep, listVars, gcVars>>

\* thread_main: YogVM_add_handles, then the block of the thread runs.
AddHandles(t) ==
    /\ GILFree
    /\ pc[t] = "add_handles"
    /\ handles' = handles \cup {t}
    /\ Goto(t, "mutate")
    /\ UNCHANGED <<ret, seen, child, asleep, joined, running_threads, gc_bound, locals,
                   gcVars>>

\* The block of the thread, or the script, is over.  A script that joins its
\* threads has seen every one of them end.
EndBlock(t) ==
    /\ pc[t] = "mutate"
    /\ t = Main /\ ~Detached => \A u \in Threads \ {Main} : pc[u] = "unborn" \/ u \in joined
    /\ Goto(t, "remove")
    /\ UNCHANGED <<ret, seen, child, asleep, listVars, gcVars>>

\* YogVM_remove_thread, once no collection is under way.  The last thread to
\* leave wakes the main thread in YogVM_wait_finish.
RemoveThread(t) ==
    /\ LoopDone(t, "remove")
    /\ running_threads' = running_threads \ {t}
    /\ asleep' = IF running_threads' = {} THEN asleep \ SleepersAt("wait_finish") ELSE asleep
    /\ Goto(t, IF t = Main THEN "finish" ELSE "rm_handles")
    /\ UNCHANGED <<ret, seen, child, joined, gc_bound, locals, handles, gcVars>>

\* YogVM_wait_finish after its gc() call, and after each wait on vm_finish_cond.
WaitFinish(t) ==
    /\ \/ LoopDone(t, "finish")
       \/ GILFree /\ pc[t] = "wait_finish" /\ t \notin asleep
    /\ \/ running_threads # {} /\ Goto(t, "wait_finish") /\ asleep' = asleep \cup {t}
       \/ running_threads = {} /\ Goto(t, "rm_handles") /\ UNCHANGED asleep
    /\ UNCHANGED <<ret, seen, child, listVars, gcVars>>

\* YogVM_remove_handles at the end of thread_main and main.
RemoveHandles(t) ==
    /\ GILFree
    /\ pc[t] = "rm_handles"
    /\ handles' = handles \ {t}
    /\ Goto(t, "rm_locals")
    /\ UNCHANGED <<ret, seen, child, asleep, joined, running_threads, gc_bound, locals,
                   gcVars>>

\* YogVM_remove_locals; thread_main returns, main goes on to YogVM_delete.
RemoveLocals(t) ==
    /\ GILFree
    /\ pc[t] = "rm_locals"
    /\ locals' = locals \ {t}
    /\ Goto(t, IF t = Main THEN "delete" ELSE "done")
    /\ UNCHANGED <<ret, seen, child, asleep, joined, running_threads, gc_bound, handles,
                   gcVars>>

\* YogVM_delete: the heaps are freed, the locks destroyed, the process ends.
DeleteVM(t) ==
    /\ pc[t] = "delete"
    /\ Goto(t, "done")
    /\ UNCHANGED <<ret, seen, child, asleep, listVars, gcVars>>

-----------------------------------------------------------------------------
\* What a thread does until its block is over, the choices of the script apart.
Step(t) ==
    \/ \E l \in Loops : SuspendLoop(t, l)
    \/ AllocSuspend(t) \/ ReturnFromSuspend(t) \/ AllocObject(t) \/ AskForGC(t)
    \/ PerformSuspend(t) \/ PerformStart(t) \/ WaitSuspend(t) \/ PerformEnd(t)
    \/ AfterPerform(t) \/ WaitAgain(t)
    \/ FreeFromGC(t) \/ CallReturns(t) \/ BindWait(t) \/ BindToGC(t)
    \/ AddThread(t) \/ CreateThread(t) \/ AddLocals(t) \/ AddHandles(t)
    \/ RemoveThread(t) \/ WaitFinish(t) \/ RemoveHandles(t) \/ RemoveLocals(t)
    \/ DeleteVM(t)

\* What the script of a thread chooses to do next.
Script(t) ==
    \/ ReadFlag(t)
    \/ \E u \in Threads \cup {NoThread} : CallBlocking(t, u)
    \/ \E u \in Threads : CallRun(t, u)
    \/ EndBlock(t)

\* The process is over.
Terminated == pc[Main] = "done" /\ UNCHANGED vars

Next == \/ \E t \in Threads : Step(t) \/ Script(t) \/ SpuriousWakeup(t)
        \/ Terminated

Spec == Init /\ [][Next]_vars

\* Every thread goes on when it can: a woken or blocked thread gets the lock, a
\* running one finishes its allocation.  A script is finite: it does not put off
\* its end, or a join it has to make, for ever, so no thread computes for ever
\* without an allocation either.
Fairness ==
    \A t \in Threads :
        /\ WF_vars(Step(t))
        /\ SF_vars(EndBlock(t))
        /\ SF_vars(\E u \in Threads : CallBlocking(t, u))

FairSpec == Spec /\ Fairness

-----------------------------------------------------------------------------
(* Properties.                                                             *)

\* Safety of run_gc: while the collector moves and frees objects, no other
\* thread is where it reads or writes the heap.
WorldStopped ==
    \A c, t \in Threads : pc[c] = "gc" /\ t # c => pc[t] \notin InHeap \cup {"gc"}

\* t has answered the collection under way: it sleeps, or is about to sleep, in
\* wait_gc_finish for this gc_id, and it was counted.
Answered(t) == /\ pc[t] = "gc_finish"
               /\ ret[t] # "bind"
               /\ seen[t] = gc_id

\* The threads the collector still has to wait for.
Pending == {t \in CountedThreads : ~Answered(t) /\ pc[t] \notin {"wait_suspend", "gc"}}

\* While a collection waits, suspend_counter is the number of counted threads
\* that have not suspended yet: it neither wraps below zero nor reaches zero
\* early, whatever the order of allocations, blocking calls, births and deaths.
CounterExact == waiting_suspend => suspend_counter = Cardinality(Pending)

\* Every stopped thread that holds references to heap objects has its locals and
\* handles where YogVM_keep_children finds them, so no root is missed.
RootsRegistered ==
    \A c, t \in Threads :
        pc[c] = "gc" /\ pc[t] \in {"gc", "gc_finish", "outside", "bind"}
            => t \in locals \cap handles

-----------------------------------------------------------------------------
(* The inductive invariant behind these properties.  Its first part holds  *)
(* for every script.                                                       *)

\* t uses the heap, collects, or has parked to let another thread collect.
Inside(t) == \/ pc[t] \in InHeap \cup {"wait_suspend", "gc"}
             \/ pc[t] = "gc_finish" /\ ret[t] \notin {"bind", "finish"}

\* t is in a blocking call, or on its way back from one.
Outside(t) == \/ pc[t] \in {"outside", "bind"}
              \/ pc[t] = "gc_finish" /\ ret[t] = "bind"

\* The collector counts the threads inside; those outside stay registered.
CountedInv ==
    \A t \in Threads :
        /\ Inside(t) => t \in running_threads /\ gc_bound[t]
        /\ Outside(t) => t \in running_threads /\ ~gc_bound[t]

\* t is inside Thread#run.
Creating(t) == \/ pc[t] \in {"add", "create"}
               \/ pc[t] = "gc_finish" /\ ret[t] = "add"

\* Births and deaths: a thread is created once and registered before it starts,
\* and it is joined after its end; only the main thread waits for the others.
LifeInv ==
    /\ \A t \in Threads : Creating(t) => child[t] \in Threads /\ pc[child[t]] = "unborn"
    /\ \A t, u \in Threads : Creating(t) /\ Creating(u) /\ child[t] = child[u] => t = u
    /\ \A t \in Threads : pc[t] = "create" => child[t] \in running_threads
    /\ \A t \in Threads : pc[t] = "unborn" => gc_bound[t]
    /\ \A t \in joined : pc[t] = "done"
    /\ \A t \in Threads \ {Main} : /\ pc[t] \notin {"finish", "wait_finish", "delete"}
                                   /\ pc[t] = "gc_finish" => ret[t] # "finish"

\* The roots of a thread are registered from its first to its last use of them.
RootsInv ==
    \A t \in Threads :
        /\ pc[t] = "add_handles" => t \in locals
        /\ pc[t] \in (InHeap \ {"add_locals", "add_handles"})
                       \cup {"gc_finish", "wait_suspend", "gc", "outside", "bind", "finish"}
             => t \in locals \cap handles

BasicInv == TypeOK /\ CountedInv /\ LifeInv /\ RootsInv

(* The second part needs a script that joins its threads.                  *)

IsCollector(t) == pc[t] \in {"wait_suspend", "gc"}

\* waiting_suspend and running_gc are set together, by the one collector, and
\* who parks does so for a collection under way.
FlagsInv ==
    /\ running_gc = waiting_suspend
    /\ waiting_suspend <=> \E c \in Threads : IsCollector(c)
    /\ \A c, d \in Threads : IsCollector(c) /\ IsCollector(d) => c = d
    /\ \A c \in Threads : pc[c] = "gc" => suspend_counter = 0
    /\ \A t \in Threads : pc[t] = "alloc_lock" => waiting_suspend
    /\ \A t \in Threads : pc[t] = "gc_finish" =>
         /\ seen[t] <= gc_id
         /\ seen[t] = gc_id => waiting_suspend

\* The end of the main thread, from the last line of the script on.
MainEnding == \/ pc[Main] \in {"remove", "finish", "wait_finish", "rm_handles", "rm_locals",
                               "delete", "done"}
              \/ pc[Main] = "gc_finish" /\ ret[Main] \in {"remove", "finish"}

\* The main thread ends last.
MainLast == MainEnding => \A t \in Threads \ {Main} : pc[t] \in {"unborn", "done"}

\* The invariant that every step preserves: the exact counter, and what makes
\* it exact.
HandshakeInv == BasicInv /\ FlagsInv /\ MainLast /\ CounterExact

-----------------------------------------------------------------------------
\* While a collection is under way nobody joins or leaves the threads it counts.
CountedThreadsFrozen == [][waiting_suspend => CountedThreads' = CountedThreads]_vars

\* The handshake implements StopTheWorld.
STW == INSTANCE StopTheWorld
    WITH mutators <- {t \in Threads : pc[t] \in InHeap},
         collector <- IF GILFree THEN NoThread ELSE CHOOSE t \in Threads : pc[t] = "gc"

\* Refinement: threads enter and leave the heap, and collections begin and end,
\* only as StopTheWorld allows.
StopsTheWorld == STW!STWSpec

\* A collection that has been asked for ends, and the threads it stopped go on.
CollectionEnds == waiting_suspend ~> ~waiting_suspend

\* Every thread that has been started comes to its end (a thread started by
\* Thread#run executes its whole block, joined or not).
ThreadsEnd == \A t \in Threads : pc[t] = "add_locals" ~> pc[t] = "done"
=============================================================================
