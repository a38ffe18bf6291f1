--------------------------- MODULE PackageImport ---------------------------
(***************************************************************************)
(* Importing packages from several threads: import_package, get_package,   *)
(* wait_package and YogVM_import_package of src/vm.c, with the read/write  *)
(* lock on vm->pkgs and the mutex and condition variable of an             *)
(* ImportingPackage, the placeholder that vm->pkgs holds while one thread  *)
(* executes the body of a package and the others wait for it.              *)
(*                                                                         *)
(* The collector appears as StopTheWorld promises it (see GCSuspend): a    *)
(* thread asks for a collection, which is over when every other thread     *)
(* bound to the collector has come to a safe point.  YogGC_free_from_gc    *)
(* and YogGC_bind_to_gc wait while a collection is asked for.              *)
(*                                                                         *)
(* A package stands for its name and for its ImportingPackage: vm->pkgs    *)
(* has at most one placeholder per name and never gets a second one.       *)
(***************************************************************************)
EXTENDS Naturals, Sequences, FiniteSets, SequencesExt

CONSTANTS
    Threads,    \* the threads that import
    NoThread,   \* not a thread
    Pkgs,       \* packages
    Names,      \* dotted names: sequences of packages, "a.b" is <<a, b>>
    Deps,       \* Deps[p]: the names that the body of p imports
    Failing,    \* the packages whose import may raise ImportError
    Collecting  \* the threads that may ask for a collection

ASSUME ImportAssumption ==
    /\ NoThread \notin Threads
    /\ Names \subseteq Seq(Pkgs) \ {<<>>}
    /\ Deps \in [Pkgs -> SUBSET Names]
    /\ Failing \subseteq Pkgs
    /\ Collecting \subseteq Threads

\* A package is known by its whole name: that of "a.b" begins with that of its
\* parent "a", so it is the second part of every name it is a part of.
ASSUME DottedNames ==
    \A m, n \in Names : \A i \in 1 .. Len(m), j \in 1 .. Len(n) :
        m[i] = n[j] => i = j /\ (i > 1 => m[i - 1] = n[i - 1])

VARIABLES
    pc,        \* where each thread is
    goal,      \* what it takes pkgs_lock for: "find", "recheck", "publish"
    frames,    \* its calls of YogVM_import_package, the innermost first
    readers,   \* holders of pkgs_lock for reading
    writer,    \* holder of pkgs_lock for writing
    pkgs,      \* vm->pkgs: nothing, a placeholder or the package
    lock,      \* holder of ImportingPackage.lock
    waiters,   \* sleepers on ImportingPackage.cond
    pkg,       \* ImportingPackage.pkg is set
    attrs,     \* packages that are an attribute of their parent
    started,   \* how often the body of a package was started
    gc         \* the thread that has asked for a collection

lockVars == <<readers, writer, lock, waiters>>
pkgVars == <<pkgs, pkg, attrs, started>>
vars == <<pc, goal, frames, readers, writer, pkgs, lock, waiters, pkg, attrs, started, gc>>

\* A call of YogVM_import_package: the dotted name and the position in it.
Frames == {f \in [name : Names, pos : Nat] : f.pos \in 1 .. Len(f.name)}

\* The package that a call imports, and the one that t imports just now.
Part(f) == f.name[f.pos]
Current(t) == Part(Head(frames[t]))

\* Safe points: allocations while a body or the caller's script runs, and the
\* allocations of ImportingPackage_new and YogVM_register_package.
Running == {"idle", "eval", "register", "publish"}
PCs == Running \cup {"free", "lock", "bind", "find", "recheck", "ip_lock", "check",
                     "wait_free", "wait", "sleep", "woken", "wait_bind", "got"}

\* Between YogGC_free_from_gc and YogGC_bind_to_gc: not bound to the collector.
Outside == {"lock", "bind", "wait", "sleep", "woken", "wait_bind"}
AtSafePoint(t) == pc[t] \in Running \cup Outside \cup {"free", "wait_free"}

TypeOK ==
    /\ pc \in [Threads -> PCs]
    /\ goal \in [Threads -> {"find", "recheck", "publish"}]
    /\ frames \in [Threads -> Seq(Frames)]
    /\ readers \in SUBSET Threads
    /\ writer \in Threads \cup {NoThread}
    /\ pkgs \in [Pkgs -> {"none", "importing", "package"}]
    /\ lock \in [Pkgs -> Threads \cup {NoThread}]
    /\ waiters \in [Pkgs -> SUBSET Threads]
    /\ pkg \in [Pkgs -> BOOLEAN]
    /\ attrs \in SUBSET Pkgs
    /\ started \in [Pkgs -> 0 .. 2]
    /\ gc \in Threads \cup {NoThread}

Init ==
    /\ pc = [t \in Threads |-> "idle"]
    /\ goal = [t \in Threads |-> "find"]
    /\ frames = [t \in Threads |-> <<>>]
    /\ readers = {}
    /\ writer = NoThread
    /\ pkgs = [p \in Pkgs |-> "none"]
    /\ lock = [p \in Pkgs |-> NoThread]
    /\ waiters = [p \in Pkgs |-> {}]
    /\ pkg = [p \in Pkgs |-> FALSE]
    /\ attrs = {}
    /\ started = [p \in Pkgs |-> 0]
    /\ gc = NoThread

-----------------------------------------------------------------------------
Goto(t, l) == pc' = [pc EXCEPT ![t] = l]

\* Begin acquire_read_lock (goal "find") or acquire_write_lock on pkgs_lock.
Acquire(t, g) == Goto(t, "free") /\ goal' = [goal EXCEPT ![t] = g]

\* release_packages_lock by t.
Release(t) == /\ readers' = readers \ {t}
              /\ writer' = IF writer = t THEN NoThread ELSE writer

\* An import statement, or a call of import_package, in the script of t or in
\* the body of the package that t executes.
Import(t, name) ==
    /\ \/ pc[t] = "idle"
       \/ pc[t] = "eval" /\ name \in Deps[Current(t)]
    /\ frames' = [frames EXCEPT ![t] = <<[name |-> name, pos |-> 1]>> \o @]
    /\ Acquire(t, "find")
    /\ UNCHANGED <<lockVars, pkgVars, gc>>

\* YogGC_free_from_gc, then pthread_rwlock_rdlock or wrlock, then
\* YogGC_bind_to_gc: the three steps of acquire_read_lock and acquire_write_lock.
FreeFromGC(t) ==
    /\ pc[t] = "free"
    /\ gc = NoThread
    /\ Goto(t, "lock")
    /\ UNCHANGED <<goal, frames, lockVars, pkgVars, gc>>

TakeLock(t) ==
    /\ pc[t] = "lock"
    /\ writer = NoThread
    /\ \/ goal[t] = "find" /\ readers' = readers \cup {t} /\ UNCHANGED writer
       \/ goal[t] # "find" /\ readers = {} /\ writer' = t /\ UNCHANGED readers
    /\ Goto(t, "bind")
    /\ UNCHANGED <<goal, frames, lock, waiters, pkgVars, gc>>

BindToGC(t) ==
    /\ pc[t] = "bind"
    /\ gc = NoThread
    /\ Goto(t, goal[t])
    /\ UNCHANGED <<goal, frames, lockVars, pkgVars, gc>>

-----------------------------------------------------------------------------
(* import_package and get_package.                                         *)

\* FIND_PKG finds the package itself: get_package releases the lock.
FindPackage(t) ==
    /\ pc[t] \in {"find", "recheck"}
    /\ pkgs[Current(t)] = "package"
    /\ Release(t)
    /\ Goto(t, "got")
    /\ UNCHANGED <<goal, frames, lock, waiters, pkgVars, gc>>

\* FIND_PKG finds a placeholder: get_package goes on to lock it, still with
\* pkgs_lock and still bound to the collector.
FindImporting(t) ==
    /\ pc[t] \in {"find", "recheck"}
    /\ pkgs[Current(t)] = "importing"
    /\ Goto(t, "ip_lock")
    /\ UNCHANGED <<goal, frames, lockVars, pkgVars, gc>>

\* ImportingPackage_lock, then release_packages_lock.
LockImporting(t) ==
    /\ pc[t] = "ip_lock"
    /\ lock[Current(t)] = NoThread
    /\ lock' = [lock EXCEPT ![Current(t)] = t]
    /\ Release(t)
    /\ Goto(t, "check")
    /\ UNCHANGED <<goal, frames, waiters, pkgVars, gc>>

\* Mutant of CheckPackage: one wait, and no second look at pkg.
CheckOnce(t) ==
    /\ pc[t] = "check"
    /\ \/ goal[t] = "publish" /\ Goto(t, "got") /\ lock' = [lock EXCEPT ![Current(t)] = NoThread]
       \/ goal[t] # "publish" /\ Goto(t, "wait_free") /\ UNCHANGED lock
    /\ goal' = [goal EXCEPT ![t] = "publish"]
    /\ UNCHANGED <<frames, readers, writer, waiters, pkgVars, gc>>

\* wait_package: the test of its loop; when pkg is set, ImportingPackage_unlock.
CheckPackage(t) ==
    /\ pc[t] = "check"
    /\ \/ /\ pkg[Current(t)]
          /\ lock' = [lock EXCEPT ![Current(t)] = NoThread]
          /\ Goto(t, "got")
       \/ /\ ~pkg[Current(t)]
          /\ Goto(t, "wait_free")
          /\ UNCHANGED lock
    /\ UNCHANGED <<goal, frames, readers, writer, waiters, pkgVars, gc>>

\* wait_package: YogGC_free_from_gc, with ImportingPackage.lock held.
WaitFree(t) ==
    /\ pc[t] = "wait_free"
    /\ gc = NoThread
    /\ Goto(t, "wait")
    /\ UNCHANGED <<goal, frames, lockVars, pkgVars, gc>>

\* wait_package: pthread_cond_wait goes to sleep and releases the mutex.
WaitSleep(t) ==
    /\ pc[t] = "wait"
    /\ Goto(t, "sleep")
    /\ lock' = [lock EXCEPT ![Current(t)] = NoThread]
    /\ waiters' = [waiters EXCEPT ![Current(t)] = @ \cup {t}]
    /\ UNCHANGED <<goal, frames, readers, writer, pkgVars, gc>>

\* pthread_cond_wait may return without a broadcast.
SpuriousWakeup(t) ==
    /\ pc[t] = "sleep"
    /\ Goto(t, "woken")
    /\ waiters' = [waiters EXCEPT ![Current(t)] = @ \ {t}]
    /\ UNCHANGED <<goal, frames, readers, writer, lock, pkgVars, gc>>

\* wait_package: pthread_cond_wait returns with the mutex.
WaitReturn(t) ==
    /\ pc[t] = "woken"
    /\ lock[Current(t)] = NoThread
    /\ lock' = [lock EXCEPT ![Current(t)] = t]
    /\ Goto(t, "wait_bind")
    /\ UNCHANGED <<goal, frames, readers, writer, waiters, pkgVars, gc>>

\* wait_package: YogGC_bind_to_gc, with the mutex held, and back to the test.
WaitBind(t) ==
    /\ pc[t] = "wait_bind"
    /\ gc = NoThread
    /\ Goto(t, "check")
    /\ UNCHANGED <<goal, frames, lockVars, pkgVars, gc>>

\* The read lock finds nothing: release it and take the write lock.
FindNothing(t) ==
    /\ pc[t] = "find"
    /\ pkgs[Current(t)] = "none"
    /\ Release(t)
    /\ Acquire(t, "recheck")
    /\ UNCHANGED <<frames, lock, waiters, pkgVars, gc>>

\* Mutant of RecheckNothing: no second lookup under the write lock.
NoRecheck(t) ==
    /\ pc[t] = "recheck"
    /\ Goto(t, "register")
    /\ UNCHANGED <<goal, frames, lockVars, pkgVars, gc>>

\* Neither does the write lock: go on to make a placeholder.
RecheckNothing(t) ==
    /\ pc[t] = "recheck"
    /\ pkgs[Current(t)] = "none"
    /\ Goto(t, "register")
    /\ UNCHANGED <<goal, frames, lockVars, pkgVars, gc>>

\* ImportingPackage_new and YogVM_register_package under the write lock, release
\* it, and import: the body of the package is executed.
Register(t) ==
    /\ pc[t] = "register"
    /\ pkgs' = [pkgs EXCEPT ![Current(t)] = "importing"]
    /\ pkg' = [pkg EXCEPT ![Current(t)] = FALSE]
    /\ started' = [started EXCEPT ![Current(t)] = @ + 1]
    /\ Release(t)
    /\ Goto(t, "eval")
    /\ UNCHANGED <<goal, frames, lock, waiters, attrs, gc>>

\* import returns the package: tmp_pkg->pkg is set without ImportingPackage.lock,
\* and the importer takes the write lock again.
EvalDone(t) ==
    /\ pc[t] = "eval"
    /\ pkg' = [pkg EXCEPT ![Current(t)] = TRUE]
    /\ Acquire(t, "publish")
    /\ UNCHANGED <<frames, lockVars, pkgs, attrs, started, gc>>

\* import, or the body of the package, raises ImportError: the exception leaves
\* every C frame of this import_package and changes nothing else.
EvalRaises(t) ==
    /\ pc[t] = "eval"
    /\ Current(t) \in Failing
    /\ frames' = [frames EXCEPT ![t] = Tail(@)]
    /\ Goto(t, IF Len(frames[t]) = 1 THEN "idle" ELSE "eval")
    /\ UNCHANGED <<goal, lockVars, pkgVars, gc>>

\* Replace the placeholder by the package, broadcast, release the write lock.
Publish(t) ==
    /\ pc[t] = "publish"
    /\ pkgs' = [pkgs EXCEPT ![Current(t)] = "package"]
    /\ waiters' = [waiters EXCEPT ![Current(t)] = {}]
    /\ pc' = [s \in Threads |-> IF s = t THEN "got"
                                ELSE IF s \in waiters[Current(t)] THEN "woken"
                                ELSE pc[s]]
    /\ Release(t)
    /\ UNCHANGED <<goal, frames, lock, pkg, attrs, started, gc>>

\* Mutant of GotPackage: the loop goes on once more after the last part.
GotPastEnd(t) ==
    /\ pc[t] = "got"
    /\ frames' = [frames EXCEPT ![t][1].pos = @ + 1]
    /\ Acquire(t, "find")
    /\ UNCHANGED <<lockVars, pkgVars, gc>>

\* import_package returns to the loop of YogVM_import_package: the package
\* becomes an attribute of its parent, then the next part of the name is
\* imported, or the call returns.
GotPackage(t) ==
    /\ pc[t] = "got"
    /\ LET f == Head(frames[t]) IN
       /\ attrs' = IF f.pos > 1 THEN attrs \cup {Current(t)} ELSE attrs
       /\ \/ /\ f.pos < Len(f.name)
             /\ frames' = [frames EXCEPT ![t][1].pos = @ + 1]
             /\ Acquire(t, "find")
          \/ /\ f.pos = Len(f.name)
             /\ frames' = [frames EXCEPT ![t] = Tail(@)]
             /\ Goto(t, IF Len(frames[t]) = 1 THEN "idle" ELSE "eval")
             /\ UNCHANGED goal
    /\ UNCHANGED <<lockVars, pkgs, pkg, started, gc>>

-----------------------------------------------------------------------------
(* The collector, as the import code sees it.                              *)

\* An allocation asks for a collection.
AskForGC(t) ==
    /\ t \in Collecting
    /\ gc = NoThread
    /\ pc[t] \in Running
    /\ gc' = t
    /\ UNCHANGED <<pc, goal, frames, lockVars, pkgVars>>

\* Every other thread is outside or has stopped: the collection runs and ends.
EndGC(t) ==
    /\ gc = t
    /\ \A s \in Threads \ {t} : AtSafePoint(s)
    /\ gc' = NoThread
    /\ UNCHANGED <<pc, goal, frames, lockVars, pkgVars>>

\* A thread that waits for its own collection to end does nothing else.
Step(t) ==
    \/ /\ gc # t
       /\ \/ FreeFromGC(t) \/ TakeLock(t) \/ BindToGC(t)
          \/ FindPackage(t) \/ FindImporting(t) \/ LockImporting(t) \/ CheckPackage(t)
          \/ WaitFree(t) \/ WaitSleep(t) \/ WaitReturn(t) \/ WaitBind(t)
          \/ FindNothing(t) \/ RecheckNothing(t) \/ Register(t) \/ EvalDone(t)
          \/ Publish(t) \/ GotPackage(t)
    \/ EndGC(t)

Choice(t) ==
    /\ gc # t
    /\ \/ \E name \in Names : Import(t, name)
       \/ EvalRaises(t)
       \/ SpuriousWakeup(t)
       \/ AskForGC(t)

Next == \E t \in Threads : Step(t) \/ Choice(t)

Spec == Init /\ [][Next]_vars

\* Threads go on when they can, no lock is kept from a thread for ever (pkgs_lock
\* prefers writers), and the body of a package is finite.
Fairness == \A t \in Threads : SF_vars(Step(t)) /\ SF_vars(EvalDone(t))

FairSpec == Spec /\ Fairness

-----------------------------------------------------------------------------
(* Properties.                                                             *)

\* A thread in import_package has a frame, and the purpose for which it takes
\* pkgs_lock is that of the place where it stands.
CallInv ==
    \A t \in Threads :
        /\ (pc[t] = "idle") = (frames[t] = <<>>)
        /\ pc[t] \in {"find", "recheck", "publish"} => goal[t] = pc[t]
        /\ pc[t] = "register" => goal[t] = "recheck"

\* Between its acquisition for writing and its release by t.
Writing(t) == \/ pc[t] \in {"recheck", "register", "publish"}
              \/ pc[t] \in {"bind", "ip_lock"} /\ goal[t] # "find"

\* pkgs_lock excludes a second writer.
LockInv == \A t \in Threads : Writing(t) => writer = t

\* What vm->pkgs holds for a package tells whether its body was started and ended.
TableInv ==
    /\ \A p \in Pkgs : /\ started[p] = IF pkgs[p] = "none" THEN 0 ELSE 1
                       /\ pkg[p] => pkgs[p] # "none"
                       /\ pkgs[p] = "package" => pkg[p]
    /\ \A p \in attrs : pkg[p]

\* What a thread knows of the package it imports.
StageInv ==
    \A t \in Threads :
        /\ pc[t] = "register" => pkgs[Current(t)] = "none"
        /\ pc[t] = "eval" => pkgs[Current(t)] # "none"
        /\ \/ pc[t] \in {"got", "publish"}
           \/ pc[t] \in {"free", "lock", "bind"} /\ goal[t] = "publish"
           => pkg[Current(t)]

\* The bodies that call others have been started, and the parents of all packages
\* under import have been executed.
FramesInv ==
    \A t \in Threads :
        /\ \A i \in 2 .. Len(frames[t]) : pkgs[Part(frames[t][i])] # "none"
        /\ \A i \in 1 .. Len(frames[t]) :
              frames[t][i].pos > 1 => pkg[frames[t][i].name[frames[t][i].pos - 1]]

\* Who waits for a placeholder sleeps, and imports that package.
WaitInv ==
    \A p \in Pkgs : \A t \in waiters[p] : pc[t] = "sleep" /\ Current(t) = p

\* The body of a package is executed at most once, however many threads import
\* it at the same time (the second lookup, under the write lock).
ExecutedOnce == \A p \in Pkgs : started[p] <= 1

\* import_package returns a package whose body has been executed to its end, to
\* the importing thread and to those that waited for it, and so does the
\* attribute of its parent through which scripts reach it.
NeverHalfImported ==
    /\ \A t \in Threads : pc[t] = "got" => pkg[Current(t)] /\ pkgs[Current(t)] # "none"
    /\ \A p \in attrs : pkg[p]

\* "When do import foo.bar, Yog executes foo.yg at first.  After this, Yog
\* executes foo/bar.yg" (doc/tutorial.ydoc): the body of a package starts after
\* that of its parent has ended, also when another thread imports the parent.
ParentFirst ==
    \A name \in Names : \A i \in 2 .. Len(name) :
        started[name[i]] > 0 => pkg[name[i - 1]]

\* The inductive invariant of import: the read/write lock, the placeholders and the
\* stages of all threads agree, so that only one thread ever starts a body and
\* "got" is reached only after its end.
ImportInv ==
    /\ TypeOK /\ CallInv /\ LockInv /\ TableInv
    /\ StageInv /\ FramesInv /\ WaitInv /\ ParentFirst

\* A package, once it is in vm->pkgs, is never replaced.
PackagesStay == [][\A p \in Pkgs : pkgs[p] = "package" => pkgs'[p] = "package"]_vars

\* "return: an imported package" (doc/library/builtins/functions.ydoc): no import
\* gets stuck because the collector waits for a thread t in get_package, t for
\* the mutex of the placeholder, and the holder of that mutex, in wait_package,
\* for the collection to end.
NoCircularWait ==
    gc # NoThread => \A t, u \in Threads :
        pc[t] = "ip_lock" /\ lock[Current(t)] = u => pc[u] \notin {"wait_free", "wait_bind"}

\* "return: an imported package" (doc/library/builtins/functions.ydoc): a call of
\* import_package returns or raises.
ImportReturns == \A t \in Threads : Len(frames[t]) = 1 ~> Len(frames[t]) # 1
=============================================================================
