---------------------------- MODULE SymbolTable ----------------------------
(***************************************************************************)
(* The symbols of the virtual machine: YogVM_intern2 and YogVM_id2name of  *)
(* src/vm.c, the tables vm->name2id and vm->id2name, vm->next_id and the   *)
(* read/write lock vm->sym_lock.  Threads intern names at the same time;   *)
(* a name is looked up under the read lock, and again under the write lock *)
(* before it is added in several steps, each of which may allocate.        *)
(*                                                                         *)
(* The collector appears as StopTheWorld promises it (see GCSuspend), as   *)
(* in PackageImport.  The two tables are partial functions: a string is    *)
(* its contents, which is how name2id compares its keys.                   *)
(***************************************************************************)
EXTENDS Naturals, FiniteSets

CONSTANTS
    Threads,     \* the threads that intern names
    NoThread,    \* not a thread
    Names,       \* strings
    NoName,      \* not a string
    Collecting,  \* the threads that may ask for a collection
    PreferWriter \* PTHREAD_RWLOCK_PREFER_WRITER_NP is known and obeyed

ASSUME SymbolAssumption ==
    /\ NoThread \notin Threads
    /\ NoName \notin Names
    /\ Collecting \subseteq Threads
    /\ PreferWriter \in BOOLEAN

VARIABLES
    pc,         \* where each thread is
    goal,       \* what it takes sym_lock for: "find", "recheck", "lookup"
    name,       \* the argument of its call of intern2
    id,         \* the argument of its call of id2name
    readers,    \* holders of sym_lock for reading
    writer,     \* holder of sym_lock for writing
    name2id,    \* vm->name2id
    id2name,    \* vm->id2name
    next_id,    \* vm->next_id
    interned,   \* <<n, i>>: a call of intern2 with name n has returned i
    gc          \* the thread that has asked for a collection

callVars == <<goal, name, id>>
lockVars == <<readers, writer>>
tableVars == <<name2id, id2name, next_id>>
vars == <<pc, goal, name, id, readers, writer, name2id, id2name, next_id, interned, gc>>

\* The allocations: in the script, YogString_clone and YogTable_add_direct.
Allocating == {"idle", "clone", "add_name", "add_id"}
PCs == Allocating \cup {"free", "lock", "bind", "find", "recheck", "next", "lookup"}

\* Mutant of AtSafePoint: sym_lock is waited for without YogGC_free_from_gc.
BoundAtLock(t) == pc[t] \in Allocating \cup {"free"}

\* Where a thread lets a collection go on: at an allocation, in
\* YogGC_free_from_gc, and outside until YogGC_bind_to_gc.
AtSafePoint(t) == pc[t] \in Allocating \cup {"free", "lock", "bind"}

TypeOK ==
    /\ pc \in [Threads -> PCs]
    /\ goal \in [Threads -> {"find", "recheck", "lookup"}]
    /\ name \in [Threads -> Names \cup {NoName}]
    /\ id \in [Threads -> Nat]
    /\ readers \in SUBSET Threads
    /\ writer \in Threads \cup {NoThread}
    /\ DOMAIN name2id \in SUBSET Names
    /\ \A n \in DOMAIN name2id : name2id[n] \in Nat
    /\ DOMAIN id2name \in SUBSET Nat
    /\ \A i \in DOMAIN id2name : id2name[i] \in Names
    /\ next_id \in Nat
    /\ interned \in SUBSET (Names \X Nat)
    /\ gc \in Threads \cup {NoThread}

\* YogVM_init and setup_symbol_tables.
Init ==
    /\ pc = [t \in Threads |-> "idle"]
    /\ goal = [t \in Threads |-> "find"]
    /\ name = [t \in Threads |-> NoName]
    /\ id = [t \in Threads |-> 0]
    /\ readers = {}
    /\ writer = NoThread
    /\ name2id = [n \in {} |-> 0]
    /\ id2name = [i \in {} |-> NoName]
    /\ next_id = 0
    /\ interned = {}
    /\ gc = NoThread

-----------------------------------------------------------------------------
Goto(t, l) == pc' = [pc EXCEPT ![t] = l]

\* Begin acquire_symbols_read_lock (goals "find" and "lookup") or
\* acquire_symbols_write_lock (goal "recheck").
Acquire(t, g) == Goto(t, "free") /\ goal' = [goal EXCEPT ![t] = g]

\* release_symbols_lock by t.
Release(t) == /\ readers' = readers \ {t}
              /\ writer' = IF writer = t THEN NoThread ELSE writer

\* A call of YogVM_intern2 with name n.
Intern(t, n) ==
    /\ pc[t] = "idle"
    /\ name' = [name EXCEPT ![t] = n]
    /\ Acquire(t, "find")
    /\ UNCHANGED <<id, lockVars, tableVars, interned, gc>>

\* A call of YogVM_id2name with an id that some call of intern2 has returned.
Id2Name(t, i) ==
    /\ pc[t] = "idle"
    /\ \E n \in Names : <<n, i>> \in interned
    /\ id' = [id EXCEPT ![t] = i]
    /\ Acquire(t, "lookup")
    /\ UNCHANGED <<name, lockVars, tableVars, interned, gc>>

\* acquire_read_lock and acquire_write_lock: YogGC_free_from_gc, the lock,
\* YogGC_bind_to_gc.
FreeFromGC(t) ==
    /\ pc[t] = "free"
    /\ gc = NoThread
    /\ Goto(t, "lock")
    /\ UNCHANGED <<callVars, lockVars, tableVars, interned, gc>>

\* A writer waits, and init_read_write_lock gave it the preference.
Yields == PreferWriter /\ \E t \in Threads : pc[t] = "lock" /\ goal[t] = "recheck"

TakeLock(t) ==
    /\ pc[t] = "lock"
    /\ writer = NoThread
    /\ \/ /\ goal[t] # "recheck"
          /\ ~Yields
          /\ readers' = readers \cup {t}
          /\ UNCHANGED writer
       \/ /\ goal[t] = "recheck"
          /\ readers = {}
          /\ writer' = t
          /\ UNCHANGED readers
    /\ Goto(t, "bind")
    /\ UNCHANGED <<callVars, tableVars, interned, gc>>

BindToGC(t) ==
    /\ pc[t] = "bind"
    /\ gc = NoThread
    /\ Goto(t, goal[t])
    /\ UNCHANGED <<callVars, lockVars, tableVars, interned, gc>>

\* A call ends: its locals are gone.
EndCall(t) ==
    /\ Goto(t, "idle")
    /\ goal' = [goal EXCEPT ![t] = "find"]
    /\ name' = [name EXCEPT ![t] = NoName]
    /\ id' = [id EXCEPT ![t] = 0]
    /\ Release(t)

\* intern2 releases the lock and returns i.
Return(t, i) ==
    /\ EndCall(t)
    /\ interned' = interned \cup {<<name[t], i>>}

\* FIND_SYM under the read lock: the name is known, or the write lock is needed.
Find(t) ==
    /\ pc[t] = "find"
    /\ \/ /\ name[t] \in DOMAIN name2id
          /\ Return(t, name2id[name[t]])
       \/ /\ name[t] \notin DOMAIN name2id
          /\ Release(t)
          /\ Acquire(t, "recheck")
          /\ UNCHANGED <<name, id, interned>>
    /\ UNCHANGED <<tableVars, gc>>

\* Mutant of Recheck: the name is not looked up again under the write lock.
NoRecheck(t) ==
    /\ pc[t] = "recheck"
    /\ Goto(t, "clone")
    /\ UNCHANGED <<callVars, lockVars, tableVars, interned, gc>>

\* FIND_SYM under the write lock.
Recheck(t) ==
    /\ pc[t] = "recheck"
    /\ \/ /\ name[t] \in DOMAIN name2id
          /\ Return(t, name2id[name[t]])
       \/ /\ name[t] \notin DOMAIN name2id
          /\ Goto(t, "clone")
          /\ UNCHANGED <<callVars, lockVars, interned>>
    /\ UNCHANGED <<tableVars, gc>>

\* YogString_clone.
Clone(t) ==
    /\ pc[t] = "clone"
    /\ gc = NoThread
    /\ Goto(t, "add_name")
    /\ UNCHANGED <<callVars, lockVars, tableVars, interned, gc>>

\* Extend a partial function by one pair.
With(f, x, y) == [z \in DOMAIN f \cup {x} |-> IF z = x THEN y ELSE f[z]]

\* Mutant of AddName: the name is not added to vm->id2name.
AddNameOnly(t) ==
    /\ pc[t] = "add_name"
    /\ gc = NoThread
    /\ name2id' = With(name2id, name[t], next_id)
    /\ Goto(t, "next")
    /\ UNCHANGED <<callVars, lockVars, id2name, next_id, interned, gc>>

\* YogTable_add_direct on vm->name2id, then on vm->id2name.
AddName(t) ==
    /\ pc[t] = "add_name"
    /\ gc = NoThread
    /\ name2id' = With(name2id, name[t], next_id)
    /\ Goto(t, "add_id")
    /\ UNCHANGED <<callVars, lockVars, id2name, next_id, interned, gc>>

AddId(t) ==
    /\ pc[t] = "add_id"
    /\ gc = NoThread
    /\ id2name' = With(id2name, next_id, name[t])
    /\ Goto(t, "next")
    /\ UNCHANGED <<callVars, lockVars, name2id, next_id, interned, gc>>

\* Mutant of NextId: next_id is not incremented.
SameId(t) ==
    /\ pc[t] = "next"
    /\ Return(t, next_id)
    /\ UNCHANGED <<tableVars, gc>>

\* vm->next_id++ and the return from intern2.
NextId(t) ==
    /\ pc[t] = "next"
    /\ next_id' = next_id + 1
    /\ Return(t, next_id)
    /\ UNCHANGED <<name2id, id2name, gc>>

\* YogTable_lookup on vm->id2name; YOG_BUG ends the process when it finds
\* nothing, which SymbolsFound excludes.
Lookup(t) ==
    /\ pc[t] = "lookup"
    /\ id[t] \in DOMAIN id2name
    /\ EndCall(t)
    /\ UNCHANGED <<tableVars, interned, gc>>

-----------------------------------------------------------------------------
\* An allocation asks for a collection.
AskForGC(t) ==
    /\ t \in Collecting
    /\ gc = NoThread
    /\ pc[t] \in Allocating
    /\ gc' = t
    /\ UNCHANGED <<pc, callVars, lockVars, tableVars, interned>>

\* Every other thread is outside or has stopped: the collection runs and ends.
EndGC(t) ==
    /\ gc = t
    /\ \A s \in Threads \ {t} : AtSafePoint(s)
    /\ gc' = NoThread
    /\ UNCHANGED <<pc, callVars, lockVars, tableVars, interned>>

\* What t does inside a call; a thread that waits for its own collection to end
\* does nothing else.
Step(t) ==
    /\ gc # t
    /\ \/ FreeFromGC(t) \/ TakeLock(t) \/ BindToGC(t)
       \/ Find(t) \/ Recheck(t) \/ Clone(t) \/ AddName(t) \/ AddId(t) \/ NextId(t)
       \/ Lookup(t)

Choice(t) ==
    /\ gc # t
    /\ \/ \E n \in Names : Intern(t, n)
       \/ \E i \in 0 .. next_id : Id2Name(t, i)
       \/ AskForGC(t)

Next == \E t \in Threads : Step(t) \/ EndGC(t) \/ Choice(t)

Spec == Init /\ [][Next]_vars

\* Threads go on when they can, no lock is kept from a thread for ever, and one
\* allocation asks for finitely many collections.
Fairness == \A t \in Threads : SF_vars(Step(t)) /\ WF_vars(EndGC(t))

FairSpec == Spec /\ Fairness

-----------------------------------------------------------------------------
(* Properties.                                                             *)

\* Symbols are equal exactly if their names are (equal in symbol.c compares ids
\* only): every call of intern2 with one name has returned one id, in whatever
\* thread, and calls with different names have returned different ids.
SymbolsUnique ==
    \A p, q \in interned : p[1] = q[1] <=> p[2] = q[2]

\* id2name finds every id that intern2 has returned, and its name ("can't find
\* symbol" never happens).
SymbolsFound ==
    /\ \A p \in interned : p[2] \in DOMAIN id2name /\ id2name[p[2]] = p[1]
    /\ \A t \in Threads : pc[t] = "lookup" => id[t] \in DOMAIN id2name

\* A symbol keeps its name for ever.
NamesStay ==
    [][/\ \A i \in DOMAIN id2name : i \in DOMAIN id2name' /\ id2name'[i] = id2name[i]
       /\ \A n \in DOMAIN name2id : n \in DOMAIN name2id' /\ name2id'[n] = name2id[n]]_vars

\* A call of intern2 or id2name returns, also when collections come in between:
\* sym_lock is only waited for outside the collector.
CallsReturn == \A t \in Threads : pc[t] = "free" ~> pc[t] = "idle"

-----------------------------------------------------------------------------
(* The inductive invariant.                                                *)

\* The section in which t holds sym_lock, and how.
Holds(t, g) == \/ pc[t] = "bind" /\ goal[t] = g
               \/ pc[t] = g
Adding == {"clone", "add_name", "add_id", "next"}

\* The locals of a call, from its start to its end.
CallInv ==
    \A t \in Threads :
        /\ pc[t] \in {"find", "recheck", "lookup"} => goal[t] = pc[t]
        /\ pc[t] \in Adding => goal[t] = "recheck"
        /\ pc[t] # "idle" /\ goal[t] # "lookup" => name[t] \in Names
        /\ goal[t] = "lookup" => \E n \in Names : <<n, id[t]>> \in interned

\* The holders of sym_lock are where the lock says, and a writer is alone.
LockInv ==
    /\ \A t \in Threads : Holds(t, "find") \/ Holds(t, "lookup") => t \in readers
    /\ \A t \in Threads : Holds(t, "recheck") \/ pc[t] \in Adding => writer = t
    /\ writer # NoThread => readers = {}

\* Where the writer is in the middle of an addition.
AddInv ==
    \A t \in Threads :
        /\ pc[t] \in {"clone", "add_name"} => name[t] \notin DOMAIN name2id
        /\ pc[t] \in {"add_id", "next"} =>
             name[t] \in DOMAIN name2id /\ name2id[name[t]] = next_id
        /\ pc[t] = "next" => next_id \in DOMAIN id2name /\ id2name[next_id] = name[t]

\* Every entry is older than next_id or the one that the writer adds just now,
\* and the tables are inverse but for that one.
TablesInv ==
    /\ \A n \in DOMAIN name2id :
          \/ /\ name2id[n] < next_id
             /\ name2id[n] \in DOMAIN id2name
             /\ id2name[name2id[n]] = n
          \/ /\ name2id[n] = next_id
             /\ \E t \in Threads : pc[t] \in {"add_id", "next"} /\ name[t] = n
    /\ \A i \in DOMAIN id2name :
          /\ id2name[i] \in DOMAIN name2id
          /\ name2id[id2name[i]] = i
          /\ i < next_id \/ (i = next_id /\ \E t \in Threads : pc[t] = "next")

\* What intern2 has returned is in both tables.
ReturnedInv ==
    \A p \in interned :
        p[1] \in DOMAIN name2id /\ name2id[p[1]] = p[2] /\ p[2] < next_id

SymbolInv == TypeOK /\ CallInv /\ LockInv /\ AddInv /\ TablesInv /\ ReturnedInv
=============================================================================
