------------------------- MODULE SymbolTableProofs -------------------------
(***************************************************************************)
(* Proofs about SymbolTable, for any set of threads, any set of names and  *)
(* either kind of read/write lock.  SymbolInv is inductive: one lemma per  *)
(* action, in each one step per conjunct.  What intern2 promises follows   *)
(* from it.                                                                *)
(***************************************************************************)
EXTENDS SymbolTable, TLAPS

\* Under sym_lock, unless by the thread that adds it, a name is only found with
\* its final id: a reader excludes the writer, and there is one writer.
LEMMA FoundId ==
  ASSUME SymbolInv, NEW t \in Threads, pc[t] \in {"find", "recheck"},
         name[t] \in DOMAIN name2id
  PROVE  name2id[name[t]] < next_id
  <1>1. CASE pc[t] = "find"
    BY <1>1, SymbolAssumption
    DEF SymbolInv, TypeOK, LockInv, Holds, Adding, TablesInv
  <1>2. CASE pc[t] = "recheck"
    BY <1>2, SymbolAssumption
    DEF SymbolInv, TypeOK, LockInv, Holds, Adding, TablesInv
  <1> QED
    BY <1>1, <1>2

\* A lookup that finds the name returns an id of the table.
LEMMA ReturnFound ==
  ASSUME SymbolInv, NEW t \in Threads, pc[t] \in {"find", "recheck"},
         name[t] \in DOMAIN name2id, Return(t, name2id[name[t]]), UNCHANGED tableVars
  PROVE  CallInv' /\ ReturnedInv'
  <1>1. interned' = interned \cup {<<name[t], name2id[name[t]]>>}
    BY DEF Return
  <1>2. name2id[name[t]] < next_id
    BY FoundId
  <1>3. ReturnedInv'
    <2> SUFFICES ASSUME NEW p \in interned'
                 PROVE  p[1] \in DOMAIN name2id /\ name2id[p[1]] = p[2] /\ p[2] < next_id
      BY DEF ReturnedInv, tableVars
    <2>1. CASE p \in interned
      BY <2>1 DEF SymbolInv, ReturnedInv
    <2>2. CASE p = <<name[t], name2id[name[t]]>>
      BY <2>2, <1>2
    <2> QED
      BY <1>1, <2>1, <2>2
  <1>4. CallInv'
    <2> SUFFICES ASSUME NEW s \in Threads
                 PROVE  CallInv!(s)'
      BY DEF CallInv
    <2>1. CASE s = t
      BY <2>1 DEF Return, EndCall, Goto, SymbolInv, TypeOK, Adding
    <2>2. CASE s # t
      <3>1. pc'[s] = pc[s] /\ goal'[s] = goal[s] /\ name'[s] = name[s] /\ id'[s] = id[s]
        BY <2>2 DEF Return, EndCall, Goto, SymbolInv, TypeOK
      <3>2. interned \subseteq interned'
        BY <1>1
      <3> QED
        BY <3>1, <3>2 DEF SymbolInv, CallInv
    <2> QED
      BY <2>1, <2>2
  <1> QED
    BY <1>3, <1>4

\* A call of intern2 begins.
LEMMA InternPreserves ==
  ASSUME SymbolInv, NEW t \in Threads, NEW n \in Names, Intern(t, n)
  PROVE  SymbolInv'
  <1> USE SymbolAssumption DEF SymbolInv, Intern, Acquire, callVars, lockVars, tableVars, Goto
  <1>1. TypeOK'
    BY DEF TypeOK, PCs, Allocating, CallInv, Adding
  <1>2. CallInv'
    BY DEF TypeOK, PCs, Allocating, CallInv, Adding
  <1>3. LockInv'
    BY DEF TypeOK, LockInv, Holds, Adding
  <1>4. AddInv'
    BY DEF TypeOK, LockInv, Holds, Adding, AddInv
  <1>5. TablesInv'
    BY DEF TypeOK, CallInv, LockInv, Holds, Adding, AddInv, TablesInv
  <1>6. ReturnedInv'
    BY DEF TypeOK, CallInv, Adding, AddInv, ReturnedInv
  <1> QED
    BY <1>1, <1>2, <1>3, <1>4, <1>5, <1>6

\* A call of id2name begins.
LEMMA Id2NamePreserves ==
  ASSUME SymbolInv, NEW t \in Threads, NEW i \in Nat, Id2Name(t, i)
  PROVE  SymbolInv'
  <1> USE SymbolAssumption DEF SymbolInv, Id2Name, Acquire, callVars, lockVars, tableVars, Goto
  <1>1. TypeOK'
    BY DEF TypeOK, PCs, Allocating, CallInv, Adding
  <1>2. CallInv'
    BY DEF TypeOK, PCs, Allocating, CallInv, Adding
  <1>3. LockInv'
    BY DEF TypeOK, LockInv, Holds, Adding
  <1>4. AddInv'
    BY DEF TypeOK, LockInv, Holds, Adding, AddInv
  <1>5. TablesInv'
    BY DEF TypeOK, CallInv, LockInv, Holds, Adding, AddInv, TablesInv
  <1>6. ReturnedInv'
    BY DEF TypeOK, CallInv, Adding, AddInv, ReturnedInv
  <1> QED
    BY <1>1, <1>2, <1>3, <1>4, <1>5, <1>6

\* YogGC_free_from_gc.
LEMMA FreeFromGCPreserves ==
  ASSUME SymbolInv, NEW t \in Threads, FreeFromGC(t)
  PROVE  SymbolInv'
  <1> USE SymbolAssumption DEF SymbolInv, FreeFromGC, callVars, lockVars, tableVars, Goto
  <1>1. TypeOK'
    BY DEF TypeOK, PCs, Allocating, CallInv, Adding
  <1>2. CallInv'
    BY DEF TypeOK, PCs, Allocating, CallInv, Adding
  <1>3. LockInv'
    BY DEF TypeOK, LockInv, Holds, Adding
  <1>4. AddInv'
    BY DEF TypeOK, LockInv, Holds, Adding, AddInv
  <1>5. TablesInv'
    BY DEF TypeOK, CallInv, LockInv, Holds, Adding, AddInv, TablesInv
  <1>6. ReturnedInv'
    BY DEF TypeOK, CallInv, Adding, AddInv, ReturnedInv
  <1> QED
    BY <1>1, <1>2, <1>3, <1>4, <1>5, <1>6

\* sym_lock is taken: a writer finds no holder, a reader no writer.
LEMMA TakeLockPreserves ==
  ASSUME SymbolInv, NEW t \in Threads, TakeLock(t)
  PROVE  SymbolInv'
  <1> USE SymbolAssumption DEF SymbolInv, TakeLock, callVars, lockVars, tableVars, Goto
  <1>1. TypeOK'
    BY DEF TypeOK, PCs, Allocating, CallInv, Adding
  <1>2. CallInv'
    BY DEF TypeOK, PCs, Allocating, CallInv, Adding
  <1>3. LockInv'
    BY DEF TypeOK, LockInv, Holds, Adding
  <1>4. AddInv'
    BY DEF TypeOK, LockInv, Holds, Adding, AddInv
  <1>5. TablesInv'
    BY DEF TypeOK, CallInv, LockInv, Holds, Adding, AddInv, TablesInv
  <1>6. ReturnedInv'
    BY DEF TypeOK, CallInv, Adding, AddInv, ReturnedInv
  <1> QED
    BY <1>1, <1>2, <1>3, <1>4, <1>5, <1>6

\* YogGC_bind_to_gc.
LEMMA BindToGCPreserves ==
  ASSUME SymbolInv, NEW t \in Threads, BindToGC(t)
  PROVE  SymbolInv'
  <1> USE SymbolAssumption DEF SymbolInv, BindToGC, callVars, lockVars, tableVars, Goto
  <1>1. TypeOK'
    BY DEF TypeOK, PCs, Allocating, CallInv, Adding
  <1>2. CallInv'
    BY DEF TypeOK, PCs, Allocating, CallInv, Adding
  <1>3. LockInv'
    BY DEF TypeOK, LockInv, Holds, Adding
  <1>4. AddInv'
    BY DEF TypeOK, LockInv, Holds, Adding, AddInv
  <1>5. TablesInv'
    BY DEF TypeOK, CallInv, LockInv, Holds, Adding, AddInv, TablesInv
  <1>6. ReturnedInv'
    BY DEF TypeOK, CallInv, Adding, AddInv, ReturnedInv
  <1> QED
    BY <1>1, <1>2, <1>3, <1>4, <1>5, <1>6

\* The first lookup of intern2.
LEMMA FindPreserves ==
  ASSUME SymbolInv, NEW t \in Threads, Find(t)
  PROVE  SymbolInv'
  <1> USE SymbolAssumption DEF SymbolInv, Find, Return, EndCall, Release, Acquire, callVars, lockVars, tableVars, Goto
  <1>1. TypeOK'
    BY DEF TypeOK, PCs, Allocating, CallInv, Adding
  <1>2. CallInv'
    <2>1. CASE name[t] \in DOMAIN name2id
      BY <2>1, ReturnFound
    <2>2. CASE name[t] \notin DOMAIN name2id
      <3>1. pc'[t] = "free" /\ goal'[t] = "recheck" /\ name'[t] \in Names
        BY <2>2 DEF TypeOK, CallInv
      <3>2. interned' = interned /\ id' = id
        BY <2>2
      <3>3. \A s \in Threads \ {t} : pc'[s] = pc[s] /\ goal'[s] = goal[s] /\ name'[s] = name[s]
        BY <2>2 DEF TypeOK
      <3> QED
        BY <3>1, <3>2, <3>3 DEF CallInv, Adding
    <2> QED
      BY <2>1, <2>2
  <1>3. LockInv'
    BY DEF TypeOK, LockInv, Holds, Adding
  <1>4. AddInv'
    BY DEF TypeOK, LockInv, Holds, Adding, AddInv
  <1>5. TablesInv'
    BY DEF TypeOK, CallInv, LockInv, Holds, Adding, AddInv, TablesInv
  <1>6. ReturnedInv'
    BY ReturnFound DEF ReturnedInv
  <1> QED
    BY <1>1, <1>2, <1>3, <1>4, <1>5, <1>6

\* The second lookup of intern2.
LEMMA RecheckPreserves ==
  ASSUME SymbolInv, NEW t \in Threads, Recheck(t)
  PROVE  SymbolInv'
  <1> USE SymbolAssumption DEF SymbolInv, Recheck, Return, EndCall, Release, callVars, lockVars, tableVars, Goto
  <1>1. TypeOK'
    BY DEF TypeOK, PCs, Allocating, CallInv, Adding
  <1>2. CallInv'
    BY SMTT(30) DEF TypeOK, PCs, Allocating, CallInv, Adding
  <1>3. LockInv'
    BY DEF TypeOK, LockInv, Holds, Adding
  <1>4. AddInv'
    BY DEF TypeOK, LockInv, Holds, Adding, AddInv
  <1>5. TablesInv'
    BY DEF TypeOK, CallInv, LockInv, Holds, Adding, AddInv, TablesInv
  <1>6. ReturnedInv'
    BY ReturnFound DEF ReturnedInv
  <1> QED
    BY <1>1, <1>2, <1>3, <1>4, <1>5, <1>6

\* YogString_clone.
LEMMA ClonePreserves ==
  ASSUME SymbolInv, NEW t \in Threads, Clone(t)
  PROVE  SymbolInv'
  <1> USE SymbolAssumption DEF SymbolInv, Clone, callVars, lockVars, tableVars, Goto
  <1>1. TypeOK'
    BY DEF TypeOK, PCs, Allocating, CallInv, Adding
  <1>2. CallInv'
    BY DEF TypeOK, PCs, Allocating, CallInv, Adding
  <1>3. LockInv'
    BY DEF TypeOK, LockInv, Holds, Adding
  <1>4. AddInv'
    BY DEF TypeOK, LockInv, Holds, Adding, AddInv
  <1>5. TablesInv'
    BY DEF TypeOK, CallInv, LockInv, Holds, Adding, AddInv, TablesInv
  <1>6. ReturnedInv'
    BY DEF TypeOK, CallInv, Adding, AddInv, ReturnedInv
  <1> QED
    BY <1>1, <1>2, <1>3, <1>4, <1>5, <1>6

\* The new entry of name2id is the one with id next_id.
LEMMA AddNamePreserves ==
  ASSUME SymbolInv, NEW t \in Threads, AddName(t)
  PROVE  SymbolInv'
  <1> USE SymbolAssumption DEF SymbolInv, AddName, With, callVars, lockVars, tableVars, Goto
  <1>1. TypeOK'
    BY DEF TypeOK, PCs, Allocating, CallInv, Adding
  <1>2. CallInv'
    BY DEF TypeOK, PCs, Allocating, CallInv, Adding
  <1>3. LockInv'
    BY DEF TypeOK, LockInv, Holds, Adding
  <1>4. AddInv'
    BY DEF TypeOK, LockInv, Holds, Adding, AddInv
  <1>5. TablesInv'
    BY DEF TypeOK, CallInv, LockInv, Holds, Adding, AddInv, TablesInv
  <1>6. ReturnedInv'
    BY DEF TypeOK, CallInv, Adding, AddInv, ReturnedInv
  <1> QED
    BY <1>1, <1>2, <1>3, <1>4, <1>5, <1>6

\* The new entry of id2name is the inverse of that one.
LEMMA AddIdPreserves ==
  ASSUME SymbolInv, NEW t \in Threads, AddId(t)
  PROVE  SymbolInv'
  <1> USE SymbolAssumption DEF SymbolInv, AddId, With, callVars, lockVars, tableVars, Goto
  <1>1. TypeOK'
    BY DEF TypeOK, PCs, Allocating, CallInv, Adding
  <1>2. CallInv'
    BY DEF TypeOK, PCs, Allocating, CallInv, Adding
  <1>3. LockInv'
    BY DEF TypeOK, LockInv, Holds, Adding
  <1>4. AddInv'
    BY DEF TypeOK, LockInv, Holds, Adding, AddInv
  <1>5. TablesInv'
    BY DEF TypeOK, CallInv, LockInv, Holds, Adding, AddInv, TablesInv
  <1>6. ReturnedInv'
    BY DEF TypeOK, CallInv, Adding, AddInv, ReturnedInv
  <1> QED
    BY <1>1, <1>2, <1>3, <1>4, <1>5, <1>6

\* Once next_id is incremented the new entry is an old one.
LEMMA NextIdPreserves ==
  ASSUME SymbolInv, NEW t \in Threads, NextId(t)
  PROVE  SymbolInv'
  <1> USE SymbolAssumption DEF SymbolInv, NextId, Return, EndCall, Release, callVars, lockVars, tableVars, Goto
  <1>1. TypeOK'
    BY DEF TypeOK, PCs, Allocating, CallInv, Adding
  <1>2. CallInv'
    BY DEF TypeOK, PCs, Allocating, CallInv, Adding
  <1>3. LockInv'
    BY DEF TypeOK, LockInv, Holds, Adding
  <1>4. AddInv'
    BY DEF TypeOK, LockInv, Holds, Adding, AddInv
  <1>5. TablesInv'
    BY DEF TypeOK, CallInv, LockInv, Holds, Adding, AddInv, TablesInv
  <1>6. ReturnedInv'
    BY DEF TypeOK, CallInv, Adding, AddInv, ReturnedInv
  <1> QED
    BY <1>1, <1>2, <1>3, <1>4, <1>5, <1>6

\* The lookup of id2name.
LEMMA LookupPreserves ==
  ASSUME SymbolInv, NEW t \in Threads, Lookup(t)
  PROVE  SymbolInv'
  <1> USE SymbolAssumption DEF SymbolInv, Lookup, EndCall, Release, callVars, lockVars, tableVars, Goto
  <1>1. TypeOK'
    BY DEF TypeOK, PCs, Allocating, CallInv, Adding
  <1>2. CallInv'
    BY DEF TypeOK, PCs, Allocating, CallInv, Adding
  <1>3. LockInv'
    BY DEF TypeOK, LockInv, Holds, Adding
  <1>4. AddInv'
    BY DEF TypeOK, LockInv, Holds, Adding, AddInv
  <1>5. TablesInv'
    BY DEF TypeOK, CallInv, LockInv, Holds, Adding, AddInv, TablesInv
  <1>6. ReturnedInv'
    BY DEF TypeOK, CallInv, Adding, AddInv, ReturnedInv
  <1> QED
    BY <1>1, <1>2, <1>3, <1>4, <1>5, <1>6

\* A collection is asked for.
LEMMA AskForGCPreserves ==
  ASSUME SymbolInv, NEW t \in Threads, AskForGC(t)
  PROVE  SymbolInv'
  <1> USE SymbolAssumption DEF SymbolInv, AskForGC, callVars, lockVars, tableVars, Goto
  <1>1. TypeOK'
    BY DEF TypeOK, PCs, Allocating, CallInv, Adding
  <1>2. CallInv'
    BY DEF TypeOK, PCs, Allocating, CallInv, Adding
  <1>3. LockInv'
    BY DEF TypeOK, LockInv, Holds, Adding
  <1>4. AddInv'
    BY DEF TypeOK, LockInv, Holds, Adding, AddInv
  <1>5. TablesInv'
    BY DEF TypeOK, CallInv, LockInv, Holds, Adding, AddInv, TablesInv
  <1>6. ReturnedInv'
    BY DEF TypeOK, CallInv, Adding, AddInv, ReturnedInv
  <1> QED
    BY <1>1, <1>2, <1>3, <1>4, <1>5, <1>6

\* A collection ends.
LEMMA EndGCPreserves ==
  ASSUME SymbolInv, NEW t \in Threads, EndGC(t)
  PROVE  SymbolInv'
  <1> USE SymbolAssumption DEF SymbolInv, EndGC, callVars, lockVars, tableVars, Goto
  <1>1. TypeOK'
    BY DEF TypeOK, PCs, Allocating, CallInv, Adding
  <1>2. CallInv'
    BY DEF TypeOK, PCs, Allocating, CallInv, Adding
  <1>3. LockInv'
    BY DEF TypeOK, LockInv, Holds, Adding
  <1>4. AddInv'
    BY DEF TypeOK, LockInv, Holds, Adding, AddInv
  <1>5. TablesInv'
    BY DEF TypeOK, CallInv, LockInv, Holds, Adding, AddInv, TablesInv
  <1>6. ReturnedInv'
    BY DEF TypeOK, CallInv, Adding, AddInv, ReturnedInv
  <1> QED
    BY <1>1, <1>2, <1>3, <1>4, <1>5, <1>6

-----------------------------------------------------------------------------
\* The initial state has empty tables and a free lock.
LEMMA InitInv == Init => SymbolInv
  BY SymbolAssumption
  DEF Init, SymbolInv, TypeOK, PCs, Allocating, CallInv, LockInv, Holds, Adding, AddInv,
      TablesInv, ReturnedInv

\* Every step of every thread preserves the invariant.
LEMMA NextInv == SymbolInv /\ [Next]_vars => SymbolInv'
  <1> SUFFICES ASSUME SymbolInv, [Next]_vars
               PROVE  SymbolInv'
    OBVIOUS
  <1>1. CASE UNCHANGED vars
    BY <1>1, SMTT(30)
    DEF vars, SymbolInv, TypeOK, CallInv, LockInv, Holds, AddInv, TablesInv, ReturnedInv
  <1>2. ASSUME NEW t \in Threads, Step(t) \/ EndGC(t)
        PROVE  SymbolInv'
    BY <1>2, FreeFromGCPreserves, TakeLockPreserves, BindToGCPreserves, FindPreserves,
       RecheckPreserves, ClonePreserves, AddNamePreserves, AddIdPreserves, NextIdPreserves,
       LookupPreserves, EndGCPreserves
    DEF Step
  <1>3. ASSUME NEW t \in Threads, Choice(t)
        PROVE  SymbolInv'
    <2>1. next_id \in Nat
      BY DEF SymbolInv, TypeOK
    <2>2. ASSUME NEW n \in Names, Intern(t, n)
          PROVE  SymbolInv'
      BY <2>2, InternPreserves
    <2>3. ASSUME NEW i \in 0 .. next_id, Id2Name(t, i)
          PROVE  SymbolInv'
      <3>1. i \in Nat
        BY <2>1
      <3> QED
        BY <2>3, <3>1, Id2NamePreserves
    <2> QED
      BY <1>3, <2>2, <2>3, AskForGCPreserves DEF Choice
  <1> QED
    BY <1>1, <1>2, <1>3 DEF Next

\* intern2 and id2name keep lock, tables and calls consistent in every
\* interleaving.
THEOREM SymbolCorrect == Spec => []SymbolInv
  BY InitInv, NextInv, PTL DEF Spec

-----------------------------------------------------------------------------
\* One symbol per name and one name per symbol, for all threads and collections.
THEOREM UniqueCorrect == Spec => []SymbolsUnique
  <1>1. SymbolInv => SymbolsUnique
    <2> SUFFICES ASSUME SymbolInv, NEW p \in interned, NEW q \in interned
                 PROVE  p[1] = q[1] <=> p[2] = q[2]
      BY DEF SymbolsUnique
    <2>1. /\ p[1] \in DOMAIN name2id /\ name2id[p[1]] = p[2] /\ p[2] < next_id
          /\ q[1] \in DOMAIN name2id /\ name2id[q[1]] = q[2] /\ q[2] < next_id
      BY DEF SymbolInv, ReturnedInv
    <2>2. next_id \in Nat /\ p[2] \in Nat /\ q[2] \in Nat
      BY <2>1 DEF SymbolInv, TypeOK
    <2>3. id2name[p[2]] = p[1] /\ id2name[q[2]] = q[1]
      BY <2>1, <2>2 DEF SymbolInv, TablesInv
    <2> QED
      BY <2>1, <2>3
  <1> QED
    BY <1>1, SymbolCorrect, PTL

\* id2name never fails on a symbol: YOG_BUG is not reached.
THEOREM FoundCorrect == Spec => []SymbolsFound
  <1>1. SymbolInv => SymbolsFound
    <2> SUFFICES ASSUME SymbolInv
                 PROVE  SymbolsFound
      OBVIOUS
    <2>1. ASSUME NEW p \in interned
          PROVE  p[2] \in DOMAIN id2name /\ id2name[p[2]] = p[1]
      <3>1. p[1] \in DOMAIN name2id /\ name2id[p[1]] = p[2] /\ p[2] < next_id
        BY DEF SymbolInv, ReturnedInv
      <3>2. next_id \in Nat /\ p[2] \in Nat
        BY <3>1 DEF SymbolInv, TypeOK
      <3> QED
        BY <3>1, <3>2 DEF SymbolInv, TablesInv
    <2>2. ASSUME NEW t \in Threads, pc[t] = "lookup"
          PROVE  id[t] \in DOMAIN id2name
      <3>1. PICK n \in Names : <<n, id[t]>> \in interned
        BY <2>2 DEF SymbolInv, CallInv
      <3> QED
        BY <3>1, <2>1
    <2> QED
      BY <2>1, <2>2 DEF SymbolsFound
  <1> QED
    BY <1>1, SymbolCorrect, PTL

\* A symbol keeps its name: entries are only added, and with new keys.
THEOREM StayCorrect == Spec => NamesStay
  <1> DEFINE Stay ==
        /\ \A i \in DOMAIN id2name : i \in DOMAIN id2name' /\ id2name'[i] = id2name[i]
        /\ \A n \in DOMAIN name2id : n \in DOMAIN name2id' /\ name2id'[n] = name2id[n]
  <1>1. SymbolInv /\ [Next]_vars => [Stay]_vars
    <2> SUFFICES ASSUME SymbolInv, NEW t \in Threads, Step(t) \/ EndGC(t) \/ Choice(t)
                 PROVE  Stay
      BY DEF Next
    <2>1. CASE AddName(t)
      <3>1. name[t] \notin DOMAIN name2id /\ id2name' = id2name
        BY <2>1 DEF AddName, SymbolInv, AddInv
      <3> QED
        BY <2>1, <3>1 DEF AddName, With
    <2>2. CASE AddId(t)
      <3>1. next_id \notin DOMAIN id2name
        BY <2>2 DEF AddId, SymbolInv, TypeOK, TablesInv, LockInv, Adding
      <3> QED
        BY <2>2, <3>1 DEF AddId, With
    <2>3. CASE UNCHANGED <<name2id, id2name>>
      BY <2>3
    <2>4. AddName(t) \/ AddId(t) \/ UNCHANGED <<name2id, id2name>>
      BY DEF Step, Choice, Intern, Id2Name, FreeFromGC, TakeLock, BindToGC, Find, Recheck,
             Clone, NextId, Lookup, AskForGC, EndGC, tableVars
    <2> QED
      BY <2>1, <2>2, <2>3, <2>4
  <1> QED
    BY <1>1, SymbolCorrect, PTL DEF Spec, NamesStay
=============================================================================
