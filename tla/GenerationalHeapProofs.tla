------------------------ MODULE GenerationalHeapProofs ------------------------
(***************************************************************************)
(* Proofs about GenerationalHeap, for any threads, variables, objects and  *)
(* age of tenure.  A step of the collector is the keeping of an object     *)
(* followed by a write; Collecting is the invariant of a collection as a   *)
(* function of the memory, so that it can be stated of the memory in       *)
(* between.  What is proved holds until doubled, which stays true: no      *)
(* constant says that threads keep out of each other's write barriers.     *)
(***************************************************************************)
EXTENDS GenerationalHeap, Induction, FiniteSetTheorems, SequenceTheorems, TLAPS

Records == [age : Nat, attr : Locs \cup {Nil}, remembered : BOOLEAN,
            forwarding_addr : Locs \cup {Nil}, marked : BOOLEAN]

LEMMA LocParts ==
  ASSUME NEW l \in Locs
  PROVE  /\ l # Nil /\ l[1] \in Objs /\ l[2] \in Threads /\ l[3] \in {"from", "to", "old"}
         /\ l = <<l[1], l[2], l[3]>>
         /\ IsOld(l) = (l[3] = "old") /\ IsYoung(l) = (l[3] # "old")
  BY HeapAssumption DEF Locs, IsOld, IsYoung

-----------------------------------------------------------------------------
(* The invariant of a collection, for memory m, variables v, remembered     *)
(* sets R, objects to scan q and variables to keep d.                       *)

Keeps(m, l) == l[3] = "to" \/ (l[3] = "old" /\ (phase = "minor" \/ m[l].marked))
IsDone(m, q, l) == Keeps(m, l) /\ \A h \in Threads : l \notin q[h]

CollTypes(m, v, R, q, d) ==
    /\ DOMAIN m \subseteq Locs /\ \A l \in DOMAIN m : m[l] \in Records
    /\ \A l \in DOMAIN m : m[l].attr \in DOMAIN m \cup {Nil}
    /\ v \in [Slots -> DOMAIN m \cup {Nil}]
    /\ \A s \in Slots : state[s[1]] # "running" => v[s] = Nil
    /\ R \in [Threads -> SUBSET DOMAIN m] /\ q \in [Threads -> SUBSET DOMAIN m]
    /\ d \in SUBSET Slots /\ collector \in Threads

CollCopies(m) ==
    /\ \A l, k \in DOMAIN m :
          l[1] = k[1] /\ l # k => k = m[l].forwarding_addr \/ l = m[k].forwarding_addr
    /\ \A l \in DOMAIN m : m[l].forwarding_addr # Nil =>
          LET to == m[l].forwarding_addr IN
          l[3] = "from" /\ to \in DOMAIN m /\ to[1] = l[1] /\ Keeps(m, to)

CollRemembered(m, R, q) ==
    /\ \A l \in DOMAIN m : m[l].remembered <=> l \in R[collector]
    /\ \A h \in Threads \ {collector} : R[h] = {}
    /\ \A l \in R[collector] : l[3] = "old" /\ IsDone(m, q, l)

CollRefs(m, v, q, d) ==
    /\ \A s \in Slots : v[s] # Nil =>
          IF s \in d THEN v[s][3] # "to" ELSE Keeps(m, v[s])
    /\ \A l \in DOMAIN m : m[l].attr # Nil =>
          IF IsDone(m, q, l)
          THEN Keeps(m, m[l].attr) /\ (l[3] = "old" /\ m[l].attr[3] # "old" => m[l].remembered)
          ELSE m[l].attr[3] # "to"

CollMarks(m, q) ==
    /\ \A h \in Threads : \A l \in q[h] :
          Keeps(m, l) /\ \A g \in Threads : l \in q[g] => g = h
    /\ \A l \in DOMAIN m : m[l].marked => phase = "major" /\ l[3] = "old"

Collecting(m, v, R, q, d) ==
    /\ CollTypes(m, v, R, q, d) /\ CollCopies(m) /\ CollRemembered(m, R, q)
    /\ CollRefs(m, v, q, d) /\ CollMarks(m, q)

LEMMA CollectingNow ==
  ASSUME MemoryInv, phase # "none"
  PROVE  /\ Collecting(mem, slot, remembered_set, marked_objects, todo)
         /\ collector \in Threads /\ state[collector] = "running" /\ collector \in Heaps
  <1>1. /\ \A l \in DOMAIN mem : l \in Locs /\ mem[l] \in Records
        /\ \A l \in DOMAIN mem : mem[l].attr # Nil => mem[l].attr \in DOMAIN mem
    BY DEF MemoryInv, TypeOK, Records, ReferencesInv
  <1>2. /\ \A l \in Locs : IsOld(l) <=> l[3] = "old"
        /\ \A l \in Locs : IsYoung(l) <=> l[3] # "old"
    BY LocParts
  <1>3. collector \in Threads /\ state[collector] = "running" /\ collector \in Heaps
    BY DEF MemoryInv, DuringInv, ReferencesInv
  <1>4. CollTypes(mem, slot, remembered_set, marked_objects, todo)
    BY <1>1, <1>3 DEF MemoryInv, TypeOK, ReferencesInv, RememberedInv, DuringInv, CollTypes
  <1>5. CollCopies(mem)
    BY DEF MemoryInv, CopiesInv, CollCopies, Survives, Keeps, Forwarded
  <1>6. CollRemembered(mem, remembered_set, marked_objects)
    <2>1. \A l \in DOMAIN mem : mem[l].remembered <=> l \in remembered_set[collector]
      <3>1. Heaps \subseteq Threads
        BY DEF Heaps, MemoryInv, TypeOK
      <3>2. \A h \in Threads \ {collector} : remembered_set[h] = {}
        BY DEF MemoryInv, DuringInv
      <3> QED
        BY <1>3, <3>1, <3>2 DEF MemoryInv, RememberedInv
    <2>2. \A l \in remembered_set[collector] : l[3] = "old" /\ IsDone(mem, marked_objects, l)
      BY <1>1, <1>2, <1>3 DEF MemoryInv, RememberedInv, DuringInv, Done, IsDone, Survives, Keeps
    <2> QED
      BY <2>1, <2>2 DEF MemoryInv, DuringInv, CollRemembered
  <1>7. CollRefs(mem, slot, marked_objects, todo)
    <2>1. \A l \in DOMAIN mem : Done(l) <=> IsDone(mem, marked_objects, l)
      BY DEF Done, IsDone, Survives, Keeps
    <2>2. \A l : Survives(l) <=> Keeps(mem, l)
      BY DEF Survives, Keeps
    <2> QED
      BY <1>1, <1>2, <2>1, <2>2 DEF MemoryInv, DuringInv, CollRefs
  <1>8. CollMarks(mem, marked_objects)
    BY <1>1, <1>2 DEF MemoryInv, DuringInv, CollMarks, Survives, Keeps
  <1> QED
    BY <1>3, <1>4, <1>5, <1>6, <1>7, <1>8 DEF Collecting

LEMMA CollectingNext ==
  ASSUME MemoryInv, phase # "none",
         UNCHANGED <<state, heaps, pending, phase, collector, doubled>>,
         Collecting(mem', slot', remembered_set', marked_objects', todo')
  PROVE  MemoryInv'
  <1>1. /\ \A l \in DOMAIN mem' : l \in Locs /\ mem'[l] \in Records
        /\ \A l \in DOMAIN mem' : mem'[l].attr # Nil => mem'[l].attr \in DOMAIN mem'
    BY DEF Collecting, CollTypes
  <1>2. /\ \A l \in Locs : IsOld(l) <=> l[3] = "old"
        /\ \A l \in Locs : IsYoung(l) <=> l[3] # "old"
    BY LocParts
  <1>3. collector \in Threads /\ state[collector] = "running" /\ collector \in Heaps
    BY DEF MemoryInv, DuringInv, ReferencesInv
  <1>4. /\ collector' = collector /\ phase' = phase /\ Heaps' = Heaps /\ state' = state
        /\ pending' = pending /\ \A t \in Threads : pending[t] = Nil
    BY DEF MemoryInv, RememberedInv, Heaps
  <1>a. \A l : Survives(l)' <=> Keeps(mem', l)
    BY <1>4 DEF Survives, Keeps
  <1>b. \A l : Done(l)' <=> IsDone(mem', marked_objects', l)
    BY <1>4 DEF Survives, Keeps, Done, IsDone
  <1>5. TypeOK'
    <2>1. /\ slot' \in [Slots -> Locs \cup {Nil}] /\ remembered_set' \in [Threads -> SUBSET Locs]
          /\ marked_objects' \in [Threads -> SUBSET Locs] /\ todo' \in SUBSET Slots
      BY <1>1 DEF Collecting, CollTypes
    <2> QED
      BY <1>1, <1>4, <2>1 DEF MemoryInv, TypeOK, Records
  <1>6. ReferencesInv'
    BY <1>4 DEF MemoryInv, ReferencesInv, Collecting, CollTypes
  <1>7. CopiesInv'
    BY <1>4, <1>a DEF Collecting, CollCopies, CopiesInv, Forwarded
  <1>8. RememberedInv'
    <2>1. \A l \in DOMAIN mem' : mem'[l].remembered <=> \E h \in Heaps : l \in remembered_set'[h]
      <3>1. Heaps \subseteq Threads
        BY DEF Heaps, MemoryInv, TypeOK
      <3> QED
        BY <1>3, <3>1 DEF Collecting, CollRemembered
    <2>2. \A h \in Threads : \A l \in remembered_set'[h] :
             h \in Heaps /\ l \in DOMAIN mem' /\ IsOld(l)
      BY <1>1, <1>2, <1>3 DEF Collecting, CollRemembered, CollTypes
    <2> QED
      BY <1>4, <2>1, <2>2 DEF RememberedInv
  <1>9. BetweenInv'
    BY <1>4 DEF BetweenInv
  <1>10. DuringInv'
    <2>1. (\A l \in DOMAIN mem : mem[l].attr # Nil =>
              IF Done(l) THEN /\ Survives(mem[l].attr)
                              /\ IsOld(l) /\ IsYoung(mem[l].attr) => mem[l].remembered
              ELSE mem[l].attr[3] # "to")'
      <3> SUFFICES ASSUME NEW l \in DOMAIN mem', mem'[l].attr # Nil
                   PROVE  (IF Done(l) THEN /\ Survives(mem[l].attr)
                                           /\ IsOld(l) /\ IsYoung(mem[l].attr) => mem[l].remembered
                           ELSE mem[l].attr[3] # "to")'
        OBVIOUS
      <3>1. Survives(mem[l].attr)' <=> Keeps(mem', mem'[l].attr)
        BY <1>4 DEF Survives, Keeps
      <3>2. Done(l)' <=> IsDone(mem', marked_objects', l)
        BY <1>b
      <3>3. (IsOld(l) <=> l[3] = "old") /\ (IsYoung(mem[l].attr)' <=> mem'[l].attr[3] # "old")
        BY <1>1, <1>2 DEF IsYoung
      <3> QED
        BY <3>1, <3>2, <3>3 DEF Collecting, CollRefs
    <2>2. \A h \in Threads : \A l \in marked_objects'[h] :
              /\ l \in DOMAIN mem' /\ Survives(l)'
              /\ \A g \in Threads : l \in marked_objects'[g] => g = h
      BY <1>a DEF Collecting, CollMarks, CollTypes
    <2>3. \A l \in DOMAIN mem' : mem'[l].marked => phase = "major" /\ IsOld(l)
      BY <1>1, <1>2 DEF Collecting, CollMarks
    <2>4. (\A s \in Slots : slot[s] # Nil =>
              IF s \in todo THEN slot[s][3] # "to" ELSE Survives(slot[s]))'
      BY <1>4 DEF Collecting, CollRefs, Survives, Keeps
    <2>5. /\ \A l \in remembered_set'[collector] : Done(l)'
          /\ \A h \in Threads \ {collector} : remembered_set'[h] = {}
      BY <1>b DEF Collecting, CollRemembered
    <2> QED
      BY <1>3, <1>4, <2>1, <2>2, <2>3, <2>4, <2>5 DEF DuringInv
  <1> QED
    BY <1>5, <1>6, <1>7, <1>8, <1>9, <1>10 DEF MemoryInv

-----------------------------------------------------------------------------
(* The steps of a collection.                                              *)

Plus(q, h, S) == [q EXCEPT ![h] = @ \cup S]

\* What a collector may rely on when it has kept r for heap h.
KeptWell(r, h, k) ==
    /\ Collecting(k.mem, slot, remembered_set, Plus(marked_objects, h, k.marked), todo)
    /\ k.to \in DOMAIN k.mem \cup {Nil} /\ (k.to = Nil <=> r = Nil)
    /\ k.to # Nil => Keeps(k.mem, k.to) /\ k.to[1] = r[1]
    /\ DOMAIN mem \subseteq DOMAIN k.mem
    /\ \A l \in DOMAIN mem : /\ k.mem[l].attr = mem[l].attr
                             /\ k.mem[l].remembered = mem[l].remembered
    /\ \A l \in DOMAIN k.mem : \E i \in DOMAIN mem : i[1] = l[1] /\ k.mem[l].attr = mem[i].attr
    /\ \A g \in Threads : k.marked \cap marked_objects[g] = {}

\* Nothing changes if the object is kept already.
LEMMA KeptAlready ==
  ASSUME Collecting(mem, slot, remembered_set, marked_objects, todo), NEW h \in Threads,
         NEW r \in DOMAIN mem \cup {Nil}, NEW k, NEW to \in DOMAIN mem \cup {Nil},
         k = [to |-> to, mem |-> mem, marked |-> {}], to = Nil <=> r = Nil,
         to # Nil => Keeps(mem, to) /\ to[1] = r[1]
  PROVE  KeptWell(r, h, k)
  <1>1. Plus(marked_objects, h, {}) = marked_objects
    BY DEF Plus, Collecting, CollTypes
  <1> QED
    BY <1>1 DEF KeptWell

\* A major collection marks an old object.
LEMMA KeptMarked ==
  ASSUME Collecting(mem, slot, remembered_set, marked_objects, todo), NEW h \in Threads,
         NEW r \in DOMAIN mem, r[3] = "old", phase = "major", ~mem[r].marked, NEW k,
         k = [to |-> r, mem |-> [mem EXCEPT ![r].marked = TRUE], marked |-> {r}]
  PROVE  KeptWell(r, h, k)
  <1> DEFINE m == [mem EXCEPT ![r].marked = TRUE]
             q == Plus(marked_objects, h, {r})
  <1>1. /\ DOMAIN mem \subseteq Locs /\ \A l \in DOMAIN mem : mem[l] \in Records
        /\ marked_objects \in [Threads -> SUBSET DOMAIN mem] /\ r # Nil
    BY HeapAssumption DEF Collecting, CollTypes, Locs
  <1>2. /\ DOMAIN m = DOMAIN mem
        /\ \A l \in DOMAIN mem : /\ m[l] \in Records /\ m[l].attr = mem[l].attr
                                 /\ m[l].remembered = mem[l].remembered
                                 /\ m[l].forwarding_addr = mem[l].forwarding_addr
                                 /\ l # r => m[l].marked = mem[l].marked
        /\ m[r].marked = TRUE
    BY <1>1 DEF Records
  <1>3. /\ q \in [Threads -> SUBSET DOMAIN mem] /\ q[h] = marked_objects[h] \cup {r}
        /\ \A g \in Threads : g # h => q[g] = marked_objects[g]
    BY <1>1 DEF Plus
  <1> HIDE DEF m, q
  <1>4. \A l \in DOMAIN mem : Keeps(mem, l) => Keeps(m, l)
    BY <1>1, <1>2 DEF Keeps
  <1>5. ~Keeps(mem, r) /\ Keeps(m, r) /\ \A g \in Threads : r \notin marked_objects[g]
    BY <1>1, <1>2 DEF Keeps, Collecting, CollMarks
  <1>6. \A l \in DOMAIN mem : IsDone(m, q, l) <=> IsDone(mem, marked_objects, l)
    BY <1>1, <1>2, <1>3, <1>5 DEF IsDone, Keeps
  <1>7. CollTypes(m, slot, remembered_set, q, todo)
    BY <1>1, <1>2, <1>3 DEF Collecting, CollTypes
  <1>8. CollCopies(m)
    BY <1>1, <1>2, <1>4 DEF Collecting, CollCopies
  <1>9. CollRemembered(m, remembered_set, q)
    <2>1. \A l \in remembered_set[collector] : l \in DOMAIN mem
      BY DEF Collecting, CollTypes
    <2> QED
      BY <1>2, <1>6, <2>1 DEF Collecting, CollRemembered
  <1>10. CollRefs(m, slot, q, todo)
    <2>1. /\ \A s \in Slots : slot[s] # Nil => slot[s] \in DOMAIN mem
          /\ \A l \in DOMAIN mem : mem[l].attr # Nil => mem[l].attr \in DOMAIN mem
      BY <1>1 DEF Collecting, CollTypes
    <2> QED
      BY <1>2, <1>4, <1>6, <2>1 DEF Collecting, CollRefs
  <1>11. CollMarks(m, q)
    <2>1. \A g \in Threads : \A l \in q[g] :
             Keeps(m, l) /\ \A f \in Threads : l \in q[f] => f = g
      BY <1>1, <1>3, <1>4, <1>5 DEF Collecting, CollMarks
    <2>2. \A l \in DOMAIN m : m[l].marked => phase = "major" /\ l[3] = "old"
      BY <1>2 DEF Collecting, CollMarks
    <2> QED
      BY <2>1, <2>2 DEF CollMarks
  <1> QED
    BY <1>1, <1>2, <1>5, <1>7, <1>8, <1>9, <1>10, <1>11 DEF KeptWell, Collecting, m, q

AfterCopy(c, f, a) == [c EXCEPT !.forwarding_addr = f, !.age = a]
Copy(c, a, b) == [c EXCEPT !.age = a, !.marked = b]

LEMMA AfterCopyRecord ==
  ASSUME NEW c \in Records, NEW a \in Nat, NEW f \in Locs \cup {Nil}
  PROVE  LET d == AfterCopy(c, f, a) IN
         /\ d \in Records /\ d.attr = c.attr /\ d.remembered = c.remembered
         /\ d.forwarding_addr = f /\ d.marked = c.marked
  BY DEF Records, AfterCopy

LEMMA CopyRecord ==
  ASSUME NEW c \in Records, NEW a \in Nat, NEW b \in BOOLEAN
  PROVE  LET d == Copy(c, a, b) IN
         /\ d \in Records /\ d.attr = c.attr /\ d.remembered = c.remembered
         /\ d.forwarding_addr = c.forwarding_addr /\ d.marked = b
  BY DEF Records, Copy

\* A young object is copied to a place where there is nothing.
LEMMA KeptMoved ==
  ASSUME Collecting(mem, slot, remembered_set, marked_objects, todo), NEW h \in Threads,
         NEW r \in DOMAIN mem, r[3] = "from", mem[r].forwarding_addr = Nil,
         phase \in {"minor", "major"}
  PROVE  KeptWell(r, h, Moved(r, h))
  <1> DEFINE k == Moved(r, h)
             to == k.to
             m == k.mem
             q == Plus(marked_objects, h, {to})
  <1>1. /\ DOMAIN mem \subseteq Locs /\ \A l \in DOMAIN mem : mem[l] \in Records
        /\ marked_objects \in [Threads -> SUBSET DOMAIN mem] /\ r # Nil /\ r \in Locs
        /\ max_age \in Nat /\ Nil \notin DOMAIN mem
    BY HeapAssumption DEF Collecting, CollTypes, Locs
  <1>2. k.marked = {to}
    BY DEF Moved
  <1>3. /\ to \in Locs /\ to[1] = r[1] /\ to[3] \in {"to", "old"}
        /\ to[3] = "to" <=> mem[r].age + 1 < max_age
        /\ to # Nil
    BY <1>1, LocParts DEF Moved, Locs
  <1>4. to \notin DOMAIN mem
    <2> SUFFICES ASSUME to \in DOMAIN mem PROVE FALSE
      OBVIOUS
    <2>1. to # r
      BY <1>3
    <2>2. r = mem[to].forwarding_addr
      BY <1>3, <2>1 DEF Collecting, CollCopies
    <2> QED
      BY <1>1, <1>3, <2>2 DEF Collecting, CollCopies
  <1>5. DOMAIN m = DOMAIN mem \cup {to}
    BY DEF Moved, With
  <1>6. \A l \in DOMAIN mem \ {r} : m[l] = mem[l]
    BY <1>4 DEF Moved, With
  <1>7. /\ m[r] \in Records /\ m[r].attr = mem[r].attr /\ m[r].remembered = mem[r].remembered
        /\ m[r].forwarding_addr = to /\ m[r].marked = mem[r].marked
    <2>1. m[r] = AfterCopy(mem[r], to, mem[r].age + 1)
      BY <1>1, <1>4 DEF Moved, With, AfterCopy
    <2> HIDE DEF m, to
    <2>2. mem[r] \in Records /\ mem[r].age + 1 \in Nat /\ to \in Locs \cup {Nil}
      BY <1>1, <1>3 DEF Records
    <2> QED
      BY <2>1, <2>2, AfterCopyRecord
  <1>8. /\ m[to] \in Records /\ m[to].attr = mem[r].attr
        /\ m[to].remembered = mem[r].remembered /\ m[to].forwarding_addr = Nil
        /\ m[to].marked <=> to[3] = "old" /\ phase = "major"
    <2> DEFINE young == mem[r].age + 1 < max_age
               age == IF young THEN mem[r].age + 1 ELSE 0
               marked == ~young /\ phase = "major"
    <2>1. m[to] = Copy(mem[r], age, marked)
      BY <1>1, <1>4 DEF Moved, With, Copy
    <2> HIDE DEF m, to
    <2>2. marked \in BOOLEAN /\ (marked <=> to[3] = "old" /\ phase = "major")
      BY <1>3
    <2>3. mem[r] \in Records /\ age \in Nat
      BY <1>1 DEF Records
    <2> HIDE DEF age, marked
    <2> QED
      BY <2>1, <2>2, <2>3, CopyRecord
  <1>9. /\ q \in [Threads -> SUBSET DOMAIN m] /\ q[h] = marked_objects[h] \cup {to}
        /\ \A g \in Threads : g # h => q[g] = marked_objects[g]
    BY <1>1, <1>5 DEF Plus
  <1> HIDE DEF m, q, to
  <1>10. \A l \in DOMAIN mem : Keeps(m, l) <=> Keeps(mem, l)
    BY <1>6, <1>7 DEF Keeps
  <1>11. Keeps(m, to) /\ ~Keeps(mem, r) /\ \A g \in Threads : to \notin marked_objects[g]
    BY <1>1, <1>3, <1>4, <1>8 DEF Keeps
  <1>12. /\ \A l \in DOMAIN mem : IsDone(m, q, l) <=> IsDone(mem, marked_objects, l)
         /\ ~IsDone(m, q, to)
    BY <1>1, <1>4, <1>9, <1>10 DEF IsDone
  <1>13. \A l \in DOMAIN mem : l # r => l[1] # r[1]
    BY <1>1, <1>11 DEF Collecting, CollCopies
  <1>14. mem[r].remembered = FALSE
    <2>1. r \notin remembered_set[collector]
      BY DEF Collecting, CollRemembered
    <2> QED
      BY <1>1, <2>1 DEF Collecting, CollRemembered, Records
  <1>15. CollTypes(m, slot, remembered_set, q, todo)
    <2>1. \A l \in DOMAIN m : m[l] \in Records
      BY <1>1, <1>5, <1>6, <1>7, <1>8
    <2>2. \A l \in DOMAIN m : m[l].attr \in DOMAIN m \cup {Nil}
      BY <1>5, <1>6, <1>7, <1>8 DEF Collecting, CollTypes
    <2>3. slot \in [Slots -> DOMAIN m \cup {Nil}]
      BY <1>5 DEF Collecting, CollTypes
    <2>4. remembered_set \in [Threads -> SUBSET DOMAIN m]
      BY <1>5 DEF Collecting, CollTypes
    <2> QED
      BY <1>1, <1>3, <1>5, <1>9, <2>1, <2>2, <2>3, <2>4 DEF Collecting, CollTypes
  <1>16. CollCopies(m)
    <2>1. \A l, i \in DOMAIN m :
             l[1] = i[1] /\ l # i => i = m[l].forwarding_addr \/ l = m[i].forwarding_addr
      BY <1>3, <1>5, <1>6, <1>7, <1>13 DEF Collecting, CollCopies
    <2>2. ASSUME NEW l \in DOMAIN m, m[l].forwarding_addr # Nil
          PROVE  /\ l[3] = "from" /\ m[l].forwarding_addr \in DOMAIN m
                 /\ m[l].forwarding_addr[1] = l[1] /\ Keeps(m, m[l].forwarding_addr)
      <3>1. CASE l = r
        BY <1>3, <1>5, <1>7, <1>11, <3>1
      <3>2. CASE l \in DOMAIN mem /\ l # r
        BY <1>5, <1>6, <1>10, <2>2, <3>2 DEF Collecting, CollCopies
      <3> QED
        BY <1>5, <1>8, <2>2, <3>1, <3>2
    <2> QED
      BY <2>1, <2>2 DEF CollCopies
  <1>17. CollRemembered(m, remembered_set, q)
    <2>1. \A l \in remembered_set[collector] : l \in DOMAIN mem
      BY DEF Collecting, CollTypes
    <2>2. \A l \in DOMAIN m : m[l].remembered <=> l \in remembered_set[collector]
      BY <1>4, <1>5, <1>6, <1>7, <1>8, <1>14, <2>1 DEF Collecting, CollRemembered
    <2> QED
      BY <1>12, <2>1, <2>2 DEF Collecting, CollRemembered
  <1>18. CollRefs(m, slot, q, todo)
    <2>1. /\ \A s \in Slots : slot[s] # Nil => slot[s] \in DOMAIN mem
          /\ \A l \in DOMAIN mem : mem[l].attr # Nil => mem[l].attr \in DOMAIN mem
      BY DEF Collecting, CollTypes
    <2>2. \A s \in Slots : slot[s] # Nil =>
             IF s \in todo THEN slot[s][3] # "to" ELSE Keeps(m, slot[s])
      BY <1>10, <2>1 DEF Collecting, CollRefs
    <2>3. \A l \in DOMAIN mem : m[l].attr = mem[l].attr /\ m[l].remembered = mem[l].remembered
      BY <1>6, <1>7
    <2>4. ASSUME NEW l \in DOMAIN m, m[l].attr # Nil
          PROVE  IF IsDone(m, q, l)
                 THEN /\ Keeps(m, m[l].attr)
                      /\ l[3] = "old" /\ m[l].attr[3] # "old" => m[l].remembered
                 ELSE m[l].attr[3] # "to"
      <3>1. CASE l \in DOMAIN mem
        BY <1>10, <1>12, <2>1, <2>3, <2>4, <3>1 DEF Collecting, CollRefs
      <3>2. CASE l = to
        <4>1. ~IsDone(mem, marked_objects, r)
          BY <1>11 DEF IsDone
        <4> QED
          BY <1>8, <1>12, <2>4, <3>2, <4>1 DEF Collecting, CollRefs
      <3> QED
        BY <1>5, <3>1, <3>2
    <2> QED
      BY <2>2, <2>4 DEF CollRefs
  <1>19. CollMarks(m, q)
    <2>1. \A g \in Threads : \A l \in q[g] :
             Keeps(m, l) /\ \A f \in Threads : l \in q[f] => f = g
      BY <1>1, <1>9, <1>10, <1>11 DEF Collecting, CollMarks
    <2>2. \A l \in DOMAIN m : m[l].marked => phase = "major" /\ l[3] = "old"
      BY <1>5, <1>6, <1>7, <1>8 DEF Collecting, CollMarks
    <2> QED
      BY <2>1, <2>2 DEF CollMarks
  <1>20. Collecting(m, slot, remembered_set, Plus(marked_objects, h, k.marked), todo)
    BY <1>2, <1>15, <1>16, <1>17, <1>18, <1>19 DEF Collecting, q
  <1>21. \A l \in DOMAIN mem : m[l].attr = mem[l].attr /\ m[l].remembered = mem[l].remembered
    BY <1>6, <1>7
  <1>22. \A g \in Threads : k.marked \cap marked_objects[g] = {}
    BY <1>2, <1>11
  <1>23. to \in DOMAIN m /\ DOMAIN mem \subseteq DOMAIN m
    BY <1>5
  <1>24. \A l \in DOMAIN m : \E i \in DOMAIN mem : i[1] = l[1] /\ m[l].attr = mem[i].attr
    BY <1>3, <1>5, <1>8, <1>21
  <1>25. KeptWell(r, h, k)
    <2> HIDE DEF k
    <2> QED
      BY <1>1, <1>3, <1>11, <1>20, <1>21, <1>22, <1>23, <1>24 DEF KeptWell, m, to
  <1> QED
    BY <1>25

\* Keeping a reference that is not to a copy: the four cases of Kept.
LEMMA KeptIsWell ==
  ASSUME Collecting(mem, slot, remembered_set, marked_objects, todo), NEW h \in Threads,
         NEW r \in DOMAIN mem \cup {Nil}, r # Nil => r[3] # "to",
         phase \in {"minor", "major"}
  PROVE  KeptWell(r, h, Kept(r, h))
  <1>1. CASE r = Nil
    <2>1. Kept(r, h) = [to |-> Nil, mem |-> mem, marked |-> {}]
      BY <1>1 DEF Kept, IsOld, IsYoung
    <2> QED
      BY <1>1, <2>1, KeptAlready
  <1>2. CASE r # Nil
    <2>1. /\ r \in DOMAIN mem /\ r \in Locs /\ r[3] \in {"from", "old"}
          /\ IsOld(r) <=> r[3] = "old"
          /\ IsYoung(r) <=> r[3] # "old"
      BY <1>2, LocParts DEF Collecting, CollTypes
    <2>2. CASE r[3] = "old" /\ (phase = "minor" \/ mem[r].marked)
      <3>1. Kept(r, h) = [to |-> r, mem |-> mem, marked |-> {}]
        BY <1>2, <2>1, <2>2 DEF Kept
      <3> QED
        BY <2>1, <2>2, <3>1, KeptAlready DEF Keeps
    <2>3. CASE r[3] = "old" /\ phase = "major" /\ ~mem[r].marked
      <3>1. Kept(r, h) = [to |-> r, mem |-> [mem EXCEPT ![r].marked = TRUE], marked |-> {r}]
        BY <1>2, <2>1, <2>3 DEF Kept
      <3> QED
        BY <2>1, <2>3, <3>1, KeptMarked
    <2>4. CASE r[3] = "from" /\ mem[r].forwarding_addr # Nil
      <3>1. Kept(r, h) = [to |-> mem[r].forwarding_addr, mem |-> mem, marked |-> {}]
        BY <1>2, <2>1, <2>4 DEF Kept, Forwarded
      <3>2. /\ mem[r].forwarding_addr \in DOMAIN mem /\ mem[r].forwarding_addr[1] = r[1]
            /\ Keeps(mem, mem[r].forwarding_addr)
        BY <2>1, <2>4 DEF Collecting, CollCopies
      <3> QED
        BY <1>2, <2>4, <3>1, <3>2, KeptAlready
    <2>5. CASE r[3] = "from" /\ mem[r].forwarding_addr = Nil
      <3>1. Kept(r, h) = Moved(r, h)
        BY <1>2, <2>1, <2>5 DEF Kept, Forwarded
      <3> QED
        BY <2>1, <2>5, <3>1, KeptMoved
    <2> QED
      BY <2>1, <2>2, <2>3, <2>4, <2>5
  <1> QED
    BY <1>1, <1>2

LEMMA SlotKept ==
  ASSUME NEW m, NEW q, NEW s \in todo, NEW to \in DOMAIN m \cup {Nil},
         Collecting(m, slot, remembered_set, q, todo),
         to = Nil <=> slot[s] = Nil, to # Nil => Keeps(m, to)
  PROVE  Collecting(m, [slot EXCEPT ![s] = to], remembered_set, q, todo \ {s})
  <1> DEFINE v == [slot EXCEPT ![s] = to]
  <1>1. /\ v \in [Slots -> DOMAIN m \cup {Nil}] /\ v[s] = to
        /\ \A r \in Slots : r # s => v[r] = slot[r]
    BY DEF Collecting, CollTypes
  <1> HIDE DEF v
  <1>2. CollTypes(m, v, remembered_set, q, todo \ {s})
    BY <1>1 DEF Collecting, CollTypes
  <1>3. CollRefs(m, v, q, todo \ {s})
    BY <1>1 DEF Collecting, CollRefs
  <1> QED
    BY <1>2, <1>3 DEF Collecting, v

LEMMA KeepSlotStep ==
  ASSUME MemoryInv, NEW s \in Slots, KeepSlot(s)
  PROVE  MemoryInv'
  <1>1. phase \in {"minor", "major"}
    BY DEF MemoryInv, TypeOK, BetweenInv, KeepSlot
  <1>2. Collecting(mem, slot, remembered_set, marked_objects, todo)
    BY <1>1, CollectingNow
  <1>3. s[1] \in Threads /\ s \in todo
    BY HeapAssumption DEF KeepSlot
  <1>4. slot[s] \in DOMAIN mem \cup {Nil} /\ (slot[s] # Nil => slot[s][3] # "to")
    BY <1>2, <1>3 DEF Collecting, CollTypes, CollRefs
  <1> DEFINE k == Kept(slot[s], s[1])
  <1>5. KeptWell(slot[s], s[1], k)
    BY <1>1, <1>2, <1>3, <1>4, KeptIsWell
  <1>6. /\ slot' = [slot EXCEPT ![s] = k.to] /\ mem' = k.mem
        /\ marked_objects' = Plus(marked_objects, s[1], k.marked)
        /\ todo' = todo \ {s}
        /\ UNCHANGED <<state, remembered_set, heaps, pending, phase, collector, doubled>>
    BY DEF KeepSlot, Plus
  <1> HIDE DEF k
  <1>7. Collecting(mem', slot', remembered_set', marked_objects', todo')
    BY <1>3, <1>5, <1>6, SlotKept DEF KeptWell
  <1> QED
    BY <1>1, <1>6, <1>7, CollectingNext

\* The record of an object that gets attribute v, and is remembered if b.
Stored(c, v, b) == [c EXCEPT !.attr = v, !.remembered = @ \/ b]

LEMMA StoredRecord ==
  ASSUME NEW c \in Records, NEW v \in Locs \cup {Nil}, NEW b \in BOOLEAN
  PROVE  LET d == Stored(c, v, b) IN
         /\ d \in Records /\ d.attr = v /\ (d.remembered <=> c.remembered \/ b)
         /\ d.forwarding_addr = c.forwarding_addr /\ d.marked = c.marked /\ d.age = c.age
  BY DEF Records, Stored

Minus(q, h, l) == [q EXCEPT ![h] = @ \ {l}]
Remember(R, l, b) == [R EXCEPT ![collector] = IF b THEN @ \cup {l} ELSE @]

\* The attribute of l is kept: l has been scanned.
LEMMA ObjectScanned ==
  ASSUME NEW m, NEW R, NEW q, NEW h \in Threads, NEW l, NEW v, NEW b \in BOOLEAN, NEW n,
         Collecting(m, slot, R, q, {}), l \in q[h], v \in DOMAIN m \cup {Nil},
         v # Nil => Keeps(m, v),
         b <=> l[3] = "old" /\ ~m[l].remembered /\ v # Nil /\ v[3] # "old",
         DOMAIN n = DOMAIN m, n[l] = Stored(m[l], v, b),
         \A i \in DOMAIN m : i # l => n[i] = m[i]
  PROVE  Collecting(n, slot, Remember(R, l, b), Minus(q, h, l), {})
  <1> DEFINE p == Minus(q, h, l)
             S == Remember(R, l, b)
  <1>1. /\ DOMAIN m \subseteq Locs /\ \A i \in DOMAIN m : m[i] \in Records
        /\ q \in [Threads -> SUBSET DOMAIN m] /\ l \in DOMAIN m /\ Nil \notin DOMAIN m
        /\ R \in [Threads -> SUBSET DOMAIN m] /\ collector \in Threads
    BY HeapAssumption DEF Collecting, CollTypes, Locs
  <1>2. /\ n[l] \in Records /\ n[l].attr = v /\ (n[l].remembered <=> m[l].remembered \/ b)
        /\ n[l].forwarding_addr = m[l].forwarding_addr /\ n[l].marked = m[l].marked
    <2>1. m[l] \in Records /\ v \in Locs \cup {Nil}
      BY <1>1
    <2> QED
      BY <2>1, StoredRecord
  <1>3. /\ p \in [Threads -> SUBSET DOMAIN m] /\ p[h] = q[h] \ {l}
        /\ \A g \in Threads : g # h => p[g] = q[g]
    BY <1>1 DEF Minus
  <1>4. /\ S \in [Threads -> SUBSET DOMAIN m]
        /\ S[collector] = R[collector] \cup (IF b THEN {l} ELSE {})
        /\ \A g \in Threads : g # collector => S[g] = R[g]
    BY <1>1 DEF Remember
  <1> HIDE DEF p, S
  <1>5. \A i \in DOMAIN m : Keeps(n, i) <=> Keeps(m, i)
    BY <1>2 DEF Keeps
  <1>6. Keeps(m, l) /\ \A g \in Threads : g # h => l \notin q[g]
    BY DEF Collecting, CollMarks
  <1>7. /\ IsDone(n, p, l) /\ ~IsDone(m, q, l)
        /\ \A i \in DOMAIN m : i # l => (IsDone(n, p, i) <=> IsDone(m, q, i))
    BY <1>1, <1>3, <1>5, <1>6 DEF IsDone
  <1>8. ~m[l].remembered
    BY <1>1, <1>7 DEF Collecting, CollRemembered
  <1>9. CollTypes(n, slot, S, p, {})
    <2>1. \A i \in DOMAIN n : n[i] \in Records /\ n[i].attr \in DOMAIN n \cup {Nil}
      BY <1>1, <1>2 DEF Collecting, CollTypes
    <2> QED
      BY <1>1, <1>3, <1>4, <2>1 DEF Collecting, CollTypes
  <1>10. CollCopies(n)
    <2>1. \A i \in DOMAIN m : n[i].forwarding_addr = m[i].forwarding_addr
      BY <1>2
    <2> QED
      BY <1>5, <2>1 DEF Collecting, CollCopies
  <1>11. CollRemembered(n, S, p)
    <2>1. \A i \in DOMAIN n : n[i].remembered <=> i \in S[collector]
      BY <1>2, <1>4, <1>8 DEF Collecting, CollRemembered
    <2>2. \A i \in S[collector] : i[3] = "old" /\ IsDone(n, p, i)
      BY <1>1, <1>4, <1>7 DEF Collecting, CollRemembered
    <2> QED
      BY <1>4, <2>1, <2>2 DEF Collecting, CollRemembered
  <1>12. CollRefs(n, slot, p, {})
    <2>1. \A s \in Slots : slot[s] # Nil => Keeps(n, slot[s])
      BY <1>5 DEF Collecting, CollRefs, CollTypes
    <2>2. ASSUME NEW i \in DOMAIN n, n[i].attr # Nil
          PROVE  IF IsDone(n, p, i)
                 THEN /\ Keeps(n, n[i].attr)
                      /\ i[3] = "old" /\ n[i].attr[3] # "old" => n[i].remembered
                 ELSE n[i].attr[3] # "to"
      <3>1. CASE i = l
        BY <1>2, <1>5, <1>7, <2>2, <3>1
      <3>2. CASE i # l
        BY <1>5, <1>7, <2>2, <3>2 DEF Collecting, CollRefs, CollTypes
      <3> QED
        BY <3>1, <3>2
    <2> QED
      BY <2>1, <2>2 DEF CollRefs
  <1>13. CollMarks(n, p)
    <2>1. \A g \in Threads : \A i \in p[g] :
             Keeps(n, i) /\ \A f \in Threads : i \in p[f] => f = g
      BY <1>1, <1>3, <1>5 DEF Collecting, CollMarks
    <2>2. \A i \in DOMAIN n : n[i].marked => phase = "major" /\ i[3] = "old"
      BY <1>2 DEF Collecting, CollMarks
    <2> QED
      BY <2>1, <2>2 DEF CollMarks
  <1> QED
    BY <1>9, <1>10, <1>11, <1>12, <1>13 DEF Collecting, p, S

LEMMA KeepChildrenStep ==
  ASSUME MemoryInv, NEW h \in Threads, NEW l \in marked_objects[h], KeepChildren(h, l)
  PROVE  MemoryInv'
  <1>1. phase \in {"minor", "major"} /\ phase # "none" /\ todo = {}
    BY DEF MemoryInv, TypeOK, KeepChildren
  <1>2. Collecting(mem, slot, remembered_set, marked_objects, todo)
    BY <1>1, CollectingNow
  <1>3. /\ l \in DOMAIN mem /\ l \in Locs /\ ~IsDone(mem, marked_objects, l)
        /\ marked_objects \in [Threads -> SUBSET DOMAIN mem]
        /\ remembered_set \in [Threads -> SUBSET DOMAIN mem] /\ DOMAIN mem \subseteq Locs
        /\ collector \in Threads
    BY <1>2 DEF Collecting, CollTypes, IsDone
  <1>4. /\ mem[l].attr \in DOMAIN mem \cup {Nil}
        /\ mem[l].attr # Nil => mem[l].attr[3] # "to"
    BY <1>2, <1>3 DEF Collecting, CollTypes, CollRefs
  <1> DEFINE k == Kept(mem[l].attr, h)
             b == Barrier(l, k.to)
             q == Plus(marked_objects, h, k.marked)
  <1>5. KeptWell(mem[l].attr, h, k)
    BY <1>1, <1>2, <1>3, <1>4, KeptIsWell
  <1>6. /\ mem' = [k.mem EXCEPT ![l].attr = k.to, ![l].remembered = @ \/ b]
        /\ marked_objects' = [marked_objects EXCEPT ![h] = Scanned(@, l) \cup k.marked]
        /\ remembered_set' = [remembered_set EXCEPT ![collector] = IF b THEN @ \cup {l} ELSE @]
        /\ UNCHANGED <<state, slot, heaps, pending, phase, collector, todo, doubled>>
    BY DEF KeepChildren
  <1> HIDE DEF k
  <1>7. /\ Collecting(k.mem, slot, remembered_set, q, {})
        /\ k.to \in DOMAIN k.mem \cup {Nil} /\ (k.to # Nil => Keeps(k.mem, k.to))
        /\ l \in DOMAIN k.mem /\ k.mem[l].remembered = mem[l].remembered
        /\ l \notin k.marked /\ DOMAIN k.mem \subseteq Locs
    BY <1>1, <1>3, <1>5 DEF KeptWell, Collecting, CollTypes
  <1>8. l \in q[h]
    BY <1>3 DEF Plus
  <1>9. b \in BOOLEAN /\ (b <=> l[3] = "old" /\ ~k.mem[l].remembered /\ k.to # Nil /\ k.to[3] # "old")
    BY <1>3, <1>7, LocParts DEF Barrier, IsYoung
  <1> HIDE DEF b
  <1>10. /\ DOMAIN mem' = DOMAIN k.mem /\ mem'[l] = Stored(k.mem[l], k.to, b)
         /\ \A i \in DOMAIN k.mem : i # l => mem'[i] = k.mem[i]
    BY <1>6, <1>7 DEF Stored
  <1>11. marked_objects' = Minus(q, h, l)
    <2>1. marked_objects' = [marked_objects EXCEPT ![h] = (@ \ {l}) \cup k.marked]
      BY <1>6 DEF Scanned
    <2>2. (marked_objects[h] \ {l}) \cup k.marked = (marked_objects[h] \cup k.marked) \ {l}
      BY <1>7
    <2> QED
      BY <1>3, <2>1, <2>2 DEF Plus, Minus
  <1>12. Collecting(mem', slot, remembered_set', Minus(q, h, l), {})
    <2> DEFINE m == k.mem
               to == k.to
    <2>1. /\ l \in q[h] /\ to \in DOMAIN m \cup {Nil} /\ b \in BOOLEAN
          /\ Collecting(m, slot, remembered_set, q, {}) /\ (to # Nil => Keeps(m, to))
          /\ b <=> l[3] = "old" /\ ~m[l].remembered /\ to # Nil /\ to[3] # "old"
          /\ DOMAIN mem' = DOMAIN m /\ mem'[l] = Stored(m[l], to, b)
          /\ \A i \in DOMAIN m : i # l => mem'[i] = m[i]
          /\ remembered_set' = Remember(remembered_set, l, b)
      BY <1>6, <1>7, <1>8, <1>9, <1>10 DEF Remember
    <2> HIDE DEF q, m, to
    <2> QED
      BY <2>1, ObjectScanned
  <1>13. Collecting(mem', slot', remembered_set', marked_objects', todo')
    BY <1>1, <1>6, <1>11, <1>12
  <1> QED
    BY <1>1, <1>6, <1>13, CollectingNext

-----------------------------------------------------------------------------
(* The end of a collection.                                                *)

\* delete_heaps takes the deleted heaps out and leaves the others.
LEMMA HeapsLeft ==
  ASSUME heaps \in Seq(Threads), NEW deleted
  PROVE  LET left == WithoutHeaps(deleted) IN
         /\ left \in Seq(Threads)
         /\ {left[i] : i \in DOMAIN left} = Heaps \ deleted
  <1> DEFINE n == Len(heaps)
             T == Seq(Threads)
             step == [i \in 1 .. n |-> [x \in T |-> IF heaps[i] \in deleted THEN x
                                                  ELSE Append(x, heaps[i])]]
  <1>0. n \in Nat /\ DOMAIN heaps = 1 .. n /\ \A i \in 1 .. n : heaps[i] \in Threads
    BY LenProperties, ElementOfSeq
  <1>1. <<>> \in T /\ step \in [1 .. n -> [T -> T]]
    BY <1>0, AppendProperties
  <1>2. \A i \in 1 .. n : \A x \in T :
           step[i][x] = IF heaps[i] \in deleted THEN x ELSE Append(x, heaps[i])
    OBVIOUS
  <1> HIDE DEF T, step
  <1>3. PICK F \in Recursions(n, T, <<>>, step) : TRUE
    BY <1>0, <1>1, RecursionExists
  <1>4. /\ F \in [0 .. n -> T] /\ F[0] = <<>>
        /\ \A i \in 1 .. n : F[i] = IF heaps[i] \in deleted THEN F[i - 1]
                                    ELSE Append(F[i - 1], heaps[i])
    <2>1. \A i \in 1 .. n : i - 1 \in 0 .. n
      BY <1>0
    <2> QED
      BY <1>2, <2>1 DEF Recursions
  <1> DEFINE H == CHOOSE f : f = [i \in 0 .. n |->
                    IF i = 0 THEN <<>>
                    ELSE IF heaps[i] \in deleted THEN f[i - 1] ELSE Append(f[i - 1], heaps[i])]
  <1>5. F = [i \in 0 .. n |->
               IF i = 0 THEN <<>>
               ELSE IF heaps[i] \in deleted THEN F[i - 1] ELSE Append(F[i - 1], heaps[i])]
    <2> SUFFICES ASSUME NEW i \in 0 .. n
                 PROVE  F[i] = IF i = 0 THEN <<>>
                               ELSE IF heaps[i] \in deleted THEN F[i - 1]
                               ELSE Append(F[i - 1], heaps[i])
      BY <1>4
    <2>1. i = 0 \/ i \in 1 .. n
      BY <1>0
    <2> QED
      BY <1>4, <2>1
  <1>6. H = [i \in 0 .. n |->
               IF i = 0 THEN <<>>
               ELSE IF heaps[i] \in deleted THEN H[i - 1] ELSE Append(H[i - 1], heaps[i])]
    BY <1>5, Zenon
  <1>7. WithoutHeaps(deleted) = H[n]
    BY Zenon DEF WithoutHeaps
  <1> HIDE DEF H
  <1> DEFINE Left(i) == /\ H[i] \in T
                        /\ {H[i][j] : j \in DOMAIN H[i]} = {heaps[j] : j \in 1 .. i} \ deleted
             S == {i \in 0 .. n : Left(i)}
  <1>8. 0 \in S
    <2>1. 0 \in 0 .. n /\ H[0] = <<>>
      BY <1>0, <1>6
    <2> QED
      BY <1>1, <2>1
  <1>9. ASSUME NEW i \in 1 .. n, i - 1 \in S PROVE i \in S
    <2>1. /\ i \in 0 .. n /\ i - 1 \in 0 .. n /\ i # 0
          /\ \A j : j \in 1 .. i <=> j \in 1 .. i - 1 \/ j = i
      BY <1>0
    <2>2. H[i] = IF heaps[i] \in deleted THEN H[i - 1] ELSE Append(H[i - 1], heaps[i])
      BY <1>6, <2>1
    <2>3. Left(i - 1)
      BY <1>9
    <2>4. {heaps[j] : j \in 1 .. i} = {heaps[j] : j \in 1 .. i - 1} \cup {heaps[i]}
      BY <2>1
    <2>5. CASE heaps[i] \in deleted
      BY <2>1, <2>2, <2>3, <2>4, <2>5, ZenonT(30)
    <2>6. CASE heaps[i] \notin deleted
      <3> DEFINE x == H[i - 1]
                 y == Append(x, heaps[i])
      <3>1. x \in Seq(Threads) /\ heaps[i] \in Threads
        BY <1>0, <2>3 DEF T
      <3>2. /\ y \in Seq(Threads) /\ Len(y) = Len(x) + 1 /\ Len(x) \in Nat
            /\ DOMAIN x = 1 .. Len(x) /\ DOMAIN y = 1 .. Len(y)
            /\ \A j \in 1 .. Len(x) : y[j] = x[j]
            /\ y[Len(x) + 1] = heaps[i]
        BY <3>1, AppendProperties, LenProperties
      <3>3. {y[j] : j \in DOMAIN y} = {x[j] : j \in DOMAIN x} \cup {heaps[i]}
        <4>1. \A j : j \in DOMAIN y <=> j \in DOMAIN x \/ j = Len(x) + 1
          BY <3>2, SMTT(30)
        <4> HIDE DEF x, y
        <4> QED
          BY <3>2, <4>1
      <3>4. {x[j] : j \in DOMAIN x} = {heaps[j] : j \in 1 .. i - 1} \ deleted
        BY <2>3
      <3>5. H[i] = y
        BY <2>2, <2>6
      <3> HIDE DEF x, y
      <3>6. {y[j] : j \in DOMAIN y} = {heaps[j] : j \in 1 .. i} \ deleted
        BY <2>4, <2>6, <3>3, <3>4
      <3>7. H[i] \in T
        BY <3>2, <3>5 DEF T
      <3>8. {H[i][j] : j \in DOMAIN H[i]} = {heaps[j] : j \in 1 .. i} \ deleted
        BY <3>5, <3>6
      <3> QED
        BY <2>1, <3>7, <3>8
    <2> QED
      BY <2>5, <2>6
  <1>10. n \in S
    <2> HIDE DEF S
    <2>1. 0 .. n \subseteq S
      BY <1>0, <1>8, <1>9, IntervalInduction
    <2>2. n \in 0 .. n
      BY <1>0
    <2> QED
      BY <2>1, <2>2
  <1>11. Left(n)
    BY <1>10
  <1> QED
    BY <1>0, <1>7, <1>11 DEF Heaps, T

-----------------------------------------------------------------------------
(* The invariant between collections, for memory m, variables v, remembered *)
(* sets R of the heaps H, stores p and states st of the threads.            *)

QuietMem(m) ==
    /\ DOMAIN m \subseteq Locs
    /\ \A l \in DOMAIN m :
          /\ l[3] # "to" /\ m[l] \in Records /\ m[l].attr \in DOMAIN m \cup {Nil}
          /\ m[l].forwarding_addr = Nil /\ ~m[l].marked
    /\ \A l, k \in DOMAIN m : l[1] = k[1] => l = k

QuietRemembered(m, R, H) ==
    /\ R \in [Threads -> SUBSET DOMAIN m]
    /\ \A l \in DOMAIN m : m[l].remembered <=> \E h \in Threads : l \in R[h]
    /\ \A h \in Threads : \A l \in R[h] : h \in H /\ l[3] = "old"
    /\ \A l \in DOMAIN m :
          l[3] = "old" /\ m[l].attr # Nil /\ m[l].attr[3] # "old" => m[l].remembered

QuietVars(m, v, st, H) ==
    /\ v \in [Slots -> DOMAIN m \cup {Nil}]
    /\ st \in [Threads -> {"new", "running", "ended"}]
    /\ \A s \in Slots : st[s[1]] # "running" => v[s] = Nil
    /\ st[Main] = "running" /\ \A t \in Threads : st[t] = "running" => t \in H

QuietStores(m, p, st) ==
    /\ p \in [Threads -> {Nil} \cup [obj : Locs, val : Locs \cup {Nil}, remember : BOOLEAN]]
    /\ \A t \in Threads : p[t] # Nil =>
          /\ st[t] = "running" /\ p[t].obj \in DOMAIN m /\ p[t].val \in DOMAIN m \cup {Nil}
          /\ p[t].obj[3] = "old" /\ ~m[p[t].obj].remembered
                /\ p[t].val # Nil /\ p[t].val[3] # "old" => p[t].remember
          /\ p[t].remember => p[t].obj[3] = "old"

LEMMA QuietNow ==
  ASSUME MemoryInv, phase = "none"
  PROVE  /\ QuietMem(mem) /\ QuietRemembered(mem, remembered_set, Heaps)
         /\ QuietVars(mem, slot, state, Heaps) /\ QuietStores(mem, pending, state)
         /\ heaps \in Seq(Threads) /\ collector \in Threads \cup {Nil} /\ todo = {}
         /\ \A h \in Threads : marked_objects[h] = {}
         /\ Heaps \subseteq Threads
  <1>1. /\ DOMAIN mem \subseteq Locs /\ \A l \in DOMAIN mem : mem[l] \in Records
        /\ \A l \in DOMAIN mem : mem[l].attr \in DOMAIN mem \cup {Nil}
        /\ \A l \in DOMAIN mem : mem[l].remembered \in BOOLEAN
    BY DEF MemoryInv, TypeOK, ReferencesInv, Records
  <1>2. /\ \A l \in Locs : IsOld(l) <=> l[3] = "old"
        /\ \A l \in Locs \cup {Nil} : IsYoung(l) <=> l # Nil /\ l[3] # "old"
    BY LocParts DEF IsYoung
  <1>3. heaps \in Seq(Threads) /\ Heaps \subseteq Threads
    BY DEF MemoryInv, TypeOK, Heaps
  <1>4. \A l \in DOMAIN mem : /\ l[3] # "to" /\ ~mem[l].marked
                              /\ IsOld(l) /\ IsYoung(mem[l].attr) => mem[l].remembered
    BY DEF MemoryInv, BetweenInv
  <1>5. \A l \in DOMAIN mem : mem[l].forwarding_addr = Nil
    BY DEF MemoryInv, CopiesInv, Forwarded
  <1>6. QuietMem(mem)
    <2>1. \A l, k \in DOMAIN mem : l[1] = k[1] => l = k
      <3>1. Nil \notin DOMAIN mem
        BY <1>1, HeapAssumption DEF Locs
      <3> QED
        BY <1>5, <3>1 DEF MemoryInv, CopiesInv
    <2>2. \A l \in DOMAIN mem : l[3] # "to" /\ ~mem[l].marked
      BY <1>4
    <2> QED
      BY <1>1, <1>5, <2>1, <2>2 DEF QuietMem
  <1>7. QuietRemembered(mem, remembered_set, Heaps)
    <2>1. \A l \in DOMAIN mem : mem[l].remembered <=> \E h \in Threads : l \in remembered_set[h]
      BY <1>1, <1>3 DEF MemoryInv, RememberedInv
    <2>2. remembered_set \in [Threads -> SUBSET DOMAIN mem]
      BY DEF MemoryInv, RememberedInv, TypeOK
    <2>3. \A h \in Threads : \A l \in remembered_set[h] :
             h \in Heaps /\ l[3] = "old"
      BY <1>1, <1>2 DEF MemoryInv, RememberedInv
    <2>4. \A l \in DOMAIN mem : l[3] = "old" /\ mem[l].attr # Nil /\ mem[l].attr[3] # "old"
                                 => mem[l].remembered
      <3>1. \A l \in DOMAIN mem : l \in Locs /\ mem[l].attr \in Locs \cup {Nil}
        BY <1>1
      <3> QED
        BY <1>2, <1>4, <3>1
    <2> QED
      BY <2>1, <2>2, <2>3, <2>4 DEF QuietRemembered
  <1>8. QuietVars(mem, slot, state, Heaps)
    <2>1. /\ slot \in [Slots -> Locs \cup {Nil}]
          /\ \A s \in Slots : /\ slot[s] \in DOMAIN mem \cup {Nil}
                              /\ state[s[1]] # "running" => slot[s] = Nil
          /\ state \in [Threads -> {"new", "running", "ended"}]
          /\ state[Main] = "running" /\ \A t \in Threads : state[t] = "running" => t \in Heaps
      BY DEF MemoryInv, TypeOK, ReferencesInv
    <2> QED
      BY <2>1 DEF QuietVars
  <1>9. QuietStores(mem, pending, state)
    <2>1. pending \in [Threads -> {Nil} \cup
                         [obj : Locs, val : Locs \cup {Nil}, remember : BOOLEAN]]
      BY DEF MemoryInv, TypeOK
    <2>2. \A t \in Threads : pending[t] # Nil =>
             /\ pending[t].obj \in DOMAIN mem /\ pending[t].val \in DOMAIN mem \cup {Nil}
             /\ state[t] = "running"
             /\ Barrier(pending[t].obj, pending[t].val) => pending[t].remember
             /\ pending[t].remember => IsOld(pending[t].obj)
      BY DEF MemoryInv, ReferencesInv, RememberedInv
    <2>3. \A t \in Threads : pending[t] # Nil =>
             /\ IsOld(pending[t].obj) <=> pending[t].obj[3] = "old"
             /\ IsYoung(pending[t].val) <=> pending[t].val # Nil /\ pending[t].val[3] # "old"
      BY <1>1, <1>2, <2>2
    <2> QED
      BY <2>1, <2>2, <2>3 DEF QuietStores, Barrier
  <1> QED
    BY <1>3, <1>6, <1>7, <1>8, <1>9 DEF MemoryInv, TypeOK, BetweenInv

LEMMA QuietNext ==
  ASSUME MemoryInv, phase' = "none", heaps' \in Seq(Threads), collector' \in Threads \cup {Nil},
         doubled' \in BOOLEAN, todo' = {}, marked_objects' \in [Threads -> SUBSET Locs],
         \A h \in Threads : marked_objects'[h] = {}, NEW H, Heaps' = H,
         QuietMem(mem'), QuietRemembered(mem', remembered_set', H),
         QuietVars(mem', slot', state', H), QuietStores(mem', pending', state')
  PROVE  MemoryInv'
  <1>1. /\ DOMAIN mem' \subseteq Locs
        /\ \A l \in DOMAIN mem' :
              /\ l \in Locs /\ l[3] # "to" /\ mem'[l] \in Records
              /\ mem'[l].attr \in DOMAIN mem' \cup {Nil} /\ mem'[l].attr \in Locs \cup {Nil}
              /\ mem'[l].forwarding_addr = Nil /\ ~mem'[l].marked
              /\ mem'[l].remembered \in BOOLEAN
        /\ \A l, k \in DOMAIN mem' : l[1] = k[1] => l = k
    BY DEF QuietMem, Records
  <1>2. /\ \A l \in Locs : IsOld(l) <=> l[3] = "old"
        /\ \A l \in Locs \cup {Nil} : IsYoung(l) <=> l # Nil /\ l[3] # "old"
    BY LocParts DEF IsYoung
  <1>3. H \subseteq Threads
    BY DEF Heaps
  <1>4. TypeOK'
    <2>1. slot' \in [Slots -> Locs \cup {Nil}] /\ remembered_set' \in [Threads -> SUBSET Locs]
      BY <1>1 DEF QuietVars, QuietRemembered
    <2> QED
      BY <1>1, <2>1 DEF TypeOK, Records, QuietVars, QuietStores
  <1>5. ReferencesInv'
    BY <1>1 DEF ReferencesInv, QuietVars, QuietStores
  <1>6. CopiesInv'
    BY <1>1 DEF CopiesInv, Forwarded
  <1>7. RememberedInv'
    <2>1. \A l \in DOMAIN mem' : mem'[l].remembered <=> \E h \in H : l \in remembered_set'[h]
      BY <1>3 DEF QuietRemembered
    <2>2. \A h \in Threads : \A l \in remembered_set'[h] :
             h \in H /\ l \in DOMAIN mem' /\ IsOld(l)
      BY <1>1, <1>2 DEF QuietRemembered
    <2>3. ASSUME NEW t \in Threads, pending'[t] # Nil
          PROVE  /\ state'[t] = "running"
                 /\ (Barrier(pending[t].obj, pending[t].val) => pending[t].remember)'
                 /\ (pending[t].remember => IsOld(pending[t].obj))'
      <3>1. /\ pending'[t].obj \in DOMAIN mem' /\ pending'[t].obj \in Locs
            /\ pending'[t].val \in Locs \cup {Nil} /\ pending'[t].remember \in BOOLEAN
        BY <1>1, <2>3 DEF QuietStores
      <3>2. IsOld(pending[t].obj)' <=> pending'[t].obj[3] = "old"
        BY <1>2, <3>1 DEF IsOld
      <3>3. IsYoung(pending[t].val)' <=> pending'[t].val # Nil /\ pending'[t].val[3] # "old"
        BY <1>2, <3>1 DEF IsYoung
      <3>4. Barrier(pending[t].obj, pending[t].val)' => pending'[t].remember
        BY <2>3, <3>2, <3>3 DEF Barrier, QuietStores
      <3> QED
        BY <2>3, <3>1, <3>2, <3>4 DEF Barrier, QuietStores
    <2> QED
      BY <2>1, <2>2, <2>3 DEF RememberedInv
  <1>8. BetweenInv'
    <2>1. (\A l \in DOMAIN mem : IsOld(l) /\ IsYoung(mem[l].attr) => mem[l].remembered)'
      BY <1>1, <1>2 DEF QuietRemembered, IsYoung
    <2> QED
      BY <1>1, <2>1 DEF BetweenInv
  <1>9. DuringInv'
    BY DEF DuringInv
  <1> QED
    BY <1>4, <1>5, <1>6, <1>7, <1>8, <1>9 DEF MemoryInv

-----------------------------------------------------------------------------
(* The end of a collection.                                                *)

Live == {l \in DOMAIN mem : Survives(l)}
AfterSwap(c) == [c EXCEPT !.attr = Swapped(@), !.forwarding_addr = Swapped(@), !.marked = FALSE]

LEMMA SwappedLoc ==
  ASSUME NEW l \in Locs
  PROVE  /\ Swapped(l) \in Locs /\ Swapped(l)[1] = l[1] /\ Swapped(l)[2] = l[2]
         /\ Swapped(l)[3] = IF l[3] = "to" THEN "from" ELSE l[3]
         /\ Swapped(l) = <<l[1], l[2], IF l[3] = "to" THEN "from" ELSE l[3]>>
         /\ l[3] # "to" => Swapped(l) = l
  BY LocParts DEF Swapped, Locs

LEMMA AfterSwapRecord ==
  ASSUME NEW c \in Records
  PROVE  LET d == AfterSwap(c) IN
         /\ d \in Records /\ d.attr = Swapped(c.attr) /\ (d.remembered = c.remembered)
         /\ d.forwarding_addr = Swapped(c.forwarding_addr) /\ d.marked = FALSE
  <1>1. \A l \in Locs \cup {Nil} : Swapped(l) \in Locs \cup {Nil}
    BY SwappedLoc DEF Swapped
  <1> QED
    BY <1>1 DEF Records, AfterSwap

\* swap_spaces moves what survives, each object to a place of its own.
LEMMA SwapMoves ==
  ASSUME MemoryInv, EndGC
  PROVE  /\ \A m \in Live : Swapped(m) \in DOMAIN mem' /\ mem'[Swapped(m)] = AfterSwap(mem[m])
         /\ \A l \in DOMAIN mem' : \E m \in Live : l = Swapped(m)
  <1>1. \A l, k \in Live : Swapped(l) = Swapped(k) => l = k
    <2>1. \A l \in Live : l \in Locs /\ l[3] \in {"to", "old"}
      BY DEF MemoryInv, TypeOK, Live, Survives
    <2> QED
      BY <2>1, SwappedLoc, LocParts
  <1>2. mem' = [l \in {Swapped(m) : m \in Live} |->
                  LET m == CHOOSE m \in Live : Swapped(m) = l IN AfterSwap(mem[m])]
    BY DEF EndGC, Live, AfterSwap
  <1>3. ASSUME NEW m \in Live
        PROVE  Swapped(m) \in DOMAIN mem' /\ mem'[Swapped(m)] = AfterSwap(mem[m])
    <2>1. (CHOOSE k \in Live : Swapped(k) = Swapped(m)) = m
      BY <1>1
    <2> QED
      BY <1>2, <2>1
  <1>4. \A l \in DOMAIN mem' : \E m \in Live : l = Swapped(m)
    BY <1>2
  <1> QED
    BY <1>3, <1>4

LEMMA EndGCStep ==
  ASSUME MemoryInv, EndGC
  PROVE  MemoryInv'
  <1>1. /\ phase \in {"minor", "major"} /\ phase # "none" /\ todo = {}
        /\ \A h \in Threads : marked_objects[h] = {}
    BY DEF MemoryInv, TypeOK, EndGC
  <1>2. /\ Collecting(mem, slot, remembered_set, marked_objects, todo)
        /\ collector \in Threads /\ state[collector] = "running"
    BY <1>1, CollectingNow
  <1>3. /\ DOMAIN mem \subseteq Locs /\ \A l \in DOMAIN mem : mem[l] \in Records
        /\ slot \in [Slots -> DOMAIN mem \cup {Nil}]
        /\ remembered_set \in [Threads -> SUBSET DOMAIN mem]
        /\ Nil \notin DOMAIN mem /\ Swapped(Nil) = Nil
    BY <1>2, HeapAssumption DEF Collecting, CollTypes, Locs, Swapped
  <1>4. Live = {l \in DOMAIN mem : IsDone(mem, marked_objects, l)}
    BY <1>1 DEF Live, IsDone, Keeps, Survives
  <1>5. \A l \in Live : /\ l \in Locs /\ l \in DOMAIN mem /\ mem[l] \in Records
                         /\ l[3] \in {"to", "old"} /\ mem[l].forwarding_addr = Nil
    <2>1. \A l \in Live : l \in DOMAIN mem /\ l[3] \in {"to", "old"}
      BY <1>3 DEF Live, Survives
    <2> QED
      BY <1>2, <1>3, <2>1 DEF Collecting, CollCopies
  <1>6. \A s \in Slots : slot[s] \in Live \cup {Nil}
    BY <1>1, <1>2, <1>3 DEF Collecting, CollRefs, Live, Keeps, Survives
  <1>7. \A l \in Live : /\ mem[l].attr \in Live \cup {Nil}
                         /\ (l[3] = "old" /\ mem[l].attr # Nil /\ mem[l].attr[3] # "old"
                              => mem[l].remembered)
    <2>1. \A l : Keeps(mem, l) <=> Survives(l)
      BY DEF Keeps, Survives
    <2>2. \A l \in Live : l \in DOMAIN mem /\ IsDone(mem, marked_objects, l)
      BY <1>4
    <2> QED
      BY <1>2, <2>1, <2>2 DEF Collecting, CollRefs, CollTypes, Live
  <1>8. PICK deleted \in SUBSET {h \in Heaps : state[h] = "ended" /\ \A l \in Live : l[2] # h} :
           /\ heaps' = WithoutHeaps(deleted)
           /\ remembered_set' = [h \in Threads |-> IF h \in deleted THEN {} ELSE remembered_set[h]]
    BY DEF EndGC, Live
  <1>9. /\ heaps \in Seq(Threads) /\ state \in [Threads -> {"new", "running", "ended"}]
        /\ \A t \in Threads : state[t] = "running" => t \in Heaps /\ t \notin deleted
        /\ state[Main] = "running"
        /\ \A t \in Threads : pending[t] = Nil
        /\ pending \in [Threads -> {Nil} \cup
                           [obj : Locs, val : Locs \cup {Nil}, remember : BOOLEAN]]
    BY <1>1, <1>8 DEF MemoryInv, TypeOK, ReferencesInv, RememberedInv
  <1> DEFINE H == Heaps \ deleted
  <1>10. heaps' \in Seq(Threads) /\ Heaps' = H
    <2>1. \A x : WithoutHeaps(x) \in Seq(Threads) /\
                 {WithoutHeaps(x)[i] : i \in DOMAIN WithoutHeaps(x)} = Heaps \ x
      BY <1>9, HeapsLeft
    <2> QED
      BY <1>8, <2>1 DEF Heaps
  <1>11. /\ \A m \in Live : Swapped(m) \in DOMAIN mem' /\ mem'[Swapped(m)] = AfterSwap(mem[m])
         /\ \A l \in DOMAIN mem' : \E m \in Live : l = Swapped(m)
    BY SwapMoves
  <1>12. /\ phase' = "none" /\ collector' = Nil
         /\ UNCHANGED <<state, pending, todo, marked_objects, doubled>>
         /\ slot' = [s \in Slots |-> Swapped(slot[s])]
    BY DEF EndGC
  <1> HIDE DEF H
  <1>13. ASSUME NEW m \in Live
         PROVE  /\ mem'[Swapped(m)] \in Records /\ mem'[Swapped(m)].attr = Swapped(mem[m].attr)
                /\ mem'[Swapped(m)].remembered = mem[m].remembered
                /\ mem'[Swapped(m)].forwarding_addr = Nil /\ mem'[Swapped(m)].marked = FALSE
    <2>1. mem'[Swapped(m)] = AfterSwap(mem[m])
      BY <1>11
    <2>2. mem[m] \in Records /\ Swapped(mem[m].forwarding_addr) = Nil
      BY <1>3, <1>5
    <2> QED
      BY <2>1, <2>2, AfterSwapRecord
  <1>14. QuietMem(mem')
    <2>1. ASSUME NEW m \in Live
          PROVE  Swapped(m) \in Locs /\ Swapped(m)[3] # "to" /\ Swapped(m)[1] = m[1]
      BY <1>5, SwappedLoc
    <2>2. \A m \in Live : Swapped(mem[m].attr) \in DOMAIN mem' \cup {Nil}
      BY <1>3, <1>7, <1>11
    <2>3. \A l, k \in DOMAIN mem' : l[1] = k[1] => l = k
      <3> SUFFICES ASSUME NEW l \in DOMAIN mem', NEW k \in DOMAIN mem', l[1] = k[1] PROVE l = k
        OBVIOUS
      <3>1. PICK i \in Live : l = Swapped(i)
        BY <1>11
      <3>2. PICK j \in Live : k = Swapped(j)
        BY <1>11
      <3>3. i[1] = j[1]
        BY <2>1, <3>1, <3>2
      <3>4. i = j
        BY <1>2, <1>3, <1>5, <3>3 DEF Collecting, CollCopies
      <3> QED
        BY <3>1, <3>2, <3>4
    <2>4. ASSUME NEW l \in DOMAIN mem'
          PROVE  /\ l \in Locs /\ l[3] # "to" /\ mem'[l] \in Records
                 /\ mem'[l].attr \in DOMAIN mem' \cup {Nil}
                 /\ mem'[l].forwarding_addr = Nil /\ ~mem'[l].marked
      <3>1. PICK m \in Live : l = Swapped(m)
        BY <1>11
      <3> QED
        BY <1>13, <2>1, <2>2, <3>1
    <2> QED
      BY <2>3, <2>4 DEF QuietMem
  <1>15. QuietRemembered(mem', remembered_set', H)
    <2>1. /\ remembered_set'[collector] = remembered_set[collector] /\ collector \in H
          /\ \A h \in Threads : h # collector => remembered_set'[h] = {}
          /\ DOMAIN remembered_set' = Threads
      BY <1>2, <1>8, <1>9 DEF Collecting, CollRemembered, H
    <2>2. \A l \in remembered_set[collector] : l \in Live /\ l[3] = "old" /\ Swapped(l) = l
      BY <1>2, <1>3, <1>4, SwappedLoc DEF Collecting, CollRemembered
    <2>3. remembered_set' \in [Threads -> SUBSET DOMAIN mem']
      BY <1>8, <1>11, <2>1, <2>2
    <2>4. \A l \in DOMAIN mem' : mem'[l].remembered <=> \E h \in Threads : l \in remembered_set'[h]
      <3> SUFFICES ASSUME NEW l \in DOMAIN mem'
                   PROVE  mem'[l].remembered <=> l \in remembered_set[collector]
        BY <1>2, <2>1
      <3>1. PICK m \in Live : l = Swapped(m)
        BY <1>11
      <3>2. mem'[l].remembered <=> m \in remembered_set[collector]
        BY <1>2, <1>5, <1>13, <3>1 DEF Collecting, CollRemembered
      <3>3. m \in remembered_set[collector] <=> l \in remembered_set[collector]
        <4>1. ASSUME l \in remembered_set[collector] PROVE m = l
          <5>1. l[3] = "old" /\ m \in Locs
            BY <1>5, <2>2, <4>1
          <5> QED
            BY <3>1, <5>1, SwappedLoc
        <4> QED
          BY <2>2, <3>1, <4>1
      <3> QED
        BY <3>2, <3>3
    <2>5. \A l \in DOMAIN mem' : l[3] = "old" /\ mem'[l].attr # Nil /\ mem'[l].attr[3] # "old"
                                  => mem'[l].remembered
      <3> SUFFICES ASSUME NEW l \in DOMAIN mem', l[3] = "old", mem'[l].attr # Nil,
                          mem'[l].attr[3] # "old"
                   PROVE  mem'[l].remembered
        OBVIOUS
      <3>1. PICK m \in Live : l = Swapped(m)
        BY <1>11
      <3>2. m \in Locs /\ m[3] = "old"
        BY <1>5, <3>1, SwappedLoc
      <3>3. mem'[l].attr = Swapped(mem[m].attr) /\ mem'[l].remembered = mem[m].remembered
        BY <1>13, <3>1
      <3>4. mem[m].attr # Nil /\ mem[m].attr \in Locs
        BY <1>3, <1>5, <1>7, <3>3
      <3>5. mem[m].attr[3] # "old"
        BY <3>3, <3>4, SwappedLoc
      <3> QED
        BY <1>7, <3>2, <3>3, <3>4, <3>5
    <2> QED
      BY <2>1, <2>2, <2>3, <2>4, <2>5 DEF QuietRemembered
  <1>16. QuietVars(mem', slot', state', H)
    <2>1. \A s \in Slots : slot'[s] \in DOMAIN mem' \cup {Nil}
      BY <1>3, <1>6, <1>11, <1>12
    <2>2. \A s \in Slots : state[s[1]] # "running" => slot'[s] = Nil
      BY <1>2, <1>3, <1>12 DEF Collecting, CollTypes
    <2> QED
      BY <1>9, <1>12, <2>1, <2>2 DEF QuietVars, H
  <1>17. QuietStores(mem', pending', state')
    BY <1>9, <1>12 DEF QuietStores
  <1>18. marked_objects' \in [Threads -> SUBSET Locs] /\ doubled' \in BOOLEAN
    BY <1>12 DEF MemoryInv, TypeOK
  <1> QED
    BY <1>1, <1>10, <1>12, <1>14, <1>15, <1>16, <1>17, <1>18, QuietNext

-----------------------------------------------------------------------------
(* The steps of the scripts.                                               *)

LEMMA ScriptNext ==
  ASSUME MemoryInv, phase = "none", UNCHANGED gcVars, heaps' \in Seq(Threads), NEW H, Heaps' = H,
         QuietMem(mem'), QuietRemembered(mem', remembered_set', H),
         QuietVars(mem', slot', state', H), QuietStores(mem', pending', state')
  PROVE  MemoryInv'
  <1>1. /\ phase' = "none" /\ todo' = {} /\ collector' \in Threads \cup {Nil}
        /\ marked_objects' \in [Threads -> SUBSET Locs] /\ doubled' \in BOOLEAN
        /\ \A h \in Threads : marked_objects'[h] = {}
    BY QuietNow DEF gcVars, MemoryInv, TypeOK
  <1> QED
    BY <1>1, QuietNext

\* A variable gets a reference.
LEMMA VariableSet ==
  ASSUME NEW m, NEW st, NEW H, NEW s, NEW v, QuietVars(m, slot, st, H),
         v \in DOMAIN m \cup {Nil}, s \in Slots => st[s[1]] = "running"
  PROVE  QuietVars(m, [slot EXCEPT ![s] = v], st, H)
  BY DEF QuietVars

\* The variables of a running thread may be set.
LEMMA VisibleSlots ==
  ASSUME NEW t \in Threads, NEW s \in Visible(t), state[t] = "running", state[Main] = "running"
  PROVE  s \in Slots /\ state[s[1]] = "running"
  <1>1. VMSlot \in Slots /\ VMSlot[1] = Main
    BY HeapAssumption DEF VMSlot
  <1> QED
    BY <1>1 DEF Visible, Locals

LEMMA AllocStep ==
  ASSUME MemoryInv, NEW t \in Threads, NEW s \in Locals(t), NEW space \in {"from", "old"},
         Alloc(t, s, space)
  PROVE  MemoryInv'
  <1> DEFINE l == <<CHOOSE o \in Unused : TRUE, t, space>>
             c == [age |-> 0, attr |-> Nil, remembered |-> FALSE,
                   forwarding_addr |-> Nil, marked |-> FALSE]
  <1>1. /\ phase = "none" /\ state[t] = "running" /\ Unused # {}
        /\ mem' = With(mem, l, c) /\ slot' = [slot EXCEPT ![s] = l]
        /\ UNCHANGED <<state, remembered_set, heaps, pending, gcVars>>
    BY DEF Alloc, Running
  <1>2. /\ QuietMem(mem) /\ QuietRemembered(mem, remembered_set, Heaps)
        /\ QuietVars(mem, slot, state, Heaps) /\ QuietStores(mem, pending, state)
        /\ heaps \in Seq(Threads)
    BY <1>1, QuietNow
  <1>3. l \in Locs /\ l[3] = space /\ l[1] \in Unused
    BY <1>1 DEF Locs, Unused
  <1>4. l \notin DOMAIN mem /\ \A k \in DOMAIN mem : k[1] # l[1]
    BY <1>3 DEF Unused
  <1>5. /\ c \in Records /\ c.attr = Nil /\ c.remembered = FALSE
        /\ c.forwarding_addr = Nil /\ c.marked = FALSE
    BY DEF Records
  <1> HIDE DEF l, c
  <1>6. /\ DOMAIN mem' = DOMAIN mem \cup {l} /\ mem'[l] = c
        /\ \A k \in DOMAIN mem : mem'[k] = mem[k]
    BY <1>1, <1>4 DEF With
  <1>7. QuietMem(mem')
    BY <1>2, <1>3, <1>4, <1>5, <1>6 DEF QuietMem
  <1>8. QuietRemembered(mem', remembered_set, Heaps)
    BY <1>2, <1>4, <1>5, <1>6 DEF QuietRemembered
  <1>9. QuietVars(mem', slot', state, Heaps)
    <2>1. QuietVars(mem', slot, state, Heaps)
      BY <1>2, <1>6 DEF QuietVars
    <2>2. state[s[1]] = "running" /\ l \in DOMAIN mem' \cup {Nil}
      BY <1>1, <1>6 DEF Locals
    <2> QED
      BY <1>1, <2>1, <2>2, VariableSet
  <1>10. QuietStores(mem', pending, state)
    BY <1>2, <1>6 DEF QuietStores
  <1> QED
    BY <1>1, <1>2, <1>7, <1>8, <1>9, <1>10, ScriptNext DEF Heaps

LEMMA AssignStep ==
  ASSUME MemoryInv, NEW t \in Threads, NEW s \in Visible(t), NEW r \in Visible(t), Assign(t, s, r)
  PROVE  MemoryInv'
  <1>1. /\ phase = "none" /\ state[t] = "running" /\ slot' = [slot EXCEPT ![s] = slot[r]]
        /\ UNCHANGED <<state, mem, remembered_set, heaps, pending, gcVars>>
    BY DEF Assign, Running
  <1>2. /\ QuietMem(mem) /\ QuietRemembered(mem, remembered_set, Heaps)
        /\ QuietVars(mem, slot, state, Heaps) /\ QuietStores(mem, pending, state)
        /\ heaps \in Seq(Threads)
    BY <1>1, QuietNow
  <1>3. s \in Slots /\ r \in Slots /\ state[s[1]] = "running"
    BY <1>1, <1>2, VisibleSlots DEF QuietVars
  <1>4. slot[r] \in DOMAIN mem \cup {Nil}
    BY <1>2, <1>3 DEF QuietVars
  <1>5. QuietVars(mem, slot', state, Heaps)
    BY <1>1, <1>2, <1>3, <1>4, VariableSet
  <1> QED
    BY <1>1, <1>2, <1>5, ScriptNext DEF Heaps

LEMMA LoadStep ==
  ASSUME MemoryInv, NEW t \in Threads, NEW s \in Locals(t), NEW r \in Visible(t), Load(t, s, r)
  PROVE  MemoryInv'
  <1>1. /\ phase = "none" /\ state[t] = "running" /\ slot[r] # Nil
        /\ slot' = [slot EXCEPT ![s] = mem[slot[r]].attr]
        /\ UNCHANGED <<state, mem, remembered_set, heaps, pending, gcVars>>
    BY DEF Load, Running
  <1>2. /\ QuietMem(mem) /\ QuietRemembered(mem, remembered_set, Heaps)
        /\ QuietVars(mem, slot, state, Heaps) /\ QuietStores(mem, pending, state)
        /\ heaps \in Seq(Threads)
    BY <1>1, QuietNow
  <1>3. r \in Slots /\ state[s[1]] = "running"
    BY <1>1, <1>2, VisibleSlots DEF QuietVars, Locals
  <1>4. mem[slot[r]].attr \in DOMAIN mem \cup {Nil}
    BY <1>1, <1>2, <1>3 DEF QuietVars, QuietMem
  <1>5. QuietVars(mem, slot', state, Heaps)
    BY <1>1, <1>2, <1>3, <1>4, VariableSet
  <1> QED
    BY <1>1, <1>2, <1>5, ScriptNext DEF Heaps

\* The first half of the write barrier: other threads may be storing into the object.
LEMMA UpdatePtrStep ==
  ASSUME MemoryInv, NEW t \in Threads, NEW s \in Locals(t), NEW r \in Visible(t),
         UpdatePtr(t, s, r)
  PROVE  MemoryInv'
  <1> DEFINE obj == slot[s]
             val == slot[r]
             rec == [obj |-> obj, val |-> val, remember |-> Barrier(obj, val)]
  <1>1. /\ phase = "none" /\ state[t] = "running" /\ obj # Nil
        /\ pending' = [pending EXCEPT ![t] = rec]
        /\ UNCHANGED <<state, slot, mem, remembered_set, heaps, gcVars>>
    BY DEF UpdatePtr, Running
  <1>2. /\ QuietMem(mem) /\ QuietRemembered(mem, remembered_set, Heaps)
        /\ QuietVars(mem, slot, state, Heaps) /\ QuietStores(mem, pending, state)
        /\ heaps \in Seq(Threads)
    BY <1>1, QuietNow
  <1>3. r \in Slots /\ s \in Slots
    BY <1>1, <1>2, VisibleSlots DEF QuietVars, Locals
  <1>4. obj \in DOMAIN mem /\ obj \in Locs /\ val \in DOMAIN mem \cup {Nil} /\ val \in Locs \cup {Nil}
    BY <1>1, <1>2, <1>3 DEF QuietVars, QuietMem
  <1>5. /\ Barrier(obj, val) \in BOOLEAN
        /\ Barrier(obj, val) <=> /\ obj[3] = "old" /\ ~mem[obj].remembered
                                 /\ val # Nil /\ val[3] # "old"
    BY <1>4, LocParts DEF Barrier, IsYoung
  <1> HIDE DEF obj, val
  <1>6. /\ rec \in [obj : Locs, val : Locs \cup {Nil}, remember : BOOLEAN]
        /\ rec.obj = obj /\ rec.val = val /\ rec.remember = Barrier(obj, val)
    BY <1>4, <1>5
  <1> HIDE DEF rec
  <1>7. QuietStores(mem, pending', state)
    <2>1. /\ pending'[t] = rec /\ \A u \in Threads : u # t => pending'[u] = pending[u]
          /\ pending' \in [Threads -> {Nil} \cup
                             [obj : Locs, val : Locs \cup {Nil}, remember : BOOLEAN]]
      BY <1>1, <1>2, <1>6 DEF QuietStores
    <2>2. ASSUME NEW u \in Threads, pending'[u] # Nil
          PROVE  /\ state[u] = "running" /\ pending'[u].obj \in DOMAIN mem
                 /\ pending'[u].val \in DOMAIN mem \cup {Nil}
                 /\ pending'[u].obj[3] = "old" /\ ~mem[pending'[u].obj].remembered
                       /\ pending'[u].val # Nil /\ pending'[u].val[3] # "old"
                       => pending'[u].remember
                 /\ pending'[u].remember => pending'[u].obj[3] = "old"
      <3>1. CASE u = t
        BY <1>1, <1>4, <1>5, <1>6, <2>1, <3>1
      <3>2. CASE u # t
        BY <1>1, <1>2, <1>6, <2>1, <2>2, <3>2 DEF QuietStores
      <3> QED
        BY <3>1, <3>2
    <2> QED
      BY <2>1, <2>2 DEF QuietStores
  <1> QED
    BY <1>1, <1>2, <1>7, ScriptNext DEF Heaps

\* The second half: what must be remembered is, if not by this thread then by another.
LEMMA StorePtrStep ==
  ASSUME MemoryInv, NEW t \in Threads, StorePtr(t)
  PROVE  MemoryInv'
  <1> DEFINE p == pending[t]
             l == p.obj
             v == p.val
             b == p.remember
  <1>1. /\ phase = "none" /\ p # Nil
        /\ mem' = [mem EXCEPT ![l].attr = v, ![l].remembered = @ \/ b]
        /\ remembered_set' = [remembered_set EXCEPT ![t] = IF b THEN @ \cup {l} ELSE @]
        /\ pending' = [pending EXCEPT ![t] = Nil]
        /\ UNCHANGED <<state, slot, heaps, gcVars>>
    BY DEF StorePtr, MemoryInv, RememberedInv
  <1>2. /\ QuietMem(mem) /\ QuietRemembered(mem, remembered_set, Heaps)
        /\ QuietVars(mem, slot, state, Heaps) /\ QuietStores(mem, pending, state)
        /\ heaps \in Seq(Threads)
    BY <1>1, QuietNow
  <1>3. /\ p \in [obj : Locs, val : Locs \cup {Nil}, remember : BOOLEAN]
        /\ l \in DOMAIN mem /\ v \in DOMAIN mem \cup {Nil} /\ state[t] = "running"
        /\ l[3] = "old" /\ ~mem[l].remembered /\ v # Nil /\ v[3] # "old" => b
        /\ b => l[3] = "old"
    <2>1. p \in {Nil} \cup [obj : Locs, val : Locs \cup {Nil}, remember : BOOLEAN]
      BY <1>2 DEF QuietStores
    <2> QED
      BY <1>1, <1>2, <2>1 DEF QuietStores
  <1>4. b \in BOOLEAN /\ mem[l] \in Records /\ v \in Locs \cup {Nil}
    BY <1>2, <1>3 DEF QuietMem
  <1> HIDE DEF p, l, v, b
  <1>5. /\ DOMAIN mem' = DOMAIN mem /\ mem'[l] = Stored(mem[l], v, b)
        /\ \A i \in DOMAIN mem : i # l => mem'[i] = mem[i]
    BY <1>1, <1>3 DEF Stored
  <1>6. /\ mem'[l] \in Records /\ mem'[l].attr = v /\ (mem'[l].remembered <=> mem[l].remembered \/ b)
        /\ mem'[l].forwarding_addr = mem[l].forwarding_addr /\ mem'[l].marked = mem[l].marked
    BY <1>4, <1>5, StoredRecord
  <1>7. QuietMem(mem')
    BY <1>2, <1>3, <1>5, <1>6 DEF QuietMem
  <1>8. QuietRemembered(mem', remembered_set', Heaps)
    <2>1. t \in Heaps
      BY <1>2, <1>3 DEF QuietVars
    <2>2. /\ remembered_set' \in [Threads -> SUBSET DOMAIN mem']
          /\ \A h \in Threads : \A i :
                i \in remembered_set'[h] <=> i \in remembered_set[h] \/ (h = t /\ b /\ i = l)
      BY <1>1, <1>2, <1>3, <1>5 DEF QuietRemembered
    <2>3. \A i \in DOMAIN mem' : mem'[i].remembered <=> \E h \in Threads : i \in remembered_set'[h]
      BY <1>2, <1>5, <1>6, <2>2 DEF QuietRemembered
    <2>4. \A h \in Threads : \A i \in remembered_set'[h] : h \in Heaps /\ i[3] = "old"
      BY <1>2, <1>3, <2>1, <2>2 DEF QuietRemembered
    <2>5. \A i \in DOMAIN mem' :
             i[3] = "old" /\ mem'[i].attr # Nil /\ mem'[i].attr[3] # "old" => mem'[i].remembered
      BY <1>2, <1>3, <1>5, <1>6 DEF QuietRemembered
    <2> QED
      BY <2>2, <2>3, <2>4, <2>5 DEF QuietRemembered
  <1>9. QuietVars(mem', slot, state, Heaps)
    BY <1>2, <1>5 DEF QuietVars
  <1>10. QuietStores(mem', pending', state)
    <2>1. /\ pending'[t] = Nil /\ \A u \in Threads : u # t => pending'[u] = pending[u]
          /\ pending' \in [Threads -> {Nil} \cup
                             [obj : Locs, val : Locs \cup {Nil}, remember : BOOLEAN]]
      BY <1>1, <1>2 DEF QuietStores
    <2>2. \A i \in DOMAIN mem : mem[i].remembered => mem'[i].remembered
      BY <1>5, <1>6
    <2> QED
      BY <1>2, <1>5, <2>1, <2>2 DEF QuietStores
  <1> QED
    BY <1>1, <1>2, <1>7, <1>8, <1>9, <1>10, ScriptNext DEF Heaps

LEMMA StartThreadStep ==
  ASSUME MemoryInv, NEW t \in Threads, NEW u \in Threads, StartThread(t, u)
  PROVE  MemoryInv'
  <1>1. /\ phase = "none" /\ state[t] = "running" /\ state[u] = "new"
        /\ state' = [state EXCEPT ![u] = "running"] /\ heaps' = Append(heaps, u)
        /\ UNCHANGED <<mem, remembered_set, pending, gcVars>>
    BY DEF StartThread, Running
  <1>2. /\ QuietMem(mem) /\ QuietRemembered(mem, remembered_set, Heaps)
        /\ QuietVars(mem, slot, state, Heaps) /\ QuietStores(mem, pending, state)
        /\ heaps \in Seq(Threads)
    BY <1>1, QuietNow
  <1> DEFINE H == Heaps \cup {u}
  <1>3. heaps' \in Seq(Threads) /\ Heaps' = H
    <2> DEFINE x == heaps
               y == heaps'
    <2>1. /\ y \in Seq(Threads) /\ Len(y) = Len(x) + 1 /\ Len(x) \in Nat
          /\ DOMAIN x = 1 .. Len(x) /\ DOMAIN y = 1 .. Len(y)
          /\ \A j \in 1 .. Len(x) : y[j] = x[j]
          /\ y[Len(x) + 1] = u
      BY <1>1, <1>2, AppendProperties, LenProperties
    <2>2. \A j : j \in DOMAIN y <=> j \in DOMAIN x \/ j = Len(x) + 1
      BY <2>1
    <2> HIDE DEF x, y
    <2>3. {y[j] : j \in DOMAIN y} = {x[j] : j \in DOMAIN x} \cup {u}
      BY <2>1, <2>2
    <2> QED
      BY <2>1, <2>3 DEF x, y, Heaps
  <1>4. PICK s \in Locals(u) : \E r \in Visible(t) : slot' = [slot EXCEPT ![s] = slot[r]]
    BY DEF StartThread
  <1>5. PICK r \in Visible(t) : slot' = [slot EXCEPT ![s] = slot[r]]
    BY <1>4
  <1>6. r \in Slots
    BY <1>1, <1>2, VisibleSlots DEF QuietVars
  <1>7. slot[r] \in DOMAIN mem \cup {Nil}
    BY <1>2, <1>6 DEF QuietVars
  <1>8. /\ state' \in [Threads -> {"new", "running", "ended"}] /\ state'[u] = "running"
        /\ \A w \in Threads : w # u => state'[w] = state[w]
    BY <1>1, <1>2 DEF QuietVars
  <1>9. QuietVars(mem, slot', state', H)
    <2>1. QuietVars(mem, slot, state', H)
      BY <1>2, <1>8, HeapAssumption DEF QuietVars
    <2>2. state'[s[1]] = "running"
      BY <1>8 DEF Locals
    <2> QED
      BY <1>5, <1>7, <2>1, <2>2, VariableSet
  <1>10. QuietRemembered(mem, remembered_set, H)
    BY <1>2 DEF QuietRemembered
  <1>11. QuietStores(mem, pending, state')
    BY <1>2, <1>8 DEF QuietStores
  <1> QED
    BY <1>1, <1>2, <1>3, <1>9, <1>10, <1>11, ScriptNext

LEMMA EndThreadStep ==
  ASSUME MemoryInv, NEW t \in Threads, EndThread(t)
  PROVE  MemoryInv'
  <1>1. /\ phase = "none" /\ state[t] = "running" /\ pending[t] = Nil /\ t # Main
        /\ state' = [state EXCEPT ![t] = "ended"]
        /\ slot' = [s \in Slots |-> IF s \in Locals(t) THEN Nil ELSE slot[s]]
        /\ UNCHANGED <<mem, remembered_set, heaps, pending, gcVars>>
    BY DEF EndThread, Running
  <1>2. /\ QuietMem(mem) /\ QuietRemembered(mem, remembered_set, Heaps)
        /\ QuietVars(mem, slot, state, Heaps) /\ QuietStores(mem, pending, state)
        /\ heaps \in Seq(Threads)
    BY <1>1, QuietNow
  <1>3. /\ state' \in [Threads -> {"new", "running", "ended"}] /\ state'[t] = "ended"
        /\ \A w \in Threads : w # t => state'[w] = state[w]
    BY <1>1, <1>2 DEF QuietVars
  <1>4. QuietVars(mem, slot', state', Heaps)
    <2>1. \A s \in Slots : s[1] \in Threads /\ (s[1] = t => s \in Locals(t))
      <3>1. VMSlot[1] = Main
        BY DEF VMSlot
      <3> QED
        BY <1>1, <3>1, HeapAssumption DEF Locals
    <2>2. slot' \in [Slots -> DOMAIN mem \cup {Nil}]
      BY <1>1, <1>2 DEF QuietVars
    <2>3. \A s \in Slots : state'[s[1]] # "running" => slot'[s] = Nil
      BY <1>1, <1>2, <1>3, <2>1 DEF QuietVars
    <2> QED
      BY <1>1, <1>2, <1>3, <2>2, <2>3, HeapAssumption DEF QuietVars
  <1>5. QuietStores(mem, pending, state')
    BY <1>1, <1>2, <1>3 DEF QuietStores
  <1> QED
    BY <1>1, <1>2, <1>4, <1>5, ScriptNext DEF Heaps

\* prepare: nothing is in a remembered set, and only what was is to be scanned, in
\* one heap each.
LEMMA StartGCStep ==
  ASSUME MemoryInv, NEW t \in Threads, NEW kind \in {"minor", "major"}, StartGC(t, kind),
         ~doubled'
  PROVE  MemoryInv'
  <1>1. /\ phase = "none" /\ state[t] = "running" /\ \A u \in Threads : pending[u] = Nil
        /\ phase' = kind /\ collector' = t
        /\ todo' = {s \in Slots : state[s[1]] = "running"}
        /\ mem' = [l \in DOMAIN mem |->
                      IF \E h \in Heaps : l \in remembered_set[h]
                      THEN [mem[l] EXCEPT !.remembered = FALSE] ELSE mem[l]]
        /\ marked_objects' = [h \in Threads |-> IF kind = "minor" THEN remembered_set[h] ELSE {}]
        /\ remembered_set' = [h \in Threads |-> {}]
        /\ UNCHANGED <<state, slot, heaps, pending>>
        /\ kind = "minor" => ~InTwoSets
    BY DEF StartGC, Running
  <1>2. /\ QuietMem(mem) /\ QuietRemembered(mem, remembered_set, Heaps)
        /\ QuietVars(mem, slot, state, Heaps) /\ QuietStores(mem, pending, state)
        /\ heaps \in Seq(Threads) /\ Heaps \subseteq Threads
    BY <1>1, QuietNow
  <1>3. /\ DOMAIN mem' = DOMAIN mem
        /\ \A l \in DOMAIN mem :
              /\ mem'[l] \in Records /\ mem'[l].attr = mem[l].attr /\ ~mem'[l].remembered
              /\ mem'[l].forwarding_addr = Nil /\ mem'[l].marked = FALSE
              /\ mem[l].attr \in DOMAIN mem \cup {Nil}
    <2> SUFFICES ASSUME NEW l \in DOMAIN mem
                 PROVE  /\ mem'[l] \in Records /\ mem'[l].attr = mem[l].attr
                        /\ ~mem'[l].remembered /\ mem'[l].forwarding_addr = Nil
                        /\ mem'[l].marked = FALSE /\ mem[l].attr \in DOMAIN mem \cup {Nil}
      BY <1>1
    <2>1. /\ mem[l] \in Records /\ mem[l].forwarding_addr = Nil /\ ~mem[l].marked
          /\ mem[l].attr \in DOMAIN mem \cup {Nil}
          /\ mem[l].remembered <=> \E h \in Threads : l \in remembered_set[h]
      BY <1>2 DEF QuietMem, QuietRemembered
    <2>2. CASE \E h \in Heaps : l \in remembered_set[h]
      <3>1. mem'[l] = [mem[l] EXCEPT !.remembered = FALSE]
        BY <1>1, <2>2
      <3> QED
        BY <2>1, <3>1 DEF Records
    <2>3. CASE ~\E h \in Heaps : l \in remembered_set[h]
      <3>1. mem'[l] = mem[l]
        BY <1>1, <2>3
      <3>2. ~mem[l].remembered
        BY <1>2, <2>1, <2>3 DEF QuietRemembered
      <3> QED
        BY <2>1, <3>1, <3>2 DEF Records
    <2> QED
      BY <2>2, <2>3
  <1>4. /\ \A l \in DOMAIN mem : l \in Locs /\ l[3] # "to" /\ l[3] \in {"from", "old"}
        /\ slot \in [Slots -> DOMAIN mem \cup {Nil}]
        /\ \A h \in Threads : \A l \in remembered_set[h] : l \in DOMAIN mem /\ l[3] = "old"
        /\ \A l \in Locs : IsOld(l) <=> l[3] = "old"
        /\ \A l \in Locs : IsYoung(l) <=> l[3] # "old"
    BY <1>2, LocParts DEF QuietMem, QuietRemembered, QuietVars
  <1>5. TypeOK'
    <2>1. marked_objects' \in [Threads -> SUBSET Locs] /\ remembered_set' \in [Threads -> SUBSET Locs]
      BY <1>1, <1>4
    <2>2. todo' \in SUBSET Slots /\ phase' \in {"minor", "major"} /\ collector' \in Threads
      BY <1>1
    <2>3. slot \in [Slots -> Locs \cup {Nil}]
      BY <1>4
    <2>4. doubled' \in BOOLEAN
      BY DEF StartGC
    <2> QED
      BY <1>1, <1>3, <1>4, <2>1, <2>2, <2>3, <2>4 DEF MemoryInv, TypeOK, Records
  <1>6. ReferencesInv'
    BY <1>1, <1>3 DEF MemoryInv, ReferencesInv, Heaps
  <1>7. CopiesInv'
    BY <1>2, <1>3 DEF CopiesInv, Forwarded, QuietMem
  <1>8. RememberedInv'
    <2>1. Heaps' = Heaps
      BY <1>1 DEF Heaps
    <2>2. \A h \in Threads : remembered_set'[h] = {}
      BY <1>1
    <2> QED
      BY <1>1, <1>2, <1>3, <2>1, <2>2 DEF RememberedInv
  <1>9. BetweenInv'
    BY <1>1 DEF BetweenInv
  <1>10. DuringInv'
    <2>1. collector' \in Threads /\ state'[collector'] = "running"
      BY <1>1
    <2>2. \A h \in Threads : remembered_set'[h] = {}
      BY <1>1
    <2>3. (\A s \in Slots : slot[s] # Nil =>
              IF s \in todo THEN slot[s][3] # "to" ELSE Survives(slot[s]))'
      BY <1>1, <1>2, <1>4 DEF QuietVars
    <2>4. (\A l \in DOMAIN mem : mem[l].attr # Nil =>
              IF Done(l) THEN /\ Survives(mem[l].attr)
                              /\ IsOld(l) /\ IsYoung(mem[l].attr) => mem[l].remembered
              ELSE mem[l].attr[3] # "to")'
      <3> SUFFICES ASSUME NEW l \in DOMAIN mem', mem'[l].attr # Nil
                   PROVE  (IF Done(l) THEN /\ Survives(mem[l].attr)
                                           /\ IsOld(l) /\ IsYoung(mem[l].attr) => mem[l].remembered
                           ELSE mem[l].attr[3] # "to")'
        OBVIOUS
      <3>1. mem'[l].attr \in DOMAIN mem /\ mem'[l].attr = mem[l].attr /\ mem'[l].attr[3] # "to"
        BY <1>3, <1>4
      <3>2. CASE Done(l)'
        <4>1. kind = "minor" /\ l[3] = "old" /\ \A h \in Threads : l \notin remembered_set[h]
          BY <1>1, <1>3, <1>4, <3>2 DEF Done, Survives
        <4>2. mem[l].attr[3] = "old"
          BY <1>2, <1>3, <3>1, <4>1 DEF QuietRemembered
        <4>3. Survives(mem[l].attr)'
          BY <1>1, <3>1, <4>1, <4>2 DEF Survives
        <4>4. ~IsYoung(mem[l].attr)'
          BY <1>4, <3>1, <4>2 DEF IsYoung
        <4> QED
          BY <3>2, <4>3, <4>4
      <3> QED
        BY <3>1, <3>2
    <2>5. \A h \in Threads : \A l \in marked_objects'[h] :
              /\ l \in DOMAIN mem' /\ Survives(l)'
              /\ \A g \in Threads : l \in marked_objects'[g] => g = h
      <3>1. ASSUME NEW h \in Threads, NEW l \in marked_objects'[h]
            PROVE  /\ kind = "minor" /\ l \in remembered_set[h] /\ l \in DOMAIN mem
                   /\ l[3] = "old"
        BY <1>1, <1>4, <3>1
      <3>2. ASSUME NEW h \in Threads, NEW l \in marked_objects'[h],
                   NEW g \in Threads, l \in marked_objects'[g]
            PROVE  g = h
        BY <1>1, <3>1, <3>2 DEF InTwoSets
      <3>3. \A h \in Threads : \A l \in marked_objects'[h] : l \in DOMAIN mem' /\ Survives(l)'
        BY <1>1, <1>3, <3>1 DEF Survives
      <3> QED
        BY <3>2, <3>3
    <2>6. \A l \in DOMAIN mem' : ~mem'[l].marked
      BY <1>3
    <2> QED
      BY <2>1, <2>2, <2>3, <2>4, <2>5, <2>6 DEF DuringInv
  <1> QED
    BY <1>5, <1>6, <1>7, <1>8, <1>9, <1>10 DEF MemoryInv

-----------------------------------------------------------------------------
(* The theorems.                                                           *)

LEMMA InitMemory ==
  Init => MemoryInv
  <1> SUFFICES ASSUME Init PROVE MemoryInv
    OBVIOUS
  <1>1. /\ mem = <<>> /\ DOMAIN mem = {} /\ heaps = <<Main>> /\ phase = "none" /\ todo = {}
        /\ heaps \in Seq(Threads) /\ Heaps = {Main}
    BY HeapAssumption DEF Init, Heaps
  <1>2. TypeOK
    BY <1>1 DEF Init, TypeOK
  <1>3. ReferencesInv
    BY <1>1, HeapAssumption DEF Init, ReferencesInv
  <1>4. CopiesInv
    BY <1>1 DEF CopiesInv
  <1>5. RememberedInv
    BY <1>1 DEF Init, RememberedInv
  <1>6. BetweenInv /\ DuringInv
    BY <1>1 DEF Init, BetweenInv, DuringInv
  <1> QED
    BY <1>2, <1>3, <1>4, <1>5, <1>6 DEF MemoryInv

LEMMA StepMemory ==
  ASSUME MemoryInv, [Next]_vars, ~doubled'
  PROVE  MemoryInv'
  <1>1. ASSUME NEW t \in Threads, Script(t) PROVE MemoryInv'
    <2>1. CASE \E s \in Locals(t), space \in {"from", "old"} : Alloc(t, s, space)
      BY <2>1, AllocStep
    <2>2. CASE \E s, r \in Visible(t) : Assign(t, s, r)
      BY <2>2, AssignStep
    <2>3. CASE \E s \in Locals(t), r \in Visible(t) : Load(t, s, r)
      BY <2>3, LoadStep
    <2>4. CASE \E s \in Locals(t), r \in Visible(t) : UpdatePtr(t, s, r)
      BY <2>4, UpdatePtrStep
    <2>5. CASE StorePtr(t)
      BY <2>5, StorePtrStep
    <2>6. CASE \E u \in Threads : StartThread(t, u)
      BY <2>6, StartThreadStep
    <2>7. CASE EndThread(t)
      BY <2>7, EndThreadStep
    <2>8. CASE \E kind \in {"minor", "major"} : StartGC(t, kind)
      BY <2>8, StartGCStep
    <2> QED
      BY <1>1, <2>1, <2>2, <2>3, <2>4, <2>5, <2>6, <2>7, <2>8 DEF Script
  <1>2. ASSUME NEW s \in Slots, KeepSlot(s) PROVE MemoryInv'
    BY <1>2, KeepSlotStep
  <1>3. ASSUME NEW h \in Threads, NEW l \in marked_objects[h], KeepChildren(h, l) PROVE MemoryInv'
    BY <1>3, KeepChildrenStep
  <1>4. CASE EndGC
    BY <1>4, EndGCStep
  <1>5. CASE UNCHANGED vars
    <2>1. /\ Heaps' = Heaps
          /\ UNCHANGED <<state, slot, mem, remembered_set, heaps, pending, phase, collector,
                         todo, marked_objects, doubled>>
      BY <1>5 DEF vars, Heaps
    <2> QED
      BY <2>1 DEF MemoryInv, TypeOK, ReferencesInv, CopiesInv, RememberedInv, BetweenInv, DuringInv,
                  Forwarded, Survives, Done, Barrier
  <1> QED
    BY <1>1, <1>2, <1>3, <1>4, <1>5 DEF Next, Collect

-----------------------------------------------------------------------------
(* What the scripts see.  Graph is a memory whose objects have the attributes of *)
(* the objects of another, so that it is the same graph of objects, or a part.   *)

Name(l) == IF l = Nil THEN Nil ELSE l[1]
Objects(m) == {l[1] : l \in DOMAIN m}
Consistent(m) == \A l, k \in DOMAIN m : l[1] = k[1] => Name(m[l].attr) = Name(m[k].attr)
Inherits(n, m) ==
    \A l \in DOMAIN n : \E i \in DOMAIN m : i[1] = l[1] /\ Name(n[l].attr) = Name(m[i].attr)

LEMMA InheritsConsistent ==
  ASSUME NEW m, NEW n, Consistent(m), Inherits(n, m)
  PROVE  Consistent(n)
  BY DEF Consistent, Inherits

LEMMA NameAt ==
  ASSUME MemoryInv, NEW l \in DOMAIN mem \cup {Nil}
  PROVE  ObjectAt(l) = Name(l)
  <1>1. Nil \notin DOMAIN mem
    BY HeapAssumption DEF MemoryInv, TypeOK, Locs
  <1> QED
    BY <1>1 DEF ObjectAt, Name

\* AttributesInv says that the copies of an object have one attribute.
LEMMA AttributesConsistent ==
  ASSUME MemoryInv
  PROVE  AttributesInv <=> Consistent(mem)
  <1>1. \A l \in DOMAIN mem : mem[l].attr \in DOMAIN mem \cup {Nil}
    BY DEF MemoryInv, ReferencesInv
  <1>2. \A l \in DOMAIN mem : ObjectAt(mem[l].attr) = Name(mem[l].attr)
    BY <1>1, NameAt
  <1>3. /\ \A l, m \in DOMAIN mem :
             l[1] = m[1] /\ l # m => m = mem[l].forwarding_addr \/ l = mem[m].forwarding_addr
        /\ \A l \in DOMAIN mem : mem[l].forwarding_addr # Nil =>
             mem[l].forwarding_addr \in DOMAIN mem /\ mem[l].forwarding_addr[1] = l[1]
        /\ Nil \notin DOMAIN mem
    BY HeapAssumption DEF MemoryInv, CopiesInv, Forwarded, TypeOK, Locs
  <1>4. AttributesInv <=> \A l \in DOMAIN mem : mem[l].forwarding_addr # Nil =>
                            Name(mem[mem[l].forwarding_addr].attr) = Name(mem[l].attr)
    BY <1>2, <1>3 DEF AttributesInv, Forwarded
  <1>5. ASSUME AttributesInv PROVE Consistent(mem)
    BY <1>3, <1>4, <1>5 DEF Consistent
  <1>6. ASSUME Consistent(mem) PROVE AttributesInv
    BY <1>3, <1>4, <1>6 DEF Consistent
  <1> QED
    BY <1>5, <1>6

\* A collection moves objects and changes none.
LEMMA CollectionInherits ==
  ASSUME MemoryInv,
         \/ \E s \in Slots : KeepSlot(s)
         \/ \E h \in Threads : \E l \in marked_objects[h] : KeepChildren(h, l)
         \/ EndGC
         \/ \E t \in Threads, kind \in {"minor", "major"} : StartGC(t, kind)
  PROVE  /\ Inherits(mem', mem) /\ UNCHANGED pending
         /\ \A s \in Slots : Name(slot'[s]) = Name(slot[s])
  <1>1. ASSUME NEW s \in Slots, KeepSlot(s)
        PROVE  /\ Inherits(mem', mem) /\ UNCHANGED pending
               /\ \A r \in Slots : Name(slot'[r]) = Name(slot[r])
    <2> DEFINE k == Kept(slot[s], s[1])
    <2>1. KeptWell(slot[s], s[1], k)
      <3>1. phase \in {"minor", "major"}
        BY <1>1 DEF MemoryInv, TypeOK, BetweenInv, KeepSlot
      <3>2. Collecting(mem, slot, remembered_set, marked_objects, todo)
        BY <3>1, CollectingNow
      <3>3. s[1] \in Threads /\ s \in todo
        BY <1>1, HeapAssumption DEF KeepSlot
      <3>4. slot[s] \in DOMAIN mem \cup {Nil} /\ (slot[s] # Nil => slot[s][3] # "to")
        BY <3>2, <3>3 DEF Collecting, CollTypes, CollRefs
      <3> QED
        BY <3>1, <3>2, <3>3, <3>4, KeptIsWell
    <2>2. slot' = [slot EXCEPT ![s] = k.to] /\ mem' = k.mem /\ UNCHANGED pending
      BY <1>1 DEF KeepSlot
    <2> HIDE DEF k
    <2>3. Name(k.to) = Name(slot[s])
      BY <2>1 DEF KeptWell, Name
    <2>4. \A r \in Slots : slot'[r] = IF r = s THEN k.to ELSE slot[r]
      BY <2>2 DEF MemoryInv, TypeOK
    <2>5. Inherits(mem', mem)
      BY <2>1, <2>2 DEF KeptWell, Inherits
    <2> QED
      BY <2>2, <2>3, <2>4, <2>5
  <1>2. ASSUME NEW h \in Threads, NEW l \in marked_objects[h], KeepChildren(h, l)
        PROVE  Inherits(mem', mem) /\ UNCHANGED <<pending, slot>>
    <2> DEFINE k == Kept(mem[l].attr, h)
               b == Barrier(l, k.to)
    <2>1. KeptWell(mem[l].attr, h, k) /\ l \in DOMAIN mem
      <3>1. phase \in {"minor", "major"}
        BY <1>2 DEF MemoryInv, TypeOK, KeepChildren
      <3>2. Collecting(mem, slot, remembered_set, marked_objects, todo)
        BY <3>1, CollectingNow
      <3>3. l \in DOMAIN mem /\ ~IsDone(mem, marked_objects, l)
        BY <3>2 DEF Collecting, CollTypes, IsDone
      <3>4. /\ mem[l].attr \in DOMAIN mem \cup {Nil}
            /\ mem[l].attr # Nil => mem[l].attr[3] # "to"
        BY <3>2, <3>3 DEF Collecting, CollTypes, CollRefs
      <3> QED
        BY <3>1, <3>2, <3>3, <3>4, KeptIsWell
    <2>2. /\ mem' = [k.mem EXCEPT ![l].attr = k.to, ![l].remembered = @ \/ b]
          /\ UNCHANGED <<pending, slot>>
      BY <1>2 DEF KeepChildren
    <2> HIDE DEF k, b
    <2>3. Name(k.to) = Name(mem[l].attr)
      BY <2>1 DEF KeptWell, Name
    <2>4. /\ DOMAIN mem' = DOMAIN k.mem /\ DOMAIN mem \subseteq DOMAIN k.mem
          /\ \A i \in DOMAIN k.mem : i # l => mem'[i] = k.mem[i]
          /\ \A i \in DOMAIN k.mem : \E j \in DOMAIN mem : j[1] = i[1] /\ k.mem[i].attr = mem[j].attr
      BY <2>1, <2>2 DEF KeptWell
    <2>5. mem'[l] = Stored(k.mem[l], k.to, b)
      BY <2>1, <2>2, <2>4 DEF Stored
    <2>6. mem'[l].attr = k.to
      <3>1. k.mem[l] \in Records
        BY <2>1, <2>4 DEF KeptWell, Collecting, CollTypes
      <3> QED
        BY <2>5, <3>1 DEF Stored, Records
    <2>7. ASSUME NEW i \in DOMAIN mem'
          PROVE  \E j \in DOMAIN mem : j[1] = i[1] /\ Name(mem'[i].attr) = Name(mem[j].attr)
      <3>1. CASE i = l
        BY <2>1, <2>3, <2>6, <3>1
      <3>2. CASE i # l
        BY <2>4, <3>2
      <3> QED
        BY <3>1, <3>2
    <2> QED
      BY <2>2, <2>7 DEF Inherits
  <1>3. ASSUME EndGC
        PROVE  /\ Inherits(mem', mem) /\ UNCHANGED pending
               /\ \A s \in Slots : Name(slot'[s]) = Name(slot[s])
    <2>1. /\ \A m \in Live : mem'[Swapped(m)] = AfterSwap(mem[m])
          /\ \A l \in DOMAIN mem' : \E m \in Live : l = Swapped(m)
      BY <1>3, SwapMoves
    <2>2. \A l \in Locs \cup {Nil} : Name(Swapped(l)) = Name(l)
      <3>1. Nil \notin Locs /\ Swapped(Nil) = Nil
        BY HeapAssumption DEF Locs, Swapped
      <3> QED
        BY <3>1, SwappedLoc DEF Name
    <2>3. \A m \in Live : m \in DOMAIN mem /\ m \in Locs /\ mem[m] \in Records /\ mem[m].attr \in Locs \cup {Nil}
      BY DEF Live, MemoryInv, TypeOK, Records
    <2>4. ASSUME NEW l \in DOMAIN mem'
          PROVE  \E i \in DOMAIN mem : i[1] = l[1] /\ Name(mem'[l].attr) = Name(mem[i].attr)
      <3>1. PICK m \in Live : l = Swapped(m)
        BY <2>1
      <3>2. mem'[l].attr = Swapped(mem[m].attr)
        BY <2>1, <2>3, <3>1, AfterSwapRecord
      <3>3. l[1] = m[1]
        BY <2>3, <3>1, SwappedLoc
      <3> QED
        BY <2>2, <2>3, <3>2, <3>3
    <2>5. slot' = [s \in Slots |-> Swapped(slot[s])] /\ UNCHANGED pending
      BY <1>3 DEF EndGC
    <2>6. \A s \in Slots : Name(slot'[s]) = Name(slot[s])
      BY <2>2, <2>5 DEF MemoryInv, TypeOK
    <2> QED
      BY <2>4, <2>5, <2>6 DEF Inherits
  <1>4. ASSUME NEW t \in Threads, NEW kind \in {"minor", "major"}, StartGC(t, kind)
        PROVE  Inherits(mem', mem) /\ UNCHANGED <<pending, slot>>
    <2>1. /\ mem' = [l \in DOMAIN mem |->
                       IF \E h \in Heaps : l \in remembered_set[h]
                       THEN [mem[l] EXCEPT !.remembered = FALSE] ELSE mem[l]]
          /\ UNCHANGED <<pending, slot>>
      BY <1>4 DEF StartGC
    <2>2. \A l \in DOMAIN mem : [mem[l] EXCEPT !.remembered = FALSE].attr = mem[l].attr
      BY DEF MemoryInv, TypeOK
    <2>3. DOMAIN mem' = DOMAIN mem /\ \A l \in DOMAIN mem : mem'[l].attr = mem[l].attr
      BY <2>1, <2>2
    <2> QED
      BY <2>1, <2>3 DEF Inherits
  <1> QED
    BY <1>1, <1>2, <1>3, <1>4

\* Between collections there are no copies.
LEMMA QuietConsistent ==
  ASSUME MemoryInv, phase = "none"
  PROVE  Consistent(mem) /\ AttributesInv
  <1>1. Consistent(mem)
    BY QuietNow DEF QuietMem, Consistent
  <1> QED
    BY <1>1, AttributesConsistent

\* No step of a thread touches the locals of a thread in the write barrier.
LEMMA StoresKept ==
  ASSUME MemoryInv, StoresInv, [Next]_vars
  PROVE  StoresInv'
  <1> SUFFICES ASSUME NEW w \in Threads, pending'[w] # Nil
               PROVE  \E s \in Locals(w) : slot'[s] = pending'[w].obj
    BY DEF StoresInv, Locals, VMSlot
  <1>1. pending[w] # Nil => \E s \in Locals(w) : slot[s] = pending[w].obj
    BY DEF StoresInv
  <1>2. pending[w] # Nil => phase = "none" /\ state[w] = "running"
    BY DEF MemoryInv, RememberedInv
  <1>3. ASSUME pending[w] # Nil, pending'[w] = pending[w],
               \A s \in Locals(w) : slot'[s] = slot[s]
        PROVE  \E s \in Locals(w) : slot'[s] = pending'[w].obj
    BY <1>1, <1>3
  <1>4. slot \in [Slots -> Locs \cup {Nil}] /\ DOMAIN pending = Threads
    BY DEF MemoryInv, TypeOK
  <1>5. \A t \in Threads : \A s \in Visible(t) : t # w => s \notin Locals(w)
    BY DEF Visible, Locals
  <1>6. \A s \in Locals(w) : s \in Slots /\ s[1] = w
    BY DEF Locals
  <1>7. ASSUME NEW t \in Threads, NEW s, NEW x, s \in Visible(t), pending[t] = Nil,
               UNCHANGED pending, slot' = [slot EXCEPT ![s] = x]
        PROVE  \E r \in Locals(w) : slot'[r] = pending'[w].obj
    <2>1. t # w
      BY <1>7
    <2>2. \A r \in Locals(w) : slot'[r] = slot[r]
      BY <1>4, <1>5, <1>6, <1>7, <2>1
    <2> QED
      BY <1>3, <1>7, <2>2
  <1>8. ASSUME NEW t \in Threads, Script(t) PROVE \E s \in Locals(w) : slot'[s] = pending'[w].obj
    <2>1. ASSUME NEW s \in Locals(t), NEW space \in {"from", "old"}, Alloc(t, s, space)
          PROVE  \E r \in Locals(w) : slot'[r] = pending'[w].obj
      <3>1. s \in Visible(t)
        BY DEF Visible
      <3> QED
        BY <1>7, <2>1, <3>1 DEF Alloc, Running
    <2>2. ASSUME NEW s \in Visible(t), NEW r \in Visible(t), Assign(t, s, r)
          PROVE  \E i \in Locals(w) : slot'[i] = pending'[w].obj
      BY <1>7, <2>2 DEF Assign, Running
    <2>3. ASSUME NEW s \in Locals(t), NEW r \in Visible(t), Load(t, s, r)
          PROVE  \E i \in Locals(w) : slot'[i] = pending'[w].obj
      <3>1. s \in Visible(t)
        BY DEF Visible
      <3> QED
        BY <1>7, <2>3, <3>1 DEF Load, Running
    <2>4. ASSUME NEW s \in Locals(t), NEW r \in Visible(t), UpdatePtr(t, s, r)
          PROVE  \E i \in Locals(w) : slot'[i] = pending'[w].obj
      <3>1. /\ slot' = slot
            /\ pending' = [pending EXCEPT ![t] = [obj |-> slot[s], val |-> slot[r],
                                                  remember |-> Barrier(slot[s], slot[r])]]
        BY <2>4 DEF UpdatePtr
      <3>2. CASE w = t
        BY <1>4, <3>1, <3>2
      <3>3. CASE w # t
        BY <1>3, <1>4, <3>1, <3>3
      <3> QED
        BY <3>2, <3>3
    <2>5. CASE StorePtr(t)
      <3>1. slot' = slot /\ pending' = [pending EXCEPT ![t] = Nil]
        BY <2>5 DEF StorePtr
      <3>2. w # t /\ pending'[w] = pending[w]
        BY <1>4, <3>1
      <3> QED
        BY <1>3, <3>1, <3>2
    <2>6. ASSUME NEW u \in Threads, StartThread(t, u)
          PROVE  \E i \in Locals(w) : slot'[i] = pending'[w].obj
      <3>1. UNCHANGED pending /\ state[u] = "new"
        BY <2>6 DEF StartThread
      <3>2. PICK s \in Locals(u) : \E r \in Visible(t) : slot' = [slot EXCEPT ![s] = slot[r]]
        BY <2>6 DEF StartThread
      <3>3. s \in Visible(u) /\ pending[u] = Nil
        BY <3>1 DEF Visible, MemoryInv, RememberedInv
      <3>4. PICK x : slot' = [slot EXCEPT ![s] = x]
        BY <3>2
      <3> QED
        BY <1>7, <3>1, <3>3, <3>4
    <2>7. CASE EndThread(t)
      <3>1. /\ UNCHANGED pending /\ pending[t] = Nil
            /\ slot' = [s \in Slots |-> IF s \in Locals(t) THEN Nil ELSE slot[s]]
        BY <2>7 DEF EndThread, Running
      <3>2. \A s \in Locals(w) : s \notin Locals(t)
        BY <3>1 DEF Locals
      <3> QED
        BY <1>3, <1>6, <3>1, <3>2
    <2>8. ASSUME NEW kind \in {"minor", "major"}, StartGC(t, kind)
          PROVE  \E i \in Locals(w) : slot'[i] = pending'[w].obj
      BY <1>3, <2>8 DEF StartGC
    <2> QED
      BY <1>8, <2>1, <2>2, <2>3, <2>4, <2>5, <2>6, <2>7, <2>8 DEF Script
  <1>9. CASE Collect
    <2>1. UNCHANGED pending /\ phase # "none"
      <3>1. ASSUME NEW s \in Slots, KeepSlot(s) PROVE UNCHANGED pending /\ phase # "none"
        BY <3>1 DEF KeepSlot, MemoryInv, BetweenInv
      <3>2. ASSUME NEW h \in Threads, NEW l \in marked_objects[h], KeepChildren(h, l)
            PROVE  UNCHANGED pending /\ phase # "none"
        BY <3>2 DEF KeepChildren
      <3>3. ASSUME EndGC PROVE UNCHANGED pending /\ phase # "none"
        BY <3>3 DEF EndGC
      <3> QED
        BY <1>9, <3>1, <3>2, <3>3 DEF Collect
    <2> QED
      BY <1>2, <2>1
  <1>10. CASE UNCHANGED vars
    BY <1>3, <1>10 DEF vars
  <1> QED
    BY <1>8, <1>9, <1>10 DEF Next

\* The heaps as they are until doubled.
Sound == MemoryInv /\ StoresInv /\ AttributesInv

LEMMA StepSound ==
  ASSUME Sound, [Next]_vars, ~doubled'
  PROVE  Sound'
  <1>1. MemoryInv'
    BY StepMemory DEF Sound
  <1>2. StoresInv'
    BY StoresKept DEF Sound
  <1>3. AttributesInv'
    <2>1. ASSUME phase' = "none" PROVE AttributesInv'
      <3>1. (MemoryInv /\ phase = "none" => AttributesInv)'
        BY QuietConsistent, PTL
      <3> QED
        BY <1>1, <2>1, <3>1
    <2>2. ASSUME Inherits(mem', mem) PROVE AttributesInv'
      <3>1. Consistent(mem)
        BY AttributesConsistent DEF Sound
      <3>2. Consistent(mem')
        BY <2>2, <3>1, InheritsConsistent
      <3>3. (MemoryInv => (AttributesInv <=> Consistent(mem)))'
        BY AttributesConsistent, PTL
      <3> QED
        BY <1>1, <3>2, <3>3 DEF Consistent
    <2>3. ASSUME NEW t \in Threads, Script(t),
                 ~\E kind \in {"minor", "major"} : StartGC(t, kind)
          PROVE  phase' = "none"
      <3>1. ASSUME StorePtr(t) PROVE phase' = "none"
        BY <3>1 DEF StorePtr, gcVars, Sound, MemoryInv, RememberedInv
      <3> QED
        BY <2>3, <3>1 DEF Script, Alloc, Assign, Load, UpdatePtr, StartThread, EndThread, Running, gcVars
    <2>4. ASSUME NEW t \in Threads, NEW kind \in {"minor", "major"}, StartGC(t, kind)
          PROVE  Inherits(mem', mem)
      BY <2>4, CollectionInherits DEF Sound
    <2>5. ASSUME Collect PROVE Inherits(mem', mem)
      BY <2>5, CollectionInherits DEF Sound, Collect
    <2>6. ASSUME UNCHANGED vars PROVE Inherits(mem', mem)
      BY <2>6 DEF vars, Inherits
    <2> QED
      BY <2>1, <2>2, <2>3, <2>4, <2>5, <2>6 DEF Next
  <1> QED
    BY <1>1, <1>2, <1>3 DEF Sound

\* Once doubled, for ever doubled.
LEMMA StaysDoubled ==
  ASSUME doubled, [Next]_vars
  PROVE  doubled'
  <1>1. ASSUME NEW t \in Threads, Script(t) PROVE doubled'
    BY <1>1 DEF Script, Alloc, Assign, Load, UpdatePtr, StorePtr, StartThread, EndThread,
                StartGC, gcVars
  <1>2. ASSUME Collect PROVE doubled'
    BY <1>2 DEF Collect, KeepSlot, KeepChildren, EndGC
  <1>3. ASSUME UNCHANGED vars PROVE doubled'
    BY <1>3 DEF vars
  <1> QED
    BY <1>1, <1>2, <1>3 DEF Next

LEMMA StepHeap ==
  HeapInv /\ [Next]_vars => HeapInv'
  BY StaysDoubled, StepSound DEF HeapInv, Sound

LEMMA InitSound ==
  Init => Sound
  <1> SUFFICES ASSUME Init PROVE Sound
    OBVIOUS
  <1>1. MemoryInv
    BY InitMemory
  <1>2. phase = "none" /\ StoresInv
    BY DEF Init, StoresInv
  <1> QED
    BY <1>1, <1>2, QuietConsistent DEF Sound

\* The heaps keep their invariant, whatever threads store where at once: at every step
\* of a collection copies and originals, marks, remembered sets and references are as
\* the collector expects them, until a minor collection (minor_gc) traces two
\* remembered sets with an object in common.
THEOREM HeapCorrect ==
  Spec => []HeapInv
  <1>1. Init => HeapInv
    BY InitSound DEF HeapInv, Sound
  <1>2. HeapInv /\ [Next]_vars => HeapInv'
    BY StepHeap
  <1> QED
    BY <1>1, <1>2, PTL DEF Spec

\* The write barrier and the collectors keep the remembered sets exact: an old
\* object that refers to a young one is in the set of a heap that exists, also while
\* several threads are inside YogGC_UPDATE_PTR of that object, until doubled.
THEOREM RememberedCorrect ==
  Spec => []RememberedExact
  <1>1. HeapInv => RememberedExact
    <2> SUFFICES ASSUME MemoryInv, phase = "none"
                 PROVE  /\ \A l \in DOMAIN mem : IsOld(l) /\ IsYoung(mem[l].attr) =>
                              \E h \in Heaps : l \in remembered_set[h]
                        /\ \A h \in Threads : \A l \in remembered_set[h] :
                              IsOld(l) /\ mem[l].remembered
      BY DEF HeapInv, RememberedExact
    <2>1. \A h \in Threads : \A l \in remembered_set[h] :
             h \in Heaps /\ l \in DOMAIN mem /\ IsOld(l) /\ mem[l].remembered
      BY DEF MemoryInv, RememberedInv
    <2> QED
      BY <2>1 DEF MemoryInv, RememberedInv, BetweenInv
  <1> QED
    BY <1>1, HeapCorrect, PTL

\* After a collection every object has one place and no forwarding address, although
\* it was reached through the variables of several heaps, until doubled.
THEOREM OneCopyCorrect ==
  Spec => []OneCopy
  <1>1. HeapInv => OneCopy
    <2> SUFFICES ASSUME MemoryInv, phase = "none"
                 PROVE  /\ \A l, m \in DOMAIN mem : l[1] = m[1] => l = m
                        /\ \A l \in DOMAIN mem : mem[l].forwarding_addr = Nil
      BY DEF OneCopy, HeapInv
    <2> QED
      BY QuietNow DEF QuietMem
  <1> QED
    BY <1>1, HeapCorrect, PTL

-----------------------------------------------------------------------------
(* What is reached from the variables: a fixed point, and the least one.   *)

Grown(R, a) == R \cup ({a[o] : o \in R} \ {Nil})
Closed(R, a) == \A o \in R : a[o] \in R \cup {Nil}

\* In as many steps as there are objects everything is reached.
LEMMA LevelsClosed ==
  ASSUME NEW n, n = Cardinality(Objs), NEW D \in SUBSET Objs, NEW a, Closed(D, a),
         NEW F, DOMAIN F = 0 .. n, F[0] \subseteq D,
         \A i \in 1 .. n : F[i] = Grown(F[i - 1], a)
  PROVE  F[0] \subseteq F[n] /\ F[n] \subseteq D /\ Closed(F[n], a)
  <1>0. n \in Nat /\ IsFiniteSet(Objs)
    BY FS_CardinalityType, HeapAssumption
  <1> DEFINE S == {i \in 0 .. n : /\ F[0] \subseteq F[i] /\ F[i] \subseteq D
                                 /\ (Closed(F[i], a) \/ Cardinality(F[i]) >= i)}
  <1>1. 0 \in S
    <2>1. Cardinality(F[0]) \in Nat
      BY <1>0, FS_Subset, FS_CardinalityType
    <2> QED
      BY <1>0, <2>1
  <1>2. ASSUME NEW i \in 1 .. n, i - 1 \in S PROVE i \in S
    <2> DEFINE R == F[i - 1]
               T == F[i]
    <2>1. /\ i \in 0 .. n /\ i - 1 \in 0 .. n /\ i \in Nat /\ T = Grown(R, a) /\ R \subseteq D
          /\ F[0] \subseteq R
          /\ (Closed(R, a) \/ Cardinality(R) >= i - 1)
      BY <1>0, <1>2
    <2> HIDE DEF R, T
    <2>2. R \subseteq T /\ T \subseteq D /\ F[0] \subseteq T
      BY <2>1 DEF Grown, Closed
    <2>3. CASE Closed(R, a)
      <3>1. T = R
        BY <2>1, <2>3 DEF Grown, Closed
      <3> QED
        BY <2>1, <2>2, <2>3, <3>1 DEF T
    <2>4. CASE ~Closed(R, a)
      <3>1. PICK x \in T : x \notin R
        BY <2>1, <2>4 DEF Grown, Closed
      <3>2. IsFiniteSet(T) /\ IsFiniteSet(R) /\ Cardinality(R) \in Nat /\ Cardinality(T) \in Nat
        BY <1>0, <2>1, <2>2, FS_Subset, FS_CardinalityType
      <3>3. Cardinality(R \cup {x}) = Cardinality(R) + 1
        BY <3>1, <3>2, FS_AddElement
      <3>4. Cardinality(R \cup {x}) <= Cardinality(T)
        <4>1. R \cup {x} \in SUBSET T
          BY <2>2
        <4> QED
          BY <3>2, <4>1, FS_Subset
      <3>5. Cardinality(T) >= i
        BY <2>1, <2>4, <3>2, <3>3, <3>4
      <3> QED
        BY <2>1, <2>2, <3>5 DEF T
    <2> QED
      BY <2>3, <2>4
  <1>3. n \in S
    <2> HIDE DEF S
    <2>1. 0 .. n \subseteq S
      BY <1>0, <1>1, <1>2, IntervalInduction
    <2> QED
      BY <1>0, <2>1
  <1>4. F[0] \subseteq F[n] /\ F[n] \subseteq D /\ (Closed(F[n], a) \/ Cardinality(F[n]) >= n)
    BY <1>3
  <1>5. ASSUME Cardinality(F[n]) >= n PROVE Closed(F[n], a)
    <2>1. F[n] \in SUBSET Objs
      BY <1>4
    <2>2. F[n] = Objs
      <3>1. Cardinality(F[n]) <= n /\ Cardinality(F[n]) \in Nat
        BY <1>0, <2>1, FS_Subset, FS_CardinalityType
      <3>2. Cardinality(F[n]) = Cardinality(Objs)
        BY <1>0, <1>5, <3>1
      <3> QED
        BY <1>0, <2>1, <3>2, FS_Subset
    <2>3. F[n] = D
      BY <1>4, <2>2
    <2> QED
      BY <2>3
  <1> QED
    BY <1>4, <1>5

\* The levels of a search that starts with z and grows by a, below D.
Levels(z, a) ==
    {F \in [0 .. Cardinality(Objs) -> SUBSET Objs] :
        F[0] = z /\ \A i \in 1 .. Cardinality(Objs) : F[i] = Grown(F[i - 1], a)}

LEMMA LevelsExist ==
  ASSUME NEW D \in SUBSET Objs, NEW a, Closed(D, a), NEW z \in SUBSET D
  PROVE  \E F : F \in Levels(z, a)
  <1> DEFINE n == Cardinality(Objs)
             T == SUBSET D
             step == [i \in 1 .. n |-> [R \in T |-> Grown(R, a)]]
  <1>0. n \in Nat
    BY FS_CardinalityType, HeapAssumption
  <1>1. step \in [1 .. n -> [T -> T]]
    BY DEF Grown, Closed
  <1>2. \A i \in 1 .. n : \A R \in T : step[i][R] = Grown(R, a)
    OBVIOUS
  <1> HIDE DEF n, T, step
  <1>3. PICK F \in Recursions(n, T, z, step) : TRUE
    BY <1>0, <1>1, RecursionExists DEF T
  <1>4. F \in [0 .. n -> T] /\ F[0] = z /\ \A i \in 1 .. n : F[i] = Grown(F[i - 1], a)
    <2>1. \A i \in 1 .. n : i - 1 \in 0 .. n
      BY <1>0
    <2> QED
      BY <1>2, <2>1 DEF Recursions
  <1>5. F \in [0 .. n -> SUBSET Objs]
    BY <1>4 DEF T
  <1> QED
    BY <1>4, <1>5 DEF Levels, n

LEMMA SameCardinality ==
  ASSUME NEW S
  PROVE  Graph!Cardinality(S) = Cardinality(S)
  BY Zenon DEF Graph!Cardinality, Cardinality

\* The objects in the variables v.
Roots(v) == {v[s] : s \in Slots \cup Registers} \ {Nil}

\* The last level is what ObjectGraph calls Reached.
LEMMA ReachedLevel ==
  ASSUME NEW v, NEW a, NEW F \in Levels(Roots(v), a)
  PROVE  Graph!Reached(v, a) = F[Cardinality(Objs)]
  <1> DEFINE n == Cardinality(Objs)
             H == CHOOSE f : f = [i \in 0 .. n |-> IF i = 0 THEN Roots(v) ELSE Grown(f[i - 1], a)]
  <1>0. n \in Nat
    BY FS_CardinalityType, HeapAssumption
  <1>1. /\ F = [i \in 0 .. n |-> F[i]] /\ F[0] = Roots(v)
        /\ \A i \in 1 .. n : F[i] = Grown(F[i - 1], a)
    BY DEF Levels
  <1>2. F = [i \in 0 .. n |-> IF i = 0 THEN Roots(v) ELSE Grown(F[i - 1], a)]
    <2>1. \A i \in 0 .. n : i = 0 \/ i \in 1 .. n
      BY <1>0
    <2>2. \A i \in 0 .. n : F[i] = IF i = 0 THEN Roots(v) ELSE Grown(F[i - 1], a)
      BY <1>1, <2>1
    <2> QED
      BY <1>1, <2>2
  <1>3. H = [i \in 0 .. n |-> IF i = 0 THEN Roots(v) ELSE Grown(H[i - 1], a)]
    BY <1>2, Zenon
  <1>4. Graph!Reached(v, a) = H[n]
    BY SameCardinality, Zenon DEF Graph!Reached, Roots, Grown
  <1> HIDE DEF H
  <1> DEFINE S == {i \in 0 .. n : H[i] = F[i]}
  <1>5. 0 \in S
    BY <1>0, <1>1, <1>3
  <1>6. ASSUME NEW i \in 1 .. n, i - 1 \in S PROVE i \in S
    <2>1. i \in 0 .. n /\ i # 0 /\ H[i - 1] = F[i - 1]
      BY <1>0, <1>6
    <2> QED
      BY <1>1, <1>3, <2>1
  <1>7. n \in S
    <2> HIDE DEF S, n
    <2>1. 0 .. n \subseteq S
      BY <1>0, <1>5, <1>6, IntervalInduction
    <2> QED
      BY <1>0, <2>1
  <1> QED
    BY <1>4, <1>7

\* Reached is the least set that holds the roots and is closed.
LEMMA ReachedIsLeast ==
  ASSUME NEW v, NEW D \in SUBSET Objs, NEW a, Closed(D, a), Roots(v) \subseteq D
  PROVE  LET R == Graph!Reached(v, a) IN
         /\ Roots(v) \subseteq R /\ R \subseteq D /\ Closed(R, a)
         /\ \A C : Roots(v) \subseteq C /\ (\A o \in C \cap D : a[o] \in C \cup {Nil}) => R \subseteq C
  <1> DEFINE n == Cardinality(Objs)
  <1>0. n \in Nat
    BY FS_CardinalityType, HeapAssumption
  <1>1. PICK F : F \in Levels(Roots(v), a)
    BY LevelsExist
  <1>2. Graph!Reached(v, a) = F[n]
    BY <1>1, ReachedLevel
  <1>3. DOMAIN F = 0 .. n /\ F[0] = Roots(v) /\ \A i \in 1 .. n : F[i] = Grown(F[i - 1], a)
    BY <1>1 DEF Levels
  <1>4. Roots(v) \subseteq F[n] /\ F[n] \subseteq D /\ Closed(F[n], a)
    BY <1>3, LevelsClosed, ZenonT(30)
  <1>5. ASSUME NEW C, Roots(v) \subseteq C, \A o \in C \cap D : a[o] \in C \cup {Nil}
        PROVE  F[n] \subseteq C
    <2> DEFINE S == {i \in 0 .. n : F[i] \subseteq C /\ F[i] \subseteq D}
    <2>1. 0 \in S
      BY <1>0, <1>3, <1>5
    <2>2. ASSUME NEW i \in 1 .. n, i - 1 \in S PROVE i \in S
      <3>1. i \in 0 .. n /\ F[i - 1] \subseteq C /\ F[i - 1] \subseteq D /\ F[i] = Grown(F[i - 1], a)
        BY <1>0, <1>3, <2>2
      <3>2. F[i] \subseteq C /\ F[i] \subseteq D
        BY <1>5, <3>1 DEF Grown, Closed
      <3> QED
        BY <3>1, <3>2
    <2>3. n \in S
      <3> HIDE DEF S, n
      <3>1. 0 .. n \subseteq S
        BY <1>0, <2>1, <2>2, IntervalInduction
      <3> QED
        BY <1>0, <3>1
    <2> QED
      BY <2>3
  <1> QED
    BY <1>2, <1>4, <1>5

\* What is reached depends on what is reached only.
LEMMA ReachedSame ==
  ASSUME NEW v, NEW D \in SUBSET Objs, NEW E \in SUBSET Objs, NEW a, NEW b,
         Closed(D, a), Closed(E, b), Roots(v) \subseteq D, D \subseteq E, \A o \in D : a[o] = b[o]
  PROVE  Graph!Reached(v, a) = Graph!Reached(v, b)
  <1> DEFINE R == Graph!Reached(v, a)
             T == Graph!Reached(v, b)
  <1>1. /\ Roots(v) \subseteq R /\ R \subseteq D /\ Closed(R, a)
        /\ \A C : Roots(v) \subseteq C /\ (\A o \in C \cap D : a[o] \in C \cup {Nil}) => R \subseteq C
    BY ReachedIsLeast
  <1>2. /\ Roots(v) \subseteq T /\ T \subseteq E /\ Closed(T, b)
        /\ \A C : Roots(v) \subseteq C /\ (\A o \in C \cap E : b[o] \in C \cup {Nil}) => T \subseteq C
    <2>1. Roots(v) \subseteq E
      OBVIOUS
    <2> QED
      BY <2>1, ReachedIsLeast
  <1> HIDE DEF R, T
  <1>3. T \subseteq R
    <2>1. \A o \in R \cap E : b[o] \in R \cup {Nil}
      BY <1>1 DEF Closed
    <2> QED
      BY <1>1, <1>2, <2>1
  <1>4. R \subseteq T
    <2>1. \A o \in T \cap D : a[o] \in T \cup {Nil}
      BY <1>2 DEF Closed
    <2> QED
      BY <1>1, <1>2, <2>1
  <1> QED
    BY <1>3, <1>4 DEF R, T

\* The attributes of the objects in memory m.
Attr(m) == [o \in Objects(m) |-> Name(m[CHOOSE l \in DOMAIN m : l[1] = o].attr)]

LEMMA AttrFacts ==
  ASSUME NEW m, Consistent(m), DOMAIN m \subseteq Locs,
         \A l \in DOMAIN m : m[l].attr \in DOMAIN m \cup {Nil}
  PROVE  /\ DOMAIN Attr(m) = Objects(m) /\ Objects(m) \in SUBSET Objs
         /\ \A l \in DOMAIN m : l[1] \in Objects(m) /\ Attr(m)[l[1]] = Name(m[l].attr)
         /\ Closed(Objects(m), Attr(m))
  <1>1. Objects(m) \in SUBSET Objs
    BY LocParts DEF Objects
  <1>2. \A l \in DOMAIN m : l[1] \in Objects(m) /\ Attr(m)[l[1]] = Name(m[l].attr)
    <2> SUFFICES ASSUME NEW l \in DOMAIN m
                 PROVE  l[1] \in Objects(m) /\ Attr(m)[l[1]] = Name(m[l].attr)
      OBVIOUS
    <2> DEFINE i == CHOOSE k \in DOMAIN m : k[1] = l[1]
    <2>1. i \in DOMAIN m /\ i[1] = l[1]
      OBVIOUS
    <2>2. l[1] \in Objects(m)
      BY DEF Objects
    <2>3. Attr(m)[l[1]] = Name(m[i].attr)
      BY <2>2 DEF Attr
    <2> HIDE DEF i
    <2> QED
      BY <2>1, <2>2, <2>3 DEF Consistent
  <1>3. \A l \in DOMAIN m : Name(m[l].attr) \in Objects(m) \cup {Nil}
    BY DEF Name, Objects
  <1>4. Closed(Objects(m), Attr(m))
    BY <1>2, <1>3 DEF Closed, Objects
  <1> QED
    BY <1>1, <1>2, <1>4 DEF Attr

LEMMA VariableNames ==
  ASSUME MemoryInv
  PROVE  /\ DOMAIN ObjectsIn = Slots \cup Registers
         /\ \A s \in Slots : ObjectsIn[s] = Name(slot[s]) /\ slot[s] \in DOMAIN mem \cup {Nil}
         /\ \A t \in Threads : /\ <<t, 3>> \in Registers /\ <<t, 3>> \notin Slots
                               /\ Register(t) \in DOMAIN mem \cup {Nil}
                               /\ ObjectsIn[<<t, 3>>] = Name(Register(t))
         /\ \A s \in Registers : \E t \in Threads : s = <<t, 3>>
         /\ Roots(ObjectsIn) \subseteq Objects(mem)
  <1>1. \A s \in Slots : slot[s] \in DOMAIN mem \cup {Nil}
    BY DEF MemoryInv, ReferencesInv
  <1>2. \A t \in Threads : Register(t) \in DOMAIN mem \cup {Nil}
    BY DEF MemoryInv, ReferencesInv, Register
  <1>3. \A s \in Registers : \E t \in Threads : s = <<t, 3>>
    BY DEF Registers
  <1>4. \A t \in Threads : <<t, 3>> \in Registers /\ <<t, 3>> \notin Slots
    BY HeapAssumption DEF Registers
  <1>5. \A s \in Slots : ObjectsIn[s] = Name(slot[s])
    BY <1>1, NameAt DEF ObjectsIn
  <1>6. \A t \in Threads : ObjectsIn[<<t, 3>>] = Name(Register(t))
    <2>1. \A t \in Threads : ObjectsIn[<<t, 3>>] = ObjectAt(Register(t))
      BY <1>4 DEF ObjectsIn
    <2> QED
      BY <1>2, <2>1, NameAt
  <1>7. \A s \in Slots \cup Registers : ObjectsIn[s] \in Objects(mem) \cup {Nil}
    BY <1>1, <1>2, <1>3, <1>5, <1>6 DEF Name, Objects
  <1> QED
    BY <1>1, <1>2, <1>3, <1>4, <1>5, <1>6, <1>7 DEF ObjectsIn, Roots

RootLocs == ({slot[s] : s \in Slots} \cup {Register(t) : t \in Threads}) \cap DOMAIN mem
GrownLocs(R) == R \cup ({mem[l].attr : l \in R} \cap DOMAIN mem)
NamesOf(R) == {l[1] : l \in R}

\* The levels of ReachedLocs.
LEMMA LocLevels ==
  \E G \in [0 .. Cardinality(Objs) -> SUBSET DOMAIN mem] :
     /\ G[0] = RootLocs /\ \A i \in 1 .. Cardinality(Objs) : G[i] = GrownLocs(G[i - 1])
     /\ ReachedLocs = G[Cardinality(Objs)]
  <1> DEFINE n == Cardinality(Objs)
             T == SUBSET DOMAIN mem
             step == [i \in 1 .. n |-> [R \in T |-> GrownLocs(R)]]
             H == CHOOSE f : f = [i \in 0 .. n |-> IF i = 0 THEN RootLocs ELSE GrownLocs(f[i - 1])]
  <1>0. n \in Nat
    BY FS_CardinalityType, HeapAssumption
  <1>1. RootLocs \in T /\ step \in [1 .. n -> [T -> T]]
    BY DEF RootLocs, GrownLocs
  <1>2. \A i \in 1 .. n : \A R \in T : step[i][R] = GrownLocs(R)
    OBVIOUS
  <1>3. ReachedLocs = H[n]
    BY Zenon DEF ReachedLocs, RootLocs, GrownLocs
  <1> HIDE DEF n, T, step, H
  <1>4. PICK F \in Recursions(n, T, RootLocs, step) : TRUE
    BY <1>0, <1>1, RecursionExists
  <1>5. F \in [0 .. n -> T] /\ F[0] = RootLocs /\ \A i \in 1 .. n : F[i] = GrownLocs(F[i - 1])
    <2>1. \A i \in 1 .. n : i - 1 \in 0 .. n
      BY <1>0
    <2> QED
      BY <1>2, <2>1 DEF Recursions
  <1>6. F = [i \in 0 .. n |-> IF i = 0 THEN RootLocs ELSE GrownLocs(F[i - 1])]
    <2>1. \A i \in 0 .. n : i = 0 \/ i \in 1 .. n
      BY <1>0
    <2>2. \A i \in 0 .. n : F[i] = IF i = 0 THEN RootLocs ELSE GrownLocs(F[i - 1])
      BY <1>5, <2>1
    <2> QED
      BY <1>5, <2>2
  <1>7. H = [i \in 0 .. n |-> IF i = 0 THEN RootLocs ELSE GrownLocs(H[i - 1])]
    BY <1>6, Zenon DEF H
  <1> DEFINE S == {i \in 0 .. n : H[i] = F[i]}
  <1>8. 0 \in S
    BY <1>0, <1>5, <1>7
  <1>9. ASSUME NEW i \in 1 .. n, i - 1 \in S PROVE i \in S
    <2>1. i \in 0 .. n /\ i # 0 /\ H[i - 1] = F[i - 1]
      BY <1>0, <1>9
    <2> QED
      BY <1>5, <1>7, <2>1
  <1>10. n \in S
    <2> HIDE DEF S
    <2>1. 0 .. n \subseteq S
      BY <1>0, <1>8, <1>9, IntervalInduction
    <2> QED
      BY <1>0, <2>1
  <1> QED
    BY <1>3, <1>5, <1>10 DEF n, T

\* The locations that are reached are those of the objects that are reached.
LEMMA ReachedNames ==
  ASSUME MemoryInv, Consistent(mem)
  PROVE  /\ NamesOf(ReachedLocs) = Graph!Reached(ObjectsIn, Attr(mem))
         /\ ReachedLocs \subseteq DOMAIN mem
  <1> DEFINE n == Cardinality(Objs)
             a == Attr(mem)
             z == Roots(ObjectsIn)
  <1>0. n \in Nat /\ Nil \notin DOMAIN mem
    BY FS_CardinalityType, HeapAssumption DEF MemoryInv, TypeOK, Locs
  <1>1. /\ Objects(mem) \in SUBSET Objs
        /\ \A l \in DOMAIN mem : l[1] \in Objects(mem) /\ a[l[1]] = Name(mem[l].attr)
        /\ Closed(Objects(mem), a)
        /\ \A l \in DOMAIN mem : mem[l].attr \in DOMAIN mem \cup {Nil} /\ l[1] # Nil
    <2>1. DOMAIN mem \subseteq Locs /\ \A l \in DOMAIN mem : mem[l].attr \in DOMAIN mem \cup {Nil}
      BY DEF MemoryInv, TypeOK, ReferencesInv
    <2>2. \A l \in DOMAIN mem : l[1] # Nil
      BY <2>1, LocParts, HeapAssumption
    <2> QED
      BY <2>1, <2>2, AttrFacts
  <1>2. z \in SUBSET Objects(mem)
    BY VariableNames
  <1>3. PICK F : F \in Levels(z, a)
    BY <1>1, <1>2, LevelsExist
  <1>4. F[0] = z /\ \A i \in 1 .. n : F[i] = Grown(F[i - 1], a)
    BY <1>3 DEF Levels
  <1>5. Graph!Reached(ObjectsIn, a) = F[n]
    BY <1>3, ReachedLevel
  <1>6. PICK G \in [0 .. n -> SUBSET DOMAIN mem] :
           /\ G[0] = RootLocs /\ \A i \in 1 .. n : G[i] = GrownLocs(G[i - 1])
           /\ ReachedLocs = G[n]
    BY LocLevels
  <1> DEFINE S == {i \in 0 .. n : NamesOf(G[i]) = F[i]}
  <1>7. 0 \in S
    <2>1. NamesOf(RootLocs) = z
      <3>1. \A s \in Slots : slot[s] \in DOMAIN mem \cup {Nil} /\ ObjectsIn[s] = Name(slot[s])
        BY VariableNames
      <3>2. \A t \in Threads : /\ Register(t) \in DOMAIN mem \cup {Nil}
                               /\ ObjectsIn[<<t, 3>>] = Name(Register(t)) /\ <<t, 3>> \in Registers
        BY VariableNames
      <3>3. \A s \in Registers : \E t \in Threads : s = <<t, 3>>
        BY VariableNames
      <3>4. NamesOf(RootLocs) \subseteq z
        <4> SUFFICES ASSUME NEW l \in RootLocs PROVE l[1] \in z
          BY DEF NamesOf
        <4>1. l \in DOMAIN mem /\ l # Nil /\ Name(l) = l[1] /\ l[1] # Nil
          BY <1>0, <1>1 DEF RootLocs, Name
        <4>2. \E s \in Slots \cup Registers : ObjectsIn[s] = l[1]
          <5>1. ASSUME NEW s \in Slots, l = slot[s]
                PROVE  \E r \in Slots \cup Registers : ObjectsIn[r] = l[1]
            BY <3>1, <4>1, <5>1
          <5>2. ASSUME NEW t \in Threads, l = Register(t)
                PROVE  \E r \in Slots \cup Registers : ObjectsIn[r] = l[1]
            BY <3>2, <4>1, <5>2
          <5> QED
            BY <5>1, <5>2 DEF RootLocs
        <4> QED
          BY <4>1, <4>2 DEF Roots
      <3>5. z \subseteq NamesOf(RootLocs)
        BY <1>0, <1>1, <3>1, <3>2, <3>3 DEF NamesOf, RootLocs, Roots, Name
      <3> QED
        BY <3>4, <3>5
    <2> QED
      BY <1>0, <1>4, <1>6, <2>1
  <1>8. ASSUME NEW i \in 1 .. n, i - 1 \in S PROVE i \in S
    <2>1. /\ i \in 0 .. n /\ i - 1 \in 0 .. n /\ NamesOf(G[i - 1]) = F[i - 1]
          /\ G[i] = GrownLocs(G[i - 1]) /\ F[i] = Grown(F[i - 1], a)
      BY <1>0, <1>4, <1>6, <1>8
    <2> DEFINE R == G[i - 1]
    <2>2. R \subseteq DOMAIN mem
      BY <1>6, <2>1
    <2> HIDE DEF R
    <2>3. NamesOf({mem[l].attr : l \in R} \cap DOMAIN mem) = {a[o] : o \in NamesOf(R)} \ {Nil}
      <3>1. \A l \in R : a[l[1]] = Name(mem[l].attr) /\ mem[l].attr \in DOMAIN mem \cup {Nil}
        BY <1>1, <2>2
      <3>2. \A l \in DOMAIN mem : Name(l) = l[1] /\ l[1] # Nil
        BY <1>0, <1>1 DEF Name
      <3>3. Name(Nil) = Nil
        BY DEF Name
      <3> QED
        BY <1>0, <3>1, <3>2, <3>3 DEF NamesOf
    <2>4. NamesOf(GrownLocs(R)) = Grown(NamesOf(R), a)
      BY <2>3 DEF NamesOf, GrownLocs, Grown
    <2> QED
      BY <2>1, <2>4 DEF R
  <1>9. n \in S
    <2> HIDE DEF S, n
    <2>1. 0 .. n \subseteq S
      BY <1>0, <1>7, <1>8, IntervalInduction
    <2> QED
      BY <1>0, <2>1
  <1> QED
    BY <1>0, <1>5, <1>6, <1>9

\* The state of the graph: the objects that are reached with their attributes.
GraphState(m, v, at) ==
    LET R == Graph!Reached(v, Attr(m)) IN
    /\ R \subseteq Objects(m) /\ Roots(v) \subseteq R /\ Closed(R, Attr(m))
    /\ at = [o \in R |-> Attr(m)[o]]
    /\ Objects(m) \in SUBSET Objs /\ Closed(Objects(m), Attr(m))

LEMMA GraphNow ==
  ASSUME MemoryInv, Consistent(mem)
  PROVE  GraphState(mem, ObjectsIn, Attributes)
  <1> DEFINE a == Attr(mem)
             R == Graph!Reached(ObjectsIn, a)
  <1>1. DOMAIN mem \subseteq Locs /\ \A l \in DOMAIN mem : mem[l].attr \in DOMAIN mem \cup {Nil}
    BY DEF MemoryInv, TypeOK, ReferencesInv
  <1>2. /\ Objects(mem) \in SUBSET Objs /\ Closed(Objects(mem), a)
        /\ \A l \in DOMAIN mem : a[l[1]] = Name(mem[l].attr)
    BY <1>1, AttrFacts
  <1>3. R \subseteq Objects(mem) /\ Roots(ObjectsIn) \subseteq R /\ Closed(R, a)
    BY <1>2, VariableNames, ReachedIsLeast
  <1>4. NamesOf(ReachedLocs) = R /\ ReachedLocs \subseteq DOMAIN mem
    BY ReachedNames
  <1> HIDE DEF R, a
  <1>5. ASSUME NEW o \in R
        PROVE  ObjectAt(mem[CHOOSE l \in ReachedLocs : l[1] = o].attr) = a[o]
    <2> DEFINE l == CHOOSE l \in ReachedLocs : l[1] = o
    <2>1. l \in ReachedLocs /\ l[1] = o
      BY <1>4 DEF NamesOf
    <2> HIDE DEF l
    <2>2. ObjectAt(mem[l].attr) = Name(mem[l].attr)
      BY <1>1, <1>4, <2>1, NameAt
    <2>3. ObjectAt(mem[l].attr) = a[o]
      BY <1>2, <1>4, <2>1, <2>2
    <2> QED
      BY <2>3 DEF l
  <1>6. Attributes = [o \in R |-> a[o]]
    BY <1>4, <1>5 DEF Attributes, NamesOf
  <1> QED
    BY <1>2, <1>3, <1>6 DEF GraphState, a, R

\* A step of the graph, when a is what the memory will be, where it is reached.
LEMMA BecomesStep ==
  ASSUME MemoryInv', Consistent(mem'), NEW D, D \subseteq Objects(mem'), NEW a,
         \A o \in D : a[o] = Attr(mem')[o], Closed(D, a), Roots(ObjectsIn') \subseteq D
  PROVE  Graph!Becomes(ObjectsIn', a)
  <1>1. (MemoryInv /\ Consistent(mem) => GraphState(mem, ObjectsIn, Attributes))'
    BY GraphNow, PTL
  <1>2. GraphState(mem', ObjectsIn', Attributes')
    BY <1>1 DEF Consistent, GraphState, Attr, Objects
  <1> DEFINE v == ObjectsIn'
             R == Graph!Reached(v, a)
  <1>3. Graph!Reached(v, a) = Graph!Reached(v, Attr(mem'))
    BY <1>2, ReachedSame DEF GraphState
  <1>4. R \subseteq D
    <2>1. D \in SUBSET Objs
      BY <1>2 DEF GraphState
    <2> QED
      BY <2>1, ReachedIsLeast
  <1>5. Attributes' = [o \in R |-> a[o]]
    BY <1>2, <1>3, <1>4 DEF GraphState
  <1> HIDE DEF v, R
  <1> QED
    BY <1>5, Zenon DEF Graph!Becomes, v, R

\* The variables of the graph after a step.
LEMMA VariablesAre ==
  MemoryInv => /\ DOMAIN ObjectsIn = Slots \cup Registers
               /\ \A s \in Slots : ObjectsIn[s] = Name(slot[s])
               /\ \A t \in Threads : ObjectsIn[<<t, 3>>] = Name(Register(t))
  BY VariableNames

LEMMA VariablesNext ==
  ASSUME MemoryInv'
  PROVE  /\ DOMAIN ObjectsIn' = Slots \cup Registers
         /\ \A s \in Slots : ObjectsIn'[s] = Name(slot'[s])
         /\ \A t \in Threads : ObjectsIn'[<<t, 3>>] = Name(Register(t)')
  <1>1. (MemoryInv => /\ DOMAIN ObjectsIn = Slots \cup Registers
                      /\ \A s \in Slots : ObjectsIn[s] = Name(slot[s])
                      /\ \A t \in Threads : ObjectsIn[<<t, 3>>] = Name(Register(t)))'
    BY VariablesAre, PTL
  <1> QED
    BY <1>1 DEF Name

\* A variable of the graph is set when a variable of the program is, and only then.
LEMMA ObjectsInSet ==
  ASSUME MemoryInv, MemoryInv', NEW s \in Slots, NEW x, slot' = [slot EXCEPT ![s] = x],
         UNCHANGED pending
  PROVE  ObjectsIn' = [ObjectsIn EXCEPT ![s] = Name(x)]
  <1>1. /\ DOMAIN ObjectsIn = Slots \cup Registers /\ \A r \in Slots : ObjectsIn[r] = Name(slot[r])
        /\ \A t \in Threads : ObjectsIn[<<t, 3>>] = Name(Register(t)) /\ <<t, 3>> \notin Slots
        /\ \A r \in Registers : \E t \in Threads : r = <<t, 3>>
    BY VariableNames
  <1>2. /\ DOMAIN ObjectsIn' = Slots \cup Registers /\ \A r \in Slots : ObjectsIn'[r] = Name(slot'[r])
        /\ \A t \in Threads : ObjectsIn'[<<t, 3>>] = Name(Register(t)')
    BY VariablesNext
  <1>3. \A t \in Threads : Register(t)' = Register(t)
    BY DEF Register
  <1>4. \A r \in Slots : slot'[r] = IF r = s THEN x ELSE slot[r]
    BY DEF MemoryInv, TypeOK
  <1>5. /\ ObjectsIn = [r \in Slots \cup Registers |-> ObjectsIn[r]]
        /\ ObjectsIn' = [r \in Slots \cup Registers |-> ObjectsIn'[r]]
    BY <1>1, <1>2 DEF ObjectsIn
  <1>6. \A r \in Slots \cup Registers : ObjectsIn'[r] = IF r = s THEN Name(x) ELSE ObjectsIn[r]
    BY <1>1, <1>2, <1>3, <1>4
  <1> QED
    BY <1>5, <1>6

LEMMA ObjectsInSame ==
  ASSUME MemoryInv, MemoryInv', \A s \in Slots : Name(slot'[s]) = Name(slot[s]),
         \A t \in Threads : Name(Register(t)') = Name(Register(t))
  PROVE  ObjectsIn' = ObjectsIn
  <1>1. /\ DOMAIN ObjectsIn = Slots \cup Registers /\ \A r \in Slots : ObjectsIn[r] = Name(slot[r])
        /\ \A t \in Threads : ObjectsIn[<<t, 3>>] = Name(Register(t))
        /\ \A r \in Registers : \E t \in Threads : r = <<t, 3>>
    BY VariableNames
  <1>2. /\ DOMAIN ObjectsIn' = Slots \cup Registers /\ \A r \in Slots : ObjectsIn'[r] = Name(slot'[r])
        /\ \A t \in Threads : ObjectsIn'[<<t, 3>>] = Name(Register(t)')
    BY VariablesNext
  <1>3. /\ ObjectsIn = [r \in Slots \cup Registers |-> ObjectsIn[r]]
        /\ ObjectsIn' = [r \in Slots \cup Registers |-> ObjectsIn'[r]]
    BY <1>1, <1>2 DEF ObjectsIn
  <1>4. \A r \in Slots \cup Registers : ObjectsIn'[r] = ObjectsIn[r]
    BY <1>1, <1>2
  <1> QED
    BY <1>3, <1>4

\* A memory with objects of another one has the same graph.
LEMMA AttributesSame ==
  ASSUME MemoryInv, Consistent(mem), MemoryInv', Consistent(mem'), Inherits(mem', mem),
         ObjectsIn' = ObjectsIn
  PROVE  Attributes' = Attributes
  <1> DEFINE a == Attr(mem)
             b == Attr(mem')
             v == ObjectsIn
  <1>1. GraphState(mem, v, Attributes)
    BY GraphNow
  <1>2. (MemoryInv /\ Consistent(mem) => GraphState(mem, ObjectsIn, Attributes))'
    BY GraphNow, PTL
  <1>3. GraphState(mem', v, Attributes')
    BY <1>2 DEF Consistent, GraphState, Attr, Objects
  <1>4. \A o \in Objects(mem') : o \in Objects(mem) /\ b[o] = a[o]
    <2> SUFFICES ASSUME NEW l \in DOMAIN mem'
                 PROVE  l[1] \in Objects(mem) /\ b[l[1]] = a[l[1]]
      BY DEF Objects
    <2>1. PICK i \in DOMAIN mem : i[1] = l[1] /\ Name(mem'[l].attr) = Name(mem[i].attr)
      BY DEF Inherits
    <2>2. a[i[1]] = Name(mem[i].attr) /\ i[1] \in Objects(mem)
      <3>1. DOMAIN mem \subseteq Locs /\ \A k \in DOMAIN mem : mem[k].attr \in DOMAIN mem \cup {Nil}
        BY DEF MemoryInv, TypeOK, ReferencesInv
      <3> QED
        BY <3>1, AttrFacts
    <2>3. b[l[1]] = Name(mem'[l].attr)
      <3>1. /\ DOMAIN mem' \subseteq Locs
            /\ \A k \in DOMAIN mem' : mem'[k].attr \in DOMAIN mem' \cup {Nil}
        BY DEF MemoryInv, TypeOK, ReferencesInv
      <3> QED
        BY <3>1, AttrFacts
    <2> QED
      BY <2>1, <2>2, <2>3
  <1> HIDE DEF a, b, v
  <1>5. Graph!Reached(v, b) = Graph!Reached(v, a)
    <2>1. /\ Objects(mem') \in SUBSET Objs /\ Objects(mem) \in SUBSET Objs
          /\ Closed(Objects(mem'), b) /\ Closed(Objects(mem), a)
          /\ Roots(v) \subseteq Objects(mem')
      BY <1>1, <1>3 DEF GraphState, a, b
    <2> QED
      BY <1>4, <2>1, ReachedSame
  <1>6. /\ Attributes = [o \in Graph!Reached(v, a) |-> a[o]]
        /\ Attributes' = [o \in Graph!Reached(v, b) |-> b[o]]
        /\ Graph!Reached(v, b) \subseteq Objects(mem')
    BY <1>1, <1>3 DEF GraphState, a, b
  <1> QED
    BY <1>4, <1>5, <1>6

\* A step of a collection is none of the graph.
LEMMA CollectStutters ==
  ASSUME Sound, Sound',
         \/ \E s \in Slots : KeepSlot(s)
         \/ \E h \in Threads : \E l \in marked_objects[h] : KeepChildren(h, l)
         \/ EndGC
         \/ \E t \in Threads, kind \in {"minor", "major"} : StartGC(t, kind)
  PROVE  ObjectsIn' = ObjectsIn /\ Attributes' = Attributes
  <1>1. MemoryInv /\ MemoryInv' /\ Consistent(mem)
    BY AttributesConsistent DEF Sound
  <1>2. /\ Inherits(mem', mem) /\ UNCHANGED pending
        /\ \A s \in Slots : Name(slot'[s]) = Name(slot[s])
    BY <1>1, CollectionInherits
  <1>3. \A t \in Threads : Register(t)' = Register(t)
    BY <1>2 DEF Register
  <1>4. ObjectsIn' = ObjectsIn
    BY <1>1, <1>2, <1>3, ObjectsInSame
  <1>5. Consistent(mem')
    BY <1>1, <1>2, InheritsConsistent
  <1> QED
    BY <1>1, <1>2, <1>4, <1>5, AttributesSame

-----------------------------------------------------------------------------
(* The steps of the scripts are steps of the graph.                        *)

LEMMA GraphFacts ==
  ASSUME Sound
  PROVE  LET R == DOMAIN Attributes IN
         /\ Attributes = [o \in R |-> Attributes[o]] /\ R \subseteq Objects(mem)
         /\ \A o \in R : Attributes[o] = Attr(mem)[o]
         /\ Closed(R, Attributes)
         /\ \A s \in Slots \cup Registers : ObjectsIn[s] \in R \cup {Nil}
         /\ ObjectsIn = [s \in Slots \cup Registers |-> ObjectsIn[s]]
         /\ \A s \in Slots : ObjectsIn[s] = Name(slot[s])
         /\ \A t \in Threads : /\ ObjectsIn[<<t, 3>>] = Name(Register(t))
                               /\ <<t, 3>> \in Registers /\ <<t, 3>> \notin Slots
         /\ \A s \in Registers : \E t \in Threads : s = <<t, 3>>
  <1>1. MemoryInv /\ Consistent(mem)
    BY AttributesConsistent DEF Sound
  <1>2. GraphState(mem, ObjectsIn, Attributes)
    BY <1>1, GraphNow
  <1> DEFINE a == Attr(mem)
             R == Graph!Reached(ObjectsIn, a)
  <1>3. /\ R \subseteq Objects(mem) /\ Roots(ObjectsIn) \subseteq R /\ Closed(R, a)
        /\ Attributes = [o \in R |-> a[o]]
    BY <1>2 DEF GraphState
  <1> HIDE DEF R, a
  <1>4. /\ DOMAIN Attributes = R /\ Attributes = [o \in R |-> Attributes[o]]
        /\ \A o \in R : Attributes[o] = a[o]
    BY <1>3
  <1>5. Closed(R, Attributes)
    BY <1>3, <1>4 DEF Closed
  <1>6. \A s \in Slots \cup Registers : ObjectsIn[s] \in R \cup {Nil}
    BY <1>3 DEF Roots
  <1>7. ObjectsIn = [s \in Slots \cup Registers |-> ObjectsIn[s]]
    BY DEF ObjectsIn
  <1> QED
    BY <1>1, <1>3, <1>4, <1>5, <1>6, <1>7, VariableNames DEF a

LEMMA ConsistentNext ==
  ASSUME Sound'
  PROVE  Consistent(mem')
  <1>1. (MemoryInv => (AttributesInv <=> Consistent(mem)))'
    BY AttributesConsistent, PTL
  <1> QED
    BY <1>1 DEF Sound, Consistent

\* A step that changes variables only.
LEMMA VariablesBecome ==
  ASSUME Sound, Sound', UNCHANGED mem, NEW v, ObjectsIn' = v,
         \A s \in Slots \cup Registers : v[s] \in DOMAIN Attributes \cup {Nil}
  PROVE  Graph!Becomes(v, Attributes)
  <1> DEFINE R == DOMAIN Attributes
  <1>1. /\ R \subseteq Objects(mem) /\ \A o \in R : Attributes[o] = Attr(mem)[o]
        /\ Closed(R, Attributes)
    BY GraphFacts
  <1>2. Roots(v) \subseteq R
    BY DEF Roots
  <1>3. MemoryInv' /\ Consistent(mem') /\ Attr(mem') = Attr(mem) /\ Objects(mem') = Objects(mem)
    BY ConsistentNext DEF Sound
  <1> HIDE DEF R
  <1>4. Graph!Becomes(ObjectsIn', Attributes)
    BY <1>1, <1>2, <1>3, BecomesStep
  <1> QED
    BY <1>4

LEMMA AssignMoves ==
  ASSUME Sound, Sound', NEW s \in Slots, NEW r \in Slots, slot' = [slot EXCEPT ![s] = slot[r]],
         UNCHANGED <<mem, pending>>
  PROVE  Graph!Move(s, r)
  <1>1. ObjectsIn' = [ObjectsIn EXCEPT ![s] = Name(slot[r])]
    BY ObjectsInSet DEF Sound
  <1>2. ObjectsIn' = [ObjectsIn EXCEPT ![s] = ObjectsIn[r]]
    BY <1>1, GraphFacts
  <1>3. \A i \in Slots \cup Registers : ObjectsIn'[i] \in DOMAIN Attributes \cup {Nil}
    BY <1>2, GraphFacts
  <1>4. Graph!Becomes(ObjectsIn', Attributes)
    BY <1>3, VariablesBecome
  <1> QED
    BY <1>2, <1>4, Zenon DEF Graph!Move

LEMMA LoadLoads ==
  ASSUME Sound, Sound', NEW s \in Slots, NEW r \in Slots, slot[r] # Nil,
         slot' = [slot EXCEPT ![s] = mem[slot[r]].attr], UNCHANGED <<mem, pending>>
  PROVE  Graph!Load(s, r)
  <1>1. ObjectsIn' = [ObjectsIn EXCEPT ![s] = Name(mem[slot[r]].attr)]
    BY ObjectsInSet DEF Sound
  <1>2. /\ slot[r] \in DOMAIN mem /\ DOMAIN mem \subseteq Locs
        /\ \A l \in DOMAIN mem : mem[l].attr \in DOMAIN mem \cup {Nil}
        /\ Consistent(mem)
    BY AttributesConsistent DEF Sound, MemoryInv, ReferencesInv, TypeOK
  <1>3. ObjectsIn[r] = slot[r][1] /\ ObjectsIn[r] # Nil
    <2>1. slot[r][1] \in Objs
      BY <1>2, LocParts
    <2> QED
      BY <2>1, GraphFacts, HeapAssumption DEF Name
  <1>4. ObjectsIn[r] \in DOMAIN Attributes
    BY <1>3, GraphFacts
  <1>5. Attributes[ObjectsIn[r]] = Name(mem[slot[r]].attr)
    <2>1. Attr(mem)[slot[r][1]] = Name(mem[slot[r]].attr)
      BY <1>2, AttrFacts
    <2> QED
      BY <1>3, <1>4, <2>1, GraphFacts
  <1>6. ObjectsIn' = [ObjectsIn EXCEPT ![s] = Attributes[ObjectsIn[r]]]
    BY <1>1, <1>5
  <1>7. Attributes[ObjectsIn[r]] \in DOMAIN Attributes \cup {Nil}
    BY <1>4, GraphFacts DEF Closed
  <1>8. \A i \in Slots \cup Registers : ObjectsIn'[i] \in DOMAIN Attributes \cup {Nil}
    BY <1>6, <1>7, GraphFacts
  <1>9. Graph!Becomes(ObjectsIn', Attributes)
    BY <1>8, VariablesBecome
  <1> QED
    BY <1>3, <1>6, <1>9, Zenon DEF Graph!Load

LEMMA AllocNews ==
  ASSUME Sound, Sound', NEW t \in Threads, NEW s \in Locals(t), NEW space \in {"from", "old"},
         Alloc(t, s, space)
  PROVE  Graph!New(s)
  <1> DEFINE o == CHOOSE i \in Unused : TRUE
             l == <<o, t, space>>
             c == [age |-> 0, attr |-> Nil, remembered |-> FALSE,
                   forwarding_addr |-> Nil, marked |-> FALSE]
             R == DOMAIN Attributes
             a == [p \in DOMAIN Attributes \cup {o} |-> IF p = o THEN Nil ELSE Attributes[p]]
  <1>1. /\ mem' = With(mem, l, c) /\ slot' = [slot EXCEPT ![s] = l] /\ UNCHANGED pending
        /\ Unused # {} /\ s \in Slots
    BY DEF Alloc, Locals
  <1>2. o \in Objs /\ o # Nil /\ l \in Locs /\ l # Nil /\ l[1] = o /\ \A k \in DOMAIN mem : k[1] # o
    BY <1>1, HeapAssumption DEF Unused, Locs
  <1>3. c.attr = Nil
    OBVIOUS
  <1> HIDE DEF o, l, c
  <1>4. /\ DOMAIN mem' = DOMAIN mem \cup {l} /\ mem'[l] = c
        /\ \A k \in DOMAIN mem : mem'[k] = mem[k]
    BY <1>1, <1>2 DEF With
  <1>5. MemoryInv' /\ Consistent(mem') /\ MemoryInv /\ Consistent(mem)
    BY ConsistentNext, AttributesConsistent DEF Sound
  <1>6. ObjectsIn' = [ObjectsIn EXCEPT ![s] = o]
    <2>1. ObjectsIn' = [ObjectsIn EXCEPT ![s] = Name(l)]
      BY <1>1, <1>5, ObjectsInSet
    <2> QED
      BY <1>2, <2>1 DEF Name
  <1>7. /\ R \subseteq Objects(mem) /\ \A p \in R : Attributes[p] = Attr(mem)[p]
        /\ Closed(R, Attributes)
        /\ \A r \in Slots \cup Registers : ObjectsIn[r] \in R \cup {Nil}
        /\ ObjectsIn = [r \in Slots \cup Registers |-> ObjectsIn[r]]
    BY GraphFacts
  <1>8. o \notin R /\ Objects(mem') = Objects(mem) \cup {o}
    BY <1>2, <1>4, <1>7 DEF Objects
  <1>9. Attr(mem')[o] = Nil /\ \A p \in Objects(mem) : Attr(mem')[p] = Attr(mem)[p]
    <2>1. /\ DOMAIN mem' \subseteq Locs
          /\ \A k \in DOMAIN mem' : mem'[k].attr \in DOMAIN mem' \cup {Nil}
      BY <1>5 DEF MemoryInv, TypeOK, ReferencesInv
    <2>2. \A k \in DOMAIN mem' : Attr(mem')[k[1]] = Name(mem'[k].attr)
      BY <1>5, <2>1, AttrFacts
    <2>3. /\ DOMAIN mem \subseteq Locs
          /\ \A k \in DOMAIN mem : mem[k].attr \in DOMAIN mem \cup {Nil}
      BY <1>5 DEF MemoryInv, TypeOK, ReferencesInv
    <2>4. \A k \in DOMAIN mem : Attr(mem)[k[1]] = Name(mem[k].attr)
      BY <1>5, <2>3, AttrFacts
    <2>5. Attr(mem')[o] = Nil
      BY <1>2, <1>3, <1>4, <2>2 DEF Name
    <2>6. \A k \in DOMAIN mem : Attr(mem')[k[1]] = Attr(mem)[k[1]]
      BY <1>4, <2>2, <2>4
    <2> QED
      BY <2>5, <2>6 DEF Objects
  <1> DEFINE D == R \cup {o}
  <1>10. /\ D \subseteq Objects(mem') /\ \A p \in D : a[p] = Attr(mem')[p]
         /\ Closed(D, a)
    <2>1. a[o] = Nil /\ \A p \in R : a[p] = Attributes[p]
      BY <1>8
    <2> HIDE DEF a, R
    <2>2. D \subseteq Objects(mem') /\ \A p \in D : a[p] = Attr(mem')[p]
      BY <1>7, <1>8, <1>9, <2>1
    <2>3. Closed(D, a)
      BY <1>7, <2>1 DEF Closed
    <2> QED
      BY <2>2, <2>3
  <1>11. Roots(ObjectsIn') \subseteq D
    BY <1>6, <1>7 DEF Roots
  <1> HIDE DEF a, D
  <1>12. Graph!Becomes(ObjectsIn', a)
    BY <1>5, <1>10, <1>11, BecomesStep
  <1>13. Graph!Becomes([ObjectsIn EXCEPT ![s] = o], a)
    BY <1>6, <1>12
  <1> HIDE DEF R
  <1> QED
    BY <1>2, <1>8, <1>13, Zenon DEF Graph!New, a, R

\* The register of a thread is set.
LEMMA ObjectsInRegister ==
  ASSUME MemoryInv, MemoryInv', UNCHANGED slot, NEW t \in Threads, NEW x, Register(t)' = x,
         \A u \in Threads \ {t} : Register(u)' = Register(u)
  PROVE  ObjectsIn' = [ObjectsIn EXCEPT ![<<t, 3>>] = Name(x)]
  <1>1. /\ DOMAIN ObjectsIn = Slots \cup Registers /\ \A r \in Slots : ObjectsIn[r] = Name(slot[r])
        /\ \A u \in Threads : ObjectsIn[<<u, 3>>] = Name(Register(u)) /\ <<u, 3>> \notin Slots
        /\ \A r \in Registers : \E u \in Threads : r = <<u, 3>>
    BY VariableNames
  <1>2. /\ DOMAIN ObjectsIn' = Slots \cup Registers /\ \A r \in Slots : ObjectsIn'[r] = Name(slot'[r])
        /\ \A u \in Threads : ObjectsIn'[<<u, 3>>] = Name(Register(u)')
    BY VariablesNext
  <1>3. /\ ObjectsIn = [r \in Slots \cup Registers |-> ObjectsIn[r]]
        /\ ObjectsIn' = [r \in Slots \cup Registers |-> ObjectsIn'[r]]
    BY <1>1, <1>2 DEF ObjectsIn
  <1>4. \A r \in Slots : ObjectsIn'[r] = IF r = <<t, 3>> THEN Name(x) ELSE ObjectsIn[r]
    BY <1>1, <1>2
  <1>5. \A u \in Threads :
           ObjectsIn'[<<u, 3>>] = IF <<u, 3>> = <<t, 3>> THEN Name(x) ELSE ObjectsIn[<<u, 3>>]
    <2> SUFFICES ASSUME NEW u \in Threads
                 PROVE  ObjectsIn'[<<u, 3>>] =
                           IF <<u, 3>> = <<t, 3>> THEN Name(x) ELSE ObjectsIn[<<u, 3>>]
      OBVIOUS
    <2>1. CASE u = t
      <3>1. ObjectsIn'[<<u, 3>>] = Name(x)
        BY <1>2, <2>1
      <3> QED
        BY <2>1, <3>1
    <2>2. CASE u # t
      <3>1. <<u, 3>> # <<t, 3>> /\ Register(u)' = Register(u)
        BY <2>2
      <3>2. ObjectsIn'[<<u, 3>>] = ObjectsIn[<<u, 3>>]
        BY <1>1, <1>2, <3>1
      <3> QED
        BY <3>1, <3>2
    <2> QED
      BY <2>1, <2>2
  <1>6. \A r \in Slots \cup Registers :
           ObjectsIn'[r] = IF r = <<t, 3>> THEN Name(x) ELSE ObjectsIn[r]
    BY <1>1, <1>4, <1>5
  <1> QED
    BY <1>3, <1>6

\* The first half of a store puts the value in the register.
LEMMA UpdatePtrMoves ==
  ASSUME Sound, Sound', NEW t \in Threads, NEW s \in Locals(t), NEW r \in Visible(t),
         UpdatePtr(t, s, r)
  PROVE  Graph!Move(<<t, 3>>, r) \/ (ObjectsIn' = ObjectsIn /\ Attributes' = Attributes)
  <1> DEFINE rec == [obj |-> slot[s], val |-> slot[r], remember |-> Barrier(slot[s], slot[r])]
  <1>1. /\ pending[t] = Nil /\ pending' = [pending EXCEPT ![t] = rec] /\ state[t] = "running"
        /\ UNCHANGED <<slot, mem>>
    BY DEF UpdatePtr, Running
  <1>2. MemoryInv /\ Consistent(mem) /\ MemoryInv' /\ Consistent(mem')
    BY ConsistentNext, AttributesConsistent DEF Sound
  <1>3. rec.val = slot[r]
    OBVIOUS
  <1> HIDE DEF rec
  <1>4. pending'[t] = rec /\ \A u \in Threads \ {t} : pending'[u] = pending[u]
    BY <1>1, <1>2 DEF MemoryInv, TypeOK
  <1>5. Register(t) = Nil /\ \A u \in Threads \ {t} : Register(u)' = Register(u)
    BY <1>1, <1>4 DEF Register
  <1>6. CASE rec = Nil
    <2>1. Register(t)' = Nil
      BY <1>4, <1>6 DEF Register
    <2>2. \A u \in Threads : Register(u)' = Register(u)
      BY <1>5, <2>1
    <2>3. ObjectsIn' = ObjectsIn
      BY <1>1, <1>2, <2>2, ObjectsInSame
    <2>4. Inherits(mem', mem)
      BY <1>1 DEF Inherits
    <2> QED
      BY <1>2, <2>3, <2>4, AttributesSame
  <1>7. CASE rec # Nil
    <2>1. Register(t)' = slot[r]
      BY <1>3, <1>4, <1>7 DEF Register
    <2>2. ObjectsIn' = [ObjectsIn EXCEPT ![<<t, 3>>] = Name(slot[r])]
      BY <1>1, <1>2, <1>5, <2>1, ObjectsInRegister
    <2>3. r \in Slots
      BY <1>1, <1>2, VisibleSlots DEF MemoryInv, ReferencesInv
    <2>4. ObjectsIn' = [ObjectsIn EXCEPT ![<<t, 3>>] = ObjectsIn[r]]
      BY <2>2, <2>3, GraphFacts
    <2>5. \A i \in Slots \cup Registers : ObjectsIn'[i] \in DOMAIN Attributes \cup {Nil}
      BY <2>3, <2>4, GraphFacts
    <2>6. Graph!Becomes(ObjectsIn', Attributes)
      BY <1>1, <2>5, VariablesBecome
    <2> QED
      BY <2>4, <2>6, Zenon DEF Graph!Move
  <1> QED
    BY <1>6, <1>7

\* The second half stores it in the object, which is still in a local.
LEMMA StorePtrStores ==
  ASSUME Sound, Sound', NEW t \in Threads, StorePtr(t)
  PROVE  \E s \in Slots : Graph!Store(s, <<t, 3>>)
  <1> DEFINE p == pending[t]
             x == Name(p.val)
             o == p.obj[1]
             R == DOMAIN Attributes
             a == [Attributes EXCEPT ![o] = x]
  <1>1. /\ p # Nil /\ pending' = [pending EXCEPT ![t] = Nil] /\ UNCHANGED slot
        /\ mem' = [mem EXCEPT ![p.obj].attr = p.val, ![p.obj].remembered = @ \/ p.remember]
    BY DEF StorePtr
  <1>2. MemoryInv /\ Consistent(mem) /\ MemoryInv' /\ Consistent(mem')
    BY ConsistentNext, AttributesConsistent DEF Sound
  <1>3. phase = "none" /\ p.obj \in DOMAIN mem /\ p.val \in DOMAIN mem \cup {Nil}
    BY <1>1, <1>2 DEF MemoryInv, ReferencesInv, RememberedInv
  <1>4. /\ DOMAIN mem \subseteq Locs /\ \A k \in DOMAIN mem : mem[k].attr \in DOMAIN mem \cup {Nil}
        /\ \A k \in DOMAIN mem : mem[k] \in Records
    BY <1>2 DEF MemoryInv, TypeOK, ReferencesInv, Records
  <1>5. \A k \in DOMAIN mem : k[1] = o => k = p.obj
    BY <1>2, <1>3, QuietNow DEF QuietMem
  <1>6. PICK s \in Locals(t) : slot[s] = p.obj
    BY <1>1 DEF Sound, StoresInv
  <1>7. s \in Slots /\ o \in Objs /\ o # Nil /\ p.obj # Nil
    BY <1>3, <1>4, LocParts, HeapAssumption DEF Locals, Locs
  <1>8. /\ R \subseteq Objects(mem) /\ \A i \in R : Attributes[i] = Attr(mem)[i]
        /\ Closed(R, Attributes) /\ ObjectsIn[s] = o /\ o \in R
        /\ ObjectsIn[<<t, 3>>] = x /\ x \in R \cup {Nil}
        /\ \A r \in Slots \cup Registers : ObjectsIn[r] \in R \cup {Nil}
        /\ ObjectsIn = [r \in Slots \cup Registers |-> ObjectsIn[r]]
    <2>1. ObjectsIn[s] = o
      BY <1>6, <1>7, GraphFacts DEF Name
    <2>2. Register(t) = p.val
      BY <1>1 DEF Register
    <2>3. ObjectsIn[<<t, 3>>] = x /\ <<t, 3>> \in Registers
      BY <2>2, GraphFacts
    <2> HIDE DEF x, o, R
    <2> QED
      BY <1>7, <2>1, <2>3, GraphFacts DEF R
  <1>9. DOMAIN mem' = DOMAIN mem /\ \A k \in DOMAIN mem : k # p.obj => mem'[k] = mem[k]
    BY <1>1
  <1>10. mem'[p.obj].attr = p.val
    <2>1. mem'[p.obj] = Stored(mem[p.obj], p.val, p.remember)
      BY <1>1, <1>3 DEF Stored
    <2>2. mem[p.obj] \in Records
      BY <1>3, <1>4
    <2> QED
      BY <2>1, <2>2 DEF Stored, Records
  <1> HIDE DEF p, x, R
  <1>11. Objects(mem') = Objects(mem) /\ \A i \in Objects(mem) :
            Attr(mem')[i] = IF i = o THEN x ELSE Attr(mem)[i]
    <2>1. /\ DOMAIN mem' \subseteq Locs
          /\ \A k \in DOMAIN mem' : mem'[k].attr \in DOMAIN mem' \cup {Nil}
      BY <1>2 DEF MemoryInv, TypeOK, ReferencesInv
    <2>2. \A k \in DOMAIN mem' : Attr(mem')[k[1]] = Name(mem'[k].attr)
      BY <1>2, <2>1, AttrFacts
    <2>3. \A k \in DOMAIN mem : Attr(mem)[k[1]] = Name(mem[k].attr)
      BY <1>2, <1>4, AttrFacts
    <2>4. ASSUME NEW k \in DOMAIN mem
          PROVE  Attr(mem')[k[1]] = IF k[1] = o THEN x ELSE Attr(mem)[k[1]]
      <3>1. CASE k = p.obj
        BY <1>3, <1>9, <1>10, <2>2, <3>1 DEF x
      <3>2. CASE k # p.obj
        BY <1>5, <1>9, <2>2, <2>3, <3>2
      <3> QED
        BY <3>1, <3>2
    <2> QED
      BY <1>9, <2>4 DEF Objects
  <1>12. a[o] = x /\ \A i \in R \ {o} : a[i] = Attributes[i]
    BY <1>8 DEF R
  <1> HIDE DEF a, o
  <1>13. /\ R \subseteq Objects(mem') /\ \A i \in R : a[i] = Attr(mem')[i]
         /\ Closed(R, a)
    <2>1. \A i \in R : a[i] = Attr(mem')[i]
      BY <1>8, <1>11, <1>12
    <2>2. Closed(R, a)
      BY <1>8, <1>12 DEF Closed
    <2> QED
      BY <1>8, <1>11, <2>1, <2>2
  <1>14. ObjectsIn' = [ObjectsIn EXCEPT ![<<t, 3>>] = Nil]
    <2>1. pending'[t] = Nil /\ \A u \in Threads \ {t} : pending'[u] = pending[u]
      BY <1>1, <1>2 DEF MemoryInv, TypeOK
    <2>2. Register(t)' = Nil /\ \A u \in Threads \ {t} : Register(u)' = Register(u)
      BY <2>1 DEF Register
    <2>3. ObjectsIn' = [ObjectsIn EXCEPT ![<<t, 3>>] = Name(Nil)]
      BY <1>1, <1>2, <2>2, ObjectsInRegister
    <2> QED
      BY <2>3 DEF Name
  <1>15. Roots(ObjectsIn') \subseteq R
    BY <1>8, <1>14 DEF Roots
  <1>16. Graph!Becomes(ObjectsIn', a)
    BY <1>2, <1>13, <1>15, BecomesStep
  <1>17. Graph!Becomes([ObjectsIn EXCEPT ![<<t, 3>>] = Nil],
                       [Attributes EXCEPT ![ObjectsIn[s]] = ObjectsIn[<<t, 3>>]])
    BY <1>8, <1>14, <1>16, Zenon DEF a
  <1> QED
    BY <1>7, <1>8, <1>17, Zenon DEF Graph!Store

\* The locals of a thread that ends are dropped.
LEMMA EndThreadDrops ==
  ASSUME Sound, Sound', NEW t \in Threads, EndThread(t)
  PROVE  Graph!Drop(Locals(t))
  <1>1. /\ slot' = [s \in Slots |-> IF s \in Locals(t) THEN Nil ELSE slot[s]]
        /\ UNCHANGED <<mem, pending>>
    BY DEF EndThread
  <1> DEFINE v == [s \in Slots \cup Registers |-> IF s \in Locals(t) THEN Nil ELSE ObjectsIn[s]]
  <1>2. MemoryInv /\ MemoryInv'
    BY DEF Sound
  <1>3. ObjectsIn' = v
    <2>1. /\ \A s \in Slots : ObjectsIn'[s] = Name(slot'[s])
          /\ \A u \in Threads : ObjectsIn'[<<u, 3>>] = Name(Register(u)')
          /\ ObjectsIn' = [s \in Slots \cup Registers |-> ObjectsIn'[s]]
      BY <1>2, VariablesNext DEF ObjectsIn
    <2>2. \A u \in Threads : Register(u)' = Register(u) /\ <<u, 3>> \notin Locals(t)
      BY <1>1, GraphFacts DEF Register, Locals
    <2>3. \A s \in Slots : ObjectsIn'[s] = IF s \in Locals(t) THEN Nil ELSE ObjectsIn[s]
      BY <1>1, <2>1, GraphFacts DEF Name
    <2>4. \A s \in Registers : ObjectsIn'[s] = IF s \in Locals(t) THEN Nil ELSE ObjectsIn[s]
      BY <2>1, <2>2, GraphFacts
    <2> QED
      BY <2>1, <2>3, <2>4
  <1>4. \A s \in Slots \cup Registers : v[s] \in DOMAIN Attributes \cup {Nil}
    BY GraphFacts
  <1> HIDE DEF v
  <1>5. Graph!Becomes(v, Attributes)
    BY <1>1, <1>3, <1>4, VariablesBecome
  <1> QED
    BY <1>5, Zenon DEF Graph!Drop, v

GraphStep == Graph!GraphNext \/ (ObjectsIn' = ObjectsIn /\ Attributes' = Attributes)

LEMMA ScriptSteps ==
  ASSUME Sound, Sound', NEW t \in Threads, Script(t)
  PROVE  GraphStep
  <1>1. \A r \in Slots : r \in Slots \cup Registers
    OBVIOUS
  <1>2. state[t] = "running" => \A s \in Visible(t) : s \in Slots
    BY VisibleSlots DEF Sound, MemoryInv, ReferencesInv
  <1>3. \A u \in Threads : \A s \in Locals(u) : s \in Slots /\ s \in Visible(u)
    BY DEF Locals, Visible
  <1>4. \A u \in Threads : <<u, 3>> \in Slots \cup Registers
    BY DEF Registers
  <1>5. ASSUME NEW s \in Locals(t), NEW space \in {"from", "old"}, Alloc(t, s, space) PROVE GraphStep
    <2>1. Graph!New(s) /\ s \in Slots \cup Registers
      BY <1>3, <1>5, AllocNews
    <2> QED
      BY <2>1 DEF GraphStep, Graph!GraphNext
  <1>6. ASSUME NEW s \in Visible(t), NEW r \in Visible(t), Assign(t, s, r) PROVE GraphStep
    <2>1. s \in Slots /\ r \in Slots
      BY <1>2, <1>6 DEF Assign, Running
    <2>2. slot' = [slot EXCEPT ![s] = slot[r]] /\ UNCHANGED <<mem, pending>>
      BY <1>6 DEF Assign
    <2>3. Graph!Move(s, r)
      BY <2>1, <2>2, AssignMoves
    <2> QED
      BY <1>1, <2>1, <2>3 DEF GraphStep, Graph!GraphNext
  <1>7. ASSUME NEW s \in Locals(t), NEW r \in Visible(t), Load(t, s, r) PROVE GraphStep
    <2>1. s \in Slots /\ r \in Slots
      BY <1>2, <1>3, <1>7 DEF Load, Running
    <2>2. /\ slot[r] # Nil /\ slot' = [slot EXCEPT ![s] = mem[slot[r]].attr]
          /\ UNCHANGED <<mem, pending>>
      BY <1>7 DEF Load
    <2>3. Graph!Load(s, r)
      BY <2>1, <2>2, LoadLoads
    <2> QED
      BY <1>1, <2>1, <2>3 DEF GraphStep, Graph!GraphNext
  <1>8. ASSUME NEW s \in Locals(t), NEW r \in Visible(t), UpdatePtr(t, s, r) PROVE GraphStep
    <2>1. r \in Slots \cup Registers /\ <<t, 3>> \in Slots \cup Registers
      BY <1>2, <1>4, <1>8 DEF UpdatePtr, Running
    <2>2. Graph!Move(<<t, 3>>, r) \/ (ObjectsIn' = ObjectsIn /\ Attributes' = Attributes)
      BY <1>8, UpdatePtrMoves
    <2> QED
      BY <2>1, <2>2 DEF GraphStep, Graph!GraphNext
  <1>9. CASE StorePtr(t)
    <2>1. PICK s \in Slots : Graph!Store(s, <<t, 3>>)
      BY <1>9, StorePtrStores
    <2> QED
      BY <1>1, <1>4, <2>1 DEF GraphStep, Graph!GraphNext
  <1>10. ASSUME NEW u \in Threads, StartThread(t, u) PROVE GraphStep
    <2>1. PICK s \in Locals(u) : \E r \in Visible(t) : slot' = [slot EXCEPT ![s] = slot[r]]
      BY <1>10 DEF StartThread
    <2>2. PICK r \in Visible(t) : slot' = [slot EXCEPT ![s] = slot[r]]
      BY <2>1
    <2>3. s \in Slots /\ r \in Slots
      BY <1>2, <1>3, <1>10 DEF StartThread, Running
    <2>4. Graph!Move(s, r)
      BY <1>10, <2>2, <2>3, AssignMoves DEF StartThread
    <2> QED
      BY <1>1, <2>3, <2>4 DEF GraphStep, Graph!GraphNext
  <1>11. CASE EndThread(t)
    <2>1. Graph!Drop(Locals(t)) /\ Locals(t) \in SUBSET (Slots \cup Registers)
      BY <1>3, <1>11, EndThreadDrops
    <2> QED
      BY <2>1 DEF GraphStep, Graph!GraphNext
  <1>12. ASSUME NEW kind \in {"minor", "major"}, StartGC(t, kind) PROVE GraphStep
    BY <1>12, CollectStutters DEF GraphStep
  <1> QED
    BY <1>5, <1>6, <1>7, <1>8, <1>9, <1>10, <1>11, <1>12 DEF Script

LEMMA StepGraph ==
  Sound /\ Sound' /\ [Next]_vars => GraphStep
  <1> SUFFICES ASSUME Sound, Sound', [Next]_vars PROVE GraphStep
    OBVIOUS
  <1>1. ASSUME NEW t \in Threads, Script(t) PROVE GraphStep
    BY <1>1, ScriptSteps
  <1>2. CASE Collect
    <2>1. ObjectsIn' = ObjectsIn /\ Attributes' = Attributes
      BY <1>2, CollectStutters DEF Collect
    <2> QED
      BY <2>1 DEF GraphStep
  <1>3. CASE UNCHANGED vars
    <2>1. UNCHANGED <<slot, mem, pending>> /\ Inherits(mem', mem)
      BY <1>3 DEF vars, Inherits
    <2>2. MemoryInv /\ Consistent(mem) /\ MemoryInv' /\ Consistent(mem')
      BY ConsistentNext, AttributesConsistent DEF Sound
    <2>3. \A t \in Threads : Register(t)' = Register(t)
      BY <2>1 DEF Register
    <2>4. ObjectsIn' = ObjectsIn
      BY <2>1, <2>2, <2>3, ObjectsInSame
    <2>5. Attributes' = Attributes
      BY <2>1, <2>2, <2>4, AttributesSame
    <2> QED
      BY <2>4, <2>5 DEF GraphStep
  <1> QED
    BY <1>1, <1>2, <1>3 DEF Next

LEMMA InitGraph ==
  Init => Graph!GraphInit
  <1> SUFFICES ASSUME Init PROVE Graph!GraphInit
    OBVIOUS
  <1>1. Sound
    BY InitSound
  <1>2. Objects(mem) = {}
    BY DEF Init, Objects
  <1>3. Attributes = [o \in {} |-> Nil]
    BY <1>1, <1>2, GraphFacts
  <1>4. \A s \in Slots \cup Registers : ObjectsIn[s] = Nil
    BY <1>1, <1>2, GraphFacts
  <1>5. ObjectsIn = [s \in Slots \cup Registers |-> Nil]
    BY <1>1, <1>4, GraphFacts
  <1> QED
    BY <1>3, <1>5 DEF Graph!GraphInit

\* The collector is invisible: what the scripts see is a graph of objects that only
\* they change, whatever is copied, tenured, forwarded and deleted, until a minor
\* collection traces two remembered sets with an object in common.
THEOREM CollectionsAreInvisible ==
  Spec => CollectionsInvisible
  <1>1. Init => Graph!GraphInit
    BY InitGraph
  <1>2. HeapInv /\ HeapInv' /\ [Next]_vars
           => [doubled' \/ Graph!GraphNext]_<<ObjectsIn, Attributes>>
    <2> SUFFICES ASSUME HeapInv, HeapInv', [Next]_vars, ~doubled'
                 PROVE  Graph!GraphNext \/ UNCHANGED <<ObjectsIn, Attributes>>
      OBVIOUS
    <2>1. Sound /\ Sound'
      BY StaysDoubled DEF HeapInv, Sound
    <2> QED
      BY <2>1, StepGraph DEF GraphStep
  <1> QED
    BY <1>1, <1>2, HeapCorrect, PTL DEF Spec, CollectionsInvisible
=============================================================================
