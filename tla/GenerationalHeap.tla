-------------------------- MODULE GenerationalHeap --------------------------
(***************************************************************************)
(* The generational heaps: src/gc/generational.c on top of the semispaces  *)
(* of src/gc/copying.c, the collections minor_gc and major_gc and          *)
(* delete_heaps of src/gc.c, and the write barrier YogGC_UPDATE_PTR of     *)
(* include/yog/gc.h.  The memory of the old generation is ChunkAllocator.  *)
(*                                                                         *)
(* Every thread has a heap with a young and an old part.  An object is     *)
(* copied into the heap through which the collector reaches it first, so   *)
(* objects move from heap to heap.  A collection is a sequence of steps of *)
(* one thread while the others stand still, as StopTheWorld promises; it   *)
(* starts when no thread is inside the write barrier, where there is no    *)
(* safe point.  Threads may be inside the barrier of one object at once:   *)
(* nothing in the code keeps them apart, and the object may then enter two *)
(* remembered sets (see doubled).                                          *)
(*                                                                         *)
(* A location <<o, h, space>> is that of object o in the from-space, the   *)
(* to-space or the old part of heap h: the copies of an object have        *)
(* different locations.  An object has one attribute.                      *)
(***************************************************************************)
EXTENDS Naturals, Sequences, FiniteSets

CONSTANTS
    Threads,       \* threads; a heap has the name of its thread
    Main,          \* the main thread
    Slots,         \* the variables: <<t, 1>> in a local of thread t, <<t, 2>> in a handle,
                   \* and VMSlot
    Objs,          \* objects
    Nil,           \* no object and no thread
    max_age        \* the age at which an object is tenured

ASSUME HeapAssumption ==
    /\ Main \in Threads
    /\ Slots \subseteq Threads \X (0 .. 2)
    /\ \A t \in Threads : <<t, 0>> \in Slots <=> t = Main
    /\ Nil \notin Threads /\ Nil \notin Objs /\ Nil \notin Objs \X Threads \X {"from", "to", "old"}
    /\ max_age \in Nat
    /\ IsFiniteSet(Objs)

VARIABLES
    state,           \* of a thread: "new", "running" or "ended"
    slot,            \* variables: the locals of the threads and a member of the VM
    mem,             \* the objects in memory, by location
    remembered_set,  \* of each heap
    heaps,           \* vm->heaps, in the order in which they were created
    pending,         \* a store of each thread that is inside the write barrier
    phase,           \* the collection under way: "none", "minor" or "major"
    collector,       \* its thread
    todo,            \* variables that YogVM_keep_children has still to keep
    marked_objects,  \* of each heap: kept objects whose children are not kept yet
    doubled          \* history: a minor collection has traced two remembered sets
                     \* with an object in common

scriptVars == <<state, slot, pending>>
gcVars == <<phase, collector, todo, marked_objects, doubled>>
vars == <<state, slot, mem, remembered_set, heaps, pending, phase, collector, todo,
          marked_objects, doubled>>

\* A member of the virtual machine, which YogVM_keep_children keeps with the heap
\* of the main thread, and the variables that t may use.
VMSlot == <<Main, 0>>
Locals(t) == {s \in Slots : s[1] = t /\ s # VMSlot}
Visible(t) == Locals(t) \cup {VMSlot}

\* The existing heaps and the place of h among them.
Heaps == {heaps[i] : i \in DOMAIN heaps}
Place(h) == CHOOSE i \in DOMAIN heaps : heaps[i] = h

Locs == Objs \X Threads \X {"from", "to", "old"}

TypeOK ==
    /\ state \in [Threads -> {"new", "running", "ended"}]
    /\ slot \in [Slots -> Locs \cup {Nil}]
    /\ DOMAIN mem \subseteq Locs
    /\ phase = "none" => \A l \in DOMAIN mem : l[3] # "to"
    /\ \A l \in DOMAIN mem :
          mem[l] \in [age : Nat, attr : Locs \cup {Nil}, remembered : BOOLEAN,
                      forwarding_addr : Locs \cup {Nil}, marked : BOOLEAN]
    /\ remembered_set \in [Threads -> SUBSET Locs]
    /\ heaps \in Seq(Threads)
    /\ pending \in [Threads -> {Nil} \cup
                      [obj : Locs, val : Locs \cup {Nil}, remember : BOOLEAN]]
    /\ phase \in {"none", "minor", "major"}
    /\ collector \in Threads \cup {Nil}
    /\ todo \in SUBSET Slots
    /\ marked_objects \in [Threads -> SUBSET Locs]
    /\ doubled \in BOOLEAN

\* The main thread runs and nothing is allocated.
Init ==
    /\ state = [t \in Threads |-> IF t = Main THEN "running" ELSE "new"]
    /\ slot = [s \in Slots |-> Nil]
    /\ mem = <<>>
    /\ remembered_set = [t \in Threads |-> {}]
    /\ heaps = <<Main>>
    /\ pending = [t \in Threads |-> Nil]
    /\ phase = "none"
    /\ collector = Nil
    /\ todo = {}
    /\ marked_objects = [t \in Threads |-> {}]
    /\ doubled = FALSE

-----------------------------------------------------------------------------
IsYoung(l) == l # Nil /\ l[3] # "old"
IsOld(l) == l # Nil /\ l[3] = "old"

\* f with y at x, whether x is in its domain or not.
With(f, x, y) == [z \in DOMAIN f \cup {x} |-> IF z = x THEN y ELSE f[z]]

\* t executes its script: it may take steps outside the write barrier.  A collection
\* that traced an object twice may have copied what it refers to twice: what scripts
\* do with such a memory is not modelled.
Running(t) == phase = "none" /\ state[t] = "running" /\ pending[t] = Nil /\ ~doubled

\* Objects that are not in memory.  The memory of a script is bounded by Objs.
Unused == Objs \ {l[1] : l \in DOMAIN mem}

\* YogGenerational_alloc: in the young heap, or in the old one if the object does
\* not fit there.
Alloc(t, s, space) ==
    /\ Running(t)
    /\ Unused # {}
    /\ LET l == <<CHOOSE o \in Unused : TRUE, t, space>> IN
       /\ mem' = With(mem, l, [age |-> 0, attr |-> Nil, remembered |-> FALSE,
                               forwarding_addr |-> Nil, marked |-> FALSE])
       /\ slot' = [slot EXCEPT ![s] = l]
    /\ UNCHANGED <<state, remembered_set, heaps, pending, gcVars>>

\* The script assigns a variable, or loads an attribute.
Assign(t, s, r) ==
    /\ Running(t)
    /\ slot' = [slot EXCEPT ![s] = slot[r]]
    /\ UNCHANGED <<state, mem, remembered_set, heaps, pending, gcVars>>

Load(t, s, r) ==
    /\ Running(t)
    /\ slot[r] # Nil
    /\ slot' = [slot EXCEPT ![s] = mem[slot[r]].attr]
    /\ UNCHANGED <<state, mem, remembered_set, heaps, pending, gcVars>>

\* Mutant of Barrier: an old object is remembered only if it holds nothing yet.
BarrierOnce(l, v) == IsOld(l) /\ ~mem[l].remembered /\ IsYoung(v) /\ mem[l].attr = Nil

\* The tests of YogGC_UPDATE_PTR: obj must be added to a remembered set.
Barrier(l, v) == IsOld(l) /\ ~mem[l].remembered /\ IsYoung(v)

\* YogGC_UPDATE_PTR, in two steps: the tests, then the addition and the store.
UpdatePtr(t, s, r) ==
    /\ Running(t)
    /\ slot[s] # Nil
    /\ pending' = [pending EXCEPT ![t] = [obj |-> slot[s], val |-> slot[r],
                                         remember |-> Barrier(slot[s], slot[r])]]
    /\ UNCHANGED <<state, slot, mem, remembered_set, heaps, gcVars>>

\* YogGC_add_to_remembered_set: the set is that of the heap of the storing thread,
\* whatever the heap of the object.
StorePtr(t) ==
    /\ pending[t] # Nil
    /\ LET p == pending[t] IN
       /\ mem' = [mem EXCEPT ![p.obj].attr = p.val,
                             ![p.obj].remembered = @ \/ p.remember]
       /\ remembered_set' = [remembered_set EXCEPT
                               ![t] = IF p.remember THEN @ \cup {p.obj} ELSE @]
    /\ pending' = [pending EXCEPT ![t] = Nil]
    /\ UNCHANGED <<state, slot, heaps, gcVars>>

\* Thread.new and Thread#run: a new heap, and the argument of the thread.
StartThread(t, u) ==
    /\ Running(t)
    /\ state[u] = "new"
    /\ state' = [state EXCEPT ![u] = "running"]
    /\ heaps' = Append(heaps, u)
    /\ \E s \in Locals(u), r \in Visible(t) : slot' = [slot EXCEPT ![s] = slot[r]]
    /\ UNCHANGED <<mem, remembered_set, pending, gcVars>>

\* The end of thread_main: the locals are gone, the heap stays.
EndThread(t) ==
    /\ Running(t)
    /\ t # Main
    /\ state' = [state EXCEPT ![t] = "ended"]
    /\ slot' = [s \in Slots |-> IF s \in Locals(t) THEN Nil ELSE slot[s]]
    /\ UNCHANGED <<mem, remembered_set, heaps, pending, gcVars>>

-----------------------------------------------------------------------------
(* Collections.                                                            *)

\* Two threads were inside the barrier of one object, both found it not remembered,
\* and each has entered it into the set of its heap.
InTwoSets ==
    \E g, h \in Threads : g # h /\ remembered_set[g] \cap remembered_set[h] # {}

\* Mutant of StartGC: a minor collection traces only the set of its own thread.
StartWithOwnSet(t, kind) ==
    /\ Running(t)
    /\ \A u \in Threads : pending[u] = Nil
    /\ phase' = kind
    /\ collector' = t
    /\ todo' = {s \in Slots : state[s[1]] = "running"}
    /\ mem' = [l \in DOMAIN mem |->
                 IF \E h \in Heaps : l \in remembered_set[h]
                 THEN [mem[l] EXCEPT !.remembered = FALSE] ELSE mem[l]]
    /\ marked_objects' = [h \in Threads |->
                            IF kind = "minor" /\ h = t THEN remembered_set[h] ELSE {}]
    /\ remembered_set' = [h \in Threads |-> {}]
    /\ doubled' = (doubled \/ (kind = "minor" /\ InTwoSets))
    /\ UNCHANGED <<state, slot, heaps, pending>>

\* prepare_minor and YogGenerational_trace_remembered_set, or prepare_major: the
\* remembered sets are emptied; a minor collection traces what was in them.
StartGC(t, kind) ==
    /\ Running(t)
    /\ \A u \in Threads : pending[u] = Nil
    /\ phase' = kind
    /\ collector' = t
    /\ todo' = {s \in Slots : state[s[1]] = "running"}
    /\ mem' = [l \in DOMAIN mem |->
                 IF \E h \in Heaps : l \in remembered_set[h]
                 THEN [mem[l] EXCEPT !.remembered = FALSE] ELSE mem[l]]
    /\ marked_objects' = [h \in Threads |->
                            IF kind = "minor" THEN remembered_set[h] ELSE {}]
    /\ remembered_set' = [h \in Threads |-> {}]
    /\ doubled' = (doubled \/ (kind = "minor" /\ InTwoSets))
    /\ UNCHANGED <<state, slot, heaps, pending>>

\* Mutant of Forwarded: the forwarding address is not looked at.
NeverForwarded(l) == FALSE

\* The object has been copied or tenured in this collection.
Forwarded(l) == mem[l].forwarding_addr # Nil

\* copy_young_obj: the object at l grows older and is copied to the young heap of
\* h, or tenured to its old one; proc_for_tenured_major marks it there.
Moved(l, h) ==
    LET aged == mem[l].age + 1
        young == aged < max_age
        to == <<l[1], h, IF young THEN "to" ELSE "old">>
        copy == [mem[l] EXCEPT !.age = IF young THEN aged ELSE 0,
                               !.marked = ~young /\ phase = "major"]
    IN  [to |-> to,
         mem |-> With([mem EXCEPT ![l].forwarding_addr = to, ![l].age = aged], to, copy),
         marked |-> {to}]

\* minor_gc_keep_object and major_gc_keep_object (through YogGC_keep): where the
\* object at l is afterwards, the memory, and what has to be scanned.
Kept(l, h) ==
    CASE l = Nil -> [to |-> Nil, mem |-> mem, marked |-> {}]
      [] IsOld(l) /\ (phase = "minor" \/ mem[l].marked) ->
           [to |-> l, mem |-> mem, marked |-> {}]
      [] IsOld(l) /\ phase = "major" /\ ~mem[l].marked ->
           [to |-> l, mem |-> [mem EXCEPT ![l].marked = TRUE], marked |-> {l}]
      [] IsYoung(l) /\ Forwarded(l) ->
           [to |-> mem[l].forwarding_addr, mem |-> mem, marked |-> {}]
      [] IsYoung(l) /\ ~Forwarded(l) -> Moved(l, h)

\* YogVM_keep_children keeps r before s: locals come before handles, those of the
\* newest thread first, and the members of the virtual machine at the end.
KeptBefore(r, s) ==
    \/ s = VMSlot /\ r # VMSlot
    \/ /\ VMSlot \notin {r, s}
       /\ r[2] < s[2] \/ (r[2] = s[2] /\ Place(r[1]) > Place(s[1]))

\* YogVM_keep_children: a variable is kept with the heap of its thread.
KeepSlot(s) ==
    /\ s \in todo
    /\ \A r \in todo : ~KeptBefore(r, s)
    /\ LET k == Kept(slot[s], s[1]) IN
       /\ slot' = [slot EXCEPT ![s] = k.to]
       /\ mem' = k.mem
       /\ marked_objects' = [marked_objects EXCEPT ![s[1]] = @ \cup k.marked]
    /\ todo' = todo \ {s}
    /\ UNCHANGED <<state, remembered_set, heaps, pending, phase, collector, doubled>>

\* Mutant of Scanned: the object is scanned again and again.
NeverScanned(S, l) == S

\* The objects S that have still to be scanned, when l has been (scanned is advanced).
Scanned(S, l) == S \ {l}

\* minor_traverse and major_traverse, heap after heap: the children keeper of a
\* marked or copied object, YogGC_KEEP of its attribute with the write barrier
\* included.
KeepChildren(h, l) ==
    /\ phase # "none"
    /\ todo = {}
    /\ l \in marked_objects[h]
    /\ \A g \in Heaps : Place(g) < Place(h) => marked_objects[g] = {}
    /\ LET k == Kept(mem[l].attr, h)
           remember == Barrier(l, k.to)
       IN
       /\ mem' = [k.mem EXCEPT ![l].attr = k.to, ![l].remembered = @ \/ remember]
       /\ marked_objects' = [marked_objects EXCEPT ![h] = Scanned(@, l) \cup k.marked]
       /\ remembered_set' = [remembered_set EXCEPT
                               ![collector] = IF remember THEN @ \cup {l} ELSE @]
    /\ UNCHANGED <<state, slot, heaps, pending, phase, collector, todo, doubled>>

\* The objects that survive: those copied or tenured, and old ones unless a major
\* collection did not mark them.
Survives(l) == l[3] = "to" \/ (l[3] = "old" /\ (phase = "minor" \/ mem[l].marked))

\* Mutant of Swapped: a location in the to-space stays there.
Unswapped(l) == l

\* swap_spaces: the to-space of a heap becomes its from-space.
Swapped(l) == IF l # Nil /\ l[3] = "to" THEN <<l[1], l[2], "from">> ELSE l

\* delete_heaps walks vm->heaps and takes some heaps out.
WithoutHeaps(deleted) ==
    LET kept[i \in 0 .. Len(heaps)] ==
          IF i = 0 THEN <<>>
          ELSE IF heaps[i] \in deleted THEN kept[i - 1] ELSE Append(kept[i - 1], heaps[i])
    IN  kept[Len(heaps)]

\* delete_garbage, post_gc and delete_heaps: the spaces are swapped, marks reset,
\* and an empty heap is deleted whose Thread object has been finalised, now or
\* before (which is possible once the thread has ended).
EndGC ==
    /\ phase # "none"
    /\ todo = {}
    /\ \A h \in Threads : marked_objects[h] = {}
    /\ LET live == {l \in DOMAIN mem : Survives(l)} IN
       /\ mem' = [l \in {Swapped(m) : m \in live} |->
                    LET m == CHOOSE m \in live : Swapped(m) = l IN
                    [mem[m] EXCEPT !.attr = Swapped(@), !.forwarding_addr = Swapped(@),
                                   !.marked = FALSE]]
       /\ slot' = [s \in Slots |-> Swapped(slot[s])]
       /\ \E deleted \in SUBSET {h \in Heaps : /\ state[h] = "ended"
                                               /\ \A l \in live : l[2] # h} :
             /\ heaps' = WithoutHeaps(deleted)
             /\ remembered_set' = [h \in Threads |-> IF h \in deleted THEN {}
                                                     ELSE remembered_set[h]]
    /\ phase' = "none"
    /\ collector' = Nil
    /\ UNCHANGED <<state, pending, todo, marked_objects, doubled>>

-----------------------------------------------------------------------------
Script(t) ==
    \/ \E s \in Locals(t), space \in {"from", "old"} : Alloc(t, s, space)
    \/ \E s, r \in Visible(t) : Assign(t, s, r)
    \/ \E s \in Locals(t), r \in Visible(t) : Load(t, s, r) \/ UpdatePtr(t, s, r)
    \/ StorePtr(t)
    \/ \E u \in Threads : StartThread(t, u)
    \/ EndThread(t)
    \/ \E kind \in {"minor", "major"} : StartGC(t, kind)

Collect ==
    \/ \E s \in Slots : KeepSlot(s)
    \/ \E h \in Threads : \E l \in marked_objects[h] : KeepChildren(h, l)
    \/ EndGC

Next == (\E t \in Threads : Script(t)) \/ Collect

Spec == Init /\ [][Next]_vars

\* A collection goes on once it has started.
FairSpec == Spec /\ WF_vars(Collect)

-----------------------------------------------------------------------------
(* Properties.                                                             *)

\* Between collections an old object that refers to a young one is in the
\* remembered set of a heap that exists, and only old objects in memory are, also
\* when several threads store into one object at once.
RememberedExact ==
    phase = "none" /\ ~doubled =>
        /\ \A l \in DOMAIN mem :
              IsOld(l) /\ IsYoung(mem[l].attr) => \E h \in Heaps : l \in remembered_set[h]
        /\ \A h \in Threads : \A l \in remembered_set[h] : IsOld(l) /\ mem[l].remembered

\* Between collections no object has two places, and none has a forwarding address
\* (which check_object in copying.c asserts when it is compiled in), until a minor
\* collection traces two remembered sets with an object in common.
OneCopy ==
    phase = "none" /\ ~doubled =>
        /\ \A l, m \in DOMAIN mem : l[1] = m[1] => l = m
        /\ \A l \in DOMAIN mem : mem[l].forwarding_addr = Nil

\* References lead to objects in memory: those of variables, which only a running
\* thread has, of attributes and of stores that are under way.
ReferencesInv ==
    LET Refs == DOMAIN mem \cup {Nil} IN
    /\ \A s \in Slots : slot[s] \in Refs /\ (state[s[1]] # "running" => slot[s] = Nil)
    /\ \A l \in DOMAIN mem : mem[l].attr \in Refs
    /\ \A t \in Threads : pending[t] # Nil =>
          pending[t].obj \in DOMAIN mem /\ pending[t].val \in Refs
    /\ state[Main] = "running" /\ \A t \in Threads : state[t] = "running" => t \in Heaps

\* Two locations of one object: one is in the from-space and forwards to the other,
\* which survives.
CopiesInv ==
    /\ \A l, m \in DOMAIN mem :
          l[1] = m[1] /\ l # m => m = mem[l].forwarding_addr \/ l = mem[m].forwarding_addr
    /\ \A l \in DOMAIN mem : Forwarded(l) =>
          LET to == mem[l].forwarding_addr IN
          phase # "none" /\ l[3] = "from" /\ to \in DOMAIN mem /\ to[1] = l[1] /\ Survives(to)

\* remembered says that an object is in a remembered set, of a heap that exists, and
\* only old objects are.  A store under way remembers its object if that must still
\* be done; if another thread has done it meanwhile, the object enters a second set.
RememberedInv ==
    /\ \A l \in DOMAIN mem : mem[l].remembered <=> \E h \in Heaps : l \in remembered_set[h]
    /\ \A h \in Threads : \A l \in remembered_set[h] :
          h \in Heaps /\ l \in DOMAIN mem /\ IsOld(l)
    /\ \A t \in Threads : pending[t] # Nil =>
          /\ phase = "none" /\ state[t] = "running"
          /\ Barrier(pending[t].obj, pending[t].val) => pending[t].remember
          /\ pending[t].remember => IsOld(pending[t].obj)

\* Between collections an old object that refers to a young one is remembered.
BetweenInv ==
    phase = "none" =>
        /\ todo = {} /\ \A h \in Threads : marked_objects[h] = {}
        /\ \A l \in DOMAIN mem : /\ l[3] # "to" /\ ~mem[l].marked
                                 /\ IsOld(l) /\ IsYoung(mem[l].attr) => mem[l].remembered

\* The collector is done with l: it is kept and so is its attribute.
Done(l) == Survives(l) /\ \A h \in Threads : l \notin marked_objects[h]

\* During a collection what the collector is done with refers to what survives, and
\* is remembered if that is young; all other references are not to copies.
DuringInv ==
    phase # "none" =>
        /\ collector \in Threads /\ state[collector] = "running"
        /\ \A h \in Threads \ {collector} : remembered_set[h] = {}
        /\ \A s \in Slots : slot[s] # Nil =>
              IF s \in todo THEN slot[s][3] # "to" ELSE Survives(slot[s])
        /\ \A l \in DOMAIN mem : mem[l].attr # Nil =>
              IF Done(l) THEN /\ Survives(mem[l].attr)
                              /\ IsOld(l) /\ IsYoung(mem[l].attr) => mem[l].remembered
              ELSE mem[l].attr[3] # "to"
        /\ \A h \in Threads : \A l \in marked_objects[h] :
              /\ l \in DOMAIN mem /\ Survives(l)
              /\ \A g \in Threads : l \in marked_objects[g] => g = h
        /\ \A l \in remembered_set[collector] : Done(l)
        /\ \A l \in DOMAIN mem : mem[l].marked => phase = "major" /\ IsOld(l)

\* The invariant of the memory.
MemoryInv == TypeOK /\ ReferencesInv /\ CopiesInv /\ RememberedInv /\ BetweenInv /\ DuringInv

\* The object at a location: nothing if the location is not in memory any more.
ObjectAt(l) == IF l \in DOMAIN mem THEN l[1] ELSE Nil

\* What a thread stores into is in one of its locals, which it cannot change meanwhile.
StoresInv ==
    \A t \in Threads : pending[t] # Nil => \E s \in Locals(t) : slot[s] = pending[t].obj

\* An object and its copy have the same attribute, in one place or another.
AttributesInv ==
    \A l \in DOMAIN mem : Forwarded(l) =>
        ObjectAt(mem[mem[l].forwarding_addr].attr) = ObjectAt(mem[l].attr)

\* The inductive invariant of the heaps.
HeapInv == doubled \/ (MemoryInv /\ StoresInv /\ AttributesInv)

\* The value that a thread is about to store is in a register.
Registers == Threads \X {3}
Register(t) == IF pending[t] = Nil THEN Nil ELSE pending[t].val

\* The locations that are reached from the variables, at least one of every object.
ReachedLocs ==
    LET reach[n \in 0 .. Cardinality(Objs)] ==
          IF n = 0 THEN ({slot[s] : s \in Slots} \cup {Register(t) : t \in Threads})
                        \cap DOMAIN mem
          ELSE LET R == reach[n - 1] IN R \cup ({mem[l].attr : l \in R} \cap DOMAIN mem)
    IN  reach[Cardinality(Objs)]

\* What the script sees: objects, not places.
ObjectsIn ==
    [s \in Slots \cup Registers |-> IF s \in Slots THEN ObjectAt(slot[s])
                                   ELSE ObjectAt(Register(s[1]))]
Attributes ==
    LET R == ReachedLocs IN
    [o \in {l[1] : l \in R} |-> ObjectAt(mem[CHOOSE l \in R : l[1] = o].attr)]

Graph == INSTANCE ObjectGraph
    WITH Slots <- Slots \cup Registers, slot <- ObjectsIn, attr <- Attributes

\* Refinement: collections are invisible.  Every object that a script can reach
\* stays there, once, with the attribute last stored, whatever collections, deaths
\* of threads and deletions of heaps come in between, until a minor collection
\* traces two remembered sets with an object in common.
CollectionsInvisible ==
    /\ Graph!GraphInit
    /\ [][doubled' \/ Graph!GraphNext]_<<ObjectsIn, Attributes>>

\* Every collection comes to its end (cycles included).
CollectionEnds == phase # "none" ~> phase = "none"
=============================================================================
