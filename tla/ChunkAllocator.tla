--------------------------- MODULE ChunkAllocator ---------------------------
(***************************************************************************)
(* The allocator of the old generation, src/gc/mark-sweep-compact.c, in the *)
(* GC_GENERATIONAL build: arenas cut into chunks with boundary tags, bins   *)
(* of free chunks, huge chunks mapped on their own, and the sweep that      *)
(* gives garbage back and merges neighbours.                                *)
(*                                                                         *)
(* An address is a number.  The i-th mapping starts at i * Stride, mmap     *)
(* reuses the first slot that munmap has freed.  head has the chunk headers *)
(* in memory, foot the footers of free chunks, by the address at which the  *)
(* chunk ends.  An allocation hands the payload to the program, which       *)
(* overwrites the headers and footers left over in it.                      *)
(***************************************************************************)
EXTENDS Naturals, Sequences, FiniteSets, SequencesExt

CONSTANTS
    Sizes,               \* what the program asks for
    arena_size,          \* the size of an arena
    ALIGNMENT,
    SizeofArena,         \* the pointer at the start of an arena
    SizeofChunkHeader,   \* prev_used, size, used
    SizeofHeader,        \* what the collector puts in front of an object
    MIN_SMALL_SIZE,      \* room for the header and the footer of a free chunk
    MAX_SMALL_SIZE,
    LARGE_NUM, LARGE_SHIFT,
    NoChunk,             \* nothing was found
    Stride,              \* how far apart mappings are
    Maps                 \* bound: how many mappings there may be at a time

\* An aligned allocator: every chunk size is a multiple of ALIGNMENT.
ASSUME AlignmentAssumption ==
    /\ arena_size \in Nat /\ {ALIGNMENT, SizeofArena, SizeofChunkHeader} \subseteq Nat \ {0}
    /\ \A n \in {arena_size - SizeofArena, SizeofChunkHeader, SizeofHeader, MIN_SMALL_SIZE,
                 MAX_SMALL_SIZE} : n \in Nat /\ n % ALIGNMENT = 0
ASSUME BinsAssumption ==
    /\ Sizes \subseteq Nat \ {0}
    /\ LARGE_NUM \in Nat \ {0} /\ LARGE_SHIFT \in Nat \ {0} /\ Maps \in Nat \ {0}
    /\ SizeofChunkHeader < MIN_SMALL_SIZE /\ MIN_SMALL_SIZE <= MAX_SMALL_SIZE
    /\ SizeofHeader + SizeofChunkHeader + ALIGNMENT >= MIN_SMALL_SIZE
    /\ SizeofArena + SizeofChunkHeader + MIN_SMALL_SIZE <= arena_size

VARIABLES
    maps,            \* maps[i]: the size of the i-th mapping, 0 when there is none
    arenas,          \* msc->arenas: the mappings that are arenas
    head,            \* chunk headers: address -> [prev_used, size, used]
    foot,            \* footers of free chunks: end address -> size
    lists,           \* msc->small and msc->large
    objs,            \* msc->header: objects, by their chunk -> size asked for
    dead,            \* objects the sweep under way still has to delete
    allocated_size,  \* msc->allocated_size
    compaction_flag, major_gc_flag,   \* fields of YogVM
    failed           \* munmap has returned an error

memVars == <<maps, arenas, head, foot, lists, objs>>
flagVars == <<allocated_size, compaction_flag, major_gc_flag>>
vars == <<maps, arenas, head, foot, lists, objs, dead, allocated_size,
          compaction_flag, major_gc_flag, failed>>

-----------------------------------------------------------------------------
(* Sizes and bins.                                                         *)

\* compute_upper_limit_of_arena: the size of the one chunk of an empty arena.
Limit == arena_size - SizeofArena - SizeofChunkHeader

\* The size of the chunk for a request, as YogMarkSweepCompact_alloc rounds it
\* and adds the two headers.
RoundedSize(size) == ((size + ALIGNMENT - 1) \div ALIGNMENT) * ALIGNMENT
SizeIncludingHeader(size) == RoundedSize(size) + SizeofHeader + SizeofChunkHeader

Size2Index(size) == IF size < MIN_SMALL_SIZE THEN 0
                    ELSE (size - MIN_SMALL_SIZE) \div ALIGNMENT
SMALL_NUM == Size2Index(MAX_SMALL_SIZE) + 1

\* The powers of two by which the code shifts.
Bits == LARGE_NUM + LARGE_SHIFT
Pow2[k \in 0 .. Bits] == IF k = 0 THEN 1 ELSE 2 * Pow2[k - 1]

\* bsr: the highest bit that is set in x.
Bsr(x) == CHOOSE k \in 0 .. LARGE_NUM - 1 : Pow2[k] <= x /\ x < Pow2[k + 1]

\* compute_large_index: two bins for each power of two.
LargeIndex(size) ==
    LET x == size \div Pow2[LARGE_SHIFT] IN
    IF x = 0 THEN 0
    ELSE IF Pow2[LARGE_NUM \div 2] <= x THEN LARGE_NUM - 1
    ELSE 2 * Bsr(x) + ((size \div Pow2[Bsr(x) + LARGE_SHIFT - 1]) % 2)

SmallBins == {"small"} \X (0 .. SMALL_NUM - 1)
LargeBins == {"large"} \X (0 .. LARGE_NUM - 1)
Bins == SmallBins \cup LargeBins

\* find_list_of_size, and the bin that add_chunk chooses.
ListOfSize(size) == IF MAX_SMALL_SIZE < size THEN <<"large", LargeIndex(size)>>
                                             ELSE <<"small", Size2Index(size)>>

\* ADD_TO_LIST and DELETE_FROM_LIST.
AddChunk(ls, c, size) == [ls EXCEPT ![ListOfSize(size)] = <<c>> \o @]
DeleteFrom(ls, bin, c) ==
    [ls EXCEPT ![bin] = RemoveAt(@, CHOOSE k \in DOMAIN @ : @[k] = c)]

-----------------------------------------------------------------------------
(* Memory.                                                                 *)

Slots == 1 .. Maps
Base(i) == i * Stride
FirstChunk(i) == Base(i) + SizeofArena     \* ARENA_CHUNKS
Sentinel(i) == FirstChunk(i) + Limit

\* Mappings do not overlap; the record of a chunk that was found is not NoChunk.
ASSUME MappingAssumption ==
    /\ Stride \in Nat /\ arena_size <= Stride
    /\ \A size \in Sizes : SizeIncludingHeader(size) <= Stride
    /\ NoChunk \notin [bin : Bins, chunk : Nat]

\* mmap_anonymous: the slot it chooses.  Beyond the bound Maps the model stops.
CanMap == \E i \in Slots : maps[i] = 0
NewSlot == Min({i \in Slots : maps[i] = 0})

Chunk(prev_used, size, used) == [prev_used |-> prev_used, size |-> size, used |-> used]
Put(f, a, v) == [b \in DOMAIN f \cup {a} |-> IF b = a THEN v ELSE f[b]]

\* alloc_arena in slot i: one free chunk and the sentinel.
ArenaHead(hd, i) == Put(Put(hd, FirstChunk(i), Chunk(TRUE, Limit, FALSE)),
                        Sentinel(i), Chunk(FALSE, 0, TRUE))
ArenaFoot(ft, i) == Put(ft, Sentinel(i), Limit)

NoLists == [b \in Bins |-> <<>>]

TypeOK ==
    /\ maps \in [Slots -> Nat]
    /\ arenas \subseteq Slots
    /\ DOMAIN head \cup DOMAIN foot \subseteq Nat
    /\ \A a \in DOMAIN head : head[a] \in [prev_used : BOOLEAN, size : Nat, used : BOOLEAN]
    /\ \A a \in DOMAIN foot : foot[a] \in Nat
    /\ lists \in [Bins -> Seq(Nat)]
    /\ \A a \in DOMAIN objs : objs[a] \in Sizes
    /\ dead \subseteq DOMAIN objs
    /\ allocated_size \in Nat
    /\ {compaction_flag, major_gc_flag, failed} \subseteq BOOLEAN

\* YogMarkSweepCompact_new.
Init ==
    /\ maps = [i \in Slots |-> IF i = 1 THEN arena_size ELSE 0]
    /\ arenas = {1}
    /\ head = ArenaHead(<<>>, 1)
    /\ foot = ArenaFoot(<<>>, 1)
    /\ lists = AddChunk(NoLists, FirstChunk(1), Limit)
    /\ objs = <<>>
    /\ dead = {}
    /\ allocated_size = 0
    /\ compaction_flag = FALSE
    /\ major_gc_flag = FALSE
    /\ failed = FALSE

-----------------------------------------------------------------------------
(* Allocation.                                                             *)

\* The chunks of a bin that are large enough, by their place in the list.
Fits(hd, ls, b, n) == {k \in DOMAIN ls[b] : n <= hd[ls[b][k]].size}

\* Mutant of BestIn: the first chunk that is large enough.
FirstIn(hd, ls, b, n) == ls[b][Min(Fits(hd, ls, b, n))]

\* find_large_chunk, one bin: the smallest chunk that is large enough, the first
\* of several.
BestIn(hd, ls, b, n) ==
    LET fits == Fits(hd, ls, b, n)
        size(k) == hd[ls[b][k]].size
    IN  ls[b][Min({k \in fits : \A j \in fits : size(k) <= size(j)})]

\* find_large_chunk: the first bin, from that of the size on, with such a chunk.
FindLarge(hd, ls, n) ==
    LET found == {i \in LargeIndex(n) .. LARGE_NUM - 1 : Fits(hd, ls, <<"large", i>>, n) # {}}
    IN  IF found = {} THEN NoChunk
        ELSE LET b == <<"large", Min(found)>>
             IN  [bin |-> b, chunk |-> BestIn(hd, ls, b, n)]

\* Mutant of FindSmall: the search begins at the first bin.
FindSmallAnyBin(hd, ls, n) ==
    LET found == {i \in 0 .. SMALL_NUM - 1 : ls[<<"small", i>>] # <<>>}
    IN  IF found = {} THEN FindLarge(hd, ls, n)
        ELSE LET b == <<"small", Min(found)>> IN [bin |-> b, chunk |-> Head(ls[b])]

\* find_small_chunk: the first chunk of the first bin that is not empty.
FindSmall(hd, ls, n) ==
    LET found == {i \in Size2Index(n) .. SMALL_NUM - 1 : ls[<<"small", i>>] # <<>>}
    IN  IF found = {} THEN FindLarge(hd, ls, n)
        ELSE LET b == <<"small", Min(found)>> IN [bin |-> b, chunk |-> Head(ls[b])]

\* find_best_chunk.
FindBestChunk(hd, ls, n) == IF MAX_SMALL_SIZE < n THEN FindLarge(hd, ls, n)
                                                  ELSE FindSmall(hd, ls, n)

\* The program's data take the place of what was in the payload of chunk c.
Overwritten(f, from, to) == Restrict(f, {b \in DOMAIN f : b <= from \/ to < b})

\* split_chunk finds the rest too small for a chunk.
Whole(hd, c, n) == hd[c].size - n < MIN_SMALL_SIZE

\* Mutant of TakeHead: the flag of the next chunk is forgotten.
TakeHeadOnly(hd, c, n) ==
    LET size == hd[c].size IN
    IF Whole(hd, c, n)
    THEN Overwritten([hd EXCEPT ![c].used = TRUE], c, c + size - 1)
    ELSE Put(Overwritten([hd EXCEPT ![c] = Chunk(@.prev_used, n, TRUE)], c, c + n),
             c + n, Chunk(TRUE, size - n, FALSE))

\* handle_free_chunk: the headers after n bytes were cut from the free chunk c.
TakeHead(hd, c, n) ==
    LET size == hd[c].size IN
    IF Whole(hd, c, n)
    THEN Overwritten([hd EXCEPT ![c].used = TRUE, ![c + size].prev_used = TRUE],
                     c, c + size - 1)
    ELSE Put(Overwritten([hd EXCEPT ![c] = Chunk(@.prev_used, n, TRUE)], c, c + n),
             c + n, Chunk(TRUE, size - n, FALSE))

\* handle_free_chunk: the footers and the bins.
TakeFoot(hd, ft, c, n) ==
    LET size == hd[c].size IN
    IF Whole(hd, c, n) THEN Overwritten(ft, c, c + size)
    ELSE Put(Overwritten(ft, c, c + n), c + size, size - n)
TakeLists(hd, ls, f, n) ==
    LET rest == DeleteFrom(ls, f.bin, f.chunk)
        size == hd[f.chunk].size
    IN  IF Whole(hd, f.chunk, n) THEN rest ELSE AddChunk(rest, f.chunk + n, size - n)

\* check_if_over_threshold: n more bytes take allocated_size to the threshold.
OverThreshold(n, threshold) ==
    LET next == IF allocated_size = 0 THEN threshold
                ELSE ((allocated_size + threshold - 1) \div threshold) * threshold
    IN  allocated_size < next /\ next <= allocated_size + n

\* turn_on_major_or_compaction, and allocated_size += n after it.
TurnOnMajorOrCompaction(n) ==
    LET compact == OverThreshold(n, (arena_size \div 3) * 2)
        major == ~compact /\ OverThreshold(n, arena_size \div 2)
    IN  /\ allocated_size' = (IF compact THEN 0 ELSE allocated_size) + n
        /\ compaction_flag' = (compaction_flag \/ compact)
        /\ major_gc_flag' = (major_gc_flag \/ major)

\* alloc: handle_free_chunk on what was found in the given memory.
Take(hd, ft, ls, f, size) ==
    LET n == SizeIncludingHeader(size) IN
    /\ head' = TakeHead(hd, f.chunk, n)
    /\ foot' = TakeFoot(hd, ft, f.chunk, n)
    /\ lists' = TakeLists(hd, ls, f, n)
    /\ objs' = Put(objs, f.chunk, size)

\* YogMarkSweepCompact_alloc: a free chunk is found.
Alloc(size) ==
    LET n == SizeIncludingHeader(size)
        f == FindBestChunk(head, lists, n)
    IN  /\ n < Limit
        /\ f # NoChunk
        /\ Take(head, foot, lists, f, size)
        /\ TurnOnMajorOrCompaction(n)
        /\ UNCHANGED <<maps, arenas>>

\* YogMarkSweepCompact_alloc: none is found, add_arena and look again.
AllocInNewArena(size) ==
    LET n == SizeIncludingHeader(size)
        i == NewSlot
        hd == ArenaHead(head, i)
        ft == ArenaFoot(foot, i)
        ls == AddChunk(lists, FirstChunk(i), Limit)
    IN  /\ n < Limit
        /\ FindBestChunk(head, lists, n) = NoChunk
        /\ CanMap
        /\ maps' = [maps EXCEPT ![i] = arena_size]
        /\ arenas' = arenas \cup {i}
        /\ Take(hd, ft, ls, FindBestChunk(hd, ls, n), size)
        /\ TurnOnMajorOrCompaction(n)

\* alloc_huge.
AllocHuge(size) ==
    LET n == SizeIncludingHeader(size)
        i == NewSlot
    IN  /\ Limit <= n
        /\ CanMap
        /\ maps' = [maps EXCEPT ![i] = n]
        /\ head' = Put(head, Base(i), Chunk(FALSE, n, TRUE))
        /\ objs' = Put(objs, Base(i), size)
        /\ UNCHANGED <<arenas, foot, lists, flagVars>>

-----------------------------------------------------------------------------
(* Sweeping.                                                               *)

\* The end of a major collection: YogGC_perform_minor resets the flag it acted
\* upon; a collection that gc_stress asked for leaves the flags alone.
EndMajor ==
    \/ /\ compaction_flag' = FALSE
       /\ major_gc_flag' = (compaction_flag /\ major_gc_flag)
       /\ UNCHANGED allocated_size
    \/ UNCHANGED flagVars

\* A major collection finds that the objects in garbage are not marked.  The
\* program stands still until the last of them is deleted.
Sweep(garbage) ==
    /\ dead' = garbage
    /\ IF garbage = {} THEN EndMajor ELSE UNCHANGED flagVars
    /\ UNCHANGED <<memVars, failed>>

Without(f, as) == Restrict(f, DOMAIN f \ as)

\* Mutant of DeleteHuge: the memory is not given back.
DeleteHugeKeeps(a) ==
    /\ Limit <= head[a].size
    /\ head' = Without(head, {a})
    /\ UNCHANGED <<maps, failed, arenas, foot, lists>>

\* delete: a chunk with the size of a huge one goes back to the system.  munmap
\* refuses an address that is not the start of a mapping.
DeleteHuge(a) ==
    /\ Limit <= head[a].size
    /\ \/ \E i \in Slots : /\ a = Base(i)
                           /\ maps' = [maps EXCEPT ![i] = 0]
                           /\ head' = Without(head, {a})
                           /\ UNCHANGED failed
       \/ /\ \A i \in Slots : a # Base(i)
          /\ failed' = TRUE
          /\ UNCHANGED <<maps, head>>
    /\ UNCHANGED <<arenas, foot, lists>>

\* merge_with_prev_chunk and merge_with_next_chunk: where the merged chunk
\* starts and ends.
MergedStart(a) == IF head[a].prev_used THEN a ELSE a - foot[a]
MergedEnd(a) == LET next == a + head[a].size
                IN  IF head[next].used THEN next ELSE next + head[next].size

\* Mutant of MergedLists: the bin of the merged size is not chosen anew.
MergedListsOldBin(a) ==
    LET p == MergedStart(a)
        next == a + head[a].size
        ls1 == IF p = a THEN lists ELSE DeleteFrom(lists, ListOfSize(foot[a]), p)
        ls2 == IF head[next].used THEN ls1
               ELSE DeleteFrom(ls1, ListOfSize(head[next].size), next)
    IN  AddChunk(ls2, p, head[a].size)

\* The bins: the neighbours leave theirs and the merged chunk enters its own.
MergedLists(a) ==
    LET p == MergedStart(a)
        next == a + head[a].size
        ls1 == IF p = a THEN lists ELSE DeleteFrom(lists, ListOfSize(foot[a]), p)
        ls2 == IF head[next].used THEN ls1
               ELSE DeleteFrom(ls1, ListOfSize(head[next].size), next)
    IN  AddChunk(ls2, p, MergedEnd(a) - p)

\* delete: the chunk becomes free and is merged with its free neighbours.
DeleteChunk(a) ==
    LET p == MergedStart(a)
        end == MergedEnd(a)
        next == a + head[a].size
    IN  /\ head[a].size < Limit
        /\ head' = Without([head EXCEPT ![p] = Chunk(@.prev_used, end - p, FALSE),
                                        ![end].prev_used = FALSE],
                           ({a, next} \ {p, end}))
        /\ foot' = Put(Without(foot, {a, next}), end, end - p)
        /\ lists' = MergedLists(a)
        /\ UNCHANGED <<maps, arenas, failed>>

\* Mutant of DeleteGarbage: the next object to look at is read from the one deleted.
DeleteGarbageAgain(a) ==
    /\ a \in dead
    /\ DeleteHuge(a) \/ DeleteChunk(a)
    /\ objs' = Without(objs, {a})
    /\ UNCHANGED <<dead, flagVars>>

\* YogMarkSweepCompact_delete_garbage, one object of it; the collection is over
\* with the last one.
DeleteGarbage(a) ==
    /\ a \in dead
    /\ DeleteHuge(a) \/ DeleteChunk(a)
    /\ objs' = Without(objs, {a})
    /\ dead' = dead \ {a}
    /\ IF dead = {a} THEN EndMajor ELSE UNCHANGED flagVars

\* delete_heap: the heap is empty and its thread has ended.
DeleteHeap ==
    /\ DOMAIN objs = {}
    /\ maps' = [i \in Slots |-> IF i \in arenas THEN 0 ELSE maps[i]]
    /\ arenas' = {}
    /\ head' = <<>>
    /\ foot' = <<>>
    /\ lists' = NoLists
    /\ UNCHANGED <<objs, dead, flagVars, failed>>

\* The heap exists and the system has not failed.
Alive == arenas # {} /\ ~failed

Next ==
    \/ /\ Alive
       /\ dead = {}
       /\ \/ /\ \E size \in Sizes : Alloc(size) \/ AllocInNewArena(size) \/ AllocHuge(size)
             /\ UNCHANGED <<dead, failed>>
          \/ \E garbage \in SUBSET DOMAIN objs : Sweep(garbage)
          \/ DeleteHeap
    \/ Alive /\ \E a \in dead : DeleteGarbage(a)

Spec == Init /\ [][Next]_vars

-----------------------------------------------------------------------------
(* Properties.                                                             *)

\* The chunks of arena i, found by their headers.
ChunksOf(i) == {a \in DOMAIN head : FirstChunk(i) <= a /\ a < Sentinel(i)}

\* Boundary tags: the chunks of an arena follow one another without a gap up to
\* the sentinel, prev_used says whether the chunk before is used, a free chunk
\* has its size in its footer, and no two free chunks are neighbours (what
\* "= Deallocating" in mark-sweep-compact.c draws).
BoundaryTags ==
    \A i \in arenas :
        /\ FirstChunk(i) \in ChunksOf(i)
        /\ head[FirstChunk(i)].prev_used
        /\ \A a \in ChunksOf(i) :
              LET next == a + head[a].size IN
              /\ next \in ChunksOf(i) \cup {Sentinel(i)}
              /\ \A b \in ChunksOf(i) : b <= a \/ next <= b
              /\ head[next].prev_used = head[a].used
              /\ ~head[a].used => /\ head[next].used
                                  /\ next \in DOMAIN foot
                                  /\ foot[next] = head[a].size
                                  /\ MIN_SMALL_SIZE <= head[a].size

\* A free chunk is in the list of its size, once, and nothing else is in a list:
\* "Each link concatenates chunks of same size".
FreeListsExact ==
    LET free == {a \in UNION {ChunksOf(i) : i \in arenas} : ~head[a].used} IN
    \A b \in DOMAIN lists :
        /\ IsInjective(lists[b])
        /\ {lists[b][k] : k \in DOMAIN lists[b]} = {a \in free : ListOfSize(head[a].size) = b}

\* The room of an object: its chunk behind the header.
Room(a) == (a + SizeofChunkHeader) .. (a + head[a].size - 1)

\* Live objects have the room they asked for, in a mapping, and share no byte
\* with one another or with a chunk header.
ObjectsDisjoint ==
    \A a \in DOMAIN objs :
        /\ a \in DOMAIN head /\ head[a].used
        /\ RoundedSize(objs[a]) + SizeofHeader <= Cardinality(Room(a))
        /\ \E i \in Slots : maps[i] > 0 /\ a \in Base(i) .. Base(i) + maps[i] - head[a].size
        /\ \A b \in DOMAIN objs \ {a} : Room(a) \cap Room(b) = {}
        /\ \A b \in DOMAIN head : b \notin Room(a)

\* Every mapping is an arena of the heap or a live huge object: nothing that was
\* deleted stays mapped, and nothing is left when the heap is deleted.
NothingLeaks ==
    \A i \in Slots : maps[i] > 0 => i \in arenas \/ Base(i) \in DOMAIN objs

FreeChunks == {a \in DOMAIN head : ~head[a].used}

\* "the allocator finds the best chunk from this links": a new object gets the
\* smallest free chunk that is large enough, and an arena is added only when
\* there is none.
BestFit ==
    [][\A a \in DOMAIN objs' \ DOMAIN objs :
          LET n == SizeIncludingHeader(objs'[a])
              fits == {c \in FreeChunks : n <= head[c].size}
          IN  n < Limit =>
              IF fits = {} THEN arenas' # arenas
              ELSE a \in fits /\ \A c \in fits : head[a].size <= head[c].size]_vars
=============================================================================
