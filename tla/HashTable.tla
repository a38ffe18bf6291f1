----------------------------- MODULE HashTable -----------------------------
(***************************************************************************)
(* The hash table (table.c) of the dictionaries, sets, packages, symbols   *)
(* and attributes: bins of chained entries that are hashed anew when they  *)
(* grow too dense, and iterators that stand on an entry while the block of *)
(* Dict#each or Set#each changes the table.                                *)
(*                                                                         *)
(* The methods hash and == of the keys are well-behaved: they do not touch *)
(* the table, and keys that are equal are one key here.  So nothing comes  *)
(* between the steps of one operation, and an operation is one action.     *)
(***************************************************************************)
EXTENDS Integers, Sequences, SequencesExt, FiniteSetsExt

CONSTANTS Keys, Values,
          Absent,       \* no key and no value
          Hash,         \* Hash[k]: what the method hash of k returns
          MinSize,      \* MINSIZE
          Primes,       \* primes
          MaxDensity    \* ST_DEFAULT_MAX_DENSITY

ASSUME TableAssumption ==
    /\ Absent \notin Keys \cup Values
    /\ Hash \in [Keys -> Nat]
    /\ MinSize \in Nat \ {0} /\ MaxDensity \in Nat
    /\ Primes \in Seq(Nat \ {0})

VARIABLES num_bins, num_entries,
          bins,         \* bins[i]: the entries of bin i along their next pointers
          found,        \* what the last operation returned
          value,        \* the value it was given, or *value
          iter,         \* the iterator of the each that runs: bins_index and entry
          trip          \* history: the keys at its start, the calls of the block with
                        \* each key, and whether the table has grown since

table == <<num_bins, num_entries, bins>>
vars == <<num_bins, num_entries, bins, found, value, iter, trip>>

Entry(k, v) == [key |-> k, record |-> v]
EntrySet == [key : Keys, record : Values]

NoIter == [on |-> FALSE, bins_index |-> 0, entry |-> Absent]
NoTrip == [start |-> {}, visits |-> [k \in Keys |-> 0], rehashed |-> FALSE]

-----------------------------------------------------------------------------
(* Sizes, bins and entries. *)

new_size(size) ==
    LET I == {i \in DOMAIN Primes : MinSize * 2 ^ (i - 1) > size}
    IN  IF I = {} THEN -1 ELSE Primes[Min(I)]

bin_pos(k, n) == Hash[k] % n

\* A new table has bins.
ASSUME SmallestSize == new_size(0) > 0

\* All entries, bin by bin: the order in which loops over a table meet them.
Entries == FlattenSeq([i \in 1 .. num_bins |-> bins[i - 1]])

\* rehash: every entry is put at the head of its new bin in that order.
Rehashed(n) ==
    LET old == Entries
        new[i \in 0 .. Len(old)] ==
            IF i = 0 THEN [b \in 0 .. n - 1 |-> <<>>]
            ELSE [new[i - 1] EXCEPT ![bin_pos(old[i].key, n)] = <<old[i]>> \o @]
    IN  new[Len(old)]

\* The place of key k in its chain, 0 when find_entry does not find it.
find_entry(k) ==
    LET chain == bins[bin_pos(k, num_bins)]
    IN  SelectInSeq(chain, LAMBDA e : e.key = k)

Init ==
    /\ num_bins = new_size(0) /\ num_entries = 0
    /\ bins = [b \in 0 .. num_bins - 1 |-> <<>>]
    /\ found = FALSE /\ value = Absent
    /\ iter = NoIter /\ trip = NoTrip

-----------------------------------------------------------------------------
(* Operations. *)

\* Mutant of add_direct: the bin is not computed anew after rehash.
AddToOldBin(k, v) ==
    LET dense == MaxDensity < num_entries \div num_bins
        n == IF dense THEN new_size(num_bins + 1) ELSE num_bins
        b == IF dense THEN Rehashed(n) ELSE bins
    IN  /\ n > 0
        /\ num_bins' = n
        /\ bins' = [b EXCEPT ![bin_pos(k, num_bins)] = <<Entry(k, v)>> \o @]
        /\ num_entries' = num_entries + 1
        /\ trip' = IF dense /\ iter.on THEN [NoTrip EXCEPT !.rehashed = TRUE] ELSE trip

\* add_direct: the table grows first when it is dense, as far as there are primes.
add_direct(k, v) ==
    LET dense == MaxDensity < num_entries \div num_bins
        n == IF dense THEN new_size(num_bins + 1) ELSE num_bins
        b == IF dense THEN Rehashed(n) ELSE bins
    IN  /\ n > 0
        /\ num_bins' = n
        /\ bins' = [b EXCEPT ![bin_pos(k, n)] = <<Entry(k, v)>> \o @]
        /\ num_entries' = num_entries + 1
        /\ trip' = IF dense /\ iter.on THEN [NoTrip EXCEPT !.rehashed = TRUE] ELSE trip

\* YogTable_insert, of Dict#[]=, Set#add and YogDict_add.
Insert(k, v) ==
    LET i == find_entry(k)
    IN  /\ IF i = 0 THEN add_direct(k, v)
           ELSE /\ bins' = [bins EXCEPT ![bin_pos(k, num_bins)][i].record = v]
                /\ UNCHANGED <<num_bins, num_entries, trip>>
        /\ found' = (i # 0) /\ value' = v
        /\ UNCHANGED iter

\* YogTable_add_direct: its callers have looked and not found the key.
AddDirect(k, v) ==
    /\ find_entry(k) = 0
    /\ add_direct(k, v)
    /\ found' = FALSE /\ value' = v
    /\ UNCHANGED iter

\* YogTable_lookup, of Dict#[], Set#include? and the names of a package.
Lookup(k) ==
    LET i == find_entry(k)
    IN  /\ found' = (i # 0)
        /\ value' = IF i = 0 THEN Absent ELSE bins[bin_pos(k, num_bins)][i].record
        /\ UNCHANGED <<table, iter, trip>>

\* Mutant of YogTable_delete: only the head of the chain is counted.
DeleteMiscounts(k) ==
    LET i == find_entry(k)
    IN  /\ ~iter.on
        /\ bins' = IF i = 0 THEN bins ELSE [bins EXCEPT ![bin_pos(k, num_bins)] = RemoveAt(@, i)]
        /\ num_entries' = IF i = 1 THEN num_entries - 1 ELSE num_entries
        /\ found' = (i # 0) /\ value' = Absent
        /\ UNCHANGED <<num_bins, iter, trip>>

\* YogTable_delete: only for vm->pkgs, which nobody iterates over.  It does not
\* compare hashes, which for one key is the same.
Delete(k) ==
    LET i == find_entry(k)
    IN  /\ ~iter.on
        /\ bins' = IF i = 0 THEN bins ELSE [bins EXCEPT ![bin_pos(k, num_bins)] = RemoveAt(@, i)]
        /\ num_entries' = IF i = 0 THEN num_entries ELSE num_entries - 1
        /\ found' = (i # 0) /\ value' = Absent
        /\ UNCHANGED <<num_bins, iter, trip>>

-----------------------------------------------------------------------------
(* Iteration: each asks for the next entry and calls the block, which may   *)
(* use the table.                                                           *)

KeysOf(entries) == {entries[i].key : i \in DOMAIN entries}

\* YogTable_get_iterator.
EachBegins ==
    /\ ~iter.on
    /\ iter' = [on |-> TRUE, bins_index |-> 0, entry |-> Absent]
    /\ trip' = [NoTrip EXCEPT !.start = KeysOf(Entries)]
    /\ UNCHANGED <<table, found, value>>

\* The key after the iterator's entry in the chain where that entry is now.
NextInChain ==
    LET P == {p \in (DOMAIN bins) \X (1 .. num_entries) :
                p[2] < Len(bins[p[1]]) /\ bins[p[1]][p[2]].key = iter.entry}
        q == CHOOSE p \in P : TRUE
    IN  IF P = {} THEN Absent ELSE bins[q[1]][q[2] + 1].key

\* The first bin from i on that has an entry, num_bins when there is none.
NextBin(i) == Min({b \in i .. num_bins - 1 : bins[b] # <<>>} \cup {num_bins})

\* Mutant of YogTableIterator_next: bins_index goes past a bin that was not looked at.
NextSkips ==
    LET next == NextInChain
        b == NextBin(iter.bins_index)
    IN  IF next # Absent THEN [iter EXCEPT !.entry = next]
        ELSE IF b < num_bins
        THEN [iter EXCEPT !.bins_index = b + 2, !.entry = Head(bins[b]).key]
        ELSE NoIter

\* YogTableIterator_next: the entry after this one, or the first of a later bin.
IteratorNext ==
    LET next == NextInChain
        b == NextBin(iter.bins_index)
    IN  IF next # Absent THEN [iter EXCEPT !.entry = next]
        ELSE IF b < num_bins
        THEN [iter EXCEPT !.bins_index = b + 1, !.entry = Head(bins[b]).key]
        ELSE NoIter

EachNext ==
    /\ iter.on
    /\ iter' = IteratorNext
    /\ trip' = IF ~iter'.on THEN NoTrip
               ELSE IF trip.rehashed THEN trip
               ELSE [trip EXCEPT !.visits[iter'.entry] = @ + 1]
    /\ UNCHANGED <<table, found, value>>

-----------------------------------------------------------------------------
Next ==
    \/ \E k \in Keys : Lookup(k) \/ Delete(k)
    \/ \E k \in Keys, v \in Values : Insert(k, v) \/ AddDirect(k, v)
    \/ EachBegins \/ EachNext

Spec == Init /\ [][Next]_vars

-----------------------------------------------------------------------------
(* Properties. *)

\* The contents of the table as lookups see them.
Contents ==
    LET K == {k \in Keys : find_entry(k) # 0}
    IN  [k \in K |-> bins[bin_pos(k, num_bins)][find_entry(k)].record]

D == INSTANCE Dictionary WITH map <- Contents, size <- num_entries

\* Whatever bins the keys share, through growth and deletion, insert, lookup, delete
\* and size are those of a dictionary: no key is lost or found twice when the table
\* is hashed anew, and size counts what lookups find.
IsDictionary == D!Spec

\* Every entry is in the bin of its hash, no key has two entries, and num_entries
\* counts the entries of all chains: what lets find_entry look at one bin only and
\* YogTable_size stand for the next index of a variable (compile.c:675).
TableShape ==
    /\ DOMAIN bins = 0 .. num_bins - 1
    /\ \A b \in DOMAIN bins : \A i \in DOMAIN bins[b] : bin_pos(bins[b][i].key, num_bins) = b
    /\ num_entries = Len(Entries) /\ num_entries = Cardinality(KeysOf(Entries))

\* The type of the table; a running iterator stands in front of all bins or on an
\* entry that is there, and no call of the block is counted while none runs.
TypeOK ==
    /\ num_bins \in Nat \ {0} /\ num_entries \in Nat
    /\ bins \in [0 .. num_bins - 1 -> Seq(EntrySet)]
    /\ found \in BOOLEAN /\ value \in Values \cup {Absent}
    /\ iter \in [on : BOOLEAN, bins_index : Nat, entry : Keys \cup {Absent}]
    /\ trip \in [start : SUBSET Keys, visits : [Keys -> 0 .. 1], rehashed : BOOLEAN]
    /\ ~iter.on => iter = NoIter /\ trip = NoTrip

\* Every entry is in the bin of its hash, and no chain has a key twice.
ChainsApart ==
    \A b \in DOMAIN bins : \A i \in DOMAIN bins[b] :
        /\ bin_pos(bins[b][i].key, num_bins) = b
        /\ \A j \in DOMAIN bins[b] : bins[b][i].key = bins[b][j].key => i = j

TableKeys == UNION {KeysOf(bins[b]) : b \in DOMAIN bins}

\* The iterator has met the key at place i of chain b, or went past it.
Passed(b, i) ==
    \/ b + 1 < iter.bins_index
    \/ b + 1 = iter.bins_index /\ \E j \in i .. Len(bins[b]) : bins[b][j].key = iter.entry

\* While no rehashing has mixed the chains, the block was called with exactly those
\* keys of the start that the iterator has passed.
TripInv ==
    /\ iter.on => \/ iter.entry = Absent /\ iter.bins_index = 0
                  \/ iter.entry \in TableKeys
    /\ iter.on /\ ~trip.rehashed =>
        /\ iter.entry # Absent => bin_pos(iter.entry, num_bins) + 1 = iter.bins_index
        /\ trip.start \subseteq TableKeys
        /\ \A k \in Keys : trip.visits[k] = 1 => k \in TableKeys
        /\ \A b \in DOMAIN bins : \A i \in DOMAIN bins[b] :
            LET k == bins[b][i].key
            IN  /\ trip.visits[k] = 1 => Passed(b, i)
                /\ k \in trip.start /\ Passed(b, i) => trip.visits[k] = 1

\* The inductive invariant of the table: chains, counter and iterator agree.
TableInv ==
    /\ TypeOK /\ ChainsApart /\ TripInv
    /\ IsFiniteSet(TableKeys) /\ num_entries = Cardinality(TableKeys)

\* A block that adds and changes keys while each runs has seen every key that was
\* there at the start exactly once, and no key twice, when each ends and the table
\* has not grown meanwhile.
EachVisitsOnce ==
    [][iter.on /\ ~iter'.on /\ ~trip.rehashed =>
         \A k \in Keys : trip.visits[k] \in (IF k \in trip.start THEN {1} ELSE {0, 1})]_vars

=============================================================================
