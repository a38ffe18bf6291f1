--------------------------- MODULE HashTableProofs ---------------------------
(***************************************************************************)
(* Proofs about HashTable, for any keys, values, hashes and sizes.  The    *)
(* operations are described by what they do to the set of all entries of   *)
(* the table (AllEntries), the chains by WellFormed.                       *)
(***************************************************************************)
EXTENDS HashTable, Induction, FiniteSetTheorems, SequenceTheorems, TLAPS

Distinct(s) == \A i, j \in DOMAIN s : s[i].key = s[j].key => i = j

\* The chains bs are those of a table with n bins.
WellFormed(bs, n) ==
    /\ bs \in [0 .. n - 1 -> Seq(EntrySet)]
    /\ \A b \in 0 .. n - 1 : /\ Distinct(bs[b])
                             /\ \A i \in DOMAIN bs[b] : bin_pos(bs[b][i].key, n) = b

AllEntries(bs) == UNION {Range(bs[b]) : b \in DOMAIN bs}

LEMMA EntryHasPlace ==
  ASSUME NEW bs, NEW e \in AllEntries(bs)
  PROVE  \E b \in DOMAIN bs : \E i \in DOMAIN bs[b] : e = bs[b][i]
  BY DEF AllEntries, Range

LEMMA PlaceHasEntry ==
  ASSUME NEW bs, NEW b \in DOMAIN bs, NEW i \in DOMAIN bs[b]
  PROVE  bs[b][i] \in AllEntries(bs)
  BY DEF AllEntries, Range

-----------------------------------------------------------------------------
(* Sequences of entries.                                                   *)

\* A chain without duplicates has as many keys as entries.
LEMMA DistinctCardinality ==
  ASSUME NEW s \in Seq(EntrySet), Distinct(s)
  PROVE  IsFiniteSet(KeysOf(s)) /\ Cardinality(KeysOf(s)) = Len(s)
  <1> DEFINE f == [i \in 1 .. Len(s) |-> s[i].key]
  <1>1. Len(s) \in Nat /\ DOMAIN s = 1 .. Len(s)
    OBVIOUS
  <1>2. f \in Bijection(1 .. Len(s), KeysOf(s))
    BY <1>1 DEF Bijection, Injection, Surjection, IsInjective, Distinct, KeysOf
  <1>3. IsFiniteSet(1 .. Len(s)) /\ Cardinality(1 .. Len(s)) = Len(s)
    BY <1>1, FS_Interval, SMTT(30)
  <1> QED
    BY <1>2, <1>3, FS_Bijection DEF ExistsBijection

\* Sequences without a common key.
LEMMA ConcatDistinct ==
  ASSUME NEW s \in Seq(EntrySet), NEW t \in Seq(EntrySet), Distinct(s), Distinct(t),
         \A i \in DOMAIN s, j \in DOMAIN t : s[i].key # t[j].key
  PROVE  /\ s \o t \in Seq(EntrySet) /\ Distinct(s \o t)
         /\ Range(s \o t) = Range(s) \cup Range(t)
  <1> DEFINE u == s \o t
  <1>1. /\ u \in Seq(EntrySet) /\ Len(u) = Len(s) + Len(t)
        /\ Len(s) \in Nat /\ Len(t) \in Nat
        /\ DOMAIN s = 1 .. Len(s) /\ DOMAIN t = 1 .. Len(t) /\ DOMAIN u = 1 .. Len(u)
        /\ \A i \in 1 .. Len(u) : u[i] = IF i <= Len(s) THEN s[i] ELSE t[i - Len(s)]
    BY ConcatProperties
  <1> HIDE DEF u
  <1>2. \A i \in DOMAIN u : \/ i \in DOMAIN s /\ u[i] = s[i]
                            \/ i - Len(s) \in DOMAIN t /\ u[i] = t[i - Len(s)]
    BY <1>1
  <1>3. \A i \in DOMAIN s : i \in DOMAIN u /\ u[i] = s[i]
    BY <1>1
  <1>4. \A j \in DOMAIN t : j + Len(s) \in DOMAIN u /\ u[j + Len(s)] = t[j]
    BY <1>1
  <1>5. Range(u) = Range(s) \cup Range(t)
    <2>1. ASSUME NEW e \in Range(u) PROVE e \in Range(s) \cup Range(t)
      BY <1>2, <2>1 DEF Range
    <2>2. ASSUME NEW e \in Range(s) PROVE e \in Range(u)
      BY <1>3, <2>2 DEF Range
    <2>3. ASSUME NEW e \in Range(t) PROVE e \in Range(u)
      BY <1>4, <2>3 DEF Range
    <2> QED
      BY <2>1, <2>2, <2>3
  <1>6. Distinct(u)
    <2> SUFFICES ASSUME NEW i \in DOMAIN u, NEW j \in DOMAIN u, u[i].key = u[j].key
                 PROVE  i = j
      BY DEF Distinct
    <2>1. CASE i \in DOMAIN s /\ u[i] = s[i]
      <3>1. j \in DOMAIN s /\ u[j] = s[j]
        BY <1>2, <2>1
      <3> QED
        BY <2>1, <3>1 DEF Distinct
    <2>2. CASE i - Len(s) \in DOMAIN t /\ u[i] = t[i - Len(s)]
      <3>1. j - Len(s) \in DOMAIN t /\ u[j] = t[j - Len(s)]
        BY <1>2, <2>2
      <3>2. i - Len(s) = j - Len(s)
        BY <2>2, <3>1 DEF Distinct
      <3> QED
        BY <1>1, <3>2
    <2> QED
      BY <1>2, <2>1, <2>2
  <1> QED
    BY <1>1, <1>5, <1>6 DEF u

-----------------------------------------------------------------------------
(* Chains.                                                                 *)

LEMMA BinExists ==
  ASSUME NEW k \in Keys, NEW n \in Nat \ {0}
  PROVE  bin_pos(k, n) \in 0 .. n - 1
  <1>1. \A h \in Nat : h % n \in 0 .. n - 1
    OBVIOUS
  <1> QED
    BY <1>1, TableAssumption DEF bin_pos

\* A key is in one place of the table at most.
LEMMA OnePlace ==
  ASSUME NEW n \in Nat \ {0}, NEW bs, WellFormed(bs, n),
         NEW b \in DOMAIN bs, NEW i \in DOMAIN bs[b], NEW c \in DOMAIN bs, NEW j \in DOMAIN bs[c],
         bs[b][i].key = bs[c][j].key
  PROVE  b = c /\ i = j
  BY DEF WellFormed, Distinct

\* An entry is put at the head of its chain.
Put(bs, n, e) == [bs EXCEPT ![bin_pos(e.key, n)] = <<e>> \o @]

LEMMA PutAtHead ==
  ASSUME NEW n \in Nat \ {0}, NEW bs, WellFormed(bs, n), NEW e \in EntrySet,
         \A f \in AllEntries(bs) : f.key # e.key
  PROVE  LET b == bin_pos(e.key, n)
             c == Put(bs, n, e)
         IN  /\ WellFormed(c, n) /\ AllEntries(c) = AllEntries(bs) \cup {e}
             /\ b \in DOMAIN bs /\ DOMAIN c = DOMAIN bs
             /\ \A a \in DOMAIN bs \ {b} : c[a] = bs[a]
             /\ Len(c[b]) = Len(bs[b]) + 1 /\ c[b][1] = e
             /\ \A i \in DOMAIN bs[b] : c[b][i + 1] = bs[b][i]
  <1> DEFINE b == bin_pos(e.key, n)
             c == [bs EXCEPT ![b] = <<e>> \o @]
  <1>1. b \in 0 .. n - 1 /\ DOMAIN bs = 0 .. n - 1 /\ DOMAIN c = 0 .. n - 1 /\ bs[b] \in Seq(EntrySet)
    <2>1. e.key \in Keys
      BY DEF EntrySet
    <2> QED
      BY <2>1, BinExists DEF WellFormed
  <1> HIDE DEF b
  <1>2. \A a \in DOMAIN bs \ {b} : c[a] = bs[a]
    OBVIOUS
  <1>3. c[b] = <<e>> \o bs[b]
    BY <1>1
  <1> HIDE DEF c
  <1>4. /\ <<e>> \in Seq(EntrySet) /\ Distinct(<<e>>) /\ Range(<<e>>) = {e}
        /\ DOMAIN <<e>> = {1} /\ <<e>>[1] = e /\ Len(<<e>>) = 1
    BY DEF Distinct, Range
  <1>5. \A i \in DOMAIN <<e>>, j \in DOMAIN bs[b] : <<e>>[i].key # bs[b][j].key
    BY <1>1, <1>4 DEF AllEntries, Range
  <1>6. c[b] \in Seq(EntrySet) /\ Distinct(c[b]) /\ Range(c[b]) = {e} \cup Range(bs[b])
    <2>1. Distinct(bs[b])
      BY <1>1 DEF WellFormed
    <2>2. /\ <<e>> \o bs[b] \in Seq(EntrySet) /\ Distinct(<<e>> \o bs[b])
          /\ Range(<<e>> \o bs[b]) = Range(<<e>>) \cup Range(bs[b])
      BY <1>1, <1>4, <1>5, <2>1, ConcatDistinct
    <2> QED
      BY <1>3, <1>4, <2>2
  <1>7. /\ Len(c[b]) = Len(bs[b]) + 1 /\ c[b][1] = e
        /\ DOMAIN bs[b] = 1 .. Len(bs[b]) /\ DOMAIN c[b] = 1 .. Len(bs[b]) + 1
        /\ \A i \in DOMAIN bs[b] : c[b][i + 1] = bs[b][i]
    <2>1. \A i \in 1 .. 1 + Len(bs[b]) : c[b][i] = IF i <= 1 THEN <<e>>[i] ELSE bs[b][i - 1]
      BY <1>1, <1>3, <1>4, ConcatProperties
    <2>2. Len(c[b]) = 1 + Len(bs[b]) /\ Len(bs[b]) \in Nat
      BY <1>1, <1>3, <1>4, ConcatProperties
    <2> QED
      BY <1>1, <1>4, <1>6, <2>1, <2>2
  <1>8. WellFormed(c, n)
    <2>1. c \in [0 .. n - 1 -> Seq(EntrySet)]
      BY <1>1, <1>6 DEF WellFormed, c
    <2>2. \A i \in DOMAIN c[b] : bin_pos(c[b][i].key, n) = b
      <3> SUFFICES ASSUME NEW i \in DOMAIN c[b] PROVE bin_pos(c[b][i].key, n) = b
        OBVIOUS
      <3>1. CASE i = 1
        BY <1>7, <3>1 DEF b
      <3>2. CASE i # 1
        <4>1. i - 1 \in DOMAIN bs[b] /\ c[b][i] = bs[b][i - 1]
          BY <1>1, <1>7, <3>2
        <4> QED
          BY <1>1, <4>1 DEF WellFormed
      <3> QED
        BY <3>1, <3>2
    <2>3. \A a \in 0 .. n - 1 : /\ Distinct(c[a])
                                /\ \A i \in DOMAIN c[a] : bin_pos(c[a][i].key, n) = a
      <3> SUFFICES ASSUME NEW a \in 0 .. n - 1
                   PROVE  /\ Distinct(c[a])
                          /\ \A i \in DOMAIN c[a] : bin_pos(c[a][i].key, n) = a
        OBVIOUS
      <3>1. CASE a = b
        BY <1>6, <2>2, <3>1
      <3>2. CASE a # b
        BY <1>1, <1>2, <3>2 DEF WellFormed
      <3> QED
        BY <3>1, <3>2
    <2> QED
      BY <2>1, <2>3 DEF WellFormed
  <1>9. AllEntries(c) = AllEntries(bs) \cup {e}
    <2>1. \A a \in 0 .. n - 1 : Range(c[a]) = IF a = b THEN {e} \cup Range(bs[a]) ELSE Range(bs[a])
      BY <1>1, <1>2, <1>6
    <2> QED
      BY <1>1, <2>1 DEF AllEntries
  <1> QED
    BY <1>1, <1>2, <1>7, <1>8, <1>9 DEF b, c, Put

\* The record of an entry is replaced.
Replace(bs, b, i, v) == [bs EXCEPT ![b][i].record = v]

LEMMA SetRecord ==
  ASSUME NEW n \in Nat \ {0}, NEW bs, WellFormed(bs, n), NEW v \in Values,
         NEW b \in DOMAIN bs, NEW i \in DOMAIN bs[b]
  PROVE  LET c == Replace(bs, b, i, v)
         IN  /\ WellFormed(c, n)
             /\ AllEntries(c) = (AllEntries(bs) \ {bs[b][i]}) \cup {Entry(bs[b][i].key, v)}
             /\ DOMAIN c = DOMAIN bs
             /\ \A a \in DOMAIN bs : /\ DOMAIN c[a] = DOMAIN bs[a] /\ Len(c[a]) = Len(bs[a])
                                     /\ \A j \in DOMAIN bs[a] : c[a][j].key = bs[a][j].key
  <1> DEFINE e == Entry(bs[b][i].key, v)
             c == [bs EXCEPT ![b][i].record = v]
  <1>1. /\ DOMAIN bs = 0 .. n - 1 /\ \A a \in DOMAIN bs : bs[a] \in Seq(EntrySet)
        /\ \A a \in DOMAIN bs : DOMAIN bs[a] = 1 .. Len(bs[a])
    BY DEF WellFormed
  <1>2. bs[b][i] \in EntrySet /\ e \in EntrySet /\ e = [bs[b][i] EXCEPT !.record = v]
        /\ e.key = bs[b][i].key
    <2>1. bs[b][i] \in EntrySet
      BY <1>1
    <2>2. \A f \in EntrySet : /\ Entry(f.key, v) \in EntrySet
                              /\ Entry(f.key, v) = [f EXCEPT !.record = v]
                              /\ Entry(f.key, v).key = f.key
      BY DEF EntrySet, Entry
    <2> QED
      BY <2>1, <2>2
  <1>3. c = [bs EXCEPT ![b] = [bs[b] EXCEPT ![i] = e]]
    BY <1>2
  <1> HIDE DEF e, c
  <1>4. \A a \in DOMAIN bs \ {b} : c[a] = bs[a]
    BY <1>3
  <1>5. /\ c[b] \in Seq(EntrySet) /\ DOMAIN c[b] = DOMAIN bs[b] /\ Len(c[b]) = Len(bs[b])
        /\ c[b][i] = e /\ \A j \in DOMAIN bs[b] \ {i} : c[b][j] = bs[b][j]
    <2>1. c[b] = [bs[b] EXCEPT ![i] = e]
      BY <1>3
    <2> QED
      BY <1>1, <1>2, <2>1, ExceptSeq
  <1>6. /\ DOMAIN c = DOMAIN bs
        /\ \A a \in DOMAIN bs : /\ c[a] \in Seq(EntrySet)
                                /\ DOMAIN c[a] = DOMAIN bs[a] /\ Len(c[a]) = Len(bs[a])
                                /\ \A j \in DOMAIN bs[a] : c[a][j].key = bs[a][j].key
    BY <1>1, <1>2, <1>3, <1>4, <1>5
  <1>7. WellFormed(c, n)
    <2>1. c \in [0 .. n - 1 -> Seq(EntrySet)]
      BY <1>1, <1>3, <1>6
    <2> QED
      BY <1>1, <1>6, <2>1 DEF WellFormed, Distinct
  <1>8. AllEntries(c) = (AllEntries(bs) \ {bs[b][i]}) \cup {e}
    <2>1. ASSUME NEW f \in AllEntries(c) PROVE f \in (AllEntries(bs) \ {bs[b][i]}) \cup {e}
      <3>0. PICK a \in DOMAIN c : \E j \in DOMAIN c[a] : f = c[a][j]
        BY <2>1, EntryHasPlace
      <3>1. PICK j \in DOMAIN bs[a] : a \in DOMAIN bs /\ f = c[a][j]
        BY <1>6, <3>0
      <3>2. CASE a = b /\ j = i
        BY <1>5, <3>1, <3>2
      <3>3. CASE ~(a = b /\ j = i)
        <4>1. f = bs[a][j] /\ f \in AllEntries(bs)
          BY <1>4, <1>5, <3>1, <3>3 DEF AllEntries, Range
        <4>2. bs[a][j].key # bs[b][i].key
          BY <3>1, <3>3, <1>6, OnePlace
        <4> QED
          BY <4>1, <4>2
      <3> QED
        BY <3>2, <3>3
    <2>2. ASSUME NEW f \in AllEntries(bs), f # bs[b][i] PROVE f \in AllEntries(c)
      <3>0. PICK a \in DOMAIN bs : \E j \in DOMAIN bs[a] : f = bs[a][j]
        BY <2>2, EntryHasPlace
      <3>1. PICK j \in DOMAIN bs[a] : f = bs[a][j]
        BY <3>0
      <3>2. f = c[a][j]
        BY <1>4, <1>5, <2>2, <3>1
      <3> QED
        BY <1>6, <3>1, <3>2 DEF AllEntries, Range
    <2>3. e \in AllEntries(c)
      BY <1>5, <1>6 DEF AllEntries, Range
    <2> QED
      BY <2>1, <2>2, <2>3
  <1> QED
    BY <1>6, <1>7, <1>8 DEF e, c, Replace

\* An entry is taken out of its chain.
Take(bs, b, i) == [bs EXCEPT ![b] = RemoveAt(@, i)]

LEMMA TakeOut ==
  ASSUME NEW n \in Nat \ {0}, NEW bs, WellFormed(bs, n),
         NEW b \in DOMAIN bs, NEW i \in DOMAIN bs[b]
  PROVE  LET c == Take(bs, b, i)
         IN  WellFormed(c, n) /\ AllEntries(c) = AllEntries(bs) \ {bs[b][i]}
  <1> DEFINE s == bs[b]
             c == [bs EXCEPT ![b] = RemoveAt(@, i)]
  <1>1. /\ DOMAIN bs = 0 .. n - 1 /\ s \in Seq(EntrySet)
        /\ Len(s) \in Nat /\ DOMAIN s = 1 .. Len(s) /\ Distinct(s)
    BY DEF WellFormed
  <1>2. /\ RemoveAt(s, i) \in Seq(EntrySet)
        /\ Len(RemoveAt(s, i)) = Len(s) - 1
        /\ \A j \in 1 .. Len(s) - 1 : RemoveAt(s, i)[j] = IF j < i THEN s[j] ELSE s[j + 1]
    <2> DEFINE p == SubSeq(s, 1, i - 1)
               q == SubSeq(s, i + 1, Len(s))
    <2>1. /\ p \in Seq(EntrySet) /\ Len(p) = i - 1
          /\ \A j \in 1 .. i - 1 : p[j] = s[j]
      BY <1>1, SubSeqProperties
    <2>2. /\ q \in Seq(EntrySet) /\ Len(q) = Len(s) - i
          /\ \A j \in 1 .. Len(s) - i : q[j] = s[j + i]
      BY <1>1, SubSeqProperties, SMTT(30)
    <2>3. RemoveAt(s, i) = p \o q
      BY DEF RemoveAt
    <2> HIDE DEF p, q
    <2>4. /\ p \o q \in Seq(EntrySet) /\ Len(p \o q) = Len(s) - 1
          /\ \A j \in 1 .. Len(s) - 1 :
                (p \o q)[j] = IF j <= i - 1 THEN p[j] ELSE q[j - (i - 1)]
      <3>1. /\ p \o q \in Seq(EntrySet) /\ Len(p \o q) = Len(p) + Len(q)
            /\ \A j \in 1 .. Len(p) + Len(q) :
                  (p \o q)[j] = IF j <= Len(p) THEN p[j] ELSE q[j - Len(p)]
        BY <2>1, <2>2, ConcatProperties
      <3>2. Len(p) + Len(q) = Len(s) - 1
        BY <1>1, <2>1, <2>2
      <3> QED
        BY <2>1, <3>1, <3>2
    <2>5. ASSUME NEW j \in 1 .. Len(s) - 1
          PROVE  (p \o q)[j] = IF j < i THEN s[j] ELSE s[j + 1]
      <3>1. CASE j < i
        BY <1>1, <2>1, <2>4, <3>1
      <3>2. CASE ~(j < i)
        <4>1. j - (i - 1) \in 1 .. Len(s) - i /\ ~(j <= i - 1) /\ (j - (i - 1)) + i = j + 1
          BY <1>1, <3>2
        <4> QED
          BY <2>2, <2>4, <3>2, <4>1
      <3> QED
        BY <3>1, <3>2
    <2> QED
      BY <2>3, <2>4, <2>5
  <1> DEFINE r == RemoveAt(s, i)
             old(j) == IF j < i THEN j ELSE j + 1
  <1>3. DOMAIN r = 1 .. Len(s) - 1
    BY <1>1, <1>2
  <1>4. \A j \in DOMAIN r : r[j] = s[old(j)] /\ old(j) \in DOMAIN s /\ old(j) # i
    BY <1>1, <1>2, <1>3
  <1>5. \A j \in DOMAIN s : j # i => \E k \in DOMAIN r : r[k] = s[j]
    <2> SUFFICES ASSUME NEW j \in DOMAIN s, j # i PROVE \E k \in DOMAIN r : r[k] = s[j]
      OBVIOUS
    <2>1. CASE j < i
      BY <1>1, <1>2, <1>3, <2>1
    <2>2. CASE j > i
      <3>1. j - 1 \in DOMAIN r /\ ~(j - 1 < i) /\ (j - 1) + 1 = j
        BY <1>1, <1>3, <2>2
      <3> QED
        BY <1>2, <1>3, <3>1
    <2> QED
      BY <1>1, <2>1, <2>2
  <1>6. Distinct(r)
    <2> SUFFICES ASSUME NEW j \in DOMAIN r, NEW k \in DOMAIN r, r[j].key = r[k].key
                 PROVE  j = k
      BY DEF Distinct
    <2>1. old(j) = old(k)
      BY <1>1, <1>4 DEF Distinct
    <2> QED
      BY <1>1, <1>3, <2>1
  <1>7. c[b] = r /\ DOMAIN c = DOMAIN bs /\ \A a \in DOMAIN bs \ {b} : c[a] = bs[a]
    OBVIOUS
  <1>8. r \in Seq(EntrySet) /\ c = [bs EXCEPT ![b] = r]
    BY <1>2
  <1> HIDE DEF c, r, old
  <1>9. WellFormed(c, n)
    <2>1. c \in [0 .. n - 1 -> Seq(EntrySet)]
      BY <1>8 DEF WellFormed
    <2>2. ASSUME NEW a \in 0 .. n - 1
          PROVE  Distinct(c[a]) /\ \A j \in DOMAIN c[a] : bin_pos(c[a][j].key, n) = a
      <3>1. CASE a = b
        <4>1. \A j \in DOMAIN s : bin_pos(s[j].key, n) = b
          BY <1>1 DEF WellFormed
        <4> QED
          BY <1>4, <1>6, <1>7, <3>1, <4>1
      <3>2. CASE a # b
        BY <1>1, <1>7, <3>2 DEF WellFormed
      <3> QED
        BY <3>1, <3>2
    <2> QED
      BY <2>1, <2>2 DEF WellFormed
  <1>10. AllEntries(c) = AllEntries(bs) \ {bs[b][i]}
    <2>1. ASSUME NEW f \in AllEntries(c) PROVE f \in AllEntries(bs) /\ f # bs[b][i]
      <3>0. PICK a \in DOMAIN bs : \E j \in DOMAIN c[a] : f = c[a][j]
        BY <1>7, <2>1, EntryHasPlace
      <3>1. PICK j \in DOMAIN c[a] : f = c[a][j]
        BY <3>0
      <3>2. PICK k \in DOMAIN bs[a] : f = bs[a][k] /\ ~(a = b /\ k = i)
        BY <1>4, <1>7, <3>1
      <3>3. bs[a][k].key # bs[b][i].key
        BY <3>2, OnePlace
      <3> QED
        BY <3>2, <3>3 DEF AllEntries, Range
    <2>2. ASSUME NEW f \in AllEntries(bs), f # bs[b][i] PROVE f \in AllEntries(c)
      <3>0. PICK a \in DOMAIN bs : \E j \in DOMAIN bs[a] : f = bs[a][j]
        BY <2>2, EntryHasPlace
      <3>1. PICK j \in DOMAIN bs[a] : f = bs[a][j]
        BY <3>0
      <3>2. \E k \in DOMAIN c[a] : f = c[a][k]
        BY <1>5, <1>7, <2>2, <3>1
      <3> QED
        BY <1>7, <3>1, <3>2 DEF AllEntries, Range
    <2> QED
      BY <2>1, <2>2
  <1> QED
    BY <1>9, <1>10 DEF c, Take

-----------------------------------------------------------------------------
(* All entries of a table, and the table that is hashed anew.               *)

\* The loops over a table meet every entry once.
LEMMA EntriesOfBins ==
  ASSUME NEW n \in Nat \ {0}, NEW bs, WellFormed(bs, n)
  PROVE  LET s == FlattenSeq([i \in 1 .. n |-> bs[i - 1]])
         IN  s \in Seq(EntrySet) /\ Distinct(s) /\ Range(s) = AllEntries(bs)
  <1> DEFINE T == Seq(EntrySet)
             q == [i \in 1 .. n |-> bs[i - 1]]
             step == [i \in 1 .. n |-> [x \in T |-> x \o q[i]]]
  <1>0. n \in Nat /\ 1 \in 1 .. n
    OBVIOUS
  <1>1. /\ q \in Seq(T) /\ Len(q) = n /\ Len(q) # 0
        /\ \A i \in 1 .. n : q[i] = bs[i - 1] /\ q[i] \in T /\ i - 1 \in 0 .. n - 1
    BY DEF WellFormed
  <1> HIDE DEF q
  <1>2. /\ <<>> \in T /\ step \in [1 .. n -> [T -> T]]
        /\ \A i \in 1 .. n : \A x \in T : step[i][x] = x \o q[i]
    BY <1>1, ConcatProperties
  <1> HIDE DEF T, step
  <1>3. PICK F \in Recursions(n, T, <<>>, step) : TRUE
    BY <1>0, <1>2, RecursionExists
  <1>4. \A i \in 1 .. n : /\ i - 1 \in 0 .. n /\ F[i - 1] \in T /\ F[i] \in T
                          /\ F[i] = F[i - 1] \o q[i]
    <2>1. \A i \in 1 .. n : i \in 0 .. n /\ i - 1 \in 0 .. n
      BY <1>0
    <2>2. F \in [0 .. n -> T] /\ \A i \in 1 .. n : F[i] = step[i][F[i - 1]]
      BY DEF Recursions
    <2>3. \A i \in 1 .. n : F[i - 1] \in T /\ F[i] \in T
      BY <2>1, <2>2
    <2> QED
      BY <1>2, <2>1, <2>2, <2>3
  <1>a. F[1] = q[1]
    <2>1. F[1] = <<>> \o q[1] /\ q[1] \in Seq(EntrySet)
      <3>1. 1 - 1 = 0 /\ F[0] = <<>>
        BY DEF Recursions
      <3>2. F[1] = F[1 - 1] \o q[1]
        BY <1>0, <1>4
      <3> QED
        BY <1>0, <1>1, <3>1, <3>2 DEF T
    <2> QED
      BY <2>1, ConcatEmptySeq
  <1>5. FlattenSeq(q) = F[n]
    <2> DEFINE G == [i \in 1 .. n |-> F[i]]
               H == CHOOSE f : f = [i \in 1 .. n |-> IF i = 1 THEN q[i] ELSE f[i - 1] \o q[i]]
    <2>1. G = [i \in 1 .. n |-> IF i = 1 THEN q[i] ELSE G[i - 1] \o q[i]]
      <3> SUFFICES ASSUME NEW i \in 1 .. n
                   PROVE  F[i] = IF i = 1 THEN q[i] ELSE G[i - 1] \o q[i]
        OBVIOUS
      <3>1. CASE i = 1
        BY <1>a, <3>1
      <3>2. CASE i # 1
        <4>1. i - 1 \in 1 .. n
          BY <3>2
        <4> QED
          BY <1>4, <3>2, <4>1
      <3> QED
        BY <3>1, <3>2
    <2> HIDE DEF G
    <2>2. H = [i \in 1 .. n |-> IF i = 1 THEN q[i] ELSE H[i - 1] \o q[i]]
      BY <2>1, Zenon
    <2>3. FlattenSeq(q) = H[n]
      BY <1>1, Zenon DEF FlattenSeq
    <2> HIDE DEF H
    <2>4. \A i \in 1 .. n : H[i] = IF i = 1 THEN q[i] ELSE H[i - 1] \o q[i]
      BY <2>2
    <2> DEFINE S == {i \in 0 .. n : i = 0 \/ H[i] = F[i]}
    <2>5. ASSUME NEW i \in 1 .. n, i - 1 \in S PROVE i \in S
      <3>1. CASE i = 1
        BY <1>a, <2>4, <3>1
      <3>2. CASE i # 1
        <4>1. H[i - 1] = F[i - 1]
          BY <2>5, <3>2
        <4>2. H[i] = H[i - 1] \o q[i] /\ F[i] = F[i - 1] \o q[i]
          BY <1>4, <2>4, <3>2
        <4>3. i \in 0 .. n
          BY <1>0
        <4> QED
          BY <4>1, <4>2, <4>3
      <3> QED
        BY <3>1, <3>2
    <2>6. 0 .. n \subseteq S
      <3>1. 0 \in S
        OBVIOUS
      <3> HIDE DEF S
      <3> QED
        BY <1>0, <2>5, <3>1, IntervalInduction
    <2>7. n \in 0 .. n
      OBVIOUS
    <2> QED
      BY <2>3, <2>6, <2>7
  <1> DEFINE P(i) == /\ Distinct(F[i])
                     /\ Range(F[i]) = UNION {Range(bs[b]) : b \in 0 .. i - 1}
             S == {i \in 0 .. n : P(i)}
  <1>6. 0 \in S
    <2>1. F[0] = <<>> /\ 0 \in 0 .. n
      BY <1>0 DEF Recursions
    <2>2. \A b \in 0 .. 0 - 1 : FALSE
      OBVIOUS
    <2> QED
      BY <2>1, <2>2 DEF Distinct, Range
  <1>7. ASSUME NEW i \in 1 .. n, i - 1 \in S PROVE i \in S
    <2>1. /\ F[i - 1] \in T /\ Distinct(F[i - 1])
          /\ Range(F[i - 1]) = UNION {Range(bs[b]) : b \in 0 .. (i - 1) - 1}
          /\ i - 1 \in DOMAIN bs /\ bs[i - 1] \in T /\ Distinct(bs[i - 1])
          /\ F[i] = F[i - 1] \o bs[i - 1]
      BY <1>1, <1>4, <1>7 DEF WellFormed, T
    <2>2. \A j \in DOMAIN F[i - 1], k \in DOMAIN bs[i - 1] : F[i - 1][j].key # bs[i - 1][k].key
      <3> SUFFICES ASSUME NEW j \in DOMAIN F[i - 1], NEW k \in DOMAIN bs[i - 1]
                   PROVE  F[i - 1][j].key # bs[i - 1][k].key
        OBVIOUS
      <3>1. PICK b \in 0 .. (i - 1) - 1 : F[i - 1][j] \in Range(bs[b])
        BY <2>1, ZenonT(30) DEF Range
      <3>2. b \in DOMAIN bs /\ b # i - 1
        BY DEF WellFormed
      <3>3. PICK l \in DOMAIN bs[b] : F[i - 1][j] = bs[b][l]
        BY <3>1 DEF Range
      <3> QED
        BY <2>1, <3>2, <3>3, OnePlace
    <2>3. Distinct(F[i]) /\ Range(F[i]) = Range(F[i - 1]) \cup Range(bs[i - 1])
      BY <2>1, <2>2, ConcatDistinct DEF T
    <2>4. \A b : b \in 0 .. i - 1 <=> b \in 0 .. (i - 1) - 1 \/ b = i - 1
      OBVIOUS
    <2>5. Range(F[i]) = UNION {Range(bs[b]) : b \in 0 .. i - 1}
      BY <2>1, <2>3, <2>4
    <2> QED
      BY <2>3, <2>5
  <1>8. n \in S
    <2> HIDE DEF S
    <2>1. 0 .. n \subseteq S
      BY <1>0, <1>6, <1>7, IntervalInduction
    <2> QED
      BY <2>1
  <1>9. DOMAIN bs = 0 .. n - 1 /\ F[n] \in T
    BY <1>0 DEF WellFormed, Recursions
  <1> QED
    BY <1>5, <1>8, <1>9 DEF q, T, AllEntries

\* rehash puts every entry into the bin of its hash, and loses and doubles none.
LEMMA RehashedTable ==
  ASSUME NEW n \in Nat \ {0}, num_bins \in Nat \ {0}, WellFormed(bins, num_bins)
  PROVE  WellFormed(Rehashed(n), n) /\ AllEntries(Rehashed(n)) = AllEntries(bins)
  <1> DEFINE E == Entries
             m == Len(E)
             T == [0 .. n - 1 -> Seq(EntrySet)]
             empty == [b \in 0 .. n - 1 |-> <<>>]
             put(x, e) == [x EXCEPT ![bin_pos(e.key, n)] = <<e>> \o @]
             step == [i \in 1 .. m |-> [x \in T |-> put(x, E[i])]]
  <1>1. E \in Seq(EntrySet) /\ Distinct(E) /\ Range(E) = AllEntries(bins)
    BY EntriesOfBins DEF Entries
  <1> HIDE DEF E
  <1>2. m \in Nat /\ DOMAIN E = 1 .. m /\ \A i \in 1 .. m : E[i] \in EntrySet
    BY <1>1
  <1>3. empty \in T /\ step \in [1 .. m -> [T -> T]]
    <2>1. ASSUME NEW i \in 1 .. m, NEW x \in T PROVE put(x, E[i]) \in T
      <3>1. bin_pos(E[i].key, n) \in 0 .. n - 1
        BY <1>2, BinExists DEF EntrySet
      <3>2. <<E[i]>> \o x[bin_pos(E[i].key, n)] \in Seq(EntrySet)
        BY <1>2, <3>1, ConcatProperties
      <3> QED
        BY <3>1, <3>2
    <2> HIDE DEF put
    <2>2. empty \in T
      OBVIOUS
    <2> HIDE DEF T
    <2> QED
      BY <2>1, <2>2
  <1>4. PICK F \in Recursions(m, T, empty, step) : TRUE
    <2> HIDE DEF T, step, empty, m
    <2>1. m \in Nat
      BY <1>2 DEF m
    <2> QED
      BY <1>3, <2>1, RecursionExists
  <1>5. \A i \in 1 .. m : i - 1 \in 0 .. m /\ F[i - 1] \in T /\ F[i] \in T /\ F[i] = put(F[i - 1], E[i])
    <2> HIDE DEF put, T, m
    <2>1. m \in Nat
      BY <1>2
    <2>2. \A i \in 1 .. m : i \in 0 .. m /\ i - 1 \in 0 .. m
      BY <2>1
    <2>0. F \in [0 .. m -> T] /\ \A i \in 1 .. m : F[i] = step[i][F[i - 1]]
      BY DEF Recursions
    <2>3. \A i \in 1 .. m : F[i - 1] \in T /\ F[i] \in T
      BY <2>0, <2>2
    <2> QED
      BY <2>0, <2>2, <2>3
  <1> HIDE DEF step
  <1>6. Rehashed(n) = F[m]
    <2> DEFINE H == CHOOSE f : f = [i \in 0 .. m |-> IF i = 0 THEN empty ELSE put(f[i - 1], E[i])]
    <2>1. F = [i \in 0 .. m |-> IF i = 0 THEN empty ELSE put(F[i - 1], E[i])]
      <3> HIDE DEF put, T, empty
      <3>0. F \in [0 .. m -> T]
        BY DEF Recursions
      <3>1. \A i \in 0 .. m : F[i] = IF i = 0 THEN empty ELSE put(F[i - 1], E[i])
        <4> TAKE i \in 0 .. m
        <4>1. i = 0 \/ i \in 1 .. m
          BY <1>2
        <4>2. F[0] = empty
          BY DEF Recursions
        <4> QED
          BY <1>5, <4>1, <4>2
      <3> QED
        BY <3>0, <3>1
    <2>2. H = [i \in 0 .. m |-> IF i = 0 THEN empty ELSE put(H[i - 1], E[i])]
      BY <2>1, Zenon
    <2>3. Rehashed(n) = H[m]
      BY Zenon DEF Rehashed, E
    <2> HIDE DEF H, put, T, empty
    <2>4. \A i \in 0 .. m : H[i] = IF i = 0 THEN empty ELSE put(H[i - 1], E[i])
      BY <2>2
    <2> DEFINE S == {i \in 0 .. m : H[i] = F[i]}
    <2>5. 0 \in S
      BY <1>2, <2>4 DEF Recursions
    <2>6. ASSUME NEW i \in 1 .. m, i - 1 \in S PROVE i \in S
      BY <1>2, <1>5, <2>4, <2>6
    <2>7. 0 .. m \subseteq S
      <3> HIDE DEF S, m
      <3> QED
        BY <1>2, <2>5, <2>6, IntervalInduction
    <2> QED
      BY <1>2, <2>3, <2>7
  <1> DEFINE P(i) == WellFormed(F[i], n) /\ AllEntries(F[i]) = {E[j] : j \in 1 .. i}
             S == {i \in 0 .. m : P(i)}
  <1>7. 0 \in S
    <2>1. F[0] = empty /\ 0 \in 0 .. m
      BY <1>2 DEF Recursions
    <2>2. WellFormed(empty, n) /\ AllEntries(empty) = {}
      BY DEF WellFormed, AllEntries, Range, Distinct
    <2>3. {E[j] : j \in 1 .. 0} = {}
      OBVIOUS
    <2> QED
      BY <2>1, <2>2, <2>3
  <1>8. ASSUME NEW i \in 1 .. m, i - 1 \in S PROVE i \in S
    <2>1. WellFormed(F[i - 1], n) /\ AllEntries(F[i - 1]) = {E[j] : j \in 1 .. i - 1}
      BY <1>8
    <2>2. \A f \in AllEntries(F[i - 1]) : f.key # E[i].key
      <3> SUFFICES ASSUME NEW j \in 1 .. i - 1 PROVE E[j].key # E[i].key
        BY <2>1
      <3>1. j \in DOMAIN E /\ i \in DOMAIN E /\ j # i
        BY <1>2
      <3> QED
        BY <1>1, <3>1 DEF Distinct
    <2>3. WellFormed(F[i], n) /\ AllEntries(F[i]) = AllEntries(F[i - 1]) \cup {E[i]}
      <3>1. F[i] = Put(F[i - 1], n, E[i])
        BY <1>5 DEF Put
      <3>2. E[i] \in EntrySet
        BY <1>2
      <3> HIDE DEF S, P, put, T, empty, m
      <3> QED
        BY <2>1, <2>2, <3>1, <3>2, PutAtHead
    <2>4. \A j : j \in 1 .. i <=> j \in 1 .. i - 1 \/ j = i
      BY <1>2
    <2>5. {E[j] : j \in 1 .. i} = {E[j] : j \in 1 .. i - 1} \cup {E[i]}
      BY <2>4
    <2>6. i \in 0 .. m
      BY <1>2
    <2> QED
      BY <2>1, <2>3, <2>5, <2>6
  <1>9. m \in S
    <2> HIDE DEF S, m
    <2>1. 0 .. m \subseteq S
      BY <1>2, <1>7, <1>8, IntervalInduction
    <2> QED
      BY <1>2, <2>1
  <1>10. {E[j] : j \in 1 .. m} = Range(E)
    BY <1>2 DEF Range
  <1> QED
    BY <1>1, <1>6, <1>9, <1>10

-----------------------------------------------------------------------------
(* Lookup and contents.                                                    *)

\* find_entry and Contents of a table with the chains bs in n bins.
FindIn(bs, n, k) == SelectInSeq(bs[bin_pos(k, n)], LAMBDA e : e.key = k)

ContentsOf(bs, n) ==
    LET K == {k \in Keys : FindIn(bs, n, k) # 0}
    IN  [k \in K |-> bs[bin_pos(k, n)][FindIn(bs, n, k)].record]

\* find_entry looks at one bin only and finds every key of the table.
LEMMA Find ==
  ASSUME NEW n \in Nat \ {0}, NEW bs, WellFormed(bs, n), NEW k \in Keys
  PROVE  LET b == bin_pos(k, n)
             i == FindIn(bs, n, k)
         IN  /\ b \in DOMAIN bs
             /\ i # 0 => i \in DOMAIN bs[b] /\ bs[b][i].key = k
             /\ i = 0 => \A e \in AllEntries(bs) : e.key # k
  <1> DEFINE b == bin_pos(k, n)
             s == bs[b]
             I == {j \in 1 .. Len(s) : s[j].key = k}
  <1>1. b \in DOMAIN bs /\ s \in Seq(EntrySet) /\ DOMAIN s = 1 .. Len(s)
    BY BinExists DEF WellFormed
  <1>2. FindIn(bs, n, k) = IF I # {} THEN Min(I) ELSE 0
    BY Zenon DEF FindIn, SelectInSeq
  <1>3. CASE I # {}
    <2>1. Min(I) \in I
      <3>1. PICK j \in I : \A l \in I : j <= l
        <4>1. I \in SUBSET Nat
          OBVIOUS
        <4> HIDE DEF I
        <4> QED
          BY <1>3, <4>1, LeastNat
      <3> QED
        BY <3>1 DEF Min
    <2>2. Min(I) \in DOMAIN s /\ s[Min(I)].key = k /\ Min(I) # 0
      <3> HIDE DEF s
      <3> QED
        BY <1>1, <2>1
    <2> QED
      BY <1>1, <1>2, <1>3, <2>2
  <1>4. CASE I = {}
    <2>1. ASSUME NEW e \in AllEntries(bs) PROVE e.key # k
      <3>1. PICK c \in DOMAIN bs : \E j \in DOMAIN bs[c] : e = bs[c][j]
        BY <2>1, EntryHasPlace
      <3>2. PICK j \in DOMAIN bs[c] : e = bs[c][j]
        BY <3>1
      <3>3. e.key = k => c = b
        BY <3>2 DEF WellFormed
      <3>4. c = b => j \in 1 .. Len(s) /\ e = s[j]
        BY <1>1, <3>2
      <3> QED
        BY <1>4, <3>3, <3>4
    <2> QED
      BY <1>1, <1>2, <1>4, <2>1
  <1> QED
    BY <1>3, <1>4

LEMMA FindEntry ==
  ASSUME num_bins \in Nat \ {0}, WellFormed(bins, num_bins), NEW k \in Keys
  PROVE  LET b == bin_pos(k, num_bins)
             i == find_entry(k)
         IN  /\ b \in DOMAIN bins
             /\ i # 0 => i \in DOMAIN bins[b] /\ bins[b][i].key = k
             /\ i = 0 => \A e \in AllEntries(bins) : e.key # k
  <1>1. find_entry(k) = FindIn(bins, num_bins, k)
    BY Zenon DEF find_entry, FindIn
  <1> QED
    BY <1>1, Find

\* The contents are the records of all entries.
LEMMA ContentsFact ==
  ASSUME NEW n \in Nat \ {0}, NEW bs, WellFormed(bs, n)
  PROVE  LET C == ContentsOf(bs, n)
         IN  /\ C = [k \in DOMAIN C |-> C[k]]
             /\ DOMAIN C = {e.key : e \in AllEntries(bs)}
             /\ \A e \in AllEntries(bs) : C[e.key] = e.record
  <1> DEFINE C == ContentsOf(bs, n)
  <1>1. /\ DOMAIN C = {k \in Keys : FindIn(bs, n, k) # 0}
        /\ \A k \in DOMAIN C : C[k] = bs[bin_pos(k, n)][FindIn(bs, n, k)].record
        /\ C = [k \in DOMAIN C |-> C[k]]
    BY DEF ContentsOf
  <1> HIDE DEF C
  <1>2. ASSUME NEW e \in AllEntries(bs) PROVE e.key \in DOMAIN C /\ C[e.key] = e.record
    <2>1. PICK b \in DOMAIN bs : \E i \in DOMAIN bs[b] : e = bs[b][i]
      BY EntryHasPlace
    <2>2. PICK i \in DOMAIN bs[b] : e = bs[b][i]
      BY <2>1
    <2>3. e.key \in Keys
      <3>1. e \in EntrySet
        BY <2>2 DEF WellFormed
      <3> QED
        BY <3>1 DEF EntrySet
    <2> DEFINE f == FindIn(bs, n, e.key)
               c == bin_pos(e.key, n)
    <2>4. f # 0 /\ c \in DOMAIN bs /\ f \in DOMAIN bs[c] /\ bs[c][f].key = e.key
      BY <2>3, Find
    <2>5. c = b /\ f = i
      BY <2>2, <2>4, OnePlace
    <2> QED
      BY <1>1, <2>2, <2>3, <2>4, <2>5
  <1>3. ASSUME NEW k \in DOMAIN C PROVE \E e \in AllEntries(bs) : e.key = k
    <2>1. k \in Keys /\ FindIn(bs, n, k) # 0
      BY <1>1
    <2> QED
      BY <2>1, Find, PlaceHasEntry
  <1> QED
    BY <1>1, <1>2, <1>3 DEF C

-----------------------------------------------------------------------------
(* What the operations do to the table.                                    *)

EntryKeys(bs) == {e.key : e \in AllEntries(bs)}

LEMMA KeysOfEntries ==
  ASSUME NEW bs
  PROVE  UNION {KeysOf(bs[b]) : b \in DOMAIN bs} = EntryKeys(bs)
  <1> DEFINE K == UNION {KeysOf(bs[b]) : b \in DOMAIN bs}
  <1>1. ASSUME NEW k \in K PROVE k \in EntryKeys(bs)
    <2>1. PICK b \in DOMAIN bs : k \in KeysOf(bs[b])
      BY <1>1
    <2>2. PICK i \in DOMAIN bs[b] : k = bs[b][i].key
      BY <2>1 DEF KeysOf
    <2> QED
      BY <2>2, PlaceHasEntry DEF EntryKeys
  <1>2. ASSUME NEW k \in EntryKeys(bs) PROVE k \in K
    <2>1. PICK e \in AllEntries(bs) : k = e.key
      BY <1>2 DEF EntryKeys
    <2>2. PICK b \in DOMAIN bs : \E i \in DOMAIN bs[b] : e = bs[b][i]
      BY EntryHasPlace
    <2> QED
      BY <2>1, <2>2 DEF KeysOf
  <1> QED
    BY <1>1, <1>2

LEMMA TableKeysFact == TableKeys = EntryKeys(bins) /\ TableKeys' = EntryKeys(bins')
  BY KeysOfEntries DEF TableKeys

LEMMA InvShape ==
  ASSUME TypeOK, ChainsApart
  PROVE  WellFormed(bins, num_bins) /\ num_bins \in Nat \ {0} /\ DOMAIN bins = 0 .. num_bins - 1
  BY DEF TypeOK, ChainsApart, WellFormed, Distinct

LEMMA ShapeInv ==
  ASSUME WellFormed(bins, num_bins)
  PROVE  ChainsApart /\ bins \in [0 .. num_bins - 1 -> Seq(EntrySet)]
  BY DEF ChainsApart, WellFormed, Distinct

\* Entries of a well-formed table with the same key are one entry.
LEMMA OneEntry ==
  ASSUME NEW n \in Nat \ {0}, NEW bs, WellFormed(bs, n),
         NEW e \in AllEntries(bs), NEW f \in AllEntries(bs), e.key = f.key
  PROVE  e = f
  <1>1. PICK b \in DOMAIN bs : \E i \in DOMAIN bs[b] : e = bs[b][i]
    BY EntryHasPlace
  <1>2. PICK i \in DOMAIN bs[b] : e = bs[b][i]
    BY <1>1
  <1>3. PICK c \in DOMAIN bs : \E j \in DOMAIN bs[c] : f = bs[c][j]
    BY EntryHasPlace
  <1>4. PICK j \in DOMAIN bs[c] : f = bs[c][j]
    BY <1>3
  <1> QED
    BY <1>2, <1>4, OnePlace

LEMMA EntriesTyped ==
  ASSUME NEW n \in Nat \ {0}, NEW bs, WellFormed(bs, n)
  PROVE  AllEntries(bs) \subseteq EntrySet
  <1> SUFFICES ASSUME NEW e \in AllEntries(bs) PROVE e \in EntrySet
    OBVIOUS
  <1>1. PICK b \in DOMAIN bs : \E i \in DOMAIN bs[b] : e = bs[b][i]
    BY EntryHasPlace
  <1> QED
    BY <1>1 DEF WellFormed

\* A size of the table is that of a prime, or -1.
LEMMA NewSize ==
  ASSUME NEW size \in Int, new_size(size) > 0
  PROVE  new_size(size) \in Nat \ {0}
  <1> DEFINE I == {i \in DOMAIN Primes : MinSize * 2 ^ (i - 1) > size}
  <1>1. new_size(size) = IF I = {} THEN -1 ELSE Primes[Min(I)]
    BY DEF new_size
  <1>2. I \subseteq DOMAIN Primes /\ DOMAIN Primes \subseteq Nat /\ Primes \in Seq(Nat \ {0})
    BY TableAssumption
  <1> HIDE DEF I
  <1>3. I # {}
    BY <1>1
  <1>4. Min(I) \in I
    <2>1. PICK j \in I : \A l \in I : j <= l
      BY <1>2, <1>3, LeastNat
    <2> QED
      BY <2>1 DEF Min
  <1>5. Primes[Min(I)] \in Nat \ {0}
    BY <1>2, <1>4
  <1> QED
    BY <1>1, <1>3, <1>5

\* The table after an insertion, with or without growth.
LEMMA AddFacts ==
  ASSUME TableInv, NEW k \in Keys, NEW v \in Values, find_entry(k) = 0, add_direct(k, v)
  PROVE  /\ num_bins' \in Nat \ {0} /\ WellFormed(bins', num_bins')
         /\ AllEntries(bins') = AllEntries(bins) \cup {Entry(k, v)}
         /\ k \notin EntryKeys(bins)
         /\ num_entries' = num_entries + 1
         /\ \/ iter.on /\ trip' = [NoTrip EXCEPT !.rehashed = TRUE]
            \/ ~iter.on /\ trip' = trip
            \/ /\ trip' = trip /\ num_bins' = num_bins
               /\ bins' = Put(bins, num_bins, Entry(k, v))
  <1> DEFINE e == Entry(k, v)
             dense == MaxDensity < num_entries \div num_bins
             n == IF dense THEN new_size(num_bins + 1) ELSE num_bins
             bs == IF dense THEN Rehashed(n) ELSE bins
  <1>1. WellFormed(bins, num_bins) /\ num_bins \in Nat \ {0} /\ num_entries \in Nat
    BY InvShape DEF TableInv, TypeOK
  <1>2. e \in EntrySet /\ e.key = k
    BY DEF Entry, EntrySet
  <1>3. \A f \in AllEntries(bins) : f.key # k
    BY <1>1, FindEntry
  <1>4. n > 0 /\ num_bins' = n /\ bins' = Put(bs, n, e) /\ num_entries' = num_entries + 1
    BY <1>2 DEF add_direct, Put
  <1>5. trip' = IF dense /\ iter.on THEN [NoTrip EXCEPT !.rehashed = TRUE] ELSE trip
    BY DEF add_direct
  <1>6. n \in Nat \ {0}
    BY <1>1, <1>4, NewSize
  <1>7. WellFormed(bs, n) /\ AllEntries(bs) = AllEntries(bins)
    <2>1. CASE dense
      <3>1. bs = Rehashed(n)
        BY <2>1
      <3> HIDE DEF bs, n
      <3> QED
        BY <1>1, <1>6, <3>1, RehashedTable
    <2>2. CASE ~dense
      BY <1>1, <2>2
    <2> QED
      BY <2>1, <2>2
  <1>8. ~dense => n = num_bins /\ bs = bins
    OBVIOUS
  <1> HIDE DEF n, bs, e, dense
  <1>9. WellFormed(bins', n) /\ AllEntries(bins') = AllEntries(bs) \cup {e}
    BY <1>2, <1>3, <1>4, <1>6, <1>7, PutAtHead
  <1> QED
    BY <1>3, <1>4, <1>5, <1>6, <1>7, <1>8, <1>9 DEF EntryKeys, e

\* Insertion makes the entry the only one with its key.
LEMMA InsertFacts ==
  ASSUME TableInv, NEW k \in Keys, NEW v \in Values, Insert(k, v) \/ AddDirect(k, v)
  PROVE  /\ num_bins' \in Nat \ {0} /\ WellFormed(bins', num_bins')
         /\ AllEntries(bins') = {f \in AllEntries(bins) : f.key # k} \cup {Entry(k, v)}
         /\ num_entries' = IF k \in EntryKeys(bins) THEN num_entries ELSE num_entries + 1
         /\ found' = (k \in EntryKeys(bins)) /\ found' \in BOOLEAN /\ value' = v
  <1>1. WellFormed(bins, num_bins) /\ num_bins \in Nat \ {0}
    BY InvShape DEF TableInv
  <1>2. CASE find_entry(k) = 0
    <2>1. add_direct(k, v) /\ found' = FALSE /\ value' = v
      BY <1>2 DEF Insert, AddDirect
    <2>2. \A f \in AllEntries(bins) : f.key # k
      BY <1>1, <1>2, FindEntry
    <2>3. /\ num_bins' \in Nat \ {0} /\ WellFormed(bins', num_bins')
          /\ AllEntries(bins') = AllEntries(bins) \cup {Entry(k, v)}
          /\ k \notin EntryKeys(bins) /\ num_entries' = num_entries + 1
      BY <1>2, <2>1, AddFacts
    <2>4. AllEntries(bins) = {f \in AllEntries(bins) : f.key # k}
      BY <2>2
    <2>5. AllEntries(bins') = {f \in AllEntries(bins) : f.key # k} \cup {Entry(k, v)}
      BY <2>3, <2>4
    <2>6. found' = (k \in EntryKeys(bins))
      <3>1. k \notin EntryKeys(bins) /\ found' = FALSE
        BY <2>1, <2>3
      <3>2. (k \in EntryKeys(bins)) = FALSE
        BY <3>1
      <3> QED
        BY <3>1, <3>2, Zenon
    <2> QED
      BY <2>1, <2>3, <2>5, <2>6
  <1>3. CASE find_entry(k) # 0
    <2> DEFINE b == bin_pos(k, num_bins)
               i == find_entry(k)
    <2>1. b \in DOMAIN bins /\ i \in DOMAIN bins[b] /\ bins[b][i].key = k
      BY <1>1, <1>3, FindEntry
    <2>2. /\ bins' = Replace(bins, b, i, v) /\ num_bins' = num_bins
          /\ num_entries' = num_entries /\ found' = TRUE /\ value' = v
      BY <1>3 DEF Insert, AddDirect, Replace
    <2> HIDE DEF b, i
    <2>3. /\ WellFormed(bins', num_bins)
          /\ AllEntries(bins') = (AllEntries(bins) \ {bins[b][i]}) \cup {Entry(k, v)}
      BY <1>1, <2>1, <2>2, SetRecord
    <2>4. bins[b][i] \in AllEntries(bins)
      BY <2>1, PlaceHasEntry
    <2>5. AllEntries(bins) \ {bins[b][i]} = {f \in AllEntries(bins) : f.key # k}
      BY <1>1, <2>1, <2>4, OneEntry
    <2>6. k \in EntryKeys(bins)
      BY <2>1, <2>4 DEF EntryKeys
    <2> QED
      BY <1>1, <2>2, <2>3, <2>5, <2>6
  <1> QED
    BY <1>2, <1>3

\* Deletion leaves the entries with other keys.
LEMMA DeleteFacts ==
  ASSUME TableInv, NEW k \in Keys, Delete(k)
  PROVE  /\ num_bins' = num_bins /\ WellFormed(bins', num_bins)
         /\ AllEntries(bins') = {f \in AllEntries(bins) : f.key # k}
         /\ num_entries' = IF k \in EntryKeys(bins) THEN num_entries - 1 ELSE num_entries
         /\ found' = (k \in EntryKeys(bins)) /\ found' \in BOOLEAN /\ value' = Absent
  <1>1. WellFormed(bins, num_bins) /\ num_bins \in Nat \ {0}
    BY InvShape DEF TableInv
  <1>2. CASE find_entry(k) = 0
    <2>1. \A f \in AllEntries(bins) : f.key # k
      BY <1>1, <1>2, FindEntry
    <2> QED
      BY <1>1, <1>2, <2>1 DEF Delete, EntryKeys
  <1>3. CASE find_entry(k) # 0
    <2> DEFINE b == bin_pos(k, num_bins)
               i == find_entry(k)
    <2>1. b \in DOMAIN bins /\ i \in DOMAIN bins[b] /\ bins[b][i].key = k
      BY <1>1, <1>3, FindEntry
    <2>2. /\ bins' = Take(bins, b, i) /\ num_bins' = num_bins
          /\ num_entries' = num_entries - 1 /\ found' = TRUE /\ value' = Absent
      BY <1>3 DEF Delete, Take
    <2> HIDE DEF b, i
    <2>3. WellFormed(bins', num_bins) /\ AllEntries(bins') = AllEntries(bins) \ {bins[b][i]}
      BY <1>1, <2>1, <2>2, TakeOut
    <2>4. bins[b][i] \in AllEntries(bins)
      BY <2>1, PlaceHasEntry
    <2>5. AllEntries(bins) \ {bins[b][i]} = {f \in AllEntries(bins) : f.key # k}
      BY <1>1, <2>1, <2>4, OneEntry
    <2>6. k \in EntryKeys(bins)
      BY <2>1, <2>4 DEF EntryKeys
    <2> QED
      BY <2>2, <2>3, <2>5, <2>6
  <1> QED
    BY <1>2, <1>3

-----------------------------------------------------------------------------
(* The inductive invariant.                                                *)

LEMMA InsertCounts ==
  ASSUME TableInv, NEW k \in Keys, NEW v \in Values, Insert(k, v) \/ AddDirect(k, v)
  PROVE  /\ EntryKeys(bins') = EntryKeys(bins) \cup {k}
         /\ IsFiniteSet(EntryKeys(bins')) /\ num_entries' = Cardinality(EntryKeys(bins'))
         /\ num_entries' \in Nat
  <1>1. IsFiniteSet(EntryKeys(bins)) /\ num_entries = Cardinality(EntryKeys(bins))
    BY TableKeysFact DEF TableInv
  <1>2. EntryKeys(bins') = EntryKeys(bins) \cup {k}
    <2>1. Entry(k, v).key = k
      BY DEF Entry
    <2>2. AllEntries(bins') = {f \in AllEntries(bins) : f.key # k} \cup {Entry(k, v)}
      BY InsertFacts
    <2> QED
      BY <2>1, <2>2 DEF EntryKeys
  <1>3. num_entries' = IF k \in EntryKeys(bins) THEN num_entries ELSE num_entries + 1
    BY InsertFacts
  <1> QED
    BY <1>1, <1>2, <1>3, FS_AddElement, FS_CardinalityType

LEMMA DeleteCounts ==
  ASSUME TableInv, NEW k \in Keys, Delete(k)
  PROVE  /\ EntryKeys(bins') = EntryKeys(bins) \ {k}
         /\ IsFiniteSet(EntryKeys(bins')) /\ num_entries' = Cardinality(EntryKeys(bins'))
         /\ num_entries' \in Nat
  <1>1. IsFiniteSet(EntryKeys(bins)) /\ num_entries = Cardinality(EntryKeys(bins))
    BY TableKeysFact DEF TableInv
  <1>2. EntryKeys(bins') = EntryKeys(bins) \ {k}
    <2>1. AllEntries(bins') = {f \in AllEntries(bins) : f.key # k}
      BY DeleteFacts
    <2> QED
      BY <2>1 DEF EntryKeys
  <1>3. num_entries' = IF k \in EntryKeys(bins) THEN num_entries - 1 ELSE num_entries
    BY DeleteFacts
  <1> QED
    BY <1>1, <1>2, <1>3, FS_RemoveElement, FS_CardinalityType

\* No chain is longer than num_entries.
LEMMA ChainLength ==
  ASSUME TableInv, NEW b \in DOMAIN bins
  PROVE  Len(bins[b]) \in Nat /\ Len(bins[b]) <= num_entries
  <1>1. bins[b] \in Seq(EntrySet) /\ Distinct(bins[b])
    BY InvShape DEF TableInv, WellFormed
  <1>2. KeysOf(bins[b]) \subseteq TableKeys
    BY DEF TableKeys
  <1>3. IsFiniteSet(TableKeys) /\ num_entries = Cardinality(TableKeys)
    BY DEF TableInv
  <1>4. Cardinality(KeysOf(bins[b])) = Len(bins[b])
    BY <1>1, DistinctCardinality
  <1> QED
    BY <1>1, <1>2, <1>3, <1>4, FS_Subset

LEMMA InitInv == Init => TableInv
  <1> SUFFICES ASSUME Init PROVE TableInv
    OBVIOUS
  <1>1. num_bins \in Nat \ {0}
    BY NewSize, SmallestSize DEF Init
  <1>2. AllEntries(bins) = {} /\ TableKeys = {}
    BY TableKeysFact DEF Init, AllEntries, Range, EntryKeys
  <1>3. TypeOK
    <2>1. bins \in [0 .. num_bins - 1 -> Seq(EntrySet)]
      BY DEF Init
    <2>2. iter = NoIter /\ trip = NoTrip
      BY DEF Init
    <2>3. NoIter \in [on : BOOLEAN, bins_index : Nat, entry : Keys \cup {Absent}]
      BY DEF NoIter
    <2>4. NoTrip \in [start : SUBSET Keys, visits : [Keys -> 0 .. 1], rehashed : BOOLEAN]
      BY DEF NoTrip
    <2> QED
      BY <1>1, <2>1, <2>2, <2>3, <2>4 DEF Init, TypeOK
  <1>4. ChainsApart /\ TripInv
    BY DEF Init, ChainsApart, TripInv, NoIter
  <1> QED
    BY <1>2, <1>3, <1>4, FS_EmptySet DEF TableInv, Init

\* Growth during an iteration: nothing is claimed of the rest of the iteration.
LEMMA TripAfterGrowth ==
  ASSUME TableInv, iter.on, iter' = iter, trip' = [NoTrip EXCEPT !.rehashed = TRUE],
         TableKeys \subseteq TableKeys'
  PROVE  TripInv'
  BY DEF TableInv, TripInv, NoTrip

\* No iteration: nothing is claimed.
LEMMA NoTripInv ==
  ASSUME ~iter'.on
  PROVE  TripInv'
  BY DEF TripInv

\* The table keeps its keys at their places, or the iterated table is unchanged.
LEMMA TripKept ==
  ASSUME TableInv, iter' = iter, trip' = trip, num_bins' = num_bins, DOMAIN bins' = DOMAIN bins,
         TableKeys' = TableKeys,
         \A b \in DOMAIN bins : /\ DOMAIN bins'[b] = DOMAIN bins[b]
                                /\ Len(bins'[b]) = Len(bins[b])
                                /\ \A i \in DOMAIN bins[b] : bins'[b][i].key = bins[b][i].key
  PROVE  TripInv'
  <1>1. \A b \in DOMAIN bins : DOMAIN bins[b] = 1 .. Len(bins[b]) /\ Len(bins[b]) \in Nat
    BY DEF TableInv, TypeOK
  <1>2. ASSUME NEW b \in DOMAIN bins, NEW i \in DOMAIN bins[b] PROVE Passed(b, i)' = Passed(b, i)
    <2>1. \A j \in i .. Len(bins[b]) : j \in DOMAIN bins[b] /\ bins'[b][j].key = bins[b][j].key
      BY <1>1
    <2> QED
      BY <2>1 DEF Passed
  <1> QED
    BY <1>2 DEF TableInv, TripInv, bin_pos

\* A new entry at the head of a chain has not been visited, and pushes the others on.
LEMMA TripAfterPut ==
  ASSUME TableInv, NEW e \in EntrySet, e.key \notin EntryKeys(bins),
         iter' = iter, trip' = trip, num_bins' = num_bins, bins' = Put(bins, num_bins, e),
         TableKeys' = TableKeys \cup {e.key}
  PROVE  TripInv'
  <1> SUFFICES ASSUME iter.on PROVE TripInv'
    BY NoTripInv
  <1> DEFINE c == bin_pos(e.key, num_bins)
  <1>1. WellFormed(bins, num_bins) /\ num_bins \in Nat \ {0}
    BY InvShape DEF TableInv
  <1>2. \A f \in AllEntries(bins) : f.key # e.key
    BY DEF EntryKeys
  <1>3. /\ c \in DOMAIN bins /\ DOMAIN bins' = DOMAIN bins
        /\ \A a \in DOMAIN bins \ {c} : bins'[a] = bins[a]
        /\ Len(bins'[c]) = Len(bins[c]) + 1 /\ bins'[c][1] = e
        /\ \A i \in DOMAIN bins[c] : bins'[c][i + 1] = bins[c][i]
    BY <1>1, <1>2, PutAtHead
  <1>4. \A b \in DOMAIN bins : DOMAIN bins[b] = 1 .. Len(bins[b]) /\ Len(bins[b]) \in Nat
    BY DEF TableInv, TypeOK
  <1>5. DOMAIN bins'[c] = 1 .. Len(bins[c]) + 1
    <2>1. WellFormed(bins', num_bins)
      BY <1>1, <1>2, PutAtHead
    <2>2. bins'[c] \in Seq(EntrySet)
      BY <1>1, <1>3, <2>1 DEF WellFormed
    <2> QED
      BY <1>3, <2>2
  <1>6. e.key \notin TableKeys /\ e.key \in Keys
    BY TableKeysFact DEF EntrySet
  <1> HIDE DEF c
  <1>7. iter.entry # Absent => iter.entry \in TableKeys
    BY DEF TableInv, TripInv
  <1>8. ASSUME NEW b \in DOMAIN bins, NEW i \in DOMAIN bins'[b], ~trip.rehashed
        PROVE  LET k == bins'[b][i].key
               IN  /\ trip.visits[k] = 1 => Passed(b, i)'
                   /\ k \in trip.start /\ Passed(b, i)' => trip.visits[k] = 1
    <2>1. CASE b = c /\ i = 1
      <3>1. bins'[b][i].key = e.key
        BY <1>3, <2>1
      <3>2. e.key \notin trip.start /\ trip.visits[e.key] # 1
        BY <1>6, <1>8 DEF TableInv, TripInv
      <3> QED
        BY <3>1, <3>2
    <2>2. CASE b = c /\ i # 1
      <3>1. i - 1 \in DOMAIN bins[b] /\ (i - 1) + 1 = i /\ bins'[b][i] = bins[b][i - 1]
        BY <1>3, <1>4, <1>5, <2>2
      <3>2. Passed(b, i)' <=> Passed(b, i - 1)
        <4>1. \A j \in i - 1 .. Len(bins[b]) :
                 j + 1 \in i .. Len(bins'[b]) /\ bins'[b][j + 1] = bins[b][j]
          BY <1>3, <1>4, <2>2, <3>1, SMTT(30)
        <4>2. \A j \in i .. Len(bins'[b]) :
                 j - 1 \in i - 1 .. Len(bins[b]) /\ bins'[b][j] = bins[b][j - 1]
          <5> TAKE j \in i .. Len(bins'[b])
          <5>1. j - 1 \in DOMAIN bins[b] /\ (j - 1) + 1 = j /\ j - 1 \in i - 1 .. Len(bins[b])
            BY <1>3, <1>4, <2>2, <3>1
          <5> QED
            BY <1>3, <2>2, <5>1
        <4>3. (\E j \in i .. Len(bins'[b]) : bins'[b][j].key = iter.entry)
              <=> (\E j \in i - 1 .. Len(bins[b]) : bins[b][j].key = iter.entry)
          <5>1. ASSUME NEW j \in i .. Len(bins'[b]), bins'[b][j].key = iter.entry
                PROVE  \E l \in i - 1 .. Len(bins[b]) : bins[b][l].key = iter.entry
            BY <4>2, <5>1
          <5>2. ASSUME NEW j \in i - 1 .. Len(bins[b]), bins[b][j].key = iter.entry
                PROVE  \E l \in i .. Len(bins'[b]) : bins'[b][l].key = iter.entry
            BY <4>1, <5>2
          <5> QED
            BY <5>1, <5>2
        <4> QED
          BY <4>3 DEF Passed
      <3> QED
        BY <1>8, <3>1, <3>2 DEF TableInv, TripInv
    <2>3. CASE b # c
      <3>1. bins'[b] = bins[b] /\ Passed(b, i)' = Passed(b, i)
        BY <1>3, <2>3 DEF Passed
      <3> QED
        BY <1>8, <3>1 DEF TableInv, TripInv
    <2> QED
      BY <2>1, <2>2, <2>3
  <1> QED
    BY <1>3, <1>8 DEF TableInv, TripInv, bin_pos

-----------------------------------------------------------------------------
(* Iteration.                                                               *)

LEMMA EntriesFact ==
  ASSUME TypeOK, ChainsApart
  PROVE  Entries \in Seq(EntrySet) /\ Distinct(Entries) /\ KeysOf(Entries) = TableKeys
  <1>1. Entries \in Seq(EntrySet) /\ Distinct(Entries) /\ Range(Entries) = AllEntries(bins)
    BY InvShape, EntriesOfBins DEF Entries
  <1>2. KeysOf(Entries) = EntryKeys(bins)
    BY <1>1 DEF KeysOf, EntryKeys, Range
  <1> QED
    BY <1>1, <1>2, TableKeysFact

\* The place of a key of the table.
LEMMA KeyHasPlace ==
  ASSUME NEW k \in TableKeys
  PROVE  \E b \in DOMAIN bins : \E i \in DOMAIN bins[b] : bins[b][i].key = k
  BY DEF TableKeys, KeysOf

LEMMA KeysTyped ==
  ASSUME TypeOK, NEW k \in TableKeys
  PROVE  k \in Keys /\ k # Absent
  <1>1. PICK b \in DOMAIN bins : \E i \in DOMAIN bins[b] : bins[b][i].key = k
    BY KeyHasPlace
  <1>2. PICK i \in DOMAIN bins[b] : bins[b][i].key = k
    BY <1>1
  <1>3. bins[b][i] \in EntrySet
    BY DEF TypeOK
  <1>4. k \in Keys
    BY <1>2, <1>3 DEF EntrySet
  <1> QED
    BY <1>4, TableAssumption

\* The entry after the iterator's, if there is one.
LEMMA NextInChainFact ==
  ASSUME TableInv
  PROVE  \/ /\ NextInChain = Absent
            /\ \A b \in DOMAIN bins : \A i \in DOMAIN bins[b] :
                  bins[b][i].key = iter.entry => i = Len(bins[b])
         \/ \E b \in DOMAIN bins : \E i \in DOMAIN bins[b] :
               /\ bins[b][i].key = iter.entry /\ i + 1 \in DOMAIN bins[b]
               /\ NextInChain = bins[b][i + 1].key
               /\ NextInChain \in Keys /\ NextInChain # Absent
  <1> DEFINE P == {p \in (DOMAIN bins) \X (1 .. num_entries) :
                     p[2] < Len(bins[p[1]]) /\ bins[p[1]][p[2]].key = iter.entry}
             q == CHOOSE p \in P : TRUE
  <1>1. NextInChain = IF P = {} THEN Absent ELSE bins[q[1]][q[2] + 1].key
    BY DEF NextInChain
  <1>2. \A b \in DOMAIN bins : /\ DOMAIN bins[b] = 1 .. Len(bins[b]) /\ Len(bins[b]) \in Nat
                               /\ Len(bins[b]) <= num_entries /\ num_entries \in Nat
                               /\ bins[b] \in Seq(EntrySet)
    BY ChainLength DEF TableInv, TypeOK
  <1>3. CASE P = {}
    <2>1. ASSUME NEW b \in DOMAIN bins, NEW i \in DOMAIN bins[b], bins[b][i].key = iter.entry,
                 i # Len(bins[b])
          PROVE  <<b, i>> \in P
      BY <1>2, <2>1
    <2> HIDE DEF P
    <2> QED
      BY <1>1, <1>3, <2>1
  <1>4. CASE P # {}
    <2>1. q \in P
      BY <1>4
    <2> DEFINE b == q[1]
               i == q[2]
    <2> HIDE DEF q
    <2>2. /\ b \in DOMAIN bins /\ i \in 1 .. num_entries /\ i < Len(bins[b])
          /\ bins[b][i].key = iter.entry
      BY <2>1
    <2>3. NextInChain = bins[b][i + 1].key
      BY <1>1, <1>4
    <2> HIDE DEF P, b, i
    <2>4. i \in DOMAIN bins[b] /\ i + 1 \in DOMAIN bins[b]
      BY <1>2, <2>2
    <2>5. bins[b][i + 1] \in EntrySet
      BY <1>2, <2>2, <2>4
    <2>6. NextInChain \in Keys
      BY <2>3, <2>5 DEF EntrySet
    <2> QED
      BY <2>2, <2>3, <2>4, <2>6, TableAssumption
  <1> QED
    BY <1>3, <1>4

\* The next bin that has entries, num_bins if there is none.
LEMMA NextBinFact ==
  ASSUME TypeOK
  PROVE  LET c == NextBin(iter.bins_index)
         IN  /\ c \in Nat /\ c <= num_bins
             /\ c < num_bins => c \in DOMAIN bins /\ bins[c] # <<>> /\ iter.bins_index <= c
             /\ \A b \in DOMAIN bins : iter.bins_index <= b /\ b < c => bins[b] = <<>>
  <1> DEFINE m == iter.bins_index
             S == {b \in m .. num_bins - 1 : bins[b] # <<>>} \cup {num_bins}
             c == NextBin(m)
  <1>1. m \in Nat /\ num_bins \in Nat \ {0} /\ DOMAIN bins = 0 .. num_bins - 1
    BY DEF TypeOK
  <1>2. S \in SUBSET Nat /\ num_bins \in S
    BY <1>1
  <1>3. c = Min(S)
    BY DEF NextBin
  <1> HIDE DEF c
  <1>4. c \in S /\ \A b \in S : c <= b
    <2> HIDE DEF S
    <2>1. PICK j \in S : \A l \in S : j <= l
      BY <1>2, LeastNat
    <2> QED
      BY <1>3, <2>1 DEF Min
  <1>5. c \in Nat /\ c <= num_bins
    BY <1>2, <1>4
  <1>6. c < num_bins => c \in DOMAIN bins /\ bins[c] # <<>> /\ m <= c
    BY <1>1, <1>4, <1>5
  <1>7. ASSUME NEW b \in DOMAIN bins, m <= b, b < c PROVE bins[b] = <<>>
    <2>1. b \in m .. num_bins - 1 /\ ~(c <= b)
      BY <1>1, <1>5, <1>7
    <2> QED
      BY <1>4, <2>1
  <1> QED
    BY <1>5, <1>6, <1>7 DEF c

\* When the iterator has come to the end of its chain, it has passed all places in
\* front of the next bin that has entries.
LEMMA BeforeNextBin ==
  ASSUME TableInv, iter.on, ~trip.rehashed, NextInChain = Absent,
         NEW a \in DOMAIN bins, NEW l \in DOMAIN bins[a], a < NextBin(iter.bins_index)
  PROVE  Passed(a, l)
  <1>1. /\ \A b \in DOMAIN bins : \A i \in DOMAIN bins[b] :
              bins[b][i].key = iter.entry => i = Len(bins[b])
    BY NextInChainFact
  <1>2. a \in Nat /\ iter.bins_index \in Nat /\ DOMAIN bins[a] = 1 .. Len(bins[a])
        /\ Len(bins[a]) \in Nat
    BY DEF TableInv, TypeOK
  <1>3. a < iter.bins_index
    <2>1. bins[a] # <<>>
      BY <1>2
    <2> QED
      BY <1>2, <2>1, NextBinFact DEF TableInv
  <1>4. CASE a + 1 < iter.bins_index
    BY <1>4 DEF Passed
  <1>5. CASE a + 1 = iter.bins_index
    <2>1. /\ iter.entry \in TableKeys /\ iter.entry # Absent
          /\ bin_pos(iter.entry, num_bins) + 1 = iter.bins_index
      <3>1. iter.entry \in TableKeys
        BY <1>2, <1>3 DEF TableInv, TripInv
      <3>2. iter.entry # Absent
        BY <3>1, KeysTyped DEF TableInv
      <3> QED
        BY <3>1, <3>2 DEF TableInv, TripInv
    <2>2. PICK b \in DOMAIN bins : \E i \in DOMAIN bins[b] : bins[b][i].key = iter.entry
      BY <2>1, KeyHasPlace
    <2>3. PICK i \in DOMAIN bins[b] : bins[b][i].key = iter.entry
      BY <2>2
    <2>4. b = a
      <3>1. b = bin_pos(iter.entry, num_bins) /\ b \in Nat
        BY <2>3 DEF TableInv, ChainsApart, TypeOK
      <3> QED
        BY <1>2, <1>5, <2>1, <3>1
    <2>5. i = Len(bins[a]) /\ i \in l .. Len(bins[a])
      BY <1>1, <1>2, <2>3, <2>4
    <2> QED
      BY <1>5, <2>3, <2>4, <2>5 DEF Passed
  <1> QED
    BY <1>2, <1>3, <1>4, <1>5

LEMMA BeginsPreserves ==
  ASSUME TableInv, EachBegins
  PROVE  TableInv'
  <1>1. /\ iter' = [on |-> TRUE, bins_index |-> 0, entry |-> Absent]
        /\ trip' = [NoTrip EXCEPT !.start = KeysOf(Entries)]
        /\ UNCHANGED <<table, found, value>>
    BY DEF EachBegins
  <1>2. KeysOf(Entries) = TableKeys /\ TableKeys \subseteq Keys
    BY EntriesFact, KeysTyped DEF TableInv
  <1>3. trip' = [start |-> TableKeys, visits |-> [k \in Keys |-> 0], rehashed |-> FALSE]
    BY <1>1, <1>2 DEF NoTrip
  <1>4. TypeOK'
    <2>1. iter' \in [on : BOOLEAN, bins_index : Nat, entry : Keys \cup {Absent}]
      BY <1>1
    <2>2. trip' \in [start : SUBSET Keys, visits : [Keys -> 0 .. 1], rehashed : BOOLEAN]
      BY <1>2, <1>3
    <2>3. iter'.on
      BY <1>1
    <2> QED
      BY <1>1, <2>1, <2>2, <2>3 DEF TableInv, TypeOK, table
  <1>5. ChainsApart' /\ TableKeys' = TableKeys /\ num_entries' = num_entries
    BY <1>1 DEF TableInv, ChainsApart, TableKeys, table, bin_pos
  <1>6. TripInv'
    <2>1. \A b \in DOMAIN bins : b \in Nat
      BY DEF TableInv, TypeOK
    <2>2. \A b \in DOMAIN bins' : \A i \in DOMAIN bins'[b] : ~Passed(b, i)' /\ bins'[b][i].key \in Keys
      <3> SUFFICES ASSUME NEW b \in DOMAIN bins, NEW i \in DOMAIN bins[b]
                   PROVE  ~Passed(b, i)' /\ bins[b][i].key \in Keys
        BY <1>1 DEF table
      <3>1. bins[b][i] \in EntrySet
        BY DEF TableInv, TypeOK
      <3> QED
        BY <1>1, <2>1, <3>1 DEF Passed, EntrySet
    <2> QED
      BY <1>1, <1>3, <1>5, <2>2 DEF TripInv
  <1> QED
    BY <1>4, <1>5, <1>6 DEF TableInv

\* The key that the iterator comes to has not been visited before.
LEMMA NextVisitsFresh ==
  ASSUME TableInv, EachNext, iter'.on, ~trip.rehashed
  PROVE  \E b \in DOMAIN bins : \E i \in DOMAIN bins[b] :
            /\ iter'.entry = bins[b][i].key /\ iter'.bins_index = b + 1
            /\ iter'.entry \in Keys
            /\ ~Passed(b, i)
            /\ \A a \in DOMAIN bins : \A l \in DOMAIN bins[a] :
                  (a = b /\ l = i) \/ (Passed(a, l)' <=> Passed(a, l))
            /\ Passed(b, i)'
  <1> DEFINE next == NextInChain
             c == NextBin(iter.bins_index)
  <1>1. /\ iter.on /\ iter' = IteratorNext /\ bins' = bins /\ num_bins' = num_bins
    BY DEF EachNext, table
  <1>2. \A b \in DOMAIN bins : /\ DOMAIN bins[b] = 1 .. Len(bins[b]) /\ Len(bins[b]) \in Nat
                               /\ bins[b] \in Seq(EntrySet) /\ b \in Nat
    BY DEF TableInv, TypeOK
  <1>3. WellFormed(bins, num_bins) /\ num_bins \in Nat \ {0}
    BY InvShape DEF TableInv
  <1>4. iter \in [on : BOOLEAN, bins_index : Nat, entry : Keys \cup {Absent}]
    BY DEF TableInv, TypeOK
  <1>5. CASE next # Absent
    <2>1. iter' = [iter EXCEPT !.entry = next]
      BY <1>1, <1>5 DEF IteratorNext
    <2>2. iter'.entry = next /\ iter'.bins_index = iter.bins_index
      BY <1>4, <2>1
    <2>3. PICK b \in DOMAIN bins : \E i \in DOMAIN bins[b] :
               /\ bins[b][i].key = iter.entry /\ i + 1 \in DOMAIN bins[b]
               /\ next = bins[b][i + 1].key /\ next \in Keys
      BY <1>5, NextInChainFact
    <2>4. PICK i \in DOMAIN bins[b] :
               /\ bins[b][i].key = iter.entry /\ i + 1 \in DOMAIN bins[b]
               /\ next = bins[b][i + 1].key /\ next \in Keys
      BY <2>3
    <2> HIDE DEF next, c
    <2>5. iter.bins_index = b + 1
      <3>1. iter.entry # Absent
        BY <2>4, KeysTyped DEF TableInv, TableKeys, KeysOf
      <3>2. bin_pos(iter.entry, num_bins) = b
        BY <2>4 DEF TableInv, ChainsApart
      <3> QED
        BY <1>1, <3>1, <3>2 DEF TableInv, TripInv
    <2>6. ASSUME NEW l \in DOMAIN bins[b] PROVE Passed(b, l) <=> l <= i
      <3>1. (\E j \in l .. Len(bins[b]) : bins[b][j].key = iter.entry) <=> l <= i
        <4>1. ASSUME NEW j \in l .. Len(bins[b]), bins[b][j].key = iter.entry PROVE l <= i
          <5>1. j \in DOMAIN bins[b]
            BY <1>2
          <5>2. j = i
            BY <1>3, <2>4, <4>1, <5>1, OnePlace
          <5> QED
            BY <1>2, <5>2
        <4>2. ASSUME l <= i PROVE \E j \in l .. Len(bins[b]) : bins[b][j].key = iter.entry
          BY <1>2, <2>4, <4>2
        <4> QED
          BY <4>1, <4>2
      <3> QED
        BY <1>2, <2>5, <3>1 DEF Passed
    <2>7. ASSUME NEW l \in DOMAIN bins[b] PROVE Passed(b, l)' <=> l <= i + 1
      <3>1. (\E j \in l .. Len(bins[b]) : bins[b][j].key = next) <=> l <= i + 1
        <4>1. ASSUME NEW j \in l .. Len(bins[b]), bins[b][j].key = next PROVE l <= i + 1
          <5>1. j \in DOMAIN bins[b]
            BY <1>2
          <5>2. j = i + 1
            BY <1>3, <2>4, <4>1, <5>1, OnePlace
          <5> QED
            BY <1>2, <5>2
        <4>2. ASSUME l <= i + 1 PROVE \E j \in l .. Len(bins[b]) : bins[b][j].key = next
          BY <1>2, <2>4, <4>2
        <4> QED
          BY <4>1, <4>2
      <3> QED
        BY <1>1, <1>2, <2>2, <2>5, <3>1 DEF Passed
    <2>8. ASSUME NEW a \in DOMAIN bins, NEW l \in DOMAIN bins[a], ~(a = b /\ l = i + 1)
          PROVE  Passed(a, l)' <=> Passed(a, l)
      <3>1. CASE a = b
        BY <1>2, <2>6, <2>7, <2>8, <3>1
      <3>2. CASE a # b
        <4>1. a + 1 # iter.bins_index
          BY <1>2, <2>5, <3>2
        <4> QED
          BY <2>2, <4>1 DEF Passed
      <3> QED
        BY <3>1, <3>2
    <2>9. i + 1 \in DOMAIN bins[b] /\ ~Passed(b, i + 1) /\ Passed(b, i + 1)'
      BY <1>2, <2>4, <2>6, <2>7
    <2> QED
      BY <2>2, <2>4, <2>5, <2>8, <2>9
  <1>6. CASE next = Absent
    <2>1. c < num_bins /\ iter' = [iter EXCEPT !.bins_index = c + 1, !.entry = Head(bins[c]).key]
      BY <1>1, <1>6 DEF IteratorNext, NoIter
    <2>2. /\ c \in DOMAIN bins /\ bins[c] # <<>> /\ iter.bins_index <= c /\ c \in Nat
          /\ \A a \in DOMAIN bins : \A l \in DOMAIN bins[a] : a < c => Passed(a, l)
      BY <1>1, <1>6, <2>1, NextBinFact, BeforeNextBin DEF TableInv
    <2> HIDE DEF next, c
    <2>3. 1 \in DOMAIN bins[c] /\ Head(bins[c]) = bins[c][1]
      BY <1>2, <2>2, EmptySeq
    <2>4. iter'.entry = bins[c][1].key /\ iter'.bins_index = c + 1
      BY <1>4, <2>1, <2>3
    <2>5. bins[c][1].key \in Keys
      <3>1. bins[c][1] \in EntrySet
        BY <1>2, <2>2, <2>3
      <3> QED
        BY <3>1 DEF EntrySet
    <2>6. ASSUME NEW a \in DOMAIN bins, NEW l \in DOMAIN bins[a]
          PROVE  Passed(a, l) <=> a < c
      <3>1. CASE a < c
        BY <2>2, <3>1
      <3>2. CASE ~(a < c)
        BY <1>2, <1>4, <2>2, <3>2 DEF Passed
      <3> QED
        BY <3>1, <3>2
    <2>7. ASSUME NEW a \in DOMAIN bins, NEW l \in DOMAIN bins[a]
          PROVE  Passed(a, l)' <=> a < c \/ (a = c /\ l = 1)
      <3>1. (\E j \in l .. Len(bins[c]) : bins[c][j].key = bins[c][1].key) <=> l = 1
        <4>1. ASSUME NEW j \in l .. Len(bins[c]), bins[c][j].key = bins[c][1].key PROVE l = 1
          <5>1. j \in DOMAIN bins[c] /\ l \in Nat \ {0}
            BY <1>2, <2>2
          <5>2. j = 1
            BY <1>3, <2>2, <2>3, <4>1, <5>1, OnePlace
          <5> QED
            BY <5>1, <5>2
        <4>2. ASSUME l = 1 PROVE \E j \in l .. Len(bins[c]) : bins[c][j].key = bins[c][1].key
          BY <1>2, <2>2, <2>3, <4>2
        <4> QED
          BY <4>1, <4>2
      <3>2. a + 1 < c + 1 <=> a < c
        BY <1>2, <2>2
      <3>3. a + 1 = c + 1 <=> a = c
        BY <1>2, <2>2
      <3> QED
        BY <1>1, <2>4, <3>1, <3>2, <3>3 DEF Passed
    <2>8. ~(c < c)
      BY <2>2
    <2> QED
      BY <2>2, <2>3, <2>4, <2>5, <2>6, <2>7, <2>8
  <1> QED
    BY <1>5, <1>6

LEMMA IterTyped ==
  ASSUME NEW i \in Nat, NEW k \in Keys
  PROVE  [on |-> TRUE, bins_index |-> i, entry |-> k]
           \in [on : BOOLEAN, bins_index : Nat, entry : Keys \cup {Absent}]
  OBVIOUS

\* Where the iterator comes to there is an entry.
LEMMA NextIsThere ==
  ASSUME TableInv, EachNext
  PROVE  \/ iter' = NoIter
         \/ /\ iter' \in [on : BOOLEAN, bins_index : Nat, entry : Keys \cup {Absent}]
            /\ iter'.on /\ iter'.entry \in TableKeys /\ iter'.entry \in Keys
  <1> DEFINE next == NextInChain
             c == NextBin(iter.bins_index)
  <1>1. iter.on /\ iter' = IteratorNext
    BY DEF EachNext
  <1>2. iter \in [on : BOOLEAN, bins_index : Nat, entry : Keys \cup {Absent}]
    BY DEF TableInv, TypeOK
  <1>3. CASE next # Absent
    <2>1. iter' = [iter EXCEPT !.entry = next]
      BY <1>1, <1>3 DEF IteratorNext
    <2>2. PICK b \in DOMAIN bins : \E i \in DOMAIN bins[b] :
             i + 1 \in DOMAIN bins[b] /\ next = bins[b][i + 1].key /\ next \in Keys
      BY <1>3, NextInChainFact
    <2>3. next \in Keys /\ next \in TableKeys
      BY <2>2 DEF TableKeys, KeysOf
    <2> HIDE DEF next
    <2> QED
      BY <1>1, <1>2, <2>1, <2>3
  <1>4. CASE next = Absent /\ c < num_bins
    <2>1. iter' = [iter EXCEPT !.bins_index = c + 1, !.entry = Head(bins[c]).key]
      BY <1>1, <1>4 DEF IteratorNext
    <2>2. c \in DOMAIN bins /\ c \in Nat /\ bins[c] # <<>> /\ bins[c] \in Seq(EntrySet)
      BY <1>4, NextBinFact DEF TableInv, TypeOK
    <2> DEFINE k == Head(bins[c]).key
    <2> HIDE DEF next, c
    <2>3. 1 \in DOMAIN bins[c] /\ Head(bins[c]) = bins[c][1] /\ bins[c][1] \in EntrySet
      BY <2>2, EmptySeq
    <2>4. k \in TableKeys /\ k \in Keys
      BY <2>2, <2>3 DEF TableKeys, KeysOf, EntrySet
    <2> HIDE DEF k
    <2>5. c + 1 \in Nat /\ iter' = [iter EXCEPT !.bins_index = c + 1, !.entry = k]
      BY <2>1, <2>2 DEF k
    <2>6. iter' = [on |-> TRUE, bins_index |-> c + 1, entry |-> k]
      BY <1>1, <1>2, <2>5
    <2>7. iter' \in [on : BOOLEAN, bins_index : Nat, entry : Keys \cup {Absent}]
      BY <2>4, <2>5, <2>6, IterTyped
    <2>8. iter'.on /\ iter'.entry = k
      BY <2>6
    <2> QED
      BY <2>4, <2>7, <2>8
  <1>5. CASE next = Absent /\ ~(c < num_bins)
    BY <1>1, <1>5 DEF IteratorNext
  <1> QED
    BY <1>3, <1>4, <1>5

LEMMA EachNextPreserves ==
  ASSUME TableInv, EachNext
  PROVE  TableInv'
  <1>1. /\ iter.on /\ UNCHANGED <<table, found, value>>
        /\ bins' = bins /\ num_bins' = num_bins /\ num_entries' = num_entries
        /\ trip' = IF ~iter'.on THEN NoTrip
                   ELSE IF trip.rehashed THEN trip
                   ELSE [trip EXCEPT !.visits[iter'.entry] = @ + 1]
    BY DEF EachNext, table
  <1>2. ChainsApart' /\ TableKeys' = TableKeys
    BY <1>1 DEF TableInv, ChainsApart, TableKeys, bin_pos
  <1>3. trip \in [start : SUBSET Keys, visits : [Keys -> 0 .. 1], rehashed : BOOLEAN]
    BY DEF TableInv, TypeOK
  <1>4. SUFFICES /\ iter' \in [on : BOOLEAN, bins_index : Nat, entry : Keys \cup {Absent}]
                 /\ trip' \in [start : SUBSET Keys, visits : [Keys -> 0 .. 1], rehashed : BOOLEAN]
                 /\ ~iter'.on => iter' = NoIter /\ trip' = NoTrip
                 /\ TripInv'
    BY <1>1, <1>2 DEF TableInv, TypeOK
  <1>5. CASE iter' = NoIter
    <2>1. ~iter'.on /\ trip' = NoTrip
      BY <1>1, <1>5 DEF NoIter
    <2>2. /\ NoIter \in [on : BOOLEAN, bins_index : Nat, entry : Keys \cup {Absent}]
          /\ NoTrip \in [start : SUBSET Keys, visits : [Keys -> 0 .. 1], rehashed : BOOLEAN]
      BY DEF NoIter, NoTrip
    <2> QED
      BY <1>5, <2>1, <2>2, NoTripInv
  <1>6. CASE iter' # NoIter
    <2>1. /\ iter' \in [on : BOOLEAN, bins_index : Nat, entry : Keys \cup {Absent}]
          /\ iter'.on /\ iter'.entry \in TableKeys /\ iter'.entry \in Keys
      BY <1>6, NextIsThere
    <2>2. CASE trip.rehashed
      <3>1. trip' = trip
        BY <1>1, <2>1, <2>2
      <3> QED
        BY <1>2, <1>3, <2>1, <2>2, <3>1 DEF TripInv
    <2>3. CASE ~trip.rehashed
      <3> DEFINE e == iter'.entry
      <3>1. trip' = [trip EXCEPT !.visits[e] = @ + 1]
        BY <1>1, <2>1, <2>3
      <3>2. PICK b \in DOMAIN bins : \E i \in DOMAIN bins[b] :
              /\ e = bins[b][i].key /\ iter'.bins_index = b + 1
              /\ ~Passed(b, i)
              /\ \A a \in DOMAIN bins : \A l \in DOMAIN bins[a] :
                    (a = b /\ l = i) \/ (Passed(a, l)' <=> Passed(a, l))
              /\ Passed(b, i)'
        BY <2>1, <2>3, NextVisitsFresh
      <3>3. PICK i \in DOMAIN bins[b] :
              /\ e = bins[b][i].key /\ iter'.bins_index = b + 1
              /\ ~Passed(b, i)
              /\ \A a \in DOMAIN bins : \A l \in DOMAIN bins[a] :
                    (a = b /\ l = i) \/ (Passed(a, l)' <=> Passed(a, l))
              /\ Passed(b, i)'
        BY <3>2
      <3> HIDE DEF e
      <3>4. e \in Keys /\ trip.visits[e] = 0
        <4>1. trip.visits[e] # 1
          BY <1>1, <2>3, <3>3 DEF TableInv, TripInv
        <4> QED
          BY <1>3, <2>1, <4>1 DEF e
      <3>5. /\ trip'.start = trip.start /\ trip'.rehashed = FALSE
            /\ trip'.visits = [trip.visits EXCEPT ![e] = 1]
        BY <1>3, <2>3, <3>1, <3>4
      <3>6. trip' \in [start : SUBSET Keys, visits : [Keys -> 0 .. 1], rehashed : BOOLEAN]
        BY <1>3, <3>1, <3>4
      <3>7. bin_pos(e, num_bins') + 1 = iter'.bins_index
        BY <1>1, <3>3 DEF TableInv, ChainsApart
      <3>8. ASSUME NEW a \in DOMAIN bins, NEW l \in DOMAIN bins[a]
            PROVE  LET k == bins[a][l].key
                   IN  /\ trip'.visits[k] = 1 => Passed(a, l)'
                       /\ k \in trip.start /\ Passed(a, l)' => trip'.visits[k] = 1
        <4>1. bins[a][l].key \in Keys
          <5>1. bins[a][l] \in EntrySet
            BY DEF TableInv, TypeOK
          <5> QED
            BY <5>1 DEF EntrySet
        <4>2. CASE a = b /\ l = i
          BY <1>3, <3>3, <3>4, <3>5, <4>2
        <4>3. CASE ~(a = b /\ l = i)
          <5>1. bins[a][l].key # e
            BY <3>3, <4>3, OnePlace, InvShape DEF TableInv
          <5>2. trip'.visits[bins[a][l].key] = trip.visits[bins[a][l].key]
            BY <1>3, <3>5, <4>1, <5>1
          <5> QED
            BY <1>1, <2>3, <3>3, <4>3, <5>2 DEF TableInv, TripInv
        <4> QED
          BY <4>2, <4>3
      <3>9. \A k \in Keys : trip'.visits[k] = 1 => k \in TableKeys
        BY <1>1, <1>3, <2>1, <2>3, <3>5 DEF TableInv, TripInv, e
      <3>10. trip.start \subseteq TableKeys
        BY <1>1, <2>3 DEF TableInv, TripInv
      <3> QED
        BY <1>1, <1>2, <2>1, <3>5, <3>6, <3>7, <3>8, <3>9, <3>10 DEF TripInv, e
    <2> QED
      BY <2>2, <2>3
  <1> QED
    BY <1>5, <1>6

-----------------------------------------------------------------------------
(* The steps keep the invariant.                                            *)

\* Types and chains after an operation on the table.
LEMMA TypeAfter ==
  ASSUME TableInv, num_bins' \in Nat \ {0}, WellFormed(bins', num_bins'), num_entries' \in Nat,
         found' \in BOOLEAN, value' \in Values \cup {Absent}, iter' = iter,
         trip' = trip \/ (iter.on /\ trip' = [NoTrip EXCEPT !.rehashed = TRUE])
  PROVE  TypeOK' /\ ChainsApart'
  <1>1. ChainsApart' /\ bins' \in [0 .. num_bins' - 1 -> Seq(EntrySet)]
    BY DEF ChainsApart, WellFormed, Distinct
  <1>2. /\ iter' \in [on : BOOLEAN, bins_index : Nat, entry : Keys \cup {Absent}]
        /\ ~iter'.on => iter' = NoIter /\ trip' = NoTrip
    BY DEF TableInv, TypeOK
  <1>3. trip' \in [start : SUBSET Keys, visits : [Keys -> 0 .. 1], rehashed : BOOLEAN]
    <2>1. [NoTrip EXCEPT !.rehashed = TRUE]
            \in [start : SUBSET Keys, visits : [Keys -> 0 .. 1], rehashed : BOOLEAN]
      <3>1. NoTrip \in [start : SUBSET Keys, visits : [Keys -> 0 .. 1], rehashed : BOOLEAN]
        BY DEF NoTrip
      <3> QED
        BY <3>1
    <2> QED
      BY <2>1 DEF TableInv, TypeOK
  <1> QED
    BY <1>1, <1>2, <1>3 DEF TypeOK

LEMMA InsertPreserves ==
  ASSUME TableInv, NEW k \in Keys, NEW v \in Values, Insert(k, v) \/ AddDirect(k, v)
  PROVE  TableInv'
  <1>1. /\ num_bins' \in Nat \ {0} /\ WellFormed(bins', num_bins')
        /\ found' = (k \in EntryKeys(bins)) /\ found' \in BOOLEAN /\ value' = v
    BY InsertFacts
  <1>2. /\ EntryKeys(bins') = EntryKeys(bins) \cup {k}
        /\ IsFiniteSet(EntryKeys(bins')) /\ num_entries' = Cardinality(EntryKeys(bins'))
        /\ num_entries' \in Nat
    BY InsertCounts
  <1>3. iter' = iter
    BY DEF Insert, AddDirect
  <1>5. TableKeys = EntryKeys(bins) /\ TableKeys' = EntryKeys(bins')
    BY TableKeysFact
  <1>6. CASE find_entry(k) # 0
    <2> DEFINE b == bin_pos(k, num_bins)
               i == find_entry(k)
    <2>1. WellFormed(bins, num_bins) /\ num_bins \in Nat \ {0}
      BY InvShape DEF TableInv
    <2>2. b \in DOMAIN bins /\ i \in DOMAIN bins[b] /\ bins[b][i].key = k
      BY <1>6, <2>1, FindEntry
    <2>3. bins' = Replace(bins, b, i, v) /\ num_bins' = num_bins /\ trip' = trip
      BY <1>6 DEF Insert, AddDirect, Replace
    <2>4. k \in TableKeys
      BY <2>2 DEF TableKeys, KeysOf
    <2> HIDE DEF b, i
    <2>5. /\ DOMAIN bins' = DOMAIN bins
          /\ \A a \in DOMAIN bins : /\ DOMAIN bins'[a] = DOMAIN bins[a]
                                    /\ Len(bins'[a]) = Len(bins[a])
                                    /\ \A j \in DOMAIN bins[a] : bins'[a][j].key = bins[a][j].key
      BY <2>1, <2>2, <2>3, SetRecord
    <2>6. TableKeys' = TableKeys
      BY <1>2, <1>5, <2>4
    <2>7. TripInv'
      BY <1>3, <2>3, <2>5, <2>6, TripKept
    <2>8. TypeOK' /\ ChainsApart'
      BY <1>1, <1>2, <1>3, <2>3, TypeAfter
    <2> QED
      BY <1>2, <1>5, <2>7, <2>8 DEF TableInv
  <1>7. CASE find_entry(k) = 0
    <2>1. add_direct(k, v)
      BY <1>7 DEF Insert, AddDirect
    <2>2. /\ k \notin EntryKeys(bins)
          /\ \/ iter.on /\ trip' = [NoTrip EXCEPT !.rehashed = TRUE]
             \/ ~iter.on /\ trip' = trip
             \/ /\ trip' = trip /\ num_bins' = num_bins
                /\ bins' = Put(bins, num_bins, Entry(k, v))
      BY <1>7, <2>1, AddFacts
    <2>3. TypeOK' /\ ChainsApart'
      BY <1>1, <1>2, <1>3, <2>2, TypeAfter
    <2>4. TripInv'
      <3>1. CASE iter.on /\ trip' = [NoTrip EXCEPT !.rehashed = TRUE]
        BY <1>2, <1>3, <1>5, <3>1, TripAfterGrowth
      <3>2. CASE ~iter.on
        BY <1>3, <3>2, NoTripInv
      <3>3. CASE /\ trip' = trip /\ num_bins' = num_bins
                 /\ bins' = Put(bins, num_bins, Entry(k, v))
        <4>1. Entry(k, v) \in EntrySet /\ Entry(k, v).key = k
          BY DEF Entry, EntrySet
        <4> QED
          BY <1>2, <1>3, <1>5, <2>2, <3>3, <4>1, TripAfterPut
      <3> QED
        BY <2>2, <3>1, <3>2, <3>3
    <2> QED
      BY <1>2, <1>5, <2>3, <2>4 DEF TableInv
  <1> QED
    BY <1>6, <1>7

LEMMA DeletePreserves ==
  ASSUME TableInv, NEW k \in Keys, Delete(k)
  PROVE  TableInv'
  <1>1. /\ num_bins' = num_bins /\ WellFormed(bins', num_bins)
        /\ found' = (k \in EntryKeys(bins)) /\ found' \in BOOLEAN /\ value' = Absent
    BY DeleteFacts
  <1>2. /\ IsFiniteSet(EntryKeys(bins')) /\ num_entries' = Cardinality(EntryKeys(bins'))
        /\ num_entries' \in Nat
    BY DeleteCounts
  <1>3. iter' = iter /\ trip' = trip /\ ~iter'.on
    BY DEF Delete
  <1>5. num_bins \in Nat \ {0}
    BY DEF TableInv, TypeOK
  <1>6. TypeOK' /\ ChainsApart'
    BY <1>1, <1>2, <1>3, <1>5, TypeAfter
  <1>7. TripInv'
    BY <1>3, NoTripInv
  <1> QED
    BY <1>2, <1>6, <1>7, TableKeysFact DEF TableInv

\* A step that leaves table and iteration alone.
LEMMA TableUnchanged ==
  ASSUME TableInv, UNCHANGED <<table, iter, trip>>, found' \in BOOLEAN, value' \in Values \cup {Absent}
  PROVE  TableInv'
  <1>1. /\ bins' = bins /\ num_bins' = num_bins /\ num_entries' = num_entries
        /\ iter' = iter /\ trip' = trip
    BY DEF table
  <1>2. TypeOK' /\ ChainsApart' /\ TableKeys' = TableKeys
    BY <1>1 DEF TableInv, TypeOK, ChainsApart, TableKeys, bin_pos
  <1>3. TripInv'
    BY <1>1, <1>2, TripKept
  <1> QED
    BY <1>1, <1>2, <1>3 DEF TableInv

LEMMA LookupPreserves ==
  ASSUME TableInv, NEW k \in Keys, Lookup(k)
  PROVE  TableInv'
  <1> DEFINE b == bin_pos(k, num_bins)
             i == find_entry(k)
  <1>1. /\ found' = (i # 0) /\ value' = IF i = 0 THEN Absent ELSE bins[b][i].record
        /\ UNCHANGED <<table, iter, trip>>
    BY DEF Lookup
  <1>2. found' \in BOOLEAN
    BY <1>1
  <1>3. WellFormed(bins, num_bins) /\ num_bins \in Nat \ {0}
    BY InvShape DEF TableInv
  <1>4. b \in DOMAIN bins /\ (i # 0 => i \in DOMAIN bins[b])
    BY <1>3, FindEntry
  <1> HIDE DEF b, i
  <1>5. i # 0 => bins[b][i].record \in Values
    <2>1. i # 0 => bins[b][i] \in EntrySet
      BY <1>3, <1>4 DEF WellFormed
    <2> QED
      BY <2>1 DEF EntrySet
  <1> QED
    BY <1>1, <1>2, <1>5, TableUnchanged

LEMMA NextInv == TableInv /\ [Next]_vars => TableInv'
  <1> SUFFICES ASSUME TableInv, [Next]_vars PROVE TableInv'
    OBVIOUS
  <1>1. ASSUME NEW k \in Keys, Lookup(k) PROVE TableInv'
    BY <1>1, LookupPreserves
  <1>2. ASSUME NEW k \in Keys, Delete(k) PROVE TableInv'
    BY <1>2, DeletePreserves
  <1>3. ASSUME NEW k \in Keys, NEW v \in Values, Insert(k, v) \/ AddDirect(k, v) PROVE TableInv'
    BY <1>3, InsertPreserves
  <1>4. CASE EachBegins
    BY <1>4, BeginsPreserves
  <1>5. CASE EachNext
    BY <1>5, EachNextPreserves
  <1>6. CASE UNCHANGED vars
    <2>1. UNCHANGED <<table, iter, trip, found, value>>
      BY <1>6 DEF vars, table
    <2> QED
      BY <2>1, TableUnchanged DEF TableInv, TypeOK
  <1> QED
    BY <1>1, <1>2, <1>3, <1>4, <1>5, <1>6 DEF Next

-----------------------------------------------------------------------------
(* Theorems.                                                                *)

\* Whatever the block of an each does to the table, chains, counter and iterator agree:
\* the bins hold what the hashes say (rehash, table.c:132), num_entries counts it, and
\* the block was called with what the iterator has passed (YogTableIterator_next).
THEOREM TableCorrect == Spec => []TableInv
  BY InitInv, NextInv, PTL DEF Spec

\* find_entry may look at one bin only, and YogTable_size counts the keys of the table.
THEOREM ShapeCorrect == Spec => []TableShape
  <1>1. TableInv => TableShape
    <2> SUFFICES ASSUME TableInv PROVE TableShape
      OBVIOUS
    <2>1. Entries \in Seq(EntrySet) /\ Distinct(Entries) /\ KeysOf(Entries) = TableKeys
      BY EntriesFact DEF TableInv
    <2>2. Cardinality(KeysOf(Entries)) = Len(Entries)
      BY <2>1, DistinctCardinality
    <2>3. DOMAIN bins = 0 .. num_bins - 1
      BY DEF TableInv, TypeOK
    <2> QED
      BY <2>1, <2>2, <2>3 DEF TableInv, ChainsApart, TableShape
  <1> QED
    BY <1>1, TableCorrect, PTL

\* When each ends, the iterator has passed the places of all keys.
LEMMA AllVisited ==
  ASSUME TableInv, [Next]_vars, iter.on, ~iter'.on, ~trip.rehashed, NEW k \in Keys
  PROVE  trip.visits[k] \in (IF k \in trip.start THEN {1} ELSE {0, 1})
  <1>1. EachNext
    BY DEF Next, Insert, AddDirect, Lookup, Delete, EachBegins, vars
  <1>2. iter \in [on : BOOLEAN, bins_index : Nat, entry : Keys \cup {Absent}]
    BY DEF TableInv, TypeOK
  <1> DEFINE c == NextBin(iter.bins_index)
  <1>3. NextInChain = Absent /\ ~(c < num_bins)
    <2>1. iter' = IteratorNext
      BY <1>1 DEF EachNext
    <2> QED
      BY <1>2, <2>1 DEF IteratorNext
  <1>4. \A a \in DOMAIN bins : a < c
    BY <1>3, NextBinFact DEF TableInv, TypeOK
  <1> HIDE DEF c
  <1>5. \A a \in DOMAIN bins : \A l \in DOMAIN bins[a] : Passed(a, l)
    BY <1>3, <1>4, BeforeNextBin DEF c
  <1>6. trip.visits[k] \in 0 .. 1
    BY DEF TableInv, TypeOK
  <1>7. CASE k \in trip.start
    <2>1. k \in TableKeys
      BY <1>7 DEF TableInv, TripInv
    <2>2. PICK b \in DOMAIN bins : \E i \in DOMAIN bins[b] : bins[b][i].key = k
      BY <2>1, KeyHasPlace
    <2>3. trip.visits[k] = 1
      BY <1>5, <1>7, <2>2 DEF TableInv, TripInv
    <2> QED
      BY <1>7, <2>3
  <1> QED
    BY <1>6, <1>7

\* The block of Dict#each and Set#each is called once with every key that was there at
\* the start, and never twice with one key, while the table does not grow.
THEOREM EachOnce == Spec => EachVisitsOnce
  <1>1. TableInv /\ [Next]_vars
          => [iter.on /\ ~iter'.on /\ ~trip.rehashed =>
                \A k \in Keys : trip.visits[k] \in (IF k \in trip.start THEN {1} ELSE {0, 1})]_vars
    BY AllVisited
  <1> QED
    BY <1>1, TableCorrect, PTL DEF Spec, EachVisitsOnce

-----------------------------------------------------------------------------
(* The table is a dictionary.                                               *)

LEMMA ContentsAre == Contents = ContentsOf(bins, num_bins) /\ Contents' = ContentsOf(bins', num_bins')
  <1>1. ASSUME NEW k \in Keys
        PROVE  /\ find_entry(k) = FindIn(bins, num_bins, k)
               /\ find_entry(k)' = FindIn(bins', num_bins', k)
    <2>1. find_entry(k) = FindIn(bins, num_bins, k)
      BY Zenon DEF find_entry, FindIn
    <2>2. find_entry(k)' = FindIn(bins', num_bins', k)
      BY Zenon DEF find_entry, FindIn, SelectInSeq, bin_pos
    <2> QED
      BY <2>1, <2>2
  <1>2. Contents = ContentsOf(bins, num_bins)
    <2>1. {k \in Keys : find_entry(k) # 0} = {k \in Keys : FindIn(bins, num_bins, k) # 0}
      BY <1>1
    <2> QED
      BY <1>1, <2>1 DEF Contents, ContentsOf
  <1>3. Contents' = ContentsOf(bins', num_bins')
    <2>1. {k \in Keys : find_entry(k)' # 0} = {k \in Keys : FindIn(bins', num_bins', k) # 0}
      BY <1>1
    <2> QED
      BY <1>1, <2>1 DEF Contents, ContentsOf, bin_pos
  <1> QED
    BY <1>2, <1>3

\* The contents of a table with one entry set.
LEMMA SetContents ==
  ASSUME NEW n \in Nat \ {0}, NEW bs, WellFormed(bs, n),
         NEW m \in Nat \ {0}, NEW cs, WellFormed(cs, m), NEW k \in Keys, NEW v \in Values,
         AllEntries(cs) = {f \in AllEntries(bs) : f.key # k} \cup {Entry(k, v)}
  PROVE  ContentsOf(cs, m)
           = [x \in DOMAIN ContentsOf(bs, n) \cup {k} |-> IF x = k THEN v ELSE ContentsOf(bs, n)[x]]
  <1> DEFINE B == ContentsOf(bs, n)
             C == ContentsOf(cs, m)
  <1>1. /\ DOMAIN B = EntryKeys(bs) /\ \A e \in AllEntries(bs) : B[e.key] = e.record
        /\ C = [x \in DOMAIN C |-> C[x]]
        /\ DOMAIN C = EntryKeys(cs) /\ \A e \in AllEntries(cs) : C[e.key] = e.record
    BY ContentsFact DEF EntryKeys
  <1> HIDE DEF B, C
  <1>2. Entry(k, v).key = k /\ Entry(k, v).record = v /\ Entry(k, v) \in AllEntries(cs)
    BY DEF Entry
  <1>3. DOMAIN C = DOMAIN B \cup {k}
    BY <1>1, <1>2 DEF EntryKeys
  <1>4. ASSUME NEW x \in DOMAIN C PROVE C[x] = IF x = k THEN v ELSE B[x]
    <2>1. PICK e \in AllEntries(cs) : x = e.key
      BY <1>1 DEF EntryKeys
    <2>2. CASE x = k
      BY <1>1, <1>2, <2>2
    <2>3. CASE x # k
      BY <1>1, <1>2, <2>1, <2>3
    <2> QED
      BY <2>2, <2>3
  <1> QED
    BY <1>1, <1>3, <1>4 DEF B, C

\* The contents of a table without the entry of one key.
LEMMA RemoveContents ==
  ASSUME NEW n \in Nat \ {0}, NEW bs, WellFormed(bs, n), NEW cs, WellFormed(cs, n), NEW k \in Keys,
         AllEntries(cs) = {f \in AllEntries(bs) : f.key # k}
  PROVE  ContentsOf(cs, n) = [x \in DOMAIN ContentsOf(bs, n) \ {k} |-> ContentsOf(bs, n)[x]]
  <1> DEFINE B == ContentsOf(bs, n)
             C == ContentsOf(cs, n)
  <1>1. /\ DOMAIN B = EntryKeys(bs) /\ \A e \in AllEntries(bs) : B[e.key] = e.record
        /\ C = [x \in DOMAIN C |-> C[x]]
        /\ DOMAIN C = EntryKeys(cs) /\ \A e \in AllEntries(cs) : C[e.key] = e.record
    BY ContentsFact DEF EntryKeys
  <1> HIDE DEF B, C
  <1>2. DOMAIN C = DOMAIN B \ {k}
    BY <1>1 DEF EntryKeys
  <1>3. ASSUME NEW x \in DOMAIN C PROVE C[x] = B[x]
    <2>1. PICK e \in AllEntries(cs) : x = e.key
      BY <1>1 DEF EntryKeys
    <2> QED
      BY <1>1, <2>1
  <1> QED
    BY <1>1, <1>2, <1>3 DEF B, C

\* The keys of the contents.
LEMMA ContentsKeys ==
  ASSUME NEW n \in Nat \ {0}, NEW bs, WellFormed(bs, n)
  PROVE  DOMAIN ContentsOf(bs, n) = EntryKeys(bs)
  BY ContentsFact DEF EntryKeys

LEMMA InsertSets ==
  ASSUME TableInv, NEW k \in Keys, NEW v \in Values, Insert(k, v) \/ AddDirect(k, v)
  PROVE  D!Set(Contents, k, v) /\ num_entries' = Cardinality(DOMAIN Contents')
  <1>1. WellFormed(bins, num_bins) /\ num_bins \in Nat \ {0}
    BY InvShape DEF TableInv
  <1>2. /\ num_bins' \in Nat \ {0} /\ WellFormed(bins', num_bins')
        /\ AllEntries(bins') = {f \in AllEntries(bins) : f.key # k} \cup {Entry(k, v)}
        /\ found' = (k \in EntryKeys(bins)) /\ value' = v
    BY InsertFacts
  <1>3. DOMAIN Contents = EntryKeys(bins) /\ DOMAIN Contents' = EntryKeys(bins')
    BY <1>1, <1>2, ContentsAre, ContentsKeys
  <1>4. Contents' = [x \in DOMAIN Contents \cup {k} |-> IF x = k THEN v ELSE Contents[x]]
    BY <1>1, <1>2, ContentsAre, SetContents, SMTT(30)
  <1>5. num_entries' = Cardinality(DOMAIN Contents')
    BY <1>3, InsertCounts
  <1> QED
    BY <1>2, <1>3, <1>4, <1>5, Zenon DEF D!Set

LEMMA DeleteRemoves ==
  ASSUME TableInv, NEW k \in Keys, Delete(k)
  PROVE  D!Remove(Contents, k) /\ num_entries' = Cardinality(DOMAIN Contents')
  <1>1. WellFormed(bins, num_bins) /\ num_bins \in Nat \ {0}
    BY InvShape DEF TableInv
  <1>2. /\ num_bins' = num_bins /\ WellFormed(bins', num_bins)
        /\ AllEntries(bins') = {f \in AllEntries(bins) : f.key # k}
        /\ found' = (k \in EntryKeys(bins)) /\ value' = Absent
    BY DeleteFacts
  <1>3. DOMAIN Contents = EntryKeys(bins) /\ DOMAIN Contents' = EntryKeys(bins')
    BY <1>1, <1>2, ContentsAre, ContentsKeys
  <1>4. Contents' = [x \in DOMAIN Contents \ {k} |-> Contents[x]]
    BY <1>1, <1>2, ContentsAre, RemoveContents
  <1>5. num_entries' = Cardinality(DOMAIN Contents')
    BY <1>3, DeleteCounts
  <1> QED
    BY <1>2, <1>3, <1>4, <1>5, Zenon DEF D!Remove

LEMMA LookupGets ==
  ASSUME TableInv, NEW k \in Keys, Lookup(k)
  PROVE  D!Get(Contents, k) /\ num_entries' = Cardinality(DOMAIN Contents')
  <1> DEFINE b == bin_pos(k, num_bins)
             i == find_entry(k)
  <1>1. WellFormed(bins, num_bins) /\ num_bins \in Nat \ {0}
    BY InvShape DEF TableInv
  <1>2. /\ b \in DOMAIN bins /\ (i # 0 => i \in DOMAIN bins[b] /\ bins[b][i].key = k)
        /\ (i = 0 => \A e \in AllEntries(bins) : e.key # k)
    BY <1>1, FindEntry
  <1>3. /\ found' = (i # 0) /\ value' = IF i = 0 THEN Absent ELSE bins[b][i].record
        /\ bins' = bins /\ num_bins' = num_bins /\ num_entries' = num_entries
    BY DEF Lookup, table
  <1> HIDE DEF b, i
  <1>4. /\ DOMAIN Contents = EntryKeys(bins)
        /\ \A e \in AllEntries(bins) : Contents[e.key] = e.record
    BY <1>1, ContentsAre, ContentsFact DEF EntryKeys
  <1>5. Contents' = Contents
    BY <1>3, ContentsAre
  <1>6. num_entries' = Cardinality(DOMAIN Contents')
    BY <1>3, <1>4, <1>5, TableKeysFact DEF TableInv
  <1>7. CASE i = 0
    <2>1. k \notin DOMAIN Contents
      BY <1>2, <1>4, <1>7 DEF EntryKeys
    <2>2. found' = FALSE /\ value' = Absent
      BY <1>3, <1>7
    <2>3. (k \in DOMAIN Contents) = FALSE
      BY <2>1
    <2> QED
      BY <1>5, <1>6, <2>1, <2>2, <2>3, Zenon DEF D!Get
  <1>8. CASE i # 0
    <2>1. bins[b][i] \in AllEntries(bins) /\ bins[b][i].key = k
      BY <1>2, <1>8, PlaceHasEntry
    <2>2. k \in DOMAIN Contents /\ Contents[k] = bins[b][i].record
      BY <1>4, <2>1 DEF EntryKeys
    <2>3. found' = TRUE /\ value' = Contents[k]
      BY <1>3, <1>8, <2>2
    <2>4. (k \in DOMAIN Contents) = TRUE
      BY <2>2
    <2> QED
      BY <1>5, <1>6, <2>2, <2>3, <2>4, Zenon DEF D!Get
  <1> QED
    BY <1>7, <1>8

LEMMA SameCardinality ==
  ASSUME NEW S
  PROVE  D!Cardinality(S) = Cardinality(S)
  BY Zenon DEF D!Cardinality, Cardinality

\* Insertion, lookup, deletion and size are those of a dictionary, whatever the hashes
\* and through growth; iteration does not change it.
THEOREM TableIsDictionary == Spec => IsDictionary
  <1>1. Init => D!Init
    <2> SUFFICES ASSUME Init PROVE D!Init
      OBVIOUS
    <2>1. TableInv
      BY InitInv
    <2>2. WellFormed(bins, num_bins) /\ num_bins \in Nat \ {0}
      BY <2>1, InvShape DEF TableInv
    <2>3. EntryKeys(bins) = {}
      BY DEF Init, EntryKeys, AllEntries, Range
    <2>4. Contents = [k \in DOMAIN Contents |-> Contents[k]] /\ DOMAIN Contents = {}
      BY <2>2, <2>3, ContentsAre, ContentsFact, ContentsKeys, ZenonT(30)
    <2>5. Contents = [x \in {} |-> Absent]
      BY <2>4
    <2> QED
      BY <2>5 DEF Init, D!Init
  <1>2. TableInv /\ [Next]_vars => [D!Next]_<<Contents, num_entries, found, value>>
    <2> SUFFICES ASSUME TableInv, [Next]_vars
                 PROVE  D!Next \/ UNCHANGED <<Contents, num_entries, found, value>>
      OBVIOUS
    <2>1. ASSUME NEW k \in Keys, Lookup(k) PROVE D!Next
      <3>1. D!Get(Contents, k) /\ num_entries' = Cardinality(DOMAIN Contents')
        BY <2>1, LookupGets
      <3> QED
        BY <3>1, SameCardinality DEF D!Next
    <2>2. ASSUME NEW k \in Keys, Delete(k) PROVE D!Next
      <3>1. D!Remove(Contents, k) /\ num_entries' = Cardinality(DOMAIN Contents')
        BY <2>2, DeleteRemoves
      <3> QED
        BY <3>1, SameCardinality DEF D!Next
    <2>3. ASSUME NEW k \in Keys, NEW v \in Values, Insert(k, v) \/ AddDirect(k, v) PROVE D!Next
      <3>1. D!Set(Contents, k, v) /\ num_entries' = Cardinality(DOMAIN Contents')
        BY <2>3, InsertSets
      <3> QED
        BY <3>1, SameCardinality DEF D!Next
    <2>4. CASE UNCHANGED <<table, found, value>>
      BY <2>4, ContentsAre DEF table
    <2> QED
      BY <2>1, <2>2, <2>3, <2>4 DEF Next, EachBegins, EachNext, vars, table
  <1> QED
    BY <1>1, <1>2, TableCorrect, PTL DEF Spec, IsDictionary, D!Spec
=============================================================================
