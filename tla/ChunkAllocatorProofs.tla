------------------------ MODULE ChunkAllocatorProofs ------------------------
(***************************************************************************)
(* Theorems about ChunkAllocator: for every arena size, alignment, number  *)
(* of bins and set of sizes that the assumptions admit, the boundary tags, *)
(* the bins, the objects and the mappings agree, and an allocation takes   *)
(* the smallest chunk that is large enough.                                *)
(***************************************************************************)
EXTENDS ChunkAllocator, Induction, FiniteSetTheorems, SequenceTheorems, TLAPS

-----------------------------------------------------------------------------
(* Arithmetic.                                                             *)

\* A quotient is between its bounds, grows with the dividend, and is the only number
\* between those bounds.
LEMMA DivBounds ==
  ASSUME NEW d \in Nat \ {0}, NEW x \in Nat
  PROVE  x \div d \in Nat /\ (x \div d) * d <= x /\ x < (x \div d + 1) * d
  OBVIOUS

LEMMA DivMonotone ==
  ASSUME NEW d \in Nat \ {0}, NEW x \in Nat, NEW y \in Nat, x <= y
  PROVE  x \div d <= y \div d
  OBVIOUS

LEMMA DivUnique ==
  ASSUME NEW d \in Nat \ {0}, NEW q \in Nat, NEW x \in Nat, q * d <= x, x < (q + 1) * d
  PROVE  x \div d = q
  OBVIOUS

\* Multiples of d: quotients, sums and differences.
LEMMA MultipleQuotient ==
  ASSUME NEW d \in Nat \ {0}, NEW x \in Nat, x % d = 0
  PROVE  x \div d \in Nat /\ x = (x \div d) * d
  OBVIOUS

LEMMA QuotientMultiple ==
  ASSUME NEW d \in Nat \ {0}, NEW q \in Nat
  PROVE  q * d \in Nat /\ (q * d) % d = 0
  OBVIOUS

LEMMA MultipleSum ==
  ASSUME NEW d \in Nat \ {0}, NEW x \in Nat, NEW y \in Nat, x % d = 0, y % d = 0
  PROVE  (x + y) % d = 0
  <1> DEFINE q == x \div d + y \div d
  <1>1. q \in Nat /\ x + y = q * d
    BY MultipleQuotient
  <1> HIDE DEF q
  <1> QED
    BY <1>1, QuotientMultiple

LEMMA MultipleDifference ==
  ASSUME NEW d \in Nat \ {0}, NEW x \in Nat, NEW y \in Nat, x % d = 0, y % d = 0, y <= x
  PROVE  (x - y) % d = 0
  <1> DEFINE q == x \div d - y \div d
  <1>1. q \in Nat /\ x - y = q * d
    <2>1. x \div d \in Nat /\ y \div d \in Nat /\ y \div d <= x \div d
      BY MultipleQuotient, DivMonotone
    <2>2. x = (x \div d) * d /\ y = (y \div d) * d
      BY MultipleQuotient
    <2> QED
      BY <2>1, <2>2
  <1> HIDE DEF q
  <1> QED
    BY <1>1, QuotientMultiple

LEMMA QuotientsDiffer ==
  ASSUME NEW d \in Nat \ {0}, NEW x \in Nat, NEW y \in Nat, x % d = 0, y % d = 0, x < y
  PROVE  x \div d < y \div d
  <1>1. x \div d \in Nat /\ y \div d \in Nat /\ x = (x \div d) * d /\ y = (y \div d) * d
    BY MultipleQuotient
  <1>2. \A q, r \in Nat : r <= q => r * d <= q * d
    OBVIOUS
  <1> QED
    BY <1>1, <1>2

\* Mappings do not overlap.
LEMMA BasesApart ==
  ASSUME NEW i \in Nat, NEW j \in Nat, i < j
  PROVE  Base(i) \in Nat /\ Base(j) \in Nat /\ Base(i) + Stride <= Base(j)
  BY MappingAssumption DEF Base

-----------------------------------------------------------------------------
(* Sizes of chunks.                                                        *)

\* What the assumptions say of each constant.
LEMMA Constants ==
  /\ ALIGNMENT \in Nat \ {0} /\ arena_size \in Nat /\ SizeofArena \in Nat \ {0}
  /\ SizeofChunkHeader \in Nat \ {0} /\ SizeofChunkHeader % ALIGNMENT = 0
  /\ SizeofHeader \in Nat /\ SizeofHeader % ALIGNMENT = 0
  /\ MIN_SMALL_SIZE \in Nat \ {0} /\ MIN_SMALL_SIZE % ALIGNMENT = 0
  /\ MAX_SMALL_SIZE \in Nat /\ MAX_SMALL_SIZE % ALIGNMENT = 0 /\ MIN_SMALL_SIZE <= MAX_SMALL_SIZE
  /\ SizeofChunkHeader < MIN_SMALL_SIZE
  /\ Stride \in Nat /\ arena_size <= Stride
  /\ Maps \in Nat \ {0} /\ LARGE_NUM \in Nat \ {0} /\ LARGE_SHIFT \in Nat \ {0}
  <1>1. \A n \in {SizeofChunkHeader, SizeofHeader, MIN_SMALL_SIZE, MAX_SMALL_SIZE} :
           n \in Nat /\ n % ALIGNMENT = 0
    BY AlignmentAssumption
  <1>2. SizeofChunkHeader \in Nat /\ MIN_SMALL_SIZE \in Nat
    BY <1>1
  <1>3. MIN_SMALL_SIZE # 0
    BY <1>2, BinsAssumption
  <1> QED
    BY <1>1, <1>3, AlignmentAssumption, BinsAssumption, MappingAssumption

\* The size of a chunk that may be free: a multiple of ALIGNMENT with room for
\* the header and the footer.
ChunkSize(n) == n \in Nat /\ n % ALIGNMENT = 0 /\ MIN_SMALL_SIZE <= n

\* The one chunk of an empty arena has a chunk's size.
LEMMA LimitSize == ChunkSize(Limit) /\ Limit + SizeofArena + SizeofChunkHeader = arena_size
  <1> DEFINE usable == arena_size - SizeofArena
  <1>1. usable \in Nat /\ usable % ALIGNMENT = 0
    BY AlignmentAssumption
  <1>2. Limit = usable - SizeofChunkHeader /\ MIN_SMALL_SIZE <= Limit
    BY Constants, BinsAssumption DEF Limit
  <1>3. SizeofChunkHeader <= usable
    BY <1>1, <1>2, Constants
  <1>4. (usable - SizeofChunkHeader) % ALIGNMENT = 0
    <2> HIDE DEF usable
    <2> QED
      BY <1>1, <1>3, Constants, MultipleDifference
  <1> QED
    BY <1>1, <1>2, <1>3, <1>4, Constants DEF ChunkSize

\* alloc rounds a request up to a size that a chunk can have.
LEMMA RequestSize ==
  ASSUME NEW size \in Sizes
  PROVE  /\ RoundedSize(size) \in Nat /\ size <= RoundedSize(size)
         /\ SizeIncludingHeader(size) = RoundedSize(size) + SizeofHeader + SizeofChunkHeader
         /\ ChunkSize(SizeIncludingHeader(size)) /\ SizeIncludingHeader(size) <= Stride
  <1> DEFINE q == (size + ALIGNMENT - 1) \div ALIGNMENT
             r == q * ALIGNMENT
  <1>1. size \in Nat \ {0} /\ size + ALIGNMENT - 1 \in Nat
    BY BinsAssumption, Constants
  <1>2. q \in Nat /\ size + ALIGNMENT - 1 < (q + 1) * ALIGNMENT
    BY <1>1, Constants, DivBounds
  <1>3. r \in Nat /\ r % ALIGNMENT = 0
    <2> HIDE DEF q
    <2> QED
      BY <1>2, Constants, QuotientMultiple
  <1>4. (q + 1) * ALIGNMENT = r + ALIGNMENT
    <2> HIDE DEF q
    <2> QED
      BY <1>2, Constants
  <1>5. size <= r
    <2> HIDE DEF q
    <2> QED
      BY <1>1, <1>2, <1>3, <1>4, Constants
  <1>6. ALIGNMENT <= r
    <2>1. 1 <= q
      <3>1. q # 0
        BY <1>1, <1>3, <1>5, Constants
      <3> HIDE DEF q
      <3> QED
        BY <1>2, <3>1
    <2> HIDE DEF q
    <2> QED
      BY <1>2, <2>1, Constants
  <1> HIDE DEF r
  <1>7. RoundedSize(size) = r /\ SizeIncludingHeader(size) = r + SizeofHeader + SizeofChunkHeader
    BY DEF RoundedSize, SizeIncludingHeader, r, q
  <1>8. (r + SizeofHeader) % ALIGNMENT = 0
    BY <1>3, Constants, MultipleSum
  <1>9. (r + SizeofHeader + SizeofChunkHeader) % ALIGNMENT = 0
    <2> DEFINE t == r + SizeofHeader
    <2>1. t \in Nat /\ t % ALIGNMENT = 0
      BY <1>3, <1>8, Constants
    <2>2. (t + SizeofChunkHeader) % ALIGNMENT = 0
      <3> HIDE DEF t
      <3> QED
        BY <2>1, Constants, MultipleSum
    <2> QED
      BY <2>2
  <1>10. MIN_SMALL_SIZE <= r + SizeofHeader + SizeofChunkHeader
    BY <1>3, <1>6, Constants, BinsAssumption
  <1> QED
    BY <1>3, <1>5, <1>7, <1>9, <1>10, Constants, MappingAssumption DEF ChunkSize

\* Merging and splitting chunks gives sizes that chunks can have.
LEMMA ChunkSizeSum ==
  ASSUME NEW m, NEW n, ChunkSize(m), ChunkSize(n)
  PROVE  ChunkSize(m + n)
  <1>1. (m + n) % ALIGNMENT = 0
    <2>1. m \in Nat /\ n \in Nat /\ m % ALIGNMENT = 0 /\ n % ALIGNMENT = 0 /\ ALIGNMENT \in Nat \ {0}
      BY Constants DEF ChunkSize
    <2> QED
      BY <2>1, MultipleSum
  <1> QED
    BY <1>1, Constants DEF ChunkSize

LEMMA ChunkSizeRest ==
  ASSUME NEW m, NEW n, ChunkSize(m), ChunkSize(n), MIN_SMALL_SIZE <= m - n
  PROVE  ChunkSize(m - n)
  <1>1. n <= m
    BY Constants DEF ChunkSize
  <1>2. (m - n) % ALIGNMENT = 0
    <2>1. m \in Nat /\ n \in Nat /\ m % ALIGNMENT = 0 /\ n % ALIGNMENT = 0 /\ ALIGNMENT \in Nat \ {0}
      BY Constants DEF ChunkSize
    <2> QED
      BY <1>1, <2>1, MultipleDifference
  <1> QED
    BY <1>1, <1>2, Constants DEF ChunkSize

-----------------------------------------------------------------------------
(* Bins.                                                                   *)

\* Each small bin is for one size.
LEMMA SmallIndex ==
  ASSUME NEW m, NEW n, ChunkSize(m), ChunkSize(n)
  PROVE  /\ Size2Index(m) \in Nat
         /\ m < n => Size2Index(m) < Size2Index(n)
         /\ m <= n => Size2Index(m) <= Size2Index(n)
  <1> DEFINE x == m - MIN_SMALL_SIZE
             y == n - MIN_SMALL_SIZE
  <1>1. x \in Nat /\ y \in Nat
    BY Constants DEF ChunkSize
  <1>2. x % ALIGNMENT = 0 /\ y % ALIGNMENT = 0
    <2>1. ASSUME NEW k, ChunkSize(k) PROVE (k - MIN_SMALL_SIZE) % ALIGNMENT = 0
      <3>1. k \in Nat /\ k % ALIGNMENT = 0 /\ MIN_SMALL_SIZE <= k
        BY <2>1 DEF ChunkSize
      <3> QED
        BY <3>1, Constants, MultipleDifference
    <2> QED
      BY <2>1
  <1>3. Size2Index(m) = x \div ALIGNMENT /\ Size2Index(n) = y \div ALIGNMENT
    BY Constants DEF Size2Index, ChunkSize
  <1>4. (m < n <=> x < y) /\ (m <= n <=> x <= y)
    BY Constants DEF ChunkSize
  <1> HIDE DEF x, y
  <1>5. x \div ALIGNMENT \in Nat
    BY <1>1, Constants, DivBounds
  <1>6. x < y => x \div ALIGNMENT < y \div ALIGNMENT
    BY <1>1, <1>2, Constants, QuotientsDiffer
  <1>7. x <= y => x \div ALIGNMENT <= y \div ALIGNMENT
    BY <1>1, Constants, DivMonotone
  <1> QED
    BY <1>3, <1>4, <1>5, <1>6, <1>7

\* The index of a small size is that of a small bin.
LEMMA SmallNum ==
  /\ SMALL_NUM \in Nat
  /\ \A n : ChunkSize(n) /\ n <= MAX_SMALL_SIZE => Size2Index(n) \in 0 .. SMALL_NUM - 1
  <1>1. ChunkSize(MAX_SMALL_SIZE)
    BY Constants DEF ChunkSize
  <1>2. \A n : ChunkSize(n) => Size2Index(n) \in Nat
    BY SmallIndex
  <1>3. \A n : ChunkSize(n) /\ n <= MAX_SMALL_SIZE => Size2Index(n) <= Size2Index(MAX_SMALL_SIZE)
    BY <1>1, SmallIndex
  <1> QED
    BY <1>1, <1>2, <1>3 DEF SMALL_NUM

\* Pow2 is what its definition says.
LEMMA PowersOfTwo ==
  /\ Bits \in Nat /\ LARGE_NUM <= Bits /\ LARGE_SHIFT <= Bits
  /\ Pow2 \in [0 .. Bits -> Nat \ {0}]
  /\ Pow2[0] = 1
  /\ \A k \in 1 .. Bits : Pow2[k] = 2 * Pow2[k - 1]
  <1> DEFINE P == Nat \ {0}
             double == [x \in P |-> 2 * x]
             step == [i \in 1 .. Bits |-> double]
  <1>1. Bits \in Nat /\ LARGE_NUM <= Bits /\ LARGE_SHIFT <= Bits
    BY Constants DEF Bits
  <1>2. 1 \in P /\ step \in [1 .. Bits -> [P -> P]]
    OBVIOUS
  <1>3. PICK F : F \in Recursions(Bits, P, 1, step)
    <2> HIDE DEF P, step
    <2> QED
      BY <1>1, <1>2, RecursionExists
  <1>4. F \in [0 .. Bits -> P] /\ F[0] = 1 /\ \A i \in 1 .. Bits : F[i] = step[i][F[i - 1]]
    BY <1>3 DEF Recursions
  <1>5. \A i \in 1 .. Bits : F[i] = 2 * F[i - 1]
    <2> SUFFICES ASSUME NEW i \in 1 .. Bits PROVE F[i] = 2 * F[i - 1]
      OBVIOUS
    <2>1. i - 1 \in 0 .. Bits
      BY <1>1
    <2>2. F[i - 1] \in P
      BY <1>4, <2>1
    <2> QED
      BY <1>4, <2>2
  <1>6. F = [k \in 0 .. Bits |-> IF k = 0 THEN 1 ELSE 2 * F[k - 1]]
    <2>1. \A k \in 0 .. Bits : F[k] = IF k = 0 THEN 1 ELSE 2 * F[k - 1]
      <3>1. \A k \in 0 .. Bits : k # 0 => k \in 1 .. Bits
        BY <1>1
      <3> QED
        BY <1>4, <1>5, <3>1
    <2> QED
      BY <1>4, <2>1
  <1>7. Pow2 = [k \in 0 .. Bits |-> IF k = 0 THEN 1 ELSE 2 * Pow2[k - 1]]
    BY <1>6, Zenon DEF Pow2
  <1>8. \A k \in 0 .. Bits : Pow2[k] = F[k]
    <2> DEFINE S == {k \in 0 .. Bits : Pow2[k] = F[k]}
    <2>1. 0 \in S
      BY <1>1, <1>4, <1>7
    <2>2. ASSUME NEW i \in 1 .. Bits, i - 1 \in S PROVE i \in S
      <3>1. i \in 0 .. Bits /\ i # 0
        BY <1>1
      <3>2. Pow2[i] = 2 * Pow2[i - 1]
        BY <1>7, <3>1
      <3> QED
        BY <1>5, <2>2, <3>1, <3>2
    <2>3. 0 .. Bits \subseteq S
      <3> HIDE DEF S
      <3> QED
        BY <1>1, <2>1, <2>2, IntervalInduction
    <2> QED
      BY <2>3
  <1>9. Pow2 = F
    BY <1>4, <1>7, <1>8
  <1> QED
    BY <1>1, <1>4, <1>5, <1>9

\* Powers of two grow, and exponents add.
LEMMA PowersGrow ==
  ASSUME NEW i \in 0 .. Bits, NEW j \in 0 .. Bits, i <= j
  PROVE  Pow2[i] <= Pow2[j]
  <1> DEFINE S == {k \in 0 .. Bits : i <= k => Pow2[i] <= Pow2[k]}
  <1>1. 0 \in S
    BY PowersOfTwo
  <1>2. ASSUME NEW k \in 1 .. Bits, k - 1 \in S PROVE k \in S
    <2>1. k - 1 \in 0 .. Bits /\ k \in 0 .. Bits /\ Pow2[k] = 2 * Pow2[k - 1]
      BY PowersOfTwo
    <2>2. Pow2[k - 1] \in Nat \ {0} /\ Pow2[k] \in Nat \ {0} /\ Pow2[i] \in Nat \ {0}
      BY <2>1, PowersOfTwo
    <2>3. CASE i = k
      BY <2>1, <2>2, <2>3
    <2>4. CASE i # k
      <3>1. i <= k => i <= k - 1
        BY <2>4, PowersOfTwo
      <3> QED
        BY <1>2, <2>1, <2>2, <3>1
    <2> QED
      BY <2>3, <2>4
  <1>3. 0 .. Bits \subseteq S
    <2> HIDE DEF S
    <2> QED
      BY <1>1, <1>2, PowersOfTwo, IntervalInduction
  <1> QED
    BY <1>3

LEMMA PowersAdd ==
  ASSUME NEW i \in 0 .. Bits, NEW j \in 0 .. Bits, i + j <= Bits
  PROVE  Pow2[i + j] = Pow2[i] * Pow2[j]
  <1> DEFINE S == {k \in 0 .. Bits : i + k <= Bits => Pow2[i + k] = Pow2[i] * Pow2[k]}
  <1>1. 0 \in S
    BY PowersOfTwo
  <1>2. ASSUME NEW k \in 1 .. Bits, k - 1 \in S PROVE k \in S
    <2>1. k - 1 \in 0 .. Bits /\ k \in 0 .. Bits /\ Pow2[k] = 2 * Pow2[k - 1]
      BY PowersOfTwo
    <2>2. SUFFICES ASSUME i + k <= Bits PROVE Pow2[i + k] = Pow2[i] * Pow2[k]
      BY <2>1
    <2>3. i + k \in 1 .. Bits /\ (i + k) - 1 = i + (k - 1) /\ i + (k - 1) <= Bits
      BY <2>2, PowersOfTwo
    <2>4. Pow2[i + k] = 2 * Pow2[i + (k - 1)]
      BY <2>3, PowersOfTwo
    <2>5. Pow2[i + (k - 1)] = Pow2[i] * Pow2[k - 1]
      BY <1>2, <2>3
    <2>6. Pow2[i] \in Nat /\ Pow2[k - 1] \in Nat
      BY <2>1, PowersOfTwo
    <2>7. \A x, y \in Nat : 2 * (x * y) = x * (2 * y)
      OBVIOUS
    <2> QED
      BY <2>1, <2>4, <2>5, <2>6, <2>7
  <1>3. 0 .. Bits \subseteq S
    <2> HIDE DEF S
    <2> QED
      BY <1>1, <1>2, PowersOfTwo, IntervalInduction
  <1> QED
    BY <1>3

\* bsr finds the highest bit of a number of at most h bits.
LEMMA HighestBit ==
  ASSUME NEW x \in Nat \ {0}, NEW h \in 0 .. LARGE_NUM, x < Pow2[h]
  PROVE  /\ Bsr(x) \in Nat /\ Bsr(x) + 1 <= h
         /\ Pow2[Bsr(x)] <= x /\ x < Pow2[Bsr(x) + 1]
  <1> DEFINE S == {j \in 0 .. h : x < Pow2[j]}
  <1>1. h \in 0 .. Bits
    BY PowersOfTwo, Constants
  <1>2. PICK j \in S : \A m \in S : j <= m
    <2>1. S \in SUBSET Nat /\ S # {}
      OBVIOUS
    <2> HIDE DEF S
    <2> QED
      BY <2>1, LeastNat
  <1>3. j # 0
    BY <1>2, PowersOfTwo
  <1>4. j - 1 \in 0 .. LARGE_NUM - 1 /\ j - 1 \in 0 .. h /\ j - 1 \notin S /\ j - 1 \in 0 .. Bits
    BY <1>1, <1>2, <1>3, Constants, PowersOfTwo
  <1>5. Pow2[j - 1] <= x /\ x < Pow2[(j - 1) + 1]
    <2>1. Pow2[j - 1] \in Nat /\ ~(x < Pow2[j - 1])
      BY <1>4, PowersOfTwo
    <2>2. (j - 1) + 1 = j /\ x < Pow2[j]
      BY <1>2
    <2> QED
      BY <2>1, <2>2
  <1> DEFINE k == Bsr(x)
  <1>6. k \in 0 .. LARGE_NUM - 1 /\ Pow2[k] <= x /\ x < Pow2[k + 1]
    BY <1>4, <1>5, Zenon DEF Bsr
  <1>7. k + 1 <= h
    <2> HIDE DEF k
    <2>1. SUFFICES ASSUME h <= k PROVE FALSE
      BY <1>6
    <2>2. k \in 0 .. Bits /\ Pow2[h] <= Pow2[k]
      BY <1>1, <1>6, <2>1, PowersOfTwo, PowersGrow, Constants
    <2>3. Pow2[h] \in Nat /\ Pow2[k] \in Nat
      BY <1>1, <2>2, PowersOfTwo
    <2> QED
      BY <1>6, <2>2, <2>3
  <1> QED
    BY <1>6, <1>7

\* The index of a large size: two bins for each of the first powers of two, and
\* a last one.
LEMMA LargeCases ==
  ASSUME NEW n \in Nat
  PROVE  LET x == n \div Pow2[LARGE_SHIFT]
             h == LARGE_NUM \div 2
             d == Pow2[Bsr(x) + LARGE_SHIFT - 1]
         IN  /\ x \in Nat /\ h \in Nat /\ 2 * h <= LARGE_NUM
             /\ x = 0 => LargeIndex(n) = 0
             /\ Pow2[h] <= x => LargeIndex(n) = LARGE_NUM - 1
             /\ x # 0 /\ ~(Pow2[h] <= x) =>
                   /\ Bsr(x) \in 0 .. h - 1 /\ Pow2[Bsr(x)] <= x /\ x < Pow2[Bsr(x) + 1]
                   /\ d \in Nat \ {0} /\ n \div d \in {2, 3}
                   /\ LargeIndex(n) = 2 * Bsr(x) + ((n \div d) % 2)
  <1> DEFINE p == Pow2[LARGE_SHIFT]
             x == n \div p
             h == LARGE_NUM \div 2
             k == Bsr(x)
             d == Pow2[k + LARGE_SHIFT - 1]
  <1>1. p \in Nat \ {0}
    BY PowersOfTwo, Constants
  <1>2. x \in Nat /\ x * p <= n /\ n < (x + 1) * p
    BY <1>1, DivBounds
  <1>3. h \in Nat /\ 2 * h <= LARGE_NUM /\ h \in 0 .. LARGE_NUM
    BY Constants
  <1> HIDE DEF h, x, p
  <1>4. Pow2[h] \in Nat \ {0}
    BY <1>3, PowersOfTwo, Constants
  <1>5. LargeIndex(n) = IF x = 0 THEN 0 ELSE IF Pow2[h] <= x THEN LARGE_NUM - 1
                        ELSE 2 * k + ((n \div d) % 2)
    BY Zenon DEF LargeIndex, x, p, h
  <1>6. ASSUME x # 0, ~(Pow2[h] <= x)
        PROVE  /\ k \in 0 .. h - 1 /\ Pow2[k] <= x /\ x < Pow2[k + 1]
               /\ d \in Nat \ {0} /\ n \div d \in {2, 3}
    <2>1. k \in Nat /\ k + 1 <= h /\ Pow2[k] <= x /\ x < Pow2[k + 1]
      <3>1. x < Pow2[h]
        BY <1>2, <1>4, <1>6
      <3> QED
        BY <1>2, <1>3, <1>6, <3>1, HighestBit
    <2> HIDE DEF k
    <2>2. k \in 0 .. Bits /\ k + 1 \in 0 .. Bits /\ LARGE_SHIFT \in 0 .. Bits
          /\ k + LARGE_SHIFT - 1 \in 0 .. Bits /\ k + LARGE_SHIFT \in 1 .. Bits
          /\ k + LARGE_SHIFT = (k + LARGE_SHIFT - 1) + 1
      <3>1. k + 1 <= LARGE_NUM
        BY <1>3, <2>1, Constants
      <3> QED
        BY <2>1, <3>1, Constants DEF Bits
    <2>3. Pow2[k + LARGE_SHIFT] = Pow2[k] * p
      BY <2>2, PowersAdd, PowersOfTwo DEF p
    <2>4. Pow2[k + LARGE_SHIFT] = 2 * d
      BY <2>2, PowersOfTwo
    <2>5. Pow2[k + 1] = 2 * Pow2[k]
      <3>1. k + 1 \in 1 .. Bits /\ (k + 1) - 1 = k
        BY <2>1, <2>2
      <3> QED
        BY <3>1, PowersOfTwo
    <2>6. d \in Nat \ {0} /\ Pow2[k] \in Nat \ {0}
      BY <2>2, PowersOfTwo
    <2> HIDE DEF d
    <2> DEFINE y == Pow2[k]
    <2>7. y \in Nat /\ y <= x /\ x + 1 <= 2 * y /\ y * p = 2 * d
      BY <1>2, <2>1, <2>3, <2>4, <2>5, <2>6
    <2> HIDE DEF y
    <2>8. y * p <= x * p /\ (x + 1) * p <= (2 * y) * p
      BY <1>1, <1>2, <2>7, QuotientMultiple
    <2>9. (2 * y) * p = 2 * (y * p)
      BY <1>1, <2>7
    <2>10. 2 * d <= n /\ n < 4 * d
      <3> DEFINE u == x * p
                 w == (x + 1) * p
      <3>1. u \in Nat /\ w \in Nat
        BY <1>1, <1>2
      <3> HIDE DEF u, w
      <3>2. 2 * d <= u /\ w <= 2 * (2 * d) /\ u <= n /\ n < w
        BY <1>2, <2>7, <2>8, <2>9 DEF u, w
      <3> QED
        BY <2>6, <3>1, <3>2
    <2>11. n \div d \in {2, 3}
      <3>1. CASE n < 3 * d
        BY <2>6, <2>10, <3>1, DivUnique
      <3>2. CASE ~(n < 3 * d)
        BY <2>6, <2>10, <3>2, DivUnique
      <3> QED
        BY <3>1, <3>2
    <2> QED
      BY <2>1, <2>6, <2>11, <1>3
  <1>7. ~(x = 0 /\ Pow2[h] <= x)
    BY <1>4
  <1>8. /\ x \in Nat /\ h \in Nat /\ 2 * h <= LARGE_NUM
        /\ x = 0 => LargeIndex(n) = 0
        /\ Pow2[h] <= x => LargeIndex(n) = LARGE_NUM - 1
        /\ x # 0 /\ ~(Pow2[h] <= x) =>
             /\ k \in 0 .. h - 1 /\ Pow2[k] <= x /\ x < Pow2[k + 1]
             /\ d \in Nat \ {0} /\ n \div d \in {2, 3}
             /\ LargeIndex(n) = 2 * k + ((n \div d) % 2)
    <2> HIDE DEF k, d
    <2> QED
      BY <1>2, <1>3, <1>5, <1>6, <1>7
  <1> QED
    BY <1>8, Zenon DEF x, p, h

\* compute_large_index gives the index of a bin.
LEMMA LargeRange ==
  ASSUME NEW n \in Nat
  PROVE  LargeIndex(n) \in 0 .. LARGE_NUM - 1
  <1> DEFINE x == n \div Pow2[LARGE_SHIFT]
             h == LARGE_NUM \div 2
             k == Bsr(x)
             q == n \div Pow2[k + LARGE_SHIFT - 1]
  <1>1. /\ x \in Nat /\ h \in Nat /\ 2 * h <= LARGE_NUM
        /\ x = 0 => LargeIndex(n) = 0
        /\ Pow2[h] <= x => LargeIndex(n) = LARGE_NUM - 1
        /\ x # 0 /\ ~(Pow2[h] <= x) => k \in 0 .. h - 1 /\ q \in {2, 3} /\ LargeIndex(n) = 2 * k + (q % 2)
    BY LargeCases, Zenon
  <1> HIDE DEF x, h, k, q
  <1>2. q \in {2, 3} => q % 2 \in {0, 1}
    OBVIOUS
  <1> QED
    BY <1>1, <1>2, Constants

\* A larger size is not in an earlier bin: find_large_chunk may begin at the size's own.
LEMMA LargeMonotone ==
  ASSUME NEW m \in Nat, NEW n \in Nat, m <= n
  PROVE  LargeIndex(m) <= LargeIndex(n)
  <1> DEFINE p == Pow2[LARGE_SHIFT]
             x == m \div p
             y == n \div p
             h == LARGE_NUM \div 2
             k == Bsr(x)
             l == Bsr(y)
             d == Pow2[k + LARGE_SHIFT - 1]
             e == Pow2[l + LARGE_SHIFT - 1]
  <1>1. p \in Nat \ {0}
    BY PowersOfTwo, Constants
  <1>2. x <= y
    BY <1>1, DivMonotone
  <1>3. /\ x \in Nat /\ h \in Nat /\ 2 * h <= LARGE_NUM
        /\ x = 0 => LargeIndex(m) = 0
        /\ Pow2[h] <= x => LargeIndex(m) = LARGE_NUM - 1
        /\ x # 0 /\ ~(Pow2[h] <= x) =>
             /\ k \in 0 .. h - 1 /\ Pow2[k] <= x /\ x < Pow2[k + 1]
             /\ d \in Nat \ {0} /\ m \div d \in {2, 3}
             /\ LargeIndex(m) = 2 * k + ((m \div d) % 2)
    BY LargeCases, Zenon
  <1>4. /\ y \in Nat
        /\ Pow2[h] <= y => LargeIndex(n) = LARGE_NUM - 1
        /\ y # 0 /\ ~(Pow2[h] <= y) =>
             /\ l \in 0 .. h - 1 /\ Pow2[l] <= y /\ y < Pow2[l + 1]
             /\ e \in Nat \ {0} /\ n \div e \in {2, 3}
             /\ LargeIndex(n) = 2 * l + ((n \div e) % 2)
    BY LargeCases, Zenon
  <1>5. LargeIndex(m) \in 0 .. LARGE_NUM - 1 /\ LargeIndex(n) \in 0 .. LARGE_NUM - 1
    BY LargeRange
  <1> HIDE DEF x, y, h
  <1>6. CASE x = 0
    BY <1>3, <1>5, <1>6, Constants
  <1>7. CASE Pow2[h] <= y
    BY <1>4, <1>5, <1>7, Constants
  <1>8. CASE x # 0 /\ ~(Pow2[h] <= y)
    <2>1. Pow2[h] \in Nat
      <3>1. h \in 0 .. Bits
        BY <1>3, Constants, PowersOfTwo
      <3> QED
        BY <3>1, PowersOfTwo
    <2>2. y # 0 /\ ~(Pow2[h] <= x)
      BY <1>2, <1>3, <1>4, <1>8, <2>1
    <2> HIDE DEF k, l
    <2>3. k \in 0 .. h - 1 /\ l \in 0 .. h - 1 /\ h <= Bits
      BY <1>3, <1>4, <1>8, <2>2, Constants, PowersOfTwo
    <2>4. /\ Pow2[k] <= x /\ x < Pow2[k + 1] /\ Pow2[l] <= y /\ y < Pow2[l + 1]
          /\ d \in Nat \ {0} /\ m \div d \in {2, 3} /\ LargeIndex(m) = 2 * k + ((m \div d) % 2)
          /\ e \in Nat \ {0} /\ n \div e \in {2, 3} /\ LargeIndex(n) = 2 * l + ((n \div e) % 2)
      BY <1>3, <1>4, <1>8, <2>2, Zenon
    <2>5. \A q \in {2, 3} : q % 2 = q - 2
      OBVIOUS
    <2> DEFINE s == m \div d
               t == n \div e
    <2>6. s \in {2, 3} /\ t \in {2, 3} /\ LargeIndex(m) = 2 * k + (s - 2) /\ LargeIndex(n) = 2 * l + (t - 2)
      BY <2>4, <2>5, Zenon
    <2>7. k <= l
      <3>1. SUFFICES ASSUME l + 1 <= k PROVE FALSE
        BY <1>3, <2>3
      <3>2. l + 1 \in 0 .. Bits /\ k \in 0 .. Bits
        BY <1>3, <2>3, PowersOfTwo
      <3>3. Pow2[l + 1] \in Nat /\ Pow2[k] \in Nat /\ Pow2[l + 1] <= Pow2[k]
        BY <3>1, <3>2, PowersOfTwo, PowersGrow
      <3> QED
        BY <1>2, <1>3, <1>4, <2>4, <3>3
    <2>8. k = l => s <= t
      BY <2>4, DivMonotone
    <2> HIDE DEF s, t, d, e
    <2> QED
      BY <1>3, <2>3, <2>6, <2>7, <2>8
  <1> QED
    BY <1>6, <1>7, <1>8

\* The bins of larger sizes come later, and bins exist.
LEMMA BinOfSize ==
  ASSUME NEW n, ChunkSize(n)
  PROVE  /\ ListOfSize(n) \in Bins
         /\ n <= MAX_SMALL_SIZE => ListOfSize(n) = <<"small", Size2Index(n)>>
         /\ MAX_SMALL_SIZE < n => ListOfSize(n) = <<"large", LargeIndex(n)>>
  <1>1. n \in Nat /\ MAX_SMALL_SIZE \in Nat
    BY Constants DEF ChunkSize
  <1>2. CASE MAX_SMALL_SIZE < n
    BY <1>1, <1>2, LargeRange DEF ListOfSize, Bins, LargeBins
  <1>3. CASE ~(MAX_SMALL_SIZE < n)
    <2>1. Size2Index(n) \in 0 .. SMALL_NUM - 1
      BY <1>1, <1>3, SmallNum
    <2> QED
      BY <1>1, <1>3, <2>1 DEF ListOfSize, Bins, SmallBins
  <1> QED
    BY <1>2, <1>3

-----------------------------------------------------------------------------
(* Lists.                                                                  *)

Elements(s) == {s[k] : k \in DOMAIN s}

\* ADD_TO_LIST and DELETE_FROM_LIST on one list.
LEMMA LinkedAhead ==
  ASSUME NEW s \in Seq(Nat), IsInjective(s), NEW c \in Nat, c \notin Elements(s)
  PROVE  LET t == <<c>> \o s
         IN  t \in Seq(Nat) /\ IsInjective(t) /\ Elements(t) = Elements(s) \cup {c}
  <1> DEFINE t == <<c>> \o s
  <1>1. <<c>> \in Seq(Nat) /\ Len(<<c>>) = 1 /\ <<c>>[1] = c
    OBVIOUS
  <1>2. Len(s) \in Nat /\ DOMAIN s = 1 .. Len(s) /\ \A k \in 1 .. Len(s) : s[k] \in Nat
    BY LenProperties
  <1>3. /\ t \in Seq(Nat) /\ Len(t) = 1 + Len(s)
        /\ \A k \in 1 .. 1 + Len(s) : t[k] = IF k <= 1 THEN <<c>>[k] ELSE s[k - 1]
    BY <1>1, ConcatProperties
  <1>4. DOMAIN t = 1 .. 1 + Len(s)
    BY <1>3, LenProperties
  <1>5. t[1] = c /\ \A k \in 1 .. Len(s) : k + 1 \in DOMAIN t /\ t[k + 1] = s[k]
    BY <1>1, <1>2, <1>3, <1>4
  <1>6. \A k \in DOMAIN t : k = 1 \/ (k - 1 \in DOMAIN s /\ t[k] = s[k - 1])
    BY <1>2, <1>3, <1>4
  <1> HIDE DEF t
  <1>7. IsInjective(t)
    <2> SUFFICES ASSUME NEW j \in DOMAIN t, NEW k \in DOMAIN t, t[j] = t[k] PROVE j = k
      BY DEF IsInjective
    <2>1. CASE j = 1 \/ k = 1
      BY <1>4, <1>5, <1>6, <2>1 DEF Elements
    <2>2. CASE j # 1 /\ k # 1
      <3>1. j - 1 \in DOMAIN s /\ k - 1 \in DOMAIN s /\ s[j - 1] = s[k - 1]
        BY <1>6, <2>2
      <3>2. j - 1 = k - 1
        BY <3>1 DEF IsInjective
      <3> QED
        BY <1>2, <1>4, <3>2
    <2> QED
      BY <2>1, <2>2
  <1>8. Elements(t) = Elements(s) \cup {c}
    <2>1. 1 \in DOMAIN t
      BY <1>2, <1>4
    <2>2. \A x \in Elements(t) : x \in Elements(s) \cup {c}
      BY <1>5, <1>6 DEF Elements
    <2>3. \A x \in Elements(s) \cup {c} : x \in Elements(t)
      BY <1>2, <1>5, <2>1 DEF Elements
    <2> QED
      BY <2>2, <2>3
  <1> QED
    BY <1>3, <1>7, <1>8 DEF t

LEMMA Unlinked ==
  ASSUME NEW s \in Seq(Nat), IsInjective(s), NEW c \in Elements(s)
  PROVE  LET t == RemoveAt(s, CHOOSE k \in DOMAIN s : s[k] = c)
         IN  t \in Seq(Nat) /\ IsInjective(t) /\ Elements(t) = Elements(s) \ {c}
  <1> DEFINE n == CHOOSE k \in DOMAIN s : s[k] = c
             l == SubSeq(s, 1, n - 1)
             r == SubSeq(s, n + 1, Len(s))
             t == l \o r
  <1>1. n \in DOMAIN s /\ s[n] = c
    BY DEF Elements
  <1>2. Len(s) \in Nat /\ DOMAIN s = 1 .. Len(s) /\ \A k \in 1 .. Len(s) : s[k] \in Nat
    BY LenProperties
  <1> HIDE DEF n
  <1>3. n \in 1 .. Len(s) /\ n - 1 \in Int /\ n + 1 \in Int /\ 1 \in Int /\ Len(s) \in Int
    BY <1>1, <1>2
  <1>4. /\ l \in Seq(Nat) /\ Len(l) = n - 1
        /\ \A k \in 1 .. n - 1 : l[k] = s[k]
    <2>1. \A k \in 1 .. n - 1 : s[k] \in Nat
      BY <1>2, <1>3
    <2>2. /\ l \in Seq(Nat) /\ Len(l) = IF 1 <= n - 1 THEN n - 1 - 1 + 1 ELSE 0
          /\ \A k \in 1 .. n - 1 - 1 + 1 : l[k] = s[1 + k - 1]
      BY <1>3, <2>1, SubSeqProperties
    <2> QED
      BY <1>3, <2>2
  <1>5. /\ r \in Seq(Nat) /\ Len(r) = Len(s) - n
        /\ \A k \in 1 .. Len(s) - n : r[k] = s[n + k]
    <2>1. \A k \in n + 1 .. Len(s) : s[k] \in Nat
      BY <1>2, <1>3
    <2>2. /\ r \in Seq(Nat) /\ Len(r) = IF n + 1 <= Len(s) THEN Len(s) - (n + 1) + 1 ELSE 0
          /\ \A k \in 1 .. Len(s) - (n + 1) + 1 : r[k] = s[n + 1 + k - 1]
      BY <1>3, <2>1, SubSeqProperties
    <2>3. Len(r) = Len(s) - n /\ Len(s) - (n + 1) + 1 = Len(s) - n
      <3>1. Len(r) = IF n + 1 <= Len(s) THEN Len(s) - (n + 1) + 1 ELSE 0
        BY <2>2
      <3>2. Len(s) \in Nat /\ n \in 1 .. Len(s)
        BY <1>2, <1>3
      <3> HIDE DEF r
      <3> QED
        BY <3>1, <3>2
    <2>4. \A k \in 1 .. Len(s) - n : n + 1 + k - 1 = n + k
      BY <1>2, <1>3
    <2> QED
      BY <2>2, <2>3, <2>4
  <1> HIDE DEF l, r
  <1>6. /\ t \in Seq(Nat) /\ Len(t) = Len(s) - 1
        /\ \A k \in 1 .. Len(s) - 1 : t[k] = IF k <= n - 1 THEN l[k] ELSE r[k - (n - 1)]
    <2>1. /\ t \in Seq(Nat) /\ Len(t) = Len(l) + Len(r)
          /\ \A k \in 1 .. Len(l) + Len(r) : t[k] = IF k <= Len(l) THEN l[k] ELSE r[k - Len(l)]
      BY <1>4, <1>5, ConcatProperties
    <2>2. Len(l) + Len(r) = Len(s) - 1
      BY <1>3, <1>4, <1>5
    <2> QED
      BY <1>4, <2>1, <2>2
  <1> HIDE DEF t
  <1>7. DOMAIN t = 1 .. Len(s) - 1
    BY <1>6, LenProperties
  <1> DEFINE old(k) == IF k < n THEN k ELSE k + 1
  <1>8. \A k \in DOMAIN t : old(k) \in DOMAIN s /\ old(k) # n /\ t[k] = s[old(k)]
    <2> SUFFICES ASSUME NEW k \in DOMAIN t PROVE old(k) \in DOMAIN s /\ old(k) # n /\ t[k] = s[old(k)]
      OBVIOUS
    <2>1. CASE k < n
      <3>1. k \in 1 .. n - 1 /\ k <= n - 1 /\ k \in 1 .. Len(s) - 1 /\ k \in 1 .. Len(s)
        BY <1>2, <1>3, <1>7, <2>1
      <3>2. t[k] = s[k]
        BY <1>4, <1>6, <3>1
      <3> QED
        BY <1>2, <2>1, <3>1, <3>2
    <2>2. CASE ~(k < n)
      <3>1. k - (n - 1) \in 1 .. Len(s) - n /\ n + (k - (n - 1)) = k + 1 /\ ~(k <= n - 1) /\ k \in 1 .. Len(s) - 1
        BY <1>2, <1>3, <1>7, <2>2, SMTT(30)
      <3>2. t[k] = r[k - (n - 1)] /\ r[k - (n - 1)] = s[n + (k - (n - 1))]
        BY <1>5, <1>6, <3>1
      <3>3. old(k) = k + 1 /\ t[k] = s[k + 1]
        BY <2>2, <3>1, <3>2
      <3>4. DOMAIN s = 1 .. Len(s) /\ Len(s) \in Nat /\ n \in Nat
        BY <1>2, <1>3
      <3>5. k \in 1 .. Len(s) - 1
        BY <3>1
      <3>6. k + 1 \in DOMAIN s /\ k + 1 # n
        BY <2>2, <3>4, <3>5
      <3> HIDE DEF old
      <3> QED
        BY <3>3, <3>6
    <2> QED
      BY <2>1, <2>2
  <1>9. \A j \in DOMAIN s : j = n \/ \E k \in DOMAIN t : old(k) = j
    <2> SUFFICES ASSUME NEW j \in DOMAIN s, j # n PROVE \E k \in DOMAIN t : old(k) = j
      OBVIOUS
    <2>1. CASE j < n
      <3>1. j \in DOMAIN t /\ old(j) = j
        BY <1>2, <1>3, <1>7, <2>1
      <3> QED
        BY <3>1
    <2>2. CASE ~(j < n)
      <3>1. j - 1 \in DOMAIN t /\ old(j - 1) = j
        BY <1>2, <1>3, <1>7, <2>2
      <3> QED
        BY <3>1
    <2> QED
      BY <2>1, <2>2
  <1>10. IsInjective(t)
    <2> SUFFICES ASSUME NEW j \in DOMAIN t, NEW k \in DOMAIN t, t[j] = t[k] PROVE j = k
      BY DEF IsInjective
    <2>1. old(j) = old(k)
      <3> HIDE DEF old
      <3> QED
        BY <1>8 DEF IsInjective
    <2> QED
      BY <1>3, <1>7, <2>1
  <1>11. Elements(t) = Elements(s) \ {c}
    <2> HIDE DEF old
    <2>1. \A x \in Elements(t) : x \in Elements(s) \ {c}
      BY <1>1, <1>8 DEF Elements, IsInjective
    <2>2. \A x \in Elements(s) \ {c} : x \in Elements(t)
      BY <1>1, <1>8, <1>9 DEF Elements
    <2> QED
      BY <2>1, <2>2
  <1> QED
    BY <1>6, <1>10, <1>11 DEF t, l, r, n, RemoveAt

\* The bins hold the chunks that M has a bin for, each in its bin, once.
Holds(ls, M) ==
    /\ ls \in [Bins -> Seq(Nat)]
    /\ \A b \in Bins : IsInjective(ls[b]) /\ Elements(ls[b]) = {c \in DOMAIN M : M[c] = b}

\* add_chunk puts a free chunk into the bin of its size.
LEMMA AddHolds ==
  ASSUME NEW ls, NEW M, Holds(ls, M), NEW c \in Nat, c \notin DOMAIN M,
         NEW size, ChunkSize(size)
  PROVE  Holds(AddChunk(ls, c, size), Put(M, c, ListOfSize(size)))
  <1> DEFINE b == ListOfSize(size)
             l2 == AddChunk(ls, c, size)
             M2 == Put(M, c, b)
  <1>1. b \in Bins
    BY BinOfSize
  <1>2. ls \in [Bins -> Seq(Nat)] /\ ls[b] \in Seq(Nat) /\ IsInjective(ls[b]) /\ c \notin Elements(ls[b])
    BY <1>1 DEF Holds
  <1>3. /\ <<c>> \o ls[b] \in Seq(Nat) /\ IsInjective(<<c>> \o ls[b])
        /\ Elements(<<c>> \o ls[b]) = Elements(ls[b]) \cup {c}
    BY <1>2, LinkedAhead
  <1> HIDE DEF b
  <1>4. l2 = [ls EXCEPT ![b] = <<c>> \o ls[b]]
    BY DEF AddChunk, b
  <1>5. l2 \in [Bins -> Seq(Nat)] /\ l2[b] = <<c>> \o ls[b] /\ \A d \in Bins : d # b => l2[d] = ls[d]
    BY <1>1, <1>2, <1>3, <1>4
  <1>6. DOMAIN M2 = DOMAIN M \cup {c} /\ M2[c] = b /\ \A d \in DOMAIN M : M2[d] = M[d]
    BY DEF Put
  <1> HIDE DEF l2, M2
  <1>7. ASSUME NEW d \in Bins PROVE IsInjective(l2[d]) /\ Elements(l2[d]) = {e \in DOMAIN M2 : M2[e] = d}
    <2>1. IsInjective(ls[d]) /\ Elements(ls[d]) = {e \in DOMAIN M : M[e] = d}
      BY DEF Holds
    <2>2. CASE d = b
      BY <1>3, <1>5, <1>6, <2>1, <2>2, ZenonT(60)
    <2>3. CASE d # b
      BY <1>5, <1>6, <2>1, <2>3
    <2> QED
      BY <2>2, <2>3
  <1> QED
    BY <1>5, <1>7 DEF Holds, M2, l2, b

\* DELETE_FROM_LIST takes a chunk out of its bin.
LEMMA DeleteHolds ==
  ASSUME NEW ls, NEW M, Holds(ls, M), NEW c \in DOMAIN M, M[c] \in Bins
  PROVE  Holds(DeleteFrom(ls, M[c], c), Without(M, {c}))
  <1> DEFINE b == M[c]
             s == ls[b]
             u == RemoveAt(s, CHOOSE k \in DOMAIN s : s[k] = c)
             l2 == DeleteFrom(ls, b, c)
             M2 == Without(M, {c})
  <1>1. ls \in [Bins -> Seq(Nat)] /\ s \in Seq(Nat) /\ IsInjective(s) /\ c \in Elements(s)
    BY DEF Holds
  <1>2. u \in Seq(Nat) /\ IsInjective(u) /\ Elements(u) = Elements(s) \ {c}
    BY <1>1, Unlinked
  <1>3. l2 = [ls EXCEPT ![b] = u]
    BY DEF DeleteFrom
  <1> HIDE DEF u
  <1>4. l2 \in [Bins -> Seq(Nat)] /\ l2[b] = u /\ \A d \in Bins : d # b => l2[d] = ls[d]
    BY <1>1, <1>2, <1>3
  <1>5. DOMAIN M2 = DOMAIN M \ {c} /\ \A d \in DOMAIN M2 : M2[d] = M[d]
    BY DEF Without, Restrict
  <1> HIDE DEF l2, M2
  <1>6. ASSUME NEW d \in Bins PROVE IsInjective(l2[d]) /\ Elements(l2[d]) = {e \in DOMAIN M2 : M2[e] = d}
    <2>1. IsInjective(ls[d]) /\ Elements(ls[d]) = {e \in DOMAIN M : M[e] = d}
      BY DEF Holds
    <2>2. CASE d = b
      BY <1>2, <1>4, <1>5, <2>1, <2>2
    <2>3. CASE d # b
      BY <1>4, <1>5, <2>1, <2>3
    <2> QED
      BY <2>2, <2>3
  <1> QED
    BY <1>4, <1>6 DEF Holds, M2, l2

-----------------------------------------------------------------------------
(* Where arenas are.                                                       *)

\* The addresses of mapping i.
InMap(i, x) == x \in Nat /\ Base(i) <= x /\ x < Base(i) + Stride

\* An address is in one mapping at most.
LEMMA OneMap ==
  ASSUME NEW i \in Slots, NEW j \in Slots, NEW x, InMap(i, x), InMap(j, x)
  PROVE  i = j
  <1>1. i \in Nat /\ j \in Nat
    BY Constants DEF Slots
  <1>2. CASE i < j
    BY <1>1, <1>2, BasesApart, Constants DEF InMap
  <1>3. CASE j < i
    BY <1>1, <1>3, BasesApart, Constants DEF InMap
  <1> QED
    BY <1>1, <1>2, <1>3

\* Where the first chunk and the sentinel of an arena are.
LEMMA ArenaAddresses ==
  ASSUME NEW i \in Slots
  PROVE  /\ Base(i) \in Nat /\ InMap(i, Base(i))
         /\ FirstChunk(i) \in Nat /\ Base(i) < FirstChunk(i)
         /\ Sentinel(i) \in Nat /\ Sentinel(i) = FirstChunk(i) + Limit
         /\ FirstChunk(i) < Sentinel(i)
         /\ Sentinel(i) + SizeofChunkHeader = Base(i) + arena_size
         /\ \A x \in Nat : FirstChunk(i) <= x /\ x <= Sentinel(i) => InMap(i, x)
  <1>1. i \in Nat /\ i + 1 \in Nat
    BY Constants DEF Slots
  <1>2. Base(i) \in Nat
    BY <1>1, BasesApart
  <1>3. Limit \in Nat /\ Limit + SizeofArena + SizeofChunkHeader = arena_size /\ 0 < Limit
    BY LimitSize, Constants DEF ChunkSize
  <1> QED
    BY <1>2, <1>3, Constants DEF InMap, FirstChunk, Sentinel

-----------------------------------------------------------------------------
(* Memory.                                                                 *)

\* The chunks of arena i in memory hd.
Cs(hd, i) == {a \in DOMAIN hd : FirstChunk(i) <= a /\ a < Sentinel(i)}

\* The chunks of arena i, and what their tags say.  A chunk that says that the one
\* before it is free has one before it.
Tiled(hd, ft, i) ==
    /\ FirstChunk(i) \in Cs(hd, i) /\ hd[FirstChunk(i)].prev_used
    /\ Sentinel(i) \in DOMAIN hd /\ hd[Sentinel(i)].used
    /\ \A a \in Cs(hd, i) :
          /\ ChunkSize(hd[a].size)
          /\ a + hd[a].size \in Cs(hd, i) \cup {Sentinel(i)}
          /\ \A b \in Cs(hd, i) : b <= a \/ a + hd[a].size <= b
          /\ hd[a + hd[a].size].prev_used = hd[a].used
          /\ ~hd[a].used => /\ hd[a + hd[a].size].used
                            /\ a + hd[a].size \in DOMAIN ft
                            /\ ft[a + hd[a].size] = hd[a].size
          /\ ~hd[a].prev_used => \E b \in Cs(hd, i) : b + hd[b].size = a

ChunkHeaders == [prev_used : BOOLEAN, size : Nat, used : BOOLEAN]

Typed(hd, ft) ==
    /\ DOMAIN hd \subseteq Nat /\ DOMAIN ft \subseteq Nat
    /\ \A a \in DOMAIN hd : hd[a] \in ChunkHeaders
    /\ \A a \in DOMAIN ft : ft[a] \in Nat

\* A header belongs to an arena or to one of the huge chunks.
Placed(hd, a, ars, hs) ==
    \/ \E i \in ars : a \in Cs(hd, i) \cup {Sentinel(i)}
    \/ \E i \in hs : a = Base(i) /\ hd[a].used

\* Memory with the arenas ars and the mappings hs for huge chunks.
Laid(hd, ft, ars, hs) ==
    /\ Typed(hd, ft)
    /\ ars \subseteq Slots /\ hs \subseteq Slots /\ ars \cap hs = {}
    /\ \A i \in ars : Tiled(hd, ft, i)
    /\ \A a \in DOMAIN hd : Placed(hd, a, ars, hs)

\* A header within an arena is one of its chunks or its sentinel.
LEMMA InArena ==
  ASSUME NEW hd, NEW ft, NEW ars, NEW hs, Laid(hd, ft, ars, hs), NEW i \in ars,
         NEW x \in DOMAIN hd, FirstChunk(i) <= x, x <= Sentinel(i)
  PROVE  x \in Cs(hd, i) \cup {Sentinel(i)}
  <1>1. i \in Slots /\ x \in Nat
    BY DEF Laid, Typed
  <1> QED
    BY <1>1, ArenaAddresses DEF Cs

\* Chunks of an arena lie in its mapping.
LEMMA ChunkInMap ==
  ASSUME NEW hd, NEW ft, Typed(hd, ft), NEW i \in Slots, NEW a \in Cs(hd, i) \cup {Sentinel(i)}
  PROVE  a \in Nat /\ FirstChunk(i) <= a /\ a <= Sentinel(i) /\ InMap(i, a) /\ a # Base(i)
  BY ArenaAddresses DEF Cs, Typed

\* Memory that is the same within an arena has the same chunks there.
LEMMA SameArena ==
  ASSUME NEW hd, NEW ft, NEW h2, NEW f2, NEW i \in Slots, Tiled(hd, ft, i),
         Typed(hd, ft), Typed(h2, f2),
         \A x \in Nat : FirstChunk(i) <= x /\ x <= Sentinel(i) =>
            /\ x \in DOMAIN h2 <=> x \in DOMAIN hd
            /\ x \in DOMAIN hd => h2[x] = hd[x]
            /\ x \in DOMAIN ft => x \in DOMAIN f2 /\ f2[x] = ft[x]
  PROVE  Tiled(h2, f2, i) /\ Cs(h2, i) = Cs(hd, i)
  <1>1. Cs(h2, i) = Cs(hd, i)
    BY ArenaAddresses DEF Cs, Typed
  <1> DEFINE C == Cs(hd, i)
  <1>2. \A x \in C \cup {Sentinel(i)} :
           x \in Nat /\ FirstChunk(i) <= x /\ x <= Sentinel(i)
    BY ChunkInMap
  <1>3. \A x \in C \cup {Sentinel(i)} : x \in DOMAIN hd
    BY DEF Tiled, Cs
  <1>4. \A x \in C \cup {Sentinel(i)} : h2[x] = hd[x] /\ x \in DOMAIN h2
    BY <1>2, <1>3
  <1>5. \A x \in C \cup {Sentinel(i)} : x \in DOMAIN ft => x \in DOMAIN f2 /\ f2[x] = ft[x]
    BY <1>2
  <1>6. FirstChunk(i) \in C /\ h2[FirstChunk(i)].prev_used /\ Sentinel(i) \in DOMAIN h2 /\ h2[Sentinel(i)].used
    BY <1>4 DEF Tiled
  <1>7. ASSUME NEW a \in C
        PROVE  /\ ChunkSize(h2[a].size)
               /\ a + h2[a].size \in C \cup {Sentinel(i)}
               /\ \A b \in C : b <= a \/ a + h2[a].size <= b
               /\ h2[a + h2[a].size].prev_used = h2[a].used
               /\ ~h2[a].used => /\ h2[a + h2[a].size].used
                                 /\ a + h2[a].size \in DOMAIN f2
                                 /\ f2[a + h2[a].size] = h2[a].size
               /\ ~h2[a].prev_used => \E b \in C : b + h2[b].size = a
    <2> DEFINE n == a + hd[a].size
    <2>1. /\ ChunkSize(hd[a].size) /\ n \in C \cup {Sentinel(i)}
          /\ \A b \in C : b <= a \/ n <= b
          /\ hd[n].prev_used = hd[a].used
          /\ ~hd[a].used => hd[n].used /\ n \in DOMAIN ft /\ ft[n] = hd[a].size
          /\ ~hd[a].prev_used => \E b \in C : b + hd[b].size = a
      BY DEF Tiled
    <2>2. h2[a] = hd[a] /\ h2[n] = hd[n]
      BY <1>4, <2>1
    <2>3. n \in DOMAIN ft => n \in DOMAIN f2 /\ f2[n] = ft[n]
      BY <1>5, <2>1
    <2> HIDE DEF C
    <2>4. ~h2[a].prev_used => \E b \in C : b + h2[b].size = a
      BY <1>4, <2>1, <2>2
    <2> QED
      BY <2>1, <2>2, <2>3, <2>4
  <1> HIDE DEF C
  <1>8. Cs(h2, i) = C
    BY <1>1 DEF C
  <1> QED
    BY <1>1, <1>6, <1>7, <1>8 DEF Tiled

\* A change within arena i leaves the other arenas and the huge chunks alone.
LEMMA LocalChange ==
  ASSUME NEW hd, NEW ft, NEW ars, NEW hs, Laid(hd, ft, ars, hs), NEW i \in ars,
         NEW h2, NEW f2, Typed(h2, f2), Tiled(h2, f2, i),
         \A x \in Nat : ~(FirstChunk(i) <= x /\ x <= Sentinel(i)) =>
            /\ x \in DOMAIN h2 <=> x \in DOMAIN hd
            /\ x \in DOMAIN hd => h2[x] = hd[x]
            /\ x \in DOMAIN ft => x \in DOMAIN f2 /\ f2[x] = ft[x]
  PROVE  Laid(h2, f2, ars, hs) /\ \A j \in ars \ {i} : Cs(h2, j) = Cs(hd, j)
  <1>1. /\ Typed(hd, ft) /\ ars \subseteq Slots /\ hs \subseteq Slots /\ ars \cap hs = {}
        /\ i \in Slots
    BY DEF Laid
  <1>2. \A j \in Slots \ {i} : \A x \in Nat : InMap(j, x) => ~(FirstChunk(i) <= x /\ x <= Sentinel(i))
    BY <1>1, ArenaAddresses, OneMap
  <1>3. ASSUME NEW j \in ars \ {i} PROVE Tiled(h2, f2, j) /\ Cs(h2, j) = Cs(hd, j)
    <2>1. j \in Slots \ {i} /\ Tiled(hd, ft, j)
      BY <1>1 DEF Laid
    <2>2. \A x \in Nat : FirstChunk(j) <= x /\ x <= Sentinel(j) => ~(FirstChunk(i) <= x /\ x <= Sentinel(i))
      BY <1>2, <2>1, ArenaAddresses
    <2> QED
      BY <1>1, <2>1, <2>2, SameArena
  <1>4. ASSUME NEW a \in DOMAIN h2 PROVE Placed(h2, a, ars, hs)
    <2>1. a \in Nat
      BY DEF Typed
    <2>2. CASE FirstChunk(i) <= a /\ a <= Sentinel(i)
      <3>1. a \in Cs(h2, i) \cup {Sentinel(i)}
        BY <1>1, <2>1, <2>2, ArenaAddresses DEF Cs
      <3> QED
        BY <3>1 DEF Placed
    <2>3. CASE ~(FirstChunk(i) <= a /\ a <= Sentinel(i))
      <3>1. a \in DOMAIN hd /\ h2[a] = hd[a]
        BY <2>1, <2>3
      <3>2. CASE \E j \in ars : a \in Cs(hd, j) \cup {Sentinel(j)}
        <4>1. PICK j \in ars : a \in Cs(hd, j) \cup {Sentinel(j)}
          BY <3>2
        <4>2. j # i
          BY <1>1, <2>3, <4>1, ChunkInMap
        <4> QED
          BY <1>3, <4>1, <4>2 DEF Placed
      <3>3. CASE \E j \in hs : a = Base(j) /\ hd[a].used
        BY <3>1, <3>3 DEF Placed
      <3> QED
        BY <3>1, <3>2, <3>3 DEF Laid, Placed
    <2> QED
      BY <2>2, <2>3
  <1> QED
    BY <1>1, <1>3, <1>4 DEF Laid

-----------------------------------------------------------------------------
(* Allocation in an arena.                                                 *)

\* Two chunks of an arena do not end at the same address.
LEMMA EndsDiffer ==
  ASSUME NEW hd, NEW ft, NEW i, Tiled(hd, ft, i), Typed(hd, ft),
         NEW a \in Cs(hd, i), NEW b \in Cs(hd, i), a # b
  PROVE  /\ a \in Nat /\ b \in Nat /\ hd[a].size \in Nat \ {0} /\ hd[b].size \in Nat \ {0}
         /\ a < b => a + hd[a].size <= b /\ b < b + hd[b].size
         /\ a + hd[a].size # b + hd[b].size
  <1>1. a \in Nat /\ b \in Nat
    BY DEF Cs, Typed
  <1>2. hd[a].size \in Nat \ {0} /\ hd[b].size \in Nat \ {0}
    <2>1. ChunkSize(hd[a].size) /\ ChunkSize(hd[b].size)
      BY DEF Tiled
    <2> QED
      BY <2>1, Constants DEF ChunkSize
  <1>3. (b <= a \/ a + hd[a].size <= b) /\ (a <= b \/ b + hd[b].size <= a)
    BY DEF Tiled
  <1> QED
    BY <1>1, <1>2, <1>3

\* What handle_free_chunk does to the tags of a free chunk c of the given size that
\* it hands out whole, and of one that it splits at m.
TakenWhole(hd, ft, h2, f2, c, e) ==
    /\ DOMAIN h2 = DOMAIN hd
    /\ h2[c] = [hd[c] EXCEPT !.used = TRUE]
    /\ h2[e] = [hd[e] EXCEPT !.prev_used = TRUE]
    /\ \A x \in DOMAIN hd \ {c, e} : h2[x] = hd[x]
    /\ \A x \in DOMAIN f2 : x \in DOMAIN ft /\ f2[x] = ft[x]
    /\ \A x \in DOMAIN ft : ~(c < x /\ x <= e) => x \in DOMAIN f2

TakenPart(hd, ft, h2, f2, c, m, e) ==
    /\ m < e /\ m \notin DOMAIN hd /\ ChunkSize(e - m)
    /\ DOMAIN h2 = DOMAIN hd \cup {m}
    /\ h2[c] = Chunk(hd[c].prev_used, m - c, TRUE)
    /\ h2[m] = Chunk(TRUE, e - m, FALSE)
    /\ \A x \in DOMAIN hd \ {c} : h2[x] = hd[x]
    /\ e \in DOMAIN f2 /\ f2[e] = e - m
    /\ \A x \in DOMAIN f2 \ {e} : x \in DOMAIN ft /\ f2[x] = ft[x]
    /\ \A x \in DOMAIN ft \ {e} : ~(c < x /\ x <= m) => x \in DOMAIN f2

\* What handle_free_chunk does to the tags around the chunk it cuts.
LEMMA TakenTags ==
  ASSUME NEW hd, NEW ft, NEW ars, NEW hs, Laid(hd, ft, ars, hs), NEW i \in ars,
         NEW c \in Cs(hd, i), ~hd[c].used, NEW n, ChunkSize(n), n <= hd[c].size,
         NEW h2, h2 = TakeHead(hd, c, n), NEW f2, f2 = TakeFoot(hd, ft, c, n),
         NEW size, size = hd[c].size, NEW e, e = c + size
  PROVE  /\ size \in Nat \ {0} /\ e \in Cs(hd, i) \cup {Sentinel(i)} /\ e \in Nat
         /\ c \in Nat /\ n \in Nat /\ c < c + n /\ c + n <= e
         /\ Whole(hd, c, n) => TakenWhole(hd, ft, h2, f2, c, e)
         /\ ~Whole(hd, c, n) => TakenPart(hd, ft, h2, f2, c, c + n, e)
  <1>1. Typed(hd, ft) /\ Tiled(hd, ft, i) /\ i \in Slots
    BY DEF Laid
  <1>2. c \in Nat /\ c \in DOMAIN hd /\ c < Sentinel(i) /\ FirstChunk(i) <= c
    BY <1>1 DEF Typed, Cs
  <1>3. ChunkSize(size) /\ size \in Nat \ {0} /\ n \in Nat \ {0}
    BY <1>1, Constants DEF Tiled, ChunkSize
  <1>4. e \in Cs(hd, i) \cup {Sentinel(i)} /\ e \in DOMAIN hd /\ e <= Sentinel(i)
    BY <1>1, ArenaAddresses DEF Tiled, Cs, Typed
  <1>5. \A x \in DOMAIN hd : x <= c \/ e <= x
    <2> SUFFICES ASSUME NEW x \in DOMAIN hd, c < x, x < e PROVE FALSE
      BY <1>1, <1>2, <1>3 DEF Typed
    <2>1. x \in Nat /\ FirstChunk(i) <= x /\ x < Sentinel(i)
      BY <1>1, <1>2, <1>3, <1>4, ArenaAddresses DEF Typed
    <2>2. x \in Cs(hd, i)
      BY <2>1 DEF Cs
    <2> QED
      BY <1>1, <1>2, <1>3, <2>1, <2>2 DEF Tiled
  <1>6. DOMAIN hd \subseteq Nat /\ DOMAIN ft \subseteq Nat
    BY <1>1 DEF Typed
  <1>7. c < c + n /\ c + n <= e /\ e \in Nat
    BY <1>2, <1>3
  <1>8. Whole(hd, c, n) <=> size - n < MIN_SMALL_SIZE
    BY DEF Whole
  <1>9. ASSUME Whole(hd, c, n)
        PROVE  /\ DOMAIN h2 = DOMAIN hd
               /\ h2[c] = [hd[c] EXCEPT !.used = TRUE]
               /\ h2[e] = [hd[e] EXCEPT !.prev_used = TRUE]
               /\ \A x \in DOMAIN hd \ {c, e} : h2[x] = hd[x]
               /\ \A x \in DOMAIN f2 : x \in DOMAIN ft /\ f2[x] = ft[x]
               /\ \A x \in DOMAIN ft : ~(c < x /\ x <= e) => x \in DOMAIN f2
    <2> DEFINE g == [hd EXCEPT ![c].used = TRUE, ![e].prev_used = TRUE]
               D == {b \in DOMAIN g : b <= c \/ c + size - 1 < b}
    <2>1. h2 = [x \in D |-> g[x]]
      BY <1>9 DEF TakeHead, Overwritten, Restrict
    <2>2. DOMAIN g = DOMAIN hd
      OBVIOUS
    <2>3. D = DOMAIN hd
      <3>1. \A b \in DOMAIN hd : b <= c \/ c + size - 1 < b
        BY <1>2, <1>3, <1>5, <1>6
      <3> HIDE DEF g
      <3> QED
        BY <2>2, <3>1
    <2>4. c # e
      BY <1>2, <1>3
    <2>5. g[c] = [hd[c] EXCEPT !.used = TRUE] /\ g[e] = [hd[e] EXCEPT !.prev_used = TRUE]
          /\ \A x \in DOMAIN hd \ {c, e} : g[x] = hd[x]
      BY <1>2, <1>4, <2>4
    <2>6. f2 = [x \in {b \in DOMAIN ft : b <= c \/ e < b} |-> ft[x]]
      BY <1>9 DEF TakeFoot, Overwritten, Restrict
    <2>7. \A x \in DOMAIN ft : ~(c < x /\ x <= e) => x <= c \/ e < x
      BY <1>2, <1>6, <1>7
    <2> HIDE DEF g, D
    <2>8. DOMAIN h2 = DOMAIN hd /\ \A x \in DOMAIN hd : h2[x] = g[x]
      BY <2>1, <2>3
    <2>9. DOMAIN f2 = {b \in DOMAIN ft : b <= c \/ e < b} /\ \A x \in DOMAIN f2 : f2[x] = ft[x]
      BY <2>6
    <2> QED
      BY <1>2, <1>4, <2>5, <2>7, <2>8, <2>9
  <1>10. ASSUME ~Whole(hd, c, n)
         PROVE  /\ c + n < e /\ c + n \notin DOMAIN hd /\ ChunkSize(size - n)
                /\ DOMAIN h2 = DOMAIN hd \cup {c + n}
                /\ h2[c] = Chunk(hd[c].prev_used, n, TRUE)
                /\ h2[c + n] = Chunk(TRUE, size - n, FALSE)
                /\ \A x \in DOMAIN hd \ {c} : h2[x] = hd[x]
                /\ e \in DOMAIN f2 /\ f2[e] = size - n
                /\ \A x \in DOMAIN f2 \ {e} : x \in DOMAIN ft /\ f2[x] = ft[x]
                /\ \A x \in DOMAIN ft \ {e} : ~(c < x /\ x <= c + n) => x \in DOMAIN f2
    <2> DEFINE k == Chunk(hd[c].prev_used, n, TRUE)
               g == [hd EXCEPT ![c] = k]
               m == c + n
               D == {b \in DOMAIN g : b <= c \/ m < b}
    <2>1. MIN_SMALL_SIZE <= size - n
      BY <1>3, <1>8, <1>10, Constants
    <2>2. ChunkSize(size - n)
      BY <1>3, <2>1, ChunkSizeRest
    <2>3. m < e /\ m \in Nat /\ c < m
      BY <1>2, <1>3, <2>1, Constants
    <2>4. m \notin DOMAIN hd
      BY <1>5, <1>6, <2>3, <1>7, <1>2
    <2>5. h2 = [b \in DOMAIN [x \in D |-> g[x]] \cup {m} |->
                  IF b = m THEN Chunk(TRUE, size - n, FALSE) ELSE [x \in D |-> g[x]][b]]
      BY <1>10 DEF TakeHead, Overwritten, Restrict, Put
    <2>6. DOMAIN g = DOMAIN hd
      OBVIOUS
    <2>7. D = DOMAIN hd
      BY <1>2, <1>5, <1>6, <1>7, <2>3, <2>6
    <2>8. g[c] = k /\ \A x \in DOMAIN hd \ {c} : g[x] = hd[x]
      BY <1>2
    <2> DEFINE E == {b \in DOMAIN ft : b <= c \/ m < b}
    <2>9. f2 = [b \in DOMAIN [x \in E |-> ft[x]] \cup {e} |->
                  IF b = e THEN size - n ELSE [x \in E |-> ft[x]][b]]
      BY <1>10 DEF TakeFoot, Overwritten, Restrict, Put
    <2>10. \A x \in DOMAIN ft : ~(c < x /\ x <= m) => x \in E
      BY <1>2, <1>6, <2>3
    <2>11. E \subseteq DOMAIN ft
      OBVIOUS
    <2> HIDE DEF g, D, E, m, k
    <2>12. DOMAIN h2 = DOMAIN hd \cup {m} /\ h2[m] = Chunk(TRUE, size - n, FALSE)
           /\ \A x \in DOMAIN hd \ {m} : h2[x] = g[x]
      BY <2>5, <2>7
    <2>13. DOMAIN f2 = E \cup {e} /\ f2[e] = size - n /\ \A x \in E \ {e} : f2[x] = ft[x]
      BY <2>9
    <2>14. h2[c] = k /\ \A x \in DOMAIN hd \ {c} : h2[x] = hd[x]
      BY <1>2, <2>4, <2>8, <2>12
    <2> QED
      BY <2>2, <2>3, <2>4, <2>10, <2>11, <2>12, <2>13, <2>14 DEF m, k
  <1>11. Whole(hd, c, n) => TakenWhole(hd, ft, h2, f2, c, e)
    BY <1>9 DEF TakenWhole
  <1>12. ASSUME ~Whole(hd, c, n) PROVE TakenPart(hd, ft, h2, f2, c, c + n, e)
    <2>1. e - (c + n) = size - n /\ (c + n) - c = n
      BY <1>2, <1>3
    <2> QED
      BY <1>10, <1>12, <2>1 DEF TakenPart
  <1> QED
    BY <1>2, <1>3, <1>4, <1>7, <1>11, <1>12

\* handle_free_chunk keeps the tags of the arena right.
LEMMA TakeTiles ==
  ASSUME NEW hd, NEW ft, NEW ars, NEW hs, Laid(hd, ft, ars, hs), NEW i \in ars,
         NEW c \in Cs(hd, i), ~hd[c].used, NEW n, ChunkSize(n), n <= hd[c].size,
         NEW h2, h2 = TakeHead(hd, c, n), NEW f2, f2 = TakeFoot(hd, ft, c, n),
         NEW size, size = hd[c].size, NEW e, e = c + size
  PROVE  /\ Typed(h2, f2) /\ Tiled(h2, f2, i)
             /\ Cs(h2, i) = IF Whole(hd, c, n) THEN Cs(hd, i) ELSE Cs(hd, i) \cup {c + n}
  <1> DEFINE m == c + n
             C == Cs(hd, i)
  <1>1. Typed(hd, ft) /\ Tiled(hd, ft, i) /\ i \in Slots
    BY DEF Laid
  <1>2. size \in Nat /\ e \in C \cup {Sentinel(i)} /\ c \in Nat /\ c < m /\ m <= e /\ n \in Nat
    BY TakenTags
  <1>3. c \in C /\ c \in DOMAIN hd /\ e \in DOMAIN hd /\ e \in Nat /\ c # e
        /\ hd[c] \in ChunkHeaders /\ hd[e] \in ChunkHeaders /\ e <= Sentinel(i) /\ FirstChunk(i) <= c
    BY <1>1, <1>2, ArenaAddresses DEF Cs, Tiled, Typed
  <1>4. /\ ChunkSize(size) /\ hd[e].used /\ hd[e].prev_used = hd[c].used
        /\ \A b \in C : b <= c \/ e <= b
    BY <1>1, <1>3 DEF Tiled
  <1>5. \A a \in C \ {c} : /\ a \in Nat /\ hd[a].size \in Nat \ {0} /\ a + hd[a].size # e
                           /\ a < c => a + hd[a].size <= c
                           /\ c < a => e <= a
    BY <1>1, <1>3, EndsDiffer
  <1>6. \A a \in C : /\ a \in DOMAIN hd /\ hd[a] \in ChunkHeaders /\ ChunkSize(hd[a].size)
                     /\ a + hd[a].size \in C \cup {Sentinel(i)}
                     /\ \A b \in C : b <= a \/ a + hd[a].size <= b
                     /\ hd[a + hd[a].size].prev_used = hd[a].used
                     /\ ~hd[a].used => /\ hd[a + hd[a].size].used
                                       /\ a + hd[a].size \in DOMAIN ft
                                       /\ ft[a + hd[a].size] = hd[a].size
                     /\ ~hd[a].prev_used => \E b \in C : b + hd[b].size = a
    BY <1>1 DEF Tiled, Typed, Cs
  <1>7. \A x \in C \cup {Sentinel(i)} : x \in DOMAIN hd /\ x \in Nat /\ hd[x] \in ChunkHeaders
    BY <1>1 DEF Tiled, Typed, Cs
  <1>8. FirstChunk(i) \in C /\ hd[FirstChunk(i)].prev_used /\ hd[Sentinel(i)].used
        /\ Sentinel(i) \notin C /\ FirstChunk(i) \in Nat /\ Sentinel(i) \in Nat
    BY <1>1, ArenaAddresses DEF Tiled, Cs
  <1>9. c \notin {a + hd[a].size : a \in {b \in C : ~hd[b].used}}
    <2> SUFFICES ASSUME NEW a \in C, ~hd[a].used, c = a + hd[a].size PROVE FALSE
      OBVIOUS
    <2> QED
      BY <1>6
  <1>10. ASSUME Whole(hd, c, n)
         PROVE  Typed(h2, f2) /\ Tiled(h2, f2, i) /\ Cs(h2, i) = C
    <2>1. /\ DOMAIN h2 = DOMAIN hd
          /\ h2[c] = [hd[c] EXCEPT !.used = TRUE]
          /\ h2[e] = [hd[e] EXCEPT !.prev_used = TRUE]
          /\ \A x \in DOMAIN hd \ {c, e} : h2[x] = hd[x]
          /\ \A x \in DOMAIN f2 : x \in DOMAIN ft /\ f2[x] = ft[x]
          /\ \A x \in DOMAIN ft : ~(c < x /\ x <= e) => x \in DOMAIN f2
      BY <1>10, TakenTags DEF TakenWhole
    <2> HIDE DEF m, C
    <2>2. Cs(h2, i) = C
      BY <2>1 DEF Cs, C
    <2>3. /\ h2[c] \in ChunkHeaders /\ h2[c].used /\ h2[c].size = hd[c].size /\ h2[c].prev_used = hd[c].prev_used
          /\ h2[e] \in ChunkHeaders /\ h2[e].prev_used /\ h2[e].size = hd[e].size /\ h2[e].used = hd[e].used
      BY <1>3, <2>1 DEF ChunkHeaders
    <2>4. \A x \in DOMAIN hd : /\ h2[x] \in ChunkHeaders /\ h2[x].size = hd[x].size
                               /\ x # c => h2[x].used = hd[x].used
                               /\ x # e => h2[x].prev_used = hd[x].prev_used
      <3> SUFFICES ASSUME NEW x \in DOMAIN hd
                   PROVE  /\ h2[x] \in ChunkHeaders /\ h2[x].size = hd[x].size
                          /\ x # c => h2[x].used = hd[x].used
                          /\ x # e => h2[x].prev_used = hd[x].prev_used
        OBVIOUS
      <3>1. CASE x = c
        BY <1>3, <2>3, <3>1
      <3>2. CASE x = e
        BY <1>3, <2>3, <3>2
      <3>3. CASE x # c /\ x # e
        BY <1>1, <2>1, <3>3 DEF Typed
      <3> QED
        BY <3>1, <3>2, <3>3
    <2>5. Typed(h2, f2)
      BY <1>1, <2>1, <2>4 DEF Typed
    <2>6. ASSUME NEW a \in C
          PROVE  /\ ChunkSize(h2[a].size)
                 /\ a + h2[a].size \in C \cup {Sentinel(i)}
                 /\ \A b \in C : b <= a \/ a + h2[a].size <= b
                 /\ h2[a + h2[a].size].prev_used = h2[a].used
                 /\ ~h2[a].used => /\ h2[a + h2[a].size].used
                                   /\ a + h2[a].size \in DOMAIN f2
                                   /\ f2[a + h2[a].size] = h2[a].size
                 /\ ~h2[a].prev_used => \E b \in C : b + h2[b].size = a
      <3> DEFINE x == a + hd[a].size
      <3>1. h2[a].size = hd[a].size /\ x \in C \cup {Sentinel(i)} /\ x \in DOMAIN hd
        BY <1>6, <1>7, <2>4
      <3>2. ChunkSize(h2[a].size) /\ \A b \in C : b <= a \/ x <= b
        BY <1>6, <3>1
      <3>3. h2[x].prev_used = h2[a].used
        <4>1. CASE a = c
          <5>1. x = e
            BY <4>1
          <5> QED
            BY <1>3, <2>3, <4>1, <5>1 DEF ChunkHeaders
        <4>2. CASE a # c
          <5>1. x # e
            BY <1>5, <4>2
          <5> QED
            BY <1>6, <2>4, <3>1, <4>2, <5>1
        <4> QED
          BY <4>1, <4>2
      <3>4. ASSUME ~h2[a].used
            PROVE  h2[x].used /\ x \in DOMAIN f2 /\ f2[x] = h2[a].size
        <4>1. a # c
          BY <2>3, <3>4
        <4>2. ~hd[a].used /\ hd[x].used /\ x \in DOMAIN ft /\ ft[x] = hd[a].size
          BY <1>6, <2>4, <3>4, <4>1
        <4>3. h2[x].used
          BY <2>3, <2>4, <3>1, <4>2
        <4>4. ~(c < x /\ x <= e)
          BY <1>2, <1>3, <1>5, <4>1
        <4> QED
          BY <2>1, <3>1, <4>2, <4>3, <4>4
      <3>5. ASSUME ~h2[a].prev_used PROVE \E b \in C : b + h2[b].size = a
        <4>1. a # e /\ ~hd[a].prev_used
          BY <1>7, <2>3, <2>4, <3>5
        <4>2. PICK b \in C : b + hd[b].size = a
          BY <1>6, <4>1
        <4> QED
          BY <1>6, <2>4, <4>2
      <3> HIDE DEF x
      <3>6. a + h2[a].size = x
        BY <3>1 DEF x
      <3> QED
        BY <3>1, <3>2, <3>3, <3>4, <3>5, <3>6
    <2>7. h2[FirstChunk(i)].prev_used /\ Sentinel(i) \in DOMAIN h2 /\ h2[Sentinel(i)].used
      BY <1>7, <1>8, <2>1, <2>3, <2>4
    <2> QED
      BY <1>8, <2>2, <2>5, <2>6, <2>7 DEF Tiled
  <1>11. ASSUME ~Whole(hd, c, n)
         PROVE  Typed(h2, f2) /\ Tiled(h2, f2, i) /\ Cs(h2, i) = C \cup {m}
    <2>1. /\ m < e /\ m \notin DOMAIN hd /\ ChunkSize(size - n)
          /\ DOMAIN h2 = DOMAIN hd \cup {m}
          /\ h2[c] = Chunk(hd[c].prev_used, n, TRUE)
          /\ h2[m] = Chunk(TRUE, size - n, FALSE)
          /\ \A x \in DOMAIN hd \ {c} : h2[x] = hd[x]
          /\ e \in DOMAIN f2 /\ f2[e] = size - n
          /\ \A x \in DOMAIN f2 \ {e} : x \in DOMAIN ft /\ f2[x] = ft[x]
          /\ \A x \in DOMAIN ft \ {e} : ~(c < x /\ x <= m) => x \in DOMAIN f2
      <3>1. TakenPart(hd, ft, h2, f2, c, m, e) /\ e - m = size - n /\ m - c = n
        BY <1>2, <1>11, TakenTags
      <3> HIDE DEF m, C
      <3> QED
        BY <3>1 DEF TakenPart
    <2>2. m \in Nat /\ m + (size - n) = e /\ c + n = m
      BY <1>2
    <2> HIDE DEF m, C
    <2>3. Cs(h2, i) = C \cup {m}
      <3>1. FirstChunk(i) <= m /\ m < Sentinel(i)
        BY <1>2, <1>3, <1>8, <2>1, <2>2
      <3> QED
        BY <2>1, <3>1 DEF Cs, C
    <2>4. /\ h2[c] \in ChunkHeaders /\ h2[c].used /\ h2[c].size = n /\ h2[c].prev_used = hd[c].prev_used
          /\ h2[m] \in ChunkHeaders /\ h2[m].prev_used /\ h2[m].size = size - n /\ ~h2[m].used
      <3>1. size - n \in Nat
        BY <2>1 DEF ChunkSize
      <3>2. hd[c].prev_used \in BOOLEAN
        BY <1>3 DEF ChunkHeaders
      <3> QED
        BY <1>2, <2>1, <3>1, <3>2 DEF Chunk, ChunkHeaders
    <2>5. Typed(h2, f2)
      <3>1. \A x \in DOMAIN h2 : h2[x] \in ChunkHeaders
        BY <1>1, <2>1, <2>4 DEF Typed
      <3>2. size - n \in Nat
        BY <2>1 DEF ChunkSize
      <3>3. \A x \in DOMAIN f2 : x \in Nat /\ f2[x] \in Nat
        BY <1>1, <1>3, <2>1, <3>2 DEF Typed
      <3> QED
        BY <1>1, <2>1, <2>2, <3>1, <3>3 DEF Typed
    <2>6. e \in DOMAIN h2 /\ h2[e] = hd[e] /\ hd[e].used /\ ~hd[e].prev_used
      BY <1>3, <1>4, <2>1
    <2>7. ASSUME NEW a \in C \cup {m}
          PROVE  /\ ChunkSize(h2[a].size)
                 /\ a + h2[a].size \in C \cup {m} \cup {Sentinel(i)}
                 /\ \A b \in C \cup {m} : b <= a \/ a + h2[a].size <= b
                 /\ h2[a + h2[a].size].prev_used = h2[a].used
                 /\ ~h2[a].used => /\ h2[a + h2[a].size].used
                                   /\ a + h2[a].size \in DOMAIN f2
                                   /\ f2[a + h2[a].size] = h2[a].size
      <3>1. CASE a = c
        <4>1. a + h2[a].size = m /\ ChunkSize(h2[a].size)
          BY <2>2, <2>4, <3>1
        <4>2. \A b \in C \cup {m} : b <= c \/ m <= b
          BY <1>2, <1>3, <1>4, <1>7, <2>1, <2>2
        <4>3. h2[m].prev_used = h2[c].used
          BY <2>4 DEF ChunkHeaders
        <4> QED
          BY <2>4, <3>1, <4>1, <4>2, <4>3
      <3>2. CASE a = m
        <4>1. a + h2[a].size = e /\ ChunkSize(h2[a].size)
          BY <2>1, <2>2, <2>4, <3>2
        <4>2. \A b \in C \cup {m} : b <= m \/ e <= b
          BY <1>2, <1>3, <1>4, <1>7, <2>1, <2>2
        <4>3. h2[e].prev_used = h2[a].used
          BY <1>3, <2>4, <2>6, <3>2 DEF ChunkHeaders
        <4> QED
          BY <1>2, <2>1, <2>4, <2>6, <3>2, <4>1, <4>2, <4>3
      <3>3. CASE a # c /\ a # m
        <4> DEFINE x == a + hd[a].size
        <4>1. a \in C /\ h2[a] = hd[a]
          BY <1>6, <2>1, <3>3
        <4>2. x \in C \cup {Sentinel(i)} /\ x \in DOMAIN hd /\ x # e /\ ChunkSize(hd[a].size)
          BY <1>5, <1>6, <1>7, <3>3, <4>1
        <4>3. \A b \in C \cup {m} : b <= a \/ x <= b
          <5>1. m <= a \/ x <= m
            BY <1>2, <1>3, <1>5, <2>1, <2>2, <3>3, <4>1
          <5> QED
            BY <1>6, <4>1, <5>1
        <4>4. h2[x].prev_used = hd[x].prev_used
          BY <2>1, <2>4, <4>2
        <4>5. ~hd[a].used => /\ hd[x].used /\ x \in DOMAIN ft /\ ft[x] = hd[a].size
          BY <1>6, <4>1
        <4>6. ~hd[a].used => h2[x].used
          BY <2>1, <2>4, <4>2, <4>5
        <4>7. ~(c < x /\ x <= m)
          BY <1>2, <1>3, <1>5, <2>1, <2>2, <3>3, <4>1
        <4>8. x \in DOMAIN ft => x \in DOMAIN f2 /\ f2[x] = ft[x]
          BY <2>1, <4>2, <4>7
        <4>9. hd[x].prev_used = hd[a].used
          BY <1>6, <4>1
        <4> HIDE DEF x
        <4>10. a + h2[a].size = x
          BY <4>1 DEF x
        <4> QED
          BY <4>1, <4>2, <4>3, <4>4, <4>5, <4>6, <4>8, <4>9, <4>10
      <3> QED
        BY <3>1, <3>2, <3>3
    <2>8. ASSUME NEW a \in C \cup {m}, ~h2[a].prev_used
          PROVE  \E b \in C \cup {m} : b + h2[b].size = a
      <3>1. a # m /\ a \in C
        BY <2>4, <2>8
      <3>2. ~hd[a].prev_used
        BY <1>6, <2>1, <2>4, <2>8, <3>1
      <3>3. PICK b \in C : b + hd[b].size = a
        BY <1>6, <3>1, <3>2
      <3>4. CASE b = c
        <4>1. a = e
          BY <3>3, <3>4
        <4> QED
          BY <2>2, <2>4, <4>1
      <3>5. CASE b # c
        BY <1>6, <2>1, <3>3, <3>5
      <3> QED
        BY <3>4, <3>5
    <2>9. h2[FirstChunk(i)].prev_used /\ Sentinel(i) \in DOMAIN h2 /\ h2[Sentinel(i)].used
      BY <1>3, <1>7, <1>8, <2>1, <2>4
    <2> QED
      BY <1>8, <2>3, <2>5, <2>7, <2>8, <2>9 DEF Tiled
  <1> QED
    BY <1>10, <1>11, Zenon DEF m, C

\* The free chunks of the arenas, and the bin that each should be in.
Free(hd, ars) == {a \in UNION {Cs(hd, i) : i \in ars} : ~hd[a].used}
FreeBins(hd, ars) == [a \in Free(hd, ars) |-> ListOfSize(hd[a].size)]

\* What is known of a free chunk.
LEMMA FreeSize ==
  ASSUME NEW hd, NEW ft, NEW ars, NEW hs, Laid(hd, ft, ars, hs), NEW a \in Free(hd, ars)
  PROVE  a \in Nat /\ a \in DOMAIN hd /\ ~hd[a].used /\ ChunkSize(hd[a].size)
         /\ FreeBins(hd, ars)[a] = ListOfSize(hd[a].size) /\ ListOfSize(hd[a].size) \in Bins
  <1>1. PICK i \in ars : a \in Cs(hd, i)
    BY DEF Free
  <1>2. ChunkSize(hd[a].size)
    BY <1>1 DEF Laid, Tiled
  <1>3. ListOfSize(hd[a].size) \in Bins
    BY <1>2, BinOfSize
  <1> QED
    BY <1>1, <1>2, <1>3 DEF Laid, Typed, Cs, Free, FreeBins

\* Chunks of different arenas differ.
LEMMA ArenasApart ==
  ASSUME NEW hd, NEW ft, NEW ars, NEW hs, Laid(hd, ft, ars, hs),
         NEW i \in ars, NEW j \in ars, i # j, NEW a \in Cs(hd, i) \cup {Sentinel(i)}
  PROVE  a \notin Cs(hd, j) \cup {Sentinel(j)} /\ a \in Nat /\ ~(FirstChunk(j) <= a /\ a <= Sentinel(j))
  <1>1. i \in Slots /\ j \in Slots /\ Typed(hd, ft)
    BY DEF Laid
  <1>2. a \in Nat /\ InMap(i, a)
    BY <1>1, ChunkInMap
  <1>3. ~InMap(j, a)
    BY <1>1, <1>2, OneMap
  <1> QED
    BY <1>1, <1>2, <1>3, ArenaAddresses, ChunkInMap

\* handle_free_chunk: the memory as a whole.
LEMMA TakeLaid ==
  ASSUME NEW hd, NEW ft, NEW ars, NEW hs, Laid(hd, ft, ars, hs), NEW i \in ars,
         NEW c \in Cs(hd, i), ~hd[c].used, NEW n, ChunkSize(n), n <= hd[c].size,
         NEW h2, h2 = TakeHead(hd, c, n), NEW f2, f2 = TakeFoot(hd, ft, c, n),
         NEW size, size = hd[c].size, NEW e, e = c + size
  PROVE  /\ Laid(h2, f2, ars, hs)
             /\ \A j \in ars \ {i} : Cs(h2, j) = Cs(hd, j)
  <1> DEFINE m == c + n
  <1>1. Typed(h2, f2) /\ Tiled(h2, f2, i)
    BY TakeTiles
  <1>2. /\ e \in Cs(hd, i) \cup {Sentinel(i)} /\ e \in Nat /\ c \in Nat /\ n \in Nat /\ c < m /\ m <= e
        /\ Whole(hd, c, n) => TakenWhole(hd, ft, h2, f2, c, e)
        /\ ~Whole(hd, c, n) => TakenPart(hd, ft, h2, f2, c, m, e)
    BY TakenTags
  <1> HIDE DEF m
  <1>3. i \in Slots /\ FirstChunk(i) <= c /\ e <= Sentinel(i) /\ e \in Nat /\ m \in Nat /\ FirstChunk(i) \in Nat
        /\ Sentinel(i) \in Nat
    <2>1. i \in Slots /\ Typed(hd, ft)
      BY DEF Laid
    <2> QED
      BY <1>2, <2>1, ArenaAddresses, ChunkInMap DEF m
  <1>4. ASSUME NEW x \in Nat, ~(FirstChunk(i) <= x /\ x <= Sentinel(i))
        PROVE  /\ x \in DOMAIN h2 <=> x \in DOMAIN hd
               /\ x \in DOMAIN hd => h2[x] = hd[x]
               /\ x \in DOMAIN ft => x \in DOMAIN f2 /\ f2[x] = ft[x]
    <2>1. x # c /\ x # e /\ x # m /\ ~(c < x /\ x <= e) /\ ~(c < x /\ x <= m)
      BY <1>2, <1>3, <1>4
    <2>2. CASE Whole(hd, c, n)
      BY <1>2, <2>1, <2>2 DEF TakenWhole
    <2>3. CASE ~Whole(hd, c, n)
      BY <1>2, <2>1, <2>3 DEF TakenPart
    <2> QED
      BY <2>2, <2>3
  <1>5. Laid(h2, f2, ars, hs) /\ \A j \in ars \ {i} : Cs(h2, j) = Cs(hd, j)
    BY <1>1, <1>4, LocalChange
  <1> QED
    BY <1>5

\* handle_free_chunk: the bins.
LEMMA TakeHolds ==
  ASSUME NEW hd, NEW ft, NEW ars, NEW hs, Laid(hd, ft, ars, hs), NEW i \in ars,
         NEW c \in Cs(hd, i), ~hd[c].used, NEW n, ChunkSize(n), n <= hd[c].size,
         NEW h2, h2 = TakeHead(hd, c, n), NEW f2, f2 = TakeFoot(hd, ft, c, n),
         NEW size, size = hd[c].size, NEW e, e = c + size,
         NEW ls, Holds(ls, FreeBins(hd, ars)),
         NEW f, f.chunk = c, f.bin = ListOfSize(hd[c].size)
  PROVE  /\ Holds(TakeLists(hd, ls, f, n), FreeBins(h2, ars))
         /\ Free(h2, ars) = IF Whole(hd, c, n) THEN Free(hd, ars) \ {c}
                                            ELSE (Free(hd, ars) \ {c}) \cup {c + n}
  <1> DEFINE m == c + n
             F == Free(hd, ars)
             M == FreeBins(hd, ars)
             l2 == TakeLists(hd, ls, f, n)
  <1>1. Laid(h2, f2, ars, hs) /\ \A j \in ars \ {i} : Cs(h2, j) = Cs(hd, j)
    BY TakeLaid
  <1>2. Cs(h2, i) = IF Whole(hd, c, n) THEN Cs(hd, i) ELSE Cs(hd, i) \cup {m}
    BY TakeTiles
  <1>3. /\ e \in Cs(hd, i) \cup {Sentinel(i)} /\ size \in Nat \ {0} /\ c \in Nat /\ n \in Nat /\ c < m /\ m <= e
        /\ Whole(hd, c, n) => TakenWhole(hd, ft, h2, f2, c, e)
        /\ ~Whole(hd, c, n) => TakenPart(hd, ft, h2, f2, c, m, e)
    BY TakenTags
  <1>4. c \in F /\ F \subseteq DOMAIN hd /\ DOMAIN M = F /\ M[c] = ListOfSize(size) /\ M[c] \in Bins
    <2>1. c \in F
      BY DEF Free
    <2> QED
      BY <2>1, FreeSize DEF Free, FreeBins, Cs
  <1>5. e \in DOMAIN hd /\ hd[e] \in ChunkHeaders /\ hd[c] \in ChunkHeaders /\ c # e
    BY <1>3 DEF Laid, Tiled, Typed, Cs
  <1>6. \A j \in ars : c \in Cs(hd, j) => j = i
    BY ArenasApart
  <1>7. Holds(DeleteFrom(ls, M[c], c), Without(M, {c}))
    BY <1>4, DeleteHolds
  <1>8. \A d \in DOMAIN Without(M, {c}) : Without(M, {c})[d] = M[d]
    BY DEF Without, Restrict
  <1>9. DOMAIN Without(M, {c}) = F \ {c}
    BY <1>4 DEF Without, Restrict
  <1> HIDE DEF F, M
  <1>10. \A d \in F : M[d] = ListOfSize(hd[d].size) /\ ~hd[d].used
    BY FreeSize DEF F, M
  <1>11. ASSUME Whole(hd, c, n)
         PROVE  Holds(l2, FreeBins(h2, ars)) /\ Free(h2, ars) = F \ {c}
    <2>1. \A x \in DOMAIN hd : x # c => h2[x].used = hd[x].used /\ h2[x].size = hd[x].size
      <3>1. h2[e].used = hd[e].used /\ h2[e].size = hd[e].size
        BY <1>3, <1>5, <1>11 DEF ChunkHeaders, TakenWhole
      <3> QED
        BY <1>3, <1>11, <3>1 DEF TakenWhole
    <2>2. h2[c].used
      BY <1>3, <1>5, <1>11 DEF ChunkHeaders, TakenWhole
    <2>3. \A j \in ars : Cs(h2, j) = Cs(hd, j)
      BY <1>1, <1>2, <1>11
    <2>4. \A j \in ars : Cs(hd, j) \subseteq DOMAIN hd
      BY DEF Cs
    <2>5. Free(h2, ars) = F \ {c}
      BY <2>1, <2>2, <2>3, <2>4 DEF Free, F
    <2>6. FreeBins(h2, ars) = Without(M, {c})
      <3>1. \A d \in F \ {c} : ListOfSize(h2[d].size) = ListOfSize(hd[d].size)
        BY <1>4, <2>1
      <3>2. Without(M, {c}) = [d \in F \ {c} |-> M[d]]
        BY <1>4 DEF Without, Restrict
      <3>3. FreeBins(h2, ars) = [d \in F \ {c} |-> ListOfSize(h2[d].size)]
        BY <2>5 DEF FreeBins
      <3> HIDE DEF FreeBins
      <3> QED
        BY <1>10, <3>1, <3>2, <3>3
    <2>7. l2 = DeleteFrom(ls, M[c], c)
      BY <1>4, <1>11 DEF TakeLists
    <2> QED
      BY <1>7, <2>5, <2>6, <2>7
  <1>12. ASSUME ~Whole(hd, c, n)
         PROVE  Holds(l2, FreeBins(h2, ars)) /\ Free(h2, ars) = (F \ {c}) \cup {m}
    <2> DEFINE M1 == Without(M, {c})
               l1 == DeleteFrom(ls, M[c], c)
    <2>1. \A x \in DOMAIN hd : x # c => h2[x].used = hd[x].used /\ h2[x].size = hd[x].size
      BY <1>3, <1>12 DEF TakenPart
    <2>2. h2[c].used /\ ~h2[m].used /\ h2[m].size = size - n
      <3>1. e - m = size - n
        BY <1>3
      <3> HIDE DEF m
      <3> QED
        BY <1>3, <1>12, <3>1 DEF Chunk, TakenPart
    <2>3. m \notin DOMAIN hd /\ m \in Nat /\ ChunkSize(size - n)
      <3>1. e - m = size - n /\ m \in Nat
        BY <1>3
      <3> HIDE DEF m
      <3> QED
        BY <1>3, <1>12, <3>1 DEF TakenPart
    <2>4. \A j \in ars : Cs(hd, j) \subseteq DOMAIN hd
      BY DEF Cs
    <2>5. \A j \in ars : Cs(h2, j) = IF j = i THEN Cs(hd, j) \cup {m} ELSE Cs(hd, j)
      BY <1>1, <1>2, <1>12
    <2> HIDE DEF m
    <2>6. Free(h2, ars) = (F \ {c}) \cup {m}
      <3>1. ASSUME NEW x \in Free(h2, ars) PROVE x \in (F \ {c}) \cup {m}
        <4>1. PICK j \in ars : x \in Cs(h2, j) /\ ~h2[x].used
          BY DEF Free
        <4> QED
          BY <2>1, <2>2, <2>4, <2>5, <4>1 DEF Free, F
      <3>2. m \in Free(h2, ars)
        BY <2>2, <2>5 DEF Free
      <3>3. ASSUME NEW x \in F \ {c} PROVE x \in Free(h2, ars)
        <4>1. PICK j \in ars : x \in Cs(hd, j) /\ ~hd[x].used
          BY DEF Free, F
        <4>2. x \in Cs(h2, j) /\ ~h2[x].used
          BY <2>1, <2>4, <2>5, <4>1
        <4> QED
          BY <4>2 DEF Free
      <3> QED
        BY <3>1, <3>2, <3>3
    <2>7. m \notin DOMAIN M1
      BY <1>4, <1>9, <2>3
    <2>8. Holds(AddChunk(l1, m, size - n), Put(M1, m, ListOfSize(size - n)))
      <3> HIDE DEF M1, l1
      <3>1. Holds(l1, M1)
        BY <1>7 DEF M1, l1
      <3> QED
        BY <2>3, <2>7, <3>1, AddHolds
    <2>9. FreeBins(h2, ars) = Put(M1, m, ListOfSize(size - n))
      <3> DEFINE D == (F \ {c}) \cup {m}
                 P == Put(M1, m, ListOfSize(size - n))
      <3>1. FreeBins(h2, ars) = [d \in D |-> ListOfSize(h2[d].size)]
        BY <2>6 DEF FreeBins
      <3>2. P = [d \in D |-> IF d = m THEN ListOfSize(size - n) ELSE M1[d]]
        BY <1>9 DEF Put
      <3>3. \A d \in D : ListOfSize(h2[d].size) = IF d = m THEN ListOfSize(size - n) ELSE M1[d]
        <4>1. \A d \in F \ {c} : M1[d] = ListOfSize(hd[d].size) /\ h2[d].size = hd[d].size
          BY <1>4, <1>8, <1>9, <1>10, <2>1
        <4> HIDE DEF M1
        <4> QED
          BY <2>2, <4>1
      <3> HIDE DEF D, P, M1
      <3> QED
        BY <3>1, <3>2, <3>3 DEF P
    <2>10. l2 = AddChunk(l1, m, size - n)
      BY <1>4, <1>12 DEF TakeLists, m
    <2> QED
      BY <2>6, <2>8, <2>9, <2>10
  <1> QED
    BY <1>11, <1>12, Zenon DEF F, m

-----------------------------------------------------------------------------
(* The search for a chunk.                                                 *)

\* The smallest number of a set, as the searches use it.
LEMMA LeastOf ==
  ASSUME NEW S \in SUBSET Nat, S # {}
  PROVE  Min(S) \in S /\ \A x \in S : Min(S) <= x
  <1>1. \E n \in S : \A m \in S : n <= m
    BY LeastNat
  <1> QED
    BY <1>1, Zenon DEF Min

\* The best of a bin is in it, large enough, and no other that is large enough is
\* smaller.
LEMMA BestOfBin ==
  ASSUME NEW hd, NEW ls, NEW b, ls[b] \in Seq(Nat), NEW n \in Nat,
         \A c \in Elements(ls[b]) : hd[c].size \in Nat, Fits(hd, ls, b, n) # {},
         NEW best, best = BestIn(hd, ls, b, n)
  PROVE  /\ best \in Elements(ls[b]) /\ n <= hd[best].size
         /\ \A d \in Elements(ls[b]) : n <= hd[d].size => hd[best].size <= hd[d].size
  <1> DEFINE s == ls[b]
             fits == {k \in DOMAIN s : n <= hd[s[k]].size}
             size(k) == hd[s[k]].size
             sizes == {size(k) : k \in fits}
             least == {k \in fits : \A j \in fits : size(k) <= size(j)}
  <1>1. fits # {} /\ DOMAIN s \in SUBSET Nat
    BY LenProperties DEF Fits
  <1>2. \A k \in DOMAIN s : size(k) \in Nat
    BY DEF Elements
  <1>3. sizes \in SUBSET Nat /\ sizes # {}
    BY <1>1, <1>2
  <1>4. PICK k0 \in fits : \A j \in fits : size(k0) <= size(j)
    <2>1. PICK z \in sizes : \A y \in sizes : z <= y
      BY <1>3, LeastNat
    <2> QED
      BY <2>1
  <1>5. least \in SUBSET Nat /\ least # {}
    BY <1>1, <1>4
  <1>6. Min(least) \in least
    BY <1>5, LeastOf
  <1>7. best = s[Min(least)]
    BY Zenon DEF BestIn, Fits
  <1>8. \A d \in Elements(s) : n <= hd[d].size => \E j \in fits : d = s[j]
    BY DEF Elements
  <1> QED
    BY <1>6, <1>7, <1>8 DEF Elements

\* Chunk f.chunk of F is the smallest in F with n bytes, and f.bin is its bin.
Best(hd, F, f, n) ==
    /\ f.chunk \in F /\ n <= hd[f.chunk].size
    /\ f.bin = ListOfSize(hd[f.chunk].size)
    /\ \A d \in F : n <= hd[d].size => hd[f.chunk].size <= hd[d].size

\* find_large_chunk finds the best of the large chunks.
LEMMA LargeBest ==
  ASSUME NEW hd, NEW ft, NEW ars, NEW hs, Laid(hd, ft, ars, hs),
         NEW ls, Holds(ls, FreeBins(hd, ars)), NEW n, ChunkSize(n),
         NEW f, f = FindLarge(hd, ls, n),
         NEW F, F = {c \in Free(hd, ars) : MAX_SMALL_SIZE < hd[c].size}
  PROVE  /\ f # NoChunk => Best(hd, F, f, n)
         /\ f = NoChunk => \A d \in F : hd[d].size < n
  <1> DEFINE M == FreeBins(hd, ars)
             bin(i) == <<"large", i>>
             found == {i \in LargeIndex(n) .. LARGE_NUM - 1 : Fits(hd, ls, bin(i), n) # {}}
  <1>1. n \in Nat /\ LargeIndex(n) \in 0 .. LARGE_NUM - 1 /\ LARGE_NUM \in Nat
    BY LargeRange, Constants DEF ChunkSize
  <1>2. \A i \in 0 .. LARGE_NUM - 1 : bin(i) \in Bins
    BY DEF Bins, LargeBins
  <1>3. \A c \in DOMAIN M : c \in Free(hd, ars) /\ hd[c].size \in Nat /\ ChunkSize(hd[c].size) /\ M[c] = ListOfSize(hd[c].size)
    BY FreeSize DEF FreeBins, ChunkSize
  <1>4. DOMAIN M = Free(hd, ars)
    BY DEF FreeBins
  <1> HIDE DEF M
  <1>5. \A b \in Bins : ls[b] \in Seq(Nat) /\ Elements(ls[b]) = {c \in DOMAIN M : M[c] = b}
    BY DEF Holds, M
  <1>6. \A c \in DOMAIN M : /\ MAX_SMALL_SIZE < hd[c].size => M[c] = bin(LargeIndex(hd[c].size)) /\ LargeIndex(hd[c].size) \in 0 .. LARGE_NUM - 1
                            /\ ~(MAX_SMALL_SIZE < hd[c].size) => M[c] = <<"small", Size2Index(hd[c].size)>>
    <2> SUFFICES ASSUME NEW c \in DOMAIN M
                 PROVE  /\ MAX_SMALL_SIZE < hd[c].size => M[c] = bin(LargeIndex(hd[c].size)) /\ LargeIndex(hd[c].size) \in 0 .. LARGE_NUM - 1
                        /\ ~(MAX_SMALL_SIZE < hd[c].size) => M[c] = <<"small", Size2Index(hd[c].size)>>
      OBVIOUS
    <2>1. ChunkSize(hd[c].size) /\ hd[c].size \in Nat /\ M[c] = ListOfSize(hd[c].size)
      BY <1>3
    <2>2. LargeIndex(hd[c].size) \in 0 .. LARGE_NUM - 1
      BY <2>1, LargeRange
    <2> QED
      BY <2>1, <2>2, Zenon DEF ListOfSize
  <1>7. \A d \in F : /\ d \in DOMAIN M /\ hd[d].size \in Nat
                     /\ LargeIndex(hd[d].size) \in 0 .. LARGE_NUM - 1
                     /\ bin(LargeIndex(hd[d].size)) \in Bins
                     /\ d \in Elements(ls[bin(LargeIndex(hd[d].size))])
    BY <1>2, <1>3, <1>4, <1>5, <1>6
  <1>8. \A i \in 0 .. LARGE_NUM - 1 : \A d \in Elements(ls[bin(i)]) :
           d \in F /\ LargeIndex(hd[d].size) = i /\ M[d] = bin(i)
    <2> SUFFICES ASSUME NEW i \in 0 .. LARGE_NUM - 1, NEW d \in Elements(ls[bin(i)])
                 PROVE  d \in F /\ LargeIndex(hd[d].size) = i /\ M[d] = bin(i)
      OBVIOUS
    <2>1. d \in DOMAIN M /\ M[d] = bin(i)
      BY <1>2, <1>5
    <2>2. MAX_SMALL_SIZE < hd[d].size
      BY <1>6, <2>1
    <2> QED
      BY <1>4, <1>6, <2>1, <2>2
  <1>9. \A i \in 0 .. LARGE_NUM - 1 : \A d \in Elements(ls[bin(i)]) : n <= hd[d].size => Fits(hd, ls, bin(i), n) # {}
    BY DEF Elements, Fits
  <1>10. \A d \in F : n <= hd[d].size => LargeIndex(hd[d].size) \in found
    <2> SUFFICES ASSUME NEW d \in F, n <= hd[d].size PROVE LargeIndex(hd[d].size) \in found
      OBVIOUS
    <2> DEFINE i == LargeIndex(hd[d].size)
    <2>1. LargeIndex(n) <= i
      BY <1>1, <1>7, LargeMonotone
    <2>2. i \in 0 .. LARGE_NUM - 1 /\ d \in Elements(ls[bin(i)])
      BY <1>7
    <2>3. Fits(hd, ls, bin(i), n) # {}
      BY <1>9, <2>2
    <2> HIDE DEF i
    <2>4. i \in LargeIndex(n) .. LARGE_NUM - 1
      BY <1>1, <2>1, <2>2
    <2>5. i \in found
      BY <2>3, <2>4
    <2> QED
      BY <2>5 DEF i
  <1>11. f = IF found = {} THEN NoChunk
             ELSE [bin |-> bin(Min(found)), chunk |-> BestIn(hd, ls, bin(Min(found)), n)]
    BY Zenon DEF FindLarge
  <1>12. ASSUME found = {} PROVE f = NoChunk /\ \A d \in F : hd[d].size < n
    <2> HIDE DEF found, bin
    <2>1. \A d \in F : ~(n <= hd[d].size)
      BY <1>10, <1>12
    <2> QED
      BY <1>1, <1>7, <1>11, <1>12, <2>1
  <1>13. ASSUME found # {} PROVE f # NoChunk /\ Best(hd, F, f, n)
    <2> DEFINE i == Min(found)
               best == BestIn(hd, ls, bin(i), n)
    <2>1. found \in SUBSET Nat
      BY <1>1
    <2>2. i \in found /\ \A j \in found : i <= j
      BY <1>13, <2>1, LeastOf
    <2> HIDE DEF i
    <2>3. i \in 0 .. LARGE_NUM - 1 /\ Fits(hd, ls, bin(i), n) # {}
      BY <1>1, <2>2
    <2>4. bin(i) \in Bins /\ ls[bin(i)] \in Seq(Nat)
      BY <1>2, <1>5, <2>3
    <2>5. \A c \in Elements(ls[bin(i)]) : hd[c].size \in Nat
      BY <1>7, <1>8, <2>3
    <2> HIDE DEF found, bin
    <2>6. /\ best \in Elements(ls[bin(i)]) /\ n <= hd[best].size
          /\ \A d \in Elements(ls[bin(i)]) : n <= hd[d].size => hd[best].size <= hd[d].size
      BY <1>1, <2>3, <2>4, <2>5, BestOfBin
    <2>7. f = [bin |-> bin(i), chunk |-> best]
      BY <1>11, <1>13 DEF i
    <2> HIDE DEF best
    <2>8. best \in F /\ best \in DOMAIN M /\ bin(i) = ListOfSize(hd[best].size) /\ LargeIndex(hd[best].size) = i
          /\ hd[best].size \in Nat
      BY <1>3, <1>7, <1>8, <2>3, <2>6
    <2>9. best \in Nat
      BY <1>4, <2>8, FreeSize
    <2>10. f # NoChunk
      BY <2>4, <2>7, <2>9, MappingAssumption
    <2>11. ASSUME NEW d \in F, n <= hd[d].size PROVE hd[best].size <= hd[d].size
      <3> DEFINE j == LargeIndex(hd[d].size)
      <3>1. i <= j /\ j \in 0 .. LARGE_NUM - 1 /\ hd[d].size \in Nat /\ d \in Elements(ls[bin(j)])
        BY <1>7, <1>10, <2>2, <2>11 DEF bin
      <3>2. CASE j = i
        BY <2>6, <2>11, <3>1, <3>2
      <3>3. CASE i < j
        <4>1. ~(hd[d].size <= hd[best].size)
          <5> SUFFICES ASSUME hd[d].size <= hd[best].size PROVE FALSE
            OBVIOUS
          <5>1. LargeIndex(hd[d].size) <= LargeIndex(hd[best].size)
            BY <2>8, <3>1, LargeMonotone
          <5> QED
            BY <2>3, <2>8, <3>1, <3>3, <5>1
        <4> QED
          BY <2>8, <3>1, <4>1
      <3> HIDE DEF j
      <3> QED
        BY <2>3, <3>1, <3>2, <3>3
    <2> QED
      BY <2>6, <2>7, <2>8, <2>10, <2>11 DEF Best
  <1> QED
    BY <1>12, <1>13

\* find_best_chunk finds the best of the free chunks, or none is large enough.
LEMMA FindsBest ==
  ASSUME NEW hd, NEW ft, NEW ars, NEW hs, Laid(hd, ft, ars, hs),
         NEW ls, Holds(ls, FreeBins(hd, ars)), NEW n, ChunkSize(n),
         NEW f, f = FindBestChunk(hd, ls, n)
  PROVE  /\ f # NoChunk => Best(hd, Free(hd, ars), f, n)
         /\ f = NoChunk => \A d \in Free(hd, ars) : hd[d].size < n
  <1> DEFINE F == Free(hd, ars)
             L == {c \in F : MAX_SMALL_SIZE < hd[c].size}
             g == FindLarge(hd, ls, n)
             M == FreeBins(hd, ars)
             bin(i) == <<"small", i>>
             found == {i \in Size2Index(n) .. SMALL_NUM - 1 : ls[bin(i)] # <<>>}
  <1>1. /\ g # NoChunk => Best(hd, L, g, n)
        /\ g = NoChunk => \A d \in L : hd[d].size < n
    BY LargeBest
  <1>2. n \in Nat /\ MAX_SMALL_SIZE \in Nat
    BY Constants DEF ChunkSize
  <1>3. \A c \in F : hd[c].size \in Nat /\ ChunkSize(hd[c].size) /\ c \in Nat /\ M[c] = ListOfSize(hd[c].size)
    BY FreeSize DEF ChunkSize
  <1>4. DOMAIN M = F
    BY DEF FreeBins
  <1>5. \A b \in Bins : ls[b] \in Seq(Nat) /\ Elements(ls[b]) = {c \in DOMAIN M : M[c] = b}
    BY DEF Holds
  <1> HIDE DEF F, M, g
  <1>6. CASE MAX_SMALL_SIZE < n
    <2>1. f = g
      BY <1>6 DEF FindBestChunk, g
    <2>2. \A d \in F : n <= hd[d].size => d \in L
      BY <1>2, <1>3, <1>6
    <2>3. g # NoChunk => Best(hd, F, g, n)
      BY <1>1, <2>2 DEF Best
    <2>4. g = NoChunk => \A d \in F : hd[d].size < n
      BY <1>1, <1>2, <1>3, <2>2
    <2> QED
      BY <2>1, <2>3, <2>4 DEF F
  <1>7. CASE ~(MAX_SMALL_SIZE < n)
    <2>1. f = IF found = {} THEN g ELSE [bin |-> bin(Min(found)), chunk |-> Head(ls[bin(Min(found))])]
      BY <1>7, Zenon DEF FindBestChunk, FindSmall, g
    <2>2. SMALL_NUM \in Nat /\ Size2Index(n) \in 0 .. SMALL_NUM - 1
      BY <1>2, <1>7, SmallNum
    <2>3. \A i \in 0 .. SMALL_NUM - 1 : bin(i) \in Bins
      BY DEF Bins, SmallBins
    <2>4. \A i \in 0 .. SMALL_NUM - 1 : \A d \in Elements(ls[bin(i)]) :
             d \in F /\ M[d] = bin(i) /\ hd[d].size <= MAX_SMALL_SIZE /\ Size2Index(hd[d].size) = i
      <3> SUFFICES ASSUME NEW i \in 0 .. SMALL_NUM - 1, NEW d \in Elements(ls[bin(i)])
                   PROVE  d \in F /\ M[d] = bin(i) /\ hd[d].size <= MAX_SMALL_SIZE /\ Size2Index(hd[d].size) = i
        OBVIOUS
      <3>1. d \in F /\ M[d] = bin(i)
        BY <1>4, <1>5, <2>3
      <3>2. M[d] = ListOfSize(hd[d].size) /\ hd[d].size \in Nat
        BY <1>3, <3>1
      <3>3. ~(MAX_SMALL_SIZE < hd[d].size)
        <4> SUFFICES ASSUME MAX_SMALL_SIZE < hd[d].size PROVE FALSE
          OBVIOUS
        <4>1. ListOfSize(hd[d].size) = <<"large", LargeIndex(hd[d].size)>>
          BY Zenon DEF ListOfSize
        <4>2. <<"large", LargeIndex(hd[d].size)>> = <<"small", i>>
          BY <3>1, <3>2, <4>1
        <4> QED
          BY <4>2
      <3>4. ListOfSize(hd[d].size) = <<"small", Size2Index(hd[d].size)>>
        BY <3>3, Zenon DEF ListOfSize
      <3>5. <<"small", Size2Index(hd[d].size)>> = <<"small", i>>
        BY <3>1, <3>2, <3>4
      <3> QED
        BY <1>2, <3>1, <3>2, <3>3, <3>5
    <2>5. \A d \in F : n <= hd[d].size /\ hd[d].size <= MAX_SMALL_SIZE => Size2Index(hd[d].size) \in found
      <3> SUFFICES ASSUME NEW d \in F, n <= hd[d].size, hd[d].size <= MAX_SMALL_SIZE
                   PROVE  Size2Index(hd[d].size) \in found
        OBVIOUS
      <3> DEFINE i == Size2Index(hd[d].size)
      <3>1. ChunkSize(hd[d].size)
        BY <1>3
      <3>2. i \in 0 .. SMALL_NUM - 1 /\ Size2Index(n) <= i
        BY <3>1, SmallNum, SmallIndex
      <3>3. M[d] = bin(i)
        BY <1>3, <3>1, BinOfSize
      <3>4. bin(i) \in Bins /\ d \in Elements(ls[bin(i)])
        BY <1>4, <1>5, <2>3, <3>2, <3>3
      <3>5. ls[bin(i)] # <<>>
        BY <3>4 DEF Elements
      <3> HIDE DEF i
      <3>6. i \in found
        BY <2>2, <3>2, <3>5
      <3> QED
        BY <3>6 DEF i
    <2>6. CASE found = {}
      <3>1. f = g
        BY <2>1, <2>6
      <3>2. \A d \in F : n <= hd[d].size => d \in L
        <4> HIDE DEF found
        <4>1. \A d \in F : ~(n <= hd[d].size /\ hd[d].size <= MAX_SMALL_SIZE)
          BY <2>5, <2>6
        <4> QED
          BY <1>2, <1>3, <4>1
      <3>3. g # NoChunk => Best(hd, F, g, n)
        BY <1>1, <3>2 DEF Best
      <3>4. g = NoChunk => \A d \in F : hd[d].size < n
        BY <1>1, <1>2, <1>3, <3>2
      <3> QED
        BY <3>1, <3>3, <3>4 DEF F
    <2>7. CASE found # {}
      <3> DEFINE i == Min(found)
                 best == Head(ls[bin(i)])
      <3>1. found \in SUBSET Nat
        BY <2>2
      <3>2. i \in found /\ \A j \in found : i <= j
        BY <2>7, <3>1, LeastOf
      <3>3. f = [bin |-> bin(i), chunk |-> best]
        BY <2>1, <2>7
      <3> HIDE DEF i
      <3>4. i \in 0 .. SMALL_NUM - 1 /\ Size2Index(n) <= i /\ ls[bin(i)] # <<>>
        BY <2>2, <3>2
      <3>5. ls[bin(i)] \in Seq(Nat) /\ bin(i) \in Bins
        BY <1>5, <2>3, <3>4
      <3>6. best \in Elements(ls[bin(i)])
        BY <3>4, <3>5, LenProperties, SMTT(30) DEF Elements
      <3> HIDE DEF best
      <3>7. best \in F /\ M[best] = bin(i) /\ hd[best].size <= MAX_SMALL_SIZE /\ Size2Index(hd[best].size) = i
        BY <2>4, <3>4, <3>6
      <3>8. hd[best].size \in Nat /\ ChunkSize(hd[best].size) /\ best \in Nat /\ bin(i) = ListOfSize(hd[best].size)
        BY <1>3, <3>7
      <3> HIDE DEF found, bin
      <3>9. f # NoChunk
        BY <3>3, <3>5, <3>8, MappingAssumption
      <3>10. n <= hd[best].size
        <4>1. ~(hd[best].size < n)
          BY <2>2, <3>4, <3>7, <3>8, SmallIndex
        <4> QED
          BY <1>2, <3>8, <4>1
      <3>11. ASSUME NEW d \in F, n <= hd[d].size PROVE hd[best].size <= hd[d].size
        <4>1. hd[d].size \in Nat /\ ChunkSize(hd[d].size)
          BY <1>3
        <4>2. CASE MAX_SMALL_SIZE < hd[d].size
          BY <1>2, <3>7, <3>8, <4>1, <4>2
        <4>3. CASE ~(MAX_SMALL_SIZE < hd[d].size)
          <5>1. i <= Size2Index(hd[d].size)
            BY <1>2, <2>5, <3>2, <3>11, <4>1, <4>3
          <5>2. ~(hd[d].size < hd[best].size)
            <6> SUFFICES ASSUME hd[d].size < hd[best].size PROVE FALSE
              OBVIOUS
            <6>1. Size2Index(hd[d].size) < Size2Index(hd[best].size) /\ Size2Index(hd[d].size) \in Nat
              BY <3>8, <4>1, SmallIndex
            <6> QED
              BY <3>4, <3>7, <5>1, <6>1
          <5> QED
            BY <3>8, <4>1, <5>2
        <4> QED
          BY <4>2, <4>3
      <3>12. Best(hd, F, f, n)
        BY <3>3, <3>7, <3>8, <3>10, <3>11 DEF Best
      <3> QED
        BY <3>9, <3>12 DEF F
    <2> QED
      BY <2>6, <2>7
  <1> QED
    BY <1>6, <1>7

-----------------------------------------------------------------------------
(* New mappings.                                                           *)

\* Memory that is the same in the mappings of the arenas ars, but for their first
\* addresses, has the same chunks there.
LEMMA SameArenas ==
  ASSUME NEW hd, NEW ft, NEW ars, NEW hs, Laid(hd, ft, ars, hs), NEW h2, NEW f2, Typed(h2, f2),
         \A i \in ars : \A x \in Nat : InMap(i, x) /\ x # Base(i) =>
            /\ x \in DOMAIN h2 <=> x \in DOMAIN hd
            /\ x \in DOMAIN hd => h2[x] = hd[x]
            /\ x \in DOMAIN ft => x \in DOMAIN f2 /\ f2[x] = ft[x]
  PROVE  /\ \A i \in ars : Tiled(h2, f2, i) /\ Cs(h2, i) = Cs(hd, i)
         /\ \A i \in ars : \A x \in Cs(hd, i) \cup {Sentinel(i)} : x \in DOMAIN h2 /\ h2[x] = hd[x]
         /\ Free(h2, ars) = Free(hd, ars) /\ FreeBins(h2, ars) = FreeBins(hd, ars)
  <1>1. Typed(hd, ft) /\ \A i \in ars : i \in Slots /\ Tiled(hd, ft, i)
    BY DEF Laid
  <1>2. \A i \in ars : \A x \in Nat : FirstChunk(i) <= x /\ x <= Sentinel(i) => InMap(i, x) /\ x # Base(i)
    BY <1>1, ArenaAddresses
  <1>3. ASSUME NEW i \in ars PROVE Tiled(h2, f2, i) /\ Cs(h2, i) = Cs(hd, i)
    BY <1>1, <1>2, SameArena
  <1>4. ASSUME NEW i \in ars, NEW x \in Cs(hd, i) \cup {Sentinel(i)} PROVE x \in DOMAIN h2 /\ h2[x] = hd[x]
    <2>1. x \in Nat /\ InMap(i, x) /\ x # Base(i)
      BY <1>1, ChunkInMap
    <2>2. x \in DOMAIN hd
      BY <1>1 DEF Cs, Tiled
    <2> QED
      BY <2>1, <2>2
  <1>5. Free(h2, ars) = Free(hd, ars) /\ \A a \in Free(hd, ars) : h2[a] = hd[a]
    BY <1>3, <1>4 DEF Free
  <1>6. FreeBins(h2, ars) = FreeBins(hd, ars)
    <2> DEFINE F == Free(hd, ars)
    <2>1. /\ FreeBins(h2, ars) = [a \in F |-> ListOfSize(h2[a].size)]
          /\ FreeBins(hd, ars) = [a \in F |-> ListOfSize(hd[a].size)]
      BY <1>5 DEF FreeBins
    <2>2. \A a \in F : ListOfSize(h2[a].size) = ListOfSize(hd[a].size)
      BY <1>5
    <2> HIDE DEF F
    <2> QED
      BY <2>1, <2>2
  <1> QED
    BY <1>3, <1>4, <1>5, <1>6

\* There is no header where nothing is mapped.
LEMMA UnmappedEmpty ==
  ASSUME NEW hd, NEW ft, NEW ars, NEW hs, Laid(hd, ft, ars, hs),
         NEW i \in Slots, i \notin ars, i \notin hs, NEW x \in DOMAIN hd
  PROVE  ~InMap(i, x)
  <1>1. Typed(hd, ft) /\ ars \subseteq Slots /\ hs \subseteq Slots /\ Placed(hd, x, ars, hs)
    BY DEF Laid
  <1>2. ASSUME NEW j \in ars, x \in Cs(hd, j) \cup {Sentinel(j)} PROVE ~InMap(i, x)
    BY <1>1, <1>2, ChunkInMap, OneMap
  <1>3. ASSUME NEW j \in hs, x = Base(j) PROVE ~InMap(i, x)
    BY <1>1, <1>3, ArenaAddresses, OneMap
  <1> QED
    BY <1>1, <1>2, <1>3 DEF Placed

\* Memory and bins with no arena at all.
LEMMA NoArenas ==
  /\ Laid(<<>>, <<>>, {}, {})
  /\ Holds(NoLists, FreeBins(<<>>, {}))
  <1>1. DOMAIN <<>> = {}
    OBVIOUS
  <1>2. Laid(<<>>, <<>>, {}, {})
    BY <1>1 DEF Laid, Typed
  <1>3. DOMAIN FreeBins(<<>>, {}) = {}
    BY DEF FreeBins, Free
  <1>4. NoLists \in [Bins -> Seq(Nat)] /\ \A b \in Bins : NoLists[b] = <<>>
    BY DEF NoLists
  <1>5. IsInjective(<<>>) /\ Elements(<<>>) = {}
    BY DEF IsInjective, Elements
  <1> QED
    BY <1>2, <1>3, <1>4, <1>5 DEF Holds

\* alloc_arena: the new arena is one free chunk.
LEMMA ArenaTiles ==
  ASSUME NEW hd, NEW ft, NEW ars, NEW hs, Laid(hd, ft, ars, hs), NEW i \in Slots, i \notin ars, i \notin hs,
         NEW h2, h2 = ArenaHead(hd, i), NEW f2, f2 = ArenaFoot(ft, i)
  PROVE  /\ Laid(h2, f2, ars \cup {i}, hs)
         /\ Cs(h2, i) = {FirstChunk(i)} /\ ~h2[FirstChunk(i)].used /\ h2[FirstChunk(i)].size = Limit
         /\ \A x \in DOMAIN hd : x \in DOMAIN h2 /\ h2[x] = hd[x]
         /\ FirstChunk(i) \notin DOMAIN hd
         /\ \A j \in ars : Cs(h2, j) = Cs(hd, j)
         /\ FreeBins(h2, ars) = FreeBins(hd, ars) /\ Free(h2, ars) = Free(hd, ars)
  <1> DEFINE c == FirstChunk(i)
             e == Sentinel(i)
  <1>1. Typed(hd, ft) /\ ars \subseteq Slots /\ hs \subseteq Slots /\ ars \cap hs = {}
    BY DEF Laid
  <1>2. /\ c \in Nat /\ e \in Nat /\ e = c + Limit /\ c < e /\ Limit \in Nat /\ ChunkSize(Limit)
        /\ InMap(i, c) /\ InMap(i, e) /\ \A x \in Nat : c <= x /\ x <= e => InMap(i, x)
    BY ArenaAddresses, LimitSize DEF ChunkSize
  <1>3. \A x \in DOMAIN hd : ~InMap(i, x) /\ x \in Nat
    BY <1>1, UnmappedEmpty DEF Typed
  <1> HIDE DEF c, e
  <1>4. /\ DOMAIN h2 = DOMAIN hd \cup {c, e}
        /\ h2[c] = Chunk(TRUE, Limit, FALSE) /\ h2[e] = Chunk(FALSE, 0, TRUE)
        /\ \A x \in DOMAIN hd : h2[x] = hd[x]
    <2>1. c \notin DOMAIN hd /\ e \notin DOMAIN hd /\ c # e
      BY <1>2, <1>3
    <2> DEFINE g == Put(hd, c, Chunk(TRUE, Limit, FALSE))
    <2>2. h2 = Put(g, e, Chunk(FALSE, 0, TRUE))
      BY DEF ArenaHead, c, e
    <2>3. DOMAIN g = DOMAIN hd \cup {c} /\ g[c] = Chunk(TRUE, Limit, FALSE) /\ \A x \in DOMAIN hd : g[x] = hd[x]
      BY <2>1 DEF Put
    <2> HIDE DEF g
    <2>4. DOMAIN h2 = DOMAIN g \cup {e} /\ h2[e] = Chunk(FALSE, 0, TRUE) /\ \A x \in DOMAIN g \ {e} : h2[x] = g[x]
      BY <2>2 DEF Put
    <2> QED
      BY <2>1, <2>3, <2>4
  <1>5. DOMAIN f2 = DOMAIN ft \cup {e} /\ f2[e] = Limit /\ \A x \in DOMAIN ft \ {e} : f2[x] = ft[x]
    BY DEF ArenaFoot, Put, e
  <1>6. /\ h2[c].prev_used /\ h2[c].size = Limit /\ ~h2[c].used /\ h2[c] \in ChunkHeaders
        /\ ~h2[e].prev_used /\ h2[e].used /\ h2[e] \in ChunkHeaders
    BY <1>2, <1>4 DEF Chunk, ChunkHeaders
  <1>7. Typed(h2, f2)
    BY <1>1, <1>2, <1>4, <1>5, <1>6, ZenonT(60) DEF Typed
  <1>8. Cs(h2, i) = {c}
    BY <1>2, <1>3, <1>4 DEF Cs, c, e
  <1>9. Tiled(h2, f2, i)
    <2>1. /\ c \in Cs(h2, i) /\ h2[c].prev_used /\ e \in DOMAIN h2 /\ h2[e].used
      BY <1>4, <1>6, <1>8
    <2>2. /\ ChunkSize(h2[c].size) /\ c + h2[c].size = e /\ h2[e].prev_used = h2[c].used
          /\ e \in DOMAIN f2 /\ f2[e] = h2[c].size
      BY <1>2, <1>4, <1>5, <1>6 DEF ChunkHeaders
    <2>3. \A a \in Cs(h2, i) : a = c /\ a <= c
      BY <1>2, <1>8
    <2> QED
      BY <1>6, <2>1, <2>2, <2>3 DEF Tiled, c, e
  <1>10. \A j \in ars : \A x \in Nat : InMap(j, x) /\ x # Base(j) =>
            /\ x \in DOMAIN h2 <=> x \in DOMAIN hd
            /\ x \in DOMAIN hd => h2[x] = hd[x]
            /\ x \in DOMAIN ft => x \in DOMAIN f2 /\ f2[x] = ft[x]
    <2> SUFFICES ASSUME NEW j \in ars, NEW x \in Nat, InMap(j, x)
                 PROVE  /\ x \in DOMAIN h2 <=> x \in DOMAIN hd
                        /\ x \in DOMAIN hd => h2[x] = hd[x]
                        /\ x \in DOMAIN ft => x \in DOMAIN f2 /\ f2[x] = ft[x]
      OBVIOUS
    <2>1. x # c /\ x # e
      BY <1>1, <1>2, OneMap
    <2> QED
      BY <1>4, <1>5, <2>1
  <1>11. /\ \A j \in ars : Tiled(h2, f2, j) /\ Cs(h2, j) = Cs(hd, j)
         /\ Free(h2, ars) = Free(hd, ars) /\ FreeBins(h2, ars) = FreeBins(hd, ars)
    BY <1>7, <1>10, SameArenas
  <1>12. ASSUME NEW a \in DOMAIN h2 PROVE Placed(h2, a, ars \cup {i}, hs)
    <2>1. CASE a = c \/ a = e
      BY <1>8, <2>1 DEF Placed, e
    <2>2. CASE a \in DOMAIN hd
      <3>1. Placed(hd, a, ars, hs) /\ h2[a] = hd[a]
        BY <1>4, <2>2 DEF Laid
      <3> QED
        BY <1>11, <3>1 DEF Placed
    <2> QED
      BY <1>4, <2>1, <2>2
  <1>13. Laid(h2, f2, ars \cup {i}, hs)
    BY <1>1, <1>7, <1>9, <1>11, <1>12 DEF Laid
  <1> QED
    BY <1>2, <1>3, <1>4, <1>6, <1>8, <1>11, <1>13 DEF c

\* alloc_arena puts the arena's one chunk into its bin.
LEMMA ArenaHolds ==
  ASSUME NEW hd, NEW ft, NEW ars, NEW hs, Laid(hd, ft, ars, hs), NEW i \in Slots, i \notin ars, i \notin hs,
         NEW h2, h2 = ArenaHead(hd, i), NEW f2, f2 = ArenaFoot(ft, i),
         NEW ls, Holds(ls, FreeBins(hd, ars))
  PROVE  /\ Holds(AddChunk(ls, FirstChunk(i), Limit), FreeBins(h2, ars \cup {i}))
         /\ Free(h2, ars \cup {i}) = Free(hd, ars) \cup {FirstChunk(i)}
  <1> DEFINE c == FirstChunk(i)
             M == FreeBins(hd, ars)
             F == Free(hd, ars)
  <1>1. /\ Cs(h2, i) = {c} /\ ~h2[c].used /\ h2[c].size = Limit
        /\ \A x \in DOMAIN hd : x \in DOMAIN h2 /\ h2[x] = hd[x]
        /\ c \notin DOMAIN hd
        /\ Free(h2, ars) = F
    <2>1. Laid(h2, f2, ars \cup {i}, hs)
      BY ArenaTiles
    <2>2. Cs(h2, i) = {FirstChunk(i)} /\ ~h2[FirstChunk(i)].used /\ h2[FirstChunk(i)].size = Limit
      BY <2>1, ArenaTiles
    <2>3. \A x \in DOMAIN hd : x \in DOMAIN h2 /\ h2[x] = hd[x]
      BY <2>1, ArenaTiles
    <2>4. FirstChunk(i) \notin DOMAIN hd /\ Free(h2, ars) = Free(hd, ars)
      BY <2>1, ArenaTiles
    <2> QED
      BY <2>2, <2>3, <2>4
  <1>3. Free(h2, ars \cup {i}) = F \cup {c}
    <2>1. Free(h2, ars \cup {i}) = Free(h2, ars) \cup {a \in Cs(h2, i) : ~h2[a].used}
      BY DEF Free
    <2> QED
      BY <1>1, <2>1
  <1>4. \A d \in F : d \in DOMAIN hd /\ M[d] = ListOfSize(hd[d].size)
    BY FreeSize
  <1>5. c \notin DOMAIN M /\ DOMAIN M = F
    BY <1>1, <1>4 DEF FreeBins
  <1>6. c \in Nat /\ ChunkSize(Limit)
    BY ArenaAddresses, LimitSize
  <1>7. Holds(AddChunk(ls, c, Limit), Put(M, c, ListOfSize(Limit)))
    BY <1>5, <1>6, AddHolds
  <1>8. FreeBins(h2, ars \cup {i}) = Put(M, c, ListOfSize(Limit))
    <2> DEFINE D == F \cup {c}
               P == Put(M, c, ListOfSize(Limit))
    <2>1. FreeBins(h2, ars \cup {i}) = [d \in D |-> ListOfSize(h2[d].size)]
      BY <1>3 DEF FreeBins
    <2>2. P = [d \in D |-> IF d = c THEN ListOfSize(Limit) ELSE M[d]]
      BY <1>5 DEF Put
    <2>3. \A d \in D : ListOfSize(h2[d].size) = IF d = c THEN ListOfSize(Limit) ELSE M[d]
      BY <1>1, <1>4
    <2> HIDE DEF D, P, M
    <2> QED
      BY <2>1, <2>2, <2>3 DEF P
  <1> QED
    BY <1>3, <1>7, <1>8

\* alloc_huge: the headers with that of a huge chunk of n bytes in mapping i.
HugeHead(hd, i, n) == Put(hd, Base(i), Chunk(FALSE, n, TRUE))

\* alloc_huge: a header at the start of a mapping of its own.
LEMMA HugeLaid ==
  ASSUME NEW hd, NEW ft, NEW ars, NEW hs, Laid(hd, ft, ars, hs), NEW i \in Slots, i \notin ars, i \notin hs,
         NEW n \in Nat, NEW h2, h2 = HugeHead(hd, i, n)
  PROVE  /\ Laid(h2, ft, ars, hs \cup {i})
         /\ Base(i) \notin DOMAIN hd
         /\ DOMAIN h2 = DOMAIN hd \cup {Base(i)}
         /\ h2[Base(i)].size = n /\ h2[Base(i)].used
         /\ \A x \in DOMAIN hd : h2[x] = hd[x]
         /\ \A j \in ars : Cs(h2, j) = Cs(hd, j)
         /\ FreeBins(h2, ars) = FreeBins(hd, ars)
  <1> DEFINE b == Base(i)
  <1>1. Typed(hd, ft) /\ ars \subseteq Slots /\ hs \subseteq Slots /\ ars \cap hs = {}
    BY DEF Laid
  <1>2. b \in Nat /\ InMap(i, b)
    BY ArenaAddresses
  <1>3. b \notin DOMAIN hd
    BY <1>2, UnmappedEmpty
  <1> HIDE DEF b
  <1>4. /\ DOMAIN h2 = DOMAIN hd \cup {b} /\ h2[b] = Chunk(FALSE, n, TRUE)
        /\ \A x \in DOMAIN hd : h2[x] = hd[x]
    BY <1>3 DEF HugeHead, Put, b
  <1>5. h2[b] \in ChunkHeaders /\ h2[b].size = n /\ h2[b].used
    <2>1. h2[b] = [prev_used |-> FALSE, size |-> n, used |-> TRUE]
      BY <1>4 DEF Chunk
    <2> QED
      BY <2>1 DEF ChunkHeaders
  <1>6. Typed(h2, ft)
    BY <1>1, <1>2, <1>4, <1>5 DEF Typed
  <1>7. \A j \in ars : \A x \in Nat : InMap(j, x) => x # b
    BY <1>1, <1>2, OneMap
  <1>8. /\ \A j \in ars : Tiled(h2, ft, j) /\ Cs(h2, j) = Cs(hd, j)
        /\ FreeBins(h2, ars) = FreeBins(hd, ars)
    <2>1. \A j \in ars : \A x \in Nat : InMap(j, x) /\ x # Base(j) =>
             /\ x \in DOMAIN h2 <=> x \in DOMAIN hd
             /\ x \in DOMAIN hd => h2[x] = hd[x]
             /\ x \in DOMAIN ft => x \in DOMAIN ft /\ ft[x] = ft[x]
      BY <1>4, <1>7
    <2> QED
      BY <1>6, <2>1, SameArenas
  <1>9. ASSUME NEW a \in DOMAIN h2 PROVE Placed(h2, a, ars, hs \cup {i})
    <2>1. CASE a = b
      BY <1>5, <2>1 DEF Placed, b
    <2>2. CASE a \in DOMAIN hd
      <3>1. Placed(hd, a, ars, hs) /\ h2[a] = hd[a]
        BY <1>4, <2>2 DEF Laid
      <3> QED
        BY <1>8, <3>1 DEF Placed
    <2> QED
      BY <1>4, <2>1, <2>2
  <1>10. Laid(h2, ft, ars, hs \cup {i})
    BY <1>1, <1>6, <1>8, <1>9 DEF Laid
  <1> QED
    BY <1>3, <1>4, <1>5, <1>8, <1>10 DEF b

\* g is f without b.
Drops(f, g, b) == DOMAIN g = DOMAIN f \ {b} /\ \A x \in DOMAIN g : g[x] = f[x]

\* Taking one address out of memory.
LEMMA WithoutDrops ==
  ASSUME NEW f, NEW b
  PROVE  Drops(f, Without(f, {b}), b)
  BY DEF Drops, Without, Restrict

\* delete: the header of a huge chunk goes with its mapping.
LEMMA HugeGone ==
  ASSUME NEW hd, NEW ft, NEW ars, NEW hs, Laid(hd, ft, ars, hs), NEW i \in hs,
         NEW h2, Drops(hd, h2, Base(i))
  PROVE  /\ Laid(h2, ft, ars, hs \ {i})
         /\ \A j \in ars : Cs(h2, j) = Cs(hd, j)
         /\ FreeBins(h2, ars) = FreeBins(hd, ars)
  <1> DEFINE b == Base(i)
  <1>1. Typed(hd, ft) /\ ars \subseteq Slots /\ hs \subseteq Slots /\ ars \cap hs = {} /\ i \in Slots
    BY DEF Laid
  <1>2. b \in Nat /\ InMap(i, b)
    BY <1>1, ArenaAddresses
  <1> HIDE DEF b
  <1>3. DOMAIN h2 = DOMAIN hd \ {b} /\ \A x \in DOMAIN h2 : h2[x] = hd[x]
    BY DEF Drops, b
  <1>4. Typed(h2, ft)
    BY <1>1, <1>3 DEF Typed
  <1>5. \A j \in ars : \A x \in Nat : InMap(j, x) => x # b
    BY <1>1, <1>2, OneMap
  <1>6. /\ \A j \in ars : Tiled(h2, ft, j) /\ Cs(h2, j) = Cs(hd, j)
        /\ FreeBins(h2, ars) = FreeBins(hd, ars)
    <2>1. \A j \in ars : \A x \in Nat : InMap(j, x) /\ x # Base(j) =>
             /\ x \in DOMAIN h2 <=> x \in DOMAIN hd
             /\ x \in DOMAIN hd => h2[x] = hd[x]
             /\ x \in DOMAIN ft => x \in DOMAIN ft /\ ft[x] = ft[x]
      BY <1>3, <1>5
    <2> QED
      BY <1>4, <2>1, SameArenas
  <1>7. ASSUME NEW a \in DOMAIN h2 PROVE Placed(h2, a, ars, hs \ {i})
    <2>1. Placed(hd, a, ars, hs) /\ h2[a] = hd[a] /\ a # b
      BY <1>3 DEF Laid
    <2> QED
      BY <1>6, <2>1 DEF Placed, b
  <1>8. Laid(h2, ft, ars, hs \ {i})
    BY <1>1, <1>4, <1>6, <1>7 DEF Laid
  <1> QED
    BY <1>3, <1>6, <1>8 DEF b

-----------------------------------------------------------------------------
(* Merging.                                                                *)

\* Where the chunk that takes the place of chunk a of arena i starts and ends:
\* next is the chunk behind a, and no free chunk touches p .. e - 1.
MergedSpan(hd, ft, i, a, p, next, e) ==
    /\ p \in Cs(hd, i) /\ {next, e} \subseteq Cs(hd, i) \cup {Sentinel(i)}
    /\ {p, a, next, e} \subseteq Nat /\ p <= a /\ a < next /\ next <= e
    /\ next = a + hd[a].size
    /\ hd[p].prev_used /\ hd[e].used /\ ChunkSize(e - p)
    /\ p = a \/ (p < a /\ ~hd[p].used /\ p + hd[p].size = a /\ ft[a] = hd[p].size)
    /\ next = e \/ (next < e /\ ~hd[next].used /\ next + hd[next].size = e /\ next \in Cs(hd, i))
    /\ \A b \in Cs(hd, i) : b <= p \/ b = a \/ b = next \/ e <= b

\* merge_with_prev_chunk and merge_with_next_chunk find the free chunks around a.
LEMMA MergeSpans ==
  ASSUME NEW hd, NEW ft, NEW ars, NEW hs, Laid(hd, ft, ars, hs), NEW i \in ars,
         NEW a \in Cs(hd, i), hd[a].used,
         NEW p, p = IF hd[a].prev_used THEN a ELSE a - ft[a],
         NEW next, next = a + hd[a].size,
         NEW e, e = IF hd[next].used THEN next ELSE next + hd[next].size
  PROVE  /\ MergedSpan(hd, ft, i, a, p, next, e)
         /\ p = a <=> hd[a].prev_used
         /\ next = e <=> hd[next].used
  <1> DEFINE C == Cs(hd, i)
  <1>1. Typed(hd, ft) /\ Tiled(hd, ft, i) /\ i \in Slots
    BY DEF Laid
  <1>2. \A b \in C : /\ b \in Nat /\ hd[b].size \in Nat \ {0} /\ ChunkSize(hd[b].size)
                     /\ b + hd[b].size \in C \cup {Sentinel(i)}
                     /\ \A d \in C : d <= b \/ b + hd[b].size <= d
                     /\ hd[b + hd[b].size].prev_used = hd[b].used
                     /\ ~hd[b].used => /\ hd[b + hd[b].size].used
                                       /\ ft[b + hd[b].size] = hd[b].size
                     /\ ~hd[b].prev_used => \E d \in C : d + hd[d].size = b
    BY <1>1, Constants DEF Typed, Tiled, Cs, ChunkSize
  <1>3. Sentinel(i) \in Nat /\ hd[Sentinel(i)].used /\ a \in C
    BY <1>1, ArenaAddresses DEF Tiled
  <1> HIDE DEF C
  <1>4. /\ p \in C /\ p \in Nat /\ hd[p].prev_used /\ ChunkSize(next - p)
        /\ p = a \/ (p < a /\ ~hd[p].used /\ p + hd[p].size = a /\ ft[a] = hd[p].size)
        /\ p = a <=> hd[a].prev_used
        /\ \A b \in C : b <= p \/ a <= b
    <2>1. CASE hd[a].prev_used
      <3>1. p = a
        BY <2>1
      <3>2. next - p = hd[a].size
        BY <1>2, <1>3, <3>1
      <3>3. ChunkSize(next - p) /\ a \in Nat
        BY <1>2, <1>3, <3>2
      <3>4. \A b \in C : b <= p \/ a <= b
        BY <1>2, <3>1, <3>3
      <3> QED
        BY <1>3, <2>1, <3>1, <3>3, <3>4
    <2>2. CASE ~hd[a].prev_used
      <3>1. PICK b \in C : b + hd[b].size = a
        BY <1>2, <1>3, <2>2
      <3>2. hd[a].prev_used = hd[b].used /\ b \in Nat /\ hd[b].size \in Nat \ {0}
        BY <1>2, <3>1
      <3>3. ~hd[b].used
        BY <2>2, <3>2
      <3>4. ft[a] = hd[b].size
        BY <1>2, <3>1, <3>3
      <3>5. p = b /\ b < a /\ a \in Nat
        BY <1>2, <1>3, <2>2, <3>1, <3>2, <3>4
      <3>6. hd[b].prev_used
        <4> SUFFICES ASSUME ~hd[b].prev_used PROVE FALSE
          OBVIOUS
        <4>1. PICK d \in C : d + hd[d].size = b
          BY <1>2
        <4>2. hd[b].prev_used = hd[d].used
          BY <1>2, <4>1
        <4>3. ~hd[d].used
          BY <4>2
        <4> QED
          BY <1>2, <3>3, <4>1, <4>3
      <3>7. \A d \in C : d <= b \/ a <= d
        BY <1>2, <3>1
      <3>8. next - p = hd[b].size + hd[a].size
        BY <1>2, <1>3, <3>1, <3>2, <3>5
      <3>9. ChunkSize(hd[b].size + hd[a].size)
        BY <1>2, <1>3, ChunkSizeSum
      <3>10. p # a /\ p \in Nat
        BY <3>2, <3>5
      <3>11. ChunkSize(next - p)
        BY <3>8, <3>9
      <3>12. /\ ~hd[p].used /\ p + hd[p].size = a /\ ft[a] = hd[p].size
             /\ hd[p].prev_used /\ p \in C /\ p < a
             /\ \A d \in C : d <= p \/ a <= d
        BY <3>1, <3>3, <3>4, <3>5, <3>6, <3>7
      <3> QED
        BY <2>2, <3>10, <3>11, <3>12
    <2> QED
      BY <2>1, <2>2
  <1>5. next \in C \cup {Sentinel(i)} /\ next \in Nat /\ a < next /\ a \in Nat /\ \A b \in C : b <= a \/ next <= b
    BY <1>2, <1>3
  <1>6. /\ e \in C \cup {Sentinel(i)} /\ e \in Nat /\ hd[e].used /\ ChunkSize(e - p)
        /\ next = e \/ (next < e /\ ~hd[next].used /\ next + hd[next].size = e /\ next \in C)
        /\ next = e <=> hd[next].used
        /\ \A b \in C : b <= next \/ e <= b
    <2>1. CASE hd[next].used
      <3>1. e = next
        BY <2>1
      <3> QED
        BY <1>2, <1>4, <1>5, <2>1, <3>1
    <2>2. CASE ~hd[next].used
      <3>1. e = next + hd[next].size /\ next \in C
        BY <1>3, <1>5, <2>2
      <3>2. next < e /\ e \in Nat /\ e \in C \cup {Sentinel(i)} /\ hd[e].used /\ \A b \in C : b <= next \/ e <= b
        BY <1>2, <1>3, <1>5, <2>2, <3>1
      <3>3. e - p = (next - p) + hd[next].size /\ ChunkSize(hd[next].size)
        BY <1>2, <1>4, <1>5, <3>1
      <3>4. ChunkSize((next - p) + hd[next].size)
        BY <1>4, <3>3, ChunkSizeSum
      <3> QED
        BY <1>5, <2>2, <3>1, <3>2, <3>3, <3>4
    <2> QED
      BY <2>1, <2>2
  <1>7. \A b \in C : b <= p \/ b = a \/ b = next \/ e <= b
    <2>1. \A b \in C : b \in Nat
      BY <1>2
    <2>2. \A b \in C : (b <= p \/ a <= b) /\ (b <= a \/ next <= b) /\ (b <= next \/ e <= b)
      BY <1>4, <1>5, <1>6
    <2> QED
      BY <1>5, <2>1, <2>2
  <1>8. MergedSpan(hd, ft, i, a, p, next, e)
    <2>1. p \in Nat /\ (p = a \/ p < a)
      BY <1>4
    <2>2. e \in Nat /\ (next = e \/ next < e)
      BY <1>6
    <2>3. next \in Nat /\ a \in Nat
      BY <1>5
    <2>4. p <= a /\ next <= e
      BY <2>1, <2>2, <2>3
    <2> QED
      BY <1>4, <1>5, <1>6, <1>7, <2>4 DEF MergedSpan, C
  <1> QED
    BY <1>4, <1>6, <1>8

\* delete: the headers when p .. e - 1 has become one free chunk.
MergedHead(hd, a, p, next, e) ==
    Without([hd EXCEPT ![p] = Chunk(@.prev_used, e - p, FALSE), ![e].prev_used = FALSE],
            ({a, next} \ {p, e}))

\* delete: the footers when p .. e - 1 has become one free chunk.
MergedFoot(ft, a, p, next, e) == Put(Without(ft, {a, next}), e, e - p)

\* What delete does to the tags around the chunk a.
MergedTags(hd, ft, h2, f2, a, p, next, e) ==
    /\ DOMAIN h2 = DOMAIN hd \ ({a, next} \ {p, e})
    /\ h2[p] \in ChunkHeaders /\ h2[p].prev_used = hd[p].prev_used /\ h2[p].size = e - p /\ ~h2[p].used
    /\ h2[e] \in ChunkHeaders /\ ~h2[e].prev_used /\ h2[e].size = hd[e].size /\ h2[e].used = hd[e].used
    /\ \A x \in DOMAIN h2 \ {p, e} : h2[x] = hd[x]
    /\ DOMAIN f2 = (DOMAIN ft \ {a, next}) \cup {e} /\ f2[e] = e - p
    /\ \A x \in DOMAIN f2 \ {e} : f2[x] = ft[x]

\* A function on fewer arguments.
LEMMA WithoutIs ==
  ASSUME NEW f, NEW S
  PROVE  DOMAIN Without(f, S) = DOMAIN f \ S /\ \A x \in DOMAIN f \ S : Without(f, S)[x] = f[x]
  BY DEF Without, Restrict

\* delete writes the tags of the merged chunk.
LEMMA MergeTags ==
  ASSUME NEW hd, NEW ft, NEW ars, NEW hs, Laid(hd, ft, ars, hs), NEW i \in ars,
         NEW a, NEW p, NEW next, NEW e, MergedSpan(hd, ft, i, a, p, next, e),
         NEW h2, h2 = MergedHead(hd, a, p, next, e),
         NEW f2, f2 = MergedFoot(ft, a, p, next, e)
  PROVE  MergedTags(hd, ft, h2, f2, a, p, next, e)
  <1> DEFINE k == [prev_used |-> hd[p].prev_used, size |-> e - p, used |-> FALSE]
             g == [hd EXCEPT ![p] = k, ![e].prev_used = FALSE]
             R == {a, next} \ {p, e}
  <1>1. p \in DOMAIN hd /\ e \in DOMAIN hd /\ p # e /\ e - p \in Nat
        /\ hd[p] \in ChunkHeaders /\ hd[e] \in ChunkHeaders
    BY DEF MergedSpan, Laid, Tiled, Typed, Cs, ChunkSize
  <1>2. h2 = Without(g, R)
    BY DEF MergedHead, Chunk
  <1>3. DOMAIN g = DOMAIN hd /\ g[p] = k /\ g[e] = [hd[e] EXCEPT !.prev_used = FALSE]
        /\ \A x \in DOMAIN hd \ {p, e} : g[x] = hd[x]
    BY <1>1
  <1>4. k \in ChunkHeaders /\ k.prev_used = hd[p].prev_used /\ k.size = e - p /\ ~k.used
    BY <1>1 DEF ChunkHeaders
  <1>5. /\ g[e] \in ChunkHeaders /\ ~g[e].prev_used /\ g[e].size = hd[e].size /\ g[e].used = hd[e].used
    <2> HIDE DEF g
    <2> QED
      BY <1>1, <1>3 DEF ChunkHeaders
  <1>6. p \notin R /\ e \notin R
    OBVIOUS
  <1> HIDE DEF g, k, R
  <1>7. DOMAIN h2 = DOMAIN hd \ R /\ \A x \in DOMAIN h2 : h2[x] = g[x]
    <2>1. DOMAIN g = DOMAIN hd
      BY <1>3
    <2>2. DOMAIN Without(g, R) = DOMAIN g \ R /\ \A x \in DOMAIN g \ R : Without(g, R)[x] = g[x]
      BY WithoutIs
    <2> QED
      BY <1>2, <2>1, <2>2
  <1>8. DOMAIN f2 = (DOMAIN ft \ {a, next}) \cup {e} /\ f2[e] = e - p
        /\ \A x \in DOMAIN f2 \ {e} : f2[x] = ft[x]
    BY DEF MergedFoot, Put, Without, Restrict
  <1>9. h2[p] = k /\ h2[e] = g[e] /\ \A x \in DOMAIN h2 \ {p, e} : h2[x] = hd[x]
    BY <1>1, <1>3, <1>6, <1>7
  <1>10. DOMAIN h2 = DOMAIN hd \ ({a, next} \ {p, e})
    BY <1>7 DEF R
  <1> QED
    BY <1>4, <1>5, <1>8, <1>9, <1>10 DEF MergedTags

\* delete keeps the tags of the arena right.
LEMMA MergeTiles ==
  ASSUME NEW hd, NEW ft, NEW ars, NEW hs, Laid(hd, ft, ars, hs), NEW i \in ars,
         NEW a \in Cs(hd, i), NEW p, NEW next, NEW e,
         MergedSpan(hd, ft, i, a, p, next, e),
         NEW h2, NEW f2, MergedTags(hd, ft, h2, f2, a, p, next, e)
  PROVE  /\ Typed(h2, f2) /\ Tiled(h2, f2, i)
         /\ Cs(h2, i) = Cs(hd, i) \ ({a, next} \ {p, e})
  <1> DEFINE C == Cs(hd, i)
             S == Sentinel(i)
             R == {a, next} \ {p, e}
             D == C \ R
  <1>1. Typed(hd, ft) /\ Tiled(hd, ft, i) /\ i \in Slots
    BY DEF Laid
  <1>2. \A b \in C : /\ b \in Nat /\ b \in DOMAIN hd /\ hd[b].size \in Nat \ {0} /\ ChunkSize(hd[b].size)
                     /\ b + hd[b].size \in C \cup {S}
                     /\ \A d \in C : d <= b \/ b + hd[b].size <= d
                     /\ hd[b + hd[b].size].prev_used = hd[b].used
                     /\ ~hd[b].used => /\ hd[b + hd[b].size].used
                                       /\ b + hd[b].size \in DOMAIN ft
                                       /\ ft[b + hd[b].size] = hd[b].size
                     /\ ~hd[b].prev_used => \E d \in C : d + hd[d].size = b
    <2> SUFFICES ASSUME NEW b \in C
                 PROVE  /\ b \in Nat /\ b \in DOMAIN hd /\ hd[b].size \in Nat \ {0} /\ ChunkSize(hd[b].size)
                        /\ b + hd[b].size \in C \cup {S}
                        /\ \A d \in C : d <= b \/ b + hd[b].size <= d
                        /\ hd[b + hd[b].size].prev_used = hd[b].used
                        /\ ~hd[b].used => /\ hd[b + hd[b].size].used
                                          /\ b + hd[b].size \in DOMAIN ft
                                          /\ ft[b + hd[b].size] = hd[b].size
                        /\ ~hd[b].prev_used => \E d \in C : d + hd[d].size = b
      OBVIOUS
    <2>1. b \in Nat /\ b \in DOMAIN hd
      BY <1>1 DEF Typed, Cs
    <2>2. ChunkSize(hd[b].size)
      BY <1>1 DEF Tiled
    <2>3. hd[b].size \in Nat \ {0}
      BY <2>2, Constants DEF ChunkSize
    <2> QED
      BY <1>1, <2>1, <2>2, <2>3 DEF Tiled
  <1>3. /\ S \in Nat /\ hd[S].used /\ S \in DOMAIN hd /\ S \notin C /\ \A b \in C : b < S
        /\ FirstChunk(i) \in C /\ hd[FirstChunk(i)].prev_used /\ FirstChunk(i) \in Nat
        /\ \A b \in C : FirstChunk(i) <= b
    BY <1>1, ArenaAddresses DEF Tiled, Cs
  <1>4. /\ next = a + hd[a].size
        /\ p \in C /\ next \in C \cup {S} /\ e \in C \cup {S} /\ a \in C
        /\ p \in Nat /\ a \in Nat /\ next \in Nat /\ e \in Nat /\ p <= a /\ a < next /\ next <= e
        /\ hd[p].prev_used /\ hd[e].used /\ ChunkSize(e - p)
        /\ p = a \/ (p < a /\ ~hd[p].used /\ p + hd[p].size = a)
        /\ next = e \/ (next < e /\ ~hd[next].used /\ next + hd[next].size = e /\ next \in C)
        /\ \A b \in C : b <= p \/ b = a \/ b = next \/ e <= b
    BY DEF MergedSpan
  <1>5. /\ DOMAIN h2 = DOMAIN hd \ R
        /\ h2[p] \in ChunkHeaders /\ h2[p].prev_used = hd[p].prev_used /\ h2[p].size = e - p /\ ~h2[p].used
        /\ h2[e] \in ChunkHeaders /\ ~h2[e].prev_used /\ h2[e].size = hd[e].size /\ h2[e].used = hd[e].used
        /\ \A x \in DOMAIN h2 \ {p, e} : h2[x] = hd[x]
        /\ DOMAIN f2 = (DOMAIN ft \ {a, next}) \cup {e} /\ f2[e] = e - p
        /\ \A x \in DOMAIN f2 \ {e} : f2[x] = ft[x]
    BY DEF MergedTags
  <1>6. Typed(h2, f2)
    <2>1. \A x \in DOMAIN h2 : x \in Nat /\ h2[x] \in ChunkHeaders
      BY <1>1, <1>5 DEF Typed
    <2>2. e - p \in Nat
      BY <1>4 DEF ChunkSize
    <2>3. \A x \in DOMAIN f2 : x \in Nat /\ f2[x] \in Nat
      BY <1>1, <1>4, <1>5, <2>2 DEF Typed
    <2> QED
      BY <2>1, <2>3 DEF Typed
  <1>7. Cs(h2, i) = D
    BY <1>5 DEF Cs
  <1>8. /\ p \in D /\ p \notin R /\ e \notin R /\ e \in D \cup {S} /\ p < e /\ p # e
        /\ \A x \in R : p < x /\ x < e
        /\ \A x \in D : x \in C /\ (x <= p \/ e <= x)
    BY <1>4
  <1> HIDE DEF C, S, R, D
  <1>9. \A x \in D \cup {S} : x \in DOMAIN h2 /\ x \in DOMAIN hd /\ x \in Nat /\ x \notin R
    <2>1. S \notin R
      BY <1>3, <1>4, <1>8
    <2> QED
      BY <1>2, <1>3, <1>5, <2>1 DEF D
  <1>10. \A x \in D \cup {S} : /\ x # p => h2[x].size = hd[x].size /\ h2[x].used = hd[x].used
                               /\ x # e => h2[x].prev_used = hd[x].prev_used
    <2> SUFFICES ASSUME NEW x \in D \cup {S}
                 PROVE  /\ x # p => h2[x].size = hd[x].size /\ h2[x].used = hd[x].used
                        /\ x # e => h2[x].prev_used = hd[x].prev_used
      OBVIOUS
    <2>1. x \in DOMAIN h2
      BY <1>9
    <2>2. CASE x = p
      BY <1>5, <1>8, <2>2
    <2>3. CASE x = e
      BY <1>5, <1>8, <2>3
    <2>4. CASE x # p /\ x # e
      BY <1>5, <2>1, <2>4
    <2> QED
      BY <2>2, <2>3, <2>4
  <1>11. ASSUME NEW b \in D, b # p, NEW x, x = b + hd[b].size
         PROVE  /\ x \in D \cup {S} /\ x # e /\ \A d \in D : d <= b \/ x <= d
                /\ x <= p \/ e < x
                /\ x = p => hd[b].used
    <2>1. b \in C /\ b \in Nat /\ hd[b].size \in Nat \ {0} /\ x \in C \cup {S} /\ x \in Nat
      BY <1>2, <1>3, <1>8, <1>11
    <2>2. b < p \/ e <= b
      BY <1>4, <1>8, <1>11, <2>1
    <2>3. b < p => x <= p
      BY <1>2, <1>4, <1>11, <2>1
    <2>4. e <= b => e < x
      BY <1>4, <1>11, <2>1
    <2>5. x \notin R
      BY <1>4, <1>8, <2>1, <2>2, <2>3, <2>4
    <2>6. x \in D \cup {S}
      BY <2>1, <2>5 DEF D
    <2>7. x # e
      BY <1>4, <1>8, <2>1, <2>2, <2>3, <2>4
    <2>8. \A d \in D : d <= b \/ x <= d
      BY <1>2, <1>8, <1>11, <2>1
    <2>9. x = p => hd[b].used
      <3>1. hd[x].prev_used = hd[b].used
        BY <1>2, <1>11, <2>1
      <3> QED
        BY <1>4, <3>1
    <2> QED
      BY <2>2, <2>3, <2>4, <2>6, <2>7, <2>8, <2>9
  <1>12. ASSUME NEW b \in D
         PROVE  /\ ChunkSize(h2[b].size)
                /\ b + h2[b].size \in D \cup {S}
                /\ \A d \in D : d <= b \/ b + h2[b].size <= d
                /\ h2[b + h2[b].size].prev_used = h2[b].used
                /\ ~h2[b].used => /\ h2[b + h2[b].size].used
                                  /\ b + h2[b].size \in DOMAIN f2
                                  /\ f2[b + h2[b].size] = h2[b].size
    <2>1. CASE b = p
      <3>1. b + h2[b].size = e
        BY <1>4, <1>5, <2>1
      <3>2. \A d \in D : d <= b \/ e <= d
        BY <1>8, <2>1
      <3>3. h2[e].prev_used = h2[b].used
        <4>1. h2[e].prev_used \in BOOLEAN /\ h2[b].used \in BOOLEAN
          BY <1>5, <2>1 DEF ChunkHeaders
        <4> QED
          BY <1>5, <2>1, <4>1
      <3>4. ChunkSize(h2[b].size) /\ e \in D \cup {S} /\ h2[e].used /\ e \in DOMAIN f2 /\ f2[e] = h2[b].size
        BY <1>4, <1>5, <1>8, <2>1
      <3> QED
        BY <3>1, <3>2, <3>3, <3>4
    <2>2. CASE b # p
      <3> DEFINE x == b + hd[b].size
      <3>1. /\ x \in D \cup {S} /\ x # e /\ \A d \in D : d <= b \/ x <= d
            /\ x <= p \/ e < x
            /\ x = p => hd[b].used
        BY <1>11, <2>2
      <3>2. /\ ChunkSize(hd[b].size) /\ hd[x].prev_used = hd[b].used
            /\ ~hd[b].used => hd[x].used /\ x \in DOMAIN ft /\ ft[x] = hd[b].size
        BY <1>2, <1>8
      <3> HIDE DEF x
      <3>3. /\ h2[b].size = hd[b].size /\ h2[b].used = hd[b].used
            /\ h2[x].prev_used = hd[x].prev_used
            /\ x # p => h2[x].used = hd[x].used
        BY <1>10, <2>2, <3>1
      <3>4. b + h2[b].size = x
        BY <3>3 DEF x
      <3>5. x # p => x # a /\ x # next
        BY <1>4, <1>9, <3>1
      <3>6. ASSUME ~h2[b].used PROVE h2[x].used /\ x \in DOMAIN f2 /\ f2[x] = h2[b].size
        <4>1. x # p /\ x # a /\ x # next /\ ~hd[b].used
          BY <3>1, <3>3, <3>5, <3>6
        <4> QED
          BY <1>5, <3>1, <3>2, <3>3, <4>1
      <3> QED
        BY <3>1, <3>2, <3>3, <3>4, <3>6
    <2> QED
      BY <2>1, <2>2
  <1>13. ASSUME NEW b \in D, ~h2[b].prev_used PROVE \E d \in D : d + h2[d].size = b
    <2>1. CASE b = e
      <3>1. p + h2[p].size = e
        BY <1>4, <1>5
      <3> QED
        BY <1>8, <2>1, <3>1
    <2>2. CASE b # e
      <3>1. ~hd[b].prev_used /\ b \in C
        BY <1>8, <1>10, <1>13, <2>2
      <3>2. PICK d \in C : d + hd[d].size = b
        BY <1>2, <3>1
      <3>3. d # a
        <4> SUFFICES ASSUME d = a PROVE FALSE
          OBVIOUS
        <4>1. b = next
          BY <1>4, <3>2
        <4>2. p < next /\ next < e
          BY <1>4, <2>2, <4>1
        <4> QED
          BY <1>4, <1>8, <4>1, <4>2
      <3>4. d = next => next = e
        BY <1>4, <2>2, <3>2
      <3>5. d # p
        <4> SUFFICES ASSUME d = p PROVE FALSE
          OBVIOUS
        <4>1. b = a /\ p < a
          BY <1>4, <3>2, <3>3
        <4> QED
          BY <1>4, <1>8, <4>1
      <3>6. d \in D
        BY <1>8, <3>2, <3>3, <3>4 DEF D, R
      <3>7. h2[d].size = hd[d].size
        BY <1>10, <3>5, <3>6
      <3> QED
        BY <3>2, <3>6, <3>7
    <2> QED
      BY <2>1, <2>2
  <1>14. /\ FirstChunk(i) \in D /\ h2[FirstChunk(i)].prev_used
         /\ S \in DOMAIN h2 /\ h2[S].used
    <2>1. FirstChunk(i) <= p
      BY <1>3, <1>4
    <2>2. FirstChunk(i) \notin R /\ FirstChunk(i) # e
      BY <1>3, <1>4, <1>8, <2>1
    <2>3. FirstChunk(i) \in D
      BY <1>3, <2>2 DEF D
    <2>4. S # p
      BY <1>3, <1>4
    <2> QED
      BY <1>3, <1>9, <1>10, <2>2, <2>3, <2>4
  <1>15. Tiled(h2, f2, i)
    BY <1>7, <1>12, <1>13, <1>14 DEF Tiled, S
  <1> QED
    BY <1>6, <1>7, <1>15 DEF C, D, R

\* delete: the memory as a whole.
LEMMA MergeLaid ==
  ASSUME NEW hd, NEW ft, NEW ars, NEW hs, Laid(hd, ft, ars, hs), NEW i \in ars,
         NEW a \in Cs(hd, i), NEW p, NEW next, NEW e,
         MergedSpan(hd, ft, i, a, p, next, e),
         NEW h2, NEW f2, MergedTags(hd, ft, h2, f2, a, p, next, e)
  PROVE  /\ Laid(h2, f2, ars, hs)
         /\ \A j \in ars \ {i} : Cs(h2, j) = Cs(hd, j)
         /\ Cs(h2, i) = Cs(hd, i) \ ({a, next} \ {p, e})
  <1>1. Typed(h2, f2) /\ Tiled(h2, f2, i) /\ Cs(h2, i) = Cs(hd, i) \ ({a, next} \ {p, e})
    BY MergeTiles
  <1>2. i \in Slots /\ Typed(hd, ft)
    BY DEF Laid
  <1>3. \A x \in {p, a, next, e} : FirstChunk(i) <= x /\ x <= Sentinel(i)
    BY <1>2, ArenaAddresses, ChunkInMap DEF MergedSpan
  <1>4. ASSUME NEW x \in Nat, ~(FirstChunk(i) <= x /\ x <= Sentinel(i))
        PROVE  /\ x \in DOMAIN h2 <=> x \in DOMAIN hd
               /\ x \in DOMAIN hd => h2[x] = hd[x]
               /\ x \in DOMAIN ft => x \in DOMAIN f2 /\ f2[x] = ft[x]
    <2>1. x \notin {p, a, next, e}
      BY <1>3, <1>4
    <2> QED
      BY <2>1 DEF MergedTags
  <1>5. Laid(h2, f2, ars, hs) /\ \A j \in ars \ {i} : Cs(h2, j) = Cs(hd, j)
    BY <1>1, <1>4, LocalChange
  <1> QED
    BY <1>1, <1>5

\* The bins hold what they hold, however that is written.
LEMMA HoldsSame ==
  ASSUME NEW ls, NEW M, Holds(ls, M), NEW N, DOMAIN N = DOMAIN M, \A c \in DOMAIN M : N[c] = M[c]
  PROVE  Holds(ls, N)
  <1>1. \A b \in Bins : {c \in DOMAIN N : N[c] = b} = {c \in DOMAIN M : M[c] = b}
    OBVIOUS
  <1> QED
    BY <1>1 DEF Holds

\* delete: the free chunks after it.
LEMMA MergeFree ==
  ASSUME NEW hd, NEW ft, NEW ars, NEW hs, Laid(hd, ft, ars, hs), NEW i \in ars,
         NEW a \in Cs(hd, i), hd[a].used, NEW p, NEW next, NEW e,
         MergedSpan(hd, ft, i, a, p, next, e),
         NEW h2, NEW f2, MergedTags(hd, ft, h2, f2, a, p, next, e),
         NEW F, F = Free(hd, ars)
  PROVE  /\ Free(h2, ars) = ((F \ {p}) \ {next}) \cup {p}
         /\ \A d \in (F \ {p}) \ {next} : h2[d].size = hd[d].size
         /\ h2[p].size = e - p
         /\ p \in F <=> p # a
         /\ next \in F <=> next # e
  <1> DEFINE R == {a, next} \ {p, e}
  <1>1. /\ p \in Cs(hd, i) /\ {next, e} \subseteq Cs(hd, i) \cup {Sentinel(i)}
        /\ {p, a, next, e} \subseteq Nat /\ p <= a /\ a < next /\ next <= e /\ hd[e].used
        /\ p = a \/ (p < a /\ ~hd[p].used)
        /\ next = e \/ (next < e /\ ~hd[next].used /\ next \in Cs(hd, i))
    BY DEF MergedSpan
  <1>2. /\ DOMAIN h2 = DOMAIN hd \ R
        /\ ~h2[p].used /\ h2[p].size = e - p /\ h2[e].used = hd[e].used /\ h2[e].size = hd[e].size
        /\ \A x \in DOMAIN h2 \ {p, e} : h2[x] = hd[x]
    BY DEF MergedTags
  <1>3. /\ \A j \in ars \ {i} : Cs(h2, j) = Cs(hd, j)
        /\ Cs(h2, i) = Cs(hd, i) \ R
    <2>1. Laid(h2, f2, ars, hs)
      BY MergeLaid
    <2> QED
      BY <2>1, MergeLaid
  <1>4. \A x \in F : x \in DOMAIN hd /\ ~hd[x].used /\ x \in Nat
    BY FreeSize
  <1>5. \A j \in ars : \A x \in Cs(h2, j) : x \in Cs(hd, j) /\ x \in DOMAIN h2 /\ x \notin R
    <2>1. \A j \in ars \ {i} : \A x \in Cs(hd, j) : x \notin Cs(hd, i) \cup {Sentinel(i)}
      BY ArenasApart
    <2>2. a \in Cs(hd, i) /\ next \in Cs(hd, i) \cup {Sentinel(i)}
      BY <1>1
    <2> QED
      BY <1>3, <2>1, <2>2 DEF Cs
  <1>6. p \in F <=> p # a
    BY <1>1 DEF Free
  <1>7. next \in F <=> next # e
    BY <1>1, <1>4 DEF Free
  <1>8. a \notin F /\ e \notin F
    BY <1>1, <1>4
  <1>9. ASSUME NEW x \in Free(h2, ars) PROVE x \in ((F \ {p}) \ {next}) \cup {p}
    <2>1. PICK j \in ars : x \in Cs(h2, j) /\ ~h2[x].used
      BY DEF Free
    <2>2. x \in Cs(hd, j) /\ x \in DOMAIN h2 /\ x \notin R
      BY <1>5, <2>1
    <2>3. CASE x = p
      BY <2>3
    <2>4. CASE x # p
      <3>1. x # e
        BY <1>1, <1>2, <2>1
      <3>2. ~hd[x].used /\ x # a /\ x # next
        BY <1>2, <2>1, <2>2, <2>4, <3>1
      <3> QED
        BY <2>2, <2>4, <3>2 DEF Free
    <2> QED
      BY <2>3, <2>4
  <1>10. p \in Free(h2, ars)
    <2>1. p \in Cs(h2, i)
      BY <1>1, <1>3
    <2> QED
      BY <1>2, <2>1 DEF Free
  <1>11. ASSUME NEW x \in (F \ {p}) \ {next} PROVE x \in Free(h2, ars) /\ h2[x].size = hd[x].size
    <2>1. PICK j \in ars : x \in Cs(hd, j)
      BY DEF Free
    <2>2. x \notin R /\ x # p /\ x # e
      BY <1>8
    <2>3. x \in Cs(h2, j) /\ x \in DOMAIN h2
      BY <1>2, <1>3, <1>4, <2>1, <2>2
    <2>4. h2[x] = hd[x]
      BY <1>2, <2>2, <2>3
    <2> QED
      BY <1>4, <2>3, <2>4 DEF Free
  <1> QED
    BY <1>2, <1>6, <1>7, <1>9, <1>10, <1>11

\* delete: the neighbours leave their bins, the merged chunk enters its own.
LEMMA MergeHolds ==
  ASSUME NEW hd, NEW ft, NEW ars, NEW hs, Laid(hd, ft, ars, hs), NEW i \in ars,
         NEW a \in Cs(hd, i), hd[a].used, NEW p, NEW next, NEW e,
         MergedSpan(hd, ft, i, a, p, next, e),
         NEW h2, NEW f2, MergedTags(hd, ft, h2, f2, a, p, next, e),
         NEW ls, Holds(ls, FreeBins(hd, ars)),
         NEW l1, l1 = IF p = a THEN ls ELSE DeleteFrom(ls, ListOfSize(ft[a]), p),
         NEW l2, l2 = IF next = e THEN l1 ELSE DeleteFrom(l1, ListOfSize(hd[next].size), next)
  PROVE  Holds(AddChunk(l2, p, e - p), FreeBins(h2, ars))
  <1> DEFINE F == Free(hd, ars)
             M == FreeBins(hd, ars)
             M1 == Without(M, {p})
             M2 == Without(M1, {next})
             M3 == Put(M2, p, ListOfSize(e - p))
  <1>1. /\ Free(h2, ars) = ((F \ {p}) \ {next}) \cup {p}
        /\ \A d \in (F \ {p}) \ {next} : h2[d].size = hd[d].size
        /\ h2[p].size = e - p
        /\ p \in F <=> p # a
        /\ next \in F <=> next # e
    BY MergeFree
  <1>2. ChunkSize(e - p) /\ p \in Nat /\ p # next /\ (p # a => ft[a] = hd[p].size)
    BY DEF MergedSpan
  <1>3. DOMAIN M = F /\ \A d \in F : M[d] = ListOfSize(hd[d].size) /\ M[d] \in Bins
    BY FreeSize DEF FreeBins
  <1>4. Holds(ls, M)
    OBVIOUS
  <1>5. DOMAIN FreeBins(h2, ars) = Free(h2, ars) /\ \A d \in Free(h2, ars) : FreeBins(h2, ars)[d] = ListOfSize(h2[d].size)
    BY DEF FreeBins
  <1> HIDE DEF F, M
  <1>6. DOMAIN M1 = F \ {p} /\ \A d \in F \ {p} : M1[d] = M[d]
    BY <1>3, WithoutIs
  <1> HIDE DEF M1
  <1>7. DOMAIN M2 = (F \ {p}) \ {next} /\ \A d \in (F \ {p}) \ {next} : M2[d] = M[d]
    <2>1. DOMAIN M2 = DOMAIN M1 \ {next} /\ \A d \in DOMAIN M1 \ {next} : M2[d] = M1[d]
      BY WithoutIs
    <2> HIDE DEF M2
    <2> QED
      BY <1>6, <2>1
  <1> HIDE DEF M2
  <1>8. Holds(l1, M1)
    <2>1. CASE p = a
      <3>1. DOMAIN M1 = DOMAIN M /\ \A d \in DOMAIN M : M1[d] = M[d]
        BY <1>1, <1>3, <1>6, <2>1
      <3> QED
        BY <1>4, <2>1, <3>1, HoldsSame
    <2>2. CASE p # a
      <3>1. p \in DOMAIN M /\ M[p] \in Bins /\ M[p] = ListOfSize(ft[a])
        BY <1>1, <1>2, <1>3, <2>2
      <3>2. l1 = DeleteFrom(ls, M[p], p)
        BY <2>2, <3>1
      <3> QED
        BY <1>4, <3>1, <3>2, DeleteHolds DEF M1
    <2> QED
      BY <2>1, <2>2
  <1>9. Holds(l2, M2)
    <2>1. CASE next = e
      <3>1. DOMAIN M2 = DOMAIN M1 /\ \A d \in DOMAIN M1 : M2[d] = M1[d]
        BY <1>1, <1>6, <1>7, <2>1
      <3>2. l2 = l1
        BY <2>1
      <3> QED
        BY <1>8, <3>1, <3>2, HoldsSame
    <2>2. CASE next # e
      <3>1. next \in DOMAIN M1 /\ M1[next] = M[next] /\ M[next] \in Bins /\ M[next] = ListOfSize(hd[next].size)
        BY <1>1, <1>2, <1>3, <1>6, <2>2
      <3>2. l2 = DeleteFrom(l1, M1[next], next) /\ M1[next] \in Bins
        BY <2>2, <3>1
      <3>3. Holds(DeleteFrom(l1, M1[next], next), Without(M1, {next}))
        BY <1>8, <3>1, <3>2, DeleteHolds
      <3> QED
        BY <3>2, <3>3 DEF M2
    <2> QED
      BY <2>1, <2>2
  <1>10. Holds(AddChunk(l2, p, e - p), M3)
    <2>1. p \notin DOMAIN M2
      BY <1>7
    <2> QED
      BY <1>2, <1>9, <2>1, AddHolds
  <1>11. DOMAIN M3 = Free(h2, ars) /\ \A d \in DOMAIN M3 : M3[d] = FreeBins(h2, ars)[d]
    <2>1. /\ DOMAIN M3 = DOMAIN M2 \cup {p}
          /\ \A d \in DOMAIN M2 \cup {p} : M3[d] = IF d = p THEN ListOfSize(e - p) ELSE M2[d]
      BY DEF Put
    <2> HIDE DEF M3
    <2>2. DOMAIN M3 = Free(h2, ars)
      BY <1>1, <1>7, <2>1
    <2>3. ASSUME NEW d \in DOMAIN M3 PROVE M3[d] = ListOfSize(h2[d].size)
      BY <1>1, <1>3, <1>7, <2>1
    <2> QED
      BY <1>5, <2>2, <2>3
  <1> HIDE DEF M3
  <1>12. DOMAIN FreeBins(h2, ars) = DOMAIN M3 /\ \A d \in DOMAIN M3 : FreeBins(h2, ars)[d] = M3[d]
    BY <1>5, <1>11
  <1> QED
    BY <1>10, <1>12, HoldsSame

-----------------------------------------------------------------------------
(* The memory of the heap.                                                 *)

\* The mappings for huge chunks.
HugeIn(mp, ars) == {i \in Slots \ ars : mp[i] > 0}

\* A live object lies in a used chunk that is large enough.
Lives(mp, ars, hd, ob, a) ==
    /\ ob[a] \in Sizes
    /\ a \in DOMAIN hd /\ hd[a].used /\ SizeIncludingHeader(ob[a]) <= hd[a].size
    /\ \/ \E i \in ars : a \in Cs(hd, i)
       \/ \E i \in HugeIn(mp, ars) : a = Base(i)

\* A mapping for a huge chunk is as large as the chunk, and an object lives in it.
HugeMapping(mp, hd, ob, i) ==
    /\ Base(i) \in DOMAIN ob
    /\ mp[i] = hd[Base(i)].size /\ Limit <= mp[i] /\ mp[i] <= Stride

\* Mappings, tags, bins and objects agree.
Memory(mp, ars, hd, ft, ls, ob) ==
    /\ mp \in [Slots -> Nat]
    /\ Laid(hd, ft, ars, HugeIn(mp, ars))
    /\ Holds(ls, FreeBins(hd, ars))
    /\ \A i \in ars : mp[i] = arena_size
    /\ \A i \in HugeIn(mp, ars) : HugeMapping(mp, hd, ob, i)
    /\ \A a \in DOMAIN ob : Lives(mp, ars, hd, ob, a)

\* What the chunks outside c look like after an allocation from c.
LEMMA TakeKeeps ==
  ASSUME NEW hd, NEW ft, NEW ars, NEW hs, Laid(hd, ft, ars, hs), NEW i \in ars,
         NEW c \in Cs(hd, i), ~hd[c].used, NEW n, ChunkSize(n), n <= hd[c].size,
         NEW h2, h2 = TakeHead(hd, c, n), NEW f2, f2 = TakeFoot(hd, ft, c, n)
  PROVE  /\ Laid(h2, f2, ars, hs)
         /\ c \in DOMAIN h2 /\ h2[c].used /\ n <= h2[c].size
         /\ \A x \in DOMAIN hd \ {c} : x \in DOMAIN h2 /\ h2[x].used = hd[x].used /\ h2[x].size = hd[x].size
         /\ \A j \in ars : \A x \in Cs(hd, j) : x \in Cs(h2, j)
  <1> DEFINE size == hd[c].size
             e == c + size
             m == c + n
  <1>1. Laid(h2, f2, ars, hs) /\ \A j \in ars \ {i} : Cs(h2, j) = Cs(hd, j)
    BY TakeLaid
  <1>2. /\ e \in Cs(hd, i) \cup {Sentinel(i)} /\ size \in Nat \ {0} /\ c \in Nat /\ n \in Nat /\ c < m /\ m <= e
        /\ Whole(hd, c, n) => TakenWhole(hd, ft, h2, f2, c, e)
        /\ ~Whole(hd, c, n) => TakenPart(hd, ft, h2, f2, c, m, e)
    BY TakenTags
  <1>3. c \in DOMAIN hd /\ e \in DOMAIN hd /\ hd[e] \in ChunkHeaders /\ hd[c] \in ChunkHeaders /\ c # e
    BY <1>2 DEF Laid, Tiled, Typed, Cs
  <1>4. m - c = n
    BY <1>2
  <1> HIDE DEF size, e, m
  <1>5. n <= size
    BY DEF size
  <1>6. CASE Whole(hd, c, n)
    <2>1. /\ DOMAIN h2 = DOMAIN hd /\ h2[c].used /\ h2[c].size = size
          /\ h2[e].used = hd[e].used /\ h2[e].size = hd[e].size
          /\ \A x \in DOMAIN hd \ {c, e} : h2[x] = hd[x]
      BY <1>2, <1>3, <1>6 DEF TakenWhole, ChunkHeaders, size
    <2>2. \A x \in DOMAIN hd \ {c} : x \in DOMAIN h2 /\ h2[x].used = hd[x].used /\ h2[x].size = hd[x].size
      BY <2>1
    <2> QED
      BY <1>1, <1>3, <1>5, <2>1, <2>2 DEF Cs
  <1>7. CASE ~Whole(hd, c, n)
    <2>1. /\ DOMAIN h2 = DOMAIN hd \cup {m} /\ h2[c].used /\ h2[c].size = n
          /\ \A x \in DOMAIN hd \ {c} : h2[x] = hd[x]
      BY <1>2, <1>4, <1>7 DEF TakenPart, Chunk
    <2> QED
      BY <1>1, <1>2, <1>3, <2>1 DEF Cs
  <1> QED
    BY <1>6, <1>7

\* alloc, in memory where find_best_chunk has found f.
LEMMA TakeMemory ==
  ASSUME NEW mp, NEW ars, NEW hd, NEW ft, NEW ls, NEW ob, Memory(mp, ars, hd, ft, ls, ob),
         NEW size \in Sizes, NEW n, n = SizeIncludingHeader(size),
         NEW f, Best(hd, Free(hd, ars), f, n),
         NEW h2, h2 = TakeHead(hd, f.chunk, n), NEW f2, f2 = TakeFoot(hd, ft, f.chunk, n),
         NEW l2, l2 = TakeLists(hd, ls, f, n), NEW o2, o2 = Put(ob, f.chunk, size)
  PROVE  Memory(mp, ars, h2, f2, l2, o2)
  <1> DEFINE c == f.chunk
             hs == HugeIn(mp, ars)
  <1>1. /\ mp \in [Slots -> Nat] /\ Laid(hd, ft, ars, hs) /\ Holds(ls, FreeBins(hd, ars))
        /\ \A i \in ars : mp[i] = arena_size
        /\ \A i \in hs : HugeMapping(mp, hd, ob, i)
        /\ \A a \in DOMAIN ob : Lives(mp, ars, hd, ob, a)
    BY DEF Memory
  <1>2. c \in Free(hd, ars) /\ n <= hd[c].size /\ f.bin = ListOfSize(hd[c].size)
    BY DEF Best
  <1>3. PICK i \in ars : c \in Cs(hd, i)
    BY <1>2 DEF Free
  <1>4. ~hd[c].used /\ ChunkSize(n)
    BY <1>2, RequestSize DEF Free
  <1>5. f.chunk = c
    OBVIOUS
  <1> HIDE DEF c, hs
  <1>6. h2 = TakeHead(hd, c, n) /\ f2 = TakeFoot(hd, ft, c, n) /\ o2 = Put(ob, c, size)
    BY <1>5
  <1>7. Holds(l2, FreeBins(h2, ars))
    BY <1>1, <1>2, <1>3, <1>4, <1>5, <1>6, TakeHolds
  <1>8. /\ Laid(h2, f2, ars, hs)
        /\ c \in DOMAIN h2 /\ h2[c].used /\ n <= h2[c].size
        /\ \A x \in DOMAIN hd \ {c} : x \in DOMAIN h2 /\ h2[x].used = hd[x].used /\ h2[x].size = hd[x].size
        /\ \A j \in ars : \A x \in Cs(hd, j) : x \in Cs(h2, j)
    <2>1. Laid(h2, f2, ars, hs)
      BY <1>1, <1>2, <1>3, <1>4, <1>6, TakeKeeps
    <2> QED
      BY <1>1, <1>2, <1>3, <1>4, <1>6, <2>1, TakeKeeps
  <1>9. c \notin DOMAIN ob
    BY <1>1, <1>4 DEF Lives
  <1>10. DOMAIN o2 = DOMAIN ob \cup {c} /\ o2[c] = size /\ \A a \in DOMAIN ob : o2[a] = ob[a]
    BY <1>6, <1>9 DEF Put
  <1>11. ASSUME NEW j \in hs PROVE HugeMapping(mp, h2, o2, j)
    <2>1. Base(j) \in DOMAIN ob /\ mp[j] = hd[Base(j)].size /\ Limit <= mp[j] /\ mp[j] <= Stride
      BY <1>1 DEF HugeMapping
    <2>2. Base(j) \in DOMAIN hd
      BY <1>1, <2>1 DEF Lives
    <2> QED
      BY <1>8, <1>9, <1>10, <2>1, <2>2 DEF HugeMapping
  <1>12. ASSUME NEW a \in DOMAIN o2 PROVE Lives(mp, ars, h2, o2, a)
    <2>1. CASE a = c
      BY <1>3, <1>8, <1>10, <2>1 DEF Lives
    <2>2. CASE a # c
      <3>1. a \in DOMAIN ob /\ Lives(mp, ars, hd, ob, a) /\ o2[a] = ob[a]
        BY <1>1, <1>10, <2>2
      <3> QED
        BY <1>8, <2>2, <3>1 DEF Lives
    <2> QED
      BY <2>1, <2>2
  <1> QED
    BY <1>1, <1>7, <1>8, <1>11, <1>12 DEF Memory, hs

\* alloc_arena in a free slot.
LEMMA ArenaMemory ==
  ASSUME NEW mp, NEW ars, NEW hd, NEW ft, NEW ls, NEW ob, Memory(mp, ars, hd, ft, ls, ob),
         NEW i \in Slots, mp[i] = 0,
         NEW m2, m2 = [mp EXCEPT ![i] = arena_size],
         NEW h2, h2 = ArenaHead(hd, i), NEW f2, f2 = ArenaFoot(ft, i),
         NEW l2, l2 = AddChunk(ls, FirstChunk(i), Limit)
  PROVE  /\ Memory(m2, ars \cup {i}, h2, f2, l2, ob)
         /\ i \notin ars
         /\ FirstChunk(i) \in Free(h2, ars \cup {i}) /\ h2[FirstChunk(i)].size = Limit
  <1> DEFINE hs == HugeIn(mp, ars)
  <1>1. /\ mp \in [Slots -> Nat] /\ Laid(hd, ft, ars, hs) /\ Holds(ls, FreeBins(hd, ars))
        /\ \A j \in ars : mp[j] = arena_size
        /\ \A j \in hs : HugeMapping(mp, hd, ob, j)
        /\ \A a \in DOMAIN ob : Lives(mp, ars, hd, ob, a)
    BY DEF Memory
  <1>2. arena_size \in Nat /\ arena_size > 0
    BY LimitSize, Constants DEF ChunkSize
  <1>3. i \notin ars /\ i \notin hs
    BY <1>1, <1>2 DEF HugeIn
  <1>4. /\ m2 \in [Slots -> Nat] /\ m2[i] = arena_size
        /\ \A j \in Slots : j # i => m2[j] = mp[j]
    BY <1>1, <1>2
  <1>5. HugeIn(m2, ars \cup {i}) = hs
    BY <1>3, <1>4 DEF HugeIn
  <1> HIDE DEF hs
  <1>6. Laid(h2, f2, ars \cup {i}, hs)
    BY <1>1, <1>3, ArenaTiles
  <1>7. /\ ~h2[FirstChunk(i)].used /\ h2[FirstChunk(i)].size = Limit
        /\ Cs(h2, i) = {FirstChunk(i)}
        /\ \A x \in DOMAIN hd : x \in DOMAIN h2 /\ h2[x] = hd[x]
        /\ \A j \in ars : Cs(h2, j) = Cs(hd, j)
    BY <1>1, <1>3, <1>6, ArenaTiles
  <1>8. Holds(l2, FreeBins(h2, ars \cup {i}))
    BY <1>1, <1>3, ArenaHolds
  <1>9. FirstChunk(i) \in Free(h2, ars \cup {i})
    BY <1>7 DEF Free
  <1>10. ars \subseteq Slots
    BY <1>1 DEF Laid
  <1>11. \A j \in ars \cup {i} : m2[j] = arena_size
    BY <1>1, <1>3, <1>4, <1>10
  <1>12. ASSUME NEW j \in hs PROVE HugeMapping(m2, h2, ob, j)
    <2>1. Base(j) \in DOMAIN ob /\ mp[j] = hd[Base(j)].size /\ Limit <= mp[j] /\ mp[j] <= Stride
      BY <1>1 DEF HugeMapping
    <2>2. Base(j) \in DOMAIN hd
      BY <1>1, <2>1 DEF Lives
    <2>3. j \in Slots /\ j # i
      BY <1>3 DEF HugeIn, hs
    <2> QED
      BY <1>4, <1>7, <2>1, <2>2, <2>3 DEF HugeMapping
  <1>13. ASSUME NEW a \in DOMAIN ob PROVE Lives(m2, ars \cup {i}, h2, ob, a)
    <2>1. Lives(mp, ars, hd, ob, a)
      BY <1>1
    <2> QED
      BY <1>5, <1>7, <2>1 DEF Lives, hs
  <1> QED
    BY <1>3, <1>4, <1>5, <1>6, <1>7, <1>8, <1>9, <1>11, <1>12, <1>13 DEF Memory

\* alloc_huge in a free slot.
LEMMA HugeMemory ==
  ASSUME NEW mp, NEW ars, NEW hd, NEW ft, NEW ls, NEW ob, Memory(mp, ars, hd, ft, ls, ob),
         NEW i \in Slots, mp[i] = 0,
         NEW size \in Sizes, NEW n, n = SizeIncludingHeader(size), Limit <= n,
         NEW m2, m2 = [mp EXCEPT ![i] = n],
         NEW h2, h2 = HugeHead(hd, i, n), NEW o2, o2 = Put(ob, Base(i), size)
  PROVE  Memory(m2, ars, h2, ft, ls, o2)
  <1> DEFINE hs == HugeIn(mp, ars)
  <1>1. /\ mp \in [Slots -> Nat] /\ Laid(hd, ft, ars, hs) /\ Holds(ls, FreeBins(hd, ars))
        /\ \A j \in ars : mp[j] = arena_size
        /\ \A j \in hs : HugeMapping(mp, hd, ob, j)
        /\ \A a \in DOMAIN ob : Lives(mp, ars, hd, ob, a)
    BY DEF Memory
  <1>2. n \in Nat /\ n > 0 /\ n <= Stride
    BY RequestSize, Constants DEF ChunkSize
  <1>3. i \notin ars /\ i \notin hs
    <2>1. arena_size \in Nat /\ arena_size > 0
      BY LimitSize, Constants DEF ChunkSize
    <2> QED
      BY <1>1, <2>1 DEF HugeIn
  <1>4. /\ m2 \in [Slots -> Nat] /\ m2[i] = n
        /\ \A j \in Slots : j # i => m2[j] = mp[j]
    BY <1>1, <1>2
  <1>5. HugeIn(m2, ars) = hs \cup {i}
    BY <1>2, <1>3, <1>4 DEF HugeIn
  <1> HIDE DEF hs
  <1>6. Laid(h2, ft, ars, hs \cup {i})
    BY <1>1, <1>2, <1>3, HugeLaid
  <1>7. /\ Base(i) \notin DOMAIN hd /\ DOMAIN h2 = DOMAIN hd \cup {Base(i)}
        /\ h2[Base(i)].size = n /\ h2[Base(i)].used
        /\ \A x \in DOMAIN hd : h2[x] = hd[x]
        /\ \A j \in ars : Cs(h2, j) = Cs(hd, j)
        /\ FreeBins(h2, ars) = FreeBins(hd, ars)
    BY <1>1, <1>2, <1>3, <1>6, HugeLaid
  <1>8. Holds(ls, FreeBins(h2, ars))
    BY <1>1, <1>7
  <1>9. Base(i) \notin DOMAIN ob
    BY <1>1, <1>7 DEF Lives
  <1>10. DOMAIN o2 = DOMAIN ob \cup {Base(i)} /\ o2[Base(i)] = size /\ \A a \in DOMAIN ob : o2[a] = ob[a]
    BY <1>9 DEF Put
  <1>11. \A j \in ars : m2[j] = arena_size
    BY <1>1, <1>3, <1>4 DEF Laid
  <1>12. ASSUME NEW j \in hs \cup {i} PROVE HugeMapping(m2, h2, o2, j)
    <2>1. CASE j = i
      BY <1>2, <1>4, <1>7, <1>10, <2>1 DEF HugeMapping
    <2>2. CASE j # i
      <3>1. Base(j) \in DOMAIN ob /\ mp[j] = hd[Base(j)].size /\ Limit <= mp[j] /\ mp[j] <= Stride
        BY <1>1, <2>2 DEF HugeMapping
      <3>2. Base(j) \in DOMAIN hd
        BY <1>1, <3>1 DEF Lives
      <3>3. j \in Slots
        BY <2>2 DEF HugeIn, hs
      <3> QED
        BY <1>4, <1>7, <1>10, <2>2, <3>1, <3>2, <3>3 DEF HugeMapping
    <2> QED
      BY <2>1, <2>2
  <1>13. ASSUME NEW a \in DOMAIN o2 PROVE Lives(m2, ars, h2, o2, a)
    <2>1. CASE a = Base(i)
      <3>1. o2[a] = size /\ a \in DOMAIN h2 /\ h2[a].used /\ h2[a].size = n
        BY <1>7, <1>10, <2>1
      <3>2. SizeIncludingHeader(o2[a]) <= h2[a].size
        BY <1>2, <3>1
      <3>3. \E j \in HugeIn(m2, ars) : a = Base(j)
        BY <1>5, <2>1
      <3> QED
        BY <3>1, <3>2, <3>3 DEF Lives
    <2>2. CASE a # Base(i)
      <3>1. a \in DOMAIN ob /\ Lives(mp, ars, hd, ob, a) /\ o2[a] = ob[a]
        BY <1>1, <1>10, <2>2
      <3> QED
        BY <1>5, <1>7, <3>1 DEF Lives, hs
    <2> QED
      BY <2>1, <2>2
  <1> QED
    BY <1>4, <1>5, <1>6, <1>8, <1>11, <1>12, <1>13 DEF Memory

\* Different mappings start at different addresses, and no chunk of an arena starts
\* where a mapping does.
LEMMA BasesDiffer ==
  ASSUME NEW i \in Slots, NEW j \in Slots, Base(i) = Base(j)
  PROVE  i = j
  BY ArenaAddresses, OneMap

\* A chunk of an arena does not start a mapping, so munmap would refuse it.
LEMMA ChunkNotBase ==
  ASSUME NEW hd, NEW ft, Typed(hd, ft), NEW i \in Slots, NEW a \in Cs(hd, i), NEW j \in Slots
  PROVE  a # Base(j)
  <1>1. a \in Nat /\ InMap(i, a) /\ a # Base(i)
    BY ChunkInMap
  <1> QED
    BY <1>1, ArenaAddresses, OneMap

\* delete gives a huge chunk back.
LEMMA HugeGoneMemory ==
  ASSUME NEW mp, NEW ars, NEW hd, NEW ft, NEW ls, NEW ob, Memory(mp, ars, hd, ft, ls, ob),
         NEW i \in Slots, Base(i) \in DOMAIN ob,
         NEW m2, m2 = [mp EXCEPT ![i] = 0],
         NEW h2, Drops(hd, h2, Base(i)), NEW o2, Drops(ob, o2, Base(i))
  PROVE  Memory(m2, ars, h2, ft, ls, o2)
  <1> DEFINE hs == HugeIn(mp, ars)
  <1>1. /\ mp \in [Slots -> Nat] /\ Laid(hd, ft, ars, hs) /\ Holds(ls, FreeBins(hd, ars))
        /\ \A j \in ars : mp[j] = arena_size
        /\ \A j \in hs : HugeMapping(mp, hd, ob, j)
        /\ \A a \in DOMAIN ob : Lives(mp, ars, hd, ob, a)
    BY DEF Memory
  <1>2. Typed(hd, ft) /\ ars \subseteq Slots /\ hs \subseteq Slots /\ ars \cap hs = {}
    BY <1>1 DEF Laid
  <1>3. i \in hs
    <2>1. Lives(mp, ars, hd, ob, Base(i))
      BY <1>1
    <2>2. \A j \in ars : Base(i) \notin Cs(hd, j)
      BY <1>2, ChunkNotBase
    <2>3. PICK j \in hs : Base(i) = Base(j)
      BY <2>1, <2>2 DEF Lives
    <2> QED
      BY <1>2, <2>3, BasesDiffer
  <1>4. /\ m2 \in [Slots -> Nat] /\ m2[i] = 0
        /\ \A j \in Slots : j # i => m2[j] = mp[j]
    BY <1>1
  <1>5. HugeIn(m2, ars) = hs \ {i}
    BY <1>4 DEF HugeIn
  <1> HIDE DEF hs
  <1>6. Laid(h2, ft, ars, hs \ {i})
    BY <1>1, <1>3, HugeGone
  <1>7. /\ DOMAIN h2 = DOMAIN hd \ {Base(i)}
        /\ \A x \in DOMAIN h2 : h2[x] = hd[x]
        /\ \A j \in ars : Cs(h2, j) = Cs(hd, j)
        /\ FreeBins(h2, ars) = FreeBins(hd, ars)
    <2>1. Laid(hd, ft, ars, hs)
      BY <1>1
    <2>2. /\ \A j \in ars : Cs(h2, j) = Cs(hd, j)
          /\ FreeBins(h2, ars) = FreeBins(hd, ars)
      BY <1>3, <1>6, <2>1, HugeGone
    <2> QED
      BY <2>2 DEF Drops
  <1>8. Holds(ls, FreeBins(h2, ars))
    BY <1>1, <1>7
  <1>9. DOMAIN o2 = DOMAIN ob \ {Base(i)} /\ \A a \in DOMAIN o2 : o2[a] = ob[a]
    BY DEF Drops
  <1>10. \A j \in ars : m2[j] = arena_size
    BY <1>1, <1>2, <1>3, <1>4
  <1>11. ASSUME NEW j \in hs \ {i} PROVE HugeMapping(m2, h2, o2, j)
    <2>1. Base(j) \in DOMAIN ob /\ mp[j] = hd[Base(j)].size /\ Limit <= mp[j] /\ mp[j] <= Stride
      BY <1>1 DEF HugeMapping
    <2>2. Base(j) \in DOMAIN hd
      BY <1>1, <2>1 DEF Lives
    <2>3. j \in Slots /\ j # i /\ Base(j) # Base(i)
      BY <1>2, BasesDiffer
    <2> QED
      BY <1>4, <1>7, <1>9, <2>1, <2>2, <2>3 DEF HugeMapping
  <1>12. ASSUME NEW a \in DOMAIN o2 PROVE Lives(m2, ars, h2, o2, a)
    <2>1. a \in DOMAIN ob /\ Lives(mp, ars, hd, ob, a) /\ o2[a] = ob[a] /\ a # Base(i)
      BY <1>1, <1>9
    <2>2. a \in DOMAIN h2 /\ h2[a] = hd[a]
      BY <1>7, <2>1 DEF Lives
    <2>3. CASE \E j \in ars : a \in Cs(hd, j)
      BY <1>7, <2>1, <2>2, <2>3 DEF Lives
    <2>4. CASE \E j \in hs : a = Base(j)
      <3>1. \E j \in hs \ {i} : a = Base(j)
        BY <2>1, <2>4
      <3> QED
        BY <1>5, <2>1, <2>2, <3>1 DEF Lives
    <2> QED
      BY <2>1, <2>3, <2>4 DEF Lives, hs
  <1> QED
    BY <1>4, <1>5, <1>6, <1>8, <1>10, <1>11, <1>12 DEF Memory

\* delete of a chunk that munmap refuses: only the object goes.
LEMMA RefusedMemory ==
  ASSUME NEW mp, NEW ars, NEW hd, NEW ft, NEW ls, NEW ob, Memory(mp, ars, hd, ft, ls, ob),
         NEW a \in DOMAIN ob, \A i \in Slots : a # Base(i),
         NEW o2, Drops(ob, o2, a)
  PROVE  Memory(mp, ars, hd, ft, ls, o2)
  <1>1. DOMAIN o2 = DOMAIN ob \ {a} /\ \A b \in DOMAIN o2 : o2[b] = ob[b]
    BY DEF Drops
  <1>2. ASSUME NEW j \in HugeIn(mp, ars) PROVE HugeMapping(mp, hd, o2, j)
    <2>1. HugeMapping(mp, hd, ob, j) /\ j \in Slots
      BY DEF Memory, HugeIn
    <2> QED
      BY <1>1, <2>1 DEF HugeMapping
  <1>3. ASSUME NEW b \in DOMAIN o2 PROVE Lives(mp, ars, hd, o2, b)
    <2>1. Lives(mp, ars, hd, ob, b) /\ o2[b] = ob[b]
      BY <1>1 DEF Memory
    <2> QED
      BY <2>1 DEF Lives
  <1> QED
    BY <1>2, <1>3 DEF Memory

\* What delete makes of headers, footers and bins for the chunk a of an arena.
Deleted(hd, ft, ls, a, p, next, e, h2, f2, l2) ==
    /\ p = IF hd[a].prev_used THEN a ELSE a - ft[a]
    /\ next = a + hd[a].size
    /\ e = IF hd[next].used THEN next ELSE next + hd[next].size
    /\ h2 = MergedHead(hd, a, p, next, e) /\ f2 = MergedFoot(ft, a, p, next, e)
    /\ \E l1 : /\ l1 = IF p = a THEN ls ELSE DeleteFrom(ls, ListOfSize(ft[a]), p)
               /\ l2 = IF hd[next].used THEN l1 ELSE DeleteFrom(l1, ListOfSize(hd[next].size), next)

\* delete of a chunk of an arena.
LEMMA ChunkGoneMemory ==
  ASSUME NEW mp, NEW ars, NEW hd, NEW ft, NEW ls, NEW ob, Memory(mp, ars, hd, ft, ls, ob),
         NEW a \in DOMAIN ob, hd[a].size < Limit, NEW p, NEW next, NEW e, NEW h2, NEW f2, NEW l2,
         Deleted(hd, ft, ls, a, p, next, e, h2, f2, l2), NEW o2, Drops(ob, o2, a)
  PROVE  Memory(mp, ars, h2, f2, AddChunk(l2, p, e - p), o2)
  <1> DEFINE hs == HugeIn(mp, ars)
             R == {a, next} \ {p, e}
  <1>1. /\ mp \in [Slots -> Nat] /\ Laid(hd, ft, ars, hs) /\ Holds(ls, FreeBins(hd, ars))
        /\ \A j \in ars : mp[j] = arena_size
        /\ \A j \in hs : HugeMapping(mp, hd, ob, j)
        /\ \A b \in DOMAIN ob : Lives(mp, ars, hd, ob, b)
    BY DEF Memory
  <1>2. Typed(hd, ft) /\ ars \subseteq Slots /\ hs \subseteq Slots /\ ars \cap hs = {}
    BY <1>1 DEF Laid
  <1>3. Lives(mp, ars, hd, ob, a) /\ hd[a].used
    BY <1>1 DEF Lives
  <1>4. PICK i \in ars : a \in Cs(hd, i)
    <2>1. ASSUME NEW j \in hs PROVE a # Base(j)
      <3>1. a = Base(j) => Limit <= hd[a].size /\ hd[a].size \in Nat
        BY <1>1, <1>2 DEF HugeMapping
      <3> QED
        BY <3>1, LimitSize DEF ChunkSize
    <2> QED
      BY <1>3, <2>1 DEF Lives
  <1> HIDE DEF hs
  <1>5. Laid(hd, ft, ars, hs) /\ i \in ars /\ a \in Cs(hd, i) /\ hd[a].used
    BY <1>1, <1>3, <1>4
  <1>6. MergedSpan(hd, ft, i, a, p, next, e) /\ (next = e <=> hd[next].used)
    <2>1. /\ p = IF hd[a].prev_used THEN a ELSE a - ft[a]
          /\ next = a + hd[a].size
          /\ e = IF hd[next].used THEN next ELSE next + hd[next].size
      BY DEF Deleted
    <2>2. MergedSpan(hd, ft, i, a, p, next, e)
      BY <1>5, <2>1, MergeSpans
    <2>3. next = e <=> hd[next].used
      BY <1>5, <2>1, <2>2, MergeSpans
    <2> QED
      BY <2>2, <2>3
  <1>7. MergedTags(hd, ft, h2, f2, a, p, next, e)
    <2>1. h2 = MergedHead(hd, a, p, next, e) /\ f2 = MergedFoot(ft, a, p, next, e)
      BY DEF Deleted
    <2> QED
      BY <1>5, <1>6, <2>1, MergeTags
  <1>8. Laid(h2, f2, ars, hs)
    BY <1>5, <1>6, <1>7, MergeLaid
  <1>9. Holds(AddChunk(l2, p, e - p), FreeBins(h2, ars))
    <2>1. PICK l1 : /\ l1 = IF p = a THEN ls ELSE DeleteFrom(ls, ListOfSize(ft[a]), p)
                    /\ l2 = IF next = e THEN l1 ELSE DeleteFrom(l1, ListOfSize(hd[next].size), next)
      BY <1>6 DEF Deleted
    <2>2. Holds(ls, FreeBins(hd, ars))
      BY <1>1
    <2> QED
      BY <1>5, <1>6, <1>7, <2>1, <2>2, MergeHolds
  <1>10. /\ \A j \in ars \ {i} : Cs(h2, j) = Cs(hd, j)
         /\ Cs(h2, i) = Cs(hd, i) \ R
    BY <1>5, <1>6, <1>7, <1>8, MergeLaid
  <1>11. DOMAIN o2 = DOMAIN ob \ {a} /\ \A b \in DOMAIN o2 : o2[b] = ob[b]
    BY DEF Drops
  <1>12. ASSUME NEW b \in DOMAIN o2
         PROVE  b \in DOMAIN h2 /\ b \notin R /\ h2[b].used /\ h2[b].size = hd[b].size
    <2>1. b \in DOMAIN hd /\ hd[b].used /\ b # a
      BY <1>1, <1>11 DEF Lives
    <2>2. b # p /\ (b = next => next = e)
      BY <1>6, <2>1 DEF MergedSpan
    <2>3. b \notin R
      BY <2>1, <2>2
    <2>4. b \in DOMAIN h2
      BY <1>7, <2>1, <2>3 DEF MergedTags
    <2>5. CASE b = e
      BY <1>7, <2>1, <2>3, <2>4, <2>5 DEF MergedTags
    <2>6. CASE b # e
      <3>1. h2[b] = hd[b]
        BY <1>7, <2>2, <2>4, <2>6 DEF MergedTags
      <3> QED
        BY <2>1, <2>3, <2>4, <3>1
    <2> HIDE DEF R
    <2> QED
      BY <2>5, <2>6
  <1> HIDE DEF R
  <1>13. ASSUME NEW b \in DOMAIN o2 PROVE Lives(mp, ars, h2, o2, b)
    <2>1. Lives(mp, ars, hd, ob, b) /\ o2[b] = ob[b]
      BY <1>1, <1>11
    <2>2. \A j \in ars : b \in Cs(hd, j) => b \in Cs(h2, j)
      BY <1>10, <1>12
    <2> QED
      BY <1>12, <2>1, <2>2 DEF Lives
  <1>14. ASSUME NEW j \in hs PROVE HugeMapping(mp, h2, o2, j)
    <2>1. Base(j) \in DOMAIN ob /\ mp[j] = hd[Base(j)].size /\ Limit <= mp[j] /\ mp[j] <= Stride
      BY <1>1 DEF HugeMapping
    <2>2. Base(j) # a
      BY <1>2, <1>4, ChunkNotBase
    <2>3. Base(j) \in DOMAIN o2
      BY <1>11, <2>1, <2>2
    <2> QED
      BY <1>12, <2>1, <2>3 DEF HugeMapping
  <1> QED
    BY <1>1, <1>8, <1>9, <1>13, <1>14 DEF Memory, hs

\* A heap without arenas and without objects.
LEMMA EmptyMemory ==
  ASSUME NEW mp \in [Slots -> Nat], \A i \in Slots : mp[i] = 0, NEW ob, DOMAIN ob = {}
  PROVE  Memory(mp, {}, <<>>, <<>>, NoLists, ob)
  <1>1. HugeIn(mp, {}) = {}
    BY DEF HugeIn
  <1> QED
    BY <1>1, NoArenas DEF Memory

\* Without objects, only arenas are mapped.
LEMMA OnlyArenas ==
  ASSUME NEW mp, NEW ars, NEW hd, NEW ft, NEW ls, NEW ob, Memory(mp, ars, hd, ft, ls, ob), DOMAIN ob = {},
         NEW i \in Slots, i \notin ars
  PROVE  mp[i] = 0
  <1>1. mp[i] \in Nat /\ HugeIn(mp, ars) = {}
    BY DEF Memory, HugeMapping
  <1> QED
    BY <1>1 DEF HugeIn

-----------------------------------------------------------------------------
(* The inductive invariant.                                                *)

\* What every reachable state satisfies: the types, and memory in which mappings,
\* tags, bins and objects agree.
IInv == TypeOK /\ Memory(maps, arenas, head, foot, lists, objs)

\* The part of TypeOK that memory implies.
LEMMA MemoryTyped ==
  ASSUME NEW mp, NEW ars, NEW hd, NEW ft, NEW ls, NEW ob, Memory(mp, ars, hd, ft, ls, ob)
  PROVE  /\ mp \in [Slots -> Nat] /\ ars \subseteq Slots
         /\ DOMAIN hd \cup DOMAIN ft \subseteq Nat
         /\ \A a \in DOMAIN hd : hd[a] \in [prev_used : BOOLEAN, size : Nat, used : BOOLEAN]
         /\ \A a \in DOMAIN ft : ft[a] \in Nat
         /\ ls \in [Bins -> Seq(Nat)]
         /\ \A a \in DOMAIN ob : ob[a] \in Sizes
  BY DEF Memory, Laid, Typed, ChunkHeaders, Holds, Lives

\* The other part.
Rest == /\ dead \subseteq DOMAIN objs
        /\ allocated_size \in Nat
        /\ {compaction_flag, major_gc_flag, failed} \subseteq BOOLEAN

\* Memory and the rest make the invariant, before a step and after it.
LEMMA Together ==
  IInv <=> Memory(maps, arenas, head, foot, lists, objs) /\ Rest
  BY MemoryTyped DEF IInv, TypeOK, Rest

LEMMA TogetherNext ==
  ASSUME Memory(maps', arenas', head', foot', lists', objs'), Rest'
  PROVE  IInv'
  <1>1. /\ maps' \in [Slots -> Nat] /\ arenas' \subseteq Slots
        /\ DOMAIN head' \cup DOMAIN foot' \subseteq Nat
        /\ \A a \in DOMAIN head' : head'[a] \in [prev_used : BOOLEAN, size : Nat, used : BOOLEAN]
        /\ \A a \in DOMAIN foot' : foot'[a] \in Nat
        /\ lists' \in [Bins -> Seq(Nat)]
        /\ \A a \in DOMAIN objs' : objs'[a] \in Sizes
    BY MemoryTyped
  <1> QED
    BY <1>1 DEF IInv, TypeOK, Rest

\* mmap finds a slot that is not mapped.
LEMMA NewSlotFree ==
  ASSUME CanMap
  PROVE  NewSlot \in Slots /\ maps[NewSlot] = 0
  <1> DEFINE S == {i \in Slots : maps[i] = 0}
  <1>1. S \in SUBSET Nat /\ S # {}
    BY Constants DEF CanMap, Slots
  <1>2. Min(S) \in S
    BY <1>1, LeastOf
  <1> QED
    BY <1>2 DEF NewSlot

\* YogMarkSweepCompact_new sets up memory that agrees.
LEMMA InitInv ==
  Init => IInv
  <1> SUFFICES ASSUME Init PROVE IInv
    OBVIOUS
  <1> DEFINE z == [i \in Slots |-> 0]
  <1>1. 1 \in Slots
    BY Constants DEF Slots
  <1>2. DOMAIN objs = {} /\ objs = <<>>
    BY DEF Init
  <1>3. z \in [Slots -> Nat] /\ z[1] = 0 /\ \A i \in Slots : z[i] = 0
    BY <1>1
  <1>4. maps = [z EXCEPT ![1] = arena_size]
    BY <1>1 DEF Init
  <1> HIDE DEF z
  <1>5. Memory(z, {}, <<>>, <<>>, NoLists, objs)
    BY <1>2, <1>3, EmptyMemory
  <1>6. /\ head = ArenaHead(<<>>, 1) /\ foot = ArenaFoot(<<>>, 1)
        /\ lists = AddChunk(NoLists, FirstChunk(1), Limit) /\ arenas = {} \cup {1}
    BY DEF Init
  <1>7. Memory(maps, {} \cup {1}, head, foot, lists, objs)
    BY <1>1, <1>3, <1>4, <1>5, <1>6, ArenaMemory
  <1>8. Memory(maps, arenas, head, foot, lists, objs)
    BY <1>6, <1>7
  <1>9. Rest
    BY DEF Init, Rest
  <1> QED
    BY <1>8, <1>9, Together

\* The counter and the flags of an allocation.
LEMMA TurnOnTyped ==
  ASSUME NEW n \in Nat, TurnOnMajorOrCompaction(n), allocated_size \in Nat,
         {compaction_flag, major_gc_flag} \subseteq BOOLEAN
  PROVE  allocated_size' \in Nat /\ {compaction_flag', major_gc_flag'} \subseteq BOOLEAN
  <1>1. PICK compact \in BOOLEAN : allocated_size' = (IF compact THEN 0 ELSE allocated_size) + n
    BY DEF TurnOnMajorOrCompaction
  <1>2. allocated_size' \in Nat
    BY <1>1
  <1>3. compaction_flag' \in BOOLEAN /\ major_gc_flag' \in BOOLEAN
    BY DEF TurnOnMajorOrCompaction
  <1> QED
    BY <1>2, <1>3

\* The flags at the end of a major collection.
LEMMA EndMajorTyped ==
  ASSUME EndMajor \/ UNCHANGED flagVars, allocated_size \in Nat,
         {compaction_flag, major_gc_flag} \subseteq BOOLEAN
  PROVE  allocated_size' \in Nat /\ {compaction_flag', major_gc_flag'} \subseteq BOOLEAN
  BY DEF EndMajor, flagVars

\* An allocation from a free chunk keeps the invariant.
LEMMA AllocInv ==
  ASSUME IInv, NEW size \in Sizes, Alloc(size), UNCHANGED <<dead, failed>>
  PROVE  IInv'
  <1> DEFINE n == SizeIncludingHeader(size)
             f == FindBestChunk(head, lists, n)
  <1>1. Memory(maps, arenas, head, foot, lists, objs) /\ Rest
    BY Together
  <1>2. ChunkSize(n) /\ n \in Nat
    BY RequestSize DEF ChunkSize
  <1>3. Laid(head, foot, arenas, HugeIn(maps, arenas)) /\ Holds(lists, FreeBins(head, arenas))
    BY <1>1 DEF Memory
  <1>4. f # NoChunk
    BY DEF Alloc
  <1>5. Best(head, Free(head, arenas), f, n)
    <2> HIDE DEF n
    <2> QED
      BY <1>2, <1>3, <1>4, FindsBest
  <1>6. /\ head' = TakeHead(head, f.chunk, n)
        /\ foot' = TakeFoot(head, foot, f.chunk, n)
        /\ lists' = TakeLists(head, lists, f, n)
        /\ objs' = Put(objs, f.chunk, size)
        /\ TurnOnMajorOrCompaction(n)
        /\ maps' = maps /\ arenas' = arenas
    BY DEF Alloc, Take
  <1>7. n = SizeIncludingHeader(size)
    OBVIOUS
  <1> HIDE DEF n, f
  <1>8. Memory(maps, arenas, head', foot', lists', objs')
    BY <1>1, <1>5, <1>6, <1>7, TakeMemory
  <1>9. DOMAIN objs' = DOMAIN objs \cup {f.chunk}
    BY <1>6 DEF Put
  <1>10. Rest'
    <2>1. allocated_size' \in Nat /\ {compaction_flag', major_gc_flag'} \subseteq BOOLEAN
      BY <1>1, <1>2, <1>6, TurnOnTyped DEF Rest
    <2>2. dead' \subseteq DOMAIN objs' /\ failed' \in BOOLEAN
      BY <1>1, <1>9 DEF Rest
    <2> QED
      BY <2>1, <2>2 DEF Rest
  <1>11. Memory(maps', arenas', head', foot', lists', objs')
    BY <1>6, <1>8
  <1> QED
    BY <1>10, <1>11, TogetherNext

\* So does one that needs another arena, and it adds that arena.
LEMMA AllocInNewArenaInv ==
  ASSUME IInv, NEW size \in Sizes, AllocInNewArena(size), UNCHANGED <<dead, failed>>
  PROVE  IInv' /\ arenas' # arenas
  <1> DEFINE n == SizeIncludingHeader(size)
             i == NewSlot
             hd == ArenaHead(head, i)
             ft == ArenaFoot(foot, i)
             ls == AddChunk(lists, FirstChunk(i), Limit)
             f == FindBestChunk(hd, ls, n)
  <1>1. Memory(maps, arenas, head, foot, lists, objs) /\ Rest
    BY Together
  <1>2. ChunkSize(n) /\ n \in Nat
    BY RequestSize DEF ChunkSize
  <1>3. i \in Slots /\ maps[i] = 0
    BY NewSlotFree DEF AllocInNewArena
  <1>4. /\ n < Limit
        /\ maps' = [maps EXCEPT ![i] = arena_size] /\ arenas' = arenas \cup {i}
        /\ head' = TakeHead(hd, f.chunk, n)
        /\ foot' = TakeFoot(hd, ft, f.chunk, n)
        /\ lists' = TakeLists(hd, ls, f, n)
        /\ objs' = Put(objs, f.chunk, size)
        /\ TurnOnMajorOrCompaction(n)
    BY DEF AllocInNewArena, Take
  <1>5. n = SizeIncludingHeader(size) /\ hd = ArenaHead(head, i) /\ ft = ArenaFoot(foot, i)
        /\ ls = AddChunk(lists, FirstChunk(i), Limit) /\ f = FindBestChunk(hd, ls, n)
    OBVIOUS
  <1> HIDE DEF n, i, hd, ft, ls, f
  <1> DEFINE ars == arenas \cup {i}
  <1>6. /\ Memory(maps', ars, hd, ft, ls, objs) /\ i \notin arenas
        /\ FirstChunk(i) \in Free(hd, ars) /\ hd[FirstChunk(i)].size = Limit
    <2>1. Memory(maps', arenas \cup {i}, hd, ft, ls, objs)
      BY <1>1, <1>3, <1>4, <1>5, ArenaMemory
    <2>2. /\ i \notin arenas /\ FirstChunk(i) \in Free(hd, arenas \cup {i})
          /\ hd[FirstChunk(i)].size = Limit
      BY <1>1, <1>3, <1>4, <1>5, <2>1, ArenaMemory
    <2> QED
      BY <2>1, <2>2
  <1> HIDE DEF ars
  <1>7. Laid(hd, ft, ars, HugeIn(maps', ars)) /\ Holds(ls, FreeBins(hd, ars))
    BY <1>6 DEF Memory
  <1>8. f # NoChunk
    <2> SUFFICES ASSUME f = NoChunk PROVE FALSE
      OBVIOUS
    <2>1. hd[FirstChunk(i)].size < n
      BY <1>2, <1>5, <1>6, <1>7, FindsBest
    <2> QED
      BY <1>2, <1>4, <1>6, <2>1, LimitSize DEF ChunkSize
  <1>9. Best(hd, Free(hd, ars), f, n)
    BY <1>2, <1>5, <1>7, <1>8, FindsBest
  <1>10. Memory(maps', ars, head', foot', lists', objs')
    BY <1>4, <1>5, <1>6, <1>9, TakeMemory
  <1>11. DOMAIN objs' = DOMAIN objs \cup {f.chunk}
    BY <1>4 DEF Put
  <1>12. Rest'
    <2>1. allocated_size' \in Nat /\ {compaction_flag', major_gc_flag'} \subseteq BOOLEAN
      BY <1>1, <1>2, <1>4, TurnOnTyped DEF Rest
    <2>2. dead' \subseteq DOMAIN objs' /\ failed' \in BOOLEAN
      BY <1>1, <1>11 DEF Rest
    <2> QED
      BY <2>1, <2>2 DEF Rest
  <1>13. arenas' = ars
    BY <1>4 DEF ars
  <1>14. Memory(maps', arenas', head', foot', lists', objs') /\ Rest'
    BY <1>10, <1>12, <1>13
  <1> QED
    BY <1>4, <1>6, <1>14, TogetherNext

\* So does alloc_huge.
LEMMA AllocHugeInv ==
  ASSUME IInv, NEW size \in Sizes, AllocHuge(size), UNCHANGED <<dead, failed>>
  PROVE  IInv'
  <1> DEFINE n == SizeIncludingHeader(size)
             i == NewSlot
  <1>1. Memory(maps, arenas, head, foot, lists, objs) /\ Rest
    BY Together
  <1>2. i \in Slots /\ maps[i] = 0
    BY NewSlotFree DEF AllocHuge
  <1>3. /\ Limit <= n
        /\ maps' = [maps EXCEPT ![i] = n]
        /\ head' = HugeHead(head, i, n)
        /\ objs' = Put(objs, Base(i), size)
        /\ arenas' = arenas /\ foot' = foot /\ lists' = lists
        /\ allocated_size' = allocated_size /\ compaction_flag' = compaction_flag
        /\ major_gc_flag' = major_gc_flag
    BY DEF AllocHuge, HugeHead, flagVars
  <1>4. n = SizeIncludingHeader(size)
    OBVIOUS
  <1> HIDE DEF n, i
  <1>5. Memory(maps', arenas, head', foot, lists, objs')
    BY <1>1, <1>2, <1>3, <1>4, HugeMemory
  <1>6. DOMAIN objs' = DOMAIN objs \cup {Base(i)}
    BY <1>3 DEF Put
  <1>7. Rest'
    BY <1>1, <1>3, <1>6 DEF Rest
  <1>8. Memory(maps', arenas', head', foot', lists', objs') /\ Rest'
    BY <1>3, <1>5, <1>7
  <1> QED
    BY <1>8, TogetherNext

\* Finding garbage changes no memory.
LEMMA SweepInv ==
  ASSUME IInv, NEW garbage \in SUBSET DOMAIN objs, Sweep(garbage)
  PROVE  IInv'
  <1>1. Memory(maps, arenas, head, foot, lists, objs) /\ Rest
    BY Together
  <1>2. /\ dead' = garbage /\ (EndMajor \/ UNCHANGED flagVars)
        /\ maps' = maps /\ arenas' = arenas /\ head' = head /\ foot' = foot
        /\ lists' = lists /\ objs' = objs /\ failed' = failed
    BY DEF Sweep, memVars
  <1>3. allocated_size' \in Nat /\ {compaction_flag', major_gc_flag'} \subseteq BOOLEAN
    BY <1>1, <1>2, EndMajorTyped DEF Rest
  <1>4. Rest'
    BY <1>1, <1>2, <1>3 DEF Rest
  <1>5. Memory(maps', arenas', head', foot', lists', objs') /\ Rest'
    BY <1>1, <1>2, <1>4
  <1> QED
    BY <1>5, TogetherNext

\* delete_heap leaves empty memory: without objects, every mapping is an arena.
LEMMA DeleteHeapInv ==
  ASSUME IInv, DeleteHeap
  PROVE  IInv'
  <1>1. Memory(maps, arenas, head, foot, lists, objs) /\ Rest
    BY Together
  <1>2. /\ DOMAIN objs = {}
        /\ maps' = [i \in Slots |-> IF i \in arenas THEN 0 ELSE maps[i]]
        /\ arenas' = {} /\ head' = <<>> /\ foot' = <<>> /\ lists' = NoLists
        /\ objs' = objs /\ dead' = dead /\ failed' = failed
        /\ allocated_size' = allocated_size /\ compaction_flag' = compaction_flag
        /\ major_gc_flag' = major_gc_flag
    BY DEF DeleteHeap, flagVars
  <1>3. \A i \in Slots : maps'[i] = 0
    BY <1>1, <1>2, OnlyArenas
  <1>4. maps' \in [Slots -> Nat]
    <2>1. maps' = [i \in Slots |-> 0]
      BY <1>2, <1>3
    <2> QED
      BY <2>1
  <1>5. Memory(maps', {}, <<>>, <<>>, NoLists, objs)
    BY <1>2, <1>3, <1>4, EmptyMemory
  <1>6. Rest'
    BY <1>1, <1>2 DEF Rest
  <1>7. Memory(maps', arenas', head', foot', lists', objs') /\ Rest'
    BY <1>2, <1>5, <1>6
  <1> QED
    BY <1>7, TogetherNext

\* delete of one object keeps the invariant, whether its chunk is huge, is merged, or
\* has a size that munmap refuses.
LEMMA DeleteGarbageInv ==
  ASSUME IInv, NEW a \in dead, DeleteGarbage(a)
  PROVE  IInv'
  <1>1. Memory(maps, arenas, head, foot, lists, objs) /\ Rest /\ a \in DOMAIN objs
    BY Together DEF Rest
  <1>2. /\ DeleteHuge(a) \/ DeleteChunk(a)
        /\ objs' = Without(objs, {a}) /\ dead' = dead \ {a}
        /\ (EndMajor \/ UNCHANGED flagVars)
    BY DEF DeleteGarbage
  <1>3. Drops(objs, objs', a)
    BY <1>2, WithoutDrops
  <1>4. ASSUME DeleteHuge(a)
        PROVE  Memory(maps', arenas', head', foot', lists', objs') /\ failed' \in BOOLEAN
    <2>1. arenas' = arenas /\ foot' = foot /\ lists' = lists
      BY <1>4 DEF DeleteHuge
    <2>2. CASE \E i \in Slots : a = Base(i)
      <3>1. PICK i \in Slots : /\ a = Base(i) /\ maps' = [maps EXCEPT ![i] = 0]
                               /\ head' = Without(head, {a}) /\ failed' = failed
        BY <1>4, <2>2 DEF DeleteHuge
      <3>2. Drops(head, head', Base(i)) /\ Drops(objs, objs', Base(i)) /\ Base(i) \in DOMAIN objs
        BY <1>1, <1>3, <3>1, WithoutDrops
      <3>3. Memory(maps', arenas, head', foot, lists, objs')
        BY <1>1, <3>1, <3>2, HugeGoneMemory
      <3>4. failed' \in BOOLEAN
        BY <1>1, <3>1 DEF Rest
      <3> QED
        BY <2>1, <3>3, <3>4
    <2>3. CASE \A i \in Slots : a # Base(i)
      <3>1. failed' = TRUE /\ maps' = maps /\ head' = head
        BY <1>4, <2>3 DEF DeleteHuge
      <3>2. Memory(maps, arenas, head, foot, lists, objs')
        BY <1>1, <1>3, <2>3, RefusedMemory
      <3> QED
        BY <2>1, <3>1, <3>2
    <2> QED
      BY <2>2, <2>3
  <1>5. ASSUME DeleteChunk(a)
        PROVE  Memory(maps', arenas', head', foot', lists', objs') /\ failed' \in BOOLEAN
    <2> DEFINE p == MergedStart(a)
               next == a + head[a].size
               e == MergedEnd(a)
               l1 == IF p = a THEN lists ELSE DeleteFrom(lists, ListOfSize(foot[a]), p)
               l2 == IF head[next].used THEN l1 ELSE DeleteFrom(l1, ListOfSize(head[next].size), next)
    <2>1. /\ head[a].size < Limit
          /\ head' = MergedHead(head, a, p, next, e) /\ foot' = MergedFoot(foot, a, p, next, e)
          /\ maps' = maps /\ arenas' = arenas /\ failed' = failed
      BY <1>5 DEF DeleteChunk, MergedHead, MergedFoot
    <2>2. lists' = AddChunk(l2, p, e - p)
      BY <1>5, Zenon DEF DeleteChunk, MergedLists
    <2>3. /\ p = IF head[a].prev_used THEN a ELSE a - foot[a]
          /\ next = a + head[a].size
          /\ e = IF head[next].used THEN next ELSE next + head[next].size
      BY DEF MergedStart, MergedEnd
    <2>4. \E l : /\ l = IF p = a THEN lists ELSE DeleteFrom(lists, ListOfSize(foot[a]), p)
                 /\ l2 = IF head[next].used THEN l ELSE DeleteFrom(l, ListOfSize(head[next].size), next)
      BY Zenon
    <2> HIDE DEF p, next, e, l1, l2
    <2>5. Deleted(head, foot, lists, a, p, next, e, head', foot', l2)
      BY <2>1, <2>3, <2>4, Zenon DEF Deleted
    <2>6. Memory(maps, arenas, head', foot', AddChunk(l2, p, e - p), objs')
      BY <1>1, <1>3, <2>1, <2>5, ChunkGoneMemory
    <2> QED
      BY <1>1, <2>1, <2>2, <2>6 DEF Rest
  <1>6. allocated_size' \in Nat /\ {compaction_flag', major_gc_flag'} \subseteq BOOLEAN
    BY <1>1, <1>2, EndMajorTyped DEF Rest
  <1>7. dead' \subseteq DOMAIN objs'
    BY <1>1, <1>2, <1>3 DEF Rest, Drops
  <1>8. Memory(maps', arenas', head', foot', lists', objs') /\ Rest'
    BY <1>2, <1>4, <1>5, <1>6, <1>7 DEF Rest
  <1> QED
    BY <1>8, TogetherNext

\* The invariant is inductive.
LEMMA NextInv ==
  IInv /\ [Next]_vars => IInv'
  <1> SUFFICES ASSUME IInv, [Next]_vars PROVE IInv'
    OBVIOUS
  <1>1. ASSUME NEW size \in Sizes, Alloc(size), UNCHANGED <<dead, failed>> PROVE IInv'
    BY <1>1, AllocInv
  <1>2. ASSUME NEW size \in Sizes, AllocInNewArena(size), UNCHANGED <<dead, failed>> PROVE IInv'
    BY <1>2, AllocInNewArenaInv
  <1>3. ASSUME NEW size \in Sizes, AllocHuge(size), UNCHANGED <<dead, failed>> PROVE IInv'
    BY <1>3, AllocHugeInv
  <1>4. ASSUME NEW garbage \in SUBSET DOMAIN objs, Sweep(garbage) PROVE IInv'
    BY <1>4, SweepInv
  <1>5. ASSUME DeleteHeap PROVE IInv'
    BY <1>5, DeleteHeapInv
  <1>6. ASSUME NEW a \in dead, DeleteGarbage(a) PROVE IInv'
    BY <1>6, DeleteGarbageInv
  <1>7. ASSUME UNCHANGED vars PROVE IInv'
    <2>1. /\ maps' = maps /\ arenas' = arenas /\ head' = head /\ foot' = foot
          /\ lists' = lists /\ objs' = objs /\ dead' = dead
          /\ allocated_size' = allocated_size /\ compaction_flag' = compaction_flag
          /\ major_gc_flag' = major_gc_flag /\ failed' = failed
      BY <1>7 DEF vars
    <2>2. Memory(maps, arenas, head, foot, lists, objs) /\ Rest
      BY Together
    <2>3. Memory(maps', arenas', head', foot', lists', objs') /\ Rest'
      BY <2>1, <2>2 DEF Rest
    <2> QED
      BY <2>3, TogetherNext
  <1> QED
    BY <1>1, <1>2, <1>3, <1>4, <1>5, <1>6, <1>7 DEF Next

-----------------------------------------------------------------------------
(* The theorems.                                                           *)

\* The mappings, the boundary tags, the bins and the objects agree in every state
\* that YogMarkSweepCompact_alloc and the sweep reach.
THEOREM Invariant == Spec => []IInv
  <1>1. IInv /\ [Next]_vars => IInv'
    BY NextInv
  <1> QED
    BY <1>1, InitInv, PTL DEF Spec

\* Addresses, sizes and flags keep their types; what the sweep still has to
\* delete is among the objects.
THEOREM TypeCorrect == Spec => []TypeOK
  <1>1. IInv => TypeOK
    BY DEF IInv
  <1> QED
    BY <1>1, Invariant, PTL

\* alloc, split_chunk and delete keep the chunks of every arena contiguous, each
\* with the flag of the chunk before it, and merge every two free neighbours.
THEOREM TagsCorrect == Spec => []BoundaryTags
  <1>1. IInv => BoundaryTags
    <2> SUFFICES ASSUME IInv, NEW i \in arenas
                 PROVE  /\ FirstChunk(i) \in ChunksOf(i)
                        /\ head[FirstChunk(i)].prev_used
                        /\ \A a \in ChunksOf(i) :
                              LET next == a + head[a].size IN
                              /\ next \in ChunksOf(i) \cup {Sentinel(i)}
                              /\ \A b \in ChunksOf(i) : b <= a \/ next <= b
                              /\ head[next].prev_used = head[a].used
                              /\ ~head[a].used => /\ head[next].used
                                                  /\ next \in DOMAIN foot
                                                  /\ foot[next] = head[a].size
                                                  /\ MIN_SMALL_SIZE <= head[a].size
      BY DEF BoundaryTags
    <2>1. Tiled(head, foot, i)
      BY DEF IInv, Memory, Laid
    <2>2. ChunksOf(i) = Cs(head, i)
      BY DEF ChunksOf, Cs
    <2> QED
      BY <2>1, <2>2 DEF Tiled, ChunkSize
  <1> QED
    BY <1>1, Invariant, PTL

\* ADD_TO_LIST and DELETE_FROM_LIST keep every free chunk in the list of its size,
\* once, also when chunks are split and merged.
THEOREM ListsExact == Spec => []FreeListsExact
  <1>1. IInv => FreeListsExact
    <2> SUFFICES ASSUME IInv PROVE FreeListsExact
      OBVIOUS
    <2> DEFINE free == {a \in UNION {ChunksOf(i) : i \in arenas} : ~head[a].used}
    <2>1. free = Free(head, arenas)
      BY DEF Free, ChunksOf, Cs
    <2>2. Holds(lists, FreeBins(head, arenas))
      BY DEF IInv, Memory
    <2>3. /\ DOMAIN FreeBins(head, arenas) = free
          /\ \A c \in free : FreeBins(head, arenas)[c] = ListOfSize(head[c].size)
      BY <2>1 DEF FreeBins
    <2> HIDE DEF free
    <2>4. ASSUME NEW b \in DOMAIN lists
          PROVE  /\ IsInjective(lists[b])
                 /\ Elements(lists[b]) = {a \in free : ListOfSize(head[a].size) = b}
      <3>1. b \in Bins
        BY <2>2, <2>4 DEF Holds
      <3>2. IsInjective(lists[b]) /\ Elements(lists[b])
                                       = {c \in DOMAIN FreeBins(head, arenas) : FreeBins(head, arenas)[c] = b}
        BY <2>2, <3>1 DEF Holds
      <3> QED
        BY <2>3, <3>2
    <2> QED
      BY <2>4 DEF FreeListsExact, free, Elements
  <1> QED
    BY <1>1, Invariant, PTL

\* Within the chunk of an object there is no other header, and the chunk lies in
\* a mapping.
LEMMA ObjectChunk ==
  ASSUME IInv, NEW a \in DOMAIN objs
  PROVE  /\ a \in DOMAIN head /\ a \in Nat /\ head[a].used /\ head[a].size \in Nat
         /\ objs[a] \in Sizes /\ SizeIncludingHeader(objs[a]) <= head[a].size
         /\ \E i \in Slots : maps[i] > 0 /\ a \in Base(i) .. Base(i) + maps[i] - head[a].size
         /\ \A b \in DOMAIN head : b \in Nat /\ ~(a < b /\ b < a + head[a].size)
  <1> DEFINE huge == HugeIn(maps, arenas)
             end == a + head[a].size
  <1>1. /\ maps \in [Slots -> Nat] /\ Laid(head, foot, arenas, huge)
        /\ \A i \in arenas : maps[i] = arena_size
        /\ \A i \in huge : HugeMapping(maps, head, objs, i)
        /\ Lives(maps, arenas, head, objs, a)
    BY DEF IInv, Memory
  <1>2. /\ a \in DOMAIN head /\ head[a].used
        /\ objs[a] \in Sizes /\ SizeIncludingHeader(objs[a]) <= head[a].size
        /\ (\E i \in arenas : a \in Cs(head, i)) \/ (\E i \in huge : a = Base(i))
    BY <1>1 DEF Lives
  <1> HIDE DEF huge
  <1>3. Typed(head, foot) /\ arenas \subseteq Slots /\ huge \subseteq Slots /\ arenas \cap huge = {}
    BY <1>1 DEF Laid
  <1>4. DOMAIN head \subseteq Nat /\ a \in Nat /\ head[a].size \in Nat
    BY <1>2, <1>3 DEF Typed, ChunkHeaders
  <1>5. ASSUME NEW i \in arenas, a \in Cs(head, i)
        PROVE  /\ maps[i] > 0 /\ a \in Base(i) .. Base(i) + maps[i] - head[a].size
               /\ \A b \in DOMAIN head : ~(a < b /\ b < end)
    <2>1. i \in Slots /\ Tiled(head, foot, i)
      BY <1>1, <1>3 DEF Laid
    <2>2. /\ Base(i) \in Nat /\ FirstChunk(i) \in Nat /\ Base(i) < FirstChunk(i) /\ Sentinel(i) \in Nat
          /\ Sentinel(i) + SizeofChunkHeader = Base(i) + arena_size
      BY <2>1, ArenaAddresses
    <2>3. /\ FirstChunk(i) <= a /\ end \in Cs(head, i) \cup {Sentinel(i)}
          /\ \A b \in Cs(head, i) : b <= a \/ end <= b
      BY <1>5, <2>1 DEF Tiled, Cs
    <2>4. end \in Nat /\ end <= Sentinel(i)
      BY <1>3, <2>1, <2>3, ChunkInMap
    <2>5. maps[i] = arena_size /\ arena_size \in Nat /\ SizeofChunkHeader \in Nat \ {0}
      BY <1>1, Constants
    <2>6. maps[i] > 0 /\ a \in Base(i) .. Base(i) + maps[i] - head[a].size
      BY <1>4, <2>2, <2>3, <2>4, <2>5
    <2>7. ASSUME NEW b \in DOMAIN head, a < b, b < end PROVE FALSE
      <3>1. b \in Nat /\ FirstChunk(i) <= b /\ b <= Sentinel(i)
        BY <1>4, <2>2, <2>3, <2>4, <2>7
      <3>2. b \in Cs(head, i) \cup {Sentinel(i)}
        BY <1>1, <3>1, InArena
      <3> QED
        BY <1>4, <2>2, <2>3, <2>4, <2>7, <3>1, <3>2
    <2> QED
      BY <2>6, <2>7
  <1>6. ASSUME NEW i \in huge, a = Base(i)
        PROVE  /\ maps[i] > 0 /\ a \in Base(i) .. Base(i) + maps[i] - head[a].size
               /\ \A b \in DOMAIN head : ~(a < b /\ b < end)
    <2>1. /\ i \in Slots /\ i \notin arenas /\ Base(i) \in Nat
          /\ maps[i] = head[a].size /\ maps[i] <= Stride /\ Stride \in Nat
      BY <1>1, <1>3, <1>6, ArenaAddresses, Constants DEF HugeMapping
    <2>2. maps[i] > 0
      BY <1>6 DEF huge, HugeIn
    <2>3. ASSUME NEW b \in DOMAIN head, a < b, b < end PROVE FALSE
      <3>1. InMap(i, b)
        BY <1>4, <1>6, <2>1, <2>3 DEF InMap
      <3>2. Placed(head, b, arenas, huge)
        BY <1>1 DEF Laid
      <3>3. CASE \E j \in arenas : b \in Cs(head, j) \cup {Sentinel(j)}
        <4>1. PICK j \in arenas : b \in Cs(head, j) \cup {Sentinel(j)}
          BY <3>3
        <4>2. j \in Slots /\ InMap(j, b)
          BY <1>3, <4>1, ChunkInMap
        <4> QED
          BY <2>1, <3>1, <4>2, OneMap
      <3>4. CASE \E j \in huge : b = Base(j)
        <4>1. PICK j \in huge : b = Base(j)
          BY <3>4
        <4>2. j \in Slots /\ InMap(j, b)
          BY <1>3, <4>1, ArenaAddresses
        <4>3. j = i
          BY <2>1, <3>1, <4>2, OneMap
        <4> QED
          BY <1>4, <1>6, <2>3, <4>1, <4>3
      <3> QED
        BY <3>2, <3>3, <3>4 DEF Placed
    <2> QED
      BY <1>4, <1>6, <2>1, <2>2, <2>3
  <1>7. \E i \in Slots : /\ maps[i] > 0 /\ a \in Base(i) .. Base(i) + maps[i] - head[a].size
                         /\ \A b \in DOMAIN head : ~(a < b /\ b < end)
    <2> HIDE DEF end
    <2> QED
      BY <1>2, <1>3, <1>5, <1>6
  <1> QED
    BY <1>2, <1>4, <1>7

\* An object keeps the room it asked for, and no other object and no header gets
\* into it, whatever is allocated, split, merged, mapped and deleted around it.
THEOREM ObjectsApart == Spec => []ObjectsDisjoint
  <1>1. IInv => ObjectsDisjoint
    <2> SUFFICES ASSUME IInv, NEW a \in DOMAIN objs
                 PROVE  /\ a \in DOMAIN head /\ head[a].used
                        /\ RoundedSize(objs[a]) + SizeofHeader <= Cardinality(Room(a))
                        /\ \E i \in Slots : maps[i] > 0 /\ a \in Base(i) .. Base(i) + maps[i] - head[a].size
                        /\ \A b \in DOMAIN objs \ {a} : Room(a) \cap Room(b) = {}
                        /\ \A b \in DOMAIN head : b \notin Room(a)
      BY DEF ObjectsDisjoint
    <2> DEFINE s == head[a].size
    <2>1. /\ a \in DOMAIN head /\ a \in Nat /\ head[a].used /\ s \in Nat
          /\ objs[a] \in Sizes /\ SizeIncludingHeader(objs[a]) <= s
          /\ \A b \in DOMAIN head : b \in Nat /\ ~(a < b /\ b < a + s)
      BY ObjectChunk
    <2>2. \E i \in Slots : maps[i] > 0 /\ a \in Base(i) .. Base(i) + maps[i] - head[a].size
      BY ObjectChunk
    <2>3. SizeofChunkHeader \in Nat \ {0} /\ SizeofHeader \in Nat
      BY Constants
    <2>4. /\ RoundedSize(objs[a]) \in Nat
          /\ SizeIncludingHeader(objs[a]) = RoundedSize(objs[a]) + SizeofHeader + SizeofChunkHeader
      BY <2>1, RequestSize
    <2>5. RoundedSize(objs[a]) + SizeofHeader <= Cardinality(Room(a))
      <3> DEFINE l == a + SizeofChunkHeader
                 r == a + s - 1
      <3>1. l \in Int /\ r \in Int /\ r - l + 1 = s - SizeofChunkHeader
        BY <2>1, <2>3
      <3>2. Room(a) = l .. r
        BY DEF Room
      <3> HIDE DEF l, r
      <3>3. Cardinality(Room(a)) = IF l > r THEN 0 ELSE r - l + 1
        BY <3>1, <3>2, FS_Interval
      <3> HIDE DEF s
      <3> QED
        BY <2>1, <2>3, <2>4, <3>1, <3>3
    <2>6. \A b \in DOMAIN head : b \notin Room(a)
      BY <2>1, <2>3 DEF Room
    <2>7. ASSUME NEW b \in DOMAIN objs \ {a} PROVE Room(a) \cap Room(b) = {}
      <3>1. /\ b \in DOMAIN head /\ b \in Nat /\ head[b].size \in Nat
            /\ \A x \in DOMAIN head : ~(b < x /\ x < b + head[b].size)
        BY ObjectChunk
      <3>2. a < b \/ b < a
        BY <2>1, <3>1
      <3>3. a < b => a + s <= b
        BY <2>1, <3>1
      <3>4. b < a => b + head[b].size <= a
        BY <2>1, <3>1
      <3> QED
        BY <2>1, <2>3, <3>1, <3>2, <3>3, <3>4 DEF Room
    <2> QED
      BY <2>1, <2>2, <2>5, <2>6, <2>7
  <1> QED
    BY <1>1, Invariant, PTL

\* Every mapping is an arena or holds a live object: alloc_huge and delete keep
\* the mappings and the objects in step, and delete_heap leaves nothing mapped.
THEOREM NoLeaks == Spec => []NothingLeaks
  <1>1. IInv => NothingLeaks
    BY DEF IInv, NothingLeaks, Memory, HugeIn, HugeMapping
  <1> QED
    BY <1>1, Invariant, PTL

\* What is free by its header is free in an arena.
LEMMA FreeChunksAre ==
  ASSUME IInv
  PROVE  FreeChunks = Free(head, arenas)
  <1>1. Laid(head, foot, arenas, HugeIn(maps, arenas))
    BY DEF IInv, Memory
  <1>2. ASSUME NEW a \in DOMAIN head, ~head[a].used PROVE a \in Free(head, arenas)
    <2>1. Placed(head, a, arenas, HugeIn(maps, arenas))
      BY <1>1 DEF Laid
    <2>2. PICK i \in arenas : a \in Cs(head, i) \cup {Sentinel(i)}
      BY <1>2, <2>1 DEF Placed
    <2>3. head[Sentinel(i)].used
      BY <1>1 DEF Laid, Tiled
    <2> QED
      BY <1>2, <2>2, <2>3 DEF Free
  <1> QED
    BY <1>1, <1>2, FreeSize DEF FreeChunks

\* find_best_chunk finds the smallest free chunk of the heap that is large enough,
\* in the order of its bins and lists, and an arena is added only when none is.
THEOREM BestIsFound == Spec => BestFit
  <1> DEFINE Fitting(a) == LET n == SizeIncludingHeader(objs'[a])
                               fits == {c \in FreeChunks : n <= head[c].size}
                           IN  n < Limit =>
                               IF fits = {} THEN arenas' # arenas
                               ELSE a \in fits /\ \A c \in fits : head[a].size <= head[c].size
             New == DOMAIN objs' \ DOMAIN objs
  <1>1. ASSUME IInv, Next PROVE \A a \in New : Fitting(a)
    <2>1. Laid(head, foot, arenas, HugeIn(maps, arenas)) /\ Holds(lists, FreeBins(head, arenas))
      BY <1>1 DEF IInv, Memory
    <2>2. FreeChunks = Free(head, arenas)
      BY <1>1, FreeChunksAre
    <2>3. ASSUME NEW size \in Sizes, NEW c, objs' = Put(objs, c, size), NEW a \in New
          PROVE  a = c /\ objs'[a] = size
      BY <2>3 DEF Put
    <2>4. ASSUME NEW size \in Sizes
          PROVE  ChunkSize(SizeIncludingHeader(size)) /\ SizeIncludingHeader(size) \in Nat
      BY RequestSize DEF ChunkSize
    <2>5. ASSUME NEW size \in Sizes, Alloc(size), NEW a \in New PROVE Fitting(a)
      <3> DEFINE n == SizeIncludingHeader(size)
                 f == FindBestChunk(head, lists, n)
      <3>1. f # NoChunk /\ objs' = Put(objs, f.chunk, size) /\ f = FindBestChunk(head, lists, n)
        BY <2>5 DEF Alloc, Take
      <3>2. ChunkSize(n)
        BY <2>4
      <3>3. n = SizeIncludingHeader(size)
        OBVIOUS
      <3> HIDE DEF f, n
      <3>4. Best(head, Free(head, arenas), f, n)
        BY <2>1, <3>1, <3>2, FindsBest
      <3>5. a = f.chunk /\ n = SizeIncludingHeader(objs'[a])
        BY <2>3, <3>1, <3>3
      <3>6. a \in FreeChunks /\ n <= head[a].size
            /\ \A d \in FreeChunks : n <= head[d].size => head[a].size <= head[d].size
        BY <2>2, <3>4, <3>5 DEF Best
      <3> HIDE DEF New
      <3> QED
        BY <3>5, <3>6
    <2>6. ASSUME NEW size \in Sizes, AllocInNewArena(size), UNCHANGED <<dead, failed>>, NEW a \in New
          PROVE  Fitting(a)
      <3> DEFINE n == SizeIncludingHeader(size)
                 f == FindBestChunk(head, lists, n)
      <3>1. f = NoChunk /\ f = FindBestChunk(head, lists, n)
        BY <2>6 DEF AllocInNewArena
      <3>2. \E c : objs' = Put(objs, c, size)
        BY <2>6 DEF AllocInNewArena, Take
      <3>3. ChunkSize(n) /\ n \in Nat
        BY <2>4
      <3>4. n = SizeIncludingHeader(size)
        OBVIOUS
      <3> HIDE DEF f, n
      <3>5. \A d \in Free(head, arenas) : head[d].size < n
        BY <2>1, <3>1, <3>3, FindsBest
      <3>6. n = SizeIncludingHeader(objs'[a])
        BY <2>3, <3>2, <3>4
      <3>7. arenas' # arenas
        BY <1>1, <2>6, AllocInNewArenaInv
      <3>8. \A d \in FreeChunks : ~(n <= head[d].size)
        <4> SUFFICES ASSUME NEW d \in Free(head, arenas) PROVE ~(n <= head[d].size)
          BY <2>2
        <4> QED
          BY <2>1, <3>3, <3>5, FreeSize DEF ChunkSize
      <3> HIDE DEF New
      <3> QED
        BY <3>6, <3>7, <3>8
    <2>7. ASSUME NEW size \in Sizes, AllocHuge(size), NEW a \in New PROVE Fitting(a)
      <3>1. Limit <= SizeIncludingHeader(size) /\ objs' = Put(objs, Base(NewSlot), size)
        BY <2>7 DEF AllocHuge
      <3>2. objs'[a] = size
        BY <2>3, <3>1
      <3>3. ~(SizeIncludingHeader(size) < Limit)
        BY <2>4, <3>1, LimitSize DEF ChunkSize
      <3> HIDE DEF New
      <3> QED
        BY <3>2, <3>3
    <2>8. ASSUME NEW garbage \in SUBSET DOMAIN objs, Sweep(garbage) PROVE New = {}
      BY <2>8 DEF Sweep, memVars
    <2>9. ASSUME DeleteHeap PROVE New = {}
      BY <2>9 DEF DeleteHeap
    <2>10. ASSUME NEW b \in dead, DeleteGarbage(b) PROVE New = {}
      BY <2>10, WithoutDrops DEF DeleteGarbage, Drops
    <2> HIDE DEF New, Fitting
    <2> QED
      BY <1>1, <2>5, <2>6, <2>7, <2>8, <2>9, <2>10 DEF Next
  <1>2. IInv /\ [Next]_vars => [\A a \in New : Fitting(a)]_vars
    BY <1>1
  <1> QED
    BY <1>2, Invariant, PTL DEF Spec, BestFit
=============================================================================
