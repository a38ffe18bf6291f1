--------------------------- MODULE EvaluatorProofs ---------------------------
(***************************************************************************)
(* Proofs about Evaluator, for any bounds and any sizes of the pools.  The *)
(* frames from env->frame down are a list ch, the oldest first, which only *)
(* grows and shrinks at its end; pos[d] is its length when the C           *)
(* activation at depth d is the top one.                                   *)
(***************************************************************************)
EXTENDS Evaluator, Induction, FiniteSetTheorems, SequenceTheorems, TLAPS

FrameTypes == {"C", "FINISH", "SCRIPT"}
FrameRecs == [type : FrameTypes, prev : Nat, outer : Nat, ret : Nat, brk : Nat, used : BOOLEAN]
FuncRecs == [outer : Nat, ret : Nat, brk : Nat]

\* What a frame knows of others.  The function of a block noted where return goes
\* when the block was made, from the frame it was made in.
FramesGood(fr) ==
    /\ fr \in Seq(FrameRecs)
    /\ \A f \in DOMAIN fr :
          /\ fr[f].prev \in {NoFrame} \cup DOMAIN fr
          /\ fr[f].used => fr[f].type = "SCRIPT"
          /\ fr[f].ret # NoFrame => fr[f].ret \in DOMAIN fr /\ fr[fr[f].ret].type # "C"
          /\ fr[f].brk = NoFrame => fr[f].ret \in {NoFrame, fr[f].prev}
          /\ fr[f].brk # NoFrame =>
                /\ fr[f].brk = fr[f].outer /\ fr[f].outer \in DOMAIN fr /\ fr[fr[f].outer].used
                /\ fr[f].ret # NoFrame
                /\ fr[fr[f].outer].ret \in {NoFrame, fr[f].ret}

FuncsGood(fr, fs) ==
    /\ fs \in Seq(FuncRecs)
    /\ \A k \in DOMAIN fs :
          /\ fs[k].outer \in DOMAIN fr /\ fr[fs[k].outer].used
          /\ fs[k].brk = NoFrame => fs[k].ret = NoFrame
          /\ fs[k].brk # NoFrame => fs[k].brk = fs[k].outer /\ fs[k].ret = fr[fs[k].outer].ret

PoolGood(fr, pl) ==
    /\ pl \in [FrameTypes -> Seq(Nat)]
    /\ \A s \in FrameTypes : \A i \in DOMAIN pl[s] :
          /\ pl[s][i] \in DOMAIN fr /\ fr[pl[s][i]].type = s /\ ~fr[pl[s][i]].used
          /\ \A j \in DOMAIN pl[s] : pl[s][j] = pl[s][i] => j = i

\* ch is the list of frames that ends with the frame f.
Newest(ch) == IF ch = <<>> THEN NoFrame ELSE ch[Len(ch)]

ListGood(fr, pl, ch) ==
    /\ ch \in Seq(Nat)
    /\ \A i \in DOMAIN ch :
          /\ ch[i] \in DOMAIN fr
          /\ fr[ch[i]].prev = IF i = 1 THEN NoFrame ELSE ch[i - 1]
          /\ \A j \in DOMAIN ch : ch[j] = ch[i] => j = i
          /\ \A s \in FrameTypes : \A j \in DOMAIN pl[s] : pl[s][j] # ch[i]

Good(fr, pl, fs, ch) ==
    FramesGood(fr) /\ FuncsGood(fr, fs) /\ PoolGood(fr, pl) /\ ListGood(fr, pl, ch)

-----------------------------------------------------------------------------
(* Frames are pushed, popped and cut off.                                  *)

NewRec(type, prev, f) ==
    [type |-> type, prev |-> prev, outer |-> f.outer, ret |-> f.ret, brk |-> f.brk, used |-> FALSE]

\* The record that YogEval_push_frame fills in.
LEMMA NewRecIs ==
  ASSUME NEW type \in FrameTypes, NEW prev \in Nat, NEW f \in FuncRecs
  PROVE  /\ [NewFrame(type, f.outer, f.ret, f.brk) EXCEPT !.prev = prev] = NewRec(type, prev, f)
         /\ NewRec(type, prev, f) \in FrameRecs
  <1> DEFINE r == NewFrame(type, f.outer, f.ret, f.brk)
  <1>1. r \in FrameRecs
    BY DEF NewFrame, FrameRecs, FuncRecs, NoFrame
  <1>2. /\ r.type = type /\ r.outer = f.outer /\ r.ret = f.ret /\ r.brk = f.brk
        /\ r.used = FALSE
    BY DEF NewFrame
  <1> HIDE DEF r
  <1>3. [r EXCEPT !.prev = prev] = [type |-> r.type, prev |-> prev, outer |-> r.outer,
                                    ret |-> r.ret, brk |-> r.brk, used |-> r.used]
    BY <1>1 DEF FrameRecs
  <1>4. NewRec(type, prev, f) \in FrameRecs
    BY DEF NewRec, FrameRecs, FuncRecs
  <1> QED
    BY <1>2, <1>3, <1>4 DEF NewRec, r

\* The first n elements of a sequence.
LEMMA CutFacts ==
  ASSUME NEW S, NEW s \in Seq(S), NEW n \in 0 .. Len(s)
  PROVE  /\ SubSeq(s, 1, n) \in Seq(S) /\ Len(SubSeq(s, 1, n)) = n
         /\ DOMAIN SubSeq(s, 1, n) = 1 .. n
         /\ \A j \in 1 .. n : SubSeq(s, 1, n)[j] = s[j]
  <1>1. 1 \in Int /\ n \in Int /\ \A i \in 1 .. n : s[i] \in S
    OBVIOUS
  <1> DEFINE q == SubSeq(s, 1, n)
  <1>2. /\ q \in Seq(S) /\ Len(q) = IF 1 <= n THEN n - 1 + 1 ELSE 0
        /\ \A i \in 1 .. n - 1 + 1 : q[i] = s[1 + i - 1]
    BY <1>1, SubSeqProperties
  <1> HIDE DEF q
  <1>3. n \in Nat /\ n - 1 + 1 = n /\ \A i \in 1 .. n : 1 + i - 1 = i
    OBVIOUS
  <1>4. q \in Seq(S) /\ Len(q) = n /\ DOMAIN q = 1 .. n
    BY <1>2, <1>3
  <1>5. \A i \in 1 .. n : q[i] = s[i]
    BY <1>2, <1>3
  <1> QED
    BY <1>4, <1>5 DEF q

\* A sequence without its last element.
LEMMA FrontFacts ==
  ASSUME NEW S, NEW s \in Seq(S), s # <<>>
  PROVE  /\ Front(s) \in Seq(S) /\ Len(Front(s)) = Len(s) - 1
         /\ \A j \in 1 .. Len(s) - 1 : Front(s)[j] = s[j]
  <1>1. Len(s) - 1 \in 0 .. Len(s)
    OBVIOUS
  <1> QED
    BY <1>1, CutFacts DEF Front

\* YogEval_get_frame: a frame to push is the newest of its pool or a new object.
LEMMA FrameGot ==
  ASSUME NEW fr, NEW pl, NEW fs, NEW ch, Good(fr, pl, fs, ch), NEW type \in FrameTypes,
         NEW big \in BOOLEAN
  PROVE  LET g == GetFrame(<<fr, pl>>, type, big) IN
         /\ g[1] \in DOMAIN g[2] /\ g[1] \in Nat \ {0} /\ g[2][g[1]].type = type
         /\ ~g[2][g[1]].used
         /\ Good(g[2], g[3], fs, ch)
         /\ \A f \in DOMAIN fr : f \in DOMAIN g[2] /\ g[2][f] = fr[f]
         /\ \A i \in DOMAIN ch : ch[i] # g[1]
         /\ \A s \in FrameTypes : \A j \in DOMAIN g[3][s] : g[3][s][j] # g[1]
  <1> DEFINE p == pl[type]
             rest == IF p = <<>> THEN pl ELSE [pl EXCEPT ![type] = Front(p)]
             g == GetFrame(<<fr, pl>>, type, big)
  <1>1. p \in Seq(Nat) /\ pl \in [FrameTypes -> Seq(Nat)] /\ fr \in Seq(FrameRecs)
    BY DEF Good, PoolGood, FramesGood
  <1>2. /\ rest \in [FrameTypes -> Seq(Nat)]
        /\ \A s \in FrameTypes \ {type} : rest[s] = pl[s]
        /\ Len(rest[type]) = IF p = <<>> THEN 0 ELSE Len(p) - 1
        /\ \A j \in DOMAIN rest[type] : j \in DOMAIN p /\ rest[type][j] = p[j]
    <2>1. CASE p = <<>>
      BY <1>1, <2>1
    <2>2. CASE p # <<>>
      <3>1. rest = [pl EXCEPT ![type] = Front(p)]
        BY <2>2
      <3> DEFINE q == Front(p)
      <3>2. q \in Seq(Nat) /\ Len(q) = Len(p) - 1 /\ \A j \in 1 .. Len(p) - 1 : q[j] = p[j]
        BY <1>1, <2>2, FrontFacts
      <3> HIDE DEF rest, q
      <3>3. rest[type] = q /\ \A s \in FrameTypes \ {type} : rest[s] = pl[s]
        BY <1>1, <3>1 DEF q
      <3>4. rest \in [FrameTypes -> Seq(Nat)]
        BY <1>1, <3>1, <3>2 DEF q
      <3> HIDE DEF p
      <3>5. DOMAIN q = 1 .. Len(p) - 1 /\ DOMAIN p = 1 .. Len(p) /\ Len(p) \in Nat
        BY <1>1, <3>2
      <3>6. \A j \in DOMAIN q : j \in DOMAIN p /\ q[j] = p[j]
        BY <3>2, <3>5
      <3> QED
        BY <2>2, <3>2, <3>3, <3>4, <3>6
    <2> QED
      BY <2>1, <2>2
  <1> HIDE DEF rest
  <1>3. PoolGood(fr, rest) /\ ListGood(fr, rest, ch)
    <2>1. ASSUME NEW s \in FrameTypes, NEW j \in DOMAIN rest[s]
          PROVE  j \in DOMAIN pl[s] /\ rest[s][j] = pl[s][j]
      BY <1>2
    <2> HIDE DEF p
    <2>2. PoolGood(fr, rest)
      <3>1. PoolGood(fr, pl)
        BY DEF Good
      <3>2. \A s \in FrameTypes : \A i \in DOMAIN rest[s] :
               /\ rest[s][i] \in DOMAIN fr /\ fr[rest[s][i]].type = s /\ ~fr[rest[s][i]].used
               /\ \A j \in DOMAIN rest[s] : rest[s][j] = rest[s][i] => j = i
        BY <2>1, <3>1 DEF PoolGood
      <3> QED
        BY <1>2, <3>2 DEF PoolGood
    <2>3. ListGood(fr, rest, ch)
      <3>1. ListGood(fr, pl, ch)
        BY DEF Good
      <3>2. \A x : (\A s \in FrameTypes : \A j \in DOMAIN pl[s] : pl[s][j] # x)
                   => \A s \in FrameTypes : \A j \in DOMAIN rest[s] : rest[s][j] # x
        BY <2>1
      <3> QED
        BY <3>1, <3>2 DEF ListGood
    <2> QED
      BY <2>2, <2>3
  <1>4. CASE p # <<>> /\ big
    <2>1. g[1] = p[Len(p)] /\ g[2] = fr /\ g[3] = rest
      BY <1>4 DEF GetFrame, Last, rest
    <2>2. Len(p) \in DOMAIN p /\ \A j \in DOMAIN rest[type] : j # Len(p)
      BY <1>1, <1>2, <1>4
    <2>3. p[Len(p)] \in DOMAIN fr /\ fr[p[Len(p)]].type = type /\ ~fr[p[Len(p)]].used
      BY <2>2 DEF Good, PoolGood
    <2>4. \A s \in FrameTypes : \A j \in DOMAIN rest[s] : rest[s][j] # p[Len(p)]
      BY <1>2, <1>3, <2>2, <2>3 DEF Good, PoolGood
    <2>5. \A i \in DOMAIN ch : ch[i] # p[Len(p)]
      BY <2>2 DEF Good, ListGood
    <2> HIDE DEF p
    <2> QED
      <3>1. p[Len(p)] \in Nat \ {0}
        BY <1>1, <2>3
      <3>2. Good(fr, rest, fs, ch)
        BY <1>3 DEF Good
      <3> HIDE DEF g
      <3>3. /\ g[1] \in DOMAIN g[2] /\ g[1] \in Nat \ {0} /\ g[2][g[1]].type = type
            /\ ~g[2][g[1]].used
            /\ Good(g[2], g[3], fs, ch)
            /\ \A f \in DOMAIN fr : f \in DOMAIN g[2] /\ g[2][f] = fr[f]
            /\ \A i \in DOMAIN ch : ch[i] # g[1]
            /\ \A s \in FrameTypes : \A j \in DOMAIN g[3][s] : g[3][s][j] # g[1]
        BY <2>1, <2>3, <2>4, <2>5, <3>1, <3>2
      <3> QED
        BY <3>3 DEF g
  <1>5. CASE ~(p # <<>> /\ big)
    <2> DEFINE new == Append(fr, Clean(type))
    <2>1. g[1] = Len(fr) + 1 /\ g[2] = new /\ g[3] = rest
      BY <1>5 DEF GetFrame, rest
    <2>2. /\ Clean(type) \in FrameRecs /\ Clean(type).type = type /\ Clean(type).used = FALSE
          /\ Clean(type).prev = NoFrame /\ Clean(type).ret = NoFrame /\ Clean(type).brk = NoFrame
      BY DEF Clean, NewFrame, FrameRecs, NoFrame
    <2>3. /\ new \in Seq(FrameRecs) /\ DOMAIN fr = 1 .. Len(fr) /\ DOMAIN new = 1 .. Len(fr) + 1
          /\ Len(fr) \in Nat /\ new[Len(fr) + 1] = Clean(type)
          /\ \A f \in DOMAIN fr : f \in DOMAIN new /\ new[f] = fr[f]
      BY <1>1, <2>2
    <2> HIDE DEF new, p
    <2>4. FramesGood(new)
      BY <2>2, <2>3 DEF Good, FramesGood
    <2>5. FuncsGood(new, fs)
      BY <2>3 DEF Good, FuncsGood
    <2>6. PoolGood(new, rest) /\ \A s \in FrameTypes : \A j \in DOMAIN rest[s] : rest[s][j] # Len(fr) + 1
      BY <1>3, <2>3 DEF PoolGood
    <2>7. ListGood(new, rest, ch) /\ \A i \in DOMAIN ch : ch[i] # Len(fr) + 1
      BY <1>3, <2>3 DEF ListGood
    <2> QED
      BY <2>1, <2>2, <2>3, <2>4, <2>5, <2>6, <2>7, SMTT(30) DEF Good
  <1> QED
    BY <1>4, <1>5

\* YogEval_push_frame: the new frame is the last of the list, the others stay.
LEMMA FramePushed ==
  ASSUME NEW fr, NEW pl, NEW fs, NEW ch, Good(fr, pl, fs, ch), NEW type \in FrameTypes,
         NEW big \in BOOLEAN, NEW f \in FuncRecs,
         f.ret # NoFrame => f.ret \in DOMAIN fr /\ fr[f.ret].type # "C",
         f.brk = NoFrame => f.ret \in {NoFrame, Newest(ch)},
         f.brk # NoFrame => /\ f.brk = f.outer /\ f.outer \in DOMAIN fr /\ fr[f.outer].used
                            /\ f.ret # NoFrame
                            /\ fr[f.outer].ret \in {NoFrame, f.ret}
  PROVE  LET S == PushFrame(<<fr, pl>>, type, big, Newest(ch), f) IN
         /\ S[3] \in DOMAIN S[1] /\ S[1][S[3]].type = type
         /\ Good(S[1], S[2], fs, Append(ch, S[3])) /\ Newest(Append(ch, S[3])) = S[3]
         /\ \A g \in DOMAIN fr : g \in DOMAIN S[1] /\ S[1][g].type = fr[g].type
                                /\ (fr[g].used => S[1][g] = fr[g])
         /\ \A i \in DOMAIN ch : S[1][ch[i]] = fr[ch[i]]
  <1> DEFINE G == GetFrame(<<fr, pl>>, type, big)
             new == G[1]
             gr == G[2]
             r == NewRec(type, Newest(ch), f)
             S == PushFrame(<<fr, pl>>, type, big, Newest(ch), f)
             fr2 == [gr EXCEPT ![new] = r]
             ch2 == Append(ch, new)
  <1>1. /\ new \in DOMAIN gr /\ new \in Nat \ {0} /\ gr[new].type = type /\ ~gr[new].used
        /\ Good(gr, G[3], fs, ch)
        /\ \A g \in DOMAIN fr : g \in DOMAIN gr /\ gr[g] = fr[g]
        /\ \A i \in DOMAIN ch : ch[i] # new
        /\ \A s \in FrameTypes : \A j \in DOMAIN G[3][s] : G[3][s][j] # new
    BY FrameGot
  <1> HIDE DEF G
  <1>2. Newest(ch) \in Nat /\ (Newest(ch) # NoFrame => Newest(ch) \in DOMAIN fr) /\ ch \in Seq(Nat)
        /\ (Newest(ch) = IF Len(ch) = 0 THEN NoFrame ELSE ch[Len(ch)])
    BY DEF Good, ListGood, Newest, NoFrame
  <1>3. r \in FrameRecs
    BY <1>2, NewRecIs
  <1>4. S = <<fr2, G[3], new>>
    BY <1>2, NewRecIs DEF PushFrame, G
  <1>5. /\ r.type = type /\ r.prev = Newest(ch) /\ r.outer = f.outer /\ r.ret = f.ret
        /\ r.brk = f.brk /\ r.used = FALSE
    BY DEF NewRec
  <1> HIDE DEF r
  <1>6. gr \in Seq(FrameRecs)
    BY <1>1 DEF Good, FramesGood
  <1>7. /\ fr2 \in Seq(FrameRecs) /\ DOMAIN fr2 = DOMAIN gr /\ fr2[new] = r
        /\ \A g \in DOMAIN gr : g # new => fr2[g] = gr[g]
    BY <1>1, <1>3, <1>6
  <1> HIDE DEF fr2
  <1>8. /\ ch2 \in Seq(Nat) /\ DOMAIN ch2 = 1 .. Len(ch) + 1 /\ DOMAIN ch = 1 .. Len(ch)
        /\ Len(ch2) = Len(ch) + 1 /\ Len(ch) \in Nat
        /\ ch2[Len(ch) + 1] = new /\ \A i \in DOMAIN ch : ch2[i] = ch[i]
    BY <1>1, <1>2
  <1> HIDE DEF new, gr, ch2
  <1>9. FramesGood(fr2)
    <2>1. \A g \in DOMAIN gr : g # NoFrame
      BY <1>6 DEF NoFrame
    <2>2. \A g \in DOMAIN fr2 : fr2[g].type = gr[g].type /\ (gr[g].used => fr2[g] = gr[g])
      BY <1>1, <1>5, <1>7
    <2>3. \A g \in DOMAIN fr2 : g # new => fr2[g] = gr[g]
      BY <1>7
    <2>4. FramesGood(gr)
      BY <1>1 DEF Good
    <2> SUFFICES ASSUME NEW g \in DOMAIN fr2
                 PROVE  /\ fr2[g].prev \in {NoFrame} \cup DOMAIN fr2
                        /\ fr2[g].used => fr2[g].type = "SCRIPT"
                        /\ fr2[g].ret # NoFrame =>
                              fr2[g].ret \in DOMAIN fr2 /\ fr2[fr2[g].ret].type # "C"
                        /\ fr2[g].brk = NoFrame => fr2[g].ret \in {NoFrame, fr2[g].prev}
                        /\ fr2[g].brk # NoFrame =>
                              /\ fr2[g].brk = fr2[g].outer /\ fr2[g].outer \in DOMAIN fr2
                              /\ fr2[fr2[g].outer].used /\ fr2[g].ret # NoFrame
                              /\ fr2[fr2[g].outer].ret \in {NoFrame, fr2[g].ret}
      BY <1>7 DEF FramesGood
    <2>5. CASE g = new
      BY <1>1, <1>2, <1>5, <1>7, <2>2, <2>5, SMTT(30)
    <2>6. CASE g # new
      BY <1>7, <2>2, <2>3, <2>4, <2>6 DEF FramesGood
    <2> QED
      BY <2>5, <2>6
  <1>10. FuncsGood(fr2, fs)
    BY <1>1, <1>7 DEF Good, FuncsGood
  <1>11. PoolGood(fr2, G[3])
    <2>1. PoolGood(gr, G[3])
      BY <1>1 DEF Good
    <2> DEFINE q == G[3]
    <2>2. \A s \in FrameTypes : \A i \in DOMAIN q[s] : q[s][i] # new
      BY <1>1
    <2>3. PoolGood(gr, q)
      BY <2>1
    <2> HIDE DEF q
    <2>4. \A s \in FrameTypes : \A i \in DOMAIN q[s] :
             q[s][i] \in DOMAIN gr /\ fr2[q[s][i]] = gr[q[s][i]]
      BY <1>7, <2>2, <2>3 DEF PoolGood
    <2>5. PoolGood(fr2, q)
      BY <1>7, <2>3, <2>4 DEF PoolGood
    <2> QED
      BY <2>5 DEF q
  <1>12. ListGood(fr2, G[3], ch2)
    <2>1. \A i \in DOMAIN ch2 : ch2[i] = IF i = Len(ch) + 1 THEN new ELSE ch[i]
      BY <1>8
    <2>2. \A i \in DOMAIN ch : ch[i] \in DOMAIN fr2 /\ fr2[ch[i]] = gr[ch[i]]
      BY <1>1, <1>7 DEF Good, ListGood
    <2>3. \A i \in DOMAIN ch2 : i # Len(ch) + 1 => i \in DOMAIN ch /\ i - 1 # Len(ch) + 1
      BY <1>8
    <2>4. ListGood(gr, G[3], ch)
      BY <1>1 DEF Good
    <2> SUFFICES ASSUME NEW i \in DOMAIN ch2
                 PROVE  /\ ch2[i] \in DOMAIN fr2
                        /\ fr2[ch2[i]].prev = IF i = 1 THEN NoFrame ELSE ch2[i - 1]
                        /\ \A j \in DOMAIN ch2 : ch2[j] = ch2[i] => j = i
                        /\ \A s \in FrameTypes : \A j \in DOMAIN G[3][s] : G[3][s][j] # ch2[i]
      BY <1>8 DEF ListGood
    <2>5. CASE i = Len(ch) + 1
      <3>1. ch2[i] = new /\ fr2[ch2[i]].prev = Newest(ch)
        BY <1>5, <1>7, <1>8, <2>5
      <3>2. Newest(ch) = IF i = 1 THEN NoFrame ELSE ch2[i - 1]
        BY <1>2, <1>8, <2>5, SMTT(30)
      <3>3. \A j \in DOMAIN ch2 : ch2[j] = ch2[i] => j = i
        BY <1>1, <1>8, <2>1, <2>3, <2>5
      <3> QED
        BY <1>1, <1>7, <3>1, <3>2, <3>3
    <2>6. CASE i # Len(ch) + 1
      <3>1. i \in DOMAIN ch /\ ch2[i] = ch[i]
        BY <1>8, <2>3, <2>6
      <3>2. (IF i = 1 THEN NoFrame ELSE ch2[i - 1]) = (IF i = 1 THEN NoFrame ELSE ch[i - 1])
        BY <1>8, <3>1
      <3>3. \A j \in DOMAIN ch2 : ch2[j] = ch2[i] => j = i
        BY <1>1, <1>8, <2>1, <2>3, <2>4, <3>1 DEF ListGood
      <3> QED
        BY <2>2, <2>4, <3>1, <3>2, <3>3 DEF ListGood
    <2> QED
      BY <2>5, <2>6
  <1>13. /\ S[1] = fr2 /\ S[2] = G[3] /\ S[3] = new
    BY <1>4
  <1>14. Newest(ch2) = new
    BY <1>8 DEF Newest
  <1>15. \A g \in DOMAIN fr : g \in DOMAIN fr2 /\ fr2[g].type = fr[g].type
                                /\ (fr[g].used => fr2[g] = fr[g])
    BY <1>1, <1>5, <1>7
  <1>16. \A i \in DOMAIN ch : fr2[ch[i]] = fr[ch[i]]
    BY <1>1, <1>7 DEF Good, ListGood
  <1> HIDE DEF S
  <1> QED
    BY <1>1, <1>5, <1>7, <1>9, <1>10, <1>11, <1>12, <1>13, <1>14, <1>15, <1>16 DEF S, Good, ch2

\* Frames that are not on the list below height k may have been cleaned.
Cleaned(fr, fr2, ch, k) ==
    /\ fr2 \in Seq(FrameRecs) /\ DOMAIN fr2 = DOMAIN fr
    /\ \A g \in DOMAIN fr : fr2[g] # fr[g] =>
          fr2[g] = Clean(fr[g].type) /\ ~fr[g].used /\ \A i \in 1 .. k : ch[i] # g

\* The fields of a frame.
LEMMA RecTypes ==
  ASSUME NEW r \in FrameRecs
  PROVE  /\ r.type \in FrameTypes /\ r.prev \in Nat /\ r.outer \in Nat /\ r.ret \in Nat
         /\ r.brk \in Nat /\ r.used \in BOOLEAN
  BY DEF FrameRecs

\* A frame that was cleaned for its pool knows no other frame.
LEMMA CleanIs ==
  ASSUME NEW t \in FrameTypes
  PROVE  /\ Clean(t) \in FrameRecs /\ Clean(t).type = t /\ Clean(t).used = FALSE
         /\ Clean(t).prev = NoFrame /\ Clean(t).ret = NoFrame /\ Clean(t).brk = NoFrame
  BY DEF Clean, NewFrame, FrameRecs, NoFrame

\* Cleaning frames that are not used and not on the list leaves all that the others
\* know in place.
LEMMA CleanedFacts ==
  ASSUME NEW fr, NEW fr2, NEW ch, NEW k, FramesGood(fr), Cleaned(fr, fr2, ch, k)
  PROVE  /\ FramesGood(fr2)
         /\ \A g \in DOMAIN fr :
              /\ fr2[g].type = fr[g].type /\ fr2[g].used = fr[g].used
              /\ fr[g].used => fr2[g] = fr[g]
         /\ \A i \in 1 .. k : ch[i] \in DOMAIN fr => fr2[ch[i]] = fr[ch[i]]
  <1>1. ASSUME NEW g \in DOMAIN fr
        PROVE  /\ fr2[g].type = fr[g].type /\ fr2[g].used = fr[g].used
               /\ fr[g].used => fr2[g] = fr[g]
               /\ fr2[g] # fr[g] =>
                    fr2[g].prev = NoFrame /\ fr2[g].ret = NoFrame /\ fr2[g].brk = NoFrame
    <2>1. CASE fr2[g] = fr[g]
      BY <2>1
    <2>2. CASE fr2[g] # fr[g]
      <3>1. fr2[g] = Clean(fr[g].type) /\ ~fr[g].used
        BY <2>2 DEF Cleaned
      <3>2. fr[g] \in FrameRecs
        BY DEF FramesGood
      <3>3. fr[g].type \in FrameTypes /\ fr[g].used = FALSE
        BY <3>1, <3>2, RecTypes
      <3> QED
        BY <3>1, <3>3, CleanIs
    <2> QED
      BY <2>1, <2>2
  <1>2. fr2 \in Seq(FrameRecs) /\ DOMAIN fr2 = DOMAIN fr
    BY DEF Cleaned
  <1>3. FramesGood(fr2)
    <2> SUFFICES ASSUME NEW g \in DOMAIN fr2
                 PROVE  /\ fr2[g].prev \in {NoFrame} \cup DOMAIN fr2
                        /\ fr2[g].used => fr2[g].type = "SCRIPT"
                        /\ fr2[g].ret # NoFrame =>
                              fr2[g].ret \in DOMAIN fr2 /\ fr2[fr2[g].ret].type # "C"
                        /\ fr2[g].brk = NoFrame => fr2[g].ret \in {NoFrame, fr2[g].prev}
                        /\ fr2[g].brk # NoFrame =>
                              /\ fr2[g].brk = fr2[g].outer /\ fr2[g].outer \in DOMAIN fr2
                              /\ fr2[fr2[g].outer].used /\ fr2[g].ret # NoFrame
                              /\ fr2[fr2[g].outer].ret \in {NoFrame, fr2[g].ret}
      BY <1>2 DEF FramesGood
    <2>2. CASE fr2[g] = fr[g]
      BY <1>1, <1>2, <2>2 DEF FramesGood
    <2>3. CASE fr2[g] # fr[g]
      BY <1>1, <1>2, <2>3 DEF FramesGood
    <2> QED
      BY <2>2, <2>3
  <1>4. \A i \in 1 .. k : ch[i] \in DOMAIN fr => fr2[ch[i]] = fr[ch[i]]
    BY DEF Cleaned
  <1> QED
    BY <1>1, <1>3, <1>4

\* The pools do not look at what a frame knows.
LEMMA PoolKept ==
  ASSUME NEW fr, NEW fr2, NEW pl, PoolGood(fr, pl), DOMAIN fr2 = DOMAIN fr,
         \A g \in DOMAIN fr : fr2[g].type = fr[g].type /\ (~fr[g].used => ~fr2[g].used)
  PROVE  PoolGood(fr2, pl)
  BY DEF PoolGood

\* The list up to any of its frames is a list.
LEMMA ListCut ==
  ASSUME NEW fr, NEW fr2, NEW pl, NEW ch, NEW k \in 0 .. Len(ch), ListGood(fr, pl, ch),
         DOMAIN fr2 = DOMAIN fr, \A i \in 1 .. k : fr2[ch[i]].prev = fr[ch[i]].prev
  PROVE  ListGood(fr2, pl, SubSeq(ch, 1, k))
  <1> DEFINE c == SubSeq(ch, 1, k)
  <1>1. ch \in Seq(Nat) /\ DOMAIN ch = 1 .. Len(ch) /\ Len(ch) \in Nat
    BY DEF ListGood
  <1>2. /\ c \in Seq(Nat) /\ DOMAIN c = 1 .. k /\ \A i \in 1 .. k : c[i] = ch[i]
    BY <1>1, CutFacts
  <1> HIDE DEF c
  <1>3. ASSUME NEW i \in DOMAIN c
        PROVE  /\ c[i] \in DOMAIN fr2
               /\ fr2[c[i]].prev = IF i = 1 THEN NoFrame ELSE c[i - 1]
               /\ \A j \in DOMAIN c : c[j] = c[i] => j = i
               /\ \A s \in FrameTypes : \A j \in DOMAIN pl[s] : pl[s][j] # c[i]
    <2>1. /\ i \in DOMAIN ch /\ c[i] = ch[i] /\ DOMAIN c \subseteq DOMAIN ch
          /\ \A j \in DOMAIN c : c[j] = ch[j]
      BY <1>1, <1>2
    <2>2. (IF i = 1 THEN NoFrame ELSE c[i - 1]) = (IF i = 1 THEN NoFrame ELSE ch[i - 1])
      BY <1>1, <1>2
    <2>3. fr2[ch[i]].prev = fr[ch[i]].prev
      BY <1>2
    <2> QED
      BY <2>1, <2>2, <2>3 DEF ListGood
  <1>4. ListGood(fr2, pl, c)
    BY <1>2, <1>3 DEF ListGood
  <1> QED
    BY <1>4 DEF c

\* YogThread_put_script_frame and the like: a frame that is on no list and in no pool
\* goes to the pool of its type, unless it is used or the pool is full.
LEMMA PoolPut ==
  ASSUME NEW fr, NEW pl, NEW c, PoolGood(fr, pl), ListGood(fr, pl, c), NEW s \in FrameTypes,
         NEW f \in Nat, f \in DOMAIN fr, fr[f].type = s, ~fr[f].used,
         \A i \in DOMAIN c : c[i] # f,
         \A t \in FrameTypes : \A j \in DOMAIN pl[t] : pl[t][j] # f,
         NEW pl2, pl2 = [pl EXCEPT ![s] = Append(@, f)]
  PROVE  PoolGood(fr, pl2) /\ ListGood(fr, pl2, c)
  <1> DEFINE n == Len(pl[s])
  <1>1. pl \in [FrameTypes -> Seq(Nat)]
    BY DEF PoolGood
  <1>2. /\ pl2 \in [FrameTypes -> Seq(Nat)] /\ n \in Nat
        /\ \A t \in FrameTypes \ {s} : pl2[t] = pl[t]
        /\ pl2[s] = Append(pl[s], f)
    BY <1>1
  <1>3. DOMAIN pl[s] = 1 .. n /\ pl[s] \in Seq(Nat)
    BY <1>1
  <1>4. DOMAIN pl2[s] = 1 .. n + 1 /\ pl2[s][n + 1] = f /\ \A i \in 1 .. n : pl2[s][i] = pl[s][i]
    BY <1>2, <1>3
  <1> HIDE DEF n
  <1>5. ASSUME NEW t \in FrameTypes, NEW j, j \in DOMAIN pl2[t]
        PROVE  \/ j \in DOMAIN pl[t] /\ pl2[t][j] = pl[t][j]
               \/ t = s /\ j = n + 1 /\ pl2[t][j] = f
    <2>1. CASE t = s
      BY <1>2, <1>3, <1>4, <1>5, <2>1
    <2>2. CASE t # s
      BY <1>2, <1>5, <2>2
    <2> QED
      BY <2>1, <2>2
  <1>6. ListGood(fr, pl2, c)
    <2>1. ASSUME NEW i \in DOMAIN c, NEW t \in FrameTypes, NEW j, j \in DOMAIN pl2[t]
          PROVE  pl2[t][j] # c[i]
      <3>1. c[i] # f /\ \A l \in DOMAIN pl[t] : pl[t][l] # c[i]
        BY DEF ListGood
      <3>2. \/ j \in DOMAIN pl[t] /\ pl2[t][j] = pl[t][j]
            \/ pl2[t][j] = f
        BY <1>5, <2>1
      <3> QED
        BY <3>1, <3>2
    <2> QED
      BY <2>1 DEF ListGood
  <1>7. ASSUME NEW t \in FrameTypes, NEW j, j \in DOMAIN pl2[t]
        PROVE  /\ pl2[t][j] \in DOMAIN fr /\ fr[pl2[t][j]].type = t /\ ~fr[pl2[t][j]].used
               /\ \A i \in DOMAIN pl2[t] : pl2[t][i] = pl2[t][j] => i = j
    <2>1. CASE j \in DOMAIN pl[t] /\ pl2[t][j] = pl[t][j]
      <3>1. pl2[t][j] # f
        BY <2>1
      <3>2. \A i \in DOMAIN pl2[t] : pl2[t][i] = pl2[t][j] => i \in DOMAIN pl[t] /\ pl2[t][i] = pl[t][i]
        BY <1>5, <3>1
      <3> QED
        BY <2>1, <3>2 DEF PoolGood
    <2>2. CASE t = s /\ j = n + 1 /\ pl2[t][j] = f
      <3>1. \A i \in DOMAIN pl2[t] : pl2[t][i] = f => i = n + 1
        BY <1>5, <2>2
      <3> QED
        BY <2>2, <3>1
    <2> QED
      BY <1>5, <1>7, <2>1, <2>2
  <1>8. PoolGood(fr, pl2)
    BY <1>2, <1>7 DEF PoolGood
  <1> QED
    BY <1>6, <1>8

\* A frame is noted to be used.
Used(fr, n) == [fr EXCEPT ![n].used = TRUE]

\* The flag alone changes when a frame is noted to be used.
LEMMA UsedRec ==
  ASSUME NEW r \in FrameRecs, NEW q, q = [r EXCEPT !.used = TRUE]
  PROVE  /\ q \in FrameRecs
         /\ q.type = r.type /\ q.prev = r.prev /\ q.outer = r.outer
         /\ q.ret = r.ret /\ q.brk = r.brk /\ q.used = TRUE
  BY DEF FrameRecs

\* The same for the frames.
LEMMA UsedFacts ==
  ASSUME NEW fr, fr \in Seq(FrameRecs), NEW n \in DOMAIN fr
  PROVE  /\ Used(fr, n) \in Seq(FrameRecs) /\ DOMAIN Used(fr, n) = DOMAIN fr
         /\ Used(fr, n)[n].used
         /\ \A g \in DOMAIN fr :
              LET q == Used(fr, n)[g] IN
              /\ q.type = fr[g].type /\ q.prev = fr[g].prev /\ q.outer = fr[g].outer
              /\ q.ret = fr[g].ret /\ q.brk = fr[g].brk
              /\ g # n => q = fr[g]
  <1> DEFINE q == [fr[n] EXCEPT !.used = TRUE]
  <1>1. Used(fr, n) = [fr EXCEPT ![n] = q]
    BY DEF Used
  <1>2. fr[n] \in FrameRecs
    OBVIOUS
  <1>3. /\ q \in FrameRecs
        /\ q.type = fr[n].type /\ q.prev = fr[n].prev /\ q.outer = fr[n].outer
        /\ q.ret = fr[n].ret /\ q.brk = fr[n].brk /\ q.used = TRUE
    BY <1>2, UsedRec
  <1> HIDE DEF q
  <1> DEFINE F == [fr EXCEPT ![n] = q]
  <1>4. /\ F \in Seq(FrameRecs) /\ DOMAIN F = DOMAIN fr /\ F[n] = q
        /\ \A g \in DOMAIN fr : g # n => F[g] = fr[g]
    BY <1>3
  <1> HIDE DEF F
  <1>5. Used(fr, n) = F
    BY <1>1 DEF F
  <1> QED
    BY <1>3, <1>4, <1>5

\* MAKE_FUNCTION, MAKE_BLOCK: a function or block is made in the newest frame, a script
\* frame, that is used from then on.
LEMMA FunctionMade ==
  ASSUME NEW fr, NEW pl, NEW fs, NEW ch, Good(fr, pl, fs, ch), ch # <<>>,
         fr[Newest(ch)].type = "SCRIPT", NEW ret, NEW brk,
         \/ ret = NoFrame /\ brk = NoFrame
         \/ ret = fr[Newest(ch)].ret /\ brk = Newest(ch)
  PROVE  Good(Used(fr, Newest(ch)), pl,
              Append(fs, [outer |-> Newest(ch), ret |-> ret, brk |-> brk]), ch)
  <1> DEFINE n == Newest(ch)
             F == Used(fr, n)
             new == [outer |-> n, ret |-> ret, brk |-> brk]
             fs2 == Append(fs, new)
  <1>1. /\ ch \in Seq(Nat) /\ fr \in Seq(FrameRecs) /\ Len(ch) \in DOMAIN ch /\ n = ch[Len(ch)]
        /\ n \in DOMAIN fr /\ n \in Nat /\ fr[n].type = "SCRIPT" /\ n # NoFrame
    BY DEF Good, ListGood, FramesGood, Newest, NoFrame
  <1>2. \A s \in FrameTypes : \A i \in DOMAIN pl[s] : pl[s][i] # n
    BY <1>1 DEF Good, ListGood
  <1> HIDE DEF n
  <1>3. /\ F \in Seq(FrameRecs) /\ DOMAIN F = DOMAIN fr /\ F[n].used
        /\ \A g \in DOMAIN fr :
              /\ F[g].type = fr[g].type /\ F[g].prev = fr[g].prev /\ F[g].outer = fr[g].outer
              /\ F[g].ret = fr[g].ret /\ F[g].brk = fr[g].brk
              /\ g # n => F[g] = fr[g]
    BY <1>1, UsedFacts
  <1>4. \A g \in DOMAIN fr : fr[g].used => F[g].used
    BY <1>3
  <1>5. fr[n] \in FrameRecs /\ fr[n].ret \in Nat
    BY <1>1, RecTypes
  <1>6. new \in FuncRecs /\ new.outer = n /\ new.ret = ret /\ new.brk = brk
    BY <1>1, <1>5 DEF FuncRecs, NoFrame, n
  <1>7. fs \in Seq(FuncRecs)
    BY DEF Good, FuncsGood
  <1> HIDE DEF F, new
  <1>8. /\ fs2 \in Seq(FuncRecs) /\ DOMAIN fs = 1 .. Len(fs) /\ DOMAIN fs2 = 1 .. Len(fs) + 1
        /\ Len(fs) \in Nat /\ fs2[Len(fs) + 1] = new /\ \A k \in DOMAIN fs : fs2[k] = fs[k]
    BY <1>6, <1>7
  <1> HIDE DEF fs2
  <1>9. FramesGood(F)
    <2>1. FramesGood(fr)
      BY DEF Good
    <2>2. ASSUME NEW g \in DOMAIN F
          PROVE  /\ F[g].prev \in {NoFrame} \cup DOMAIN F
                 /\ F[g].used => F[g].type = "SCRIPT"
                 /\ F[g].ret # NoFrame =>
                       F[g].ret \in DOMAIN F /\ F[F[g].ret].type # "C"
                 /\ F[g].brk = NoFrame => F[g].ret \in {NoFrame, F[g].prev}
                 /\ F[g].brk # NoFrame =>
                       /\ F[g].brk = F[g].outer /\ F[g].outer \in DOMAIN F
                       /\ F[F[g].outer].used /\ F[g].ret # NoFrame
                       /\ F[F[g].outer].ret \in {NoFrame, F[g].ret}
      <3>1. /\ fr[g].prev \in {NoFrame} \cup DOMAIN fr
            /\ fr[g].used => fr[g].type = "SCRIPT"
            /\ fr[g].ret # NoFrame => fr[g].ret \in DOMAIN fr /\ fr[fr[g].ret].type # "C"
            /\ fr[g].brk = NoFrame => fr[g].ret \in {NoFrame, fr[g].prev}
            /\ fr[g].brk # NoFrame =>
                  /\ fr[g].brk = fr[g].outer /\ fr[g].outer \in DOMAIN fr
                  /\ fr[fr[g].outer].used /\ fr[g].ret # NoFrame
                  /\ fr[fr[g].outer].ret \in {NoFrame, fr[g].ret}
        BY <1>3, <2>1 DEF FramesGood
      <3>2. F[g].used => F[g].type = "SCRIPT"
        BY <1>1, <1>3, <3>1
      <3>3. /\ F[g].type = fr[g].type /\ F[g].prev = fr[g].prev /\ F[g].outer = fr[g].outer
            /\ F[g].ret = fr[g].ret /\ F[g].brk = fr[g].brk /\ DOMAIN F = DOMAIN fr
        BY <1>3
      <3>4. fr[g].ret \in DOMAIN fr => F[fr[g].ret].type = fr[fr[g].ret].type
        BY <1>3
      <3>5. fr[g].outer \in DOMAIN fr =>
               /\ F[fr[g].outer].ret = fr[fr[g].outer].ret
               /\ fr[fr[g].outer].used => F[fr[g].outer].used
        BY <1>3, <1>4
      <3> QED
        BY <3>1, <3>2, <3>3, <3>4, <3>5
    <2> QED
      BY <1>3, <2>2 DEF FramesGood
  <1>10. FuncsGood(F, fs2)
    <2>1. FuncsGood(fr, fs)
      BY DEF Good
    <2>2. ASSUME NEW k \in DOMAIN fs2
          PROVE  /\ fs2[k].outer \in DOMAIN F /\ F[fs2[k].outer].used
                 /\ fs2[k].brk = NoFrame => fs2[k].ret = NoFrame
                 /\ fs2[k].brk # NoFrame =>
                       fs2[k].brk = fs2[k].outer /\ fs2[k].ret = F[fs2[k].outer].ret
      <3>1. CASE k \in DOMAIN fs
        <4>1. fs2[k] = fs[k] /\ fs[k].outer \in DOMAIN fr /\ fr[fs[k].outer].used
          BY <1>8, <2>1, <3>1 DEF FuncsGood
        <4>2. F[fs[k].outer].ret = fr[fs[k].outer].ret /\ F[fs[k].outer].used
          BY <1>3, <1>4, <4>1
        <4> QED
          BY <1>3, <2>1, <3>1, <4>1, <4>2 DEF FuncsGood
      <3>2. CASE k = Len(fs) + 1
        <4>1. fs2[k] = new /\ F[n].ret = fr[n].ret
          BY <1>1, <1>3, <1>8, <3>2
        <4>2. \/ ret = NoFrame /\ brk = NoFrame
              \/ ret = fr[n].ret /\ brk = n
          BY DEF n
        <4> QED
          BY <1>1, <1>3, <1>6, <4>1, <4>2
      <3> QED
        BY <1>8, <3>1, <3>2
    <2> QED
      BY <1>8, <2>2 DEF FuncsGood
  <1>11. PoolGood(F, pl)
    <2>1. PoolGood(fr, pl)
      BY DEF Good
    <2>2. ASSUME NEW s \in FrameTypes, NEW i \in DOMAIN pl[s]
          PROVE  pl[s][i] \in DOMAIN F /\ F[pl[s][i]] = fr[pl[s][i]]
      BY <1>2, <1>3, <2>1 DEF PoolGood
    <2> QED
      BY <2>1, <2>2 DEF PoolGood
  <1>12. ListGood(F, pl, ch)
    <2>1. ListGood(fr, pl, ch)
      BY DEF Good
    <2> QED
      BY <1>3, <2>1 DEF ListGood
  <1> QED
    BY <1>9, <1>10, <1>11, <1>12 DEF Good, n, F, new, fs2

-----------------------------------------------------------------------------
(* The list as the model walks it.                                         *)

\* The newest of the first k frames of the list, and these frames from it down.
At(ch, k) == IF k = 0 THEN NoFrame ELSE ch[k]
Down(ch, k) == [i \in 1 .. k |-> ch[k + 1 - i]]

\* The newest frame is at the length of the list.
LEMMA NewestAt ==
  ASSUME NEW ch, ch \in Seq(Nat)
  PROVE  Newest(ch) = At(ch, Len(ch))
  BY DEF Newest, At

\* There are no more frames on the list than frames.
LEMMA ListShort ==
  ASSUME NEW fr, NEW pl, NEW ch, fr \in Seq(FrameRecs), ListGood(fr, pl, ch)
  PROVE  Len(ch) <= Len(fr)
  <1> DEFINE S == 1 .. Len(ch)
             T == 1 .. Len(fr)
  <1>1. ch \in Seq(Nat) /\ DOMAIN ch = S /\ DOMAIN fr = T /\ Len(ch) \in Nat /\ Len(fr) \in Nat
    BY DEF ListGood
  <1>2. ch \in [S -> T] /\ \A a, b \in DOMAIN ch : ch[a] = ch[b] => a = b
    BY <1>1 DEF ListGood
  <1>3. IsFiniteSet(S) /\ IsFiniteSet(T) /\ Cardinality(S) = Len(ch) /\ Cardinality(T) = Len(fr)
    <2>1. /\ IsFiniteSet(S) /\ IsFiniteSet(T)
          /\ Cardinality(S) = IF 1 > Len(ch) THEN 0 ELSE Len(ch) - 1 + 1
          /\ Cardinality(T) = IF 1 > Len(fr) THEN 0 ELSE Len(fr) - 1 + 1
      <3>1. 1 \in Int /\ Len(ch) \in Int /\ Len(fr) \in Int
        BY <1>1
      <3> QED
        BY <3>1, FS_Interval
    <2> HIDE DEF S, T
    <2> QED
      BY <1>1, <2>1
  <1> HIDE DEF S, T
  <1>4. ch \in Injection(S, T)
    BY <1>2 DEF Injection, IsInjective
  <1>5. Cardinality(S) <= Cardinality(T)
    BY <1>3, <1>4, FS_Injection
  <1> QED
    BY <1>3, <1>5

\* The list from k down, as a sequence.
LEMMA DownFacts ==
  ASSUME NEW ch, ch \in Seq(Nat), NEW k \in 0 .. Len(ch)
  PROVE  /\ Down(ch, k) \in Seq(Nat) /\ Len(Down(ch, k)) = k /\ DOMAIN Down(ch, k) = 1 .. k
         /\ \A i \in 1 .. k : Down(ch, k)[i] = ch[k + 1 - i]
  <1>1. \A i \in 1 .. k : k + 1 - i \in 1 .. Len(ch) /\ ch[k + 1 - i] \in Nat
    OBVIOUS
  <1> QED
    BY <1>1 DEF Down

\* It is its first frame followed by the rest.
LEMMA DownNext ==
  ASSUME NEW ch, ch \in Seq(Nat), NEW k \in 1 .. Len(ch)
  PROVE  <<ch[k]>> \o Down(ch, k - 1) = Down(ch, k)
  <1> DEFINE a == Down(ch, k - 1)
             b == Down(ch, k)
             c == <<ch[k]>> \o a
  <1>0. k \in Nat /\ k - 1 \in 0 .. Len(ch) /\ k \in 0 .. Len(ch) /\ ch[k] \in Nat /\ k - 1 + 1 = k
    OBVIOUS
  <1>1. /\ a \in Seq(Nat) /\ Len(a) = k - 1 /\ DOMAIN a = 1 .. k - 1
        /\ \A i \in 1 .. k - 1 : a[i] = ch[k - 1 + 1 - i]
    BY <1>0, DownFacts
  <1>2. b \in Seq(Nat) /\ Len(b) = k /\ \A i \in 1 .. k : b[i] = ch[k + 1 - i]
    BY <1>0, DownFacts
  <1> HIDE DEF a, b
  <1>3. c \in Seq(Nat) /\ Len(c) = k /\ c[1] = ch[k] /\ \A i \in 2 .. k : c[i] = a[i - 1]
    BY <1>0, <1>1
  <1>4. ASSUME NEW i \in 1 .. k PROVE c[i] = b[i]
    <2>1. CASE i = 1
      <3>1. k + 1 - i = k
        BY <1>0, <2>1
      <3> QED
        BY <1>2, <1>3, <2>1, <3>1
    <2>2. CASE i # 1
      <3>1. i \in 2 .. k /\ i - 1 \in 1 .. k - 1 /\ k - 1 + 1 - (i - 1) = k + 1 - i
        BY <1>0, <2>2
      <3> QED
        BY <1>1, <1>2, <1>3, <3>1
    <2> QED
      BY <2>1, <2>2
  <1> HIDE DEF c
  <1> QED
    BY <1>2, <1>3, <1>4, SeqEqual DEF a, b, c

\* Following prev from a frame of the list gives the list down from it.
LEMMA ChainIs ==
  ASSUME NEW ch, FramesGood(frames), ListGood(frames, pool, ch), NEW k \in 0 .. Len(ch)
  PROVE  Chain(At(ch, k)) = Down(ch, k)
  <1> DEFINE N == Len(frames)
             D == {NoFrame} \cup DOMAIN frames
             T == [D -> Seq(Nat)]
             z == [g \in D |-> <<>>]
             one(x) == [g \in D |-> IF g = NoFrame THEN <<>> ELSE <<g>> \o x[frames[g].prev]]
             step == [i \in 1 .. N |-> [x \in T |-> one(x)]]
  <1>1. /\ frames \in Seq(FrameRecs) /\ N \in Nat /\ DOMAIN frames = 1 .. N /\ Len(ch) <= N
        /\ \A g \in DOMAIN frames : frames[g].prev \in D
        /\ ch \in Seq(Nat) /\ DOMAIN ch = 1 .. Len(ch) /\ Len(ch) \in Nat
    <2>1. frames \in Seq(FrameRecs) /\ \A g \in DOMAIN frames : frames[g].prev \in D
      BY DEF FramesGood
    <2>2. Len(ch) <= N
      BY <2>1, ListShort
    <2>3. ch \in Seq(Nat)
      BY DEF ListGood
    <2> QED
      BY <2>1, <2>2, <2>3
  <1>2. z \in T /\ D \subseteq Nat
    BY <1>1 DEF NoFrame
  <1>3. \A x \in T : one(x) \in T
    <2> SUFFICES ASSUME NEW x \in T, NEW g \in D
                 PROVE  (IF g = NoFrame THEN <<>> ELSE <<g>> \o x[frames[g].prev]) \in Seq(Nat)
      OBVIOUS
    <2>1. g # NoFrame => x[frames[g].prev] \in Seq(Nat) /\ <<g>> \in Seq(Nat)
      BY <1>1, <1>2
    <2> HIDE DEF T, D
    <2> QED
      BY <2>1
  <1> HIDE DEF T
  <1>4. step \in [1 .. N -> [T -> T]]
    BY <1>3
  <1>5. PICK F : F \in Recursions(N, T, z, step)
    <2> HIDE DEF N, z, step
    <2> QED
      BY <1>1, <1>2, <1>4, RecursionExists
  <1>6. /\ F \in [0 .. N -> T] /\ F[0] = z
        /\ \A i \in 1 .. N : i \in 0 .. N /\ i - 1 \in 0 .. N /\ F[i] = one(F[i - 1])
    <2>1. F \in [0 .. N -> T] /\ F[0] = z /\ \A i \in 1 .. N : F[i] = step[i][F[i - 1]]
      BY <1>5 DEF Recursions
    <2>2. \A i \in 1 .. N : i \in 0 .. N /\ i - 1 \in 0 .. N
      BY <1>1
    <2>3. \A i \in 1 .. N : F[i - 1] \in T
      BY <2>1, <2>2
    <2> HIDE DEF one
    <2> QED
      BY <2>1, <2>2, <2>3
  <1>7. F = [n \in 0 .. N |-> [g \in D |-> IF n = 0 \/ g = NoFrame THEN <<>>
                                          ELSE <<g>> \o F[n - 1][frames[g].prev]]]
    <2>1. ASSUME NEW n \in 0 .. N
          PROVE  F[n] = [g \in D |-> IF n = 0 \/ g = NoFrame THEN <<>>
                                     ELSE <<g>> \o F[n - 1][frames[g].prev]]
      <3>1. CASE n = 0
        BY <1>6, <3>1
      <3>2. CASE n # 0
        <4>1. n \in 1 .. N
          BY <1>1, <3>2
        <4> QED
          BY <1>6, <3>2, <4>1
      <3> QED
        BY <3>1, <3>2
    <2> HIDE DEF D, N
    <2> QED
      BY <1>6, <2>1
  <1> DEFINE down == CHOOSE d : d = [n \in 0 .. N |-> [g \in D |->
                        IF n = 0 \/ g = NoFrame THEN <<>> ELSE <<g>> \o d[n - 1][frames[g].prev]]]
  <1>8. down = [n \in 0 .. N |-> [g \in D |-> IF n = 0 \/ g = NoFrame THEN <<>>
                                             ELSE <<g>> \o down[n - 1][frames[g].prev]]]
    <2> HIDE DEF D, N
    <2> QED
      BY <1>7, Zenon
  <1>9. \A f : Chain(f) = down[N][f]
    BY Zenon DEF Chain
  <1> HIDE DEF down
  <1>10. \A n \in 0 .. N : \A g \in D :
           down[n][g] = IF n = 0 \/ g = NoFrame THEN <<>> ELSE <<g>> \o down[n - 1][frames[g].prev]
    <2> SUFFICES ASSUME NEW n \in 0 .. N, NEW g \in D
                 PROVE  down[n][g] = IF n = 0 \/ g = NoFrame THEN <<>>
                                     ELSE <<g>> \o down[n - 1][frames[g].prev]
      OBVIOUS
    <2> HIDE DEF D, N
    <2>1. down[n] = [h \in D |-> IF n = 0 \/ h = NoFrame THEN <<>>
                                 ELSE <<h>> \o down[n - 1][frames[h].prev]]
      BY <1>8, Zenon
    <2> QED
      BY <2>1
  <1>11. \A j \in 1 .. Len(ch) : /\ ch[j] \in DOMAIN frames /\ ch[j] \in D /\ ch[j] # NoFrame
                                 /\ frames[ch[j]].prev = At(ch, j - 1)
    BY <1>1, SMTT(30) DEF ListGood, At, NoFrame
  <1> DEFINE S == {n \in 0 .. N : \A j \in 0 .. Len(ch) :
                                     j <= n => down[n][At(ch, j)] = Down(ch, j)}
  <1>12. \A j \in 0 .. Len(ch) : At(ch, j) \in D
    BY <1>1, <1>11 DEF At
  <1>13. Down(ch, 0) = <<>>
    BY DEF Down
  <1>14. 0 \in S
    <2>1. \A j \in 0 .. Len(ch) : j <= 0 => j = 0
      BY <1>1
    <2>2. 0 \in 0 .. N /\ 0 \in 0 .. Len(ch)
      BY <1>1
    <2>3. down[0][At(ch, 0)] = <<>>
      BY <1>10, <1>12, <2>2
    <2> HIDE DEF N, D
    <2> QED
      BY <1>13, <2>1, <2>2, <2>3
  <1>15. ASSUME NEW n \in 1 .. N, n - 1 \in S PROVE n \in S
    <2>1. n \in 0 .. N /\ n # 0 /\ n - 1 \in 0 .. N
      BY <1>1
    <2>2. ASSUME NEW j \in 0 .. Len(ch), j <= n PROVE down[n][At(ch, j)] = Down(ch, j)
      <3>1. CASE j = 0
        <4>1. At(ch, j) = NoFrame
          BY <3>1 DEF At
        <4> QED
          BY <1>10, <1>12, <1>13, <2>1, <3>1, <4>1
      <3>2. CASE j # 0
        <4>1. j \in 1 .. Len(ch) /\ j - 1 \in 0 .. Len(ch) /\ j - 1 <= n - 1
          BY <1>1, <2>1, <2>2, <3>2
        <4>2. down[n - 1][At(ch, j - 1)] = Down(ch, j - 1)
          BY <1>15, <4>1
        <4>3. At(ch, j) = ch[j]
          BY <3>2 DEF At
        <4>4. down[n][ch[j]] = <<ch[j]>> \o down[n - 1][frames[ch[j]].prev]
          BY <1>10, <1>11, <2>1, <4>1
        <4>5. <<ch[j]>> \o Down(ch, j - 1) = Down(ch, j)
          BY <1>1, <4>1, DownNext
        <4> QED
          BY <1>11, <4>1, <4>2, <4>3, <4>4, <4>5
      <3> QED
        BY <3>1, <3>2
    <2> HIDE DEF N, D
    <2> QED
      BY <2>1, <2>2
  <1>16. N \in S
    <2> HIDE DEF S, N
    <2>1. 0 .. N \subseteq S
      BY <1>1, <1>14, <1>15, IntervalInduction
    <2> QED
      BY <1>1, <2>1
  <1>17. k <= N
    BY <1>1
  <1> QED
    BY <1>9, <1>16, <1>17

\* Its frames are the first k of the list.
LEMMA DownSet ==
  ASSUME NEW ch, ch \in Seq(Nat), NEW k \in 0 .. Len(ch)
  PROVE  ToSet(Down(ch, k)) = {ch[i] : i \in 1 .. k}
  <1> DEFINE s == Down(ch, k)
  <1>1. DOMAIN s = 1 .. k /\ \A i \in 1 .. k : s[i] = ch[k + 1 - i]
    BY DownFacts
  <1>2. k \in Nat /\ \A i \in 1 .. k : k + 1 - i \in 1 .. k /\ k + 1 - (k + 1 - i) = i
    OBVIOUS
  <1> HIDE DEF s
  <1>3. ToSet(s) = {s[i] : i \in 1 .. k}
    BY <1>1 DEF ToSet
  <1>4. \A i \in 1 .. k : s[k + 1 - i] = ch[i]
    BY <1>1, <1>2
  <1>5. \A x : x \in {s[i] : i \in 1 .. k} <=> x \in {ch[i] : i \in 1 .. k}
    <2>1. ASSUME NEW i \in 1 .. k PROVE \E j \in 1 .. k : s[i] = ch[j]
      BY <1>1, <1>2
    <2>2. ASSUME NEW i \in 1 .. k PROVE \E j \in 1 .. k : ch[i] = s[j]
      BY <1>2, <1>4
    <2> DEFINE A == {s[i] : i \in 1 .. k}
               B == {ch[i] : i \in 1 .. k}
    <2>3. A \subseteq B
      BY <2>1
    <2>4. B \subseteq A
      BY <2>2
    <2> QED
      BY <2>3, <2>4
  <1> QED
    BY <1>3, <1>5 DEF s

\* A frame is found from another by prev when it is not above it on the list.
LEMMA OnChainIs ==
  ASSUME NEW ch, FramesGood(frames), ListGood(frames, pool, ch), NEW k \in 0 .. Len(ch), NEW f
  PROVE  OnChain(f, At(ch, k)) <=> \E i \in 1 .. k : ch[i] = f
  <1>1. ch \in Seq(Nat)
    BY DEF ListGood
  <1>2. ToSet(Chain(At(ch, k))) = {ch[i] : i \in 1 .. k}
    BY <1>1, ChainIs, DownSet
  <1> QED
    BY <1>2 DEF OnChain

\* Without its first frame it is the list from k - 1 down.
LEMMA TailDown ==
  ASSUME NEW ch, ch \in Seq(Nat), NEW k \in 1 .. Len(ch)
  PROVE  Tail(Down(ch, k)) = Down(ch, k - 1)
  <1> DEFINE s == Down(ch, k)
             t == Down(ch, k - 1)
  <1>0. k \in Nat /\ k - 1 \in 0 .. Len(ch) /\ k \in 0 .. Len(ch)
    OBVIOUS
  <1>1. s \in Seq(Nat) /\ Len(s) = k /\ \A i \in 1 .. k : s[i] = ch[k + 1 - i]
    BY <1>0, DownFacts
  <1>2. /\ t \in Seq(Nat) /\ Len(t) = k - 1
        /\ \A i \in 1 .. k - 1 : t[i] = ch[k - 1 + 1 - i]
    BY <1>0, DownFacts
  <1> HIDE DEF s, t
  <1>3. Tail(s) \in Seq(Nat) /\ Len(Tail(s)) = k - 1 /\ \A i \in 1 .. k - 1 : Tail(s)[i] = s[i + 1]
    BY <1>0, <1>1
  <1>4. \A i \in 1 .. k - 1 : i + 1 \in 1 .. k /\ k + 1 - (i + 1) = k - 1 + 1 - i
    BY <1>0
  <1>5. \A i \in 1 .. k - 1 : Tail(s)[i] = t[i]
    <2> TAKE i \in 1 .. k - 1
    <2>1. i + 1 \in 1 .. k /\ k + 1 - (i + 1) = k - 1 + 1 - i
      BY <1>4
    <2>2. s[i + 1] = ch[k + 1 - (i + 1)]
      BY <1>1, <2>1
    <2> QED
      BY <1>2, <1>3, <2>1, <2>2
  <1> DEFINE u == Tail(s)
  <1> HIDE DEF u
  <1>6. u = t
    BY <1>2, <1>3, <1>5, SeqEqual DEF u
  <1> QED
    BY <1>6 DEF s, t, u

\* The element of s at the least of the indexes I: what First looks for.
Least(s, I) == IF I = {} THEN NoFrame ELSE s[CHOOSE i \in I : \A j \in I : i <= j]

\* A walk from k down to the first frame that is in X stops at the newest of them.
LEMMA LeastAt ==
  ASSUME NEW ch, ch \in Seq(Nat), NEW k \in 0 .. Len(ch), NEW I, NEW j \in 1 .. k,
         NEW X, I = {i \in DOMAIN Down(ch, k) : Down(ch, k)[i] \in X},
         ch[j] \in X, \A i \in 1 .. k : i > j => ch[i] \notin X
  PROVE  Least(Down(ch, k), I) = ch[j]
  <1> DEFINE s == Down(ch, k)
             l == k + 1 - j
  <1>1. k \in Nat /\ j \in Nat /\ l \in 1 .. k /\ k + 1 - l = j
    BY SMTT(30)
  <1>2. DOMAIN s = 1 .. k /\ \A i \in 1 .. k : s[i] = ch[k + 1 - i]
    BY DownFacts
  <1>3. \A i \in 1 .. k : i < l => k + 1 - i \in 1 .. k /\ k + 1 - i > j
    BY <1>1
  <1> HIDE DEF s, l
  <1>4. I = {i \in DOMAIN s : s[i] \in X}
    BY DEF s
  <1>5. s[l] = ch[j] /\ l \in I
    BY <1>1, <1>2, <1>4
  <1>6. \A i \in I : i \in 1 .. k /\ ~(i < l)
    BY <1>1, <1>2, <1>3, <1>4
  <1>7. \A i \in I : i \in Nat /\ l <= i
    BY <1>1, <1>6
  <1>8. (CHOOSE i \in I : \A m \in I : i <= m) = l
    <2>1. \A i \in I : (\A m \in I : i <= m) => i = l
      BY <1>1, <1>5, <1>7
    <2> QED
      BY <1>5, <1>7, <2>1
  <1>9. Least(s, I) = s[l]
    BY <1>5, <1>8 DEF Least
  <1> QED
    BY <1>5, <1>9 DEF s

\* A walk that meets no frame in X finds none.
LEMMA LeastNone ==
  ASSUME NEW ch, ch \in Seq(Nat), NEW k \in 0 .. Len(ch), NEW I,
         NEW X, I = {i \in DOMAIN Down(ch, k) : Down(ch, k)[i] \in X},
         \A i \in 1 .. k : ch[i] \notin X
  PROVE  Least(Down(ch, k), I) = NoFrame
  <1> DEFINE s == Down(ch, k)
  <1>1. DOMAIN s = 1 .. k /\ \A i \in 1 .. k : s[i] = ch[k + 1 - i]
    BY DownFacts
  <1>2. k \in Nat /\ \A i \in 1 .. k : k + 1 - i \in 1 .. k
    OBVIOUS
  <1> HIDE DEF s
  <1>3. I = {}
    BY <1>1, <1>2 DEF s
  <1> QED
    BY <1>3 DEF Least

\* env->frame set to a frame of the list by a jump: the list ends there, and the frames
\* above it that are not used are cleaned.
LEMMA CutIs ==
  ASSUME NEW ch, Good(frames, pool, funcs, ch), cur = Newest(ch), NEW k \in 0 .. Len(ch),
         CutTo(At(ch, k)), pool' = pool, funcs' = funcs
  PROVE  /\ Good(frames', pool', funcs', SubSeq(ch, 1, k)) /\ cur' = At(ch, k)
         /\ DOMAIN frames' = DOMAIN frames
         /\ \A g \in DOMAIN frames : frames'[g].type = frames[g].type
  <1> DEFINE live == ToSet(Chain(cur))
             kept == ToSet(Chain(At(ch, k)))
             above == {g \in live \ kept : ~frames[g].used}
  <1>1. /\ FramesGood(frames) /\ FuncsGood(frames, funcs) /\ PoolGood(frames, pool)
        /\ ListGood(frames, pool, ch)
    BY DEF Good
  <1>2. ch \in Seq(Nat) /\ frames \in Seq(FrameRecs) /\ Len(ch) \in 0 .. Len(ch)
    BY <1>1 DEF ListGood, FramesGood
  <1>3. /\ kept = {ch[i] : i \in 1 .. k}
        /\ live = {ch[i] : i \in 1 .. Len(ch)}
    <2>1. cur = At(ch, Len(ch))
      BY <1>2, NewestAt
    <2> QED
      BY <1>1, <1>2, <2>1, ChainIs, DownSet
  <1> HIDE DEF live, kept
  <1>4. /\ cur' = At(ch, k)
        /\ frames' = [g \in DOMAIN frames |->
                        IF g \in above THEN Clean(frames[g].type) ELSE frames[g]]
    BY DEF CutTo, live, kept
  <1>5. /\ DOMAIN frames' = DOMAIN frames
        /\ \A g \in DOMAIN frames : frames'[g] = IF g \in above THEN Clean(frames[g].type) ELSE frames[g]
    BY <1>4
  <1>6. \A g \in DOMAIN frames : frames[g] \in FrameRecs /\ frames[g].type \in FrameTypes
    BY <1>2, RecTypes
  <1>7. \A g \in DOMAIN frames : frames'[g] \in FrameRecs
    BY <1>5, <1>6, CleanIs
  <1>8. frames' \in Seq(FrameRecs)
    <2>1. DOMAIN frames = 1 .. Len(frames) /\ Len(frames) \in Nat
      BY <1>2
    <2> HIDE DEF above
    <2>2. frames' \in [1 .. Len(frames) -> FrameRecs]
      BY <1>4, <1>7, <2>1
    <2> QED
      BY <2>1, <2>2
  <1>9. Cleaned(frames, frames', ch, k)
    <2>1. \A g \in DOMAIN frames : frames'[g] # frames[g] =>
             frames'[g] = Clean(frames[g].type) /\ ~frames[g].used /\ g \notin kept
      BY <1>5
    <2> QED
      BY <1>3, <1>5, <1>8, <2>1 DEF Cleaned
  <1> DEFINE fr2 == frames'
  <1> HIDE DEF fr2
  <1>10. /\ FramesGood(fr2) /\ DOMAIN fr2 = DOMAIN frames
         /\ \A g \in DOMAIN frames :
              /\ fr2[g].type = frames[g].type /\ fr2[g].used = frames[g].used
              /\ frames[g].used => fr2[g] = frames[g]
         /\ \A i \in 1 .. k : ch[i] \in DOMAIN frames => fr2[ch[i]] = frames[ch[i]]
    BY <1>1, <1>5, <1>9, CleanedFacts DEF fr2
  <1>11. PoolGood(fr2, pool)
    BY <1>1, <1>10, PoolKept
  <1>12. \A i \in 1 .. k : fr2[ch[i]].prev = frames[ch[i]].prev
    <2>1. \A i \in 1 .. k : i \in DOMAIN ch
      BY <1>2
    <2> QED
      BY <1>1, <1>10, <2>1 DEF ListGood
  <1>13. ListGood(fr2, pool, SubSeq(ch, 1, k))
    BY <1>1, <1>10, <1>12, ListCut
  <1>14. FuncsGood(fr2, funcs)
    BY <1>1, <1>10 DEF FuncsGood
  <1> QED
    BY <1>4, <1>10, <1>11, <1>13, <1>14 DEF Good, fr2

-----------------------------------------------------------------------------
(* The jump buffers.                                                       *)

Kinds == {"main", "loop", "call", "native", "guard", "native_compare", "inst", "inst_compare"}
CKinds == {"native", "guard", "native_compare", "inst", "inst_compare"}
Guards == {"guard", "native_compare", "inst_compare"}
Modes == {"run", "jump", "end", "crossed"}
Buffers == [act : Nat, scopes : Nat]

\* BuffersLive as an operator, with the types.
Buf(cs, js, sc, md) ==
    /\ cs \in Seq(Kinds) /\ cs # <<>> /\ cs[1] = "main"
    /\ js \in Seq(Buffers) /\ js # <<>>
    /\ \A i \in DOMAIN js : /\ js[i].act \in DOMAIN cs /\ HasBuffer(cs[js[i].act])
                            /\ js[i].scopes = js[i].act
    /\ \A i, j \in DOMAIN js : i < j => js[i].act < js[j].act
    /\ \A d \in DOMAIN cs : HasBuffer(cs[d]) =>
          (\E i \in DOMAIN js : js[i].act = d) \/ (md = "jump" /\ d > Last(js).act)
    /\ md # "jump" => sc = Len(cs)
    /\ sc \in Nat

\* A longjmp to the newest buffer, which its owner keeps.
LEMMA BufLands ==
  ASSUME NEW cs, NEW js, NEW sc, Buf(cs, js, sc, "jump"), NEW md
  PROVE  /\ Last(js).act \in DOMAIN cs
         /\ Buf(SubSeq(cs, 1, Last(js).act), js, Last(js).scopes, md)
  <1> DEFINE b == Last(js).act
             c == SubSeq(cs, 1, b)
             n == Len(js)
  <1>1. /\ cs \in Seq(Kinds) /\ js \in Seq(Buffers) /\ n \in DOMAIN js /\ n \in Nat
        /\ b = js[n].act /\ Last(js).scopes = b /\ b \in DOMAIN cs /\ b \in 1 .. Len(cs)
        /\ Len(cs) \in Nat /\ DOMAIN cs = 1 .. Len(cs) /\ DOMAIN js = 1 .. n
    BY DEF Buf, Last
  <1>2. c \in Seq(Kinds) /\ Len(c) = b /\ DOMAIN c = 1 .. b /\ \A d \in 1 .. b : c[d] = cs[d]
    BY <1>1, CutFacts
  <1> HIDE DEF b, c, n
  <1>3. \A i \in DOMAIN js : js[i].act \in Nat /\ js[i].act <= b
    <2>1. \A i \in DOMAIN js : js[i] \in Buffers
      BY <1>1
    <2>2. \A i \in DOMAIN js : js[i].act \in Nat
      BY <2>1 DEF Buffers
    <2>3. \A i \in DOMAIN js : i = n \/ i < n
      BY <1>1
    <2>4. \A i, j \in DOMAIN js : i < j => js[i].act < js[j].act
      BY DEF Buf
    <2> QED
      BY <1>1, <2>2, <2>3, <2>4
  <1>4. b \in Nat /\ b >= 1 /\ c # <<>> /\ c[1] = cs[1] /\ cs[1] = "main"
    BY <1>1, <1>2 DEF Buf
  <1>5. \A i \in DOMAIN js : js[i].act \in DOMAIN c /\ c[js[i].act] = cs[js[i].act]
    BY <1>1, <1>2, <1>3 DEF Buf
  <1>6. \A d \in DOMAIN c : HasBuffer(c[d]) => \E i \in DOMAIN js : js[i].act = d
    BY <1>1, <1>2 DEF Buf, b
  <1> QED
    BY <1>1, <1>2, <1>4, <1>5, <1>6 DEF Buf, b, c

\* A longjmp to the newest buffer, whose owner takes it off and jumps on.
LEMMA BufPasses ==
  ASSUME NEW cs, NEW js, NEW sc, Buf(cs, js, sc, "jump"), cs[Last(js).act] # "main"
  PROVE  Buf(SubSeq(cs, 1, Last(js).act), Front(js), Last(js).scopes, "jump")
  <1> DEFINE b == Last(js).act
             c == SubSeq(cs, 1, b)
             k == Front(js)
             n == Len(js)
             sc2 == Last(js).scopes
  <1>1. Buf(c, js, sc2, "end") /\ b \in DOMAIN cs
    BY BufLands
  <1>2. /\ js \in Seq(Buffers) /\ n \in Nat /\ n \in DOMAIN js /\ b = js[n].act /\ DOMAIN js = 1 .. n
        /\ cs \in Seq(Kinds) /\ cs[1] = "main" /\ b \in 1 .. Len(cs)
    BY <1>1, SMTT(30) DEF Buf, Last
  <1>3. k \in Seq(Buffers) /\ Len(k) = n - 1 /\ \A i \in 1 .. n - 1 : k[i] = js[i]
    BY <1>2, FrontFacts DEF Buf
  <1>4. c[1] = "main" /\ c \in Seq(Kinds) /\ c # <<>> /\ 1 \in DOMAIN c
    BY <1>1, SMTT(30) DEF Buf
  <1>5. PICK i \in DOMAIN js : js[i].act = 1
    BY <1>1, <1>4 DEF Buf, HasBuffer
  <1> HIDE DEF b, c, k, n, sc2
  <1>6. i # n /\ i \in 1 .. n - 1
    BY <1>2, <1>5 DEF b
  <1>7. k # <<>> /\ DOMAIN k = 1 .. n - 1 /\ n - 1 >= 1 /\ DOMAIN k \subseteq DOMAIN js
    BY <1>2, <1>3, <1>6
  <1>8. Last(k) = js[n - 1] /\ n - 1 \in DOMAIN js /\ n - 1 < n
    BY <1>2, <1>3, <1>7 DEF Last
  <1>9. js[n - 1].act < b
    BY <1>1, <1>2, <1>8 DEF Buf
  <1>10. \A d \in DOMAIN c : HasBuffer(c[d]) =>
          (\E l \in DOMAIN k : k[l].act = d) \/ d > Last(k).act
    <2> SUFFICES ASSUME NEW d \in DOMAIN c, HasBuffer(c[d])
                 PROVE  (\E l \in DOMAIN k : k[l].act = d) \/ d > Last(k).act
      OBVIOUS
    <2>1. PICK l \in DOMAIN js : js[l].act = d
      BY <1>1 DEF Buf
    <2>2. l = n \/ l \in 1 .. n - 1
      BY <1>2
    <2>3. js[n - 1] \in Buffers
      BY <1>2, <1>8
    <2>4. js[n - 1].act \in Nat /\ js[n].act \in Nat
      BY <1>2, <2>3 DEF Buffers
    <2> QED
      BY <1>2, <1>3, <1>7, <1>8, <1>9, <2>1, <2>2, <2>4
  <1>11. \A l \in DOMAIN k : k[l] = js[l]
    BY <1>3, <1>7
  <1>12. /\ \A l \in DOMAIN k : /\ k[l].act \in DOMAIN c /\ HasBuffer(c[k[l].act])
                                /\ k[l].scopes = k[l].act
         /\ \A l, j \in DOMAIN k : l < j => k[l].act < k[j].act
    BY <1>1, <1>7, <1>11 DEF Buf
  <1>13. Buf(c, k, sc2, "jump")
    BY <1>1, <1>3, <1>4, <1>7, <1>10, <1>12 DEF Buf
  <1> QED
    BY <1>13 DEF b, c, k, sc2

\* The C function on top returns, with m - 1 below it that have no buffer.
LEMMA BufReturns ==
  ASSUME NEW cs, NEW js, NEW sc, Buf(cs, js, sc, "run"), NEW m \in {1, 2}, NEW md,
         cs[Len(cs)] # "main", m = 2 => cs[Len(cs) - 1] = "call",
         NEW k, k = IF HasBuffer(cs[Len(cs)]) THEN Front(js) ELSE js
  PROVE  Buf(SubSeq(cs, 1, Len(cs) - m), k, sc - m, md)
  <1> DEFINE L == Len(cs)
             n == Len(js)
             c == SubSeq(cs, 1, L - m)
  <1>1. /\ js \in Seq(Buffers) /\ n \in Nat /\ n \in DOMAIN js /\ DOMAIN js = 1 .. n
        /\ cs \in Seq(Kinds) /\ cs[1] = "main" /\ L \in Nat /\ L \in DOMAIN cs /\ DOMAIN cs = 1 .. L
        /\ sc = L
    BY DEF Buf
  <1>2. L >= 2 /\ (m = 2 => L - 1 # 1) /\ L - m \in 1 .. L
    BY <1>1
  <1>3. c \in Seq(Kinds) /\ Len(c) = L - m /\ DOMAIN c = 1 .. L - m /\ \A d \in 1 .. L - m : c[d] = cs[d]
    BY <1>1, <1>2, CutFacts
  <1> HIDE DEF c, L, n
  <1>4. c # <<>> /\ c[1] = "main" /\ 1 \in DOMAIN c
    BY <1>1, <1>2, <1>3
  <1>5. \A i \in DOMAIN js : js[i].act \in Nat /\ js[i].act \in DOMAIN cs /\ HasBuffer(cs[js[i].act])
    BY <1>1 DEF Buf, Buffers
  <1>6. \A i, j \in DOMAIN js : i < j => js[i].act < js[j].act
    BY DEF Buf
  <1>7. \A d \in DOMAIN cs : HasBuffer(cs[d]) => \E i \in DOMAIN js : js[i].act = d
    BY DEF Buf
  <1>8. \A d \in DOMAIN cs : HasBuffer(cs[d]) /\ d # L => d \in DOMAIN c
    BY <1>1, <1>2, <1>3 DEF HasBuffer, L
  <1>9. /\ k \in Seq(Buffers)
        /\ \A i \in DOMAIN k : i \in DOMAIN js /\ k[i] = js[i] /\ js[i].act # L
        /\ \A i \in DOMAIN js : js[i].act # L => i \in DOMAIN k /\ k[i] = js[i]
    <2>1. CASE HasBuffer(cs[L])
      <3>1. PICK i \in DOMAIN js : js[i].act = L
        BY <1>1, <1>7, <2>1
      <3>2. i = n
        BY <1>1, <1>5, <1>6, <3>1
      <3>3. k = Front(js) /\ k \in Seq(Buffers) /\ Len(k) = n - 1 /\ \A j \in 1 .. n - 1 : k[j] = js[j]
        BY <1>1, <2>1, FrontFacts DEF Buf, n, L
      <3>4. DOMAIN k = 1 .. n - 1
        BY <1>1, <3>3
      <3>5. \A j \in 1 .. n : js[j].act = L => j = n
        BY <1>1, <1>5, <1>6, <3>1, SMTT(30)
      <3>6. \A j \in 1 .. n : j # n <=> j \in 1 .. n - 1
        BY <1>1
      <3> QED
        BY <1>1, <3>1, <3>2, <3>3, <3>4, <3>5, <3>6
    <2>2. CASE ~HasBuffer(cs[L])
      <3>1. k = js
        BY <2>2 DEF L
      <3> QED
        BY <1>1, <1>5, <2>2, <3>1
    <2> QED
      BY <2>1, <2>2
  <1>10. k # <<>>
    BY <1>1, <1>2, <1>7, <1>9 DEF HasBuffer
  <1>11. \A i \in DOMAIN k : /\ k[i].act \in DOMAIN c /\ HasBuffer(c[k[i].act])
                             /\ k[i].scopes = k[i].act
    BY <1>3, <1>5, <1>8, <1>9 DEF Buf
  <1>12. \A i, j \in DOMAIN k : i < j => k[i].act < k[j].act
    BY <1>6, <1>9
  <1>13. \A d \in DOMAIN c : HasBuffer(c[d]) => \E i \in DOMAIN k : k[i].act = d
    <2>1. \A d \in DOMAIN c : d \in DOMAIN cs /\ d # L /\ c[d] = cs[d]
      BY <1>1, <1>2, <1>3
    <2> QED
      BY <1>7, <1>9, <2>1
  <1>14. sc - m = Len(c) /\ sc - m \in Nat
    BY <1>1, <1>2, <1>3
  <1> QED
    BY <1>3, <1>4, <1>9, <1>10, <1>11, <1>12, <1>13, <1>14 DEF Buf, c, L

\* C functions are called, the last of which may set a buffer.
LEMMA BufCalls ==
  ASSUME NEW cs, NEW js, NEW sc, Buf(cs, js, sc, "run"), NEW m \in {1, 2}, NEW c, c \in Seq(Kinds),
         Len(c) = Len(cs) + m, \A d \in DOMAIN cs : c[d] = cs[d],
         m = 2 => ~HasBuffer(c[Len(cs) + 1]),
         NEW k, k = IF HasBuffer(c[Len(cs) + m]) THEN Append(js, Buffer(Len(cs) + m, sc + m)) ELSE js
  PROVE  Buf(c, k, sc + m, "run")
  <1> DEFINE L == Len(cs)
             n == Len(js)
             new == Buffer(L + m, sc + m)
  <1>1. /\ js \in Seq(Buffers) /\ n \in Nat /\ n \in DOMAIN js /\ DOMAIN js = 1 .. n
        /\ cs \in Seq(Kinds) /\ cs[1] = "main" /\ L \in Nat /\ 1 \in DOMAIN cs /\ DOMAIN cs = 1 .. L
        /\ sc = L
    BY DEF Buf
  <1>2. DOMAIN c = 1 .. L + m /\ c # <<>> /\ c[1] = "main" /\ L + m \in DOMAIN c /\ DOMAIN cs \subseteq DOMAIN c
    BY <1>1
  <1>3. new \in Buffers /\ new.act = L + m /\ new.scopes = L + m
    BY <1>1 DEF Buffers, Buffer
  <1> HIDE DEF new
  <1>4. /\ k \in Seq(Buffers) /\ k # <<>> /\ DOMAIN js \subseteq DOMAIN k
        /\ \A i \in DOMAIN js : k[i] = js[i]
        /\ \A i \in DOMAIN k : i \in DOMAIN js \/ (i = n + 1 /\ k[i] = new /\ HasBuffer(c[L + m]))
        /\ HasBuffer(c[L + m]) => n + 1 \in DOMAIN k /\ k[n + 1] = new
    <2>1. CASE HasBuffer(c[L + m])
      <3>1. k = Append(js, new)
        BY <2>1 DEF new
      <3> QED
        BY <1>1, <1>3, <2>1, <3>1, SMTT(30)
    <2>2. CASE ~HasBuffer(c[L + m])
      BY <1>1, <2>2
    <2> QED
      BY <2>1, <2>2
  <1> HIDE DEF L, n
  <1>5. \A i \in DOMAIN js : /\ js[i].act \in DOMAIN cs /\ HasBuffer(cs[js[i].act])
                             /\ js[i].scopes = js[i].act /\ js[i].act \in Nat /\ js[i].act <= L
    BY <1>1, SMTT(30) DEF Buf, Buffers
  <1>6. \A i \in DOMAIN k : /\ k[i].act \in DOMAIN c /\ HasBuffer(c[k[i].act])
                            /\ k[i].scopes = k[i].act
    BY <1>2, <1>3, <1>4, <1>5
  <1>7. \A i, j \in DOMAIN k : i < j => k[i].act < k[j].act
    <2>1. \A i, j \in DOMAIN js : i < j => js[i].act < js[j].act
      BY DEF Buf
    <2>2. \A i \in DOMAIN js : i \in Nat /\ i < n + 1
      BY <1>1
    <2>3. \A i \in DOMAIN js : js[i].act < L + m
      BY <1>1, <1>5
    <2> SUFFICES ASSUME NEW i \in DOMAIN k, NEW j \in DOMAIN k, i < j
                 PROVE  k[i].act < k[j].act
      OBVIOUS
    <2>4. CASE j \in DOMAIN js
      <3>1. i \in DOMAIN js
        BY <1>1, <1>4, <2>2, <2>4
      <3> QED
        BY <1>4, <2>1, <2>4, <3>1
    <2>5. CASE j = n + 1
      <3>1. i \in DOMAIN js
        BY <1>1, <1>4, <2>5
      <3> QED
        BY <1>1, <1>3, <1>4, <2>2, <2>3, <2>5, <3>1
    <2> QED
      BY <1>4, <2>4, <2>5
  <1>8. \A d \in DOMAIN c : HasBuffer(c[d]) => \E i \in DOMAIN k : k[i].act = d
    <2>1. \A d \in DOMAIN cs : HasBuffer(cs[d]) => \E i \in DOMAIN js : js[i].act = d
      BY DEF Buf
    <2>2. \A d \in DOMAIN c : d \in DOMAIN cs \/ d = L + m \/ (m = 2 /\ d = L + 1)
      BY <1>1, <1>2
    <2>3. m = 2 => ~HasBuffer(c[L + 1])
      BY DEF L
    <2> SUFFICES ASSUME NEW d \in DOMAIN c, HasBuffer(c[d])
                 PROVE  \E i \in DOMAIN k : k[i].act = d
      OBVIOUS
    <2>4. CASE d \in DOMAIN cs
      BY <1>4, <2>1, <2>4
    <2>5. CASE d = L + m
      BY <1>3, <1>4, <2>5
    <2> QED
      BY <2>2, <2>3, <2>4, <2>5
  <1>9. sc + m = Len(c) /\ sc + m \in Nat /\ "run" # "jump"
    BY <1>1 DEF L
  <1> QED
    BY <1>2, <1>4, <1>6, <1>7, <1>8, <1>9 DEF Buf

\* The C function on top goes on under another name: it takes off its buffer, if it has
\* one, and sets one if the other name has one.
LEMMA BufTurns ==
  ASSUME NEW cs, NEW js, NEW sc, Buf(cs, js, sc, "run"), cs[Len(cs)] # "main",
         NEW kind \in Kinds, NEW k, k = IF HasBuffer(cs[Len(cs)]) THEN Front(js) ELSE js,
         NEW l, l = IF HasBuffer(kind) THEN Append(k, Buffer(Len(cs), sc)) ELSE k
  PROVE  Buf(Append(Front(cs), kind), l, sc, "run")
  <1> DEFINE L == Len(cs)
             c == SubSeq(cs, 1, L - 1)
             c2 == Append(c, kind)
  <1>1. /\ cs \in Seq(Kinds) /\ cs[1] = "main" /\ L \in Nat /\ L # 0 /\ sc = L
        /\ L - 1 \in 0 .. L
    BY DEF Buf
  <1>2. Buf(c, k, sc - 1, "run")
    <2> DEFINE m == 1
               md == "run"
    <2>1. m \in {1, 2} /\ m # 2
      OBVIOUS
    <2> HIDE DEF m, md
    <2>2. Buf(SubSeq(cs, 1, Len(cs) - m), k, sc - m, md)
      BY <2>1, BufReturns
    <2> QED
      BY <2>2 DEF m, md
  <1>3. c \in Seq(Kinds) /\ Len(c) = L - 1
    BY <1>1, CutFacts
  <1> HIDE DEF L, c
  <1>4. /\ c2 \in Seq(Kinds) /\ Len(c2) = Len(c) + 1 /\ \A d \in DOMAIN c : c2[d] = c[d]
        /\ c2[Len(c) + 1] = kind /\ Len(c) + 1 = L /\ sc - 1 + 1 = sc
    BY <1>1, <1>3
  <1> HIDE DEF c2
  <1>5. l = IF HasBuffer(c2[Len(c) + 1]) THEN Append(k, Buffer(Len(c) + 1, sc - 1 + 1)) ELSE k
    BY <1>4 DEF L
  <1>6. Buf(c2, l, sc - 1 + 1, "run")
    <2> DEFINE m == 1
    <2>1. m \in {1, 2} /\ m # 2 /\ Len(c2) = Len(c) + m
          /\ l = IF HasBuffer(c2[Len(c) + m]) THEN Append(k, Buffer(Len(c) + m, sc - 1 + m)) ELSE k
      BY <1>4, <1>5
    <2> HIDE DEF m
    <2>2. Buf(c2, l, sc - 1 + m, "run")
      BY <1>2, <1>4, <2>1, BufCalls, Zenon
    <2> QED
      BY <2>2 DEF m
  <1> QED
    BY <1>4, <1>6 DEF Front, c2, c, L

\* BuffersLive, with the types.
BufInv == Buf(cstack, LiveBuffers, scopes, mode)

\* main sets its buffer, and the first mainloop its own.
LEMMA BufInit == Init => BufInv
  <1> SUFFICES ASSUME Init PROVE BufInv
    OBVIOUS
  <1> DEFINE a == Buffer(1, 1)
             b == Buffer(2, 2)
  <1>1. a \in Buffers /\ b \in Buffers /\ a.act = 1 /\ a.scopes = 1 /\ b.act = 2 /\ b.scopes = 2
    BY DEF Buffers, Buffer
  <1>2. jmps = <<a, b>>
    BY DEF Init
  <1> HIDE DEF a, b
  <1>3. /\ jmps \in Seq(Buffers) /\ jmps # <<>> /\ DOMAIN jmps = {1, 2} /\ Len(jmps) = 2
        /\ jmps[1] = a /\ jmps[2] = b
    BY <1>1, <1>2
  <1>4. /\ cstack \in Seq(Kinds) /\ cstack # <<>> /\ DOMAIN cstack = {1, 2} /\ Len(cstack) = 2
        /\ cstack[1] = "main" /\ cstack[2] = "loop" /\ scopes = 2 /\ mode = "run"
    BY DEF Init, Kinds
  <1> HIDE DEF Init
  <1>5. \A i, j \in DOMAIN jmps : i < j => jmps[i].act < jmps[j].act
    BY <1>1, <1>3
  <1> QED
    BY <1>1, <1>3, <1>4, <1>5 DEF BufInv, LiveBuffers, Buf, HasBuffer

\* Every step keeps the buffers those of the activations: PUSH_JMPBUF and POP_JMPBUF
\* stand in pairs in the functions, YogEval_longjmp_to_prev_buf takes off what a jump passes.
LEMMA BufNext == BufInv /\ [Next]_vars => BufInv'
  <1> SUFFICES ASSUME BufInv, [Next]_vars PROVE BufInv'
    OBVIOUS
  <1>5. CASE UNCHANGED vars
    BY <1>5 DEF BufInv, LiveBuffers, vars
  <1> SUFFICES ASSUME Next PROVE BufInv'
    BY <1>5
  <1>a. mode # "swallowed"
    BY DEF Next, MakeBlock, MakeFunction, EnterInstruction, CallScript, CallFromC, CallNative, Ret, Finish,
           NativeReturns, InstructionEnds, CompareVal, CompareReturns, Raise, LongReturn, LongBreak,
           Running, InC, LandRaise, LandJump, LandGuard, LandCompare, LandMain, Landing
  <1>0. Buf(cstack, jmps, scopes, mode)
    BY <1>a DEF BufInv, LiveBuffers
  <1>b. ASSUME Buf(cstack', jmps', scopes', mode'), mode' # "swallowed" PROVE BufInv'
    BY <1>b DEF BufInv, LiveBuffers
  <1> HIDE DEF BufInv
  <1>1. ASSUME cstack' = cstack, jmps' = jmps, scopes' = scopes, mode' # "swallowed",
               mode' = "jump" \/ (mode # "jump" /\ mode' # "jump")
        PROVE  BufInv'
    BY <1>0, <1>b, <1>1 DEF Buf
  <1>2. ASSUME mode = "jump", Unwind, jmps' = jmps, mode' # "swallowed"
        PROVE  BufInv'
    BY <1>0, <1>b, <1>2, BufLands DEF Unwind
  <1>3. ASSUME mode = "jump", cstack[Last(jmps).act] # "main", Unwind, jmps' = Front(jmps), mode' = "jump"
        PROVE  BufInv'
    BY <1>0, <1>b, <1>3, BufPasses DEF Unwind
  <1>4. /\ cstack \in Seq(Kinds) /\ Len(cstack) \in Nat /\ Len(cstack) \in DOMAIN cstack
        /\ Top = cstack[Len(cstack)] /\ jmps \in Seq(Buffers) /\ scopes \in Nat
    BY <1>0 DEF Buf, Top, Last
  <1>6. CASE MakeBlock \/ MakeFunction
    BY <1>1, <1>6 DEF MakeBlock, MakeFunction, Running
  <1>7. CASE EnterInstruction
    <2>1. /\ mode = "run" /\ mode' = "run" /\ cstack' = Append(cstack, "inst") /\ scopes' = scopes + 1
          /\ jmps' = jmps
      BY <1>7 DEF EnterInstruction, Running
    <2>2. cstack' \in Seq(Kinds) /\ Len(cstack') = Len(cstack) + 1 /\ \A d \in DOMAIN cstack : cstack'[d] = cstack[d]
      BY <1>4, <2>1 DEF Kinds
    <2>3. ~HasBuffer(cstack'[Len(cstack) + 1])
      BY <1>4, <2>1 DEF HasBuffer
    <2> QED
      BY <1>0, <1>b, <2>1, <2>2, <2>3, BufCalls
  <1>8. CASE \E i \in DOMAIN funcs, big \in BOOLEAN : CallScript(i, big)
    BY <1>1, <1>8 DEF CallScript, Running
  <1>9. ASSUME NEW i \in DOMAIN funcs, NEW big \in BOOLEAN, CallFromC(i, big)
        PROVE  BufInv'
    <2>1. /\ mode = "run" /\ mode' = "run" /\ cstack' = cstack \o <<"call", "loop">>
          /\ scopes' = scopes + 2
          /\ jmps' = Append(jmps, Buffer(Len(cstack) + 2, scopes + 2))
      BY <1>9 DEF CallFromC, InC
    <2>2. /\ cstack' \in Seq(Kinds) /\ Len(cstack') = Len(cstack) + 2
          /\ \A d \in DOMAIN cstack : cstack'[d] = cstack[d]
          /\ cstack'[Len(cstack) + 1] = "call" /\ cstack'[Len(cstack) + 2] = "loop"
      BY <1>4, <2>1 DEF Kinds
    <2>3. HasBuffer(cstack'[Len(cstack) + 2]) /\ ~HasBuffer(cstack'[Len(cstack) + 1])
      BY <2>2 DEF HasBuffer
    <2> QED
      BY <1>0, <1>b, <2>1, <2>2, <2>3, BufCalls
  <1>10. ASSUME NEW kind \in {"native", "guard"}, CallNative(kind)
         PROVE  BufInv'
    <2>1. /\ mode = "run" /\ mode' = "run" /\ cstack' = Append(cstack, kind) /\ scopes' = scopes + 1
          /\ jmps' = IF HasBuffer(kind) THEN Append(jmps, Buffer(Len(cstack) + 1, scopes + 1)) ELSE jmps
      BY <1>10 DEF CallNative, Running
    <2>2. /\ cstack' \in Seq(Kinds) /\ Len(cstack') = Len(cstack) + 1
          /\ \A d \in DOMAIN cstack : cstack'[d] = cstack[d]
          /\ cstack'[Len(cstack) + 1] = kind
      BY <1>4, <2>1 DEF Kinds
    <2>3. jmps' = IF HasBuffer(cstack'[Len(cstack) + 1])
                  THEN Append(jmps, Buffer(Len(cstack) + 1, scopes + 1)) ELSE jmps
      BY <2>1, <2>2
    <2>4. Buf(cstack, jmps, scopes, "run")
      BY <1>0, <2>1
    <2> DEFINE c == cstack'
               k == jmps'
    <2> HIDE DEF c, k
    <2>5. /\ c \in Seq(Kinds) /\ Len(c) = Len(cstack) + 1 /\ \A d \in DOMAIN cstack : c[d] = cstack[d]
          /\ k = IF HasBuffer(c[Len(cstack) + 1])
                 THEN Append(jmps, Buffer(Len(cstack) + 1, scopes + 1)) ELSE jmps
      BY <2>2, <2>3 DEF c, k
    <2>6. Buf(c, k, scopes + 1, "run")
      <3>1. ~(1 = 2) /\ 1 \in {1, 2}
        OBVIOUS
      <3> QED
        BY <2>4, <2>5, <3>1, BufCalls, Zenon
    <2> QED
      BY <1>b, <2>1, <2>6 DEF c, k
  <1>11. CASE Ret
    BY <1>1, <1>11 DEF Ret, Running
  <1>12. CASE Finish
    <2> DEFINE back == IF cstack[Len(cstack) - 1] = "call" THEN 2 ELSE 1
    <2>1. /\ mode = "run" /\ mode' \in {"run", "end"} /\ cstack[Len(cstack)] = "loop" /\ jmps' = Front(jmps)
          /\ cstack' = SubSeq(cstack, 1, Len(cstack) - back) /\ scopes' = scopes - back
      BY <1>4, <1>12 DEF Finish, Running
    <2>2. back \in {1, 2} /\ (back = 2 => cstack[Len(cstack) - 1] = "call")
      OBVIOUS
    <2> HIDE DEF back
    <2>3. HasBuffer(cstack[Len(cstack)]) /\ cstack[Len(cstack)] # "main"
      BY <2>1 DEF HasBuffer
    <2> QED
      BY <1>0, <1>b, <2>1, <2>2, <2>3, BufReturns
  <1>13. CASE NativeReturns \/ InstructionEnds
    <2>1. /\ mode = "run" /\ mode' = "run" /\ cstack[Len(cstack)] \in CKinds
          /\ cstack' = SubSeq(cstack, 1, Len(cstack) - 1) /\ scopes' = scopes - 1
          /\ jmps' = IF HasBuffer(cstack[Len(cstack)]) THEN Front(jmps) ELSE jmps
      BY <1>4, <1>13 DEF NativeReturns, InstructionEnds, InC, HasBuffer, Front, CKinds
    <2>2. cstack[Len(cstack)] # "main"
      BY <2>1 DEF CKinds
    <2> DEFINE m == 1
               k == jmps'
    <2>3. /\ m \in {1, 2} /\ m # 2 /\ Buf(cstack, jmps, scopes, "run")
          /\ k = IF HasBuffer(cstack[Len(cstack)]) THEN Front(jmps) ELSE jmps
      BY <1>0, <2>1
    <2> HIDE DEF m, k
    <2>4. Buf(SubSeq(cstack, 1, Len(cstack) - m), k, scopes - m, "run")
      BY ONLY <2>2, <2>3, BufReturns
    <2> QED
      BY <1>b, <2>1, <2>4 DEF m, k
  <1>14. CASE Raise \/ LongReturn \/ LongBreak
    <2>1. mode = "run"
      BY <1>14 DEF Raise, LongReturn, LongBreak, Running, InC
    <2>2. \E s, t : StartJump(s, t)
      BY <1>14 DEF Raise, LongReturn, LongBreak, LongJump
    <2>3. PICK s, t : StartJump(s, t)
      BY <2>2
    <2>4. cstack' = cstack /\ jmps' = jmps /\ scopes' = scopes /\ mode' = "jump"
      BY <2>3 DEF StartJump
    <2> QED
      BY <1>0, <1>b, <2>1, <2>4 DEF Buf
  <1>15. CASE LandRaise
    BY <1>2, <1>3, <1>15 DEF LandRaise, Landing, PassOn, Land
  <1>16. CASE LandJump
    BY <1>2, <1>3, <1>16 DEF LandJump, Landing, PassOn, Land
  <1>17. CASE LandGuard
    BY <1>3, <1>17 DEF LandGuard, Landing
  <1>18. CASE LandMain
    BY <1>2, <1>18 DEF LandMain, Landing
  <1>19. ASSUME NEW kind \in {"inst", "native"}
         PROVE  /\ kind \in Kinds /\ Comparing(kind) \in Kinds /\ ~HasBuffer(kind)
                /\ HasBuffer(Comparing(kind)) /\ kind # "main" /\ Comparing(kind) # "main"
    BY DEF Kinds, Comparing, HasBuffer
  <1>20. ASSUME NEW kind \in {"inst", "native"}, CompareVal(kind) PROVE BufInv'
    <2>1. /\ mode = "run" /\ mode' = "run" /\ cstack[Len(cstack)] = kind
          /\ cstack' = Append(Front(cstack), Comparing(kind)) /\ scopes' = scopes
          /\ jmps' = Append(jmps, Buffer(Len(cstack), scopes))
      BY <1>4, <1>20 DEF CompareVal, InC
    <2>2. /\ jmps = IF HasBuffer(cstack[Len(cstack)]) THEN Front(jmps) ELSE jmps
          /\ jmps' = IF HasBuffer(Comparing(kind)) THEN Append(jmps, Buffer(Len(cstack), scopes)) ELSE jmps
      BY <1>19, <2>1
    <2>3. Buf(cstack, jmps, scopes, "run") /\ Comparing(kind) \in Kinds /\ cstack[Len(cstack)] # "main"
      BY <1>0, <1>19, <2>1
    <2>4. Buf(Append(Front(cstack), Comparing(kind)), jmps', scopes, "run")
      BY ONLY <2>2, <2>3, BufTurns
    <2> QED
      BY <1>b, <2>1, <2>4
  <1>21. ASSUME NEW kind \in {"inst", "native"}, CompareReturns(kind) PROVE BufInv'
    <2>1. /\ mode = "run" /\ mode' = "run" /\ cstack[Len(cstack)] = Comparing(kind)
          /\ cstack' = Append(Front(cstack), kind) /\ scopes' = scopes /\ jmps' = Front(jmps)
      BY <1>4, <1>21 DEF CompareReturns, InC
    <2>2. /\ jmps' = IF HasBuffer(cstack[Len(cstack)]) THEN Front(jmps) ELSE jmps
          /\ jmps' = IF HasBuffer(kind) THEN Append(jmps', Buffer(Len(cstack), scopes)) ELSE jmps'
      BY <1>19, <2>1
    <2>3. Buf(cstack, jmps, scopes, "run") /\ kind \in Kinds /\ cstack[Len(cstack)] # "main"
      BY <1>0, <1>19, <2>1
    <2>4. Buf(Append(Front(cstack), kind), jmps', scopes, "run")
      BY ONLY <2>2, <2>3, BufTurns
    <2> QED
      BY <1>b, <2>1, <2>4
  <1>22. ASSUME NEW kind \in {"inst", "native"}, LandCompare(kind) PROVE BufInv'
    <2> DEFINE left == SubSeq(cstack, 1, Last(jmps).act)
               sc == Last(jmps).scopes
               js == Front(jmps)
               md == "run"
    <2>1. /\ mode = "jump" /\ mode' = "swallowed" /\ cstack[Last(jmps).act] = Comparing(kind)
          /\ cstack' = Append(Front(left), kind) /\ scopes' = sc /\ jmps' = jmps
      BY <1>22 DEF LandCompare
    <2>2. Last(jmps).act \in DOMAIN cstack /\ Buf(left, jmps, sc, md)
      BY <1>0, <2>1, BufLands
    <2>3. left[Len(left)] = Comparing(kind)
      <3>1. Last(jmps).act \in 0 .. Len(cstack) /\ Last(jmps).act \in 1 .. Last(jmps).act
        BY <1>4, <2>2
      <3> QED
        BY <1>4, <2>1, <3>1, CutFacts
    <2> HIDE DEF left, sc
    <2>4. /\ js = IF HasBuffer(left[Len(left)]) THEN Front(jmps) ELSE jmps
          /\ js = IF HasBuffer(kind) THEN Append(js, Buffer(Len(left), sc)) ELSE js
          /\ kind \in Kinds /\ left[Len(left)] # "main" /\ Buf(left, jmps, sc, "run")
      BY <1>19, <2>2, <2>3
    <2> HIDE DEF js
    <2>5. Buf(Append(Front(left), kind), js, sc, "run")
      BY ONLY <2>4, BufTurns
    <2>6. LiveBuffers' = js
      BY <2>1 DEF LiveBuffers, js
    <2>7. Buf(cstack', js, scopes', "run")
      BY <2>1, <2>5
    <2> QED
      BY <2>1, <2>6, <2>7 DEF BufInv, Buf
  <1> QED
    BY <1>6, <1>7, <1>8, <1>9, <1>10, <1>11, <1>12, <1>13, <1>14, <1>15, <1>16, <1>17,
       <1>18, <1>20, <1>21, <1>22 DEF Next

\* longjmp goes to a C function that has not returned, and the scopes of handles are
\* then those that it had open: whatever calls and jumps came before, jmp_buf_list holds
\* the buffers of exactly the C activations that set one and are alive, until compare_val
\* of table.c swallows a jump: then exactly one more, the newest, which it left behind.
THEOREM BuffersCorrect == Spec => []BuffersLive
  <1>1. BufInv => BuffersLive
    BY DEF BufInv, Buf, BuffersLive
  <1> QED
    BY BufInit, BufNext, <1>1, PTL DEF Spec

-----------------------------------------------------------------------------
(* Frames and C activations.                                               *)

\* The kinds that may stand on a kind.
Follows(kind) == CASE kind \in {"main", "call"} -> {"loop"}
                   [] kind = "loop" -> CKinds
                   [] OTHER -> {"call"}

CallsGood(cs, md) ==
    /\ cs \in Seq(Kinds) /\ cs # <<>> /\ cs[1] = "main"
    /\ \A d \in 2 .. Len(cs) : cs[d] \in Follows(cs[d - 1])
    /\ md \in Modes
    /\ md = "run" => cs[Len(cs)] \notin {"main", "call"}

\* What an activation of that kind added to the first p frames of the list, to make
\* them the first q.
Added(fr, kind, ch, p, q) ==
    /\ kind \in {"call"} \cup InstKinds => q = p
    /\ kind \in NativeKinds => q = p + 1 /\ fr[ch[q]].type = "C"
    /\ kind \in CKinds => p > 0 /\ fr[ch[p]].type = "SCRIPT"
    /\ kind = "loop" => /\ q > p /\ fr[ch[p + 1]].type = "FINISH"
                        /\ \A i \in p + 2 .. q : fr[ch[i]].type = "SCRIPT"

\* The list is what the first T activations added.
Level(fr, cs, ch, pos, T) ==
    /\ T \in DOMAIN cs /\ pos \in [1 .. T -> Nat]
    /\ pos[1] = 0 /\ pos[T] = Len(ch)
    /\ \A c, d \in 1 .. T : c <= d => pos[c] <= pos[d]
    /\ \A d \in 2 .. T : Added(fr, cs[d], ch, pos[d - 1], pos[d])

\* What an activation added depends on the types of the frames only.
LEMMA AddedKept ==
  ASSUME NEW fr, NEW fr2, NEW kind \in Kinds, NEW ch, NEW ch2, NEW p \in Nat, NEW q \in Nat, p <= q,
         Added(fr, kind, ch, p, q), \A i \in 1 .. q : fr2[ch2[i]].type = fr[ch[i]].type
  PROVE  Added(fr2, kind, ch2, p, q)
  BY DEF Added, Kinds, CKinds, NativeKinds, InstKinds

AgreeTo(pos, pos2, t) == \A d \in 1 .. t : pos2[d] = pos[d]

\* The list at a lower depth is what the activations up to there added.
LEMMA LevelCut ==
  ASSUME NEW fr, NEW fr2, NEW cs, NEW cs2, NEW ch, NEW ch2, NEW pos, NEW T, NEW t, t \in 1 .. T,
         Level(fr, cs, ch, pos, T), cs \in Seq(Kinds), cs2 \in Seq(Kinds), ch \in Seq(Nat), ch2 \in Seq(Nat),
         t \in DOMAIN cs2, \A d \in 1 .. t : cs2[d] = cs[d],
         Len(ch2) = pos[t], \A i \in 1 .. pos[t] : fr2[ch2[i]].type = fr[ch[i]].type
  PROVE  \E pos2 : Level(fr2, cs2, ch2, pos2, t) /\ AgreeTo(pos, pos2, t)
  <1> DEFINE pos2 == [d \in 1 .. t |-> pos[d]]
  <1>1. T \in Nat /\ t \in Nat /\ T \in 1 .. Len(cs) /\ Len(cs) \in Nat /\ 1 \in 1 .. t
    BY DEF Level
  <1>2. \A d \in 1 .. t : d \in 1 .. T /\ pos[d] \in Nat /\ pos[d] <= pos[t] /\ d <= t
    <2>1. pos \in [1 .. T -> Nat] /\ \A c, d \in 1 .. T : c <= d => pos[c] <= pos[d]
      BY DEF Level
    <2>2. \A d \in 1 .. t : d \in 1 .. T /\ d <= t
      BY <1>1
    <2> QED
      BY <2>1, <2>2
  <1>3. pos2 \in [1 .. t -> Nat] /\ \A d \in 1 .. t : pos2[d] = pos[d]
    BY <1>2
  <1> HIDE DEF pos2
  <1>4. pos2[1] = 0 /\ pos2[t] = Len(ch2)
    BY <1>1, <1>3 DEF Level
  <1>5. \A c, d \in 1 .. t : c <= d => pos2[c] <= pos2[d]
    BY <1>2, <1>3 DEF Level
  <1>6. ASSUME NEW d \in 2 .. t PROVE Added(fr2, cs2[d], ch2, pos2[d - 1], pos2[d])
    <2>1. d \in 1 .. t /\ d - 1 \in 1 .. t /\ d \in 2 .. T /\ d \in 1 .. Len(cs)
      BY <1>1
    <2>2. Added(fr, cs[d], ch, pos[d - 1], pos[d]) /\ pos[d - 1] <= pos[d]
      BY <1>2, <2>1 DEF Level
    <2>3. \A i \in 1 .. pos[d] : fr2[ch2[i]].type = fr[ch[i]].type
      BY <1>2, <2>1, SMTT(30)
    <2>4. cs[d] \in Kinds /\ cs2[d] = cs[d] /\ pos[d] \in Nat /\ pos[d - 1] \in Nat
      BY <1>2, <2>1
    <2>5. Added(fr2, cs[d], ch2, pos[d - 1], pos[d])
      <3> DEFINE p == pos[d - 1]
                 q == pos[d]
                 kind == cs[d]
      <3>1. /\ Added(fr, kind, ch, p, q) /\ p <= q /\ p \in Nat /\ q \in Nat /\ kind \in Kinds
            /\ \A i \in 1 .. q : fr2[ch2[i]].type = fr[ch[i]].type
        BY <2>2, <2>3, <2>4
      <3> HIDE DEF p, q, kind
      <3>2. Added(fr2, kind, ch2, p, q)
        BY <3>1, AddedKept
      <3> QED
        BY <3>2 DEF p, q, kind
    <2> QED
      BY <1>3, <2>1, <2>4, <2>5
  <1>7. Level(fr2, cs2, ch2, pos2, t)
    BY <1>3, <1>4, <1>5, <1>6 DEF Level
  <1> QED
    BY <1>3, <1>7 DEF AgreeTo

\* One more activation, with the frames that it adds.
LEMMA LevelGrow ==
  ASSUME NEW fr, NEW fr2, NEW cs, NEW cs2, NEW ch, NEW ch2, NEW pos, NEW T, Level(fr, cs, ch, pos, T),
         cs \in Seq(Kinds), cs2 \in Seq(Kinds), ch \in Seq(Nat), ch2 \in Seq(Nat), Len(ch) <= Len(ch2),
         T + 1 \in DOMAIN cs2, \A d \in 1 .. T : cs2[d] = cs[d],
         \A i \in 1 .. Len(ch) : fr2[ch2[i]].type = fr[ch[i]].type,
         Added(fr2, cs2[T + 1], ch2, Len(ch), Len(ch2))
  PROVE  \E pos2 : Level(fr2, cs2, ch2, pos2, T + 1)
  <1> DEFINE pos2 == [d \in 1 .. T + 1 |-> IF d = T + 1 THEN Len(ch2) ELSE pos[d]]
  <1>1. T \in Nat /\ T \in 1 .. Len(cs) /\ Len(cs) \in Nat /\ 1 \in 1 .. T /\ T \in 1 .. T
        /\ Len(ch) \in Nat /\ Len(ch2) \in Nat
    BY DEF Level
  <1>2. \A d \in 1 .. T : pos[d] \in Nat /\ pos[d] <= Len(ch)
    <2>1. pos \in [1 .. T -> Nat] /\ pos[T] = Len(ch) /\ \A c, d \in 1 .. T : c <= d => pos[c] <= pos[d]
      BY DEF Level
    <2>2. \A d \in 1 .. T : d <= T
      BY <1>1
    <2> QED
      BY <1>1, <2>1, <2>2
  <1>3. /\ pos2 \in [1 .. T + 1 -> Nat] /\ pos2[T + 1] = Len(ch2)
        /\ \A d \in 1 .. T : d \in 1 .. T + 1 /\ pos2[d] = pos[d]
        /\ \A d \in 1 .. T + 1 : d \in 1 .. T \/ d = T + 1
    <2>1. \A d \in 1 .. T + 1 : d \in 1 .. T \/ d = T + 1
      BY <1>1
    <2>2. \A d \in 1 .. T : d \in 1 .. T + 1 /\ d # T + 1
      BY <1>1
    <2>3. T + 1 \in 1 .. T + 1
      BY <1>1
    <2> QED
      BY <1>1, <1>2, <2>1, <2>2, <2>3
  <1> HIDE DEF pos2
  <1>4. pos2[1] = 0
    BY <1>1, <1>3 DEF Level
  <1>5. ASSUME NEW c \in 1 .. T + 1, NEW d \in 1 .. T + 1, c <= d PROVE pos2[c] <= pos2[d]
    <2>1. CASE d = T + 1
      <3>1. pos2[d] = Len(ch2)
        BY <1>3, <2>1
      <3>2. c \in 1 .. T => pos2[c] = pos[c] /\ pos[c] \in Nat /\ pos[c] <= Len(ch)
        BY <1>2, <1>3
      <3>3. c \in 1 .. T \/ c = T + 1
        BY <1>3
      <3> QED
        BY <1>1, <1>3, <3>1, <3>2, <3>3
    <2>2. CASE d # T + 1
      <3>1. c \in 1 .. T /\ d \in 1 .. T
        BY <1>1, <1>5, <2>2
      <3> QED
        BY <1>3, <1>5, <3>1 DEF Level
    <2> QED
      BY <2>1, <2>2
  <1>6. ASSUME NEW d \in 2 .. T + 1 PROVE Added(fr2, cs2[d], ch2, pos2[d - 1], pos2[d])
    <2>1. CASE d = T + 1
      <3>1. d - 1 = T /\ pos2[T] = Len(ch)
        BY <1>1, <1>3, <2>1 DEF Level
      <3> QED
        BY <1>3, <2>1, <3>1
    <2>2. CASE d # T + 1
      <3>1. d \in 1 .. T /\ d - 1 \in 1 .. T /\ d \in 2 .. T /\ d \in 1 .. Len(cs) /\ d - 1 <= d
        BY <1>1, <2>2
      <3>2. Added(fr, cs[d], ch, pos[d - 1], pos[d]) /\ pos[d - 1] <= pos[d]
        BY <3>1 DEF Level
      <3>3. \A i \in 1 .. pos[d] : fr2[ch2[i]].type = fr[ch[i]].type
        <4>1. pos[d] \in Nat /\ pos[d] <= Len(ch)
          BY <1>2, <3>1
        <4>2. \A i \in 1 .. pos[d] : i \in 1 .. Len(ch)
          BY <1>1, <4>1
        <4> QED
          BY <4>2
      <3>4. cs[d] \in Kinds /\ cs2[d] = cs[d] /\ pos[d] \in Nat /\ pos[d - 1] \in Nat
        BY <1>2, <3>1
      <3>5. Added(fr2, cs[d], ch2, pos[d - 1], pos[d])
        <4> DEFINE p == pos[d - 1]
                   q == pos[d]
                   kind == cs[d]
        <4>1. /\ Added(fr, kind, ch, p, q) /\ p <= q /\ p \in Nat /\ q \in Nat /\ kind \in Kinds
              /\ \A i \in 1 .. q : fr2[ch2[i]].type = fr[ch[i]].type
          BY <3>2, <3>3, <3>4
        <4> HIDE DEF p, q, kind
        <4>2. Added(fr2, kind, ch2, p, q)
          BY <4>1, AddedKept
        <4> QED
          BY <4>2 DEF p, q, kind
      <3> QED
        BY <1>3, <3>1, <3>4, <3>5
    <2> QED
      BY <2>1, <2>2
  <1>7. Level(fr2, cs2, ch2, pos2, T + 1)
    BY <1>3, <1>4, <1>5, <1>6 DEF Level
  <1> QED
    BY <1>7

\* A function is called above a frame that is no C frame.
LEMMA FunctionPushed ==
  ASSUME NEW fr, NEW pl, NEW ch, Good(fr, pl, funcs, ch), ch # <<>>,
         fr[Newest(ch)].type # "C", NEW i \in DOMAIN funcs, NEW big \in BOOLEAN
  PROVE  LET S == ExecFunction(<<fr, pl>>, i, big, Newest(ch)) IN
         /\ S[3] \in DOMAIN S[1] /\ S[1][S[3]].type = "SCRIPT"
         /\ Good(S[1], S[2], funcs, Append(ch, S[3])) /\ Newest(Append(ch, S[3])) = S[3]
         /\ \A g \in DOMAIN fr : g \in DOMAIN S[1] /\ S[1][g].type = fr[g].type
  <1> DEFINE n == Newest(ch)
             r == funcs[i]
             ret == IF r.ret = NoFrame THEN n ELSE r.ret
             f == [r EXCEPT !.ret = IF @ = NoFrame THEN n ELSE @]
  <1>1. /\ FramesGood(fr) /\ FuncsGood(fr, funcs) /\ ListGood(fr, pl, ch)
    BY DEF Good
  <1>2. /\ n \in DOMAIN fr /\ n \in Nat /\ n # NoFrame /\ fr[n].type # "C"
    BY <1>1 DEF ListGood, FramesGood, Newest, NoFrame
  <1>3. r \in FuncRecs
    BY <1>1 DEF FuncsGood
  <1> HIDE DEF n
  <1>4. f \in FuncRecs /\ f.outer = r.outer /\ f.ret = ret /\ f.brk = r.brk
    <2> HIDE DEF r
    <2> QED
      BY <1>2, <1>3 DEF FuncRecs
  <1>5. /\ r.outer \in DOMAIN fr /\ fr[r.outer].used
        /\ r.brk = NoFrame => r.ret = NoFrame
        /\ r.brk # NoFrame => r.brk = r.outer /\ r.ret = fr[r.outer].ret
    BY <1>1 DEF FuncsGood
  <1> HIDE DEF f, r
  <1>6. r.ret # NoFrame => r.ret \in DOMAIN fr /\ fr[r.ret].type # "C"
    BY <1>1, <1>5 DEF FramesGood
  <1>7. /\ f.ret # NoFrame => f.ret \in DOMAIN fr /\ fr[f.ret].type # "C"
        /\ f.brk = NoFrame => f.ret \in {NoFrame, n}
        /\ f.brk # NoFrame => /\ f.brk = f.outer /\ f.outer \in DOMAIN fr /\ fr[f.outer].used
                              /\ f.ret # NoFrame
                              /\ fr[f.outer].ret \in {NoFrame, f.ret}
    BY <1>2, <1>4, <1>5, <1>6
  <1>8. ExecFunction(<<fr, pl>>, i, big, n) = PushFrame(<<fr, pl>>, "SCRIPT", big, n, f)
    BY DEF ExecFunction, f, r
  <1>9. "SCRIPT" \in FrameTypes
    BY DEF FrameTypes
  <1>10. LET S == PushFrame(<<fr, pl>>, "SCRIPT", big, n, f) IN
         /\ S[3] \in DOMAIN S[1] /\ S[1][S[3]].type = "SCRIPT"
         /\ Good(S[1], S[2], funcs, Append(ch, S[3])) /\ Newest(Append(ch, S[3])) = S[3]
         /\ \A g \in DOMAIN fr : g \in DOMAIN S[1] /\ S[1][g].type = fr[g].type
    BY <1>4, <1>7, <1>9, FramePushed DEF n
  <1> QED
    BY <1>8, <1>10 DEF n

\* A frame of another type is pushed for C code.
PlainFrame(fr, pl, type, below) == PushFrame(<<fr, pl>>, type, TRUE, below, NoFunc)

\* A C or finish frame is pushed: it has no function, hence nothing to return to.
LEMMA PlainPushed ==
  ASSUME NEW fr, NEW pl, NEW ch, Good(fr, pl, funcs, ch), NEW type \in FrameTypes
  PROVE  LET S == PlainFrame(fr, pl, type, Newest(ch)) IN
         /\ S[3] \in DOMAIN S[1] /\ S[1][S[3]].type = type
         /\ Good(S[1], S[2], funcs, Append(ch, S[3])) /\ Newest(Append(ch, S[3])) = S[3]
         /\ \A g \in DOMAIN fr : g \in DOMAIN S[1] /\ S[1][g].type = fr[g].type
  <1>1. NoFunc \in FuncRecs /\ NoFunc.ret = NoFrame /\ NoFunc.brk = NoFrame
    BY DEF NoFunc, FuncRecs, NoFrame
  <1> DEFINE f == NoFunc
             big == TRUE
  <1>2. /\ f \in FuncRecs /\ big \in BOOLEAN
        /\ f.ret # NoFrame => f.ret \in DOMAIN fr /\ fr[f.ret].type # "C"
        /\ f.brk = NoFrame => f.ret \in {NoFrame, Newest(ch)}
        /\ f.brk # NoFrame => /\ f.brk = f.outer /\ f.outer \in DOMAIN fr /\ fr[f.outer].used
                              /\ f.ret # NoFrame
                              /\ fr[f.outer].ret \in {NoFrame, f.ret}
    BY <1>1
  <1> HIDE DEF f, big
  <1>3. LET S == PushFrame(<<fr, pl>>, type, big, Newest(ch), f) IN
         /\ S[3] \in DOMAIN S[1] /\ S[1][S[3]].type = type
         /\ Good(S[1], S[2], funcs, Append(ch, S[3])) /\ Newest(Append(ch, S[3])) = S[3]
         /\ \A g \in DOMAIN fr : g \in DOMAIN S[1] /\ S[1][g].type = fr[g].type
    BY <1>2, FramePushed
  <1> QED
    BY <1>3 DEF f, big, PlainFrame

\* The newest frame of a list that was cut.
LEMMA CutNewest ==
  ASSUME NEW ch, ch \in Seq(Nat), NEW k \in 0 .. Len(ch)
  PROVE  Newest(SubSeq(ch, 1, k)) = At(ch, k) /\ SubSeq(ch, 1, k) \in Seq(Nat)
  <1>1. /\ SubSeq(ch, 1, k) \in Seq(Nat) /\ Len(SubSeq(ch, 1, k)) = k /\ k \in Nat
        /\ \A j \in 1 .. k : SubSeq(ch, 1, k)[j] = ch[j]
    BY CutFacts
  <1> QED
    BY <1>1, SMTT(30) DEF Newest, At

\* The newest frame returns: it is cleaned, put into its pool, and taken off the list.
LEMMA FramePopped ==
  ASSUME NEW ch, Good(frames, pool, funcs, ch), ch # <<>>, NEW f, f = Newest(ch), NEW type,
         type = frames[f].type, NEW fr2,
         fr2 = IF frames[f].used THEN frames ELSE [frames EXCEPT ![f] = Clean(type)],
         NEW pl2, pl2 = PutFrame(pool, f, type)
  PROVE  LET c == SubSeq(ch, 1, Len(ch) - 1) IN
         /\ Good(fr2, pl2, funcs, c)
         /\ Newest(c) = frames[f].prev
         /\ \A g \in DOMAIN frames : fr2[g].type = frames[g].type
  <1> DEFINE k == Len(ch) - 1
             c == SubSeq(ch, 1, k)
  <1>1. /\ FramesGood(frames) /\ FuncsGood(frames, funcs) /\ PoolGood(frames, pool)
        /\ ListGood(frames, pool, ch)
    BY DEF Good
  <1>2. /\ ch \in Seq(Nat) /\ frames \in Seq(FrameRecs) /\ Len(ch) \in Nat /\ Len(ch) \in DOMAIN ch
        /\ k \in 0 .. Len(ch) /\ f = ch[Len(ch)] /\ DOMAIN ch = 1 .. Len(ch)
    BY <1>1 DEF ListGood, FramesGood, Newest
  <1>3. /\ f \in DOMAIN frames /\ f \in Nat /\ \A i \in 1 .. k : ch[i] # f
        /\ frames[f].prev = At(ch, k)
        /\ \A s \in FrameTypes : \A j \in DOMAIN pool[s] : pool[s][j] # f
    <2>1. f \in DOMAIN frames /\ f \in Nat
      BY <1>1, <1>2 DEF ListGood
    <2>2. \A i \in 1 .. k : i \in DOMAIN ch /\ i # Len(ch)
      <3>1. Len(ch) \in Nat /\ DOMAIN ch = 1 .. Len(ch)
        BY <1>2
      <3>2. \A i \in 1 .. Len(ch) - 1 : i \in 1 .. Len(ch) /\ i # Len(ch)
        BY <3>1
      <3> QED
        BY <3>1, <3>2
    <2>3. \A i \in 1 .. k : ch[i] # f
      BY <1>1, <1>2, <2>2 DEF ListGood
    <2>4. frames[f].prev = At(ch, k)
      BY <1>1, <1>2, SMTT(30) DEF ListGood, At
    <2>5. \A s \in FrameTypes : \A j \in DOMAIN pool[s] : pool[s][j] # f
      BY <1>1, <1>2 DEF ListGood
    <2> QED
      BY <2>1, <2>3, <2>4, <2>5
  <1>4. frames[f] \in FrameRecs /\ type \in FrameTypes /\ frames[f].used \in BOOLEAN
    BY <1>2, <1>3, RecTypes
  <1> HIDE DEF k
  <1>5. Cleaned(frames, fr2, ch, k)
    <2>1. Clean(type) \in FrameRecs
      BY <1>4, CleanIs
    <2>2. fr2 \in Seq(FrameRecs) /\ DOMAIN fr2 = DOMAIN frames
      BY <1>2, <1>3, <2>1
    <2>3. \A g \in DOMAIN frames : fr2[g] # frames[g] =>
             g = f /\ fr2[g] = Clean(type) /\ ~frames[g].used
      BY <1>2, <1>3, <2>1
    <2> QED
      BY <1>3, <2>2, <2>3 DEF Cleaned
  <1>6. /\ FramesGood(fr2) /\ DOMAIN fr2 = DOMAIN frames
        /\ \A g \in DOMAIN frames :
             /\ fr2[g].type = frames[g].type /\ fr2[g].used = frames[g].used
             /\ frames[g].used => fr2[g] = frames[g]
        /\ \A i \in 1 .. k : ch[i] \in DOMAIN frames => fr2[ch[i]] = frames[ch[i]]
    <2>1. DOMAIN fr2 = DOMAIN frames
      BY <1>5 DEF Cleaned
    <2> QED
      BY <1>1, <1>5, <2>1, CleanedFacts
  <1>7. PoolGood(fr2, pool)
    BY <1>1, <1>6, PoolKept
  <1>8. \A i \in 1 .. k : fr2[ch[i]].prev = frames[ch[i]].prev
    <2>1. \A i \in 1 .. k : i \in DOMAIN ch
      BY <1>2
    <2> QED
      BY <1>1, <1>6, <2>1 DEF ListGood
  <1>9. ListGood(fr2, pool, c)
    BY <1>1, <1>2, <1>6, <1>8, ListCut
  <1>10. FuncsGood(fr2, funcs)
    BY <1>1, <1>6 DEF FuncsGood
  <1>11. /\ c \in Seq(Nat) /\ DOMAIN c = 1 .. k /\ \A i \in 1 .. k : c[i] = ch[i]
    BY <1>2, CutFacts
  <1>12. Newest(c) = frames[f].prev
    BY <1>2, <1>3, CutNewest
  <1> HIDE DEF c
  <1>13. PoolGood(fr2, pl2) /\ ListGood(fr2, pl2, c)
    <2>1. CASE pl2 = pool
      BY <1>7, <1>9, <2>1
    <2>2. CASE pl2 # pool
      <3>1. ~frames[f].used /\ pl2 = [pool EXCEPT ![type] = Append(@, f)]
        BY <2>2 DEF PutFrame
      <3>2. fr2[f].type = type /\ ~fr2[f].used /\ f \in DOMAIN fr2
        BY <1>3, <1>6, <3>1
      <3>3. \A i \in DOMAIN c : c[i] # f
        BY <1>3, <1>11
      <3>4. /\ PoolGood(fr2, pool) /\ ListGood(fr2, pool, c) /\ type \in FrameTypes
            /\ f \in Nat /\ f \in DOMAIN fr2 /\ fr2[f].type = type /\ ~fr2[f].used
        BY <1>3, <1>4, <1>7, <1>9, <3>2
      <3>5. \A t \in FrameTypes : \A j \in DOMAIN pool[t] : pool[t][j] # f
        BY <1>3
      <3>6. pl2 = [pool EXCEPT ![type] = Append(@, f)]
        BY <3>1
      <3> QED
        BY ONLY <3>3, <3>4, <3>5, <3>6, PoolPut
    <2> QED
      BY <2>1, <2>2
  <1> QED
    BY <1>6, <1>10, <1>12, <1>13 DEF Good, c, k

\* The mainloop that runs the newest frames gets other ones.
LEMMA LevelLoop ==
  ASSUME NEW fr, NEW fr2, NEW cs, NEW cs2, NEW ch, NEW ch2, NEW pos, NEW T, Level(fr, cs, ch, pos, T),
         T >= 2, cs[T] = "loop", cs \in Seq(Kinds), cs2 \in Seq(Kinds), ch \in Seq(Nat), ch2 \in Seq(Nat),
         T \in DOMAIN cs2, \A d \in 1 .. T : cs2[d] = cs[d],
         Len(ch2) > pos[T - 1], \A i \in 1 .. pos[T - 1] + 1 : fr2[ch2[i]].type = fr[ch[i]].type,
         \A i \in pos[T - 1] + 2 .. Len(ch2) : fr2[ch2[i]].type = "SCRIPT"
  PROVE  \E pos2 : Level(fr2, cs2, ch2, pos2, T)
  <1> DEFINE p == pos[T - 1]
             c == SubSeq(ch2, 1, p)
             t == T - 1
  <1>1. /\ T \in Nat /\ T \in 1 .. Len(cs) /\ Len(cs) \in Nat /\ t \in 1 .. T /\ t + 1 = T
        /\ T \in 1 .. Len(cs2) /\ Len(cs2) \in Nat /\ t \in DOMAIN cs2 /\ T \in 2 .. T /\ T \in 1 .. T
    BY DEF Level
  <1>2. p \in Nat /\ Len(ch2) \in Nat /\ p \in 0 .. Len(ch2)
    BY <1>1, SMTT(30) DEF Level
  <1>6. \A d \in 1 .. t : cs2[d] = cs[d]
    BY <1>1
  <1> HIDE DEF p
  <1>3. c \in Seq(Nat) /\ Len(c) = p /\ \A i \in 1 .. p : c[i] = ch2[i]
    BY <1>2, CutFacts, SMTT(30)
  <1> HIDE DEF c, t
  <1>4. \A i \in 1 .. p : i \in 1 .. p + 1
    BY <1>2
  <1>5. \A i \in 1 .. p : fr2[c[i]].type = fr[ch[i]].type
    BY <1>3, <1>4 DEF p
  <1>7. pos[t] = p
    BY DEF p, t
  <1>8. PICK one : Level(fr2, cs2, c, one, t)
    <2>1. Len(c) = pos[t] /\ \A i \in 1 .. pos[t] : fr2[c[i]].type = fr[ch[i]].type
      BY <1>3, <1>5, <1>7
    <2>2. t \in 1 .. T /\ t \in DOMAIN cs2 /\ c \in Seq(Nat)
      BY <1>1, <1>3
    <2>3. /\ Level(fr, cs, ch, pos, T) /\ cs \in Seq(Kinds) /\ cs2 \in Seq(Kinds)
          /\ ch \in Seq(Nat)
      OBVIOUS
    <2>4. \E pos2 : Level(fr2, cs2, c, pos2, t) /\ AgreeTo(pos, pos2, t)
      BY ONLY <1>6, <2>1, <2>2, <2>3, LevelCut
    <2> QED
      BY <2>4
  <1>9. Added(fr, "loop", ch, p, pos[T])
    BY <1>1 DEF Level, p
  <1>10. p + 1 \in 1 .. p + 1 /\ Len(ch2) > p
    BY <1>2, SMTT(30) DEF p
  <1>11. fr2[ch2[p + 1]].type = "FINISH"
    BY <1>9, <1>10 DEF Added, p
  <1>12. Added(fr2, cs2[t + 1], ch2, Len(c), Len(ch2))
    BY <1>1, <1>3, <1>10, <1>11 DEF Added, p, CKinds, NativeKinds, InstKinds
  <1>13. \A i \in 1 .. Len(c) : fr2[ch2[i]].type = fr2[c[i]].type
    BY <1>3
  <1>14. Len(c) <= Len(ch2)
    BY <1>2, <1>3
  <1>15. t + 1 \in DOMAIN cs2 /\ \A d \in 1 .. t : cs2[d] = cs2[d]
    BY <1>1
  <1>16. \E pos2 : Level(fr2, cs2, ch2, pos2, t + 1)
    <2>1. /\ Level(fr2, cs2, c, one, t) /\ cs2 \in Seq(Kinds) /\ c \in Seq(Nat) /\ ch2 \in Seq(Nat)
      BY <1>3, <1>8
    <2> QED
      BY ONLY <1>12, <1>13, <1>14, <1>15, <2>1, LevelGrow
  <1> QED
    BY <1>1, <1>16

\* Frames keep their types.
LEMMA LevelKept ==
  ASSUME NEW fr, NEW fr2, NEW cs, NEW ch, NEW pos, NEW T, Level(fr, cs, ch, pos, T),
         cs \in Seq(Kinds), ch \in Seq(Nat), \A i \in 1 .. Len(ch) : fr2[ch[i]].type = fr[ch[i]].type
  PROVE  \E pos2 : Level(fr2, cs, ch, pos2, T)
  <1>1. /\ T \in 1 .. T /\ T \in DOMAIN cs /\ Len(ch) = pos[T]
    BY DEF Level
  <1>2. \A i \in 1 .. pos[T] : fr2[ch[i]].type = fr[ch[i]].type
    BY <1>1
  <1>3. \A d \in 1 .. T : cs[d] = cs[d]
    OBVIOUS
  <1>4. \E pos2 : Level(fr2, cs, ch, pos2, T) /\ AgreeTo(pos, pos2, T)
    BY <1>1, <1>2, <1>3, LevelCut
  <1> QED
    BY <1>4

\* What the top activation is about.
LEMMA TopLevel ==
  ASSUME NEW fr, NEW cs, NEW md, NEW ch, NEW pos, CallsGood(cs, md), md = "run", ch \in Seq(Nat),
         Level(fr, cs, ch, pos, Len(cs))
  PROVE  LET T == Len(cs)
             p == pos[T - 1]
         IN  /\ T \in Nat /\ T >= 2 /\ T \in DOMAIN cs /\ T - 1 \in 1 .. T /\ p \in Nat
             /\ cs[T] \in {"loop"} \cup CKinds /\ p <= Len(ch)
             /\ Added(fr, cs[T], ch, p, Len(ch))
             /\ cs[T] \in Follows(cs[T - 1])
             /\ cs[T - 1] \in Kinds
             /\ Len(ch) > 0 /\ ch # <<>> /\ Newest(ch) = ch[Len(ch)]
             /\ cs[T] \in NativeKinds => fr[Newest(ch)].type = "C"
             /\ cs[T] \in InstKinds => fr[Newest(ch)].type = "SCRIPT"
             /\ cs[T] = "loop" => fr[Newest(ch)].type = IF Len(ch) = p + 1 THEN "FINISH" ELSE "SCRIPT"
  <1> DEFINE T == Len(cs)
             p == pos[T - 1]
  <1>1. /\ cs \in Seq(Kinds) /\ T \in Nat /\ DOMAIN cs = 1 .. T /\ T # 0 /\ cs[1] = "main"
        /\ cs[T] \notin {"main", "call"}
    BY DEF CallsGood
  <1>2. T >= 2 /\ T \in 2 .. T /\ T - 1 \in 1 .. T /\ T - 1 \in DOMAIN cs /\ T \in DOMAIN cs /\ T \in 1 .. T
        /\ T - 1 <= T
    BY <1>1
  <1>3. cs[T] \in Kinds /\ cs[T - 1] \in Kinds /\ cs[T] \in {"loop"} \cup CKinds
    BY <1>1, <1>2 DEF Kinds, CKinds
  <1>4. cs[T] \in Follows(cs[T - 1])
    BY <1>2 DEF CallsGood
  <1>5. p \in Nat /\ pos[T] = Len(ch) /\ p <= Len(ch) /\ Added(fr, cs[T], ch, p, Len(ch)) /\ Len(ch) \in Nat
    BY <1>2 DEF Level
  <1> HIDE DEF T, p
  <1>6. Len(ch) > 0
    BY <1>3, <1>5 DEF Added
  <1>7. ch # <<>> /\ Newest(ch) = ch[Len(ch)]
    BY <1>6 DEF Newest
  <1>8. cs[T] \in NativeKinds => fr[Newest(ch)].type = "C"
    BY <1>5, <1>7 DEF Added
  <1>9. cs[T] \in InstKinds => fr[Newest(ch)].type = "SCRIPT"
    BY <1>5, <1>7 DEF Added, CKinds, NativeKinds, InstKinds
  <1>10. cs[T] = "loop" => fr[Newest(ch)].type = IF Len(ch) = p + 1 THEN "FINISH" ELSE "SCRIPT"
    <2>1. Len(ch) # p + 1 /\ Len(ch) > p => Len(ch) \in p + 2 .. Len(ch)
      BY <1>5
    <2> QED
      BY <1>5, <1>7, <2>1 DEF Added
  <1> QED
    BY <1>1, <1>2, <1>3, <1>4, <1>5, <1>6, <1>7, <1>8, <1>9, <1>10 DEF T, p

-----------------------------------------------------------------------------
(* The invariant.                                                          *)

\* The target of a jump is on the list.
Target(fr, ch, status, target) ==
    /\ status \in {"RAISE", "BREAK", "RETURN"}
    /\ status # "RAISE" => target # NoFrame
    /\ target # NoFrame =>
          \E i \in DOMAIN ch : /\ ch[i] = target /\ fr[ch[i]].type # "C"
                               /\ status = "RAISE" => fr[ch[i]].type = "SCRIPT"

\* While longjmp unwinds, the frames are those of the activation with the newest
\* buffer, and of a native function or an instruction that it called.  The target is
\* one of them.
JumpGood(fr, cs, js, jp, ch, pos, T) ==
    LET b == Last(js).act IN
    /\ Level(fr, cs, ch, pos, T)
    /\ T = b \/ (T = b + 1 /\ cs[b] = "loop")
    /\ cs[b] = "loop" => pos[b] > 0 /\ fr[ch[pos[b]]].type = "SCRIPT"
    /\ jp = [status |-> jp.status, target |-> jp.target]
    /\ Target(fr, ch, jp.status, jp.target)

\* The frames are those of the C functions as long as code runs, and still when
\* compare_val has swallowed a jump.
Going == IF mode = "swallowed" THEN "run" ELSE mode

EvalInv ==
    /\ CallsGood(cstack, Going)
    /\ \E ch : /\ Good(frames, pool, funcs, ch) /\ cur = Newest(ch)
               /\ Going = "run" => \E pos : Level(frames, cstack, ch, pos, Len(cstack))
               /\ mode = "jump" => \E pos, T : JumpGood(frames, cstack, jmps, jump, ch, pos, T)

\* The package runs in its frame, on the finish frame of the first mainloop.
LEMMA EvalInit == Init => EvalInv
  <1> SUFFICES ASSUME Init PROVE EvalInv
    OBVIOUS
  <1> DEFINE ch == <<1, 2>>
             a == NewFrame("FINISH", NoFrame, NoFrame, NoFrame)
             b == [NewFrame("SCRIPT", NoFrame, NoFrame, NoFrame) EXCEPT !.prev = 1, !.used = TRUE]
             f == [outer |-> 2, ret |-> NoFrame, brk |-> NoFrame]
             pos == [d \in 1 .. 2 |-> IF d = 1 THEN 0 ELSE 2]
  <1>1. /\ a \in FrameRecs /\ a.type = "FINISH" /\ a.prev = NoFrame /\ a.outer = NoFrame
        /\ a.ret = NoFrame /\ a.brk = NoFrame /\ a.used = FALSE
    BY DEF NewFrame, FrameRecs, FrameTypes, NoFrame
  <1>2. /\ b \in FrameRecs /\ b.type = "SCRIPT" /\ b.prev = 1 /\ b.outer = NoFrame
        /\ b.ret = NoFrame /\ b.brk = NoFrame /\ b.used = TRUE
    BY DEF NewFrame, FrameRecs, FrameTypes, NoFrame
  <1>3. f \in FuncRecs /\ f.outer = 2 /\ f.ret = NoFrame /\ f.brk = NoFrame
    BY DEF FuncRecs, NoFrame
  <1>4. frames = <<a, b>> /\ funcs = <<f>>
    BY DEF Init
  <1> HIDE DEF a, b, f
  <1>5. /\ frames \in Seq(FrameRecs) /\ DOMAIN frames = {1, 2} /\ frames[1] = a /\ frames[2] = b
        /\ funcs \in Seq(FuncRecs) /\ DOMAIN funcs = {1} /\ funcs[1] = f
    BY <1>1, <1>2, <1>3, <1>4
  <1>6. /\ cur = 2 /\ mode = "run" /\ cstack = <<"main", "loop">>
        /\ pool = [t \in FrameTypes |-> <<>>]
    BY BoundsNat DEF Init, FrameTypes
  <1> HIDE DEF Init
  <1>7. /\ cstack \in Seq(Kinds) /\ DOMAIN cstack = {1, 2} /\ Len(cstack) = 2 /\ cstack # <<>>
        /\ cstack[1] = "main" /\ cstack[2] = "loop"
    BY <1>6 DEF Kinds
  <1>8. CallsGood(cstack, mode)
    <2>1. \A d \in 2 .. 2 : d = 2 /\ d - 1 = 1
      OBVIOUS
    <2>2. "loop" \in Follows("main")
      BY DEF Follows
    <2> QED
      BY <1>6, <1>7, <2>1, <2>2 DEF CallsGood, Modes
  <1>9. FramesGood(frames)
    BY <1>1, <1>2, <1>5 DEF FramesGood, NoFrame
  <1>10. FuncsGood(frames, funcs)
    BY <1>2, <1>3, <1>5 DEF FuncsGood, NoFrame
  <1>11. PoolGood(frames, pool)
    BY <1>6 DEF PoolGood
  <1>12. /\ ch \in Seq(Nat) /\ DOMAIN ch = {1, 2} /\ Len(ch) = 2 /\ ch[1] = 1 /\ ch[2] = 2 /\ ch # <<>>
    OBVIOUS
  <1> HIDE DEF ch
  <1>13. ListGood(frames, pool, ch)
    BY <1>1, <1>2, <1>5, <1>6, <1>12 DEF ListGood
  <1>14. cur = Newest(ch)
    BY <1>6, <1>12 DEF Newest
  <1>15. pos \in [1 .. 2 -> Nat] /\ pos[1] = 0 /\ pos[2] = 2
    OBVIOUS
  <1> HIDE DEF pos
  <1>16. Level(frames, cstack, ch, pos, 2)
    <2>1. \A d \in 2 .. 2 : d = 2 /\ d - 1 = 1
      OBVIOUS
    <2>2. \A i \in 0 + 2 .. 2 : i = 2
      OBVIOUS
    <2>3. Added(frames, "loop", ch, 0, 2)
      BY <1>1, <1>2, <1>5, <1>12, <2>2 DEF Added, CKinds, NativeKinds, InstKinds
    <2>4. \A d \in 1 .. 2 : d = 1 \/ d = 2
      OBVIOUS
    <2>5. \A c, d \in 1 .. 2 : c <= d => pos[c] <= pos[d]
      BY <1>15, <2>4
    <2> QED
      BY <1>7, <1>12, <1>15, <2>1, <2>3, <2>5 DEF Level
  <1> QED
    BY <1>6, <1>7, <1>8, <1>9, <1>10, <1>11, <1>13, <1>14, <1>16 DEF EvalInv, Going, Good

\* What is known while code runs: the list and the levels.
RunGood(ch, pos) ==
    /\ CallsGood(cstack, "run") /\ Good(frames, pool, funcs, ch) /\ cur = Newest(ch)
    /\ Level(frames, cstack, ch, pos, Len(cstack))

\* The list and the levels while code runs.
LEMMA RunKnown ==
  ASSUME EvalInv, mode \in {"run", "swallowed"}
  PROVE  \E ch, pos : RunGood(ch, pos)
  BY DEF EvalInv, Going, RunGood

\* What has to be shown of a step after which code runs.
LEMMA RunShown ==
  ASSUME mode' \in {"run", "swallowed"}, NEW ch, Good(frames', pool', funcs', ch), cur' = Newest(ch),
         CallsGood(cstack', "run"), \E pos : Level(frames', cstack', ch, pos, Len(cstack'))
  PROVE  EvalInv'
  BY DEF EvalInv, Going

\* The newest frame, for the activation on top.
LEMMA TopFrame ==
  ASSUME NEW ch, NEW pos, RunGood(ch, pos)
  PROVE  LET T == Len(cstack)
             p == pos[T - 1]
         IN  /\ T \in Nat /\ T >= 2 /\ T \in DOMAIN cstack /\ T - 1 \in 1 .. T /\ p \in Nat
             /\ cstack \in Seq(Kinds) /\ DOMAIN cstack = 1 .. T
             /\ Top = cstack[T]
             /\ Top \in {"loop"} \cup CKinds /\ p <= Len(ch) /\ Len(ch) > 0
             /\ Added(frames, Top, ch, p, Len(ch))
             /\ Top \in Follows(cstack[T - 1]) /\ cstack[T - 1] \in Kinds
             /\ ch # <<>> /\ ch \in Seq(Nat) /\ cur = ch[Len(ch)] /\ cur \in DOMAIN frames
             /\ frames \in Seq(FrameRecs)
             /\ Top \in NativeKinds => frames[cur].type = "C"
             /\ Top \in InstKinds => frames[cur].type = "SCRIPT"
             /\ Top = "loop" => frames[cur].type = IF Len(ch) = p + 1 THEN "FINISH" ELSE "SCRIPT"
  <1>1. /\ CallsGood(cstack, "run") /\ cur = Newest(ch)
        /\ Level(frames, cstack, ch, pos, Len(cstack))
        /\ FramesGood(frames) /\ ListGood(frames, pool, ch)
    BY DEF RunGood, Good
  <1>2. ch \in Seq(Nat) /\ frames \in Seq(FrameRecs)
    BY <1>1 DEF ListGood, FramesGood
  <1>3. cstack \in Seq(Kinds) /\ Top = cstack[Len(cstack)]
    BY <1>1 DEF CallsGood, Top, Last
  <1>4. Len(ch) > 0 => ch[Len(ch)] \in DOMAIN frames
    <2>1. Len(ch) > 0 => Len(ch) \in DOMAIN ch
      BY <1>2
    <2> QED
      BY <1>1, <2>1 DEF ListGood
  <1> DEFINE md == "run"
  <1>5. md = "run"
    OBVIOUS
  <1> HIDE DEF md
  <1>6. CallsGood(cstack, md)
    BY <1>1, <1>5
  <1> QED
    BY <1>1, <1>2, <1>3, <1>4, <1>5, <1>6, TopLevel

\* Making a function or a block keeps the invariant: the levels stay.
LEMMA EvalMakes ==
  ASSUME EvalInv, MakeBlock \/ MakeFunction
  PROVE  EvalInv'
  <1>1. /\ mode = "run" /\ mode' = "run" /\ Top = "loop" /\ frames[cur].type = "SCRIPT"
        /\ frames' = Used(frames, cur) /\ UNCHANGED <<cur, pool, cstack>>
        /\ \E ret, brk : /\ funcs' = Append(funcs, [outer |-> cur, ret |-> ret, brk |-> brk])
                         /\ \/ ret = NoFrame /\ brk = NoFrame
                            \/ ret = frames[cur].ret /\ brk = cur
    BY DEF MakeBlock, MakeFunction, Running, Used
  <1>2. PICK ch, pos : RunGood(ch, pos)
    BY <1>1, RunKnown
  <1>3. ch # <<>> /\ cur \in DOMAIN frames /\ frames \in Seq(FrameRecs) /\ ch \in Seq(Nat)
        /\ cstack \in Seq(Kinds)
    BY <1>2, TopFrame
  <1>4. cur = Newest(ch) /\ Good(frames, pool, funcs, ch) /\ CallsGood(cstack, "run")
        /\ Level(frames, cstack, ch, pos, Len(cstack))
    BY <1>2 DEF RunGood
  <1>5. Good(frames', pool', funcs', ch)
    BY <1>1, <1>3, <1>4, FunctionMade
  <1>6. \A g \in DOMAIN frames : frames'[g].type = frames[g].type
    BY <1>1, <1>3, UsedFacts
  <1>7. \A i \in 1 .. Len(ch) : frames'[ch[i]].type = frames[ch[i]].type
    <2>1. \A i \in 1 .. Len(ch) : i \in DOMAIN ch
      BY <1>3
    <2> QED
      BY <1>4, <1>6, <2>1 DEF Good, ListGood
  <1>8. \E pos2 : Level(frames', cstack, ch, pos2, Len(cstack))
    BY <1>3, <1>4, <1>7, LevelKept
  <1> QED
    BY <1>1, <1>4, <1>5, <1>8, RunShown

\* Calls of C functions, in an order the code has.
LEMMA CallsGrow ==
  ASSUME NEW cs, CallsGood(cs, "run"), NEW c, c \in Seq(Kinds), Len(c) > Len(cs),
         \A d \in 1 .. Len(cs) : c[d] = cs[d],
         \A d \in Len(cs) + 1 .. Len(c) : c[d] \in Follows(c[d - 1]),
         c[Len(c)] \notin {"main", "call"}
  PROVE  CallsGood(c, "run")
  <1>1. /\ cs \in Seq(Kinds) /\ Len(cs) \in Nat /\ Len(cs) >= 1 /\ Len(c) \in Nat /\ cs[1] = "main"
    BY DEF CallsGood
  <1>2. ASSUME NEW d \in 2 .. Len(c) PROVE c[d] \in Follows(c[d - 1])
    <2>1. CASE d <= Len(cs)
      <3>1. d \in 1 .. Len(cs) /\ d - 1 \in 1 .. Len(cs) /\ d \in 2 .. Len(cs)
        BY <1>1, <2>1
      <3>2. cs[d] \in Follows(cs[d - 1])
        BY <3>1 DEF CallsGood
      <3> QED
        BY <3>1, <3>2
    <2>2. CASE d > Len(cs)
      <3>1. d \in Len(cs) + 1 .. Len(c)
        BY <1>1, <2>2
      <3> QED
        BY <3>1
    <2> QED
      BY <1>1, <2>1, <2>2
  <1>3. 1 \in 1 .. Len(cs) /\ c # <<>>
    BY <1>1
  <1> QED
    BY <1>1, <1>2, <1>3 DEF CallsGood, Modes

\* Returns of C functions.
LEMMA CallsCut ==
  ASSUME NEW cs, NEW md, CallsGood(cs, md), NEW n, n \in 1 .. Len(cs), NEW md2, md2 \in Modes,
         md2 = "run" => cs[n] \notin {"main", "call"}
  PROVE  CallsGood(SubSeq(cs, 1, n), md2)
  <1> DEFINE c == SubSeq(cs, 1, n)
  <1>1. /\ cs \in Seq(Kinds) /\ Len(cs) \in Nat /\ cs[1] = "main" /\ n \in 0 .. Len(cs) /\ n \in Nat
        /\ 1 \in 1 .. n
    BY DEF CallsGood
  <1>2. c \in Seq(Kinds) /\ Len(c) = n /\ \A d \in 1 .. n : c[d] = cs[d]
    BY <1>1, CutFacts
  <1> HIDE DEF c
  <1>3. ASSUME NEW d \in 2 .. n PROVE c[d] \in Follows(c[d - 1])
    <2>1. d \in 1 .. n /\ d - 1 \in 1 .. n /\ d \in 2 .. Len(cs)
      BY <1>1
    <2>2. cs[d] \in Follows(cs[d - 1])
      BY <2>1 DEF CallsGood
    <2> QED
      BY <1>2, <2>1, <2>2
  <1>4. c # <<>> /\ n \in 1 .. n
    BY <1>1, <1>2
  <1>5. CallsGood(c, md2)
    BY <1>1, <1>2, <1>3, <1>4 DEF CallsGood
  <1> QED
    BY <1>5 DEF c

\* A sequence with one more element.
LEMMA AppendFacts ==
  ASSUME NEW S, NEW s \in Seq(S), NEW x \in S
  PROVE  /\ Append(s, x) \in Seq(S) /\ Len(Append(s, x)) = Len(s) + 1 /\ Len(s) \in Nat
         /\ Append(s, x)[Len(s) + 1] = x
         /\ \A i \in 1 .. Len(s) : Append(s, x)[i] = s[i]
         /\ \A i \in 1 .. Len(s) : i \in DOMAIN s
  OBVIOUS

\* An instruction that calls back enters C code: no frame is added.
LEMMA EvalEnters ==
  ASSUME EvalInv, EnterInstruction
  PROVE  EvalInv'
  <1>1. /\ mode = "run" /\ mode' = "run" /\ Top = "loop" /\ frames[cur].type = "SCRIPT"
        /\ cstack' = Append(cstack, "inst") /\ UNCHANGED <<frames, cur, pool, funcs>>
    BY DEF EnterInstruction, Running
  <1>2. PICK ch, pos : RunGood(ch, pos)
    BY <1>1, RunKnown
  <1> DEFINE T == Len(cstack)
             cs == cstack'
  <1>3. /\ ch # <<>> /\ ch \in Seq(Nat) /\ T \in Nat /\ T >= 2 /\ Len(ch) > 0 /\ Len(ch) \in Nat
        /\ cur = ch[Len(ch)] /\ cstack \in Seq(Kinds) /\ Top = cstack[T]
    BY <1>2, TopFrame
  <1>4. cur = Newest(ch) /\ Good(frames, pool, funcs, ch) /\ CallsGood(cstack, "run")
        /\ Level(frames, cstack, ch, pos, Len(cstack))
    BY <1>2 DEF RunGood
  <1>5. /\ cs \in Seq(Kinds) /\ Len(cs) = T + 1 /\ cs[T + 1] = "inst" /\ \A d \in 1 .. T : cs[d] = cstack[d]
        /\ T + 1 \in DOMAIN cs
    BY <1>1, <1>3 DEF Kinds
  <1> HIDE DEF T, cs
  <1>6. CallsGood(cs, "run")
    <2>1. \A d \in T + 1 .. Len(cs) : d = T + 1 /\ d - 1 = T /\ T \in 1 .. T
      BY <1>3, <1>5
    <2>2. \A d \in T + 1 .. Len(cs) : cs[d] \in Follows(cs[d - 1])
      BY <1>1, <1>3, <1>5, <2>1 DEF Follows, CKinds
    <2>3. Len(cs) > T /\ cs[Len(cs)] \notin {"main", "call"}
      BY <1>3, <1>5
    <2> QED
      BY <1>4, <1>5, <2>2, <2>3, CallsGrow DEF T
  <1>7. Added(frames, cs[T + 1], ch, Len(ch), Len(ch))
    BY <1>1, <1>3, <1>5 DEF Added, CKinds, NativeKinds, InstKinds
  <1>8. \E pos2 : Level(frames, cs, ch, pos2, T + 1)
    <2>1. Level(frames, cstack, ch, pos, T)
      BY <1>4 DEF T
    <2>2. Len(ch) <= Len(ch) /\ \A i \in 1 .. Len(ch) : frames[ch[i]].type = frames[ch[i]].type
      BY <1>3
    <2> QED
      BY <1>3, <1>5, <1>7, <2>1, <2>2, LevelGrow
  <1> QED
    BY <1>1, <1>4, <1>5, <1>6, <1>8, RunShown DEF cs

\* The list after a push, for the levels.
LEMMA PushedList ==
  ASSUME NEW fr, NEW fr2, NEW pl, NEW fs, NEW ch, NEW f, Good(fr, pl, fs, ch),
         NEW pl2, Good(fr2, pl2, fs, Append(ch, f)), f \in DOMAIN fr2,
         \A g \in DOMAIN fr : g \in DOMAIN fr2 /\ fr2[g].type = fr[g].type
  PROVE  /\ Append(ch, f) \in Seq(Nat) /\ Len(Append(ch, f)) = Len(ch) + 1 /\ Len(ch) \in Nat
         /\ Append(ch, f)[Len(ch) + 1] = f /\ ch \in Seq(Nat)
         /\ \A i \in 1 .. Len(ch) : Append(ch, f)[i] = ch[i]
         /\ \A i \in 1 .. Len(ch) : fr2[Append(ch, f)[i]].type = fr[ch[i]].type
  <1>1. ch \in Seq(Nat) /\ fr2 \in Seq(FrameRecs)
    BY DEF Good, ListGood, FramesGood
  <1>2. f \in Nat
    BY <1>1
  <1>3. \A i \in 1 .. Len(ch) : i \in DOMAIN ch /\ Append(ch, f)[i] = ch[i]
    BY <1>1, <1>2, AppendFacts
  <1>4. \A i \in 1 .. Len(ch) : ch[i] \in DOMAIN fr
    BY <1>3 DEF Good, ListGood
  <1>5. \A i \in 1 .. Len(ch) : fr2[Append(ch, f)[i]].type = fr[ch[i]].type
    BY <1>3, <1>4
  <1>6. /\ Append(ch, f) \in Seq(Nat) /\ Len(Append(ch, f)) = Len(ch) + 1 /\ Len(ch) \in Nat
        /\ Append(ch, f)[Len(ch) + 1] = f
    BY <1>1, <1>2, AppendFacts
  <1> QED
    BY <1>1, <1>3, <1>5, <1>6

\* A script function is called from a script: the mainloop gets one more frame.
LEMMA EvalCallsScript ==
  ASSUME EvalInv, NEW i \in DOMAIN funcs, NEW big \in BOOLEAN, CallScript(i, big)
  PROVE  EvalInv'
  <1> DEFINE S == ExecFunction(<<frames, pool>>, i, big, cur)
             T == Len(cstack)
  <1>1. /\ mode = "run" /\ mode' = "run" /\ Top = "loop" /\ frames[cur].type = "SCRIPT"
        /\ frames' = S[1] /\ pool' = S[2] /\ cur' = S[3] /\ UNCHANGED <<cstack, funcs>>
    BY DEF CallScript, Running, UseFrames
  <1>2. PICK ch, pos : RunGood(ch, pos)
    BY <1>1, RunKnown
  <1> DEFINE p == pos[T - 1]
             ch2 == Append(ch, S[3])
             k == Len(ch)
  <1>3. /\ ch # <<>> /\ ch \in Seq(Nat) /\ T \in Nat /\ T >= 2 /\ T \in DOMAIN cstack
        /\ Added(frames, Top, ch, p, Len(ch)) /\ p \in Nat /\ p <= Len(ch)
        /\ cur = ch[Len(ch)] /\ cstack \in Seq(Kinds) /\ Top = cstack[T]
        /\ frames[cur].type = IF Len(ch) = p + 1 THEN "FINISH" ELSE "SCRIPT"
    BY <1>1, <1>2, TopFrame
  <1>4. cur = Newest(ch) /\ Good(frames, pool, funcs, ch) /\ CallsGood(cstack, "run")
        /\ Level(frames, cstack, ch, pos, T)
    BY <1>2 DEF RunGood
  <1>5. /\ S[3] \in DOMAIN S[1] /\ S[1][S[3]].type = "SCRIPT"
        /\ Good(S[1], S[2], funcs, Append(ch, S[3])) /\ Newest(Append(ch, S[3])) = S[3]
        /\ \A g \in DOMAIN frames : g \in DOMAIN S[1] /\ S[1][g].type = frames[g].type
    BY <1>1, <1>3, <1>4, FunctionPushed, SMTT(30)
  <1> HIDE DEF S
  <1>6. /\ ch2 \in Seq(Nat) /\ Len(ch2) = k + 1 /\ k \in Nat /\ ch2[k + 1] = S[3]
        /\ \A j \in 1 .. k : ch2[j] = ch[j]
        /\ \A j \in 1 .. k : S[1][ch2[j]].type = frames[ch[j]].type
    BY <1>4, <1>5, PushedList, SMTT(30)
  <1> HIDE DEF T, p, ch2
  <1>7. k > p + 1
    <2>1. k > p
      BY <1>1, <1>3 DEF Added
    <2>2. k # p + 1
      BY <1>1, <1>3
    <2> QED
      BY <1>3, <1>6, <2>1, <2>2
  <1>8. \A j \in 1 .. p + 1 : S[1][ch2[j]].type = frames[ch[j]].type
    <2>1. \A j \in 1 .. p + 1 : j \in 1 .. k
      BY <1>3, <1>6, <1>7
    <2> QED
      BY <1>6, <2>1
  <1>9. \A j \in p + 2 .. Len(ch2) : S[1][ch2[j]].type = "SCRIPT"
    <2>1. \A j \in p + 2 .. k : frames[ch[j]].type = "SCRIPT"
      BY <1>1, <1>3 DEF Added
    <2>2. \A j \in p + 2 .. Len(ch2) : j = k + 1 \/ (j \in p + 2 .. k /\ j \in 1 .. k)
      <3>1. p \in Nat /\ k \in Nat /\ Len(ch2) = k + 1
        BY <1>3, <1>6
      <3> HIDE DEF k
      <3>2. \A j \in p + 2 .. k + 1 : j = k + 1 \/ (j \in p + 2 .. k /\ j \in 1 .. k)
        BY <3>1
      <3> QED
        BY <3>1, <3>2
    <2> QED
      BY <1>5, <1>6, <2>1, <2>2
  <1>10. \E pos2 : Level(S[1], cstack, ch2, pos2, T)
    <2>1. Len(ch2) > pos[T - 1] /\ \A d \in 1 .. T : cstack[d] = cstack[d]
      BY <1>3, <1>6, <1>7 DEF p
    <2> DEFINE fr == S[1]
    <2>2. /\ \A j \in 1 .. pos[T - 1] + 1 : fr[ch2[j]].type = frames[ch[j]].type
          /\ \A j \in pos[T - 1] + 2 .. Len(ch2) : fr[ch2[j]].type = "SCRIPT"
      BY <1>8, <1>9 DEF p
    <2>3. cstack[T] = "loop"
      BY <1>1, <1>3
    <2> HIDE DEF fr
    <2>4. \E pos2 : Level(fr, cstack, ch2, pos2, T)
      BY <1>3, <1>4, <1>6, <2>1, <2>2, <2>3, LevelLoop
    <2> QED
      BY <2>4 DEF fr
  <1>11. cur' = Newest(ch2) /\ Good(frames', pool', funcs', ch2) /\ CallsGood(cstack', "run")
    BY <1>1, <1>4, <1>5 DEF ch2
  <1>12. \E pos2 : Level(frames', cstack', ch2, pos2, Len(cstack'))
    BY <1>1, <1>10 DEF T
  <1> QED
    BY <1>1, <1>11, <1>12, RunShown

\* A native function is called: its C frame is pushed, and a guard adds its buffer.
LEMMA EvalCallsNative ==
  ASSUME EvalInv, NEW kind \in {"native", "guard"}, CallNative(kind)
  PROVE  EvalInv'
  <1> DEFINE S == PlainFrame(frames, pool, "C", cur)
             T == Len(cstack)
             cs == cstack'
  <1>1. /\ mode = "run" /\ mode' = "run" /\ Top = "loop" /\ frames[cur].type = "SCRIPT"
        /\ frames' = S[1] /\ pool' = S[2] /\ cur' = S[3] /\ UNCHANGED funcs
        /\ cstack' = Append(cstack, kind)
    BY DEF CallNative, Running, UseFrames, PlainFrame
  <1>2. PICK ch, pos : RunGood(ch, pos)
    BY <1>1, RunKnown
  <1> DEFINE ch2 == Append(ch, S[3])
             k == Len(ch)
  <1>3. /\ ch # <<>> /\ ch \in Seq(Nat) /\ T \in Nat /\ T >= 2
        /\ cur = ch[Len(ch)] /\ cstack \in Seq(Kinds) /\ Top = cstack[T] /\ Len(ch) > 0
    BY <1>1, <1>2, TopFrame
  <1>4. cur = Newest(ch) /\ Good(frames, pool, funcs, ch) /\ CallsGood(cstack, "run")
        /\ Level(frames, cstack, ch, pos, T)
    BY <1>2 DEF RunGood
  <1>5. /\ S[3] \in DOMAIN S[1] /\ S[1][S[3]].type = "C"
        /\ Good(S[1], S[2], funcs, Append(ch, S[3])) /\ Newest(Append(ch, S[3])) = S[3]
        /\ \A g \in DOMAIN frames : g \in DOMAIN S[1] /\ S[1][g].type = frames[g].type
    <2>1. "C" \in FrameTypes
      BY DEF FrameTypes
    <2> QED
      BY <1>4, <2>1, PlainPushed
  <1> HIDE DEF S
  <1>6. /\ ch2 \in Seq(Nat) /\ Len(ch2) = k + 1 /\ k \in Nat /\ ch2[k + 1] = S[3]
        /\ \A j \in 1 .. k : ch2[j] = ch[j]
        /\ \A j \in 1 .. k : S[1][ch2[j]].type = frames[ch[j]].type
    BY <1>4, <1>5, PushedList
  <1>7. /\ cs \in Seq(Kinds) /\ Len(cs) = T + 1 /\ cs[T + 1] = kind /\ \A d \in 1 .. T : cs[d] = cstack[d]
        /\ T + 1 \in DOMAIN cs
    BY <1>1, <1>3 DEF Kinds
  <1> HIDE DEF T, cs, ch2
  <1>8. CallsGood(cs, "run")
    <2>1. \A d \in T + 1 .. Len(cs) : d = T + 1 /\ d - 1 = T /\ T \in 1 .. T
      BY <1>3, <1>7
    <2>2. \A d \in T + 1 .. Len(cs) : cs[d] \in Follows(cs[d - 1])
      BY <1>1, <1>3, <1>7, <2>1 DEF Follows, CKinds
    <2>3. Len(cs) > T /\ cs[Len(cs)] \notin {"main", "call"}
      BY <1>3, <1>7
    <2> QED
      BY <1>4, <1>7, <2>2, <2>3, CallsGrow DEF T
  <1> DEFINE fr == S[1]
  <1>9. Added(fr, cs[T + 1], ch2, Len(ch), Len(ch2))
    <2>1. k \in 1 .. k
      BY <1>3, <1>6
    <2>2. fr[ch2[k]].type = "SCRIPT"
      BY <1>1, <1>3, <1>6, <2>1
    <2> QED
      BY <1>3, <1>5, <1>6, <1>7, <2>2 DEF Added, CKinds, NativeKinds, InstKinds
  <1> HIDE DEF fr
  <1>10. \E pos2 : Level(fr, cs, ch2, pos2, T + 1)
    <2>1. Len(ch) <= Len(ch2) /\ \A i \in 1 .. Len(ch) : fr[ch2[i]].type = frames[ch[i]].type
      BY <1>6 DEF fr
    <2> QED
      BY <1>3, <1>4, <1>6, <1>7, <1>9, <2>1, LevelGrow
  <1>11. cur' = Newest(ch2) /\ Good(frames', pool', funcs', ch2)
    BY <1>1, <1>5 DEF ch2
  <1>12. \E pos2 : Level(frames', cstack', ch2, pos2, Len(cstack'))
    BY <1>1, <1>7, <1>10 DEF fr, cs
  <1> QED
    BY <1>1, <1>8, <1>11, <1>12, RunShown DEF cs

\* C code calls a script function: a finish frame and its frame for a new mainloop.
LEMMA EvalCallsFromC ==
  ASSUME EvalInv, NEW i \in DOMAIN funcs, NEW big \in BOOLEAN, CallFromC(i, big)
  PROVE  EvalInv'
  <1> DEFINE F == PlainFrame(frames, pool, "FINISH", cur)
             S == ExecFunction(<<F[1], F[2]>>, i, big, F[3])
             T == Len(cstack)
             cs == cstack'
  <1>1. /\ mode = "run" /\ mode' = "run" /\ Top \in CKinds
        /\ frames' = S[1] /\ pool' = S[2] /\ cur' = S[3] /\ UNCHANGED funcs
        /\ cstack' = cstack \o <<"call", "loop">>
    BY DEF CallFromC, InC, CKinds, NativeKinds, InstKinds, UseFrames, PlainFrame
  <1>2. PICK ch, pos : RunGood(ch, pos)
    BY <1>1, RunKnown
  <1> DEFINE ch1 == Append(ch, F[3])
             ch2 == Append(ch1, S[3])
             k == Len(ch)
  <1>3. /\ ch # <<>> /\ ch \in Seq(Nat) /\ T \in Nat /\ T >= 2
        /\ cstack \in Seq(Kinds) /\ Top = cstack[T]
    BY <1>1, <1>2, TopFrame
  <1>4. cur = Newest(ch) /\ Good(frames, pool, funcs, ch) /\ CallsGood(cstack, "run")
        /\ Level(frames, cstack, ch, pos, T)
    BY <1>2 DEF RunGood
  <1>5. /\ F[3] \in DOMAIN F[1] /\ F[1][F[3]].type = "FINISH"
        /\ Good(F[1], F[2], funcs, Append(ch, F[3])) /\ Newest(Append(ch, F[3])) = F[3]
        /\ \A g \in DOMAIN frames : g \in DOMAIN F[1] /\ F[1][g].type = frames[g].type
    <2>1. "FINISH" \in FrameTypes
      BY DEF FrameTypes
    <2> QED
      BY <1>4, <2>1, PlainPushed
  <1>6. /\ ch1 \in Seq(Nat) /\ Len(ch1) = k + 1 /\ k \in Nat /\ ch1[k + 1] = F[3]
        /\ \A j \in 1 .. k : ch1[j] = ch[j]
        /\ \A j \in 1 .. k : F[1][ch1[j]].type = frames[ch[j]].type
    <2> HIDE DEF F
    <2> QED
      BY <1>4, <1>5, PushedList, SMTT(30)
  <1>7. /\ S[3] \in DOMAIN S[1] /\ S[1][S[3]].type = "SCRIPT"
        /\ Good(S[1], S[2], funcs, Append(ch1, S[3])) /\ Newest(Append(ch1, S[3])) = S[3]
        /\ \A g \in DOMAIN F[1] : g \in DOMAIN S[1] /\ S[1][g].type = F[1][g].type
    <2>1. Good(F[1], F[2], funcs, ch1) /\ Newest(ch1) = F[3] /\ ch1 # <<>> /\ F[1][Newest(ch1)].type # "C"
      <3>1. ch1 # <<>>
        BY <1>6
      <3> HIDE DEF F
      <3>2. F[1][F[3]].type # "C"
        BY <1>5
      <3> QED
        BY <1>5, <3>1, <3>2
    <2> DEFINE G1 == F[1]
               G2 == F[2]
               R(n) == ExecFunction(<<G1, G2>>, i, big, n)
    <2>2. Good(G1, G2, funcs, ch1) /\ ch1 # <<>> /\ G1[Newest(ch1)].type # "C"
      BY <2>1
    <2> HIDE DEF F, G1, G2, ch1
    <2>3. LET s == R(Newest(ch1)) IN
        /\ s[3] \in DOMAIN s[1] /\ s[1][s[3]].type = "SCRIPT"
        /\ Good(s[1], s[2], funcs, Append(ch1, s[3])) /\ Newest(Append(ch1, s[3])) = s[3]
        /\ \A g \in DOMAIN G1 : g \in DOMAIN s[1] /\ s[1][g].type = G1[g].type
      BY <2>2, FunctionPushed
    <2>4. S = R(Newest(ch1))
      BY <2>1 DEF G1, G2
    <2> HIDE DEF R, S
    <2> QED
      BY <2>3, <2>4 DEF G1
  <1> HIDE DEF S
  <1>8. /\ ch2 \in Seq(Nat) /\ Len(ch2) = k + 2 /\ ch2[k + 2] = S[3] /\ ch2[k + 1] = F[3]
        /\ S[1][ch2[k + 1]].type = "FINISH"
        /\ \A j \in 1 .. k : ch2[j] = ch[j]
        /\ \A j \in 1 .. k : S[1][ch2[j]].type = frames[ch[j]].type
    <2> HIDE DEF F, ch1
    <2>1. /\ ch2 \in Seq(Nat) /\ Len(ch2) = Len(ch1) + 1 /\ ch2[Len(ch1) + 1] = S[3]
          /\ \A j \in 1 .. Len(ch1) : ch2[j] = ch1[j]
          /\ \A j \in 1 .. Len(ch1) : S[1][ch2[j]].type = F[1][ch1[j]].type
      <3> DEFINE S1 == S[1]
                 S2 == S[2]
                 f == S[3]
                 F1 == F[1]
                 F2 == F[2]
      <3>1. /\ Good(F1, F2, funcs, ch1) /\ Good(S1, S2, funcs, Append(ch1, f)) /\ f \in DOMAIN S1
            /\ \A g \in DOMAIN F1 : g \in DOMAIN S1 /\ S1[g].type = F1[g].type
        BY <1>5, <1>7 DEF ch1
      <3> HIDE DEF S1, S2, f, F1, F2
      <3>2. /\ Append(ch1, f) \in Seq(Nat) /\ Len(Append(ch1, f)) = Len(ch1) + 1
            /\ Append(ch1, f)[Len(ch1) + 1] = f
            /\ \A j \in 1 .. Len(ch1) : Append(ch1, f)[j] = ch1[j]
            /\ \A j \in 1 .. Len(ch1) : S1[Append(ch1, f)[j]].type = F1[ch1[j]].type
        BY <3>1, PushedList
      <3> QED
        BY <3>2 DEF S1, f, F1
    <2>2. /\ Len(ch1) = k + 1 /\ k + 1 + 1 = k + 2 /\ k + 1 \in 1 .. k + 1
          /\ \A j \in 1 .. k : j \in 1 .. k + 1
      BY <1>6
    <2>3. S[1][ch2[k + 1]].type = "FINISH" /\ ch2[k + 1] = F[3]
      BY <1>5, <1>6, <2>1, <2>2
    <2>4. ASSUME NEW j \in 1 .. k
          PROVE  ch2[j] = ch[j] /\ S[1][ch2[j]].type = frames[ch[j]].type
      BY <1>6, <2>1, <2>2
    <2> HIDE DEF ch2, k
    <2> QED
      BY <2>1, <2>2, <2>3, <2>4
  <1>9. /\ cs \in Seq(Kinds) /\ Len(cs) = T + 2 /\ cs[T + 1] = "call" /\ cs[T + 2] = "loop"
        /\ \A d \in 1 .. T : cs[d] = cstack[d]
        /\ T + 1 \in DOMAIN cs /\ T + 2 \in DOMAIN cs
    BY <1>1, <1>3 DEF Kinds
  <1> HIDE DEF T, cs, ch2, ch1
  <1>10. CallsGood(cs, "run")
    <2>1. \A d \in T + 1 .. Len(cs) : (d = T + 1 /\ d - 1 = T /\ T \in 1 .. T) \/ (d = T + 2 /\ d - 1 = T + 1)
      BY <1>3, <1>9
    <2>2. \A d \in T + 1 .. Len(cs) : cs[d] \in Follows(cs[d - 1])
      BY <1>1, <1>3, <1>9, <2>1 DEF Follows, CKinds
    <2>3. Len(cs) > T /\ cs[Len(cs)] \notin {"main", "call"}
      BY <1>3, <1>9
    <2> QED
      BY <1>4, <1>9, <2>2, <2>3, CallsGrow DEF T
  <1>11. PICK pos1 : Level(frames, cs, ch, pos1, T + 1)
    <2>1. Added(frames, cs[T + 1], ch, Len(ch), Len(ch))
      BY <1>9 DEF Added, CKinds, NativeKinds, InstKinds
    <2>2. Len(ch) <= Len(ch) /\ \A j \in 1 .. Len(ch) : frames[ch[j]].type = frames[ch[j]].type
      BY <1>3
    <2> QED
      BY <1>3, <1>4, <1>9, <2>1, <2>2, LevelGrow
  <1> DEFINE fr == S[1]
  <1>12. Added(fr, cs[T + 2], ch2, Len(ch), Len(ch2))
    <2>1. \A j \in k + 2 .. k + 2 : j = k + 2
      BY <1>6
    <2> QED
      BY <1>6, <1>7, <1>8, <1>9, <2>1 DEF Added, CKinds, NativeKinds, InstKinds
  <1> HIDE DEF fr
  <1>13. \E pos2 : Level(fr, cs, ch2, pos2, T + 2)
    <2> DEFINE u == T + 1
    <2>1. u + 1 = T + 2
      BY <1>3
    <2>2. Level(frames, cs, ch, pos1, u)
      BY <1>11
    <2> HIDE DEF u
    <2>3. Len(ch) <= Len(ch2) /\ \A j \in 1 .. Len(ch) : fr[ch2[j]].type = frames[ch[j]].type
      <3>1. Len(ch) \in Nat /\ Len(ch2) = Len(ch) + 2
        BY <1>6, <1>8
      <3>2. \A j \in 1 .. Len(ch) : S[1][ch2[j]].type = frames[ch[j]].type
        BY <1>8
      <3> QED
        BY <3>1, <3>2 DEF fr
    <2>4. /\ u + 1 \in DOMAIN cs /\ (\A d \in 1 .. u : cs[d] = cs[d])
          /\ Added(fr, cs[u + 1], ch2, Len(ch), Len(ch2))
      BY <1>9, <1>12, <2>1
    <2>5. \E pos2 : Level(fr, cs, ch2, pos2, u + 1)
      BY <1>3, <1>8, <1>9, <2>2, <2>3, <2>4, LevelGrow
    <2> QED
      BY <2>1, <2>5
  <1>14. cur' = Newest(ch2) /\ Good(frames', pool', funcs', ch2)
    BY <1>1, <1>7 DEF ch2
  <1>15. \E pos2 : Level(frames', cstack', ch2, pos2, Len(cstack'))
    BY <1>1, <1>9, <1>13 DEF fr, cs
  <1> QED
    BY <1>1, <1>10, <1>14, <1>15, RunShown DEF cs

\* c is the first k frames of ch, and they keep their types.
Begins(fr, fr2, ch, c, k) ==
    /\ c \in Seq(Nat) /\ Len(c) = k /\ k \in Nat
    /\ \A i \in 1 .. k : c[i] = ch[i] /\ fr2[c[i]].type = fr[ch[i]].type

\* The list after frames were taken off it, for the levels.
LEMMA CutList ==
  ASSUME NEW fr, NEW fr2, NEW pl, NEW ch, ListGood(fr, pl, ch), NEW k \in 0 .. Len(ch),
         \A g \in DOMAIN fr : fr2[g].type = fr[g].type
  PROVE  Begins(fr, fr2, ch, SubSeq(ch, 1, k), k)
  <1> DEFINE c == SubSeq(ch, 1, k)
  <1>1. ch \in Seq(Nat)
    BY DEF ListGood
  <1>2. c \in Seq(Nat) /\ Len(c) = k /\ k \in Nat /\ \A i \in 1 .. k : c[i] = ch[i]
    BY <1>1, CutFacts
  <1> HIDE DEF c
  <1>3. \A i \in 1 .. k : i \in DOMAIN ch
    BY <1>1
  <1>4. \A i \in 1 .. k : ch[i] \in DOMAIN fr
    BY <1>3 DEF ListGood
  <1>5. \A i \in 1 .. k : fr2[c[i]].type = fr[ch[i]].type
    BY <1>2, <1>4
  <1> QED
    BY <1>2, <1>5 DEF Begins, c

\* ret: the mainloop goes on with the frame below, a script frame or its finish frame.
LEMMA EvalRet ==
  ASSUME EvalInv, Ret
  PROVE  EvalInv'
  <1> DEFINE T == Len(cstack)
             type == "SCRIPT"
  <1>1. /\ mode = "run" /\ mode' = "run" /\ Top = "loop" /\ frames[cur].type = type
        /\ frames' = IF frames[cur].used THEN frames ELSE [frames EXCEPT ![cur] = Clean(type)]
        /\ pool' = PutFrame(pool, cur, type) /\ cur' = frames[cur].prev
        /\ UNCHANGED <<cstack, funcs>>
    BY DEF Ret, Running
  <1>2. PICK ch, pos : RunGood(ch, pos)
    BY <1>1, RunKnown
  <1> DEFINE p == pos[T - 1]
             k == Len(ch) - 1
             ch2 == SubSeq(ch, 1, k)
  <1>3. /\ ch # <<>> /\ ch \in Seq(Nat) /\ T \in Nat /\ T >= 2 /\ T \in DOMAIN cstack
        /\ Added(frames, Top, ch, p, Len(ch)) /\ p \in Nat /\ p <= Len(ch) /\ Len(ch) \in Nat /\ Len(ch) > 0
        /\ cur = ch[Len(ch)] /\ cstack \in Seq(Kinds) /\ Top = cstack[T]
        /\ frames[cur].type = IF Len(ch) = p + 1 THEN "FINISH" ELSE type
    BY <1>1, <1>2, TopFrame
  <1>4. cur = Newest(ch) /\ Good(frames, pool, funcs, ch) /\ CallsGood(cstack, "run")
        /\ Level(frames, cstack, ch, pos, T)
    BY <1>2 DEF RunGood
  <1>5. /\ Good(frames', pool', funcs, ch2) /\ Newest(ch2) = frames[cur].prev
        /\ \A g \in DOMAIN frames : frames'[g].type = frames[g].type
    <2> DEFINE fr2 == frames'
               pl2 == pool'
    <2>1. /\ ch # <<>> /\ cur = Newest(ch) /\ Good(frames, pool, funcs, ch)
          /\ fr2 = IF frames[cur].used THEN frames ELSE [frames EXCEPT ![cur] = Clean(type)]
          /\ pl2 = PutFrame(pool, cur, type) /\ type = frames[cur].type
      BY <1>1, <1>3, <1>4
    <2> HIDE DEF fr2, pl2, type
    <2>2. /\ Good(fr2, pl2, funcs, ch2) /\ Newest(ch2) = frames[cur].prev
          /\ \A g \in DOMAIN frames : fr2[g].type = frames[g].type
      BY <2>1, FramePopped
    <2> QED
      BY <2>2 DEF fr2, pl2
  <1>6. /\ ch2 \in Seq(Nat) /\ Len(ch2) = k /\ k \in Nat
        /\ \A j \in 1 .. k : ch2[j] = ch[j]
        /\ \A j \in 1 .. k : frames'[ch2[j]].type = frames[ch[j]].type
    <2>1. ListGood(frames, pool, ch) /\ k \in 0 .. Len(ch)
      BY <1>3, <1>4 DEF Good
    <2> DEFINE fr2 == frames'
    <2>2. \A g \in DOMAIN frames : fr2[g].type = frames[g].type
      BY <1>5
    <2> HIDE DEF k, fr2
    <2>3. Begins(frames, fr2, ch, ch2, k)
      BY <2>1, <2>2, CutList
    <2> QED
      BY <2>3 DEF Begins, fr2
  <1>7. k >= p + 1 /\ k \in 0 .. Len(ch)
    BY <1>1, <1>3, SMTT(30) DEF Added
  <1> HIDE DEF T, p, ch2, k
  <1>8. \A j \in 1 .. p + 1 : frames'[ch2[j]].type = frames[ch[j]].type
    <2>1. \A j \in 1 .. p + 1 : j \in 1 .. k
      BY <1>3, <1>6, <1>7
    <2> QED
      BY <1>6, <2>1
  <1>9. \A j \in p + 2 .. Len(ch2) : frames'[ch2[j]].type = "SCRIPT"
    <2>1. \A j \in p + 2 .. Len(ch) : frames[ch[j]].type = "SCRIPT"
      BY <1>1, <1>3 DEF Added
    <2>2. \A j \in p + 2 .. Len(ch2) : j \in p + 2 .. Len(ch) /\ j \in 1 .. k
      BY <1>3, <1>6, <1>7
    <2> QED
      BY <1>6, <2>1, <2>2
  <1>10. \E pos2 : Level(frames', cstack, ch2, pos2, T)
    <2>1. Len(ch2) > pos[T - 1] /\ \A d \in 1 .. T : cstack[d] = cstack[d]
      BY <1>3, <1>6, <1>7 DEF p
    <2> DEFINE fr == frames'
    <2>2. /\ \A j \in 1 .. pos[T - 1] + 1 : fr[ch2[j]].type = frames[ch[j]].type
          /\ \A j \in pos[T - 1] + 2 .. Len(ch2) : fr[ch2[j]].type = "SCRIPT"
      BY <1>8, <1>9 DEF p
    <2>3. cstack[T] = "loop"
      BY <1>1, <1>3
    <2> HIDE DEF fr
    <2>4. \E pos2 : Level(fr, cstack, ch2, pos2, T)
      BY <1>3, <1>4, <1>6, <2>1, <2>2, <2>3, LevelLoop
    <2> QED
      BY <2>4 DEF fr
  <1>11. cur' = Newest(ch2) /\ Good(frames', pool', funcs', ch2) /\ CallsGood(cstack', "run")
    BY <1>1, <1>4, <1>5
  <1>12. \E pos2 : Level(frames', cstack', ch2, pos2, Len(cstack'))
    BY <1>1, <1>10 DEF T
  <1> QED
    BY <1>1, <1>11, <1>12, RunShown

\* The instruction that called back ends.
LEMMA EvalInstructionEnds ==
  ASSUME EvalInv, InstructionEnds
  PROVE  EvalInv'
  <1> DEFINE T == Len(cstack)
             t == T - 1
             cs == cstack'
  <1>1. /\ mode = "run" /\ mode' = "run" /\ Top = "inst"
        /\ UNCHANGED <<frames, pool, cur, funcs>> /\ cs = SubSeq(cstack, 1, t)
    BY DEF InstructionEnds, InC, Front
  <1>2. PICK ch, pos : RunGood(ch, pos)
    BY <1>1, RunKnown
  <1>3. /\ ch \in Seq(Nat) /\ T \in Nat /\ T >= 2 /\ T \in DOMAIN cstack /\ t \in 1 .. T /\ t \in 0 .. T
        /\ Added(frames, Top, ch, pos[t], Len(ch)) /\ DOMAIN cstack = 1 .. T
        /\ cstack \in Seq(Kinds) /\ Top = cstack[T] /\ Top \in Follows(cstack[t]) /\ cstack[t] \in Kinds
    BY <1>2, TopFrame
  <1>4. cur = Newest(ch) /\ Good(frames, pool, funcs, ch) /\ CallsGood(cstack, "run")
        /\ Level(frames, cstack, ch, pos, T)
    BY <1>2 DEF RunGood
  <1>5. cstack[t] = "loop" /\ Len(ch) = pos[t]
    BY <1>1, <1>3 DEF Follows, Kinds, CKinds, Added, NativeKinds, InstKinds
  <1>6. CallsGood(cs, "run")
    <2>1. t \in 1 .. Len(cstack)
      BY <1>3
    <2> DEFINE md == "run"
    <2>2. md \in Modes /\ CallsGood(cstack, md) /\ md = "run"
      BY <1>4 DEF Modes
    <2>3. cstack[t] \notin {"main", "call"}
      BY <1>5
    <2> HIDE DEF md, T, t, cs
    <2>4. CallsGood(SubSeq(cstack, 1, t), md)
      BY <2>1, <2>2, <2>3, CallsCut
    <2> QED
      BY <1>1, <2>2, <2>4
  <1>7. cs \in Seq(Kinds) /\ Len(cs) = t /\ t \in DOMAIN cs /\ \A d \in 1 .. t : cs[d] = cstack[d]
    <2> HIDE DEF cs
    <2>1. cs \in Seq(Kinds) /\ Len(cs) = t /\ DOMAIN cs = 1 .. t /\ \A d \in 1 .. t : cs[d] = cstack[d]
      BY <1>1, <1>3, CutFacts
    <2> QED
      BY <1>3, <2>1
  <1> HIDE DEF T, t, cs
  <1>8. \E pos2 : Level(frames, cs, ch, pos2, t)
    <2>1. Len(ch) = pos[t] /\ \A i \in 1 .. pos[t] : frames[ch[i]].type = frames[ch[i]].type
      BY <1>5
    <2>2. \E pos2 : Level(frames, cs, ch, pos2, t) /\ AgreeTo(pos, pos2, t)
      BY <1>3, <1>4, <1>7, <2>1, LevelCut
    <2> QED
      BY <2>2
  <1>9. \E pos2 : Level(frames', cstack', ch, pos2, Len(cstack'))
    BY <1>1, <1>7, <1>8 DEF cs
  <1> QED
    BY <1>1, <1>4, <1>6, <1>9, RunShown DEF cs

\* C functions return and the newest frame with them: t is the new depth.
LEMMA FrameReturns ==
  ASSUME NEW ch, NEW pos, RunGood(ch, pos), NEW type, type = frames[cur].type,
         NEW t, t \in 1 .. Len(cstack), pos[t] = Len(ch) - 1, cstack[t] \notin {"main", "call"},
         frames' = IF frames[cur].used THEN frames ELSE [frames EXCEPT ![cur] = Clean(type)],
         pool' = PutFrame(pool, cur, type), cur' = frames[cur].prev, UNCHANGED funcs,
         cstack' = SubSeq(cstack, 1, t), mode' = "run"
  PROVE  EvalInv'
  <1> DEFINE T == Len(cstack)
             cs == cstack'
             k == Len(ch) - 1
             ch2 == SubSeq(ch, 1, k)
             fr2 == frames'
             pl2 == pool'
             md == "run"
  <1>1. /\ ch # <<>> /\ ch \in Seq(Nat) /\ T \in Nat /\ Len(ch) \in Nat /\ Len(ch) > 0
        /\ cstack \in Seq(Kinds) /\ DOMAIN cstack = 1 .. T
    BY TopFrame
  <1>2. cur = Newest(ch) /\ Good(frames, pool, funcs, ch) /\ CallsGood(cstack, md)
        /\ Level(frames, cstack, ch, pos, T)
    BY DEF RunGood
  <1>3. /\ Good(fr2, pl2, funcs, ch2) /\ Newest(ch2) = frames[cur].prev
        /\ \A g \in DOMAIN frames : fr2[g].type = frames[g].type
    <2>1. /\ ch # <<>> /\ cur = Newest(ch) /\ Good(frames, pool, funcs, ch)
          /\ fr2 = IF frames[cur].used THEN frames ELSE [frames EXCEPT ![cur] = Clean(type)]
          /\ pl2 = PutFrame(pool, cur, type) /\ type = frames[cur].type
      BY <1>1, <1>2
    <2> HIDE DEF fr2, pl2
    <2> QED
      BY ONLY <2>1, FramePopped
  <1>4. Begins(frames, fr2, ch, ch2, k)
    <2>1. ListGood(frames, pool, ch) /\ k \in 0 .. Len(ch)
      BY <1>1, <1>2 DEF Good
    <2> HIDE DEF k, fr2
    <2> QED
      BY <1>3, <2>1, CutList
  <1>5. /\ t \in 1 .. T /\ t \in 0 .. Len(cstack) /\ t \in Nat
    BY <1>1
  <1>6. cs \in Seq(Kinds) /\ Len(cs) = t /\ t \in DOMAIN cs /\ \A d \in 1 .. t : cs[d] = cstack[d]
    <2>0. cs = SubSeq(cstack, 1, t)
      OBVIOUS
    <2> HIDE DEF cs
    <2>1. cs \in Seq(Kinds) /\ Len(cs) = t /\ DOMAIN cs = 1 .. t /\ \A d \in 1 .. t : cs[d] = cstack[d]
      BY <1>1, <1>5, <2>0, CutFacts
    <2> QED
      BY <1>5, <2>1
  <1>7. CallsGood(cs, md)
    <2>1. md \in Modes /\ cs = SubSeq(cstack, 1, t)
      BY DEF Modes
    <2>2. t \in 1 .. Len(cstack)
      BY <1>5
    <2> HIDE DEF md, cs
    <2>3. CallsGood(SubSeq(cstack, 1, t), md)
      BY <1>2, <2>1, <2>2, CallsCut
    <2> QED
      BY <2>1, <2>3
  <1> HIDE DEF T, cs, ch2, fr2, pl2
  <1>8. \E pos2 : Level(fr2, cs, ch2, pos2, t)
    <2>1. /\ Len(ch2) = pos[t] /\ ch2 \in Seq(Nat)
          /\ \A i \in 1 .. pos[t] : fr2[ch2[i]].type = frames[ch[i]].type
      BY <1>4 DEF Begins
    <2>2. \E pos2 : Level(fr2, cs, ch2, pos2, t) /\ AgreeTo(pos, pos2, t)
      BY <1>1, <1>2, <1>5, <1>6, <2>1, LevelCut
    <2> QED
      BY <2>2
  <1>9. \E pos2 : Level(frames', cstack', ch2, pos2, Len(cstack'))
    BY <1>6, <1>8 DEF cs, fr2
  <1> QED
    BY <1>3, <1>7, <1>9, RunShown DEF cs, fr2, pl2

\* A native function returns: the C frame on the list is its own.
LEMMA EvalNativeReturns ==
  ASSUME EvalInv, NativeReturns
  PROVE  EvalInv'
  <1> DEFINE T == Len(cstack)
             t == T - 1
  <1>1. /\ mode = "run" /\ mode' = "run" /\ Top \in NativeKinds
        /\ cur' = frames[cur].prev /\ frames' = [frames EXCEPT ![cur] = Clean("C")]
        /\ pool' = PutFrame(pool, cur, "C") /\ UNCHANGED funcs
        /\ cstack' = SubSeq(cstack, 1, t)
    BY DEF NativeReturns, InC, Front, NativeKinds
  <1>2. PICK ch, pos : RunGood(ch, pos)
    BY <1>1, RunKnown
  <1>3. /\ T \in Nat /\ T >= 2 /\ t \in 1 .. T /\ Len(ch) \in Nat /\ cur \in DOMAIN frames
        /\ Added(frames, Top, ch, pos[t], Len(ch)) /\ pos[t] \in Nat
        /\ Top \in Follows(cstack[t]) /\ cstack[t] \in Kinds /\ frames[cur].type = "C"
    BY <1>1, <1>2, TopFrame
  <1>4. cstack[t] = "loop" /\ Len(ch) = pos[t] + 1
    BY <1>1, <1>3 DEF Follows, Kinds, CKinds, Added, NativeKinds, InstKinds
  <1>5. ~frames[cur].used
    BY <1>2, <1>3 DEF RunGood, Good, FramesGood
  <1>6. /\ frames' = IF frames[cur].used THEN frames ELSE [frames EXCEPT ![cur] = Clean("C")]
        /\ "C" = frames[cur].type /\ cstack[t] \notin {"main", "call"}
        /\ t \in 1 .. Len(cstack) /\ pos[t] = Len(ch) - 1
    BY <1>1, <1>3, <1>4, <1>5
  <1> HIDE DEF t, T
  <1> QED
    BY <1>1, <1>2, <1>6, FrameReturns

\* A mainloop that finds its finish frame ends, and with it the call from C.
LEMMA EvalFinish ==
  ASSUME EvalInv, Finish
  PROVE  EvalInv'
  <1> DEFINE T == Len(cstack)
             back == IF cstack[T - 1] = "call" THEN 2 ELSE 1
             type == "FINISH"
  <1>1. /\ mode = "run" /\ Top = "loop" /\ frames[cur].type = type
        /\ cur' = frames[cur].prev /\ frames' = [frames EXCEPT ![cur] = Clean(type)]
        /\ pool' = PutFrame(pool, cur, type) /\ UNCHANGED funcs
        /\ cstack' = SubSeq(cstack, 1, T - back)
        /\ mode' = IF back = 1 THEN "end" ELSE mode
    BY DEF Finish, Running
  <1>2. PICK ch, pos : RunGood(ch, pos)
    BY <1>1, RunKnown
  <1>3. /\ T \in Nat /\ T >= 2 /\ T - 1 \in 1 .. T /\ Len(ch) \in Nat /\ cur \in DOMAIN frames
        /\ pos[T - 1] \in Nat /\ ch # <<>>
        /\ Top \in Follows(cstack[T - 1]) /\ cstack[T - 1] \in Kinds
        /\ frames[cur].type = IF Len(ch) = pos[T - 1] + 1 THEN "FINISH" ELSE "SCRIPT"
    BY <1>1, <1>2, TopFrame
  <1>4. Len(ch) = pos[T - 1] + 1 /\ cstack[T - 1] \in {"main", "call"}
    BY <1>1, <1>3 DEF Follows, Kinds, CKinds
  <1>5. ~frames[cur].used
    BY <1>1, <1>2, <1>3 DEF RunGood, Good, FramesGood
  <1>6. frames' = IF frames[cur].used THEN frames ELSE [frames EXCEPT ![cur] = Clean(type)]
    BY <1>1, <1>5
  <1>7. /\ CallsGood(cstack, "run") /\ Level(frames, cstack, ch, pos, T) /\ cur = Newest(ch)
        /\ Good(frames, pool, funcs, ch)
    BY <1>2 DEF RunGood
  <1>8. CASE back = 2
    <2> DEFINE t == T - 2
    <2>1. cstack[T - 1] = "call" /\ cstack[1] = "main" /\ mode' = "run" /\ cstack' = SubSeq(cstack, 1, t)
      BY <1>1, <1>7, <1>8 DEF CallsGood
    <2>2. T - 1 # 1
      BY <2>1
    <2> HIDE DEF T
    <2>3. t \in 1 .. T /\ T - 1 \in 2 .. T /\ T - 1 - 1 = t /\ T - 1 <= T
      BY <1>3, <2>2
    <2>4. cstack[T - 1] \in Follows(cstack[t]) /\ cstack[t] \in Kinds
      BY <1>7, <2>3 DEF CallsGood, T
    <2>5. cstack[t] \notin {"main", "call"}
      BY <2>1, <2>4 DEF Follows
    <2>6. pos[T - 1] = pos[t]
      BY <1>7, <2>1, <2>3 DEF Level, Added
    <2>7. t \in 1 .. Len(cstack) /\ pos[t] = Len(ch) - 1
      BY <1>3, <1>4, <2>3, <2>6 DEF T
    <2> HIDE DEF t, type
    <2>8. /\ RunGood(ch, pos) /\ type = frames[cur].type /\ cur' = frames[cur].prev
          /\ frames' = IF frames[cur].used THEN frames ELSE [frames EXCEPT ![cur] = Clean(type)]
          /\ pool' = PutFrame(pool, cur, type) /\ UNCHANGED funcs
          /\ cstack' = SubSeq(cstack, 1, t) /\ mode' = "run" /\ t \in 1 .. Len(cstack)
          /\ pos[t] = Len(ch) - 1 /\ cstack[t] \notin {"main", "call"}
      BY <1>1, <1>2, <1>6, <2>1, <2>5, <2>7
    <2> QED
      BY ONLY <2>8, FrameReturns
  <1>9. CASE back = 1
    <2> DEFINE t == T - 1
               fr2 == frames'
               pl2 == pool'
    <2>1. mode' = "end" /\ cstack' = SubSeq(cstack, 1, t) /\ t \in 1 .. Len(cstack)
      BY <1>1, <1>3, <1>9
    <2>2. /\ ch # <<>> /\ cur = Newest(ch) /\ Good(frames, pool, funcs, ch)
          /\ fr2 = IF frames[cur].used THEN frames ELSE [frames EXCEPT ![cur] = Clean(type)]
          /\ pl2 = PutFrame(pool, cur, type) /\ type = frames[cur].type
      BY <1>1, <1>3, <1>6, <1>7
    <2> HIDE DEF fr2, pl2
    <2>3. LET c == SubSeq(ch, 1, Len(ch) - 1) IN
          Good(fr2, pl2, funcs, c) /\ Newest(c) = frames[cur].prev
      <3> HIDE DEF type
      <3> QED
        BY ONLY <2>2, FramePopped
    <2>4. CallsGood(cstack', "end")
      <3> DEFINE md == "run"
                 md2 == "end"
      <3>1. CallsGood(cstack, md) /\ md2 \in Modes /\ md2 # "run"
        BY <1>7 DEF Modes
      <3> HIDE DEF md, md2, t
      <3>2. CallsGood(SubSeq(cstack, 1, t), md2)
        BY <2>1, <3>1, CallsCut
      <3> QED
        BY <2>1, <3>2 DEF md2
    <2> QED
      BY <1>1, <2>1, <2>3, <2>4 DEF EvalInv, Going, fr2, pl2
  <1> QED
    BY <1>8, <1>9

\* An instruction or a native function, with or without the buffer of compare_val.
Turned(kind, kind2) == {kind, kind2} \subseteq InstKinds \/ {kind, kind2} \subseteq NativeKinds

\* A sequence with another last element.
LEMMA LastChanged ==
  ASSUME NEW S, NEW s \in Seq(S), s # <<>>, NEW x \in S
  PROVE  LET r == Append(Front(s), x) IN
         /\ r \in Seq(S) /\ Len(r) = Len(s) /\ r[Len(s)] = x
         /\ \A d \in 1 .. Len(s) - 1 : r[d] = s[d]
  <1>1. /\ Front(s) \in Seq(S) /\ Len(Front(s)) = Len(s) - 1
        /\ \A d \in 1 .. Len(s) - 1 : Front(s)[d] = s[d]
    BY FrontFacts
  <1> DEFINE f == Front(s)
  <1> HIDE DEF f
  <1>2. /\ Append(f, x) \in Seq(S) /\ Len(Append(f, x)) = Len(f) + 1 /\ Append(f, x)[Len(f) + 1] = x
        /\ \A i \in 1 .. Len(f) : Append(f, x)[i] = f[i]
    BY <1>1, AppendFacts DEF f
  <1>3. Len(s) \in Nat /\ Len(f) = Len(s) - 1 /\ Len(f) + 1 = Len(s)
    BY <1>1 DEF f
  <1> QED
    BY <1>1, <1>2, <1>3 DEF f

\* compare_val sets its buffer or takes it off, or a jump comes to it: the T activations
\* that are left own the frames as before.
LEMMA EvalTurns ==
  ASSUME NEW md, CallsGood(cstack, md), NEW ch, NEW pos, NEW T, T \in 1 .. Len(cstack),
         Good(frames, pool, funcs, ch), cur = Newest(ch), Level(frames, cstack, ch, pos, T),
         NEW kind, Turned(cstack[T], kind), UNCHANGED <<frames, cur, pool, funcs>>,
         cstack' \in Seq(Kinds), Len(cstack') = T, cstack'[T] = kind,
         \A d \in 1 .. T - 1 : cstack'[d] = cstack[d], mode' \in {"run", "swallowed"}
  PROVE  EvalInv'
  <1> DEFINE cs == cstack'
  <1>1. /\ cstack \in Seq(Kinds) /\ cstack[1] = "main" /\ Len(cstack) \in Nat /\ T \in Nat /\ T >= 1
        /\ \A d \in 2 .. Len(cstack) : cstack[d] \in Follows(cstack[d - 1])
    BY DEF CallsGood
  <1>2. T # 1 /\ kind \notin {"main", "call"}
    BY <1>1 DEF Turned, NativeKinds, InstKinds
  <1>3. /\ cs \in Seq(Kinds) /\ Len(cs) = T /\ DOMAIN cs = 1 .. T /\ cs[T] = kind /\ T \in 1 .. T
        /\ \A d \in 1 .. T : d # T => cs[d] = cstack[d]
    BY <1>1
  <1>4. \A d \in 2 .. T : d \in 1 .. T /\ d - 1 \in 1 .. T /\ d - 1 # T /\ d \in 2 .. Len(cstack)
    BY <1>1
  <1> HIDE DEF cs
  <1>5. CallsGood(cs, "run")
    <2>1. ASSUME NEW d \in 2 .. T PROVE cs[d] \in Follows(cs[d - 1])
      <3>1. cs[d - 1] = cstack[d - 1] /\ cstack[d] \in Follows(cstack[d - 1])
        BY <1>1, <1>3, <1>4
      <3>2. CASE d # T
        BY <1>3, <1>4, <3>1, <3>2
      <3>3. CASE d = T
        <4>1. cstack[d - 1] \in Kinds
          BY <1>1, <1>4
        <4>2. cs[d] = kind /\ Turned(cstack[d], kind)
          BY <1>3, <3>3
        <4>3. cstack[d - 1] = "loop" /\ kind \in CKinds
          BY <3>1, <4>1, <4>2 DEF Follows, Kinds, CKinds, Turned, NativeKinds, InstKinds
        <4> QED
          BY <3>1, <4>2, <4>3 DEF Follows
      <3> QED
        BY <3>2, <3>3
    <2>2. cs[1] = "main" /\ cs # <<>> /\ cs[Len(cs)] \notin {"main", "call"}
      BY <1>1, <1>2, <1>3
    <2> QED
      BY <1>3, <2>1, <2>2 DEF CallsGood, Modes
  <1>6. Level(frames, cs, ch, pos, T)
    <2>1. ASSUME NEW d \in 2 .. T PROVE Added(frames, cs[d], ch, pos[d - 1], pos[d])
      <3>1. Added(frames, cstack[d], ch, pos[d - 1], pos[d])
        BY DEF Level
      <3>2. CASE d # T
        BY <1>3, <1>4, <3>1, <3>2
      <3>3. CASE d = T
        <4>1. cs[d] = kind /\ Turned(cstack[d], kind)
          BY <1>3, <3>3
        <4> DEFINE p == pos[d - 1]
                   q == pos[d]
        <4> HIDE DEF p, q
        <4>2. Added(frames, cstack[d], ch, p, q)
          BY <3>1 DEF p, q
        <4>3. Added(frames, kind, ch, p, q)
          BY <4>1, <4>2 DEF Added, Turned, CKinds, NativeKinds, InstKinds
        <4> QED
          BY <4>1, <4>3 DEF p, q
      <3> QED
        BY <3>2, <3>3
    <2> QED
      BY <1>3, <2>1 DEF Level
  <1>7. Level(frames', cstack', ch, pos, Len(cstack'))
    BY <1>3, <1>6 DEF cs
  <1> QED
    BY <1>5, <1>7, RunShown DEF cs

\* compare_val sets its buffer and calls ==.
LEMMA EvalCompareVal ==
  ASSUME EvalInv, NEW kind \in {"inst", "native"}, CompareVal(kind)
  PROVE  EvalInv'
  <1>1. /\ mode = "run" /\ mode' = "run" /\ Top = kind /\ UNCHANGED <<frames, cur, pool, funcs>>
        /\ cstack' = Append(Front(cstack), Comparing(kind))
    BY DEF CompareVal, InC
  <1>2. PICK ch, pos : RunGood(ch, pos)
    BY <1>1, RunKnown
  <1> DEFINE T == Len(cstack)
  <1>3. T \in 1 .. T /\ cstack \in Seq(Kinds) /\ cstack # <<>> /\ Top = cstack[T]
    BY <1>2, TopFrame
  <1>4. /\ cur = Newest(ch) /\ Good(frames, pool, funcs, ch) /\ CallsGood(cstack, "run")
        /\ Level(frames, cstack, ch, pos, T)
    BY <1>2 DEF RunGood
  <1>5. Comparing(kind) \in Kinds /\ Turned(kind, Comparing(kind))
    BY DEF Kinds, Comparing, Turned, NativeKinds, InstKinds
  <1>6. /\ cstack' \in Seq(Kinds) /\ Len(cstack') = T /\ cstack'[T] = Comparing(kind)
        /\ \A d \in 1 .. T - 1 : cstack'[d] = cstack[d]
    BY <1>1, <1>3, <1>5, LastChanged
  <1> HIDE DEF T
  <1>7. T \in 1 .. Len(cstack) /\ Turned(cstack[T], Comparing(kind))
    BY <1>1, <1>3, <1>5 DEF T
  <1>8. mode' \in {"run", "swallowed"}
    BY <1>1
  <1> QED
    BY <1>1, <1>4, <1>6, <1>7, <1>8, EvalTurns

\* == returns.
LEMMA EvalCompareReturns ==
  ASSUME EvalInv, NEW kind \in {"inst", "native"}, CompareReturns(kind)
  PROVE  EvalInv'
  <1>1. /\ mode = "run" /\ mode' = "run" /\ Top = Comparing(kind)
        /\ UNCHANGED <<frames, cur, pool, funcs>> /\ cstack' = Append(Front(cstack), kind)
    BY DEF CompareReturns, InC
  <1>2. PICK ch, pos : RunGood(ch, pos)
    BY <1>1, RunKnown
  <1> DEFINE T == Len(cstack)
  <1>3. T \in 1 .. T /\ cstack \in Seq(Kinds) /\ cstack # <<>> /\ Top = cstack[T]
    BY <1>2, TopFrame
  <1>4. /\ cur = Newest(ch) /\ Good(frames, pool, funcs, ch) /\ CallsGood(cstack, "run")
        /\ Level(frames, cstack, ch, pos, T)
    BY <1>2 DEF RunGood
  <1>5. kind \in Kinds /\ Turned(Comparing(kind), kind)
    BY DEF Kinds, Comparing, Turned, NativeKinds, InstKinds
  <1>6. /\ cstack' \in Seq(Kinds) /\ Len(cstack') = T /\ cstack'[T] = kind
        /\ \A d \in 1 .. T - 1 : cstack'[d] = cstack[d]
    BY <1>1, <1>3, <1>5, LastChanged
  <1> HIDE DEF T
  <1>7. T \in 1 .. Len(cstack) /\ Turned(cstack[T], kind)
    BY <1>1, <1>3, <1>5 DEF T
  <1>8. mode' \in {"run", "swallowed"}
    BY <1>1
  <1> QED
    BY <1>1, <1>4, <1>6, <1>7, <1>8, EvalTurns

\* The newest buffer is the one of the top activation, or of the mainloop that
\* called it.
LEMMA NewestBuffer ==
  ASSUME BufInv, mode = "run", NEW ch, NEW pos, RunGood(ch, pos)
  PROVE  LET b == Last(jmps).act
             T == Len(cstack)
         IN  /\ b \in Nat /\ b >= 1
             /\ (T = b /\ Top \in {"loop"} \cup Guards)
                \/ (T = b + 1 /\ cstack[b] = "loop" /\ Top \in {"native", "inst"})
  <1> DEFINE b == Last(jmps).act
             T == Len(cstack)
             n == Len(jmps)
  <1>1. /\ jmps \in Seq(Buffers) /\ n \in DOMAIN jmps /\ n \in Nat /\ DOMAIN jmps = 1 .. n
        /\ b = jmps[n].act
    BY DEF BufInv, LiveBuffers, Buf, Last
  <1>2. /\ \A i, j \in DOMAIN jmps : i < j => jmps[i].act < jmps[j].act
        /\ \A i \in DOMAIN jmps : jmps[i].act \in DOMAIN cstack /\ HasBuffer(cstack[jmps[i].act])
        /\ \A d \in DOMAIN cstack : HasBuffer(cstack[d]) => \E i \in DOMAIN jmps : jmps[i].act = d
    BY DEF BufInv, LiveBuffers, Buf
  <1>3. /\ T \in Nat /\ T >= 2 /\ T \in DOMAIN cstack /\ T - 1 \in 1 .. T /\ DOMAIN cstack = 1 .. T
        /\ Top = cstack[T] /\ Top \in {"loop"} \cup CKinds
        /\ Top \in Follows(cstack[T - 1]) /\ cstack[T - 1] \in Kinds
    BY TopFrame
  <1> HIDE DEF b, T, n
  <1>4. b \in Nat /\ b >= 1 /\ b <= T /\ HasBuffer(cstack[b])
    BY <1>1, <1>2, <1>3
  <1>5. ASSUME NEW d \in DOMAIN cstack, HasBuffer(cstack[d]) PROVE d <= b
    <2>1. PICK i \in DOMAIN jmps : jmps[i].act = d
      BY <1>2, <1>5
    <2>2. i = n \/ i < n
      BY <1>1
    <2> QED
      BY <1>1, <1>2, <1>3, <1>4, <2>1, <2>2
  <1>6. CASE Top \in {"loop"} \cup Guards
    <2>1. HasBuffer(cstack[T])
      BY <1>3, <1>6 DEF HasBuffer, Guards, CKinds
    <2> QED
      BY <1>3, <1>4, <1>5, <1>6, <2>1 DEF b, T
  <1>7. CASE Top \in {"native", "inst"}
    <2>1. cstack[T - 1] = "loop"
      BY <1>3, <1>7 DEF Follows, Kinds, CKinds
    <2>2. HasBuffer(cstack[T - 1]) /\ ~HasBuffer(cstack[T]) /\ T - 1 \in DOMAIN cstack
      BY <1>3, <1>7, <2>1 DEF HasBuffer
    <2>3. T - 1 <= b /\ b # T
      BY <1>4, <1>5, <2>2
    <2>4. b = T - 1 /\ T = b + 1
      BY <1>3, <1>4, <2>3
    <2> QED
      BY <1>4, <1>7, <2>1, <2>4 DEF b, T
  <1> QED
    BY <1>3, <1>6, <1>7 DEF CKinds, Guards

\* The frame with a handler is on the list and is a script frame.
LEMMA HandlerTarget ==
  ASSUME NEW ch, Good(frames, pool, funcs, ch), cur = Newest(ch), NEW h \in Handlers
  PROVE  Target(frames, ch, "RAISE", h)
  <1>1. ch \in Seq(Nat) /\ FramesGood(frames) /\ ListGood(frames, pool, ch) /\ Len(ch) \in 0 .. Len(ch)
    <2>1. ch \in Seq(Nat) /\ FramesGood(frames) /\ ListGood(frames, pool, ch)
      BY DEF Good, ListGood
    <2> QED
      BY <2>1
  <1>2. cur = At(ch, Len(ch))
    BY <1>1, NewestAt
  <1>3. ToSet(Chain(cur)) = {ch[i] : i \in 1 .. Len(ch)}
    BY <1>1, <1>2, ChainIs, DownSet
  <1>4. DOMAIN ch = 1 .. Len(ch)
    BY <1>1
  <1> QED
    BY <1>3, <1>4 DEF Handlers, Target

\* YogError_raise, long_return and long_break: the frames stay as they are, and the jump
\* goes to the newest buffer.
LEMMA JumpStarts ==
  ASSUME BufInv, mode = "run", NEW ch, NEW pos, RunGood(ch, pos), InC \/ Running("SCRIPT"),
         NEW s, NEW t, Target(frames, ch, s, t), StartJump(s, t)
  PROVE  EvalInv'
  <1> DEFINE b == Last(jmps).act
             T == Len(cstack)
  <1>1. /\ b \in Nat /\ b >= 1
        /\ (T = b /\ Top \in {"loop"} \cup Guards)
           \/ (T = b + 1 /\ cstack[b] = "loop" /\ Top \in {"native", "inst"})
    BY NewestBuffer
  <1>2. /\ mode' = "jump" /\ jump' = [status |-> s, target |-> t]
        /\ UNCHANGED <<frames, cur, pool, cstack, jmps, scopes, funcs>>
    BY DEF StartJump
  <1>3. /\ CallsGood(cstack, "run") /\ Good(frames, pool, funcs, ch) /\ cur = Newest(ch)
        /\ Level(frames, cstack, ch, pos, T)
    BY DEF RunGood
  <1>4. /\ T \in Nat /\ T >= 2 /\ Top = cstack[T] /\ cur = ch[Len(ch)] /\ Len(ch) > 0
        /\ Added(frames, Top, ch, pos[T - 1], Len(ch)) /\ T - 1 \in 1 .. T /\ pos[T - 1] \in Nat
    BY TopFrame
  <1>5. pos[T] = Len(ch)
    BY <1>3 DEF Level
  <1> HIDE DEF T, b
  <1>6. cstack[b] = "loop" => pos[b] > 0 /\ frames[ch[pos[b]]].type = "SCRIPT"
    <2>1. CASE T = b
      <3>1. cstack[b] = "loop" => frames[cur].type = "SCRIPT"
        BY <1>4, <2>1 DEF InC, Running, NativeKinds, InstKinds
      <3> QED
        BY <1>4, <1>5, <2>1, <3>1
    <2>2. CASE T = b + 1 /\ Top \in {"native", "inst"}
      <3>1. b = T - 1
        BY <1>1, <2>2
      <3> QED
        BY <1>4, <2>2, <3>1 DEF Added, CKinds, NativeKinds, InstKinds
    <2> QED
      BY <1>1, <2>1, <2>2
  <1>7. JumpGood(frames, cstack, jmps, [status |-> s, target |-> t], ch, pos, T)
    BY <1>1, <1>3, <1>6 DEF JumpGood, Target, b
  <1>8. CallsGood(cstack, "jump")
    BY <1>3 DEF CallsGood, Modes
  <1> QED
    BY <1>2, <1>3, <1>7, <1>8 DEF EvalInv, Going

\* The three ways to start a jump keep the invariant.
LEMMA EvalJumps ==
  ASSUME BufInv, EvalInv, Raise \/ LongReturn \/ LongBreak
  PROVE  EvalInv'
  <1>1. mode = "run" /\ (InC \/ Running("SCRIPT"))
    BY DEF Raise, LongReturn, LongBreak, Running, InC
  <1>2. PICK ch, pos : RunGood(ch, pos)
    BY <1>1, RunKnown
  <1>3. Good(frames, pool, funcs, ch) /\ cur = Newest(ch)
    BY <1>2 DEF RunGood
  <1>4. ASSUME NEW h \in Handlers, StartJump("RAISE", h) PROVE EvalInv'
    BY <1>1, <1>2, <1>3, <1>4, HandlerTarget, JumpStarts
  <1>5. ASSUME NEW s \in {"RETURN", "BREAK"}, NEW t, LongJump(s, t), frames[cur].brk # NoFrame,
               \/ s = "RETURN" /\ t = frames[cur].ret
               \/ s = "BREAK" /\ t = frames[cur].brk
        PROVE  EvalInv'
    <2>1. CASE ~OnChain(t, frames[cur].prev)
      BY <1>4, <1>5, <2>1 DEF LongJump
    <2>2. CASE OnChain(t, frames[cur].prev)
      <3>1. /\ ch # <<>> /\ ch \in Seq(Nat) /\ cur = ch[Len(ch)] /\ cur \in DOMAIN frames
            /\ Len(ch) > 0 /\ Len(ch) \in Nat /\ DOMAIN ch = 1 .. Len(ch)
        BY <1>2, TopFrame
      <3>2. FramesGood(frames) /\ ListGood(frames, pool, ch) /\ Len(ch) - 1 \in 0 .. Len(ch) /\ Len(ch) \in DOMAIN ch
        BY <1>3, <3>1 DEF Good
      <3>3. frames[cur].prev = At(ch, Len(ch) - 1)
        BY <3>1, <3>2 DEF ListGood, At
      <3>4. PICK i \in 1 .. Len(ch) - 1 : ch[i] = t
        BY <2>2, <3>2, <3>3, OnChainIs
      <3>5. t # NoFrame /\ t \in DOMAIN frames /\ frames[t].type # "C"
        BY <1>5, <3>1, <3>2 DEF FramesGood
      <3>6. i \in DOMAIN ch
        BY <3>1
      <3>7. Target(frames, ch, s, t)
        BY <1>5, <3>4, <3>5, <3>6 DEF Target
      <3>8. StartJump(s, t)
        BY <1>5, <2>2 DEF LongJump
      <3> QED
        BY <1>1, <1>2, <3>7, <3>8, JumpStarts
    <2> QED
      BY <2>1, <2>2
  <1>6. CASE Raise
    BY <1>4, <1>6 DEF Raise
  <1>7. CASE LongReturn
    BY <1>5, <1>7 DEF LongReturn
  <1>8. CASE LongBreak
    BY <1>5, <1>8 DEF LongBreak
  <1> QED
    BY <1>6, <1>7, <1>8

-----------------------------------------------------------------------------
(* How a mainloop that gets a jump looks through the list.                 *)

\* The list with what the walks need of it.
Walk(ch) ==
    /\ FramesGood(frames) /\ ListGood(frames, pool, ch)

\* The list, and what is found from its frame k by prev.
LEMMA WalkFacts ==
  ASSUME NEW ch, Walk(ch), NEW k \in 0 .. Len(ch)
  PROVE  /\ ch \in Seq(Nat) /\ Len(ch) \in Nat /\ k \in Nat /\ Chain(At(ch, k)) = Down(ch, k)
         /\ \A i \in 1 .. k : i \in 1 .. Len(ch)
         /\ \A i \in 1 .. Len(ch) : ch[i] \in DOMAIN frames /\ ch[i] \in Nat /\ ch[i] # NoFrame
         /\ \A i, j \in 1 .. Len(ch) : ch[i] = ch[j] => i = j
         /\ \A i \in DOMAIN Down(ch, k) : Down(ch, k)[i] \in DOMAIN frames /\ Down(ch, k)[i] # NoFrame
  <1>1. FramesGood(frames) /\ ListGood(frames, pool, ch)
    BY DEF Walk
  <1>2. ch \in Seq(Nat) /\ frames \in Seq(FrameRecs) /\ DOMAIN ch = 1 .. Len(ch) /\ Len(ch) \in Nat
    BY <1>1 DEF FramesGood, ListGood
  <1>3. \A i \in 1 .. Len(ch) : ch[i] \in DOMAIN frames
    BY <1>1, <1>2 DEF ListGood
  <1>4. \A i \in 1 .. Len(ch) : ch[i] \in Nat /\ ch[i] # NoFrame
    BY <1>2, <1>3 DEF NoFrame
  <1>5. \A i, j \in 1 .. Len(ch) : ch[i] = ch[j] => i = j
    BY <1>1, <1>2 DEF ListGood
  <1>6. Chain(At(ch, k)) = Down(ch, k)
    BY <1>1, ChainIs
  <1>7. DOMAIN Down(ch, k) = 1 .. k /\ \A i \in 1 .. k : Down(ch, k)[i] = ch[k + 1 - i]
    BY <1>2, DownFacts
  <1>8. \A i \in 1 .. k : k + 1 - i \in 1 .. Len(ch) /\ i \in 1 .. Len(ch)
    BY <1>2
  <1> QED
    BY <1>2, <1>3, <1>4, <1>5, <1>6, <1>7, <1>8

\* What First looks for among frames of the list, as a set.
LEMMA WalkAt ==
  ASSUME NEW ch, Walk(ch), NEW k \in 0 .. Len(ch), NEW X,
         NEW I, I = {i \in DOMAIN Chain(At(ch, k)) : Chain(At(ch, k))[i] \in X},
         NEW j \in 1 .. k, ch[j] \in X, \A i \in 1 .. k : i > j => ch[i] \notin X
  PROVE  Least(Chain(At(ch, k)), I) = ch[j]
  <1>1. Chain(At(ch, k)) = Down(ch, k) /\ ch \in Seq(Nat)
    BY WalkFacts
  <1>2. I = {i \in DOMAIN Down(ch, k) : Down(ch, k)[i] \in X}
    BY <1>1
  <1>3. Least(Down(ch, k), I) = ch[j]
    BY <1>1, <1>2, LeastAt
  <1> QED
    BY <1>1, <1>3

\* First finds nothing where there is nothing.
LEMMA WalkNone ==
  ASSUME NEW ch, Walk(ch), NEW k \in 0 .. Len(ch), NEW X,
         NEW I, I = {i \in DOMAIN Chain(At(ch, k)) : Chain(At(ch, k))[i] \in X},
         \A i \in 1 .. k : ch[i] \notin X
  PROVE  Least(Chain(At(ch, k)), I) = NoFrame
  <1>1. Chain(At(ch, k)) = Down(ch, k) /\ ch \in Seq(Nat)
    BY WalkFacts
  <1>2. I = {i \in DOMAIN Down(ch, k) : Down(ch, k)[i] \in X}
    BY <1>1
  <1>3. Least(Down(ch, k), I) = NoFrame
    BY <1>1, <1>2, LeastNone
  <1> QED
    BY <1>1, <1>3

\* Some frame of the list is found when one is there.
LEMMA WalkSome ==
  ASSUME NEW ch, Walk(ch), NEW k \in 0 .. Len(ch), NEW X,
         NEW I, I = {i \in DOMAIN Chain(At(ch, k)) : Chain(At(ch, k))[i] \in X},
         NEW j \in 1 .. k, ch[j] \in X
  PROVE  Least(Chain(At(ch, k)), I) # NoFrame /\ Least(Chain(At(ch, k)), I) \in X
  <1> DEFINE s == Down(ch, k)
  <1>1. /\ Chain(At(ch, k)) = s /\ ch \in Seq(Nat) /\ k \in Nat
        /\ \A i \in DOMAIN s : s[i] \in DOMAIN frames /\ s[i] # NoFrame
    BY WalkFacts
  <1>2. DOMAIN s = 1 .. k /\ \A i \in 1 .. k : s[i] = ch[k + 1 - i]
    BY <1>1, DownFacts
  <1>3. k + 1 - j \in 1 .. k /\ k + 1 - (k + 1 - j) = j
    BY <1>1
  <1> HIDE DEF s
  <1>4. I = {i \in DOMAIN s : s[i] \in X}
    BY <1>1
  <1>5. k + 1 - j \in I
    BY <1>2, <1>3, <1>4
  <1>6. I \subseteq Nat
    BY <1>2, <1>4
  <1>7. \E i \in I : \A m \in I : i <= m
    BY <1>5, <1>6, LeastNat
  <1>8. (CHOOSE i \in I : \A m \in I : i <= m) \in I
    BY <1>7
  <1>9. \E i \in I : Least(s, I) = s[i]
    BY <1>5, <1>8 DEF Least
  <1>10. \A i \in I : s[i] # NoFrame /\ s[i] \in X
    BY <1>1, <1>4
  <1> QED
    BY <1>1, <1>9, <1>10

\* The frame on top that is no C frame.
LEMMA SkipIs ==
  ASSUME NEW ch, Walk(ch), NEW k \in 0 .. Len(ch), NEW q \in 1 .. k, frames[ch[q]].type # "C",
         \A i \in 1 .. k : i > q => frames[ch[i]].type = "C"
  PROVE  skip_c_frame(At(ch, k)) = ch[q]
  <1> DEFINE f == At(ch, k)
             X == {g \in DOMAIN frames : frames[g].type # "C"}
             I == {i \in DOMAIN Chain(f) : frames[Chain(f)[i]].type # "C"}
  <1>1. skip_c_frame(f) = Least(Chain(f), I)
    BY Zenon DEF skip_c_frame, First, Least
  <1>2. /\ \A i \in DOMAIN Chain(f) : Chain(f)[i] \in DOMAIN frames
        /\ \A i \in 1 .. k : ch[i] \in DOMAIN frames
    BY WalkFacts
  <1>3. I = {i \in DOMAIN Chain(f) : Chain(f)[i] \in X}
    BY <1>2
  <1>4. ch[q] \in X /\ \A i \in 1 .. k : i > q => ch[i] \notin X
    BY <1>2
  <1> HIDE DEF I, X
  <1>5. Least(Chain(f), I) = ch[q]
    BY <1>3, <1>4, WalkAt
  <1> QED
    BY <1>1, <1>5

\* The first q frames end with those of a mainloop, that follow the first p.
Loops(ch, p, q) ==
    /\ Walk(ch) /\ q \in 1 .. Len(ch) /\ p \in Nat /\ p < q
    /\ frames[ch[p + 1]].type = "FINISH"
    /\ \A i \in p + 2 .. q : frames[ch[i]].type = "SCRIPT"

\* The frames of that mainloop.
LEMMA LoopFacts ==
  ASSUME NEW ch, NEW p, NEW q, Loops(ch, p, q)
  PROVE  /\ Walk(ch) /\ q \in Nat /\ q \in 0 .. Len(ch) /\ q \in 1 .. q /\ p + 1 \in 1 .. q /\ p \in 0 .. Len(ch)
         /\ p \in Nat /\ ch \in Seq(Nat) /\ At(ch, q) = ch[q]
         /\ \A i \in 1 .. q : ch[i] \in DOMAIN frames /\ ch[i] # NoFrame
         /\ \A i, j \in 1 .. q : ch[i] = ch[j] => i = j
         /\ \A i \in 1 .. q : i > p + 1 => frames[ch[i]].type = "SCRIPT"
         /\ \A i \in DOMAIN Chain(ch[q]) : Chain(ch[q])[i] \in DOMAIN frames
  <1>1. Walk(ch) /\ q \in 1 .. Len(ch) /\ p \in Nat /\ p < q
    BY DEF Loops
  <1>2. ch \in Seq(Nat)
    BY <1>1 DEF Walk, ListGood
  <1>3. q \in Nat /\ q \in 0 .. Len(ch) /\ q \in 1 .. q /\ p + 1 \in 1 .. q /\ At(ch, q) = ch[q] /\ p \in 0 .. Len(ch)
    BY <1>1, <1>2 DEF At
  <1>4. \A i \in 1 .. q : i \in 1 .. Len(ch)
    BY <1>1, <1>2
  <1>5. /\ Chain(At(ch, q)) = Down(ch, q)
        /\ \A i \in 1 .. Len(ch) : ch[i] \in DOMAIN frames /\ ch[i] \in Nat /\ ch[i] # NoFrame
        /\ \A i, j \in 1 .. Len(ch) : ch[i] = ch[j] => i = j
        /\ \A i \in DOMAIN Down(ch, q) : Down(ch, q)[i] \in DOMAIN frames /\ Down(ch, q)[i] # NoFrame
    BY <1>1, <1>3, WalkFacts
  <1>6. \A i \in 1 .. q : i > p + 1 => i \in p + 2 .. q
    BY <1>3
  <1>7. \A i \in 1 .. q : i > p + 1 => frames[ch[i]].type = "SCRIPT"
    BY <1>6 DEF Loops
  <1> QED
    BY <1>1, <1>2, <1>3, <1>4, <1>5, <1>7

\* rollback_frames looks exactly at the script frames of the mainloop.
LEMMA RollbackIs ==
  ASSUME NEW ch, NEW p, NEW q, Loops(ch, p, q),
         jump.target # NoFrame => frames[jump.target].type = "SCRIPT"
  PROVE  LET r == rollback_frames(ch[q]) IN
         /\ r # NoFrame => r = jump.target /\ \E i \in p + 1 .. q : ch[i] = r
         /\ r = NoFrame => \A i \in p + 1 .. q : ch[i] # jump.target
  <1> DEFINE f == ch[q]
             t == jump.target
             X == {g \in DOMAIN frames : frames[g].type # "SCRIPT" \/ g = t}
             I == {i \in DOMAIN Chain(f) : frames[Chain(f)[i]].type # "SCRIPT" \/ Chain(f)[i] = t}
             g == Least(Chain(f), I)
             r == rollback_frames(f)
  <1>1. r = IF g = t THEN g ELSE NoFrame
    BY Zenon DEF rollback_frames, First, Least
  <1>2. /\ Walk(ch) /\ q \in Nat /\ q \in 0 .. Len(ch) /\ p + 1 \in 1 .. q /\ p \in Nat
        /\ \A i \in 1 .. q : ch[i] \in DOMAIN frames /\ ch[i] # NoFrame
        /\ \A i, j \in 1 .. q : ch[i] = ch[j] => i = j
        /\ \A i \in 1 .. q : i > p + 1 => frames[ch[i]].type = "SCRIPT"
        /\ \A i \in DOMAIN Chain(f) : Chain(f)[i] \in DOMAIN frames
        /\ f = At(ch, q)
    BY LoopFacts
  <1>3. I = {i \in DOMAIN Chain(f) : Chain(f)[i] \in X}
    BY <1>2
  <1>4. frames[ch[p + 1]].type = "FINISH"
    BY DEF Loops
  <1>5. \A i \in 1 .. q : ch[i] \in X <=> frames[ch[i]].type # "SCRIPT" \/ ch[i] = t
    BY <1>2
  <1>6. \A i \in p + 1 .. q : i \in 1 .. q /\ (i = p + 1 \/ i > p + 1)
    BY <1>2
  <1> HIDE DEF I, X
  <1>7. ASSUME NEW j \in 1 .. q, ch[j] \in X, \A i \in 1 .. q : i > j => ch[i] \notin X
        PROVE  g = ch[j]
    <2>1. I = {i \in DOMAIN Chain(At(ch, q)) : Chain(At(ch, q))[i] \in X}
      BY <1>2, <1>3
    <2> HIDE DEF f
    <2>2. Least(Chain(At(ch, q)), I) = ch[j]
      BY <1>2, <1>7, <2>1, WalkAt
    <2> QED
      BY <1>2, <2>2
  <1> HIDE DEF g, r, t
  <1>8. CASE \E j \in 1 .. q : j > p + 1 /\ ch[j] = t
    <2>1. PICK j \in 1 .. q : j > p + 1 /\ ch[j] = t
      BY <1>8
    <2>2. \A i \in 1 .. q : i > j => i > p + 1 /\ i # j
      BY <1>2, <2>1
    <2>3. \A i \in 1 .. q : i > j => ch[i] \notin X
      BY <1>2, <1>5, <2>1, <2>2
    <2>4. g = t /\ r = t
      BY <1>1, <1>5, <1>7, <2>1, <2>3
    <2>5. j \in p + 1 .. q /\ t # NoFrame
      BY <1>2, <2>1
    <2> QED
      BY <2>1, <2>4, <2>5 DEF r, f, t
  <1>9. CASE \A j \in 1 .. q : j > p + 1 => ch[j] # t
    <2>1. \A i \in 1 .. q : i > p + 1 => ch[i] \notin X
      BY <1>2, <1>5, <1>9
    <2>2. g = ch[p + 1]
      BY <1>2, <1>4, <1>5, <1>7, <2>1
    <2>3. ch[p + 1] # t
      BY <1>2, <1>4 DEF t
    <2>4. r = NoFrame
      BY <1>1, <2>2, <2>3
    <2>5. \A i \in p + 1 .. q : ch[i] # t
      BY <1>6, <1>9, <2>3
    <2> QED
      BY <2>4, <2>5 DEF r, f, t
  <1> QED
    BY <1>8, <1>9

\* Where C code called the mainloop.
LEMMA SkipToCIs ==
  ASSUME NEW ch, NEW p, NEW q, Loops(ch, p, q), frames[ch[q]].type = "SCRIPT"
  PROVE  skip_to_c_frame(ch[q]) = At(ch, p)
  <1> DEFINE f == ch[q]
             s == Tail(Chain(f))
             X == {h \in DOMAIN frames : frames[h].type # "SCRIPT"}
             I == {i \in DOMAIN s : frames[s[i]].type # "SCRIPT"}
             g == Least(s, I)
  <1>1. skip_to_c_frame(f) = IF frames[g].type = "C" THEN g ELSE frames[g].prev
    BY Zenon DEF skip_to_c_frame, First, Least
  <1>2. /\ Walk(ch) /\ q \in Nat /\ q \in 0 .. Len(ch) /\ p + 1 \in 1 .. q /\ p \in Nat /\ q \in 1 .. q
        /\ \A i \in 1 .. q : ch[i] \in DOMAIN frames /\ ch[i] # NoFrame
        /\ \A i \in 1 .. q : i > p + 1 => frames[ch[i]].type = "SCRIPT"
        /\ f = At(ch, q) /\ ch \in Seq(Nat)
    BY LoopFacts
  <1>3. frames[ch[p + 1]].type = "FINISH"
    BY DEF Loops
  <1>4. p + 1 \in 1 .. q - 1 /\ q - 1 \in 0 .. Len(ch) /\ q \in 1 .. Len(ch) /\ \A i \in 1 .. q - 1 : i \in 1 .. q
    <2>1. p + 1 # q
      BY <1>3
    <2> QED
      BY <1>2, <2>1
  <1> DEFINE e == At(ch, q - 1)
  <1>5. s = Chain(e)
    <2>1. Chain(f) = Down(ch, q) /\ Chain(e) = Down(ch, q - 1)
      BY <1>2, <1>4, WalkFacts
    <2> QED
      BY <1>2, <1>4, <2>1, TailDown
  <1>6. \A i \in DOMAIN Chain(e) : Chain(e)[i] \in DOMAIN frames
    BY <1>2, <1>4, WalkFacts
  <1>7. I = {i \in DOMAIN Chain(e) : Chain(e)[i] \in X}
    BY <1>5, <1>6
  <1>8. ch[p + 1] \in X /\ \A i \in 1 .. q - 1 : i > p + 1 => ch[i] \notin X
    BY <1>2, <1>3, <1>4
  <1> HIDE DEF I, X, s
  <1>9. Least(Chain(e), I) = ch[p + 1]
    <2> DEFINE k == q - 1
    <2>1. /\ Walk(ch) /\ k \in 0 .. Len(ch) /\ p + 1 \in 1 .. k /\ ch[p + 1] \in X
          /\ I = {i \in DOMAIN Chain(At(ch, k)) : Chain(At(ch, k))[i] \in X}
          /\ \A i \in 1 .. k : i > p + 1 => ch[i] \notin X
      BY <1>2, <1>4, <1>7, <1>8
    <2> DEFINE j == p + 1
    <2> HIDE DEF k, j
    <2>2. /\ Walk(ch) /\ k \in 0 .. Len(ch) /\ j \in 1 .. k /\ ch[j] \in X
          /\ I = {i \in DOMAIN Chain(At(ch, k)) : Chain(At(ch, k))[i] \in X}
          /\ \A i \in 1 .. k : i > j => ch[i] \notin X
      BY <2>1 DEF j
    <2>3. Least(Chain(At(ch, k)), I) = ch[j]
      BY ONLY <2>2, WalkAt
    <2> QED
      BY <2>3 DEF k, j
  <1>10. g = ch[p + 1]
    BY <1>5, <1>9
  <1>11. frames[ch[p + 1]].prev = At(ch, p)
    <2>1. ListGood(frames, pool, ch) /\ p + 1 \in DOMAIN ch /\ (p + 1 = 1 <=> p = 0) /\ p + 1 - 1 = p
      BY <1>2, <1>4 DEF Walk
    <2>2. \A i \in DOMAIN ch : frames[ch[i]].prev = IF i = 1 THEN NoFrame ELSE ch[i - 1]
      BY <2>1 DEF ListGood
    <2> DEFINE j == p + 1
    <2>3. j \in DOMAIN ch /\ (j = 1 <=> p = 0) /\ j - 1 = p
      BY <1>2, <2>1
    <2> HIDE DEF j
    <2>4. frames[ch[j]].prev = IF p = 0 THEN NoFrame ELSE ch[p]
      BY <2>2, <2>3
    <2> QED
      BY <2>4 DEF At, j
  <1> HIDE DEF g
  <1> QED
    BY <1>1, <1>3, <1>10, <1>11

\* The search of a break or a return.
Search(f) == First(Chain(f), LAMBDA h : frames[h].type = "C" \/ h = jump.target)
Finishes(f) == First(Chain(f), LAMBDA h : frames[h].type = "FINISH")

\* The two searches of a break or a return, when its target is below: the target is
\* found among the frames of this mainloop if it is one of them.
LEMMA SearchIs ==
  ASSUME NEW ch, NEW p, NEW q, Loops(ch, p, q), NEW i \in 1 .. q, ch[i] = jump.target
  PROVE  /\ Search(ch[q]) # NoFrame
         /\ i > p => Search(ch[q]) = jump.target
         /\ OnChain(Finishes(ch[q]), jump.target) => i > p
  <1> DEFINE f == ch[q]
             t == jump.target
             X == {g \in DOMAIN frames : frames[g].type = "C" \/ g = t}
             I == {m \in DOMAIN Chain(f) : frames[Chain(f)[m]].type = "C" \/ Chain(f)[m] = t}
             Y == {g \in DOMAIN frames : frames[g].type = "FINISH"}
             J == {m \in DOMAIN Chain(f) : frames[Chain(f)[m]].type = "FINISH"}
  <1>1. Search(f) = Least(Chain(f), I)
    BY Zenon DEF Search, First, Least
  <1>2. Finishes(f) = Least(Chain(f), J)
    BY Zenon DEF Finishes, First, Least
  <1>3. /\ Walk(ch) /\ q \in Nat /\ q \in 0 .. Len(ch) /\ p + 1 \in 1 .. q /\ p \in Nat
        /\ \A m \in 1 .. q : ch[m] \in DOMAIN frames /\ ch[m] # NoFrame
        /\ \A m, j \in 1 .. q : ch[m] = ch[j] => m = j
        /\ \A m \in 1 .. q : m > p + 1 => frames[ch[m]].type = "SCRIPT"
        /\ \A m \in DOMAIN Chain(f) : Chain(f)[m] \in DOMAIN frames
        /\ f = At(ch, q)
    BY LoopFacts
  <1>4. frames[ch[p + 1]].type = "FINISH"
    BY DEF Loops
  <1>5. I = {m \in DOMAIN Chain(f) : Chain(f)[m] \in X} /\ J = {m \in DOMAIN Chain(f) : Chain(f)[m] \in Y}
    BY <1>3
  <1>6. /\ \A m \in 1 .. q : ch[m] \in X <=> frames[ch[m]].type = "C" \/ m = i
        /\ \A m \in 1 .. q : ch[m] \in Y <=> frames[ch[m]].type = "FINISH"
    BY <1>3
  <1> HIDE DEF I, J, X, Y, f
  <1>7. Search(f) # NoFrame
    <2>1. ch[i] \in X
      BY <1>6
    <2>2. /\ Walk(ch) /\ q \in 0 .. Len(ch) /\ i \in 1 .. q /\ ch[i] \in X
          /\ I = {m \in DOMAIN Chain(At(ch, q)) : Chain(At(ch, q))[m] \in X}
      BY <1>3, <1>5, <2>1
    <2>3. Least(Chain(At(ch, q)), I) # NoFrame
      BY ONLY <2>2, WalkSome
    <2> QED
      BY <1>1, <1>3, <2>3
  <1>8. ASSUME i > p PROVE Search(f) = t
    <2>1. \A m \in 1 .. q : m > i => m > p + 1 /\ m # i
      BY <1>3, <1>8
    <2>2. \A m \in 1 .. q : m > i => ch[m] \notin X
      BY <1>3, <1>6, <2>1
    <2>3. ch[i] \in X
      BY <1>6
    <2> HIDE DEF t
    <2>4. Least(Chain(f), I) = ch[i]
      BY <1>3, <1>5, <2>2, <2>3, WalkAt
    <2> QED
      BY <1>1, <2>4 DEF t
  <1>9. Finishes(f) = ch[p + 1]
    <2>1. ch[p + 1] \in Y /\ \A m \in 1 .. q : m > p + 1 => ch[m] \notin Y
      BY <1>3, <1>4, <1>6
    <2> DEFINE j == p + 1
    <2>2. /\ Walk(ch) /\ q \in 0 .. Len(ch) /\ j \in 1 .. q /\ ch[j] \in Y
          /\ J = {m \in DOMAIN Chain(At(ch, q)) : Chain(At(ch, q))[m] \in Y}
          /\ \A m \in 1 .. q : m > j => ch[m] \notin Y
      BY <1>3, <1>5, <2>1
    <2> HIDE DEF j
    <2>3. Least(Chain(At(ch, q)), J) = ch[j]
      BY ONLY <2>2, WalkAt
    <2>4. Least(Chain(f), J) = ch[p + 1]
      BY <1>3, <2>3 DEF j
    <2> QED
      BY <1>2, <2>4
  <1>10. ASSUME OnChain(Finishes(f), t) PROVE i > p
    <2>1. i \in 0 .. Len(ch) /\ At(ch, i) = t /\ \A m \in 1 .. i : m \in 1 .. q
      BY <1>3 DEF At
    <2>2. PICK m \in 1 .. i : ch[m] = ch[p + 1]
      BY <1>3, <1>9, <1>10, <2>1, OnChainIs DEF Walk
    <2>3. m = p + 1
      BY <1>3, <2>1, <2>2
    <2> QED
      BY <1>3, <2>2, <2>3
  <1> QED
    BY <1>7, <1>8, <1>10 DEF f

-----------------------------------------------------------------------------
(* A jump comes to a mainloop.                                             *)

\* The frames that are left when the C frame on top of those of the mainloop is
\* skipped are the first q.
LoopGood(ch, q, pos) ==
    LET b == Last(jmps).act
        cs == SubSeq(cstack, 1, b)
        one == SubSeq(ch, 1, q)
    IN  /\ b \in Nat /\ b >= 2 /\ b \in 1 .. Len(cstack) /\ cs[b] = "loop" /\ CallsGood(cstack, "jump")
        /\ cs \in Seq(Kinds) /\ Len(cs) = b /\ \A d \in 1 .. b : cs[d] = cstack[d]
        /\ Good(frames, pool, funcs, ch) /\ cur = Newest(ch)
        /\ one \in Seq(Nat) /\ Len(one) = q /\ \A i \in 1 .. q : one[i] = ch[i]
        /\ Level(frames, cs, one, pos, b)
        /\ Loops(ch, pos[b - 1], q)
        /\ frames[ch[q]].type = "SCRIPT" /\ skip_c_frame(cur) = ch[q]
        /\ jump = [status |-> jump.status, target |-> jump.target]
        /\ Target(frames, one, jump.status, jump.target)

\* What is known when a longjmp comes to a mainloop: the frames up to its newest script
\* frame are the first q of the list.
LEMMA LoopKnown ==
  ASSUME BufInv, EvalInv, mode = "jump", cstack[Last(jmps).act] = "loop"
  PROVE  \E ch, q, pos : LoopGood(ch, q, pos)
  <1> DEFINE b == Last(jmps).act
             cs == SubSeq(cstack, 1, b)
  <1>1. PICK ch : /\ Good(frames, pool, funcs, ch) /\ cur = Newest(ch)
                  /\ \E pos, T : JumpGood(frames, cstack, jmps, jump, ch, pos, T)
    BY DEF EvalInv, Going
  <1>2. PICK pos0, T : JumpGood(frames, cstack, jmps, jump, ch, pos0, T)
    BY <1>1
  <1>3. CallsGood(cstack, "jump") /\ cstack \in Seq(Kinds) /\ cstack[1] = "main" /\ DOMAIN cstack = 1 .. Len(cstack)
        /\ Len(cstack) \in Nat
    BY DEF EvalInv, Going, CallsGood
  <1>4. b \in DOMAIN cstack /\ cstack[b] = "loop"
    BY DEF BufInv, LiveBuffers, Buf, Last
  <1>5. /\ Level(frames, cstack, ch, pos0, T)
        /\ T = b \/ (T = b + 1 /\ cstack[b] = "loop")
        /\ pos0[b] > 0 /\ frames[ch[pos0[b]]].type = "SCRIPT"
        /\ jump = [status |-> jump.status, target |-> jump.target]
        /\ Target(frames, ch, jump.status, jump.target)
    BY <1>2, <1>4 DEF JumpGood
  <1> DEFINE q == pos0[b]
             p == pos0[b - 1]
             one == SubSeq(ch, 1, q)
  <1> HIDE DEF b
  <1>6. /\ b \in Nat /\ b >= 2 /\ b \in 0 .. Len(cstack) /\ b \in 1 .. Len(cstack) /\ T \in Nat
        /\ b \in 1 .. T /\ b \in 2 .. T /\ b - 1 \in 1 .. T /\ b \in 1 .. b /\ b - 1 \in 1 .. b
        /\ T \in 1 .. T /\ b <= T /\ b - 1 <= b /\ T \in 1 .. Len(cstack)
    <2>1. b # 1
      BY <1>3, <1>4
    <2>2. T \in 1 .. Len(cstack)
      BY <1>3, <1>5 DEF Level
    <2> QED
      BY <1>3, <1>4, <1>5, <2>1, <2>2
  <1>7. /\ pos0 \in [1 .. T -> Nat] /\ pos0[T] = Len(ch) /\ p <= q /\ q <= pos0[T]
        /\ Added(frames, cstack[b], ch, p, q) /\ p \in Nat /\ q \in Nat
    <2>1. /\ pos0 \in [1 .. T -> Nat] /\ pos0[T] = Len(ch)
          /\ \A c, d \in 1 .. T : c <= d => pos0[c] <= pos0[d]
          /\ Added(frames, cstack[b], ch, p, q)
      BY <1>5, <1>6 DEF Level
    <2> QED
      BY <1>6, <2>1
  <1>8. /\ ch \in Seq(Nat) /\ Len(ch) \in Nat /\ DOMAIN ch = 1 .. Len(ch) /\ Walk(ch)
        /\ q \in 1 .. Len(ch) /\ q \in 0 .. Len(ch)
    <2>1. ch \in Seq(Nat) /\ Walk(ch)
      BY <1>1 DEF Good, ListGood, Walk
    <2> HIDE DEF q
    <2>2. q > 0
      BY <1>5 DEF q
    <2> QED
      BY <1>7, <2>1, <2>2
  <1>9. cs \in Seq(Kinds) /\ Len(cs) = b /\ DOMAIN cs = 1 .. b /\ \A d \in 1 .. b : cs[d] = cstack[d]
    BY <1>3, <1>6, CutFacts
  <1>10. one \in Seq(Nat) /\ Len(one) = q /\ DOMAIN one = 1 .. q /\ \A i \in 1 .. q : one[i] = ch[i]
    <2> HIDE DEF q
    <2> QED
      BY <1>8, CutFacts
  <1> HIDE DEF q, p, cs, one
  <1>11. Loops(ch, p, q)
    BY <1>4, <1>7, <1>8 DEF Added, Loops
  <1>12. \A i \in 1 .. Len(ch) : i > q => frames[ch[i]].type = "C"
    <2>1. CASE T = b
      BY <1>7, <1>8, <2>1 DEF q
    <2>2. CASE T = b + 1
      <3>1. T \in 2 .. T /\ T - 1 = b /\ T \in 2 .. Len(cstack) /\ T \in DOMAIN cstack
        BY <1>3, <1>6, <2>2
      <3>2. Added(frames, cstack[T], ch, q, Len(ch))
        BY <1>5, <1>7, <3>1 DEF Level, q
      <3>3. cstack[T] \in CKinds
        BY <1>3, <1>4, <3>1 DEF CallsGood, Follows
      <3>4. CASE cstack[T] \in InstKinds
        BY <1>7, <1>8, <3>2, <3>4 DEF Added, InstKinds
      <3>5. CASE cstack[T] \in NativeKinds
        <4>1. Len(ch) = q + 1 /\ frames[ch[Len(ch)]].type = "C"
          BY <3>2, <3>5 DEF Added
        <4>2. \A i \in 1 .. Len(ch) : i > q => i = Len(ch)
          BY <1>7, <1>8, <4>1
        <4> QED
          BY <4>1, <4>2
      <3> QED
        BY <3>3, <3>4, <3>5 DEF CKinds, NativeKinds, InstKinds
    <2> QED
      BY <1>5, <2>1, <2>2
  <1>13. frames[ch[q]].type = "SCRIPT"
    BY <1>5 DEF q
  <1>14. skip_c_frame(cur) = ch[q]
    <2>1. cur = At(ch, Len(ch)) /\ Len(ch) \in 0 .. Len(ch)
      BY <1>1, <1>8, NewestAt
    <2> DEFINE k == Len(ch)
    <2>2. /\ Walk(ch) /\ k \in 0 .. Len(ch) /\ q \in 1 .. k /\ frames[ch[q]].type # "C"
          /\ \A i \in 1 .. k : i > q => frames[ch[i]].type = "C"
      BY <1>8, <1>12, <1>13, <2>1
    <2> HIDE DEF k
    <2>3. skip_c_frame(At(ch, k)) = ch[q]
      BY <2>2, SkipIs
    <2> QED
      BY <2>1, <2>3 DEF k
  <1>15. PICK pos : Level(frames, cs, one, pos, b) /\ AgreeTo(pos0, pos, b)
    <2>1. /\ b \in 1 .. T /\ Level(frames, cstack, ch, pos0, T) /\ cstack \in Seq(Kinds) /\ cs \in Seq(Kinds)
          /\ ch \in Seq(Nat) /\ one \in Seq(Nat) /\ b \in DOMAIN cs
          /\ \A d \in 1 .. b : cs[d] = cstack[d]
      BY <1>3, <1>5, <1>6, <1>8, <1>9, <1>10
    <2>2. Len(one) = pos0[b] /\ \A i \in 1 .. pos0[b] : frames[one[i]].type = frames[ch[i]].type
      BY <1>10 DEF q
    <2> QED
      BY ONLY <2>1, <2>2, LevelCut
  <1>16. pos[b - 1] = p
    BY <1>6, <1>15 DEF AgreeTo, p
  <1>17. Target(frames, one, jump.status, jump.target)
    <2>1. ASSUME NEW i \in DOMAIN ch, frames[ch[i]].type # "C" PROVE i \in DOMAIN one /\ one[i] = ch[i]
      BY <1>7, <1>8, <1>10, <1>12, <2>1
    <2> QED
      BY <1>5, <2>1 DEF Target
  <1>18. cs[b] = "loop"
    BY <1>4, <1>6, <1>9
  <1>19. LoopGood(ch, q, pos)
    BY <1>1, <1>3, <1>5, <1>6, <1>9, <1>10, <1>11, <1>13, <1>14, <1>15, <1>16, <1>17, <1>18
       DEF LoopGood, b, cs, one
  <1> QED
    BY <1>19

\* The C functions that are left when longjmp came to the mainloop.
LEMMA CallsLeft ==
  ASSUME NEW ch, NEW q, NEW pos, LoopGood(ch, q, pos), NEW md \in Modes
  PROVE  CallsGood(SubSeq(cstack, 1, Last(jmps).act), md)
  <1> DEFINE b == Last(jmps).act
             md0 == "jump"
  <1>1. CallsGood(cstack, md0) /\ b \in 1 .. Len(cstack) /\ SubSeq(cstack, 1, b)[b] = "loop"
        /\ b \in 1 .. b /\ \A d \in 1 .. b : SubSeq(cstack, 1, b)[d] = cstack[d]
    BY DEF LoopGood
  <1>2. cstack[b] \notin {"main", "call"}
    BY <1>1
  <1> HIDE DEF b, md0
  <1>3. CallsGood(SubSeq(cstack, 1, b), md)
    BY <1>1, <1>2, CallsCut
  <1> QED
    BY <1>3 DEF b

\* The jump ends in one of the frames of the mainloop.
LEMMA Landed ==
  ASSUME NEW ch, NEW q, NEW pos, LoopGood(ch, q, pos), Unwind,
         NEW i \in 1 .. q, i > pos[Last(jmps).act - 1], Land(ch[i])
  PROVE  EvalInv'
  <1> DEFINE b == Last(jmps).act
             cs == SubSeq(cstack, 1, b)
             one == SubSeq(ch, 1, q)
             c == SubSeq(ch, 1, i)
             p == pos[b - 1]
             fr2 == frames'
  <1>1. /\ b \in Nat /\ b >= 2 /\ cs[b] = "loop" /\ cs \in Seq(Kinds) /\ Len(cs) = b
        /\ Good(frames, pool, funcs, ch) /\ cur = Newest(ch) /\ Level(frames, cs, one, pos, b)
        /\ Loops(ch, p, q)
        /\ one \in Seq(Nat) /\ Len(one) = q /\ \A m \in 1 .. q : one[m] = ch[m]
    BY DEF LoopGood
  <1>2. cstack' = cs /\ mode' = "run" /\ pool' = pool /\ funcs' = funcs /\ CutTo(ch[i])
    BY DEF Unwind, Land
  <1>3. CallsGood(cs, "run")
    <2> DEFINE md == "run"
    <2>1. md \in Modes
      BY DEF Modes
    <2> HIDE DEF md
    <2>2. CallsGood(SubSeq(cstack, 1, Last(jmps).act), md)
      BY <2>1, CallsLeft
    <2> QED
      BY <2>2 DEF md
  <1> HIDE DEF b, cs, one, p
  <1>4. /\ q \in Nat /\ q \in 0 .. Len(ch) /\ p \in Nat /\ ch \in Seq(Nat) /\ q \in 1 .. q
        /\ \A m \in 1 .. q : m > p + 1 => frames[ch[m]].type = "SCRIPT"
    BY <1>1, LoopFacts
  <1>5. i \in 0 .. Len(ch) /\ i \in Nat /\ i > p /\ i <= q /\ At(ch, i) = ch[i] /\ Len(ch) \in Nat
    BY <1>4 DEF At, p, b
  <1>6. /\ Good(fr2, pool', funcs', c) /\ cur' = At(ch, i)
        /\ \A g \in DOMAIN frames : fr2[g].type = frames[g].type
    BY <1>1, <1>2, <1>5, CutIs
  <1>7. Newest(c) = At(ch, i)
    BY <1>4, <1>5, CutNewest
  <1>8. Begins(frames, fr2, ch, c, i)
    <2>1. ListGood(frames, pool, ch)
      BY <1>1 DEF Good
    <2> HIDE DEF fr2
    <2> QED
      BY <1>5, <1>6, <2>1, CutList
  <1> HIDE DEF fr2, c
  <1>9. /\ c \in Seq(Nat) /\ Len(c) = i
        /\ \A m \in 1 .. i : c[m] = ch[m] /\ fr2[c[m]].type = frames[ch[m]].type
    BY <1>8 DEF Begins
  <1>10. \E pos2 : Level(fr2, cs, c, pos2, b)
    <2>1. \A m \in 1 .. p + 1 : m \in 1 .. i /\ m \in 1 .. q
      BY <1>4, <1>5
    <2>2. \A m \in 1 .. p + 1 : fr2[c[m]].type = frames[one[m]].type
      BY <1>1, <1>9, <2>1
    <2>3. \A m \in p + 2 .. Len(c) : m \in 1 .. i /\ m \in 1 .. q /\ m > p + 1
      <3>1. Len(c) = i /\ p \in Nat /\ q \in Nat /\ i \in Nat /\ i <= q
        BY <1>4, <1>5, <1>9
      <3>2. \A m \in p + 2 .. i : m \in 1 .. i /\ m \in 1 .. q /\ m > p + 1
        BY <3>1
      <3> QED
        BY <3>1, <3>2
    <2>4. \A m \in p + 2 .. Len(c) : fr2[c[m]].type = "SCRIPT"
      BY <1>4, <1>9, <2>3
    <2>5. /\ Level(frames, cs, one, pos, b) /\ b >= 2 /\ cs[b] = "loop" /\ cs \in Seq(Kinds)
          /\ one \in Seq(Nat) /\ c \in Seq(Nat) /\ b \in DOMAIN cs /\ \A d \in 1 .. b : cs[d] = cs[d]
          /\ Len(c) > pos[b - 1]
      BY <1>1, <1>4, <1>5, <1>9 DEF p
    <2>6. /\ \A m \in 1 .. pos[b - 1] + 1 : fr2[c[m]].type = frames[one[m]].type
          /\ \A m \in pos[b - 1] + 2 .. Len(c) : fr2[c[m]].type = "SCRIPT"
      BY <2>2, <2>4 DEF p
    <2> QED
      BY ONLY <2>5, <2>6, LevelLoop
  <1>11. \E pos2 : Level(frames', cstack', c, pos2, Len(cstack'))
    BY <1>1, <1>2, <1>10 DEF fr2
  <1> QED
    BY <1>2, <1>3, <1>6, <1>7, <1>11, RunShown DEF fr2, c, cs

\* The buffer below the newest one is that of the next activation that has one.
LEMMA NextBuffer ==
  ASSUME BufInv, mode # "swallowed", NEW d, d \in DOMAIN cstack, HasBuffer(cstack[d]), d < Last(jmps).act,
         \A e \in DOMAIN cstack : d < e /\ e < Last(jmps).act => ~HasBuffer(cstack[e])
  PROVE  Last(Front(jmps)).act = d
  <1> DEFINE b == Last(jmps).act
             n == Len(jmps)
  <1>1. /\ jmps \in Seq(Buffers) /\ jmps # <<>> /\ n \in Nat /\ n \in DOMAIN jmps /\ DOMAIN jmps = 1 .. n
        /\ b = jmps[n].act /\ cstack \in Seq(Kinds)
        /\ \A i \in DOMAIN jmps : jmps[i].act \in DOMAIN cstack /\ HasBuffer(cstack[jmps[i].act])
        /\ \A i, j \in DOMAIN jmps : i < j => jmps[i].act < jmps[j].act
        /\ (\E i \in DOMAIN jmps : jmps[i].act = d) \/ d > b
    BY DEF BufInv, LiveBuffers, Buf, Last
  <1>2. \A i \in DOMAIN jmps : jmps[i].act \in Nat
    BY <1>1, SMTT(30) DEF Buffers
  <1>3. d \in Nat /\ d < b
    BY <1>1
  <1> HIDE DEF b, n
  <1>4. PICK i \in DOMAIN jmps : jmps[i].act = d
    BY <1>1, <1>2, <1>3
  <1>5. i # n
    BY <1>1, <1>3, <1>4
  <1>6. n - 1 \in DOMAIN jmps /\ n - 1 < n /\ (i = n - 1 \/ i < n - 1)
    <2>1. n \in Nat /\ DOMAIN jmps = 1 .. n /\ i \in 1 .. n
      BY <1>1
    <2> QED
      BY ONLY <1>5, <2>1
  <1>7. jmps[n - 1].act < b /\ jmps[n - 1].act \in Nat /\ (jmps[n - 1].act = d \/ d < jmps[n - 1].act)
    BY <1>1, <1>2, <1>4, <1>6
  <1>8. jmps[n - 1].act = d
    BY <1>1, <1>6, <1>7 DEF b
  <1> DEFINE k == Front(jmps)
  <1>9. k \in Seq(Buffers) /\ Len(k) = n - 1 /\ \A j \in 1 .. n - 1 : k[j] = jmps[j]
    BY <1>1, FrontFacts DEF n
  <1> HIDE DEF k
  <1>10. Last(k) = jmps[n - 1]
    <2>1. n - 1 \in 1 .. n - 1
      BY <1>1, <1>6
    <2> QED
      BY <1>9, <2>1 DEF Last
  <1> QED
    BY <1>8, <1>10 DEF k

\* The jump goes on to the activation with the next buffer: t is the depth of it, or
\* of the C code that it called.
LEMMA PassedTo ==
  ASSUME NEW ch, NEW q, NEW pos, LoopGood(ch, q, pos), Unwind, PassOn(ch[q]), mode = "jump",
         \A i \in 1 .. q : i > pos[Last(jmps).act - 1] => ch[i] # jump.target,
         NEW t, t \in 1 .. Last(jmps).act - 1, pos[t] = pos[Last(jmps).act - 1],
         NEW n, n = Last(Front(jmps)).act, n \in 1 .. t,
         t = n \/ (t = n + 1 /\ cstack[n] = "loop"),
         cstack[n] = "loop" => pos[n] > 0 /\ frames[ch[pos[n]]].type = "SCRIPT"
  PROVE  EvalInv'
  <1> DEFINE b == Last(jmps).act
             cs == SubSeq(cstack, 1, b)
             one == SubSeq(ch, 1, q)
             p == pos[b - 1]
             c == SubSeq(ch, 1, p)
             fr2 == frames'
             js == Front(jmps)
  <1>1. /\ b \in Nat /\ b >= 2 /\ cs[b] = "loop" /\ cs \in Seq(Kinds) /\ Len(cs) = b
        /\ \A d \in 1 .. b : cs[d] = cstack[d]
        /\ Good(frames, pool, funcs, ch) /\ cur = Newest(ch) /\ Level(frames, cs, one, pos, b)
        /\ Loops(ch, p, q) /\ frames[ch[q]].type = "SCRIPT"
        /\ one \in Seq(Nat) /\ Len(one) = q /\ \A m \in 1 .. q : one[m] = ch[m]
        /\ jump = [status |-> jump.status, target |-> jump.target]
        /\ Target(frames, one, jump.status, jump.target)
    BY DEF LoopGood
  <1>2. /\ cstack' = cs /\ mode' = "jump" /\ jump' = jump /\ jmps' = js /\ pool' = pool /\ funcs' = funcs
        /\ CutTo(skip_to_c_frame(ch[q]))
    BY DEF Unwind, PassOn
  <1>3. CallsGood(cs, "jump")
    <2> DEFINE md == "jump"
    <2>1. md \in Modes
      BY DEF Modes
    <2> HIDE DEF md
    <2>2. CallsGood(SubSeq(cstack, 1, Last(jmps).act), md)
      BY <2>1, CallsLeft
    <2> QED
      BY <2>2 DEF md
  <1> HIDE DEF b, cs, one, p, js
  <1>4. /\ q \in Nat /\ q \in 0 .. Len(ch) /\ p \in Nat /\ p \in 0 .. Len(ch) /\ ch \in Seq(Nat) /\ p + 1 \in 1 .. q
        /\ p < q
    BY <1>1, LoopFacts DEF Loops
  <1>5. skip_to_c_frame(ch[q]) = At(ch, p)
    BY <1>1, SkipToCIs
  <1>6. /\ Good(fr2, pool', funcs', c) /\ cur' = At(ch, p)
        /\ \A g \in DOMAIN frames : fr2[g].type = frames[g].type
    BY <1>1, <1>2, <1>4, <1>5, CutIs
  <1>7. Newest(c) = At(ch, p)
    BY <1>4, CutNewest
  <1>8. Begins(frames, fr2, ch, c, p)
    <2>1. ListGood(frames, pool, ch)
      BY <1>1 DEF Good
    <2> HIDE DEF fr2
    <2> QED
      BY <1>4, <1>6, <2>1, CutList
  <1> HIDE DEF fr2, c
  <1>9. /\ c \in Seq(Nat) /\ Len(c) = p /\ DOMAIN c = 1 .. p
        /\ \A m \in 1 .. p : c[m] = ch[m] /\ fr2[c[m]].type = frames[ch[m]].type
    BY <1>8 DEF Begins
  <1>10. t \in Nat /\ t \in 1 .. b /\ t \in DOMAIN cs /\ t \in 1 .. t /\ n \in 1 .. b /\ n \in 1 .. t /\ n <= t
         /\ pos[t] = p /\ \A d \in 1 .. t : d \in 1 .. b
    <2>1. t \in 1 .. b - 1
      BY DEF b
    <2> QED
      BY <1>1, <2>1 DEF p, b
  <1>11. \A m \in 1 .. p : m \in 1 .. q
    BY <1>4
  <1>12. PICK pos2 : Level(fr2, cs, c, pos2, t) /\ AgreeTo(pos, pos2, t)
    <2>1. /\ t \in 1 .. b /\ Level(frames, cs, one, pos, b) /\ cs \in Seq(Kinds)
          /\ one \in Seq(Nat) /\ c \in Seq(Nat) /\ t \in DOMAIN cs
          /\ \A d \in 1 .. t : cs[d] = cs[d]
      BY <1>1, <1>9, <1>10
    <2>2. Len(c) = pos[t] /\ \A i \in 1 .. pos[t] : fr2[c[i]].type = frames[one[i]].type
      <3>1. Len(c) = p /\ pos[t] = p
        BY <1>9, <1>10
      <3>2. \A i \in 1 .. p : one[i] = ch[i]
        BY <1>1, <1>11
      <3>3. \A i \in 1 .. p : fr2[c[i]].type = frames[one[i]].type
        BY <1>9, <3>2
      <3> QED
        BY <3>1, <3>3
    <2> QED
      BY ONLY <2>1, <2>2, LevelCut
  <1>13. cs[n] = cstack[n] /\ pos2[n] = pos[n] /\ pos[n] <= p /\ pos[n] \in Nat
    <2>1. /\ pos \in [1 .. b -> Nat] /\ \A d, e \in 1 .. b : d <= e => pos[d] <= pos[e]
      BY <1>1 DEF Level
    <2> QED
      BY <1>1, <1>10, <1>12, <2>1 DEF AgreeTo
  <1>14. cs[n] = "loop" => pos2[n] > 0 /\ fr2[c[pos2[n]]].type = "SCRIPT"
    <2>1. ASSUME cstack[n] = "loop" PROVE pos[n] > 0 /\ fr2[c[pos[n]]].type = "SCRIPT"
      <3>1. pos[n] > 0 /\ frames[ch[pos[n]]].type = "SCRIPT"
        BY <2>1
      <3>2. pos[n] \in 1 .. p
        BY <1>4, <1>13, <3>1
      <3> QED
        BY <1>9, <3>1, <3>2
    <2> QED
      BY <1>13, <2>1
  <1>15. Target(fr2, c, jump.status, jump.target)
    <2>1. ASSUME NEW i \in DOMAIN one, one[i] = jump.target
          PROVE  i \in DOMAIN c /\ c[i] = one[i] /\ fr2[c[i]].type = frames[one[i]].type
      <3>1. i \in 1 .. q /\ one[i] = ch[i]
        BY <1>1
      <3>2. ~(i > p)
        BY <2>1, <3>1 DEF p, b
      <3>3. i \in 1 .. p
        BY <1>4, <3>1, <3>2
      <3> QED
        BY <1>9, <3>1, <3>3
    <2> QED
      BY <1>1, <2>1, SMTT(30) DEF Target
  <1>16. Last(js).act = n
    BY DEF js
  <1>17. t = n \/ (t = n + 1 /\ cs[n] = "loop")
    BY <1>13
  <1>18. JumpGood(fr2, cs, js, jump, c, pos2, t)
    BY <1>1, <1>12, <1>14, <1>15, <1>16, <1>17 DEF JumpGood
  <1> QED
    BY <1>2, <1>3, <1>6, <1>7, <1>18 DEF EvalInv, Going, fr2

\* A mainloop that has no frame for the jump takes its buffer off and jumps on.
LEMMA PassedOn ==
  ASSUME BufInv, NEW ch, NEW q, NEW pos, LoopGood(ch, q, pos), Unwind, PassOn(ch[q]), mode = "jump",
         \A i \in 1 .. q : i > pos[Last(jmps).act - 1] => ch[i] # jump.target
  PROVE  EvalInv'
  <1> DEFINE b == Last(jmps).act
             cs == SubSeq(cstack, 1, b)
             one == SubSeq(ch, 1, q)
             p == pos[b - 1]
  <1>1. /\ b \in Nat /\ b >= 2 /\ b \in 1 .. Len(cstack) /\ cs[b] = "loop" /\ CallsGood(cstack, "jump")
        /\ \A d \in 1 .. b : cs[d] = cstack[d]
        /\ Level(frames, cs, one, pos, b) /\ Loops(ch, p, q) /\ \A m \in 1 .. q : one[m] = ch[m]
        /\ Len(one) = q
    BY DEF LoopGood
  <1>2. /\ cstack \in Seq(Kinds) /\ Len(cstack) \in Nat /\ DOMAIN cstack = 1 .. Len(cstack) /\ cstack[1] = "main"
        /\ \A d \in 2 .. Len(cstack) : cstack[d] \in Follows(cstack[d - 1]) /\ cstack[d] \in Kinds
    BY <1>1 DEF CallsGood
  <1> HIDE DEF b, cs, one, p
  <1>3. /\ \A d \in 1 .. b : d \in DOMAIN cstack /\ (d > 1 => d \in 2 .. Len(cstack)) /\ d \in Nat
        /\ b \in 1 .. b /\ b - 1 \in 1 .. b /\ b - 1 \in 1 .. b - 1
    BY <1>1, <1>2
  <1>4. \A d \in 1 .. b : cstack[d] = "main" => d = 1
    <2>1. \A d \in 1 .. b : d > 1 => cstack[d] # "main"
      BY <1>2, <1>3 DEF Follows, CKinds
    <2> QED
      BY <1>3, <2>1
  <1>5. cstack[b] = "loop" /\ cstack[b - 1] \in {"main", "call"}
    <2>1. cstack[b] = "loop" /\ cstack[b] \in Follows(cstack[b - 1])
      BY <1>1, <1>2, <1>3
    <2>2. cstack[b - 1] \in Kinds
      BY <1>2, <1>3
    <2> QED
      BY <2>1, <2>2 DEF Follows, Kinds, CKinds
  <1>6. /\ pos \in [1 .. b -> Nat] /\ pos[1] = 0 /\ pos[b - 1] = p /\ pos[b] = q
        /\ \A d, e \in 1 .. b : d <= e => pos[d] <= pos[e]
        /\ \A d \in 2 .. b : Added(frames, cs[d], one, pos[d - 1], pos[d])
    BY <1>1 DEF Level, p
  <1>7. CASE cstack[b - 1] = "main"
    <2>1. b - 1 = 1 /\ b = 2
      BY <1>1, <1>3, <1>4, <1>7
    <2>2. \A e \in DOMAIN cstack : ~(1 < e /\ e < b)
      BY <1>2, <2>1
    <2>3. Last(Front(jmps)).act = 1
      <3>1. 1 \in DOMAIN cstack /\ HasBuffer(cstack[1]) /\ 1 < b
        BY <1>2, <1>3, <2>1 DEF HasBuffer
      <3> QED
        BY <2>2, <3>1, NextBuffer DEF b
    <2> DEFINE t == b - 1
               n == Last(Front(jmps)).act
    <2>4. /\ t \in 1 .. Last(jmps).act - 1 /\ pos[t] = pos[Last(jmps).act - 1]
          /\ n \in 1 .. t /\ t = n /\ cstack[n] # "loop"
      BY <1>2, <1>3, <2>1, <2>3 DEF b
    <2> HIDE DEF t
    <2> QED
      BY <2>4, PassedTo
  <1>8. CASE cstack[b - 1] = "call"
    <2>1. b - 1 # 1 /\ b # 2
      BY <1>2, <1>8
    <2>2. /\ b - 1 \in 2 .. Len(cstack) /\ b - 1 \in 2 .. b /\ b - 2 \in 1 .. b /\ b - 1 - 1 = b - 2
          /\ b - 2 \in 1 .. b - 1
      BY <1>1, <1>2, <2>1
    <2>3. cstack[b - 2] \in CKinds
      <3>1. "call" \in Follows(cstack[b - 2])
        BY <1>2, <1>8, <2>2
      <3>2. cstack[b - 2] \in Kinds
        BY <1>2, <1>3, <2>2
      <3> QED
        BY <3>1, <3>2 DEF Follows, Kinds, CKinds
    <2>4. b - 2 # 1
      BY <1>2, <2>3 DEF Kinds, CKinds
    <2>5. /\ b - 2 \in 2 .. Len(cstack) /\ b - 2 \in 2 .. b /\ b - 3 \in 1 .. b /\ b - 2 - 1 = b - 3
          /\ b - 3 \in 1 .. b - 2 /\ b - 3 + 1 = b - 2
      BY <1>1, <1>2, <2>2, <2>4
    <2>6. cstack[b - 3] = "loop"
      <3>1. cstack[b - 2] \in Follows(cstack[b - 3])
        BY <1>2, <2>5
      <3>2. cstack[b - 3] \in Kinds
        BY <1>2, <1>3, <2>5
      <3> QED
        BY <2>3, <3>1, <3>2 DEF Follows, Kinds, CKinds
    <2>7. pos[b - 2] = pos[b - 1]
      <3>1. Added(frames, cs[b - 1], one, pos[b - 2], pos[b - 1]) /\ cs[b - 1] = "call"
        BY <1>1, <1>3, <1>6, <1>8, <2>2
      <3> QED
        BY <3>1 DEF Added
    <2>8. \A e \in DOMAIN cstack : e < b => e = b - 1 \/ e = b - 2 \/ e <= b - 3
      BY <1>1, <1>2
    <2>9. ~HasBuffer(cstack[b - 1])
      BY <1>8 DEF HasBuffer
    <2> DEFINE t == b - 2
               n == Last(Front(jmps)).act
    <2>10. t \in 1 .. Last(jmps).act - 1 /\ pos[t] = pos[Last(jmps).act - 1]
      BY <2>2, <2>7 DEF b
    <2>11. CASE cstack[b - 2] \in Guards
      <3>1. n = b - 2
        <4> DEFINE d == b - 2
        <4>1. d \in DOMAIN cstack /\ HasBuffer(cstack[d]) /\ d < b
          BY <1>1, <1>3, <2>2, <2>11 DEF HasBuffer, Guards, CKinds
        <4>2. \A e \in DOMAIN cstack : d < e /\ e < b => ~HasBuffer(cstack[e])
          BY <1>1, <1>2, <2>8, <2>9
        <4> HIDE DEF d
        <4> QED
          BY <4>1, <4>2, NextBuffer DEF b, d
      <3>2. n \in 1 .. t /\ t = n /\ cstack[n] # "loop"
        BY <2>5, <2>11, <3>1 DEF Guards
      <3> HIDE DEF t
      <3> QED
        BY <2>10, <3>2, PassedTo
    <2>12. CASE cstack[b - 2] \in {"native", "inst"}
      <3>1. n = b - 3
        <4> DEFINE d == b - 3
        <4>1. d \in DOMAIN cstack /\ HasBuffer(cstack[d]) /\ d < b
          BY <1>1, <1>3, <2>5, <2>6 DEF HasBuffer
        <4>2. \A e \in DOMAIN cstack : d < e /\ e < b => ~HasBuffer(cstack[e])
          BY <1>1, <1>2, <2>8, <2>9, <2>12 DEF HasBuffer
        <4> HIDE DEF d
        <4> QED
          BY <4>1, <4>2, NextBuffer DEF b, d
      <3>2. n \in 1 .. t /\ t = n + 1 /\ cstack[n] = "loop"
        BY <2>5, <2>6, <3>1
      <3>3. pos[n] > 0 /\ frames[ch[pos[n]]].type = "SCRIPT"
        <4>1. Added(frames, cs[b - 2], one, pos[b - 3], pos[b - 2]) /\ cs[b - 2] = cstack[b - 2]
          BY <1>1, <1>6, <2>2, <2>5
        <4>2. pos[b - 3] > 0 /\ frames[one[pos[b - 3]]].type = "SCRIPT"
          BY <2>12, <4>1 DEF Added, CKinds, NativeKinds, InstKinds
        <4>3. pos[b - 3] <= q /\ pos[b - 3] \in Nat /\ q \in Nat
          BY <1>3, <1>6, <2>5
        <4>4. one[pos[b - 3]] = ch[pos[b - 3]]
          BY <1>1, <4>2, <4>3
        <4> QED
          BY <3>1, <4>2, <4>4
      <3> HIDE DEF t
      <3> QED
        BY <2>10, <3>2, <3>3, PassedTo
    <2> QED
      BY <2>3, <2>11, <2>12 DEF CKinds, Guards
  <1> QED
    BY <1>5, <1>7, <1>8

\* An exception comes to a mainloop, which looks for a handler in its own frames
\* (rollback_frames) and passes the exception on when there is none.
LEMMA EvalLandRaise ==
  ASSUME BufInv, EvalInv, LandRaise
  PROVE  EvalInv'
  <1> DEFINE f == skip_c_frame(cur)
             h == rollback_frames(f)
  <1>1. /\ mode = "jump" /\ cstack[Last(jmps).act] = "loop" /\ Unwind /\ jump.status = "RAISE"
        /\ IF h = NoFrame THEN PassOn(f) ELSE Land(h)
    BY DEF LandRaise, Landing
  <1>2. PICK ch, q, pos : LoopGood(ch, q, pos)
    BY <1>1, LoopKnown
  <1> DEFINE p == pos[Last(jmps).act - 1]
  <1>3. /\ f = ch[q] /\ Loops(ch, p, q) /\ Target(frames, SubSeq(ch, 1, q), jump.status, jump.target)
        /\ Len(SubSeq(ch, 1, q)) = q
    BY <1>2 DEF LoopGood
  <1>4. jump.target # NoFrame => frames[jump.target].type = "SCRIPT"
    BY <1>1, <1>3 DEF Target
  <1>5. p \in Nat /\ q \in Nat
    BY <1>3, LoopFacts
  <1> HIDE DEF f, p
  <1>6. /\ h # NoFrame => h = jump.target /\ \E i \in p + 1 .. q : ch[i] = h
        /\ h = NoFrame => \A i \in p + 1 .. q : ch[i] # jump.target
    BY <1>3, <1>4, RollbackIs
  <1> HIDE DEF h
  <1>7. CASE h = NoFrame
    <2>1. \A i \in 1 .. q : i > p => i \in p + 1 .. q
      BY <1>5
    <2>2. \A i \in 1 .. q : i > p => ch[i] # jump.target
      BY <1>6, <1>7, <2>1
    <2>3. PassOn(ch[q])
      BY <1>1, <1>3, <1>7
    <2> QED
      BY <1>1, <1>2, <2>2, <2>3, PassedOn DEF p
  <1>8. CASE h # NoFrame
    <2>1. PICK i \in p + 1 .. q : ch[i] = h
      BY <1>6, <1>8
    <2>2. i \in 1 .. q /\ i > p
      BY <1>5
    <2>3. Land(ch[i])
      BY <1>1, <1>8, <2>1
    <2> QED
      BY <1>1, <1>2, <2>2, <2>3, Landed DEF p
  <1> QED
    BY <1>7, <1>8

\* A break or a return comes to a mainloop: it ends at its target among the frames of
\* this mainloop, or crosses a finish frame that stands on a script frame, or goes on.
LEMMA LandJumpIs ==
  ASSUME BufInv, EvalInv, LandJump
  PROVE  \E ch, q, pos :
           /\ LoopGood(ch, q, pos) /\ mode = "jump" /\ Unwind
           /\ \/ Land(jump.target)
                 /\ \E i \in 1 .. q : i > pos[Last(jmps).act - 1] /\ ch[i] = jump.target
              \/ /\ mode' = "crossed"
                 /\ UNCHANGED <<frames, cur, pool, jmps, funcs, jump>>
              \/ /\ PassOn(ch[q])
                 /\ \A i \in 1 .. q : i > pos[Last(jmps).act - 1] => ch[i] # jump.target
  <1> DEFINE f == skip_c_frame(cur)
             g == Search(f)
             finish == Finishes(f)
             t == jump.target
  <1>1. /\ mode = "jump" /\ cstack[Last(jmps).act] = "loop" /\ Unwind /\ jump.status # "RAISE"
    BY DEF LandJump, Landing
  <1>2. (CASE g = NoFrame ->
                  /\ \E h \in Handlers : jump' = [status |-> "RAISE", target |-> h]
                  /\ UNCHANGED <<frames, cur, pool, jmps, funcs, mode>>
           [] g = t /\ OnChain(finish, g) -> Land(g)
           [] g = t /\ ~OnChain(finish, g) ->
                  /\ mode' = "crossed"
                  /\ UNCHANGED <<frames, cur, pool, jmps, funcs, jump>>
           [] OTHER -> PassOn(f))
    BY Zenon DEF LandJump, Search, Finishes
  <1>3. PICK ch, q, pos : LoopGood(ch, q, pos)
    BY <1>1, LoopKnown
  <1> DEFINE p == pos[Last(jmps).act - 1]
             one == SubSeq(ch, 1, q)
  <1>4. /\ f = ch[q] /\ Loops(ch, p, q) /\ Target(frames, one, jump.status, t)
        /\ Len(one) = q /\ one \in Seq(Nat) /\ \A i \in 1 .. q : one[i] = ch[i]
    BY <1>3 DEF LoopGood
  <1> HIDE DEF f, p, one
  <1>5. PICK i \in 1 .. q : ch[i] = t
    BY <1>1, <1>4 DEF Target
  <1>6. /\ g # NoFrame /\ (i > p => g = t)
        /\ OnChain(finish, t) => i > p
    BY <1>4, <1>5, SearchIs
  <1>7. \A j \in 1 .. q : ch[j] = t => j = i
    BY <1>4, <1>5, LoopFacts
  <1> HIDE DEF g, finish
  <1>8. CASE g = t /\ OnChain(finish, g)
    <2>1. Land(t) /\ i > p
      BY <1>2, <1>6, <1>8
    <2> QED
      BY <1>1, <1>3, <1>5, <2>1 DEF p
  <1>9. CASE g = t /\ ~OnChain(finish, g)
    BY <1>1, <1>2, <1>3, <1>6, <1>9
  <1>10. CASE g # t
    <2>1. PassOn(ch[q]) /\ \A j \in 1 .. q : j > p => ch[j] # t
      BY <1>2, <1>4, <1>6, <1>7, <1>10
    <2> QED
      BY <1>1, <1>3, <2>1 DEF p
  <1> QED
    BY <1>8, <1>9, <1>10

\* Each of the three keeps the invariant.
LEMMA EvalLandJump ==
  ASSUME BufInv, EvalInv, LandJump
  PROVE  EvalInv'
  <1>1. PICK ch, q, pos :
           /\ LoopGood(ch, q, pos) /\ mode = "jump" /\ Unwind
           /\ \/ Land(jump.target)
                 /\ \E i \in 1 .. q : i > pos[Last(jmps).act - 1] /\ ch[i] = jump.target
              \/ /\ mode' = "crossed"
                 /\ UNCHANGED <<frames, cur, pool, jmps, funcs, jump>>
              \/ /\ PassOn(ch[q])
                 /\ \A i \in 1 .. q : i > pos[Last(jmps).act - 1] => ch[i] # jump.target
    BY LandJumpIs
  <1>2. CASE Land(jump.target) /\ \E i \in 1 .. q : i > pos[Last(jmps).act - 1] /\ ch[i] = jump.target
    BY <1>1, <1>2, Landed
  <1>3. CASE mode' = "crossed" /\ UNCHANGED <<frames, cur, pool, jmps, funcs, jump>>
    <2> DEFINE md == "crossed"
    <2>1. md \in Modes
      BY DEF Modes
    <2> HIDE DEF md
    <2>2. CallsGood(SubSeq(cstack, 1, Last(jmps).act), md)
      BY <1>1, <2>1, CallsLeft
    <2>3. Good(frames, pool, funcs, ch) /\ cur = Newest(ch) /\ cstack' = SubSeq(cstack, 1, Last(jmps).act)
      BY <1>1 DEF LoopGood, Unwind
    <2> QED
      BY <1>3, <2>2, <2>3 DEF EvalInv, Going, md
  <1>4. CASE PassOn(ch[q]) /\ \A i \in 1 .. q : i > pos[Last(jmps).act - 1] => ch[i] # jump.target
    BY <1>1, <1>4, PassedOn
  <1> QED
    BY <1>1, <1>2, <1>3, <1>4

\* A guard catches the jump or passes it on.
LEMMA EvalLandGuard ==
  ASSUME BufInv, EvalInv, LandGuard
  PROVE  EvalInv'
  <1> DEFINE b == Last(jmps).act
             cs == SubSeq(cstack, 1, b)
             js == Front(jmps)
  <1>1. /\ mode = "jump" /\ cstack[b] = "guard" /\ cstack' = cs /\ jmps' = js
        /\ UNCHANGED <<frames, cur, pool, funcs, mode, jump>>
    BY DEF LandGuard, Landing, Unwind
  <1>2. PICK ch : /\ Good(frames, pool, funcs, ch) /\ cur = Newest(ch)
                  /\ \E pos, T : JumpGood(frames, cstack, jmps, jump, ch, pos, T)
    BY <1>1 DEF EvalInv, Going
  <1>3. PICK pos, T : JumpGood(frames, cstack, jmps, jump, ch, pos, T)
    BY <1>2
  <1>4. /\ CallsGood(cstack, "jump") /\ cstack \in Seq(Kinds) /\ cstack[1] = "main"
        /\ DOMAIN cstack = 1 .. Len(cstack) /\ Len(cstack) \in Nat
        /\ \A d \in 2 .. Len(cstack) : cstack[d] \in Follows(cstack[d - 1])
    BY <1>1 DEF EvalInv, Going, CallsGood
  <1>5. b \in DOMAIN cstack
    BY <1>1 DEF BufInv, LiveBuffers, Buf, Last
  <1>6. /\ Level(frames, cstack, ch, pos, b) /\ T = b
        /\ jump = [status |-> jump.status, target |-> jump.target]
        /\ Target(frames, ch, jump.status, jump.target)
    BY <1>1, <1>3 DEF JumpGood
  <1> HIDE DEF b
  <1>7. /\ b \in Nat /\ b \in 1 .. Len(cstack) /\ b \in 0 .. Len(cstack) /\ b \in 1 .. b
        /\ b \in 2 .. Len(cstack) /\ b - 1 \in 1 .. b /\ b - 1 \in DOMAIN cstack /\ b \in 2 .. b
        /\ b - 1 + 1 = b
    <2>1. b # 1
      BY <1>1, <1>4
    <2> QED
      BY <1>4, <1>5, <2>1
  <1>8. cs \in Seq(Kinds) /\ Len(cs) = b /\ DOMAIN cs = 1 .. b /\ \A d \in 1 .. b : cs[d] = cstack[d]
    BY <1>4, <1>7, CutFacts
  <1>9. cstack[b - 1] = "loop"
    <2>1. cstack[b] \in Follows(cstack[b - 1]) /\ cstack[b - 1] \in Kinds
      BY <1>4, <1>7
    <2> QED
      BY <1>1, <2>1 DEF Follows, Kinds, CKinds
  <1>10. Last(js).act = b - 1
    <2> DEFINE d == b - 1
    <2>1. d \in DOMAIN cstack /\ HasBuffer(cstack[d]) /\ d < b
      BY <1>7, <1>9 DEF HasBuffer
    <2>2. \A e \in DOMAIN cstack : ~(d < e /\ e < b)
      BY <1>4, <1>7
    <2> HIDE DEF d, js
    <2>3. Last(Front(jmps)).act = d
      BY <1>1, <2>1, <2>2, NextBuffer DEF b
    <2> QED
      BY <2>3 DEF d, js
  <1>11. CallsGood(cs, "jump")
    <2> DEFINE md == "jump"
    <2>1. CallsGood(cstack, md) /\ md \in Modes /\ md # "run"
      BY <1>4 DEF Modes
    <2> HIDE DEF md
    <2>2. CallsGood(SubSeq(cstack, 1, b), md)
      BY <1>7, <2>1, CallsCut
    <2> QED
      BY <2>2 DEF md
  <1> HIDE DEF cs, js
  <1>12. PICK pos2 : Level(frames, cs, ch, pos2, b) /\ AgreeTo(pos, pos2, b)
    <2>1. /\ b \in 1 .. b /\ Level(frames, cstack, ch, pos, b) /\ cstack \in Seq(Kinds) /\ cs \in Seq(Kinds)
          /\ ch \in Seq(Nat) /\ b \in DOMAIN cs
          /\ \A d \in 1 .. b : cs[d] = cstack[d]
      BY <1>2, <1>4, <1>6, <1>7, <1>8 DEF Good, ListGood
    <2>2. Len(ch) = pos[b] /\ \A i \in 1 .. pos[b] : frames[ch[i]].type = frames[ch[i]].type
      BY <1>6 DEF Level
    <2> QED
      BY ONLY <2>1, <2>2, LevelCut
  <1>13. pos2[b - 1] > 0 /\ frames[ch[pos2[b - 1]]].type = "SCRIPT"
    <2>1. Added(frames, cs[b], ch, pos2[b - 1], pos2[b])
      BY <1>7, <1>12 DEF Level
    <2> QED
      BY <1>1, <1>7, <1>8, <2>1 DEF Added, CKinds, NativeKinds, InstKinds
  <1>14. JumpGood(frames, cs, js, jump, ch, pos2, b)
    BY <1>6, <1>7, <1>8, <1>9, <1>10, <1>12, <1>13 DEF JumpGood
  <1> QED
    BY <1>1, <1>2, <1>11, <1>14 DEF EvalInv, Going

\* compare_val swallows the jump: the frames are those it was called with.
LEMMA EvalLandCompare ==
  ASSUME BufInv, EvalInv, NEW kind \in {"inst", "native"}, LandCompare(kind)
  PROVE  EvalInv'
  <1> DEFINE b == Last(jmps).act
             cs == SubSeq(cstack, 1, b)
  <1>1. /\ mode = "jump" /\ mode' = "swallowed" /\ cstack[b] = Comparing(kind)
        /\ UNCHANGED <<frames, cur, pool, funcs>> /\ cstack' = Append(Front(cs), kind)
    BY DEF LandCompare
  <1>2. PICK ch : /\ Good(frames, pool, funcs, ch) /\ cur = Newest(ch)
                  /\ \E pos, T : JumpGood(frames, cstack, jmps, jump, ch, pos, T)
    BY <1>1 DEF EvalInv, Going
  <1>3. PICK pos, T : JumpGood(frames, cstack, jmps, jump, ch, pos, T)
    BY <1>2
  <1>4. CallsGood(cstack, "jump") /\ cstack \in Seq(Kinds) /\ DOMAIN cstack = 1 .. Len(cstack) /\ Len(cstack) \in Nat
    BY <1>1 DEF EvalInv, Going, CallsGood
  <1>5. b \in DOMAIN cstack
    BY <1>1 DEF BufInv, LiveBuffers, Buf, Last
  <1>6. kind \in Kinds /\ Turned(cstack[b], kind) /\ cstack[b] # "loop"
    BY <1>1 DEF Kinds, Comparing, Turned, NativeKinds, InstKinds
  <1>7. Level(frames, cstack, ch, pos, b)
    BY <1>3, <1>6 DEF JumpGood
  <1> HIDE DEF b
  <1>8. /\ b \in 1 .. Len(cstack) /\ b \in 0 .. Len(cstack) /\ b \in Nat /\ b >= 1
    BY <1>4, <1>5
  <1>9. cs \in Seq(Kinds) /\ Len(cs) = b /\ \A d \in 1 .. b : cs[d] = cstack[d]
    BY <1>4, <1>8, CutFacts
  <1> HIDE DEF cs
  <1>10. cs # <<>> /\ \A d \in 1 .. b - 1 : d \in 1 .. b
    BY <1>8, <1>9
  <1>11. /\ cstack' \in Seq(Kinds) /\ Len(cstack') = b /\ cstack'[b] = kind
         /\ \A d \in 1 .. b - 1 : cstack'[d] = cs[d]
    BY <1>1, <1>6, <1>9, <1>10, LastChanged
  <1>12. \A d \in 1 .. b - 1 : cstack'[d] = cstack[d]
    BY <1>9, <1>10, <1>11
  <1>13. mode' \in {"run", "swallowed"}
    BY <1>1
  <1> DEFINE md == "jump"
  <1>14. CallsGood(cstack, md)
    BY <1>4
  <1> HIDE DEF md
  <1> QED
    BY <1>1, <1>2, <1>6, <1>7, <1>8, <1>11, <1>12, <1>13, <1>14, EvalTurns

\* main prints the exception and ends.
LEMMA EvalLandMain ==
  ASSUME BufInv, EvalInv, LandMain
  PROVE  EvalInv'
  <1> DEFINE b == Last(jmps).act
             md == "jump"
             md2 == "end"
  <1>1. mode = md /\ mode' = md2 /\ UNCHANGED <<frames, cur, pool, funcs>> /\ cstack' = SubSeq(cstack, 1, b)
    BY DEF LandMain, Landing, Unwind
  <1>2. b \in 1 .. Len(cstack)
    BY <1>1 DEF BufInv, LiveBuffers, Buf, Last
  <1>3. CallsGood(cstack, md) /\ md2 \in Modes /\ md2 \notin {"run", "jump", "swallowed"}
    BY <1>1 DEF EvalInv, Going, Modes
  <1> HIDE DEF b, md, md2
  <1>4. CallsGood(SubSeq(cstack, 1, b), md2)
    BY <1>2, <1>3, CallsCut
  <1> QED
    BY <1>1, <1>3, <1>4 DEF EvalInv, Going

\* Every step keeps the invariant.
LEMMA EvalNext == BufInv /\ EvalInv /\ [Next]_vars => EvalInv'
  <1> SUFFICES ASSUME BufInv, EvalInv, [Next]_vars PROVE EvalInv'
    OBVIOUS
  <1>1. CASE UNCHANGED vars
    BY <1>1 DEF vars, EvalInv, Going
  <1>2. CASE MakeBlock \/ MakeFunction
    BY <1>2, EvalMakes
  <1>3. CASE EnterInstruction
    BY <1>3, EvalEnters
  <1>4. CASE \E i \in DOMAIN funcs, big \in BOOLEAN : CallScript(i, big) \/ CallFromC(i, big)
    BY <1>4, EvalCallsScript, EvalCallsFromC
  <1>5. CASE \E kind \in {"native", "guard"} : CallNative(kind)
    BY <1>5, EvalCallsNative
  <1>6. CASE Ret
    BY <1>6, EvalRet
  <1>7. CASE Finish
    BY <1>7, EvalFinish
  <1>8. CASE NativeReturns
    BY <1>8, EvalNativeReturns
  <1>9. CASE InstructionEnds
    BY <1>9, EvalInstructionEnds
  <1>10. CASE Raise \/ LongReturn \/ LongBreak
    BY <1>10, EvalJumps
  <1>11. CASE LandRaise
    BY <1>11, EvalLandRaise
  <1>12. CASE LandJump
    BY <1>12, EvalLandJump
  <1>13. CASE LandGuard
    BY <1>13, EvalLandGuard
  <1>14. CASE LandMain
    BY <1>14, EvalLandMain
  <1>15. CASE \E kind \in {"inst", "native"} : CompareVal(kind) \/ CompareReturns(kind) \/ LandCompare(kind)
    BY <1>15, EvalCompareVal, EvalCompareReturns, EvalLandCompare
  <1> QED
    BY <1>1, <1>2, <1>3, <1>4, <1>5, <1>6, <1>7, <1>8, <1>9, <1>10, <1>11, <1>12, <1>13, <1>14, <1>15
       DEF Next

\* The invariant of the evaluator: the frames of env->frame, the pools, the functions, the
\* C activations and their jump buffers fit together in every state, in the middle of a
\* jump too, up to the state in which compare_val has swallowed one or LandJump crosses.
THEOREM EvalCorrect == Spec => [](BufInv /\ EvalInv)
  <1>1. Init => BufInv /\ EvalInv
    BY BufInit, EvalInit
  <1>2. BufInv /\ EvalInv /\ [Next]_vars => (BufInv /\ EvalInv)'
    <2> SUFFICES ASSUME BufInv, EvalInv, [Next]_vars PROVE (BufInv /\ EvalInv)'
      OBVIOUS
    <2>1. BufInv'
      BY BufNext
    <2>2. EvalInv'
      BY EvalNext
    <2> QED
      BY <2>1, <2>2
  <1> QED
    BY <1>1, <1>2, PTL DEF Spec

-----------------------------------------------------------------------------
(* The properties.                                                         *)

\* A frame that waits in a pool to be used again (YogThread_put_script_frame) is in it
\* once, on no list, and no function or block needs it.
THEOREM PoolsCorrect == Spec => []PooledAreDead
  <1>1. EvalInv => PooledAreDead
    <2> SUFFICES ASSUME EvalInv PROVE PooledAreDead
      OBVIOUS
    <2>1. PICK ch : Good(frames, pool, funcs, ch) /\ cur = Newest(ch)
      BY DEF EvalInv, Going
    <2>2. FramesGood(frames) /\ FuncsGood(frames, funcs) /\ PoolGood(frames, pool) /\ ListGood(frames, pool, ch)
      BY <2>1 DEF Good
    <2>3. ch \in Seq(Nat) /\ Len(ch) \in 0 .. Len(ch) /\ DOMAIN ch = 1 .. Len(ch)
      BY <2>2 DEF ListGood
    <2>4. ToSet(Chain(cur)) = {ch[i] : i \in 1 .. Len(ch)}
      <3>1. cur = At(ch, Len(ch))
        BY <2>1, <2>3, NewestAt
      <3> QED
        BY <2>2, <2>3, <3>1, ChainIs, DownSet
    <2>5. DOMAIN pool = FrameTypes
      BY <2>2 DEF PoolGood
    <2>6. ASSUME NEW s \in DOMAIN pool, NEW i \in DOMAIN pool[s]
          PROVE  /\ \A t \in DOMAIN pool : \A j \in DOMAIN pool[t] : pool[t][j] = pool[s][i] => t = s /\ j = i
                 /\ pool[s][i] \notin ToSet(Chain(cur))
                 /\ \A k \in DOMAIN funcs : pool[s][i] \notin {funcs[k].outer, funcs[k].brk}
      <3> DEFINE f == pool[s][i]
      <3>1. f \in DOMAIN frames /\ frames[f].type = s /\ ~frames[f].used
        BY <2>2, <2>5 DEF PoolGood
      <3>2. ASSUME NEW t \in DOMAIN pool, NEW j \in DOMAIN pool[t], pool[t][j] = f
            PROVE  t = s /\ j = i
        <4>1. t = s
          BY <2>2, <2>5, <3>1, <3>2 DEF PoolGood
        <4> QED
          BY <2>2, <2>5, <3>2, <4>1 DEF PoolGood
      <3>3. f \notin ToSet(Chain(cur))
        BY <2>2, <2>3, <2>4, <2>5 DEF ListGood
      <3>4. f # NoFrame
        BY <2>2, <3>1 DEF FramesGood, NoFrame
      <3> HIDE DEF f
      <3>5. \A k \in DOMAIN funcs : f # funcs[k].outer /\ f # funcs[k].brk
        BY <2>2, <3>1, <3>4 DEF FuncsGood
      <3> QED
        BY <3>2, <3>3, <3>5 DEF f
    <2> QED
      BY <2>6 DEF PooledAreDead
  <1> QED
    BY EvalCorrect, <1>1, PTL

\* A jump that longjmp carries over several mainloops and native functions ends in the
\* frame it was meant for, only an unhandled exception reaches main, and only compare_val
\* of table.c swallows a jump.
THEOREM JumpsCorrect == Spec => JumpsExact
  <1> DEFINE Exact == mode = "jump" =>
                        \/ mode' = "jump" /\ jump' = jump
                        \/ mode' = "run" /\ cur' = jump.target
                        \/ mode' = "end" /\ jump = [status |-> "RAISE", target |-> NoFrame]
                        \/ mode' = "swallowed" /\ cstack[Last(jmps).act] \in {"inst_compare", "native_compare"}
                        \/ mode' = "crossed"
  <1>1. BufInv /\ EvalInv /\ [Next]_vars => [Exact]_vars
    <2> SUFFICES ASSUME BufInv, EvalInv, Next, mode = "jump" PROVE Exact
      OBVIOUS
    <2>1. \/ LandRaise \/ LandJump \/ LandGuard \/ LandMain
          \/ \E kind \in {"inst", "native"} : LandCompare(kind)
      BY DEF Next, MakeBlock, MakeFunction, EnterInstruction, CallScript, CallFromC, CallNative, Ret, Finish,
             NativeReturns, InstructionEnds, CompareVal, CompareReturns, Raise, LongReturn, LongBreak, Running, InC
    <2>2. CASE LandRaise
      <3> DEFINE h == rollback_frames(skip_c_frame(cur))
      <3>1. \/ mode' = mode /\ jump' = jump
            \/ mode' = "run" /\ cur' = h /\ h # NoFrame
        BY <2>2 DEF LandRaise, PassOn, Land, CutTo
      <3>2. h # NoFrame => h = jump.target
        BY Zenon DEF rollback_frames
      <3> QED
        BY <3>1, <3>2
    <2>3. CASE LandJump
      <3>1. \/ Land(jump.target)
            \/ mode' = "crossed"
            \/ \E f : PassOn(f)
        BY <2>3, LandJumpIs
      <3> QED
        BY <3>1 DEF Land, PassOn, CutTo
    <2>4. CASE LandGuard
      BY <2>4 DEF LandGuard
    <2>5. CASE LandMain
      <3> DEFINE b == Last(jmps).act
      <3>1. cstack[b] = "main" /\ mode' = "end"
        BY <2>5 DEF LandMain, Landing
      <3>2. PICK ch : /\ ch \in Seq(Nat)
                      /\ \E pos, T : JumpGood(frames, cstack, jmps, jump, ch, pos, T)
        BY DEF EvalInv, Going, Good, ListGood
      <3>3. PICK pos, T : JumpGood(frames, cstack, jmps, jump, ch, pos, T)
        BY <3>2
      <3>4. b \in 1 .. Len(cstack)
        BY DEF BufInv, LiveBuffers, Buf, Last
      <3>5. /\ Level(frames, cstack, ch, pos, b) /\ Target(frames, ch, jump.status, jump.target)
            /\ jump = [status |-> jump.status, target |-> jump.target]
        BY <3>1, <3>3 DEF JumpGood
      <3> HIDE DEF b
      <3>6. b = 1
        <4>1. \A d \in 2 .. Len(cstack) : cstack[d] \in Follows(cstack[d - 1])
          BY DEF EvalInv, Going, CallsGood
        <4>2. \A d \in 2 .. Len(cstack) : cstack[d] # "main"
          BY <4>1 DEF Follows, CKinds
        <4> QED
          BY <3>1, <3>4, <4>2
      <3>7. Len(ch) = 0
        BY <3>5, <3>6 DEF Level
      <3>8. DOMAIN ch = {}
        BY <3>2, <3>7
      <3>9. jump.target = NoFrame /\ jump.status = "RAISE"
        BY <3>5, <3>8 DEF Target
      <3> QED
        BY <3>1, <3>5, <3>9
    <2>6. CASE \E kind \in {"inst", "native"} : LandCompare(kind)
      BY <2>6 DEF LandCompare, Comparing
    <2> QED
      BY <2>1, <2>2, <2>3, <2>4, <2>5, <2>6
  <1> QED
    BY EvalCorrect, <1>1, PTL DEF Spec, JumpsExact

\* The frame that encloses a block's frame was called by the one to which the block
\* returns.
LEMMA HomeIs ==
  ASSUME FramesGood(frames), NEW f \in DOMAIN frames
  PROVE  Home(f) \in DOMAIN frames /\ frames[Home(f)].ret \in {NoFrame, frames[f].ret}
  <1> DEFINE N == MaxFuncs
             D == DOMAIN frames
             one(x) == IF frames[x].brk = NoFrame THEN x ELSE frames[x].outer
             step == [i \in 1 .. N |-> [x \in D |-> one(x)]]
  <1>1. N \in Nat
    BY BoundsNat
  <1>2. \A x \in D : /\ one(x) \in D
                     /\ frames[x].ret \in {NoFrame, frames[f].ret} => frames[one(x)].ret \in {NoFrame, frames[f].ret}
    BY DEF FramesGood
  <1>3. step \in [1 .. N -> [D -> D]]
    BY <1>2
  <1>4. PICK F : F \in Recursions(N, D, f, step)
    <2> HIDE DEF N, step, D
    <2>1. f \in D
      BY DEF D
    <2> QED
      BY <1>1, <1>3, <2>1, RecursionExists
  <1>5. /\ F \in [0 .. N -> D] /\ F[0] = f
        /\ \A i \in 1 .. N : i \in 0 .. N /\ i - 1 \in 0 .. N /\ F[i] = one(F[i - 1])
    <2>1. F \in [0 .. N -> D] /\ F[0] = f /\ \A i \in 1 .. N : F[i] = step[i][F[i - 1]]
      BY <1>4 DEF Recursions
    <2>2. \A i \in 1 .. N : i \in 0 .. N /\ i - 1 \in 0 .. N
      BY <1>1
    <2>3. \A i \in 1 .. N : F[i - 1] \in D
      BY <2>1, <2>2
    <2> HIDE DEF one
    <2> QED
      BY <2>1, <2>2, <2>3
  <1>6. F = [n \in 0 .. N |-> IF n = 0 THEN f
                              ELSE IF frames[F[n - 1]].brk = NoFrame THEN F[n - 1] ELSE frames[F[n - 1]].outer]
    <2>1. ASSUME NEW n \in 0 .. N
          PROVE  F[n] = IF n = 0 THEN f
                        ELSE IF frames[F[n - 1]].brk = NoFrame THEN F[n - 1] ELSE frames[F[n - 1]].outer
      <3>1. CASE n = 0
        BY <1>5, <3>1
      <3>2. CASE n # 0
        <4>1. n \in 1 .. N
          BY <1>1, <3>2
        <4> QED
          BY <1>5, <3>2, <4>1
      <3> QED
        BY <3>1, <3>2
    <2> HIDE DEF D, N
    <2> QED
      BY <1>5, <2>1
  <1> DEFINE up == CHOOSE u : u = [n \in 0 .. N |-> IF n = 0 THEN f
                     ELSE IF frames[u[n - 1]].brk = NoFrame THEN u[n - 1] ELSE frames[u[n - 1]].outer]
  <1>7. up = [n \in 0 .. N |-> IF n = 0 THEN f
                     ELSE IF frames[up[n - 1]].brk = NoFrame THEN up[n - 1] ELSE frames[up[n - 1]].outer]
    <2> HIDE DEF D, N
    <2> QED
      BY <1>6, Zenon
  <1>8. Home(f) = up[N]
    BY Zenon DEF Home
  <1> HIDE DEF up
  <1> DEFINE S == {n \in 0 .. N : up[n] \in D /\ frames[up[n]].ret \in {NoFrame, frames[f].ret}}
  <1>9. 0 \in S
    <2>1. 0 \in 0 .. N
      BY <1>1
    <2>2. up[0] = f
      BY <1>7, <2>1
    <2> QED
      BY <2>1, <2>2
  <1>10. ASSUME NEW i \in 1 .. N, i - 1 \in S PROVE i \in S
    <2>1. i \in 0 .. N /\ i # 0
      BY <1>1
    <2>2. up[i] = one(up[i - 1])
      BY <1>7, <2>1
    <2> HIDE DEF one, N
    <2> QED
      BY <1>2, <1>10, <2>1, <2>2
  <1>11. N \in S
    <2> HIDE DEF S, N
    <2>1. 0 .. N \subseteq S
      BY <1>1, <1>9, <1>10, IntervalInduction
    <2> QED
      BY <1>1, <2>1
  <1> QED
    BY <1>8, <1>11

\* return in a block goes to the caller of the function that encloses it, for blocks
\* nested to any depth (inst long_return, frame_to_long_return).
THEOREM ReturnsCorrect == Spec => []BlocksReturnToCaller
  <1>1. EvalInv => BlocksReturnToCaller
    <2> SUFFICES ASSUME EvalInv PROVE BlocksReturnToCaller
      OBVIOUS
    <2>1. PICK ch : Good(frames, pool, funcs, ch) /\ cur = Newest(ch)
      BY DEF EvalInv, Going
    <2>2. FramesGood(frames) /\ ListGood(frames, pool, ch)
      BY <2>1 DEF Good
    <2>3. ch \in Seq(Nat) /\ Len(ch) \in 0 .. Len(ch) /\ DOMAIN ch = 1 .. Len(ch)
      BY <2>2 DEF ListGood
    <2>4. ToSet(Chain(cur)) = {ch[i] : i \in 1 .. Len(ch)}
      <3>1. cur = At(ch, Len(ch))
        BY <2>1, <2>3, NewestAt
      <3> QED
        BY <2>2, <2>3, <3>1, ChainIs, DownSet
    <2>5. ToSet(Chain(cur)) \subseteq DOMAIN frames
      BY <2>2, <2>3, <2>4 DEF ListGood
    <2>6. ASSUME NEW f \in ToSet(Chain(cur)), frames[Home(f)].brk = NoFrame, frames[Home(f)].ret # NoFrame
          PROVE  frames[f].ret = frames[Home(f)].prev
      <3>1. f \in DOMAIN frames
        BY <2>5
      <3>2. Home(f) \in DOMAIN frames /\ frames[Home(f)].ret \in {NoFrame, frames[f].ret}
        BY <2>2, <3>1, HomeIs
      <3> QED
        BY <2>2, <2>6, <3>2 DEF FramesGood
    <2> QED
      BY <2>6 DEF BlocksReturnToCaller
  <1> QED
    BY EvalCorrect, <1>1, PTL

-----------------------------------------------------------------------------
(* Frames and C activations, as StacksAgree compares them.                 *)

\* The frame on which the script frames of a mainloop stand is the finish frame that
\* was pushed for it.
LEMMA BaseIs ==
  ASSUME NEW ch, NEW p, NEW q, Loops(ch, p, q)
  PROVE  Base(ch[q]) = ch[p + 1]
  <1> DEFINE f == ch[q]
             X == {h \in DOMAIN frames : frames[h].type # "SCRIPT"}
             I == {i \in DOMAIN Chain(f) : frames[Chain(f)[i]].type # "SCRIPT"}
             j == p + 1
  <1>1. Base(f) = Least(Chain(f), I)
    BY Zenon DEF Base, First, Least
  <1>2. /\ Walk(ch) /\ q \in Nat /\ q \in 0 .. Len(ch) /\ j \in 1 .. q
        /\ \A i \in 1 .. q : ch[i] \in DOMAIN frames /\ ch[i] # NoFrame
        /\ \A i \in 1 .. q : i > j => frames[ch[i]].type = "SCRIPT"
        /\ \A i \in DOMAIN Chain(f) : Chain(f)[i] \in DOMAIN frames
        /\ f = At(ch, q)
    BY LoopFacts
  <1>3. frames[ch[j]].type = "FINISH"
    BY DEF Loops
  <1>4. I = {i \in DOMAIN Chain(f) : Chain(f)[i] \in X}
    BY <1>2
  <1>5. ch[j] \in X /\ \A i \in 1 .. q : i > j => ch[i] \notin X
    BY <1>2, <1>3
  <1> HIDE DEF I, X, f, j
  <1>6. Least(Chain(f), I) = ch[j]
    BY <1>2, <1>4, <1>5, WalkAt
  <1> QED
    BY <1>1, <1>6 DEF f, j

\* The frame below one of the list.
LEMMA PrevIs ==
  ASSUME NEW ch, Walk(ch), NEW j \in 1 .. Len(ch)
  PROVE  frames[ch[j]].prev = At(ch, j - 1)
  <1>1. ch \in Seq(Nat) /\ j \in DOMAIN ch /\ (j = 1 <=> j - 1 = 0)
    BY DEF Walk, ListGood
  <1>2. frames[ch[j]].prev = IF j = 1 THEN NoFrame ELSE ch[j - 1]
    BY <1>1 DEF Walk, ListGood
  <1> QED
    BY <1>1, <1>2 DEF At

\* env->frame is right for an activation that is on top, and what it leaves is what
\* its caller had.
LEMMA LevelFits ==
  ASSUME NEW ch, Walk(ch), NEW kind \in Kinds \ {"main"}, NEW p \in Nat, NEW q \in 0 .. Len(ch), p <= q,
         Added(frames, kind, ch, p, q)
  PROVE  Fits(kind, At(ch, q)) /\ Returned(kind, At(ch, q)) = At(ch, p)
  <1>1. /\ ch \in Seq(Nat) /\ Len(ch) \in Nat
        /\ \A i \in 1 .. Len(ch) : ch[i] \in DOMAIN frames /\ ch[i] # NoFrame
    BY WalkFacts
  <1>2. kind \in {"loop", "call"} \cup CKinds
    BY DEF Kinds, CKinds
  <1>3. CASE kind \in NativeKinds
    <2>1. q = p + 1 /\ frames[ch[q]].type = "C"
      BY <1>3 DEF Added
    <2>2. q \in 1 .. Len(ch) /\ q - 1 = p
      BY <1>1, <2>1
    <2>3. At(ch, q) = ch[q] /\ ch[q] # NoFrame
      BY <1>1, <2>2 DEF At
    <2>4. frames[ch[q]].prev = At(ch, q - 1)
      BY <2>2, PrevIs
    <2>5. Fits(kind, At(ch, q))
      BY <1>3, <2>1, <2>3 DEF Fits, NativeKinds, InstKinds
    <2>6. Returned(kind, At(ch, q)) = frames[ch[q]].prev
      BY <1>3, <2>3 DEF Returned, NativeKinds
    <2> QED
      BY <2>2, <2>4, <2>5, <2>6
  <1>4. CASE kind \in InstKinds
    <2>1. q = p /\ p > 0 /\ frames[ch[p]].type = "SCRIPT"
      BY <1>4 DEF Added, CKinds, NativeKinds, InstKinds
    <2>2. q \in 1 .. Len(ch)
      BY <1>1, <2>1
    <2>3. At(ch, q) = ch[q] /\ ch[q] # NoFrame
      BY <1>1, <2>2 DEF At
    <2>4. Fits(kind, At(ch, q))
      BY <1>4, <2>1, <2>3 DEF Fits, NativeKinds, InstKinds
    <2>5. Returned(kind, At(ch, q)) = At(ch, q)
      BY <1>4 DEF Returned, NativeKinds, InstKinds
    <2> QED
      BY <2>1, <2>4, <2>5
  <1>5. CASE kind = "call"
    <2>1. q = p
      BY <1>5 DEF Added
    <2>2. Fits(kind, At(ch, q)) /\ Returned(kind, At(ch, q)) = At(ch, q)
      BY <1>5 DEF Fits, Returned, NativeKinds, InstKinds
    <2> QED
      BY <2>1, <2>2
  <1>6. CASE kind = "loop"
    <2>1. /\ q > p /\ frames[ch[p + 1]].type = "FINISH"
          /\ \A i \in p + 2 .. q : frames[ch[i]].type = "SCRIPT"
      BY <1>6 DEF Added
    <2>2. q \in 1 .. Len(ch) /\ p + 1 \in 1 .. Len(ch) /\ p + 1 - 1 = p
      BY <1>1, <2>1
    <2>3. Loops(ch, p, q)
      BY <2>1, <2>2 DEF Loops
    <2>4. Base(ch[q]) = ch[p + 1]
      BY <2>3, BaseIs
    <2>5. At(ch, q) = ch[q] /\ ch[p + 1] # NoFrame
      BY <1>1, <2>2 DEF At
    <2>6. frames[ch[p + 1]].prev = At(ch, p)
      <3> DEFINE j == p + 1
      <3>1. j \in 1 .. Len(ch) /\ j - 1 = p
        BY <2>2
      <3> HIDE DEF j
      <3>2. frames[ch[j]].prev = At(ch, p)
        BY <3>1, PrevIs
      <3> QED
        BY <3>2 DEF j
    <2>7. Fits(kind, At(ch, q))
      BY <1>6, <2>1, <2>4, <2>5 DEF Fits
    <2>8. Returned(kind, At(ch, q)) = frames[Base(ch[q])].prev
      BY <1>6, <2>5 DEF Returned
    <2> QED
      BY <2>4, <2>6, <2>7, <2>8
  <1> QED
    BY <1>2, <1>3, <1>4, <1>5, <1>6 DEF CKinds, NativeKinds, InstKinds

\* What StacksAgree computes.
Agree(d, x) == [f \in {NoFrame} \cup DOMAIN frames |-> Fits(cstack[d], f) /\ x[Returned(cstack[d], f)]]

Agreement(A) ==
    A = [d \in 0 .. Len(cstack) |->
            [f \in {NoFrame} \cup DOMAIN frames |->
               d = 0 \/ (Fits(cstack[d], f) /\ A[d - 1][Returned(cstack[d], f)])]]

\* It is well defined: the recursion over the depths has a solution.
LEMMA AgreementExists ==
  ASSUME Len(cstack) \in Nat
  PROVE  \E A : Agreement(A)
  <1> DEFINE N == Len(cstack)
             D == {NoFrame} \cup DOMAIN frames
             T == [D -> BOOLEAN]
             z == [f \in D |-> TRUE]
             step == [i \in 1 .. N |-> [x \in T |-> Agree(i, x)]]
  <1>1. z \in T
    BY Zenon
  <1>2. ASSUME NEW i \in 1 .. N, NEW x \in T PROVE Agree(i, x) \in T
    <2>1. \A f \in D : (Fits(cstack[i], f) /\ x[Returned(cstack[i], f)]) \in BOOLEAN
      BY Zenon
    <2> QED
      BY <2>1, Zenon DEF Agree
  <1> HIDE DEF T
  <1>3. step \in [1 .. N -> [T -> T]]
    BY <1>2
  <1>4. PICK F : F \in Recursions(N, T, z, step)
    <2>1. N \in Nat
      OBVIOUS
    <2> HIDE DEF N, z, step
    <2> QED
      BY <1>1, <1>3, <2>1, RecursionExists
  <1>5. /\ F \in [0 .. N -> T] /\ F[0] = z
        /\ \A i \in 1 .. N : i \in 0 .. N /\ i - 1 \in 0 .. N /\ F[i] = Agree(i, F[i - 1])
    <2>1. F \in [0 .. N -> T] /\ F[0] = z /\ \A i \in 1 .. N : F[i] = step[i][F[i - 1]]
      BY <1>4 DEF Recursions
    <2>2. \A i \in 1 .. N : i \in 0 .. N /\ i - 1 \in 0 .. N
      OBVIOUS
    <2>3. \A i \in 1 .. N : F[i - 1] \in T
      BY <2>1, <2>2
    <2> HIDE DEF z
    <2> QED
      BY <2>1, <2>2, <2>3
  <1> DEFINE G(n) == [f \in D |-> n = 0 \/ (Fits(cstack[n], f) /\ F[n - 1][Returned(cstack[n], f)])]
  <1>6. ASSUME NEW n \in 0 .. N PROVE F[n] = G(n)
    <2>1. CASE n = 0
      <3>1. \A f \in D : (n = 0 \/ (Fits(cstack[n], f) /\ F[n - 1][Returned(cstack[n], f)])) = TRUE
        BY <2>1, Zenon
      <3>2. G(n) = z
        BY <3>1, Zenon
      <3> QED
        BY <1>5, <2>1, <3>2
    <2>2. CASE n # 0
      <3>1. n \in 1 .. N
        BY <2>2
      <3>2. F[n] = Agree(n, F[n - 1])
        BY <1>5, <3>1
      <3>3. \A f \in D : (n = 0 \/ (Fits(cstack[n], f) /\ F[n - 1][Returned(cstack[n], f)]))
                         = (Fits(cstack[n], f) /\ F[n - 1][Returned(cstack[n], f)])
        BY <2>2, Zenon
      <3>4. G(n) = Agree(n, F[n - 1])
        BY <3>3, Zenon DEF Agree
      <3> QED
        BY <3>2, <3>4
    <2> QED
      BY <2>1, <2>2
  <1>7. F = [n \in 0 .. N |-> G(n)]
    <2> HIDE DEF G, N, D
    <2> QED
      BY <1>5, <1>6
  <1>8. Agreement(F)
    BY <1>7, Zenon DEF Agreement
  <1> QED
    BY <1>8

\* The finish and C frames of the list are those of the C activations that are
\* alive (YogEval_push_finish_frame pushes one for every mainloop, callable.c a C frame
\* for every native function, and each leaves the list as it found it), whatever
\* jumps came between.
THEOREM StacksCorrect == Spec => []StacksAgree
  <1>1. EvalInv => StacksAgree
    <2> SUFFICES ASSUME EvalInv, mode \in {"run", "swallowed"} PROVE StacksAgree
      BY DEF StacksAgree
    <2> DEFINE N == Len(cstack)
               D == {NoFrame} \cup DOMAIN frames
               agree == CHOOSE A : A = [d \in 0 .. Len(cstack) |->
                          [f \in {NoFrame} \cup DOMAIN frames |->
                             d = 0 \/ (Fits(cstack[d], f) /\ A[d - 1][Returned(cstack[d], f)])]]
    <2>1. PICK ch, pos : RunGood(ch, pos)
      BY RunKnown
    <2>2. /\ CallsGood(cstack, "run") /\ Walk(ch) /\ cur = Newest(ch)
          /\ Level(frames, cstack, ch, pos, N)
      BY <2>1 DEF RunGood, Good, Walk
    <2>3. cstack \in Seq(Kinds) /\ N \in Nat /\ DOMAIN cstack = 1 .. N /\ N # 0 /\ cstack[1] = "main"
          /\ \A d \in 2 .. N : cstack[d] \in Follows(cstack[d - 1])
      BY <2>2 DEF CallsGood
    <2>4. ch \in Seq(Nat) /\ Len(ch) \in Nat /\ \A i \in 1 .. Len(ch) : ch[i] \in DOMAIN frames
      <3>1. 0 \in 0 .. Len(ch) /\ ch \in Seq(Nat)
        BY <2>2 DEF Walk, ListGood
      <3> QED
        BY <2>2, <3>1, WalkFacts
    <2>5. Agreement(agree)
      <3>1. \E A : A = [d \in 0 .. Len(cstack) |->
                          [f \in {NoFrame} \cup DOMAIN frames |->
                             d = 0 \/ (Fits(cstack[d], f) /\ A[d - 1][Returned(cstack[d], f)])]]
        BY <2>3, AgreementExists, Zenon DEF Agreement
      <3> QED
        BY <3>1, Zenon DEF Agreement
    <2>6. StacksAgree <=> agree[N][cur]
      BY Zenon DEF StacksAgree
    <2> HIDE DEF agree
    <2>7. ASSUME NEW d \in 0 .. N, NEW f \in D
          PROVE  agree[d][f] = (d = 0 \/ (Fits(cstack[d], f) /\ agree[d - 1][Returned(cstack[d], f)]))
      <3>1. agree = [e \in 0 .. N |-> [g \in D |->
                        e = 0 \/ (Fits(cstack[e], g) /\ agree[e - 1][Returned(cstack[e], g)])]]
        BY <2>5, Zenon DEF Agreement
      <3>2. agree[d] = [g \in D |->
                          d = 0 \/ (Fits(cstack[d], g) /\ agree[d - 1][Returned(cstack[d], g)])]
        <4> HIDE DEF N, D
        <4> QED
          BY <3>1, Zenon
      <3> HIDE DEF N, D
      <3> QED
        BY <3>2, Zenon
    <2>8. /\ pos[1] = 0 /\ pos[N] = Len(ch) /\ \A d \in 1 .. N : pos[d] \in 0 .. Len(ch)
          /\ \A d \in 2 .. N : /\ d \in 1 .. N /\ d - 1 \in 1 .. N /\ pos[d - 1] <= pos[d]
                               /\ Added(frames, cstack[d], ch, pos[d - 1], pos[d])
      <3>1. /\ pos[1] = 0 /\ pos[N] = Len(ch) /\ pos \in [1 .. N -> Nat]
            /\ \A c, d \in 1 .. N : c <= d => pos[c] <= pos[d]
            /\ \A d \in 2 .. N : Added(frames, cstack[d], ch, pos[d - 1], pos[d])
        BY <2>2 DEF Level
      <3>2. \A d \in 1 .. N : d <= N
        BY <2>3
      <3>3. \A d \in 2 .. N : d \in 1 .. N /\ d - 1 \in 1 .. N /\ d - 1 <= d
        BY <2>3
      <3>4. N \in 1 .. N
        BY <2>3
      <3>5. \A d \in 1 .. N : pos[d] \in 0 .. Len(ch)
        BY <2>4, <3>1, <3>2, <3>4
      <3> QED
        BY <3>1, <3>3, <3>5
    <2>9. \A d \in 1 .. N : At(ch, pos[d]) \in D
      <3> TAKE d \in 1 .. N
      <3>1. pos[d] \in 0 .. Len(ch)
        BY <2>8
      <3>2. pos[d] # 0 => pos[d] \in 1 .. Len(ch)
        BY <2>4, <3>1
      <3> QED
        BY <2>4, <3>2 DEF At
    <2> DEFINE S == {0} \cup {d \in 1 .. N : agree[d][At(ch, pos[d])]}
    <2>10. ASSUME NEW i \in 1 .. N, i - 1 \in S PROVE i \in S
      <3>1. i \in 0 .. N /\ i # 0 /\ At(ch, pos[i]) \in D
        BY <2>3, <2>9
      <3>2. agree[i][At(ch, pos[i])] <=>
              Fits(cstack[i], At(ch, pos[i])) /\ agree[i - 1][Returned(cstack[i], At(ch, pos[i]))]
        BY <2>7, <3>1, Zenon
      <3>3. CASE i = 1
        <4>1. At(ch, pos[i]) = NoFrame
          BY <2>8, <3>3 DEF At
        <4>2. Fits("main", NoFrame) /\ Returned("main", NoFrame) = NoFrame
          BY DEF Fits, Returned, NativeKinds, InstKinds
        <4>3. 0 \in 0 .. N /\ NoFrame \in D /\ i - 1 = 0
          BY <2>3, <3>3
        <4>4. agree[0][NoFrame]
          BY <2>7, <4>3, Zenon
        <4>5. agree[i][At(ch, pos[i])]
          BY <2>3, <3>2, <3>3, <4>1, <4>2, <4>3, <4>4
        <4> QED
          BY <4>5
      <3>4. CASE i # 1
        <4>1. i \in 2 .. N
          BY <2>3, <3>4
        <4>2. /\ Added(frames, cstack[i], ch, pos[i - 1], pos[i]) /\ i - 1 \in 1 .. N
              /\ pos[i - 1] <= pos[i] /\ pos[i - 1] \in Nat /\ pos[i] \in 0 .. Len(ch)
          <5>1. /\ Added(frames, cstack[i], ch, pos[i - 1], pos[i]) /\ i - 1 \in 1 .. N
                /\ pos[i - 1] <= pos[i]
            BY <2>8, <4>1
          <5>2. pos[i - 1] \in 0 .. Len(ch) /\ pos[i] \in 0 .. Len(ch)
            BY <2>8, <5>1
          <5> QED
            BY <2>4, <5>1, <5>2
        <4>3. cstack[i] \in Kinds \ {"main"}
          <5>1. cstack[i] \in Kinds /\ cstack[i - 1] \in Kinds /\ cstack[i] \in Follows(cstack[i - 1])
            BY <2>3, <4>1, <4>2
          <5>2. Follows(cstack[i - 1]) \subseteq {"loop", "call"} \cup CKinds
            BY <5>1 DEF Follows, Kinds, CKinds
          <5> QED
            BY <5>1, <5>2 DEF CKinds
        <4>4. Fits(cstack[i], At(ch, pos[i])) /\ Returned(cstack[i], At(ch, pos[i])) = At(ch, pos[i - 1])
          <5> DEFINE kind == cstack[i]
                     p == pos[i - 1]
                     q == pos[i]
          <5>1. /\ Walk(ch) /\ kind \in Kinds \ {"main"} /\ p \in Nat /\ q \in 0 .. Len(ch) /\ p <= q
                /\ Added(frames, kind, ch, p, q)
            BY <2>2, <4>2, <4>3
          <5> HIDE DEF kind, p, q
          <5>2. Fits(kind, At(ch, q)) /\ Returned(kind, At(ch, q)) = At(ch, p)
            BY ONLY <5>1, LevelFits
          <5> QED
            BY <5>2 DEF kind, p, q
        <4>5. agree[i - 1][At(ch, pos[i - 1])]
          BY <2>10, <4>2
        <4>6. agree[i][At(ch, pos[i])]
          BY <3>2, <4>4, <4>5, Zenon
        <4> QED
          BY <4>6
      <3> QED
        BY <3>3, <3>4
    <2>11. N \in S
      <3>1. 0 \in S
        OBVIOUS
      <3> HIDE DEF S, N
      <3>2. 0 .. N \subseteq S
        BY <2>3, <2>10, <3>1, IntervalInduction
      <3> QED
        BY <2>3, <3>2
    <2>12. cur = At(ch, pos[N])
      BY <2>2, <2>4, <2>8, NewestAt
    <2>13. agree[N][cur]
      BY <2>3, <2>11, <2>12
    <2> QED
      BY <2>6, <2>13
  <1> QED
    BY EvalCorrect, <1>1, PTL
=============================================================================
