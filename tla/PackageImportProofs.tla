------------------------- MODULE PackageImportProofs -------------------------
(***************************************************************************)
(* Proofs about PackageImport, for any set of threads, packages and dotted *)
(* names.  ImportInv is inductive: one lemma per action shows that the     *)
(* action preserves its eight parts, the safety properties follow from it. *)
(***************************************************************************)
EXTENDS PackageImport, SequenceTheorems, TLAPS

\* The package of a call is a package.
LEMMA CurrentPkg ==
  ASSUME ImportInv
  PROVE  \A s \in Threads : frames[s] # <<>> => Current(s) \in Pkgs
  <1>1. \A f \in Frames : Part(f) \in Pkgs
    BY ImportAssumption DEF Frames, Part
  <1> QED
    BY <1>1 DEF ImportInv, TypeOK, Current

\* Two calls or more: the caller stands at position 2.
LEMMA TwoOrMore ==
  ASSUME NEW n \in Nat \ {0}, n # 1
  PROVE  2 \in 2 .. n /\ 1 \in 1 .. n - 1 /\ n - 1 # 0
  OBVIOUS

\* A call returns or raises.
LEMMA PopFrame ==
  ASSUME NEW s \in Seq(Frames), s # <<>>
  PROVE  /\ Tail(s) \in Seq(Frames)
         /\ Len(Tail(s)) = Len(s) - 1
         /\ (Tail(s) = <<>>) = (Len(s) = 1)
         /\ \A i \in 1 .. Len(Tail(s)) : Tail(s)[i] = s[i + 1]
         /\ Len(s) # 1 => Head(Tail(s)) = s[2] /\ 2 \in 2 .. Len(s)
  <1>0. Len(s) \in Nat \ {0}
    BY EmptySeq
  <1>1. /\ Tail(s) \in Seq(Frames) /\ Len(Tail(s)) = Len(s) - 1
        /\ \A i \in 1 .. Len(Tail(s)) : Tail(s)[i] = s[i + 1]
    BY HeadTailProperties
  <1>2. (Tail(s) = <<>>) = (Len(Tail(s)) = 0)
    BY <1>1, EmptySeq
  <1>3. ASSUME Len(s) # 1 PROVE Head(Tail(s)) = s[2] /\ 2 \in 2 .. Len(s)
    <2>0. 2 \in 2 .. Len(s) /\ 1 \in 1 .. Len(s) - 1 /\ Len(s) - 1 # 0
      BY <1>0, <1>3, TwoOrMore
    <2>1. 1 \in 1 .. Len(Tail(s)) /\ Tail(s) # <<>>
      BY <1>1, <1>2, <2>0
    <2>2. Tail(s)[1] = s[2] /\ Head(Tail(s)) = Tail(s)[1]
      BY <1>1, <2>1
    <2> QED
      BY <2>0, <2>2
  <1> QED
    BY <1>1, <1>2, <1>3

\* A call begins.
LEMMA PushFrame ==
  ASSUME NEW s \in Seq(Frames), NEW f \in Frames
  PROVE  /\ <<f>> \o s \in Seq(Frames)
         /\ <<f>> \o s # <<>>
         /\ Len(<<f>> \o s) = Len(s) + 1
         /\ Head(<<f>> \o s) = f
         /\ (<<f>> \o s)[1] = f
         /\ \A i \in 2 .. Len(<<f>> \o s) : (<<f>> \o s)[i] = s[i - 1]
  <1>1. <<f>> \in Seq(Frames) /\ Len(<<f>>) = 1
    OBVIOUS
  <1> QED
    BY <1>1, ConcatProperties

\* The call goes on to the next part of its name.
LEMMA NextPart ==
  ASSUME NEW s \in Seq(Frames), s # <<>>, Head(s).pos < Len(Head(s).name)
  PROVE  LET n == [s EXCEPT ![1].pos = @ + 1]
         IN  /\ n \in Seq(Frames) /\ n # <<>> /\ Len(n) = Len(s)
             /\ n[1] = [name |-> Head(s).name, pos |-> Head(s).pos + 1]
             /\ Head(n) = n[1]
             /\ \A i \in 2 .. Len(s) : n[i] = s[i]
  <1> DEFINE f == [name |-> Head(s).name, pos |-> Head(s).pos + 1]
             n == [s EXCEPT ![1] = f]
  <1>1. s[1] \in Frames /\ Head(s) = s[1] /\ 1 \in DOMAIN s
    OBVIOUS
  <1>2. [s[1] EXCEPT !.pos = @ + 1] = f
    BY <1>1 DEF Frames
  <1>3. [s EXCEPT ![1].pos = @ + 1] = n
    BY <1>2
  <1>4. f \in Frames
    BY <1>1, ImportAssumption DEF Frames
  <1>5. n \in Seq(Frames) /\ Len(n) = Len(s)
    BY <1>1, <1>4, ExceptSeq
  <1> QED
    BY <1>1, <1>3, <1>5

\* The frames are well formed after the step: one call is the innermost, the
\* others are numbered from 2.
LEMMA FramesOf ==
  ASSUME TypeOK', NEW s \in Threads, NEW i \in 2 .. Len(frames'[s])
  PROVE  i \in 1 .. Len(frames'[s]) /\ i > 1
  BY DEF TypeOK

\* As long as no package goes away, what is known of the frames stays true.
LEMMA FramesKept ==
  ASSUME ImportInv, frames' = frames,
         \A p \in Pkgs : /\ pkgs[p] # "none" => pkgs'[p] # "none"
                         /\ pkg[p] => pkg'[p]
  PROVE  FramesInv'
  <1> SUFFICES ASSUME NEW t \in Threads, NEW i \in 1 .. Len(frames[t])
               PROVE  /\ i > 1 => pkgs'[Part(frames[t][i])] # "none"
                      /\ frames[t][i].pos > 1 => pkg'[frames[t][i].name[frames[t][i].pos - 1]]
    BY DEF FramesInv
  <1>1. frames[t][i] \in Frames
    BY DEF ImportInv, TypeOK
  <1>2. Part(frames[t][i]) \in Pkgs
    BY <1>1, ImportAssumption DEF Frames, Part
  <1>3. frames[t][i].pos > 1 => frames[t][i].name[frames[t][i].pos - 1] \in Pkgs
    BY <1>1, ImportAssumption DEF Frames
  <1> QED
    BY <1>2, <1>3 DEF ImportInv, FramesInv

\* YogGC_free_from_gc.
LEMMA FreeFromGCPreserves ==
  ASSUME ImportInv, NEW t \in Threads, FreeFromGC(t)
  PROVE  ImportInv'
  <1> USE ImportAssumption DEF ImportInv, FreeFromGC, Goto, Acquire, Release, lockVars, pkgVars
  <1>0. frames[t] # <<>> /\ Current(t) \in Pkgs
    BY CurrentPkg DEF CallInv
  <1>1. TypeOK'
    BY <1>0 DEF TypeOK, PCs, Running, CallInv
  <1>2. CallInv'
    BY <1>0 DEF TypeOK, CallInv, WaitInv
  <1>3. LockInv'
    BY <1>0 DEF TypeOK, CallInv, LockInv, Writing, WaitInv
  <1>4. TableInv'
    BY <1>0 DEF TypeOK, CallInv, TableInv, StageInv
  <1>5. StageInv'
    BY <1>0 DEF TypeOK, CallInv, LockInv, Writing, TableInv, StageInv, WaitInv, Current
  <1>6. FramesInv'
    BY FramesKept DEF TypeOK, TableInv, StageInv
  <1>7. WaitInv'
    BY <1>0 DEF TypeOK, CallInv, WaitInv, Current
  <1>8. ParentFirst'
    BY <1>0 DEF TypeOK, CallInv, TableInv, StageInv, ParentFirst
  <1> QED
    BY <1>1, <1>2, <1>3, <1>4, <1>5, <1>6, <1>7, <1>8

\* pkgs_lock is taken: a writer finds no holder.
LEMMA TakeLockPreserves ==
  ASSUME ImportInv, NEW t \in Threads, TakeLock(t)
  PROVE  ImportInv'
  <1> USE ImportAssumption DEF ImportInv, TakeLock, Goto, Acquire, Release, lockVars, pkgVars
  <1>0. frames[t] # <<>> /\ Current(t) \in Pkgs
    BY CurrentPkg DEF CallInv
  <1>1. TypeOK'
    BY <1>0 DEF TypeOK, PCs, Running, CallInv
  <1>2. CallInv'
    BY <1>0 DEF TypeOK, CallInv, WaitInv
  <1>3. LockInv'
    BY <1>0 DEF TypeOK, CallInv, LockInv, Writing, WaitInv
  <1>4. TableInv'
    BY <1>0 DEF TypeOK, CallInv, TableInv, StageInv
  <1>5. StageInv'
    BY <1>0 DEF TypeOK, CallInv, LockInv, Writing, TableInv, StageInv, WaitInv, Current
  <1>6. FramesInv'
    BY FramesKept DEF TypeOK, TableInv, StageInv
  <1>7. WaitInv'
    BY <1>0 DEF TypeOK, CallInv, WaitInv, Current
  <1>8. ParentFirst'
    BY <1>0 DEF TypeOK, CallInv, TableInv, StageInv, ParentFirst
  <1> QED
    BY <1>1, <1>2, <1>3, <1>4, <1>5, <1>6, <1>7, <1>8

\* YogGC_bind_to_gc, and on to what the lock was taken for.
LEMMA BindToGCPreserves ==
  ASSUME ImportInv, NEW t \in Threads, BindToGC(t)
  PROVE  ImportInv'
  <1> USE ImportAssumption DEF ImportInv, BindToGC, Goto, Acquire, Release, lockVars, pkgVars
  <1>0. frames[t] # <<>> /\ Current(t) \in Pkgs
    BY CurrentPkg DEF CallInv
  <1>1. TypeOK'
    BY <1>0 DEF TypeOK, PCs, Running, CallInv
  <1>2. CallInv'
    BY <1>0 DEF TypeOK, CallInv, WaitInv
  <1>3. LockInv'
    BY <1>0 DEF TypeOK, CallInv, LockInv, Writing, WaitInv
  <1>4. TableInv'
    BY <1>0 DEF TypeOK, CallInv, TableInv, StageInv
  <1>5. StageInv'
    <2>1. goal[t] = "find" \/ goal[t] = "recheck" \/ goal[t] = "publish"
      BY DEF TypeOK
    <2>2. goal[t] = "publish" => pkg[Current(t)]
      BY DEF StageInv
    <2>3. pc'[t] = goal[t] /\ \A s \in Threads \ {t} : pc'[s] = pc[s]
      BY DEF TypeOK
    <2> SUFFICES ASSUME NEW s \in Threads
                 PROVE  /\ pc'[s] = "register" => pkgs[Current(s)] = "none"
                        /\ pc'[s] = "eval" => pkgs[Current(s)] # "none"
                        /\ \/ pc'[s] \in {"got", "publish"}
                           \/ pc'[s] \in {"free", "lock", "bind"} /\ goal[s] = "publish"
                           => pkg[Current(s)]
      BY DEF StageInv, Current
    <2>4. CASE s = t
      BY <2>1, <2>2, <2>3, <2>4
    <2>5. CASE s # t
      BY <2>3, <2>5 DEF StageInv
    <2> QED
      BY <2>4, <2>5
  <1>6. FramesInv'
    BY FramesKept DEF TypeOK, TableInv, StageInv
  <1>7. WaitInv'
    BY <1>0 DEF TypeOK, CallInv, WaitInv, Current
  <1>8. ParentFirst'
    BY <1>0 DEF TypeOK, CallInv, TableInv, StageInv, ParentFirst
  <1> QED
    BY <1>1, <1>2, <1>3, <1>4, <1>5, <1>6, <1>7, <1>8

\* The package is there, so its body has ended.
LEMMA FindPackagePreserves ==
  ASSUME ImportInv, NEW t \in Threads, FindPackage(t)
  PROVE  ImportInv'
  <1> USE ImportAssumption DEF ImportInv, FindPackage, Goto, Acquire, Release, lockVars, pkgVars
  <1>0. frames[t] # <<>> /\ Current(t) \in Pkgs
    BY CurrentPkg DEF CallInv
  <1>1. TypeOK'
    BY <1>0 DEF TypeOK, PCs, Running, CallInv
  <1>2. CallInv'
    BY <1>0 DEF TypeOK, CallInv, WaitInv
  <1>3. LockInv'
    BY <1>0 DEF TypeOK, CallInv, LockInv, Writing, WaitInv
  <1>4. TableInv'
    BY <1>0 DEF TypeOK, CallInv, TableInv, StageInv
  <1>5. StageInv'
    BY <1>0 DEF TypeOK, CallInv, LockInv, Writing, TableInv, StageInv, WaitInv, Current
  <1>6. FramesInv'
    BY FramesKept DEF TypeOK, TableInv, StageInv
  <1>7. WaitInv'
    BY <1>0 DEF TypeOK, CallInv, WaitInv, Current
  <1>8. ParentFirst'
    BY <1>0 DEF TypeOK, CallInv, TableInv, StageInv, ParentFirst
  <1> QED
    BY <1>1, <1>2, <1>3, <1>4, <1>5, <1>6, <1>7, <1>8

\* The placeholder is there.
LEMMA FindImportingPreserves ==
  ASSUME ImportInv, NEW t \in Threads, FindImporting(t)
  PROVE  ImportInv'
  <1> USE ImportAssumption DEF ImportInv, FindImporting, Goto, Acquire, Release, lockVars, pkgVars
  <1>0. frames[t] # <<>> /\ Current(t) \in Pkgs
    BY CurrentPkg DEF CallInv
  <1>1. TypeOK'
    BY <1>0 DEF TypeOK, PCs, Running, CallInv
  <1>2. CallInv'
    BY <1>0 DEF TypeOK, CallInv, WaitInv
  <1>3. LockInv'
    BY <1>0 DEF TypeOK, CallInv, LockInv, Writing, WaitInv
  <1>4. TableInv'
    BY <1>0 DEF TypeOK, CallInv, TableInv, StageInv
  <1>5. StageInv'
    BY <1>0 DEF TypeOK, CallInv, LockInv, Writing, TableInv, StageInv, WaitInv, Current
  <1>6. FramesInv'
    BY FramesKept DEF TypeOK, TableInv, StageInv
  <1>7. WaitInv'
    BY <1>0 DEF TypeOK, CallInv, WaitInv, Current
  <1>8. ParentFirst'
    BY <1>0 DEF TypeOK, CallInv, TableInv, StageInv, ParentFirst
  <1> QED
    BY <1>1, <1>2, <1>3, <1>4, <1>5, <1>6, <1>7, <1>8

\* The mutex of the placeholder; pkgs_lock is released.
LEMMA LockImportingPreserves ==
  ASSUME ImportInv, NEW t \in Threads, LockImporting(t)
  PROVE  ImportInv'
  <1> USE ImportAssumption DEF ImportInv, LockImporting, Goto, Acquire, Release, lockVars, pkgVars
  <1>0. frames[t] # <<>> /\ Current(t) \in Pkgs
    BY CurrentPkg DEF CallInv
  <1>1. TypeOK'
    BY <1>0 DEF TypeOK, PCs, Running, CallInv
  <1>2. CallInv'
    BY <1>0 DEF TypeOK, CallInv, WaitInv
  <1>3. LockInv'
    BY <1>0 DEF TypeOK, CallInv, LockInv, Writing, WaitInv
  <1>4. TableInv'
    BY <1>0 DEF TypeOK, CallInv, TableInv, StageInv
  <1>5. StageInv'
    BY <1>0 DEF TypeOK, CallInv, LockInv, Writing, TableInv, StageInv, WaitInv, Current
  <1>6. FramesInv'
    BY FramesKept DEF TypeOK, TableInv, StageInv
  <1>7. WaitInv'
    BY <1>0 DEF TypeOK, CallInv, WaitInv, Current
  <1>8. ParentFirst'
    BY <1>0 DEF TypeOK, CallInv, TableInv, StageInv, ParentFirst
  <1> QED
    BY <1>1, <1>2, <1>3, <1>4, <1>5, <1>6, <1>7, <1>8

\* The test of the waiting loop.
LEMMA CheckPackagePreserves ==
  ASSUME ImportInv, NEW t \in Threads, CheckPackage(t)
  PROVE  ImportInv'
  <1> USE ImportAssumption DEF ImportInv, CheckPackage, Goto, Acquire, Release, lockVars, pkgVars
  <1>0. frames[t] # <<>> /\ Current(t) \in Pkgs
    BY CurrentPkg DEF CallInv
  <1>1. TypeOK'
    BY <1>0 DEF TypeOK, PCs, Running, CallInv
  <1>2. CallInv'
    BY <1>0 DEF TypeOK, CallInv, WaitInv
  <1>3. LockInv'
    BY <1>0 DEF TypeOK, CallInv, LockInv, Writing, WaitInv
  <1>4. TableInv'
    BY <1>0 DEF TypeOK, CallInv, TableInv, StageInv
  <1>5. StageInv'
    BY <1>0 DEF TypeOK, CallInv, LockInv, Writing, TableInv, StageInv, WaitInv, Current
  <1>6. FramesInv'
    BY FramesKept DEF TypeOK, TableInv, StageInv
  <1>7. WaitInv'
    BY <1>0 DEF TypeOK, CallInv, WaitInv, Current
  <1>8. ParentFirst'
    BY <1>0 DEF TypeOK, CallInv, TableInv, StageInv, ParentFirst
  <1> QED
    BY <1>1, <1>2, <1>3, <1>4, <1>5, <1>6, <1>7, <1>8

\* YogGC_free_from_gc before the wait.
LEMMA WaitFreePreserves ==
  ASSUME ImportInv, NEW t \in Threads, WaitFree(t)
  PROVE  ImportInv'
  <1> USE ImportAssumption DEF ImportInv, WaitFree, Goto, Acquire, Release, lockVars, pkgVars
  <1>0. frames[t] # <<>> /\ Current(t) \in Pkgs
    BY CurrentPkg DEF CallInv
  <1>1. TypeOK'
    BY <1>0 DEF TypeOK, PCs, Running, CallInv
  <1>2. CallInv'
    BY <1>0 DEF TypeOK, CallInv, WaitInv
  <1>3. LockInv'
    BY <1>0 DEF TypeOK, CallInv, LockInv, Writing, WaitInv
  <1>4. TableInv'
    BY <1>0 DEF TypeOK, CallInv, TableInv, StageInv
  <1>5. StageInv'
    BY <1>0 DEF TypeOK, CallInv, LockInv, Writing, TableInv, StageInv, WaitInv, Current
  <1>6. FramesInv'
    BY FramesKept DEF TypeOK, TableInv, StageInv
  <1>7. WaitInv'
    BY <1>0 DEF TypeOK, CallInv, WaitInv, Current
  <1>8. ParentFirst'
    BY <1>0 DEF TypeOK, CallInv, TableInv, StageInv, ParentFirst
  <1> QED
    BY <1>1, <1>2, <1>3, <1>4, <1>5, <1>6, <1>7, <1>8

\* pthread_cond_wait goes to sleep.
LEMMA WaitSleepPreserves ==
  ASSUME ImportInv, NEW t \in Threads, WaitSleep(t)
  PROVE  ImportInv'
  <1> USE ImportAssumption DEF ImportInv, WaitSleep, Goto, Acquire, Release, lockVars, pkgVars
  <1>0. frames[t] # <<>> /\ Current(t) \in Pkgs
    BY CurrentPkg DEF CallInv
  <1>1. TypeOK'
    BY <1>0 DEF TypeOK, PCs, Running, CallInv
  <1>2. CallInv'
    BY <1>0 DEF TypeOK, CallInv, WaitInv
  <1>3. LockInv'
    BY <1>0 DEF TypeOK, CallInv, LockInv, Writing, WaitInv
  <1>4. TableInv'
    BY <1>0 DEF TypeOK, CallInv, TableInv, StageInv
  <1>5. StageInv'
    BY <1>0 DEF TypeOK, CallInv, LockInv, Writing, TableInv, StageInv, WaitInv, Current
  <1>6. FramesInv'
    BY FramesKept DEF TypeOK, TableInv, StageInv
  <1>7. WaitInv'
    BY <1>0 DEF TypeOK, CallInv, WaitInv, Current
  <1>8. ParentFirst'
    BY <1>0 DEF TypeOK, CallInv, TableInv, StageInv, ParentFirst
  <1> QED
    BY <1>1, <1>2, <1>3, <1>4, <1>5, <1>6, <1>7, <1>8

\* pthread_cond_wait returns without a broadcast.
LEMMA SpuriousWakeupPreserves ==
  ASSUME ImportInv, NEW t \in Threads, SpuriousWakeup(t)
  PROVE  ImportInv'
  <1> USE ImportAssumption DEF ImportInv, SpuriousWakeup, Goto, Acquire, Release, lockVars, pkgVars
  <1>0. frames[t] # <<>> /\ Current(t) \in Pkgs
    BY CurrentPkg DEF CallInv
  <1>1. TypeOK'
    BY <1>0 DEF TypeOK, PCs, Running, CallInv
  <1>2. CallInv'
    BY <1>0 DEF TypeOK, CallInv, WaitInv
  <1>3. LockInv'
    BY <1>0 DEF TypeOK, CallInv, LockInv, Writing, WaitInv
  <1>4. TableInv'
    BY <1>0 DEF TypeOK, CallInv, TableInv, StageInv
  <1>5. StageInv'
    BY <1>0 DEF TypeOK, CallInv, LockInv, Writing, TableInv, StageInv, WaitInv, Current
  <1>6. FramesInv'
    BY FramesKept DEF TypeOK, TableInv, StageInv
  <1>7. WaitInv'
    BY <1>0 DEF TypeOK, CallInv, WaitInv, Current
  <1>8. ParentFirst'
    BY <1>0 DEF TypeOK, CallInv, TableInv, StageInv, ParentFirst
  <1> QED
    BY <1>1, <1>2, <1>3, <1>4, <1>5, <1>6, <1>7, <1>8

\* pthread_cond_wait returns with the mutex.
LEMMA WaitReturnPreserves ==
  ASSUME ImportInv, NEW t \in Threads, WaitReturn(t)
  PROVE  ImportInv'
  <1> USE ImportAssumption DEF ImportInv, WaitReturn, Goto, Acquire, Release, lockVars, pkgVars
  <1>0. frames[t] # <<>> /\ Current(t) \in Pkgs
    BY CurrentPkg DEF CallInv
  <1>1. TypeOK'
    BY <1>0 DEF TypeOK, PCs, Running, CallInv
  <1>2. CallInv'
    BY <1>0 DEF TypeOK, CallInv, WaitInv
  <1>3. LockInv'
    BY <1>0 DEF TypeOK, CallInv, LockInv, Writing, WaitInv
  <1>4. TableInv'
    BY <1>0 DEF TypeOK, CallInv, TableInv, StageInv
  <1>5. StageInv'
    BY <1>0 DEF TypeOK, CallInv, LockInv, Writing, TableInv, StageInv, WaitInv, Current
  <1>6. FramesInv'
    BY FramesKept DEF TypeOK, TableInv, StageInv
  <1>7. WaitInv'
    BY <1>0 DEF TypeOK, CallInv, WaitInv, Current
  <1>8. ParentFirst'
    BY <1>0 DEF TypeOK, CallInv, TableInv, StageInv, ParentFirst
  <1> QED
    BY <1>1, <1>2, <1>3, <1>4, <1>5, <1>6, <1>7, <1>8

\* YogGC_bind_to_gc after the wait.
LEMMA WaitBindPreserves ==
  ASSUME ImportInv, NEW t \in Threads, WaitBind(t)
  PROVE  ImportInv'
  <1> USE ImportAssumption DEF ImportInv, WaitBind, Goto, Acquire, Release, lockVars, pkgVars
  <1>0. frames[t] # <<>> /\ Current(t) \in Pkgs
    BY CurrentPkg DEF CallInv
  <1>1. TypeOK'
    BY <1>0 DEF TypeOK, PCs, Running, CallInv
  <1>2. CallInv'
    BY <1>0 DEF TypeOK, CallInv, WaitInv
  <1>3. LockInv'
    BY <1>0 DEF TypeOK, CallInv, LockInv, Writing, WaitInv
  <1>4. TableInv'
    BY <1>0 DEF TypeOK, CallInv, TableInv, StageInv
  <1>5. StageInv'
    BY <1>0 DEF TypeOK, CallInv, LockInv, Writing, TableInv, StageInv, WaitInv, Current
  <1>6. FramesInv'
    BY FramesKept DEF TypeOK, TableInv, StageInv
  <1>7. WaitInv'
    BY <1>0 DEF TypeOK, CallInv, WaitInv, Current
  <1>8. ParentFirst'
    BY <1>0 DEF TypeOK, CallInv, TableInv, StageInv, ParentFirst
  <1> QED
    BY <1>1, <1>2, <1>3, <1>4, <1>5, <1>6, <1>7, <1>8

\* On to the second lookup, without the lock.
LEMMA FindNothingPreserves ==
  ASSUME ImportInv, NEW t \in Threads, FindNothing(t)
  PROVE  ImportInv'
  <1> USE ImportAssumption DEF ImportInv, FindNothing, Goto, Acquire, Release, lockVars, pkgVars
  <1>0. frames[t] # <<>> /\ Current(t) \in Pkgs
    BY CurrentPkg DEF CallInv
  <1>1. TypeOK'
    BY <1>0 DEF TypeOK, PCs, Running, CallInv
  <1>2. CallInv'
    BY <1>0 DEF TypeOK, CallInv, WaitInv
  <1>3. LockInv'
    BY <1>0 DEF TypeOK, CallInv, LockInv, Writing, WaitInv
  <1>4. TableInv'
    BY <1>0 DEF TypeOK, CallInv, TableInv, StageInv
  <1>5. StageInv'
    BY <1>0 DEF TypeOK, CallInv, LockInv, Writing, TableInv, StageInv, WaitInv, Current
  <1>6. FramesInv'
    BY FramesKept DEF TypeOK, TableInv, StageInv
  <1>7. WaitInv'
    BY <1>0 DEF TypeOK, CallInv, WaitInv, Current
  <1>8. ParentFirst'
    BY <1>0 DEF TypeOK, CallInv, TableInv, StageInv, ParentFirst
  <1> QED
    BY <1>1, <1>2, <1>3, <1>4, <1>5, <1>6, <1>7, <1>8

\* The second lookup finds nothing, under the write lock.
LEMMA RecheckNothingPreserves ==
  ASSUME ImportInv, NEW t \in Threads, RecheckNothing(t)
  PROVE  ImportInv'
  <1> USE ImportAssumption DEF ImportInv, RecheckNothing, Goto, Acquire, Release, lockVars, pkgVars
  <1>0. frames[t] # <<>> /\ Current(t) \in Pkgs
    BY CurrentPkg DEF CallInv
  <1>1. TypeOK'
    BY <1>0 DEF TypeOK, PCs, Running, CallInv
  <1>2. CallInv'
    BY <1>0 DEF TypeOK, CallInv, WaitInv
  <1>3. LockInv'
    BY <1>0 DEF TypeOK, CallInv, LockInv, Writing, WaitInv
  <1>4. TableInv'
    BY <1>0 DEF TypeOK, CallInv, TableInv, StageInv
  <1>5. StageInv'
    BY <1>0 DEF TypeOK, CallInv, LockInv, Writing, TableInv, StageInv, WaitInv, Current
  <1>6. FramesInv'
    BY FramesKept DEF TypeOK, TableInv, StageInv
  <1>7. WaitInv'
    BY <1>0 DEF TypeOK, CallInv, WaitInv, Current
  <1>8. ParentFirst'
    BY <1>0 DEF TypeOK, CallInv, TableInv, StageInv, ParentFirst
  <1> QED
    BY <1>1, <1>2, <1>3, <1>4, <1>5, <1>6, <1>7, <1>8

\* The only place where a body is started: the placeholder is new, and the parent of
\* the package has been executed.
LEMMA RegisterPreserves ==
  ASSUME ImportInv, NEW t \in Threads, Register(t)
  PROVE  ImportInv'
  <1> USE ImportAssumption DEF ImportInv, Register, Goto, Acquire, Release, lockVars, pkgVars
  <1>0. frames[t] # <<>> /\ Current(t) \in Pkgs
    BY CurrentPkg DEF CallInv
  <1>1. TypeOK'
    BY <1>0 DEF TypeOK, PCs, Running, CallInv, TableInv, StageInv
  <1>2. CallInv'
    BY <1>0 DEF TypeOK, CallInv, WaitInv
  <1>3. LockInv'
    BY <1>0 DEF TypeOK, CallInv, LockInv, Writing, WaitInv
  <1>4. TableInv'
    BY <1>0 DEF TypeOK, CallInv, TableInv, StageInv
  <1>5. StageInv'
    BY <1>0 DEF TypeOK, CallInv, LockInv, Writing, TableInv, StageInv, WaitInv, Current
  <1>6. FramesInv'
    BY FramesKept DEF TypeOK, TableInv, StageInv
  <1>7. WaitInv'
    BY <1>0 DEF TypeOK, CallInv, WaitInv, Current
  <1>8. ParentFirst'
    <2> SUFFICES ASSUME NEW name \in Names, NEW i \in 2 .. Len(name), started'[name[i]] > 0
                 PROVE  pkg'[name[i - 1]]
      BY DEF ParentFirst
    <2> DEFINE f == Head(frames[t])
    <2>1. f \in Frames /\ f = frames[t][1] /\ 1 \in 1 .. Len(frames[t])
      BY <1>0 DEF TypeOK
    <2>2. name[i] \in Pkgs /\ name[i - 1] \in Pkgs
      OBVIOUS
    <2>3. pkg[name[i - 1]]
      <3>1. CASE name[i] = Current(t)
        <4>1. name[i] = f.name[f.pos] /\ f.name \in Names /\ f.pos \in 1 .. Len(f.name)
          BY <2>1, <3>1 DEF Frames, Current, Part
        <4>2. i \in 1 .. Len(name) /\ i > 1
          OBVIOUS
        <4>3. i = f.pos /\ name[i - 1] = f.name[i - 1]
          BY <4>1, <4>2, DottedNames
        <4> QED
          BY <2>1, <4>2, <4>3 DEF FramesInv
      <3>2. CASE name[i] # Current(t)
        <4>1. started'[name[i]] = started[name[i]]
          BY <2>2, <3>2 DEF TypeOK
        <4> QED
          BY <4>1 DEF ParentFirst
      <3> QED
        BY <3>1, <3>2
    <2>4. name[i - 1] # Current(t)
      BY <1>0, <2>3 DEF TypeOK, TableInv, StageInv
    <2> QED
      BY <2>2, <2>3, <2>4 DEF TypeOK
  <1> QED
    BY <1>1, <1>2, <1>3, <1>4, <1>5, <1>6, <1>7, <1>8

\* A body ends.
LEMMA EvalDonePreserves ==
  ASSUME ImportInv, NEW t \in Threads, EvalDone(t)
  PROVE  ImportInv'
  <1> USE ImportAssumption DEF ImportInv, EvalDone, Goto, Acquire, Release, lockVars, pkgVars
  <1>0. frames[t] # <<>> /\ Current(t) \in Pkgs
    BY CurrentPkg DEF CallInv
  <1>1. TypeOK'
    BY <1>0 DEF TypeOK, PCs, Running, CallInv
  <1>2. CallInv'
    BY <1>0 DEF TypeOK, CallInv, WaitInv
  <1>3. LockInv'
    BY <1>0 DEF TypeOK, CallInv, LockInv, Writing, WaitInv
  <1>4. TableInv'
    BY <1>0 DEF TypeOK, CallInv, TableInv, StageInv
  <1>5. StageInv'
    BY <1>0 DEF TypeOK, CallInv, LockInv, Writing, TableInv, StageInv, WaitInv, Current
  <1>6. FramesInv'
    BY FramesKept DEF TypeOK, TableInv, StageInv
  <1>7. WaitInv'
    BY <1>0 DEF TypeOK, CallInv, WaitInv, Current
  <1>8. ParentFirst'
    BY <1>0 DEF TypeOK, CallInv, TableInv, StageInv, ParentFirst
  <1> QED
    BY <1>1, <1>2, <1>3, <1>4, <1>5, <1>6, <1>7, <1>8

\* A body raises: back to the call that imported the package.
LEMMA EvalRaisesPreserves ==
  ASSUME ImportInv, NEW t \in Threads, EvalRaises(t)
  PROVE  ImportInv'
  <1> USE ImportAssumption DEF ImportInv, EvalRaises, Goto, Acquire, Release, lockVars, pkgVars
  <1>0. frames[t] # <<>> /\ Current(t) \in Pkgs
    BY CurrentPkg DEF CallInv
  <1>1. TypeOK'
    BY <1>0 DEF TypeOK, PCs, Running, CallInv
  <1>2. CallInv'
    <2>1. /\ Tail(frames[t]) \in Seq(Frames)
          /\ Len(Tail(frames[t])) = Len(frames[t]) - 1
          /\ (Tail(frames[t]) = <<>>) = (Len(frames[t]) = 1)
          /\ \A i \in 1 .. Len(Tail(frames[t])) : Tail(frames[t])[i] = frames[t][i + 1]
          /\ Len(frames[t]) # 1 => Head(Tail(frames[t])) = frames[t][2] /\ 2 \in 2 .. Len(frames[t])
      BY <1>0, PopFrame DEF TypeOK
    <2>2. frames'[t] = Tail(frames[t]) /\ \A s \in Threads \ {t} : frames'[s] = frames[s]
      BY DEF TypeOK
    <2>3. pc'[t] = (IF Len(frames[t]) = 1 THEN "idle" ELSE "eval")
          /\ \A s \in Threads \ {t} : pc'[s] = pc[s]
      BY DEF TypeOK
    <2> SUFFICES ASSUME NEW s \in Threads
                 PROVE  /\ (pc'[s] = "idle") = (frames'[s] = <<>>)
                        /\ pc'[s] \in {"find", "recheck", "publish"} => goal'[s] = pc'[s]
                        /\ pc'[s] = "register" => goal'[s] = "recheck"
      BY DEF CallInv
    <2>4. CASE s = t
      <3>1. CASE Len(frames[t]) = 1
        <4>1. pc'[t] = "idle" /\ frames'[t] = <<>>
          BY <2>1, <2>2, <2>3, <3>1
        <4> QED
          BY <2>4, <4>1
      <3>2. CASE Len(frames[t]) # 1
        BY <2>1, <2>2, <2>3, <2>4, <3>2
      <3> QED
        BY <3>1, <3>2
    <2>5. CASE s # t
      BY <2>2, <2>3, <2>5 DEF CallInv
    <2> QED
      BY <2>4, <2>5
  <1>3. LockInv'
    BY <1>0 DEF TypeOK, CallInv, LockInv, Writing, WaitInv
  <1>4. TableInv'
    BY <1>0 DEF TypeOK, CallInv, TableInv, StageInv
  <1>5. StageInv'
    <2>1. /\ Tail(frames[t]) \in Seq(Frames)
          /\ Len(Tail(frames[t])) = Len(frames[t]) - 1
          /\ (Tail(frames[t]) = <<>>) = (Len(frames[t]) = 1)
          /\ \A i \in 1 .. Len(Tail(frames[t])) : Tail(frames[t])[i] = frames[t][i + 1]
          /\ Len(frames[t]) # 1 => Head(Tail(frames[t])) = frames[t][2] /\ 2 \in 2 .. Len(frames[t])
      BY <1>0, PopFrame DEF TypeOK
    <2>2. frames'[t] = Tail(frames[t]) /\ \A s \in Threads \ {t} : frames'[s] = frames[s]
      BY DEF TypeOK
    <2>3. pc'[t] = (IF Len(frames[t]) = 1 THEN "idle" ELSE "eval")
          /\ \A s \in Threads \ {t} : pc'[s] = pc[s]
      BY DEF TypeOK
    <2> SUFFICES ASSUME NEW s \in Threads
                 PROVE  /\ pc'[s] = "register" => pkgs[Current(s)'] = "none"
                        /\ pc'[s] = "eval" => pkgs[Current(s)'] # "none"
                        /\ \/ pc'[s] \in {"got", "publish"}
                           \/ pc'[s] \in {"free", "lock", "bind"} /\ goal'[s] = "publish"
                           => pkg[Current(s)']
      BY DEF StageInv, Current
    <2>4. CASE s = t
      <3>1. CASE Len(frames[t]) = 1
        BY <2>3, <2>4, <3>1
      <3>2. CASE Len(frames[t]) # 1
        <4>1. pkgs[Part(frames[t][2])] # "none"
          BY <2>1, <3>2 DEF FramesInv
        <4> QED
          BY <2>1, <2>2, <2>3, <2>4, <3>2, <4>1, ZenonT(30) DEF Current
      <3> QED
        BY <3>1, <3>2
    <2>5. CASE s # t
      BY <2>2, <2>3, <2>5 DEF StageInv, Current
    <2> QED
      BY <2>4, <2>5
  <1>6. FramesInv'
    <2>1. /\ Tail(frames[t]) \in Seq(Frames)
          /\ Len(Tail(frames[t])) = Len(frames[t]) - 1
          /\ (Tail(frames[t]) = <<>>) = (Len(frames[t]) = 1)
          /\ \A i \in 1 .. Len(Tail(frames[t])) : Tail(frames[t])[i] = frames[t][i + 1]
          /\ Len(frames[t]) # 1 => Head(Tail(frames[t])) = frames[t][2] /\ 2 \in 2 .. Len(frames[t])
      BY <1>0, PopFrame DEF TypeOK
    <2>2. frames'[t] = Tail(frames[t]) /\ \A s \in Threads \ {t} : frames'[s] = frames[s]
      BY DEF TypeOK
    <2>3. pc'[t] = (IF Len(frames[t]) = 1 THEN "idle" ELSE "eval")
          /\ \A s \in Threads \ {t} : pc'[s] = pc[s]
      BY DEF TypeOK
    <2> SUFFICES ASSUME NEW s \in Threads, NEW i \in 1 .. Len(frames'[s])
                 PROVE  /\ i > 1 => pkgs'[Part(frames'[s][i])] # "none"
                        /\ frames'[s][i].pos > 1 => pkg'[frames'[s][i].name[frames'[s][i].pos - 1]]
      BY <1>1, FramesOf DEF FramesInv, Part
    <2>4. CASE s = t
      <3>1. i + 1 \in 2 .. Len(frames[t]) /\ frames'[s][i] = frames[t][i + 1]
        BY <2>1, <2>2, <2>4 DEF TypeOK
      <3>2. i + 1 \in 1 .. Len(frames[t])
        BY <3>1 DEF TypeOK
      <3> QED
        BY <3>1, <3>2 DEF FramesInv
    <2>5. CASE s # t
      BY <2>2, <2>3, <2>5 DEF FramesInv
    <2> QED
      BY <2>4, <2>5
  <1>7. WaitInv'
    BY <1>0 DEF TypeOK, CallInv, WaitInv, Current
  <1>8. ParentFirst'
    BY <1>0 DEF TypeOK, CallInv, TableInv, StageInv, ParentFirst
  <1> QED
    BY <1>1, <1>2, <1>3, <1>4, <1>5, <1>6, <1>7, <1>8

\* The placeholder is replaced and its waiters are woken.
LEMMA PublishPreserves ==
  ASSUME ImportInv, NEW t \in Threads, Publish(t)
  PROVE  ImportInv'
  <1> USE ImportAssumption DEF ImportInv, Publish, Goto, Acquire, Release, lockVars, pkgVars
  <1>0. frames[t] # <<>> /\ Current(t) \in Pkgs
    BY CurrentPkg DEF CallInv
  <1>1. TypeOK'
    BY <1>0 DEF TypeOK, PCs, Running, CallInv
  <1>2. CallInv'
    BY <1>0 DEF TypeOK, CallInv, WaitInv
  <1>3. LockInv'
    BY <1>0 DEF TypeOK, CallInv, LockInv, Writing, WaitInv
  <1>4. TableInv'
    BY <1>0 DEF TypeOK, CallInv, TableInv, StageInv
  <1>5. StageInv'
    BY <1>0 DEF TypeOK, CallInv, LockInv, Writing, TableInv, StageInv, WaitInv, Current
  <1>6. FramesInv'
    BY FramesKept DEF TypeOK, TableInv, StageInv
  <1>7. WaitInv'
    BY <1>0 DEF TypeOK, CallInv, WaitInv, Current
  <1>8. ParentFirst'
    BY <1>0 DEF TypeOK, CallInv, TableInv, StageInv, ParentFirst
  <1> QED
    BY <1>1, <1>2, <1>3, <1>4, <1>5, <1>6, <1>7, <1>8

\* The next part of the name, or back to the caller.
LEMMA GotPackagePreserves ==
  ASSUME ImportInv, NEW t \in Threads, GotPackage(t)
  PROVE  ImportInv'
  <1> USE ImportAssumption DEF ImportInv
  <1> DEFINE f == Head(frames[t])
             n == [frames[t] EXCEPT ![1].pos = @ + 1]
  <1>1. frames[t] # <<>> /\ Current(t) \in Pkgs /\ frames[t] \in Seq(Frames)
    BY CurrentPkg DEF CallInv, GotPackage, TypeOK
  <1>2. f \in Frames /\ f = frames[t][1] /\ Len(frames[t]) \in Nat \ {0}
    BY <1>1, EmptySeq
  <1>3. pkg[Current(t)]
    BY DEF GotPackage, StageInv
  <1>4. UNCHANGED <<lockVars, pkgs, pkg, started, gc>>
    BY DEF GotPackage
  <1>5. attrs' \in SUBSET Pkgs /\ \A p \in attrs' : pkg[p]
    BY <1>1, <1>3 DEF GotPackage, TypeOK, TableInv
  <1>6. TableInv' /\ ParentFirst'
    BY <1>4, <1>5 DEF TableInv, ParentFirst, pkgVars
  <1>7. ASSUME \A s \in Threads \ {t} : /\ pc'[s] = pc[s] /\ goal'[s] = goal[s]
                                        /\ frames'[s] = frames[s],
               pc' = [pc EXCEPT ![t] = pc'[t]], pc'[t] \in {"free", "idle", "eval"},
               goal' \in [Threads -> {"find", "recheck", "publish"}],
               pc'[t] = "free" => goal'[t] = "find",
               frames' = [frames EXCEPT ![t] = frames'[t]], frames'[t] \in Seq(Frames),
               (pc'[t] = "idle") = (frames'[t] = <<>>),
               pc'[t] = "eval" => pkgs[Current(t)'] # "none",
               \A i \in 1 .. Len(frames'[t]) :
                   /\ i > 1 => pkgs[Part(frames'[t][i])] # "none"
                   /\ frames'[t][i].pos > 1 => pkg[frames'[t][i].name[frames'[t][i].pos - 1]]
        PROVE  ImportInv'
    <2>1. TypeOK'
      <3>0. pc \in [Threads -> PCs] /\ frames \in [Threads -> Seq(Frames)] /\ pc'[t] \in PCs
        BY <1>7 DEF TypeOK, PCs, Running
      <3>1. pc' \in [Threads -> PCs] /\ frames' \in [Threads -> Seq(Frames)]
        BY <1>7, <3>0
      <3> QED
        BY <1>4, <1>5, <1>7, <3>1 DEF TypeOK, lockVars, pkgVars
    <2>2. CallInv'
      BY <1>7 DEF CallInv
    <2>3. LockInv'
      BY <1>4, <1>7 DEF LockInv, Writing, lockVars
    <2>4. StageInv'
      BY <1>4, <1>7, SMTT(30) DEF StageInv, Current, GotPackage
    <2>5. FramesInv'
      <3> SUFFICES ASSUME NEW s \in Threads, NEW i \in 1 .. Len(frames'[s])
                   PROVE  /\ i > 1 => pkgs[Part(frames'[s][i])] # "none"
                          /\ frames'[s][i].pos > 1 => pkg[frames'[s][i].name[frames'[s][i].pos - 1]]
        BY <1>4, <2>1, FramesOf DEF FramesInv, Part
      <3>1. CASE s = t
        BY <1>7, <3>1
      <3>2. CASE s # t
        BY <1>7, <3>2 DEF FramesInv, TypeOK
      <3> QED
        BY <3>1, <3>2
    <2>6. WaitInv'
      <3>1. waiters' = waiters /\ pc[t] = "got"
        BY <1>4 DEF lockVars, GotPackage
      <3>2. \A p \in Pkgs : \A s \in waiters[p] : s \in Threads /\ s # t /\ pc[s] = "sleep" /\ Current(s) = p
        BY <3>1 DEF TypeOK, WaitInv
      <3> QED
        BY <1>7, <3>1, <3>2 DEF WaitInv, Current
    <2> QED
      BY <1>6, <2>1, <2>2, <2>3, <2>4, <2>5, <2>6
  <1>8. CASE f.pos < Len(f.name)
    <2>1. /\ n \in Seq(Frames) /\ n # <<>> /\ Len(n) = Len(frames[t])
          /\ n[1] = [name |-> f.name, pos |-> f.pos + 1]
          /\ \A i \in 2 .. Len(frames[t]) : n[i] = frames[t][i]
      BY <1>1, <1>8, NextPart
    <2> HIDE DEF n
    <2>2. frames' = [frames EXCEPT ![t] = n] /\ Goto(t, "free") /\ goal' = [goal EXCEPT ![t] = "find"]
      BY <1>2, <1>8 DEF GotPackage, Acquire, n, Frames
    <2>3. \A i \in 1 .. Len(n) : /\ i > 1 => pkgs[Part(n[i])] # "none"
                                 /\ n[i].pos > 1 => pkg[n[i].name[n[i].pos - 1]]
      <3> SUFFICES ASSUME NEW i \in 1 .. Len(n)
                   PROVE  /\ i > 1 => pkgs[Part(n[i])] # "none"
                          /\ n[i].pos > 1 => pkg[n[i].name[n[i].pos - 1]]
        OBVIOUS
      <3>1. CASE i = 1
        <4>1. n[i].name = f.name /\ n[i].pos - 1 = f.pos
          BY <1>2, <2>1, <3>1 DEF Frames
        <4>2. n[i].name[n[i].pos - 1] = Current(t)
          BY <4>1 DEF Current, Part
        <4> QED
          BY <1>3, <3>1, <4>2
      <3>2. CASE i > 1
        <4>1. i \in 2 .. Len(frames[t]) /\ i \in 1 .. Len(frames[t])
          BY <1>2, <2>1, <3>2
        <4>2. n[i] = frames[t][i]
          BY <2>1, <4>1
        <4> QED
          BY <4>1, <4>2 DEF FramesInv
      <3> QED
        BY <1>2, <2>1, <3>1, <3>2
    <2>4. /\ frames'[t] = n /\ pc'[t] = "free" /\ goal'[t] = "find"
          /\ pc' = [pc EXCEPT ![t] = "free"]
          /\ \A s \in Threads \ {t} : pc'[s] = pc[s] /\ goal'[s] = goal[s] /\ frames'[s] = frames[s]
      BY <2>2 DEF TypeOK, Goto
    <2>5. goal' \in [Threads -> {"find", "recheck", "publish"}]
      BY <2>2 DEF TypeOK
    <2>6. \A i \in 1 .. Len(frames'[t]) :
             /\ i > 1 => pkgs[Part(frames'[t][i])] # "none"
             /\ frames'[t][i].pos > 1 => pkg[frames'[t][i].name[frames'[t][i].pos - 1]]
      BY <2>3, <2>4
    <2>7. frames' = [frames EXCEPT ![t] = frames'[t]] /\ pc' = [pc EXCEPT ![t] = pc'[t]]
      BY <2>2, <2>4
    <2>8. (pc'[t] = "idle") = (frames'[t] = <<>>)
      BY <2>1, <2>4
    <2> QED
      BY <1>7, <2>1, <2>4, <2>5, <2>6, <2>7, <2>8
  <1>9. CASE f.pos = Len(f.name)
    <2>1. /\ Tail(frames[t]) \in Seq(Frames)
          /\ Len(Tail(frames[t])) = Len(frames[t]) - 1
          /\ (Tail(frames[t]) = <<>>) = (Len(frames[t]) = 1)
          /\ \A i \in 1 .. Len(Tail(frames[t])) : Tail(frames[t])[i] = frames[t][i + 1]
          /\ Len(frames[t]) # 1 => Head(Tail(frames[t])) = frames[t][2] /\ 2 \in 2 .. Len(frames[t])
      BY <1>1, PopFrame
    <2>2. /\ frames' = [frames EXCEPT ![t] = Tail(@)] /\ goal' = goal
          /\ Goto(t, IF Len(frames[t]) = 1 THEN "idle" ELSE "eval")
      BY <1>2, <1>9 DEF GotPackage, Frames
    <2>3. /\ frames'[t] = Tail(frames[t]) /\ pc'[t] \in {"idle", "eval"}
          /\ pc' = [pc EXCEPT ![t] = pc'[t]] /\ frames' = [frames EXCEPT ![t] = frames'[t]]
          /\ \A s \in Threads \ {t} : pc'[s] = pc[s] /\ goal'[s] = goal[s] /\ frames'[s] = frames[s]
          /\ (pc'[t] = "idle") = (Len(frames[t]) = 1)
      BY <2>2 DEF TypeOK, Goto
    <2>4. \A i \in 1 .. Len(Tail(frames[t])) :
             /\ pkgs[Part(Tail(frames[t])[i])] # "none"
             /\ Tail(frames[t])[i].pos > 1
                => pkg[Tail(frames[t])[i].name[Tail(frames[t])[i].pos - 1]]
      <3> SUFFICES ASSUME NEW i \in 1 .. Len(Tail(frames[t]))
                   PROVE  /\ pkgs[Part(frames[t][i + 1])] # "none"
                          /\ frames[t][i + 1].pos > 1
                             => pkg[frames[t][i + 1].name[frames[t][i + 1].pos - 1]]
        BY <2>1
      <3>1. i + 1 \in 2 .. Len(frames[t]) /\ i + 1 \in 1 .. Len(frames[t])
        BY <1>2, <2>1
      <3> QED
        BY <3>1 DEF FramesInv
    <2>5. pc'[t] = "eval" => pkgs[Current(t)'] # "none"
      <3> SUFFICES ASSUME Len(frames[t]) # 1  PROVE pkgs[Part(frames[t][2])] # "none"
        BY <2>1, <2>3 DEF Current
      <3>1. 2 \in 2 .. Len(frames[t])
        BY <2>1
      <3> QED
        BY <3>1 DEF FramesInv
    <2> QED
      BY <1>7, <2>1, <2>2, <2>3, <2>4, <2>5 DEF TypeOK
  <1> QED
    BY <1>2, <1>8, <1>9 DEF Frames, GotPackage


\* A new call.
LEMMA ImportPreserves ==
  ASSUME ImportInv, NEW t \in Threads, NEW name \in Names, Import(t, name)
  PROVE  ImportInv'
  <1> USE ImportAssumption DEF ImportInv, Import, Goto, Acquire, Release, lockVars, pkgVars
  <1>0. \A s \in Threads : frames[s] # <<>> => Current(s) \in Pkgs
    BY CurrentPkg
  <1> DEFINE f == [name |-> name, pos |-> 1]
  <1>a. /\ <<f>> \o frames[t] \in Seq(Frames) /\ <<f>> \o frames[t] # <<>>
        /\ Len(<<f>> \o frames[t]) = Len(frames[t]) + 1 /\ Len(frames[t]) \in Nat
        /\ (<<f>> \o frames[t])[1] = f
        /\ \A i \in 2 .. Len(<<f>> \o frames[t]) : (<<f>> \o frames[t])[i] = frames[t][i - 1]
    <2>1. f \in Frames
      <3>1. name \in Seq(Pkgs) /\ Len(name) # 0
        BY EmptySeq
      <3> QED
        BY <3>1 DEF Frames
    <2>2. frames[t] \in Seq(Frames)
      BY DEF TypeOK
    <2> QED
      BY <2>1, <2>2, PushFrame
  <1>b. frames' = [frames EXCEPT ![t] = <<f>> \o frames[t]]
    OBVIOUS
  <1>1. TypeOK'
    BY <1>a, <1>b DEF TypeOK, PCs, Running, CallInv
  <1>2. CallInv'
    BY <1>0, <1>a DEF TypeOK, CallInv, WaitInv
  <1>3. LockInv'
    BY <1>0 DEF TypeOK, CallInv, LockInv, Writing, WaitInv
  <1>4. TableInv'
    BY <1>0 DEF TypeOK, CallInv, TableInv, StageInv
  <1>5. StageInv'
    BY <1>0 DEF TypeOK, CallInv, LockInv, Writing, TableInv, StageInv, WaitInv, Current
  <1>6. FramesInv'
    <2>1. frames'[t] = <<f>> \o frames[t] /\ \A s \in Threads \ {t} : frames'[s] = frames[s]
      BY <1>b DEF TypeOK
    <2> SUFFICES ASSUME NEW s \in Threads, NEW i \in 1 .. Len(frames'[s])
                 PROVE  /\ i > 1 => pkgs[Part(frames'[s][i])] # "none"
                        /\ frames'[s][i].pos > 1 => pkg[frames'[s][i].name[frames'[s][i].pos - 1]]
      BY <1>1, FramesOf DEF FramesInv, Part
    <2>2. CASE s = t
      <3>1. CASE i = 1
        BY <1>a, <2>1, <2>2, <3>1
      <3>2. CASE i > 1
        <4>1. /\ frames'[s][i] = frames[t][i - 1]
              /\ i - 1 \in 1 .. Len(frames[t])
              /\ i = 2 \/ i - 1 \in 2 .. Len(frames[t])
          BY <1>a, <2>1, <2>2, <3>2 DEF TypeOK
        <4>2. CASE i = 2
          <5>1. frames'[s][i] = frames[t][1] /\ 1 \in 1 .. Len(frames[t]) /\ frames[t] # <<>>
            BY <1>a, <4>1, <4>2, EmptySeq
          <5>2. pc[t] = "eval" /\ Part(frames[t][1]) = Current(t)
            BY <5>1 DEF CallInv, Current, TypeOK
          <5>3. pkgs[Part(frames'[s][i])] # "none"
            BY <5>1, <5>2 DEF StageInv
          <5> QED
            BY <5>1, <5>3 DEF FramesInv
        <4> QED
          BY <4>1, <4>2 DEF FramesInv
      <3>3. i = 1 \/ i > 1
        BY <1>a, <2>1, <2>2
      <3> QED
        BY <3>1, <3>2, <3>3
    <2>3. CASE s # t
      BY <2>1, <2>3 DEF FramesInv, TypeOK
    <2> QED
      BY <2>2, <2>3
  <1>7. WaitInv'
    BY <1>0 DEF TypeOK, CallInv, WaitInv, Current
  <1>8. ParentFirst'
    BY <1>0 DEF TypeOK, CallInv, TableInv, StageInv, ParentFirst
  <1> QED
    BY <1>1, <1>2, <1>3, <1>4, <1>5, <1>6, <1>7, <1>8

\* A collection is asked for.
LEMMA AskForGCPreserves ==
  ASSUME ImportInv, NEW t \in Threads, AskForGC(t)
  PROVE  ImportInv'
  <1> USE ImportAssumption DEF ImportInv, AskForGC, Goto, Acquire, Release, lockVars, pkgVars
  <1>0. \A s \in Threads : frames[s] # <<>> => Current(s) \in Pkgs
    BY CurrentPkg
  <1>1. TypeOK'
    BY <1>0 DEF TypeOK, PCs, Running, CallInv
  <1>2. CallInv'
    BY <1>0 DEF TypeOK, CallInv, WaitInv
  <1>3. LockInv'
    BY <1>0 DEF TypeOK, CallInv, LockInv, Writing, WaitInv
  <1>4. TableInv'
    BY <1>0 DEF TypeOK, CallInv, TableInv, StageInv
  <1>5. StageInv'
    BY <1>0 DEF TypeOK, CallInv, LockInv, Writing, TableInv, StageInv, WaitInv, Current
  <1>6. FramesInv'
    BY FramesKept DEF TypeOK, TableInv, StageInv
  <1>7. WaitInv'
    BY <1>0 DEF TypeOK, CallInv, WaitInv, Current
  <1>8. ParentFirst'
    BY <1>0 DEF TypeOK, CallInv, TableInv, StageInv, ParentFirst
  <1> QED
    BY <1>1, <1>2, <1>3, <1>4, <1>5, <1>6, <1>7, <1>8

\* A collection ends.
LEMMA EndGCPreserves ==
  ASSUME ImportInv, NEW t \in Threads, EndGC(t)
  PROVE  ImportInv'
  <1> USE ImportAssumption DEF ImportInv, EndGC, Goto, Acquire, Release, lockVars, pkgVars
  <1>0. \A s \in Threads : frames[s] # <<>> => Current(s) \in Pkgs
    BY CurrentPkg
  <1>1. TypeOK'
    BY <1>0 DEF TypeOK, PCs, Running, CallInv
  <1>2. CallInv'
    BY <1>0 DEF TypeOK, CallInv, WaitInv
  <1>3. LockInv'
    BY <1>0 DEF TypeOK, CallInv, LockInv, Writing, WaitInv
  <1>4. TableInv'
    BY <1>0 DEF TypeOK, CallInv, TableInv, StageInv
  <1>5. StageInv'
    BY <1>0 DEF TypeOK, CallInv, LockInv, Writing, TableInv, StageInv, WaitInv, Current
  <1>6. FramesInv'
    BY FramesKept DEF TypeOK, TableInv, StageInv
  <1>7. WaitInv'
    BY <1>0 DEF TypeOK, CallInv, WaitInv, Current
  <1>8. ParentFirst'
    BY <1>0 DEF TypeOK, CallInv, TableInv, StageInv, ParentFirst
  <1> QED
    BY <1>1, <1>2, <1>3, <1>4, <1>5, <1>6, <1>7, <1>8

LEMMA InitInv == Init => ImportInv
  <1> SUFFICES ASSUME Init PROVE ImportInv
    OBVIOUS
  <1> USE ImportAssumption DEF Init
  <1>1. TypeOK
    BY EmptySeq DEF TypeOK, PCs, Running
  <1>2. CallInv /\ LockInv /\ TableInv /\ StageInv /\ WaitInv
    BY DEF CallInv, LockInv, Writing, TableInv, StageInv, WaitInv
  <1>3. FramesInv
    BY DEF FramesInv
  <1>4. ParentFirst
    BY DEF ParentFirst
  <1> QED
    BY <1>1, <1>2, <1>3, <1>4 DEF ImportInv

\* Each action preserves the invariant, whichever thread takes it.
LEMMA NextInv == ImportInv /\ [Next]_vars => ImportInv'
  <1> SUFFICES ASSUME ImportInv, [Next]_vars PROVE ImportInv'
    OBVIOUS
  <1>1. ASSUME NEW t \in Threads, Step(t) PROVE ImportInv'
    BY <1>1, FreeFromGCPreserves, TakeLockPreserves, BindToGCPreserves, FindPackagePreserves,
       FindImportingPreserves, LockImportingPreserves, CheckPackagePreserves,
       WaitFreePreserves, WaitSleepPreserves, WaitReturnPreserves, WaitBindPreserves,
       FindNothingPreserves, RecheckNothingPreserves, RegisterPreserves, EvalDonePreserves,
       PublishPreserves, GotPackagePreserves, EndGCPreserves DEF Step
  <1>2. ASSUME NEW t \in Threads, Choice(t) PROVE ImportInv'
    BY <1>2, ImportPreserves, EvalRaisesPreserves, SpuriousWakeupPreserves, AskForGCPreserves DEF Choice
  <1>3. CASE UNCHANGED vars
    <2> USE <1>3 DEF vars, lockVars, pkgVars, ImportInv
    <2>1. TypeOK' /\ CallInv' /\ LockInv'
      BY DEF TypeOK, CallInv, LockInv, Writing
    <2>2. TableInv' /\ StageInv' /\ WaitInv' /\ ParentFirst'
      BY DEF TableInv, StageInv, WaitInv, ParentFirst, Current
    <2>3. FramesInv'
      BY DEF FramesInv
    <2> QED
      BY <2>1, <2>2, <2>3
  <1> QED
    BY <1>1, <1>2, <1>3 DEF Next

\* In every reachable state of import, with any number of threads, packages and
\* names, the locks, the placeholders and the stages of all threads agree.
THEOREM ImportCorrect == Spec => []ImportInv
  BY InitInv, NextInv, PTL DEF Spec

\* Any number of threads that import a package at the same time, and threads that
\* import it again after it raised, start its body once.
THEOREM Once == Spec => []ExecutedOnce
  <1>1. ImportInv => ExecutedOnce
    BY DEF ImportInv, TableInv, ExecutedOnce
  <1> QED
    BY <1>1, ImportCorrect, PTL

\* What import_package returns, and what is an attribute of its parent, has been
\* executed to its end.
THEOREM WholePackages == Spec => []NeverHalfImported
  <1>1. ImportInv => NeverHalfImported
    <2> SUFFICES ASSUME ImportInv PROVE NeverHalfImported
      OBVIOUS
    <2>1. ASSUME NEW t \in Threads, pc[t] = "got" PROVE pkg[Current(t)] /\ pkgs[Current(t)] # "none"
      <3>1. pkg[Current(t)]
        BY <2>1 DEF ImportInv, StageInv
      <3>2. Current(t) \in Pkgs
        BY <2>1, CurrentPkg DEF ImportInv, CallInv
      <3> QED
        BY <3>1, <3>2 DEF ImportInv, TableInv
    <2> QED
      BY <2>1 DEF NeverHalfImported, ImportInv, TableInv
  <1> QED
    BY <1>1, ImportCorrect, PTL

\* The body of "a.b" starts after that of "a" has ended, whoever imports them.
THEOREM ParentsFirst == Spec => []ParentFirst
  <1>1. ImportInv => ParentFirst
    BY DEF ImportInv
  <1> QED
    BY <1>1, ImportCorrect, PTL

\* No step replaces a package that is in vm->pkgs: the placeholder is only ever
\* put where there is nothing.
THEOREM PackagesNeverReplaced == Spec => PackagesStay
  <1> DEFINE Stay == \A p \in Pkgs : pkgs[p] = "package" => pkgs'[p] = "package"
  <1>1. ImportInv /\ [Next]_vars => [Stay]_vars
    <2> SUFFICES ASSUME ImportInv, Next, NEW p \in Pkgs, pkgs[p] = "package"
                 PROVE  pkgs'[p] = "package"
      OBVIOUS
    <2>1. PICK t \in Threads : Step(t) \/ Choice(t)
      BY DEF Next
    <2>2. pkgs \in [Pkgs -> {"none", "importing", "package"}]
      BY DEF ImportInv, TypeOK
    <2>3. CASE Register(t)
      <3>1. pkgs[Current(t)] = "none" /\ pkgs' = [pkgs EXCEPT ![Current(t)] = "importing"]
        BY <2>3 DEF Register, ImportInv, StageInv
      <3> QED
        BY <2>2, <3>1
    <2>4. CASE Publish(t)
      BY <2>2, <2>4 DEF Publish
    <2>5. CASE ~Register(t) /\ ~Publish(t)
      <3>1. pkgs' = pkgs
        BY <2>1, <2>5 DEF Step, Choice, pkgVars, FreeFromGC, TakeLock, BindToGC, FindPackage,
           FindImporting, LockImporting, CheckPackage, WaitFree, WaitSleep, WaitReturn, WaitBind,
           FindNothing, RecheckNothing, EvalDone, GotPackage, EndGC, Import, EvalRaises,
           SpuriousWakeup, AskForGC
      <3> QED
        BY <3>1
    <2> QED
      BY <2>3, <2>4, <2>5
  <1> QED
    BY <1>1, ImportCorrect, PTL DEF Spec, PackagesStay
=============================================================================
