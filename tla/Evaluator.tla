----------------------------- MODULE Evaluator -----------------------------
(***************************************************************************)
(* Calls and jumps of the evaluator (eval.c, insts.def, callable.c,        *)
(* frame.c, handle.h) in one thread.  Four stacks grow and shrink together *)
(* when scripts call native functions that call scripts again, and an      *)
(* exception, a break or a return out of a block cuts all of them with     *)
(* longjmp:                                                                *)
(*   - the frames of Yog, a list through prev from env->frame;             *)
(*   - the activations of C functions;                                     *)
(*   - jmp_buf_list, one buffer for every C activation that called setjmp; *)
(*   - the scopes of handles.                                              *)
(* Frames that have returned are kept in pools and used again.             *)
(*                                                                         *)
(* Of the code of a function only the jumps and calls are kept; in which   *)
(* frame the pc is in the range of an entry of the exception table is      *)
(* chosen when an exception is raised.  Values are left out.               *)
(***************************************************************************)
EXTENDS Naturals, Sequences, SequencesExt

CONSTANTS MaxFrames,    \* bound: frame objects that are ever allocated
          MaxFuncs,     \* bound: function objects
          MaxDepth,     \* bound: C activations
          PoolMax       \* PoolMax[type]: FINISH_FRAMES_MAX and so on

ASSUME BoundsNat == /\ {MaxFrames, MaxFuncs, MaxDepth} \subseteq Nat
                    /\ PoolMax \in [{"C", "FINISH", "SCRIPT"} -> Nat]

VARIABLES frames,   \* frames[f]: the frame object f
          cur,      \* env->frame
          pool,     \* pool[type]: the frames of a type that are kept for reuse
          cstack,   \* kinds of the C activations, the oldest first
          jmps,     \* jmp_buf_list, the oldest first
          scopes,   \* open handle scopes
          funcs,    \* function objects; any code may hold any of them, and those
                    \* with the same fields are one (to make it again changes nothing)
          mode,     \* "run", "jump" while longjmp unwinds, "end"; the model stops in
                    \* "crossed" (see LandJump) and in "swallowed" (see LandCompare)
          jump      \* the jump under way: its status and frame_to_long_jump, or
                    \* for an exception the innermost frame with a handler

vars == <<frames, cur, pool, cstack, jmps, scopes, funcs, mode, jump>>

NoFrame == 0

\* The frames from f down, f included.
Chain(f) ==
    LET down[n \in 0 .. Len(frames)] ==    \* the first n of them
          [g \in {NoFrame} \cup DOMAIN frames |->
             IF n = 0 \/ g = NoFrame THEN <<>> ELSE <<g>> \o down[n - 1][frames[g].prev]]
    IN  down[Len(frames)][f]

OnChain(f, g) == f \in ToSet(Chain(g))

\* The first frame of the sequence s of which P holds, NoFrame when there is none.
First(s, P(_)) ==
    LET I == {i \in DOMAIN s : P(s[i])}
    IN  IF I = {} THEN NoFrame ELSE s[CHOOSE i \in I : \A j \in I : i <= j]

Top == Last(cstack)

\* C code in a native function, and in an instruction that calls methods from C; the
\* second name while compare_val of table.c asks a key for ==.
NativeKinds == {"native", "guard", "native_compare"}
InstKinds == {"inst", "inst_compare"}
Comparing(kind) == IF kind = "inst" THEN "inst_compare" ELSE "native_compare"

\* What C activation a setjmp belongs to.
HasBuffer(kind) == kind \in {"main", "loop", "guard", "inst_compare", "native_compare"}

NewFrame(type, outer, ret, brk) ==
    [type |-> type, prev |-> NoFrame, outer |-> outer, ret |-> ret, brk |-> brk,
     used |-> FALSE]

\* YogScriptFrame_cleanup, YogFinishFrame_clean.
Clean(type) == NewFrame(type, NoFrame, NoFrame, NoFrame)

NoJump == [status |-> "NONE", target |-> NoFrame]

\* INIT_JMPBUF of the C activation at that depth, with that many open scopes.
Buffer(depth, open) == [act |-> depth, scopes |-> open]

\* main has set its jump buffer and evaluates the package: a finish frame, the
\* frame of the package and a first mainloop.  A function of the package is known.
Init ==
    /\ frames = <<NewFrame("FINISH", NoFrame, NoFrame, NoFrame),
                  [NewFrame("SCRIPT", NoFrame, NoFrame, NoFrame)
                      EXCEPT !.prev = 1, !.used = TRUE]>>
    /\ cur = 2
    /\ pool = [t \in DOMAIN PoolMax |-> <<>>]
    /\ cstack = <<"main", "loop">>
    /\ jmps = <<Buffer(1, 1), Buffer(2, 2)>>
    /\ scopes = 2
    /\ funcs = <<[outer |-> 2, ret |-> NoFrame, brk |-> NoFrame]>>
    /\ mode = "run"
    /\ jump = NoJump

-----------------------------------------------------------------------------
(* Frames and their pools. *)

\* S is <<frames, pool>>.  The frame to use and S without it: the newest of the
\* pool, or a new object; a pooled script frame that is too small is dropped.
GetFrame(S, type, bigEnough) ==
    LET p == S[2][type]
        rest == IF p = <<>> THEN S[2] ELSE [S[2] EXCEPT ![type] = Front(p)]
    IN  IF p # <<>> /\ bigEnough THEN <<Last(p), S[1], rest>>
        ELSE <<Len(S[1]) + 1, Append(S[1], Clean(type)), rest>>

\* YogEval_push_frame of a new frame on top of below.
PushFrame(S, type, bigEnough, below, f) ==
    LET g == GetFrame(S, type, bigEnough)
    IN  <<[g[2] EXCEPT ![g[1]] =
              [NewFrame(type, f.outer, f.ret, f.brk) EXCEPT !.prev = below]],
          g[3], g[1]>>

NoFunc == [outer |-> NoFrame, ret |-> NoFrame, brk |-> NoFrame]

\* Mutant of PutFrame: the limit of the pool is not looked at, the flag neither.
PutAnyFrame(p, f, type) == [p EXCEPT ![type] = Append(@, f)]

\* A frame that has returned goes to its pool, unless that is full or a function
\* refers to the frame.
PutFrame(p, f, type) ==
    IF frames[f].used \/ Len(p[type]) >= PoolMax[type] THEN p
    ELSE [p EXCEPT ![type] = Append(@, f)]

\* YogFunction_exec_for_instance: a script frame for function i above below.
ExecFunction(S, i, bigEnough, below) ==
    PushFrame(S, "SCRIPT", bigEnough, below,
              [funcs[i] EXCEPT !.ret = IF @ = NoFrame THEN below ELSE @])

UseFrames(S) ==
    /\ Len(S[1]) <= MaxFrames
    /\ frames' = S[1] /\ pool' = S[2] /\ cur' = S[3]

-----------------------------------------------------------------------------
(* Instructions: the mainloop on top of the C stack runs a script frame.  The *)
(* handle scope of an instruction is open only while C code runs inside it.   *)

Running(type) == mode = "run" /\ Top = "loop" /\ frames[cur].type = type

\* Mutant of make_block: return jumps to whoever called the block's creator.
MakeBlockForCaller ==
    /\ Running("SCRIPT")
    /\ Len(funcs) < MaxFuncs
    /\ [outer |-> cur, ret |-> frames[cur].prev, brk |-> cur] \notin ToSet(funcs)
    /\ funcs' = Append(funcs, [outer |-> cur, ret |-> frames[cur].prev, brk |-> cur])
    /\ frames' = [frames EXCEPT ![cur].used = TRUE]
    /\ UNCHANGED <<cur, pool, cstack, jmps, scopes, mode, jump>>

\* make_block: return goes where the enclosing function returns to, break back to
\* the frame that makes the block.
MakeBlock ==
    /\ Running("SCRIPT")
    /\ Len(funcs) < MaxFuncs
    /\ [outer |-> cur, ret |-> frames[cur].ret, brk |-> cur] \notin ToSet(funcs)
    /\ funcs' = Append(funcs, [outer |-> cur, ret |-> frames[cur].ret, brk |-> cur])
    /\ frames' = [frames EXCEPT ![cur].used = TRUE]
    /\ UNCHANGED <<cur, pool, cstack, jmps, scopes, mode, jump>>

\* make_function.
MakeFunction ==
    /\ Running("SCRIPT")
    /\ Len(funcs) < MaxFuncs
    /\ [outer |-> cur, ret |-> NoFrame, brk |-> NoFrame] \notin ToSet(funcs)
    /\ funcs' = Append(funcs, [outer |-> cur, ret |-> NoFrame, brk |-> NoFrame])
    /\ frames' = [frames EXCEPT ![cur].used = TRUE]
    /\ UNCHANGED <<cur, pool, cstack, jmps, scopes, mode, jump>>

\* call_function of a script function or a block: no C activation.
CallScript(i, bigEnough) ==
    /\ Running("SCRIPT")
    /\ UseFrames(ExecFunction(<<frames, pool>>, i, bigEnough, cur))
    /\ UNCHANGED <<cstack, jmps, scopes, funcs, mode, jump>>

\* call_function of a native function: plain, or one that guards its block with
\* setjmp (File.open, Dir.open, File#lock).
CallNative(kind) ==
    /\ Running("SCRIPT")
    /\ Len(cstack) < MaxDepth
    /\ UseFrames(PushFrame(<<frames, pool>>, "C", TRUE, cur, NoFunc))
    /\ cstack' = Append(cstack, kind)
    /\ scopes' = scopes + 1
    /\ jmps' = IF HasBuffer(kind) THEN Append(jmps, Buffer(Len(cstack) + 1, scopes + 1)) ELSE jmps
    /\ UNCHANGED <<funcs, mode, jump>>

\* An instruction that calls methods from C without a frame of its own (make_dict
\* and make_set ask the keys for hash and, in compare_val, for ==, print_top for to_s).
EnterInstruction ==
    /\ Running("SCRIPT")
    /\ Len(cstack) < MaxDepth
    /\ cstack' = Append(cstack, "inst")
    /\ scopes' = scopes + 1
    /\ UNCHANGED <<frames, cur, pool, jmps, funcs, mode, jump>>

\* ret: a frame that no function refers to is cleaned and may be used again.
Ret ==
    /\ Running("SCRIPT")
    /\ cur' = frames[cur].prev
    /\ frames' = IF frames[cur].used THEN frames ELSE [frames EXCEPT ![cur] = Clean("SCRIPT")]
    /\ pool' = PutFrame(pool, cur, "SCRIPT")
    /\ UNCHANGED <<cstack, jmps, scopes, funcs, mode, jump>>

\* Mutant of finish: without POP_JMPBUF.
FinishKeepsBuffer ==
    /\ Running("FINISH")
    /\ cur' = frames[cur].prev
    /\ frames' = [frames EXCEPT ![cur] = Clean("FINISH")]
    /\ pool' = PutFrame(pool, cur, "FINISH")
    /\ LET back == IF cstack[Len(cstack) - 1] = "call" THEN 2 ELSE 1
       IN  /\ cstack' = SubSeq(cstack, 1, Len(cstack) - back)
           /\ scopes' = scopes - back
           /\ mode' = IF back = 1 THEN "end" ELSE mode
    /\ UNCHANGED <<jmps, funcs, jump>>

\* finish: the mainloop returns to YogCallable_call_with_block and that to its
\* caller; the first mainloop returns to main and the script has ended.
Finish ==
    /\ Running("FINISH")
    /\ cur' = frames[cur].prev
    /\ frames' = [frames EXCEPT ![cur] = Clean("FINISH")]
    /\ pool' = PutFrame(pool, cur, "FINISH")
    /\ jmps' = Front(jmps)
    /\ LET back == IF cstack[Len(cstack) - 1] = "call" THEN 2 ELSE 1
       IN  /\ cstack' = SubSeq(cstack, 1, Len(cstack) - back)
           /\ scopes' = scopes - back
           /\ mode' = IF back = 1 THEN "end" ELSE mode
    /\ UNCHANGED <<funcs, jump>>

-----------------------------------------------------------------------------
(* C code inside an instruction or a native function. *)

InC == mode = "run" /\ Top \in NativeKinds \cup InstKinds

\* YogCallable_call_with_block and YogFunction_call_for_instance: a finish frame,
\* a frame of the function and a new mainloop.
CallFromC(i, bigEnough) ==
    /\ InC
    /\ Len(cstack) + 1 < MaxDepth
    /\ LET F == PushFrame(<<frames, pool>>, "FINISH", TRUE, cur, NoFunc)
       IN  UseFrames(ExecFunction(<<F[1], F[2]>>, i, bigEnough, F[3]))
    /\ cstack' = cstack \o <<"call", "loop">>
    /\ scopes' = scopes + 2
    /\ jmps' = Append(jmps, Buffer(Len(cstack) + 2, scopes + 2))
    /\ UNCHANGED <<funcs, mode, jump>>

\* The end of a native function: its C frame goes to the pool.
NativeReturns ==
    /\ InC /\ Top \in {"native", "guard"}
    /\ cur' = frames[cur].prev
    /\ frames' = [frames EXCEPT ![cur] = Clean("C")]
    /\ pool' = PutFrame(pool, cur, "C")
    /\ jmps' = IF HasBuffer(Top) THEN Front(jmps) ELSE jmps
    /\ cstack' = Front(cstack)
    /\ scopes' = scopes - 1
    /\ UNCHANGED <<funcs, mode, jump>>

InstructionEnds ==
    /\ InC /\ Top = "inst"
    /\ cstack' = Front(cstack)
    /\ scopes' = scopes - 1
    /\ UNCHANGED <<frames, cur, pool, jmps, funcs, mode, jump>>

\* compare_val, from make_dict, make_set or a native method of Dict or Set: a buffer
\* around the call of ==, which needs no frame and opens no scope of its own.
CompareVal(kind) ==
    /\ InC /\ Top = kind
    /\ cstack' = Append(Front(cstack), Comparing(kind))
    /\ jmps' = Append(jmps, Buffer(Len(cstack), scopes))
    /\ UNCHANGED <<frames, cur, pool, scopes, funcs, mode, jump>>

CompareReturns(kind) ==
    /\ InC /\ Top = Comparing(kind)
    /\ cstack' = Append(Front(cstack), kind)
    /\ jmps' = Front(jmps)
    /\ UNCHANGED <<frames, cur, pool, scopes, funcs, mode, jump>>

-----------------------------------------------------------------------------
(* Jumps. *)

StartJump(status, target) ==
    /\ mode' = "jump"
    /\ jump' = [status |-> status, target |-> target]
    /\ UNCHANGED <<frames, cur, pool, cstack, jmps, scopes, funcs>>

\* The frames that may be the innermost one with a handler.
Handlers == {f \in ToSet(Chain(cur)) : frames[f].type = "SCRIPT"} \cup {NoFrame}

\* YogError_raise, from an instruction or from C.
Raise ==
    /\ InC \/ Running("SCRIPT")
    /\ \E h \in Handlers : StartJump("RAISE", h)

\* long_jump: detect_orphan raises LocalJumpError when the target is not below.
LongJump(status, target) ==
    IF OnChain(target, frames[cur].prev) THEN StartJump(status, target)
    ELSE \E h \in Handlers : StartJump("RAISE", h)

\* long_return and long_break stand only in the code of blocks.
LongReturn ==
    /\ Running("SCRIPT") /\ frames[cur].brk # NoFrame
    /\ LongJump("RETURN", frames[cur].ret)

LongBreak ==
    /\ Running("SCRIPT") /\ frames[cur].brk # NoFrame
    /\ LongJump("BREAK", frames[cur].brk)

\* The C frames on top are left out.
skip_c_frame(f) == First(Chain(f), LAMBDA g : frames[g].type # "C")

\* The frame in which the C code that runs this mainloop was called.
skip_to_c_frame(f) ==
    LET g == First(Tail(Chain(f)), LAMBDA h : frames[h].type # "SCRIPT")
    IN  IF frames[g].type = "C" THEN g ELSE frames[g].prev

\* Mutant of rollback_frames: the search goes on below a finish frame.
rollback_through(f) ==
    LET g == First(Chain(f), LAMBDA h : frames[h].type = "C" \/ h = jump.target)
    IN  IF g = jump.target THEN g ELSE NoFrame

\* Mutant of rollback_frames: the search starts at the caller's frame.
rollback_callers(f) ==
    LET g == First(Tail(Chain(f)), LAMBDA h : frames[h].type # "SCRIPT" \/ h = jump.target)
    IN  IF g = jump.target THEN g ELSE NoFrame

\* The frame that handles the exception, when it is one of the script frames on top.
rollback_frames(f) ==
    LET g == First(Chain(f), LAMBDA h : frames[h].type # "SCRIPT" \/ h = jump.target)
    IN  IF g = jump.target THEN g ELSE NoFrame

\* longjmp to the newest buffer: the C activations and the handle scopes above it
\* are gone.
Unwind ==
    /\ cstack' = SubSeq(cstack, 1, Last(jmps).act)
    /\ scopes' = Last(jmps).scopes

\* env->frame becomes f.  Nothing refers to a frame above it any more, unless it is
\* used by a function: what it holds is left out.
CutTo(f) ==
    /\ cur' = f
    /\ LET above == {g \in ToSet(Chain(cur)) \ ToSet(Chain(f)) : ~frames[g].used}
       IN  frames' = [g \in DOMAIN frames |->
                        IF g \in above THEN Clean(frames[g].type) ELSE frames[g]]

\* The mainloop cannot take the jump: longjmp_to_prev_buf.
PassOn(f) ==
    /\ CutTo(skip_to_c_frame(f))
    /\ jmps' = Front(jmps)
    /\ UNCHANGED <<pool, funcs, mode, jump>>

\* The jump ends: the mainloop goes on in frame f.
Land(f) ==
    /\ CutTo(f)
    /\ mode' = "run" /\ jump' = NoJump
    /\ UNCHANGED <<pool, jmps, funcs>>

Landing(kind) == mode = "jump" /\ cstack[Last(jmps).act] = kind /\ Unwind

\* A mainloop gets an exception.
LandRaise ==
    /\ Landing("loop") /\ jump.status = "RAISE"
    /\ LET f == skip_c_frame(cur)
           h == rollback_frames(f)
       IN  IF h = NoFrame THEN PassOn(f) ELSE Land(h)

\* A mainloop gets a break or a return.  It looks for the target down to the next C
\* frame; below a finish frame that stands on a script frame it so finds frames of
\* another mainloop, and what follows is not modelled ("crossed").
LandJump ==
    /\ Landing("loop") /\ jump.status # "RAISE"
    /\ LET f == skip_c_frame(cur)
           g == First(Chain(f), LAMBDA h : frames[h].type = "C" \/ h = jump.target)
           finish == First(Chain(f), LAMBDA h : frames[h].type = "FINISH")
       IN  CASE g = NoFrame ->
                  /\ \E h \in Handlers : jump' = [status |-> "RAISE", target |-> h]
                  /\ UNCHANGED <<frames, cur, pool, jmps, funcs, mode>>
             [] g = jump.target /\ OnChain(finish, g) -> Land(g)
             [] g = jump.target /\ ~OnChain(finish, g) ->
                  /\ mode' = "crossed"
                  /\ UNCHANGED <<frames, cur, pool, jmps, funcs, jump>>
             [] OTHER -> PassOn(f)

\* A native function that guards its block cleans up and jumps on.
LandGuard ==
    /\ Landing("guard")
    /\ jmps' = Front(jmps)
    /\ UNCHANGED <<frames, cur, pool, funcs, mode, jump>>

\* compare_val gets an exception, a break or a return that leaves ==.  It answers
\* FALSE, the jump is lost, and its buffer stays the newest: the next POP_JMPBUF or
\* longjmp finds a function that has returned, and is not modelled ("swallowed").
LandCompare(kind) ==
    /\ mode = "jump" /\ cstack[Last(jmps).act] = Comparing(kind)
    /\ cstack' = Append(Front(SubSeq(cstack, 1, Last(jmps).act)), kind)
    /\ scopes' = Last(jmps).scopes
    /\ mode' = "swallowed" /\ jump' = NoJump
    /\ UNCHANGED <<frames, cur, pool, jmps, funcs>>

\* main prints the stack trace.
LandMain ==
    /\ Landing("main")
    /\ mode' = "end" /\ jump' = NoJump
    /\ UNCHANGED <<frames, cur, pool, jmps, funcs>>

-----------------------------------------------------------------------------
Next ==
    \/ MakeBlock \/ MakeFunction \/ EnterInstruction
    \/ \E i \in DOMAIN funcs, big \in BOOLEAN : CallScript(i, big) \/ CallFromC(i, big)
    \/ \E kind \in {"native", "guard"} : CallNative(kind)
    \/ \E kind \in {"inst", "native"} : CompareVal(kind) \/ CompareReturns(kind) \/ LandCompare(kind)
    \/ Ret \/ Finish \/ NativeReturns \/ InstructionEnds
    \/ Raise \/ LongReturn \/ LongBreak
    \/ LandRaise \/ LandJump \/ LandGuard \/ LandMain

Spec == Init /\ [][Next]_vars

-----------------------------------------------------------------------------
(* Properties. *)

\* The frame on which the script frames from f down stand.
Base(f) == First(Chain(f), LAMBDA g : frames[g].type # "SCRIPT")

\* env->frame is f while a C activation of that kind is the top one.  Then f is its
\* own frame, or belongs to the mainloop.
Fits(kind, f) ==
    CASE kind \in NativeKinds -> f # NoFrame /\ frames[f].type = "C"
      [] kind \in InstKinds -> f # NoFrame /\ frames[f].type = "SCRIPT"
      [] kind = "loop" -> Base(f) # NoFrame /\ frames[Base(f)].type = "FINISH"
      [] kind = "main" -> f = NoFrame
      [] kind = "call" -> TRUE

\* What env->frame is when that activation returns.
Returned(kind, f) ==
    CASE kind \in NativeKinds -> frames[f].prev
      [] kind = "loop" -> frames[Base(f)].prev
      [] OTHER -> f

\* The finish and C frames below env->frame are those of the C activations that
\* are alive, in their order: every mainloop runs the frames that were pushed for
\* it, and every native function finds its own frame when it returns and gives
\* one back (callable.c, YogThread_put_c_frame), whatever jumps came between, those
\* that compare_val swallows included.
StacksAgree ==
    mode \in {"run", "swallowed"} =>
      LET agree[d \in 0 .. Len(cstack)] ==
            [f \in {NoFrame} \cup DOMAIN frames |->
               d = 0 \/ (Fits(cstack[d], f) /\ agree[d - 1][Returned(cstack[d], f)])]
      IN  agree[Len(cstack)][cur]

\* The buffers that longjmp and POP_JMPBUF should find.  compare_val leaves its own
\* behind when it swallows a jump: then that is the newest, one too many.
LiveBuffers == IF mode = "swallowed" THEN Front(jmps) ELSE jmps

\* jmp_buf_list holds the buffers of exactly the C activations that are alive and
\* called setjmp, during a jump those of the ones it has not passed: longjmp never
\* goes to a function that has returned, as long as compare_val has not swallowed a
\* jump, and then exactly one such buffer is there.  Each remembers the scopes that
\* activation has open: no handle of a live function is given up by a jump and none
\* is left open.
BuffersLive ==
    LET js == LiveBuffers IN
    /\ js # <<>>
    /\ \A i \in DOMAIN js :
          /\ js[i].act \in DOMAIN cstack /\ HasBuffer(cstack[js[i].act])
          /\ js[i].scopes = js[i].act
    /\ \A i, j \in DOMAIN js : i < j => js[i].act < js[j].act
    /\ \A d \in DOMAIN cstack : HasBuffer(cstack[d]) =>
          (\E i \in DOMAIN js : js[i].act = d) \/ (mode = "jump" /\ d > Last(js).act)
    /\ mode # "jump" => scopes = Len(cstack)

\* A frame that may be used again is in its pool once and on no chain, and no
\* function has it as outer frame: "Used frames are not reused" (frame.h:53).
PooledAreDead ==
    LET live == ToSet(Chain(cur)) IN
    \A s \in DOMAIN pool : \A i \in DOMAIN pool[s] :
      LET f == pool[s][i] IN
      /\ \A t \in DOMAIN pool : \A j \in DOMAIN pool[t] : pool[t][j] = f => t = s /\ j = i
      /\ f \notin live
      /\ \A k \in DOMAIN funcs : f \notin {funcs[k].outer, funcs[k].brk}

\* The frame whose function encloses the code of frame f.
Home(f) ==
    LET up[n \in 0 .. MaxFuncs] ==
          IF n = 0 THEN f
          ELSE IF frames[up[n - 1]].brk = NoFrame THEN up[n - 1] ELSE frames[up[n - 1]].outer
    IN  up[MaxFuncs]

\* return in a block, however deeply blocks are nested and whoever calls them, goes
\* to the caller of the enclosing function as long as that function has not ended.
BlocksReturnToCaller ==
    mode = "run" =>
      LET live == ToSet(Chain(cur))
      IN  \A f \in live :
            LET h == Home(f)
            IN  h \in live /\ frames[h].brk = NoFrame /\ frames[h].ret # NoFrame
                => frames[f].ret = frames[h].prev

\* However many mainloops and native functions a jump passes, it ends in the frame
\* it was meant for, the innermost one with a handler or the target of the break or
\* return; an exception that nobody handles, and only that, reaches main.  Only
\* compare_val swallows a jump that leaves the == it calls.
JumpsExact ==
    [][mode = "jump" =>
         \/ mode' = "jump" /\ jump' = jump
         \/ mode' = "run" /\ cur' = jump.target
         \/ mode' = "end" /\ jump = [status |-> "RAISE", target |-> NoFrame]
         \/ mode' = "swallowed" /\ cstack[Last(jmps).act] \in {"inst_compare", "native_compare"}
         \/ mode' = "crossed"]_vars

=============================================================================
