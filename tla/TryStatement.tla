---------------------------- MODULE TryStatement ----------------------------
(***************************************************************************)
(* try, while, break and next inside one function: how the compiler        *)
(* (compile.c) turns them into instructions and an exception table, and    *)
(* what the evaluator makes of these (eval.c).                             *)
(*                                                                         *)
(* A statement is a record with a kind: "call", "if", "while", "break",    *)
(* "next", "except", "finally"; a body is a sequence of statements.  Any   *)
(* call may raise an exception, any test may be true or false.  break and  *)
(* next are those of a loop: in the body of a block they are instructions  *)
(* of their own (see Evaluator).                                           *)
(***************************************************************************)
EXTENDS Naturals, Sequences, SequencesExt

CONSTANTS Programs,     \* bodies of functions
          MaxCalls      \* bound: calls of a behaviour

VARIABLES prog, code,   \* a program and what it is compiled to
          pc,           \* instructions before the next one
          trace,        \* history: the calls made
          mode          \* "run", "returned", "raised"

vars == <<prog, code, pc, trace, mode>>

-----------------------------------------------------------------------------
(* CompileData: the instructions, the pcs of the labels, the exception table *)
(* with the place of exc_tbl_last, finally_list and try_list (the innermost  *)
(* last) and the labels of the innermost loop.                               *)

NoLabel == 0

EmptyData == [insts |-> <<>>, labels |-> <<>>, table |-> <<>>, last |-> 0,
              finally_list |-> <<>>, try_list |-> <<>>,
              while_start |-> NoLabel, while_end |-> NoLabel]

Inst(op, arg) == [op |-> op, arg |-> arg]

Emit(d, op, arg) == [d EXCEPT !.insts = Append(@, Inst(op, arg))]

\* n times Label_new; the labels are Len(d.labels) + 1 and so on.
NewLabels(d, n) == [d EXCEPT !.labels = @ \o [i \in 1 .. n |-> 0]]

Put(d, label) == [d EXCEPT !.labels[label] = Len(d.insts)]

\* CompileData_push_try of a node with its first entry of the exception table.
push_try(d, node, from, to, target) ==
    [d EXCEPT !.try_list =
        Append(@, [node |-> node,
                   chain |-> <<[from |-> from, to |-> to, target |-> target]>>])]

\* PUSH_EXCEPTION_TABLE_ENTRY of the chain of the innermost try, and pop_try.  The
\* chain is linked behind the first entry of the chain pushed before, and what else
\* that chain had is unlinked.
push_table_pop_try(d) ==
    [d EXCEPT !.table = SubSeq(@, 1, d.last) \o Last(d.try_list).chain,
              !.last = @ + 1,
              !.try_list = Front(@)]

\* The last entry of a chain ends at from and goes on in a new one behind to.
split_exception_table(chain, from, to) ==
    Front(chain) \o <<[Last(chain) EXCEPT !.to = from], [Last(chain) EXCEPT !.from = to]>>

-----------------------------------------------------------------------------
(* The visitor. *)

RECURSIVE visit_stmt(_, _)

visit_stmts(d, stmts) == FoldLeft(visit_stmt, d, stmts)

visit_if(d, s) ==
    LET l == Len(d.labels)      \* + 1: tail_start, + 2: stmt_end
        head == Emit(NewLabels(d, 2), "branch", l + 1)
        stmts == Emit(visit_stmts(head, s.stmts), "jump", l + 2)
    IN  Put(visit_stmts(Put(stmts, l + 1), s.tail), l + 2)

visit_while(d, s) ==
    LET l == Len(d.labels)      \* + 1: while_start, + 2: while_end
        start == [Put(NewLabels(d, 2), l + 1) EXCEPT !.while_start = l + 1, !.while_end = l + 2]
        stmts == visit_stmts(Emit(start, "branch", l + 2), s.stmts)
    IN  [Put(Emit(stmts, "jump", l + 1), l + 2)
            EXCEPT !.while_start = d.while_start, !.while_end = d.while_end]

visit_finally(d, s) ==
    LET l == Len(d.labels)      \* + 1: head_start, + 2: head_end, + 3: error_start, + 4: end
        start == [push_try(NewLabels(d, 4), s, l + 1, l + 2, l + 3)
                    EXCEPT !.finally_list = Append(@, s)]
        head == Put(visit_stmts(Put(start, l + 1), s.head), l + 2)
        body == Emit(visit_stmts(head, s.body), "jump", l + 4)
        error == Emit(visit_stmts(Put(body, l + 3), s.body), "raise", NoLabel)
    IN  [push_table_pop_try(Put(error, l + 4)) EXCEPT !.finally_list = d.finally_list]

\* A clause for some types of exceptions, or for all of them.
compile_except(d, e, else_end) ==
    LET l == Len(d.labels)      \* + 1: body_end
        types == IF e.typed THEN Emit(NewLabels(d, 1), "branch", l + 1) ELSE NewLabels(d, 1)
    IN  Put(Emit(visit_stmts(types, e.stmts), "jump", else_end), l + 1)

visit_except(d, s) ==
    LET l == Len(d.labels)      \* + 1: head_start, + 2: head_end, + 3: excepts_start,
                                \* + 4: else_start, + 5: else_end
        start == push_try(NewLabels(d, 5), s, l + 1, l + 2, l + 3)
        head == Put(visit_stmts(Put(start, l + 1), s.head), l + 2)
        excepts == FoldLeft(LAMBDA x, e : compile_except(x, e, l + 5),
                            Put(Emit(head, "jump", l + 4), l + 3), s.excepts)
        else == visit_stmts(Put(Emit(excepts, "raise", NoLabel), l + 4), s.else)
    IN  push_table_pop_try(Put(else, l + 5))

\* break and next: the code of the finally clauses, from the innermost on, out of the
\* range of the try statements it leaves.
compile_while_jump(d, to) ==
    LET leave(x, f) ==
          LET l == Len(x.labels)
              body == Put(visit_stmts(Put(NewLabels(x, 2), l + 1), f.body), l + 2)
              depth == CHOOSE i \in DOMAIN x.try_list : x.try_list[i].node = f
          IN  [body EXCEPT !.try_list =
                 [i \in DOMAIN @ |->
                    IF i < depth THEN @[i]
                    ELSE [@[i] EXCEPT !.chain = split_exception_table(@, l + 1, l + 2)]]]
    IN  Emit(FoldLeft(leave, d, Reverse(d.finally_list)), "jump", to)

visit_stmt(d, s) ==
    CASE s.kind = "call"    -> Emit(d, "call", s.id)
      [] s.kind = "if"      -> visit_if(d, s)
      [] s.kind = "while"   -> visit_while(d, s)
      [] s.kind = "break"   -> compile_while_jump(d, d.while_end)
      [] s.kind = "next"    -> compile_while_jump(d, d.while_start)
      [] s.kind = "except"  -> visit_except(d, s)
      [] s.kind = "finally" -> visit_finally(d, s)

\* compile_stmts and make_exception_table: labels become pcs, empty entries are left out.
compile_stmts(stmts) ==
    LET d == Emit(visit_stmts(EmptyData, stmts), "ret", NoLabel)
        At(label) == d.labels[label]
        entry(e) == [from |-> At(e.from), to |-> At(e.to), target |-> At(e.target)]
    IN  [insts |-> [i \in DOMAIN d.insts |->
                      IF d.insts[i].op \in {"jump", "branch"}
                      THEN Inst(d.insts[i].op, At(d.insts[i].arg)) ELSE d.insts[i]],
         exc_tbl |-> SelectSeq([i \in DOMAIN d.table |-> entry(d.table[i])],
                               LAMBDA e : e.from # e.to)]

-----------------------------------------------------------------------------
(* The evaluator. *)

Init ==
    /\ prog \in Programs
    /\ code = compile_stmts(prog)
    /\ pc = 0
    /\ trace = <<>>
    /\ mode = "run"

At(op) == mode = "run" /\ code.insts[pc + 1].op = op

Goto(n) == pc' = n /\ UNCHANGED <<prog, code, mode>>

\* JMP_RAISE: find_exception_table_entry sees the pc behind the instruction.
RaiseHere ==
    LET i == SelectInSeq(code.exc_tbl, LAMBDA e : e.from < pc + 1 /\ pc + 1 <= e.to)
    IN  IF i # 0 THEN Goto(code.exc_tbl[i].target)
        ELSE mode' = "raised" /\ UNCHANGED <<prog, code, pc>>

Call ==
    /\ At("call") /\ Len(trace) < MaxCalls
    /\ trace' = Append(trace, code.insts[pc + 1].arg)
    /\ Goto(pc + 1) \/ RaiseHere

\* jump_if_false of a test, or match_exception and its jumps.
Branch ==
    /\ At("branch")
    /\ \E n \in {pc + 1, code.insts[pc + 1].arg} : Goto(n)
    /\ UNCHANGED trace

Jump ==
    /\ At("jump") /\ Goto(code.insts[pc + 1].arg)
    /\ UNCHANGED trace

\* add_raise_last_exception.
RaiseAgain == At("raise") /\ RaiseHere /\ UNCHANGED trace

Ret ==
    /\ At("ret") /\ mode' = "returned"
    /\ UNCHANGED <<prog, code, pc, trace>>

Next == Call \/ Branch \/ Jump \/ RaiseAgain \/ Ret

Spec == Init /\ [][Next]_vars

-----------------------------------------------------------------------------
RECURSIVE Finals(_)

\* The try statements with finally in stmts.
Finals(stmts) ==
    UNION {LET s == stmts[i]
           IN  CASE s.kind = "if"      -> Finals(s.stmts) \cup Finals(s.tail)
                 [] s.kind = "while"   -> Finals(s.stmts)
                 [] s.kind = "except"  -> Finals(s.head) \cup Finals(s.else)
                 [] s.kind = "finally" -> {s} \cup Finals(s.head) \cup Finals(s.body)
                 [] OTHER              -> {} : i \in DOMAIN stmts}

Calls(stmts) == Len(SelectSeq(trace, LAMBDA id : id = stmts[1].id))

\* "finally clause is always executed before leaving the try statement, whether an
\* exception has occured or not" (doc/tutorial.ydoc:773): when the function has been
\* left, every try statement's finally clause has been executed as often as the
\* statement was entered.  Both bodies begin with a call, of their own.
FinallyAlways ==
    mode # "run" => \A s \in Finals(prog) : Calls(s.body) = Calls(s.head)

=============================================================================
