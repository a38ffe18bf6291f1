--------------------------- MODULE MCTryStatement ---------------------------
\* Programs for TryStatement: a loop with two nested try statements, of which the
\* inner one may leave the loop before its last call, and a loop with all clauses
\* that may go on to its next round.
EXTENDS TryStatement

C(id) == [kind |-> "call", id |-> id]
F(head, body) == [kind |-> "finally", head |-> head, body |-> body]
E(head, body, else) == [kind |-> "except", head |-> head, else |-> else,
                        excepts |-> <<[typed |-> TRUE, stmts |-> body]>>]
While(stmts) == [kind |-> "while", stmts |-> stmts]
May(jump) == [kind |-> "if", stmts |-> <<[kind |-> jump]>>, tail |-> <<>>]

NestedTry ==
    {<<While(<<F(<<C(1), F(<<C(2), May("break"), C(3)>>, <<C(4)>>)>>, <<C(5)>>)>>)>>,
     <<While(<<F(<<C(1), E(<<C(2), May("next")>>, <<C(3)>>, <<C(4)>>)>>, <<C(5)>>)>>)>>}
=============================================================================
