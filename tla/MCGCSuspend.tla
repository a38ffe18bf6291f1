---------------------------- MODULE MCGCSuspend ----------------------------
\* Instances of GCSuspend for TLC: the main thread and two others.
EXTENDS GCSuspend

CONSTANTS T1, T2

MCThreads == {Main, T1, T2}

\* Everybody starts threads and blocks on locks, the main thread joins.
AllCalls == (MCThreads \X {"run", "lock"}) \cup {<<Main, "join">>}

\* The main thread starts the others and joins them; one of them blocks.
FewCalls == {<<Main, "run">>, <<Main, "join">>, <<T1, "lock">>}

\* The main thread starts the others and ends.
NoJoinCalls == {<<Main, "run">>}
=============================================================================
