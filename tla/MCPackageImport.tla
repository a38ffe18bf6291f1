-------------------------- MODULE MCPackageImport --------------------------
\* Instances of PackageImport for TLC.
EXTENDS PackageImport

CONSTANTS T1, T2, T3, A, B, C

\* C is a top-level package whose body imports a.b.
MCNames == {<<A, B>>, <<C>>}
MCDeps == [p \in Pkgs |-> IF p = C THEN {<<A, B>>} ELSE {}]

\* One package and nothing else.
OneName == {<<A>>}
NoDeps == [p \in Pkgs |-> {}]
=============================================================================
