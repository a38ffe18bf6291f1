------------------------- MODULE MCGenerationalHeap -------------------------
\* Instances of GenerationalHeap for TLC.
EXTENDS GenerationalHeap

CONSTANTS T1, A, B

\* A local of each thread and a member of the virtual machine that both use.
MCSlots == {<<Main, 0>>, <<Main, 1>>, <<T1, 1>>}
=============================================================================
