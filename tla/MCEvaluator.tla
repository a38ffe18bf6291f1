---------------------------- MODULE MCEvaluator ----------------------------
\* An instance of Evaluator for TLC with a pool of one script frame, soon empty and
\* soon full, and pools of C and finish frames that are always full.
EXTENDS Evaluator

SmallPools == [t \in {"C", "FINISH", "SCRIPT"} |-> IF t = "SCRIPT" THEN 1 ELSE 0]
=============================================================================
