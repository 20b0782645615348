------------------------------ MODULE MCRuntime ------------------------------
(***************************************************************************)
(* Model-checking instances of RuntimeEvents: two executions of one run.   *)
(***************************************************************************)
EXTENDS RuntimeEvents

CONSTANTS e1, e2

TwoExecutions == {e1, e2}

\* The first execution has enough lines for two attempts, or for two reads.
UnequalLines == [e \in Executions |-> IF e = e1 THEN 2 ELSE 1]

=============================================================================
