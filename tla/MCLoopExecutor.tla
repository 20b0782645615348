--------------------------- MODULE MCLoopExecutor ---------------------------
(***************************************************************************)
(* Model-checking instances of LoopExecutor: one loop, one item, one run.  *)
(***************************************************************************)
EXTENDS LoopExecutor

CONSTANTS q1, r1, w1, p1

OwnId == [p \in Procs |-> w1]
OwnRun == [q \in Items |-> r1]

=============================================================================
