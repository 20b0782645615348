---------------------------- MODULE MCWorkerLoop ----------------------------
(***************************************************************************)
(* Model-checking instances of WorkerLoop.                                 *)
(***************************************************************************)
EXTENDS WorkerLoop

CONSTANTS s1, s2, l1, l2

TwoServices == {s1, s2}
TwoLoops == {l1, l2}

=============================================================================
