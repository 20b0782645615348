---------------------------- MODULE MCQueueWorker ----------------------------
(***************************************************************************)
(* Model-checking instances of QueueWorker.                                *)
(***************************************************************************)
EXTENDS QueueWorker

CONSTANTS q1, q2, r1, r2, w1, w2, p1, p2

OneItem == {q1}
TwoRuns == {r1, r2}
TwoWorkers == {w1, w2}
TwoProcs == {p1, p2}

\* Each process has an id of its own.
OwnIds == [p \in Procs |-> IF p = p1 THEN w1 ELSE w2]

\* Each item asks for a run of its own.
OwnRuns == [q \in Items |-> IF q = q1 THEN r1 ELSE r2]

\* Callers deliver items under any run id, or not at all.
AnyRunCalls == [q \in Items |-> Runs]
NoCalls == [q \in Items |-> {}]

=============================================================================
