--------------------------- MODULE MCScheduledRun ---------------------------
(***************************************************************************)
(* Model-checking instances of ScheduledRun.                               *)
(***************************************************************************)
EXTENDS ScheduledRun, TLC

CONSTANTS q1, r1, w1, p1, p2, h1, h2

TwoProcs == {p1, p2}

\* The default worker id is the same for all services.
SharedId == [p \in Procs |-> w1]
OneRun == [q \in Items |-> r1]

\* Both services run on one of the two hosts.
OneHost == [p \in Procs |-> h1]

\* Services are alike: they share worker id and host.
ProcSymmetry == Permutations(Procs)

=============================================================================
