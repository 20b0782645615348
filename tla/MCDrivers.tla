------------------------------ MODULE MCDrivers ------------------------------
(***************************************************************************)
(* Model-checking instances of Drivers: every pair of drivers on an item.  *)
(***************************************************************************)
EXTENDS Drivers

CONSTANTS q1, q2, q3, r1, r2, r3, w1, w2, w3, w4, worker, loop1, loop2, trigger1, trigger2

AllProcs == {worker, loop1, loop2, trigger1, trigger2}

\* The interactive service has one worker id (its default).
Ids == [p \in Procs |-> CASE p = worker -> w1 [] p = loop1 -> w2 [] p = loop2 -> w3
                          [] OTHER -> w4]

\* q1 and q3 are enqueued by producers, q2 by an interactive request.
ThreeItems == {q1, q2, q3}
OwnRuns == [q \in Items |-> CASE q = q1 -> r1 [] q = q2 -> r2 [] OTHER -> r3]

Deployment(procs, items, crashing, operator) ==
  [procs |-> procs, items |-> items, crashing |-> crashing, operator |-> operator]

EveryPair ==
  {Deployment({worker}, {q1, q3}, {}, {}),
   Deployment({worker, loop1}, {q1}, {}, {}),
   Deployment({loop1, loop2}, {q1}, {}, {}),
   Deployment({worker, trigger1}, {q2}, {}, {}),
   Deployment({loop1, trigger1}, {q2}, {trigger1}, {}),
   Deployment({trigger1, trigger2}, {q2}, {}, {})}

\* What one life of a loop and the operator leave to the next, and a second
\* loop beside one whose claim the operator took for stale.
Operated ==
  {Deployment({loop1}, {q1}, {loop1}, OperatorActions),
   Deployment({loop1, loop2}, {q1}, {}, {"retry_stale"})}

EveryFleet == EveryPair \cup Operated

=============================================================================
