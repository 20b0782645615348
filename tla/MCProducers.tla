----------------------------- MODULE MCProducers -----------------------------
(***************************************************************************)
(* Model-checking instances of Producers: two producers of each kind, and  *)
(* scheduled services with candidates of every sort.                       *)
(***************************************************************************)
EXTENDS Producers

CONSTANTS cli1, cli2, op1, op2, mon1, mon2, svc1, svc2, r1, a1

ThreeTopics == 1..3

\* A topic with something to do about everything but nothing urgent; the others
\* differ from it in one respect or two.
Quiet == [due |-> TRUE, best |-> 1, targets |-> 1, challengers |-> 1, revisions |-> 1,
          conflicts |-> 0, questions |-> 0, inputs |-> 0, imbalance |-> 0, stagnant |-> 0]

NotDue == [Quiet EXCEPT !.due = FALSE, !.targets = 0, !.challengers = 0]
Unattacked == [Quiet EXCEPT !.targets = 0, !.revisions = 0]
Idle == [Quiet EXCEPT !.challengers = 0, !.revisions = 0]
Contested == [Quiet EXCEPT !.conflicts = 4, !.inputs = 4]
MoreContested == [Contested EXCEPT !.conflicts = 6, !.questions = 1, !.imbalance = 30]
Bestless == [Unattacked EXCEPT !.best = 0]
Stagnant == [Quiet EXCEPT !.stagnant = 3]
Neglected == [Stagnant EXCEPT !.targets = 0, !.challengers = 0, !.questions = 5]

Sorts == {Quiet, NotDue, Unattacked, Idle, Contested, MoreContested, Bestless,
          Stagnant, Neglected}

List(c1, c2, c3) ==
  [t \in Topics |-> CASE t = 1 -> c1 [] t = 2 -> c2 [] OTHER -> c3]

Given(list1, list2) == [p \in Services |-> IF p = svc1 THEN list1 ELSE list2]

Nothing == List(NotDue, NotDue, NotDue)

Deploy(procs, list1, list2, limit, until) ==
  [procs |-> procs, candidates |-> Given(list1, list2), limit |-> limit, until |-> until]

Requesting ==
  {Deploy(procs, Nothing, Nothing, 0, 1) :
     procs \in {{cli1, cli2}, {cli1, op1}, {mon1, mon2}}}

\* Two services with three topics of one score, one of them stagnant, or with
\* different lists.
TwoServices ==
  {Deploy({svc1, svc2}, list, list, 3, 1) :
     list \in {List(Idle, Idle, Idle), List(Unattacked, Neglected, Idle)}}
  \cup {Deploy({svc1, svc2}, List(Idle, Unattacked, Quiet),
               List(Unattacked, Idle, Quiet), 2, 1)}

\* Second after second, beside the execution and the repair of the jobs.
SecondBySecond ==
  {Deploy({svc1, svc2}, List(Idle, NotDue, NotDue), List(Idle, NotDue, NotDue), 1, 2),
   Deploy({svc1, op1}, List(Idle, NotDue, NotDue), Nothing, 1, 2),
   Deploy({svc1, op1, op2}, List(Idle, NotDue, NotDue), Nothing, 1, 1)}

\* One service and every two topics.
Selecting ==
  {Deploy({svc1}, List(c1, c2, NotDue), Nothing, 2, 1) : c1 \in Sorts, c2 \in Sorts}

Everything == Requesting \cup TwoServices \cup SecondBySecond \cup Selecting

=============================================================================
