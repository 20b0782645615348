--------------------------- MODULE SchedulerPolicy ---------------------------
(***************************************************************************)
(* SchedulerPolicyEvaluator (scheduler.py): which of the candidate topics  *)
(* a scheduled refresh selects, by the competition pressure they lack.     *)
(*                                                                         *)
(* Topic ids are numbers, for their order; a candidate is the record the   *)
(* caller gives for a topic.  next_run_after <= now is `due', and the      *)
(* support/challenge imbalance is counted in twentieths, the unit of its   *)
(* weight.                                                                 *)
(***************************************************************************)
EXTENDS Naturals, FiniteSets

CONSTANTS
  Topics,       \* topic ids
  MinimumScore  \* a topic with a lower score is left alone

ASSUME PolicyAssumption ==
  Topics \subseteq Nat /\ IsFiniteSet(Topics) /\ MinimumScore \in Nat

Candidate ==
  [due : BOOLEAN, best : Nat, targets : Nat, challengers : Nat, revisions : Nat,
   conflicts : Nat, questions : Nat, inputs : Nat, imbalance : Nat, stagnant : Nat]

Terms ==
  {"target", "challenger", "revision", "conflicts", "questions", "inputs",
   "imbalance", "stagnation"}

AtMost(cap, n) == IF n > cap THEN cap ELSE n

IfNone(n, weight) == IF n = 0 THEN weight ELSE 0

Pressure(c) ==
  [term \in Terms |->
     CASE term = "target"     -> IfNone(c.targets, 40)
       [] term = "challenger" -> IfNone(c.challengers, 35)
       [] term = "revision"   -> IfNone(c.revisions, 25)
       [] term = "conflicts"  -> AtMost(30, 10 * c.conflicts)
       [] term = "questions"  -> AtMost(20, 5 * c.questions)
       [] term = "inputs"     -> AtMost(24, 8 * c.inputs)
       [] term = "imbalance"  -> AtMost(20, c.imbalance)
       [] term = "stagnation" -> AtMost(60, 20 * c.stagnant)]

AllReasons == Terms \cup {"nothing to attack"}

\* The reasons are part of the objective of the job.
Reasons(c) ==
  IF c.best = 0 THEN {"nothing to attack"}
  ELSE {term \in Terms : Pressure(c)[term] > 0}

\* competition_pressure_score: without a current best there is nothing to attack.
Score(c) ==
  LET p == Pressure(c)
  IN IF c.best = 0 THEN 0
     ELSE p["target"] + p["challenger"] + p["revision"] + p["conflicts"]
          + p["questions"] + p["inputs"] + p["imbalance"] + p["stagnation"]

Eligible(candidates) ==
  {t \in Topics : candidates[t].due /\ Score(candidates[t]) >= MinimumScore}

\* Mutant: the sort key is the score, not its negative.
OutranksAscending(candidates, t, u) ==
  \/ Score(candidates[t]) < Score(candidates[u])
  \/ Score(candidates[t]) = Score(candidates[u]) /\ t < u

\* Mutant: topics of one score come as the caller lists them.
OutranksByScore(candidates, t, u) == Score(candidates[t]) > Score(candidates[u])

\* The sort key (-score, topic_id).
Outranks(candidates, t, u) ==
  \/ Score(candidates[t]) > Score(candidates[u])
  \/ Score(candidates[t]) = Score(candidates[u]) /\ t < u

\* select_refresh_topics; a limit of None is one that is never reached.
SelectRefreshTopics(candidates, limit) ==
  LET eligible == Eligible(candidates)
  IN {t \in eligible :
        Cardinality({u \in eligible : Outranks(candidates, u, t)}) < limit}

=============================================================================
