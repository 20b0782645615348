----------------------------- MODULE JobLifecycle -----------------------------
(***************************************************************************)
(* What the queue promises about a job, whoever executes it and however    *)
(* often: a job that was accepted is finished or given up; its result is   *)
(* stored before it is announced and announced once; a job that is over    *)
(* stays over unless the operator intervenes.  Drivers shows that queue    *)
(* workers, worker loops and interactive requests together keep it.        *)
(*                                                                         *)
(* Weaker than the words accepted, done and failed suggest, because the    *)
(* code is: a job that is done can still be given up, and what is          *)
(* announced may be a failure of a job that is done.                       *)
(***************************************************************************)
EXTENDS Naturals

CONSTANT Jobs

VARIABLES
  phase,      \* what the requester of the job sees of it
  stored,     \* jobs whose result is in the canonical graph
  announced,  \* the report that each job's requester reads
  silent,     \* some executor finishes jobs without announcing anything
  interventions

jobVars == <<phase, stored, announced, silent, interventions>>

Phases == {"none", "accepted", "done", "failed"}
Announcements == {"none", "completed", "failed", "quarantined"}

Init ==
  /\ phase = [j \in Jobs |-> "none"]
  /\ stored = {}
  /\ announced = [j \in Jobs |-> "none"]
  /\ silent \in BOOLEAN
  /\ interventions = 0

Move(j, from, to) ==
  /\ phase[j] \in from
  /\ phase' = [phase EXCEPT ![j] = to]

Accept(j) ==
  /\ Move(j, {"none"}, "accepted")
  /\ UNCHANGED <<stored, announced, silent, interventions>>

Store(j) ==
  /\ phase[j] # "none"
  /\ j \notin stored
  /\ stored' = stored \cup {j}
  /\ UNCHANGED <<phase, announced, silent, interventions>>

\* Success is announced of a result that is stored only.
Announce(j, outcome) ==
  /\ phase[j] # "none"
  /\ announced[j] = "none"
  /\ outcome = "completed" => j \in stored
  /\ announced' = [announced EXCEPT ![j] = outcome]
  /\ UNCHANGED <<phase, stored, silent, interventions>>

Finish(j) ==
  /\ Move(j, {"accepted"}, "done")
  /\ silent \/ announced[j] # "none"
  /\ UNCHANGED <<stored, announced, silent, interventions>>

GiveUp(j) ==
  /\ Move(j, {"accepted", "done"}, "failed")
  /\ UNCHANGED <<stored, announced, silent, interventions>>

\* The operator reopens a job that failed, or deals with one under way.
Intervene(j) ==
  /\ \/ Move(j, {"accepted", "failed"}, "accepted")
     \/ Move(j, {"accepted"}, "failed")
  /\ interventions' = interventions + 1
  /\ UNCHANGED <<stored, announced, silent>>

Next ==
  \E j \in Jobs :
    \/ Accept(j)
    \/ Store(j)
    \/ \E outcome \in Announcements \ {"none"} : Announce(j, outcome)
    \/ Finish(j)
    \/ GiveUp(j)
    \/ Intervene(j)

Spec == Init /\ [][Next]_jobVars

===============================================================================
