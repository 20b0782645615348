------------------------------- MODULE Drivers -------------------------------
(***************************************************************************)
(* The drivers of the queue together: queue workers, worker loops and      *)
(* interactive requests are different programs on one ledger, and nothing  *)
(* keeps an item of one from the others, since a poll takes any claimable  *)
(* row.  Each process runs one of the three programs; what happens around  *)
(* them is the environment's.  The fleet that is deployed, the items it     *)
(* meets, and what the operator does about them are chosen in the initial  *)
(* state.                                                                  *)
(***************************************************************************)
EXTENDS Environment

CONSTANTS
  WorkerProcs,   \* processes that run a queue worker
  LoopProcs,     \* processes that run a worker loop
  TriggerProcs,  \* processes that serve interactive requests
  TriggerItems,  \* items of interactive requests
  Fleets,        \* bound: the deployments that are considered, each with
                 \* its processes, its items, the processes that may crash
                 \* and the recoveries of its operator
  MaxAttempts    \* max_attempts of the items that producers enqueue

ASSUME DriversAssumption ==
  /\ WorkerProcs \cup LoopProcs \cup TriggerProcs = Procs
  /\ WorkerProcs \cap LoopProcs = {}
  /\ TriggerProcs \cap (WorkerProcs \cup LoopProcs) = {}
  /\ \A t \in TriggerProcs, p \in Procs \ TriggerProcs : WorkerOf[t] # WorkerOf[p]
  /\ TriggerItems \subseteq Items
  /\ Fleets \subseteq [procs : SUBSET Procs, items : SUBSET Items,
                       crashing : SUBSET Procs, operator : SUBSET OperatorActions]

VARIABLE fleet

driverVars == <<vars, fleet>>

Worker(attempts) ==
  INSTANCE QueueWorker WITH Pollers <- WorkerProcs, Callers <- {},
    CallerRuns <- [q \in Items |-> {}], Supported <- Items, MaxAttempts <- attempts

Loop == INSTANCE LoopExecutor
Trigger == INSTANCE InteractiveTrigger

\* trigger_run enqueues with max_attempts = 1.
AttemptsOf(q) == IF q \in TriggerItems THEN 1 ELSE MaxAttempts

DriverStep(p) ==
  \/ /\ p \in WorkerProcs
     /\ \E q \in Items : loc[p].item = q /\ Worker(AttemptsOf(q))!WorkerStep(p)
  \/ p \in LoopProcs /\ Loop!ExecutorStep(p)
  \/ p \in TriggerProcs /\ Trigger!TriggerStep(p)

\* Items that are not part of the deployment are never enqueued.
Poll(p) ==
  \E q \in Items :
    \/ p \in WorkerProcs /\ Worker(AttemptsOf(q))!ExecuteNext(p, q)
    \/ p \in LoopProcs /\ Loop!Poll(p, q)

Request(p) ==
  /\ p \in TriggerProcs
  /\ \E q \in TriggerItems \cap fleet.items : Trigger!Request(p, q)

FleetStep ==
  \/ \E p \in fleet.procs : DriverStep(p) \/ Poll(p) \/ Request(p)
  \/ \E q \in fleet.items \ TriggerItems : Submit(q) /\ UNCHANGED procVars
  \/ \E q \in fleet.items : BackoffElapses(q) /\ UNCHANGED procVars

\* A claim's age matters to the operator only.
Operate(q) ==
  \/ /\ recoveries < MaxRecoveries
     /\ fleet.operator # {}
     /\ ClaimAges(q)
     /\ UNCHANGED <<procVars, envVars>>
  \/ RecoverBy(fleet.operator, q)

Next ==
  /\ \/ FleetStep /\ UNCHANGED envVars
     \/ \E p \in fleet.crashing : Crash(p)
     \/ \E q \in fleet.items : Operate(q)
  /\ UNCHANGED fleet

DriversInit == Init /\ fleet \in Fleets

Spec == DriversInit /\ [][Next]_driverVars

\* The deployments whose progress is looked at: without an operator, whose
\* recovery is one more beginning.
Unattended == fleet.operator = {}

\* Every process runs on, pollers poll again, back-offs elapse; nobody has to
\* make a request.
Fairness ==
  /\ \A p \in Procs :
       WF_driverVars(/\ Unattended
                     /\ p \in fleet.procs
                     /\ DriverStep(p) \/ Poll(p)
                     /\ UNCHANGED <<envVars, fleet>>)
  /\ \A q \in Items :
       WF_driverVars(/\ Unattended
                     /\ BackoffElapses(q)
                     /\ UNCHANGED <<procVars, envVars, fleet>>)

FairSpec == Spec /\ Fairness

-----------------------------------------------------------------------------
WorksOn(p, q) ==
  loc[p].item = q /\ pc[p] \notin {"idle", "fetch", "lookup", "answer", "reserve",
                                   "enqueue", "claim"}

\* A trigger left its claim behind when an exception escaped from it.
LeftByTrigger(q) ==
  /\ item[q].state = "claimed"
  /\ \E t \in TriggerProcs : item[q].by = WorkerOf[t]

(* Workers and loops never walk away from a claim, whatever the other      *)
(* drivers do to the item meanwhile: they share runs, so each of them can  *)
(* find the run moved, reported or its item settled by another program.    *)
PollersStrandNoClaim ==
  crashes = 0 =>
    \A q \in Items : item[q].state = "claimed" =>
      LeftByTrigger(q) \/ \E p \in Procs : WorkerOf[p] = item[q].by /\ WorksOn(p, q)

(* A run is never summarised or completed before its graph write and its   *)
(* completed report are stored, whichever drivers executed it together.    *)
CompletedRunIsPersisted ==
  \A r \in Runs : run[r].status \in {"summarizing", "completed"}
    => r \in graph /\ report[r] = "completed"

PhaseOf(q) ==
  CASE item[q].state = "absent"                -> "none"
    [] item[q].state \in {"queued", "claimed"} -> "accepted"
    [] item[q].state = "completed"             -> "done"
    [] item[q].state = "dead_letter"           -> "failed"

ReportOn(q) ==
  IF HasRun(q) THEN report[CHOOSE r \in Runs : Owns(r, q)] ELSE "none"

\* Handlers of queue workers need not report.
Job == INSTANCE JobLifecycle WITH
  Jobs <- Items,
  phase <- [q \in Items |-> PhaseOf(q)],
  stored <- {q \in Items : \E r \in graph : Owns(r, q)},
  announced <- [q \in Items |-> ReportOn(q)],
  silent <- fleet.procs \cap WorkerProcs # {},
  interventions <- recoveries

(* The drivers together keep the promises of JobLifecycle: whatever they   *)
(* do to the same item, run and artifacts and wherever they crash, nobody  *)
(* announces a result before it is stored or twice, completes an item that *)
(* left no report, or takes a settled item up again without the operator.  *)
JobSpec == Job!Spec

SomebodyPolls == fleet.procs \cap (WorkerProcs \cup LoopProcs) # {}

\* The run id that some item asks for belongs to another item.
ARunIsTaken == \E q \in Items : run[RequestedRun[q]].item \notin {q, None}

(* Every queued item is eventually completed or dead-lettered by whichever *)
(* drivers poll it, unless a process crashes, a trigger leaves it claimed, *)
(* or an item asks for a run id that is taken: the drivers' different      *)
(* error handling (requeue at once, after a back-off, or not) never keeps  *)
(* an item going round.                                                    *)
EveryItemSettles ==
  \A q \in Items :
    item[q].state = "queued" /\ SomebodyPolls /\ Unattended
      ~> \/ item[q].state \in {"completed", "dead_letter"}
         \/ LeftByTrigger(q) \/ ARunIsTaken \/ crashes > 0

=============================================================================
