---------------------------- MODULE Orchestrator ----------------------------
(***************************************************************************)
(* RunOrchestrator.start_queued_run and resume_run, as executed by a set   *)
(* of processes over the shared ledger.  Every step is one database        *)
(* statement or transaction, so other processes interleave between them:   *)
(* a life-cycle transition is a read of the status followed by a           *)
(* compare-and-set.  The clients enter at "claim", and find the process at *)
(* "started" (an intent was returned) or "raised" (loc[p].exc escaped).    *)
(***************************************************************************)
EXTENDS RunLedger

CONSTANTS
  Procs,    \* processes (threads, services) that execute queue items
  WorkerOf  \* the worker_id each one passes to the ledger

ASSUME WorkerOfIsWorker == WorkerOf \in [Procs -> Workers]

VARIABLES
  pc,  \* what the process does next
  loc  \* its locals; seen is the status its transition has read

procVars == <<pc, loc>>

StartLabels == {"claim", "status", "read", "cas", "started", "raised"}

Exceptions ==
  {"none", "KeyError", "DuplicateRunStart", "IntegrityError", "TopicSnapshot",
   "MalformedRunInput", "InvalidRunTransition"}

\* What a client's transitions are part of; start_queued_run is "start".
Stages == {"start", "proposal", "retry", "dead", "report"}

Locals == [item : Items \cup {None}, run : Runs \cup {None}, goal : RunStates,
           seen : RunStates, exc : Exceptions, stage : Stages]

IdleLocals == [item |-> None, run |-> None, goal |-> "queued",
               seen |-> "queued", exc |-> "none", stage |-> "start"]

ProcInit ==
  /\ pc = [p \in Procs |-> "idle"]
  /\ loc = [p \in Procs |-> IdleLocals]

-----------------------------------------------------------------------------
(* Control steps of a process. *)

Goto(p, label) == pc' = [pc EXCEPT ![p] = label]

\* Return to the caller: the locals are gone.
Return(p) == Goto(p, "idle") /\ loc' = [loc EXCEPT ![p] = IdleLocals]

Raise(p, exc) == Goto(p, "raised") /\ loc' = [loc EXCEPT ![p].exc = exc]

\* Call RunStateMachine.transition(to_state = goal).
Transition(p, goal) == Goto(p, "read") /\ loc' = [loc EXCEPT ![p].goal = goal]

\* An error handler moves the run to failed, then re-raises exc.
FailThenRaise(p, exc) ==
  /\ Goto(p, "read")
  /\ loc' = [loc EXCEPT ![p].goal = "failed", ![p].exc = exc]

HoldsClaim(p) == ClaimValid(loc[p].item, loc[p].run, WorkerOf[p])

-----------------------------------------------------------------------------
(* The claim. *)

Claim(p) ==
  LET q == loc[p].item
      r == loc[p].run
      w == WorkerOf[p]
  IN /\ pc[p] = "claim"
     /\ \/ ClaimNewRun(q, r, w) /\ Goto(p, "status") /\ UNCHANGED loc
        \/ ClaimExistingRun(q, r, w) /\ Goto(p, "status") /\ UNCHANGED loc
        \/ ClaimPasses(q, r) /\ Goto(p, "status") /\ UNCHANGED <<loc, ledgerVars>>
        \/ ClaimReturnsNone(q) /\ Raise(p, "KeyError") /\ UNCHANGED ledgerVars
        \/ ClaimIsDuplicate(q, r) /\ Raise(p, "DuplicateRunStart")
             /\ UNCHANGED ledgerVars
        \/ ClaimBreaksIntegrity(q, r) /\ Raise(p, "IntegrityError")
             /\ UNCHANGED ledgerVars

\* The run row read after the claim decides between a fresh start and
\* resume_run, which accepts codex_executing only; rebuilding the intent from
\* the pinned snapshot may still fail.
Status(p) ==
  LET status == run[loc[p].run].status
  IN /\ pc[p] = "status"
     /\ \/ status = "queued" /\ Transition(p, "loading_state")
        \/ status = "codex_executing" /\ Goto(p, "started") /\ UNCHANGED loc
        \/ status = "codex_executing"
             /\ \E exc \in {"TopicSnapshot", "MalformedRunInput"} : Raise(p, exc)
        \/ status \notin {"queued", "codex_executing"}
             /\ Raise(p, "InvalidRunTransition")
     /\ UNCHANGED ledgerVars

-----------------------------------------------------------------------------
(* RunStateMachine.transition: read, check the table, compare and set. *)

ReadRunState(p) ==
  LET status == run[loc[p].run].status
  IN /\ pc[p] = "read"
     /\ \/ /\ loc[p].goal \in STATE_TRANSITIONS[status]
           /\ Goto(p, "cas")
           /\ loc' = [loc EXCEPT ![p].seen = status]
        \/ /\ loc[p].goal \notin STATE_TRANSITIONS[status]
           /\ Raise(p, "InvalidRunTransition")
     /\ UNCHANGED ledgerVars

\* Mutant: the status is written without comparing it (no expected_state).
SetRunStateBlindly(p) ==
  /\ pc[p] = "cas"
  /\ run' = [run EXCEPT ![loc[p].run].status = loc[p].goal]
  /\ UNCHANGED <<item, link, report, graph>>

SetRunState(p) ==
  /\ pc[p] = "cas"
  /\ TransitionRun(loc[p].run, loc[p].seen, loc[p].goal)

\* StaleRunStateError: another process moved the run in between.
LoseTransition(p) ==
  /\ pc[p] = "cas"
  /\ run[loc[p].run].status # loc[p].seen
  /\ Raise(p, "InvalidRunTransition")
  /\ UNCHANGED ledgerVars

\* What start_queued_run does after each transition succeeded.
ContinueStart(p) ==
  \/ loc[p].goal = "loading_state" /\ Transition(p, "selecting_frontier")
  \/ loc[p].goal = "loading_state" /\ FailThenRaise(p, "TopicSnapshot")
  \/ loc[p].goal = "selecting_frontier" /\ Transition(p, "planning")
  \/ loc[p].goal = "selecting_frontier" /\ FailThenRaise(p, "MalformedRunInput")
  \/ loc[p].goal = "planning" /\ Transition(p, "attacking_current_best")
  \/ loc[p].goal = "attacking_current_best" /\ Transition(p, "generating_challengers")
  \/ loc[p].goal = "generating_challengers" /\ Transition(p, "codex_executing")
  \/ loc[p].goal = "codex_executing" /\ Goto(p, "started") /\ UNCHANGED loc
  \/ loc[p].goal = "codex_executing" /\ FailThenRaise(p, "MalformedRunInput")
  \/ loc[p].goal = "failed" /\ Goto(p, "raised") /\ UNCHANGED loc

AdvanceStart(p) == SetRunState(p) /\ ContinueStart(p)

StartStep(p) ==
  \/ Claim(p)
  \/ Status(p)
  \/ ReadRunState(p)
  \/ AdvanceStart(p)
  \/ LoseTransition(p)

=============================================================================
