-------------------------- MODULE InteractiveTrigger --------------------------
(***************************************************************************)
(* InteractiveRunTriggerService.trigger_run (interactive.py): a caller's   *)
(* process reserves the key of its request, enqueues the item under it,    *)
(* claims the item itself and executes it at once; a repeated request is   *)
(* answered with the stored report or resumes the run.  The item, the key  *)
(* and the run id are derived from the request, so a request is its item.  *)
(*                                                                         *)
(* The item lies in the common queue while this goes on, so pollers may    *)
(* take it as well.  Exceptions without an except clause escape to the     *)
(* caller: the process returns and the claim, if it has one, stays.        *)
(* Runtime and canonicalizer are external, as in LoopExecutor.             *)
(***************************************************************************)
EXTENDS Environment

CONSTANT TriggerItems  \* items of interactive requests

TriggerLabels ==
  {"idle", "answer", "resume", "reserve", "enqueue", "runtime", "canonicalize",
   "graph", "report_success", "report", "complete", "retry", "dead"}
  \cup StartLabels

-----------------------------------------------------------------------------
(* trigger_run. *)

\* The key is looked up first.  A request that is refused (bad workspace or
\* input, a digest that differs, a missing snapshot) changes nothing.
Request(p, q) ==
  /\ pc[p] = "idle"
  /\ q \in TriggerItems
  /\ \/ /\ link[q] = Unreserved
        /\ Goto(p, "reserve")
        /\ loc' = [loc EXCEPT ![p].item = q, ![p].run = RequestedRun[q]]
     \/ /\ link[q] # Unreserved
        /\ Goto(p, "answer")
        /\ loc' = [loc EXCEPT ![p].item = q, ![p].run = link[q]]
  /\ UNCHANGED ledgerVars

\* fetch_interactive_run_report(idempotency_key).
Answer(p) ==
  LET reported == \E r \in Runs : Owns(r, loc[p].item) /\ report[r] # "none"
  IN /\ pc[p] = "answer"
     /\ \/ reported /\ Return(p)
        \/ ~reported /\ Goto(p, "resume") /\ UNCHANGED loc
     /\ UNCHANGED ledgerVars

\* resume_run with the run id that the key had: None if the item was never
\* claimed, which is a KeyError.  Nothing is claimed.
Resume(p) ==
  /\ pc[p] = "resume"
  /\ \/ /\ loc[p].run # None
        /\ run[loc[p].run].status = "codex_executing"
        /\ Goto(p, "runtime")
        /\ UNCHANGED loc
     \/ Return(p)
  /\ UNCHANGED ledgerVars

\* DuplicateIdempotencyKeyError: another request was faster.
Reserve(p) ==
  /\ pc[p] = "reserve"
  /\ \/ ReserveKey(loc[p].item) /\ Goto(p, "enqueue") /\ UNCHANGED loc
     \/ link[loc[p].item] # Unreserved /\ Return(p) /\ UNCHANGED ledgerVars

Enqueue(p) ==
  /\ pc[p] = "enqueue"
  /\ EnqueueJob(loc[p].item)
  /\ Goto(p, "claim")
  /\ UNCHANGED loc

Start(p) == loc[p].stage = "start" /\ StartStep(p)

Started(p) ==
  /\ pc[p] = "started"
  /\ Goto(p, "runtime")
  /\ UNCHANGED <<loc, ledgerVars>>

-----------------------------------------------------------------------------
(* _execute_intent and _canonicalize_and_persist. *)

NextTransition(p, goal) ==
  /\ Goto(p, "read")
  /\ loc' = [loc EXCEPT ![p].goal = goal, ![p].stage = "proposal"]

\* _fail_run_if_possible; stage says how the handler ends.
FailRun(p, stage) ==
  /\ Goto(p, "read")
  /\ loc' = [loc EXCEPT ![p].goal = "failed", ![p].stage = stage]

\* An accepted proposal, one that the competition rules reject, a
\* CodexRuntimeError (retryable or not), or any other exception.
RunRuntime(p) ==
  /\ pc[p] = "runtime"
  /\ \/ NextTransition(p, "normalizing")
     \/ FailRun(p, "report")
     \/ FailRun(p, "retry")
     \/ FailRun(p, "dead")
     \/ Return(p)
  /\ UNCHANGED ledgerVars

\* A quarantined graph fails the run with a transition that must succeed.
Canonicalize(p) ==
  /\ pc[p] = "canonicalize"
  /\ \/ NextTransition(p, "adjudicating")
     \/ NextTransition(p, "failed")
  /\ UNCHANGED ledgerVars

\* Mutant: the graph write is left to the report's transaction, and forgotten.
SkipGraph(p) ==
  /\ pc[p] = "graph"
  /\ Goto(p, "report_success")
  /\ UNCHANGED <<loc, ledgerVars>>

\* record_interactive_run_success, statement by statement.
WriteGraph(p) ==
  /\ pc[p] = "graph"
  /\ \/ InsertGraphWrite(loc[p].run) /\ Goto(p, "report_success") /\ UNCHANGED loc
     \/ loc[p].run \in graph /\ Return(p) /\ UNCHANGED ledgerVars

WriteReport(p) ==
  /\ pc[p] = "report_success"
  /\ \/ InsertReport(loc[p].run, "completed") /\ NextTransition(p, "summarizing")
     \/ report[loc[p].run] # "none" /\ Return(p) /\ UNCHANGED ledgerVars

ContinueProposal(p) ==
  \/ loc[p].goal = "normalizing" /\ Goto(p, "canonicalize") /\ UNCHANGED loc
  \/ loc[p].goal = "adjudicating" /\ NextTransition(p, "persisting")
  \/ loc[p].goal = "persisting" /\ Goto(p, "graph") /\ UNCHANGED loc
  \/ loc[p].goal = "summarizing" /\ NextTransition(p, "completed")
  \/ loc[p].goal = "completed" /\ Goto(p, "complete") /\ UNCHANGED loc
  \/ loc[p].goal = "failed" /\ Goto(p, "report")
       /\ loc' = [loc EXCEPT ![p].stage = "report"]

AdvanceProposal(p) ==
  /\ loc[p].stage = "proposal"
  /\ \/ ReadRunState(p)
     \/ LoseTransition(p)
     \/ SetRunState(p) /\ ContinueProposal(p)

-----------------------------------------------------------------------------
(* The except clauses, and the ledger call each way ends with. *)

ErrorStages == {"retry", "dead", "report"}

FailRunIfPossible(p) ==
  /\ loc[p].stage \in ErrorStages
  /\ \/ ReadRunState(p)
     \/ LoseTransition(p)
     \/ SetRunState(p) /\ Goto(p, "report") /\ UNCHANGED loc

\* A failed start escapes; a refused transition of the proposal quarantines
\* the run; one of the handler itself is swallowed.
HandleRaised(p) ==
  /\ pc[p] = "raised"
  /\ \/ loc[p].stage = "start" /\ Return(p)
     \/ loc[p].stage = "proposal" /\ FailRun(p, "report")
     \/ loc[p].stage \in ErrorStages /\ Goto(p, "report") /\ UNCHANGED loc
  /\ UNCHANGED ledgerVars

\* Every failure is reported before the item is settled; a second report is
\* an IntegrityError.
WriteFailureReport(p) ==
  LET status == IF loc[p].stage = "report" THEN "quarantined" ELSE "failed"
      then == IF loc[p].stage = "retry" THEN "retry" ELSE "dead"
  IN /\ pc[p] = "report"
     /\ \/ InsertReport(loc[p].run, status) /\ Goto(p, then) /\ UNCHANGED loc
        \/ report[loc[p].run] # "none" /\ Return(p) /\ UNCHANGED ledgerVars

\* Mutant: the item is completed without validating the claim.
CompleteUnchecked(p) ==
  /\ pc[p] = "complete"
  /\ item' = [item EXCEPT ![loc[p].item].state = "completed", ![loc[p].item].by = None]
  /\ UNCHANGED <<run, link, report, graph>>
  /\ Return(p)

Complete(p) ==
  /\ pc[p] = "complete"
  /\ CompleteItem(loc[p].item, loc[p].run, WorkerOf[p])
  /\ Return(p)

\* Mutant: the requeue does not validate the claim.
RetryUnchecked(p) ==
  /\ pc[p] = "retry"
  /\ RetryItem(loc[p].item, "now")
  /\ Return(p)

Retry(p) ==
  /\ pc[p] = "retry"
  /\ HoldsClaim(p)
  /\ RetryItem(loc[p].item, "now")
  /\ Return(p)

DeadLetter(p) ==
  /\ pc[p] = "dead"
  /\ DeadLetterOwned(loc[p].item, loc[p].run, WorkerOf[p])
  /\ Return(p)

\* QueueMutationMismatchError escapes.
MutationMismatch(p) ==
  /\ pc[p] \in {"complete", "retry", "dead"}
  /\ ~HoldsClaim(p)
  /\ Return(p)
  /\ UNCHANGED ledgerVars

TriggerStep(p) ==
  \/ Answer(p)
  \/ Resume(p)
  \/ Reserve(p)
  \/ Enqueue(p)
  \/ Start(p)
  \/ Started(p)
  \/ RunRuntime(p)
  \/ Canonicalize(p)
  \/ WriteGraph(p)
  \/ WriteReport(p)
  \/ AdvanceProposal(p)
  \/ FailRunIfPossible(p)
  \/ HandleRaised(p)
  \/ WriteFailureReport(p)
  \/ Complete(p)
  \/ Retry(p)
  \/ DeadLetter(p)
  \/ MutationMismatch(p)

=============================================================================
