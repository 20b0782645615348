---------------------------- MODULE LoopExecutor ----------------------------
(***************************************************************************)
(* The run executors of worker_loop.py (CodexBackedRunExecutor and the     *)
(* fixture executor share this control flow) and the loop's handling of    *)
(* the exceptions that escape from them.  A process is a worker loop that  *)
(* polls the queue and takes one item at a time from its start to a        *)
(* canonical graph write and a report.                                     *)
(*                                                                         *)
(* The Codex runtime and the canonicalizer are external: each ends with    *)
(* any of the outcomes that the code tells apart.  loc[p].stage is the     *)
(* place in the code a life-cycle transition returns to: the start of the  *)
(* run, the way of an accepted proposal, or the error handler that fails   *)
(* the run before it requeues ("retry"), dead-letters ("dead") or writes a *)
(* failure report ("report").  What the loops promise is stated in         *)
(* Drivers, where they meet each other and the other programs; here are    *)
(* two promises that they do not keep.                                     *)
(***************************************************************************)
EXTENDS Environment

Lookups == {"lookup", "lookup_again", "lookup_invalid", "lookup_conflict"}

-----------------------------------------------------------------------------
(* The loop takes the next claimable row. *)

Poll(p, q) ==
  /\ pc[p] = "idle"
  /\ item[q].state = "queued"
  /\ item[q].available = "now"
  /\ Goto(p, "lookup")
  /\ loc' = [loc EXCEPT ![p].item = q, ![p].run = RequestedRun[q]]
  /\ UNCHANGED ledgerVars

-----------------------------------------------------------------------------
(* _existing_report_result. *)

\* Mutant: the run row is taken for its report.
RunRowExists(p) ==
  \E r \in Runs : Owns(r, loc[p].item)

\* A report of this run, or of whichever run has the item's idempotency key.
ReportExists(p) ==
  \E r \in Runs : /\ r = loc[p].run \/ Owns(r, loc[p].item)
                  /\ report[r] # "none"

\* _fail_run_if_possible, then the given step of the error handler.
FailRun(p, then) ==
  /\ Goto(p, "read")
  /\ loc' = [loc EXCEPT ![p].goal = "failed", ![p].stage = then]

\* Without an intent there is nothing to write a failure report about.
NoReportExists(p) ==
  CASE pc[p] = "lookup"          -> Goto(p, "claim") /\ UNCHANGED loc
    [] pc[p] = "lookup_again"    -> Goto(p, "runtime") /\ UNCHANGED loc
    [] pc[p] = "lookup_conflict" -> Goto(p, "crashed") /\ UNCHANGED loc
    [] pc[p] = "lookup_invalid"  ->
         FailRun(p, IF loc[p].stage = "start" THEN "dead" ELSE "report")

LookUpReport(p) ==
  /\ pc[p] \in Lookups
  /\ \/ ReportExists(p) /\ Goto(p, "reclaim") /\ UNCHANGED loc
     \/ ~ReportExists(p) /\ NoReportExists(p)
  /\ UNCHANGED ledgerVars

\* The item is claimed if it can be; whatever the claim says is ignored.
Reclaim(p) ==
  LET q == loc[p].item
      r == loc[p].run
  IN /\ pc[p] = "reclaim"
     /\ \/ ClaimNewRun(q, r, WorkerOf[p])
        \/ ClaimExistingRun(q, r, WorkerOf[p])
        \/ /\ \/ ClaimPasses(q, r)
              \/ ClaimReturnsNone(q)
              \/ ClaimIsDuplicate(q, r)
              \/ ClaimBreaksIntegrity(q, r)
           /\ UNCHANGED ledgerVars
     /\ Goto(p, "settle")
     /\ UNCHANGED loc

\* Mutant: the item that was claimed is not completed.
SettleNothing(p) ==
  /\ pc[p] = "settle"
  /\ UNCHANGED ledgerVars
  /\ Return(p)

\* _complete_claim_if_possible.
Settle(p) ==
  /\ pc[p] = "settle"
  /\ \/ CompleteItem(loc[p].item, loc[p].run, WorkerOf[p])
     \/ ~HoldsClaim(p) /\ UNCHANGED ledgerVars
  /\ Return(p)

-----------------------------------------------------------------------------
(* From the intent to an accepted proposal. *)

Start(p) == loc[p].stage = "start" /\ StartStep(p)

Started(p) ==
  /\ pc[p] = "started"
  /\ Goto(p, "lookup_again")
  /\ UNCHANGED <<loc, ledgerVars>>

NextTransition(p, goal) ==
  /\ Goto(p, "read")
  /\ loc' = [loc EXCEPT ![p].goal = goal, ![p].stage = "proposal"]

\* runtime.execute and accept_competition_proposal: a proposal that holds, one
\* that the competition rules reject, a CodexRuntimeError (retryable or not),
\* or any other exception.
RunRuntime(p) ==
  /\ pc[p] = "runtime"
  /\ \/ NextTransition(p, "normalizing")
     \/ Goto(p, "lookup_invalid") /\ loc' = [loc EXCEPT ![p].stage = "proposal"]
     \/ FailRun(p, "retry")
     \/ FailRun(p, "dead")
     \/ Goto(p, "crashed") /\ UNCHANGED loc
  /\ UNCHANGED ledgerVars

-----------------------------------------------------------------------------
(* _canonicalize_and_persist. *)

Canonicalize(p) ==
  /\ pc[p] = "canonicalize"
  /\ \/ NextTransition(p, "adjudicating")
     \/ FailRun(p, "report")                \* quarantined
  /\ UNCHANGED ledgerVars

\* record_interactive_run_success, first statement.
WriteGraph(p) ==
  /\ pc[p] = "graph"
  /\ \/ InsertGraphWrite(loc[p].run) /\ Goto(p, "report_success")
     \/ /\ loc[p].run \in graph            \* sqlite3.IntegrityError
        /\ Goto(p, "lookup_conflict")
        /\ UNCHANGED ledgerVars
  /\ UNCHANGED loc

\* Its second statement; the first one stays committed if this one fails.
WriteReport(p) ==
  /\ pc[p] = "report_success"
  /\ \/ InsertReport(loc[p].run, "completed") /\ NextTransition(p, "summarizing")
     \/ /\ report[loc[p].run] # "none"
        /\ Goto(p, "lookup_conflict")
        /\ UNCHANGED <<loc, ledgerVars>>

\* What follows each transition of an accepted proposal.
ContinueProposal(p) ==
  \/ loc[p].goal = "normalizing" /\ Goto(p, "canonicalize") /\ UNCHANGED loc
  \/ loc[p].goal = "adjudicating" /\ NextTransition(p, "persisting")
  \/ loc[p].goal = "persisting" /\ Goto(p, "graph") /\ UNCHANGED loc
  \/ loc[p].goal = "summarizing" /\ NextTransition(p, "completed")
  \/ loc[p].goal = "completed" /\ Goto(p, "complete") /\ UNCHANGED loc

AdvanceProposal(p) ==
  /\ loc[p].stage = "proposal"
  /\ \/ ReadRunState(p)
     \/ LoseTransition(p)
     \/ SetRunState(p) /\ ContinueProposal(p)

-----------------------------------------------------------------------------
(* The error handlers. *)

ErrorStages == {"retry", "dead", "report"}

\* _fail_run_if_possible swallows a transition that is refused.
FailRunIfPossible(p) ==
  /\ loc[p].stage \in ErrorStages
  /\ \/ ReadRunState(p)
     \/ LoseTransition(p)
     \/ SetRunState(p) /\ Goto(p, loc[p].stage) /\ UNCHANGED loc

\* What the except clauses do with an exception of a transition.
HandleRaised(p) ==
  LET then == CASE loc[p].stage \in ErrorStages            -> loc[p].stage
                [] loc[p].exc = "InvalidRunTransition"     -> "lookup_invalid"
                [] OTHER                                   -> "crashed"
  IN /\ pc[p] = "raised"
     /\ Goto(p, then)
     /\ UNCHANGED <<loc, ledgerVars>>

WriteFailureReport(p) ==
  /\ pc[p] = "report"
  /\ \/ InsertReport(loc[p].run, "quarantined") /\ Goto(p, "dead")
     \/ /\ report[loc[p].run] # "none"     \* sqlite3.IntegrityError
        /\ Goto(p, "crashed")
        /\ UNCHANGED ledgerVars
  /\ UNCHANGED loc

\* The last ledger call of each way: complete, requeue at once, dead-letter.
Complete(p) ==
  /\ pc[p] = "complete"
  /\ CompleteItem(loc[p].item, loc[p].run, WorkerOf[p])
  /\ Return(p)

Retry(p) ==
  /\ pc[p] = "retry"
  /\ HoldsClaim(p)
  /\ RetryItem(loc[p].item, "now")
  /\ Return(p)

\* _dead_letter_queue_item_after_executor_error starts with the same call.
DeadLetter(p) ==
  /\ pc[p] \in {"dead", "crashed"}
  /\ DeadLetterOwned(loc[p].item, loc[p].run, WorkerOf[p])
  /\ Return(p)

\* QueueMutationMismatchError escapes to the loop, which dead-letters the item
\* with the claim, and without one when that fails too.
MutationMismatch(p) ==
  /\ pc[p] \in {"complete", "retry", "dead", "crashed"}
  /\ ~HoldsClaim(p)
  /\ Goto(p, IF pc[p] = "crashed" THEN "crashed_unowned" ELSE "crashed")
  /\ UNCHANGED <<loc, ledgerVars>>

DeadLetterAnyway(p) ==
  /\ pc[p] = "crashed_unowned"
  /\ DeadLetterUnowned(loc[p].item)
  /\ Return(p)

ExecutorStep(p) ==
  \/ LookUpReport(p)
  \/ Reclaim(p)
  \/ Settle(p)
  \/ Start(p)
  \/ Started(p)
  \/ RunRuntime(p)
  \/ Canonicalize(p)
  \/ WriteGraph(p)
  \/ WriteReport(p)
  \/ AdvanceProposal(p)
  \/ FailRunIfPossible(p)
  \/ HandleRaised(p)
  \/ WriteFailureReport(p)
  \/ Complete(p)
  \/ Retry(p)
  \/ DeadLetter(p)
  \/ MutationMismatch(p)
  \/ DeadLetterAnyway(p)

Next ==
  \/ \E p \in Procs, q \in Items : Poll(p, q) /\ UNCHANGED envVars
  \/ \E p \in Procs : ExecutorStep(p) /\ UNCHANGED envVars
  \/ EnvironmentStep

Spec == Init /\ [][Next]_vars

-----------------------------------------------------------------------------
(* An item that is back in the queue can be executed: its run is where     *)
(* start_queued_run starts or resumes it.                                  *)
QueuedRunCanStart ==
  \A q \in Items, r \in Runs :
    item[q].state = "queued" /\ Owns(r, q)
      => run[r].status \in {"queued", "codex_executing"}

(* The graph write of a run and its report are one transaction: a run with *)
(* a graph write that nobody is working on has its report.                 *)
GraphWriteIsReported ==
  \A r \in graph :
    report[r] # "none" \/ \E p \in Procs : loc[p].run = r

=============================================================================
