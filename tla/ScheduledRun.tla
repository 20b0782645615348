---------------------------- MODULE ScheduledRun ----------------------------
(***************************************************************************)
(* ScheduledRunService.execute_next and execute_item: a process inspects   *)
(* its session, takes a lease on it, starts the run, executes it, stores   *)
(* what it found, settles the item and gives the lease back.  Processes    *)
(* share one session, the ledger and, by default, their worker id.         *)
(*                                                                         *)
(* Inspector, runtime and canonicalizer are external: each ends with any   *)
(* outcome that the code tells apart.  loc[p].stage is the place a         *)
(* life-cycle transition returns to: the start of the run, an accepted     *)
(* proposal, or an error handler that fails the run before it writes a     *)
(* failure report ("report") or dead-letters the item ("dead").            *)
(***************************************************************************)
EXTENDS Environment, SessionLease

CONSTANTS
  HostOf,      \* the host each service runs on
  MaxAttempts  \* max_attempts of the items

ASSUME ScheduledAssumption ==
  /\ Procs \subseteq Holders
  /\ HostOf \in [Procs -> Hosts]
  /\ MaxAttempts \in Nat \ {0}

allVars == <<vars, sessionVars>>

\* The labels at which a process is inside the try that gives the lease back.
Leased ==
  StartLabels \cup
  {"canonicalize", "graph", "report_success", "quarantine", "quarantine_dead",
   "complete", "report", "owner", "dead", "dead_unowned", "retry", "requeue",
   "release"}

ScheduledLabels ==
  Leased \cup {"idle", "inspect", "validate", "outdated", "lease", "reject_retry",
               "reject_requeue", "reject_dead"}

ScheduledTypeOK ==
  /\ TypeOK
  /\ SessionTypeOK
  /\ pc \in [Procs -> ScheduledLabels]
  /\ loc \in [Procs -> Locals]
  /\ recoveries \in 0..MaxRecoveries
  /\ crashes \in 0..MaxCrashes

-----------------------------------------------------------------------------
(* Before the claim: nothing here owns the item. *)

\* execute_item leaves a row alone that it does not find queued.
Take(p, q) ==
  /\ pc[p] = "idle"
  /\ item[q].state = "queued"
  /\ Goto(p, "inspect")
  /\ loc' = [loc EXCEPT ![p].item = q, ![p].run = RequestedRun[q]]
  /\ UNCHANGED <<ledgerVars, sessionVars>>

\* _trusted_runner_failure and _preflight_failure.
Inspect(p) ==
  /\ pc[p] = "inspect"
  /\ \/ RecordInspection(HostOf[p]) /\ Goto(p, "validate")
     \/ RequireReauth /\ Goto(p, "reject_dead")       \* not active any more
     \/ \E place \in {"reject_dead", "reject_retry"} :
          Goto(p, place) /\ UNCHANGED sessionVars
  /\ UNCHANGED <<loc, ledgerVars>>

\* The inspector or the credential binding raises out of execute_item.
InspectRaises(p) ==
  /\ pc[p] \in {"inspect", "validate"}
  /\ Return(p)
  /\ UNCHANGED <<ledgerVars, sessionVars>>

\* acquire_execution_lease validates the record it reads ...
Validate(p) ==
  /\ pc[p] = "validate"
  /\ \/ session.state # "active" /\ Goto(p, "reject_dead")
     \/ session.state = "active" /\ session.host # HostOf[p] /\ Goto(p, "reject_retry")
     \/ Leaseable(HostOf[p]) /\ Goto(p, "outdated")
     \/ Leaseable(HostOf[p]) /\ Goto(p, "lease")
  /\ UNCHANGED <<loc, ledgerVars, sessionVars>>

Outdated(p) ==
  /\ pc[p] = "outdated"
  /\ RequireReauth
  /\ Goto(p, "reject_retry")
  /\ UNCHANGED <<loc, ledgerVars>>

\* ... and then takes the lease.
Lease(p) ==
  /\ pc[p] = "lease"
  /\ \/ TakeLease(p) /\ Goto(p, "claim")
     \/ Held /\ Goto(p, "reject_retry") /\ UNCHANGED sessionVars
  /\ UNCHANGED <<loc, ledgerVars>>

(* _record_preclaim_failure: the decision is taken on a row read before    *)
(* the write, and the write names no owner.                                *)

RejectRead(p) ==
  /\ pc[p] = "reject_retry"
  /\ Goto(p, IF item[loc[p].item].attempts + 1 < MaxAttempts
             THEN "reject_requeue" ELSE "reject_dead")
  /\ UNCHANGED <<loc, ledgerVars, sessionVars>>

\* Mutant: a deferral gives an attempt back.
RejectRequeueRefunding(p) ==
  /\ pc[p] = "reject_requeue"
  /\ item' = [item EXCEPT ![loc[p].item].state = "queued",
                          ![loc[p].item].attempts = @ - 1]
  /\ Return(p)
  /\ UNCHANGED <<run, link, report, graph, sessionVars>>

RejectRequeue(p) ==
  /\ pc[p] = "reject_requeue"
  /\ RetryItem(loc[p].item, "later")
  /\ Return(p)
  /\ UNCHANGED sessionVars

RejectDead(p) ==
  /\ pc[p] = "reject_dead"
  /\ DeadLetterUnowned(loc[p].item)
  /\ Return(p)
  /\ UNCHANGED sessionVars

Preclaim(p) ==
  \/ Inspect(p)
  \/ InspectRaises(p)
  \/ Validate(p)
  \/ Outdated(p)
  \/ Lease(p)
  \/ RejectRead(p)
  \/ RejectRequeue(p)
  \/ RejectDead(p)

-----------------------------------------------------------------------------
(* Under the lease. *)

Start(p) == loc[p].stage = "start" /\ StartStep(p)

\* _fail_run_if_possible, then the given step of the error handler.
FailRun(p, then) ==
  /\ Goto(p, "read")
  /\ loc' = [loc EXCEPT ![p].goal = "failed", ![p].stage = then]

NextTransition(p, goal) ==
  /\ Goto(p, "read")
  /\ loc' = [loc EXCEPT ![p].goal = goal, ![p].stage = "proposal"]

\* runtime.execute and accept_competition_proposal: an accepted proposal, a
\* refused one or a terminal CodexRuntimeError, a retryable one, or an
\* exception that no clause catches.
RunRuntime(p) ==
  /\ pc[p] = "started"
  /\ \/ NextTransition(p, "normalizing")
     \/ FailRun(p, "report")
     \/ Goto(p, "retry") /\ UNCHANGED loc
     \/ Goto(p, "release") /\ UNCHANGED loc
  /\ UNCHANGED ledgerVars

\* Mutant: start_queued_run is called before the try.
HandleRaisedOutside(p) ==
  /\ pc[p] = "raised"
  /\ \/ loc[p].stage = "start" /\ Return(p)
     \/ loc[p].stage = "proposal" /\ FailRun(p, "report")
     \/ /\ loc[p].stage \in {"report", "dead"}
        /\ Goto(p, loc[p].stage) /\ UNCHANGED loc
  /\ UNCHANGED ledgerVars

\* What becomes of an exception of a transition or of start_queued_run.
HandleRaised(p) ==
  /\ pc[p] = "raised"
  /\ \/ /\ loc[p].stage = "start"
        /\ loc[p].exc \in {"KeyError", "IntegrityError"}   \* not caught
        /\ Goto(p, "release") /\ UNCHANGED loc
     \/ /\ loc[p].stage = "start"
        /\ loc[p].exc \notin {"KeyError", "IntegrityError"}
        /\ Goto(p, "owner") /\ UNCHANGED loc
     \/ loc[p].stage = "proposal" /\ FailRun(p, "report")
     \/ /\ loc[p].stage \in {"report", "dead"}             \* swallowed
        /\ Goto(p, loc[p].stage) /\ UNCHANGED loc
  /\ UNCHANGED ledgerVars

Canonicalize(p) ==
  /\ pc[p] = "canonicalize"
  /\ \E goal \in {"adjudicating", "failed"} : NextTransition(p, goal)
  /\ UNCHANGED ledgerVars

\* record_interactive_run_success: two statements.
WriteGraph(p) ==
  /\ pc[p] = "graph"
  /\ \/ InsertGraphWrite(loc[p].run) /\ Goto(p, "report_success")
     \/ /\ loc[p].run \in graph
        /\ Goto(p, "release")
        /\ UNCHANGED ledgerVars
  /\ UNCHANGED loc

\* Mutant: a duplicate report is taken for success.
WriteReportOrIgnore(p) ==
  /\ pc[p] = "report_success"
  /\ \/ InsertReport(loc[p].run, "completed") /\ NextTransition(p, "summarizing")
     \/ /\ report[loc[p].run] # "none"
        /\ NextTransition(p, "summarizing")
        /\ UNCHANGED ledgerVars

WriteReport(p) ==
  /\ pc[p] = "report_success"
  /\ \/ InsertReport(loc[p].run, "completed") /\ NextTransition(p, "summarizing")
     \/ /\ report[loc[p].run] # "none"
        /\ Goto(p, "release")
        /\ UNCHANGED <<loc, ledgerVars>>

ContinueProposal(p) ==
  \/ loc[p].goal = "normalizing" /\ Goto(p, "canonicalize") /\ UNCHANGED loc
  \/ loc[p].goal = "adjudicating" /\ NextTransition(p, "persisting")
  \/ loc[p].goal = "persisting" /\ Goto(p, "graph") /\ UNCHANGED loc
  \/ loc[p].goal = "summarizing" /\ NextTransition(p, "completed")
  \/ loc[p].goal = "completed" /\ Goto(p, "complete") /\ UNCHANGED loc
  \/ loc[p].goal = "failed" /\ Goto(p, "quarantine") /\ UNCHANGED loc

\* A transition of an accepted proposal, or of an error handler.
Advance(p) ==
  /\ loc[p].stage # "start"
  /\ \/ ReadRunState(p)
     \/ LoseTransition(p)
     \/ /\ SetRunState(p)
        /\ \/ loc[p].stage = "proposal" /\ ContinueProposal(p)
           \/ /\ loc[p].stage # "proposal"
              /\ Goto(p, loc[p].stage) /\ UNCHANGED loc

FailureReports == [quarantine |-> "quarantined", report |-> "failed"]

AfterReport ==
  [quarantine |-> "quarantine_dead", report |-> "owner"]

\* record_interactive_run_failure; sqlite3.IntegrityError is not caught.
WriteFailureReport(p) ==
  /\ pc[p] \in DOMAIN FailureReports
  /\ \/ InsertReport(loc[p].run, FailureReports[pc[p]]) /\ Goto(p, AfterReport[pc[p]])
     \/ /\ report[loc[p].run] # "none"
        /\ Goto(p, "release")
        /\ UNCHANGED ledgerVars
  /\ UNCHANGED loc

\* _claimed_run_mutation_owner, which does not look at the claimant.
ReadOwner(p) ==
  /\ pc[p] = "owner"
  /\ Goto(p, IF item[loc[p].item].state = "claimed" /\ Owns(loc[p].run, loc[p].item)
             THEN "dead" ELSE "dead_unowned")
  /\ UNCHANGED <<loc, ledgerVars>>

\* _record_runtime_retry.
RetryRead(p) ==
  /\ pc[p] = "retry"
  /\ \/ /\ item[loc[p].item].attempts + 1 >= MaxAttempts
        /\ FailRun(p, "dead")
     \/ /\ item[loc[p].item].attempts + 1 < MaxAttempts
        /\ Goto(p, "requeue") /\ UNCHANGED loc
  /\ UNCHANGED ledgerVars

\* The settlements that name the owner of the claim.
Settle(p) ==
  /\ \/ pc[p] = "complete" /\ CompleteItem(loc[p].item, loc[p].run, WorkerOf[p])
     \/ pc[p] = "requeue" /\ HoldsClaim(p) /\ RetryItem(loc[p].item, "later")
     \/ /\ pc[p] \in {"dead", "quarantine_dead"}
        /\ DeadLetterOwned(loc[p].item, loc[p].run, WorkerOf[p])
     \/ pc[p] = "dead_unowned" /\ DeadLetterUnowned(loc[p].item)
  /\ Goto(p, "release") /\ UNCHANGED loc

\* QueueMutationMismatchError escapes.
MutationMismatch(p) ==
  /\ pc[p] \in {"complete", "requeue", "dead", "quarantine_dead"}
  /\ ~HoldsClaim(p)
  /\ Goto(p, "release")
  /\ UNCHANGED <<loc, ledgerVars>>

Execute(p) ==
  /\ \/ Start(p)
     \/ RunRuntime(p)
     \/ HandleRaised(p)
     \/ Canonicalize(p)
     \/ WriteGraph(p)
     \/ WriteReport(p)
     \/ Advance(p)
     \/ WriteFailureReport(p)
     \/ ReadOwner(p)
     \/ RetryRead(p)
     \/ Settle(p)
     \/ MutationMismatch(p)
  /\ UNCHANGED sessionVars

-----------------------------------------------------------------------------
\* The finally clause.
Release(p) ==
  /\ pc[p] = "release"
  /\ ReleaseLease(p)
  /\ Return(p)
  /\ UNCHANGED ledgerVars

ServiceStep(p) == Preclaim(p) \/ Execute(p) \/ Release(p)

\* Users bootstrap or renew the session; time passes.
SessionEnvironment ==
  /\ \/ \E h \in Hosts : RecordInspection(h)
     \/ RecordFallback
     \/ LeaseExpires
  /\ UNCHANGED vars

ScheduledInit == Init /\ SessionInit

Next ==
  \/ \E p \in Procs, q \in Items : Take(p, q) /\ UNCHANGED envVars
  \/ \E p \in Procs : ServiceStep(p) /\ UNCHANGED envVars
  \/ EnvironmentStep /\ UNCHANGED sessionVars
  \/ SessionEnvironment

Spec == ScheduledInit /\ [][Next]_allVars

-----------------------------------------------------------------------------
(* No path leaks the lease: as long as no process crashes, the lease's     *)
(* holder is still inside the try whose finally clause releases it, on     *)
(* every error path and whatever exceptions escape.                        *)
LeaseIsReturned ==
  crashes = 0 /\ lease.by # Nobody => pc[lease.by] \in Leased

(* A process gets to the runtime only as the holder of the session's       *)
(* lease, and while it runs the runtime, stores or settles it loses a      *)
(* lease it holds only after this has expired: neither a competitor that   *)
(* found none nor the late release of a process that was overtaken takes   *)
(* the lease of another one away.                                          *)
ExecutesUnderLease ==
  [][\A p \in Procs :
       pc'[p] \in Leased =>
         \/ lease'.by = p
         \/ pc[p] \in Leased /\ (lease.by # p \/ lease.expired)]_allVars

(* A run is never summarised or completed before its graph write and its   *)
(* completed report are stored, whichever processes execute it.            *)
CompletedRunIsPersisted ==
  \A r \in Runs : run[r].status \in {"summarizing", "completed"}
    => r \in graph /\ report[r] = "completed"

=============================================================================
