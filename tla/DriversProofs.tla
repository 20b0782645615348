----------------------------- MODULE DriversProofs -----------------------------
(***************************************************************************)
(* Queue workers, worker loops and interactive requests on one ledger, for *)
(* any fleet of them: together they call it as RunLedger allows, a run is  *)
(* final only when its result is stored, pollers strand no claim, and what *)
(* the requester of a job sees is what JobLifecycle promises.              *)
(*                                                                         *)
(* Each program is an instance of its own module and has its own copy of   *)
(* the ledger's operations.  The vocabulary lemmas say that the copies are *)
(* the operations of this module, so that everything else is said of one.  *)
(***************************************************************************)
EXTENDS Drivers, RunLedgerProofs

Places ==
  StartLabels \cup
  {"idle", "fetch", "complete", "nack", "requeue", "dead", "dead_claimed",
   "dead_unclaimed", "lookup", "lookup_again", "lookup_invalid", "lookup_conflict",
   "reclaim", "settle", "runtime", "canonicalize", "graph", "report_success",
   "report", "retry", "crashed", "crashed_unowned", "answer", "resume", "reserve",
   "enqueue"}

\* Where a worker has claimed the item, or passed the claim.
Claimed == {"status", "read", "cas", "started", "complete"}

\* Errors after which a worker takes the run id from the item's link.
LinkedErrors == {"DuplicateRunStart", "TopicSnapshot", "MalformedRunInput"}

WorkerFit(p) ==
  /\ pc[p] \in Claimed => Owns(loc[p].run, loc[p].item)
  /\ pc[p] = "raised" /\ loc[p].exc \in LinkedErrors => link[loc[p].item] \in Runs

\* The item's run or the run that p asked for has a report.
Reported(p) ==
  \E r \in Runs : (r = loc[p].run \/ Owns(r, loc[p].item)) /\ report[r] # "none"

\* What a process relies on, wherever it is.
Fit(p) ==
  /\ pc[p] # "idle" => loc[p].item \in Items
  /\ pc[p] \notin {"idle", "answer", "resume"} => loc[p].run \in Runs
  /\ TransitionFits(p)
  /\ p \in WorkerProcs => WorkerFit(p)
  /\ p \notin WorkerProcs /\ pc[p] = "complete" => Persisted(loc[p].run)
  /\ pc[p] \in {"reclaim", "settle"} => Reported(p)

DriversInv ==
  /\ pc \in [Procs -> Places]
  /\ loc \in [Procs -> Locals]
  /\ crashes \in Nat
  /\ fleet \in Fleets
  /\ LedgerInv
  /\ FinalRunsPersisted
  /\ \A p \in Procs : Fit(p)

\* A poller that has q's claim and knows q's run.
Holds(p, q) ==
  /\ p \in WorkerProcs \cup LoopProcs
  /\ WorkerOf[p] = item[q].by
  /\ WorksOn(p, q)
  /\ loc[p].run \in Runs
  /\ Owns(loc[p].run, q)

ClaimsHeld ==
  crashes = 0 =>
    \A q \in Items : item[q].state = "claimed" =>
      LeftByTrigger(q) \/ \E p \in Procs : Holds(p, q)

-----------------------------------------------------------------------------
(* The programs' copies of the operations.                                 *)

\* The queue worker's.
LEMMA WorkerVocabulary ==
  ASSUME NEW attempts, NEW p
  PROVE  /\ \A q, when : Worker(attempts)!RetryItem(q, when) <=> RetryItem(q, when)
         /\ \A q, r, w : Worker(attempts)!CompleteItem(q, r, w) <=> CompleteItem(q, r, w)
         /\ \A q, r, w : Worker(attempts)!DeadLetterOwned(q, r, w) <=> DeadLetterOwned(q, r, w)
         /\ \A q : Worker(attempts)!DeadLetterUnowned(q) <=> DeadLetterUnowned(q)
         /\ \A label : Worker(attempts)!Goto(p, label) <=> Goto(p, label)
         /\ Worker(attempts)!Return(p) <=> Return(p)
         /\ Worker(attempts)!HoldsClaim(p) <=> HoldsClaim(p)
         /\ Worker(attempts)!StartStep(p) <=> StartStep(p)
         /\ UNCHANGED Worker(attempts)!ledgerVars <=> UNCHANGED ledgerVars
  BY DEF Worker!RetryItem, RetryItem, Worker!CompleteItem, CompleteItem,
         Worker!ClaimValid, ClaimValid, Worker!Owns, Owns,
         Worker!DeadLetterOwned, DeadLetterOwned, Worker!DeadLetterRow,
         DeadLetterRow, Worker!DeadLetterUnowned, DeadLetterUnowned,
         Worker!Goto, Goto, Worker!Return, Return, Worker!IdleLocals,
         IdleLocals, Worker!HoldsClaim, HoldsClaim, Worker!StartStep,
         StartStep, Worker!Claim, Claim, Worker!Status, Status,
         Worker!ReadRunState, ReadRunState, Worker!STATE_TRANSITIONS,
         STATE_TRANSITIONS, Worker!RunStates, RunStates, Worker!Raise,
         Raise, Worker!AdvanceStart, AdvanceStart, Worker!SetRunState,
         SetRunState, Worker!TransitionRun, TransitionRun,
         Worker!LoseTransition, LoseTransition, Worker!ContinueStart,
         ContinueStart, Worker!Transition, Transition,
         Worker!FailThenRaise, FailThenRaise, Worker!ClaimNewRun,
         ClaimNewRun, Worker!Claimable, Claimable, Worker!TakeClaim,
         TakeClaim, Worker!HasRun, HasRun, Worker!RunExists, RunExists,
         Worker!ClaimExistingRun, ClaimExistingRun, Worker!ClaimPasses,
         ClaimPasses, Worker!ClaimReturnsNone, ClaimReturnsNone,
         Worker!ClaimIsDuplicate, ClaimIsDuplicate,
         Worker!ClaimBreaksIntegrity, ClaimBreaksIntegrity,
         Worker!ledgerVars, ledgerVars

\* The worker loop's.
LEMMA LoopVocabulary ==
  ASSUME NEW p
  PROVE  /\ \A q, r, w : Loop!ClaimNewRun(q, r, w) <=> ClaimNewRun(q, r, w)
         /\ \A q, r, w : Loop!ClaimExistingRun(q, r, w) <=> ClaimExistingRun(q, r, w)
         /\ \A q, when : Loop!RetryItem(q, when) <=> RetryItem(q, when)
         /\ \A q, r, w : Loop!CompleteItem(q, r, w) <=> CompleteItem(q, r, w)
         /\ \A q, r, w : Loop!DeadLetterOwned(q, r, w) <=> DeadLetterOwned(q, r, w)
         /\ \A q : Loop!DeadLetterUnowned(q) <=> DeadLetterUnowned(q)
         /\ \A r : Loop!InsertGraphWrite(r) <=> InsertGraphWrite(r)
         /\ \A r, status : Loop!InsertReport(r, status) <=> InsertReport(r, status)
         /\ \A q, r : Loop!Owns(r, q) <=> Owns(r, q)
         /\ \A label : Loop!Goto(p, label) <=> Goto(p, label)
         /\ Loop!Return(p) <=> Return(p)
         /\ Loop!HoldsClaim(p) <=> HoldsClaim(p)
         /\ Loop!StartStep(p) <=> StartStep(p)
         /\ Loop!ReadRunState(p) <=> ReadRunState(p)
         /\ Loop!LoseTransition(p) <=> LoseTransition(p)
         /\ Loop!SetRunState(p) <=> SetRunState(p)
         /\ UNCHANGED Loop!ledgerVars <=> UNCHANGED ledgerVars
  BY DEF Loop!ClaimNewRun, ClaimNewRun, Loop!Claimable, Claimable,
         Loop!TakeClaim, TakeClaim, Loop!HasRun, HasRun, Loop!RunExists,
         RunExists, Loop!ClaimExistingRun, ClaimExistingRun, Loop!Owns,
         Owns, Loop!RetryItem, RetryItem, Loop!CompleteItem, CompleteItem,
         Loop!ClaimValid, ClaimValid, Loop!DeadLetterOwned,
         DeadLetterOwned, Loop!DeadLetterRow, DeadLetterRow,
         Loop!DeadLetterUnowned, DeadLetterUnowned, Loop!InsertGraphWrite,
         InsertGraphWrite, Loop!InsertReport, InsertReport, Loop!Goto,
         Goto, Loop!Return, Return, Loop!IdleLocals, IdleLocals,
         Loop!HoldsClaim, HoldsClaim, Loop!StartStep, StartStep,
         Loop!Claim, Claim, Loop!Status, Status, Loop!ReadRunState,
         ReadRunState, Loop!STATE_TRANSITIONS, STATE_TRANSITIONS,
         Loop!RunStates, RunStates, Loop!Raise, Raise, Loop!AdvanceStart,
         AdvanceStart, Loop!SetRunState, SetRunState, Loop!TransitionRun,
         TransitionRun, Loop!LoseTransition, LoseTransition,
         Loop!ContinueStart, ContinueStart, Loop!Transition, Transition,
         Loop!FailThenRaise, FailThenRaise, Loop!ClaimPasses, ClaimPasses,
         Loop!ClaimReturnsNone, ClaimReturnsNone, Loop!ClaimIsDuplicate,
         ClaimIsDuplicate, Loop!ClaimBreaksIntegrity, ClaimBreaksIntegrity,
         Loop!ledgerVars, ledgerVars

\* The interactive request's.
LEMMA TriggerVocabulary ==
  ASSUME NEW p
  PROVE  /\ \A q : Trigger!ReserveKey(q) <=> ReserveKey(q)
         /\ \A q : Trigger!EnqueueJob(q) <=> EnqueueJob(q)
         /\ \A q, when : Trigger!RetryItem(q, when) <=> RetryItem(q, when)
         /\ \A q, r, w : Trigger!CompleteItem(q, r, w) <=> CompleteItem(q, r, w)
         /\ \A q, r, w : Trigger!DeadLetterOwned(q, r, w) <=> DeadLetterOwned(q, r, w)
         /\ \A r : Trigger!InsertGraphWrite(r) <=> InsertGraphWrite(r)
         /\ \A r, status : Trigger!InsertReport(r, status) <=> InsertReport(r, status)
         /\ \A q, r : Trigger!Owns(r, q) <=> Owns(r, q)
         /\ \A label : Trigger!Goto(p, label) <=> Goto(p, label)
         /\ Trigger!Return(p) <=> Return(p)
         /\ Trigger!HoldsClaim(p) <=> HoldsClaim(p)
         /\ Trigger!StartStep(p) <=> StartStep(p)
         /\ Trigger!ReadRunState(p) <=> ReadRunState(p)
         /\ Trigger!LoseTransition(p) <=> LoseTransition(p)
         /\ Trigger!SetRunState(p) <=> SetRunState(p)
         /\ UNCHANGED Trigger!ledgerVars <=> UNCHANGED ledgerVars
  BY DEF Trigger!ReserveKey, ReserveKey, Trigger!EnqueueJob, EnqueueJob,
         Trigger!RetryItem, RetryItem, Trigger!CompleteItem, CompleteItem,
         Trigger!ClaimValid, ClaimValid, Trigger!Owns, Owns,
         Trigger!DeadLetterOwned, DeadLetterOwned, Trigger!DeadLetterRow,
         DeadLetterRow, Trigger!InsertGraphWrite, InsertGraphWrite,
         Trigger!RunExists, RunExists, Trigger!InsertReport, InsertReport,
         Trigger!Goto, Goto, Trigger!Return, Return, Trigger!IdleLocals,
         IdleLocals, Trigger!HoldsClaim, HoldsClaim, Trigger!StartStep,
         StartStep, Trigger!Claim, Claim, Trigger!Status, Status,
         Trigger!ReadRunState, ReadRunState, Trigger!STATE_TRANSITIONS,
         STATE_TRANSITIONS, Trigger!RunStates, RunStates, Trigger!Raise,
         Raise, Trigger!AdvanceStart, AdvanceStart, Trigger!SetRunState,
         SetRunState, Trigger!TransitionRun, TransitionRun,
         Trigger!LoseTransition, LoseTransition, Trigger!ContinueStart,
         ContinueStart, Trigger!Transition, Transition,
         Trigger!FailThenRaise, FailThenRaise, Trigger!ClaimNewRun,
         ClaimNewRun, Trigger!Claimable, Claimable, Trigger!TakeClaim,
         TakeClaim, Trigger!HasRun, HasRun, Trigger!ClaimExistingRun,
         ClaimExistingRun, Trigger!ClaimPasses, ClaimPasses,
         Trigger!ClaimReturnsNone, ClaimReturnsNone,
         Trigger!ClaimIsDuplicate, ClaimIsDuplicate,
         Trigger!ClaimBreaksIntegrity, ClaimBreaksIntegrity,
         Trigger!ledgerVars, ledgerVars

-----------------------------------------------------------------------------
(* What a step of a process does to the ledger.                            *)

Silent == fleet.procs \cap WorkerProcs # {}

\* The calls that the programs make: a report of success follows the graph write,
\* an item is completed when its run has a report unless a queue worker does it,
\* and only a claim is requeued.
DriverCall(p) ==
  LET q == loc[p].item
      r == loc[p].run
      w == WorkerOf[p]
  IN \/ UNCHANGED ledgerVars
     \/ ReserveKey(q)
     \/ EnqueueJob(q)
     \/ ClaimNewRun(q, r, w)
     \/ ClaimExistingRun(q, r, w)
     \/ SetRunState(p)
     \/ InsertGraphWrite(r)
     \/ \E status \in ReportStates \ {"none"} :
          InsertReport(r, status) /\ (status = "completed" => r \in graph)
     \/ CompleteItem(q, r, w) /\ (Silent \/ report[r] # "none")
     \/ \E when \in Times : HoldsClaim(p) /\ RetryItem(q, when)
     \/ DeadLetterOwned(q, r, w)
     \/ DeadLetterUnowned(q)

LEMMA DriverCallIsCall ==
  ASSUME NEW p, DriverCall(p)
  PROVE  Call(p)
  BY DEF DriverCall, Call

\* start_queued_run and the transitions.
LEMMA StartStepIsDriverCall ==
  ASSUME NEW p, StartStep(p) \/ ReadRunState(p) \/ LoseTransition(p) \/ SetRunState(p)
  PROVE  DriverCall(p)
  BY DEF StartStep, Claim, Status, ReadRunState, AdvanceStart, LoseTransition, DriverCall

LEMMA WorkerCalls ==
  ASSUME NEW attempts, NEW p \in WorkerProcs \cap fleet.procs,
         Worker(attempts)!WorkerStep(p)
  PROVE  DriverCall(p)
  <1>1. Silent
    BY DEF Silent
  <1>2. CASE Worker(attempts)!StartStep(p)
    BY <1>2, WorkerVocabulary, StartStepIsDriverCall
  <1>3. CASE \/ Worker(attempts)!FetchItem(p)
             \/ Worker(attempts)!HandlerEnds(p)
             \/ Worker(attempts)!CatchStartError(p)
             \/ Worker(attempts)!NackRead(p)
             \/ Worker(attempts)!DeadLetterRead(p)
             \/ Worker(attempts)!MutationMismatch(p)
    BY <1>3 DEF Worker!FetchItem, Worker!HandlerEnds, Worker!CatchStartError,
       Worker!NackRead, Worker!DeadLetterRead, Worker!MutationMismatch,
       Worker!ledgerVars, ledgerVars, DriverCall
  <1>4. CASE \/ Worker(attempts)!Complete(p)
             \/ Worker(attempts)!Requeue(p)
             \/ Worker(attempts)!DeadLetterClaimed(p)
             \/ Worker(attempts)!DeadLetterUnclaimed(p)
    BY <1>1, <1>4, WorkerVocabulary
       DEF Worker!Complete, Worker!Requeue, Worker!DeadLetterClaimed,
           Worker!DeadLetterUnclaimed, Times, DriverCall
  <1>5. QED
    BY <1>2, <1>3, <1>4 DEF Worker!WorkerStep

LEMMA LoopCalls ==
  ASSUME DriversInv, NEW p \in LoopProcs, Loop!ExecutorStep(p)
  PROVE  DriverCall(p)
  <1>1. p \in Procs /\ p \notin WorkerProcs /\ Fit(p)
    BY DriversAssumption DEF DriversInv
  <1>2. CASE Loop!Start(p)
    BY <1>2, LoopVocabulary, StartStepIsDriverCall DEF Loop!Start
  <1>3. CASE \/ Loop!LookUpReport(p) \/ Loop!Started(p) \/ Loop!RunRuntime(p)
             \/ Loop!Canonicalize(p) \/ Loop!HandleRaised(p) \/ Loop!MutationMismatch(p)
    BY <1>3 DEF Loop!LookUpReport, Loop!Started, Loop!RunRuntime, Loop!Canonicalize,
       Loop!HandleRaised, Loop!MutationMismatch, Loop!ledgerVars, ledgerVars, DriverCall
  <1>4. CASE Loop!Reclaim(p)
    <2>1. \/ UNCHANGED Loop!ledgerVars
          \/ Loop!ClaimNewRun(loc[p].item, loc[p].run, WorkerOf[p])
          \/ Loop!ClaimExistingRun(loc[p].item, loc[p].run, WorkerOf[p])
      BY <1>4 DEF Loop!Reclaim
    <2>2. QED
      BY <2>1, LoopVocabulary DEF DriverCall
  <1>5. CASE Loop!Settle(p)
    <2>1. CASE UNCHANGED Loop!ledgerVars
      BY <2>1, LoopVocabulary DEF DriverCall
    <2>2. CASE Loop!CompleteItem(loc[p].item, loc[p].run, WorkerOf[p])
      <3>1. /\ CompleteItem(loc[p].item, loc[p].run, WorkerOf[p])
            /\ Reported(p)
            /\ loc[p].item \in Items
            /\ loc[p].run \in Runs
        BY <1>1, <1>5, <2>2, LoopVocabulary DEF Loop!Settle, Fit
      <3>2. Owns(loc[p].run, loc[p].item)
        BY <3>1 DEF CompleteItem, ClaimValid
      <3>3. report[loc[p].run] # "none"
        BY <3>1, <3>2, OwnerIsLinked DEF Reported, DriversInv
      <3>4. QED
        BY <3>1, <3>3 DEF DriverCall
    <2>3. QED
      BY <1>5, <2>1, <2>2 DEF Loop!Settle
  <1>6. CASE Loop!WriteGraph(p)
    BY <1>6, LoopVocabulary DEF Loop!WriteGraph, DriverCall
  <1>7. CASE Loop!WriteReport(p)
    <2>1. loc[p].run \in graph
      BY <1>1, <1>7 DEF Loop!WriteReport, Fit, TransitionFits
    <2>2. QED
      BY <1>7, <2>1, LoopVocabulary DEF Loop!WriteReport, DriverCall, ReportStates
  <1>8. CASE Loop!AdvanceProposal(p) \/ Loop!FailRunIfPossible(p)
    BY <1>8, LoopVocabulary, StartStepIsDriverCall
       DEF Loop!AdvanceProposal, Loop!FailRunIfPossible
  <1>9. CASE Loop!WriteFailureReport(p)
    BY <1>9, LoopVocabulary DEF Loop!WriteFailureReport, DriverCall, ReportStates
  <1>10. CASE Loop!Complete(p)
    <2>1. report[loc[p].run] # "none"
      BY <1>1, <1>10 DEF Loop!Complete, Fit, Persisted
    <2>2. QED
      BY <1>10, <2>1, LoopVocabulary DEF Loop!Complete, DriverCall
  <1>11. CASE Loop!Retry(p) \/ Loop!DeadLetter(p) \/ Loop!DeadLetterAnyway(p)
    BY <1>11, LoopVocabulary
       DEF Loop!Retry, Loop!DeadLetter, Loop!DeadLetterAnyway, DriverCall, Times
  <1>12. QED
    BY <1>2, <1>3, <1>4, <1>5, <1>6, <1>7, <1>8, <1>9, <1>10, <1>11 DEF Loop!ExecutorStep

LEMMA TriggerCalls ==
  ASSUME DriversInv, NEW p \in TriggerProcs, Trigger!TriggerStep(p)
  PROVE  DriverCall(p)
  <1>1. p \in Procs /\ p \notin WorkerProcs /\ Fit(p)
    BY DriversAssumption DEF DriversInv
  <1>2. CASE Trigger!Start(p)
    BY <1>2, TriggerVocabulary, StartStepIsDriverCall DEF Trigger!Start
  <1>3. CASE \/ Trigger!Answer(p) \/ Trigger!Resume(p) \/ Trigger!Started(p)
             \/ Trigger!RunRuntime(p) \/ Trigger!Canonicalize(p)
             \/ Trigger!HandleRaised(p) \/ Trigger!MutationMismatch(p)
    BY <1>3 DEF Trigger!Answer, Trigger!Resume, Trigger!Started, Trigger!RunRuntime,
       Trigger!Canonicalize, Trigger!HandleRaised, Trigger!MutationMismatch,
       Trigger!ledgerVars, ledgerVars, DriverCall
  <1>4. CASE Trigger!Reserve(p) \/ Trigger!Enqueue(p)
    BY <1>4, TriggerVocabulary DEF Trigger!Reserve, Trigger!Enqueue, DriverCall
  <1>5. CASE Trigger!WriteGraph(p)
    BY <1>5, TriggerVocabulary DEF Trigger!WriteGraph, DriverCall
  <1>6. CASE Trigger!WriteReport(p)
    <2>1. loc[p].run \in graph
      BY <1>1, <1>6 DEF Trigger!WriteReport, Fit, TransitionFits
    <2>2. QED
      BY <1>6, <2>1, TriggerVocabulary DEF Trigger!WriteReport, DriverCall, ReportStates
  <1>7. CASE Trigger!AdvanceProposal(p) \/ Trigger!FailRunIfPossible(p)
    BY <1>7, TriggerVocabulary, StartStepIsDriverCall
       DEF Trigger!AdvanceProposal, Trigger!FailRunIfPossible
  <1>8. CASE Trigger!WriteFailureReport(p)
    BY <1>8, TriggerVocabulary DEF Trigger!WriteFailureReport, DriverCall, ReportStates
  <1>9. CASE Trigger!Complete(p)
    <2>1. report[loc[p].run] # "none"
      BY <1>1, <1>9 DEF Trigger!Complete, Fit, Persisted
    <2>2. QED
      BY <1>9, <2>1, TriggerVocabulary DEF Trigger!Complete, DriverCall
  <1>10. CASE Trigger!Retry(p) \/ Trigger!DeadLetter(p)
    BY <1>10, TriggerVocabulary DEF Trigger!Retry, Trigger!DeadLetter, DriverCall, Times
  <1>11. QED
    BY <1>2, <1>3, <1>4, <1>5, <1>6, <1>7, <1>8, <1>9, <1>10 DEF Trigger!TriggerStep

-----------------------------------------------------------------------------
(* What it does to the process.                                            *)

\* pc' and loc' change at p only, within their types.
OnlyMoves(p) ==
  /\ pc' \in [Procs -> Places]
  /\ loc' \in [Procs -> Locals]
  /\ \A o \in Procs \ {p} : pc'[o] = pc[o] /\ loc'[o] = loc[o]

LEMMA Moves ==
  ASSUME DriversInv, NEW p \in Procs, NEW label \in Places, NEW new \in Locals,
         pc' = [pc EXCEPT ![p] = label], loc' = [loc EXCEPT ![p] = new]
  PROVE  OnlyMoves(p) /\ pc'[p] = label /\ loc'[p] = new
  BY DEF DriversInv, OnlyMoves

\* Back to the caller.
LEMMA ReturnFits ==
  ASSUME DriversInv, NEW p \in Procs, Return(p)
  PROVE  OnlyMoves(p) /\ pc'[p] = "idle" /\ Fit(p)'
  <1>1. IdleLocals \in Locals
    BY DEF IdleLocals, Locals, RunStates, Exceptions, Stages
  <1>2. OnlyMoves(p) /\ pc'[p] = "idle"
    BY <1>1, Moves DEF Return, Goto, Places
  <1>3. QED
    BY <1>2 DEF Fit, TransitionFits, WorkerFit, Claimed

\* Places that say nothing of the locals but what they are.
Plain == Places \ ({"idle", "raised", "report_success", "reclaim", "settle"} \cup Claimed)

LEMMA GotoFits ==
  ASSUME DriversInv, NEW p \in Procs, pc[p] \notin {"idle", "answer", "resume"},
         NEW label \in Plain, Goto(p, label), UNCHANGED loc
  PROVE  OnlyMoves(p) /\ pc'[p] = label /\ Fit(p)'
  <1>1. OnlyMoves(p) /\ pc'[p] = label
    BY DEF Goto, DriversInv, Plain, OnlyMoves
  <1>2. loc'[p].item \in Items /\ loc'[p].run \in Runs
    BY DEF DriversInv, Fit
  <1>3. label \notin {"idle", "raised", "report_success", "reclaim", "settle"} \cup Claimed
    BY DEF Plain
  <1>4. QED
    BY <1>1, <1>2, <1>3 DEF Fit, TransitionFits, WorkerFit, Claimed

\* Into a transition, with the stage it belongs to; queue workers make none.
LEMMA TransitionStarts ==
  ASSUME DriversInv, NEW p \in Procs \ WorkerProcs,
         pc[p] \notin {"idle", "answer", "resume"},
         NEW goal \in RunStates, NEW stage \in Stages,
         Goto(p, "read"),
         loc' = [loc EXCEPT ![p].goal = goal, ![p].stage = stage],
         goal \in Final => loc[p].run \in graph' /\ report'[loc[p].run] = "completed"
  PROVE  /\ OnlyMoves(p)
         /\ pc'[p] = "read"
         /\ loc'[p].item = loc[p].item
         /\ loc'[p].run = loc[p].run
         /\ Fit(p)'
  <1> DEFINE new == [loc[p] EXCEPT !.goal = goal, !.stage = stage]
  <1>1. loc[p] \in Locals /\ loc \in [Procs -> Locals]
    BY DEF DriversInv
  <1>2. new \in Locals
    BY <1>1 DEF Locals
  <1>3. new.item = loc[p].item /\ new.run = loc[p].run /\ new.goal = goal
    BY <1>1 DEF Locals
  <1>4. pc' = [pc EXCEPT ![p] = "read"] /\ loc' = [loc EXCEPT ![p] = new]
    BY <1>1 DEF Goto
  <1>5. "read" \in Places
    BY DEF Places, StartLabels
  <1> HIDE DEF new
  <1>6. OnlyMoves(p) /\ pc'[p] = "read" /\ loc'[p] = new
    BY <1>2, <1>4, <1>5, Moves
  <1>7. loc[p].item \in Items /\ loc[p].run \in Runs
    BY DEF DriversInv, Fit
  <1>8. QED
    BY <1>3, <1>6, <1>7 DEF Fit, TransitionFits, Persisted, WorkerFit

\* The same, with a new stage.
LEMMA StageFits ==
  ASSUME DriversInv, NEW p \in Procs, pc[p] \notin {"idle", "answer", "resume"},
         NEW label \in Plain, NEW stage \in Stages,
         Goto(p, label), loc' = [loc EXCEPT ![p].stage = stage]
  PROVE  /\ OnlyMoves(p)
         /\ pc'[p] = label
         /\ loc'[p].item = loc[p].item
         /\ loc'[p].run = loc[p].run
         /\ Fit(p)'
  <1> DEFINE new == [loc[p] EXCEPT !.stage = stage]
  <1>1. loc[p] \in Locals /\ loc \in [Procs -> Locals]
    BY DEF DriversInv
  <1>2. new \in Locals /\ new.item = loc[p].item /\ new.run = loc[p].run
    BY <1>1 DEF Locals
  <1>3. pc' = [pc EXCEPT ![p] = label] /\ loc' = [loc EXCEPT ![p] = new]
    BY <1>1 DEF Goto
  <1>4. label \in Places
    BY DEF Plain
  <1> HIDE DEF new
  <1>5. OnlyMoves(p) /\ pc'[p] = label /\ loc'[p] = new
    BY <1>2, <1>3, <1>4 DEF DriversInv, OnlyMoves
  <1>6. loc[p].item \in Items /\ loc[p].run \in Runs
    BY DEF DriversInv, Fit
  <1>7. label \notin {"idle", "raised", "report_success", "reclaim", "settle"} \cup Claimed
    BY DEF Plain
  <1>8. QED
    BY <1>2, <1>5, <1>6, <1>7 DEF Fit, TransitionFits, WorkerFit, Claimed

\* A process that takes up an item.
LEMMA TakeUpFits ==
  ASSUME DriversInv, NEW p \in Procs,
         NEW label \in Plain, NEW q \in Items, NEW r \in Runs \cup {None},
         r \in Runs \/ label \in {"answer", "resume"},
         Goto(p, label), loc' = [loc EXCEPT ![p].item = q, ![p].run = r]
  PROVE  OnlyMoves(p) /\ pc'[p] = label /\ Fit(p)'
  <1> DEFINE new == [loc[p] EXCEPT !.item = q, !.run = r]
  <1>1. loc[p] \in Locals /\ loc \in [Procs -> Locals]
    BY DEF DriversInv
  <1>2. new \in Locals /\ new.item = q /\ new.run = r
    BY <1>1 DEF Locals
  <1>3. pc' = [pc EXCEPT ![p] = label] /\ loc' = [loc EXCEPT ![p] = new]
    BY <1>1 DEF Goto
  <1>4. label \in Places
    BY DEF Plain
  <1> HIDE DEF new
  <1>5. OnlyMoves(p) /\ pc'[p] = label /\ loc'[p] = new
    BY <1>2, <1>3, <1>4 DEF DriversInv, OnlyMoves
  <1>6. label \notin {"idle", "raised", "report_success", "reclaim", "settle"} \cup Claimed
    BY DEF Plain
  <1>7. QED
    BY <1>2, <1>5, <1>6 DEF Fit, TransitionFits, WorkerFit, Claimed

\* The ledger knows the run of a process whose claim has succeeded, and links the
\* item of one that was refused as a duplicate.
LEMMA StartStepKnowsRun ==
  ASSUME LedgerInv, RecordsKept \/ UNCHANGED ledgerVars, LedgerInv',
         pc \in [Procs -> Places], loc \in [Procs -> Locals], NEW p \in Procs,
         StartStep(p), WorkerFit(p),
         loc[p].item \in Items, loc[p].run \in Runs,
         loc'[p].item = loc[p].item, loc'[p].run = loc[p].run
  PROVE  WorkerFit(p)'
  <1> DEFINE q == loc[p].item
             r == loc[p].run
             w == WorkerOf[p]
  <1>1. CASE pc[p] \in Claimed
    <2>1. RunExists(r) /\ run[r].item = q
      BY <1>1, NoneIsNoId DEF WorkerFit, Owns, RunExists
    <2>2. run'[r].item = q
      BY <2>1 DEF RecordsKept, ledgerVars
    <2>3. link'[q] = r
      BY <2>2, NoneIsNoId DEF LedgerInv, LinkInv, RunExists
    <2>4. QED
      BY <2>2, <2>3 DEF WorkerFit, Owns
  <1>2. CASE Claim(p)
    <2>1. CASE ClaimNewRun(q, r, w)
      <3>1. run'[r].item = q
        BY <2>1 DEF ClaimNewRun, LedgerInv, TypeOK
      <3>2. link'[q] = r
        BY <3>1, NoneIsNoId DEF LedgerInv, LinkInv, RunExists
      <3>3. QED
        BY <3>1, <3>2 DEF WorkerFit, Owns
    <2>2. CASE (ClaimExistingRun(q, r, w) \/ ClaimPasses(q, r)) /\ UNCHANGED run
      <3>1. run'[r].item = q
        BY <2>2 DEF ClaimExistingRun, ClaimPasses, Owns
      <3>2. link'[q] = r
        BY <3>1, NoneIsNoId DEF LedgerInv, LinkInv, RunExists
      <3>3. QED
        BY <3>1, <3>2 DEF WorkerFit, Owns
    <2>3. CASE ClaimIsDuplicate(q, r) /\ Raise(p, "DuplicateRunStart") /\ UNCHANGED ledgerVars
      <3>1. PICK linked \in Runs : Owns(linked, q)
        BY <2>3 DEF ClaimIsDuplicate, HasRun, Owns
      <3>2. link'[q] \in Runs
        BY <2>3, <3>1, OwnerIsLinked DEF ledgerVars
      <3>3. pc'[p] = "raised"
        BY <2>3 DEF Raise, Goto
      <3>4. QED
        BY <3>2, <3>3 DEF WorkerFit, Claimed
    <2>4. CASE \E exc \in {"KeyError", "IntegrityError"} : Raise(p, exc)
      <3>1. PICK exc \in {"KeyError", "IntegrityError"} : Raise(p, exc)
        BY <2>4
      <3>2. pc'[p] = "raised" /\ loc'[p].exc = exc
        BY <3>1 DEF Raise, Goto, Locals
      <3>3. QED
        BY <3>1, <3>2 DEF WorkerFit, Claimed, LinkedErrors
    <2>5. QED
      BY <1>2, <2>1, <2>2, <2>3, <2>4 DEF Claim, ClaimExistingRun, ledgerVars
  <1>3. pc[p] \in Claimed \/ Claim(p)
    BY DEF StartStep, Status, ReadRunState, AdvanceStart, SetRunState, LoseTransition, Claimed
  <1>4. QED
    BY <1>1, <1>2, <1>3

\* A step of a transition or of start_queued_run that stays in it.
LEMMA TransitionFitsOn ==
  ASSUME DriversInv, NEW p \in Procs, StartStep(p),
         RecordsKept \/ UNCHANGED ledgerVars, LedgerInv'
  PROVE  /\ OnlyMoves(p)
         /\ pc'[p] \in StartLabels \ {"claim"}
         /\ loc'[p].item = loc[p].item
         /\ loc'[p].run = loc[p].run
         /\ Fit(p)'
  <1>1. pc[p] \notin {"idle", "answer", "resume"}
    BY DEF StartStep, Claim, Status, ReadRunState, AdvanceStart, SetRunState, LoseTransition
  <1>2. loc[p].item \in Items /\ loc[p].run \in Runs /\ Fit(p)
    BY <1>1 DEF DriversInv, Fit
  <1>3. /\ pc \in [Procs -> Places]
        /\ loc \in [Procs -> Locals]
        /\ StartLabels \subseteq Places
        /\ run[loc[p].run].status \in RunStates
    BY <1>2 DEF DriversInv, LedgerInv, TypeOK, RunRow, Places
  <1>4. /\ OnlyMoves(p)
        /\ loc'[p].item = loc[p].item
        /\ loc'[p].run = loc[p].run
        /\ pc'[p] \in StartLabels \ {"claim"}
        /\ pc'[p] = "cas" => loc'[p].goal \in STATE_TRANSITIONS[loc'[p].seen]
        /\ pc'[p] \in {"read", "cas"} /\ loc'[p].goal \in Final =>
             pc[p] = "read" /\ loc'[p].goal = loc[p].goal
    BY <1>3, StartStepLocals DEF OnlyMoves
  <1>5. pc'[p] \notin {"idle", "answer", "resume", "report_success", "complete", "reclaim", "settle"}
    BY <1>4 DEF StartLabels
  <1>6. pc[p] = "read" /\ loc[p].goal \in Final =>
          loc[p].run \in graph' /\ report'[loc[p].run] = "completed"
    BY <1>2, PersistedStays DEF Fit, TransitionFits, Persisted
  <1>7. TransitionFits(p)'
    BY <1>4, <1>5, <1>6 DEF TransitionFits, Persisted
  <1>8. p \in WorkerProcs => WorkerFit(p)'
    BY <1>2, <1>3, <1>4, StartStepKnowsRun DEF DriversInv, Fit
  <1>9. QED
    BY <1>2, <1>4, <1>5, <1>7, <1>8 DEF Fit

\* The graph write is made.
LEMMA GraphWritten ==
  ASSUME DriversInv, NEW p \in Procs \ WorkerProcs, pc[p] \notin {"idle", "answer", "resume"},
         Goto(p, "report_success"), UNCHANGED loc, loc[p].run \in graph'
  PROVE  OnlyMoves(p) /\ pc'[p] = "report_success" /\ Fit(p)'
  <1>1. OnlyMoves(p) /\ pc'[p] = "report_success"
    BY DEF Goto, DriversInv, Places, OnlyMoves
  <1>2. loc'[p].item \in Items /\ loc'[p].run \in Runs
    BY DEF DriversInv, Fit
  <1>3. QED
    BY <1>1, <1>2 DEF Fit, TransitionFits

\* The run is completed.
LEMMA RunCompleted ==
  ASSUME DriversInv, NEW p \in Procs \ WorkerProcs, pc[p] \notin {"idle", "answer", "resume"},
         Goto(p, "complete"), UNCHANGED loc,
         loc[p].run \in graph' /\ report'[loc[p].run] = "completed"
  PROVE  OnlyMoves(p) /\ pc'[p] = "complete" /\ Fit(p)'
  <1>1. OnlyMoves(p) /\ pc'[p] = "complete"
    BY DEF Goto, DriversInv, Places, OnlyMoves
  <1>2. loc'[p].item \in Items /\ loc'[p].run \in Runs
    BY DEF DriversInv, Fit
  <1>3. QED
    BY <1>1, <1>2 DEF Fit, TransitionFits, Persisted

\* A report that was found stays.
LEMMA ReportedStays ==
  ASSUME RecordsKept \/ UNCHANGED ledgerVars, NEW p \in Procs, loc[p].item \in Items,
         Reported(p), UNCHANGED loc
  PROVE  Reported(p)'
  <1>1. PICK r \in Runs : (r = loc[p].run \/ Owns(r, loc[p].item)) /\ report[r] # "none"
    BY DEF Reported
  <1>2. report'[r] # "none"
    BY <1>1, PersistedStays
  <1>3. Owns(r, loc[p].item) => run'[r].item = loc[p].item
    BY NoneIsNoId DEF RecordsKept, RunExists, Owns, ledgerVars
  <1>4. QED
    BY <1>1, <1>2, <1>3 DEF Reported, Owns

LEMMA FoundReport ==
  ASSUME DriversInv, NEW p \in Procs, pc[p] \notin {"idle", "answer", "resume"},
         NEW label \in {"reclaim", "settle"},
         Goto(p, label), UNCHANGED loc, Reported(p),
         RecordsKept \/ UNCHANGED ledgerVars
  PROVE  OnlyMoves(p) /\ pc'[p] = label /\ Fit(p)'
  <1>1. OnlyMoves(p) /\ pc'[p] = label
    BY DEF Goto, DriversInv, Places, OnlyMoves
  <1>2. loc[p].item \in Items /\ loc[p].run \in Runs
    BY DEF DriversInv, Fit
  <1>3. Reported(p)'
    BY <1>2, ReportedStays
  <1>4. QED
    BY <1>1, <1>2, <1>3 DEF Fit, TransitionFits, WorkerFit, Claimed

LEMMA WorkerStepFits ==
  ASSUME DriversInv, NEW attempts, NEW p \in WorkerProcs, Worker(attempts)!WorkerStep(p),
         RecordsKept \/ UNCHANGED ledgerVars, LedgerInv'
  PROVE  OnlyMoves(p) /\ Fit(p)'
  <1>1. p \in Procs
    BY DriversAssumption
  <1>2. CASE Worker(attempts)!StartStep(p)
    BY <1>1, <1>2, WorkerVocabulary, TransitionFitsOn
  <1>3. CASE Return(p)
    BY <1>1, <1>3, ReturnFits
  <1>4. CASE \E label \in Plain : /\ pc[p] \notin {"idle", "answer", "resume"}
                                  /\ Goto(p, label)
                                  /\ UNCHANGED loc
    BY <1>1, <1>4, GotoFits
  <1>5. CASE Worker(attempts)!FetchItem(p)
    BY <1>3, <1>4, <1>5, WorkerVocabulary DEF Worker!FetchItem, Plain, Places, StartLabels, Claimed
  <1>6. CASE Worker(attempts)!HandlerEnds(p)
    <2>1. pc[p] = "started" /\ UNCHANGED loc /\ UNCHANGED ledgerVars
      BY <1>6, WorkerVocabulary DEF Worker!HandlerEnds
    <2>2. CASE Goto(p, "complete")
      <3>1. OnlyMoves(p) /\ pc'[p] = "complete"
        BY <1>1, <2>1, <2>2 DEF Goto, DriversInv, Places, OnlyMoves
      <3>2. loc'[p].item \in Items /\ loc'[p].run \in Runs /\ Owns(loc[p].run, loc[p].item)
        BY <1>1, <2>1 DEF DriversInv, Fit, WorkerFit, Claimed
      <3>3. QED
        BY <2>1, <3>1, <3>2 DEF Fit, TransitionFits, WorkerFit, Owns, ledgerVars
    <2>3. QED
      BY <1>4, <1>6, <2>1, <2>2, WorkerVocabulary DEF Worker!HandlerEnds, Plain, Places, StartLabels, Claimed
  <1>7. CASE Worker(attempts)!CatchStartError(p)
    <2>1. pc[p] = "raised"
      BY <1>7 DEF Worker!CatchStartError
    <2>2. CASE /\ loc[p].exc \in LinkedErrors
               /\ Goto(p, "dead")
               /\ loc' = [loc EXCEPT ![p].run = link[loc[p].item]]
      <3> DEFINE new == [loc[p] EXCEPT !.run = link[loc[p].item]]
      <3>1. loc[p] \in Locals /\ loc \in [Procs -> Locals]
        BY <1>1 DEF DriversInv
      <3>2. loc[p].item \in Items /\ link[loc[p].item] \in Runs
        BY <1>1, <2>1, <2>2 DEF DriversInv, Fit, WorkerFit
      <3>3. new \in Locals /\ new.item = loc[p].item /\ new.run = link[loc[p].item]
        BY <3>1, <3>2 DEF Locals
      <3>4. loc' = [loc EXCEPT ![p] = new]
        BY <2>2, <3>1
      <3> HIDE DEF new
      <3>5. OnlyMoves(p) /\ pc'[p] = "dead" /\ loc'[p] = new
        BY <1>1, <2>2, <3>3, <3>4 DEF Goto, Places, DriversInv, OnlyMoves
      <3>6. QED
        BY <3>2, <3>3, <3>5 DEF Fit, TransitionFits, WorkerFit, Claimed
    <2>3. CASE Goto(p, "nack") /\ UNCHANGED loc
      BY <1>4, <2>1, <2>3 DEF Plain, Places, StartLabels, Claimed
    <2>4. QED
      BY <1>7, <2>2, <2>3, WorkerVocabulary DEF Worker!CatchStartError, LinkedErrors
  <1>8. CASE Worker(attempts)!NackRead(p) \/ Worker(attempts)!DeadLetterRead(p)
    BY <1>4, <1>8, WorkerVocabulary
       DEF Worker!NackRead, Worker!DeadLetterRead, Plain, Places, StartLabels, Claimed
  <1>9. CASE \/ Worker(attempts)!Complete(p)
             \/ Worker(attempts)!Requeue(p)
             \/ Worker(attempts)!DeadLetterClaimed(p)
             \/ Worker(attempts)!DeadLetterUnclaimed(p)
             \/ Worker(attempts)!MutationMismatch(p)
    BY <1>3, <1>9, WorkerVocabulary
       DEF Worker!Complete, Worker!Requeue, Worker!DeadLetterClaimed,
           Worker!DeadLetterUnclaimed, Worker!MutationMismatch
  <1>10. QED
    BY <1>2, <1>5, <1>6, <1>7, <1>8, <1>9 DEF Worker!WorkerStep

LEMMA LoopStepFits ==
  ASSUME DriversInv, NEW p \in LoopProcs, Loop!ExecutorStep(p),
         RecordsKept \/ UNCHANGED ledgerVars, LedgerInv'
  PROVE  OnlyMoves(p) /\ Fit(p)'
  <1> DEFINE Goal == OnlyMoves(p) /\ Fit(p)'
             Stored == loc[p].run \in graph' /\ report'[loc[p].run] = "completed"
             Active == pc[p] \notin {"idle", "answer", "resume"}
  <1>1. p \in Procs \ WorkerProcs /\ Fit(p)
    BY DriversAssumption DEF DriversInv
  <1>2. CASE Return(p)
    BY <1>1, <1>2, ReturnFits
  <1>3. ASSUME Active, NEW label \in Plain, Goto(p, label), UNCHANGED loc
        PROVE  Goal
    BY <1>1, <1>3, GotoFits
  <1>4. ASSUME Active, NEW goal \in RunStates, NEW stage \in Stages, Goto(p, "read"),
               loc' = [loc EXCEPT ![p].goal = goal, ![p].stage = stage],
               goal \in Final => Stored
        PROVE  Goal
    BY <1>1, <1>4, TransitionStarts
  <1>5. ASSUME Active, NEW then \in {"retry", "dead", "report"}, Loop!FailRun(p, then)
        PROVE  Goal
    BY <1>4, <1>5, LoopVocabulary DEF Loop!FailRun, RunStates, Stages, Final
  <1>6. ASSUME Active, NEW goal \in {"normalizing", "adjudicating", "persisting"},
               Loop!NextTransition(p, goal)
        PROVE  Goal
    BY <1>4, <1>6, LoopVocabulary DEF Loop!NextTransition, RunStates, Stages, Final
  <1>7. ASSUME Active, NEW goal \in Final, Loop!NextTransition(p, goal), Stored
        PROVE  Goal
    BY <1>4, <1>7, LoopVocabulary DEF Loop!NextTransition, RunStates, Stages, Final
  <1>8. {"claim", "runtime", "crashed", "crashed_unowned", "lookup_again", "lookup_conflict",
         "lookup_invalid", "canonicalize", "graph", "retry", "dead", "report"} \subseteq Plain
    BY DEF Plain, Places, StartLabels, Claimed
  <1> SUFFICES Goal
    OBVIOUS
  <1> HIDE DEF Goal
  <1>9. CASE Loop!LookUpReport(p)
    <2>1. Active
      BY <1>9 DEF Loop!LookUpReport, Loop!Lookups
    <2>2. CASE Loop!ReportExists(p) /\ Loop!Goto(p, "reclaim") /\ UNCHANGED loc
      <3>1. Reported(p)
        BY <2>2, LoopVocabulary DEF Loop!ReportExists, Reported
      <3>2. QED
        BY <1>1, <2>1, <2>2, <3>1, FoundReport, LoopVocabulary DEF Goal
    <2>3. CASE Loop!NoReportExists(p)
      <3>1. pc[p] \in {"lookup", "lookup_again", "lookup_conflict", "lookup_invalid"}
        BY <1>9 DEF Loop!LookUpReport, Loop!Lookups
      <3>2. CASE pc[p] # "lookup_invalid"
        BY <1>3, <1>8, <2>1, <2>3, <3>1, <3>2, LoopVocabulary DEF Loop!NoReportExists
      <3>3. CASE pc[p] = "lookup_invalid"
        BY <1>5, <2>1, <2>3, <3>3 DEF Loop!NoReportExists
      <3>4. QED
        BY <3>2, <3>3
    <2>4. QED
      BY <1>9, <2>2, <2>3 DEF Loop!LookUpReport
  <1>10. CASE Loop!Reclaim(p)
    <2>1. pc[p] = "reclaim" /\ Goto(p, "settle") /\ UNCHANGED loc
      BY <1>10, LoopVocabulary DEF Loop!Reclaim
    <2>2. Reported(p)
      BY <1>1, <2>1 DEF Fit
    <2>3. QED
      BY <1>1, <2>1, <2>2, FoundReport DEF Goal
  <1>11. CASE Loop!Settle(p) \/ Loop!Complete(p) \/ Loop!Retry(p) \/ Loop!DeadLetter(p)
              \/ Loop!DeadLetterAnyway(p)
    BY <1>2, <1>11, LoopVocabulary DEF Loop!Settle, Loop!Complete, Loop!Retry,
       Loop!DeadLetter, Loop!DeadLetterAnyway, Goal
  <1>12. CASE Loop!Start(p)
    BY <1>1, <1>12, TransitionFitsOn, LoopVocabulary DEF Loop!Start, Goal
  <1>13. CASE Loop!Started(p)
    BY <1>3, <1>8, <1>13, LoopVocabulary DEF Loop!Started
  <1>14. CASE Loop!RunRuntime(p)
    <2>1. Active
      BY <1>14 DEF Loop!RunRuntime
    <2>2. CASE Loop!Goto(p, "lookup_invalid") /\ loc' = [loc EXCEPT ![p].stage = "proposal"]
      BY <1>1, <1>8, <2>1, <2>2, StageFits, LoopVocabulary DEF Stages, Goal
    <2>3. QED
      BY <1>3, <1>5, <1>6, <1>8, <1>14, <2>1, <2>2, LoopVocabulary DEF Loop!RunRuntime
  <1>15. CASE Loop!Canonicalize(p)
    BY <1>5, <1>6, <1>15 DEF Loop!Canonicalize
  <1>16. CASE Loop!WriteGraph(p)
    <2>1. pc[p] = "graph" /\ UNCHANGED loc
      BY <1>16 DEF Loop!WriteGraph
    <2>2. CASE InsertGraphWrite(loc[p].run) /\ Goto(p, "report_success")
      <3>1. loc[p].run \in graph'
        BY <2>2 DEF InsertGraphWrite
      <3>2. QED
        BY <1>1, <2>1, <2>2, <3>1, GraphWritten DEF Goal
    <2>3. QED
      BY <1>3, <1>8, <1>16, <2>1, <2>2, LoopVocabulary DEF Loop!WriteGraph
  <1>17. CASE Loop!WriteReport(p)
    <2>1. pc[p] = "report_success"
      BY <1>17 DEF Loop!WriteReport
    <2>2. CASE Loop!InsertReport(loc[p].run, "completed") /\ Loop!NextTransition(p, "summarizing")
      <3>1. loc[p].run \in graph /\ loc[p].run \in Runs
        BY <1>1, <2>1 DEF Fit, TransitionFits
      <3>2. report \in [Runs -> ReportStates]
        BY DEF DriversInv, LedgerInv, TypeOK
      <3>3. InsertReport(loc[p].run, "completed")
        BY <2>2, LoopVocabulary
      <3>4. Stored
        BY <3>1, <3>2, <3>3 DEF InsertReport
      <3>5. QED
        BY <1>7, <2>1, <2>2, <3>4 DEF Final
    <2>3. QED
      BY <1>3, <1>8, <1>17, <2>1, <2>2, LoopVocabulary DEF Loop!WriteReport
  <1>18. CASE Loop!AdvanceProposal(p)
    <2>1. CASE ReadRunState(p) \/ LoseTransition(p)
      BY <1>1, <2>1, TransitionFitsOn DEF StartStep, Goal
    <2>2. CASE SetRunState(p) /\ Loop!ContinueProposal(p)
      <3>1. pc[p] = "cas"
        BY <2>2 DEF SetRunState
      <3>2. loc[p].goal \in Final => Stored
        BY <1>1, <3>1, PersistedStays DEF Fit, TransitionFits, Persisted
      <3>3. CASE loc[p].goal = "completed" /\ Loop!Goto(p, "complete") /\ UNCHANGED loc
        BY <1>1, <3>1, <3>2, <3>3, RunCompleted, LoopVocabulary DEF Final, Goal
      <3>4. QED
        BY <1>3, <1>6, <1>7, <1>8, <2>2, <3>1, <3>2, <3>3, LoopVocabulary
           DEF Loop!ContinueProposal, Final
    <2>3. QED
      BY <1>18, <2>1, <2>2, LoopVocabulary DEF Loop!AdvanceProposal
  <1>19. CASE Loop!FailRunIfPossible(p)
    <2>1. CASE ReadRunState(p) \/ LoseTransition(p)
      BY <1>1, <2>1, TransitionFitsOn DEF StartStep, Goal
    <2>2. CASE SetRunState(p) /\ Goto(p, loc[p].stage) /\ UNCHANGED loc
      BY <1>3, <1>8, <1>19, <2>2 DEF Loop!FailRunIfPossible, Loop!ErrorStages, SetRunState
    <2>3. QED
      BY <1>19, <2>1, <2>2, LoopVocabulary DEF Loop!FailRunIfPossible
  <1>20. CASE Loop!HandleRaised(p)
    BY <1>3, <1>8, <1>20, LoopVocabulary DEF Loop!HandleRaised, Loop!ErrorStages
  <1>21. CASE Loop!WriteFailureReport(p) \/ Loop!MutationMismatch(p)
    BY <1>3, <1>8, <1>21, LoopVocabulary DEF Loop!WriteFailureReport, Loop!MutationMismatch
  <1>22. QED
    BY <1>9, <1>10, <1>11, <1>12, <1>13, <1>14, <1>15, <1>16, <1>17, <1>18, <1>19, <1>20,
       <1>21 DEF Loop!ExecutorStep

LEMMA TriggerStepFits ==
  ASSUME DriversInv, NEW p \in TriggerProcs, Trigger!TriggerStep(p),
         RecordsKept \/ UNCHANGED ledgerVars, LedgerInv'
  PROVE  OnlyMoves(p) /\ Fit(p)'
  <1> DEFINE Goal == OnlyMoves(p) /\ Fit(p)'
             Stored == loc[p].run \in graph' /\ report'[loc[p].run] = "completed"
             Active == pc[p] \notin {"idle", "answer", "resume"}
  <1>1. p \in Procs \ WorkerProcs /\ Fit(p)
    BY DriversAssumption DEF DriversInv
  <1>2. CASE Return(p)
    BY <1>1, <1>2, ReturnFits
  <1>3. ASSUME Active, NEW label \in Plain, Goto(p, label), UNCHANGED loc
        PROVE  Goal
    BY <1>1, <1>3, GotoFits
  <1>4. ASSUME Active, NEW goal \in RunStates, NEW stage \in Stages, Goto(p, "read"),
               loc' = [loc EXCEPT ![p].goal = goal, ![p].stage = stage],
               goal \in Final => Stored
        PROVE  Goal
    BY <1>1, <1>4, TransitionStarts
  <1>5. ASSUME Active, NEW stage \in {"retry", "dead", "report"}, Trigger!FailRun(p, stage)
        PROVE  Goal
    BY <1>4, <1>5, TriggerVocabulary DEF Trigger!FailRun, RunStates, Stages, Final
  <1>6. ASSUME Active, NEW goal \in {"normalizing", "adjudicating", "persisting", "failed"},
               Trigger!NextTransition(p, goal)
        PROVE  Goal
    BY <1>4, <1>6, TriggerVocabulary DEF Trigger!NextTransition, RunStates, Stages, Final
  <1>7. ASSUME Active, NEW goal \in Final, Trigger!NextTransition(p, goal), Stored
        PROVE  Goal
    BY <1>4, <1>7, TriggerVocabulary DEF Trigger!NextTransition, RunStates, Stages, Final
  <1>8. {"claim", "enqueue", "runtime", "canonicalize", "graph", "retry", "dead",
         "report"} \subseteq Plain
    BY DEF Plain, Places, StartLabels, Claimed
  <1> SUFFICES Goal
    OBVIOUS
  <1> HIDE DEF Goal
  <1>9. CASE Trigger!Answer(p) /\ ~ Return(p)
    <2>1. pc[p] = "answer" /\ Goto(p, "resume") /\ UNCHANGED loc
      BY <1>9, TriggerVocabulary DEF Trigger!Answer
    <2>2. OnlyMoves(p) /\ pc'[p] = "resume"
      BY <1>1, <2>1 DEF Goto, DriversInv, Places, OnlyMoves
    <2>3. loc'[p].item \in Items
      BY <1>1, <2>1 DEF Fit
    <2>4. QED
      BY <1>1, <2>2, <2>3 DEF Fit, TransitionFits, Goal
  <1>10. CASE Trigger!Resume(p) /\ ~ Return(p)
    <2>1. /\ pc[p] = "resume"
          /\ loc[p].run # None
          /\ Goto(p, "runtime")
          /\ UNCHANGED loc
      BY <1>10, TriggerVocabulary DEF Trigger!Resume
    <2>2. OnlyMoves(p) /\ pc'[p] = "runtime"
      BY <1>1, <2>1 DEF Goto, DriversInv, Places, OnlyMoves
    <2>3. loc'[p].item \in Items /\ loc'[p].run \in Runs
      BY <1>1, <2>1 DEF Fit, DriversInv, Locals
    <2>4. QED
      BY <1>1, <2>2, <2>3 DEF Fit, TransitionFits, Goal
  <1>11. CASE Trigger!Reserve(p) \/ Trigger!Enqueue(p) \/ Trigger!Started(p)
    BY <1>2, <1>3, <1>8, <1>11, TriggerVocabulary
       DEF Trigger!Reserve, Trigger!Enqueue, Trigger!Started, Goal
  <1>12. CASE Trigger!Complete(p) \/ Trigger!Retry(p) \/ Trigger!DeadLetter(p)
              \/ Trigger!MutationMismatch(p)
    BY <1>2, <1>12, TriggerVocabulary DEF Trigger!Complete, Trigger!Retry,
       Trigger!DeadLetter, Trigger!MutationMismatch, Goal
  <1>13. CASE Trigger!Start(p)
    BY <1>1, <1>13, TransitionFitsOn, TriggerVocabulary DEF Trigger!Start, Goal
  <1>14. CASE Trigger!RunRuntime(p)
    BY <1>2, <1>5, <1>6, <1>14, TriggerVocabulary DEF Trigger!RunRuntime, Goal
  <1>15. CASE Trigger!Canonicalize(p)
    BY <1>6, <1>15 DEF Trigger!Canonicalize
  <1>16. CASE Trigger!WriteGraph(p)
    <2>1. CASE InsertGraphWrite(loc[p].run) /\ Goto(p, "report_success") /\ UNCHANGED loc
      <3>1. loc[p].run \in graph'
        BY <2>1 DEF InsertGraphWrite
      <3>2. pc[p] = "graph"
        BY <1>16 DEF Trigger!WriteGraph
      <3>3. QED
        BY <1>1, <2>1, <3>1, <3>2, GraphWritten DEF Goal
    <2>2. QED
      BY <1>2, <1>16, <2>1, TriggerVocabulary DEF Trigger!WriteGraph, Goal
  <1>17. CASE Trigger!WriteReport(p)
    <2>1. pc[p] = "report_success"
      BY <1>17 DEF Trigger!WriteReport
    <2>2. CASE /\ Trigger!InsertReport(loc[p].run, "completed")
               /\ Trigger!NextTransition(p, "summarizing")
      <3>1. loc[p].run \in graph /\ loc[p].run \in Runs
        BY <1>1, <2>1 DEF Fit, TransitionFits
      <3>2. report \in [Runs -> ReportStates]
        BY DEF DriversInv, LedgerInv, TypeOK
      <3>3. InsertReport(loc[p].run, "completed")
        BY <2>2, TriggerVocabulary
      <3>4. Stored
        BY <3>1, <3>2, <3>3 DEF InsertReport
      <3>5. QED
        BY <1>7, <2>1, <2>2, <3>4 DEF Final
    <2>3. QED
      BY <1>2, <1>17, <2>2, TriggerVocabulary DEF Trigger!WriteReport, Goal
  <1>18. CASE Trigger!AdvanceProposal(p)
    <2>1. CASE ReadRunState(p) \/ LoseTransition(p)
      BY <1>1, <2>1, TransitionFitsOn DEF StartStep, Goal
    <2>2. CASE SetRunState(p) /\ Trigger!ContinueProposal(p)
      <3>1. pc[p] = "cas"
        BY <2>2 DEF SetRunState
      <3>2. loc[p].goal \in Final => Stored
        BY <1>1, <3>1, PersistedStays DEF Fit, TransitionFits, Persisted
      <3>3. CASE loc[p].goal = "completed" /\ Trigger!Goto(p, "complete") /\ UNCHANGED loc
        BY <1>1, <3>1, <3>2, <3>3, RunCompleted, TriggerVocabulary DEF Final, Goal
      <3>4. CASE Trigger!Goto(p, "report") /\ loc' = [loc EXCEPT ![p].stage = "report"]
        BY <1>1, <1>8, <3>1, <3>4, StageFits, TriggerVocabulary DEF Stages, Goal
      <3>5. QED
        BY <1>3, <1>6, <1>7, <1>8, <2>2, <3>1, <3>2, <3>3, <3>4, TriggerVocabulary
           DEF Trigger!ContinueProposal, Final
    <2>3. QED
      BY <1>18, <2>1, <2>2, TriggerVocabulary DEF Trigger!AdvanceProposal
  <1>19. CASE Trigger!FailRunIfPossible(p)
    <2>1. CASE ReadRunState(p) \/ LoseTransition(p)
      BY <1>1, <2>1, TransitionFitsOn DEF StartStep, Goal
    <2>2. CASE SetRunState(p) /\ Goto(p, "report") /\ UNCHANGED loc
      BY <1>3, <1>8, <2>2 DEF SetRunState
    <2>3. QED
      BY <1>19, <2>1, <2>2, TriggerVocabulary DEF Trigger!FailRunIfPossible
  <1>20. CASE Trigger!HandleRaised(p)
    BY <1>2, <1>3, <1>5, <1>8, <1>20, TriggerVocabulary DEF Trigger!HandleRaised, Goal
  <1>21. CASE Trigger!WriteFailureReport(p)
    BY <1>2, <1>3, <1>8, <1>21, TriggerVocabulary DEF Trigger!WriteFailureReport, Goal
  <1>22. QED
    BY <1>2, <1>9, <1>10, <1>11, <1>12, <1>13, <1>14, <1>15, <1>16, <1>17, <1>18, <1>19,
       <1>20, <1>21 DEF Trigger!TriggerStep, Goal

\* A poll, or a request.
LEMMA TakeUp ==
  ASSUME DriversInv, NEW p \in Procs, Poll(p) \/ Request(p)
  PROVE  OnlyMoves(p) /\ Fit(p)' /\ UNCHANGED ledgerVars /\ pc[p] = "idle"
  <1>1. {"fetch", "lookup", "reserve", "answer"} \subseteq Plain
    BY DEF Plain, Places, StartLabels, Claimed
  <1>2. CASE \E q \in Items : p \in WorkerProcs /\ Worker(AttemptsOf(q))!ExecuteNext(p, q)
    <2>1. PICK q \in Items : Worker(AttemptsOf(q))!ExecuteNext(p, q)
      BY <1>2
    <2>2. /\ pc[p] = "idle"
          /\ Goto(p, "fetch")
          /\ loc' = [loc EXCEPT ![p].item = q, ![p].run = RequestedRun[q]]
          /\ UNCHANGED ledgerVars
      BY <2>1, WorkerVocabulary DEF Worker!ExecuteNext, Worker!Deliver
    <2>3. QED
      BY <1>1, <2>2, TakeUpFits, EnvironmentAssumption
  <1>3. CASE \E q \in Items : p \in LoopProcs /\ Loop!Poll(p, q)
    <2>1. PICK q \in Items : Loop!Poll(p, q)
      BY <1>3
    <2>2. /\ pc[p] = "idle"
          /\ Goto(p, "lookup")
          /\ loc' = [loc EXCEPT ![p].item = q, ![p].run = RequestedRun[q]]
          /\ UNCHANGED ledgerVars
      BY <2>1, LoopVocabulary DEF Loop!Poll
    <2>3. QED
      BY <1>1, <2>2, TakeUpFits, EnvironmentAssumption
  <1>4. CASE \E q \in TriggerItems : Trigger!Request(p, q)
    <2>1. PICK q \in TriggerItems : Trigger!Request(p, q)
      BY <1>4
    <2>2. q \in Items
      BY DriversAssumption
    <2>3. pc[p] = "idle" /\ UNCHANGED ledgerVars
      BY <2>1, TriggerVocabulary DEF Trigger!Request
    <2>4. CASE Goto(p, "reserve") /\ loc' = [loc EXCEPT ![p].item = q, ![p].run = RequestedRun[q]]
      BY <1>1, <2>2, <2>3, <2>4, TakeUpFits, EnvironmentAssumption
    <2>5. CASE /\ link[q] # Unreserved
               /\ Goto(p, "answer")
               /\ loc' = [loc EXCEPT ![p].item = q, ![p].run = link[q]]
      <3>1. link[q] \in Runs \cup {None}
        BY <2>2, <2>5 DEF DriversInv, LedgerInv, TypeOK
      <3>2. QED
        BY <1>1, <2>2, <2>3, <2>5, <3>1, TakeUpFits
    <2>6. QED
      BY <2>1, <2>4, <2>5, TriggerVocabulary DEF Trigger!Request
  <1>5. QED
    BY <1>2, <1>3, <1>4 DEF Poll, Request

-----------------------------------------------------------------------------
(* DriversInv is inductive.                                                *)

LEMMA InitDriversInv == DriversInit => DriversInv /\ ClaimsHeld
  <1> SUFFICES ASSUME DriversInit PROVE DriversInv /\ ClaimsHeld
    OBVIOUS
  <1>1. LedgerInv
    BY InitLedgerInv DEF DriversInit, Init
  <1>2. IdleLocals \in Locals
    BY DEF IdleLocals, Locals, RunStates, Exceptions, Stages
  <1>3. pc \in [Procs -> Places] /\ loc \in [Procs -> Locals]
    BY <1>2 DEF DriversInit, Init, ProcInit, Places
  <1>4. FinalRunsPersisted
    BY DEF DriversInit, Init, LedgerInit, FinalRunsPersisted, Final
  <1>5. \A p \in Procs : Fit(p)
    BY DEF DriversInit, Init, ProcInit, Fit, TransitionFits, WorkerFit, Claimed
  <1>6. ClaimsHeld
    BY DEF DriversInit, Init, LedgerInit, ClaimsHeld
  <1>7. QED
    BY <1>1, <1>3, <1>4, <1>5, <1>6 DEF DriversInv, DriversInit, Init

\* The step of a process: at most one call.
LEMMA DriverStepCalls ==
  ASSUME DriversInv, NEW p \in fleet.procs, DriverStep(p)
  PROVE  p \in Procs /\ DriverCall(p)
  <1>1. CASE p \in WorkerProcs /\ \E q \in Items : Worker(AttemptsOf(q))!WorkerStep(p)
    BY <1>1, WorkerCalls, DriversAssumption
  <1>2. CASE p \in LoopProcs /\ Loop!ExecutorStep(p)
    BY <1>2, LoopCalls, DriversAssumption
  <1>3. CASE p \in TriggerProcs /\ Trigger!TriggerStep(p)
    BY <1>3, TriggerCalls, DriversAssumption
  <1>4. QED
    BY <1>1, <1>2, <1>3 DEF DriverStep

LEMMA DriverStepFits ==
  ASSUME DriversInv, NEW p \in Procs, DriverStep(p),
         RecordsKept \/ UNCHANGED ledgerVars, LedgerInv'
  PROVE  OnlyMoves(p) /\ Fit(p)'
  <1>1. CASE p \in WorkerProcs /\ \E q \in Items : Worker(AttemptsOf(q))!WorkerStep(p)
    BY <1>1, WorkerStepFits
  <1>2. CASE p \in LoopProcs /\ Loop!ExecutorStep(p)
    BY <1>2, LoopStepFits
  <1>3. CASE p \in TriggerProcs /\ Trigger!TriggerStep(p)
    BY <1>3, TriggerStepFits
  <1>4. QED
    BY <1>1, <1>2, <1>3 DEF DriverStep

\* A process that calls has an item and a run.
LEMMA DriverStepHasWork ==
  ASSUME NEW p, DriverStep(p)
  PROVE  UNCHANGED ledgerVars \/ pc[p] \notin {"idle", "answer", "resume"}
  <1> DEFINE Works == UNCHANGED ledgerVars \/ pc[p] \notin {"idle", "answer", "resume"}
  <1>1. ASSUME StartStep(p) \/ ReadRunState(p) \/ LoseTransition(p) \/ SetRunState(p)
        PROVE  Works
    BY <1>1 DEF StartStep, Claim, Status, ReadRunState, AdvanceStart, SetRunState, LoseTransition
  <1>2. ASSUME NEW attempts, Worker(attempts)!WorkerStep(p)
        PROVE  Works
    BY <1>1, <1>2, WorkerVocabulary
       DEF Worker!WorkerStep, Worker!FetchItem, Worker!HandlerEnds, Worker!CatchStartError,
           Worker!Complete, Worker!NackRead, Worker!Requeue, Worker!DeadLetterRead,
           Worker!DeadLetterClaimed, Worker!DeadLetterUnclaimed, Worker!MutationMismatch
  <1>3. ASSUME Loop!ExecutorStep(p)
        PROVE  Works
    BY <1>1, <1>3, LoopVocabulary
       DEF Loop!ExecutorStep, Loop!LookUpReport, Loop!Lookups, Loop!Reclaim, Loop!Settle,
           Loop!Start, Loop!Started, Loop!RunRuntime, Loop!Canonicalize, Loop!WriteGraph,
           Loop!WriteReport, Loop!AdvanceProposal, Loop!FailRunIfPossible,
           Loop!HandleRaised, Loop!WriteFailureReport, Loop!Complete, Loop!Retry,
           Loop!DeadLetter, Loop!MutationMismatch, Loop!DeadLetterAnyway
  <1>4. ASSUME Trigger!TriggerStep(p)
        PROVE  Works
    BY <1>1, <1>4, TriggerVocabulary
       DEF Trigger!TriggerStep, Trigger!Answer, Trigger!Resume, Trigger!Reserve,
           Trigger!Enqueue, Trigger!Start, Trigger!Started, Trigger!RunRuntime,
           Trigger!Canonicalize, Trigger!WriteGraph, Trigger!WriteReport,
           Trigger!AdvanceProposal, Trigger!FailRunIfPossible, Trigger!HandleRaised,
           Trigger!WriteFailureReport, Trigger!Complete, Trigger!Retry,
           Trigger!DeadLetter, Trigger!MutationMismatch
  <1>5. QED
    BY <1>2, <1>3, <1>4 DEF DriverStep

\* What happens in a step.
LEMMA NextCases ==
  ASSUME DriversInv, Next
  PROVE  /\ \/ \E p \in Procs : /\ DriverStep(p) /\ DriverCall(p)
                                /\ UNCHANGED envVars
            \/ \E p \in Procs : /\ Poll(p) \/ Request(p)
                                /\ UNCHANGED envVars
            \/ \E q \in Items : /\ Submit(q) \/ BackoffElapses(q) \/ ClaimAges(q)
                                /\ UNCHANGED <<procVars, envVars>>
            \/ \E q \in Items : RecoverBy(fleet.operator, q)
            \/ \E p \in Procs : Crash(p)
         /\ UNCHANGED fleet
  <1>1. fleet.procs \subseteq Procs /\ fleet.crashing \subseteq Procs /\ fleet.items \subseteq Items
    BY DriversAssumption DEF DriversInv
  <1>2. CASE FleetStep /\ UNCHANGED envVars
    <2>1. ASSUME NEW p \in fleet.procs, DriverStep(p)
          PROVE  p \in Procs /\ DriverCall(p)
      BY <2>1, DriverStepCalls
    <2>2. CASE \E p \in fleet.procs : DriverStep(p)
      BY <1>2, <2>1, <2>2 DEF Next
    <2>3. CASE ~ \E p \in fleet.procs : DriverStep(p)
      BY <1>1, <1>2, <2>3 DEF FleetStep, Next
    <2>4. QED
      BY <2>2, <2>3
  <1>3. CASE \E p \in fleet.crashing : Crash(p)
    BY <1>1, <1>3 DEF Next
  <1>4. CASE \E q \in fleet.items : Operate(q)
    BY <1>1, <1>4 DEF Operate, Next
  <1>5. QED
    BY <1>2, <1>3, <1>4 DEF Next

LEMMA NextIsLedgerStep ==
  ASSUME DriversInv, [Next]_driverVars
  PROVE  [LedgerNext]_ledgerVars
  <1>1. ASSUME NEW p \in Procs, DriverStep(p), DriverCall(p)
        PROVE  [LedgerNext]_ledgerVars
    <2>1. Call(p) /\ TransitionFits(p) /\ loc[p] \in Locals
      BY <1>1, DriverCallIsCall DEF DriversInv, Fit
    <2>2. UNCHANGED ledgerVars \/ (loc[p].item \in Items /\ loc[p].run \in Runs)
      BY <1>1, DriverStepHasWork DEF DriversInv, Fit
    <2>3. QED
      BY <2>1, <2>2, CallIsLedgerStep
  <1>2. ASSUME NEW p \in Procs, Poll(p) \/ Request(p)
        PROVE  UNCHANGED ledgerVars
    BY <1>2, TakeUp
  <1>3. ASSUME NEW q \in Items,
               \/ Submit(q) \/ BackoffElapses(q) \/ ClaimAges(q)
               \/ RecoverBy(fleet.operator, q)
        PROVE  LedgerNext
    <2>1. ItemStep(q)
      BY <1>3 DEF Submit, RecoverBy, ItemStep
    <2>2. QED
      BY <2>1 DEF LedgerNext
  <1>4. ASSUME NEW p \in Procs, Crash(p)
        PROVE  UNCHANGED ledgerVars
    BY <1>4 DEF Crash
  <1>5. CASE UNCHANGED driverVars
    BY <1>5 DEF driverVars, vars
  <1>6. QED
    BY <1>1, <1>2, <1>3, <1>4, <1>5, NextCases

\* What a process relies on survives the steps of the others.
LEMMA OthersStayFit ==
  ASSUME DriversInv, RecordsKept \/ UNCHANGED ledgerVars, LedgerInv', NEW p \in Procs,
         pc'[p] = pc[p], loc'[p] = loc[p]
  PROVE  Fit(p)'
  <1> DEFINE q == loc[p].item
             r == loc[p].run
  <1>1. Fit(p)
    BY DEF DriversInv
  <1>2. TransitionFits(p)'
    BY <1>1, OthersKeepTransitionFits DEF Fit
  <1>3. \A o \in Runs, z \in Items : Owns(o, z) => run'[o].item = z /\ link'[z] = o
    <2> SUFFICES ASSUME NEW o \in Runs, NEW z \in Items, Owns(o, z)
                 PROVE  run'[o].item = z /\ link'[z] = o
      OBVIOUS
    <2>1. run'[o].item = z
      BY NoneIsNoId DEF RecordsKept, RunExists, Owns, ledgerVars
    <2>2. QED
      BY <2>1, NoneIsNoId DEF LedgerInv, LinkInv, RunExists
  <1>4. p \in WorkerProcs => WorkerFit(p)'
    <2>1. link[q] \in Runs => link'[q] \in Runs \/ q \notin Items
      BY DEF RecordsKept, ledgerVars
    <2>2. pc[p] \in Claimed \cup {"raised"} => q \in Items /\ r \in Runs
      BY <1>1 DEF Fit, Claimed
    <2>3. QED
      BY <1>1, <1>3, <2>1, <2>2 DEF Fit, WorkerFit, Owns
  <1>5. p \notin WorkerProcs /\ pc[p] = "complete" => Persisted(r) /\ r \in Runs
    BY <1>1 DEF Fit
  <1>6. p \notin WorkerProcs /\ pc[p] = "complete" => r \in graph' /\ report'[r] = "completed"
    BY <1>5, PersistedStays DEF Persisted
  <1>7. pc[p] \in {"reclaim", "settle"} => Reported(p)'
    <2>1. SUFFICES ASSUME pc[p] \in {"reclaim", "settle"} PROVE Reported(p)'
      OBVIOUS
    <2>2. PICK o \in Runs : (o = r \/ Owns(o, q)) /\ report[o] # "none"
      BY <1>1, <2>1 DEF Fit, Reported
    <2>3. report'[o] # "none"
      BY <2>2, PersistedStays
    <2>4. Owns(o, q) => run'[o].item = q
      BY <1>1, <1>3, <2>1 DEF Fit
    <2>5. QED
      BY <2>2, <2>3, <2>4 DEF Reported, Owns
  <1>8. QED
    BY <1>1, <1>2, <1>4, <1>6, <1>7 DEF Fit, Persisted

LEMMA NextKeepsDriversInv == DriversInv /\ [Next]_driverVars => DriversInv'
  <1> SUFFICES ASSUME DriversInv, [Next]_driverVars PROVE DriversInv'
    OBVIOUS
  <1>1. LedgerInv' /\ (RecordsKept \/ UNCHANGED ledgerVars)
    BY NextIsLedgerStep, NextKeepsInv, NextKeepsRecords DEF DriversInv
  <1>2. crashes' \in Nat /\ fleet' \in Fleets
    BY NextCases DEF DriversInv, Crash, RecoverBy, driverVars, vars, envVars
  <1>3. ASSUME NEW p \in Procs, OnlyMoves(p), Fit(p)', FinalRunsPersisted'
        PROVE  DriversInv'
    <2>1. \A o \in Procs \ {p} : Fit(o)'
      BY <1>1, <1>3, OthersStayFit DEF OnlyMoves
    <2>2. QED
      BY <1>1, <1>2, <1>3, <2>1 DEF DriversInv, OnlyMoves
  <1>4. UNCHANGED ledgerVars => FinalRunsPersisted'
    BY DEF DriversInv, FinalRunsPersisted, Persisted, ledgerVars
  <1>5. ASSUME NEW p \in Procs, DriverStep(p), DriverCall(p)
        PROVE  DriversInv'
    <2>1. Call(p) /\ TransitionFits(p)
      BY <1>5, DriverCallIsCall DEF DriversInv, Fit
    <2>2. FinalRunsPersisted'
      BY <1>1, <2>1, CallKeepsFinal DEF DriversInv
    <2>3. QED
      BY <1>1, <1>3, <1>5, <2>2, DriverStepFits
  <1>6. ASSUME NEW p \in Procs, Poll(p) \/ Request(p)
        PROVE  DriversInv'
    BY <1>3, <1>4, <1>6, TakeUp
  <1>7. ASSUME NEW p \in Procs, Crash(p)
        PROVE  DriversInv'
    BY <1>3, <1>4, <1>7, ReturnFits DEF Crash
  <1>8. ASSUME UNCHANGED procVars, FinalRunsPersisted'
        PROVE  DriversInv'
    <2>1. pc' = pc /\ loc' = loc
      BY <1>8 DEF procVars
    <2>2. \A o \in Procs : Fit(o)'
      BY <1>1, <2>1, OthersStayFit
    <2>3. QED
      BY <1>1, <1>2, <1>8, <2>1, <2>2 DEF DriversInv
  <1>9. ASSUME NEW q \in Items,
               \/ (Submit(q) \/ BackoffElapses(q) \/ ClaimAges(q)) /\ UNCHANGED procVars
               \/ RecoverBy(fleet.operator, q)
        PROVE  DriversInv'
    <2>1. \/ UNCHANGED run
          \/ \E z \in Items, status \in {"queued", "dead_letter"} : ReopenRunOf(z, status)
      BY <1>9 DEF Submit, ReserveKey, EnqueueJob, BackoffElapses, ClaimAges, RecoverBy,
         RecoverDeadLetter, RecoverStaleClaim
    <2>2. FinalRunsPersisted'
      BY <1>1, <2>1, OperatorKeepsFinal DEF DriversInv
    <2>3. QED
      BY <1>8, <1>9, <2>2 DEF RecoverBy
  <1>10. CASE UNCHANGED driverVars
    BY <1>4, <1>8, <1>10 DEF driverVars, vars
  <1>11. QED
    BY <1>5, <1>6, <1>7, <1>9, <1>10, NextCases

LEMMA DriversInvariant == Spec => []DriversInv
  BY InitDriversInv, NextKeepsDriversInv, PTL DEF Spec

(* Queue workers, worker loops and interactive requests use the ledger     *)
(* together as it allows, so keys, runs, claims and artifacts stay         *)
(* consistent and what is recorded stays, whichever of them meet.          *)
THEOREM DriversImplementLedger == Spec => LedgerSpec
  <1>1. DriversInit => LedgerInit
    BY DEF DriversInit, Init
  <1>2. DriversInv /\ [Next]_driverVars => [LedgerNext]_ledgerVars
    BY NextIsLedgerStep
  <1>3. QED
    BY <1>1, <1>2, DriversInvariant, PTL DEF Spec, LedgerSpec

(* A run is summarised or completed only when its graph write and its      *)
(* completed report are stored, although the statements that store them    *)
(* and the transitions that follow may be those of different programs.     *)
THEOREM DriversPersistRuns == Spec => []CompletedRunIsPersisted
  <1>1. DriversInv => CompletedRunIsPersisted
    BY DEF DriversInv, FinalRunsPersisted, Final, Persisted, CompletedRunIsPersisted
  <1>2. QED
    BY <1>1, DriversInvariant, PTL

-----------------------------------------------------------------------------
(* Claims.                                                                 *)

\* Where a process has no claim of its own yet.
Before == {"idle", "fetch", "lookup", "answer", "reserve", "enqueue", "claim"}

\* The step of a poller goes on with its item and run, takes the run id from the
\* item's link, settles the item, or walks away from a claim that it does not hold.
Progress(p) ==
  \/ /\ pc'[p] \notin Before
     /\ loc'[p].item = loc[p].item
     /\ loc'[p].run = loc[p].run
  \/ /\ pc'[p] \notin Before
     /\ loc'[p].item = loc[p].item
     /\ loc'[p].run = link[loc[p].item]
     /\ loc[p].run \in Runs /\ link[loc[p].item] \in Runs
     /\ UNCHANGED ledgerVars
  \/ item'[loc[p].item].state # "claimed"
  \/ (pc[p] \in Before \/ ~ HoldsClaim(p)) /\ UNCHANGED ledgerVars

\* The three ways to settle an item take it from its claimant.
LEMMA SettledIsUnclaimed ==
  ASSUME LedgerInv, NEW q \in Items, NEW r, NEW w,
         \/ CompleteItem(q, r, w)
         \/ DeadLetterOwned(q, r, w)
         \/ DeadLetterUnowned(q)
         \/ \E when \in Times : RetryItem(q, when)
  PROVE  item'[q].state # "claimed"
  <1>1. item[q] \in ItemRow /\ item \in [Items -> ItemRow]
    BY DEF LedgerInv, TypeOK
  <1>2. CASE CompleteItem(q, r, w)
    BY <1>1, <1>2 DEF CompleteItem, ItemRow
  <1>3. CASE DeadLetterOwned(q, r, w) \/ DeadLetterUnowned(q)
    BY <1>1, <1>3 DEF DeadLetterOwned, DeadLetterUnowned, DeadLetterRow, ItemRow
  <1>4. ASSUME NEW when \in Times, RetryItem(q, when)
        PROVE  item'[q].state # "claimed"
    <2> DEFINE new == [item[q] EXCEPT !.state = "queued", !.by = None, !.attempts = @ + 1,
                                      !.available = when, !.age = "fresh"]
    <2>1. item' = [item EXCEPT ![q] = new]
      BY <1>4 DEF RetryItem
    <2>2. new.state = "queued"
      BY <1>1 DEF ItemRow
    <2>3. QED
      BY <1>1, <2>1, <2>2
  <1>5. QED
    BY <1>2, <1>3, <1>4

LEMMA GoesOn ==
  ASSUME NEW p \in Procs, pc \in [Procs -> Places],
         NEW label \in Places \ Before, Goto(p, label), UNCHANGED loc
  PROVE  Progress(p)
  BY DEF Goto, Progress

LEMMA WorkerProgress ==
  ASSUME DriversInv, NEW attempts, NEW p \in WorkerProcs, Worker(attempts)!WorkerStep(p),
         RecordsKept \/ UNCHANGED ledgerVars, LedgerInv'
  PROVE  Progress(p)
  <1>1. p \in Procs /\ pc \in [Procs -> Places] /\ loc \in [Procs -> Locals] /\ LedgerInv
    BY DriversAssumption DEF DriversInv
  <1>2. CASE Worker(attempts)!StartStep(p)
    BY <1>1, <1>2, WorkerVocabulary, TransitionFitsOn DEF Progress, StartLabels, Before
  <1>3. CASE \E label \in {"complete", "nack", "requeue", "dead", "dead_claimed",
                           "dead_unclaimed"} :
               Goto(p, label) /\ UNCHANGED loc
    BY <1>1, <1>3, GoesOn DEF Places, StartLabels, Before
  <1>4. CASE Worker(attempts)!FetchItem(p)
    BY <1>4, WorkerVocabulary DEF Worker!FetchItem, Progress, Before
  <1>5. CASE Worker(attempts)!CatchStartError(p)
    <2>1. CASE /\ pc[p] = "raised"
               /\ loc[p].exc \in LinkedErrors
               /\ Goto(p, "dead")
               /\ loc' = [loc EXCEPT ![p].run = link[loc[p].item]]
               /\ UNCHANGED ledgerVars
      <3>1. link[loc[p].item] \in Runs /\ loc[p].run \in Runs
        BY <1>1, <2>1 DEF DriversInv, Fit, WorkerFit
      <3>2. loc'[p].item = loc[p].item /\ loc'[p].run = link[loc[p].item]
        BY <1>1, <2>1 DEF Locals
      <3>3. pc'[p] = "dead"
        BY <1>1, <2>1 DEF Goto
      <3>4. QED
        BY <2>1, <3>1, <3>2, <3>3 DEF Progress, Before
    <2>2. QED
      BY <1>3, <1>5, <2>1, WorkerVocabulary DEF Worker!CatchStartError, LinkedErrors
  <1>6. CASE \/ Worker(attempts)!HandlerEnds(p)
             \/ Worker(attempts)!NackRead(p)
             \/ Worker(attempts)!DeadLetterRead(p)
    BY <1>3, <1>6, WorkerVocabulary
       DEF Worker!HandlerEnds, Worker!NackRead, Worker!DeadLetterRead
  <1>7. CASE \/ Worker(attempts)!Complete(p)
             \/ Worker(attempts)!Requeue(p)
             \/ Worker(attempts)!DeadLetterClaimed(p)
             \/ Worker(attempts)!DeadLetterUnclaimed(p)
    <2>1. loc[p].item \in Items
      BY <1>1, <1>7 DEF DriversInv, Fit, Worker!Complete, Worker!Requeue,
         Worker!DeadLetterClaimed, Worker!DeadLetterUnclaimed
    <2>2. item'[loc[p].item].state # "claimed"
      BY <1>1, <1>7, <2>1, WorkerVocabulary, SettledIsUnclaimed
         DEF Worker!Complete, Worker!Requeue, Worker!DeadLetterClaimed,
             Worker!DeadLetterUnclaimed, Times
    <2>3. QED
      BY <2>2 DEF Progress
  <1>8. CASE Worker(attempts)!MutationMismatch(p)
    BY <1>8, WorkerVocabulary DEF Worker!MutationMismatch, Progress
  <1>9. QED
    BY <1>2, <1>4, <1>5, <1>6, <1>7, <1>8 DEF Worker!WorkerStep

LEMMA LoopProgress ==
  ASSUME DriversInv, NEW p \in LoopProcs, Loop!ExecutorStep(p),
         RecordsKept \/ UNCHANGED ledgerVars, LedgerInv'
  PROVE  Progress(p)
  <1> DEFINE On == {"reclaim", "settle", "runtime", "crashed", "lookup_again",
                    "lookup_conflict", "canonicalize", "graph", "report_success",
                    "complete", "retry", "dead", "report", "lookup_invalid",
                    "crashed_unowned"}
  <1>1. p \in Procs \ WorkerProcs /\ pc \in [Procs -> Places] /\ loc \in [Procs -> Locals]
    BY DriversAssumption DEF DriversInv
  <1>2. On \subseteq Places \ Before
    BY DEF Places, StartLabels, Before
  <1>3. CASE \E label \in On : Goto(p, label) /\ UNCHANGED loc
    BY <1>1, <1>2, <1>3, GoesOn
  <1>4. ASSUME NEW label \in {"read", "lookup_invalid"}, Goto(p, label),
               NEW goal \in RunStates, NEW stage \in Stages,
               \/ loc' = [loc EXCEPT ![p].goal = goal, ![p].stage = stage]
               \/ loc' = [loc EXCEPT ![p].stage = stage]
        PROVE  Progress(p)
    BY <1>1, <1>4 DEF Goto, Locals, Before, Progress
  <1>5. ASSUME NEW then \in {"retry", "dead", "report"}, Loop!FailRun(p, then)
        PROVE  Progress(p)
    BY <1>4, <1>5, LoopVocabulary DEF Loop!FailRun, RunStates, Stages
  <1>6. ASSUME NEW goal \in {"normalizing", "adjudicating", "persisting", "summarizing",
                             "completed"},
               Loop!NextTransition(p, goal)
        PROVE  Progress(p)
    BY <1>4, <1>6, LoopVocabulary DEF Loop!NextTransition, RunStates, Stages
  <1>7. ASSUME StartStep(p) \/ ReadRunState(p) \/ LoseTransition(p)
        PROVE  Progress(p)
    <2>1. StartStep(p)
      BY <1>7 DEF StartStep
    <2>2. QED
      BY <1>1, <2>1, TransitionFitsOn DEF Progress, StartLabels, Before
  <1>8. ASSUME loc[p].item \in Items,
               \/ CompleteItem(loc[p].item, loc[p].run, WorkerOf[p])
               \/ RetryItem(loc[p].item, "now")
               \/ DeadLetterOwned(loc[p].item, loc[p].run, WorkerOf[p])
               \/ DeadLetterUnowned(loc[p].item)
        PROVE  Progress(p)
    BY <1>8, SettledIsUnclaimed DEF DriversInv, Progress, Times
  <1> DEFINE Goal == Progress(p)
  <1> SUFFICES Goal
    OBVIOUS
  <1>9. CASE Loop!LookUpReport(p)
    <2>1. pc[p] \in {"lookup", "lookup_again", "lookup_invalid", "lookup_conflict"}
      BY <1>9 DEF Loop!LookUpReport, Loop!Lookups
    <2>2. CASE pc[p] = "lookup"
      <3>1. UNCHANGED ledgerVars
        BY <1>9, LoopVocabulary DEF Loop!LookUpReport
      <3>2. QED
        BY <2>2, <3>1 DEF Progress, Before
    <2>3. CASE Goto(p, "reclaim") /\ UNCHANGED loc
      BY <1>3, <2>3
    <2>4. CASE pc[p] \in {"lookup_again", "lookup_conflict"} /\ Loop!NoReportExists(p)
      BY <1>3, <2>4, LoopVocabulary DEF Loop!NoReportExists
    <2>5. CASE pc[p] = "lookup_invalid" /\ Loop!NoReportExists(p)
      BY <1>5, <2>5 DEF Loop!NoReportExists
    <2>6. QED
      BY <1>9, <2>1, <2>2, <2>3, <2>4, <2>5, LoopVocabulary DEF Loop!LookUpReport
  <1>10. CASE Loop!Reclaim(p)
    BY <1>3, <1>10, LoopVocabulary DEF Loop!Reclaim
  <1>11. CASE Loop!Settle(p) \/ Loop!Complete(p) \/ Loop!Retry(p) \/ Loop!DeadLetter(p)
              \/ Loop!DeadLetterAnyway(p)
    <2>1. loc[p].item \in Items
      BY <1>1, <1>11 DEF DriversInv, Fit, Loop!Settle, Loop!Complete, Loop!Retry,
         Loop!DeadLetter, Loop!DeadLetterAnyway
    <2>2. CASE ~ HoldsClaim(p) /\ UNCHANGED ledgerVars
      BY <2>2 DEF Progress
    <2>3. QED
      BY <1>8, <1>11, <2>1, <2>2, LoopVocabulary
         DEF Loop!Settle, Loop!Complete, Loop!Retry, Loop!DeadLetter, Loop!DeadLetterAnyway
  <1>12. CASE Loop!Start(p)
    BY <1>7, <1>12, LoopVocabulary DEF Loop!Start
  <1>13. CASE Loop!Started(p)
    BY <1>3, <1>13, LoopVocabulary DEF Loop!Started
  <1>14. CASE Loop!RunRuntime(p)
    <2>1. CASE Goto(p, "lookup_invalid") /\ loc' = [loc EXCEPT ![p].stage = "proposal"]
      BY <1>4, <2>1 DEF Stages, RunStates
    <2>2. QED
      BY <1>3, <1>5, <1>6, <1>14, <2>1, LoopVocabulary DEF Loop!RunRuntime
  <1>15. CASE Loop!Canonicalize(p)
    BY <1>5, <1>6, <1>15 DEF Loop!Canonicalize
  <1>16. CASE Loop!WriteGraph(p)
    BY <1>3, <1>16, LoopVocabulary DEF Loop!WriteGraph
  <1>17. CASE Loop!WriteReport(p)
    BY <1>3, <1>6, <1>17, LoopVocabulary DEF Loop!WriteReport
  <1>18. CASE Loop!AdvanceProposal(p)
    BY <1>3, <1>6, <1>7, <1>18, LoopVocabulary DEF Loop!AdvanceProposal, Loop!ContinueProposal
  <1>19. CASE Loop!FailRunIfPossible(p)
    BY <1>3, <1>7, <1>19, LoopVocabulary DEF Loop!FailRunIfPossible, Loop!ErrorStages
  <1>20. CASE Loop!HandleRaised(p)
    BY <1>3, <1>20, LoopVocabulary DEF Loop!HandleRaised, Loop!ErrorStages
  <1>21. CASE Loop!WriteFailureReport(p) \/ Loop!MutationMismatch(p)
    BY <1>3, <1>21, LoopVocabulary DEF Loop!WriteFailureReport, Loop!MutationMismatch
  <1>22. QED
    BY <1>9, <1>10, <1>11, <1>12, <1>13, <1>14, <1>15, <1>16, <1>17, <1>18, <1>19, <1>20,
       <1>21 DEF Loop!ExecutorStep

\* A claim that a step takes is for the item, the run and the id of its process.
LEMMA NewClaim ==
  ASSUME DriversInv, NEW p \in Procs, DriverCall(p),
         UNCHANGED ledgerVars \/ (loc[p].item \in Items /\ loc[p].run \in Runs),
         NEW q \in Items, item[q].state # "claimed", item'[q].state = "claimed"
  PROVE  /\ ~ UNCHANGED ledgerVars
         /\ loc[p].item = q
         /\ item'[q].by = WorkerOf[p]
         /\ run'[loc[p].run].item = q
  <1> DEFINE z == loc[p].item
             r == loc[p].run
             w == WorkerOf[p]
  <1>1. item \in [Items -> ItemRow] /\ run \in [Runs -> RunRow] /\ LedgerInv
    BY DEF DriversInv, LedgerInv, TypeOK
  <1>2. ~ UNCHANGED item /\ ~ UNCHANGED ledgerVars /\ z \in Items /\ r \in Runs
    BY DEF ledgerVars
  <1>3. CASE \/ CompleteItem(z, r, w) \/ DeadLetterOwned(z, r, w) \/ DeadLetterUnowned(z)
             \/ \E when \in Times : RetryItem(z, when)
    <2>1. item'[z].state # "claimed"
      BY <1>1, <1>2, <1>3, SettledIsUnclaimed
    <2>2. z # q
      BY <2>1
    <2>3. item'[q] = item[q]
      BY <1>1, <1>3, <2>2 DEF CompleteItem, DeadLetterOwned, DeadLetterUnowned,
         DeadLetterRow, RetryItem
    <2>4. QED
      BY <2>3
  <1>4. CASE EnqueueJob(z)
    <2>1. item' = [item EXCEPT ![z].state = "queued"]
      BY <1>4 DEF EnqueueJob
    <2>2. QED
      BY <1>1, <1>2, <2>1 DEF ItemRow
  <1>5. CASE ClaimNewRun(z, r, w) \/ ClaimExistingRun(z, r, w)
    <2>1. TakeClaim(z, w)
      BY <1>5 DEF ClaimNewRun, ClaimExistingRun
    <2>2. z = q
      BY <1>1, <2>1 DEF TakeClaim
    <2>3. item'[q].by = w
      BY <1>1, <2>1, <2>2 DEF TakeClaim, ItemRow
    <2>4. run'[r].item = q
      BY <1>1, <1>2, <1>5, <2>2 DEF ClaimNewRun, ClaimExistingRun, Owns
    <2>5. QED
      BY <1>2, <2>2, <2>3, <2>4
  <1>6. QED
    BY <1>2, <1>3, <1>4, <1>5 DEF DriverCall, ledgerVars, ReserveKey, SetRunState,
       TransitionRun, InsertGraphWrite, InsertReport

\* A process that keeps its place keeps its claim as long as the claim is kept.
LEMMA OthersKeepHold ==
  ASSUME RecordsKept \/ UNCHANGED ledgerVars, NEW o \in Procs, NEW q \in Items,
         Holds(o, q),
         pc'[o] = pc[o], loc'[o] = loc[o], item'[q].by = item[q].by
  PROVE  Holds(o, q)'
  BY NoneIsNoId DEF Holds, WorksOn, Owns, RecordsKept, RunExists, ledgerVars

\* The step of a process keeps every claim held, or makes it one that a trigger left.
LEMMA DriverStepKeepsClaims ==
  ASSUME DriversInv, NEW p \in Procs, DriverStep(p), DriverCall(p),
         RecordsKept \/ UNCHANGED ledgerVars, LedgerInv', [LedgerNext]_ledgerVars,
         NEW q \in Items, item'[q].state = "claimed",
         item[q].state = "claimed" => LeftByTrigger(q) \/ \E o \in Procs : Holds(o, q)
  PROVE  LeftByTrigger(q)' \/ \E o \in Procs : Holds(o, q)'
  <1>1. OnlyMoves(p) /\ LedgerInv /\ item \in [Items -> ItemRow]
    BY DriverStepFits DEF DriversInv, LedgerInv, TypeOK
  <1>2. p \notin TriggerProcs => Progress(p)
    BY WorkerProgress, LoopProgress DEF DriverStep
  <1>3. CASE item[q].state = "claimed"
    <2>1. item'[q].by = item[q].by
      BY <1>1, <1>3, ClaimKeepsOwner
    <2>2. CASE LeftByTrigger(q)
      BY <2>1, <2>2 DEF LeftByTrigger
    <2>3. ASSUME NEW o \in Procs, Holds(o, q) PROVE Holds(o, q)'
      <3>1. CASE o # p
        <4>1. pc'[o] = pc[o] /\ loc'[o] = loc[o]
          BY <1>1, <3>1 DEF OnlyMoves
        <4>2. QED
          BY <2>1, <2>3, <4>1, OthersKeepHold
      <3>2. CASE o = p
        <4>1. /\ loc[p].item = q
              /\ loc[p].run \in Runs
              /\ Owns(loc[p].run, q)
              /\ pc[p] \notin Before
              /\ WorkerOf[p] = item[q].by
              /\ p \in WorkerProcs \cup LoopProcs
          BY <2>3, <3>2 DEF Holds, WorksOn, Before
        <4>2. HoldsClaim(p)
          BY <1>3, <4>1 DEF HoldsClaim, ClaimValid
        <4>3. run'[loc[p].run].item = q
          BY <4>1, NoneIsNoId DEF RecordsKept, RunExists, Owns, ledgerVars
        <4>4. Progress(p)
          BY <1>2, <4>1, DriversAssumption
        <4>5. /\ pc'[p] \notin Before
              /\ loc'[p].item = q
              /\ loc'[p].run \in Runs
              /\ run'[loc'[p].run].item = q
          <5>1. CASE /\ pc'[p] \notin Before
                     /\ loc'[p].item = loc[p].item
                     /\ loc'[p].run = loc[p].run
            BY <4>1, <4>3, <5>1
          <5>2. CASE /\ pc'[p] \notin Before
                     /\ loc'[p].item = loc[p].item
                     /\ loc'[p].run = link[loc[p].item]
                     /\ link[loc[p].item] \in Runs
                     /\ UNCHANGED ledgerVars
            <6>1. run[link[q]].item = q
              BY <1>1, <4>1, <5>2 DEF LedgerInv, LinkInv, Owns
            <6>2. QED
              BY <4>1, <5>2, <6>1 DEF ledgerVars
          <5>3. QED
            BY <4>1, <4>2, <4>4, <5>1, <5>2 DEF Progress
        <4>6. QED
          BY <2>1, <3>2, <4>1, <4>5 DEF Holds, WorksOn, Owns, Before
      <3>3. QED
        BY <3>1, <3>2
    <2>4. QED
      BY <1>3, <2>2, <2>3
  <1>4. CASE item[q].state # "claimed"
    <2>1. UNCHANGED ledgerVars \/ (loc[p].item \in Items /\ loc[p].run \in Runs)
      BY DriverStepHasWork DEF DriversInv, Fit
    <2>2. /\ ~ UNCHANGED ledgerVars
          /\ loc[p].item = q
          /\ item'[q].by = WorkerOf[p]
          /\ run'[loc[p].run].item = q
          /\ loc[p].run \in Runs
      BY <1>4, <2>1, NewClaim
    <2>3. CASE p \in TriggerProcs
      BY <2>2, <2>3 DEF LeftByTrigger
    <2>4. CASE p \notin TriggerProcs
      <3>1. /\ pc'[p] \notin Before
            /\ loc'[p].item = loc[p].item
            /\ loc'[p].run = loc[p].run
        BY <1>2, <2>2, <2>4 DEF Progress
      <3>2. Holds(p, q)'
        BY <2>2, <2>4, <3>1, DriversAssumption DEF Holds, WorksOn, Owns, Before
      <3>3. QED
        BY <3>2
    <2>5. QED
      BY <2>3, <2>4
  <1>5. QED
    BY <1>3, <1>4

LEMMA NextKeepsClaims ==
  ASSUME DriversInv, ClaimsHeld, [Next]_driverVars
  PROVE  ClaimsHeld'
  <1> SUFFICES ASSUME crashes' = 0, NEW q \in Items, item'[q].state = "claimed"
               PROVE  LeftByTrigger(q)' \/ \E o \in Procs : Holds(o, q)'
    BY DEF ClaimsHeld
  <1>1. /\ LedgerInv' /\ LedgerInv /\ (RecordsKept \/ UNCHANGED ledgerVars)
        /\ [LedgerNext]_ledgerVars
        /\ item \in [Items -> ItemRow]
    BY NextIsLedgerStep, NextKeepsInv, NextKeepsRecords DEF DriversInv, LedgerInv, TypeOK
  <1>2. crashes = 0 /\ \A p \in Procs : ~ Crash(p)
    BY NextCases DEF DriversInv, Crash, RecoverBy, driverVars, vars, envVars
  <1>3. item[q].state = "claimed" => LeftByTrigger(q) \/ \E o \in Procs : Holds(o, q)
    BY <1>2 DEF ClaimsHeld
  <1>4. ASSUME item[q].state = "claimed",
               \A o \in Procs : Holds(o, q) => pc'[o] = pc[o] /\ loc'[o] = loc[o]
        PROVE  LeftByTrigger(q)' \/ \E o \in Procs : Holds(o, q)'
    <2>1. item'[q].by = item[q].by
      BY <1>1, <1>4, ClaimKeepsOwner
    <2>2. LeftByTrigger(q) => LeftByTrigger(q)'
      BY <2>1 DEF LeftByTrigger
    <2>3. ASSUME NEW o \in Procs, Holds(o, q) PROVE Holds(o, q)'
      BY <1>1, <1>4, <2>1, <2>3, OthersKeepHold DEF Holds
    <2>4. QED
      BY <1>3, <1>4, <2>2, <2>3
  <1>5. ASSUME NEW p \in Procs, DriverStep(p), DriverCall(p)
        PROVE  LeftByTrigger(q)' \/ \E o \in Procs : Holds(o, q)'
    BY <1>1, <1>3, <1>5, DriverStepKeepsClaims
  <1>6. ASSUME NEW p \in Procs, Poll(p) \/ Request(p)
        PROVE  LeftByTrigger(q)' \/ \E o \in Procs : Holds(o, q)'
    <2>1. OnlyMoves(p) /\ UNCHANGED ledgerVars /\ pc[p] = "idle"
      BY <1>6, TakeUp
    <2>2. item[q].state = "claimed"
      BY <2>1 DEF ledgerVars
    <2>3. \A o \in Procs : Holds(o, q) => o # p
      BY <2>1 DEF Holds, WorksOn
    <2>4. QED
      BY <1>4, <2>1, <2>2, <2>3 DEF OnlyMoves
  <1>7. ASSUME NEW z \in Items,
               \/ (Submit(z) \/ BackoffElapses(z) \/ ClaimAges(z)) /\ UNCHANGED procVars
               \/ RecoverBy(fleet.operator, z)
        PROVE  LeftByTrigger(q)' \/ \E o \in Procs : Holds(o, q)'
    <2>1. UNCHANGED procVars
      BY <1>7 DEF RecoverBy
    <2>2. item[q].state = "claimed"
      BY <1>1, <1>7 DEF ItemRow, Submit, ReserveKey, EnqueueJob, BackoffElapses, ClaimAges,
         RecoverBy, RecoverDeadLetter, RecoverStaleClaim
    <2>3. QED
      BY <1>4, <2>1, <2>2 DEF procVars
  <1>8. CASE UNCHANGED driverVars
    BY <1>4, <1>8 DEF driverVars, vars, ledgerVars, procVars
  <1>9. QED
    BY <1>2, <1>5, <1>6, <1>7, <1>8, NextCases

(* As long as no process crashes, a queue worker or a worker loop never    *)
(* walks away from a claim, whatever the other programs, the operator and  *)
(* twins with its worker id do to the item meanwhile: it goes on with the  *)
(* item's run until the claim is settled or no longer its own.             *)
THEOREM DriversHoldClaims == Spec => []PollersStrandNoClaim
  <1>1. DriversInv /\ ClaimsHeld /\ [Next]_driverVars => ClaimsHeld'
    BY NextKeepsClaims
  <1>2. ClaimsHeld => PollersStrandNoClaim
    BY DEF ClaimsHeld, PollersStrandNoClaim, Holds
  <1>3. QED
    BY <1>1, <1>2, DriversInvariant, InitDriversInv, PTL DEF Spec

-----------------------------------------------------------------------------
(* What the requester of a job sees.                                       *)

Stored(q) == \E r \in graph : Owns(r, q)

\* The item's key tells its run.
Linked == \A q \in Items :
  /\ Stored(q) <=> link[q] \in graph
  /\ ReportOn(q) = IF link[q] \in Runs THEN report[link[q]] ELSE "none"

LEMMA ItemsAreLinked == LedgerInv => Linked
  <1> SUFFICES ASSUME LedgerInv, NEW q \in Items
               PROVE  /\ Stored(q) <=> link[q] \in graph
                      /\ ReportOn(q) = IF link[q] \in Runs THEN report[link[q]] ELSE "none"
    BY DEF Linked
  <1>1. graph \subseteq Runs
    BY DEF LedgerInv, TypeOK
  <1>2. \A r \in Runs : Owns(r, q) <=> link[q] = r
    BY OwnerIsLinked DEF LedgerInv, LinkInv
  <1>3. CASE link[q] \in Runs
    <2> DEFINE c == CHOOSE r \in Runs : Owns(r, q)
    <2>1. HasRun(q)
      BY <1>2, <1>3 DEF HasRun, Owns
    <2>2. \E r \in Runs : Owns(r, q)
      BY <1>2, <1>3
    <2>3. c \in Runs /\ Owns(c, q)
      BY <2>2
    <2>4. c = link[q]
      BY <1>2, <2>3
    <2>5. ReportOn(q) = report[c]
      BY <2>1 DEF ReportOn
    <2> HIDE DEF c
    <2>6. QED
      BY <1>1, <1>2, <1>3, <2>4, <2>5 DEF Stored
  <1>4. CASE link[q] \notin Runs
    <2>1. ~ HasRun(q)
      BY <1>2, <1>4 DEF HasRun, Owns
    <2>2. QED
      BY <1>1, <1>2, <1>4, <2>1 DEF Stored, ReportOn
  <1>5. QED
    BY <1>3, <1>4

LEMMA ItemsStayLinked == LedgerInv' => Linked'
  BY ItemsAreLinked, PTL

\* The result and the announcement of z stay.
ResultKept(z) == (Stored(z)' <=> Stored(z)) /\ ReportOn(z)' = ReportOn(z)

PhaseKept(z) == PhaseOf(z)' = PhaseOf(z)

\* The steps of JobLifecycle, said of the ledger.
LEMMA JobStays ==
  ASSUME \A z \in Items : ResultKept(z) /\ PhaseKept(z),
         UNCHANGED <<recoveries, fleet>>
  PROVE  UNCHANGED Job!jobVars
  BY DEF ResultKept, PhaseKept, Stored, Job!jobVars

LEMMA JobMoves ==
  ASSUME NEW q \in Items, \A z \in Items : ResultKept(z),
         \A z \in Items \ {q} : PhaseKept(z),
         UNCHANGED <<recoveries, fleet>>,
         \/ PhaseKept(q)
         \/ PhaseOf(q) = "none" /\ PhaseOf(q)' = "accepted"
         \/ /\ PhaseOf(q) = "accepted" /\ PhaseOf(q)' = "done"
            /\ Silent \/ ReportOn(q) # "none"
         \/ PhaseOf(q) \in {"accepted", "done"} /\ PhaseOf(q)' = "failed"
  PROVE  [Job!Next]_(Job!jobVars)
  <1>1. CASE PhaseKept(q)
    <2>1. \A z \in Items : PhaseKept(z)
      BY <1>1
    <2>2. QED
      BY <2>1, JobStays
  <1>2. CASE ~ PhaseKept(q)
    <2> DEFINE seen == [z \in Items |-> PhaseOf(z)]
    <2>1. seen' = [seen EXCEPT ![q] = PhaseOf(q)']
      BY DEF PhaseKept
    <2>2. /\ {z \in Items : \E r \in graph : Owns(r, z)}' = {z \in Items : \E r \in graph : Owns(r, z)}
          /\ [z \in Items |-> ReportOn(z)]' = [z \in Items |-> ReportOn(z)]
      BY DEF ResultKept, Stored
    <2>3. \/ Job!Accept(q)
          \/ Job!Finish(q)
          \/ Job!GiveUp(q)
      BY <1>2, <2>1, <2>2 DEF Job!Accept, Job!Finish, Job!GiveUp, Job!Move, Silent, PhaseKept
    <2>4. QED
      BY <2>3 DEF Job!Next
  <1>3. QED
    BY <1>1, <1>2

LEMMA JobIntervenes ==
  ASSUME NEW q \in Items, \A z \in Items : ResultKept(z),
         \A z \in Items \ {q} : PhaseKept(z),
         recoveries' = recoveries + 1, UNCHANGED fleet,
         \/ PhaseOf(q) \in {"accepted", "failed"} /\ PhaseOf(q)' = "accepted"
         \/ PhaseOf(q) = "accepted" /\ PhaseOf(q)' = "failed"
  PROVE  Job!Next
  <1> DEFINE seen == [z \in Items |-> PhaseOf(z)]
  <1>1. seen' = [seen EXCEPT ![q] = PhaseOf(q)']
    BY DEF PhaseKept
  <1>2. /\ {z \in Items : \E r \in graph : Owns(r, z)}' = {z \in Items : \E r \in graph : Owns(r, z)}
        /\ [z \in Items |-> ReportOn(z)]' = [z \in Items |-> ReportOn(z)]
    BY DEF ResultKept, Stored
  <1>3. Job!Intervene(q)
    BY <1>1, <1>2 DEF Job!Intervene, Job!Move
  <1>4. QED
    BY <1>3 DEF Job!Next

LEMMA JobStores ==
  ASSUME NEW q \in Items, \A z \in Items : PhaseKept(z) /\ ReportOn(z)' = ReportOn(z),
         \A z \in Items \ {q} : Stored(z)' <=> Stored(z),
         UNCHANGED <<recoveries, fleet>>,
         PhaseOf(q) # "none", ~ Stored(q), Stored(q)'
  PROVE  Job!Next
  <1>1. {z \in Items : \E r \in graph : Owns(r, z)}'
          = {z \in Items : \E r \in graph : Owns(r, z)} \cup {q}
    BY DEF Stored
  <1>2. Job!Store(q)
    BY <1>1 DEF Job!Store, PhaseKept, Stored
  <1>3. QED
    BY <1>2 DEF Job!Next

LEMMA JobAnnounces ==
  ASSUME NEW q \in Items, NEW outcome \in {"completed", "failed", "quarantined"},
         \A z \in Items : PhaseKept(z) /\ (Stored(z)' <=> Stored(z)),
         \A z \in Items \ {q} : ReportOn(z)' = ReportOn(z),
         UNCHANGED <<recoveries, fleet>>,
         PhaseOf(q) # "none", ReportOn(q) = "none", ReportOn(q)' = outcome,
         outcome = "completed" => Stored(q)
  PROVE  Job!Next
  <1> DEFINE seen == [z \in Items |-> ReportOn(z)]
  <1>1. seen' = [seen EXCEPT ![q] = outcome]
    OBVIOUS
  <1>2. {z \in Items : \E r \in graph : Owns(r, z)}' = {z \in Items : \E r \in graph : Owns(r, z)}
    BY DEF Stored
  <1>3. Job!Announce(q, outcome)
    BY <1>1, <1>2 DEF Job!Announce, PhaseKept, Stored
  <1>4. QED
    BY <1>3 DEF Job!Next, Job!Announcements

-----------------------------------------------------------------------------
(* What the calls do to the items.                                         *)

\* The row of q gets the state s, and no other row changes.
RowBecomes(q, s) ==
  /\ item'[q].state = s
  /\ \A z \in Items \ {q} : item'[z] = item[z]

LEMMA SamePhase ==
  ASSUME NEW z, item'[z].state = item[z].state
  PROVE  PhaseKept(z)
  BY DEF PhaseKept, PhaseOf

LEMMA RowsChange ==
  ASSUME LedgerInv, NEW q \in Items, NEW r, NEW w
  PROVE  /\ EnqueueJob(q) => RowBecomes(q, "queued")
         /\ ClaimNewRun(q, r, w) => RowBecomes(q, "claimed")
         /\ ClaimExistingRun(q, r, w) => RowBecomes(q, "claimed")
         /\ CompleteItem(q, r, w) => RowBecomes(q, "completed")
         /\ \A when : RetryItem(q, when) => RowBecomes(q, "queued")
         /\ DeadLetterRow(q) => RowBecomes(q, "dead_letter")
         /\ RecoverDeadLetter(q) => RowBecomes(q, "queued")
         /\ \A s : RecoverStaleClaim(q, s) => RowBecomes(q, s)
         /\ BackoffElapses(q) => RowBecomes(q, item[q].state)
         /\ ClaimAges(q) => RowBecomes(q, item[q].state)
  <1>1. item \in [Items -> ItemRow] /\ item[q] \in ItemRow
    BY DEF LedgerInv, TypeOK
  <1>2. ASSUME NEW new, item' = [item EXCEPT ![q] = new]
        PROVE  RowBecomes(q, new.state)
    BY <1>1, <1>2 DEF RowBecomes
  <1>3. EnqueueJob(q) => RowBecomes(q, "queued")
    BY <1>1 DEF EnqueueJob, RowBecomes, ItemRow
  <1>4. TakeClaim(q, w) => RowBecomes(q, "claimed")
    <2> DEFINE new == [item[q] EXCEPT !.state = "claimed", !.by = w, !.age = "fresh"]
    <2>1. new.state = "claimed"
      BY <1>1 DEF ItemRow
    <2>2. TakeClaim(q, w) => item' = [item EXCEPT ![q] = new]
      BY <1>1 DEF TakeClaim
    <2> HIDE DEF new
    <2>3. QED
      BY <1>2, <2>1, <2>2
  <1>5. CompleteItem(q, r, w) => RowBecomes(q, "completed")
    <2> DEFINE new == [item[q] EXCEPT !.state = "completed", !.by = None, !.age = "fresh"]
    <2>1. new.state = "completed"
      BY <1>1 DEF ItemRow
    <2>2. CompleteItem(q, r, w) => item' = [item EXCEPT ![q] = new]
      BY <1>1 DEF CompleteItem
    <2> HIDE DEF new
    <2>3. QED
      BY <1>2, <2>1, <2>2
  <1>6. ASSUME NEW when, RetryItem(q, when)
        PROVE  RowBecomes(q, "queued")
    <2> DEFINE new == [item[q] EXCEPT !.state = "queued", !.by = None, !.attempts = @ + 1,
                                      !.available = when, !.age = "fresh"]
    <2>1. new.state = "queued"
      BY <1>1 DEF ItemRow
    <2>2. item' = [item EXCEPT ![q] = new]
      BY <1>1, <1>6 DEF RetryItem
    <2> HIDE DEF new
    <2>3. QED
      BY <1>2, <2>1, <2>2
  <1>7. DeadLetterRow(q) => RowBecomes(q, "dead_letter")
    <2> DEFINE new == [item[q] EXCEPT !.state = "dead_letter", !.by = None,
                                      !.attempts = @ + 1, !.age = "fresh"]
    <2>1. new.state = "dead_letter"
      BY <1>1 DEF ItemRow
    <2>2. DeadLetterRow(q) => item' = [item EXCEPT ![q] = new]
      BY <1>1 DEF DeadLetterRow
    <2> HIDE DEF new
    <2>3. QED
      BY <1>2, <2>1, <2>2
  <1>8. ASSUME NEW s, (RecoverDeadLetter(q) /\ s = "queued") \/ RecoverStaleClaim(q, s)
        PROVE  RowBecomes(q, s)
    <2> DEFINE new == [item[q] EXCEPT !.state = s, !.by = None, !.available = "now",
                                      !.age = "fresh"]
    <2>1. new.state = s
      BY <1>1 DEF ItemRow
    <2>2. item' = [item EXCEPT ![q] = new]
      BY <1>1, <1>8 DEF RecoverDeadLetter, RecoverStaleClaim
    <2> HIDE DEF new
    <2>3. QED
      BY <1>2, <2>1, <2>2
  <1>9. BackoffElapses(q) \/ ClaimAges(q) => RowBecomes(q, item[q].state)
    BY <1>1 DEF BackoffElapses, ClaimAges, RowBecomes, ItemRow
  <1>10. QED
    BY <1>3, <1>4, <1>5, <1>6, <1>7, <1>8, <1>9 DEF ClaimNewRun, ClaimExistingRun

\* Results and announcements stay unless a run of theirs gets one; a key that is
\* linked meanwhile gets a run without any.
LEMMA ResultsStay ==
  ASSUME LedgerInv, LedgerInv', UNCHANGED <<report, graph>>,
         \A z \in Items :
           \/ link'[z] = link[z]
           \/ /\ link[z] \notin Runs /\ link'[z] \notin graph
              /\ link'[z] \in Runs => report[link'[z]] = "none"
  PROVE  \A z \in Items : ResultKept(z)
  <1>1. Linked /\ Linked'
    BY ItemsAreLinked, ItemsStayLinked
  <1>2. graph \subseteq Runs
    BY DEF LedgerInv, TypeOK
  <1>3. SUFFICES ASSUME NEW z \in Items PROVE ResultKept(z)
    OBVIOUS
  <1>4. /\ Stored(z) <=> link[z] \in graph
        /\ ReportOn(z) = IF link[z] \in Runs THEN report[link[z]] ELSE "none"
    BY <1>1 DEF Linked
  <1>5. /\ Stored(z)' <=> link'[z] \in graph
        /\ ReportOn(z)' = IF link'[z] \in Runs THEN report[link'[z]] ELSE "none"
    BY <1>1 DEF Linked
  <1>6. QED
    BY <1>2, <1>4, <1>5 DEF ResultKept

\* A change of one row that leaves results alone.
LEMMA RowStep ==
  ASSUME NEW q \in Items, NEW s, RowBecomes(q, s), \A z \in Items : ResultKept(z),
         UNCHANGED <<recoveries, fleet>>,
         \/ s = item[q].state
         \/ item[q].state \in {"queued", "claimed"} /\ s \in {"queued", "claimed"}
         \/ item[q].state = "absent" /\ s = "queued"
         \/ item[q].state = "claimed" /\ s = "completed" /\ (Silent \/ ReportOn(q) # "none")
         \/ item[q].state \in {"queued", "claimed", "completed"} /\ s = "dead_letter"
  PROVE  [Job!Next]_(Job!jobVars)
  <1>1. \A z \in Items \ {q} : PhaseKept(z)
    BY SamePhase DEF RowBecomes
  <1>2. \/ PhaseKept(q)
        \/ PhaseOf(q) = "none" /\ PhaseOf(q)' = "accepted"
        \/ /\ PhaseOf(q) = "accepted" /\ PhaseOf(q)' = "done"
           /\ Silent \/ ReportOn(q) # "none"
        \/ PhaseOf(q) \in {"accepted", "done"} /\ PhaseOf(q)' = "failed"
    BY DEF RowBecomes, PhaseKept, PhaseOf
  <1>3. QED
    BY <1>1, <1>2, JobMoves

\* The operator's.
LEMMA RecoveryIsIntervention ==
  ASSUME DriversInv, LedgerInv', NEW q \in Items, RecoverBy(fleet.operator, q),
         UNCHANGED fleet
  PROVE  Job!Next
  <1>1. UNCHANGED <<link, report, graph>> /\ recoveries' = recoveries + 1
    BY DEF RecoverBy, RecoverDeadLetter, RecoverStaleClaim
  <1>2. \A z \in Items : ResultKept(z)
    BY <1>1, ResultsStay DEF DriversInv
  <1>3. \/ item[q].state = "dead_letter" /\ RowBecomes(q, "queued")
        \/ item[q].state = "claimed" /\ RowBecomes(q, "queued")
        \/ item[q].state = "claimed" /\ RowBecomes(q, "dead_letter")
    BY RowsChange DEF RecoverBy, RecoverDeadLetter, RecoverStaleClaim, DriversInv
  <1>4. \A z \in Items \ {q} : PhaseKept(z)
    BY <1>3, SamePhase DEF RowBecomes
  <1>5. \/ PhaseOf(q) \in {"accepted", "failed"} /\ PhaseOf(q)' = "accepted"
        \/ PhaseOf(q) = "accepted" /\ PhaseOf(q)' = "failed"
    BY <1>3 DEF RowBecomes, PhaseOf
  <1>6. QED
    BY <1>1, <1>2, <1>4, <1>5, JobIntervenes

\* What a producer does, and the passing of time.
LEMMA EnvironmentIsJobStep ==
  ASSUME DriversInv, LedgerInv', NEW q \in Items,
         Submit(q) \/ BackoffElapses(q) \/ ClaimAges(q),
         UNCHANGED <<recoveries, fleet>>
  PROVE  [Job!Next]_(Job!jobVars)
  <1>1. CASE ReserveKey(q)
    <2>1. \A z \in Items : ResultKept(z)
      BY <1>1, ResultsStay, NoneIsNoId DEF ReserveKey, DriversInv, LedgerInv, TypeOK
    <2>2. \A z \in Items : PhaseKept(z)
      BY <1>1, SamePhase DEF ReserveKey
    <2>3. QED
      BY <2>1, <2>2, JobStays
  <1>2. CASE EnqueueJob(q) \/ BackoffElapses(q) \/ ClaimAges(q)
    <2>1. \A z \in Items : ResultKept(z)
      BY <1>2, ResultsStay DEF EnqueueJob, BackoffElapses, ClaimAges, DriversInv
    <2>2. \/ item[q].state = "absent" /\ RowBecomes(q, "queued")
          \/ RowBecomes(q, item[q].state)
      BY <1>2, RowsChange DEF EnqueueJob, DriversInv
    <2>3. QED
      BY <2>1, <2>2, RowStep
  <1>3. QED
    BY <1>1, <1>2 DEF Submit

\* A process's.
LEMMA DriverCallIsJobStep ==
  ASSUME DriversInv, LedgerInv', NEW p \in Procs, DriverCall(p),
         UNCHANGED ledgerVars \/ (loc[p].item \in Items /\ loc[p].run \in Runs),
         UNCHANGED <<recoveries, fleet>>
  PROVE  [Job!Next]_(Job!jobVars)
  <1> DEFINE q == loc[p].item
             r == loc[p].run
             w == WorkerOf[p]
  <1>1. CASE UNCHANGED ledgerVars
    <2>1. \A z \in Items : PhaseKept(z)
      BY <1>1, SamePhase DEF ledgerVars
    <2>2. \A z \in Items : ResultKept(z)
      BY <1>1, ResultsStay DEF ledgerVars, DriversInv
    <2>3. QED
      BY <2>1, <2>2, JobStays
  <1> SUFFICES ASSUME q \in Items, r \in Runs
               PROVE  [Job!Next]_(Job!jobVars)
    BY <1>1
  <1>2. CASE ReserveKey(q) \/ EnqueueJob(q)
    <2>1. CASE ReserveKey(q)
      BY <2>1, EnvironmentIsJobStep DEF Submit
    <2>2. CASE EnqueueJob(q)
      <3>1. \A z \in Items : ResultKept(z)
        BY <2>2, ResultsStay DEF EnqueueJob, DriversInv
      <3>2. item[q].state = "absent" /\ RowBecomes(q, "queued")
        BY <2>2, RowsChange DEF EnqueueJob, DriversInv
      <3>3. QED
        BY <3>1, <3>2, RowStep
    <2>3. QED
      BY <1>2, <2>1, <2>2
  <1>3. CASE ClaimNewRun(q, r, w)
    <2>1. /\ UNCHANGED <<report, graph>>
          /\ link[q] = None /\ link'[q] = r
          /\ r \notin graph /\ report[r] = "none"
          /\ \A z \in Items \ {q} : link'[z] = link[z]
      BY <1>3 DEF ClaimNewRun, DriversInv, LedgerInv, TypeOK, ArtifactInv
    <2>2. \A z \in Items : ResultKept(z)
      BY <2>1, ResultsStay, NoneIsNoId DEF DriversInv
    <2>3. item[q].state = "queued" /\ RowBecomes(q, "claimed")
      BY <1>3, RowsChange DEF ClaimNewRun, DriversInv
    <2>4. QED
      BY <2>2, <2>3, RowStep
  <1>4. CASE UNCHANGED <<link, report, graph>>
    <2>1. \A z \in Items : ResultKept(z)
      BY <1>4, ResultsStay DEF DriversInv
    <2>2. CASE SetRunState(p)
      <3>1. \A z \in Items : PhaseKept(z)
        BY <2>2, SamePhase DEF SetRunState, TransitionRun
      <3>2. QED
        BY <2>1, <3>1, JobStays
    <2>3. CASE ClaimExistingRun(q, r, w)
      <3>1. item[q].state = "queued" /\ RowBecomes(q, "claimed")
        BY <2>3, RowsChange DEF ClaimExistingRun, DriversInv
      <3>2. QED
        BY <2>1, <3>1, RowStep
    <2>4. CASE CompleteItem(q, r, w) /\ (Silent \/ report[r] # "none")
      <3>1. item[q].state = "claimed" /\ Owns(r, q) /\ RowBecomes(q, "completed")
        BY <2>4, RowsChange DEF CompleteItem, ClaimValid, DriversInv
      <3>2. ReportOn(q) = report[r]
        BY <3>1, ItemsAreLinked, OwnerIsLinked DEF Linked, DriversInv
      <3>3. QED
        BY <2>1, <2>4, <3>1, <3>2, RowStep
    <2>5. CASE \E when \in Times : HoldsClaim(p) /\ RetryItem(q, when)
      <3>1. item[q].state = "claimed" /\ RowBecomes(q, "queued")
        BY <2>5, RowsChange DEF HoldsClaim, ClaimValid, DriversInv
      <3>2. QED
        BY <2>1, <3>1, RowStep
    <2>6. CASE DeadLetterOwned(q, r, w) \/ DeadLetterUnowned(q)
      <3>1. item[q].state # "absent" /\ RowBecomes(q, "dead_letter")
        BY <2>6, RowsChange DEF DeadLetterOwned, DeadLetterUnowned, DeadLetterRow, DriversInv
      <3>2. item[q].state \in ItemStates
        BY DEF DriversInv, LedgerInv, TypeOK, ItemRow
      <3>3. QED
        BY <2>1, <3>1, <3>2, RowStep DEF ItemStates
    <2>7. CASE EnqueueJob(q) \/ ReserveKey(q) \/ ClaimNewRun(q, r, w)
      BY <1>2, <1>3, <2>7
    <2>8. CASE InsertGraphWrite(r) \/ \E status \in ReportStates \ {"none"} : InsertReport(r, status)
      BY <1>4, <2>8 DEF InsertGraphWrite, InsertReport, ReportStates, DriversInv, LedgerInv, TypeOK
    <2>9. QED
      BY <1>1, <2>2, <2>3, <2>4, <2>5, <2>6, <2>7, <2>8 DEF DriverCall
  <1>5. CASE InsertGraphWrite(r)
    <2>1. PICK z \in Items : run[r].item = z /\ link[z] = r /\ item[z].state # "absent"
      BY <1>5 DEF InsertGraphWrite, RunExists, DriversInv, LedgerInv, TypeOK, RunRow, LinkInv,
         ArtifactInv
    <2>2. Linked /\ Linked'
      BY ItemsAreLinked, ItemsStayLinked DEF DriversInv
    <2>3. ~ Stored(z) /\ Stored(z)'
      BY <1>5, <2>1, <2>2 DEF InsertGraphWrite, Linked
    <2>4. \A y \in Items \ {z} : Stored(y)' <=> Stored(y)
      <3>1. \A y \in Items \ {z} : link[y] # r
        BY <2>1 DEF DriversInv, LedgerInv, LinkInv, Owns
      <3>2. QED
        BY <1>5, <2>2, <3>1 DEF InsertGraphWrite, Linked
    <2>5. \A y \in Items : PhaseKept(y) /\ ReportOn(y)' = ReportOn(y)
      BY <1>5, <2>2, SamePhase DEF InsertGraphWrite, Linked
    <2>6. PhaseOf(z) # "none"
      BY <2>1 DEF PhaseOf, DriversInv, LedgerInv, TypeOK, ItemRow, ItemStates
    <2>7. QED
      BY <2>1, <2>3, <2>4, <2>5, <2>6, JobStores
  <1>6. ASSUME NEW status \in ReportStates \ {"none"},
               InsertReport(r, status), status = "completed" => r \in graph
        PROVE  Job!Next
    <2>1. PICK z \in Items : run[r].item = z /\ link[z] = r /\ item[z].state # "absent"
      BY <1>6 DEF InsertReport, RunExists, DriversInv, LedgerInv, TypeOK, RunRow, LinkInv,
         ArtifactInv
    <2>2. Linked /\ Linked'
      BY ItemsAreLinked, ItemsStayLinked DEF DriversInv
    <2>3. report' = [report EXCEPT ![r] = status] /\ report[r] = "none" /\ UNCHANGED <<link, graph, item>>
      BY <1>6 DEF InsertReport
    <2>4. report \in [Runs -> ReportStates]
      BY DEF DriversInv, LedgerInv, TypeOK
    <2>5. ReportOn(z) = "none" /\ ReportOn(z)' = status
      BY <2>1, <2>2, <2>3, <2>4 DEF Linked
    <2>6. \A y \in Items : PhaseKept(y) /\ (Stored(y)' <=> Stored(y))
      BY <2>2, <2>3, SamePhase DEF Linked
    <2>7. \A y \in Items \ {z} : ReportOn(y)' = ReportOn(y)
      <3>1. \A y \in Items \ {z} : link[y] # r
        BY <2>1 DEF DriversInv, LedgerInv, LinkInv, Owns
      <3>2. QED
        BY <2>2, <2>3, <2>4, <3>1 DEF Linked
    <2>8. PhaseOf(z) # "none"
      BY <2>1 DEF PhaseOf, DriversInv, LedgerInv, TypeOK, ItemRow, ItemStates
    <2>9. status = "completed" => Stored(z)
      BY <1>6, <2>1, <2>2 DEF Linked
    <2>10. QED
      BY <2>1, <2>5, <2>6, <2>7, <2>8, <2>9, JobAnnounces DEF ReportStates
  <1>7. CASE ~ UNCHANGED <<link, report, graph>>
    BY <1>2, <1>3, <1>5, <1>6, <1>7 DEF DriverCall, ledgerVars, SetRunState, TransitionRun,
       ClaimExistingRun, CompleteItem, RetryItem, DeadLetterOwned, DeadLetterUnowned
  <1>8. QED
    BY <1>4, <1>7

LEMMA NextIsJobStep == DriversInv /\ [Next]_driverVars => [Job!Next]_(Job!jobVars)
  <1> SUFFICES ASSUME DriversInv, [Next]_driverVars PROVE [Job!Next]_(Job!jobVars)
    OBVIOUS
  <1>1. LedgerInv'
    BY NextKeepsDriversInv DEF DriversInv
  <1>2. ASSUME UNCHANGED <<ledgerVars, recoveries, fleet>>
        PROVE  [Job!Next]_(Job!jobVars)
    <2>1. \A z \in Items : PhaseKept(z)
      BY <1>2, SamePhase DEF ledgerVars
    <2>2. \A z \in Items : ResultKept(z)
      BY <1>1, <1>2, ResultsStay DEF ledgerVars, DriversInv
    <2>3. QED
      BY <1>2, <2>1, <2>2, JobStays
  <1>3. ASSUME NEW p \in Procs, DriverStep(p), DriverCall(p), UNCHANGED <<recoveries, fleet>>
        PROVE  [Job!Next]_(Job!jobVars)
    <2>1. UNCHANGED ledgerVars \/ (loc[p].item \in Items /\ loc[p].run \in Runs)
      BY <1>3, DriverStepHasWork DEF DriversInv, Fit
    <2>2. QED
      BY <1>1, <1>3, <2>1, DriverCallIsJobStep
  <1>4. ASSUME NEW p \in Procs, Poll(p) \/ Request(p)
        PROVE  UNCHANGED ledgerVars
    BY <1>4, TakeUp
  <1>5. ASSUME NEW p \in Procs, Crash(p)
        PROVE  UNCHANGED <<ledgerVars, recoveries>>
    BY <1>5 DEF Crash
  <1>6. ASSUME NEW q \in Items, UNCHANGED fleet,
               \/ (Submit(q) \/ BackoffElapses(q) \/ ClaimAges(q)) /\ UNCHANGED envVars
               \/ RecoverBy(fleet.operator, q)
        PROVE  [Job!Next]_(Job!jobVars)
    BY <1>1, <1>6, EnvironmentIsJobStep, RecoveryIsIntervention DEF envVars
  <1>7. CASE UNCHANGED driverVars
    BY <1>2, <1>7 DEF driverVars, vars
  <1>8. CASE Next
    BY <1>2, <1>3, <1>4, <1>5, <1>6, <1>8, NextCases DEF envVars
  <1>9. QED
    BY <1>7, <1>8

(* What the requester of a job sees is what JobLifecycle promises, for     *)
(* every fleet and whatever the operator does: nobody announces a result   *)
(* before it is stored or twice, completes a job without a report, or      *)
(* takes a settled job up again.                                           *)
THEOREM DriversKeepPromises == Spec => JobSpec
  <1>1. DriversInit => Job!Init
    <2> SUFFICES ASSUME DriversInit PROVE Job!Init
      OBVIOUS
    <2>1. LedgerInit /\ recoveries = 0
      BY DEF DriversInit, Init
    <2>2. \A q \in Items : PhaseOf(q) = "none"
      BY <2>1 DEF LedgerInit, PhaseOf
    <2>3. \A q \in Items : ~ Stored(q) /\ ReportOn(q) = "none"
      <3>1. \A q \in Items, r \in Runs : ~ Owns(r, q)
        BY <2>1, NoneIsNoId DEF LedgerInit, Owns
      <3>2. QED
        BY <2>1, <3>1 DEF LedgerInit, Stored, ReportOn, HasRun, Owns
    <2>4. QED
      BY <2>1, <2>2, <2>3 DEF Job!Init, Stored
  <1>2. QED
    BY <1>1, NextIsJobStep, DriversInvariant, PTL DEF Spec, JobSpec, Job!Spec
=============================================================================
