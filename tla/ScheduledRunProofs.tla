-------------------------- MODULE ScheduledRunProofs --------------------------
(***************************************************************************)
(* Scheduled execution, for any number of services, hosts, expiries and    *)
(* crashes: every step is at most one operation of the ledger, the lease   *)
(* of the session keeps the services apart until it expires and comes back *)
(* unless its holder crashes, and a run is final only when its result is   *)
(* stored.                                                                 *)
(***************************************************************************)
EXTENDS ScheduledRun, RunLedgerProofs

ProcFit(p) ==
  /\ pc[p] # "idle" => loc[p].item \in Items /\ loc[p].run \in Runs
  /\ TransitionFits(p)

ServiceInv ==
  /\ ScheduledTypeOK
  /\ LedgerInv
  /\ FinalRunsPersisted
  /\ \A p \in Procs : ProcFit(p)

\* Until a lease expires, whoever runs the runtime, stores or settles holds it.
HeldUntilExpiry ==
  expiries = 0 => \A p \in Procs : pc[p] \in Leased => lease.by = p

\* Only services take the lease, and only time takes it from them.
LeaseInv ==
  /\ lease.by \in Procs \cup {Nobody}
  /\ lease.expired => expiries # 0
  /\ LeaseIsReturned
  /\ HeldUntilExpiry

-----------------------------------------------------------------------------
(* What a step of a service does to the ledger.                            *)

LEMMA PreclaimCalls ==
  ASSUME NEW p \in Procs, Preclaim(p)
  PROVE  Call(p)
  <1>1. CASE RejectRequeue(p)
    BY <1>1 DEF RejectRequeue, Call, Times
  <1>2. CASE RejectDead(p)
    BY <1>2 DEF RejectDead, Call
  <1>3. CASE \/ Inspect(p) \/ InspectRaises(p) \/ Validate(p) \/ Outdated(p)
             \/ Lease(p) \/ RejectRead(p)
    BY <1>3 DEF Inspect, InspectRaises, Validate, Outdated, Lease, RejectRead, Call
  <1>4. QED
    BY <1>1, <1>2, <1>3 DEF Preclaim

LEMMA ExecuteCalls ==
  ASSUME NEW p \in Procs, Execute(p), TransitionFits(p)
  PROVE  Call(p)
  <1>1. CASE Start(p)
    BY <1>1, StartStepCalls DEF Start
  <1>2. CASE \/ RunRuntime(p) \/ HandleRaised(p) \/ Canonicalize(p) \/ ReadOwner(p)
             \/ RetryRead(p) \/ MutationMismatch(p)
    BY <1>2 DEF RunRuntime, HandleRaised, Canonicalize, ReadOwner, RetryRead,
                MutationMismatch, Call
  <1>3. CASE WriteGraph(p)
    BY <1>3 DEF WriteGraph, Call
  <1>4. CASE WriteReport(p)
    <2>1. loc[p].run \in graph
      BY <1>4 DEF WriteReport, TransitionFits
    <2>2. QED
      BY <1>4, <2>1 DEF WriteReport, Call, ReportStates
  <1>5. CASE Advance(p)
    <2>1. ReadRunState(p) \/ LoseTransition(p) \/ SetRunState(p)
      BY <1>5 DEF Advance
    <2>2. QED
      BY <2>1, StartStepCalls DEF StartStep, Call
  <1>6. CASE WriteFailureReport(p)
    <2>1. FailureReports[pc[p]] \in {"quarantined", "failed"}
      BY <1>6 DEF WriteFailureReport, FailureReports
    <2>2. QED
      BY <1>6, <2>1 DEF WriteFailureReport, Call, ReportStates
  <1>7. CASE Settle(p)
    BY <1>7 DEF Settle, Call, Times
  <1>8. QED
    BY <1>1, <1>2, <1>3, <1>4, <1>5, <1>6, <1>7 DEF Execute

LEMMA NextIsLedgerStep ==
  ASSUME ServiceInv, [Next]_allVars
  PROVE  [LedgerNext]_ledgerVars
  <1>1. \A p \in Procs : loc[p] \in Locals
    BY DEF ServiceInv, ScheduledTypeOK
  <1>2. ASSUME NEW p \in Procs, NEW q \in Items, Take(p, q)
        PROVE  UNCHANGED ledgerVars
    BY <1>2 DEF Take
  <1>3. ASSUME NEW p \in Procs, ServiceStep(p)
        PROVE  [LedgerNext]_ledgerVars
    <2>1. TransitionFits(p)
      BY DEF ServiceInv, ProcFit
    <2>2. CASE Release(p)
      BY <2>2 DEF Release
    <2>3. CASE Preclaim(p) \/ Execute(p)
      <3>1. Call(p)
        BY <2>1, <2>3, PreclaimCalls, ExecuteCalls
      <3>2. pc[p] # "idle"
        <4>1. CASE Preclaim(p)
          BY <4>1 DEF Preclaim, Inspect, InspectRaises, Validate, Outdated, Lease,
             RejectRead, RejectRequeue, RejectDead
        <4>2. CASE Execute(p)
          BY <4>2 DEF Execute, Start, StartStep, Claim, Status, ReadRunState, AdvanceStart,
             SetRunState, LoseTransition, RunRuntime, HandleRaised, Canonicalize,
             WriteGraph, WriteReport, Advance, WriteFailureReport, FailureReports,
             ReadOwner, RetryRead, Settle, MutationMismatch
        <4>3. QED
          BY <2>3, <4>1, <4>2
      <3>3. loc[p].item \in Items /\ loc[p].run \in Runs
        BY <3>2 DEF ServiceInv, ProcFit
      <3>4. QED
        BY <1>1, <2>1, <3>1, <3>3, CallIsLedgerStep
    <2>4. QED
      BY <1>3, <2>2, <2>3 DEF ServiceStep
  <1>4. ASSUME NEW q \in Items, Submit(q) \/ Clock(q) \/ Recover(q)
        PROVE  LedgerNext
    <2>1. ItemStep(q)
      BY <1>4 DEF Submit, Clock, Recover, RecoverBy, ItemStep
    <2>2. QED
      BY <2>1 DEF LedgerNext
  <1>5. ASSUME NEW p \in Procs, Crash(p)
        PROVE  UNCHANGED ledgerVars
    BY <1>5 DEF Crash
  <1>6. CASE SessionEnvironment \/ UNCHANGED allVars
    BY <1>6 DEF SessionEnvironment, allVars, vars
  <1>7. QED
    BY <1>2, <1>3, <1>4, <1>5, <1>6 DEF Next, EnvironmentStep

-----------------------------------------------------------------------------
(* What it does to the service.                                            *)

\* A step of p that leaves the service at the given place with the given locals.
LEMMA Moves ==
  ASSUME ServiceInv, NEW p \in Procs, NEW label \in ScheduledLabels,
         NEW new \in Locals,
         pc' = [pc EXCEPT ![p] = label], loc' = [loc EXCEPT ![p] = new]
  PROVE  /\ pc' \in [Procs -> ScheduledLabels]
         /\ loc' \in [Procs -> Locals]
         /\ \A o \in Procs \ {p} : pc'[o] = pc[o] /\ loc'[o] = loc[o]
         /\ pc'[p] = label
         /\ loc'[p] = new
  BY DEF ServiceInv, ScheduledTypeOK

\* pc' and loc' change at p only, within their types.
OnlyMoves(p) ==
  /\ pc' \in [Procs -> ScheduledLabels]
  /\ loc' \in [Procs -> Locals]
  /\ \A o \in Procs \ {p} : pc'[o] = pc[o] /\ loc'[o] = loc[o]

\* Back to the caller.
LEMMA ReturnFits ==
  ASSUME ServiceInv, NEW p \in Procs, Return(p)
  PROVE  OnlyMoves(p) /\ pc'[p] = "idle" /\ ProcFit(p)'
  <1>1. IdleLocals \in Locals
    BY DEF IdleLocals, Locals, RunStates, Exceptions, Stages
  <1>2. OnlyMoves(p) /\ pc'[p] = "idle"
    BY <1>1, Moves DEF Return, Goto, ScheduledLabels, OnlyMoves
  <1>3. QED
    BY <1>2 DEF ProcFit, TransitionFits

\* On to a place that says nothing of the locals.
LEMMA GotoFits ==
  ASSUME ServiceInv, NEW p \in Procs, pc[p] # "idle",
         NEW label \in ScheduledLabels \ {"idle", "read", "cas", "report_success"},
         Goto(p, label), UNCHANGED loc
  PROVE  OnlyMoves(p) /\ pc'[p] = label /\ ProcFit(p)'
  <1>1. OnlyMoves(p) /\ pc'[p] = label
    BY Moves DEF Goto, OnlyMoves, ServiceInv, ScheduledTypeOK
  <1>2. loc'[p].item \in Items /\ loc'[p].run \in Runs
    BY DEF ServiceInv, ProcFit
  <1>3. QED
    BY <1>1, <1>2 DEF ProcFit, TransitionFits

\* Into a transition.
LEMMA TransitionStarts ==
  ASSUME ServiceInv, NEW p \in Procs, pc[p] # "idle",
         RecordsKept \/ UNCHANGED ledgerVars,
         NEW goal \in RunStates, NEW stage \in Stages,
         Goto(p, "read"),
         loc' = [loc EXCEPT ![p].goal = goal, ![p].stage = stage],
         goal \in Final => loc[p].run \in graph' /\ report'[loc[p].run] = "completed"
  PROVE  OnlyMoves(p) /\ pc'[p] = "read" /\ ProcFit(p)'
  <1> DEFINE new == [loc[p] EXCEPT !.goal = goal, !.stage = stage]
  <1>1. loc[p] \in Locals /\ loc \in [Procs -> Locals]
    BY DEF ServiceInv, ScheduledTypeOK
  <1>2. new \in Locals
    BY <1>1 DEF Locals
  <1>3. new.item = loc[p].item /\ new.run = loc[p].run /\ new.goal = goal
    BY <1>1 DEF Locals
  <1>4. pc' = [pc EXCEPT ![p] = "read"] /\ loc' = [loc EXCEPT ![p] = new]
    BY <1>1 DEF Goto
  <1>5. OnlyMoves(p) /\ pc'[p] = "read" /\ loc'[p] = new
    BY <1>2, <1>4, Moves DEF OnlyMoves, ScheduledLabels, Leased, StartLabels
  <1>6. loc[p].item \in Items /\ loc[p].run \in Runs
    BY DEF ServiceInv, ProcFit
  <1> HIDE DEF new
  <1>7. QED
    BY <1>3, <1>5, <1>6 DEF ProcFit, TransitionFits, Persisted

\* The steps before the claim.
LEMMA PreclaimFits ==
  ASSUME ServiceInv, NEW p \in Procs, Preclaim(p)
  PROVE  /\ OnlyMoves(p)
         /\ ProcFit(p)'
         /\ pc[p] \notin Leased
         /\ pc'[p] \in Leased => Lease(p) /\ TakeLease(p)
  <1>1. pc[p] \in {"inspect", "validate", "outdated", "lease", "reject_retry",
                  "reject_requeue", "reject_dead"}
    BY DEF Preclaim, Inspect, InspectRaises, Validate, Outdated, Lease,
           RejectRead, RejectRequeue, RejectDead
  <1>2. pc[p] \notin Leased
    BY <1>1 DEF Leased, StartLabels
  <1>3. CASE Return(p)
    BY <1>2, <1>3, ReturnFits DEF Leased, StartLabels
  <1>4. CASE Lease(p) /\ TakeLease(p) /\ Goto(p, "claim") /\ UNCHANGED loc
    BY <1>1, <1>2, <1>4, GotoFits DEF ScheduledLabels, Leased, StartLabels
  <1>5. CASE \E label \in {"validate", "reject_dead", "reject_retry", "outdated", "lease",
                           "reject_requeue"} :
               Goto(p, label) /\ UNCHANGED loc
    BY <1>1, <1>2, <1>5, GotoFits DEF ScheduledLabels, Leased, StartLabels
  <1>6. QED
    BY <1>3, <1>4, <1>5
       DEF Preclaim, Inspect, InspectRaises, Validate, Outdated, Lease,
           RejectRead, RejectRequeue, RejectDead

\* A step of a transition or of start_queued_run that stays in it.
LEMMA TransitionFitsOn ==
  ASSUME ServiceInv, NEW p \in Procs, StartStep(p),
         RecordsKept \/ UNCHANGED ledgerVars
  PROVE  OnlyMoves(p) /\ pc[p] \in Leased /\ pc'[p] \in Leased /\ ProcFit(p)'
  <1>1. pc[p] # "idle"
    BY DEF StartStep, Claim, Status, ReadRunState, AdvanceStart, SetRunState, LoseTransition
  <1>2. loc[p].item \in Items /\ loc[p].run \in Runs
    BY <1>1 DEF ServiceInv, ProcFit
  <1>3. /\ pc \in [Procs -> ScheduledLabels]
        /\ loc \in [Procs -> Locals]
        /\ StartLabels \subseteq ScheduledLabels
        /\ run[loc[p].run].status \in RunStates
    BY <1>2 DEF ServiceInv, ScheduledTypeOK, TypeOK, RunRow, ScheduledLabels, Leased
  <1>4. /\ OnlyMoves(p)
        /\ loc'[p].item = loc[p].item
        /\ loc'[p].run = loc[p].run
        /\ pc[p] \in {"claim", "status", "read", "cas"}
        /\ pc'[p] \in StartLabels \ {"claim"}
        /\ pc'[p] = "cas" => loc'[p].goal \in STATE_TRANSITIONS[loc'[p].seen]
        /\ pc'[p] \in {"read", "cas"} /\ loc'[p].goal \in Final =>
             pc[p] = "read" /\ loc'[p].goal = loc[p].goal
    BY <1>3, StartStepLocals DEF OnlyMoves
  <1>5. pc[p] \in Leased /\ pc'[p] \in Leased /\ pc'[p] # "report_success"
    BY <1>4 DEF Leased, StartLabels
  <1>6. pc[p] = "read" /\ loc[p].goal \in Final =>
          loc[p].run \in graph' /\ report'[loc[p].run] = "completed"
    BY <1>2, PersistedStays DEF ServiceInv, ProcFit, TransitionFits, Persisted
  <1>7. TransitionFits(p)'
    BY <1>4, <1>5, <1>6 DEF TransitionFits, Persisted
  <1>8. QED
    BY <1>2, <1>4, <1>5, <1>7 DEF ProcFit

\* The steps under the lease stay under it.
LEMMA ExecuteFits ==
  ASSUME ServiceInv, NEW p \in Procs, Execute(p),
         RecordsKept \/ UNCHANGED ledgerVars
  PROVE  OnlyMoves(p) /\ pc[p] \in Leased /\ pc'[p] \in Leased /\ ProcFit(p)'
  <1> DEFINE Goal == OnlyMoves(p) /\ pc[p] \in Leased /\ pc'[p] \in Leased /\ ProcFit(p)'
             Stored == loc[p].run \in graph' /\ report'[loc[p].run] = "completed"
  <1>1. ASSUME pc[p] \in Leased,
               NEW label \in {"retry", "requeue", "release", "report", "owner", "dead",
                             "dead_unowned", "canonicalize", "graph", "complete",
                             "quarantine", "quarantine_dead"},
               Goto(p, label), UNCHANGED loc
        PROVE  Goal
    BY <1>1, GotoFits DEF ScheduledLabels, Leased, StartLabels
  <1>2. ASSUME pc[p] \in Leased,
               NEW goal \in RunStates, NEW stage \in Stages,
               Goto(p, "read"),
               loc' = [loc EXCEPT ![p].goal = goal, ![p].stage = stage],
               goal \in Final => Stored
        PROVE  Goal
    BY <1>2, TransitionStarts DEF Leased, StartLabels
  <1>3. ASSUME pc[p] \in Leased, NEW then \in {"report", "dead"}, FailRun(p, then)
        PROVE  Goal
    BY <1>2, <1>3 DEF FailRun, RunStates, Stages, Final
  <1>4. ASSUME pc[p] \in Leased,
               NEW goal \in {"normalizing", "adjudicating", "failed", "persisting"},
               NextTransition(p, goal)
        PROVE  Goal
    BY <1>2, <1>4 DEF NextTransition, RunStates, Stages, Final
  <1>5. ASSUME pc[p] \in Leased, NEW goal \in Final,
               NextTransition(p, goal), Stored
        PROVE  Goal
    BY <1>2, <1>5 DEF NextTransition, RunStates, Stages, Final
  <1> SUFFICES Goal
    OBVIOUS
  <1> HIDE DEF Goal
  <1>6. CASE Start(p)
    BY <1>6, TransitionFitsOn DEF Start, Goal
  <1>7. CASE RunRuntime(p)
    <2>1. pc[p] \in Leased
      BY <1>7 DEF RunRuntime, Leased, StartLabels
    <2>2. QED
      BY <1>1, <1>3, <1>4, <1>7, <2>1 DEF RunRuntime
  <1>8. CASE HandleRaised(p)
    <2>1. pc[p] \in Leased
      BY <1>8 DEF HandleRaised, Leased, StartLabels
    <2>2. QED
      BY <1>1, <1>3, <1>8, <2>1 DEF HandleRaised
  <1>9. CASE Canonicalize(p)
    <2>1. pc[p] \in Leased
      BY <1>9 DEF Canonicalize, Leased
    <2>2. QED
      BY <1>4, <1>9, <2>1 DEF Canonicalize
  <1>10. CASE WriteGraph(p)
    <2>1. pc[p] \in Leased
      BY <1>10 DEF WriteGraph, Leased, StartLabels
    <2>2. CASE InsertGraphWrite(loc[p].run) /\ Goto(p, "report_success") /\ UNCHANGED loc
      <3>1. pc[p] # "idle"
        BY <2>1 DEF Leased, StartLabels
      <3>2. loc[p].item \in Items /\ loc[p].run \in Runs /\ loc[p] \in Locals
        BY <3>1 DEF ServiceInv, ProcFit, ScheduledTypeOK
      <3>3. loc[p].run \in graph'
        BY <2>2 DEF InsertGraphWrite
      <3>4. OnlyMoves(p) /\ pc'[p] = "report_success"
        BY <2>2, <3>2, Moves DEF Goto, OnlyMoves, ScheduledLabels, Leased, ServiceInv, ScheduledTypeOK
      <3>5. pc'[p] \in Leased
        BY <3>4 DEF Leased
      <3>6. QED
        BY <2>1, <2>2, <3>2, <3>3, <3>4, <3>5 DEF Goal, ProcFit, TransitionFits
    <2>3. QED
      BY <1>1, <1>10, <2>1, <2>2 DEF WriteGraph
  <1>11. CASE WriteReport(p)
    <2>1. pc[p] \in Leased
      BY <1>11 DEF WriteReport, Leased, StartLabels
    <2>2. CASE InsertReport(loc[p].run, "completed") /\ NextTransition(p, "summarizing")
      <3>1. pc[p] # "idle"
        BY <2>1 DEF Leased, StartLabels
      <3>2. loc[p].run \in graph /\ loc[p].run \in Runs
        BY <1>11, <3>1 DEF WriteReport, ServiceInv, ProcFit, TransitionFits
      <3>3. report \in [Runs -> ReportStates]
        BY DEF ServiceInv, LedgerInv, TypeOK
      <3>4. loc[p].run \in graph' /\ report'[loc[p].run] = "completed"
        BY <2>2, <3>2, <3>3 DEF InsertReport
      <3>5. QED
        BY <1>5, <2>1, <2>2, <3>4 DEF Final
    <2>3. QED
      BY <1>1, <1>11, <2>1, <2>2 DEF WriteReport
  <1>12. CASE Advance(p)
    <2> DEFINE Continues ==
          \/ ContinueProposal(p)
          \/ loc[p].stage # "proposal" /\ Goto(p, loc[p].stage) /\ UNCHANGED loc
    <2>1. CASE ReadRunState(p) \/ LoseTransition(p)
      BY <2>1, TransitionFitsOn DEF StartStep, Goal
    <2>2. CASE SetRunState(p) /\ Continues
      <3>1. pc[p] = "cas" /\ pc[p] \in Leased
        BY <2>2 DEF SetRunState, Leased, StartLabels
      <3>2. loc[p].run \in Runs
        BY <3>1 DEF ServiceInv, ProcFit
      <3>3. CASE loc[p].goal = "summarizing" /\ NextTransition(p, "completed")
        <4>1. Stored
          BY <3>1, <3>2, <3>3, PersistedStays
             DEF ServiceInv, ProcFit, TransitionFits, Final, Persisted
        <4>2. QED
          BY <1>5, <3>1, <3>3, <4>1 DEF Final
      <3>4. CASE NextTransition(p, "persisting")
        BY <1>4, <3>1, <3>4
      <3>5. CASE /\ \E label \in {"canonicalize", "graph", "complete", "quarantine"} :
                      Goto(p, label)
                 /\ UNCHANGED loc
        BY <1>1, <3>1, <3>5
      <3>6. CASE ContinueProposal(p)
        BY <3>3, <3>4, <3>5, <3>6 DEF ContinueProposal
      <3>7. CASE loc[p].stage \notin {"start", "proposal"} /\ Goto(p, loc[p].stage) /\ UNCHANGED loc
        <4>1. loc[p].stage \in {"retry", "dead", "report"}
          BY <3>7 DEF ServiceInv, ScheduledTypeOK, Locals, Stages
        <4>2. QED
          BY <1>1, <3>1, <3>7, <4>1
      <3>8. QED
        BY <1>12, <2>2, <3>6, <3>7 DEF Advance
    <2>3. QED
      BY <1>12, <2>1, <2>2 DEF Advance
  <1>13. CASE WriteFailureReport(p)
    <2>1. AfterReport[pc[p]] \in {"quarantine_dead", "owner"} /\ pc[p] \in Leased
      BY <1>13 DEF WriteFailureReport, FailureReports, AfterReport, Leased
    <2>2. QED
      BY <1>1, <1>13, <2>1 DEF WriteFailureReport
  <1>14. CASE ReadOwner(p) \/ Settle(p) \/ MutationMismatch(p)
    <2>1. pc[p] \in Leased
      BY <1>14 DEF ReadOwner, Settle, MutationMismatch, Leased
    <2>2. QED
      BY <1>1, <1>14, <2>1 DEF ReadOwner, Settle, MutationMismatch
  <1>15. CASE RetryRead(p)
    <2>1. pc[p] \in Leased
      BY <1>15 DEF RetryRead, Leased
    <2>2. QED
      BY <1>1, <1>3, <1>15, <2>1 DEF RetryRead
  <1>16. QED
    BY <1>6, <1>7, <1>8, <1>9, <1>10, <1>11, <1>12, <1>13, <1>14, <1>15 DEF Execute, Goal

-----------------------------------------------------------------------------
(* ServiceInv is inductive.                                                *)

LEMMA InitServiceInv == ScheduledInit => ServiceInv /\ LeaseInv
  <1> SUFFICES ASSUME ScheduledInit PROVE ServiceInv /\ LeaseInv
    OBVIOUS
  <1>1. LedgerInv
    BY InitLedgerInv DEF ScheduledInit, Init
  <1>2. IdleLocals \in Locals
    BY DEF IdleLocals, Locals, RunStates, Exceptions, Stages
  <1>3. ScheduledTypeOK
    BY <1>1, <1>2, EnvironmentAssumption, SessionAssumption
       DEF ScheduledInit, Init, ProcInit, SessionInit, ScheduledTypeOK, LedgerInv,
           SessionTypeOK, SessionStates, NoLease, ScheduledLabels
  <1>4. FinalRunsPersisted
    BY DEF ScheduledInit, Init, LedgerInit, FinalRunsPersisted, Final
  <1>5. \A p \in Procs : ProcFit(p)
    BY DEF ScheduledInit, Init, ProcInit, ProcFit, TransitionFits
  <1>6. LeaseInv
    BY DEF ScheduledInit, Init, ProcInit, SessionInit, LeaseInv, NoLease,
           LeaseIsReturned, HeldUntilExpiry, Leased, StartLabels
  <1>7. QED
    BY <1>1, <1>3, <1>4, <1>5, <1>6 DEF ServiceInv

\* What a process relies on survives the steps of the others.
LEMMA OthersStayFit ==
  ASSUME ServiceInv, RecordsKept \/ UNCHANGED ledgerVars, NEW p \in Procs,
         pc'[p] = pc[p], loc'[p] = loc[p]
  PROVE  ProcFit(p)'
  <1>1. ProcFit(p)
    BY DEF ServiceInv
  <1>2. pc[p] \in {"read", "cas", "report_success"} => loc[p].run \in Runs
    BY <1>1 DEF ProcFit
  <1>3. TransitionFits(p)'
    BY <1>1, <1>2, OthersKeepTransitionFits DEF ProcFit
  <1>4. QED
    BY <1>1, <1>3 DEF ProcFit

\* The item that a service takes.
LEMMA TakeFits ==
  ASSUME ServiceInv, NEW p \in Procs, NEW q \in Items, Take(p, q)
  PROVE  OnlyMoves(p) /\ ProcFit(p)' /\ pc[p] = "idle" /\ pc'[p] = "inspect"
  <1> DEFINE new == [loc[p] EXCEPT !.item = q, !.run = RequestedRun[q]]
  <1>1. loc[p] \in Locals /\ loc \in [Procs -> Locals] /\ RequestedRun[q] \in Runs
    BY EnvironmentAssumption DEF ServiceInv, ScheduledTypeOK
  <1>2. new \in Locals /\ new.item = q /\ new.run = RequestedRun[q]
    BY <1>1 DEF Locals
  <1>3. pc[p] = "idle" /\ pc' = [pc EXCEPT ![p] = "inspect"] /\ loc' = [loc EXCEPT ![p] = new]
    BY <1>1 DEF Take, Goto
  <1>4. OnlyMoves(p) /\ pc'[p] = "inspect" /\ loc'[p] = new
    BY <1>2, <1>3, Moves DEF OnlyMoves, ScheduledLabels
  <1> HIDE DEF new
  <1>5. QED
    BY <1>1, <1>2, <1>3, <1>4 DEF ProcFit, TransitionFits

\* Every step of a service.
LEMMA ServiceStepFits ==
  ASSUME ServiceInv, NEW p \in Procs, ServiceStep(p),
         RecordsKept \/ UNCHANGED ledgerVars
  PROVE  OnlyMoves(p) /\ ProcFit(p)'
  BY PreclaimFits, ExecuteFits, ReturnFits DEF ServiceStep, Release

\* The session and its lease keep their types.
LEMMA SessionKeepsTypes ==
  ASSUME ServiceInv, [Next]_allVars
  PROVE  SessionTypeOK'
  <1> USE SessionAssumption, ScheduledAssumption
      DEF SessionTypeOK, SessionStates
  <1>1. SessionTypeOK
    BY DEF ServiceInv, ScheduledTypeOK
  <1>2. CASE UNCHANGED sessionVars
    BY <1>1, <1>2 DEF sessionVars
  <1>3. ASSUME NEW h \in Hosts, RecordInspection(h) PROVE SessionTypeOK'
    BY <1>1, <1>3 DEF RecordInspection
  <1>4. CASE RequireReauth \/ RecordFallback
    BY <1>1, <1>4 DEF RequireReauth, RecordFallback, Inactive
  <1>5. ASSUME NEW p \in Procs, TakeLease(p) \/ ReleaseLease(p) PROVE SessionTypeOK'
    <2>1. p \in Holders
      OBVIOUS
    <2>2. CASE TakeLease(p)
      BY <1>1, <2>1, <2>2 DEF TakeLease
    <2>3. CASE ReleaseLease(p)
      BY <1>1, <2>3 DEF ReleaseLease, NoLease
    <2>4. QED
      BY <1>5, <2>2, <2>3
  <1>6. CASE LeaseExpires
    <2>1. [lease EXCEPT !.expired = TRUE] \in [by : Holders \cup {Nobody}, expired : BOOLEAN]
      BY <1>1
    <2>2. expiries + 1 \in 0..MaxExpiries
      BY <1>1, <1>6 DEF LeaseExpires
    <2>3. QED
      BY <1>1, <1>6, <2>1, <2>2 DEF LeaseExpires
  <1>7. ASSUME NEW p \in Procs, ServiceStep(p) PROVE SessionTypeOK'
    <2>1. HostOf[p] \in Hosts
      OBVIOUS
    <2>2. QED
      BY <1>2, <1>3, <1>4, <1>5, <1>7, <2>1
         DEF ServiceStep, Preclaim, Inspect, InspectRaises, Validate, Outdated, Lease,
             RejectRead, RejectRequeue, RejectDead, Execute, Release, sessionVars
  <1>8. QED
    BY <1>2, <1>3, <1>4, <1>6, <1>7
       DEF Next, Take, SessionEnvironment, allVars, sessionVars

LEMMA NextKeepsServiceInv == ServiceInv /\ [Next]_allVars => ServiceInv'
  <1> SUFFICES ASSUME ServiceInv, [Next]_allVars PROVE ServiceInv'
    OBVIOUS
  <1>1. LedgerInv' /\ (RecordsKept \/ UNCHANGED ledgerVars)
    BY NextIsLedgerStep, NextKeepsInv, NextKeepsRecords DEF ServiceInv
  <1>2. SessionTypeOK'
    BY SessionKeepsTypes
  <1>3. recoveries \in 0..MaxRecoveries /\ crashes \in 0..MaxCrashes
    BY DEF ServiceInv, ScheduledTypeOK
  <1>4. ASSUME NEW p \in Procs, OnlyMoves(p), ProcFit(p)', FinalRunsPersisted',
               recoveries' \in 0..MaxRecoveries, crashes' \in 0..MaxCrashes
        PROVE  ServiceInv'
    <2>1. \A o \in Procs \ {p} : ProcFit(o)'
      BY <1>1, <1>4, OthersStayFit DEF OnlyMoves
    <2>2. QED
      BY <1>1, <1>2, <1>4, <2>1 DEF ServiceInv, ScheduledTypeOK, LedgerInv, OnlyMoves
  <1>5. ASSUME UNCHANGED procVars, FinalRunsPersisted',
               recoveries' \in 0..MaxRecoveries, crashes' \in 0..MaxCrashes
        PROVE  ServiceInv'
    <2>1. \A o \in Procs : ProcFit(o)'
      BY <1>1, <1>5, OthersStayFit DEF procVars
    <2>2. QED
      BY <1>1, <1>2, <1>5, <2>1 DEF ServiceInv, ScheduledTypeOK, LedgerInv, procVars
  <1>6. UNCHANGED run => FinalRunsPersisted'
    BY <1>1, OperatorKeepsFinal DEF ServiceInv
  <1>7. ASSUME NEW p \in Procs, NEW q \in Items, Take(p, q), UNCHANGED envVars
        PROVE  ServiceInv'
    BY <1>3, <1>4, <1>6, <1>7, TakeFits DEF Take, ledgerVars, envVars
  <1>8. ASSUME NEW p \in Procs, ServiceStep(p), UNCHANGED envVars
        PROVE  ServiceInv'
    <2>1. TransitionFits(p)
      BY DEF ServiceInv, ProcFit
    <2>2. CASE Release(p)
      <3>1. UNCHANGED run
        BY <2>2 DEF Release, ledgerVars
      <3>2. QED
        BY <1>1, <1>3, <1>4, <1>6, <1>8, <3>1, ServiceStepFits DEF envVars
    <2>3. CASE Preclaim(p) \/ Execute(p)
      <3>1. Call(p)
        BY <2>1, <2>3, PreclaimCalls, ExecuteCalls
      <3>2. FinalRunsPersisted'
        BY <1>1, <2>1, <3>1, CallKeepsFinal DEF ServiceInv
      <3>3. QED
        BY <1>1, <1>3, <1>4, <1>8, <3>2, ServiceStepFits DEF envVars
    <2>4. QED
      BY <1>8, <2>2, <2>3 DEF ServiceStep
  <1>9. ASSUME NEW q \in Items, Submit(q) \/ Clock(q), UNCHANGED <<procVars, envVars>>
        PROVE  ServiceInv'
    <2>1. UNCHANGED run
      BY <1>9 DEF Submit, ReserveKey, EnqueueJob, Clock, BackoffElapses, ClaimAges
    <2>2. QED
      BY <1>3, <1>5, <1>6, <1>9, <2>1 DEF envVars
  <1>10. ASSUME NEW q \in Items, Recover(q)
        PROVE  ServiceInv'
    <2>1. \E status \in {"queued", "dead_letter"} : ReopenRunOf(q, status)
      BY <1>10 DEF Recover, RecoverBy, RecoverDeadLetter, RecoverStaleClaim
    <2>2. FinalRunsPersisted'
      BY <1>1, <2>1, OperatorKeepsFinal DEF ServiceInv
    <2>3. /\ UNCHANGED procVars
          /\ recoveries' \in 0..MaxRecoveries
          /\ crashes' \in 0..MaxCrashes
      BY <1>3, <1>10, EnvironmentAssumption DEF Recover, RecoverBy
    <2>4. QED
      BY <1>5, <2>2, <2>3
  <1>11. ASSUME NEW p \in Procs, Crash(p)
        PROVE  ServiceInv'
    <2>1. UNCHANGED run /\ recoveries' \in 0..MaxRecoveries /\ crashes' \in 0..MaxCrashes
      BY <1>3, <1>11, EnvironmentAssumption DEF Crash, ledgerVars
    <2>2. OnlyMoves(p) /\ ProcFit(p)'
      BY <1>11, ReturnFits DEF Crash
    <2>3. QED
      BY <1>4, <1>6, <2>1, <2>2
  <1>12. CASE UNCHANGED vars
    BY <1>3, <1>5, <1>6, <1>12 DEF vars, ledgerVars
  <1>13. QED
    BY <1>7, <1>8, <1>9, <1>10, <1>11, <1>12
       DEF Next, EnvironmentStep, SessionEnvironment, allVars

-----------------------------------------------------------------------------
(* The lease.                                                              *)

\* As long as none expires, the lease is nobody's whenever it can be taken.
LEMMA NextKeepsLeaseInv ==
  ServiceInv /\ LeaseInv /\ [Next]_allVars => LeaseInv'
  <1> SUFFICES ASSUME ServiceInv, LeaseInv, [Next]_allVars PROVE LeaseInv'
    OBVIOUS
  <1>1. RecordsKept \/ UNCHANGED ledgerVars
    BY NextIsLedgerStep, NextKeepsRecords DEF ServiceInv
  <1>2. /\ Nobody \notin Procs
        /\ pc \in [Procs -> ScheduledLabels]
        /\ lease \in [by : Holders \cup {Nobody}, expired : BOOLEAN]
        /\ expiries \in Nat
        /\ crashes \in Nat
    BY SessionAssumption, ScheduledAssumption, EnvironmentAssumption
       DEF ServiceInv, ScheduledTypeOK, SessionTypeOK
  <1> USE DEF LeaseInv, LeaseIsReturned, HeldUntilExpiry
  <1>3. ASSUME NEW p \in Procs, OnlyMoves(p), pc[p] \in Leased <=> pc'[p] \in Leased,
               UNCHANGED <<lease, expiries, crashes>>
        PROVE  LeaseInv'
    BY <1>2, <1>3 DEF OnlyMoves
  <1>4. CASE UNCHANGED <<pc, lease, expiries, crashes>>
    BY <1>4
  <1>5. ASSUME NEW p \in Procs, ServiceStep(p), UNCHANGED envVars
        PROVE  LeaseInv'
    <2>1. CASE Release(p)
      <3>1. OnlyMoves(p) /\ pc[p] \in Leased /\ pc'[p] \notin Leased
        BY <2>1, ReturnFits DEF Release, Leased, StartLabels
      <3>2. QED
        BY <1>2, <1>5, <2>1, <3>1 DEF Release, ReleaseLease, NoLease, OnlyMoves, envVars
    <2>2. CASE Execute(p)
      BY <1>1, <1>3, <1>5, <2>2, ExecuteFits DEF Execute, sessionVars, envVars
    <2>3. CASE Preclaim(p) /\ TakeLease(p) /\ pc'[p] \in Leased
      <3>1. OnlyMoves(p) /\ pc[p] \notin Leased
        BY <2>3, PreclaimFits
      <3>2. QED
        BY <1>2, <1>5, <2>3, <3>1 DEF TakeLease, Held, OnlyMoves, envVars
    <2>4. CASE Preclaim(p) /\ pc'[p] \notin Leased
      <3>1. OnlyMoves(p) /\ pc[p] \notin Leased
        BY <2>4, PreclaimFits
      <3>2. UNCHANGED <<lease, expiries>>
        BY <1>2, <2>4, <3>1
           DEF Preclaim, Inspect, RecordInspection, RequireReauth, InspectRaises,
               Validate, Outdated, Lease, RejectRead, RejectRequeue, RejectDead,
               sessionVars, Goto, Leased, StartLabels
      <3>3. QED
        BY <1>3, <1>5, <2>4, <3>1, <3>2 DEF envVars
    <2>5. QED
      BY <1>5, <2>1, <2>2, <2>3, <2>4, PreclaimFits DEF ServiceStep
  <1>6. ASSUME NEW p \in Procs, NEW q \in Items, Take(p, q), UNCHANGED envVars
        PROVE  LeaseInv'
    BY <1>3, <1>6, TakeFits DEF Take, sessionVars, envVars, Leased, StartLabels
  <1>7. ASSUME NEW p \in Procs, Crash(p), UNCHANGED sessionVars
        PROVE  LeaseInv'
    <2>1. OnlyMoves(p) /\ pc'[p] = "idle"
      BY <1>7, ReturnFits DEF Crash
    <2>2. crashes' # 0 /\ pc'[p] \notin Leased
      BY <1>2, <1>7, <2>1 DEF Crash, Leased, StartLabels
    <2>3. QED
      BY <1>2, <1>7, <2>1, <2>2 DEF OnlyMoves, sessionVars
  <1>8. CASE SessionEnvironment
    <2>1. CASE LeaseExpires
      BY <1>2, <1>8, <2>1
         DEF SessionEnvironment, LeaseExpires, Held, vars, procVars
    <2>2. CASE (\E h \in Hosts : RecordInspection(h)) \/ RecordFallback
      BY <1>4, <1>8, <2>2
         DEF SessionEnvironment, RecordInspection, RecordFallback, vars, procVars
    <2>3. QED
      BY <1>8, <2>1, <2>2 DEF SessionEnvironment
  <1>9. QED
    BY <1>4, <1>5, <1>6, <1>7, <1>8
       DEF Next, EnvironmentStep, Recover, RecoverBy, procVars, envVars, sessionVars,
           allVars, vars

-----------------------------------------------------------------------------
\* The two inductive invariants of scheduled execution.
LEMMA ScheduledInvariant == Spec => [](ServiceInv /\ LeaseInv)
  <1>1. QED
    BY InitServiceInv, NextKeepsServiceInv, NextKeepsLeaseInv, PTL DEF Spec

(* Scheduled services implement the ledger: whatever they, the operator,   *)
(* the owners of the session and crashes do is a sequence of its           *)
(* operations.                                                             *)
THEOREM ScheduledImplementsLedger == Spec => LedgerSpec
  <1>1. ScheduledInit => LedgerInit
    BY DEF ScheduledInit, Init
  <1>2. ServiceInv /\ [Next]_allVars => [LedgerNext]_ledgerVars
    BY NextIsLedgerStep
  <1>3. QED
    BY <1>1, <1>2, ScheduledInvariant, PTL DEF Spec, LedgerSpec

(* Places, locals, session and lease keep their types: every label that an *)
(* error handler goes on to by way of loc[p].stage is one of the program.  *)
THEOREM ScheduledTypes == Spec => []ScheduledTypeOK
  <1>1. ServiceInv => ScheduledTypeOK
    BY DEF ServiceInv
  <1>2. QED
    BY <1>1, ScheduledInvariant, PTL

(* No error path and no exception keeps the lease: unless a process        *)
(* crashes, its holder is on its way to the finally clause.                *)
THEOREM LeaseComesBack == Spec => []LeaseIsReturned
  <1>1. LeaseInv => LeaseIsReturned
    BY DEF LeaseInv
  <1>2. QED
    BY <1>1, ScheduledInvariant, PTL

\* What a step does to the lease of p.
KeepsLease(p) ==
  pc'[p] \in Leased =>
    \/ lease'.by = p
    \/ pc[p] \in Leased /\ (lease.by # p \/ lease.expired)

\* Whoever takes the lease finds it free or expired, and whoever releases it
\* releases its own.
LEMMA StepKeepsLease ==
  ASSUME ServiceInv, [Next]_allVars, NEW p \in Procs
  PROVE  KeepsLease(p)
  <1>1. RecordsKept \/ UNCHANGED ledgerVars
    BY NextIsLedgerStep, NextKeepsRecords DEF ServiceInv
  <1>2. /\ Nobody \notin Procs
        /\ lease \in [by : Holders \cup {Nobody}, expired : BOOLEAN]
    BY SessionAssumption, ScheduledAssumption DEF ServiceInv, ScheduledTypeOK, SessionTypeOK
  <1>3. ASSUME lease'.by = lease.by, pc'[p] \in Leased => pc[p] \in Leased
        PROVE  KeepsLease(p)
    BY <1>2, <1>3 DEF KeepsLease
  <1>4. ASSUME NEW o \in Procs, ServiceStep(o)
        PROVE  KeepsLease(p)
    <2>1. CASE Release(o)
      <3>1. OnlyMoves(o) /\ pc'[o] \notin Leased
        BY <2>1, ReturnFits DEF Release, Leased, StartLabels
      <3>2. CASE p = o
        BY <3>1, <3>2 DEF KeepsLease
      <3>3. CASE p # o
        <4>1. pc'[p] = pc[p]
          BY <3>1, <3>3 DEF OnlyMoves
        <4>2. lease.by = p => lease' = lease
          BY <2>1, <3>3 DEF Release, ReleaseLease
        <4>3. QED
          BY <4>1, <4>2 DEF KeepsLease
      <3>4. QED
        BY <3>2, <3>3
    <2>2. CASE Execute(o)
      <3>1. OnlyMoves(o) /\ pc[o] \in Leased
        BY <1>1, <2>2, ExecuteFits
      <3>2. lease' = lease
        BY <2>2 DEF Execute, sessionVars
      <3>3. pc'[p] \in Leased => pc[p] \in Leased
        BY <3>1 DEF OnlyMoves
      <3>4. QED
        BY <1>3, <3>2, <3>3
    <2>3. CASE Preclaim(o) /\ TakeLease(o)
      <3>1. OnlyMoves(o)
        BY <2>3, PreclaimFits
      <3>2. lease'.by = o /\ ~Held
        BY <2>3 DEF TakeLease
      <3>3. QED
        BY <1>2, <3>1, <3>2 DEF KeepsLease, OnlyMoves, Held
    <2>4. CASE Preclaim(o) /\ pc'[o] \notin Leased
      <3>1. OnlyMoves(o)
        BY <2>4, PreclaimFits
      <3>2. lease' = lease
        BY <1>2, <2>4, <3>1
           DEF Preclaim, Inspect, RecordInspection, RequireReauth, InspectRaises,
               Validate, Outdated, Lease, RejectRead, RejectRequeue, RejectDead,
               sessionVars, Goto, Leased, StartLabels, ServiceInv, ScheduledTypeOK
      <3>3. pc'[p] \in Leased => pc[p] \in Leased
        BY <2>4, <3>1 DEF OnlyMoves
      <3>4. QED
        BY <1>3, <3>2, <3>3
    <2>5. QED
      BY <1>4, <2>1, <2>2, <2>3, <2>4, PreclaimFits DEF ServiceStep
  <1>5. ASSUME NEW o \in Procs, NEW q \in Items, Take(o, q)
        PROVE  KeepsLease(p)
    <2>1. OnlyMoves(o) /\ pc'[o] \notin Leased
      BY <1>5, TakeFits DEF Leased, StartLabels
    <2>2. lease' = lease
      BY <1>5 DEF Take, sessionVars
    <2>3. QED
      BY <1>3, <2>1, <2>2 DEF OnlyMoves
  <1>6. ASSUME NEW o \in Procs, Crash(o), UNCHANGED sessionVars
        PROVE  KeepsLease(p)
    <2>1. OnlyMoves(o) /\ pc'[o] \notin Leased
      BY <1>6, ReturnFits DEF Crash, Leased, StartLabels
    <2>2. QED
      BY <1>3, <1>6, <2>1 DEF OnlyMoves, sessionVars
  <1>7. CASE SessionEnvironment
    <2>1. pc' = pc /\ lease'.by = lease.by
      BY <1>2, <1>7
         DEF SessionEnvironment, RecordInspection, RecordFallback, LeaseExpires, vars, procVars
    <2>2. QED
      BY <1>3, <2>1
  <1>8. ASSUME UNCHANGED <<pc, lease>>
        PROVE  KeepsLease(p)
    BY <1>3, <1>8
  <1>9. QED
    BY <1>4, <1>5, <1>6, <1>7, <1>8
       DEF Next, EnvironmentStep, Recover, RecoverBy, procVars, sessionVars, allVars, vars

(* A service gets to the runtime only as the holder of the session's lease *)
(* and keeps the lease until it expires, for any number of services and    *)
(* expiries: no competitor and no late release takes it away.              *)
THEOREM LeaseCoversExecution == Spec => ExecutesUnderLease
  <1>1. ServiceInv /\ [Next]_allVars => [\A p \in Procs : KeepsLease(p)]_allVars
    BY StepKeepsLease
  <1>2. (\A p \in Procs : KeepsLease(p)) =>
          \A p \in Procs :
            pc'[p] \in Leased =>
              \/ lease'.by = p
              \/ pc[p] \in Leased /\ (lease.by # p \/ lease.expired)
    BY DEF KeepsLease
  <1>3. QED
    BY <1>1, <1>2, ScheduledInvariant, PTL DEF Spec, ExecutesUnderLease

(* Until a lease expires, a service that executes, stores or settles holds *)
(* it, so that no two services use the session at a time.                  *)
THEOREM HoldersAreAlone == Spec => []HeldUntilExpiry
  <1>1. LeaseInv => HeldUntilExpiry
    BY DEF LeaseInv
  <1>2. QED
    BY <1>1, ScheduledInvariant, PTL

(* A run is summarised or completed only after its graph write and its     *)
(* report of success are stored, also when leases expire under the service *)
(* and several of them execute one run.                                    *)
THEOREM ScheduledRunIsPersisted == Spec => []CompletedRunIsPersisted
  <1>1. ServiceInv => CompletedRunIsPersisted
    BY DEF ServiceInv, FinalRunsPersisted, Final, Persisted, CompletedRunIsPersisted
  <1>2. QED
    BY <1>1, ScheduledInvariant, PTL

=============================================================================
