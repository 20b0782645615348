-------------------------- MODULE QueueWorkerProofs --------------------------
(***************************************************************************)
(* The queue worker uses the ledger as RunLedger allows, so LedgerInv and  *)
(* RecordsStay are inherited; its own invariant says that the locals of a  *)
(* process agree with the ledger wherever the process relies on them, and  *)
(* that a claim has a live process behind it.                              *)
(***************************************************************************)
EXTENDS QueueWorker, RunLedgerProofs

\* Labels at which the process has successfully claimed, or passed the claim.
Holding == {"status", "read", "cas", "started", "complete"}

\* Errors after which the worker takes the run id from the item's link.
LinkedErrors == {"DuplicateRunStart", "TopicSnapshot", "MalformedRunInput"}

LocalsFit(p) ==
  /\ pc[p] # "idle" => loc[p].item \in Items /\ loc[p].run \in Runs
  /\ pc[p] \in Holding => Owns(loc[p].run, loc[p].item)
  /\ pc[p] = "raised" /\ loc[p].exc \in LinkedErrors => link[loc[p].item] \in Runs
  /\ pc[p] = "cas" => loc[p].goal \in STATE_TRANSITIONS[loc[p].seen]

\* A process that holds the claim on q and knows q's run.
Holds(p, q) == /\ WorkerOf[p] = item[q].by
               /\ WorksOn(p, q)
               /\ Owns(loc[p].run, q)

ClaimsHeld ==
  crashes = 0 => \A q \in Items : item[q].state = "claimed" =>
                   \E p \in Procs : Holds(p, q)

WorkerInv == /\ WorkerTypeOK
             /\ LedgerInv
             /\ \A p \in Procs : LocalsFit(p)

-----------------------------------------------------------------------------
(* Every step of the worker is a step of the ledger, or none.              *)

\* start_queued_run calls the ledger one operation per step, if any.
LEMMA StartStepIsLedgerStep ==
  ASSUME WorkerInv, NEW p \in Procs, StartStep(p)
  PROVE  LedgerNext \/ UNCHANGED ledgerVars
  <1> DEFINE q == loc[p].item
             r == loc[p].run
             w == WorkerOf[p]
  <1>1. pc[p] # "idle" /\ q \in Items /\ r \in Runs /\ w \in Workers
    BY WorkerOfIsWorker DEF WorkerInv, LocalsFit, StartStep, Claim, Status,
       ReadRunState, AdvanceStart, SetRunState, LoseTransition
  <1>2. CASE Claim(p)
    <2>1. CASE ClaimNewRun(q, r, w) \/ ClaimExistingRun(q, r, w)
      BY <1>1, <2>1 DEF LedgerNext, ClaimStep
    <2>2. CASE UNCHANGED ledgerVars
      BY <2>2
    <2>3. QED
      BY <1>2, <2>1, <2>2 DEF Claim
  <1>3. CASE Status(p) \/ ReadRunState(p) \/ LoseTransition(p)
    BY <1>3 DEF Status, ReadRunState, LoseTransition
  <1>4. CASE AdvanceStart(p)
    <2>1. /\ pc[p] = "cas"
          /\ TransitionRun(r, loc[p].seen, loc[p].goal)
      BY <1>4 DEF AdvanceStart, SetRunState
    <2>2. /\ loc[p].seen \in RunStates
          /\ loc[p].goal \in STATE_TRANSITIONS[loc[p].seen]
      BY <2>1 DEF WorkerInv, WorkerTypeOK, Locals, LocalsFit
    <2>3. RunStep(r)
      BY <2>1, <2>2 DEF RunStep
    <2>4. QED
      BY <1>1, <2>3 DEF LedgerNext
  <1>5. QED
    BY <1>2, <1>3, <1>4 DEF StartStep

\* So does the rest of execute_item.
LEMMA WorkerStepIsLedgerStep ==
  ASSUME WorkerInv, NEW p \in Procs, WorkerStep(p)
  PROVE  LedgerNext \/ UNCHANGED ledgerVars
  <1> DEFINE q == loc[p].item
             r == loc[p].run
             w == WorkerOf[p]
  <1>1. CASE StartStep(p)
    BY <1>1, StartStepIsLedgerStep
  <1>2. CASE \/ FetchItem(p) \/ HandlerEnds(p) \/ CatchStartError(p)
             \/ NackRead(p) \/ DeadLetterRead(p) \/ MutationMismatch(p)
    BY <1>2 DEF FetchItem, HandlerEnds, CatchStartError, NackRead,
                DeadLetterRead, MutationMismatch
  <1>3. CASE Complete(p) \/ Requeue(p) \/ DeadLetterClaimed(p) \/ DeadLetterUnclaimed(p)
    <2>1. q \in Items /\ r \in Runs /\ w \in Workers
      BY <1>3, WorkerOfIsWorker DEF WorkerInv, LocalsFit, Complete, Requeue,
         DeadLetterClaimed, DeadLetterUnclaimed
    <2>2. ItemStep(q) \/ ClaimStep(q, r, w)
      BY <1>3 DEF Complete, Requeue, DeadLetterClaimed, DeadLetterUnclaimed,
         ItemStep, ClaimStep, Times
    <2>3. QED
      BY <2>1, <2>2 DEF LedgerNext
  <1>4. QED
    BY <1>1, <1>2, <1>3 DEF WorkerStep

\* And the producers, the clock, the operator and the crashes.
LEMMA NextIsLedgerStep ==
  ASSUME WorkerInv, [Next]_vars
  PROVE  [LedgerNext]_ledgerVars
  <1>1. ASSUME NEW p \in Procs, NEW q \in Items,
               ExecuteNext(p, q) \/ \E r \in Runs : ExecuteItem(p, q, r)
        PROVE  UNCHANGED ledgerVars
    BY <1>1 DEF ExecuteNext, ExecuteItem, Deliver
  <1>2. ASSUME NEW p \in Procs, WorkerStep(p)
        PROVE  [LedgerNext]_ledgerVars
    BY <1>2, WorkerStepIsLedgerStep
  <1>3. ASSUME NEW q \in Items, Submit(q) \/ Clock(q) \/ Recover(q)
        PROVE  LedgerNext
    <2>1. ItemStep(q)
      BY <1>3 DEF Submit, Clock, Recover, RecoverBy, ItemStep
    <2>2. QED
      BY <2>1 DEF LedgerNext
  <1>4. ASSUME NEW p \in Procs, Crash(p)
        PROVE  UNCHANGED ledgerVars
    BY <1>4 DEF Crash
  <1>5. CASE UNCHANGED vars
    BY <1>5 DEF vars
  <1>6. QED
    BY <1>1, <1>2, <1>3, <1>4, <1>5 DEF Next, EnvironmentStep

-----------------------------------------------------------------------------
(* The locals of a process keep agreeing with the ledger.                  *)

\* Idle processes rely on nothing.
LEMMA InitWorkerInv == Init => WorkerInv
  <1> SUFFICES ASSUME Init PROVE WorkerInv
    OBVIOUS
  <1>1. LedgerInv
    BY InitLedgerInv DEF Init
  <1>2. WorkerTypeOK
    BY <1>1, EnvironmentAssumption, NoneIsNoId
       DEF Init, ProcInit, WorkerTypeOK, LedgerInv, Labels, StartLabels, Locals,
           IdleLocals, RunStates, Exceptions, Stages
  <1>3. \A p \in Procs : LocalsFit(p)
    BY DEF Init, ProcInit, LocalsFit, IdleLocals, Holding
  <1>4. QED
    BY <1>1, <1>2, <1>3 DEF WorkerInv

\* What a process relies on survives the steps of the others.
LEMMA OthersKeepFit ==
  ASSUME WorkerInv, RecordsKept \/ UNCHANGED ledgerVars, NEW p \in Procs,
         pc'[p] = pc[p], loc'[p] = loc[p]
  PROVE  LocalsFit(p)'
  BY NoneIsNoId DEF WorkerInv, LedgerInv, TypeOK, RunRow, LocalsFit, RecordsKept,
     ledgerVars, Owns, RunExists, Holding

\* The steps of start_queued_run.
LEMMA StartStepKeepsFit ==
  ASSUME WorkerInv, NEW p \in Procs, StartStep(p),
         RecordsKept \/ UNCHANGED ledgerVars, LedgerInv'
  PROVE  /\ pc' \in [Procs -> Labels]
         /\ loc' \in [Procs -> Locals]
         /\ LocalsFit(p)'
         /\ \A o \in Procs \ {p} : pc'[o] = pc[o] /\ loc'[o] = loc[o]
  <1> DEFINE q == loc[p].item
             r == loc[p].run
             w == WorkerOf[p]
  <1>1. /\ pc \in [Procs -> Labels]
        /\ loc \in [Procs -> Locals]
    BY DEF WorkerInv, WorkerTypeOK
  <1>2. /\ pc[p] # "idle"
        /\ q \in Items
        /\ r \in Runs
        /\ loc[p].goal \in RunStates
        /\ loc[p].exc \in Exceptions
    BY <1>1 DEF WorkerInv, LocalsFit, Locals, StartStep, Claim, Status,
       ReadRunState, AdvanceStart, SetRunState, LoseTransition
  <1> USE DEF Goto, Raise, Transition, FailThenRaise, Labels, StartLabels, Locals,
              LocalsFit, Holding, LinkedErrors
  <1>3. CASE Claim(p)
    <2>1. CASE Goto(p, "status") /\ UNCHANGED loc
      <3>1. CASE ClaimNewRun(q, r, w)
        <4>1. run'[r].item = q
          BY <1>2, <3>1 DEF ClaimNewRun, WorkerInv, WorkerTypeOK, TypeOK
        <4>2. QED
          BY <1>1, <1>2, <2>1, <4>1 DEF Owns
      <3>2. CASE ClaimExistingRun(q, r, w)
        BY <1>1, <1>2, <2>1, <3>2 DEF ClaimExistingRun, Owns
      <3>3. CASE ClaimPasses(q, r) /\ UNCHANGED ledgerVars
        BY <1>1, <1>2, <2>1, <3>3 DEF ClaimPasses, Owns, ledgerVars
      <3>4. QED
        BY <1>1, <1>3, <2>1, <3>1, <3>2, <3>3 DEF Claim
    <2>2. CASE /\ Raise(p, "DuplicateRunStart")
               /\ ClaimIsDuplicate(q, r)
               /\ UNCHANGED ledgerVars
      <3>1. PICK linked \in Runs : Owns(linked, q)
        BY <2>2 DEF ClaimIsDuplicate, HasRun, Owns
      <3>2. link'[q] \in Runs
        BY <1>2, <2>2, <3>1, OwnerIsLinked DEF ledgerVars, WorkerInv
      <3>3. /\ pc' = [pc EXCEPT ![p] = "raised"]
            /\ loc' = [loc EXCEPT ![p].exc = "DuplicateRunStart"]
        BY <2>2
      <3>4. pc'[p] = "raised" /\ loc'[p].item = q /\ loc'[p].run = r
        BY <1>1, <3>3
      <3>5. LocalsFit(p)'
        BY <1>2, <3>2, <3>4
      <3>6. QED
        BY <1>1, <3>3, <3>5 DEF Exceptions
    <2>3. CASE Raise(p, "KeyError") \/ Raise(p, "IntegrityError")
      <3>1. PICK exc \in {"KeyError", "IntegrityError"} : Raise(p, exc)
        BY <2>3
      <3>2. pc'[p] = "raised" /\ loc'[p].exc = exc /\ loc'[p].item = q /\ loc'[p].run = r
        BY <1>1, <3>1
      <3>3. LocalsFit(p)'
        BY <1>2, <3>2
      <3>4. QED
        BY <1>1, <3>1, <3>3 DEF Exceptions
    <2>4. QED
      BY <1>3, <2>1, <2>2, <2>3 DEF Claim
  <1>4. pc[p] \in Holding => run'[r].item = q /\ link'[q] \in Runs
    <2>1. pc[p] \in Holding => run[r].item = q /\ link[q] = r
      BY <1>2, OwnerIsLinked DEF WorkerInv, Owns
    <2>2. QED
      BY <1>2, <2>1, NoneIsNoId DEF RecordsKept, RunExists, ledgerVars
  <1>5. CASE Status(p)
    BY <1>1, <1>2, <1>4, <1>5 DEF Status, Owns, RunStates, Exceptions
  <1>6. CASE ReadRunState(p)
    <2>1. run[r].status \in RunStates
      BY <1>2 DEF WorkerInv, WorkerTypeOK, TypeOK, RunRow
    <2>2. QED
      BY <1>1, <1>2, <1>4, <1>6, <2>1, SMTT(30) DEF ReadRunState, Owns, Exceptions
  <1>7. CASE AdvanceStart(p)
    <2>1. run'[r].item = q /\ link'[q] \in Runs
      BY <1>4, <1>7 DEF AdvanceStart, SetRunState
    <2>2. QED
      BY <1>1, <1>2, <1>7, <2>1
         DEF AdvanceStart, ContinueStart, Owns, RunStates, Exceptions
  <1>8. CASE LoseTransition(p)
    BY <1>1, <1>2, <1>8 DEF LoseTransition, Exceptions
  <1>9. QED
    BY <1>3, <1>5, <1>6, <1>7, <1>8 DEF StartStep

\* The other steps of execute_item, _nack and _dead_letter.
LEMMA WorkerStepKeepsFit ==
  ASSUME WorkerInv, NEW p \in Procs, WorkerStep(p),
         RecordsKept \/ UNCHANGED ledgerVars, LedgerInv'
  PROVE  /\ pc' \in [Procs -> Labels]
         /\ loc' \in [Procs -> Locals]
         /\ LocalsFit(p)'
         /\ \A o \in Procs \ {p} : pc'[o] = pc[o] /\ loc'[o] = loc[o]
  <1>1. /\ pc \in [Procs -> Labels]
        /\ loc \in [Procs -> Locals]
    BY DEF WorkerInv, WorkerTypeOK
  <1>2. CASE StartStep(p)
    BY <1>2, StartStepKeepsFit
  <1>3. CASE Return(p)
    <2>1. IdleLocals \in Locals
      BY DEF IdleLocals, Locals, RunStates, Exceptions, Stages
    <2>2. /\ loc' = [loc EXCEPT ![p] = IdleLocals]
          /\ pc' = [pc EXCEPT ![p] = "idle"]
      BY <1>3 DEF Return, Goto
    <2>3. QED
      BY <1>1, <2>1, <2>2 DEF LocalsFit, Holding, Labels
  <1>4. CASE \/ FetchItem(p) \/ HandlerEnds(p) \/ CatchStartError(p)
             \/ NackRead(p) \/ DeadLetterRead(p)
    <2>1. /\ pc[p] # "idle"
          /\ loc[p].item \in Items
          /\ loc[p].run \in Runs
          /\ UNCHANGED ledgerVars
      BY <1>4 DEF WorkerInv, LocalsFit, FetchItem, HandlerEnds, CatchStartError,
                  NackRead, DeadLetterRead
    <2>2. CASE FetchItem(p)
      BY <1>1, <1>3, <2>1, <2>2
         DEF FetchItem, Goto, LocalsFit, Holding, Labels, StartLabels
    <2>3. CASE HandlerEnds(p)
      BY <1>1, <2>1, <2>3
         DEF HandlerEnds, Goto, LocalsFit, Holding, Labels, WorkerInv, Owns,
             ledgerVars
    <2>4. CASE CatchStartError(p)
      <3>1. loc[p].exc \in LinkedErrors => link[loc[p].item] \in Runs
        BY <2>4 DEF WorkerInv, LocalsFit, CatchStartError
      <3>2. QED
        BY <1>1, <2>1, <2>4, <3>1
           DEF CatchStartError, Goto, LocalsFit, Holding, Labels, Locals,
               LinkedErrors
    <2>5. CASE NackRead(p) \/ DeadLetterRead(p)
      BY <1>1, <2>1, <2>5
         DEF NackRead, DeadLetterRead, Goto, LocalsFit, Holding, Labels
    <2>6. QED
      BY <1>4, <2>2, <2>3, <2>4, <2>5
  <1>5. QED
    BY <1>2, <1>3, <1>4 DEF WorkerStep, Complete, Requeue, DeadLetterClaimed,
       DeadLetterUnclaimed, MutationMismatch

\* A delivery hands over an item and a run id, and claims nothing.
LEMMA DeliverKeepsFit ==
  ASSUME WorkerInv, NEW p \in Procs, NEW q \in Items,
         ExecuteNext(p, q) \/ \E r \in Runs : ExecuteItem(p, q, r)
  PROVE  /\ pc' \in [Procs -> Labels]
         /\ loc' \in [Procs -> Locals]
         /\ LocalsFit(p)'
         /\ \A o \in Procs \ {p} : pc'[o] = pc[o] /\ loc'[o] = loc[o]
  <1>1. PICK r \in Runs : Deliver(p, q, r)
    BY EnvironmentAssumption, QueueWorkerAssumption DEF ExecuteNext, ExecuteItem
  <1>2. /\ pc \in [Procs -> Labels]
        /\ loc \in [Procs -> Locals]
    BY DEF WorkerInv, WorkerTypeOK
  <1>3. /\ pc' = [pc EXCEPT ![p] = "fetch"]
        /\ loc' = [loc EXCEPT ![p].item = q, ![p].run = r]
    BY <1>1 DEF Deliver, Goto
  <1>4. pc'[p] = "fetch" /\ loc'[p].item = q /\ loc'[p].run = r
    BY <1>2, <1>3 DEF Locals
  <1>5. LocalsFit(p)'
    BY <1>4 DEF LocalsFit, Holding
  <1>6. [loc[p] EXCEPT !.item = q, !.run = r] \in Locals
    BY <1>2 DEF Locals
  <1>7. loc' = [loc EXCEPT ![p] = [loc[p] EXCEPT !.item = q, !.run = r]]
    BY <1>2, <1>3
  <1>8. pc' \in [Procs -> Labels] /\ loc' \in [Procs -> Locals]
    BY <1>2, <1>3, <1>6, <1>7 DEF Labels
  <1>9. \A o \in Procs \ {p} : pc'[o] = pc[o] /\ loc'[o] = loc[o]
    BY <1>2, <1>3, <1>7
  <1>10. QED
    BY <1>5, <1>8, <1>9

\* WorkerInv is inductive.
LEMMA NextKeepsWorkerInv == WorkerInv /\ [Next]_vars => WorkerInv'
  <1> SUFFICES ASSUME WorkerInv, [Next]_vars PROVE WorkerInv'
    OBVIOUS
  <1>1. LedgerInv' /\ (RecordsKept \/ UNCHANGED ledgerVars)
    BY NextIsLedgerStep, NextKeepsInv, NextKeepsRecords DEF WorkerInv
  <1>2. ASSUME NEW p \in Procs,
               /\ pc' \in [Procs -> Labels]
               /\ loc' \in [Procs -> Locals]
               /\ LocalsFit(p)'
               /\ \A o \in Procs \ {p} : pc'[o] = pc[o] /\ loc'[o] = loc[o],
               recoveries' \in 0..MaxRecoveries,
               crashes' \in 0..MaxCrashes
        PROVE  WorkerInv'
    <2>1. \A o \in Procs \ {p} : LocalsFit(o)'
      BY <1>1, <1>2, OthersKeepFit
    <2>2. QED
      BY <1>1, <1>2, <2>1 DEF WorkerInv, WorkerTypeOK, LedgerInv
  <1>3. recoveries \in 0..MaxRecoveries /\ crashes \in 0..MaxCrashes
    BY DEF WorkerInv, WorkerTypeOK
  <1>4. ASSUME NEW p \in Procs, NEW q \in Items,
               ExecuteNext(p, q) \/ \E r \in Runs : ExecuteItem(p, q, r),
               UNCHANGED <<recoveries, crashes>>
        PROVE  WorkerInv'
    BY <1>2, <1>3, <1>4, DeliverKeepsFit
  <1>5. ASSUME NEW p \in Procs, WorkerStep(p), UNCHANGED <<recoveries, crashes>>
        PROVE  WorkerInv'
    BY <1>1, <1>2, <1>3, <1>5, WorkerStepKeepsFit
  <1>6. ASSUME UNCHANGED procVars,
               recoveries' \in 0..MaxRecoveries,
               crashes' \in 0..MaxCrashes
        PROVE  WorkerInv'
    <2>1. \A o \in Procs : LocalsFit(o)'
      BY <1>1, <1>6, OthersKeepFit DEF procVars
    <2>2. QED
      BY <1>1, <1>6, <2>1 DEF WorkerInv, WorkerTypeOK, LedgerInv, procVars
  <1>7. ASSUME NEW q \in Items, Recover(q) PROVE WorkerInv'
    BY <1>3, <1>6, <1>7, EnvironmentAssumption DEF Recover, RecoverBy
  <1>8. ASSUME NEW p \in Procs, Crash(p) PROVE WorkerInv'
    <2>1. IdleLocals \in Locals
      BY DEF IdleLocals, Locals, RunStates, Exceptions, Stages
    <2>2. /\ loc' = [loc EXCEPT ![p] = IdleLocals]
          /\ pc' = [pc EXCEPT ![p] = "idle"]
          /\ recoveries' = recoveries
          /\ crashes' \in 0..MaxCrashes
      BY <1>3, <1>8, EnvironmentAssumption DEF Crash, Return, Goto
    <2>3. QED
      BY <1>2, <1>3, <2>1, <2>2
         DEF LocalsFit, Holding, Labels, WorkerInv, WorkerTypeOK
  <1>9. CASE UNCHANGED vars
    BY <1>3, <1>6, <1>9 DEF vars
  <1>10. QED
    BY <1>3, <1>4, <1>5, <1>6, <1>7, <1>8, <1>9
       DEF Next, EnvironmentStep, envVars

-----------------------------------------------------------------------------
(* No claim without a process behind it.                                   *)

\* The four ways to settle an item change that item only.
LEMMA SettledOnce ==
  ASSUME WorkerInv, NEW p \in Procs,
         Complete(p) \/ Requeue(p) \/ DeadLetterClaimed(p) \/ DeadLetterUnclaimed(p)
  PROVE  /\ item'[loc[p].item].state # "claimed"
         /\ item'[loc[p].item].state = "queued" => Requeue(p)
         /\ \A o \in Items \ {loc[p].item} : item'[o] = item[o]
  <1>1. /\ item \in [Items -> ItemRow]
        /\ loc[p].item \in Items
    BY DEF WorkerInv, WorkerTypeOK, TypeOK, LocalsFit, Complete, Requeue,
       DeadLetterClaimed, DeadLetterUnclaimed
  <1>2. CASE Complete(p)
    <2> DEFINE done == [item[loc[p].item] EXCEPT !.state = "completed",
                          !.by = None, !.age = "fresh"]
    <2>1. item[loc[p].item] \in ItemRow
      BY <1>1
    <2>2. done.state = "completed"
      BY <2>1 DEF ItemRow
    <2>3. item' = [item EXCEPT ![loc[p].item] = done]
      BY <1>2 DEF Complete, CompleteItem
    <2>4. QED
      BY <1>1, <2>2, <2>3
  <1>3. CASE Requeue(p)
    <2> DEFINE back == [item[loc[p].item] EXCEPT !.state = "queued", !.by = None,
                          !.attempts = @ + 1, !.available = "later", !.age = "fresh"]
    <2>1. item[loc[p].item] \in ItemRow
      BY <1>1
    <2>2. back.state = "queued"
      BY <2>1 DEF ItemRow
    <2>3. item' = [item EXCEPT ![loc[p].item] = back]
      BY <1>3 DEF Requeue, RetryItem
    <2>4. QED
      BY <1>1, <1>3, <2>2, <2>3
  <1>4. CASE DeadLetterClaimed(p) \/ DeadLetterUnclaimed(p)
    <2> DEFINE dead == [item[loc[p].item] EXCEPT !.state = "dead_letter",
                          !.by = None, !.attempts = @ + 1, !.age = "fresh"]
    <2>1. item[loc[p].item] \in ItemRow
      BY <1>1
    <2>2. dead.state = "dead_letter"
      BY <2>1 DEF ItemRow
    <2>3. item' = [item EXCEPT ![loc[p].item] = dead]
      BY <1>4 DEF DeadLetterClaimed, DeadLetterUnclaimed, DeadLetterOwned,
         DeadLetterUnowned, DeadLetterRow
    <2>4. QED
      BY <1>1, <2>2, <2>3
  <1>5. QED
    BY <1>2, <1>3, <1>4

\* The process behind a claim stays behind it until the item is settled.
LEMMA HolderStepKeepsHold ==
  ASSUME WorkerInv, RecordsKept \/ UNCHANGED ledgerVars,
         NEW q \in Items, NEW h \in Procs, Holds(h, q), WorkerStep(h),
         item[q].state = "claimed", item'[q].state = "claimed"
  PROVE  Holds(h, q)'
  <1>1. /\ pc \in [Procs -> Labels]
        /\ loc \in [Procs -> Locals]
        /\ item \in [Items -> ItemRow]
        /\ loc[h].run \in Runs
    BY DEF WorkerInv, WorkerTypeOK, TypeOK, LocalsFit, Holds, WorksOn
  <1>2. /\ WorkerOf[h] = item[q].by
        /\ loc[h].item = q
        /\ run[loc[h].run].item = q
        /\ pc[h] \notin {"idle", "fetch", "claim"}
    BY DEF Holds, WorksOn, Owns
  <1>3. run'[loc[h].run].item = q
    BY <1>1, <1>2, NoneIsNoId DEF RecordsKept, RunExists, ledgerVars
  <1>4. CASE StartStep(h)
    <2>1. UNCHANGED item
      BY <1>2, <1>4 DEF StartStep, Claim, Status, ReadRunState, AdvanceStart,
         SetRunState, TransitionRun, LoseTransition, ledgerVars
    <2>2. /\ pc'[h] \notin {"idle", "fetch", "claim"}
          /\ loc'[h].item = q
          /\ loc'[h].run = loc[h].run
      BY <1>1, <1>2, <1>4
         DEF StartStep, Claim, Status, ReadRunState, AdvanceStart, ContinueStart,
             LoseTransition, Goto, Raise, Transition, FailThenRaise, Locals
    <2>3. QED
      BY <1>2, <1>3, <2>1, <2>2 DEF Holds, WorksOn, Owns
  <1>5. CASE HandlerEnds(h) \/ CatchStartError(h) \/ NackRead(h) \/ DeadLetterRead(h)
    <2>1. link[q] = loc[h].run
      BY <1>1, <1>2, OwnerIsLinked DEF WorkerInv, Owns
    <2>2. /\ pc'[h] \notin {"idle", "fetch", "claim"}
          /\ loc'[h].item = q
          /\ loc'[h].run = loc[h].run
          /\ UNCHANGED item
      BY <1>1, <1>2, <1>5, <2>1
         DEF HandlerEnds, CatchStartError, NackRead, DeadLetterRead, Goto,
             Locals, ledgerVars
    <2>3. QED
      BY <1>2, <1>3, <2>2 DEF Holds, WorksOn, Owns
  <1>6. CASE Complete(h) \/ Requeue(h) \/ DeadLetterClaimed(h) \/ DeadLetterUnclaimed(h)
    <2>1. item'[q].state # "claimed"
      BY <1>2, <1>6, SettledOnce
    <2>2. QED
      BY <2>1
  <1>7. ~ FetchItem(h) /\ ~ MutationMismatch(h)
    BY <1>2 DEF FetchItem, MutationMismatch, HoldsClaim, ClaimValid, Owns
  <1>8. QED
    BY <1>4, <1>5, <1>6, <1>7 DEF WorkerStep

\* Whoever claims an item is behind the claim.
LEMMA ClaimantHolds ==
  ASSUME WorkerInv, NEW q \in Items, NEW p \in Procs, WorkerStep(p),
         item[q].state # "claimed", item'[q].state = "claimed"
  PROVE  Holds(p, q)'
  <1>1. /\ pc \in [Procs -> Labels]
        /\ item \in [Items -> ItemRow]
        /\ run \in [Runs -> RunRow]
    BY DEF WorkerInv, WorkerTypeOK, TypeOK
  <1>2. ~ UNCHANGED item
    OBVIOUS
  <1>3. Claim(p)
    <2>1. CASE \/ FetchItem(p) \/ HandlerEnds(p) \/ CatchStartError(p)
               \/ NackRead(p) \/ DeadLetterRead(p) \/ MutationMismatch(p)
      BY <1>2, <2>1 DEF FetchItem, HandlerEnds, CatchStartError, NackRead,
         DeadLetterRead, MutationMismatch, ledgerVars
    <2>2. CASE Complete(p) \/ Requeue(p) \/ DeadLetterClaimed(p) \/ DeadLetterUnclaimed(p)
      BY <2>2, SettledOnce
    <2>3. CASE StartStep(p)
      BY <1>2, <2>3 DEF StartStep, Status, ReadRunState, AdvanceStart, SetRunState,
         TransitionRun, LoseTransition, ledgerVars
    <2>4. QED
      BY <2>1, <2>2, <2>3 DEF WorkerStep
  <1>4. loc[p].item \in Items /\ loc[p].run \in Runs
    BY <1>3 DEF WorkerInv, LocalsFit, Claim
  <1>5. /\ \/ ClaimNewRun(loc[p].item, loc[p].run, WorkerOf[p])
           \/ ClaimExistingRun(loc[p].item, loc[p].run, WorkerOf[p])
        /\ Goto(p, "status")
        /\ UNCHANGED loc
    BY <1>2, <1>3 DEF Claim, ledgerVars
  <1>6. TakeClaim(loc[p].item, WorkerOf[p])
    BY <1>5 DEF ClaimNewRun, ClaimExistingRun
  <1>7. q = loc[p].item /\ item'[q].by = WorkerOf[p]
    BY <1>1, <1>4, <1>6 DEF TakeClaim, ItemRow
  <1>8. run'[loc[p].run].item = q
    BY <1>1, <1>4, <1>5, <1>7 DEF ClaimNewRun, ClaimExistingRun, Owns
  <1>9. QED
    BY <1>1, <1>5, <1>7, <1>8 DEF Holds, WorksOn, Owns, Goto

\* Nothing is claimed at first.
LEMMA InitClaimsHeld == Init => ClaimsHeld
  BY DEF Init, LedgerInit, ClaimsHeld

\* A claim that is not settled keeps its process, a new one comes with it.
LEMMA NextKeepsClaimsHeld ==
  WorkerInv /\ ClaimsHeld /\ [Next]_vars => ClaimsHeld'
  <1> SUFFICES ASSUME WorkerInv, ClaimsHeld, [Next]_vars,
                      crashes' = 0, NEW q \in Items, item'[q].state = "claimed"
               PROVE  \E p \in Procs : Holds(p, q)'
    BY DEF ClaimsHeld
  <1>1. RecordsKept \/ UNCHANGED ledgerVars
    BY NextIsLedgerStep, NextKeepsRecords DEF WorkerInv
  <1>2. /\ \A p \in Procs : ~ Crash(p)
        /\ crashes = 0
    BY DEF Next, EnvironmentStep, envVars, Crash, Recover, RecoverBy, vars, WorkerInv, WorkerTypeOK
  <1>3. item \in [Items -> ItemRow]
    BY DEF WorkerInv, WorkerTypeOK, TypeOK
  <1>4. CASE item[q].state # "claimed"
    <2>1. ASSUME NEW z \in Items, Submit(z) \/ Clock(z) \/ Recover(z)
          PROVE  item'[q].state # "claimed"
      BY <1>3, <1>4, <2>1
         DEF Submit, ReserveKey, EnqueueJob, Clock, BackoffElapses, ClaimAges,
             Recover, RecoverBy, RecoverDeadLetter, RecoverStaleClaim, ItemRow
    <2>2. \E p \in Procs : WorkerStep(p)
      BY <1>2, <1>4, <2>1
         DEF Next, EnvironmentStep, vars, ledgerVars, ExecuteNext, ExecuteItem, Deliver
    <2>3. QED
      BY <1>4, <2>2, ClaimantHolds
  <1>5. CASE item[q].state = "claimed"
    <2>1. PICK h \in Procs : Holds(h, q)
      BY <1>2, <1>5 DEF ClaimsHeld
    <2>2. /\ loc[h].run \in Runs
          /\ pc[h] # "idle"
      BY <2>1 DEF WorkerInv, LocalsFit, Holds, WorksOn
    <2>3. item'[q].by = item[q].by
      BY <1>3, <1>5, NextIsLedgerStep, ClaimKeepsOwner
    <2>4. CASE pc'[h] = pc[h] /\ loc'[h] = loc[h]
      <3>1. run'[loc[h].run].item = run[loc[h].run].item
        BY <1>1, <2>1, <2>2, NoneIsNoId
           DEF RecordsKept, RunExists, ledgerVars, Holds, Owns
      <3>2. QED
        BY <2>1, <2>3, <2>4, <3>1 DEF Holds, WorksOn, Owns
    <2>5. CASE WorkerStep(h)
      BY <1>1, <1>5, <2>1, <2>5, HolderStepKeepsHold
    <2>6. ASSUME NEW p \in Procs \ {h}, WorkerStep(p)
          PROVE  pc'[h] = pc[h] /\ loc'[h] = loc[h]
      BY <1>1, <2>6, NextIsLedgerStep, NextKeepsInv, WorkerStepKeepsFit DEF WorkerInv
    <2>7. ASSUME NEW p \in Procs, NEW z \in Items,
                 ExecuteNext(p, z) \/ \E r \in Runs : ExecuteItem(p, z, r)
          PROVE  pc'[h] = pc[h] /\ loc'[h] = loc[h]
      BY <2>2, <2>7, DeliverKeepsFit DEF ExecuteNext, ExecuteItem, Deliver
    <2>8. ASSUME NEW z \in Items, Recover(z)
          PROVE  pc'[h] = pc[h] /\ loc'[h] = loc[h]
      BY <2>8 DEF Recover, RecoverBy, procVars
    <2>9. QED
      BY <1>2, <2>4, <2>5, <2>6, <2>7, <2>8 DEF Next, EnvironmentStep, envVars, vars, procVars
  <1>6. QED
    BY <1>4, <1>5

-----------------------------------------------------------------------------
\* The two inductive invariants of the worker.
LEMMA WorkerInvariant == Spec => [](WorkerInv /\ ClaimsHeld)
  <1>1. QED
    BY InitWorkerInv, InitClaimsHeld, NextKeepsWorkerInv, NextKeepsClaimsHeld, PTL
       DEF Spec

(* The queue worker implements the ledger: whatever its processes, the     *)
(* clients and the operator do is a sequence of ledger operations.         *)
THEOREM WorkerImplementsLedger == Spec => LedgerSpec
  <1>1. Init => LedgerInit
    BY DEF Init
  <1>2. WorkerInv /\ [Next]_vars => [LedgerNext]_ledgerVars
    BY NextIsLedgerStep
  <1>3. QED
    BY <1>1, <1>2, WorkerInvariant, PTL DEF Spec, LedgerSpec

(* Every variable keeps its type: the worker never uses a run id, a label  *)
(* or a lifecycle state that the ledger does not know.                     *)
THEOREM WorkerTypes == Spec => []WorkerTypeOK
  <1>1. WorkerInv => WorkerTypeOK
    BY DEF WorkerInv
  <1>2. QED
    BY <1>1, WorkerInvariant, PTL

(* A worker that does not crash never walks away from a claim.             *)
THEOREM WorkerStrandsNoClaim == Spec => []NoStrandedClaim
  <1>1. ClaimsHeld => NoStrandedClaim
    BY DEF ClaimsHeld, Holds, NoStrandedClaim
  <1>2. QED
    BY <1>1, WorkerInvariant, PTL

-----------------------------------------------------------------------------
(* Settled items and the lifecycle of runs.                                *)

\* An item is queued or claimed again only if it was neither settled, or by
\* the operator's recovery.
LEMMA ReopenedByOperator ==
  ASSUME WorkerInv, Next, NEW q \in Items,
         item[q].state \in {"completed", "dead_letter"},
         item'[q].state \in {"queued", "claimed"}
  PROVE  item[q].state = "dead_letter" /\ recoveries' > recoveries
  <1>1. item \in [Items -> ItemRow] /\ recoveries \in Nat
    BY EnvironmentAssumption DEF WorkerInv, WorkerTypeOK, TypeOK
  <1>2. ~ UNCHANGED item
    OBVIOUS
  <1>3. ASSUME NEW p \in Procs, WorkerStep(p) PROVE FALSE
    <2>1. CASE \/ FetchItem(p) \/ HandlerEnds(p) \/ CatchStartError(p)
               \/ NackRead(p) \/ DeadLetterRead(p) \/ MutationMismatch(p)
      BY <1>2, <2>1 DEF FetchItem, HandlerEnds, CatchStartError, NackRead,
         DeadLetterRead, MutationMismatch, ledgerVars
    <2>2. CASE StartStep(p)
      <3>1. \/ ClaimNewRun(loc[p].item, loc[p].run, WorkerOf[p])
            \/ ClaimExistingRun(loc[p].item, loc[p].run, WorkerOf[p])
        BY <1>2, <2>2 DEF StartStep, Claim, Status, ReadRunState, AdvanceStart,
           SetRunState, TransitionRun, LoseTransition, ledgerVars
      <3>2. TakeClaim(loc[p].item, WorkerOf[p]) /\ item[loc[p].item].state = "queued"
        BY <3>1 DEF ClaimNewRun, ClaimExistingRun
      <3>3. QED
        BY <1>1, <3>2 DEF TakeClaim
    <2>3. CASE Complete(p) \/ DeadLetterClaimed(p) \/ DeadLetterUnclaimed(p)
      <3>1. ~ Requeue(p)
        BY <2>3 DEF Complete, DeadLetterClaimed, DeadLetterUnclaimed, Requeue
      <3>2. QED
        BY <2>3, <3>1, SettledOnce
    <2>4. CASE Requeue(p)
      <3>1. item[loc[p].item].state = "claimed"
        BY <2>4 DEF Requeue, HoldsClaim, ClaimValid
      <3>2. \A o \in Items \ {loc[p].item} : item'[o] = item[o]
        BY <2>4, SettledOnce
      <3>3. QED
        BY <3>1, <3>2
    <2>5. QED
      BY <1>3, <2>1, <2>2, <2>3, <2>4 DEF WorkerStep
  <1>4. ASSUME NEW p \in Procs, NEW z \in Items,
               ExecuteNext(p, z) \/ \E r \in Runs : ExecuteItem(p, z, r)
        PROVE  FALSE
    BY <1>2, <1>4 DEF ExecuteNext, ExecuteItem, Deliver, ledgerVars
  <1>5. ASSUME NEW z \in Items, Submit(z) \/ Clock(z) PROVE FALSE
    BY <1>1, <1>2, <1>5 DEF Submit, ReserveKey, EnqueueJob, Clock, BackoffElapses,
       ClaimAges, ItemRow
  <1>6. ASSUME NEW p \in Procs, Crash(p) PROVE FALSE
    BY <1>2, <1>6 DEF Crash, ledgerVars
  <1>7. ASSUME NEW z \in Items, Recover(z)
        PROVE  item[q].state = "dead_letter" /\ recoveries' > recoveries
    BY <1>1, <1>7 DEF Recover, RecoverBy, RecoverDeadLetter, RecoverStaleClaim, ItemRow
  <1>8. QED
    BY <1>3, <1>4, <1>5, <1>6, <1>7 DEF Next, EnvironmentStep

(* Late processes that act on rows they read before an item was settled    *)
(* never put the item back in the queue (_nack, _dead_letter, the claim).  *)
THEOREM WorkerSettlesForGood == Spec => SettledStays
  <1>1. WorkerInv /\ [Next]_vars =>
          [\A q \in Items :
             /\ item[q].state \in {"completed", "dead_letter"}
             /\ item'[q].state \in {"queued", "claimed"}
             => /\ item[q].state = "dead_letter"
                /\ recoveries' > recoveries]_vars
    BY ReopenedByOperator
  <1>2. QED
    BY <1>1, WorkerInvariant, PTL DEF Spec, SettledStays

\* The steps that change the status of a run that exists.
LEMMA StatusFollowsTable ==
  ASSUME WorkerInv, Next, NEW r \in Runs, RunExists(r),
         run'[r].status # run[r].status
  PROVE  \/ run'[r].status \in STATE_TRANSITIONS[run[r].status]
         \/ run'[r].status = "dead_letter" /\ item'[run[r].item].state = "dead_letter"
         \/ recoveries' > recoveries
  <1>1. /\ run \in [Runs -> RunRow]
        /\ item \in [Items -> ItemRow]
        /\ recoveries \in Nat
    BY EnvironmentAssumption DEF WorkerInv, WorkerTypeOK, TypeOK
  <1>2. ~ UNCHANGED run
    OBVIOUS
  <1>3. ASSUME NEW p \in Procs, AdvanceStart(p)
        PROVE  run'[r].status \in STATE_TRANSITIONS[run[r].status]
    <2>1. /\ loc[p].goal \in STATE_TRANSITIONS[loc[p].seen]
          /\ loc[p].run \in Runs
      BY <1>3 DEF WorkerInv, LocalsFit, AdvanceStart, SetRunState
    <2>2. TransitionRun(loc[p].run, loc[p].seen, loc[p].goal)
      BY <1>3 DEF AdvanceStart, SetRunState
    <2>3. QED
      BY <1>1, <2>1, <2>2 DEF TransitionRun, RunRow
  <1>4. ASSUME NEW p \in Procs, Claim(p) PROVE FALSE
    <2>1. ClaimNewRun(loc[p].item, loc[p].run, WorkerOf[p])
      BY <1>2, <1>4 DEF Claim, ClaimExistingRun, ledgerVars
    <2>2. loc[p].run # r
      BY <2>1 DEF ClaimNewRun
    <2>3. QED
      BY <1>1, <2>1, <2>2 DEF ClaimNewRun
  <1>5. ASSUME NEW p \in Procs, DeadLetterClaimed(p)
        PROVE  /\ run'[r].status = "dead_letter"
               /\ item'[run[r].item].state = "dead_letter"
    <2> DEFINE q == loc[p].item
               dead == [item[q] EXCEPT !.state = "dead_letter", !.by = None,
                                       !.attempts = @ + 1, !.age = "fresh"]
    <2>1. /\ q \in Items
          /\ loc[p].run \in Runs
          /\ DeadLetterOwned(q, loc[p].run, WorkerOf[p])
      BY <1>5 DEF WorkerInv, LocalsFit, DeadLetterClaimed
    <2>2. r = loc[p].run /\ run'[r].status = "dead_letter"
      BY <1>1, <2>1 DEF DeadLetterOwned, RunRow
    <2>3. run[r].item = q
      BY <2>1, <2>2 DEF DeadLetterOwned, ClaimValid, Owns
    <2>4. item' = [item EXCEPT ![q] = dead]
      BY <2>1 DEF DeadLetterOwned, DeadLetterRow
    <2>5. item[q] \in ItemRow
      BY <1>1, <2>1
    <2>6. dead.state = "dead_letter"
      BY <2>5 DEF ItemRow
    <2>7. QED
      BY <1>1, <2>1, <2>2, <2>3, <2>4, <2>6
  <1>6. ASSUME NEW p \in Procs, WorkerStep(p), ~ AdvanceStart(p), ~ Claim(p),
               ~ DeadLetterClaimed(p)
        PROVE  FALSE
    BY <1>2, <1>6 DEF WorkerStep, StartStep, FetchItem, Status, ReadRunState, LoseTransition,
       HandlerEnds, CatchStartError, Complete, CompleteItem, NackRead, Requeue,
       RetryItem, DeadLetterRead, DeadLetterUnclaimed, DeadLetterUnowned,
       MutationMismatch, ledgerVars
  <1>7. ASSUME NEW p \in Procs, NEW z \in Items,
               ExecuteNext(p, z) \/ \E o \in Runs : ExecuteItem(p, z, o)
        PROVE  FALSE
    BY <1>2, <1>7 DEF ExecuteNext, ExecuteItem, Deliver, ledgerVars
  <1>8. ASSUME NEW z \in Items, Submit(z) \/ Clock(z) PROVE FALSE
    BY <1>2, <1>8 DEF Submit, ReserveKey, EnqueueJob, Clock, BackoffElapses, ClaimAges
  <1>9. ASSUME NEW p \in Procs, Crash(p) PROVE FALSE
    BY <1>2, <1>9 DEF Crash, ledgerVars
  <1>10. ASSUME NEW z \in Items, Recover(z) PROVE recoveries' > recoveries
    BY <1>1, <1>10 DEF Recover, RecoverBy
  <1>11. QED
    BY <1>3, <1>4, <1>5, <1>6, <1>7, <1>8, <1>9, <1>10 DEF Next, EnvironmentStep

(* Two processes on one run never make it jump: its compare-and-set makes  *)
(* every status change an edge of the table, a dead-lettering of its item, *)
(* or the operator's.                                                      *)
THEOREM WorkerFollowsTable == Spec => RunsFollowTable
  <1>1. WorkerInv /\ [Next]_vars =>
          [\A r \in Runs :
             RunExists(r) /\ run'[r].status # run[r].status =>
               \/ run'[r].status \in STATE_TRANSITIONS[run[r].status]
               \/ run'[r].status = "dead_letter" /\ item'[run[r].item].state = "dead_letter"
               \/ recoveries' > recoveries]_vars
    BY StatusFollowsTable
  <1>2. QED
    BY <1>1, WorkerInvariant, PTL DEF Spec, RunsFollowTable

-----------------------------------------------------------------------------
(* One run at a time, and attempts.                                        *)

(* Handlers at one item are at one run of it: each of them is at the run   *)
(* that the item's idempotency key is linked to, whatever run ids the      *)
(* callers of execute_item ask for.                                        *)
THEOREM WorkerHandlesOneRun == Spec => []OneRunHandled
  <1>1. WorkerInv => OneRunHandled
    <2> SUFFICES ASSUME WorkerInv, NEW p1 \in Procs, NEW p2 \in Procs,
                        pc[p1] = "started", pc[p2] = "started",
                        loc[p1].item = loc[p2].item
                 PROVE  loc[p1].run = loc[p2].run
      BY DEF OneRunHandled
    <2>1. ASSUME NEW p \in Procs, pc[p] = "started"
          PROVE  link[loc[p].item] = loc[p].run
      BY <2>1, OwnerIsLinked DEF WorkerInv, LocalsFit, Holding
    <2>2. QED
      BY <2>1
  <1>2. QED
    BY <1>1, WorkerInvariant, PTL

\* p has read the attempts of the claim it holds on q, and requeues it next.
Requeues(p, q) ==
  /\ pc[p] = "requeue"
  /\ loc[p].item = q
  /\ item[q].state = "claimed"
  /\ item[q].by = WorkerOf[p]

BudgetFits(q) ==
  /\ item[q].state = "absent" => item[q].attempts = 0
  /\ item[q].state = "queued" => item[q].attempts < MaxAttempts
  /\ \A p \in Procs : Requeues(p, q) => item[q].attempts + 1 < MaxAttempts

BudgetInv == recoveries = 0 => \A q \in Items : BudgetFits(q)

\* What becomes of the row of q in the steps that change no claim, and in the
\* others: a claim, a settlement, a retry.
RowKept(q) == /\ item'[q].state = item[q].state
              /\ item'[q].by = item[q].by
              /\ item'[q].attempts = item[q].attempts

Requeued(p, q) == /\ Requeue(p)
                  /\ loc[p].item = q
                  /\ item'[q].state = "queued"
                  /\ item'[q].attempts = item[q].attempts + 1

Claimed(p, q) == /\ Claim(p)
                 /\ item'[q].state = "claimed"
                 /\ item'[q].by = WorkerOf[p]

Settled(q) == item'[q].state \in {"completed", "dead_letter"}

\* The item that a worker's step changes is the one it works on.
LEMMA WorkerStepOnRow ==
  ASSUME WorkerInv, NEW p \in Procs, WorkerStep(p), NEW q \in Items
  PROVE  RowKept(q) \/ Settled(q) \/ Claimed(p, q) \/ Requeued(p, q)
  <1>1. /\ item \in [Items -> ItemRow]
        /\ item[q] \in ItemRow
    BY DEF WorkerInv, WorkerTypeOK, TypeOK
  <1>2. CASE UNCHANGED item
    BY <1>2 DEF RowKept
  <1>3. CASE Claim(p) /\ ~ UNCHANGED item
    <2>1. TakeClaim(loc[p].item, WorkerOf[p])
      BY <1>3 DEF Claim, ClaimNewRun, ClaimExistingRun, ledgerVars
    <2>2. QED
      BY <1>1, <1>3, <2>1 DEF TakeClaim, RowKept, Claimed, ItemRow
  <1>4. CASE Complete(p) \/ DeadLetterClaimed(p) \/ DeadLetterUnclaimed(p)
    <2>1. CASE loc[p].item = q
      BY <1>1, <1>4, <2>1
         DEF Complete, CompleteItem, DeadLetterClaimed, DeadLetterUnclaimed,
             DeadLetterOwned, DeadLetterUnowned, DeadLetterRow, Settled, ItemRow
    <2>2. CASE loc[p].item # q
      BY <1>4, <2>2, SettledOnce DEF RowKept
    <2>3. QED
      BY <2>1, <2>2
  <1>5. CASE Requeue(p)
    <2>1. CASE loc[p].item = q
      BY <1>1, <1>5, <2>1 DEF Requeue, RetryItem, Requeued, ItemRow
    <2>2. CASE loc[p].item # q
      BY <1>5, <2>2, SettledOnce DEF RowKept
    <2>3. QED
      BY <2>1, <2>2
  <1>6. CASE \/ FetchItem(p) \/ HandlerEnds(p) \/ CatchStartError(p) \/ NackRead(p)
             \/ DeadLetterRead(p) \/ MutationMismatch(p)
    <2>1. UNCHANGED item
      BY <1>6 DEF FetchItem, HandlerEnds, CatchStartError, NackRead,
         DeadLetterRead, MutationMismatch, ledgerVars
    <2>2. QED
      BY <1>2, <2>1
  <1>7. CASE Status(p) \/ ReadRunState(p) \/ AdvanceStart(p) \/ LoseTransition(p)
    <2>1. UNCHANGED item
      BY <1>7 DEF Status, ReadRunState, AdvanceStart, SetRunState, TransitionRun,
         LoseTransition, ledgerVars
    <2>2. QED
      BY <1>2, <2>1
  <1>8. QED
    BY <1>2, <1>3, <1>4, <1>5, <1>6, <1>7 DEF WorkerStep, StartStep

\* A process decides to requeue on the attempts it reads.
LEMMA RequeueIsDecided ==
  ASSUME WorkerInv, NEW p \in Procs, WorkerStep(p), pc'[p] = "requeue"
  PROVE  /\ item[loc[p].item].attempts + 1 < MaxAttempts
         /\ loc'[p] = loc[p]
         /\ UNCHANGED item
  <1>1. pc \in [Procs -> Labels] /\ loc[p].item \in Items /\ item \in [Items -> ItemRow]
    BY DEF WorkerInv, WorkerTypeOK, TypeOK, LocalsFit, WorkerStep, StartStep, FetchItem,
       HandlerEnds, CatchStartError, Complete, NackRead, Requeue, DeadLetterRead,
       DeadLetterClaimed, DeadLetterUnclaimed, MutationMismatch, Claim, Status,
       ReadRunState, AdvanceStart, SetRunState, LoseTransition
  <1>2. ~ StartStep(p)
    BY <1>1 DEF StartStep, Claim, Status, ReadRunState, AdvanceStart, ContinueStart,
       LoseTransition, Goto, Raise, Transition, FailThenRaise
  <1>3. NackRead(p)
    BY <1>1, <1>2 DEF WorkerStep, FetchItem, HandlerEnds, CatchStartError, Complete,
       Requeue, DeadLetterRead, DeadLetterClaimed, DeadLetterUnclaimed,
       MutationMismatch, Goto, Return
  <1>4. /\ pc' = [pc EXCEPT ![p] = IF item[loc[p].item].attempts + 1 >= MaxAttempts
                                   THEN "dead" ELSE "requeue"]
        /\ UNCHANGED <<loc, ledgerVars>>
    BY <1>3 DEF NackRead, Goto
  <1>5. ~(item[loc[p].item].attempts + 1 >= MaxAttempts)
    BY <1>1, <1>4
  <1>6. item[loc[p].item].attempts \in Nat
    BY <1>1 DEF ItemRow
  <1>7. QED
    BY <1>4, <1>5, <1>6, QueueWorkerAssumption DEF ledgerVars

LEMMA InitBudget == Init => BudgetInv
  <1> SUFFICES ASSUME Init, NEW q \in Items PROVE BudgetFits(q)
    BY DEF BudgetInv
  <1>1. item[q].state = "absent" /\ item[q].attempts = 0
    BY DEF Init, LedgerInit
  <1>2. QED
    BY <1>1 DEF BudgetFits, Requeues

\* Whoever is about to requeue has been so before.
NobodyDecides == \A p \in Procs : pc'[p] = "requeue" => pc[p] = "requeue" /\ loc'[p] = loc[p]

LEMMA KeptRowFits ==
  ASSUME NEW q \in Items, BudgetFits(q), RowKept(q), NobodyDecides
  PROVE  BudgetFits(q)'
  BY DEF BudgetFits, RowKept, NobodyDecides, Requeues

\* An id of its own lets a process tell its claim from a later one.
OwnWorkerIds == \A p, o \in Procs : WorkerOf[p] = WorkerOf[o] => p = o

LEMMA WorkerStepKeepsBudget ==
  ASSUME OwnWorkerIds, WorkerInv, NEW p \in Procs, WorkerStep(p),
         \A o \in Procs \ {p} : pc'[o] = pc[o] /\ loc'[o] = loc[o],
         NEW q \in Items, BudgetFits(q)
  PROVE  BudgetFits(q)'
  <1>1. item[q] \in ItemRow
    BY DEF WorkerInv, WorkerTypeOK, TypeOK
  <1>2. CASE pc'[p] = "requeue"
    <2>1. /\ item[loc[p].item].attempts + 1 < MaxAttempts
          /\ loc'[p] = loc[p]
          /\ UNCHANGED item
      BY <1>2, RequeueIsDecided
    <2>2. \A o \in Procs : Requeues(o, q)' => o = p \/ Requeues(o, q)
      BY <2>1 DEF Requeues
    <2>3. QED
      BY <2>1, <2>2 DEF BudgetFits, Requeues
  <1>3. CASE pc'[p] # "requeue"
    <2>1. NobodyDecides
      BY <1>3 DEF NobodyDecides
    <2>2. CASE RowKept(q)
      BY <2>1, <2>2, KeptRowFits
    <2>3. CASE Settled(q)
      BY <2>3 DEF Settled, BudgetFits, Requeues
    <2>4. CASE Claimed(p, q)
      <3>1. \A o \in Procs : ~ Requeues(o, q)'
        BY <1>3, <2>4 DEF Requeues, Claimed, OwnWorkerIds
      <3>2. QED
        BY <2>4, <3>1 DEF Claimed, BudgetFits
    <2>5. CASE Requeued(p, q)
      <3>1. Requeues(p, q)
        BY <2>5 DEF Requeued, Requeue, HoldsClaim, ClaimValid, Requeues
      <3>2. item[q].attempts + 1 < MaxAttempts
        BY <3>1 DEF BudgetFits
      <3>3. QED
        BY <2>5, <3>2 DEF Requeued, BudgetFits, Requeues
    <2>6. QED
      BY <2>2, <2>3, <2>4, <2>5, WorkerStepOnRow
  <1>4. QED
    BY <1>2, <1>3

LEMMA NextKeepsBudget ==
  ASSUME OwnWorkerIds, WorkerInv, BudgetInv, [Next]_vars
  PROVE  BudgetInv'
  <1> SUFFICES ASSUME recoveries' = 0, NEW q \in Items
               PROVE  BudgetFits(q)'
    BY DEF BudgetInv
  <1>1. /\ item \in [Items -> ItemRow]
        /\ pc \in [Procs -> Labels]
        /\ loc \in [Procs -> Locals]
    BY DEF WorkerInv, WorkerTypeOK, TypeOK
  <1>2. recoveries = 0 /\ \A z \in Items : ~ Recover(z)
    BY EnvironmentAssumption DEF WorkerInv, WorkerTypeOK, Next, EnvironmentStep, envVars,
       Crash, Recover, RecoverBy, vars
  <1>3. BudgetFits(q)
    BY <1>2 DEF BudgetInv
  <1>4. ASSUME NEW p \in Procs, WorkerStep(p)
        PROVE  BudgetFits(q)'
    <2>1. LedgerInv' /\ (RecordsKept \/ UNCHANGED ledgerVars)
      BY NextIsLedgerStep, NextKeepsInv, NextKeepsRecords DEF WorkerInv
    <2>2. \A o \in Procs \ {p} : pc'[o] = pc[o] /\ loc'[o] = loc[o]
      BY <1>4, <2>1, WorkerStepKeepsFit
    <2>3. QED
      BY <1>3, <1>4, <2>2, WorkerStepKeepsBudget
  <1>5. ASSUME NEW p \in Procs, NEW z \in Items,
               ExecuteNext(p, z) \/ \E r \in Runs : ExecuteItem(p, z, r)
        PROVE  BudgetFits(q)'
    <2>1. UNCHANGED item /\ NobodyDecides
      BY <1>1, <1>5 DEF ExecuteNext, ExecuteItem, Deliver, Goto, ledgerVars, NobodyDecides
    <2>2. QED
      BY <1>3, <2>1, KeptRowFits DEF RowKept
  <1>6. ASSUME NEW z \in Items, Submit(z) \/ Clock(z), UNCHANGED procVars
        PROVE  BudgetFits(q)'
    <2>1. NobodyDecides
      BY <1>6 DEF NobodyDecides, procVars
    <2>2. CASE EnqueueJob(z) /\ z = q
      <3>1. item[q].attempts = 0 /\ item'[q].state = "queued" /\ item'[q].attempts = 0
        BY <1>1, <1>3, <2>2 DEF EnqueueJob, BudgetFits, ItemRow
      <3>2. QED
        BY <3>1, QueueWorkerAssumption DEF BudgetFits, Requeues
    <2>3. CASE ~(EnqueueJob(z) /\ z = q)
      <3>1. RowKept(q)
        BY <1>1, <1>6, <2>3 DEF Submit, ReserveKey, EnqueueJob, Clock, BackoffElapses,
           ClaimAges, RowKept, ItemRow
      <3>2. QED
        BY <1>3, <2>1, <3>1, KeptRowFits
    <2>4. QED
      BY <2>2, <2>3
  <1>7. ASSUME NEW p \in Procs, Crash(p)
        PROVE  BudgetFits(q)'
    <2>1. UNCHANGED item /\ NobodyDecides
      BY <1>1, <1>7 DEF Crash, Return, Goto, ledgerVars, NobodyDecides
    <2>2. QED
      BY <1>3, <2>1, KeptRowFits DEF RowKept
  <1>8. CASE UNCHANGED vars
    <2>1. UNCHANGED item /\ NobodyDecides
      BY <1>8 DEF vars, ledgerVars, procVars, NobodyDecides
    <2>2. QED
      BY <1>3, <2>1, KeptRowFits DEF RowKept
  <1>9. QED
    BY <1>2, <1>4, <1>5, <1>6, <1>7, <1>8 DEF Next, EnvironmentStep

(* If processes have ids of their own, _nack never requeues an exhausted   *)
(* item, although it decides on a row that it has read before it writes:   *)
(* while the process holds its claim nobody else counts an attempt.        *)
THEOREM WorkerKeepsBudget ==
  ASSUME OwnWorkerIds
  PROVE  Spec => []RetryBudget
  <1>1. WorkerInv /\ BudgetInv /\ [Next]_vars => BudgetInv'
    BY NextKeepsBudget
  <1>2. BudgetInv => RetryBudget
    BY DEF BudgetInv, BudgetFits, RetryBudget
  <1>3. QED
    BY <1>1, <1>2, WorkerInvariant, InitBudget, PTL DEF Spec

=============================================================================
