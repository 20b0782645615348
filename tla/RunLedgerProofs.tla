--------------------------- MODULE RunLedgerProofs ---------------------------
(***************************************************************************)
(* LedgerSpec keeps LedgerInv and RecordsStay for every set of items, runs *)
(* and workers and every cap on attempts.  LedgerInv is inductive: LinkInv *)
(* alone is not, because that a first claim finds the key unlinked says    *)
(* nothing of the other items unless a linked key's run exists.            *)
(*                                                                         *)
(* The second part is about the processes of the orchestrator: what their  *)
(* steps do to the ledger and to their locals, and why a run is final only *)
(* when its result is stored.  The proofs about the clients build on it.   *)
(***************************************************************************)
EXTENDS Orchestrator, TLAPS

\* STATE_TRANSITIONS leads to run states only.
LEMMA TransitionsAreStates ==
  \A from \in RunStates : STATE_TRANSITIONS[from] \subseteq RunStates
  BY SMTT(60) DEF STATE_TRANSITIONS, RunStates

\* The empty ledger is consistent.
LEMMA InitLedgerInv == LedgerInit => LedgerInv
  <1> SUFFICES ASSUME LedgerInit PROVE LedgerInv
    OBVIOUS
  <1> USE NoneIsNoId DEF LedgerInit
  <1>1. TypeOK
    BY DEF TypeOK, ItemRow, RunRow, ItemStates, Times, Ages,
           RunStates, ReportStates
  <1>2. LinkInv
    BY DEF LinkInv, RunExists, Owns
  <1>3. ClaimInv
    BY DEF ClaimInv
  <1>4. ArtifactInv
    BY DEF ArtifactInv, RunExists
  <1>5. QED
    BY <1>1, <1>2, <1>3, <1>4 DEF LedgerInv

\* A recovery rewrites statuses only.
LEMMA ReopenedRuns ==
  ASSUME run \in [Runs -> RunRow], NEW q, NEW status \in RunStates,
         ReopenRunOf(q, status)
  PROVE  /\ run' \in [Runs -> RunRow]
         /\ \A r \in Runs : run'[r].item = run[r].item
  BY DEF ReopenRunOf, RunRow

\* An operation on one queue item that takes no claim.
LEMMA ItemStepKeepsInv ==
  ASSUME LedgerInv, NEW q \in Items, ItemStep(q)
  PROVE  LedgerInv'
  <1> USE NoneIsNoId, AttemptCapIsNat
  <1> USE DEF LedgerInv, TypeOK, LinkInv, ClaimInv, ArtifactInv, RunExists, Owns,
              ItemRow, RunRow, ItemStates,
              Times, Ages
  <1>1. CASE ReserveKey(q)
    BY <1>1 DEF ReserveKey
  <1>2. CASE EnqueueJob(q)
    BY <1>2 DEF EnqueueJob
  <1>3. ASSUME NEW when \in Times, RetryItem(q, when)
        PROVE  LedgerInv'
    BY <1>3 DEF RetryItem
  <1>4. CASE DeadLetterUnowned(q)
    BY <1>4 DEF DeadLetterUnowned, DeadLetterRow
  <1>5. CASE RecoverDeadLetter(q)
    <2>1. TypeOK'
      <3>1. "queued" \in RunStates
        BY DEF RunStates
      <3>2. run' \in [Runs -> RunRow]
        BY <1>5, <3>1, ReopenedRuns DEF RecoverDeadLetter
      <3>3. item' \in [Items -> ItemRow]
        <4>1. item[q] \in ItemRow
          OBVIOUS
        <4>2. [item[q] EXCEPT !.state = "queued", !.by = None,
                 !.available = "now", !.age = "fresh"] \in ItemRow
          BY <4>1
        <4>3. QED
          BY <1>5, <4>2 DEF RecoverDeadLetter
      <3>4. QED
        BY <1>5, <3>2, <3>3 DEF RecoverDeadLetter
    <2>2. \A r \in Runs : run'[r].item = run[r].item
      BY <1>5, ReopenedRuns DEF RecoverDeadLetter, RunStates
    <2>3. LinkInv' /\ ClaimInv' /\ ArtifactInv'
      BY <1>5, <2>2 DEF RecoverDeadLetter
    <2>4. QED
      BY <2>1, <2>3
  <1>6. ASSUME NEW state \in {"queued", "dead_letter"}, RecoverStaleClaim(q, state)
        PROVE  LedgerInv'
    <2>1. TypeOK'
      BY <1>6, ReopenedRuns DEF RecoverStaleClaim, RunStates
    <2>2. \A r \in Runs : run'[r].item = run[r].item
      BY <1>6, ReopenedRuns DEF RecoverStaleClaim, RunStates
    <2>3. LinkInv' /\ ClaimInv' /\ ArtifactInv'
      BY <1>6, <2>2 DEF RecoverStaleClaim
    <2>4. QED
      BY <2>1, <2>3
  <1>7. CASE BackoffElapses(q)
    BY <1>7 DEF BackoffElapses
  <1>8. CASE ClaimAges(q)
    BY <1>8 DEF ClaimAges
  <1>9. QED
    BY <1>1, <1>2, <1>3, <1>4, <1>5, <1>6, <1>7, <1>8 DEF ItemStep

\* An operation of a claimant on its item and run.
LEMMA ClaimStepKeepsInv ==
  ASSUME LedgerInv, NEW q \in Items, NEW r \in Runs, NEW w \in Workers,
         ClaimStep(q, r, w)
  PROVE  LedgerInv'
  <1> USE NoneIsNoId, AttemptCapIsNat
  <1> USE DEF LedgerInv, TypeOK, LinkInv, ClaimInv, ArtifactInv, RunExists, Owns,
              ItemRow, RunRow, ItemStates, Times, Ages
  <1>1. CASE ClaimNewRun(q, r, w)
    <2>1. TypeOK'
      BY <1>1 DEF ClaimNewRun, Claimable, TakeClaim, RunStates
    <2>2. LinkInv'
      BY <1>1 DEF ClaimNewRun, HasRun
    <2>3. ClaimInv'
      BY <1>1 DEF ClaimNewRun, Claimable, TakeClaim
    <2>4. ArtifactInv'
      BY <1>1 DEF ClaimNewRun, Claimable, TakeClaim
    <2>5. QED
      BY <2>1, <2>2, <2>3, <2>4
  <1>2. CASE ClaimExistingRun(q, r, w)
    BY <1>2 DEF ClaimExistingRun, Claimable, TakeClaim
  <1>3. CASE CompleteItem(q, r, w)
    BY <1>3 DEF CompleteItem, ClaimValid
  <1>4. CASE DeadLetterOwned(q, r, w)
    BY <1>4 DEF DeadLetterOwned, ClaimValid, DeadLetterRow, RunStates
  <1>5. QED
    BY <1>1, <1>2, <1>3, <1>4 DEF ClaimStep

\* A step of a run's life cycle, or a row it leaves behind.
LEMMA RunStepKeepsInv ==
  ASSUME LedgerInv, NEW r \in Runs, RunStep(r)
  PROVE  LedgerInv'
  <1> USE NoneIsNoId
  <1> USE DEF LedgerInv, TypeOK, LinkInv, ClaimInv, ArtifactInv, RunExists, Owns
  <1>1. ASSUME NEW from \in RunStates, NEW to \in STATE_TRANSITIONS[from],
               TransitionRun(r, from, to)
        PROVE  LedgerInv'
    <2>1. to \in RunStates
      BY TransitionsAreStates
    <2>2. QED
      BY <1>1, <2>1 DEF TransitionRun, RunRow
  <1>2. CASE InsertGraphWrite(r)
    BY <1>2 DEF InsertGraphWrite
  <1>3. ASSUME NEW status \in ReportStates \ {"none"}, InsertReport(r, status)
        PROVE  LedgerInv'
    BY <1>3 DEF InsertReport
  <1>4. QED
    BY <1>1, <1>2, <1>3 DEF RunStep

\* LedgerInv is inductive.
LEMMA NextKeepsInv == LedgerInv /\ [LedgerNext]_ledgerVars => LedgerInv'
  <1> SUFFICES ASSUME LedgerInv, [LedgerNext]_ledgerVars PROVE LedgerInv'
    OBVIOUS
  <1>1. ASSUME NEW q \in Items, ItemStep(q) PROVE LedgerInv'
    BY <1>1, ItemStepKeepsInv
  <1>2. ASSUME NEW q \in Items, NEW r \in Runs, NEW w \in Workers,
               ClaimStep(q, r, w)
        PROVE  LedgerInv'
    BY <1>2, ClaimStepKeepsInv
  <1>3. ASSUME NEW r \in Runs, RunStep(r) PROVE LedgerInv'
    BY <1>3, RunStepKeepsInv
  <1>4. CASE UNCHANGED ledgerVars
    BY <1>4 DEF ledgerVars, LedgerInv, TypeOK, LinkInv, ClaimInv, ArtifactInv,
                RunExists, Owns
  <1>5. QED
    BY <1>1, <1>2, <1>3, <1>4 DEF LedgerNext

(* Keys and runs stay linked one to one, claims have a claimant and a run, *)
(* and reports and graph writes have their run, whatever the clients call. *)
THEOREM LedgerIsConsistent == LedgerSpec => []LedgerInv
  <1>1. QED
    BY InitLedgerInv, NextKeepsInv, PTL DEF LedgerSpec

(* An item has at most one run and a run one item, linked by the key that  *)
(* both were created with, however claims and recoveries interleave.       *)
THEOREM LedgerLinks == LedgerSpec => []LinkInv
  BY LedgerIsConsistent, PTL DEF LedgerInv

(* No claim without a claimant and a run, and no claimant without a claim. *)
THEOREM LedgerClaims == LedgerSpec => []ClaimInv
  BY LedgerIsConsistent, PTL DEF LedgerInv

-----------------------------------------------------------------------------
\* No operation undoes what another one recorded.
LEMMA NextKeepsRecords == LedgerInv /\ [LedgerNext]_ledgerVars => [RecordsKept]_ledgerVars
  <1> SUFFICES ASSUME LedgerInv, LedgerNext PROVE RecordsKept
    OBVIOUS
  <1> USE NoneIsNoId DEF LedgerInv, TypeOK, RecordsKept, RunExists, Owns, RunRow
  <1>1. ASSUME NEW q \in Items, ItemStep(q) PROVE RecordsKept
    <2>1. /\ \A r \in Runs : run'[r].item = run[r].item
          /\ UNCHANGED <<report, graph>>
      <3>1. CASE \E status \in {"queued", "dead_letter"} : ReopenRunOf(q, status)
        <4>1. {"queued", "dead_letter"} \subseteq RunStates
          BY DEF RunStates
        <4>2. \A r \in Runs : run'[r].item = run[r].item
          BY <3>1, <4>1, ReopenedRuns
        <4>3. UNCHANGED <<report, graph>>
          BY <1>1 DEF ItemStep, ReserveKey, EnqueueJob, RetryItem,
                      DeadLetterUnowned, RecoverDeadLetter, RecoverStaleClaim,
                      BackoffElapses, ClaimAges
        <4>4. QED
          BY <4>2, <4>3
      <3>2. CASE UNCHANGED <<run, report, graph>>
        BY <3>2
      <3>3. QED
        BY <1>1, <3>1, <3>2 DEF ItemStep, ReserveKey, EnqueueJob, RetryItem,
           DeadLetterUnowned, RecoverDeadLetter, RecoverStaleClaim,
           BackoffElapses, ClaimAges
    <2>2. \A p \in Items : link[p] \in Runs => link'[p] = link[p]
      BY <1>1 DEF ItemStep, ReserveKey, EnqueueJob, RetryItem, DeadLetterUnowned,
                  RecoverDeadLetter, RecoverStaleClaim, BackoffElapses, ClaimAges
    <2>3. QED
      BY <2>1, <2>2
  <1>2. ASSUME NEW q \in Items, NEW r \in Runs, NEW w \in Workers,
               ClaimStep(q, r, w)
        PROVE  RecordsKept
    BY <1>2 DEF ClaimStep, ClaimNewRun, ClaimExistingRun, CompleteItem,
                DeadLetterOwned
  <1>3. ASSUME NEW r \in Runs, RunStep(r) PROVE RecordsKept
    BY <1>3 DEF RunStep, TransitionRun, InsertGraphWrite, InsertReport
  <1>4. QED
    BY <1>1, <1>2, <1>3 DEF LedgerNext

(* A run, its key, its report and its graph write are never undone.        *)
THEOREM LedgerKeepsRecords == LedgerSpec => RecordsStay
  <1>1. QED
    BY LedgerIsConsistent, NextKeepsRecords, PTL DEF LedgerSpec, RecordsStay

\* A claim is not handed over: it ends before another one is taken.
LEMMA ClaimKeepsOwner ==
  ASSUME item \in [Items -> ItemRow], [LedgerNext]_ledgerVars, NEW q \in Items,
         item[q].state = "claimed", item'[q].state = "claimed"
  PROVE  item'[q].by = item[q].by
  <1>1. ASSUME NEW z \in Items, ItemStep(z)
        PROVE  item'[q].by = item[q].by
    <2>1. CASE z # q
      <3>1. item'[q] = item[q]
        BY <1>1, <2>1
           DEF ItemStep, ReserveKey, EnqueueJob, RetryItem, DeadLetterUnowned,
               DeadLetterRow, RecoverDeadLetter, RecoverStaleClaim, BackoffElapses,
               ClaimAges
      <3>2. QED
        BY <3>1
    <2>2. CASE z = q
      <3> DEFINE row == item[q]
      <3>1. row \in ItemRow
        OBVIOUS
      <3>2. CASE \/ ReserveKey(q) \/ EnqueueJob(q) \/ BackoffElapses(q) \/ ClaimAges(q)
        BY <3>2 DEF ReserveKey, EnqueueJob, BackoffElapses, ClaimAges, ItemRow
      <3>3. ASSUME NEW when \in Times, RetryItem(q, when)
            PROVE  item'[q].by = item[q].by
        <4>1. [row EXCEPT !.state = "queued", !.by = None, !.attempts = @ + 1,
                 !.available = when, !.age = "fresh"].state = "queued"
          BY <3>1 DEF ItemRow
        <4>2. QED
          BY <3>3, <4>1 DEF RetryItem
      <3>4. CASE DeadLetterUnowned(q)
        <4>1. [row EXCEPT !.state = "dead_letter", !.by = None, !.attempts = @ + 1,
                 !.age = "fresh"].state = "dead_letter"
          BY <3>1 DEF ItemRow
        <4>2. QED
          BY <3>4, <4>1 DEF DeadLetterUnowned, DeadLetterRow
      <3>5. CASE RecoverDeadLetter(q)
        BY <3>5 DEF RecoverDeadLetter
      <3>6. ASSUME NEW state \in {"queued", "dead_letter"}, RecoverStaleClaim(q, state)
            PROVE  item'[q].by = item[q].by
        <4>1. [row EXCEPT !.state = state, !.by = None, !.available = "now",
                 !.age = "fresh"].state = state
          BY <3>1 DEF ItemRow
        <4>2. QED
          BY <3>6, <4>1 DEF RecoverStaleClaim
      <3>7. QED
        BY <1>1, <2>2, <3>2, <3>3, <3>4, <3>5, <3>6 DEF ItemStep
    <2>3. QED
      BY <2>1, <2>2
  <1>2. ASSUME NEW z \in Items, NEW r \in Runs, NEW w \in Workers,
               ClaimStep(z, r, w)
        PROVE  item'[q].by = item[q].by
    <2>1. CASE z # q
      <3>1. item'[q] = item[q]
        BY <1>2, <2>1
           DEF ClaimStep, ClaimNewRun, ClaimExistingRun, TakeClaim, CompleteItem,
               DeadLetterOwned, DeadLetterRow
      <3>2. QED
        BY <3>1
    <2>2. CASE z = q
      <3> DEFINE row == item[q]
      <3>1. row \in ItemRow
        OBVIOUS
      <3>2. CASE ClaimNewRun(q, r, w) \/ ClaimExistingRun(q, r, w)
        BY <3>2 DEF ClaimNewRun, ClaimExistingRun
      <3>3. CASE CompleteItem(q, r, w)
        <4>1. [row EXCEPT !.state = "completed", !.by = None, !.age = "fresh"].state
                = "completed"
          BY <3>1 DEF ItemRow
        <4>2. QED
          BY <3>3, <4>1 DEF CompleteItem
      <3>4. CASE DeadLetterOwned(q, r, w)
        <4>1. [row EXCEPT !.state = "dead_letter", !.by = None, !.attempts = @ + 1,
                 !.age = "fresh"].state = "dead_letter"
          BY <3>1 DEF ItemRow
        <4>2. QED
          BY <3>4, <4>1 DEF DeadLetterOwned, DeadLetterRow
      <3>5. QED
        BY <1>2, <2>2, <3>2, <3>3, <3>4 DEF ClaimStep
    <2>3. QED
      BY <2>1, <2>2
  <1>3. ASSUME NEW r \in Runs, RunStep(r) PROVE UNCHANGED item
    BY <1>3 DEF RunStep, TransitionRun, InsertGraphWrite, InsertReport
  <1>4. QED
    BY <1>1, <1>2, <1>3 DEF LedgerNext, ledgerVars

-----------------------------------------------------------------------------
(* Processes: what a step calls, and what it leaves behind.                *)

\* LinkInv, read from the run to the key.
LEMMA OwnerIsLinked ==
  ASSUME LedgerInv, NEW q \in Items, NEW r \in Runs, Owns(r, q)
  PROVE  link[q] = r
  BY NoneIsNoId DEF LedgerInv, LinkInv, RunExists, Owns

\* The operations of the ledger that a step of p may call, on p's own item and
\* run; success is reported of a run with a graph write only.
Call(p) ==
  LET q == loc[p].item
      r == loc[p].run
      w == WorkerOf[p]
  IN \/ UNCHANGED ledgerVars
     \/ ReserveKey(q)
     \/ EnqueueJob(q)
     \/ ClaimNewRun(q, r, w)
     \/ ClaimExistingRun(q, r, w)
     \/ SetRunState(p)
     \/ InsertGraphWrite(r)
     \/ \E status \in ReportStates \ {"none"} :
          InsertReport(r, status) /\ (status = "completed" => r \in graph)
     \/ CompleteItem(q, r, w)
     \/ \E when \in Times : RetryItem(q, when)
     \/ DeadLetterOwned(q, r, w)
     \/ DeadLetterUnowned(q)

\* The states of a run whose result is stored.
Final == {"summarizing", "completed"}

Persisted(r) == r \in graph /\ report[r] = "completed"

FinalRunsPersisted == \A r \in Runs : run[r].status \in Final => Persisted(r)

\* What the labels of a life-cycle transition and of the two statements of
\* record_interactive_run_success say of the ledger.
TransitionFits(p) ==
  /\ pc[p] = "cas" => loc[p].goal \in STATE_TRANSITIONS[loc[p].seen]
  /\ pc[p] = "report_success" => loc[p].run \in graph
  /\ pc[p] \in {"read", "cas"} /\ loc[p].goal \in Final => Persisted(loc[p].run)

\* A process calls the ledger as LedgerNext allows.
LEMMA CallIsLedgerStep ==
  ASSUME NEW p \in Procs, Call(p), TransitionFits(p), loc[p] \in Locals,
         \/ UNCHANGED ledgerVars
         \/ loc[p].item \in Items /\ loc[p].run \in Runs
  PROVE  [LedgerNext]_ledgerVars
  <1> DEFINE q == loc[p].item
             r == loc[p].run
             w == WorkerOf[p]
  <1>1. CASE UNCHANGED ledgerVars
    BY <1>1
  <1>2. CASE q \in Items /\ r \in Runs
    <2>1. w \in Workers
      BY WorkerOfIsWorker
    <2>2. CASE \/ ReserveKey(q) \/ EnqueueJob(q) \/ DeadLetterUnowned(q)
               \/ \E when \in Times : RetryItem(q, when)
      BY <1>2, <2>2 DEF LedgerNext, ItemStep
    <2>3. CASE \/ ClaimNewRun(q, r, w) \/ ClaimExistingRun(q, r, w)
               \/ CompleteItem(q, r, w) \/ DeadLetterOwned(q, r, w)
      BY <1>2, <2>1, <2>3 DEF LedgerNext, ClaimStep
    <2>4. CASE SetRunState(p)
      <3>1. /\ loc[p].seen \in RunStates
            /\ loc[p].goal \in STATE_TRANSITIONS[loc[p].seen]
            /\ TransitionRun(r, loc[p].seen, loc[p].goal)
        BY <2>4 DEF SetRunState, TransitionFits, Locals
      <3>2. QED
        BY <1>2, <3>1 DEF LedgerNext, RunStep
    <2>5. CASE \/ InsertGraphWrite(r)
               \/ \E status \in ReportStates \ {"none"} : InsertReport(r, status)
      BY <1>2, <2>5 DEF LedgerNext, RunStep
    <2>6. QED
      BY <1>1, <2>2, <2>3, <2>4, <2>5 DEF Call
  <1>3. QED
    BY <1>1, <1>2

\* A stored result stays stored.
LEMMA PersistedStays ==
  ASSUME RecordsKept \/ UNCHANGED ledgerVars, NEW r \in Runs
  PROVE  /\ r \in graph => r \in graph'
         /\ report[r] # "none" => report'[r] = report[r]
         /\ Persisted(r) => Persisted(r)'
  BY DEF RecordsKept, ledgerVars, Persisted

\* What a process knows of its run survives the steps of the others.
LEMMA OthersKeepTransitionFits ==
  ASSUME RecordsKept \/ UNCHANGED ledgerVars, NEW p \in Procs,
         TransitionFits(p), pc'[p] = pc[p], loc'[p] = loc[p],
         pc[p] \in {"read", "cas", "report_success"} => loc[p].run \in Runs
  PROVE  TransitionFits(p)'
  BY PersistedStays DEF TransitionFits

\* Only a compare-and-set moves a run into a final state, and whoever makes it
\* knows that the result is stored.
LEMMA CallKeepsFinal ==
  ASSUME LedgerInv, FinalRunsPersisted, RecordsKept \/ UNCHANGED ledgerVars,
         NEW p \in Procs, Call(p), TransitionFits(p)
  PROVE  FinalRunsPersisted'
  <1> SUFFICES ASSUME NEW r \in Runs, run'[r].status \in Final
               PROVE  Persisted(r)'
    BY DEF FinalRunsPersisted
  <1>1. run \in [Runs -> RunRow]
    BY DEF LedgerInv, TypeOK
  <1>2. CASE run[r].status \in Final
    BY <1>2, PersistedStays DEF FinalRunsPersisted
  <1>3. CASE run[r].status \notin Final
    <2>1. ~ UNCHANGED run
      BY <1>3
    <2>2. CASE SetRunState(p)
      <3>1. /\ pc[p] = "cas"
            /\ run' = [run EXCEPT ![loc[p].run].status = loc[p].goal]
        BY <2>2 DEF SetRunState, TransitionRun
      <3>2. r = loc[p].run /\ loc[p].goal \in Final
        BY <1>1, <1>3, <3>1 DEF RunRow
      <3>3. QED
        BY <3>1, <3>2, PersistedStays DEF TransitionFits
    <2>3. CASE ClaimNewRun(loc[p].item, loc[p].run, WorkerOf[p])
      <3>1. run' = [run EXCEPT ![loc[p].run] = [item |-> loc[p].item, status |-> "queued"]]
        BY <2>3 DEF ClaimNewRun
      <3>2. QED
        BY <1>1, <1>3, <3>1 DEF Final
    <2>4. CASE DeadLetterOwned(loc[p].item, loc[p].run, WorkerOf[p])
      <3>1. run' = [run EXCEPT ![loc[p].run].status = "dead_letter"]
        BY <2>4 DEF DeadLetterOwned
      <3>2. QED
        BY <1>1, <1>3, <3>1 DEF Final, RunRow
    <2>5. QED
      BY <2>1, <2>2, <2>3, <2>4
         DEF Call, ledgerVars, ReserveKey, EnqueueJob, ClaimExistingRun,
             InsertGraphWrite, InsertReport, CompleteItem, RetryItem,
             DeadLetterUnowned
  <1>4. QED
    BY <1>2, <1>3

\* Nor do producers, the clock and the operator.
LEMMA OperatorKeepsFinal ==
  ASSUME LedgerInv, FinalRunsPersisted, RecordsKept \/ UNCHANGED ledgerVars,
         \/ UNCHANGED run
         \/ \E q \in Items, status \in {"queued", "dead_letter"} : ReopenRunOf(q, status)
  PROVE  FinalRunsPersisted'
  <1> SUFFICES ASSUME NEW r \in Runs, run'[r].status \in Final
               PROVE  Persisted(r)'
    BY DEF FinalRunsPersisted
  <1>1. run \in [Runs -> RunRow]
    BY DEF LedgerInv, TypeOK
  <1>2. run[r].status \in Final
    BY <1>1 DEF ReopenRunOf, Final, RunRow
  <1>3. QED
    BY <1>2, PersistedStays DEF FinalRunsPersisted

-----------------------------------------------------------------------------
(* start_queued_run.                                                       *)

\* It claims, moves the run, or leaves the ledger alone.
LEMMA StartStepCalls ==
  ASSUME NEW p \in Procs, StartStep(p)
  PROVE  Call(p)
  BY DEF StartStep, Claim, Status, ReadRunState, AdvanceStart, LoseTransition, Call

\* Wherever it takes the process, item, run and stage stay, and no transition
\* of its own has a final goal.
LEMMA StartStepLocals ==
  ASSUME NEW Places, pc \in [Procs -> Places], StartLabels \subseteq Places,
         loc \in [Procs -> Locals], NEW p \in Procs,
         run[loc[p].run].status \in RunStates,
         StartStep(p)
  PROVE  /\ pc' \in [Procs -> Places]
         /\ loc' \in [Procs -> Locals]
         /\ \A o \in Procs \ {p} : pc'[o] = pc[o] /\ loc'[o] = loc[o]
         /\ loc'[p].item = loc[p].item
         /\ loc'[p].run = loc[p].run
         /\ loc'[p].stage = loc[p].stage
         /\ pc[p] \in {"claim", "status", "read", "cas"}
         /\ pc'[p] \in StartLabels \ {"claim"}
         /\ pc'[p] = "cas" => loc'[p].goal \in STATE_TRANSITIONS[loc'[p].seen]
         /\ pc'[p] \in {"read", "cas"} /\ loc'[p].goal \in Final =>
              pc[p] = "read" /\ loc'[p].goal = loc[p].goal
  <1> DEFINE SameWork(new) == /\ new.item = loc[p].item
                              /\ new.run = loc[p].run
                              /\ new.stage = loc[p].stage
  <1>1. loc[p] \in Locals
    OBVIOUS
  <1>2. ASSUME NEW label \in StartLabels \ {"claim"}, NEW new \in Locals,
               pc' = [pc EXCEPT ![p] = label], loc' = [loc EXCEPT ![p] = new]
        PROVE  /\ pc' \in [Procs -> Places]
               /\ loc' \in [Procs -> Locals]
               /\ \A o \in Procs \ {p} : pc'[o] = pc[o] /\ loc'[o] = loc[o]
               /\ pc'[p] = label
               /\ loc'[p] = new
    BY <1>2
  <1>3. ASSUME NEW exc \in Exceptions, Raise(p, exc)
        PROVE  \E new \in Locals :
                 /\ pc' = [pc EXCEPT ![p] = "raised"]
                 /\ loc' = [loc EXCEPT ![p] = new]
                 /\ SameWork(new)
    <2>1. [loc[p] EXCEPT !.exc = exc] \in Locals
      BY <1>1, <1>3 DEF Locals
    <2>2. SameWork([loc[p] EXCEPT !.exc = exc])
      BY <1>1 DEF Locals
    <2>3. QED
      BY <1>3, <2>1, <2>2 DEF Raise, Goto
  <1>4. ASSUME NEW goal \in RunStates \ Final, NEW exc \in Exceptions,
               /\ Goto(p, "read")
               /\ \/ loc' = [loc EXCEPT ![p].goal = goal]
                  \/ loc' = [loc EXCEPT ![p].goal = goal, ![p].exc = exc]
        PROVE  \E new \in Locals :
                 /\ pc' = [pc EXCEPT ![p] = "read"]
                 /\ loc' = [loc EXCEPT ![p] = new]
                 /\ SameWork(new)
                 /\ new.goal \notin Final
    <2> DEFINE one == [loc[p] EXCEPT !.goal = goal]
               two == [loc[p] EXCEPT !.goal = goal, !.exc = exc]
    <2>1. one \in Locals /\ two \in Locals
      BY <1>1, <1>4 DEF Locals
    <2>2. SameWork(one) /\ SameWork(two) /\ one.goal = goal /\ two.goal = goal
      BY <1>1 DEF Locals
    <2>3. loc' = [loc EXCEPT ![p] = one] \/ loc' = [loc EXCEPT ![p] = two]
      BY <1>4
    <2>4. pc' = [pc EXCEPT ![p] = "read"]
      BY <1>4 DEF Goto
    <2>5. QED
      BY <2>1, <2>2, <2>3, <2>4
  <1>5. CASE Claim(p)
    <2>1. CASE Goto(p, "status") /\ UNCHANGED loc
      BY <1>1, <1>5, <2>1, <1>2 DEF Goto, Claim, StartLabels
    <2>2. CASE \E exc \in {"KeyError", "DuplicateRunStart", "IntegrityError"} : Raise(p, exc)
      BY <1>2, <1>3, <1>5, <2>2 DEF Exceptions, Claim, StartLabels
    <2>3. QED
      BY <1>5, <2>1, <2>2 DEF Claim
  <1>6. CASE Status(p)
    <2>1. CASE Transition(p, "loading_state")
      BY <1>2, <1>4, <1>6, <2>1 DEF Transition, Status, StartLabels, RunStates, Final, Exceptions
    <2>2. CASE Goto(p, "started") /\ UNCHANGED loc
      BY <1>1, <1>2, <1>6, <2>2 DEF Goto, Status, StartLabels
    <2>3. CASE \E exc \in Exceptions : Raise(p, exc)
      BY <1>2, <1>3, <1>6, <2>3 DEF Status, StartLabels
    <2>4. QED
      BY <1>6, <2>1, <2>2, <2>3 DEF Status, Exceptions
  <1>7. CASE ReadRunState(p)
    <2>1. CASE /\ loc[p].goal \in STATE_TRANSITIONS[run[loc[p].run].status]
               /\ Goto(p, "cas")
               /\ loc' = [loc EXCEPT ![p].seen = run[loc[p].run].status]
      <3> DEFINE new == [loc[p] EXCEPT !.seen = run[loc[p].run].status]
      <3>1. new \in Locals
        BY <1>1 DEF Locals
      <3>2. SameWork(new) /\ new.goal = loc[p].goal /\ new.seen = run[loc[p].run].status
        BY <1>1 DEF Locals
      <3>3. pc' = [pc EXCEPT ![p] = "cas"] /\ loc' = [loc EXCEPT ![p] = new]
        BY <2>1 DEF Goto
      <3>4. QED
        BY <1>2, <1>7, <2>1, <3>1, <3>2, <3>3 DEF ReadRunState, StartLabels
    <2>2. CASE Raise(p, "InvalidRunTransition")
      BY <1>2, <1>3, <1>7, <2>2 DEF ReadRunState, StartLabels, Exceptions
    <2>3. QED
      BY <1>7, <2>1, <2>2 DEF ReadRunState
  <1>8. CASE AdvanceStart(p)
    <2>1. pc[p] = "cas"
      BY <1>8 DEF AdvanceStart, SetRunState
    <2>2. CASE \E goal \in {"selecting_frontier", "planning", "attacking_current_best",
                            "generating_challengers", "codex_executing"} :
                 Transition(p, goal)
      BY <1>2, <1>4, <2>1, <2>2 DEF Transition, StartLabels, RunStates, Final, Exceptions
    <2>3. CASE \E exc \in Exceptions : FailThenRaise(p, exc)
      <3>1. PICK exc \in Exceptions : FailThenRaise(p, exc)
        BY <2>3
      <3>2. PICK new \in Locals : /\ pc' = [pc EXCEPT ![p] = "read"]
                                  /\ loc' = [loc EXCEPT ![p] = new]
                                  /\ SameWork(new)
                                  /\ new.goal \notin Final
        BY <1>4, <3>1 DEF FailThenRaise, RunStates, Final
      <3>3. QED
        BY <1>2, <2>1, <3>2 DEF StartLabels
    <2>4. CASE UNCHANGED loc /\ (Goto(p, "started") \/ Goto(p, "raised"))
      BY <1>1, <1>2, <2>1, <2>4 DEF Goto, StartLabels
    <2>5. QED
      BY <1>8, <2>2, <2>3, <2>4 DEF AdvanceStart, ContinueStart, Exceptions
  <1>9. CASE LoseTransition(p)
    BY <1>2, <1>3, <1>9 DEF LoseTransition, StartLabels, Exceptions
  <1>10. QED
    BY <1>5, <1>6, <1>7, <1>8, <1>9 DEF StartStep

=============================================================================
