--------------------------- MODULE ProducersProofs ---------------------------
(***************************************************************************)
(* A producer that is about to insert a job holds its key, and holds it    *)
(* alone: the first of its two transactions is what keeps the others away  *)
(* from the second.  KeysInv says so, and what kind of subject each kind   *)
(* of producer has in hand.                                                *)
(*                                                                         *)
(* The last two parts are about batches of scheduled refreshes: who is     *)
(* selected, and that several services make up one batch between them.     *)
(***************************************************************************)
EXTENDS Producers, FiniteSetTheorems, TLAPS

ScheduledKeys == {ScheduledKey(t, s) : t \in Topics, s \in Seconds}

\* What a producer may reserve and enqueue.
SubjectFits(p) ==
  /\ p \in Clis => loc[p].subject \in Sources
  /\ p \in Operators => loc[p].subject \in Repairs
  /\ p \in Services => loc[p].subject \in Sources
  /\ p \notin Monitors

\* What a label says of the locals and of the tables.
Stage(p) ==
  /\ pc[p] = "lookup" => p \in Clis
  /\ pc[p] \in {"lookup", "reserve", "enqueue"} => SubjectFits(p)
  /\ pc[p] = "next" => p \in Services
  /\ pc[p] \in {"next", "reserve", "enqueue"} /\ p \in Services => loc[p].second \in Seconds
  /\ pc[p] = "alert" => loc[p].subject \in Alerts
  /\ pc[p] = "enqueue" => loc[p].subject \in keys /\ ~IsQueuedOrOver(loc[p].subject)
  /\ pc[p] = "audit" => \/ loc[p].subject \in Repairs /\ IsQueuedOrOver(loc[p].subject)
                        \/ loc[p].subject \in alerts

HeldAlone ==
  \A p, q \in Procs :
    pc[p] = "enqueue" /\ pc[q] = "enqueue" /\ loc[q].subject = loc[p].subject => p = q

KeysInv ==
  /\ ProducersTypeOK
  /\ HeldAlone
  /\ second \in Seconds
  /\ \A p \in Procs : Stage(p)
  /\ \A k \in Keys : IsQueuedOrOver(k) => k \in keys

-----------------------------------------------------------------------------
LEMMA SubjectsAreKeys ==
  ASSUME NEW p \in Procs, SubjectFits(p)
  PROVE  loc[p].subject \in Keys
  BY DEF SubjectFits, Procs, Keys

\* A repair is never the key of a request or of a refresh.
LEMMA RepairsAreNoSources == Sources \cap Repairs = {}
  <1> SUFFICES ASSUME NEW k \in Sources, k \in Repairs PROVE FALSE
    OBVIOUS
  <1>1. k[1] \in {"start", "resume", "scheduled"}
    BY DEF Sources, StartKey, ResumeKey, ScheduledKey
  <1>2. k[1] = "repair"
    BY DEF Repairs, RepairKey
  <1>3. QED
    BY <1>1, <1>2

LEMMA StartKeys == \A r \in Requests : StartKey(r) \in Sources /\ ResumeKey(r) \in Sources
  BY DEF Sources

LEMMA RepairKeys ==
  \A k \in Sources, code \in REPAIRABLE_FAILURES : RepairKey(k, code) \in Repairs
  BY DEF Repairs

LEMMA RefreshKeys == \A t \in Topics, s \in Seconds : ScheduledKey(t, s) \in Sources
  BY DEF Sources

\* The locals after an assignment to their subject.
LEMMA SubjectAssigned ==
  ASSUME NEW p \in Procs, loc \in [Procs -> ProducerLocals],
         NEW subject \in Keys \cup Alerts \cup {None},
         loc' = [loc EXCEPT ![p].subject = subject]
  PROVE  /\ loc' \in [Procs -> ProducerLocals]
         /\ loc'[p].subject = subject
         /\ loc'[p].second = loc[p].second
         /\ loc'[p].batch = loc[p].batch
         /\ loc'[p].todo = loc[p].todo
         /\ \A q \in Procs \ {p} : loc'[q] = loc[q]
  BY DEF ProducerLocals

LEMMA NoLocalsAreLocals == NoLocals \in ProducerLocals
  BY DEF NoLocals, ProducerLocals

\* Leaving keeps everything that KeysInv says of the process.
LEMMA LeavingKeepsStage ==
  ASSUME KeysInv, NEW p \in Procs, Leave(p)
  PROVE  /\ pc' = [pc EXCEPT ![p] = "idle"]
         /\ pc' \in [Procs -> Labels]
         /\ loc' \in [Procs -> ProducerLocals]
         /\ pc'[p] = "idle"
         /\ \A q \in Procs \ {p} : pc'[q] = pc[q] /\ loc'[q] = loc[q]
  BY NoLocalsAreLocals DEF KeysInv, ProducersTypeOK, Leave, Goto, Labels

LEMMA GoingKeepsLabels ==
  ASSUME KeysInv, NEW p \in Procs, NEW label \in Labels, Goto(p, label)
  PROVE  /\ pc' \in [Procs -> Labels]
         /\ pc'[p] = label
         /\ \A q \in Procs \ {p} : pc'[q] = pc[q]
  BY DEF KeysInv, ProducersTypeOK, Goto

\* Nobody takes a row or a key away, and a process that does not move sees its
\* stage unchanged, unless its job was inserted by somebody else.
LEMMA OthersKeepStage ==
  ASSUME KeysInv, NEW q \in Procs, pc'[q] = pc[q], loc'[q] = loc[q],
         keys \subseteq keys', alerts \subseteq alerts',
         \A k \in Keys : IsQueuedOrOver(k) => IsQueuedOrOver(k)',
         pc[q] = "enqueue" => ~IsQueuedOrOver(loc[q].subject)'
  PROVE  Stage(q)'
  <1>1. Stage(q)
    BY DEF KeysInv
  <1>2. SubjectFits(q) => SubjectFits(q)'
    BY DEF SubjectFits
  <1>3. loc[q].subject \in Repairs /\ IsQueuedOrOver(loc[q].subject)
          => loc'[q].subject \in Repairs /\ IsQueuedOrOver(loc[q].subject)'
    BY DEF Keys
  <1>4. QED
    BY <1>1, <1>2, <1>3 DEF Stage, IsQueuedOrOver

-----------------------------------------------------------------------------
(* KeysInv is inductive.  Only what a step changes is looked at.           *)

\* A step of p that changes nothing but where p is.
LEMMA MovingKeepsKeys ==
  ASSUME KeysInv, NEW p \in Procs, UNCHANGED <<tables, second, cut, deployed>>,
         pc' \in [Procs -> Labels], loc' \in [Procs -> ProducerLocals],
         pc'[p] # "enqueue", Stage(p)',
         \A q \in Procs \ {p} : pc'[q] = pc[q] /\ loc'[q] = loc[q]
  PROVE  KeysInv'
  <1>1. ASSUME NEW q \in Procs PROVE Stage(q)'
    <2>1. CASE q = p
      BY <2>1
    <2>2. CASE q # p
      <3>1. Stage(q)
        BY DEF KeysInv
      <3>2. pc'[q] = pc[q] /\ loc'[q] = loc[q]
        BY <2>2
      <3>3. QED
        BY <3>1, <3>2 DEF Stage, SubjectFits, IsQueuedOrOver, tables
    <2>3. QED
      BY <2>1, <2>2
  <1>2. ProducersTypeOK'
    BY DEF KeysInv, ProducersTypeOK, tables
  <1>3. HeldAlone'
    BY DEF KeysInv, HeldAlone
  <1>4. QED
    BY <1>1, <1>2, <1>3 DEF KeysInv, tables, IsQueuedOrOver

\* A process that is idle after a step has nothing to answer for.
LEMMA IdleStage == ASSUME NEW p \in Procs, pc'[p] = "idle" PROVE Stage(p)'
  BY DEF Stage

LEMMA LeavingKeepsKeys ==
  ASSUME KeysInv, NEW p \in Procs, Leave(p), UNCHANGED <<tables, second, cut, deployed>>
  PROVE  KeysInv'
  BY LeavingKeepsStage, IdleStage, MovingKeepsKeys

LEMMA TakingUpKeepsKeys ==
  ASSUME KeysInv, NEW p \in Procs, NEW subject \in Keys \cup Alerts, NEW label \in Labels,
         TakeUp(p, subject, label), UNCHANGED <<tables, second, cut, deployed>>,
         \/ p \in Clis /\ label = "lookup" /\ subject \in Sources
         \/ p \in Operators /\ label = "reserve" /\ subject \in Repairs
         \/ p \in Monitors /\ label = "alert" /\ subject \in Alerts
  PROVE  KeysInv'
  <1>1. /\ loc' \in [Procs -> ProducerLocals]
        /\ loc'[p].subject = subject
        /\ \A q \in Procs \ {p} : loc'[q] = loc[q]
    BY SubjectAssigned DEF TakeUp, KeysInv, ProducersTypeOK
  <1>2. /\ pc' \in [Procs -> Labels]
        /\ pc'[p] = label
        /\ \A q \in Procs \ {p} : pc'[q] = pc[q]
    BY GoingKeepsLabels DEF TakeUp
  <1>3. Stage(p)'
    BY <1>1, <1>2, ProducersAssumption DEF Stage, SubjectFits
  <1>4. QED
    BY <1>1, <1>2, <1>3, MovingKeepsKeys

LEMMA BeginKeepsKeys ==
  ASSUME KeysInv, NEW p \in Procs, Begin(p), UNCHANGED <<second, cut, deployed>>
  PROVE  KeysInv'
  <1>1. ASSUME NEW r \in Requests, RunStart(p, r) \/ RunResume(p, r) PROVE KeysInv'
    BY <1>1, StartKeys, TakingUpKeepsKeys DEF RunStart, RunResume, Keys, Labels
  <1>2. ASSUME NEW k \in Sources, SubmitRepairJob(p, k) PROVE KeysInv'
    <2>1. RepairKey(k, job[k].code) \in Repairs
      BY <1>2, RepairKeys DEF SubmitRepairJob
    <2>2. QED
      BY <1>2, <2>1, TakingUpKeepsKeys DEF SubmitRepairJob, Keys, Labels
  <1>3. ASSUME NEW k \in Sources, RecoverDeadLetter(p, k) PROVE KeysInv'
    <2>1. k \in Keys /\ job[k] \in JobRow /\ IsQueuedOrOver(k)
      BY <1>3 DEF RecoverDeadLetter, Keys, IsQueuedOrOver, KeysInv, ProducersTypeOK
    <2>2. [job[k] EXCEPT !.state = "queued"] \in JobRow
      BY <2>1 DEF JobRow, JobStates
    <2>3. /\ job' \in [Keys -> JobRow]
          /\ \A l \in Keys : IsQueuedOrOver(l)' <=> IsQueuedOrOver(l)
      BY <1>3, <2>1, <2>2 DEF RecoverDeadLetter, IsQueuedOrOver, KeysInv, ProducersTypeOK,
         JobRow
    <2>4. ASSUME NEW q \in Procs PROVE Stage(q)'
      <3>1. Stage(q)
        BY DEF KeysInv
      <3>2. pc[q] = "enqueue" => ~IsQueuedOrOver(loc[q].subject)'
        BY <1>3, <2>3, <3>1, SubjectsAreKeys DEF Stage, RecoverDeadLetter, IsQueuedOrOver
      <3>3. QED
        BY <1>3, <2>3, <3>2, OthersKeepStage DEF RecoverDeadLetter
    <2>5. QED
      BY <1>3, <2>3, <2>4 DEF RecoverDeadLetter, KeysInv, ProducersTypeOK, HeldAlone
  <1>4. CASE EnqueueDueRuns(p)
    <2> DEFINE batch == SelectRefreshTopics(deployed.candidates[p], deployed.limit)
               locals == [NoLocals EXCEPT !.second = second, !.batch = batch, !.todo = batch]
    <2>1. batch \subseteq Topics
      BY DEF SelectRefreshTopics, Eligible
    <2>2. second \in Nat
      BY DEF KeysInv, ProducersTypeOK
    <2>3. locals \in ProducerLocals /\ locals.second = second
      BY <2>1, <2>2, NoLocalsAreLocals DEF ProducerLocals, NoLocals
    <2> HIDE DEF locals
    <2>4. /\ loc' \in [Procs -> ProducerLocals]
          /\ loc'[p] = locals
          /\ \A q \in Procs \ {p} : loc'[q] = loc[q]
      BY <1>4, <2>3 DEF EnqueueDueRuns, KeysInv, ProducersTypeOK, locals
    <2>5. /\ pc' \in [Procs -> Labels]
          /\ pc'[p] = "next"
          /\ \A q \in Procs \ {p} : pc'[q] = pc[q]
      BY <1>4, GoingKeepsLabels DEF EnqueueDueRuns, Labels
    <2>6. Stage(p)'
      BY <1>4, <2>3, <2>4, <2>5 DEF EnqueueDueRuns, Stage, KeysInv
    <2>7. QED
      BY <1>4, <2>4, <2>5, <2>6, MovingKeepsKeys DEF EnqueueDueRuns
  <1>5. ASSUME NEW a \in Alerts, EmitAlert(p, a) PROVE KeysInv'
    BY <1>5, TakingUpKeepsKeys DEF EmitAlert, Labels
  <1>6. QED
    BY <1>1, <1>2, <1>3, <1>4, <1>5 DEF Begin

LEMMA LookUpKeepsKeys ==
  ASSUME KeysInv, NEW p \in Procs, LookUp(p), UNCHANGED <<second, cut, deployed>>
  PROVE  KeysInv'
  <1>1. CASE Leave(p)
    BY <1>1, LeavingKeepsKeys DEF LookUp
  <1>2. CASE Goto(p, "reserve") /\ UNCHANGED loc
    <2>1. /\ pc' \in [Procs -> Labels]
          /\ pc'[p] = "reserve"
          /\ \A q \in Procs \ {p} : pc'[q] = pc[q]
      BY <1>2, GoingKeepsLabels DEF Labels
    <2>2. Stage(p)'
      <3>1. SubjectFits(p) /\ p \in Clis
        BY DEF KeysInv, Stage, LookUp
      <3>2. QED
        BY <1>2, <2>1, <3>1, ProducersAssumption DEF Stage, SubjectFits
    <2>3. QED
      BY <1>2, <2>1, <2>2, MovingKeepsKeys DEF LookUp, KeysInv, ProducersTypeOK
  <1>3. QED
    BY <1>1, <1>2 DEF LookUp

LEMMA NextTopicKeepsKeys ==
  ASSUME KeysInv, NEW p \in Procs, NextTopic(p), UNCHANGED <<second, cut, deployed>>
  PROVE  KeysInv'
  <1>1. loc[p] \in ProducerLocals /\ p \in Services /\ loc[p].second \in Seconds
    BY DEF KeysInv, ProducersTypeOK, Stage, NextTopic
  <1>2. CASE Leave(p)
    BY <1>2, LeavingKeepsKeys DEF NextTopic
  <1>3. ASSUME NEW t \in loc[p].todo, Goto(p, "next"),
               loc' = [loc EXCEPT ![p].todo = @ \ {t}]
        PROVE  KeysInv'
    <2>1. /\ loc' \in [Procs -> ProducerLocals]
          /\ loc'[p].second = loc[p].second
          /\ \A q \in Procs \ {p} : loc'[q] = loc[q]
      BY <1>1, <1>3 DEF ProducerLocals, KeysInv, ProducersTypeOK
    <2>2. /\ pc' \in [Procs -> Labels]
          /\ pc'[p] = "next"
          /\ \A q \in Procs \ {p} : pc'[q] = pc[q]
      BY <1>3, GoingKeepsLabels DEF Labels
    <2>3. Stage(p)'
      BY <1>1, <2>1, <2>2 DEF Stage
    <2>4. QED
      BY <2>1, <2>2, <2>3, MovingKeepsKeys DEF NextTopic
  <1>4. ASSUME NEW t \in loc[p].todo, Goto(p, "reserve"),
               loc' = [loc EXCEPT ![p].todo = @ \ {t},
                                  ![p].subject = ScheduledKey(t, loc[p].second)]
        PROVE  KeysInv'
    <2> DEFINE key == ScheduledKey(t, loc[p].second)
    <2>1. t \in Topics /\ key \in Sources
      BY <1>1, RefreshKeys DEF ProducerLocals
    <2> HIDE DEF key
    <2>2. /\ loc' \in [Procs -> ProducerLocals]
          /\ loc'[p].second = loc[p].second
          /\ loc'[p].subject = key
          /\ \A q \in Procs \ {p} : loc'[q] = loc[q]
      BY <1>1, <1>4, <2>1 DEF ProducerLocals, KeysInv, ProducersTypeOK, key, Keys
    <2>3. /\ pc' \in [Procs -> Labels]
          /\ pc'[p] = "reserve"
          /\ \A q \in Procs \ {p} : pc'[q] = pc[q]
      BY <1>4, GoingKeepsLabels DEF Labels
    <2>4. Stage(p)'
      BY <1>1, <2>1, <2>2, <2>3, ProducersAssumption DEF Stage, SubjectFits
    <2>5. QED
      BY <2>2, <2>3, <2>4, MovingKeepsKeys DEF NextTopic
  <1>5. QED
    BY <1>2, <1>3, <1>4 DEF NextTopic

LEMMA ReserveKeepsKeys ==
  ASSUME KeysInv, NEW p \in Procs, Reserve(p), UNCHANGED <<second, cut, deployed>>
  PROVE  KeysInv'
  <1> DEFINE key == loc[p].subject
  <1>1. CASE Leave(p) /\ UNCHANGED keys
    BY <1>1, LeavingKeepsKeys DEF Reserve, tables
  <1>2. CASE key \notin keys /\ keys' = keys \cup {key} /\ Goto(p, "enqueue") /\ UNCHANGED loc
    <2>1. /\ pc' \in [Procs -> Labels]
          /\ pc'[p] = "enqueue"
          /\ \A q \in Procs \ {p} : pc'[q] = pc[q]
      BY <1>2, GoingKeepsLabels DEF Labels
    <2>2. SubjectFits(p) /\ key \in Keys /\ (p \in Services => loc[p].second \in Seconds)
      BY SubjectsAreKeys DEF KeysInv, Stage, Reserve
    <2>3. ~IsQueuedOrOver(key)
      BY <1>2, <2>2 DEF KeysInv
    <2>4. Stage(p)'
      BY <1>2, <2>1, <2>2, <2>3 DEF Stage, SubjectFits, IsQueuedOrOver, Reserve
    <2>5. ASSUME NEW q \in Procs \ {p} PROVE Stage(q)'
      <3>1. Stage(q)
        BY DEF KeysInv
      <3>2. QED
        BY <1>2, <2>1, <3>1 DEF Stage, SubjectFits, IsQueuedOrOver, Reserve
    <2>6. HeldAlone'
      <3>1. \A q \in Procs : pc[q] = "enqueue" => loc[q].subject \in keys
        BY DEF KeysInv, Stage
      <3>2. QED
        BY <1>2, <2>1, <3>1 DEF KeysInv, HeldAlone
    <2>7. ProducersTypeOK'
      BY <1>2, <2>1, <2>2 DEF KeysInv, ProducersTypeOK, Reserve
    <2>8. QED
      BY <1>2, <2>4, <2>5, <2>6, <2>7 DEF KeysInv, IsQueuedOrOver, Reserve
  <1>3. QED
    BY <1>1, <1>2 DEF Reserve

LEMMA EnqueueKeepsKeys ==
  ASSUME KeysInv, NEW p \in Procs, Enqueue(p), UNCHANGED <<second, cut, deployed>>
  PROVE  KeysInv'
  <1> DEFINE key == loc[p].subject
             row == [NoJob EXCEPT !.state = "queued", !.objective = ObjectiveOf(p)]
  <1>1. SubjectFits(p) /\ key \in Keys /\ key \in keys /\ ~IsQueuedOrOver(key)
        /\ (p \in Services => loc[p].second \in Seconds)
    BY SubjectsAreKeys DEF KeysInv, Stage, Enqueue
  <1>2. row \in JobRow /\ row.state = "queued"
    <2>1. ObjectiveOf(p) \subseteq AllReasons
      BY DEF ObjectiveOf, Reasons, AllReasons
    <2>2. QED
      BY <2>1 DEF NoJob, JobRow, JobStates, Codes
  <1> HIDE DEF row
  <1>3. /\ job' \in [Keys -> JobRow]
        /\ job'[key].state = "queued"
        /\ \A k \in Keys \ {key} : job'[k] = job[k]
    BY <1>1, <1>2 DEF Enqueue, KeysInv, ProducersTypeOK, row
  <1>4. /\ pc' \in [Procs -> Labels]
        /\ loc' \in [Procs -> ProducerLocals]
        /\ pc'[p] # "enqueue"
        /\ \A q \in Procs \ {p} : pc'[q] = pc[q] /\ loc'[q] = loc[q]
        /\ \/ pc'[p] = "idle"
           \/ pc'[p] = "audit" /\ p \in Operators /\ loc' = loc
           \/ pc'[p] = "next" /\ p \in Services /\ loc' = loc
    BY LeavingKeepsStage, GoingKeepsLabels DEF Enqueue, AfterEnqueue, Labels, KeysInv,
       ProducersTypeOK
  <1>5. Stage(p)'
    <2>1. CASE pc'[p] = "idle"
      BY <2>1, IdleStage
    <2>2. CASE pc'[p] = "audit" /\ p \in Operators /\ loc' = loc
      BY <1>1, <1>3, <2>2 DEF Stage, SubjectFits, IsQueuedOrOver
    <2>3. CASE pc'[p] = "next" /\ p \in Services /\ loc' = loc
      BY <1>1, <2>3 DEF Stage
    <2>4. QED
      BY <1>4, <2>1, <2>2, <2>3
  <1>6. ASSUME NEW q \in Procs \ {p} PROVE Stage(q)'
    <2>1. Stage(q) /\ (pc[q] = "enqueue" => loc[q].subject # key)
      BY DEF KeysInv, HeldAlone, Enqueue
    <2>2. pc[q] = "enqueue" => loc[q].subject \in Keys
      BY <2>1, SubjectsAreKeys DEF Stage
    <2>3. pc[q] = "enqueue" => ~IsQueuedOrOver(loc[q].subject)'
      BY <1>3, <1>4, <2>1, <2>2 DEF Stage, IsQueuedOrOver
    <2>4. \A k \in Keys : IsQueuedOrOver(k) => IsQueuedOrOver(k)'
      BY <1>1, <1>3 DEF IsQueuedOrOver
    <2>5. QED
      BY <1>4, <2>3, <2>4, OthersKeepStage DEF Enqueue
  <1>7. HeldAlone'
    BY <1>4 DEF HeldAlone, KeysInv
  <1>8. ProducersTypeOK'
    BY <1>3, <1>4 DEF KeysInv, ProducersTypeOK, Enqueue
  <1>9. \A k \in Keys : IsQueuedOrOver(k)' => k \in keys'
    BY <1>1, <1>3 DEF KeysInv, IsQueuedOrOver, Enqueue
  <1>10. QED
    BY <1>5, <1>6, <1>7, <1>8, <1>9 DEF KeysInv

\* The steps that write to the alerts or to the audit log only.
LEMMA LoggingKeepsKeys ==
  ASSUME KeysInv, NEW p \in Procs, RecordAlert(p) \/ Audit(p),
         UNCHANGED <<second, cut, deployed>>
  PROVE  KeysInv'
  <1>1. /\ pc' \in [Procs -> Labels]
        /\ loc' \in [Procs -> ProducerLocals]
        /\ \A q \in Procs \ {p} : pc'[q] = pc[q] /\ loc'[q] = loc[q]
        /\ \/ pc'[p] = "idle"
           \/ pc'[p] = "audit" /\ loc' = loc /\ loc[p].subject \in alerts'
    BY LeavingKeepsStage, GoingKeepsLabels DEF RecordAlert, Audit, Labels, KeysInv,
       ProducersTypeOK
  <1>2. alerts \subseteq alerts' /\ alerts' \subseteq Alerts /\ UNCHANGED <<keys, job>>
    BY DEF RecordAlert, Audit, KeysInv, ProducersTypeOK, Stage
  <1>3. audits' \subseteq Repairs \cup Alerts
    <2>1. pc[p] = "audit" => loc[p].subject \in Repairs \cup Alerts
      BY DEF KeysInv, Stage, ProducersTypeOK
    <2>2. QED
      BY <2>1 DEF RecordAlert, Audit, KeysInv, ProducersTypeOK
  <1>4. ASSUME NEW q \in Procs PROVE Stage(q)'
    <2>1. CASE q = p
      BY <1>1, <2>1, IdleStage DEF Stage
    <2>2. CASE q # p
      <3>1. Stage(q)
        BY DEF KeysInv
      <3>2. pc'[q] = pc[q] /\ loc'[q] = loc[q]
        BY <1>1, <2>2
      <3>3. QED
        BY <1>2, <3>1, <3>2 DEF Stage, SubjectFits, IsQueuedOrOver
    <2>3. QED
      BY <2>1, <2>2
  <1>5. HeldAlone'
    BY <1>1 DEF HeldAlone, KeysInv
  <1>6. ProducersTypeOK'
    BY <1>1, <1>2, <1>3 DEF KeysInv, ProducersTypeOK
  <1>7. QED
    BY <1>2, <1>4, <1>5, <1>6 DEF KeysInv, IsQueuedOrOver

LEMMA ExecuteKeepsKeys ==
  ASSUME KeysInv, NEW k \in Sources, Execute(k), UNCHANGED <<second, cut, deployed>>
  PROVE  KeysInv'
  <1>1. k \in Keys /\ job[k] \in JobRow /\ IsQueuedOrOver(k)
    BY DEF Execute, Keys, IsQueuedOrOver, KeysInv, ProducersTypeOK
  <1>2. job' \in [Keys -> JobRow] /\ \A l \in Keys : IsQueuedOrOver(l)' <=> IsQueuedOrOver(l)
    <2>1. CASE job' = [job EXCEPT ![k].state = "completed"]
      <3>1. [job[k] EXCEPT !.state = "completed"] \in JobRow
        BY <1>1 DEF JobRow, JobStates
      <3>2. QED
        BY <1>1, <2>1, <3>1 DEF IsQueuedOrOver, KeysInv, ProducersTypeOK, JobRow
    <2>2. ASSUME NEW code \in Codes,
                 job' = [job EXCEPT ![k].state = "dead_letter", ![k].code = code]
          PROVE  job' \in [Keys -> JobRow]
                 /\ \A l \in Keys : IsQueuedOrOver(l)' <=> IsQueuedOrOver(l)
      <3>1. [job[k] EXCEPT !.state = "dead_letter", !.code = code] \in JobRow
        BY <1>1 DEF JobRow, JobStates
      <3>2. QED
        BY <1>1, <2>2, <3>1 DEF IsQueuedOrOver, KeysInv, ProducersTypeOK, JobRow
    <2>3. QED
      BY <2>1, <2>2 DEF Execute
  <1>3. ASSUME NEW q \in Procs PROVE Stage(q)'
    <2>1. Stage(q)
      BY DEF KeysInv
    <2>2. pc[q] = "enqueue" => ~IsQueuedOrOver(loc[q].subject)'
      BY <1>2, <2>1, SubjectsAreKeys DEF Stage, Execute, IsQueuedOrOver
    <2>3. QED
      BY <1>2, <2>2, OthersKeepStage DEF Execute
  <1>4. QED
    BY <1>2, <1>3 DEF Execute, KeysInv, ProducersTypeOK, HeldAlone

LEMMA CrashKeepsKeys ==
  ASSUME KeysInv, NEW p \in Procs, Crash(p), UNCHANGED deployed
  PROVE  KeysInv'
  <1>1. /\ pc' \in [Procs -> Labels]
        /\ loc' \in [Procs -> ProducerLocals]
        /\ pc'[p] = "idle"
        /\ \A q \in Procs \ {p} : pc'[q] = pc[q] /\ loc'[q] = loc[q]
    BY LeavingKeepsStage DEF Crash
  <1>2. cut' \in SUBSET (Labels \X (Keys \cup Alerts \cup {None}))
    BY DEF Crash, KeysInv, ProducersTypeOK, ProducerLocals
  <1>3. ASSUME NEW q \in Procs PROVE Stage(q)'
    <2>1. CASE q = p
      BY <1>1, <2>1, IdleStage
    <2>2. CASE q # p
      <3>1. Stage(q)
        BY DEF KeysInv
      <3>2. QED
        BY <1>1, <2>2, <3>1 DEF Stage, SubjectFits, IsQueuedOrOver, Crash, tables
    <2>3. QED
      BY <2>1, <2>2
  <1>4. HeldAlone'
    BY <1>1 DEF HeldAlone, KeysInv
  <1>5. QED
    BY <1>1, <1>2, <1>3, <1>4 DEF KeysInv, ProducersTypeOK, IsQueuedOrOver, Crash, tables

LEMMA TickKeepsKeys ==
  ASSUME KeysInv, Tick, UNCHANGED deployed
  PROVE  KeysInv'
  <1>1. second' \in Seconds
    <2>1. deployed.until \in Seconds
      BY ProducersAssumption DEF KeysInv, ProducersTypeOK
    <2>2. QED
      BY <2>1, ProducersAssumption DEF Tick, KeysInv, Seconds
  <1>2. \A q \in Procs : Stage(q)'
    BY DEF KeysInv, Stage, SubjectFits, IsQueuedOrOver, Tick, tables
  <1>3. QED
    BY <1>1, <1>2 DEF KeysInv, ProducersTypeOK, HeldAlone, IsQueuedOrOver, Tick, tables,
       Seconds

LEMMA InitHasKeys == Init => KeysInv
  <1> SUFFICES ASSUME Init PROVE KeysInv
    OBVIOUS
  <1>1. deployed.until \in Seconds
    BY ProducersAssumption DEF Init
  <1>2. 1 \in Seconds
    BY <1>1, ProducersAssumption DEF Seconds
  <1>3. NoJob \in JobRow
    BY DEF NoJob, JobRow, JobStates, Codes
  <1>4. ProducersTypeOK
    BY <1>2, <1>3, NoLocalsAreLocals DEF Init, ProducersTypeOK, Labels, Seconds
  <1>5. QED
    BY <1>2, <1>4 DEF Init, KeysInv, HeldAlone, Stage, IsQueuedOrOver, NoJob

LEMMA NextKeepsKeys == KeysInv /\ [Next]_producerVars => KeysInv'
  <1> SUFFICES ASSUME KeysInv, [Next]_producerVars PROVE KeysInv'
    OBVIOUS
  <1>1. deployed.procs \subseteq Procs
    BY ProducersAssumption DEF KeysInv, ProducersTypeOK
  <1>2. ASSUME NEW p \in Procs, Begin(p), UNCHANGED <<second, cut, deployed>> PROVE KeysInv'
    BY <1>2, BeginKeepsKeys
  <1>3. ASSUME NEW p \in Procs, ProducerStep(p), UNCHANGED <<second, cut, deployed>>
        PROVE  KeysInv'
    BY <1>3, LookUpKeepsKeys, NextTopicKeepsKeys, ReserveKeepsKeys, EnqueueKeepsKeys,
       LoggingKeepsKeys DEF ProducerStep
  <1>4. ASSUME NEW k \in Sources, Execute(k), UNCHANGED <<second, cut, deployed>>
        PROVE  KeysInv'
    BY <1>4, ExecuteKeepsKeys
  <1>5. ASSUME NEW p \in Procs, Crash(p), UNCHANGED deployed PROVE KeysInv'
    BY <1>5, CrashKeepsKeys
  <1>6. CASE Tick /\ UNCHANGED deployed
    BY <1>6, TickKeepsKeys
  <1>7. CASE UNCHANGED producerVars
    <2>1. \A q \in Procs : Stage(q)'
      BY <1>7 DEF KeysInv, Stage, SubjectFits, IsQueuedOrOver, producerVars, tables
    <2>2. QED
      BY <1>7, <2>1 DEF KeysInv, ProducersTypeOK, HeldAlone, IsQueuedOrOver, producerVars,
         tables
  <1>8. QED
    BY <1>1, <1>2, <1>3, <1>4, <1>5, <1>6, <1>7 DEF Next

\* For any requests, topics, repairs and producers: whoever is about to insert a
\* job has its key alone, and a job has a key.
THEOREM ProducersHoldKeys == Spec => []KeysInv
  BY InitHasKeys, NextKeepsKeys, PTL DEF Spec

\* The tables and the locals of the producers keep their types; only repairable
\* dead letters are repaired.
THEOREM ProducersTypes == Spec => []ProducersTypeOK
  <1>1. KeysInv => ProducersTypeOK
    BY DEF KeysInv
  <1>2. QED
    BY <1>1, ProducersHoldKeys, PTL

-----------------------------------------------------------------------------
(* What a step does to the work in hand: it goes on, is done, or is cut    *)
(* short by a crash; and new keys, repairs and alerts come with somebody   *)
(* who has the rest of the work in hand.                                   *)

\* A subject that is in hand at a label, and its work is done when Done holds.
GoesOn(label, Done) ==
  \A q \in Procs : pc[q] = label =>
    \/ pc'[q] = label /\ loc'[q] = loc[q]
    \/ loc[q].subject \in Done
    \/ <<label, loc[q].subject>> \in cut'

TakenUp(label, New) ==
  \A subject \in New : \E q \in Procs : pc'[q] = label /\ loc'[q].subject = subject

Queued == {k \in Keys : IsQueuedOrOver(k)}

WorkGoesOn ==
  /\ keys \subseteq keys' /\ alerts \subseteq alerts' /\ audits \subseteq audits'
  /\ cut \subseteq cut'
  /\ Queued \subseteq Queued'
  /\ GoesOn("enqueue", Queued') /\ TakenUp("enqueue", keys' \ keys)
  /\ GoesOn("audit", audits')
  /\ TakenUp("audit", ((Repairs \cap Queued') \ Queued) \cup (alerts' \ alerts))
  /\ audits' \ audits \subseteq alerts \cup keys

\* A step of p that writes nothing but its place, and had nothing in hand.
LEMMA MovingGoesOn ==
  ASSUME NEW p \in Procs, pc[p] \notin {"enqueue", "audit"},
         UNCHANGED <<keys, alerts, audits, cut>>, Queued' = Queued,
         \A q \in Procs \ {p} : pc'[q] = pc[q] /\ loc'[q] = loc[q]
  PROVE  WorkGoesOn
  BY DEF WorkGoesOn, GoesOn, TakenUp

LEMMA OthersStay ==
  ASSUME KeysInv, NEW p \in Procs, NEW label, NEW locals,
         pc' = [pc EXCEPT ![p] = label],
         loc' = [loc EXCEPT ![p] = locals] \/ UNCHANGED loc
  PROVE  \A q \in Procs \ {p} : pc'[q] = pc[q] /\ loc'[q] = loc[q]
  BY DEF KeysInv, ProducersTypeOK

LEMMA BeginGoesOn ==
  ASSUME KeysInv, NEW p \in Procs, Begin(p), UNCHANGED cut
  PROVE  WorkGoesOn
  <1>1. /\ pc[p] = "idle"
        /\ UNCHANGED <<keys, alerts, audits>>
        /\ \A q \in Procs \ {p} : pc'[q] = pc[q] /\ loc'[q] = loc[q]
    BY DEF Begin, RunStart, RunResume, SubmitRepairJob, RecoverDeadLetter, EnqueueDueRuns,
       EmitAlert, TakeUp, Goto, tables, KeysInv, ProducersTypeOK
  <1>2. Queued' = Queued
    <2>1. ASSUME NEW k \in Sources, RecoverDeadLetter(p, k) PROVE Queued' = Queued
      BY <2>1 DEF RecoverDeadLetter, Queued, IsQueuedOrOver, KeysInv, ProducersTypeOK, JobRow
    <2>2. QED
      BY <2>1 DEF Begin, RunStart, RunResume, SubmitRepairJob, EnqueueDueRuns, EmitAlert,
         tables, Queued, IsQueuedOrOver
  <1>3. QED
    BY <1>1, <1>2, MovingGoesOn

LEMMA StepGoesOn ==
  ASSUME KeysInv, NEW p \in Procs, ProducerStep(p), UNCHANGED cut
  PROVE  WorkGoesOn
  <1> DEFINE subject == loc[p].subject
  <1>1. \A q \in Procs \ {p} : pc'[q] = pc[q] /\ loc'[q] = loc[q]
    BY DEF ProducerStep, LookUp, NextTopic, Reserve, Enqueue, AfterEnqueue, RecordAlert, Audit,
       Leave, Goto, KeysInv, ProducersTypeOK
  <1>2. CASE LookUp(p) \/ NextTopic(p)
    BY <1>1, <1>2, MovingGoesOn DEF LookUp, NextTopic, tables, Queued, IsQueuedOrOver
  <1>3. CASE Reserve(p)
    <2>1. Queued' = Queued /\ UNCHANGED <<alerts, audits>> /\ pc[p] = "reserve"
      BY <1>3 DEF Reserve, Queued, IsQueuedOrOver
    <2>2. CASE UNCHANGED keys
      BY <1>1, <2>1, <2>2, MovingGoesOn
    <2>3. CASE keys' = keys \cup {subject} /\ Goto(p, "enqueue") /\ UNCHANGED loc
      <3>1. pc'[p] = "enqueue" /\ loc'[p].subject = subject
        BY <2>3 DEF Goto, KeysInv, ProducersTypeOK
      <3>2. QED
        BY <1>1, <2>1, <2>3, <3>1 DEF WorkGoesOn, GoesOn, TakenUp
    <2>4. QED
      BY <1>3, <2>2, <2>3 DEF Reserve
  <1>4. CASE Enqueue(p)
    <2>1. SubjectFits(p) /\ subject \in Keys
      BY <1>4, SubjectsAreKeys DEF KeysInv, Stage, Enqueue
    <2>2. /\ Queued' = Queued \cup {subject}
          /\ UNCHANGED <<keys, alerts, audits>>
          /\ pc[p] = "enqueue"
      BY <1>4, <2>1 DEF Enqueue, Queued, IsQueuedOrOver, NoJob, KeysInv, ProducersTypeOK
    <2>3. subject \in Repairs => pc'[p] = "audit" /\ loc'[p].subject = subject
      BY <1>4, <2>1, RepairsAreNoSources DEF Enqueue, AfterEnqueue, SubjectFits, Goto, KeysInv,
         ProducersTypeOK
    <2>4. QED
      BY <1>1, <2>2, <2>3 DEF WorkGoesOn, GoesOn, TakenUp
  <1>5. CASE RecordAlert(p)
    <2>1. Queued' = Queued /\ UNCHANGED <<keys, audits>> /\ pc[p] = "alert"
      BY <1>5 DEF RecordAlert, Queued, IsQueuedOrOver
    <2>2. /\ alerts' = alerts \cup {subject}
          /\ subject \notin alerts => pc'[p] = "audit" /\ loc'[p].subject = subject
      BY <1>5 DEF RecordAlert, Goto, KeysInv, ProducersTypeOK
    <2>3. QED
      BY <1>1, <2>1, <2>2 DEF WorkGoesOn, GoesOn, TakenUp
  <1>6. CASE Audit(p)
    <2>1. /\ Queued' = Queued
          /\ UNCHANGED <<keys, alerts>>
          /\ audits' = audits \cup {subject}
          /\ pc[p] = "audit"
      BY <1>6 DEF Audit, Queued, IsQueuedOrOver
    <2>2. subject \in alerts \cup keys
      BY <2>1 DEF KeysInv, Stage, Keys
    <2>3. QED
      BY <1>1, <2>1, <2>2 DEF WorkGoesOn, GoesOn, TakenUp
  <1>7. QED
    BY <1>2, <1>3, <1>4, <1>5, <1>6 DEF ProducerStep

LEMMA ExecuteGoesOn ==
  ASSUME KeysInv, NEW k \in Sources, Execute(k), UNCHANGED cut
  PROVE  WorkGoesOn
  <1>1. Queued' = Queued
    BY DEF Execute, Queued, IsQueuedOrOver, KeysInv, ProducersTypeOK, JobRow
  <1>2. QED
    BY <1>1 DEF Execute, WorkGoesOn, GoesOn, TakenUp

LEMMA CrashGoesOn ==
  ASSUME KeysInv, NEW p \in Procs, Crash(p)
  PROVE  WorkGoesOn
  <1>1. \A q \in Procs \ {p} : pc'[q] = pc[q] /\ loc'[q] = loc[q]
    BY LeavingKeepsStage DEF Crash
  <1>2. Queued' = Queued /\ UNCHANGED <<keys, alerts, audits>>
    BY DEF Crash, tables, Queued, IsQueuedOrOver
  <1>3. cut' = cut \cup {<<pc[p], loc[p].subject>>}
    BY DEF Crash
  <1>4. QED
    BY <1>1, <1>2, <1>3 DEF WorkGoesOn, GoesOn, TakenUp

LEMMA NextGoesOn == KeysInv /\ [Next]_producerVars => WorkGoesOn
  <1> SUFFICES ASSUME KeysInv, [Next]_producerVars PROVE WorkGoesOn
    OBVIOUS
  <1>1. deployed.procs \subseteq Procs
    BY ProducersAssumption DEF KeysInv, ProducersTypeOK
  <1>2. CASE Tick \/ UNCHANGED producerVars
    BY <1>2 DEF Tick, producerVars, tables, WorkGoesOn, GoesOn, TakenUp, Queued, IsQueuedOrOver
  <1>3. QED
    BY <1>1, <1>2, BeginGoesOn, StepGoesOn, ExecuteGoesOn, CrashGoesOn DEF Next

\* Given what is said of the work, every key is accounted for, and every act.
KeysAreAccountedFor ==
  \A k \in keys : \/ IsQueuedOrOver(k)
                 \/ At("enqueue", k)
                 \/ <<"enqueue", k>> \in cut

LEMMA AccountIsKept ==
  ASSUME KeysInv, WorkGoesOn, KeysAreAccountedFor, keys' \subseteq Keys
  PROVE  KeysAreAccountedFor'
  <1> SUFFICES ASSUME NEW k \in keys'
               PROVE  \/ k \in Queued'
                      \/ \E q \in Procs : pc'[q] = "enqueue" /\ loc'[q].subject = k
                      \/ <<"enqueue", k>> \in cut'
    BY DEF KeysAreAccountedFor, At, Queued, IsQueuedOrOver
  <1>1. CASE k \notin keys
    BY <1>1 DEF WorkGoesOn, TakenUp
  <1>2. CASE k \in keys /\ IsQueuedOrOver(k)
    BY <1>2 DEF WorkGoesOn, Queued
  <1>3. CASE k \in keys /\ At("enqueue", k)
    BY <1>3 DEF WorkGoesOn, GoesOn, At
  <1>4. CASE <<"enqueue", k>> \in cut
    BY <1>4 DEF WorkGoesOn
  <1>5. QED
    BY <1>1, <1>2, <1>3, <1>4 DEF KeysAreAccountedFor

\* For any requests, topics, repairs and producers: a reserved key has its job,
\* or exactly one producer that is about to insert it, or a crash lost it.
THEOREM NoKeyWithoutJob == Spec => []ReservedIsQueued
  <1> DEFINE Inv == KeysInv /\ KeysAreAccountedFor
  <1>1. Init => Inv
    BY InitHasKeys DEF Init, KeysAreAccountedFor
  <1>2. Inv /\ [Next]_producerVars => Inv'
    <2> SUFFICES ASSUME Inv, [Next]_producerVars PROVE Inv'
      OBVIOUS
    <2>1. KeysInv' /\ WorkGoesOn
      BY NextKeepsKeys, NextGoesOn
    <2>2. keys' \subseteq Keys
      BY <2>1 DEF KeysInv, ProducersTypeOK
    <2>3. QED
      BY <2>1, <2>2, AccountIsKept
  <1>3. Inv => ReservedIsQueued
    BY DEF ReservedIsQueued, KeysAreAccountedFor, KeysInv, HeldAlone, Stage
  <1>4. QED
    BY <1>1, <1>2, <1>3, PTL DEF Spec

\* For any repairs, alerts and producers: what was done is audited, or is about
\* to be, or its author crashed; and nothing else is audited.
THEOREM NoActWithoutAudit == Spec => []ActedIsAudited
  <1> DEFINE Inv == KeysInv /\ ActedIsAudited
  <1>1. Init => Inv
    BY InitHasKeys DEF Init, ActedIsAudited, IsQueuedOrOver, NoJob, Keys
  <1>2. Inv /\ [Next]_producerVars => Inv'
    <2> SUFFICES ASSUME Inv, [Next]_producerVars PROVE Inv'
      OBVIOUS
    <2>1. KeysInv' /\ WorkGoesOn
      BY NextKeepsKeys, NextGoesOn
    <2>2. ASSUME NEW subject \in (Repairs \cap Queued') \cup alerts'
          PROVE  \/ subject \in audits'
                 \/ \E q \in Procs : pc'[q] = "audit" /\ loc'[q].subject = subject
                 \/ <<"audit", subject>> \in cut'
      <3>1. CASE subject \notin (Repairs \cap Queued) \cup alerts
        BY <2>1, <2>2, <3>1 DEF WorkGoesOn, TakenUp
      <3>2. CASE subject \in (Repairs \cap Queued) \cup alerts
        <4>1. \/ subject \in audits
              \/ At("audit", subject)
              \/ <<"audit", subject>> \in cut
          BY <3>2 DEF ActedIsAudited, Queued
        <4>2. QED
          BY <2>1, <4>1 DEF WorkGoesOn, GoesOn, At
      <3>3. QED
        BY <3>1, <3>2
    <2>3. \A subject \in audits' : subject \in alerts' \/ subject \in keys'
      BY <2>1 DEF WorkGoesOn, ActedIsAudited
    <2>4. QED
      BY <2>1, <2>2, <2>3 DEF ActedIsAudited, At, Queued, IsQueuedOrOver, Keys
  <1>3. Inv => ActedIsAudited
    OBVIOUS
  <1>4. QED
    BY <1>1, <1>2, <1>3, PTL DEF Spec

-----------------------------------------------------------------------------
(* The order in which a scheduled refresh takes its topics is a strict     *)
(* total order that every service computes alike.  That is why services    *)
(* that give up at the first topic another one has reserved still make up  *)
(* one batch: whoever is ahead in the order carries what the others drop.  *)

ScoreTerms(c) ==
  <<IfNone(c.targets, 40), IfNone(c.challengers, 35), IfNone(c.revisions, 25),
    AtMost(30, 10 * c.conflicts), AtMost(20, 5 * c.questions), AtMost(24, 8 * c.inputs),
    AtMost(20, c.imbalance), AtMost(60, 20 * c.stagnant)>>

LEMMA PressureTerms ==
  ASSUME NEW c
  PROVE  /\ Pressure(c)["target"] = ScoreTerms(c)[1]
         /\ Pressure(c)["challenger"] = ScoreTerms(c)[2]
         /\ Pressure(c)["revision"] = ScoreTerms(c)[3]
         /\ Pressure(c)["conflicts"] = ScoreTerms(c)[4]
         /\ Pressure(c)["questions"] = ScoreTerms(c)[5]
         /\ Pressure(c)["inputs"] = ScoreTerms(c)[6]
         /\ Pressure(c)["imbalance"] = ScoreTerms(c)[7]
         /\ Pressure(c)["stagnation"] = ScoreTerms(c)[8]
  BY DEF Pressure, Terms, ScoreTerms

LEMMA TermsAreNats ==
  ASSUME NEW c \in Candidate
  PROVE  \A i \in 1..8 : ScoreTerms(c)[i] \in Nat
  <1>1. /\ \A n, w \in Nat : IfNone(n, w) \in Nat
        /\ \A n, m \in Nat : AtMost(m, n) \in Nat
    BY DEF IfNone, AtMost
  <1>2. /\ c.targets \in Nat /\ c.challengers \in Nat /\ c.revisions \in Nat
        /\ 10 * c.conflicts \in Nat /\ 5 * c.questions \in Nat /\ 8 * c.inputs \in Nat
        /\ c.imbalance \in Nat /\ 20 * c.stagnant \in Nat
    BY DEF Candidate
  <1>3. /\ IfNone(c.targets, 40) \in Nat /\ IfNone(c.challengers, 35) \in Nat
        /\ IfNone(c.revisions, 25) \in Nat /\ AtMost(30, 10 * c.conflicts) \in Nat
        /\ AtMost(20, 5 * c.questions) \in Nat /\ AtMost(24, 8 * c.inputs) \in Nat
        /\ AtMost(20, c.imbalance) \in Nat /\ AtMost(60, 20 * c.stagnant) \in Nat
    BY <1>1, <1>2
  <1>4. QED
    BY <1>3 DEF ScoreTerms

LEMMA ScoreIsNat == ASSUME NEW c \in Candidate PROVE Score(c) \in Nat
  BY PressureTerms, TermsAreNats DEF Score

\* Capping and weighing keep the order of two candidates.
LEMMA TermsAreMonotone ==
  ASSUME NEW t \in Nat, NEW u \in Nat, NEW c \in Candidate, NEW d \in Candidate,
         WorseOff(t, u, c, d)
  PROVE  /\ \A i \in 1..8 : ScoreTerms(c)[i] >= ScoreTerms(d)[i]
         /\ t < u \/ \E i \in 1..8 : ScoreTerms(c)[i] > ScoreTerms(d)[i]
  <1>1. /\ \A n, m, w \in Nat : n <= m => AtMost(w, n) <= AtMost(w, m)
        /\ \A n, m, w \in Nat : (m = 0 => n = 0) => IfNone(n, w) >= IfNone(m, w)
    BY DEF AtMost, IfNone
  <1>2. /\ c.targets \in Nat /\ c.challengers \in Nat /\ c.revisions \in Nat
        /\ c.conflicts \in Nat /\ c.questions \in Nat /\ c.inputs \in Nat
        /\ c.imbalance \in Nat /\ c.stagnant \in Nat
        /\ d.targets \in Nat /\ d.challengers \in Nat /\ d.revisions \in Nat
        /\ d.conflicts \in Nat /\ d.questions \in Nat /\ d.inputs \in Nat
        /\ d.imbalance \in Nat /\ d.stagnant \in Nat
    BY DEF Candidate
  <1>3. /\ d.targets = 0 => c.targets = 0
        /\ d.challengers = 0 => c.challengers = 0
        /\ d.revisions = 0 => c.revisions = 0
        /\ c.conflicts >= d.conflicts /\ c.questions >= d.questions
        /\ c.inputs >= d.inputs /\ c.imbalance >= d.imbalance /\ c.stagnant >= d.stagnant
    BY DEF WorseOff
  <1>4. /\ IfNone(c.targets, 40) >= IfNone(d.targets, 40)
        /\ IfNone(c.challengers, 35) >= IfNone(d.challengers, 35)
        /\ IfNone(c.revisions, 25) >= IfNone(d.revisions, 25)
    BY <1>1, <1>2, <1>3
  <1>5. /\ AtMost(30, 10 * c.conflicts) >= AtMost(30, 10 * d.conflicts)
        /\ AtMost(20, 5 * c.questions) >= AtMost(20, 5 * d.questions)
        /\ AtMost(24, 8 * c.inputs) >= AtMost(24, 8 * d.inputs)
        /\ AtMost(20, c.imbalance) >= AtMost(20, d.imbalance)
        /\ AtMost(60, 20 * c.stagnant) >= AtMost(60, 20 * d.stagnant)
    BY <1>2, <1>3 DEF AtMost
  <1>6. \A i \in 1..8 : ScoreTerms(c)[i] >= ScoreTerms(d)[i]
    BY <1>4, <1>5 DEF ScoreTerms
  <1>7. t < u \/ \E i \in 1..3 : ScoreTerms(c)[i] > ScoreTerms(d)[i]
    <2>1. \/ t < u
          \/ c.targets = 0 /\ d.targets > 0
          \/ c.challengers = 0 /\ d.challengers > 0
          \/ c.revisions = 0 /\ d.revisions > 0
      BY DEF WorseOff
    <2>2. QED
      BY <2>1, <1>2 DEF ScoreTerms, IfNone
  <1>8. QED
    BY <1>6, <1>7

LEMMA ScoreIsMonotone ==
  ASSUME NEW t \in Nat, NEW u \in Nat, NEW c \in Candidate, NEW d \in Candidate,
         WorseOff(t, u, c, d)
  PROVE  Score(c) > Score(d) \/ (Score(c) = Score(d) /\ t < u)
  <1> DEFINE sum(e) == ScoreTerms(e)[1] + ScoreTerms(e)[2] + ScoreTerms(e)[3]
                       + ScoreTerms(e)[4] + ScoreTerms(e)[5] + ScoreTerms(e)[6]
                       + ScoreTerms(e)[7] + ScoreTerms(e)[8]
  <1>1. Score(c) = sum(c)
    BY PressureTerms DEF Score, WorseOff, Candidate
  <1>2. Score(d) = sum(d) \/ Score(d) = 0
    BY PressureTerms DEF Score
  <1>3. /\ \A i \in 1..8 : ScoreTerms(c)[i] \in Nat /\ ScoreTerms(d)[i] \in Nat
        /\ \A i \in 1..8 : ScoreTerms(c)[i] >= ScoreTerms(d)[i]
        /\ t < u \/ \E i \in 1..8 : ScoreTerms(c)[i] > ScoreTerms(d)[i]
    BY TermsAreNats, TermsAreMonotone
  <1>4. sum(c) >= sum(d) /\ (t < u \/ sum(c) > sum(d))
    <2> DEFINE a(i) == ScoreTerms(c)[i]
               b(i) == ScoreTerms(d)[i]
    <2>1. /\ a(1) \in Nat /\ a(2) \in Nat /\ a(3) \in Nat /\ a(4) \in Nat
          /\ a(5) \in Nat /\ a(6) \in Nat /\ a(7) \in Nat /\ a(8) \in Nat
          /\ b(1) \in Nat /\ b(2) \in Nat /\ b(3) \in Nat /\ b(4) \in Nat
          /\ b(5) \in Nat /\ b(6) \in Nat /\ b(7) \in Nat /\ b(8) \in Nat
      BY <1>3
    <2>2. /\ a(1) >= b(1) /\ a(2) >= b(2) /\ a(3) >= b(3) /\ a(4) >= b(4)
          /\ a(5) >= b(5) /\ a(6) >= b(6) /\ a(7) >= b(7) /\ a(8) >= b(8)
      BY <1>3
    <2>3. \/ t < u
          \/ a(1) > b(1) \/ a(2) > b(2) \/ a(3) > b(3) \/ a(4) > b(4)
          \/ a(5) > b(5) \/ a(6) > b(6) \/ a(7) > b(7) \/ a(8) > b(8)
      <3>1. ASSUME NEW i \in 1..8, a(i) > b(i)
            PROVE  \/ a(1) > b(1) \/ a(2) > b(2) \/ a(3) > b(3) \/ a(4) > b(4)
                   \/ a(5) > b(5) \/ a(6) > b(6) \/ a(7) > b(7) \/ a(8) > b(8)
        <4> i = 1 \/ i = 2 \/ i = 3 \/ i = 4 \/ i = 5 \/ i = 6 \/ i = 7 \/ i = 8
          OBVIOUS
        <4> QED
          BY <3>1
      <3>2. QED
        BY <1>3, <3>1
    <2> HIDE DEF a, b
    <2>4. /\ a(1) + a(2) + a(3) + a(4) + a(5) + a(6) + a(7) + a(8)
               >= b(1) + b(2) + b(3) + b(4) + b(5) + b(6) + b(7) + b(8)
          /\ \/ t < u
             \/ a(1) + a(2) + a(3) + a(4) + a(5) + a(6) + a(7) + a(8)
                  > b(1) + b(2) + b(3) + b(4) + b(5) + b(6) + b(7) + b(8)
      BY <2>1, <2>2, <2>3
    <2>5. QED
      BY <2>4 DEF a, b
  <1>5. sum(c) \in Nat /\ sum(d) \in Nat
    BY <1>3
  <1>6. QED
    BY <1>1, <1>2, <1>4, <1>5

-----------------------------------------------------------------------------
(* The order.                                                              *)

\* A list of candidates as a service is called with.
Lists == [Topics -> Candidate]

LEMMA OutranksIsStrictOrder ==
  ASSUME NEW c \in Lists, NEW t \in Topics, NEW u \in Topics, NEW v \in Topics
  PROVE  /\ ~(Outranks(c, t, u) /\ Outranks(c, u, t))
         /\ t # u => Outranks(c, t, u) \/ Outranks(c, u, t)
         /\ (Outranks(c, t, u) /\ Outranks(c, u, v)) => Outranks(c, t, v)
  <1>1. t \in Nat /\ u \in Nat /\ v \in Nat
    BY PolicyAssumption
  <1>2. Score(c[t]) \in Nat /\ Score(c[u]) \in Nat /\ Score(c[v]) \in Nat
    BY ScoreIsNat DEF Lists
  <1>3. QED
    BY <1>1, <1>2 DEF Outranks

LEMMA SelectedAreEligible ==
  ASSUME NEW c, NEW limit
  PROVE  SelectRefreshTopics(c, limit) \subseteq Topics
  BY DEF SelectRefreshTopics, Eligible

\* What outranks a selected topic and is eligible is selected.
LEMMA SelectionIsUpwardClosed ==
  ASSUME NEW c \in Lists, NEW limit \in Nat,
         NEW u \in SelectRefreshTopics(c, limit), NEW t \in Eligible(c), Outranks(c, t, u)
  PROVE  t \in SelectRefreshTopics(c, limit)
  <1> DEFINE above(v) == {w \in Eligible(c) : Outranks(c, w, v)}
  <1>1. t \in Topics /\ u \in Topics /\ Eligible(c) \subseteq Topics
    BY SelectedAreEligible DEF Eligible
  <1>2. above(t) \subseteq above(u)
    BY <1>1, OutranksIsStrictOrder
  <1>3. IsFiniteSet(above(u)) /\ above(u) \subseteq Topics
    BY <1>1, PolicyAssumption, FS_Subset
  <1>4. /\ Cardinality(above(t)) <= Cardinality(above(u))
        /\ Cardinality(above(t)) \in Nat /\ Cardinality(above(u)) \in Nat
    BY <1>2, <1>3, FS_Subset, FS_CardinalityType
  <1>5. Cardinality(above(u)) < limit
    BY DEF SelectRefreshTopics
  <1>6. QED
    BY <1>4, <1>5 DEF SelectRefreshTopics

LEMMA WorseOffOutranks ==
  ASSUME NEW c \in Lists, NEW limit \in Nat, NEW t \in Topics, NEW u \in Topics,
         WorseOff(t, u, c[t], c[u]), u \in SelectRefreshTopics(c, limit)
  PROVE  Outranks(c, t, u) /\ t \in SelectRefreshTopics(c, limit)
  <1>1. c[t] \in Candidate /\ c[u] \in Candidate /\ t \in Nat /\ u \in Nat
    BY PolicyAssumption DEF Lists
  <1>2. Score(c[t]) > Score(c[u]) \/ (Score(c[t]) = Score(c[u]) /\ t < u)
    BY <1>1, ScoreIsMonotone
  <1>3. Outranks(c, t, u)
    BY <1>2 DEF Outranks
  <1>4. t \in Eligible(c)
    <2>1. c[u].due /\ Score(c[u]) >= MinimumScore
      BY DEF SelectRefreshTopics, Eligible
    <2>2. c[t].due
      BY DEF WorseOff
    <2>3. QED
      BY <1>1, <1>2, <2>1, <2>2, ScoreIsNat, PolicyAssumption DEF Eligible
  <1>5. QED
    BY <1>3, <1>4, SelectionIsUpwardClosed

-----------------------------------------------------------------------------
(* A call of enqueue_due_runs goes down its batch in that order.           *)

BatchOf(p) == SelectRefreshTopics(deployed.candidates[p], deployed.limit)

\* The topic at hand outranks what is to do, and is outranked by the rest.
AtHand(p, t) ==
  /\ t \in BatchOf(p) \ loc[p].todo
  /\ loc[p].subject = ScheduledKey(t, loc[p].second)
  /\ \A u \in loc[p].todo : Outranks(deployed.candidates[p], t, u)
  /\ \A u \in BatchOf(p) \ loc[p].todo : ~Outranks(deployed.candidates[p], t, u)

Turn(p) ==
  /\ p \in deployed.procs
  /\ pc[p] \in {"next", "reserve", "enqueue"}
  /\ loc[p].batch = BatchOf(p)
  /\ loc[p].todo \subseteq BatchOf(p)
  /\ \A t \in loc[p].todo, u \in BatchOf(p) :
       Outranks(deployed.candidates[p], t, u) => u \in loc[p].todo
  /\ pc[p] \in {"reserve", "enqueue"} => \E t \in BatchOf(p) : AtHand(p, t)

\* Only services touch the keys of refreshes.
TurnFits(p) ==
  IF p \in Services THEN pc[p] # "idle" => Turn(p)
  ELSE pc[p] \in {"lookup", "reserve", "enqueue"} => loc[p].subject \notin ScheduledKeys

TurnInv == \A p \in Procs : TurnFits(p)

LEMMA CandidatesAreLists ==
  ASSUME KeysInv, NEW p \in Services
  PROVE  deployed.candidates[p] \in Lists /\ deployed.limit \in Nat
  BY ProducersAssumption DEF KeysInv, ProducersTypeOK, Calls, Lists

LEMMA ScheduledKeysDiffer ==
  /\ \A t, u \in Topics, r, s \in Seconds :
       ScheduledKey(t, r) = ScheduledKey(u, s) => t = u /\ r = s
  /\ \A r \in Requests : StartKey(r) \notin ScheduledKeys /\ ResumeKey(r) \notin ScheduledKeys
  /\ Repairs \cap ScheduledKeys = {}
  <1>1. \A t, u \in Topics, r, s \in Seconds :
          ScheduledKey(t, r) = ScheduledKey(u, s) => t = u /\ r = s
    BY DEF ScheduledKey
  <1>2. \A r \in Requests : StartKey(r) \notin ScheduledKeys /\ ResumeKey(r) \notin ScheduledKeys
    <2>1. \A k \in ScheduledKeys : k[1] = "scheduled"
      BY DEF ScheduledKeys, ScheduledKey
    <2>2. \A r \in Requests : StartKey(r)[1] = "start" /\ ResumeKey(r)[1] = "resume"
      BY DEF StartKey, ResumeKey
    <2>3. QED
      BY <2>1, <2>2
  <1>3. Repairs \cap ScheduledKeys = {}
    BY RepairsAreNoSources, RefreshKeys DEF ScheduledKeys
  <1>4. QED
    BY <1>1, <1>2, <1>3

\* Whoever does not move keeps its turn.
LEMMA OthersKeepTurn ==
  ASSUME TurnInv, UNCHANGED deployed, NEW q \in Procs, pc'[q] = pc[q], loc'[q] = loc[q]
  PROVE  TurnFits(q)'
  BY DEF TurnInv, TurnFits, Turn, AtHand, BatchOf

LEMMA IdleFits == ASSUME NEW p \in Procs, pc'[p] = "idle" PROVE TurnFits(p)'
  BY DEF TurnFits

\* Everything that is not a step of a service.
LEMMA TakingUpKeepsTurns ==
  ASSUME KeysInv, TurnInv, UNCHANGED deployed, NEW p \in Procs \ Services,
         NEW label, NEW subject \in Keys \cup Alerts, TakeUp(p, subject, label),
         subject \notin ScheduledKeys
  PROVE  TurnInv'
  <1>1. pc'[p] = label /\ \A q \in Procs \ {p} : pc'[q] = pc[q]
    BY DEF TakeUp, Goto, KeysInv, ProducersTypeOK
  <1>2. loc'[p].subject = subject /\ \A q \in Procs \ {p} : loc'[q] = loc[q]
    BY SubjectAssigned DEF TakeUp, KeysInv, ProducersTypeOK
  <1>3. TurnFits(p)'
    BY <1>1, <1>2 DEF TurnFits
  <1>4. QED
    BY <1>1, <1>2, <1>3, OthersKeepTurn DEF TurnInv

\* A step of somebody else than a service that goes on with the same subject.
LEMMA GoingOnKeepsTurns ==
  ASSUME KeysInv, TurnInv, UNCHANGED deployed, NEW p \in Procs \ Services, NEW label,
         \/ Leave(p)
         \/ Goto(p, label) /\ UNCHANGED loc /\ pc[p] \in {"lookup", "reserve", "enqueue"}
         \/ Goto(p, label) /\ UNCHANGED loc /\ label = "audit"
  PROVE  TurnInv'
  <1>1. CASE Leave(p)
    BY <1>1, LeavingKeepsStage, IdleFits, OthersKeepTurn DEF TurnInv
  <1>2. CASE /\ Goto(p, label) /\ UNCHANGED loc
             /\ pc[p] \in {"lookup", "reserve", "enqueue"} \/ label = "audit"
    <2>1. pc'[p] = label /\ \A q \in Procs \ {p} : pc'[q] = pc[q]
      BY <1>2 DEF Goto, KeysInv, ProducersTypeOK
    <2>2. TurnFits(p)'
      BY <1>2, <2>1 DEF TurnInv, TurnFits
    <2>3. QED
      BY <1>2, <2>1, <2>2, OthersKeepTurn DEF TurnInv
  <1>3. QED
    BY <1>1, <1>2

LEMMA EnqueueDueRunsKeepsTurns ==
  ASSUME KeysInv, TurnInv, UNCHANGED deployed, NEW p \in Procs, EnqueueDueRuns(p),
         p \in deployed.procs
  PROVE  TurnInv'
  <1>1. /\ pc'[p] = "next"
        /\ loc'[p].batch = BatchOf(p)
        /\ loc'[p].todo = BatchOf(p)
        /\ \A q \in Procs \ {p} : pc'[q] = pc[q] /\ loc'[q] = loc[q]
    BY DEF EnqueueDueRuns, Goto, BatchOf, NoLocals, KeysInv, ProducersTypeOK
  <1>2. BatchOf(p)' = BatchOf(p)
    BY DEF BatchOf
  <1>3. TurnFits(p)'
    BY <1>1, <1>2 DEF TurnFits, Turn, EnqueueDueRuns
  <1>4. QED
    BY <1>1, <1>3, OthersKeepTurn DEF TurnInv

LEMMA NextTopicKeepsTurns ==
  ASSUME KeysInv, TurnInv, UNCHANGED deployed, NEW p \in Procs, NextTopic(p)
  PROVE  TurnInv'
  <1> DEFINE c == deployed.candidates[p]
  <1>1. /\ p \in Services /\ Turn(p)
        /\ loc[p] \in ProducerLocals
        /\ c \in Lists
        /\ BatchOf(p) \subseteq Topics
    BY CandidatesAreLists, SelectedAreEligible
       DEF NextTopic, KeysInv, Stage, TurnInv, TurnFits, ProducersTypeOK, BatchOf
  <1>2. BatchOf(p)' = BatchOf(p)
    BY DEF BatchOf
  <1>3. CASE Leave(p)
    BY <1>3, LeavingKeepsStage, IdleFits, OthersKeepTurn DEF TurnInv
  <1>4. ASSUME NEW t \in loc[p].todo,
               \A u \in loc[p].todo : ~Outranks(c, u, t),
               pc' = [pc EXCEPT ![p] = pc'[p]], pc'[p] \in {"next", "reserve"},
               loc' = [loc EXCEPT ![p] = loc'[p]],
               loc'[p].batch = loc[p].batch,
               loc'[p].todo = loc[p].todo \ {t},
               pc'[p] = "reserve" => loc'[p].subject = ScheduledKey(t, loc'[p].second)
        PROVE  TurnInv'
    <2>1. /\ t \in BatchOf(p) /\ loc[p].todo \subseteq Topics
          /\ \A u \in loc[p].todo \ {t} : Outranks(c, t, u)
      BY <1>1, <1>4, OutranksIsStrictOrder DEF Turn
    <2>2. \A v \in loc'[p].todo, u \in BatchOf(p) : Outranks(c, v, u) => u \in loc'[p].todo
      BY <1>1, <1>4, <2>1, OutranksIsStrictOrder DEF Turn
    <2>3. \A u \in BatchOf(p) \ loc'[p].todo : ~Outranks(c, t, u)
      BY <1>1, <1>4, <2>1, OutranksIsStrictOrder DEF Turn
    <2>4. pc'[p] = "reserve" => AtHand(p, t)'
      BY <1>2, <1>4, <2>1, <2>3 DEF AtHand
    <2>5. Turn(p)'
      <3>1. /\ p \in deployed'.procs
            /\ pc'[p] \in {"next", "reserve", "enqueue"}
            /\ loc'[p].batch = BatchOf(p)'
            /\ loc'[p].todo \subseteq BatchOf(p)'
        BY <1>1, <1>2, <1>4 DEF Turn
      <3>2. \A v \in loc'[p].todo, u \in BatchOf(p)' :
              Outranks(deployed'.candidates[p], v, u) => u \in loc'[p].todo
        BY <1>2, <2>2
      <3>3. pc'[p] \in {"reserve", "enqueue"} => \E v \in BatchOf(p)' : AtHand(p, v)'
        BY <1>2, <1>4, <2>1, <2>4
      <3>4. QED
        BY <3>1, <3>2, <3>3 DEF Turn
    <2>6. \A q \in Procs \ {p} : pc'[q] = pc[q] /\ loc'[q] = loc[q]
      BY <1>4, OthersStay
    <2>7. QED
      BY <1>1, <2>5, <2>6, OthersKeepTurn DEF TurnInv, TurnFits
  <1>5. CASE ~Leave(p)
    <2>1. PICK t \in loc[p].todo :
            /\ \A u \in loc[p].todo : ~Outranks(c, u, t)
            /\ \/ /\ Goto(p, "next")
                  /\ loc' = [loc EXCEPT ![p].todo = @ \ {t}]
               \/ /\ Goto(p, "reserve")
                  /\ loc' = [loc EXCEPT ![p].todo = @ \ {t},
                                        ![p].subject = ScheduledKey(t, loc[p].second)]
      BY <1>5 DEF NextTopic
    <2>2. /\ pc' = [pc EXCEPT ![p] = pc'[p]]
          /\ pc'[p] \in {"next", "reserve"}
          /\ loc' = [loc EXCEPT ![p] = loc'[p]]
          /\ loc'[p].batch = loc[p].batch
          /\ loc'[p].todo = loc[p].todo \ {t}
          /\ pc'[p] = "reserve" => loc'[p].subject = ScheduledKey(t, loc'[p].second)
      BY <1>1, <2>1 DEF Goto, KeysInv, ProducersTypeOK, ProducerLocals
    <2>3. QED
      BY <2>1, <2>2, <1>4
  <1>6. QED
    BY <1>3, <1>5

\* A service reserves, or enqueues, and keeps its locals.
LEMMA ServiceKeepsTurns ==
  ASSUME KeysInv, TurnInv, UNCHANGED deployed, NEW p \in Services, p \in Procs,
         Reserve(p) \/ Enqueue(p)
  PROVE  TurnInv'
  <1>1. CASE Leave(p)
    BY <1>1, LeavingKeepsStage, IdleFits, OthersKeepTurn DEF TurnInv
  <1>2. CASE UNCHANGED loc /\ ((pc[p] = "reserve" /\ Goto(p, "enqueue")) \/ Goto(p, "next"))
    <2>1. /\ (pc[p] = "reserve" /\ pc'[p] = "enqueue") \/ pc'[p] = "next"
          /\ \A q \in Procs \ {p} : pc'[q] = pc[q]
      BY <1>2 DEF Goto, KeysInv, ProducersTypeOK
    <2>2. Turn(p)
      BY DEF TurnInv, TurnFits, Reserve, Enqueue
    <2>3. Turn(p)'
      BY <1>2, <2>1, <2>2 DEF Turn, AtHand, BatchOf
    <2>4. QED
      BY <1>2, <2>1, <2>3, OthersKeepTurn DEF TurnInv, TurnFits
  <1>3. QED
    BY <1>1, <1>2, ProducersAssumption DEF Reserve, Enqueue, AfterEnqueue

LEMMA NextKeepsTurns == KeysInv /\ TurnInv /\ [Next]_producerVars => TurnInv'
  <1> SUFFICES ASSUME KeysInv, TurnInv, [Next]_producerVars PROVE TurnInv'
    OBVIOUS
  <1>1. CASE pc' = pc /\ loc' = loc /\ UNCHANGED deployed
    BY <1>1, OthersKeepTurn DEF TurnInv
  <1>2. ASSUME NEW p \in deployed.procs, p \in Procs, Begin(p), UNCHANGED deployed
        PROVE  TurnInv'
    <2>1. ASSUME NEW r \in Requests, RunStart(p, r) \/ RunResume(p, r) PROVE TurnInv'
      <3>1. /\ StartKey(r) \in Keys \ ScheduledKeys
            /\ ResumeKey(r) \in Keys \ ScheduledKeys
        BY StartKeys, ScheduledKeysDiffer DEF Keys
      <3>2. p \notin Services
        BY <2>1, ProducersAssumption DEF RunStart, RunResume
      <3>3. QED
        BY <1>2, <2>1, <3>1, <3>2, TakingUpKeepsTurns DEF RunStart, RunResume
    <2>2. ASSUME NEW k \in Sources, SubmitRepairJob(p, k) PROVE TurnInv'
      <3>1. RepairKey(k, job[k].code) \in Keys \ ScheduledKeys
        BY <2>2, RepairKeys, ScheduledKeysDiffer DEF SubmitRepairJob, Keys
      <3>2. p \notin Services
        BY <2>2, ProducersAssumption DEF SubmitRepairJob
      <3>3. QED
        BY <1>2, <2>2, <3>1, <3>2, TakingUpKeepsTurns DEF SubmitRepairJob
    <2>3. ASSUME NEW k \in Sources, RecoverDeadLetter(p, k) PROVE TurnInv'
      BY <1>1, <1>2, <2>3 DEF RecoverDeadLetter
    <2>4. CASE EnqueueDueRuns(p)
      BY <1>2, <2>4, EnqueueDueRunsKeepsTurns
    <2>5. ASSUME NEW a \in Alerts, EmitAlert(p, a) PROVE TurnInv'
      <3>1. a \in Keys \cup Alerts /\ a \notin ScheduledKeys
        BY ProducersAssumption, RefreshKeys DEF ScheduledKeys, Keys
      <3>2. p \notin Services
        BY <2>5, ProducersAssumption DEF EmitAlert
      <3>3. QED
        BY <1>2, <2>5, <3>1, <3>2, TakingUpKeepsTurns DEF EmitAlert
    <2>6. QED
      BY <1>2, <2>1, <2>2, <2>3, <2>4, <2>5 DEF Begin
  <1>3. ASSUME NEW p \in Procs, ProducerStep(p), UNCHANGED deployed PROVE TurnInv'
    <2>1. CASE NextTopic(p)
      BY <1>3, <2>1, NextTopicKeepsTurns
    <2>2. CASE p \in Services /\ ~NextTopic(p)
      <3>1. Reserve(p) \/ Enqueue(p)
        BY <1>3, <2>2, ProducersAssumption
           DEF ProducerStep, LookUp, RecordAlert, Audit, TurnInv, TurnFits, Turn
      <3>2. QED
        BY <1>3, <2>2, <3>1, ServiceKeepsTurns
    <2>3. CASE p \notin Services /\ ~NextTopic(p)
      <3>1. \/ Leave(p)
            \/ \E label \in {"reserve", "enqueue", "audit"} :
                 /\ Goto(p, label) /\ UNCHANGED loc
                 /\ pc[p] \in {"lookup", "reserve", "enqueue"} \/ label = "audit"
        BY <1>3, <2>3
           DEF ProducerStep, LookUp, Reserve, Enqueue, AfterEnqueue, RecordAlert, Audit
      <3>2. QED
        BY <1>3, <2>3, <3>1, GoingOnKeepsTurns
    <2>4. QED
      BY <2>1, <2>2, <2>3
  <1>4. ASSUME NEW p \in Procs, Crash(p), UNCHANGED deployed PROVE TurnInv'
    BY <1>4, LeavingKeepsStage, IdleFits, OthersKeepTurn DEF TurnInv, Crash
  <1>5. CASE Tick /\ UNCHANGED deployed
    BY <1>1, <1>5 DEF Tick
  <1>6. ASSUME NEW k \in Sources, Execute(k), UNCHANGED deployed PROVE TurnInv'
    BY <1>1, <1>6 DEF Execute
  <1>7. deployed.procs \subseteq Procs
    BY ProducersAssumption DEF KeysInv, ProducersTypeOK
  <1>8. QED
    BY <1>1, <1>2, <1>3, <1>4, <1>5, <1>6, <1>7 DEF Next, producerVars

LEMMA InitHasTurns == Init => TurnInv
  BY DEF Init, TurnInv, TurnFits

\* For any candidates and limits: a topic that is worse off in every respect is
\* selected with the better one, and has its turn first.
THEOREM SelectionFavoursTheWorseOff == Spec => []SelectionFollowsPressure
  <1>1. KeysInv /\ TurnInv => SelectionFollowsPressure
    <2> SUFFICES ASSUME KeysInv, TurnInv, NEW p \in deployed.procs \cap Services,
                        pc[p] # "idle", NEW t \in Topics, NEW u \in Topics,
                        WorseOff(t, u, deployed.candidates[p][t], deployed.candidates[p][u]),
                        u \in loc[p].batch
                 PROVE  t \in loc[p].batch /\ (t \in loc[p].todo => u \in loc[p].todo)
      BY DEF SelectionFollowsPressure
    <2>1. Turn(p) /\ deployed.candidates[p] \in Lists /\ deployed.limit \in Nat
      BY CandidatesAreLists DEF TurnInv, TurnFits, Procs
    <2>2. /\ Outranks(deployed.candidates[p], t, u)
          /\ t \in BatchOf(p)
      BY <2>1, WorseOffOutranks DEF Turn, BatchOf
    <2>3. QED
      BY <2>1, <2>2 DEF Turn
  <1>2. QED
    BY <1>1, InitHasKeys, NextKeepsKeys, InitHasTurns, NextKeepsTurns, PTL DEF Spec

-----------------------------------------------------------------------------
(* One batch between several services.                                     *)

\* Deferred, for any service with these candidates.
DeferredBy(c, u) ==
  \/ c[u].stagnant >= MaxStagnant
  \/ \E s \in Seconds :
       LET row == job[ScheduledKey(u, s)]
       IN row.state = "dead_letter" /\ row.code = "malformed_proposal"
          /\ row.objective = Reasons(c[u])

Handled(c, u, s) == ScheduledKey(u, s) \in keys \/ DeferredBy(c, u)

Working(q, s) ==
  q \in deployed.procs \cap Services /\ pc[q] # "idle" /\ loc[q].second = s

Wants(q, u, s) == pc[q] = "reserve" /\ loc[q].subject = ScheduledKey(u, s)

Carries(q, u, s) == u \in loc[q].todo \/ Wants(q, u, s)

Past(q, t, s) == t \notin loc[q].todo /\ ~Wants(q, t, s)

\* All services have these candidates, and nobody takes a dead letter back.
OneList(c) ==
  /\ deployed.procs \cap Operators = {}
  /\ \A p \in deployed.procs \cap Services : deployed.candidates[p] = c

\* What a service is through with is handled.
NothingSkipped(c, q, s) ==
  \A u \in SelectRefreshTopics(c, deployed.limit) \ loc[q].todo :
    Handled(c, u, s) \/ Wants(q, u, s)

\* Once t is reserved, what precedes it is handled, and what follows it is
\* handled or carried by a service that is past t.
Followed(c, t, s) ==
  \A u \in SelectRefreshTopics(c, deployed.limit) :
    /\ Outranks(c, u, t) => Handled(c, u, s)
    /\ Outranks(c, t, u) =>
         \/ Handled(c, u, s)
         \/ \E q \in Procs : Working(q, s) /\ Carries(q, u, s) /\ Past(q, t, s)

BatchInv(c) ==
  OneList(c) /\ cut = {} =>
    \A s \in Seconds :
      /\ \A q \in Procs : Working(q, s) => NothingSkipped(c, q, s)
      /\ \A t \in SelectRefreshTopics(c, deployed.limit) :
           ScheduledKey(t, s) \in keys => Followed(c, t, s)

\* The moving process keeps what it carries, or is through with it.
KeepsCarrying(c, q) ==
  \A s \in Seconds :
    /\ Working(q, s)' => NothingSkipped(c, q, s)'
    /\ \A t, u \in Topics :
         Working(q, s) /\ Carries(q, u, s) /\ Past(q, t, s) =>
           \/ Handled(c, u, s)'
           \/ Working(q, s)' /\ Carries(q, u, s)' /\ Past(q, t, s)'

\* A step that drops nothing: what is handled stays handled, and no key of a
\* refresh is new.
LEMMA NothingDroppedKeepsBatch ==
  ASSUME NEW c \in Lists, BatchInv(c), OneList(c), cut = {}, UNCHANGED deployed,
         keys' \cap ScheduledKeys = keys \cap ScheduledKeys,
         \A u \in Topics, s \in Seconds : Handled(c, u, s) => Handled(c, u, s)',
         \A q \in Procs : \/ pc'[q] = pc[q] /\ loc'[q] = loc[q]
                         \/ KeepsCarrying(c, q)
  PROVE  BatchInv(c)'
  <1> DEFINE B == SelectRefreshTopics(c, deployed.limit)
  <1>1. B \subseteq Topics /\ B' = B
    BY SelectedAreEligible
  <1>2. ASSUME NEW s \in Seconds, NEW q \in Procs, Working(q, s)'
        PROVE  NothingSkipped(c, q, s)'
    <2>1. CASE KeepsCarrying(c, q)
      BY <1>2, <2>1 DEF KeepsCarrying
    <2>2. CASE pc'[q] = pc[q] /\ loc'[q] = loc[q]
      <3>1. Working(q, s)
        BY <1>2, <2>2 DEF Working
      <3>2. NothingSkipped(c, q, s)
        BY <3>1 DEF BatchInv
      <3>3. QED
        BY <1>1, <2>2, <3>2 DEF NothingSkipped, Wants
    <2>3. QED
      BY <2>1, <2>2
  <1>3. ASSUME NEW s \in Seconds, NEW t \in B, ScheduledKey(t, s) \in keys'
        PROVE  Followed(c, t, s)'
    <2>1. ScheduledKey(t, s) \in keys
      BY <1>1, <1>3 DEF ScheduledKeys
    <2>2. Followed(c, t, s)
      BY <2>1 DEF BatchInv
    <2>3. ASSUME NEW u \in B, Outranks(c, t, u)
          PROVE  \/ Handled(c, u, s)'
                 \/ \E q \in Procs : Working(q, s)' /\ Carries(q, u, s)' /\ Past(q, t, s)'
      <3>1. CASE Handled(c, u, s)
        BY <1>1, <3>1
      <3>2. CASE \E q \in Procs : Working(q, s) /\ Carries(q, u, s) /\ Past(q, t, s)
        <4>1. PICK q \in Procs : Working(q, s) /\ Carries(q, u, s) /\ Past(q, t, s)
          BY <3>2
        <4>2. CASE KeepsCarrying(c, q)
          BY <1>1, <4>1, <4>2 DEF KeepsCarrying
        <4>3. CASE pc'[q] = pc[q] /\ loc'[q] = loc[q]
          BY <4>1, <4>3 DEF Working, Carries, Past, Wants
        <4>4. QED
          BY <4>2, <4>3
      <3>3. QED
        BY <2>2, <2>3, <3>1, <3>2 DEF Followed
    <2>4. \A u \in B : Outranks(c, u, t) => Handled(c, u, s)'
      BY <1>1, <2>2 DEF Followed
    <2>5. QED
      BY <1>1, <2>3, <2>4 DEF Followed
  <1>4. QED
    BY <1>1, <1>2, <1>3 DEF BatchInv

LEMMA NotAService ==
  ASSUME NEW c, NEW q \in Procs \ Services
  PROVE  KeepsCarrying(c, q)
  BY DEF KeepsCarrying, Working

\* Only the operator takes a dead letter back.
LEMMA HandledStays ==
  ASSUME NEW c \in Lists, KeysInv, [Next]_producerVars, OneList(c)
  PROVE  \A u \in Topics, s \in Seconds : Handled(c, u, s) => Handled(c, u, s)'
  <1>1. keys \subseteq keys'
    BY NextGoesOn DEF WorkGoesOn
  <1>2. \A k \in Keys : job[k].state = "dead_letter" => job'[k] = job[k]
    <2>1. ASSUME NEW p \in deployed.procs, NEW k \in Sources, RecoverDeadLetter(p, k)
          PROVE  FALSE
      BY <2>1 DEF RecoverDeadLetter, OneList
    <2>2. ASSUME NEW k \in Sources, Execute(k)
          PROVE  \A l \in Keys : job[l].state = "dead_letter" => job'[l] = job[l]
      BY <2>2 DEF Execute, KeysInv, ProducersTypeOK
    <2>3. ASSUME NEW p, Enqueue(p)
          PROVE  \A l \in Keys : job[l].state = "dead_letter" => job'[l] = job[l]
      BY <2>3 DEF Enqueue, KeysInv, ProducersTypeOK
    <2>4. QED
      BY <2>1, <2>2, <2>3
         DEF Next, Begin, RunStart, RunResume, SubmitRepairJob, EnqueueDueRuns, EmitAlert,
             ProducerStep, LookUp, NextTopic, Reserve, RecordAlert, Audit, Crash, Tick, tables,
             producerVars
  <1>3. \A u \in Topics, s \in Seconds : ScheduledKey(u, s) \in Keys
    BY RefreshKeys DEF Keys
  <1>4. \A u \in Topics : DeferredBy(c, u) => DeferredBy(c, u)'
    BY <1>2, <1>3 DEF DeferredBy
  <1>5. QED
    BY <1>1, <1>4 DEF Handled

\* What NothingDroppedKeepsBatch asks of a service, step by step.
LEMMA EnqueueDueRunsCarries ==
  ASSUME NEW c \in Lists, KeysInv, OneList(c), UNCHANGED deployed,
         NEW p \in Procs, p \in deployed.procs, EnqueueDueRuns(p)
  PROVE  KeepsCarrying(c, p)
  <1>1. pc[p] = "idle" /\ deployed.candidates[p] = c
    BY DEF EnqueueDueRuns, OneList
  <1>2. loc'[p].todo = SelectRefreshTopics(c, deployed.limit)
    BY <1>1 DEF EnqueueDueRuns, NoLocals, KeysInv, ProducersTypeOK
  <1>3. QED
    BY <1>1, <1>2 DEF KeepsCarrying, Working, NothingSkipped

\* A process whose labels keep it out of `reserve' wants nothing.
LEMMA NextTopicCarries ==
  ASSUME NEW c \in Lists, KeysInv, TurnInv, BatchInv(c), OneList(c), cut = {},
         UNCHANGED <<deployed, keys>>, NEW p \in Procs, p \in deployed.procs, NextTopic(p),
         \A u \in Topics, s \in Seconds : Handled(c, u, s) => Handled(c, u, s)'
  PROVE  KeepsCarrying(c, p)
  <1> DEFINE B == SelectRefreshTopics(c, deployed.limit)
  <1>1. /\ p \in Services /\ pc[p] = "next"
        /\ deployed.candidates[p] = c
        /\ loc[p] \in ProducerLocals
        /\ B \subseteq Topics /\ B' = B
        /\ loc[p].todo \subseteq B
    BY SelectedAreEligible
       DEF NextTopic, KeysInv, Stage, ProducersTypeOK, OneList, TurnInv, TurnFits, Turn, BatchOf
  <1>2. \A s \in Seconds : Working(p, s) => \A u \in B \ loc[p].todo : Handled(c, u, s)
    BY <1>1 DEF BatchInv, NothingSkipped, Wants
  <1>3. CASE loc[p].todo = {}
    <2>1. pc'[p] = "idle"
      BY <1>3, LeavingKeepsStage DEF NextTopic
    <2>2. QED
      BY <1>1, <1>3, <2>1 DEF KeepsCarrying, Working, Carries, Wants
  <1>4. ASSUME NEW t \in loc[p].todo, pc'[p] \in {"next", "reserve"},
               loc'[p].second = loc[p].second,
               loc'[p].todo = loc[p].todo \ {t},
               \/ pc'[p] = "next" /\ DeferredBy(c, t)
               \/ pc'[p] = "reserve" /\ loc'[p].subject = ScheduledKey(t, loc[p].second)
        PROVE  KeepsCarrying(c, p)
    <2>1. \A s \in Seconds : Working(p, s)' <=> Working(p, s)
      BY <1>1, <1>4 DEF Working
    <2>2. t \in Topics
      BY <1>1, <1>4
    <2>3. ASSUME NEW s \in Seconds, Working(p, s)
          PROVE  Handled(c, t, s)' \/ Wants(p, t, s)'
      <3>1. CASE pc'[p] = "next" /\ DeferredBy(c, t)
        BY <2>2, <3>1 DEF Handled
      <3>2. CASE pc'[p] = "reserve" /\ loc'[p].subject = ScheduledKey(t, loc[p].second)
        BY <2>3, <3>2 DEF Wants, Working
      <3>3. QED
        BY <1>4, <3>1, <3>2
    <2>4. ASSUME NEW s \in Seconds, Working(p, s) PROVE NothingSkipped(c, p, s)'
      BY <1>1, <1>2, <1>4, <2>3, <2>4 DEF NothingSkipped
    <2>5. ASSUME NEW s \in Seconds, Working(p, s), NEW v \in Topics, NEW u \in Topics,
                 Carries(p, u, s), Past(p, v, s)
          PROVE  \/ Handled(c, u, s)'
                 \/ Working(p, s)' /\ Carries(p, u, s)' /\ Past(p, v, s)'
      <3>1. u \in loc[p].todo /\ v \notin loc[p].todo
        BY <1>1, <2>5 DEF Carries, Past, Wants
      <3>2. s = loc[p].second
        BY <2>5 DEF Working
      <3>3. ~Wants(p, v, s)'
        BY <1>4, <3>1, <3>2, <2>2, ScheduledKeysDiffer DEF Wants
      <3>4. Past(p, v, s)'
        BY <1>4, <3>1, <3>3 DEF Past
      <3>5. Handled(c, u, s)' \/ Carries(p, u, s)'
        BY <1>4, <2>3, <2>5, <3>1 DEF Carries
      <3>6. QED
        BY <2>1, <2>5, <3>4, <3>5
    <2>6. QED
      BY <2>1, <2>4, <2>5 DEF KeepsCarrying
  <1>5. CASE loc[p].todo # {}
    <2>1. PICK t \in loc[p].todo :
            \/ /\ Deferred(p, t)
               /\ Goto(p, "next")
               /\ loc' = [loc EXCEPT ![p].todo = @ \ {t}]
            \/ /\ Goto(p, "reserve")
               /\ loc' = [loc EXCEPT ![p].todo = @ \ {t},
                                     ![p].subject = ScheduledKey(t, loc[p].second)]
      BY <1>5 DEF NextTopic
    <2>2. Deferred(p, t) => DeferredBy(c, t)
      BY <1>1 DEF Deferred, DeferredBy, RepeatedMalformedFollowUp
    <2>3. QED
      BY <1>1, <1>4, <2>1, <2>2 DEF Goto, KeysInv, ProducersTypeOK, ProducerLocals
  <1>6. QED
    BY <1>3, <1>5

LEMMA EnqueueCarries ==
  ASSUME NEW c \in Lists, KeysInv, BatchInv(c), OneList(c), cut = {},
         UNCHANGED <<deployed, keys>>, NEW p \in Procs, p \in Services, Enqueue(p),
         \A u \in Topics, s \in Seconds : Handled(c, u, s) => Handled(c, u, s)'
  PROVE  KeepsCarrying(c, p)
  <1>1. pc[p] = "enqueue" /\ pc'[p] = "next" /\ loc' = loc
    BY ProducersAssumption DEF Enqueue, AfterEnqueue, Goto, KeysInv, ProducersTypeOK
  <1>2. SelectRefreshTopics(c, deployed.limit) \subseteq Topics
    BY SelectedAreEligible
  <1>3. ASSUME NEW s \in Seconds, Working(p, s)' PROVE NothingSkipped(c, p, s)'
    <2>1. Working(p, s)
      BY <1>1, <1>3 DEF Working
    <2>2. NothingSkipped(c, p, s)
      BY <2>1 DEF BatchInv
    <2>3. QED
      BY <1>1, <1>2, <2>2 DEF NothingSkipped, Wants
  <1>4. QED
    BY <1>1, <1>3 DEF KeepsCarrying, Working, Carries, Past, Wants

\* The first to reserve a topic carries on with everything behind it.
LEMMA ReserveNewKeepsBatch ==
  ASSUME NEW c \in Lists, KeysInv, TurnInv, BatchInv(c), OneList(c), cut = {},
         UNCHANGED <<deployed, loc>>, NEW p \in Procs, p \in Services,
         pc[p] = "reserve", loc[p].subject \notin keys,
         keys' = keys \cup {loc[p].subject}, Goto(p, "enqueue"),
         \A u \in Topics, s \in Seconds : Handled(c, u, s) => Handled(c, u, s)'
  PROVE  BatchInv(c)'
  <1> DEFINE B == SelectRefreshTopics(c, deployed.limit)
             now == loc[p].second
  <1>1. /\ Turn(p)
        /\ p \in deployed.procs
        /\ deployed.candidates[p] = c
        /\ B = BatchOf(p) /\ B \subseteq Topics /\ B' = B
        /\ loc[p].todo \subseteq B
        /\ now \in Seconds
    BY SelectedAreEligible DEF TurnInv, TurnFits, Turn, OneList, BatchOf, KeysInv, Stage
  <1>2. PICK first \in B : AtHand(p, first)
    BY <1>1 DEF Turn
  <1>3. /\ loc[p].subject = ScheduledKey(first, now)
        /\ first \in B \ loc[p].todo
        /\ \A u \in loc[p].todo : Outranks(c, first, u)
        /\ \A u \in B \ loc[p].todo : ~Outranks(c, first, u)
    BY <1>1, <1>2 DEF AtHand
  <1>4. /\ pc'[p] = "enqueue"
        /\ \A q \in Procs \ {p} : pc'[q] = pc[q]
        /\ \A q \in Procs, s \in Seconds : Working(q, s)' <=> Working(q, s)
    BY DEF Goto, KeysInv, ProducersTypeOK, Working
  <1>5. \A u \in Topics, s \in Seconds : Wants(p, u, s) => Handled(c, u, s)'
    BY DEF Wants, Handled
  <1>6. \A q \in Procs \ {p}, u \in Topics, s \in Seconds : Wants(q, u, s)' <=> Wants(q, u, s)
    BY <1>4 DEF Wants
  <1>7. \A u \in Topics, s \in Seconds : ~Wants(p, u, s)'
    BY <1>4 DEF Wants
  <1>8. ASSUME NEW s \in Seconds, NEW q \in Procs, Working(q, s)'
        PROVE  NothingSkipped(c, q, s)'
    <2>1. NothingSkipped(c, q, s)
      BY <1>4, <1>8 DEF BatchInv
    <2>2. QED
      BY <1>1, <1>5, <1>6, <2>1 DEF NothingSkipped
  <1>9. ASSUME NEW s \in Seconds, NEW t \in B, ScheduledKey(t, s) \in keys'
        PROVE  Followed(c, t, s)'
    <2>1. CASE ScheduledKey(t, s) \in keys
      <3>1. Followed(c, t, s)
        BY <2>1 DEF BatchInv
      <3>2. ASSUME NEW u \in B, NEW q \in Procs,
                   Working(q, s) /\ Carries(q, u, s) /\ Past(q, t, s)
            PROVE  \/ Handled(c, u, s)'
                   \/ Working(q, s)' /\ Carries(q, u, s)' /\ Past(q, t, s)'
        BY <1>1, <1>4, <1>5, <1>6, <1>7, <3>2 DEF Carries, Past
      <3>3. QED
        BY <1>1, <3>1, <3>2 DEF Followed
    <2>2. CASE ScheduledKey(t, s) \notin keys
      <3>1. t = first /\ s = now
        BY <1>1, <1>3, <1>9, <2>2, ScheduledKeysDiffer
      <3>2. Working(p, now)' /\ Working(p, now) /\ Past(p, first, now)'
        BY <1>1, <1>3, <1>4, <1>7, <3>1 DEF Working, Past
      <3>3. ASSUME NEW u \in B, Outranks(c, u, first) PROVE Handled(c, u, now)'
        <4>1. u \notin loc[p].todo
          BY <1>1, <1>3, <3>3, OutranksIsStrictOrder
        <4>2. Handled(c, u, now) \/ Wants(p, u, now)
          BY <1>1, <3>2, <4>1 DEF BatchInv, NothingSkipped
        <4>3. QED
          BY <1>1, <1>5, <4>2
      <3>4. ASSUME NEW u \in B, Outranks(c, first, u) PROVE Carries(p, u, now)'
        BY <1>3, <3>4 DEF Carries
      <3>5. QED
        BY <1>1, <3>1, <3>2, <3>3, <3>4 DEF Followed
    <2>3. QED
      BY <2>1, <2>2
  <1>10. QED
    BY <1>1, <1>8, <1>9 DEF BatchInv

\* Who comes second drops what the first, or somebody past the first, carries.
LEMMA ReserveTakenKeepsBatch ==
  ASSUME NEW c \in Lists, KeysInv, TurnInv, BatchInv(c), OneList(c), cut = {},
         UNCHANGED <<deployed, keys>>, NEW p \in Procs, p \in Services,
         pc[p] = "reserve", loc[p].subject \in keys, Leave(p),
         \A u \in Topics, s \in Seconds : Handled(c, u, s) => Handled(c, u, s)'
  PROVE  BatchInv(c)'
  <1> DEFINE B == SelectRefreshTopics(c, deployed.limit)
             now == loc[p].second
  <1>1. /\ B \subseteq Topics /\ B' = B
        /\ now \in Seconds
        /\ \A q \in Procs, s \in Seconds : Working(q, s) =>
             Turn(q) /\ deployed.candidates[q] = c /\ B = BatchOf(q)
    BY SelectedAreEligible DEF TurnInv, TurnFits, OneList, BatchOf, KeysInv, Stage, Working
  <1>2. Working(p, now)
    BY DEF Working, TurnInv, TurnFits, Turn
  <1>3. PICK first \in B : AtHand(p, first)
    BY <1>1, <1>2 DEF Turn
  <1>4. /\ loc[p].subject = ScheduledKey(first, now)
        /\ first \in B \ loc[p].todo
        /\ \A u \in loc[p].todo : Outranks(c, first, u)
        /\ \A u \in B \ loc[p].todo : ~Outranks(c, first, u)
    BY <1>1, <1>2, <1>3 DEF AtHand
  <1>5. /\ pc'[p] = "idle"
        /\ \A q \in Procs \ {p} : pc'[q] = pc[q] /\ loc'[q] = loc[q]
    BY LeavingKeepsStage
  <1>6. ASSUME NEW s \in Seconds, NEW q \in Procs, Working(q, s)'
        PROVE  NothingSkipped(c, q, s)'
    <2>1. q # p /\ Working(q, s)
      BY <1>5, <1>6 DEF Working
    <2>2. NothingSkipped(c, q, s)
      BY <2>1 DEF BatchInv
    <2>3. QED
      BY <1>1, <1>5, <2>1, <2>2 DEF NothingSkipped, Wants
  <1>7. ASSUME NEW s \in Seconds, NEW t \in B, ScheduledKey(t, s) \in keys,
               NEW u \in B, Outranks(c, t, u), ~Handled(c, u, s)
        PROVE  \E q \in Procs \ {p} : Working(q, s) /\ Carries(q, u, s) /\ Past(q, t, s)
    <2>1. PICK q \in Procs : Working(q, s) /\ Carries(q, u, s) /\ Past(q, t, s)
      BY <1>7 DEF BatchInv, Followed
    <2>2. CASE q = p
      <3>1. s = now
        BY <2>1, <2>2 DEF Working
      <3>2. u \in loc[p].todo /\ Outranks(c, first, u)
        <4>1. ~Wants(p, u, now)
          BY <1>7, <3>1 DEF Wants, Handled
        <4>2. QED
          BY <1>4, <2>1, <2>2, <3>1, <4>1 DEF Carries
      <3>3. PICK r \in Procs : Working(r, now) /\ Carries(r, u, now) /\ Past(r, first, now)
        BY <1>1, <1>4, <1>7, <3>1, <3>2 DEF BatchInv, Followed
      <3>4. r # p
        BY <1>4, <3>3 DEF Past, Wants
      <3>5. t = first \/ Outranks(c, t, first)
        <4>1. t \notin loc[p].todo
          BY <2>1, <2>2 DEF Past
        <4>2. QED
          BY <1>1, <1>4, <4>1, OutranksIsStrictOrder
      <3>6. Past(r, t, now)
        <4>1. CASE t = first
          BY <3>3, <4>1
        <4>2. CASE Outranks(c, t, first)
          <5>1. first \notin loc[r].todo /\ Turn(r) /\ deployed.candidates[r] = c /\ B = BatchOf(r)
            BY <1>1, <3>3 DEF Past
          <5>2. t \notin loc[r].todo
            BY <1>4, <4>2, <5>1 DEF Turn
          <5>3. ASSUME Wants(r, t, now) PROVE FALSE
            <6>1. PICK v \in B : AtHand(r, v)
              BY <5>1, <5>3 DEF Turn, Wants
            <6>2. v = t
              <7>1. ScheduledKey(v, now) = ScheduledKey(t, now)
                BY <3>3, <5>3, <6>1 DEF AtHand, Wants, Working
              <7>2. v \in Topics /\ t \in Topics
                BY <1>1
              <7>3. QED
                BY <1>1, <7>1, <7>2, ScheduledKeysDiffer
            <6>3. ~Outranks(c, t, first)
              BY <1>4, <5>1, <6>1, <6>2 DEF AtHand
            <6>4. QED
              BY <4>2, <6>3
          <5>4. QED
            BY <5>2, <5>3 DEF Past
        <4>3. QED
          BY <3>5, <4>1, <4>2
      <3>7. QED
        BY <3>1, <3>3, <3>4, <3>6
    <2>3. QED
      BY <2>1, <2>2
  <1>8. ASSUME NEW s \in Seconds, NEW t \in B, ScheduledKey(t, s) \in keys'
        PROVE  Followed(c, t, s)'
    <2>1. Followed(c, t, s)
      BY <1>8 DEF BatchInv
    <2>2. \A q \in Procs \ {p}, u \in B :
            Working(q, s) /\ Carries(q, u, s) /\ Past(q, t, s) =>
              Working(q, s)' /\ Carries(q, u, s)' /\ Past(q, t, s)'
      BY <1>5 DEF Working, Carries, Past, Wants
    <2>3. QED
      BY <1>1, <1>7, <1>8, <2>1, <2>2 DEF Followed
  <1>9. QED
    BY <1>1, <1>6, <1>8 DEF BatchInv

LEMMA NextKeepsBatch ==
  ASSUME NEW c \in Lists, KeysInv, TurnInv, BatchInv(c), [Next]_producerVars
  PROVE  BatchInv(c)'
  <1> SUFFICES ASSUME OneList(c)', cut' = {} PROVE BatchInv(c)'
    BY DEF BatchInv
  <1>1. UNCHANGED deployed /\ OneList(c) /\ cut = {}
    <2>1. UNCHANGED deployed
      BY DEF Next, producerVars
    <2>2. cut \subseteq cut'
      BY NextGoesOn DEF WorkGoesOn
    <2>3. QED
      BY <2>1, <2>2 DEF OneList
  <1>2. \A u \in Topics, s \in Seconds : Handled(c, u, s) => Handled(c, u, s)'
    BY <1>1, HandledStays
  <1>3. CASE UNCHANGED <<pc, loc, keys>>
    BY <1>1, <1>2, <1>3, NothingDroppedKeepsBatch
  <1>4. ASSUME NEW p \in Procs, UNCHANGED keys, KeepsCarrying(c, p),
               \A q \in Procs \ {p} : pc'[q] = pc[q] /\ loc'[q] = loc[q]
        PROVE  BatchInv(c)'
    BY <1>1, <1>2, <1>4, NothingDroppedKeepsBatch
  <1>5. ASSUME NEW p \in deployed.procs, p \in Procs, Begin(p) PROVE BatchInv(c)'
    <2>1. UNCHANGED keys /\ \A q \in Procs \ {p} : pc'[q] = pc[q] /\ loc'[q] = loc[q]
      BY <1>5 DEF Begin, RunStart, RunResume, SubmitRepairJob, RecoverDeadLetter,
         EnqueueDueRuns, EmitAlert, TakeUp, Goto, tables, KeysInv, ProducersTypeOK
    <2>2. CASE p \in Services
      <3>1. EnqueueDueRuns(p)
        BY <1>5, <2>2, ProducersAssumption
           DEF Begin, RunStart, RunResume, SubmitRepairJob, RecoverDeadLetter, EmitAlert
      <3>2. QED
        BY <1>1, <1>4, <1>5, <2>1, <3>1, EnqueueDueRunsCarries
    <2>3. CASE p \notin Services
      BY <1>4, <1>5, <2>1, <2>3, NotAService
    <2>4. QED
      BY <2>2, <2>3
  <1>6. ASSUME NEW p \in deployed.procs, p \in Procs, ProducerStep(p) PROVE BatchInv(c)'
    <2>1. \A q \in Procs \ {p} : pc'[q] = pc[q] /\ loc'[q] = loc[q]
      BY <1>6 DEF ProducerStep, LookUp, NextTopic, Reserve, Enqueue, AfterEnqueue,
         RecordAlert, Audit, Leave, Goto, KeysInv, ProducersTypeOK
    <2>2. CASE p \in Services
      <3>1. NextTopic(p) \/ Reserve(p) \/ Enqueue(p)
        BY <1>6, <2>2 DEF ProducerStep, LookUp, RecordAlert, Audit, TurnInv, TurnFits, Turn
      <3>2. CASE NextTopic(p)
        <4>1. UNCHANGED keys
          BY <3>2 DEF NextTopic, tables
        <4>2. QED
          BY <1>1, <1>2, <1>4, <1>6, <2>1, <3>2, <4>1, NextTopicCarries
      <3>3. CASE Reserve(p)
        BY <1>1, <1>2, <2>2, <3>3, <1>6, ReserveNewKeepsBatch, ReserveTakenKeepsBatch
           DEF Reserve
      <3>4. CASE Enqueue(p)
        <4>1. UNCHANGED keys
          BY <3>4 DEF Enqueue
        <4>2. QED
          BY <1>1, <1>2, <1>4, <1>6, <2>1, <2>2, <3>4, <4>1, EnqueueCarries
      <3>5. QED
        BY <3>1, <3>2, <3>3, <3>4
    <2>3. CASE p \notin Services
      <3>1. keys' \cap ScheduledKeys = keys \cap ScheduledKeys
        <4>1. pc[p] = "reserve" => loc[p].subject \notin ScheduledKeys
          BY <1>6, <2>3 DEF TurnInv, TurnFits
        <4>2. QED
          BY <1>6, <4>1 DEF ProducerStep, LookUp, NextTopic, Reserve, Enqueue, RecordAlert,
             Audit, tables
      <3>2. KeepsCarrying(c, p)
        BY <1>6, <2>3, NotAService
      <3>3. QED
        BY <1>1, <1>2, <2>1, <3>1, <3>2, NothingDroppedKeepsBatch
    <2>4. QED
      BY <2>2, <2>3
  <1>7. ASSUME NEW p \in Procs, Crash(p) PROVE BatchInv(c)'
    BY <1>7 DEF Crash
  <1>8. deployed.procs \subseteq Procs
    BY ProducersAssumption DEF KeysInv, ProducersTypeOK
  <1>9. QED
    BY <1>3, <1>5, <1>6, <1>7, <1>8 DEF Next, Tick, Execute, tables, producerVars

LEMMA InitHasBatches == ASSUME NEW c, Init PROVE BatchInv(c)
  BY DEF Init, BatchInv, Working, Procs

LEMMA BatchSuffices ==
  ASSUME KeysInv, TurnInv, \A c \in Lists : BatchInv(c)
  PROVE  BatchIsQueued
  <1> SUFFICES ASSUME SameCandidates, cut = {}, deployed.procs \cap Operators = {},
                      NEW p \in deployed.procs \cap Services, NEW s \in Seconds,
                      NEW t \in BatchOf(p), ScheduledKey(t, s) \in keys, NEW u \in BatchOf(p)
               PROVE  ScheduledKey(u, s) \in keys \/ Deferred(p, u) \/ OnItsWay(u, s)
    BY DEF BatchIsQueued, BatchOf
  <1> DEFINE c == deployed.candidates[p]
  <1>1. c \in Lists /\ BatchOf(p) \subseteq Topics
    BY CandidatesAreLists, SelectedAreEligible DEF BatchOf
  <1>2. OneList(c)
    BY DEF SameCandidates, OneList
  <1>3. Followed(c, t, s)
    BY <1>1, <1>2 DEF BatchInv, BatchOf
  <1>4. DeferredBy(c, u) => Deferred(p, u)
    BY DEF Deferred, DeferredBy, RepeatedMalformedFollowUp
  <1>5. ASSUME NEW q \in Procs, Working(q, s), Carries(q, u, s) PROVE OnItsWay(u, s)
    BY <1>5 DEF Working, Carries, Wants, OnItsWay
  <1>6. CASE t = u
    BY <1>6
  <1>7. CASE t # u
    BY <1>1, <1>3, <1>4, <1>5, <1>7, OutranksIsStrictOrder DEF Followed, Handled, BatchOf
  <1>8. QED
    BY <1>6, <1>7

\* For any candidates, limit, services and seconds: services that are called in
\* one second with one list make up one batch between them.
THEOREM OneBatchBetweenServices == Spec => []BatchIsQueued
  <1> DEFINE Inv == KeysInv /\ TurnInv /\ \A c \in Lists : BatchInv(c)
  <1>1. Init => Inv
    BY InitHasKeys, InitHasTurns, InitHasBatches
  <1>2. Inv /\ [Next]_producerVars => Inv'
    <2> SUFFICES ASSUME Inv, [Next]_producerVars PROVE Inv'
      OBVIOUS
    <2>1. KeysInv' /\ TurnInv'
      BY NextKeepsKeys, NextKeepsTurns
    <2>2. ASSUME NEW c \in Lists PROVE BatchInv(c)'
      BY NextKeepsBatch
    <2>3. QED
      BY <2>1, <2>2 DEF Lists
  <1>3. Inv => BatchIsQueued
    BY BatchSuffices
  <1>4. QED
    BY <1>1, <1>2, <1>3, PTL DEF Spec

=============================================================================
