------------------------------ MODULE Producers ------------------------------
(***************************************************************************)
(* Who puts jobs into the queue, apart from interactive requests: `crb run *)
(* start' and `crb run resume' (cli_backend.py), repair jobs of the        *)
(* operator (operational.py), and batches of scheduled refreshes           *)
(* (scheduled.py).  Each reserves the idempotency key of a job and         *)
(* enqueues the job in a second transaction; a repair, and an operator     *)
(* alert, is audited in one more.  Producers run beside each other, beside *)
(* the execution of what they enqueued, and may crash between two steps.   *)
(*                                                                         *)
(* A job is named by its idempotency key, which is UNIQUE in queue_items.  *)
(* What is deployed, and the candidates that each scheduled service is     *)
(* called with, are chosen in the initial state.                           *)
(***************************************************************************)
EXTENDS SchedulerPolicy

CONSTANTS
  Clis, Operators, Monitors, Services,  \* processes, by what they do
  Requests,      \* inputs of `run start', each with its topic and snapshot
  Alerts,        \* operator alerts whose threshold is reached, by alert id
  Deployments,   \* bound: the processes, candidates, limits and the last
                 \* seconds considered
  MaxStagnant,   \* max_consecutive_stagnant_runs of the scheduled policy
  MaxSecond,     \* bound: seconds that pass
  MaxCrashes,    \* bound: crashes of producers
  None

Procs == Clis \cup Operators \cup Monitors \cup Services

\* last_failure_code, as far as producers tell codes apart.
Codes == {"malformed_proposal", "output_schema_validation_failed", "other"}
REPAIRABLE_FAILURES == {"malformed_proposal", "output_schema_validation_failed"}

Seconds == 1..MaxSecond

\* A scheduled key holds the second of the call, not its date.
StartKey(r) == <<"start", r>>
ResumeKey(r) == <<"resume", r>>
RepairKey(k, code) == <<"repair", k, code>>
ScheduledKey(t, s) == <<"scheduled", t, s>>

Sources ==
  {StartKey(r) : r \in Requests} \cup {ResumeKey(r) : r \in Requests}
    \cup {ScheduledKey(t, s) : t \in Topics, s \in Seconds}

\* Bound: nobody repairs a repair.
Repairs == {RepairKey(k, code) : k \in Sources, code \in REPAIRABLE_FAILURES}
Keys == Sources \cup Repairs

Calls == [Services -> [Topics -> Candidate]]

ASSUME ProducersAssumption ==
  /\ Clis \cap (Operators \cup Monitors \cup Services) = {}
  /\ Operators \cap (Monitors \cup Services) = {}
  /\ Monitors \cap Services = {}
  /\ None \notin Keys \cup Alerts
  /\ Alerts \cap Keys = {}
  /\ Deployments \subseteq [procs : SUBSET Procs, candidates : Calls, limit : Nat,
                            until : Seconds]
  /\ {MaxStagnant, MaxSecond, MaxCrashes} \subseteq Nat

VARIABLES
  keys,      \* idempotency_keys
  job,       \* queue_items, by key
  alerts,    \* operator_alerts
  audits,    \* operation_audit_events: the repairs and alerts they are about
  pc, loc,   \* program counter and locals of each process
  second,    \* the current time
  cut,       \* history: where crashes cut a producer short
  deployed   \* the deployment; never changes

tables == <<keys, job, alerts, audits>>
producerVars == <<tables, pc, loc, second, cut, deployed>>

JobStates == {"absent", "queued", "completed", "dead_letter"}

JobRow == [state : JobStates, code : Codes, objective : SUBSET AllReasons]

NoJob == [state |-> "absent", code |-> "other", objective |-> {}]

Labels == {"idle", "lookup", "reserve", "enqueue", "next", "alert", "audit"}

\* subject is the key or the alert at hand; second, batch and todo belong to
\* a call of enqueue_due_runs.
ProducerLocals ==
  [subject : Keys \cup Alerts \cup {None}, second : Nat,
   batch : SUBSET Topics, todo : SUBSET Topics]

NoLocals == [subject |-> None, second |-> 0, batch |-> {}, todo |-> {}]

ProducersTypeOK ==
  /\ keys \in SUBSET Keys
  /\ job \in [Keys -> JobRow]
  /\ alerts \in SUBSET Alerts
  /\ audits \in SUBSET (Repairs \cup Alerts)
  /\ pc \in [Procs -> Labels]
  /\ loc \in [Procs -> ProducerLocals]
  /\ second \in Nat
  /\ cut \in SUBSET (Labels \X (Keys \cup Alerts \cup {None}))
  /\ deployed \in Deployments

Init ==
  /\ keys = {}
  /\ job = [k \in Keys |-> NoJob]
  /\ alerts = {}
  /\ audits = {}
  /\ pc = [p \in Procs |-> "idle"]
  /\ loc = [p \in Procs |-> NoLocals]
  /\ second = 1
  /\ cut = {}
  /\ deployed \in Deployments

-----------------------------------------------------------------------------
Goto(p, label) == pc' = [pc EXCEPT ![p] = label]

Leave(p) == Goto(p, "idle") /\ loc' = [loc EXCEPT ![p] = NoLocals]

\* Begin or go on with a subject.
TakeUp(p, subject, label) ==
  /\ Goto(p, label)
  /\ loc' = [loc EXCEPT ![p].subject = subject]

IsQueuedOrOver(k) == job[k].state # "absent"

-----------------------------------------------------------------------------
(* Requests. *)

\* run_start.
RunStart(p, r) ==
  /\ p \in Clis
  /\ pc[p] = "idle"
  /\ TakeUp(p, StartKey(r), "lookup")
  /\ UNCHANGED tables

\* run_resume wants a run or an item that asks for it.
RunResume(p, r) ==
  /\ p \in Clis
  /\ pc[p] = "idle"
  /\ IsQueuedOrOver(StartKey(r)) \/ IsQueuedOrOver(ResumeKey(r))
  /\ TakeUp(p, ResumeKey(r), "lookup")
  /\ UNCHANGED tables

\* _enqueue_run_request: a key that is known answers the request.
LookUp(p) ==
  /\ pc[p] = "lookup"
  /\ \/ loc[p].subject \in keys /\ Leave(p)
     \/ loc[p].subject \notin keys /\ Goto(p, "reserve") /\ UNCHANGED loc
  /\ UNCHANGED tables

\* Mutant: every dead letter is repairable.
SubmitAnyRepairJob(p, k) ==
  /\ p \in Operators
  /\ pc[p] = "idle"
  /\ job[k].state = "dead_letter"
  /\ TakeUp(p, RepairKey(k, job[k].code), "reserve")
  /\ UNCHANGED tables

\* submit_repair_job; a source that is not a repairable dead letter is refused.
SubmitRepairJob(p, k) ==
  /\ p \in Operators
  /\ pc[p] = "idle"
  /\ job[k].state = "dead_letter"
  /\ job[k].code \in REPAIRABLE_FAILURES
  /\ TakeUp(p, RepairKey(k, job[k].code), "reserve")
  /\ UNCHANGED tables

\* recover_dead_letter: one transaction, its audit event included.
RecoverDeadLetter(p, k) ==
  /\ p \in Operators
  /\ pc[p] = "idle"
  /\ job[k].state = "dead_letter"
  /\ job' = [job EXCEPT ![k].state = "queued"]
  /\ UNCHANGED <<keys, alerts, audits, pc, loc>>

-----------------------------------------------------------------------------
(* enqueue_due_runs: the selection, then topic by topic. *)

EnqueueDueRuns(p) ==
  LET batch == SelectRefreshTopics(deployed.candidates[p], deployed.limit)
  IN /\ p \in Services
     /\ pc[p] = "idle"
     /\ Goto(p, "next")
     /\ loc' = [loc EXCEPT ![p] = [NoLocals EXCEPT !.second = second,
                                                  !.batch = batch, !.todo = batch]]
     /\ UNCHANGED tables

\* _repeated_malformed_follow_up: the topic has a dead letter with the objective
\* that its next job would have.
RepeatedMalformedFollowUp(p, t) ==
  \E s \in Seconds :
    LET row == job[ScheduledKey(t, s)]
    IN /\ row.state = "dead_letter"
       /\ row.code = "malformed_proposal"
       /\ row.objective = Reasons(deployed.candidates[p][t])

Deferred(p, t) ==
  \/ deployed.candidates[p][t].stagnant >= MaxStagnant
  \/ RepeatedMalformedFollowUp(p, t)

NextTopic(p) ==
  /\ pc[p] = "next"
  /\ \/ loc[p].todo = {} /\ Leave(p)
     \/ \E t \in loc[p].todo :
          /\ \A u \in loc[p].todo : ~Outranks(deployed.candidates[p], u, t)
          /\ \/ /\ Deferred(p, t)
                /\ Goto(p, "next")
                /\ loc' = [loc EXCEPT ![p].todo = @ \ {t}]
             \/ /\ ~Deferred(p, t)
                /\ Goto(p, "reserve")
                /\ loc' = [loc EXCEPT ![p].todo = @ \ {t},
                                      ![p].subject = ScheduledKey(t, loc[p].second)]
  /\ UNCHANGED tables

-----------------------------------------------------------------------------
(* reserve_idempotency_key, then enqueue_job. *)

\* Mutant: a key that is taken is no obstacle (INSERT OR IGNORE).
ReserveOrShare(p) ==
  /\ pc[p] = "reserve"
  /\ keys' = keys \cup {loc[p].subject}
  /\ Goto(p, "enqueue")
  /\ UNCHANGED <<loc, job, alerts, audits>>

\* DuplicateIdempotencyKeyError: the request is answered, the repair is
\* rejected, and the rest of a batch is given up.
Reserve(p) ==
  /\ pc[p] = "reserve"
  /\ \/ /\ loc[p].subject \notin keys
        /\ keys' = keys \cup {loc[p].subject}
        /\ Goto(p, "enqueue")
        /\ UNCHANGED loc
     \/ /\ loc[p].subject \in keys
        /\ Leave(p)
        /\ UNCHANGED keys
  /\ UNCHANGED <<job, alerts, audits>>

\* The objective matters for scheduled jobs only.
ObjectiveOf(p) ==
  IF p \in Services THEN Reasons(deployed.candidates[p][loc[p].subject[2]]) ELSE {}

AfterEnqueue(p) ==
  \/ p \in Clis /\ Leave(p)
  \/ p \in Operators /\ Goto(p, "audit") /\ UNCHANGED loc
  \/ p \in Services /\ Goto(p, "next") /\ UNCHANGED loc

Enqueue(p) ==
  /\ pc[p] = "enqueue"
  /\ job[loc[p].subject].state = "absent"
  /\ job' = [job EXCEPT ![loc[p].subject] =
                [NoJob EXCEPT !.state = "queued", !.objective = ObjectiveOf(p)]]
  /\ AfterEnqueue(p)
  /\ UNCHANGED <<keys, alerts, audits>>

-----------------------------------------------------------------------------
(* Alerts, and the audit of repairs and alerts. *)

EmitAlert(p, a) ==
  /\ p \in Monitors
  /\ pc[p] = "idle"
  /\ TakeUp(p, a, "alert")
  /\ UNCHANGED tables

\* Mutant: the audit is left to whoever finds the alert recorded.
RecordAlertUnaudited(p) ==
  /\ pc[p] = "alert"
  /\ alerts' = alerts \cup {loc[p].subject}
  /\ \/ loc[p].subject \in alerts /\ Goto(p, "audit") /\ UNCHANGED loc
     \/ loc[p].subject \notin alerts /\ Leave(p)
  /\ UNCHANGED <<keys, job, audits>>

\* record_operator_alert is an INSERT OR IGNORE; only the emitter whose row
\* it was goes on to the audit.
RecordAlert(p) ==
  /\ pc[p] = "alert"
  /\ alerts' = alerts \cup {loc[p].subject}
  /\ \/ loc[p].subject \notin alerts /\ Goto(p, "audit") /\ UNCHANGED loc
     \/ loc[p].subject \in alerts /\ Leave(p)
  /\ UNCHANGED <<keys, job, audits>>

Audit(p) ==
  /\ pc[p] = "audit"
  /\ audits' = audits \cup {loc[p].subject}
  /\ Leave(p)
  /\ UNCHANGED <<keys, job, alerts>>

-----------------------------------------------------------------------------
Begin(p) ==
  \/ \E r \in Requests : RunStart(p, r) \/ RunResume(p, r)
  \/ \E k \in Sources : SubmitRepairJob(p, k) \/ RecoverDeadLetter(p, k)
  \/ EnqueueDueRuns(p)
  \/ \E a \in Alerts : EmitAlert(p, a)

ProducerStep(p) ==
  \/ LookUp(p)
  \/ NextTopic(p)
  \/ Reserve(p)
  \/ Enqueue(p)
  \/ RecordAlert(p)
  \/ Audit(p)

\* The drivers of the queue settle jobs.  What becomes of a repair job matters
\* to nobody here.
Execute(k) ==
  /\ job[k].state = "queued"
  /\ \/ job' = [job EXCEPT ![k].state = "completed"]
     \/ \E code \in Codes :
          job' = [job EXCEPT ![k].state = "dead_letter", ![k].code = code]
  /\ UNCHANGED <<keys, alerts, audits, pc, loc>>

Crash(p) ==
  /\ pc[p] # "idle"
  /\ Cardinality(cut) < MaxCrashes
  /\ cut' = cut \cup {<<pc[p], loc[p].subject>>}
  /\ Leave(p)
  /\ UNCHANGED <<tables, second>>

Tick ==
  /\ second < deployed.until
  /\ second' = second + 1
  /\ UNCHANGED <<tables, pc, loc, cut>>

Next ==
  /\ \/ /\ \/ \E p \in deployed.procs : Begin(p) \/ ProducerStep(p)
           \/ \E k \in Sources : Execute(k)
        /\ UNCHANGED <<second, cut>>
     \/ \E p \in deployed.procs : Crash(p)
     \/ Tick
  /\ UNCHANGED deployed

Spec == Init /\ [][Next]_producerVars

-----------------------------------------------------------------------------
At(label, subject) == \E p \in Procs : pc[p] = label /\ loc[p].subject = subject

(* No key without its job: a key that has been reserved, so that every     *)
(* later request under it is answered as a duplicate, has its row or is in *)
(* the hands of exactly the producer that is about to insert it.  Only a   *)
(* crash between the two transactions loses a job.                         *)
ReservedIsQueued ==
  /\ \A k \in keys : \/ IsQueuedOrOver(k)
                     \/ At("enqueue", k)
                     \/ <<"enqueue", k>> \in cut
  /\ \A p, q \in Procs :
       pc[p] = "enqueue" =>
         /\ ~IsQueuedOrOver(loc[p].subject)
         /\ pc[q] = "enqueue" /\ loc[q].subject = loc[p].subject => p = q

(* The audit log tells what was done: every repair job and every alert is  *)
(* audited, or about to be, or its author crashed before; repeated and     *)
(* concurrent submissions neither leave it to each other nor audit what    *)
(* did not happen.                                                         *)
ActedIsAudited ==
  /\ \A subject \in {k \in Repairs : IsQueuedOrOver(k)} \cup alerts :
       \/ subject \in audits
       \/ At("audit", subject)
       \/ <<"audit", subject>> \in cut
  /\ \A subject \in audits : subject \in alerts \/ subject \in keys

SameCandidates ==
  \A p, q \in deployed.procs \cap Services :
    deployed.candidates[p] = deployed.candidates[q]

OnItsWay(t, s) ==
  \E p \in Services :
    /\ loc[p].second = s
    /\ \/ t \in loc[p].todo
       \/ pc[p] = "reserve" /\ loc[p].subject = ScheduledKey(t, s)

(* Services that are called in one second with one list of candidates make *)
(* up one batch between them: although each gives up at the first topic    *)
(* that another one has reserved, once a topic of the batch is reserved    *)
(* every other one is reserved too, deferred, or ahead of one of them.  A  *)
(* crash, or an operator who takes back the dead letter that deferred a    *)
(* topic, is the exception.                                                *)
BatchIsQueued ==
  SameCandidates /\ cut = {} /\ deployed.procs \cap Operators = {} =>
    \A p \in deployed.procs \cap Services, s \in Seconds :
      LET batch == SelectRefreshTopics(deployed.candidates[p], deployed.limit)
      IN (\E t \in batch : ScheduledKey(t, s) \in keys) =>
           \A u \in batch :
             ScheduledKey(u, s) \in keys \/ Deferred(p, u) \/ OnItsWay(u, s)

\* t is at least as badly off as u in every respect, and comes first or lacks
\* something that u has.
WorseOff(t, u, c, d) ==
  /\ c.due /\ c.best > 0
  /\ \A field \in {"targets", "challengers", "revisions"} : d[field] = 0 => c[field] = 0
  /\ \A field \in {"conflicts", "questions", "inputs", "imbalance", "stagnant"} :
       c[field] >= d[field]
  /\ \/ t < u
     \/ \E field \in {"targets", "challengers", "revisions"} :
          c[field] = 0 /\ d[field] > 0

(* A topic is never passed over for one that is better off in every        *)
(* respect: it is selected with it and has its turn before it, whatever    *)
(* the weights and caps of the score make of the two.                      *)
SelectionFollowsPressure ==
  \A p \in deployed.procs \cap Services : pc[p] # "idle" =>
    \A t, u \in Topics :
      LET c == deployed.candidates[p]
      IN WorseOff(t, u, c[t], c[u]) /\ u \in loc[p].batch =>
           t \in loc[p].batch /\ (t \in loc[p].todo => u \in loc[p].todo)

=============================================================================
