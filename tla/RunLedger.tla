------------------------------ MODULE RunLedger ------------------------------
(***************************************************************************)
(* The relational ledger of persistence/ledger.py: queue items, their      *)
(* idempotency keys, runs, run reports and canonical graph writes.  Every  *)
(* client (queue worker, worker loop, scheduled and interactive runs, the  *)
(* operator's commands) changes this state only through the operations     *)
(* below, each of which is one transaction of the code.                    *)
(*                                                                         *)
(* LedgerSpec lets any client call any operation at any time: what holds   *)
(* of it holds whatever the clients do.  The client modules EXTEND this    *)
(* one and drive the operations from their own program counters.           *)
(*                                                                         *)
(* Abstractions: a queue item has its own idempotency key (the column is   *)
(* UNIQUE), so the key's row is link[q]; available is `available_at <= now'*)
(* and age is `claimed_at lies past the stale threshold', both moved only  *)
(* by the operations and by the passing of time.                           *)
(***************************************************************************)
EXTENDS Naturals

CONSTANTS
  Items,       \* queue item ids
  Runs,        \* run ids
  Workers,     \* values of queue_items.claimed_by
  None,        \* SQL NULL
  Unreserved,  \* the item's idempotency key has no row yet
  AttemptCap   \* bound: no operation raises attempts beyond it

ASSUME NoneIsNoId == /\ None \notin Items \cup Runs \cup Workers
                     /\ Unreserved \notin Runs \cup {None}

ASSUME AttemptCapIsNat == AttemptCap \in Nat

VARIABLES
  item,    \* queue_items
  run,     \* runs; run[r].item = None when there is no row r
  link,    \* idempotency_keys.run_id of each item's key
  report,  \* interactive_run_reports.status of each run
  graph    \* runs with a row in canonical_graph_writes

ledgerVars == <<item, run, link, report, graph>>

-----------------------------------------------------------------------------
(* Lifecycle of a run (orchestrator.py). *)

RunStates ==
  {"queued", "loading_state", "selecting_frontier", "planning",
   "attacking_current_best", "generating_challengers", "codex_executing",
   "normalizing", "adjudicating", "retiring_weak_hypotheses", "persisting",
   "summarizing", "completed", "failed", "dead_letter"}

STATE_TRANSITIONS ==
  [s \in RunStates |->
     CASE s = "queued"                   -> {"loading_state"}
       [] s = "loading_state"            -> {"selecting_frontier", "failed"}
       [] s = "selecting_frontier"       -> {"planning", "failed"}
       [] s = "planning"                 -> {"attacking_current_best"}
       [] s = "attacking_current_best"   -> {"generating_challengers"}
       [] s = "generating_challengers"   -> {"codex_executing"}
       [] s = "codex_executing"          -> {"normalizing", "failed"}
       [] s = "normalizing"              -> {"adjudicating", "failed"}
       [] s = "adjudicating"             ->
            {"retiring_weak_hypotheses", "persisting", "failed"}
       [] s = "retiring_weak_hypotheses" -> {"persisting", "failed"}
       [] s = "persisting"               -> {"summarizing", "failed"}
       [] s = "summarizing"              -> {"completed"}
       [] s = "failed"                   -> {"queued", "dead_letter"}
       [] OTHER                          -> {}]

ItemStates == {"absent", "queued", "claimed", "completed", "dead_letter"}

ReportStates == {"none", "completed", "failed", "quarantined"}

Times == {"now", "later"}
Ages == {"fresh", "stale"}

ItemRow == [state : ItemStates, by : Workers \cup {None}, attempts : Nat,
            available : Times, age : Ages]

RunRow == [item : Items \cup {None}, status : RunStates]

TypeOK ==
  /\ item \in [Items -> ItemRow]
  /\ run \in [Runs -> RunRow]
  /\ link \in [Items -> Runs \cup {None, Unreserved}]
  /\ report \in [Runs -> ReportStates]
  /\ graph \in SUBSET Runs

LedgerInit ==
  /\ item = [q \in Items |-> [state |-> "absent", by |-> None, attempts |-> 0,
                              available |-> "now", age |-> "fresh"]]
  /\ run = [r \in Runs |-> [item |-> None, status |-> "queued"]]
  /\ link = [q \in Items |-> Unreserved]
  /\ report = [r \in Runs |-> "none"]
  /\ graph = {}

-----------------------------------------------------------------------------
(* What the operations read. *)

RunExists(r) == run[r].item # None

\* The runs row whose queue_item_id is q (the column is UNIQUE).
HasRun(q) == \E r \in Runs : run[r].item = q
Owns(r, q) == run[r].item = q

\* _validate_claim_for_mutation: the claim is w's and the run is q's run.
ClaimValid(q, r, w) ==
  /\ item[q].state = "claimed"
  /\ item[q].by = w
  /\ Owns(r, q)

-----------------------------------------------------------------------------
(* Creating work: one transaction for the key, one for the queue row. *)

ReserveKey(q) ==
  /\ link[q] = Unreserved
  /\ link' = [link EXCEPT ![q] = None]
  /\ UNCHANGED <<item, run, report, graph>>

EnqueueJob(q) ==
  /\ item[q].state = "absent"
  /\ item' = [item EXCEPT ![q].state = "queued"]
  /\ UNCHANGED <<run, link, report, graph>>

-----------------------------------------------------------------------------
(* claim_queue_item_for_run(q, w, r): what it returns is decided by the    *)
(* five cases below; only the two that take the claim change anything.     *)

TakeClaim(q, w) ==
  item' = [item EXCEPT ![q].state = "claimed", ![q].by = w,
                          ![q].age = "fresh"]

Claimable(q) == item[q].state # "absent" /\ item[q].available = "now"

\* Mutant: the run is looked up by its own id, not by the item's.
ClaimNewRunAgain(q, r, w) ==
  /\ Claimable(q)
  /\ item[q].state = "queued"
  /\ ~RunExists(r)
  /\ TakeClaim(q, w)
  /\ run' = [run EXCEPT ![r] = [item |-> q, status |-> "queued"]]
  /\ link' = [link EXCEPT ![q] = r]
  /\ UNCHANGED <<report, graph>>

\* First claim: the run row is inserted and the key is linked with it.
ClaimNewRun(q, r, w) ==
  /\ Claimable(q)
  /\ ~HasRun(q)
  /\ item[q].state = "queued"
  /\ ~RunExists(r)
  /\ link[q] = None
  /\ TakeClaim(q, w)
  /\ run' = [run EXCEPT ![r] = [item |-> q, status |-> "queued"]]
  /\ link' = [link EXCEPT ![q] = r]
  /\ UNCHANGED <<report, graph>>

\* The run was created by an earlier attempt and the item is queued again.
ClaimExistingRun(q, r, w) ==
  /\ Claimable(q)
  /\ Owns(r, q)
  /\ item[q].state = "queued"
  /\ TakeClaim(q, w)
  /\ UNCHANGED <<run, link, report, graph>>

\* The item is not queued but its run has the caller's id: the code commits
\* and returns a claim although it took none.
ClaimPasses(q, r) ==
  /\ Claimable(q)
  /\ Owns(r, q)
  /\ item[q].state # "queued"

ClaimReturnsNone(q) ==
  \/ ~Claimable(q)
  \/ ~HasRun(q) /\ item[q].state # "queued"

\* DuplicateRunStartError.
ClaimIsDuplicate(q, r) == Claimable(q) /\ HasRun(q) /\ ~Owns(r, q)

\* sqlite3.IntegrityError: the run id is taken or the key is not writable.
ClaimBreaksIntegrity(q, r) ==
  /\ Claimable(q)
  /\ ~HasRun(q)
  /\ item[q].state = "queued"
  /\ RunExists(r) \/ link[q] # None

-----------------------------------------------------------------------------
(* Settling a queue item. *)

\* Mutant: the retry leaves claimed_by behind.
RetryItemKeepingOwner(q, when) ==
  /\ item[q].state # "absent"
  /\ item[q].attempts < AttemptCap
  /\ item' = [item EXCEPT ![q].state = "queued", ![q].attempts = @ + 1,
                          ![q].available = when, ![q].age = "fresh"]
  /\ UNCHANGED <<run, link, report, graph>>

\* Mutant: the failed attempt is not counted.
RetryItemUncounted(q, when) ==
  /\ item[q].state # "absent"
  /\ item' = [item EXCEPT ![q].state = "queued", ![q].by = None,
                          ![q].available = when, ![q].age = "fresh"]
  /\ UNCHANGED <<run, link, report, graph>>

\* record_queue_retry; when says whether next_available_at is due.
RetryItem(q, when) ==
  /\ item[q].state # "absent"
  /\ item[q].attempts < AttemptCap
  /\ item' = [item EXCEPT ![q].state = "queued", ![q].by = None,
                          ![q].attempts = @ + 1, ![q].available = when,
                          ![q].age = "fresh"]
  /\ UNCHANGED <<run, link, report, graph>>

\* complete_queue_item always validates the claim.
CompleteItem(q, r, w) ==
  /\ ClaimValid(q, r, w)
  /\ item' = [item EXCEPT ![q].state = "completed", ![q].by = None,
                          ![q].age = "fresh"]
  /\ UNCHANGED <<run, link, report, graph>>

DeadLetterRow(q) ==
  /\ item[q].state # "absent"
  /\ item[q].attempts < AttemptCap
  /\ item' = [item EXCEPT ![q].state = "dead_letter", ![q].by = None,
                          ![q].attempts = @ + 1, ![q].age = "fresh"]

\* record_queue_dead_letter with an owner: the claim is validated and the
\* run is dead-lettered too, whatever its status.
DeadLetterOwned(q, r, w) ==
  /\ ClaimValid(q, r, w)
  /\ DeadLetterRow(q)
  /\ run' = [run EXCEPT ![r].status = "dead_letter"]
  /\ UNCHANGED <<link, report, graph>>

\* record_queue_dead_letter without an owner: no check, the run is untouched.
DeadLetterUnowned(q) ==
  /\ DeadLetterRow(q)
  /\ UNCHANGED <<run, link, report, graph>>

-----------------------------------------------------------------------------
(* The operator's recoveries.  Both requeue the run with the item. *)

ReopenRunOf(q, status) ==
  run' = [r \in Runs |-> IF Owns(r, q) THEN [run[r] EXCEPT !.status = status]
                         ELSE run[r]]

\* recover_dead_letter_queue_item; attempts are kept.
RecoverDeadLetter(q) ==
  /\ item[q].state = "dead_letter"
  /\ item' = [item EXCEPT ![q].state = "queued", ![q].by = None,
                          ![q].available = "now", ![q].age = "fresh"]
  /\ ReopenRunOf(q, "queued")
  /\ UNCHANGED <<link, report, graph>>

\* Mutant: the recovery refunds an attempt, as if the claim had counted one.
RecoverStaleClaimRefunding(q, state) ==
  /\ item[q].state = "claimed"
  /\ item[q].age = "stale"
  /\ item' = [item EXCEPT ![q].state = state, ![q].by = None,
                          ![q].attempts = @ - 1, ![q].available = "now",
                          ![q].age = "fresh"]
  /\ ReopenRunOf(q, state)
  /\ UNCHANGED <<link, report, graph>>

\* recover_stale_claimed_item(action = "retry" or "dead_letter").
RecoverStaleClaim(q, state) ==
  /\ item[q].state = "claimed"
  /\ item[q].age = "stale"
  /\ item' = [item EXCEPT ![q].state = state, ![q].by = None,
                          ![q].available = "now", ![q].age = "fresh"]
  /\ ReopenRunOf(q, state)
  /\ UNCHANGED <<link, report, graph>>

-----------------------------------------------------------------------------
(* The run row and its artifacts. *)

\* transition_run_state with expected_state: a compare-and-set.
TransitionRun(r, from, to) ==
  /\ RunExists(r)
  /\ run[r].status = from
  /\ run' = [run EXCEPT ![r].status = to]
  /\ UNCHANGED <<item, link, report, graph>>

\* record_interactive_run_success runs on an autocommit connection without
\* BEGIN, so its two INSERTs commit one by one: the graph row, then the report.
InsertGraphWrite(r) ==
  /\ RunExists(r)
  /\ r \notin graph
  /\ graph' = graph \cup {r}
  /\ UNCHANGED <<item, run, link, report>>

InsertReport(r, status) ==
  /\ RunExists(r)
  /\ report[r] = "none"
  /\ report' = [report EXCEPT ![r] = status]
  /\ UNCHANGED <<item, run, link, graph>>

-----------------------------------------------------------------------------
(* Time. *)

BackoffElapses(q) ==
  /\ item[q].available = "later"
  /\ item' = [item EXCEPT ![q].available = "now"]
  /\ UNCHANGED <<run, link, report, graph>>

ClaimAges(q) ==
  /\ item[q].state = "claimed"
  /\ item[q].age = "fresh"
  /\ item' = [item EXCEPT ![q].age = "stale"]
  /\ UNCHANGED <<run, link, report, graph>>

-----------------------------------------------------------------------------
ItemStep(q) ==
  \/ ReserveKey(q)
  \/ EnqueueJob(q)
  \/ \E when \in Times : RetryItem(q, when)
  \/ DeadLetterUnowned(q)
  \/ RecoverDeadLetter(q)
  \/ \E state \in {"queued", "dead_letter"} : RecoverStaleClaim(q, state)
  \/ BackoffElapses(q)
  \/ ClaimAges(q)

ClaimStep(q, r, w) ==
  \/ ClaimNewRun(q, r, w)
  \/ ClaimExistingRun(q, r, w)
  \/ CompleteItem(q, r, w)
  \/ DeadLetterOwned(q, r, w)

RunStep(r) ==
  \/ \E from \in RunStates : \E to \in STATE_TRANSITIONS[from] :
        TransitionRun(r, from, to)
  \/ InsertGraphWrite(r)
  \/ \E status \in ReportStates \ {"none"} : InsertReport(r, status)

LedgerNext ==
  \/ \E q \in Items : ItemStep(q)
  \/ \E q \in Items, r \in Runs, w \in Workers : ClaimStep(q, r, w)
  \/ \E r \in Runs : RunStep(r)

LedgerSpec == LedgerInit /\ [][LedgerNext]_ledgerVars

-----------------------------------------------------------------------------
(* A run row and the idempotency key of its queue item point at each       *)
(* other: two deliveries never give an item two runs, two items never      *)
(* share one, and no claim leaves a half-made link (the claim transaction  *)
(* of claim_queue_item_for_run and its rollbacks).                         *)
LinkInv ==
  /\ \A r \in Runs : RunExists(r) => link[run[r].item] = r
  /\ \A q \in Items : link[q] \in Runs => Owns(link[q], q)

(* A claim has a claimant and a run to work on, and only a claim has a     *)
(* claimant: no operation leaves claimed_by behind or claims an item       *)
(* without its run row ("orphaned claimed work"); a completed item was     *)
(* claimed, so it has a run as well.                                       *)
ClaimInv ==
  \A q \in Items :
    /\ item[q].state = "claimed" <=> item[q].by # None
    /\ item[q].state \in {"claimed", "completed"} => link[q] \in Runs

(* Reports and graph writes belong to runs, and a run to a queue item that *)
(* was enqueued: the foreign keys of the schema under every operation.     *)
ArtifactInv ==
  /\ \A r \in Runs : r \in graph \/ report[r] # "none" => RunExists(r)
  /\ \A r \in Runs : RunExists(r) => item[run[r].item].state # "absent"

LedgerInv == TypeOK /\ LinkInv /\ ClaimInv /\ ArtifactInv

(* What is recorded stays: a run is never moved to another item, an        *)
(* idempotency key never relinked, a report never rewritten and a graph    *)
(* write never withdrawn, whatever sequence of calls the clients make.     *)
RecordsKept ==
  /\ \A r \in Runs : /\ RunExists(r) => run'[r].item = run[r].item
                     /\ report[r] # "none" => report'[r] = report[r]
  /\ \A q \in Items : link[q] \in Runs => link'[q] = link[q]
  /\ graph \subseteq graph'

RecordsStay == [][RecordsKept]_ledgerVars

=============================================================================
