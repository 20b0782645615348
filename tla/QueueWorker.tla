----------------------------- MODULE QueueWorker -----------------------------
(***************************************************************************)
(* QueueWorker (queue_worker.py): processes deliver queue items, start     *)
(* their run through the orchestrator, call the handler, and acknowledge,  *)
(* requeue or dead-letter the item.  The decisions of _nack and            *)
(* _dead_letter are taken on a row read before the write, so both are two  *)
(* steps.  Around them: clients that enqueue, the clock, crashes, and the  *)
(* operator's recoveries.                                                  *)
(***************************************************************************)
EXTENDS Environment

CONSTANTS
  Pollers,          \* processes that call execute_next
  Callers,          \* processes whose execute_item is called by others
  CallerRuns,       \* run ids execute_item may be called with
  Supported,        \* items of a kind in SUPPORTED_WORKER_JOB_KINDS
  MaxAttempts       \* max_attempts of every item

ASSUME QueueWorkerAssumption ==
  /\ Pollers \cup Callers \subseteq Procs
  /\ CallerRuns \in [Items -> SUBSET Runs]
  /\ MaxAttempts \in Nat \ {0}

Labels ==
  {"idle", "fetch", "complete", "nack", "requeue", "dead", "dead_claimed",
   "dead_unclaimed"} \cup StartLabels

WorkerTypeOK ==
  /\ TypeOK
  /\ pc \in [Procs -> Labels]
  /\ loc \in [Procs -> Locals]
  /\ recoveries \in 0..MaxRecoveries
  /\ crashes \in 0..MaxCrashes

-----------------------------------------------------------------------------
(* Delivery. *)

Deliver(p, q, r) ==
  /\ pc[p] = "idle"
  /\ Goto(p, "fetch")
  /\ loc' = [loc EXCEPT ![p].item = q, ![p].run = r]
  /\ UNCHANGED ledgerVars

\* execute_next: the row fetch_next_claimable_queue_item returns.
ExecuteNext(p, q) ==
  /\ p \in Pollers
  /\ item[q].state = "queued"
  /\ item[q].available = "now"
  /\ Deliver(p, q, RequestedRun[q])

\* execute_item by a caller that has the item's id.
ExecuteItem(p, q, r) ==
  /\ p \in Callers
  /\ r \in CallerRuns[q]
  /\ item[q].state # "absent"
  /\ Deliver(p, q, r)

\* A delivery of an item that is settled or in progress is ignored.
FetchItem(p) ==
  LET q == loc[p].item
  IN /\ pc[p] = "fetch"
     /\ \/ item[q].state # "queued" /\ Return(p)
        \/ item[q].state = "queued" /\ q \in Supported /\ Goto(p, "claim")
             /\ UNCHANGED loc
        \/ item[q].state = "queued" /\ q \notin Supported /\ Goto(p, "dead")
             /\ UNCHANGED loc
     /\ UNCHANGED ledgerVars

-----------------------------------------------------------------------------
(* The handler and the except clauses of execute_item. *)

\* The handler returns, or raises a retryable or a terminal error.
HandlerEnds(p) ==
  /\ pc[p] = "started"
  /\ \E next \in {"complete", "nack", "dead"} : Goto(p, next)
  /\ UNCHANGED <<loc, ledgerVars>>

\* Mutant: only the exceptions with a clause of their own are caught.
CatchNamedStartErrors(p) ==
  /\ pc[p] = "raised"
  /\ \/ /\ loc[p].exc \in {"DuplicateRunStart", "TopicSnapshot", "MalformedRunInput"}
        /\ Goto(p, "dead")
        /\ loc' = [loc EXCEPT ![p].run = link[loc[p].item]]
     \/ /\ loc[p].exc \in {"KeyError", "IntegrityError", "InvalidRunTransition"}
        /\ Return(p)
  /\ UNCHANGED ledgerVars

\* Duplicates, bad snapshots and bad inputs are dead-lettered under the run
\* that the item is linked to; every other exception is retryable.
CatchStartError(p) ==
  /\ pc[p] = "raised"
  /\ \/ /\ loc[p].exc \in {"DuplicateRunStart", "TopicSnapshot", "MalformedRunInput"}
        /\ Goto(p, "dead")
        /\ loc' = [loc EXCEPT ![p].run = link[loc[p].item]]
     \/ /\ loc[p].exc \in {"KeyError", "IntegrityError", "InvalidRunTransition"}
        /\ Goto(p, "nack")
        /\ UNCHANGED loc
  /\ UNCHANGED ledgerVars

-----------------------------------------------------------------------------
(* Acknowledge, requeue, dead-letter.  A QueueMutationMismatchError escapes *)
(* to the caller and leaves the ledger alone.                              *)

Complete(p) ==
  /\ pc[p] = "complete"
  /\ CompleteItem(loc[p].item, loc[p].run, WorkerOf[p])
  /\ Return(p)

\* Mutant: the attempt that fails is not counted.
NackReadOffByOne(p) ==
  /\ pc[p] = "nack"
  /\ Goto(p, IF item[loc[p].item].attempts >= MaxAttempts
             THEN "dead" ELSE "requeue")
  /\ UNCHANGED <<loc, ledgerVars>>

NackRead(p) ==
  /\ pc[p] = "nack"
  /\ Goto(p, IF item[loc[p].item].attempts + 1 >= MaxAttempts
             THEN "dead" ELSE "requeue")
  /\ UNCHANGED <<loc, ledgerVars>>

\* Every retryable failure code has a positive back-off.
Requeue(p) ==
  /\ pc[p] = "requeue"
  /\ HoldsClaim(p)
  /\ RetryItem(loc[p].item, "later")
  /\ Return(p)

DeadLetterRead(p) ==
  /\ pc[p] = "dead"
  /\ Goto(p, IF item[loc[p].item].state = "claimed"
             THEN "dead_claimed" ELSE "dead_unclaimed")
  /\ UNCHANGED <<loc, ledgerVars>>

DeadLetterClaimed(p) ==
  /\ pc[p] = "dead_claimed"
  /\ DeadLetterOwned(loc[p].item, loc[p].run, WorkerOf[p])
  /\ Return(p)

DeadLetterUnclaimed(p) ==
  /\ pc[p] = "dead_unclaimed"
  /\ DeadLetterUnowned(loc[p].item)
  /\ Return(p)

MutationMismatch(p) ==
  /\ pc[p] \in {"complete", "requeue", "dead_claimed"}
  /\ ~HoldsClaim(p)
  /\ Return(p)
  /\ UNCHANGED ledgerVars

WorkerStep(p) ==
  \/ FetchItem(p)
  \/ StartStep(p)
  \/ HandlerEnds(p)
  \/ CatchStartError(p)
  \/ Complete(p)
  \/ NackRead(p)
  \/ Requeue(p)
  \/ DeadLetterRead(p)
  \/ DeadLetterClaimed(p)
  \/ DeadLetterUnclaimed(p)
  \/ MutationMismatch(p)

-----------------------------------------------------------------------------
Next ==
  \/ \E p \in Procs, q \in Items :
       /\ ExecuteNext(p, q) \/ \E r \in Runs : ExecuteItem(p, q, r)
       /\ UNCHANGED <<recoveries, crashes>>
  \/ \E p \in Procs : WorkerStep(p) /\ UNCHANGED <<recoveries, crashes>>
  \/ EnvironmentStep

Spec == Init /\ [][Next]_vars

-----------------------------------------------------------------------------
\* p is somewhere between its claim and the settlement of q.
WorksOn(p, q) == loc[p].item = q /\ pc[p] \notin {"idle", "fetch", "claim"}

(* No orphaned claimed work: as long as no process crashes, every claimed  *)
(* item is still being worked on by a process with the claimant's id, on   *)
(* every error path of execute_item, _nack and _dead_letter and whatever   *)
(* the other deliveries and the operator do meanwhile.                     *)
NoStrandedClaim ==
  crashes = 0 =>
    \A q \in Items : item[q].state = "claimed" =>
      \E p \in Procs : WorkerOf[p] = item[q].by /\ WorksOn(p, q)

(* A queued item has an attempt left: _nack, deciding on a row it read     *)
(* before it writes, never requeues an exhausted item.  (An item that the  *)
(* operator recovered keeps its attempts and may be over.)  It rests on    *)
(* ids of their own: a twin of the claimant may settle its claim, and then *)
(* one of the two requeues on attempts that have gone up meanwhile.        *)
RetryBudget ==
  recoveries = 0 =>
    \A q \in Items : item[q].state = "queued" => item[q].attempts < MaxAttempts

(* Handlers that are at an item at the same time are at the same run of    *)
(* it: the run id fences off every delivery under another one, even after  *)
(* a crash or a recovery put the item back into the queue.                 *)
OneRunHandled ==
  \A p1, p2 \in Procs :
    pc[p1] = "started" /\ pc[p2] = "started" /\ loc[p1].item = loc[p2].item
      => loc[p1].run = loc[p2].run

(* One process at a time runs the handler for an item.                     *)
SingleHandler ==
  \A p1, p2 \in Procs :
    pc[p1] = "started" /\ pc[p2] = "started" /\ loc[p1].item = loc[p2].item
      => p1 = p2

(* A run changes status along STATE_TRANSITIONS only, except when its item *)
(* is dead-lettered in the same step or the operator recovers the item:    *)
(* two processes on the same run never make it jump.                       *)
RunsFollowTable ==
  [][\A r \in Runs :
       RunExists(r) /\ run'[r].status # run[r].status =>
         \/ run'[r].status \in STATE_TRANSITIONS[run[r].status]
         \/ run'[r].status = "dead_letter" /\ item'[run[r].item].state = "dead_letter"
         \/ recoveries' > recoveries]_vars

=============================================================================
