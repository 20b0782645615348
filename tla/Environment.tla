----------------------------- MODULE Environment -----------------------------
(***************************************************************************)
(* What happens around the processes that execute queue items: producers   *)
(* enqueue, time passes, the operator recovers items (operational.py,      *)
(* behind the CLI's queue commands), processes crash.                      *)
(***************************************************************************)
EXTENDS Orchestrator

CONSTANTS
  RequestedRun,     \* requested_run_id of each item
  OperatorActions,  \* recoveries the operator makes
  MaxRecoveries,    \* bound: how many
  MaxCrashes        \* bound: crashes of processes

ASSUME EnvironmentAssumption ==
  /\ RequestedRun \in [Items -> Runs]
  /\ OperatorActions \subseteq {"recover_dead_letter", "retry_stale", "dead_letter_stale"}
  /\ MaxRecoveries \in Nat
  /\ MaxCrashes \in Nat

VARIABLES
  recoveries,  \* recoveries so far
  crashes      \* crashes so far

envVars == <<recoveries, crashes>>

vars == <<ledgerVars, procVars, recoveries, crashes>>

Init ==
  /\ LedgerInit
  /\ ProcInit
  /\ recoveries = 0
  /\ crashes = 0

\* Producers reserve the key, then insert the row: two transactions.
Submit(q) ==
  \/ ReserveKey(q)
  \/ link[q] # Unreserved /\ EnqueueJob(q)

\* A claim's age matters to the operator only.
Clock(q) ==
  \/ BackoffElapses(q)
  \/ recoveries < MaxRecoveries /\ ClaimAges(q)

RecoverBy(actions, q) ==
  /\ recoveries < MaxRecoveries
  /\ recoveries' = recoveries + 1
  /\ \/ "recover_dead_letter" \in actions /\ RecoverDeadLetter(q)
     \/ "retry_stale" \in actions /\ RecoverStaleClaim(q, "queued")
     \/ "dead_letter_stale" \in actions /\ RecoverStaleClaim(q, "dead_letter")
  /\ UNCHANGED <<procVars, crashes>>

Recover(q) == RecoverBy(OperatorActions, q)

\* A process dies between two steps and starts again with nothing in memory.
Crash(p) ==
  /\ pc[p] # "idle"
  /\ crashes < MaxCrashes
  /\ crashes' = crashes + 1
  /\ Return(p)
  /\ UNCHANGED <<ledgerVars, recoveries>>

EnvironmentStep ==
  \/ \E q \in Items :
       /\ Submit(q) \/ Clock(q)
       /\ UNCHANGED <<procVars, envVars>>
  \/ \E q \in Items : Recover(q)
  \/ \E p \in Procs : Crash(p)

-----------------------------------------------------------------------------
(* A settled item stays settled: only the operator takes an item out of    *)
(* dead_letter, and nobody queues or claims a completed one again, although *)
(* late processes still act on rows they read before it was settled.       *)
SettledStays ==
  [][\A q \in Items :
       /\ item[q].state \in {"completed", "dead_letter"}
       /\ item'[q].state \in {"queued", "claimed"}
       => /\ item[q].state = "dead_letter"
          /\ recoveries' > recoveries]_vars

=============================================================================
