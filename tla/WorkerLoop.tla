------------------------------ MODULE WorkerLoop ------------------------------
(***************************************************************************)
(* The worker loops of one topic (WorkerLoopService.run and the            *)
(* worker_loops operations of the ledger): services acquire the topic's    *)
(* loop lease, renew it between two items, record an iteration after each  *)
(* item, and stop themselves for a reason of their policy; the operator    *)
(* stops the running loop from another process; services crash.            *)
(*                                                                         *)
(* Time is an integer that passes between any two steps, also while an     *)
(* item is executed: the lease is renewed between two items only, and      *)
(* nothing keeps an item shorter than it.  Executing an item is one step   *)
(* that ends with the outcomes the loop tells apart; what it does to the   *)
(* queue and the runs is LoopExecutor's subject.                           *)
(***************************************************************************)
EXTENDS Integers, FiniteSets

CONSTANTS
  Services,       \* processes that call run()
  Loops,          \* loop ids, a hash of topic, worker, start and previous loop
  None,
  MaxIterations, MaxNoYield, MaxMalformed, MaxRuntime, LeaseTTL, \* the policy
  MaxTime,        \* bound: how far time goes
  MaxStops,       \* bound: the operator's stop commands
  MaxLoopCrashes  \* bound: crashes of services

ASSUME WorkerLoopAssumption ==
  /\ None \notin Loops
  /\ {MaxIterations, MaxNoYield, MaxMalformed, MaxRuntime, LeaseTTL} \subseteq Nat \ {0}
  /\ {MaxTime, MaxStops, MaxLoopCrashes} \subseteq Nat

VARIABLES
  loops,       \* worker_loops
  iterations,  \* numbers of each loop's rows in worker_loop_iterations
  pc, loc,     \* program counter and locals of each service
  now, stops, loopCrashes

loopVars == <<loops, iterations, pc, loc, now, stops, loopCrashes>>

RowStates == {"absent", "running", "stopped", "blocked", "converged"}

StopReasons ==
  {"none", "lease_expired", "stopped_by_operator", "max_iterations",
   "budget_exhausted", "empty_queue_paused_active_conflicts",
   "empty_queue_converged", "executor_error", "blocked_contract_mismatch",
   "repeated_malformed_proposal", "max_consecutive_no_yield"}

StopState ==
  [reason \in StopReasons |->
     CASE reason \in {"empty_queue_converged", "max_consecutive_no_yield"} -> "converged"
       [] reason \in {"budget_exhausted", "empty_queue_paused_active_conflicts",
                      "executor_error", "blocked_contract_mismatch",
                      "repeated_malformed_proposal"}                       -> "blocked"
       [] OTHER                                                            -> "stopped"]

Outcomes == {"yielded", "no_yield", "malformed", "contract_mismatch", "crashed"}

LoopRow == [state : RowStates, lease : Nat, reason : StopReasons,
            iteration_count : Nat, no_yield : Nat, malformed : Nat]

Places == {"idle", "acquire", "heartbeat", "poll", "execute", "append", "stop"}

ServiceLocals == [loop : Loops \cup {None}, start : Nat, time : Nat,
                  iteration : Nat, no_yield : Nat, malformed : Nat,
                  reason : StopReasons]

LoopsTypeOK ==
  /\ loops \in [Loops -> LoopRow]
  /\ iterations \in [Loops -> SUBSET Nat]
  /\ pc \in [Services -> Places]
  /\ loc \in [Services -> ServiceLocals]
  /\ now \in Nat
  /\ stops \in 0..MaxStops
  /\ loopCrashes \in 0..MaxLoopCrashes

NoRow == [state |-> "absent", lease |-> 0, reason |-> "none",
          iteration_count |-> 0, no_yield |-> 0, malformed |-> 0]

NoLocals == [loop |-> None, start |-> 0, time |-> 0, iteration |-> 0, no_yield |-> 0,
             malformed |-> 0, reason |-> "none"]

Init ==
  /\ loops = [l \in Loops |-> NoRow]
  /\ iterations = [l \in Loops |-> {}]
  /\ pc = [s \in Services |-> "idle"]
  /\ loc = [s \in Services |-> NoLocals]
  /\ now = 0
  /\ stops = 0
  /\ loopCrashes = 0

-----------------------------------------------------------------------------
Goto(s, place) == pc' = [pc EXCEPT ![s] = place]

\* run() returns, or an exception escapes from it; the row stays as it is.
Leave(s) == Goto(s, "idle") /\ loc' = [loc EXCEPT ![s] = NoLocals]

IsRunning(l) == loops[l].state = "running"

Begin(s, l) ==
  /\ pc[s] = "idle"
  /\ loops[l].state = "absent"
  /\ Goto(s, "acquire")
  /\ loc' = [loc EXCEPT ![s].loop = l, ![s].start = now, ![s].time = now]
  /\ UNCHANGED <<loops, iterations>>

-----------------------------------------------------------------------------
(* acquire_worker_loop.  One transaction: a loop that runs under a valid   *)
(* lease blocks, one whose lease has expired is stopped, and the new row   *)
(* is inserted unless its id is taken (sqlite3.IntegrityError).            *)

NewRow(start) ==
  [NoRow EXCEPT !.state = "running", !.lease = start + LeaseTTL]

\* Mutant: state and stop_reason swapped in the UPDATE.
ExpiredRowSwapped(l, start) ==
  [loops[l] EXCEPT !.state = "lease_expired", !.reason = "stopped"]

ExpiredRow(l, start) ==
  [loops[l] EXCEPT !.state = "stopped", !.reason = "lease_expired"]

Blocks(l, id, start) ==
  IsRunning(l) /\ loops[l].lease > start /\ l # id

\* Mutant: the lease of the running loop is not looked at.
AcquireByForce(s) ==
  LET id == loc[s].loop
      start == loc[s].start
  IN /\ pc[s] = "acquire"
     /\ \/ /\ loops[id].state = "absent"
           /\ loops' = [l \in Loops |->
                          IF l = id THEN NewRow(start)
                          ELSE IF IsRunning(l) THEN ExpiredRow(l, start)
                          ELSE loops[l]]
           /\ Goto(s, "heartbeat")
           /\ UNCHANGED loc
        \/ loops[id].state # "absent" /\ Leave(s) /\ UNCHANGED loops
     /\ UNCHANGED iterations

\* Mutant: INSERT OR REPLACE.
AcquireReplacing(s) ==
  LET id == loc[s].loop
      start == loc[s].start
  IN /\ pc[s] = "acquire"
     /\ \/ /\ \E l \in Loops : Blocks(l, id, start)
           /\ Leave(s)
           /\ UNCHANGED loops
        \/ /\ \A l \in Loops : ~Blocks(l, id, start)
           /\ loops' = [l \in Loops |->
                          IF l = id THEN NewRow(start)
                          ELSE IF IsRunning(l) THEN ExpiredRow(l, start)
                          ELSE loops[l]]
           /\ Goto(s, "heartbeat")
           /\ UNCHANGED loc
     /\ UNCHANGED iterations

Acquire(s) ==
  LET id == loc[s].loop
      start == loc[s].start
  IN /\ pc[s] = "acquire"
     /\ \/ /\ \/ \E l \in Loops : Blocks(l, id, start)
              \/ loops[id].state # "absent"
           /\ Leave(s)
           /\ UNCHANGED loops
        \/ /\ \A l \in Loops : ~Blocks(l, id, start)
           /\ loops[id].state = "absent"
           /\ loops' = [l \in Loops |->
                          IF l = id THEN NewRow(start)
                          ELSE IF IsRunning(l) THEN ExpiredRow(l, start)
                          ELSE loops[l]]
           /\ Goto(s, "heartbeat")
           /\ UNCHANGED loc
     /\ UNCHANGED iterations

-----------------------------------------------------------------------------
(* heartbeat_worker_loop at the top of the loop, then the checks that need *)
(* no item.  A loop that no longer runs raises KeyError out of run().      *)

Renew(s) ==
  LET l == loc[s].loop
  IN IsRunning(l) /\ loops' = [loops EXCEPT ![l].lease = now + LeaseTTL]

Exhausted(s) ==
  CASE loc[s].iteration >= MaxIterations  -> "max_iterations"
    [] now - loc[s].start >= MaxRuntime   -> "budget_exhausted"
    [] OTHER                              -> "none"

Heartbeat(s) ==
  /\ pc[s] = "heartbeat"
  /\ \/ /\ Renew(s)
        /\ Goto(s, IF Exhausted(s) = "none" THEN "poll" ELSE "stop")
        /\ loc' = [loc EXCEPT ![s].time = now, ![s].reason = Exhausted(s)]
     \/ ~IsRunning(loc[s].loop) /\ Leave(s) /\ UNCHANGED loops
  /\ UNCHANGED iterations

\* Mutant: an empty queue is polled again.
PollAgain(s) ==
  /\ pc[s] = "poll"
  /\ Goto(s, "execute") \/ Goto(s, "heartbeat")
  /\ UNCHANGED <<loc, loops, iterations>>

\* The queue has an item of the topic, or not.
Poll(s) ==
  /\ pc[s] = "poll"
  /\ \/ Goto(s, "execute") /\ UNCHANGED loc
     \/ \E reason \in {"empty_queue_paused_active_conflicts", "empty_queue_converged"} :
           Goto(s, "stop") /\ loc' = [loc EXCEPT ![s].reason = reason]
  /\ UNCHANGED <<loops, iterations>>

\* Mutant: the streaks are compared with > instead of >=.
VerdictOffByOne(outcome, malformed, no_yield) ==
  CASE outcome = "crashed"           -> "executor_error"
    [] outcome = "contract_mismatch" -> "blocked_contract_mismatch"
    [] OTHER ->
         IF malformed > MaxMalformed   THEN "repeated_malformed_proposal"
         ELSE IF no_yield > MaxNoYield THEN "max_consecutive_no_yield"
         ELSE "none"

\* The checks after an iteration, in the order of the code.
Verdict(outcome, malformed, no_yield) ==
  CASE outcome = "crashed"           -> "executor_error"
    [] outcome = "contract_mismatch" -> "blocked_contract_mismatch"
    [] OTHER ->
         IF malformed >= MaxMalformed   THEN "repeated_malformed_proposal"
         ELSE IF no_yield >= MaxNoYield THEN "max_consecutive_no_yield"
         ELSE "none"

NoYieldAfter(s, outcome) ==
  IF outcome = "yielded" THEN 0 ELSE loc[s].no_yield + 1

MalformedAfter(s, outcome) ==
  IF outcome \in {"malformed", "contract_mismatch"} THEN loc[s].malformed + 1 ELSE 0

\* The executor and the yield analysis; exceptions are caught.  What to do
\* after the iteration depends on locals only, so it is decided here.
Execute(s) ==
  /\ pc[s] = "execute"
  /\ \E outcome \in Outcomes :
       loc' = [loc EXCEPT
                 ![s].iteration = loc[s].iteration + 1,
                 ![s].no_yield = NoYieldAfter(s, outcome),
                 ![s].malformed = MalformedAfter(s, outcome),
                 ![s].reason = Verdict(outcome, MalformedAfter(s, outcome),
                                       NoYieldAfter(s, outcome))]
  /\ Goto(s, "append")
  /\ UNCHANGED <<loops, iterations>>

\* append_worker_loop_iteration; the row's state is not looked at.
Append(s) ==
  LET l == loc[s].loop
      n == loc[s].iteration
  IN /\ pc[s] = "append"
     /\ \/ /\ n \notin iterations[l]
           /\ iterations' = [iterations EXCEPT ![l] = @ \cup {n}]
           /\ loops' = [loops EXCEPT ![l].iteration_count = n,
                                     ![l].no_yield = loc[s].no_yield,
                                     ![l].malformed = loc[s].malformed]
           /\ Goto(s, IF loc[s].reason = "none" THEN "heartbeat" ELSE "stop")
           /\ UNCHANGED loc
        \/ n \in iterations[l] /\ Leave(s) /\ UNCHANGED <<loops, iterations>>

\* stop_worker_loop at the end of run(): whatever the row's state is.
Stop(s) ==
  /\ pc[s] = "stop"
  /\ loops' = [loops EXCEPT ![loc[s].loop].state = StopState[loc[s].reason],
                            ![loc[s].loop].reason = loc[s].reason]
  /\ Leave(s)
  /\ UNCHANGED iterations

ServiceStep(s) ==
  \/ Acquire(s)
  \/ Heartbeat(s)
  \/ Poll(s)
  \/ Execute(s)
  \/ Append(s)
  \/ Stop(s)

-----------------------------------------------------------------------------
\* stop_worker_loop_for_topic, behind `crb worker stop'.
OperatorStop ==
  /\ stops < MaxStops
  /\ stops' = stops + 1
  /\ \E l \in Loops :
       /\ IsRunning(l)
       /\ loops' = [loops EXCEPT ![l].state = "stopped",
                                 ![l].reason = "stopped_by_operator"]
  /\ UNCHANGED <<iterations, pc, loc, now, loopCrashes>>

Crash(s) ==
  /\ pc[s] # "idle"
  /\ loopCrashes < MaxLoopCrashes
  /\ loopCrashes' = loopCrashes + 1
  /\ Leave(s)
  /\ UNCHANGED <<loops, iterations, now, stops>>

\* Time passes, whatever the services are about.
Tick ==
  /\ now < MaxTime
  /\ now' = now + 1
  /\ UNCHANGED <<loops, iterations, pc, loc, stops, loopCrashes>>

Next ==
  \/ \E s \in Services :
       /\ ServiceStep(s) \/ \E l \in Loops : Begin(s, l)
       /\ UNCHANGED <<now, stops, loopCrashes>>
  \/ OperatorStop
  \/ \E s \in Services : Crash(s)
  \/ Tick

Spec == Init /\ [][Next]_loopVars

\* A service that runs keeps running.
Fairness ==
  \A s \in Services : WF_loopVars(ServiceStep(s) /\ UNCHANGED <<now, stops, loopCrashes>>)

FairSpec == Spec /\ Fairness

-----------------------------------------------------------------------------
Executing(s) == pc[s] = "execute"

(* The loop of s is not its own any more: the operator stopped it, or      *)
(* another service stopped it a full lease after its last heartbeat.       *)
Deprived(s) ==
  LET l == loc[s].loop
  IN /\ ~IsRunning(l)
     /\ \/ loops[l].reason = "stopped_by_operator"
        \/ /\ loops[l].reason = "lease_expired"
           /\ now - loc[s].time >= LeaseTTL

(* Of two services that execute items of the topic at the same time, one   *)
(* has been deprived of its loop: the operator stopped it, or it has not   *)
(* renewed its lease for as long as the lease lasts.  A loop that beat     *)
(* since then is never taken over, although the takeover compares the      *)
(* lease with a start that was read before, and heartbeats, takeovers and  *)
(* items take their time.                                                  *)
LeaseExcludes ==
  \A s1, s2 \in Services :
    Executing(s1) /\ Executing(s2) /\ s1 # s2 => Deprived(s1) \/ Deprived(s2)

(* A loop's recorded iterations are numbered without a gap and counted in  *)
(* its row, although two services may come up with the same loop id and    *)
(* late services write to loops that were stopped or taken over.           *)
IterationsAreCounted ==
  \A l \in Loops : iterations[l] = 1..loops[l].iteration_count

(* No loop goes past the limits of its policy by an item: iterations, the  *)
(* no-yield streak and the malformed streak as the dashboard shows them.   *)
LoopBudget ==
  \A l \in Loops : /\ loops[l].iteration_count <= MaxIterations
                   /\ loops[l].no_yield <= MaxNoYield
                   /\ loops[l].malformed <= MaxMalformed

(* Every loop ends by itself, with items to execute for ever and whatever  *)
(* becomes of them, as long as each of them ends: every service is outside *)
(* run() again and again, since run() returns or raises.                   *)
EveryLoopEnds == \A s \in Services : []<>(pc[s] = "idle")

==============================================================================
