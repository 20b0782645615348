---------------------------- MODULE RuntimeEvents ----------------------------
(***************************************************************************)
(* CodexRuntimeCoordinator.execute (runtime.py) and the event log of one   *)
(* run: run_events, whose primary key is (run_id, seq) and whose rows are  *)
(* neither updated nor deleted.  Several executions may work on one run: a *)
(* resumption beside the execution it took for dead, or a retry after it.  *)
(* Nothing but the key keeps them apart: an execution reads the next       *)
(* number once and counts on from there, so a number that another          *)
(* execution has used stops it.                                            *)
(*                                                                         *)
(* Each append is one step.  Which lines the child writes, and what the    *)
(* validators say of them, are nondeterministic choices.                   *)
(***************************************************************************)
EXTENDS ExecLauncher, FiniteSets

CONSTANTS
  MaxTurns,      \* budgets.max_turns
  MaxToolCalls,  \* budgets.max_tool_calls
  MaxRepairs,    \* output_contract.max_repair_attempts
  MaxCrashes,    \* bound: crashes of an executing process
  None

ASSUME RuntimeAssumption ==
  /\ {MaxTurns, MaxToolCalls, MaxRepairs, MaxCrashes} \subseteq Nat
  /\ MaxLines \in [Executions -> Nat]
  /\ None \notin Executions

VARIABLES
  log,      \* rows of run_events, by seq
  message,  \* who wrote the final message file of an attempt last
  pc,
  loc,
  crashes

runtimeVars == <<child, log, message, pc, loc, crashes>>

LineTypes == {"turn", "tool", "codex"}

\* "no_output" is the run_failed of a missing final message.
Failures == {"run_failed", "no_output"}
EventTypes == LineTypes \cup Failures \cup {"run_started", "output_validated", "run_completed"}

InLauncher == {"poll", "blocked", "line", "reject"}
Appending == {"prepare", "output", "fail", "validate", "complete"} \cup InLauncher
Ended == {"done", "raised", "aborted", "crashed"}

Locals == [seq : Nat, turns : Nat, tools : Nat, repairs : 0 .. MaxRepairs, heard : BOOLEAN]

RuntimeTypeOK ==
  /\ ChildTypeOK
  /\ DOMAIN log \subseteq Nat
  /\ \A i \in DOMAIN log : log[i] \in [type : EventTypes, by : Executions]
  /\ message \in [0 .. MaxRepairs -> Executions \cup {None}]
  /\ pc \in [Executions -> {"idle", "open", "late"} \cup Appending \cup Ended]
  /\ loc \in [Executions -> Locals]
  /\ crashes \in 0 .. MaxCrashes

RuntimeInit ==
  /\ ChildInit
  /\ log = [i \in {} |-> None]
  /\ message = [k \in 0 .. MaxRepairs |-> None]
  /\ pc = [e \in Executions |-> "idle"]
  /\ loc = [e \in Executions |->
              [seq |-> 0, turns |-> 0, tools |-> 0, repairs |-> 0, heard |-> FALSE]]
  /\ crashes = 0

-----------------------------------------------------------------------------
(* The event log. *)

\* Mutant: numbers start at 1.
NextSeqFromOne ==
  IF DOMAIN log = {} THEN 1
  ELSE (CHOOSE i \in DOMAIN log : \A j \in DOMAIN log : j <= i) + 1

\* _next_event_seq.
NextSeq ==
  IF DOMAIN log = {} THEN 0
  ELSE (CHOOSE i \in DOMAIN log : \A j \in DOMAIN log : j <= i) + 1

\* Mutant: the number is read anew for every event.
AppendAnywhere(e, type) ==
  log' = [i \in DOMAIN log \cup {NextSeq} |->
            IF i = NextSeq THEN [type |-> type, by |-> e] ELSE log[i]]

\* append_run_event.
AppendEvent(e, type) ==
  /\ loc[e].seq \notin DOMAIN log
  /\ log' = [i \in DOMAIN log \cup {loc[e].seq} |->
               IF i = loc[e].seq THEN [type |-> type, by |-> e] ELSE log[i]]

Goto(e, label) == pc' = [pc EXCEPT ![e] = label]

\* Mutant: the launcher has no except clause.
RaiseThrough(e, how) == Goto(e, how) /\ UNCHANGED child

\* An exception leaves execute; on its way it passes the launcher.
Raise(e, how) ==
  /\ Goto(e, how)
  /\ IF pc[e] \in InLauncher THEN KillIfRunning(e) ELSE UNCHANGED child

\* DuplicateRunEventError, which nothing in execute catches.
Refused(e) ==
  /\ loc[e].seq \in DOMAIN log
  /\ Raise(e, "raised")
  /\ UNCHANGED <<log, loc>>

CountOn(e) == loc' = [loc EXCEPT ![e].seq = @ + 1]

-----------------------------------------------------------------------------
(* execute, up to the launch. *)

ReadSeq(e) ==
  /\ pc[e] = "idle"
  /\ loc' = [loc EXCEPT ![e].seq = NextSeq]
  /\ Goto(e, "open")
  /\ UNCHANGED <<child, log>>

Open(e) ==
  /\ pc[e] = "open"
  /\ \/ AppendEvent(e, "run_started") /\ CountOn(e) /\ Goto(e, "prepare") /\ UNCHANGED child
     \/ Refused(e)

\* _prepare_invocation checks the workspace, the tool policy, the schema file
\* and the prompt's size.  An OSError of Popen escapes without an event.
Launch(e) ==
  /\ pc[e] = "prepare"
  /\ \/ Spawn(e) /\ Goto(e, "poll") /\ loc' = [loc EXCEPT ![e].heard = FALSE]
     \/ Goto(e, "fail") /\ UNCHANGED <<child, loc>>
     \/ Raise(e, "aborted") /\ UNCHANGED loc
  /\ UNCHANGED log

-----------------------------------------------------------------------------
(* The launcher's loop. *)

TakeLine(e) ==
  /\ \/ pc[e] = "poll" /\ Readable(e)
     \/ pc[e] = "blocked"
  /\ \/ ReadLine(e) /\ Goto(e, "line")
     \/ pc[e] = "poll" /\ Blocks(e) /\ Swallow(e) /\ Goto(e, "blocked")
  /\ UNCHANGED <<log, loc>>

\* A line that is no text in the locale's encoding.
ReadFails(e) ==
  /\ pc[e] \in {"poll", "blocked"}
  /\ Readable(e) /\ ~Drained(e)
  /\ Raise(e, "aborted")
  /\ UNCHANGED <<log, loc>>

\* Mutant: the failure is raised and not recorded.
TimesOutSilently(e) ==
  /\ pc[e] = "poll"
  /\ Running(e)
  /\ Kill(e)
  /\ Goto(e, "raised")
  /\ UNCHANGED <<log, loc>>

\* Mutant: the deadline is watched between events only.
TimesOutOnceHeard(e) ==
  /\ pc[e] = "poll"
  /\ Running(e)
  /\ loc[e].heard
  /\ Kill(e)
  /\ Goto(e, "fail")
  /\ UNCHANGED <<log, loc>>

TimesOut(e) ==
  /\ pc[e] = "poll"
  /\ Running(e)
  /\ Kill(e)
  /\ Goto(e, "fail")
  /\ UNCHANGED <<log, loc>>

-----------------------------------------------------------------------------
(* handle_stdout_line. *)

\* A line that is no event: no JSON object, no type, a bad compaction.
Malformed(e) ==
  /\ pc[e] = "line"
  /\ Goto(e, "reject")
  /\ UNCHANGED <<child, log, loc>>

CountEvent(e, type) ==
  [loc[e] EXCEPT !.seq = @ + 1, !.heard = TRUE,
                 !.turns = IF type = "turn" THEN @ + 1 ELSE @,
                 !.tools = IF type = "tool" THEN @ + 1 ELSE @]

OverBudget(counts) == counts.turns > MaxTurns \/ counts.tools > MaxToolCalls

\* The event is appended, then counted.  A tool call may be against the
\* policy, which the code finds out before it counts: the execution ends.
RecordLine(e) ==
  /\ pc[e] = "line"
  /\ \/ \E type \in LineTypes :
          LET counts == CountEvent(e, type) IN
            /\ AppendEvent(e, type)
            /\ loc' = [loc EXCEPT ![e] = counts]
            /\ \/ ~OverBudget(counts) /\ Goto(e, "poll")
               \/ OverBudget(counts) /\ Goto(e, "reject")
               \/ type = "tool" /\ Goto(e, "reject")
            /\ UNCHANGED child
     \/ Refused(e)

\* _record_failure in the handler; the exception kills the child.
RejectLine(e) ==
  /\ pc[e] = "reject"
  /\ \/ AppendEvent(e, "run_failed") /\ Raise(e, "raised") /\ UNCHANGED loc
     \/ Refused(e)

-----------------------------------------------------------------------------
(* execute, after the launcher has returned. *)

\* A result is taken from a process that succeeded and was heard of.
CheckResult(e) ==
  IF loc[e].heard /\ child[e].status = "succeeded" THEN Goto(e, "output") ELSE Goto(e, "fail")

\* Mutant: the loop ends with the child, what it left in the pipe is not read.
ReturnAtOnce(e) ==
  /\ pc[e] = "poll"
  /\ ~Running(e)
  /\ CheckResult(e)
  /\ UNCHANGED <<child, log, loc>>

LauncherReturns(e) ==
  /\ pc[e] = "poll"
  /\ Drained(e)
  /\ CheckResult(e)
  /\ UNCHANGED <<child, log, loc>>

\* Mutant: the counts of the lines start again with every attempt.
RepairAfresh(e) ==
  /\ loc[e].repairs < MaxRepairs
  /\ loc' = [loc EXCEPT ![e].repairs = @ + 1, ![e].turns = 0, ![e].tools = 0]
  /\ Goto(e, "prepare")

\* Mutant: one attempt more than the contract allows.
RepairOnceMore(e) ==
  /\ loc[e].repairs <= MaxRepairs
  /\ loc' = [loc EXCEPT ![e].repairs = @ + 1]
  /\ Goto(e, "prepare")

\* A repairable output is asked for again.
Repair(e) ==
  /\ loc[e].repairs < MaxRepairs
  /\ loc' = [loc EXCEPT ![e].repairs = @ + 1]
  /\ Goto(e, "prepare")

\* The file is the attempt's, whoever wrote it.  A valid proposal may still
\* exceed the budgets; a file that is no text escapes without an event.
ValidateFinalOutput(e) ==
  /\ pc[e] = "output"
  /\ \/ /\ message[loc[e].repairs] = None
        /\ loc' = [loc EXCEPT ![e].seq = NextSeq]
        /\ Goto(e, "late")
     \/ /\ message[loc[e].repairs] # None
        /\ \/ \E next \in {"validate", "fail", "aborted"} : Goto(e, next) /\ UNCHANGED loc
           \/ Repair(e)
  /\ UNCHANGED <<child, log>>

\* The number of this failure was read anew, so that it can follow the events
\* of another execution.
FailLate(e) ==
  /\ pc[e] = "late"
  /\ \/ AppendEvent(e, "no_output") /\ Raise(e, "raised") /\ UNCHANGED loc
     \/ Refused(e)

Validate(e) ==
  /\ pc[e] = "validate"
  /\ \/ AppendEvent(e, "output_validated") /\ CountOn(e) /\ Goto(e, "complete") /\ UNCHANGED child
     \/ Refused(e)

Complete(e) ==
  /\ pc[e] = "complete"
  /\ \/ AppendEvent(e, "run_completed") /\ Goto(e, "done") /\ UNCHANGED <<child, loc>>
     \/ Refused(e)

Fail(e) ==
  /\ pc[e] = "fail"
  /\ \/ AppendEvent(e, "run_failed") /\ Raise(e, "raised") /\ UNCHANGED loc
     \/ Refused(e)

-----------------------------------------------------------------------------
ExecutionStep(e) ==
  /\ \/ Open(e)
     \/ Launch(e)
     \/ TakeLine(e)
     \/ ReadFails(e)
     \/ LauncherReturns(e)
     \/ TimesOut(e)
     \/ Malformed(e)
     \/ RecordLine(e)
     \/ RejectLine(e)
     \/ ValidateFinalOutput(e)
     \/ FailLate(e)
     \/ Validate(e)
     \/ Complete(e)
     \/ Fail(e)
  /\ UNCHANGED <<message, crashes>>

Begin(e) == ReadSeq(e) /\ UNCHANGED <<message, crashes>>

\* A child writes, may leave a final message, and exits; it does so as well
\* when the process that started it has crashed.
ChildStep(e) ==
  /\ \/ WriteLine(e) /\ UNCHANGED message
     \/ WritePartOfLine(e) /\ UNCHANGED message
     \/ \E status \in {"succeeded", "failed"} : Exit(e, status) /\ UNCHANGED message
     \/ /\ Running(e)
        /\ message' = [message EXCEPT ![loc[e].repairs] = e]
        /\ UNCHANGED child
  /\ UNCHANGED <<log, pc, loc, crashes>>

Crash(e) ==
  /\ crashes < MaxCrashes
  /\ pc[e] \notin {"idle"} \cup Ended
  /\ Goto(e, "crashed")
  /\ crashes' = crashes + 1
  /\ UNCHANGED <<child, log, message, loc>>

RuntimeNext == \E e \in Executions : Begin(e) \/ ExecutionStep(e) \/ ChildStep(e) \/ Crash(e)

RuntimeSpec == RuntimeInit /\ [][RuntimeNext]_runtimeVars

\* Every execution goes on, and its deadline elapses; children may hang.
RuntimeFairness ==
  \A e \in Executions : WF_runtimeVars(ExecutionStep(e))

RuntimeFairSpec == RuntimeSpec /\ RuntimeFairness

-----------------------------------------------------------------------------
(* Whatever executions do to one run, the numbers of its events have no    *)
(* gap, although each execution counts by itself and one reads the next    *)
(* number again for its last event (RUNTIME.md: the log is what a run is   *)
(* replayed from).                                                         *)
LogIsContiguous == \A i \in DOMAIN log : \A j \in 0 .. i : j \in DOMAIN log

FollowsOwn(i, types) ==
  /\ i - 1 \in DOMAIN log
  /\ log[i - 1].by = log[i].by
  /\ log[i - 1].type \in types

(* The events of two executions of a run never interleave: each event but  *)
(* the first follows directly one of its own execution, a line after the   *)
(* start or a line, a validated output after a line (a final message       *)
(* without events is refused), the completion after a validated output,    *)
(* and nothing after a failure.  The failure for a missing final message   *)
(* is the exception: its number is read anew.                              *)
LogIsFenced ==
  \A i \in DOMAIN log :
    /\ log[i].type \in LineTypes \cup {"run_failed"}
         => FollowsOwn(i, {"run_started"} \cup LineTypes)
    /\ log[i].type = "output_validated" => FollowsOwn(i, LineTypes)
    /\ log[i].type = "run_completed" => FollowsOwn(i, {"output_validated"})

Recorded(e, types) ==
  Cardinality({i \in DOMAIN log : log[i].by = e /\ log[i].type \in types})

(* An execution stops with the first turn and the first tool call beyond   *)
(* its budgets, counted over all its repair attempts, and no output is     *)
(* accepted from one that went beyond.                                     *)
BudgetsHold ==
  \A e \in Executions :
    LET slack == IF Recorded(e, {"output_validated"}) = 0 THEN 1 ELSE 0
    IN /\ Recorded(e, {"turn"}) <= MaxTurns + slack
       /\ Recorded(e, {"tool"}) <= MaxToolCalls + slack

(* When an output is looked at, every line that the execution's children   *)
(* wrote is in the log: none is left in the pipe or the reader's buffer    *)
(* when the child exits.                                                   *)
EveryLineIsRecorded ==
  \A e \in Executions :
    pc[e] \in {"output", "validate", "complete", "done"}
      => Recorded(e, LineTypes) = child[e].written

(* An execution that has left the launcher, whichever way, has no child    *)
(* that still runs, unless its process crashed.                            *)
NoOrphan ==
  \A e \in Executions : Running(e) => pc[e] \in InLauncher \cup {"crashed"}

(* An execution that raises has recorded its failure, unless the number it *)
(* counted to belongs to another execution (or an operating system error   *)
(* escaped, which nothing records).                                        *)
FailureIsRecorded ==
  \A e \in Executions : pc[e] = "raised" =>
    \/ Recorded(e, Failures) > 0
    \/ loc[e].seq \in DOMAIN log /\ log[loc[e].seq].by # e

(* Every execution ends, whatever its child does, unless the child begins  *)
(* a line and hangs: readline then waits past the deadline.                *)
EveryExecutionEnds ==
  \A e \in Executions :
    [](pc[e] = "open" => <>(pc[e] \in Ended) \/ <>[](pc[e] = "blocked"))

(* An execution validates what its own child has left: a final message of  *)
(* the attempt stream it has heard, and never the file that an earlier     *)
(* execution of the run left under the same name.                          *)
OutputIsOwn ==
  [][\A e \in Executions :
       pc[e] = "output" /\ pc'[e] = "validate"
         => message[loc[e].repairs] = e]_runtimeVars

===============================================================================
