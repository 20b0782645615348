----------------------------- MODULE ExecLauncher -----------------------------
(***************************************************************************)
(* SubprocessCodexExecLauncher.run (runtime.py): a Codex child process     *)
(* writes lines to a pipe; the launcher polls the pipe with a selector,    *)
(* reads lines through a buffered reader and watches the deadline.  The    *)
(* selector sees the pipe only: lines that a read has moved to the buffer  *)
(* wait there until the pipe has data again or the child has exited.       *)
(*                                                                         *)
(* Lines are counted, not represented; blank ones, which have no effect,   *)
(* are left out.  The last line may be unfinished: its first part is in    *)
(* the pipe or already in the buffer.                                      *)
(***************************************************************************)
EXTENDS Integers

CONSTANTS
  Executions,  \* executions of the runtime; each has one child at a time
  MaxLines     \* bound: lines that the children of each execution write

VARIABLE child

ChildStatus == {"none", "running", "succeeded", "failed", "killed"}

\* written counts the lines of all children of the execution.
NoChild == [status |-> "none", pipe |-> 0, buffer |-> 0, partial |-> "no", written |-> 0]

ChildTypeOK ==
  child \in [Executions -> [status : ChildStatus, pipe : Nat, buffer : Nat,
                            partial : {"no", "pipe", "buffer"}, written : Nat]]

ChildInit == child = [e \in Executions |-> NoChild]

Running(e) == child[e].status = "running"

-----------------------------------------------------------------------------
(* The child. *)

WriteLine(e) ==
  /\ Running(e)
  /\ child[e].partial # "no" \/ child[e].written < MaxLines[e]
  /\ child' = [child EXCEPT ![e].pipe = @ + 1, ![e].partial = "no",
                            ![e].written = IF child[e].partial = "no" THEN @ + 1 ELSE @]

WritePartOfLine(e) ==
  /\ Running(e)
  /\ child[e].written < MaxLines[e]
  /\ child[e].partial = "no"
  /\ child' = [child EXCEPT ![e].partial = "pipe", ![e].written = @ + 1]

\* What is left of an unfinished line counts as a line at end of file.
Exit(e, status) ==
  /\ Running(e)
  /\ child' = [child EXCEPT
                 ![e].status = status,
                 ![e].pipe = IF child[e].partial = "no" THEN @ ELSE @ + 1,
                 ![e].partial = "no"]

-----------------------------------------------------------------------------
(* The launcher. *)

\* A process that has ended, with its pipe, gives way to what comes next.
Emptied(e, status) == [NoChild EXCEPT !.status = status, !.written = child[e].written]

Spawn(e) == child' = [child EXCEPT ![e] = Emptied(e, "running")]

\* An exited child's pipe is at end of file, which is readable as well.
Readable(e) == child[e].pipe > 0 \/ child[e].partial = "pipe" \/ ~Running(e)

\* readline with a line at hand: in the buffer, or in a chunk of the pipe,
\* which may end with a part of the unfinished line.
ReadLine(e) ==
  \/ /\ child[e].buffer > 0
     /\ child' = [child EXCEPT ![e].buffer = @ - 1]
  \/ /\ child[e].buffer = 0
     /\ \E chunk \in 1 .. child[e].pipe :
          \E rest \in IF child[e].partial = "pipe" /\ chunk = child[e].pipe
                       THEN {"pipe", "buffer"} ELSE {child[e].partial} :
            child' = [child EXCEPT ![e].pipe = @ - chunk, ![e].buffer = chunk - 1,
                                   ![e].partial = rest]

\* readline with the first part of a line only: it blocks until the line is
\* complete, whatever the deadline.
NoWholeLine(e) == child[e].buffer = 0 /\ child[e].pipe = 0
Blocks(e) == NoWholeLine(e) /\ child[e].partial = "pipe"

Swallow(e) == child' = [child EXCEPT ![e].partial = "buffer"]

\* Nothing is left to read of a child that has exited.
Drained(e) == ~Running(e) /\ NoWholeLine(e)

\* kill and wait: what was written and not read is dropped.
Kill(e) == child' = [child EXCEPT ![e] = Emptied(e, "killed")]

\* The except clause of run: kill the child if it is alive.
KillIfRunning(e) == IF Running(e) THEN Kill(e) ELSE UNCHANGED child

=============================================================================
