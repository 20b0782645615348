------------------------- MODULE RuntimeEventsProofs -------------------------
(***************************************************************************)
(* The event log of a run keeps its order for any number of executions,    *)
(* lines, repairs and crashes: numbers without a gap, executions that do   *)
(* not interleave.  No execution leaves a child behind.                    *)
(***************************************************************************)
EXTENDS RuntimeEvents, FiniteSetTheorems, TLAPS

\* The log as a sequence: its numbers are 0 .. n-1.
LogIsPrefix == \E n \in Nat : DOMAIN log = 0 .. n - 1

\* The event that precedes the number of e is its own, of one of the types.
LastIsOwn(e, types) ==
  /\ loc[e].seq - 1 \in DOMAIN log
  /\ log[loc[e].seq - 1].by = e
  /\ log[loc[e].seq - 1].type \in types

\* No number below that of e is free.
Reached(e) == \A i \in 0 .. loc[e].seq - 1 : i \in DOMAIN log

\* What an execution knows of the log: it wrote the event before its number,
\* and once it has heard of its child that event is a line.
Known(e) ==
  /\ pc[e] \in {"idle", "open"} => ~loc[e].heard
  /\ pc[e] \in {"open", "late"} \cup Appending => Reached(e)
  /\ pc[e] \in Appending \ {"complete"} => LastIsOwn(e, {"run_started"} \cup LineTypes)
  /\ pc[e] \in Appending \ {"complete"} /\ loc[e].heard => LastIsOwn(e, LineTypes)
  /\ pc[e] \in {"output", "validate"} => loc[e].heard
  /\ pc[e] = "complete" => LastIsOwn(e, {"output_validated"})

FenceInv ==
  /\ RuntimeTypeOK
  /\ LogIsPrefix
  /\ LogIsFenced
  /\ \A e \in Executions : Known(e)

-----------------------------------------------------------------------------
LEMMA InitFence == RuntimeInit => FenceInv
  <1> SUFFICES ASSUME RuntimeInit PROVE FenceInv
    OBVIOUS
  <1> USE RuntimeAssumption
  <1>1. DOMAIN log = 0 .. 0 - 1
    BY DEF RuntimeInit
  <1>2. RuntimeTypeOK
    <2>1. ChildTypeOK
      BY DEF RuntimeInit, ChildInit, ChildTypeOK, NoChild, ChildStatus
    <2>2. DOMAIN log \subseteq Nat /\ \A i \in DOMAIN log : log[i] \in [type : EventTypes, by : Executions]
      BY DEF RuntimeInit
    <2>3. message \in [0 .. MaxRepairs -> Executions \cup {None}]
      BY DEF RuntimeInit
    <2>4. loc \in [Executions -> Locals]
      BY DEF RuntimeInit, Locals
    <2>5. QED
      BY <2>1, <2>2, <2>3, <2>4 DEF RuntimeInit, RuntimeTypeOK
  <1>3. LogIsPrefix
    BY <1>1 DEF LogIsPrefix
  <1>4. LogIsFenced
    BY <1>1 DEF LogIsFenced
  <1>5. \A e \in Executions : Known(e)
    BY DEF RuntimeInit, Known, Appending, InLauncher
  <1>6. QED
    BY <1>2, <1>3, <1>4, <1>5 DEF FenceInv

\* Each operation on a child leaves a well-formed child.
LEMMA ChildStaysTyped ==
  ASSUME ChildTypeOK, MaxLines \in [Executions -> Nat], NEW e \in Executions,
         \/ Spawn(e) \/ ReadLine(e) \/ Swallow(e) \/ Kill(e) \/ KillIfRunning(e)
         \/ WriteLine(e) \/ WritePartOfLine(e)
         \/ \E status \in {"succeeded", "failed"} : Exit(e, status)
         \/ UNCHANGED child
  PROVE  ChildTypeOK'
  <1> DEFINE Child == [status : ChildStatus, pipe : Nat, buffer : Nat,
                       partial : {"no", "pipe", "buffer"}, written : Nat]
  <1>1. child \in [Executions -> Child]
    BY DEF ChildTypeOK
  <1>2. SUFFICES child' \in [Executions -> Child]
    BY DEF ChildTypeOK
  <1>3. child[e] \in Child
    BY <1>1
  <1>4. \A status \in ChildStatus : Emptied(e, status) \in Child
    BY <1>3 DEF Emptied, NoChild, ChildStatus
  <1>5. CASE Spawn(e) \/ Kill(e)
    BY <1>1, <1>4, <1>5 DEF Spawn, Kill, ChildStatus
  <1>6. CASE ReadLine(e)
    <2>1. CASE child[e].buffer > 0 /\ child' = [child EXCEPT ![e].buffer = @ - 1]
      BY <1>1, <1>3, <2>1
    <2>2. CASE \E chunk \in 1 .. child[e].pipe :
                 \E rest \in IF child[e].partial = "pipe" /\ chunk = child[e].pipe
                             THEN {"pipe", "buffer"} ELSE {child[e].partial} :
                   child' = [child EXCEPT ![e].pipe = @ - chunk, ![e].buffer = chunk - 1,
                                          ![e].partial = rest]
      <3>1. PICK chunk \in 1 .. child[e].pipe, rest \in {"no", "pipe", "buffer"} :
              child' = [child EXCEPT ![e].pipe = @ - chunk, ![e].buffer = chunk - 1,
                                     ![e].partial = rest]
        BY <1>3, <2>2
      <3>2. child[e].pipe - chunk \in Nat /\ chunk - 1 \in Nat
        BY <1>3, <3>1
      <3>3. QED
        BY <1>1, <1>3, <3>1, <3>2
    <2>3. QED
      BY <1>6, <2>1, <2>2 DEF ReadLine
  <1>7. CASE Swallow(e) \/ WritePartOfLine(e)
    BY <1>1, <1>3, <1>7 DEF Swallow, WritePartOfLine
  <1>8. CASE KillIfRunning(e)
    BY <1>1, <1>4, <1>8 DEF KillIfRunning, Kill, ChildStatus
  <1>9. CASE WriteLine(e)
    BY <1>1, <1>3, <1>9 DEF WriteLine
  <1>10. CASE \E status \in {"succeeded", "failed"} : Exit(e, status)
    BY <1>1, <1>3, <1>10 DEF Exit, ChildStatus
  <1>11. CASE UNCHANGED child
    BY <1>1, <1>11
  <1>12. QED
    BY <1>5, <1>6, <1>7, <1>8, <1>9, <1>10, <1>11

-----------------------------------------------------------------------------
LEMMA LastOfInterval ==
  ASSUME NEW n \in Nat, n > 0
  PROVE  (CHOOSE i \in 0 .. n - 1 : \A j \in 0 .. n - 1 : j <= i) = n - 1
  <1> DEFINE IsLast(i) == i \in 0 .. n - 1 /\ \A j \in 0 .. n - 1 : j <= i
  <1>1. IsLast(n - 1)
    OBVIOUS
  <1>2. \A i : IsLast(i) => i = n - 1
    OBVIOUS
  <1>3. QED
    BY <1>1, <1>2

\* The next number read is the length of the log.
LEMMA NextSeqIsLength ==
  ASSUME NEW n \in Nat, DOMAIN log = 0 .. n - 1
  PROVE  NextSeq = n
  <1>1. CASE n = 0
    <2>1. DOMAIN log = {}
      BY <1>1
    <2>2. QED
      BY <1>1, <2>1 DEF NextSeq
  <1>2. CASE n > 0
    <2>1. 0 .. n - 1 # {}
      BY <1>2
    <2>2. (CHOOSE i \in 0 .. n - 1 : \A j \in 0 .. n - 1 : j <= i) = n - 1
      BY <1>2, LastOfInterval
    <2>3. NextSeq = (CHOOSE i \in 0 .. n - 1 : \A j \in 0 .. n - 1 : j <= i) + 1
      BY <2>1, Zenon DEF NextSeq
    <2>4. NextSeq = (n - 1) + 1
      BY <2>2, <2>3, Zenon
    <2>5. QED
      BY <2>4
  <1>3. QED
    BY <1>1, <1>2

LogTypeOK ==
  /\ DOMAIN log \subseteq Nat
  /\ \A i \in DOMAIN log : log[i] \in [type : EventTypes, by : Executions]

\* Every event of the log is still there.
LogGrows == \A i \in DOMAIN log : i \in DOMAIN log' /\ log'[i] = log[i]

\* An append by an execution that has reached the end of the log extends it
\* by one event.
LEMMA AppendExtends ==
  ASSUME LogTypeOK, LogIsPrefix, NEW e \in Executions, loc[e].seq \in Nat, Reached(e),
         NEW type \in EventTypes, AppendEvent(e, type)
  PROVE  /\ LogTypeOK' /\ LogIsPrefix' /\ LogGrows
         /\ DOMAIN log' = DOMAIN log \cup {loc[e].seq}
         /\ log'[loc[e].seq] = [type |-> type, by |-> e]
         /\ \A i \in 0 .. loc[e].seq : i \in DOMAIN log'
  <1> DEFINE seq == loc[e].seq
  <1>1. /\ DOMAIN log' = DOMAIN log \cup {seq}
        /\ log'[seq] = [type |-> type, by |-> e]
        /\ \A i \in DOMAIN log : log'[i] = log[i]
        /\ seq \notin DOMAIN log
    BY DEF AppendEvent
  <1>2. LogTypeOK'
    BY <1>1 DEF LogTypeOK
  <1>3. PICK n \in Nat : DOMAIN log = 0 .. n - 1
    BY DEF LogIsPrefix
  <1>4. seq = n
    BY <1>1, <1>3 DEF Reached
  <1>5. DOMAIN log' = 0 .. (n + 1) - 1
    BY <1>1, <1>3, <1>4
  <1>6. LogIsPrefix'
    BY <1>5 DEF LogIsPrefix
  <1>7. \A i \in 0 .. seq : i \in DOMAIN log'
    BY <1>4, <1>5
  <1>8. QED
    BY <1>1, <1>2, <1>6, <1>7 DEF LogGrows

\* The types that may precede an event of the given type.
Before(type) ==
  IF type = "run_completed" THEN {"output_validated"}
  ELSE IF type = "output_validated" THEN LineTypes
  ELSE {"run_started"} \cup LineTypes

\* An append after an own event, or of an event that needs none before it,
\* leaves the log fenced.
LEMMA AppendKeepsFence ==
  ASSUME LogTypeOK, LogIsPrefix, LogIsFenced, NEW e \in Executions,
         loc[e].seq \in Nat, Reached(e),
         NEW type \in EventTypes, AppendEvent(e, type),
         type \in {"run_started", "no_output"} \/ LastIsOwn(e, Before(type))
  PROVE  LogIsFenced'
  <1>1. PICK seq \in Nat : seq = loc[e].seq
    OBVIOUS
  <1>2. /\ LogGrows /\ DOMAIN log' = DOMAIN log \cup {seq}
        /\ log'[seq] = [type |-> type, by |-> e]
    BY <1>1, AppendExtends
  <1>3. type \notin {"run_started", "no_output"} => FollowsOwn(seq, Before(type))'
    BY <1>1, <1>2 DEF FollowsOwn, LastIsOwn, LogGrows
  <1>4. SUFFICES ASSUME NEW i \in DOMAIN log'
                 PROVE  /\ log'[i].type \in LineTypes \cup {"run_failed"}
                             => FollowsOwn(i, {"run_started"} \cup LineTypes)'
                        /\ log'[i].type = "output_validated" => FollowsOwn(i, LineTypes)'
                        /\ log'[i].type = "run_completed" => FollowsOwn(i, {"output_validated"})'
    BY DEF LogIsFenced
  <1>5. CASE i \in DOMAIN log
    <2>1. log'[i] = log[i]
      BY <1>2, <1>5 DEF LogGrows
    <2>2. QED
      BY <1>2, <1>5, <2>1 DEF LogIsFenced, FollowsOwn, LogGrows
  <1>6. CASE i = seq
    BY <1>2, <1>3, <1>6 DEF Before, LineTypes
  <1>7. QED
    BY <1>2, <1>5, <1>6

\* What an execution knows is not affected by the appends of others.
LEMMA OthersKeepKnowing ==
  ASSUME NEW x \in Executions, Known(x), LogGrows, pc'[x] = pc[x], loc'[x] = loc[x]
  PROVE  Known(x)'
  BY DEF Known, Reached, LastIsOwn, LogGrows, Appending, InLauncher

-----------------------------------------------------------------------------
Labels == {"idle", "open", "late"} \cup Appending \cup Ended

\* A step of e that goes to a label with some locals keeps the invariant if the
\* log does, and if e knows what it must know at that label.
LEMMA StepKeepsFence ==
  ASSUME FenceInv, NEW e \in Executions, NEW label \in Labels, NEW l \in Locals,
         Goto(e, label), loc' = [loc EXCEPT ![e] = l],
         ChildTypeOK', UNCHANGED message, crashes' \in 0 .. MaxCrashes,
         LogTypeOK', LogIsPrefix', LogIsFenced', LogGrows, Known(e)'
  PROVE  FenceInv'
  <1>1. /\ pc \in [Executions -> Labels] /\ loc \in [Executions -> Locals]
        /\ message \in [0 .. MaxRepairs -> Executions \cup {None}]
    BY DEF FenceInv, RuntimeTypeOK, Labels
  <1>2. pc' \in [Executions -> Labels] /\ loc' \in [Executions -> Locals]
    BY <1>1 DEF Goto
  <1>3. RuntimeTypeOK'
    BY <1>1, <1>2 DEF RuntimeTypeOK, LogTypeOK, Labels
  <1>4. ASSUME NEW x \in Executions, x # e PROVE Known(x)'
    <2>1. pc'[x] = pc[x] /\ loc'[x] = loc[x]
      BY <1>1, <1>4 DEF Goto
    <2>2. QED
      BY <2>1, OthersKeepKnowing DEF FenceInv
  <1>5. QED
    BY <1>3, <1>4 DEF FenceInv

\* A step of e that leaves the log alone.
LEMMA QuietStep ==
  ASSUME FenceInv, NEW e \in Executions, NEW label \in Labels, NEW l \in Locals,
         Goto(e, label), loc' = [loc EXCEPT ![e] = l], UNCHANGED log,
         ChildTypeOK', UNCHANGED message, crashes' \in 0 .. MaxCrashes, Known(e)'
  PROVE  FenceInv'
  <1>1. LogTypeOK' /\ LogIsPrefix' /\ LogIsFenced' /\ LogGrows
    BY DEF FenceInv, RuntimeTypeOK, LogTypeOK, LogIsPrefix, LogIsFenced, LogGrows, FollowsOwn
  <1>2. QED
    BY <1>1, StepKeepsFence

\* A step of e that appends an event of the given type.
LEMMA AppendStep ==
  ASSUME FenceInv, NEW e \in Executions, NEW label \in Labels, NEW l \in Locals,
         Goto(e, label), loc' = [loc EXCEPT ![e] = l],
         NEW type \in EventTypes, AppendEvent(e, type),
         pc[e] \in {"open", "late"} \cup Appending,
         type \in {"run_started", "no_output"} \/ LastIsOwn(e, Before(type)),
         ChildTypeOK', UNCHANGED <<message, crashes>>,
         \/ label \in Ended
         \/ /\ l.seq = loc[e].seq + 1
            /\ \/ label = "complete" /\ type = "output_validated"
               \/ label = "prepare" /\ type = "run_started" /\ ~l.heard
               \/ label \in {"poll", "reject"} /\ type \in LineTypes
  PROVE  FenceInv'
  <1>1. /\ LogTypeOK /\ LogIsPrefix /\ LogIsFenced /\ Reached(e) /\ loc[e] \in Locals
        /\ crashes \in 0 .. MaxCrashes
        /\ loc \in [Executions -> Locals] /\ pc \in [Executions -> Labels]
    BY DEF FenceInv, RuntimeTypeOK, LogTypeOK, Known, Labels
  <1>2. PICK seq \in Nat : seq = loc[e].seq
    BY <1>1 DEF Locals
  <1>3. /\ LogTypeOK' /\ LogIsPrefix' /\ LogGrows
        /\ DOMAIN log' = DOMAIN log \cup {seq}
        /\ log'[seq] = [type |-> type, by |-> e]
        /\ \A i \in 0 .. seq : i \in DOMAIN log'
    BY <1>1, <1>2, AppendExtends
  <1>4. LogIsFenced'
    BY <1>1, <1>2, AppendKeepsFence
  <1>5. pc'[e] = label /\ loc'[e] = l
    BY <1>1 DEF Goto
  <1>6. CASE label \in Ended
    <2>1. Known(e)'
      BY <1>5, <1>6 DEF Known, Ended, Appending, InLauncher
    <2>2. QED
      BY <1>1, <1>3, <1>4, <2>1, StepKeepsFence
  <1>7. CASE l.seq = seq + 1 /\ label \notin Ended
    <2>1. Reached(e)'
      BY <1>2, <1>3, <1>5, <1>7 DEF Reached
    <2>2. /\ log'[seq].by = e /\ log'[seq].type = type /\ seq \in DOMAIN log'
          /\ loc'[e].seq - 1 = seq
      BY <1>2, <1>3, <1>5, <1>7
    <2>3. Known(e)'
      BY <1>2, <1>5, <1>7, <2>1, <2>2
      DEF Known, LastIsOwn, Appending, InLauncher, Ended, LineTypes
    <2>4. QED
      BY <1>1, <1>3, <1>4, <2>3, StepKeepsFence
  <1>8. QED
    BY <1>2, <1>6, <1>7

\* A refused append ends the execution.
LEMMA RefusedStep ==
  ASSUME FenceInv, NEW e \in Executions, Refused(e), UNCHANGED <<message, crashes>>
  PROVE  FenceInv'
  <1>1. /\ ChildTypeOK /\ loc \in [Executions -> Locals] /\ crashes \in 0 .. MaxCrashes
        /\ pc \in [Executions -> Labels]
    BY DEF FenceInv, RuntimeTypeOK, Labels
  <1>2. Goto(e, "raised") /\ loc' = [loc EXCEPT ![e] = loc[e]] /\ UNCHANGED log
    BY <1>1 DEF Refused, Raise
  <1>3. ChildTypeOK'
    BY <1>1, ChildStaysTyped, RuntimeAssumption DEF Refused, Raise
  <1>4. Known(e)'
    BY <1>1, <1>2 DEF Known, Goto, Appending, InLauncher
  <1>5. QED
    BY <1>1, <1>2, <1>3, <1>4, QuietStep DEF Labels, Ended

-----------------------------------------------------------------------------
\* What each step of an execution may rely on.
LEMMA Facts ==
  ASSUME FenceInv, NEW e \in Executions
  PROVE  /\ ChildTypeOK /\ crashes \in 0 .. MaxCrashes
         /\ loc \in [Executions -> Locals] /\ loc[e] \in Locals
         /\ pc \in [Executions -> Labels]
         /\ loc = [loc EXCEPT ![e] = loc[e]]
         /\ Known(e)
  <1>1. /\ ChildTypeOK /\ crashes \in 0 .. MaxCrashes /\ Known(e)
        /\ loc \in [Executions -> Locals] /\ pc \in [Executions -> Labels]
    BY DEF FenceInv, RuntimeTypeOK, Labels
  <1>2. QED
    BY <1>1

LEMMA NextSeqReaches ==
  ASSUME FenceInv
  PROVE  NextSeq \in Nat /\ \A i \in 0 .. NextSeq - 1 : i \in DOMAIN log
  <1>1. PICK n \in Nat : DOMAIN log = 0 .. n - 1
    BY DEF FenceInv, LogIsPrefix
  <1>2. NextSeq = n
    BY <1>1, NextSeqIsLength
  <1>3. QED
    BY <1>1, <1>2

LEMMA CountIsTyped ==
  ASSUME NEW e \in Executions, loc[e] \in Locals, NEW type \in LineTypes
  PROVE  CountEvent(e, type) \in Locals /\ CountEvent(e, type).seq = loc[e].seq + 1
  <1>1. loc[e].seq + 1 \in Nat /\ loc[e].turns \in Nat /\ loc[e].tools \in Nat
    BY DEF Locals
  <1>2. PICK turns \in Nat : turns = IF type = "turn" THEN loc[e].turns + 1 ELSE loc[e].turns
    BY <1>1
  <1>3. PICK tools \in Nat : tools = IF type = "tool" THEN loc[e].tools + 1 ELSE loc[e].tools
    BY <1>1
  <1>4. CountEvent(e, type) = [loc[e] EXCEPT !.seq = loc[e].seq + 1, !.heard = TRUE,
                                             !.turns = turns, !.tools = tools]
    BY <1>2, <1>3 DEF CountEvent
  <1>5. QED
    BY <1>1, <1>4 DEF Locals

\* The steps before the launcher.
LEMMA StartKeepsFence ==
  ASSUME FenceInv, NEW e \in Executions, UNCHANGED <<message, crashes>>,
         ReadSeq(e) \/ Open(e) \/ Launch(e)
  PROVE  FenceInv'
  <1>0. /\ ChildTypeOK /\ crashes \in 0 .. MaxCrashes /\ loc[e] \in Locals
        /\ loc \in [Executions -> Locals] /\ pc \in [Executions -> Labels]
        /\ loc = [loc EXCEPT ![e] = loc[e]] /\ Known(e)
    BY Facts
  <1> USE <1>0
  <1>1. CASE ReadSeq(e)
    <2> DEFINE l == [loc[e] EXCEPT !.seq = NextSeq]
    <2>1. l \in Locals /\ l.seq = NextSeq /\ ~l.heard
      BY <1>1, NextSeqReaches DEF Locals, ReadSeq, Known
    <2>2. Goto(e, "open") /\ loc' = [loc EXCEPT ![e] = l] /\ UNCHANGED <<child, log>>
      BY <1>1 DEF ReadSeq
    <2>3. pc'[e] = "open" /\ loc'[e].seq = NextSeq /\ ~loc'[e].heard
      BY <2>1, <2>2 DEF Goto
    <2>4. Reached(e)'
      BY <2>2, <2>3, NextSeqReaches DEF Reached
    <2>5. Known(e)'
      BY <2>3, <2>4 DEF Known, Appending, InLauncher
    <2>6. QED
      BY <2>1, <2>2, <2>5, QuietStep DEF ChildTypeOK, Labels
  <1>2. CASE Open(e)
    <2>1. CASE AppendEvent(e, "run_started") /\ CountOn(e) /\ Goto(e, "prepare") /\ UNCHANGED child
      <3> DEFINE l == [loc[e] EXCEPT !.seq = @ + 1]
      <3>1. l \in Locals /\ l.seq = loc[e].seq + 1 /\ loc' = [loc EXCEPT ![e] = l] /\ ~l.heard
        BY <1>2, <2>1 DEF CountOn, Locals, Open, Known
      <3>2. QED
        BY <1>2, <2>1, <3>1, AppendStep
        DEF Open, Labels, Appending, EventTypes, ChildTypeOK
    <2>2. QED
      BY <1>2, <2>1, RefusedStep DEF Open
  <1>3. CASE Launch(e)
    <2>1. CASE Spawn(e) /\ Goto(e, "poll") /\ loc' = [loc EXCEPT ![e].heard = FALSE]
      <3> DEFINE l == [loc[e] EXCEPT !.heard = FALSE]
      <3>1. l \in Locals /\ l.seq = loc[e].seq /\ ~l.heard /\ loc' = [loc EXCEPT ![e] = l]
        BY <2>1 DEF Locals
      <3>2. ChildTypeOK'
        BY <2>1, ChildStaysTyped, RuntimeAssumption
      <3>3. UNCHANGED log /\ pc[e] = "prepare" /\ pc'[e] = "poll" /\ loc'[e] = l
        BY <1>3, <2>1, <3>1 DEF Launch, Goto
      <3>4. Known(e)'
        BY <3>1, <3>3 DEF Known, Appending, InLauncher, LastIsOwn, Reached
      <3>5. QED
        BY <2>1, <3>1, <3>2, <3>3, <3>4, QuietStep DEF Labels, Appending, InLauncher
    <2>2. CASE Goto(e, "fail") /\ UNCHANGED <<child, loc>>
      <3>1. Known(e)'
        BY <1>3, <2>2 DEF Launch, Goto, Known, Appending, InLauncher, LastIsOwn, Reached
      <3>2. QED
        BY <1>3, <2>2, <3>1, QuietStep DEF Launch, Labels, Appending, ChildTypeOK
    <2>3. CASE Raise(e, "aborted") /\ UNCHANGED loc
      <3>1. ChildTypeOK'
        BY <2>3, ChildStaysTyped, RuntimeAssumption DEF Raise
      <3>2. Known(e)'
        BY <2>3 DEF Raise, Goto, Known, Appending, InLauncher
      <3>3. QED
        BY <1>3, <2>3, <3>1, <3>2, QuietStep DEF Launch, Raise, Labels, Ended
    <2>4. QED
      BY <1>3, <2>1, <2>2, <2>3 DEF Launch
  <1>4. QED
    BY <1>1, <1>2, <1>3

\* The steps of the launcher's loop and of the line handler.
LEMMA LauncherKeepsFence ==
  ASSUME FenceInv, NEW e \in Executions, UNCHANGED <<message, crashes>>,
         \/ TakeLine(e) \/ ReadFails(e) \/ LauncherReturns(e) \/ TimesOut(e)
         \/ Malformed(e) \/ RecordLine(e) \/ RejectLine(e)
  PROVE  FenceInv'
  <1>0. /\ ChildTypeOK /\ crashes \in 0 .. MaxCrashes /\ loc[e] \in Locals
        /\ loc \in [Executions -> Locals] /\ pc \in [Executions -> Labels]
        /\ loc = [loc EXCEPT ![e] = loc[e]] /\ Known(e)
    BY Facts
  <1> USE <1>0
  <1>1. CASE TakeLine(e) \/ TimesOut(e) \/ Malformed(e)
    <2>1. PICK label \in {"line", "blocked", "fail", "reject"} : Goto(e, label)
      BY <1>1 DEF TakeLine, TimesOut, Malformed
    <2>2. UNCHANGED <<log, loc>> /\ pc[e] \in {"poll", "blocked", "line"}
      BY <1>1 DEF TakeLine, TimesOut, Malformed
    <2>3. ChildTypeOK'
      BY <1>1, ChildStaysTyped, RuntimeAssumption DEF TakeLine, TimesOut, Malformed
    <2>4. Known(e)'
      BY <2>1, <2>2 DEF Goto, Known, Appending, InLauncher, LastIsOwn, Reached
    <2>5. QED
      BY <2>1, <2>2, <2>3, <2>4, QuietStep DEF Labels, Appending, InLauncher
  <1>2. CASE ReadFails(e)
    <2>1. ChildTypeOK'
      BY <1>2, ChildStaysTyped, RuntimeAssumption DEF ReadFails, Raise
    <2>2. Known(e)'
      BY <1>2 DEF ReadFails, Raise, Goto, Known, Appending, InLauncher
    <2>3. QED
      BY <1>2, <2>1, <2>2, QuietStep DEF ReadFails, Raise, Labels, Ended
  <1>3. CASE LauncherReturns(e)
    <2>1. PICK label \in {"output", "fail"} : Goto(e, label) /\ (label = "output" => loc[e].heard)
      BY <1>3 DEF LauncherReturns, CheckResult
    <2>2. UNCHANGED <<child, log, loc>> /\ pc[e] = "poll"
      BY <1>3 DEF LauncherReturns
    <2>3. Known(e)'
      BY <2>1, <2>2 DEF Goto, Known, Appending, InLauncher, LastIsOwn, Reached
    <2>4. QED
      BY <2>1, <2>2, <2>3, QuietStep DEF Labels, Appending, ChildTypeOK
  <1>4. CASE RecordLine(e)
    <2>1. ASSUME NEW type \in LineTypes, NEW label \in {"poll", "reject"},
                 AppendEvent(e, type), loc' = [loc EXCEPT ![e] = CountEvent(e, type)],
                 Goto(e, label), UNCHANGED child
          PROVE  FenceInv'
      <3>1. CountEvent(e, type) \in Locals /\ CountEvent(e, type).seq = loc[e].seq + 1
        BY CountIsTyped
      <3>2. LastIsOwn(e, Before(type)) /\ pc[e] \in Appending
        BY <1>4, <2>1 DEF RecordLine, Known, Appending, InLauncher, Before, LineTypes
      <3>3. QED
        BY <2>1, <3>1, <3>2, AppendStep
        DEF Labels, Appending, InLauncher, EventTypes, ChildTypeOK
    <2>2. QED
      BY <1>4, <2>1, RefusedStep DEF RecordLine
  <1>5. CASE RejectLine(e)
    <2>1. CASE AppendEvent(e, "run_failed") /\ Raise(e, "raised") /\ UNCHANGED loc
      <3>1. ChildTypeOK'
        BY <2>1, ChildStaysTyped, RuntimeAssumption DEF Raise
      <3>2. LastIsOwn(e, Before("run_failed"))
        BY <1>5 DEF RejectLine, Known, Appending, InLauncher, Before
      <3>3. QED
        BY <1>5, <2>1, <3>1, <3>2, AppendStep
        DEF RejectLine, Raise, Labels, Ended, Appending, InLauncher, EventTypes, Failures
    <2>2. QED
      BY <1>5, <2>1, RefusedStep DEF RejectLine
  <1>6. QED
    BY <1>1, <1>2, <1>3, <1>4, <1>5

\* The steps after the launcher.
LEMMA EndKeepsFence ==
  ASSUME FenceInv, NEW e \in Executions, UNCHANGED <<message, crashes>>,
         ValidateFinalOutput(e) \/ FailLate(e) \/ Validate(e) \/ Complete(e) \/ Fail(e)
  PROVE  FenceInv'
  <1>0. /\ ChildTypeOK /\ crashes \in 0 .. MaxCrashes /\ loc[e] \in Locals
        /\ loc \in [Executions -> Locals] /\ pc \in [Executions -> Labels]
        /\ loc = [loc EXCEPT ![e] = loc[e]] /\ Known(e)
    BY Facts
  <1> USE <1>0
  <1>1. CASE ValidateFinalOutput(e)
    <2>0. UNCHANGED <<child, log>> /\ pc[e] = "output" /\ ChildTypeOK'
      BY <1>1 DEF ValidateFinalOutput, ChildTypeOK
    <2>1. CASE loc' = [loc EXCEPT ![e].seq = NextSeq] /\ Goto(e, "late")
      <3> DEFINE l == [loc[e] EXCEPT !.seq = NextSeq]
      <3>1. l \in Locals /\ l.seq = NextSeq /\ loc' = [loc EXCEPT ![e] = l]
        BY <2>1, NextSeqReaches DEF Locals
      <3>2. pc'[e] = "late" /\ loc'[e].seq = NextSeq
        BY <2>1, <3>1 DEF Goto
      <3>3. Reached(e)'
        BY <2>0, <3>2, NextSeqReaches DEF Reached
      <3>4. Known(e)'
        BY <3>2, <3>3 DEF Known, Appending, InLauncher
      <3>5. QED
        BY <2>0, <2>1, <3>1, <3>4, QuietStep DEF Labels
    <2>2. ASSUME NEW next \in {"validate", "fail", "aborted"}, Goto(e, next), UNCHANGED loc
          PROVE  FenceInv'
      <3>1. Known(e)'
        BY <2>0, <2>2 DEF Goto, Known, Appending, InLauncher, LastIsOwn, Reached
      <3>2. QED
        BY <2>0, <2>2, <3>1, QuietStep DEF Labels, Appending, Ended
    <2>3. CASE Repair(e)
      <3> DEFINE l == [loc[e] EXCEPT !.repairs = @ + 1]
      <3>1. /\ l \in Locals /\ l.seq = loc[e].seq /\ l.heard = loc[e].heard
            /\ loc' = [loc EXCEPT ![e] = l]
        BY <2>3, RuntimeAssumption DEF Repair, Locals
      <3>2. Goto(e, "prepare") /\ pc'[e] = "prepare" /\ loc'[e] = l
        BY <2>3, <3>1 DEF Repair, Goto
      <3>3. Known(e)'
        BY <2>0, <3>1, <3>2 DEF Known, Appending, InLauncher, LastIsOwn, Reached
      <3>4. QED
        BY <2>0, <3>1, <3>2, <3>3, QuietStep DEF Labels, Appending
    <2>4. QED
      BY <1>1, <2>1, <2>2, <2>3 DEF ValidateFinalOutput
  <1>2. ASSUME NEW type \in Failures, AppendEvent(e, type), Raise(e, "raised"), UNCHANGED loc,
               pc[e] = IF type = "run_failed" THEN "fail" ELSE "late"
        PROVE  FenceInv'
    <2>1. ChildTypeOK' /\ Goto(e, "raised")
      BY <1>2, ChildStaysTyped, RuntimeAssumption DEF Raise
    <2>2. type = "no_output" \/ LastIsOwn(e, Before(type))
      BY <1>2 DEF Failures, Known, Appending, InLauncher, Before
    <2>3. pc[e] \in {"late"} \cup Appending /\ type \in EventTypes
      BY <1>2 DEF Appending, EventTypes
    <2>4. QED
      BY <1>2, <2>1, <2>2, <2>3, AppendStep DEF Labels, Ended
  <1>3. CASE FailLate(e) \/ Fail(e)
    BY <1>2, <1>3, RefusedStep DEF FailLate, Fail, Failures
  <1>4. CASE Validate(e)
    <2>1. CASE AppendEvent(e, "output_validated") /\ CountOn(e) /\ Goto(e, "complete")
               /\ UNCHANGED child
      <3> DEFINE l == [loc[e] EXCEPT !.seq = @ + 1]
      <3>1. l \in Locals /\ l.seq = loc[e].seq + 1 /\ loc' = [loc EXCEPT ![e] = l]
        BY <2>1 DEF CountOn, Locals
      <3>2. LastIsOwn(e, Before("output_validated")) /\ pc[e] \in Appending
        BY <1>4 DEF Validate, Known, Appending, InLauncher, Before
      <3>3. ChildTypeOK'
        BY <2>1 DEF ChildTypeOK
      <3>4. QED
        BY <2>1, <3>1, <3>2, <3>3, AppendStep DEF Labels, Appending, EventTypes
    <2>2. QED
      BY <1>4, <2>1, RefusedStep DEF Validate
  <1>5. CASE Complete(e)
    <2>1. CASE AppendEvent(e, "run_completed") /\ Goto(e, "done") /\ UNCHANGED <<child, loc>>
      <3>1. LastIsOwn(e, Before("run_completed")) /\ pc[e] \in Appending
        BY <1>5 DEF Complete, Known, Appending, InLauncher, Before
      <3>2. ChildTypeOK'
        BY <2>1 DEF ChildTypeOK
      <3>3. QED
        BY <2>1, <3>1, <3>2, AppendStep DEF Labels, Ended, EventTypes
    <2>2. QED
      BY <1>5, <2>1, RefusedStep DEF Complete
  <1>6. QED
    BY <1>1, <1>3, <1>4, <1>5

\* The steps of the children, who do not touch the log.
LEMMA ChildKeepsFence ==
  ASSUME FenceInv, NEW e \in Executions, ChildStep(e)
  PROVE  FenceInv'
  <1>1. ChildTypeOK'
    BY ChildStaysTyped, RuntimeAssumption DEF ChildStep, FenceInv, RuntimeTypeOK
  <1>2. message' \in [0 .. MaxRepairs -> Executions \cup {None}]
    BY DEF ChildStep, FenceInv, RuntimeTypeOK
  <1>3. UNCHANGED <<log, pc, loc, crashes>>
    BY DEF ChildStep
  <1>4. RuntimeTypeOK'
    BY <1>1, <1>2, <1>3 DEF FenceInv, RuntimeTypeOK
  <1>5. LogIsPrefix' /\ LogIsFenced'
    BY <1>3 DEF FenceInv, LogIsPrefix, LogIsFenced, FollowsOwn
  <1>6. \A x \in Executions : Known(x)'
    BY <1>3 DEF FenceInv, Known, Reached, LastIsOwn
  <1>7. QED
    BY <1>4, <1>5, <1>6 DEF FenceInv

LEMMA CrashKeepsFence ==
  ASSUME FenceInv, NEW e \in Executions, Crash(e)
  PROVE  FenceInv'
  <1>1. /\ ChildTypeOK /\ crashes \in 0 .. MaxCrashes /\ loc[e] \in Locals
        /\ loc = [loc EXCEPT ![e] = loc[e]] /\ pc \in [Executions -> Labels]
    BY Facts
  <1>2. Goto(e, "crashed") /\ UNCHANGED <<child, log, message, loc>>
    BY DEF Crash
  <1>3. ChildTypeOK' /\ crashes' \in 0 .. MaxCrashes
    BY <1>1, RuntimeAssumption DEF Crash, ChildTypeOK
  <1>4. Known(e)'
    BY <1>1, <1>2 DEF Goto, Known, Appending, InLauncher
  <1>5. QED
    BY <1>1, <1>2, <1>3, <1>4, QuietStep DEF Labels, Ended

LEMMA NextKeepsFence == FenceInv /\ [RuntimeNext]_runtimeVars => FenceInv'
  <1> SUFFICES ASSUME FenceInv, [RuntimeNext]_runtimeVars PROVE FenceInv'
    OBVIOUS
  <1>1. CASE UNCHANGED runtimeVars
    <2>1. RuntimeTypeOK' /\ LogIsPrefix' /\ LogIsFenced'
      BY <1>1 DEF FenceInv, runtimeVars, RuntimeTypeOK, ChildTypeOK, LogIsPrefix, LogIsFenced,
                  FollowsOwn
    <2>2. \A x \in Executions : Known(x)'
      BY <1>1 DEF FenceInv, runtimeVars, Known, Reached, LastIsOwn
    <2>3. QED
      BY <2>1, <2>2 DEF FenceInv
  <1>2. ASSUME NEW e \in Executions, Begin(e) PROVE FenceInv'
    BY <1>2, StartKeepsFence DEF Begin
  <1>3. ASSUME NEW e \in Executions, ExecutionStep(e) PROVE FenceInv'
    BY <1>3, StartKeepsFence, LauncherKeepsFence, EndKeepsFence DEF ExecutionStep
  <1>4. QED
    BY <1>1, <1>2, <1>3, ChildKeepsFence, CrashKeepsFence DEF RuntimeNext

-----------------------------------------------------------------------------
LEMMA RuntimeKeepsFence == RuntimeSpec => []FenceInv
  BY InitFence, NextKeepsFence, PTL DEF RuntimeSpec

(* The variables of the executions, their children and the log keep their  *)
(* types; in particular no execution makes more repair attempts than its   *)
(* output contract allows.                                                 *)
THEOREM RuntimeTypes == RuntimeSpec => []RuntimeTypeOK
  <1>1. FenceInv => RuntimeTypeOK
    BY DEF FenceInv
  <1>2. QED
    BY <1>1, RuntimeKeepsFence, PTL

(* The event log of a run has no gap: it can be replayed from 0 up,        *)
(* whichever executions wrote it.                                          *)
THEOREM RuntimeLogIsContiguous == RuntimeSpec => []LogIsContiguous
  <1>1. FenceInv => LogIsContiguous
    BY DEF FenceInv, LogIsPrefix, LogIsContiguous
  <1>2. QED
    BY <1>1, RuntimeKeepsFence, PTL

(* The events of two executions of a run do not interleave: an execution   *)
(* appends behind its own event or not at all.                             *)
THEOREM RuntimeLogIsFenced == RuntimeSpec => []LogIsFenced
  <1>1. FenceInv => LogIsFenced
    BY DEF FenceInv
  <1>2. QED
    BY <1>1, RuntimeKeepsFence, PTL

-----------------------------------------------------------------------------
\* A step of e leaves the children and the labels of the others alone.
LEMMA ChildMoves ==
  ASSUME ChildTypeOK, NEW e \in Executions, NEW x \in Executions, x # e,
         \/ Spawn(e) \/ ReadLine(e) \/ Swallow(e) \/ Kill(e) \/ KillIfRunning(e)
         \/ WriteLine(e) \/ WritePartOfLine(e)
         \/ \E status \in {"succeeded", "failed"} : Exit(e, status)
         \/ UNCHANGED child
  PROVE  child'[x] = child[x]
  BY DEF ChildTypeOK, Spawn, ReadLine, Swallow, Kill, KillIfRunning, WriteLine, WritePartOfLine,
         Exit

LEMMA OthersAlone ==
  ASSUME RuntimeTypeOK, NEW e \in Executions, NEW x \in Executions, x # e,
         Begin(e) \/ ExecutionStep(e) \/ ChildStep(e) \/ Crash(e)
  PROVE  pc'[x] = pc[x] /\ child'[x] = child[x]
  <1>1. ChildTypeOK /\ pc \in [Executions -> Labels]
    BY DEF RuntimeTypeOK, Labels
  <1>2. CASE Begin(e) \/ ChildStep(e) \/ Crash(e)
    BY <1>1, <1>2, ChildMoves DEF Begin, ReadSeq, ChildStep, Crash, Goto
  <1>3. CASE ExecutionStep(e)
    <2>1. \E label : Goto(e, label)
      BY <1>3 DEF ExecutionStep, Open, Launch, TakeLine, ReadFails, LauncherReturns, CheckResult,
                  TimesOut, Malformed, RecordLine, RejectLine, ValidateFinalOutput, Repair,
                  FailLate, Validate, Complete, Fail, Refused, Raise
    <2>2. pc'[x] = pc[x]
      BY <1>1, <2>1 DEF Goto
    <2>3. \/ Spawn(e) \/ ReadLine(e) \/ Swallow(e) \/ Kill(e) \/ KillIfRunning(e)
          \/ UNCHANGED child
      BY <1>3 DEF ExecutionStep, Open, Launch, TakeLine, ReadFails, LauncherReturns,
                  TimesOut, Malformed, RecordLine, RejectLine, ValidateFinalOutput,
                  FailLate, Validate, Complete, Fail, Refused, Raise
    <2>4. QED
      BY <1>1, <2>2, <2>3, ChildMoves
  <1>4. QED
    BY <1>2, <1>3

\* An exception that leaves execute leaves no child behind.
LEMMA RaiseEndsChild ==
  ASSUME RuntimeTypeOK, NoOrphan, NEW e \in Executions, pc[e] # "crashed",
         NEW how, Raise(e, how)
  PROVE  ~Running(e)'
  <1>1. CASE pc[e] \in InLauncher /\ Running(e)
    <2>1. Kill(e)
      BY <1>1 DEF Raise, KillIfRunning
    <2>2. child'[e] = Emptied(e, "killed")
      BY <2>1 DEF Kill, RuntimeTypeOK, ChildTypeOK
    <2>3. Emptied(e, "killed").status = "killed"
      BY DEF Emptied, NoChild
    <2>4. QED
      BY <2>2, <2>3 DEF Running
  <1>2. CASE ~Running(e)
    BY <1>2 DEF Raise, KillIfRunning, Running
  <1>3. QED
    BY <1>1, <1>2 DEF NoOrphan

LEMMA OwnNoOrphan ==
  ASSUME RuntimeTypeOK, NoOrphan, NEW e \in Executions,
         Begin(e) \/ ExecutionStep(e) \/ ChildStep(e) \/ Crash(e), Running(e)'
  PROVE  pc'[e] \in InLauncher \cup {"crashed"}
  <1>1. ChildTypeOK /\ pc \in [Executions -> Labels]
    BY DEF RuntimeTypeOK, Labels
  <1>2. ASSUME UNCHANGED child, pc[e] \notin InLauncher \cup {"crashed"} PROVE FALSE
    BY <1>2 DEF NoOrphan, Running
  <1>3. ASSUME NEW how, Raise(e, how), pc[e] # "crashed" PROVE FALSE
    BY <1>3, RaiseEndsChild
  <1>4. ASSUME Refused(e), pc[e] # "crashed" PROVE FALSE
    BY <1>3, <1>4 DEF Refused
  <1>5. CASE Begin(e)
    BY <1>2, <1>5 DEF Begin, ReadSeq, InLauncher
  <1>6. CASE Crash(e)
    BY <1>1, <1>6 DEF Crash, Goto
  <1>7. CASE ChildStep(e)
    <2>1. Running(e) /\ UNCHANGED pc
      BY <1>7 DEF ChildStep, WriteLine, WritePartOfLine, Exit
    <2>2. QED
      BY <2>1 DEF NoOrphan
  <1>8. CASE Open(e) \/ ValidateFinalOutput(e) \/ FailLate(e) \/ Validate(e) \/ Complete(e)
             \/ Fail(e)
    BY <1>2, <1>3, <1>4, <1>8
    DEF Open, ValidateFinalOutput, FailLate, Validate, Complete, Fail, InLauncher
  <1>9. CASE Launch(e)
    BY <1>1, <1>2, <1>3, <1>9 DEF Launch, Goto, InLauncher
  <1>10. CASE TakeLine(e) \/ Malformed(e)
    BY <1>1, <1>10 DEF TakeLine, Malformed, Goto, InLauncher
  <1>11. CASE RecordLine(e)
    <2>1. CASE \E label \in {"poll", "reject"} : Goto(e, label)
      BY <1>1, <2>1 DEF Goto, InLauncher
    <2>2. CASE Refused(e)
      BY <1>4, <1>11, <2>2 DEF RecordLine
    <2>3. QED
      BY <1>11, <2>1, <2>2 DEF RecordLine
  <1>12. CASE ReadFails(e) \/ RejectLine(e)
    BY <1>3, <1>4, <1>12 DEF ReadFails, RejectLine
  <1>13. CASE LauncherReturns(e)
    BY <1>13 DEF LauncherReturns, Drained, Running
  <1>14. CASE TimesOut(e)
    BY <1>1, <1>14 DEF TimesOut, Kill, Emptied, NoChild, Running, ChildTypeOK
  <1>15. QED
    BY <1>5, <1>6, <1>7, <1>8, <1>9, <1>10, <1>11, <1>12, <1>13, <1>14 DEF ExecutionStep

(* However an execution leaves the launcher, it leaves no child running,   *)
(* unless its process crashes.                                             *)
THEOREM RuntimeLeavesNoOrphan == RuntimeSpec => []NoOrphan
  <1>1. RuntimeInit => NoOrphan
    BY DEF RuntimeInit, ChildInit, NoChild, NoOrphan, Running
  <1>2. RuntimeTypeOK /\ NoOrphan /\ [RuntimeNext]_runtimeVars => NoOrphan'
    <2> SUFFICES ASSUME RuntimeTypeOK, NoOrphan, [RuntimeNext]_runtimeVars PROVE NoOrphan'
      OBVIOUS
    <2>1. CASE UNCHANGED runtimeVars
      BY <2>1 DEF runtimeVars, NoOrphan, Running
    <2>2. ASSUME NEW e \in Executions,
                 Begin(e) \/ ExecutionStep(e) \/ ChildStep(e) \/ Crash(e)
          PROVE  NoOrphan'
      <3>1. ASSUME NEW x \in Executions, x # e, Running(x)'
            PROVE  pc'[x] \in InLauncher \cup {"crashed"}
        BY <2>2, <3>1, OthersAlone DEF NoOrphan, Running
      <3>2. QED
        BY <2>2, <3>1, OwnNoOrphan DEF NoOrphan
    <2>3. QED
      BY <2>1, <2>2 DEF RuntimeNext
  <1>3. QED
    BY <1>1, <1>2, RuntimeTypes, PTL DEF RuntimeSpec
-----------------------------------------------------------------------------
(* What the log says of an execution, and what its locals say.             *)

OwnEvents(e, types) == {i \in DOMAIN log : log[i].by = e /\ log[i].type \in types}

\* Appending an event counts once for its execution and its type.
LEMMA AppendCounts ==
  ASSUME FenceInv, NEW e \in Executions, NEW type, AppendEvent(e, type),
         NEW x \in Executions, NEW types
  PROVE  /\ Recorded(x, types) \in Nat
         /\ Recorded(x, types)' = IF x = e /\ type \in types THEN Recorded(x, types) + 1
                                  ELSE Recorded(x, types)
  <1> DEFINE seq == loc[e].seq
             S == OwnEvents(x, types)
  <1>1. PICK n \in Nat : DOMAIN log = 0 .. n - 1
    BY DEF FenceInv, LogIsPrefix
  <1>2. IsFiniteSet(DOMAIN log)
    BY <1>1, FS_Interval
  <1>3. IsFiniteSet(S)
    BY <1>2, FS_Subset DEF OwnEvents
  <1>4. /\ DOMAIN log' = DOMAIN log \cup {seq} /\ seq \notin DOMAIN log
        /\ log'[seq] = [type |-> type, by |-> e]
        /\ \A i \in DOMAIN log : log'[i] = log[i]
    BY DEF AppendEvent
  <1>5. Recorded(x, types) = Cardinality(S) /\ Recorded(x, types)' = Cardinality(OwnEvents(x, types)')
    BY DEF Recorded, OwnEvents
  <1>6. Cardinality(S) \in Nat
    BY <1>3, FS_CardinalityType
  <1>7. CASE x = e /\ type \in types
    <2>1. OwnEvents(x, types)' = S \cup {seq} /\ seq \notin S
      BY <1>4, <1>7 DEF OwnEvents
    <2>2. Cardinality(S \cup {seq}) = Cardinality(S) + 1
      BY <1>3, <2>1, FS_AddElement
    <2>3. QED
      BY <1>5, <1>6, <1>7, <2>1, <2>2
  <1>8. CASE ~(x = e /\ type \in types)
    <2>1. OwnEvents(x, types)' = S
      BY <1>4, <1>8 DEF OwnEvents
    <2>2. QED
      BY <1>5, <1>6, <1>8, <2>1
  <1>9. QED
    BY <1>7, <1>8

Wrote(e, type) == \E i \in DOMAIN log : log[i].by = e /\ log[i].type = type

\* Where an execution may be over budget: it has been found out.
Out == {"reject", "raised", "aborted", "crashed"}

InBudget(e) == loc[e].turns <= MaxTurns /\ loc[e].tools <= MaxToolCalls

Accounted(e) ==
  /\ Recorded(e, {"turn"}) = loc[e].turns
  /\ Recorded(e, {"tool"}) = loc[e].tools
  /\ loc[e].turns <= MaxTurns + 1
  /\ loc[e].tools <= MaxToolCalls + 1
  /\ pc[e] \notin Out => InBudget(e)
  /\ Wrote(e, "output_validated") =>
       InBudget(e) /\ pc[e] \in {"complete", "done", "raised", "crashed"}

\* An execution that is under way has written below its number; one that has
\* raised has written its failure there, or found another's event there.
Reports(e) ==
  /\ pc[e] \notin Ended =>
       \A i \in DOMAIN log : log[i].by = e => i < loc[e].seq
  /\ pc[e] = "raised" =>
       \/ \E type \in Failures : Wrote(e, type)
       \/ loc[e].seq \in DOMAIN log /\ log[loc[e].seq].by # e

ReportInv == \A e \in Executions : Accounted(e) /\ Reports(e)

\* A step of e that leaves the log alone.
Quiet(e) ==
  /\ UNCHANGED log
  /\ loc'[e].turns = loc[e].turns
  /\ loc'[e].tools = loc[e].tools
  /\ loc'[e].seq \in {loc[e].seq, NextSeq}
  /\ pc[e] \notin Ended
  /\ pc'[e] \notin Out => pc[e] \notin Out
  /\ pc'[e] = "raised" => loc[e].seq \in DOMAIN log /\ loc'[e].seq = loc[e].seq
  /\ pc[e] = "complete" => pc'[e] \in {"raised", "crashed"}

\* A step of e that appends an event, and what it does besides.
Writes(e, type) ==
  /\ AppendEvent(e, type)
  /\ pc[e] \notin Ended
  /\ \/ /\ type \in LineTypes
        /\ pc[e] = "line"
        /\ loc'[e] = CountEvent(e, type)
        /\ \/ pc'[e] = "poll" /\ ~OverBudget(CountEvent(e, type))
           \/ pc'[e] = "reject"
     \/ /\ type \in {"run_started", "output_validated"}
        /\ loc'[e] = [loc[e] EXCEPT !.seq = @ + 1]
        /\ <<type, pc[e], pc'[e]>> \in {<<"run_started", "open", "prepare">>,
                                        <<"output_validated", "validate", "complete">>}
     \/ /\ type \in Failures \cup {"run_completed"}
        /\ loc'[e] = loc[e]
        /\ IF type = "run_completed" THEN pc[e] = "complete" /\ pc'[e] = "done"
           ELSE pc'[e] = "raised"

\* Nobody has written at the end of the log.
LEMMA NextSeqIsNew ==
  ASSUME FenceInv
  PROVE  NextSeq \in Nat /\ \A i \in DOMAIN log : i < NextSeq
  <1>1. PICK n \in Nat : DOMAIN log = 0 .. n - 1
    BY DEF FenceInv, LogIsPrefix
  <1>2. QED
    BY <1>1, NextSeqIsLength

LEMMA QuietKeepsReport ==
  ASSUME FenceInv, NEW e \in Executions, Accounted(e), Reports(e), Quiet(e)
  PROVE  Accounted(e)' /\ Reports(e)'
  <1>1. \A types : Recorded(e, types)' = Recorded(e, types)
    BY DEF Quiet, Recorded
  <1>2. \A type : Wrote(e, type)' <=> Wrote(e, type)
    BY DEF Quiet, Wrote
  <1>3. Accounted(e)'
    <2>1. Recorded(e, {"turn"})' = Recorded(e, {"turn"}) /\ Recorded(e, {"tool"})' = Recorded(e, {"tool"})
      BY <1>1
    <2>2. InBudget(e)' <=> InBudget(e)
      BY DEF Quiet, InBudget
    <2>3. pc'[e] \notin Out => InBudget(e)
      BY DEF Quiet, Accounted
    <2>4. Wrote(e, "output_validated") => pc'[e] \in {"raised", "crashed"} /\ InBudget(e)
      BY DEF Quiet, Accounted, Ended
    <2>5. Wrote(e, "output_validated")' => InBudget(e) /\ pc'[e] \in {"raised", "crashed"}
      BY <1>2, <2>4
    <2>6. /\ loc'[e].turns = Recorded(e, {"turn"}) /\ loc'[e].turns <= MaxTurns + 1
          /\ loc'[e].tools = Recorded(e, {"tool"}) /\ loc'[e].tools <= MaxToolCalls + 1
      BY DEF Quiet, Accounted
    <2>7. QED
      BY <2>1, <2>2, <2>3, <2>5, <2>6 DEF Accounted
  <1>4. Reports(e)'
    <2>1. loc[e].seq \in Nat /\ NextSeq \in Nat /\ UNCHANGED log
      BY Facts, NextSeqIsNew DEF Locals, Quiet
    <2>2. \A i \in DOMAIN log : log[i].by = e => i < loc[e].seq
      BY DEF Reports, Quiet
    <2>3. \A i \in DOMAIN log : log[i].by = e => i < loc'[e].seq
      BY <2>2, NextSeqIsNew DEF Quiet
    <2>4. pc'[e] = "raised" => loc'[e].seq \in DOMAIN log /\ log[loc'[e].seq].by # e
      BY <2>1, <2>3 DEF Quiet
    <2>5. QED
      BY <2>1, <2>3, <2>4 DEF Reports
  <1>5. QED
    BY <1>3, <1>4

\* The counts of an execution whose events are counted as they are written.
LEMMA WriteKeepsAccount ==
  ASSUME FenceInv, NEW e \in Executions, Accounted(e), NEW type, Writes(e, type)
  PROVE  Accounted(e)'
  <1>1. AppendEvent(e, type) /\ loc[e] \in Locals
    BY Facts DEF Writes
  <1>2. \A t \in {"turn", "tool"} :
          Recorded(e, {t})' = IF type = t THEN Recorded(e, {t}) + 1 ELSE Recorded(e, {t})
    BY <1>1, AppendCounts
  <1>3. Wrote(e, "output_validated")' => Wrote(e, "output_validated") \/ type = "output_validated"
    BY <1>1 DEF AppendEvent, Wrote
  <1>4. CASE type \in LineTypes
    <2>1. /\ loc'[e].turns = IF type = "turn" THEN loc[e].turns + 1 ELSE loc[e].turns
          /\ loc'[e].tools = IF type = "tool" THEN loc[e].tools + 1 ELSE loc[e].tools
          /\ pc'[e] # "reject" => loc'[e].turns <= MaxTurns /\ loc'[e].tools <= MaxToolCalls
          /\ pc'[e] \in {"poll", "reject"} /\ pc[e] = "line"
      <3>1. /\ pc[e] = "line" /\ loc'[e] = CountEvent(e, type)
            /\ \/ pc'[e] = "poll" /\ ~OverBudget(CountEvent(e, type))
               \/ pc'[e] = "reject"
        BY <1>4 DEF Writes, LineTypes, Failures
      <3>2. CountEvent(e, type) \in Locals
        BY <1>1, <1>4, CountIsTyped
      <3>3. /\ CountEvent(e, type).turns = IF type = "turn" THEN loc[e].turns + 1 ELSE loc[e].turns
            /\ CountEvent(e, type).tools = IF type = "tool" THEN loc[e].tools + 1 ELSE loc[e].tools
        BY <1>1 DEF CountEvent, Locals
      <3>4. QED
        BY <3>1, <3>2, <3>3, RuntimeAssumption DEF OverBudget, Locals
    <2>2. InBudget(e) /\ ~ Wrote(e, "output_validated")
      BY <2>1 DEF Accounted, Out
    <2>3. ~ Wrote(e, "output_validated")'
      BY <1>3, <1>4, <2>2 DEF LineTypes
    <2>4. QED
      BY <1>1, <1>2, <2>1, <2>2, <2>3, RuntimeAssumption DEF Accounted, InBudget, Out, Locals
  <1>5. CASE type \notin LineTypes
    <2>1. /\ loc'[e].turns = loc[e].turns
          /\ loc'[e].tools = loc[e].tools
      BY <1>1, <1>5 DEF Writes, Locals
    <2>2. \A t \in {"turn", "tool"} : Recorded(e, {t})' = Recorded(e, {t})
      BY <1>2, <1>5 DEF LineTypes
    <2>3. pc'[e] \notin Out => pc[e] \notin Out
      BY <1>5 DEF Writes, Out
    <2>4. Wrote(e, "output_validated")' =>
            InBudget(e) /\ pc'[e] \in {"complete", "done", "raised", "crashed"}
      BY <1>3, <1>5 DEF Writes, Accounted, Out, Ended, Failures
    <2>5. QED
      BY <2>1, <2>2, <2>3, <2>4 DEF Accounted, InBudget
  <1>6. QED
    BY <1>4, <1>5

LEMMA WriteKeepsReport ==
  ASSUME FenceInv, NEW e \in Executions, Reports(e), NEW type, Writes(e, type)
  PROVE  Reports(e)'
  <1>1. AppendEvent(e, type) /\ loc[e] \in Locals
    BY Facts DEF Writes
  <1>2. PICK seq \in Nat : seq = loc[e].seq
    BY <1>1 DEF Locals
  <1>3. /\ DOMAIN log' = DOMAIN log \cup {seq}
        /\ log'[seq] = [type |-> type, by |-> e]
        /\ \A i \in DOMAIN log : log'[i] = log[i]
    BY <1>1, <1>2 DEF AppendEvent
  <1>4. CASE type \in LineTypes \cup {"run_started", "output_validated"}
    <2>1. loc'[e].seq = seq + 1 /\ pc'[e] # "raised" /\ pc[e] \notin Ended
      BY <1>1, <1>2, <1>4, CountIsTyped DEF Writes, LineTypes, Failures, Locals
    <2>2. \A i \in DOMAIN log : log[i].by = e => i < seq
      BY <1>2, <2>1 DEF Reports
    <2>3. DOMAIN log \subseteq Nat
      BY DEF FenceInv, RuntimeTypeOK
    <2>4. \A i \in DOMAIN log' : log'[i].by = e => i < seq + 1
      BY <1>3, <2>2, <2>3
    <2>5. QED
      BY <2>1, <2>4 DEF Reports
  <1>5. CASE type \in Failures \cup {"run_completed"}
    <2>1. Wrote(e, type)' /\ pc'[e] \in Ended
      BY <1>3, <1>5 DEF Writes, Wrote, LineTypes, Failures, Ended
    <2>2. pc'[e] = "raised" => type \in Failures
      BY <1>5 DEF Writes, LineTypes, Failures
    <2>3. QED
      BY <2>1, <2>2 DEF Reports
  <1>6. QED
    BY <1>4, <1>5 DEF Writes

\* The events of others are not those of x.
LEMMA OthersKeepReport ==
  ASSUME FenceInv, NEW e \in Executions, NEW x \in Executions, x # e,
         pc'[x] = pc[x], loc'[x] = loc[x], Accounted(x), Reports(x),
         UNCHANGED log \/ \E type : AppendEvent(e, type)
  PROVE  Accounted(x)' /\ Reports(x)'
  <1>1. CASE UNCHANGED log
    BY <1>1 DEF Accounted, Recorded, Wrote, InBudget, Reports
  <1>2. CASE \E type : AppendEvent(e, type)
    <2>1. PICK type : AppendEvent(e, type)
      BY <1>2
    <2>2. \A t \in {"turn", "tool"} : Recorded(x, {t})' = Recorded(x, {t})
      BY <2>1, AppendCounts
    <2>3. /\ DOMAIN log' = DOMAIN log \cup {loc[e].seq}
          /\ log'[loc[e].seq].by = e
          /\ \A i \in DOMAIN log : log'[i] = log[i]
      BY <2>1 DEF AppendEvent
    <2>4. \A t : Wrote(x, t)' <=> Wrote(x, t)
      BY <2>3 DEF Wrote
    <2>5. Accounted(x)'
      BY <2>2, <2>4 DEF Accounted, InBudget
    <2>6. Reports(x)'
      BY <2>3, <2>4 DEF Reports
    <2>7. QED
      BY <2>5, <2>6
  <1>3. QED
    BY <1>1, <1>2

-----------------------------------------------------------------------------
\* A refused append, a crash.
LEMMA EndingIsQuiet ==
  ASSUME FenceInv, NEW e \in Executions,
         \/ Refused(e) /\ pc[e] \notin Ended
         \/ Crash(e)
  PROVE  Quiet(e)
  <1>1. /\ loc \in [Executions -> Locals] /\ pc \in [Executions -> Labels]
    BY Facts
  <1>2. CASE Refused(e) /\ pc[e] \notin Ended
    BY <1>1, <1>2 DEF Refused, Raise, Goto, Quiet, Out
  <1>3. CASE Crash(e)
    BY <1>1, <1>3 DEF Crash, Goto, Quiet, Out
  <1>4. QED
    BY <1>2, <1>3

\* A step between labels that keeps the log and the locals, and does not raise.
LEMMA MoveIsQuiet ==
  ASSUME FenceInv, NEW e \in Executions, NEW label, Goto(e, label),
         UNCHANGED <<log, loc>>, pc[e] \notin Ended \cup {"complete"},
         label # "raised", label \notin Out => pc[e] \notin Out
  PROVE  Quiet(e)
  <1>1. pc \in [Executions -> Labels]
    BY Facts
  <1>2. QED
    BY <1>1 DEF Goto, Quiet

LEMMA StartIsReported ==
  ASSUME FenceInv, NEW e \in Executions, ReadSeq(e) \/ Open(e) \/ Launch(e)
  PROVE  Quiet(e) \/ \E type : Writes(e, type)
  <1>1. /\ loc \in [Executions -> Locals] /\ pc \in [Executions -> Labels] /\ loc[e] \in Locals
    BY Facts
  <1>2. CASE ReadSeq(e)
    BY <1>1, <1>2 DEF ReadSeq, Goto, Quiet, Out, Ended, Locals
  <1>3. CASE Open(e)
    <2>1. CASE AppendEvent(e, "run_started") /\ CountOn(e) /\ Goto(e, "prepare")
      <3>1. /\ pc[e] = "open" /\ pc'[e] = "prepare"
            /\ loc'[e] = [loc[e] EXCEPT !.seq = @ + 1]
        BY <1>1, <1>3, <2>1 DEF Open, CountOn, Goto
      <3>2. Writes(e, "run_started")
        BY <2>1, <3>1 DEF Writes, Ended
      <3>3. QED
        BY <3>2
    <2>2. QED
      BY <1>3, <2>1, EndingIsQuiet DEF Open, Ended
  <1>4. CASE Launch(e)
    <2>1. CASE Goto(e, "poll") /\ loc' = [loc EXCEPT ![e].heard = FALSE]
      <3>1. /\ loc'[e].seq = loc[e].seq /\ loc'[e].turns = loc[e].turns
            /\ loc'[e].tools = loc[e].tools
        BY <1>1, <2>1 DEF Locals
      <3>2. QED
        BY <1>1, <1>4, <2>1, <3>1 DEF Launch, Goto, Quiet, Out, Ended
    <2>2. CASE Goto(e, "fail") /\ UNCHANGED loc
      BY <1>4, <2>2, MoveIsQuiet DEF Launch, Ended, Out
    <2>3. CASE Raise(e, "aborted") /\ UNCHANGED loc
      BY <1>4, <2>3, MoveIsQuiet DEF Launch, Raise, Ended, Out
    <2>4. QED
      BY <1>4, <2>1, <2>2, <2>3 DEF Launch
  <1>5. QED
    BY <1>2, <1>3, <1>4

LEMMA LauncherIsReported ==
  ASSUME FenceInv, NEW e \in Executions,
         \/ TakeLine(e) \/ ReadFails(e) \/ LauncherReturns(e) \/ TimesOut(e)
         \/ Malformed(e) \/ RecordLine(e) \/ RejectLine(e)
  PROVE  Quiet(e) \/ \E type : Writes(e, type)
  <1>1. /\ loc \in [Executions -> Locals] /\ pc \in [Executions -> Labels]
    BY Facts
  <1>2. CASE TakeLine(e) \/ ReadFails(e) \/ LauncherReturns(e) \/ TimesOut(e) \/ Malformed(e)
    <2>1. /\ \E label \in {"line", "blocked", "fail", "reject", "output", "aborted"} : Goto(e, label)
          /\ UNCHANGED <<log, loc>>
          /\ pc[e] \in {"poll", "blocked", "line"}
      BY <1>2 DEF TakeLine, ReadFails, LauncherReturns, CheckResult, TimesOut, Malformed, Raise
    <2>2. QED
      BY <2>1, MoveIsQuiet DEF Ended, Out
  <1>3. CASE RecordLine(e)
    <2>1. ASSUME NEW type \in LineTypes, AppendEvent(e, type),
                 loc' = [loc EXCEPT ![e] = CountEvent(e, type)],
                 \/ ~OverBudget(CountEvent(e, type)) /\ Goto(e, "poll")
                 \/ Goto(e, "reject")
          PROVE  Writes(e, type)
      <3>1. pc[e] = "line" /\ loc'[e] = CountEvent(e, type)
        BY <1>1, <1>3, <2>1 DEF RecordLine
      <3>2. \/ pc'[e] = "poll" /\ ~OverBudget(CountEvent(e, type))
            \/ pc'[e] = "reject"
        BY <1>1, <2>1 DEF Goto
      <3>3. QED
        BY <2>1, <3>1, <3>2 DEF Writes, Ended
    <2>2. QED
      BY <1>3, <2>1, EndingIsQuiet DEF RecordLine, Ended
  <1>4. CASE RejectLine(e)
    <2>1. CASE AppendEvent(e, "run_failed") /\ Raise(e, "raised") /\ UNCHANGED loc
      <3>1. Writes(e, "run_failed")
        BY <1>1, <1>4, <2>1 DEF RejectLine, Raise, Goto, Writes, Ended, Failures
      <3>2. QED
        BY <3>1
    <2>2. QED
      BY <1>4, <2>1, EndingIsQuiet DEF RejectLine, Ended
  <1>5. QED
    BY <1>2, <1>3, <1>4

LEMMA EndIsReported ==
  ASSUME FenceInv, NEW e \in Executions,
         ValidateFinalOutput(e) \/ FailLate(e) \/ Validate(e) \/ Complete(e) \/ Fail(e)
  PROVE  Quiet(e) \/ \E type : Writes(e, type)
  <1>1. /\ loc \in [Executions -> Locals] /\ pc \in [Executions -> Labels] /\ loc[e] \in Locals
    BY Facts
  <1>2. CASE ValidateFinalOutput(e)
    <2>1. pc[e] = "output" /\ UNCHANGED log
      BY <1>2 DEF ValidateFinalOutput
    <2>2. CASE \E next \in {"validate", "fail", "aborted"} : Goto(e, next) /\ UNCHANGED loc
      BY <2>1, <2>2, MoveIsQuiet DEF Ended, Out
    <2>3. CASE loc' = [loc EXCEPT ![e].seq = NextSeq] /\ Goto(e, "late")
      BY <1>1, <2>1, <2>3 DEF Goto, Quiet, Out, Ended, Locals
    <2>4. CASE Repair(e)
      BY <1>1, <2>1, <2>4 DEF Repair, Goto, Quiet, Out, Ended, Locals
    <2>5. QED
      BY <1>2, <2>2, <2>3, <2>4 DEF ValidateFinalOutput
  <1>3. CASE FailLate(e) \/ Fail(e)
    <2>1. ASSUME NEW type \in Failures, AppendEvent(e, type), Raise(e, "raised"), UNCHANGED loc
          PROVE  Writes(e, type)
      BY <1>1, <1>3, <2>1 DEF FailLate, Fail, Raise, Goto, Writes, Ended, Failures
    <2>2. QED
      BY <1>3, <2>1, EndingIsQuiet DEF FailLate, Fail, Failures, Ended
  <1>4. CASE Validate(e)
    <2>1. CASE AppendEvent(e, "output_validated") /\ CountOn(e) /\ Goto(e, "complete")
      <3>1. /\ pc[e] = "validate" /\ pc'[e] = "complete"
            /\ loc'[e] = [loc[e] EXCEPT !.seq = @ + 1]
        BY <1>1, <1>4, <2>1 DEF Validate, CountOn, Goto
      <3>2. Writes(e, "output_validated")
        BY <2>1, <3>1 DEF Writes, Ended
      <3>3. QED
        BY <3>2
    <2>2. QED
      BY <1>4, <2>1, EndingIsQuiet DEF Validate, Ended
  <1>5. CASE Complete(e)
    <2>1. CASE AppendEvent(e, "run_completed") /\ Goto(e, "done") /\ UNCHANGED loc
      <3>1. Writes(e, "run_completed")
        BY <1>1, <1>5, <2>1 DEF Complete, Goto, Writes, Ended
      <3>2. QED
        BY <3>1
    <2>2. QED
      BY <1>5, <2>1, EndingIsQuiet DEF Complete, Ended
  <1>6. QED
    BY <1>2, <1>3, <1>4, <1>5

LEMMA InitReport == RuntimeInit => ReportInv
  <1> SUFFICES ASSUME RuntimeInit, NEW e \in Executions PROVE Accounted(e) /\ Reports(e)
    BY DEF ReportInv
  <1>1. /\ DOMAIN log = {} /\ pc[e] = "idle"
        /\ loc[e].turns = 0 /\ loc[e].tools = 0
    BY DEF RuntimeInit
  <1>2. \A types : Recorded(e, types) = 0
    <2>1. \A types : OwnEvents(e, types) = {}
      BY <1>1 DEF OwnEvents
    <2>2. QED
      BY <2>1, FS_EmptySet DEF Recorded, OwnEvents
  <1>3. ~ Wrote(e, "output_validated")
    BY <1>1 DEF Wrote
  <1>4. Recorded(e, {"turn"}) = 0 /\ Recorded(e, {"tool"}) = 0
    BY <1>2
  <1>5. Accounted(e)
    BY <1>1, <1>3, <1>4, RuntimeAssumption DEF Accounted, InBudget
  <1>6. Reports(e)
    BY <1>1 DEF Reports
  <1>7. QED
    BY <1>5, <1>6

\* A step of e does to the locals of another execution what it does to its label.
LEMMA OthersKeepLocals ==
  ASSUME FenceInv, NEW e \in Executions, NEW x \in Executions, x # e,
         Begin(e) \/ ExecutionStep(e) \/ Crash(e)
  PROVE  pc'[x] = pc[x] /\ loc'[x] = loc[x]
  <1>1. loc \in [Executions -> Locals] /\ RuntimeTypeOK
    BY DEF FenceInv, RuntimeTypeOK
  <1>2. loc' = loc \/ \E l : loc' = [loc EXCEPT ![e] = l]
    <2>1. CASE Begin(e) \/ Crash(e)
      BY <2>1 DEF Begin, ReadSeq, Crash
    <2>2. CASE ExecutionStep(e)
      BY <2>2 DEF ExecutionStep, Open, CountOn, Launch, TakeLine, ReadFails, LauncherReturns,
                  TimesOut, Malformed, RecordLine, RejectLine, ValidateFinalOutput, Repair,
                  FailLate, Validate, Complete, Fail, Refused
    <2>3. QED
      BY <2>1, <2>2
  <1>3. loc'[x] = loc[x]
    BY <1>1, <1>2
  <1>4. QED
    BY <1>1, <1>3, OthersAlone

LEMMA NextKeepsReport == FenceInv /\ ReportInv /\ [RuntimeNext]_runtimeVars => ReportInv'
  <1> SUFFICES ASSUME FenceInv, ReportInv, [RuntimeNext]_runtimeVars PROVE ReportInv'
    OBVIOUS
  <1>1. ASSUME UNCHANGED <<log, pc, loc>> PROVE ReportInv'
    <2> SUFFICES ASSUME NEW x \in Executions PROVE Accounted(x)' /\ Reports(x)'
      BY DEF ReportInv
    <2>1. Accounted(x) /\ Reports(x)
      BY DEF ReportInv
    <2>2. Accounted(x)'
      BY <1>1, <2>1 DEF Accounted, Recorded, Wrote, InBudget
    <2>3. Reports(x)'
      BY <1>1, <2>1 DEF Reports, Wrote
    <2>4. QED
      BY <2>2, <2>3
  <1>2. ASSUME NEW e \in Executions, Begin(e) \/ ExecutionStep(e) \/ Crash(e)
        PROVE  ReportInv'
    <2>1. Quiet(e) \/ \E type : Writes(e, type)
      BY <1>2, StartIsReported, LauncherIsReported, EndIsReported, EndingIsQuiet
      DEF Begin, ExecutionStep
    <2>2. Accounted(e)' /\ Reports(e)'
      BY <2>1, QuietKeepsReport, WriteKeepsAccount, WriteKeepsReport DEF ReportInv
    <2>3. UNCHANGED log \/ \E type : AppendEvent(e, type)
      BY <2>1 DEF Quiet, Writes
    <2>4. ASSUME NEW x \in Executions, x # e
          PROVE  Accounted(x)' /\ Reports(x)'
      BY <1>2, <2>3, <2>4, OthersKeepLocals, OthersKeepReport DEF ReportInv
    <2>5. QED
      BY <2>2, <2>4 DEF ReportInv
  <1>3. QED
    BY <1>1, <1>2 DEF RuntimeNext, runtimeVars, ChildStep

LEMMA RuntimeReports == RuntimeSpec => []ReportInv
  BY InitReport, NextKeepsReport, RuntimeKeepsFence, PTL DEF RuntimeSpec

\* A number of events that is not zero is that of an event.
LEMMA RecordedIsWrote ==
  ASSUME FenceInv, NEW e \in Executions, NEW type
  PROVE  Recorded(e, {type}) # 0 => Wrote(e, type)
  <1>1. SUFFICES ASSUME ~ Wrote(e, type) PROVE Recorded(e, {type}) = 0
    OBVIOUS
  <1>2. OwnEvents(e, {type}) = {}
    BY <1>1 DEF OwnEvents, Wrote
  <1>3. QED
    BY <1>2, FS_EmptySet DEF Recorded, OwnEvents

LEMMA WroteIsRecorded ==
  ASSUME FenceInv, NEW e \in Executions, NEW types, NEW type \in types, Wrote(e, type)
  PROVE  Recorded(e, types) > 0
  <1>1. PICK n \in Nat : DOMAIN log = 0 .. n - 1
    BY DEF FenceInv, LogIsPrefix
  <1>2. IsFiniteSet(OwnEvents(e, types))
    <2>1. IsFiniteSet(DOMAIN log)
      BY <1>1, FS_Interval
    <2>2. OwnEvents(e, types) \in SUBSET DOMAIN log
      BY DEF OwnEvents
    <2>3. QED
      BY <2>1, <2>2, FS_Subset
  <1>3. OwnEvents(e, types) # {}
    BY DEF OwnEvents, Wrote
  <1>4. Cardinality(OwnEvents(e, types)) \in Nat \ {0}
    BY <1>2, <1>3, FS_EmptySet, FS_CardinalityType
  <1>5. QED
    BY <1>4 DEF Recorded, OwnEvents

(* An execution stops with the first turn and the first tool call beyond   *)
(* its budgets, over all its attempts, and none that went beyond has its   *)
(* output accepted: it counts a line in the step that records it.          *)
THEOREM RuntimeKeepsBudgets == RuntimeSpec => []BudgetsHold
  <1>1. FenceInv /\ ReportInv => BudgetsHold
    <2> SUFFICES ASSUME FenceInv, ReportInv, NEW e \in Executions
                 PROVE  LET slack == IF Recorded(e, {"output_validated"}) = 0 THEN 1 ELSE 0
                        IN /\ Recorded(e, {"turn"}) <= MaxTurns + slack
                           /\ Recorded(e, {"tool"}) <= MaxToolCalls + slack
      BY DEF BudgetsHold
    <2>1. Accounted(e)
      BY DEF ReportInv
    <2>2. Recorded(e, {"output_validated"}) # 0 => InBudget(e)
      BY <2>1, RecordedIsWrote DEF Accounted
    <2>3. QED
      BY <2>1, <2>2, RuntimeAssumption DEF Accounted, InBudget
  <1>2. QED
    BY <1>1, RuntimeKeepsFence, RuntimeReports, PTL

(* An execution that raises has recorded its failure, or the number it     *)
(* counted to is another execution's: it never finds an event of its own.  *)
THEOREM RuntimeRecordsFailure == RuntimeSpec => []FailureIsRecorded
  <1>1. FenceInv /\ ReportInv => FailureIsRecorded
    BY WroteIsRecorded DEF ReportInv, Reports, FailureIsRecorded
  <1>2. QED
    BY <1>1, RuntimeKeepsFence, RuntimeReports, PTL

-----------------------------------------------------------------------------
(* Lines are neither lost nor counted twice between child and log.         *)

Bit(b) == IF b THEN 1 ELSE 0

\* Lines of e's child that are written and not read, or not read to the end.
Unread(e) == child[e].pipe + child[e].buffer + Bit(child[e].partial # "no")

\* Where an execution has read all that its children wrote, and where it is
\* reading.
Settled == {"idle", "open", "prepare", "output", "validate", "complete", "done"}
Reading == {"poll", "blocked", "line"}

Balanced(e) ==
  /\ ~Running(e) => child[e].partial = "no"
  /\ pc[e] \in Settled => Unread(e) = 0
  /\ pc[e] \in Settled \cup Reading =>
       Recorded(e, LineTypes) + Unread(e) + Bit(pc[e] = "line") = child[e].written

BalanceInv == \A e \in Executions : Balanced(e)

Child == [status : ChildStatus, pipe : Nat, buffer : Nat,
          partial : {"no", "pipe", "buffer"}, written : Nat]

LEMMA ChildFacts ==
  ASSUME FenceInv, NEW e \in Executions
  PROVE  /\ child \in [Executions -> Child] /\ child[e] \in Child
         /\ pc \in [Executions -> Labels]
         /\ Unread(e) \in Nat
         /\ Unread(e) = 0 => child[e].pipe = 0 /\ child[e].buffer = 0 /\ child[e].partial = "no"
         /\ Recorded(e, LineTypes) \in Nat
  <1>1. /\ child \in [Executions -> Child] /\ pc \in [Executions -> Labels]
    BY DEF FenceInv, RuntimeTypeOK, ChildTypeOK, Labels, Child
  <1>2. child[e].pipe \in Nat /\ child[e].buffer \in Nat
    BY <1>1 DEF Child
  <1>3. PICK n \in Nat : DOMAIN log = 0 .. n - 1
    BY DEF FenceInv, LogIsPrefix
  <1>4. Recorded(e, LineTypes) \in Nat
    <2>1. IsFiniteSet(DOMAIN log)
      BY <1>3, FS_Interval
    <2>2. OwnEvents(e, LineTypes) \in SUBSET DOMAIN log
      BY DEF OwnEvents
    <2>3. QED
      BY <2>1, <2>2, FS_Subset, FS_CardinalityType DEF Recorded, OwnEvents
  <1>5. QED
    BY <1>1, <1>2, <1>4 DEF Unread, Bit

\* What a child writes is unread; its end leaves the parts of a line a line.
LEMMA ChildWrites ==
  ASSUME FenceInv, NEW e \in Executions,
         WriteLine(e) \/ WritePartOfLine(e) \/ \E status \in {"succeeded", "failed"} : Exit(e, status)
  PROVE  /\ Running(e)
         /\ Unread(e)' - Unread(e) = child'[e].written - child[e].written
         /\ child'[e].written \in Nat
         /\ ~Running(e)' => child'[e].partial = "no"
  <1>1. child \in [Executions -> Child] /\ child[e] \in Child
    BY ChildFacts
  <1>2. /\ child[e].pipe \in Nat /\ child[e].buffer \in Nat /\ child[e].written \in Nat
        /\ child[e].partial \in {"no", "pipe", "buffer"}
    BY <1>1 DEF Child
  <1>3. CASE WriteLine(e)
    <2>1. /\ child'[e].pipe = child[e].pipe + 1 /\ child'[e].buffer = child[e].buffer
          /\ child'[e].partial = "no" /\ child'[e].status = child[e].status
          /\ child'[e].written = IF child[e].partial = "no" THEN child[e].written + 1
                                 ELSE child[e].written
      BY <1>1, <1>3 DEF WriteLine, Child
    <2>2. QED
      BY <1>2, <1>3, <2>1 DEF WriteLine, Running, Unread, Bit
  <1>4. CASE WritePartOfLine(e)
    <2>1. /\ child'[e].pipe = child[e].pipe /\ child'[e].buffer = child[e].buffer
          /\ child'[e].partial = "pipe" /\ child'[e].status = child[e].status
          /\ child'[e].written = child[e].written + 1
      BY <1>1, <1>4 DEF WritePartOfLine, Child
    <2>2. QED
      BY <1>2, <1>4, <2>1 DEF WritePartOfLine, Running, Unread, Bit
  <1>5. ASSUME NEW status \in {"succeeded", "failed"}, Exit(e, status)
        PROVE  /\ Running(e)
               /\ Unread(e)' - Unread(e) = child'[e].written - child[e].written
               /\ child'[e].written \in Nat
               /\ child'[e].partial = "no"
    <2>1. /\ child'[e].buffer = child[e].buffer
          /\ child'[e].pipe = IF child[e].partial = "no" THEN child[e].pipe ELSE child[e].pipe + 1
          /\ child'[e].partial = "no"
          /\ child'[e].written = child[e].written
      BY <1>1, <1>5 DEF Exit, Child
    <2>2. QED
      BY <1>2, <1>5, <2>1 DEF Exit, Unread, Bit
  <1>6. QED
    BY <1>3, <1>4, <1>5

\* readline takes one line; with a part of a line only, it takes none.
LEMMA LauncherReads ==
  ASSUME FenceInv, NEW e \in Executions, ~Running(e) => child[e].partial = "no",
         ReadLine(e) \/ (Blocks(e) /\ Swallow(e))
  PROVE  /\ ReadLine(e) => Unread(e) = Unread(e)' + 1
         /\ Blocks(e) => Unread(e) = Unread(e)'
         /\ Unread(e)' \in Nat
         /\ child'[e].written = child[e].written
         /\ ~Running(e)' => child'[e].partial = "no"
  <1>1. child \in [Executions -> Child] /\ child[e] \in Child
    BY ChildFacts
  <1>2. /\ child[e].pipe \in Nat /\ child[e].buffer \in Nat
        /\ child[e].partial \in {"no", "pipe", "buffer"}
    BY <1>1 DEF Child
  <1>3. ASSUME child[e].buffer > 0, child' = [child EXCEPT ![e].buffer = @ - 1]
        PROVE  /\ Unread(e) = Unread(e)' + 1 /\ Unread(e)' \in Nat
               /\ child'[e].written = child[e].written
               /\ ~Running(e)' => child'[e].partial = "no"
    <2>1. /\ child'[e].pipe = child[e].pipe /\ child'[e].buffer = child[e].buffer - 1
          /\ child'[e].partial = child[e].partial /\ child'[e].written = child[e].written
          /\ child'[e].status = child[e].status
      BY <1>1, <1>3 DEF Child
    <2>2. QED
      BY <1>2, <1>3, <2>1 DEF Unread, Bit, Running
  <1>4. ASSUME child[e].buffer = 0, NEW chunk \in 1 .. child[e].pipe,
               NEW rest \in IF child[e].partial = "pipe" /\ chunk = child[e].pipe
                            THEN {"pipe", "buffer"} ELSE {child[e].partial},
               child' = [child EXCEPT ![e].pipe = @ - chunk, ![e].buffer = chunk - 1,
                                      ![e].partial = rest]
        PROVE  /\ Unread(e) = Unread(e)' + 1 /\ Unread(e)' \in Nat
               /\ child'[e].written = child[e].written
               /\ ~Running(e)' => child'[e].partial = "no"
    <2>1. /\ child'[e].pipe = child[e].pipe - chunk /\ child'[e].buffer = chunk - 1
          /\ child'[e].partial = rest /\ child'[e].written = child[e].written
          /\ child'[e].status = child[e].status
      BY <1>1, <1>4 DEF Child
    <2>2. (rest = "no") <=> (child[e].partial = "no")
      BY <1>4
    <2>3. Bit(rest # "no") = Bit(child[e].partial # "no") /\ Bit(rest # "no") \in Nat
      BY <2>2 DEF Bit
    <2>4. QED
      BY <1>2, <1>4, <2>1, <2>2, <2>3 DEF Unread, Running
  <1>5. CASE ReadLine(e)
    <2>1. /\ Unread(e) = Unread(e)' + 1 /\ Unread(e)' \in Nat
          /\ child'[e].written = child[e].written
          /\ ~Running(e)' => child'[e].partial = "no"
      <3>1. CASE child[e].buffer > 0 /\ child' = [child EXCEPT ![e].buffer = @ - 1]
        BY <1>3, <3>1
      <3>2. CASE /\ child[e].buffer = 0
                 /\ \E chunk \in 1 .. child[e].pipe :
                      \E rest \in IF child[e].partial = "pipe" /\ chunk = child[e].pipe
                                   THEN {"pipe", "buffer"} ELSE {child[e].partial} :
                        child' = [child EXCEPT ![e].pipe = @ - chunk, ![e].buffer = chunk - 1,
                                               ![e].partial = rest]
        BY <1>4, <3>2
      <3>3. QED
        BY <1>5, <3>1, <3>2 DEF ReadLine
    <2>2. ~ Blocks(e)
      <3>1. child[e].buffer > 0 \/ \E chunk \in 1 .. child[e].pipe : TRUE
        BY <1>5 DEF ReadLine
      <3>2. child[e].buffer # 0 \/ child[e].pipe # 0
        BY <1>2, <3>1
      <3>3. QED
        BY <3>2 DEF Blocks, NoWholeLine
    <2>3. QED
      BY <2>1, <2>2
  <1>6. CASE Blocks(e) /\ Swallow(e)
    <2>1. /\ child'[e].pipe = 0 /\ child'[e].buffer = 0 /\ child'[e].partial = "buffer"
          /\ child'[e].written = child[e].written /\ child'[e].status = child[e].status
          /\ child[e].pipe = 0 /\ child[e].buffer = 0 /\ child[e].partial = "pipe"
      BY <1>1, <1>6 DEF Blocks, NoWholeLine, Swallow, Child
    <2>2. ~ ReadLine(e)
      BY <2>1 DEF ReadLine
    <2>3. QED
      BY <2>1, <2>2 DEF Unread, Bit, Running
  <1>7. QED
    BY <1>5, <1>6

\* A new child, and one that was killed, has nothing to read.
LEMMA EmptiedIsRead ==
  ASSUME FenceInv, NEW e \in Executions, Spawn(e) \/ Kill(e)
  PROVE  /\ Unread(e)' = 0 /\ child'[e].partial = "no"
         /\ child'[e].written = child[e].written
  <1>1. child'[e] \in {Emptied(e, "running"), Emptied(e, "killed")}
    BY ChildFacts DEF Spawn, Kill
  <1>2. \A status : /\ Emptied(e, status).pipe = 0 /\ Emptied(e, status).buffer = 0
                    /\ Emptied(e, status).partial = "no"
                    /\ Emptied(e, status).written = child[e].written
    BY DEF Emptied, NoChild
  <1>3. /\ child'[e].pipe = 0 /\ child'[e].buffer = 0 /\ child'[e].partial = "no"
        /\ child'[e].written = child[e].written
    BY <1>1, <1>2
  <1>4. QED
    BY <1>3 DEF Unread, Bit

\* An execution that goes on without its child, or gives up.
LEMMA MoveKeepsBalance ==
  ASSUME FenceInv, NEW e \in Executions, Balanced(e), UNCHANGED child,
         UNCHANGED log \/ \E type \in EventTypes \ LineTypes : AppendEvent(e, type),
         \/ pc[e] \in Settled /\ pc'[e] \in Settled
         \/ pc'[e] \notin Settled \cup Reading
  PROVE  Balanced(e)'
  <1>1. Recorded(e, LineTypes)' = Recorded(e, LineTypes)
    <2>1. CASE UNCHANGED log
      BY <2>1 DEF Recorded
    <2>2. CASE \E type \in EventTypes \ LineTypes : AppendEvent(e, type)
      BY <2>2, AppendCounts
    <2>3. QED
      BY <2>1, <2>2
  <1>2. Running(e)' = Running(e) /\ Unread(e)' = Unread(e)
    BY DEF Running, Unread
  <1>3. pc[e] \in Settled => Bit(pc[e] = "line") = 0
    BY DEF Settled, Bit
  <1>4. pc'[e] \in Settled => Bit(pc[e] = "line")' = 0
    BY DEF Settled, Bit
  <1>5. QED
    BY <1>1, <1>2, <1>3, <1>4 DEF Balanced

LEMMA EndKeepsBalance ==
  ASSUME FenceInv, NEW e \in Executions, Balanced(e),
         UNCHANGED child \/ KillIfRunning(e) \/ Kill(e),
         pc'[e] \notin Settled \cup Reading
  PROVE  Balanced(e)'
  <1>1. ~Running(e)' => child'[e].partial = "no"
    BY EmptiedIsRead DEF Balanced, KillIfRunning, Running
  <1>2. QED
    BY <1>1 DEF Balanced

LEMMA RaiseKeepsBalance ==
  ASSUME FenceInv, NEW e \in Executions, Balanced(e),
         Refused(e) \/ \E how \in {"raised", "aborted"} : Raise(e, how)
  PROVE  Balanced(e)'
  <1>1. PICK how \in {"raised", "aborted"} : Raise(e, how)
    BY DEF Refused
  <1>2. pc'[e] = how
    BY <1>1, ChildFacts DEF Raise, Goto
  <1>3. QED
    BY <1>1, <1>2, EndKeepsBalance DEF Raise, Settled, Reading

LEMMA LaunchKeepsBalance ==
  ASSUME FenceInv, NEW e \in Executions, Balanced(e), Launch(e)
  PROVE  Balanced(e)'
  <1>1. pc \in [Executions -> Labels] /\ pc[e] = "prepare" /\ UNCHANGED log
    BY ChildFacts DEF Launch
  <1>2. CASE Spawn(e) /\ Goto(e, "poll")
    <2>1. /\ Unread(e)' = 0 /\ child'[e].partial = "no"
          /\ child'[e].written = child[e].written
      BY <1>2, EmptiedIsRead
    <2>2. pc'[e] = "poll" /\ Recorded(e, LineTypes)' = Recorded(e, LineTypes)
      BY <1>1, <1>2 DEF Goto, Recorded
    <2>3. Recorded(e, LineTypes) = child[e].written
      BY <1>1, ChildFacts DEF Balanced, Settled, Bit
    <2>4. Bit(pc[e] = "line")' = 0
      BY <2>2 DEF Bit
    <2>5. QED
      <3>1. /\ Recorded(e, LineTypes) \in Nat
            /\ Recorded(e, LineTypes)' + Unread(e)' + 0 = child'[e].written
        BY <2>1, <2>2, <2>3, ChildFacts
      <3>2. QED
        BY <2>1, <2>2, <2>4, <3>1 DEF Balanced, Settled
  <1>3. CASE Goto(e, "fail") /\ UNCHANGED child
    BY <1>1, <1>3, EndKeepsBalance DEF Goto, Settled, Reading
  <1>4. CASE Raise(e, "aborted")
    BY <1>4, RaiseKeepsBalance
  <1>5. QED
    BY <1>2, <1>3, <1>4 DEF Launch

LEMMA TakeKeepsBalance ==
  ASSUME FenceInv, NEW e \in Executions, Balanced(e), TakeLine(e)
  PROVE  Balanced(e)'
  <1>1. /\ pc \in [Executions -> Labels] /\ pc[e] \in {"poll", "blocked"} /\ UNCHANGED log
        /\ Unread(e) \in Nat /\ Recorded(e, LineTypes) \in Nat
    BY ChildFacts DEF TakeLine
  <1>2. /\ Recorded(e, LineTypes) + Unread(e) = child[e].written
        /\ ~Running(e) => child[e].partial = "no"
    BY <1>1 DEF Balanced, Reading, Bit
  <1>3. Recorded(e, LineTypes)' = Recorded(e, LineTypes)
    BY <1>1 DEF Recorded
  <1>4. CASE ReadLine(e) /\ Goto(e, "line")
    <2>1. /\ Unread(e) = Unread(e)' + 1 /\ Unread(e)' \in Nat
          /\ child'[e].written = child[e].written
          /\ ~Running(e)' => child'[e].partial = "no"
      BY <1>2, <1>4, LauncherReads
    <2>2. pc'[e] = "line" /\ Bit(pc[e] = "line")' = 1
      BY <1>1, <1>4 DEF Goto, Bit
    <2>3. QED
      BY <1>1, <1>2, <1>3, <2>1, <2>2 DEF Balanced, Settled
  <1>5. CASE Blocks(e) /\ Swallow(e) /\ Goto(e, "blocked")
    <2>1. /\ Unread(e) = Unread(e)'
          /\ child'[e].written = child[e].written
          /\ ~Running(e)' => child'[e].partial = "no"
      BY <1>2, <1>5, LauncherReads
    <2>2. pc'[e] = "blocked" /\ Bit(pc[e] = "line")' = 0
      BY <1>1, <1>5 DEF Goto, Bit
    <2>3. QED
      BY <1>1, <1>2, <1>3, <2>1, <2>2 DEF Balanced, Settled
  <1>6. QED
    BY <1>4, <1>5 DEF TakeLine

LEMMA RecordKeepsBalance ==
  ASSUME FenceInv, NEW e \in Executions, Balanced(e), RecordLine(e)
  PROVE  Balanced(e)'
  <1>1. pc \in [Executions -> Labels] /\ pc[e] = "line"
    BY ChildFacts DEF RecordLine
  <1>2. ASSUME NEW type \in LineTypes, AppendEvent(e, type), UNCHANGED child,
               NEW label \in {"poll", "reject"}, Goto(e, label)
        PROVE  Balanced(e)'
    <2>1. Recorded(e, LineTypes)' = Recorded(e, LineTypes) + 1 /\ Recorded(e, LineTypes) \in Nat
      BY <1>2, AppendCounts
    <2>2. pc'[e] = label /\ Unread(e)' = Unread(e) /\ Running(e)' = Running(e)
      BY <1>1, <1>2 DEF Goto, Unread, Running
    <2>3. Bit(pc[e] = "line") = 1 /\ Bit(pc[e] = "line")' = 0
      BY <1>1, <2>2 DEF Bit
    <2>4. Recorded(e, LineTypes) + Unread(e) + 1 = child[e].written
      BY <1>1, <2>3 DEF Balanced, Reading
    <2>5. Recorded(e, LineTypes)' + Unread(e)' + 0 = child[e].written
      BY <2>1, <2>2, <2>4, ChildFacts
    <2>6. QED
      BY <1>2, <2>2, <2>3, <2>5 DEF Balanced, Settled
  <1>3. CASE Refused(e)
    BY <1>3, RaiseKeepsBalance
  <1>4. QED
    BY <1>2, <1>3 DEF RecordLine

LEMMA ReturnKeepsBalance ==
  ASSUME FenceInv, NEW e \in Executions, Balanced(e), LauncherReturns(e)
  PROVE  Balanced(e)'
  <1>1. /\ pc \in [Executions -> Labels] /\ pc[e] = "poll" /\ Drained(e)
        /\ UNCHANGED <<child, log>>
    BY ChildFacts DEF LauncherReturns
  <1>2. child[e].pipe = 0 /\ child[e].buffer = 0 /\ child[e].partial = "no"
    BY <1>1 DEF Drained, NoWholeLine, Balanced
  <1>3. Unread(e) = 0
    BY <1>2 DEF Unread, Bit
  <1>4. PICK label \in {"output", "fail"} : Goto(e, label)
    BY DEF LauncherReturns, CheckResult
  <1>5. pc'[e] = label /\ Bit(pc[e] = "line") = 0 /\ Bit(pc[e] = "line")' = 0
    BY <1>1, <1>4 DEF Goto, Bit
  <1>6. /\ Recorded(e, LineTypes)' = Recorded(e, LineTypes)
        /\ Unread(e)' = Unread(e) /\ Running(e)' = Running(e)
    BY <1>1 DEF Recorded, Unread, Running
  <1>7. QED
    BY <1>1, <1>3, <1>5, <1>6 DEF Balanced, Reading

LEMMA ChildKeepsBalance ==
  ASSUME FenceInv, NoOrphan, NEW e \in Executions, Balanced(e), ChildStep(e)
  PROVE  Balanced(e)'
  <1>1. UNCHANGED <<log, pc>>
    BY DEF ChildStep
  <1>2. Recorded(e, LineTypes)' = Recorded(e, LineTypes) /\ pc'[e] = pc[e]
    BY <1>1 DEF Recorded
  <1>3. CASE UNCHANGED child
    <2>1. Running(e)' = Running(e) /\ Unread(e)' = Unread(e)
      BY <1>3 DEF Running, Unread
    <2>2. Bit(pc[e] = "line")' = Bit(pc[e] = "line")
      BY <1>1
    <2>3. QED
      BY <1>2, <1>3, <2>1, <2>2 DEF Balanced
  <1>4. CASE \/ WriteLine(e) \/ WritePartOfLine(e)
             \/ \E status \in {"succeeded", "failed"} : Exit(e, status)
    <2>1. /\ Running(e)
          /\ Unread(e)' - Unread(e) = child'[e].written - child[e].written
          /\ child'[e].written \in Nat
          /\ ~Running(e)' => child'[e].partial = "no"
      BY <1>4, ChildWrites
    <2>2. pc[e] \notin Settled
      BY <2>1 DEF NoOrphan, InLauncher, Settled
    <2>3. /\ Unread(e) \in Nat /\ Recorded(e, LineTypes) \in Nat /\ child[e].written \in Nat
          /\ Bit(pc[e] = "line") \in Nat
          /\ Bit(pc[e] = "line")' = Bit(pc[e] = "line")
      BY <1>1, ChildFacts DEF Child, Bit
    <2>4. Unread(e)' \in Nat
      <3>1. FenceInv'
        BY ChildKeepsFence
      <3>2. child' \in [Executions -> Child]
        BY <3>1 DEF FenceInv, RuntimeTypeOK, ChildTypeOK, Child
      <3>3. child'[e].pipe \in Nat /\ child'[e].buffer \in Nat
        BY <3>2 DEF Child
      <3>4. QED
        BY <3>3 DEF Unread, Bit
    <2>5. pc[e] \in Reading =>
            Recorded(e, LineTypes) + Unread(e)' + Bit(pc[e] = "line") = child'[e].written
      <3>1. pc[e] \in Reading =>
              Recorded(e, LineTypes) + Unread(e) + Bit(pc[e] = "line") = child[e].written
        BY DEF Balanced
      <3>2. \A r, u, v, b, w, x \in Nat : v - u = x - w /\ r + u + b = w => r + v + b = x
        OBVIOUS
      <3>3. child'[e].written \in Nat /\ Unread(e)' - Unread(e) = child'[e].written - child[e].written
        BY <2>1
      <3>4. QED
        BY <2>3, <2>4, <3>1, <3>2, <3>3
    <2>6. QED
      BY <1>2, <2>1, <2>2, <2>3, <2>5 DEF Balanced
  <1>5. QED
    BY <1>3, <1>4 DEF ChildStep

LEMMA OwnBalance ==
  ASSUME FenceInv, NoOrphan, NEW e \in Executions, Balanced(e),
         Begin(e) \/ ExecutionStep(e) \/ ChildStep(e) \/ Crash(e)
  PROVE  Balanced(e)'
  <1>1. pc \in [Executions -> Labels]
    BY ChildFacts
  <1>2. CASE Begin(e)
    <2>1. UNCHANGED <<child, log>> /\ pc[e] = "idle" /\ pc'[e] = "open"
      BY <1>1, <1>2 DEF Begin, ReadSeq, Goto
    <2>2. QED
      BY <2>1, MoveKeepsBalance DEF Settled
  <1>3. CASE Crash(e)
    <2>1. UNCHANGED child /\ pc'[e] = "crashed"
      BY <1>1, <1>3 DEF Crash, Goto
    <2>2. QED
      BY <2>1, EndKeepsBalance DEF Settled, Reading
  <1>4. ASSUME NEW type \in EventTypes \ LineTypes, AppendEvent(e, type), UNCHANGED child,
               NEW label \in Settled, Goto(e, label), pc[e] \in Settled
        PROVE  Balanced(e)'
    <2>1. pc'[e] = label
      BY <1>1, <1>4 DEF Goto
    <2>2. QED
      BY <1>4, <2>1, MoveKeepsBalance
  <1>5. CASE Open(e)
    BY <1>4, <1>5, RaiseKeepsBalance DEF Open, EventTypes, LineTypes, Failures, Settled
  <1>6. CASE Validate(e)
    BY <1>4, <1>6, RaiseKeepsBalance DEF Validate, EventTypes, LineTypes, Failures, Settled
  <1>7. CASE Complete(e)
    BY <1>4, <1>7, RaiseKeepsBalance DEF Complete, EventTypes, LineTypes, Failures, Settled
  <1>8. CASE ReadFails(e) \/ RejectLine(e) \/ FailLate(e) \/ Fail(e)
    BY <1>8, RaiseKeepsBalance DEF ReadFails, RejectLine, FailLate, Fail
  <1>9. CASE TimesOut(e)
    <2>1. Kill(e) /\ pc'[e] = "fail"
      BY <1>1, <1>9 DEF TimesOut, Goto
    <2>2. QED
      BY <2>1, EndKeepsBalance DEF Settled, Reading
  <1>10. CASE Malformed(e)
    <2>1. UNCHANGED child /\ pc'[e] = "reject"
      BY <1>1, <1>10 DEF Malformed, Goto
    <2>2. QED
      BY <2>1, EndKeepsBalance DEF Settled, Reading
  <1>11. CASE ValidateFinalOutput(e)
    <2>1. /\ UNCHANGED <<child, log>> /\ pc[e] = "output"
          /\ \E label \in {"late", "validate", "fail", "aborted", "prepare"} : Goto(e, label)
      BY <1>11 DEF ValidateFinalOutput, Repair
    <2>2. pc'[e] \in {"late", "validate", "fail", "aborted", "prepare"}
      BY <1>1, <2>1 DEF Goto
    <2>3. QED
      BY <2>1, <2>2, MoveKeepsBalance DEF Settled, Reading
  <1>12. CASE ChildStep(e)
    BY <1>12, ChildKeepsBalance
  <1>13. QED
    BY <1>2, <1>3, <1>5, <1>6, <1>7, <1>8, <1>9, <1>10, <1>11, <1>12, LaunchKeepsBalance,
       TakeKeepsBalance, RecordKeepsBalance, ReturnKeepsBalance DEF ExecutionStep

LEMMA NextKeepsBalance ==
  FenceInv /\ NoOrphan /\ BalanceInv /\ [RuntimeNext]_runtimeVars => BalanceInv'
  <1> SUFFICES ASSUME FenceInv, NoOrphan, BalanceInv, [RuntimeNext]_runtimeVars,
                      NEW x \in Executions
               PROVE  Balanced(x)'
    BY DEF BalanceInv
  <1>1. Balanced(x)
    BY DEF BalanceInv
  <1>2. ASSUME child'[x] = child[x], pc'[x] = pc[x],
               Recorded(x, LineTypes)' = Recorded(x, LineTypes)
        PROVE  Balanced(x)'
    BY <1>1, <1>2 DEF Balanced, Running, Unread
  <1>3. CASE UNCHANGED runtimeVars
    BY <1>2, <1>3 DEF runtimeVars, Recorded
  <1>4. ASSUME NEW e \in Executions,
               Begin(e) \/ ExecutionStep(e) \/ ChildStep(e) \/ Crash(e)
        PROVE  Balanced(x)'
    <2>1. CASE x = e
      BY <1>1, <1>4, <2>1, OwnBalance
    <2>2. CASE x # e
      <3>1. pc'[x] = pc[x] /\ child'[x] = child[x]
        BY <1>4, <2>2, OthersAlone DEF FenceInv
      <3>2. UNCHANGED log \/ \E type : AppendEvent(e, type)
        BY <1>4, StartIsReported, LauncherIsReported, EndIsReported
        DEF Begin, ExecutionStep, ChildStep, Crash, Quiet, Writes
      <3>3. CASE UNCHANGED log
        BY <1>2, <3>1, <3>3 DEF Recorded
      <3>4. CASE \E type : AppendEvent(e, type)
        BY <1>2, <2>2, <3>1, <3>4, AppendCounts
      <3>5. QED
        BY <3>2, <3>3, <3>4
    <2>3. QED
      BY <2>1, <2>2
  <1>5. QED
    BY <1>3, <1>4 DEF RuntimeNext

LEMMA InitBalance == RuntimeInit => BalanceInv
  <1> SUFFICES ASSUME RuntimeInit, NEW e \in Executions PROVE Balanced(e)
    BY DEF BalanceInv
  <1>1. child[e] = NoChild /\ pc[e] = "idle" /\ OwnEvents(e, LineTypes) = {}
    BY DEF RuntimeInit, ChildInit, OwnEvents
  <1>2. Recorded(e, LineTypes) = 0
    BY <1>1, FS_EmptySet DEF Recorded, OwnEvents
  <1>3. child[e].partial = "no" /\ child[e].written = 0 /\ Unread(e) = 0
    BY <1>1 DEF NoChild, Unread, Bit
  <1>4. Bit(pc[e] = "line") = 0
    BY <1>1 DEF Bit
  <1>5. QED
    BY <1>2, <1>3, <1>4 DEF Balanced

(* When the output of an execution is looked at, every line that its       *)
(* children wrote is in the log, whatever the launcher's buffered reader   *)
(* took in at once and wherever the child stopped in a line.               *)
THEOREM RuntimeRecordsLines == RuntimeSpec => []EveryLineIsRecorded
  <1>1. FenceInv /\ BalanceInv => EveryLineIsRecorded
    <2> SUFFICES ASSUME FenceInv, NEW e \in Executions, Balanced(e),
                        pc[e] \in {"output", "validate", "complete", "done"}
                 PROVE  Recorded(e, LineTypes) = child[e].written
      BY DEF BalanceInv, EveryLineIsRecorded
    <2>1. Bit(pc[e] = "line") = 0
      BY DEF Bit
    <2>2. QED
      BY <2>1, ChildFacts DEF Balanced, Settled
  <1>2. QED
    BY <1>1, InitBalance, NextKeepsBalance, RuntimeKeepsFence, RuntimeLeavesNoOrphan, PTL
       DEF RuntimeSpec

=============================================================================
