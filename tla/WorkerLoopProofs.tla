--------------------------- MODULE WorkerLoopProofs ---------------------------
(***************************************************************************)
(* A loop of a topic is taken over only when its lease has elapsed since   *)
(* its last heartbeat, keeps its policy and counts its iterations, for any *)
(* number of services, loops, stops and crashes, however long items take.  *)
(***************************************************************************)
EXTENDS WorkerLoop, TLAPS

InLoop(s) == pc[s] \notin {"idle", "acquire"}

\* The loop of s is the running one under the lease of the last heartbeat, or
\* the service has been deprived of it.
Covered(s) ==
  LET l == loc[s].loop
  IN \/ Deprived(s)
     \/ IsRunning(l) /\ loops[l].lease = loc[s].time + LeaseTTL

ServiceFit(s) ==
  /\ pc[s] # "idle" => loc[s].loop \in Loops /\ loc[s].start <= now
  /\ InLoop(s) => loops[loc[s].loop].state # "absent"
  /\ pc[s] \in {"poll", "execute"} =>
       /\ loc[s].time <= now
       /\ Covered(s)

OneRow == \A k, l \in Loops : IsRunning(k) /\ IsRunning(l) => k = l

OwnLoops ==
  \A s, t \in Services :
    InLoop(s) /\ InLoop(t) /\ loc[s].loop = loc[t].loop => s = t

LeaseInv ==
  /\ LoopsTypeOK
  /\ OneRow
  /\ OwnLoops
  /\ \A s \in Services : ServiceFit(s)

-----------------------------------------------------------------------------
\* Nothing runs at first.
LEMMA InitLeaseInv == Init => LeaseInv
  <1> SUFFICES ASSUME Init PROVE LeaseInv
    OBVIOUS
  <1>1. NoRow \in LoopRow /\ NoRow.state # "running"
    BY DEF NoRow, LoopRow, RowStates, StopReasons
  <1>2. NoLocals \in ServiceLocals
    BY DEF NoLocals, ServiceLocals, StopReasons
  <1>3. LoopsTypeOK
    BY <1>1, <1>2, WorkerLoopAssumption DEF Init, LoopsTypeOK, Places
  <1>4. OneRow /\ OwnLoops /\ \A s \in Services : ServiceFit(s)
    BY <1>1 DEF Init, OneRow, OwnLoops, ServiceFit, InLoop, IsRunning
  <1>5. QED
    BY <1>3, <1>4 DEF LeaseInv

\* The rows that acquire_worker_loop writes.
LEMMA RowsAreTyped ==
  ASSUME NEW start \in Nat, LoopsTypeOK, NEW k \in Loops
  PROVE  /\ NewRow(start) \in LoopRow
         /\ ExpiredRow(k, start) \in LoopRow
         /\ NewRow(start).state = "running"
         /\ ExpiredRow(k, start).state = "stopped"
  <1>1. LeaseTTL \in Nat
    BY WorkerLoopAssumption
  <1>2. loops[k] \in LoopRow
    BY DEF LoopsTypeOK
  <1>3. NoRow \in LoopRow
    BY DEF NoRow, LoopRow, RowStates, StopReasons
  <1>4. NewRow(start) \in LoopRow /\ NewRow(start).state = "running"
    <2>1. start + LeaseTTL \in Nat /\ "running" \in RowStates
      BY <1>1 DEF RowStates
    <2>2. QED
      BY <1>3, <2>1 DEF NewRow, LoopRow
  <1>5. ExpiredRow(k, start) \in LoopRow /\ ExpiredRow(k, start).state = "stopped"
    <2>1. "stopped" \in RowStates /\ "lease_expired" \in StopReasons
      BY DEF RowStates, StopReasons
    <2>2. QED
      BY <1>2, <2>1 DEF ExpiredRow, LoopRow
  <1>6. QED
    BY <1>4, <1>5

\* A service that leaves run() relies on nothing.
LEMMA LeavingKeepsInv ==
  ASSUME LeaseInv, NEW s \in Services, Leave(s), UNCHANGED <<loops, iterations, now, stops>>,
         loopCrashes' \in 0..MaxLoopCrashes
  PROVE  LeaseInv'
  <1>1. NoLocals \in ServiceLocals
    BY DEF NoLocals, ServiceLocals, StopReasons
  <1>2. /\ pc' = [pc EXCEPT ![s] = "idle"]
        /\ loc' = [loc EXCEPT ![s] = NoLocals]
    BY DEF Leave, Goto
  <1>3. LoopsTypeOK'
    BY <1>1, <1>2 DEF LeaseInv, LoopsTypeOK, Places
  <1>4. OneRow'
    BY DEF LeaseInv, OneRow, IsRunning
  <1>5. OwnLoops'
    BY <1>2 DEF LeaseInv, LoopsTypeOK, OwnLoops, InLoop
  <1>6. \A t \in Services : ServiceFit(t)'
    BY <1>2 DEF LeaseInv, LoopsTypeOK, ServiceFit, InLoop, Covered, Deprived, IsRunning
  <1>7. QED
    BY <1>3, <1>4, <1>5, <1>6 DEF LeaseInv

\* The topic's loop is taken over only when its lease has expired: as long ago
\* as the lease lasts its service had its last heartbeat.
LEMMA AcquireKeepsInv ==
  ASSUME LeaseInv, NEW s \in Services, Acquire(s),
         UNCHANGED <<now, stops, loopCrashes>>
  PROVE  LeaseInv'
  <1> DEFINE id == loc[s].loop
             start == loc[s].start
  <1>1. CASE Leave(s) /\ UNCHANGED loops
    BY <1>1, LeavingKeepsInv DEF Acquire, LeaseInv, LoopsTypeOK
  <1>2. CASE /\ \A l \in Loops : ~Blocks(l, id, start)
             /\ loops[id].state = "absent"
             /\ loops' = [l \in Loops |->
                            IF l = id THEN NewRow(start)
                            ELSE IF IsRunning(l) THEN ExpiredRow(l, start)
                            ELSE loops[l]]
             /\ Goto(s, "heartbeat")
             /\ UNCHANGED loc
    <2>1. /\ pc[s] = "acquire"
          /\ id \in Loops
          /\ start \in Nat /\ start <= now
          /\ UNCHANGED iterations
      BY DEF Acquire, LeaseInv, LoopsTypeOK, ServiceFit, ServiceLocals
    <2>2. LoopsTypeOK
      BY DEF LeaseInv
    <2>3. /\ loops'[id].state = "running"
          /\ \A l \in Loops \ {id} : loops'[l].state # "running"
          /\ \A l \in Loops \ {id} : ~IsRunning(l) => loops'[l] = loops[l]
          /\ \A l \in Loops \ {id} : loops[l].state # "absent" => loops'[l].state # "absent"
      BY <1>2, <2>1, <2>2, RowsAreTyped DEF IsRunning
    <2>4. LoopsTypeOK'
      BY <1>2, <2>1, <2>2, RowsAreTyped DEF LoopsTypeOK, Goto, Places
    <2>5. pc' = [pc EXCEPT ![s] = "heartbeat"] /\ pc \in [Services -> Places]
      BY <1>2, <2>2 DEF Goto, LoopsTypeOK
    <2>6. OneRow'
      BY <2>3 DEF OneRow, IsRunning
    <2>7. \A t \in Services \ {s} : InLoop(t) => loc[t].loop # id
      BY <1>2 DEF LeaseInv, ServiceFit
    <2>8. OwnLoops'
      BY <1>2, <2>5, <2>7 DEF LeaseInv, OwnLoops, InLoop
    <2>9. ASSUME NEW t \in Services PROVE ServiceFit(t)'
      <3>1. CASE t = s
        BY <1>2, <2>1, <2>3, <2>5, <3>1 DEF ServiceFit, InLoop
      <3>2. CASE t # s /\ pc[t] \notin {"poll", "execute"}
        BY <1>2, <2>3, <2>5, <2>7, <3>2 DEF LeaseInv, ServiceFit, InLoop
      <3>3. CASE t # s /\ pc[t] \in {"poll", "execute"}
        <4> DEFINE l == loc[t].loop
        <4>1. /\ l \in Loops /\ l # id
              /\ loc[t].time <= now
              /\ Covered(t)
              /\ loops[l].state # "absent"
              /\ loc[t].start <= now
          BY <2>7, <3>3 DEF LeaseInv, ServiceFit, InLoop
        <4>2. CASE ~IsRunning(l)
          <5>1. loops'[l] = loops[l]
            BY <2>3, <4>1, <4>2
          <5>2. QED
            BY <1>2, <2>5, <3>3, <4>1, <4>2, <5>1
               DEF ServiceFit, InLoop, Covered, Deprived, IsRunning
        <4>3. CASE IsRunning(l)
          <5>1. /\ loc[t].time \in Nat /\ now \in Nat /\ LeaseTTL \in Nat
            BY <2>2, WorkerLoopAssumption DEF LoopsTypeOK, ServiceLocals
          <5>2. loops[l].lease = loc[t].time + LeaseTTL
            BY <4>1, <4>3 DEF Covered, Deprived
          <5>3. loops[l].lease <= start
            BY <1>2, <2>1, <4>1, <4>3, <5>1, <5>2 DEF Blocks
          <5>4. now - loc[t].time >= LeaseTTL
            BY <2>1, <5>1, <5>2, <5>3
          <5>5. loops'[l] = ExpiredRow(l, start)
            BY <1>2, <4>1, <4>3
          <5>6. loops'[l].state = "stopped" /\ loops'[l].reason = "lease_expired"
            <6>1. loops[l] \in LoopRow
              BY <2>2, <4>1 DEF LoopsTypeOK
            <6>2. QED
              BY <5>5, <6>1 DEF ExpiredRow, LoopRow
          <5>7. Deprived(t)'
            BY <1>2, <5>4, <5>6 DEF Deprived, IsRunning
          <5>8. QED
            BY <1>2, <2>5, <3>3, <4>1, <5>6, <5>7 DEF ServiceFit, InLoop, Covered
        <4>4. QED
          BY <4>2, <4>3
      <3>4. QED
        BY <3>1, <3>2, <3>3
    <2>10. QED
      BY <2>4, <2>6, <2>8, <2>9 DEF LeaseInv
  <1>3. QED
    BY <1>1, <1>2 DEF Acquire

-----------------------------------------------------------------------------
\* What a service writes to its locals.
LEMMA LocalsAreTyped ==
  ASSUME NEW v \in ServiceLocals, NEW k \in Loops, NEW t \in Nat, NEW i \in Nat,
         NEW n \in Nat, NEW m \in Nat, NEW reason \in StopReasons
  PROVE  /\ [v EXCEPT !.loop = k, !.start = t, !.time = t] \in ServiceLocals
         /\ [v EXCEPT !.time = t, !.reason = reason] \in ServiceLocals
         /\ [v EXCEPT !.iteration = i, !.no_yield = n, !.malformed = m,
                      !.reason = reason] \in ServiceLocals
  BY DEF ServiceLocals

\* A row of another loop stays as it is, or the operator stops it.
LEMMA OthersKeepFitting ==
  ASSUME LeaseInv, NEW t \in Services, pc'[t] = pc[t], loc'[t] = loc[t],
         now' = now,
         InLoop(t) => loops'[loc[t].loop] = loops[loc[t].loop]
  PROVE  ServiceFit(t)'
  BY DEF LeaseInv, ServiceFit, InLoop, Covered, Deprived, IsRunning

\* Begin, and the steps of a service on its own row.
LEMMA ServiceStepKeepsInv ==
  ASSUME LeaseInv, NEW s \in Services,
         \/ \E l \in Loops : Begin(s, l)
         \/ Heartbeat(s) \/ Poll(s) \/ Execute(s) \/ Append(s) \/ Stop(s),
         UNCHANGED <<now, stops, loopCrashes>>
  PROVE  LeaseInv'
  <1> DEFINE l == loc[s].loop
  <1>1. /\ LoopsTypeOK
        /\ now \in Nat /\ LeaseTTL \in Nat
        /\ loops \in [Loops -> LoopRow]
        /\ pc \in [Services -> Places]
        /\ loc \in [Services -> ServiceLocals]
        /\ iterations \in [Loops -> SUBSET Nat]
    BY WorkerLoopAssumption DEF LeaseInv, LoopsTypeOK
  <1>2. ASSUME \A t \in Services \ {s} : pc'[t] = pc[t] /\ loc'[t] = loc[t],
               InLoop(s),
               InLoop(s)' => loc'[s].loop = l,
               \A k \in Loops \ {l} : loops'[k] = loops[k],
               loops'[l].state = "running" => IsRunning(l),
               LoopsTypeOK',
               ServiceFit(s)'
        PROVE  LeaseInv'
    <2>1. OneRow'
      BY <1>2 DEF LeaseInv, OneRow, IsRunning
    <2>2. OwnLoops'
      BY <1>2 DEF LeaseInv, OwnLoops, InLoop
    <2>3. ASSUME NEW t \in Services \ {s} PROVE ServiceFit(t)'
      <3>1. InLoop(t) => loc[t].loop \in Loops \ {l}
        BY <1>2 DEF LeaseInv, OwnLoops, ServiceFit, InLoop
      <3>2. QED
        BY <1>2, <3>1, OthersKeepFitting
    <2>4. QED
      BY <1>2, <2>1, <2>2, <2>3 DEF LeaseInv
  <1>3. ASSUME NEW k \in Loops, Begin(s, k) PROVE LeaseInv'
    <2>1. /\ pc' = [pc EXCEPT ![s] = "acquire"]
          /\ loc' = [loc EXCEPT ![s].loop = k, ![s].start = now, ![s].time = now]
          /\ pc[s] = "idle"
          /\ UNCHANGED <<loops, iterations>>
      BY <1>3 DEF Begin, Goto
    <2>2. LoopsTypeOK'
      <3> DEFINE after == [loc[s] EXCEPT !.loop = k, !.start = now, !.time = now]
      <3>1. after \in ServiceLocals
        BY <1>1 DEF ServiceLocals
      <3>2. loc' = [loc EXCEPT ![s] = after]
        BY <2>1
      <3>3. QED
        BY <1>1, <2>1, <3>1, <3>2 DEF LoopsTypeOK, Places
    <2>3. OneRow' /\ OwnLoops'
      BY <1>1, <2>1 DEF LeaseInv, OneRow, OwnLoops, InLoop, IsRunning
    <2>4. ServiceFit(s)'
      BY <1>1, <2>1 DEF ServiceFit, InLoop, ServiceLocals
    <2>5. \A t \in Services \ {s} : ServiceFit(t)'
      BY <1>1, <2>1, OthersKeepFitting
    <2>6. QED
      BY <2>2, <2>3, <2>4, <2>5 DEF LeaseInv
  <1>4. CASE Leave(s) /\ UNCHANGED <<loops, iterations>>
    BY <1>1, <1>4, LeavingKeepsInv DEF LoopsTypeOK
  <1>5. CASE Heartbeat(s) /\ IsRunning(l)
    <2> DEFINE row == [loops[l] EXCEPT !.lease = now + LeaseTTL]
    <2>1. /\ pc[s] = "heartbeat" /\ IsRunning(l) /\ l \in Loops
          /\ loops' = [loops EXCEPT ![l] = row]
          /\ \E place \in {"poll", "stop"} : pc' = [pc EXCEPT ![s] = place]
          /\ loc' = [loc EXCEPT ![s].time = now, ![s].reason = Exhausted(s)]
          /\ UNCHANGED iterations
          /\ loc[s].start <= now
      BY <1>5 DEF Heartbeat, Renew, Goto, LeaseInv, ServiceFit
    <2>2. Exhausted(s) \in StopReasons
      BY DEF Exhausted, StopReasons
    <2>3. /\ row \in LoopRow /\ row.lease = now + LeaseTTL
          /\ row.state = loops[l].state
      <3>1. loops[l] \in LoopRow /\ now + LeaseTTL \in Nat
        BY <1>1, <2>1
      <3>2. QED
        BY <1>1, <3>1 DEF LoopRow
    <2>4. LoopsTypeOK'
      <3> DEFINE after == [loc[s] EXCEPT !.time = now, !.reason = Exhausted(s)]
      <3>1. after \in ServiceLocals
        BY <1>1, <2>1, <2>2, LocalsAreTyped
      <3>2. loc' = [loc EXCEPT ![s] = after]
        BY <2>1
      <3>3. QED
        BY <1>1, <2>1, <2>3, <3>1, <3>2 DEF LoopsTypeOK, Places
    <2>5. loc'[s].time = now /\ loc'[s].loop = l /\ loc'[s].start = loc[s].start
      BY <1>1, <2>1 DEF ServiceLocals
    <2>6. ServiceFit(s)'
      BY <1>1, <2>1, <2>3, <2>5 DEF ServiceFit, InLoop, Covered, Deprived, IsRunning
    <2>7. QED
      BY <1>1, <1>2, <2>1, <2>3, <2>4, <2>5, <2>6 DEF InLoop, IsRunning
  <1>6. CASE Poll(s)
    <2>1. /\ pc[s] = "poll"
          /\ UNCHANGED <<loops, iterations>>
          /\ \/ pc' = [pc EXCEPT ![s] = "execute"] /\ loc' = loc
             \/ /\ pc' = [pc EXCEPT ![s] = "stop"]
                /\ \E reason \in StopReasons : loc' = [loc EXCEPT ![s].reason = reason]
      BY <1>6 DEF Poll, Goto, StopReasons
    <2>2. LoopsTypeOK'
      <3>1. pc' \in [Services -> Places]
        BY <1>1, <2>1 DEF Places
      <3>2. ASSUME NEW reason \in StopReasons, loc' = [loc EXCEPT ![s].reason = reason]
            PROVE  loc' \in [Services -> ServiceLocals]
        BY <1>1, <3>2 DEF ServiceLocals
      <3>3. QED
        BY <1>1, <2>1, <3>1, <3>2 DEF LoopsTypeOK
    <2>3. ServiceFit(s)
      BY DEF LeaseInv
    <2>4. ServiceFit(s)'
      BY <1>1, <2>1, <2>3 DEF ServiceFit, InLoop, Covered, Deprived, IsRunning, ServiceLocals
    <2>5. QED
      BY <1>1, <1>2, <2>1, <2>2, <2>4 DEF InLoop, IsRunning, ServiceLocals
  <1>7. CASE Execute(s)
    <2>1. loc[s] \in ServiceLocals /\ l \in Loops
      BY <1>1, <1>7 DEF LeaseInv, ServiceFit, Execute
    <2>2. PICK i \in Nat, n \in Nat, m \in Nat, reason \in StopReasons :
            loc' = [loc EXCEPT ![s].iteration = i, ![s].no_yield = n,
                               ![s].malformed = m, ![s].reason = reason]
      <3>1. \A outcome \in Outcomes, m \in Nat, n \in Nat :
              Verdict(outcome, m, n) \in StopReasons
        BY DEF Verdict, StopReasons
      <3>2. \A outcome \in Outcomes : /\ NoYieldAfter(s, outcome) \in Nat
                                      /\ MalformedAfter(s, outcome) \in Nat
        BY <2>1 DEF ServiceLocals, NoYieldAfter, MalformedAfter
      <3>3. loc[s].iteration + 1 \in Nat
        BY <2>1 DEF ServiceLocals
      <3>4. PICK outcome \in Outcomes :
              loc' = [loc EXCEPT
                        ![s].iteration = loc[s].iteration + 1,
                        ![s].no_yield = NoYieldAfter(s, outcome),
                        ![s].malformed = MalformedAfter(s, outcome),
                        ![s].reason = Verdict(outcome, MalformedAfter(s, outcome),
                                              NoYieldAfter(s, outcome))]
        BY <1>7 DEF Execute
      <3>5. /\ NoYieldAfter(s, outcome) \in Nat /\ MalformedAfter(s, outcome) \in Nat
            /\ Verdict(outcome, MalformedAfter(s, outcome), NoYieldAfter(s, outcome))
                 \in StopReasons
        BY <3>1, <3>2
      <3>6. QED
        BY <3>3, <3>4, <3>5
    <2> DEFINE after == [loc[s] EXCEPT !.iteration = i, !.no_yield = n, !.malformed = m,
                                       !.reason = reason]
    <2>3. after \in ServiceLocals
      BY <2>1, LocalsAreTyped
    <2>4. after.loop = l /\ after.start = loc[s].start
      BY <2>1 DEF ServiceLocals
    <2>5. loc' = [loc EXCEPT ![s] = after]
      BY <2>2
    <2>6. /\ pc[s] = "execute"
          /\ pc' = [pc EXCEPT ![s] = "append"]
          /\ UNCHANGED <<loops, iterations>>
      BY <1>7 DEF Execute, Goto
    <2>7. LoopsTypeOK'
      BY <1>1, <2>3, <2>5, <2>6 DEF LoopsTypeOK, Places
    <2>8. ServiceFit(s)
      BY DEF LeaseInv
    <2>9. ServiceFit(s)'
      BY <1>1, <2>3, <2>4, <2>5, <2>6, <2>8 DEF ServiceFit, InLoop
    <2>10. QED
      BY <1>1, <1>2, <2>4, <2>5, <2>6, <2>7, <2>9 DEF InLoop, IsRunning
  <1>8. CASE Append(s) /\ loc[s].iteration \notin iterations[l]
    <2> DEFINE n == loc[s].iteration
               row == [loops[l] EXCEPT !.iteration_count = n, !.no_yield = loc[s].no_yield,
                          !.malformed = loc[s].malformed]
    <2>1. /\ pc[s] = "append" /\ l \in Loops
          /\ iterations' = [iterations EXCEPT ![l] = @ \cup {n}]
          /\ loops' = [loops EXCEPT ![l] = row]
          /\ \E place \in {"heartbeat", "stop"} : pc' = [pc EXCEPT ![s] = place]
          /\ UNCHANGED loc
      BY <1>8 DEF Append, Goto, LeaseInv, ServiceFit
    <2>2. loops[l] \in LoopRow /\ loc[s] \in ServiceLocals
      BY <1>1, <2>1
    <2>3. row \in LoopRow /\ row.state = loops[l].state
      BY <2>2 DEF LoopRow, ServiceLocals
    <2>4. n \in Nat
      BY <2>2 DEF ServiceLocals
    <2>5. LoopsTypeOK'
      BY <1>1, <2>1, <2>3, <2>4 DEF LoopsTypeOK, Places
    <2>6. ServiceFit(s)
      BY DEF LeaseInv
    <2>7. ServiceFit(s)'
      BY <1>1, <2>1, <2>3, <2>6 DEF ServiceFit, InLoop
    <2>8. QED
      BY <1>1, <1>2, <2>1, <2>3, <2>5, <2>7 DEF InLoop, IsRunning
  <1>9. CASE Stop(s)
    <2> DEFINE row == [loops[l] EXCEPT !.state = StopState[loc[s].reason],
                          !.reason = loc[s].reason]
    <2>1. /\ pc[s] = "stop" /\ l \in Loops
          /\ loops' = [loops EXCEPT ![l] = row]
          /\ pc' = [pc EXCEPT ![s] = "idle"]
          /\ loc' = [loc EXCEPT ![s] = NoLocals]
          /\ UNCHANGED iterations
      BY <1>9 DEF Stop, Leave, Goto, LeaseInv, ServiceFit
    <2>2. loops[l] \in LoopRow /\ loc[s].reason \in StopReasons
      BY <1>1, <2>1 DEF ServiceLocals
    <2>3. StopState[loc[s].reason] \in {"stopped", "blocked", "converged"}
      BY <2>2 DEF StopState
    <2>4. row \in LoopRow /\ row.state # "running"
      BY <1>1, <2>2, <2>3 DEF LoopRow, RowStates
    <2>5. NoLocals \in ServiceLocals
      BY DEF NoLocals, ServiceLocals, StopReasons
    <2>6. LoopsTypeOK'
      BY <1>1, <2>1, <2>4, <2>5 DEF LoopsTypeOK, Places
    <2>7. ServiceFit(s)'
      BY <1>1, <2>1 DEF ServiceFit, InLoop
    <2>8. QED
      BY <1>1, <1>2, <2>1, <2>4, <2>6, <2>7 DEF InLoop, IsRunning
  <1>10. QED
    BY <1>3, <1>4, <1>5, <1>6, <1>7, <1>8, <1>9 DEF Heartbeat, Append, Renew

\* The operator's stop uncovers nothing: it is the other way to be covered.
LEMMA OperatorStopKeepsInv ==
  ASSUME LeaseInv, OperatorStop
  PROVE  LeaseInv'
  <1>1. PICK l \in Loops :
          /\ IsRunning(l)
          /\ loops' = [loops EXCEPT ![l].state = "stopped",
                                    ![l].reason = "stopped_by_operator"]
    BY DEF OperatorStop
  <1> DEFINE row == [loops[l] EXCEPT !.state = "stopped",
                                     !.reason = "stopped_by_operator"]
  <1>2. /\ LoopsTypeOK
        /\ loops[l] \in LoopRow /\ now \in Nat
        /\ UNCHANGED <<iterations, pc, loc, now, loopCrashes>>
    BY DEF OperatorStop, LeaseInv, LoopsTypeOK
  <1>3. /\ row \in LoopRow
        /\ row.state = "stopped" /\ row.reason = "stopped_by_operator"
    BY <1>2 DEF LoopRow, RowStates, StopReasons
  <1>4. loops' = [loops EXCEPT ![l] = row]
    BY <1>1
  <1>5. stops' \in 0..MaxStops
    BY <1>2, WorkerLoopAssumption DEF OperatorStop, LoopsTypeOK
  <1>6. LoopsTypeOK'
    BY <1>2, <1>3, <1>4, <1>5 DEF LoopsTypeOK
  <1>7. /\ loops'[l].state = "stopped" /\ loops'[l].reason = "stopped_by_operator"
        /\ \A k \in Loops \ {l} : loops'[k] = loops[k]
    BY <1>2, <1>3, <1>4 DEF LoopsTypeOK
  <1>8. OneRow' /\ OwnLoops'
    BY <1>2, <1>7 DEF LeaseInv, OneRow, OwnLoops, InLoop, IsRunning
  <1>9. \A s \in Services : ServiceFit(s)'
    BY <1>2, <1>7 DEF LeaseInv, ServiceFit, InLoop, Covered, Deprived, IsRunning
  <1>10. QED
    BY <1>6, <1>8, <1>9 DEF LeaseInv

\* A lease that has elapsed stays so.
LEMMA TickKeepsInv ==
  ASSUME LeaseInv, Tick
  PROVE  LeaseInv'
  <1>1. /\ LoopsTypeOK /\ now \in Nat /\ now' = now + 1
        /\ UNCHANGED <<loops, iterations, pc, loc, stops, loopCrashes>>
        /\ loc \in [Services -> ServiceLocals]
        /\ LeaseTTL \in Nat
    BY WorkerLoopAssumption DEF Tick, LeaseInv, LoopsTypeOK
  <1>2. LoopsTypeOK' /\ OneRow' /\ OwnLoops'
    BY <1>1 DEF LeaseInv, LoopsTypeOK, OneRow, OwnLoops, InLoop, IsRunning
  <1>3. ASSUME NEW s \in Services PROVE ServiceFit(s)'
    <2>1. loc[s].start \in Nat /\ loc[s].time \in Nat
      BY <1>1 DEF ServiceLocals
    <2>2. ServiceFit(s)
      BY DEF LeaseInv
    <2>3. QED
      BY <1>1, <2>1, <2>2 DEF ServiceFit, InLoop, Covered, Deprived, IsRunning
  <1>4. QED
    BY <1>2, <1>3 DEF LeaseInv

\* LeaseInv is inductive.
LEMMA NextKeepsLeaseInv == LeaseInv /\ [Next]_loopVars => LeaseInv'
  <1> SUFFICES ASSUME LeaseInv, [Next]_loopVars PROVE LeaseInv'
    OBVIOUS
  <1>1. CASE UNCHANGED loopVars
    BY <1>1 DEF loopVars, LeaseInv, LoopsTypeOK, OneRow, OwnLoops, ServiceFit, InLoop,
       Covered, Deprived, IsRunning
  <1>2. ASSUME NEW s \in Services,
               ServiceStep(s) \/ \E l \in Loops : Begin(s, l),
               UNCHANGED <<now, stops, loopCrashes>>
        PROVE  LeaseInv'
    BY <1>2, AcquireKeepsInv, ServiceStepKeepsInv DEF ServiceStep
  <1>3. ASSUME NEW s \in Services, Crash(s) PROVE LeaseInv'
    <2>1. loopCrashes' \in 0..MaxLoopCrashes
      BY <1>3, WorkerLoopAssumption DEF Crash, LeaseInv, LoopsTypeOK
    <2>2. QED
      BY <1>3, <2>1, LeavingKeepsInv DEF Crash
  <1>4. QED
    BY <1>1, <1>2, <1>3, OperatorStopKeepsInv, TickKeepsInv DEF Next

(* Of two services that execute items of a topic at the same time, one was *)
(* stopped by the operator or taken over a full lease after its last       *)
(* heartbeat, whatever the lease and however long items take               *)
(* (acquire_worker_loop, heartbeat_worker_loop).                           *)
THEOREM OnlyExpiredLoopsAreTakenOver == Spec => []LeaseExcludes
  <1>1. LeaseInv => LeaseExcludes
    <2> SUFFICES ASSUME LeaseInv, NEW s1 \in Services, NEW s2 \in Services,
                        Executing(s1), Executing(s2), s1 # s2
                 PROVE  Deprived(s1) \/ Deprived(s2)
      BY DEF LeaseExcludes
    <2>1. /\ loc[s1].loop \in Loops /\ loc[s2].loop \in Loops
          /\ Covered(s1) /\ Covered(s2)
          /\ loc[s1].loop # loc[s2].loop
      BY DEF LeaseInv, OwnLoops, ServiceFit, InLoop, Executing
    <2>2. QED
      BY <2>1 DEF Covered, LeaseInv, OneRow
  <1>2. QED
    BY <1>1, InitLeaseInv, NextKeepsLeaseInv, PTL DEF Spec

-----------------------------------------------------------------------------
(* Worker loops keep their policy and count their iterations, for any      *)
(* policy and whatever the services, the operator and crashes do to the    *)
(* topic's loops: a service that was deprived of its loop still writes to  *)
(* a row that is its own.                                                  *)

\* The counters of a service and of its row.
Agree(s) ==
  LET row == loops[loc[s].loop]
  IN /\ row.no_yield = loc[s].no_yield
     /\ row.malformed = loc[s].malformed
     /\ row.iteration_count = loc[s].iteration

Fresh(s) == loc[s].iteration = 0 /\ loc[s].no_yield = 0 /\ loc[s].malformed = 0

\* What a place says of the counters.
CountsFit(s) ==
  /\ pc[s] # "idle" => loc[s].loop \in Loops
  /\ InLoop(s) => loops[loc[s].loop].state # "absent"
  /\ pc[s] \in {"idle", "acquire"} => Fresh(s)
  /\ pc[s] \in {"heartbeat", "poll", "execute"} =>
       /\ Agree(s)
       /\ loc[s].no_yield < MaxNoYield
       /\ loc[s].malformed < MaxMalformed
  /\ pc[s] \in {"poll", "execute"} => loc[s].iteration < MaxIterations
  /\ pc[s] = "append" =>
       /\ loc[s].iteration = loops[loc[s].loop].iteration_count + 1
       /\ loc[s].iteration <= MaxIterations
       /\ loc[s].no_yield <= MaxNoYield
       /\ loc[s].malformed <= MaxMalformed
       /\ loc[s].reason = "none" =>
            loc[s].no_yield < MaxNoYield /\ loc[s].malformed < MaxMalformed

\* What a row says of the iterations.
RowFits(row, numbers) ==
  /\ numbers = 1..row.iteration_count
  /\ row.iteration_count <= MaxIterations
  /\ row.no_yield <= MaxNoYield
  /\ row.malformed <= MaxMalformed
  /\ row.state = "absent" =>
       row.iteration_count = 0 /\ row.no_yield = 0 /\ row.malformed = 0

Counted(l) == RowFits(loops[l], iterations[l])

CountInv ==
  /\ LoopsTypeOK
  /\ OwnLoops
  /\ \A s \in Services : CountsFit(s)
  /\ \A l \in Loops : Counted(l)

\* The row keeps its counters, and is not taken away.
SameCounts(l) ==
  /\ iterations'[l] = iterations[l]
  /\ loops'[l].iteration_count = loops[l].iteration_count
  /\ loops'[l].no_yield = loops[l].no_yield
  /\ loops'[l].malformed = loops[l].malformed
  /\ loops[l].state # "absent" => loops'[l].state # "absent"
  /\ loops'[l].state = "absent" => loops[l].state = "absent"

-----------------------------------------------------------------------------
LEMMA PolicyIsNat ==
  /\ MaxIterations \in Nat \ {0} /\ MaxNoYield \in Nat \ {0} /\ MaxMalformed \in Nat \ {0}
  /\ LeaseTTL \in Nat
  BY WorkerLoopAssumption

LEMMA InitCounts == Init => CountInv
  <1> SUFFICES ASSUME Init PROVE CountInv
    OBVIOUS
  <1>1. LoopsTypeOK /\ OwnLoops
    BY InitLeaseInv DEF LeaseInv
  <1>2. ASSUME NEW s \in Services PROVE CountsFit(s)
    <2>1. pc[s] = "idle" /\ loc[s] = NoLocals
      BY DEF Init
    <2>2. QED
      BY <2>1 DEF CountsFit, InLoop, Fresh, NoLocals
  <1>3. ASSUME NEW l \in Loops PROVE Counted(l)
    <2>1. iterations[l] = {} /\ loops[l] = NoRow
      BY DEF Init
    <2>2. {} = 1..0
      OBVIOUS
    <2>3. QED
      BY <2>1, <2>2, PolicyIsNat DEF Counted, RowFits, NoRow
  <1>4. QED
    BY <1>1, <1>2, <1>3 DEF CountInv

LEMMA SameCountsKeepRow ==
  ASSUME NEW l \in Loops, Counted(l), SameCounts(l)
  PROVE  Counted(l)'
  BY DEF Counted, RowFits, SameCounts

LEMMA OthersKeepCounts ==
  ASSUME NEW t \in Services, CountsFit(t), pc'[t] = pc[t], loc'[t] = loc[t],
         InLoop(t) => SameCounts(loc[t].loop)
  PROVE  CountsFit(t)'
  BY DEF CountsFit, Agree, Fresh, InLoop, SameCounts

\* A step of s that leaves the counters of all rows but its own alone.
LEMMA StepKeepsCounts ==
  ASSUME CountInv, NEW s \in Services, LoopsTypeOK',
         \A t \in Services \ {s} : pc'[t] = pc[t] /\ loc'[t] = loc[t],
         \/ pc'[s] \in {"idle", "acquire"}
         \/ InLoop(s) /\ loc'[s].loop = loc[s].loop,
         \A k \in Loops : \/ SameCounts(k)
                          \/ /\ InLoop(s) /\ k = loc[s].loop
                             /\ RowFits(loops'[k], iterations'[k]),
         CountsFit(s)'
  PROVE  CountInv'
  <1>1. OwnLoops'
    BY DEF CountInv, OwnLoops, InLoop
  <1>2. ASSUME NEW t \in Services PROVE CountsFit(t)'
    <2>1. CASE t = s
      BY <2>1
    <2>2. CASE t # s
      <3>1. CountsFit(t)
        BY DEF CountInv
      <3>2. InLoop(t) => loc[t].loop \in Loops
        BY <3>1 DEF CountsFit, InLoop
      <3>3. InLoop(t) /\ InLoop(s) => loc[t].loop # loc[s].loop
        BY <2>2 DEF CountInv, OwnLoops
      <3>4. QED
        BY <2>2, <3>1, <3>2, <3>3, OthersKeepCounts
    <2>3. QED
      BY <2>1, <2>2
  <1>3. \A l \in Loops : Counted(l)'
    BY SameCountsKeepRow DEF CountInv, Counted
  <1>4. QED
    BY <1>1, <1>2, <1>3 DEF CountInv

LEMMA UnchangedIsSame ==
  ASSUME loops' = loops, iterations' = iterations
  PROVE  \A k \in Loops : SameCounts(k)
  BY DEF SameCounts

LEMMA LeavingKeepsCounts ==
  ASSUME CountInv, NEW s \in Services, Leave(s), UNCHANGED <<now, stops>>,
         loops' \in [Loops -> LoopRow], iterations' = iterations,
         \A k \in Loops : SameCounts(k), loopCrashes' \in 0..MaxLoopCrashes
  PROVE  CountInv'
  <1>1. NoLocals \in ServiceLocals
    BY DEF NoLocals, ServiceLocals, StopReasons
  <1>2. /\ pc' = [pc EXCEPT ![s] = "idle"]
        /\ loc' = [loc EXCEPT ![s] = NoLocals]
    BY DEF Leave, Goto
  <1>3. LoopsTypeOK'
    BY <1>1, <1>2 DEF CountInv, LoopsTypeOK, Places
  <1>4. /\ pc'[s] = "idle" /\ loc'[s] = NoLocals
        /\ \A t \in Services \ {s} : pc'[t] = pc[t] /\ loc'[t] = loc[t]
    BY <1>2 DEF CountInv, LoopsTypeOK
  <1>5. CountsFit(s)'
    BY <1>4 DEF CountsFit, InLoop, Fresh, NoLocals
  <1>6. pc'[s] \in {"idle", "acquire"}
    BY <1>4
  <1>7. \A t \in Services \ {s} : pc'[t] = pc[t] /\ loc'[t] = loc[t]
    BY <1>4
  <1>8. QED
    BY <1>3, <1>5, <1>6, <1>7, StepKeepsCounts

\* The rows that acquire_worker_loop writes.
LEMMA AcquireKeepsCounts ==
  ASSUME CountInv, NEW s \in Services, Acquire(s), UNCHANGED <<now, stops, loopCrashes>>
  PROVE  CountInv'
  <1> DEFINE id == loc[s].loop
             start == loc[s].start
  <1>1. LoopsTypeOK /\ CountsFit(s) /\ OwnLoops
    BY DEF CountInv
  <1>2. CASE Leave(s) /\ UNCHANGED loops
    BY <1>1, <1>2, LeavingKeepsCounts, UnchangedIsSame DEF Acquire, LoopsTypeOK
  <1>3. CASE /\ loops[id].state = "absent"
             /\ loops' = [l \in Loops |->
                            IF l = id THEN NewRow(start)
                            ELSE IF IsRunning(l) THEN ExpiredRow(l, start)
                            ELSE loops[l]]
             /\ Goto(s, "heartbeat")
             /\ UNCHANGED loc
    <2>1. /\ pc[s] = "acquire" /\ id \in Loops
          /\ start \in Nat
          /\ UNCHANGED <<iterations, loc>>
          /\ pc' = [pc EXCEPT ![s] = "heartbeat"]
      BY <1>1, <1>3 DEF Acquire, LoopsTypeOK, CountsFit, ServiceLocals, Goto
    <2>2. /\ pc'[s] = "heartbeat"
          /\ \A t \in Services \ {s} : pc'[t] = pc[t] /\ loc'[t] = loc[t]
      BY <1>1, <2>1 DEF LoopsTypeOK
    <2>3. LoopsTypeOK'
      BY <1>1, <1>3, <2>1, RowsAreTyped DEF LoopsTypeOK, Places
    <2>4. /\ loops'[id] = NewRow(start)
          /\ \A l \in Loops \ {id} : loops'[l] = loops[l] \/ loops'[l] = ExpiredRow(l, start)
      BY <1>3, <2>1
    <2>5. /\ NewRow(start).state = "running"
          /\ NewRow(start).iteration_count = 0
          /\ NewRow(start).no_yield = 0
          /\ NewRow(start).malformed = 0
      BY DEF NewRow, NoRow
    <2>6. ASSUME NEW l \in Loops \ {id} PROVE SameCounts(l)
      <3>1. CASE loops'[l] = loops[l]
        BY <2>1, <3>1 DEF SameCounts
      <3>2. CASE loops'[l] = ExpiredRow(l, start) /\ loops'[l] # loops[l]
        <4>1. loops[l] \in LoopRow /\ loops[l].state = "running"
          BY <1>1, <1>3, <3>2 DEF LoopsTypeOK, IsRunning
        <4>2. /\ ExpiredRow(l, start).state = "stopped"
              /\ ExpiredRow(l, start).iteration_count = loops[l].iteration_count
              /\ ExpiredRow(l, start).no_yield = loops[l].no_yield
              /\ ExpiredRow(l, start).malformed = loops[l].malformed
          BY <4>1 DEF ExpiredRow, LoopRow
        <4>3. QED
          BY <2>1, <3>2, <4>1, <4>2 DEF SameCounts
      <3>3. QED
        BY <2>4, <3>1, <3>2
    <2>7. SameCounts(id)
      <3>1. Counted(id)
        BY <2>1 DEF CountInv
      <3>2. QED
        BY <1>3, <2>1, <2>4, <2>5, <3>1 DEF Counted, RowFits, SameCounts
    <2>8. OwnLoops'
      <3>1. \A t \in Services \ {s} : InLoop(t) => loc[t].loop # id
        BY <1>3 DEF CountInv, CountsFit
      <3>2. QED
        BY <1>1, <2>1, <2>2, <3>1 DEF OwnLoops, InLoop
    <2>9. CountsFit(s)'
      <3>1. Fresh(s)
        BY <1>1, <2>1 DEF CountsFit
      <3>2. 0 < MaxNoYield /\ 0 < MaxMalformed
        BY PolicyIsNat
      <3>3. QED
        BY <2>1, <2>2, <2>4, <2>5, <3>1, <3>2 DEF CountsFit, InLoop, Agree, Fresh
    <2>10. ASSUME NEW t \in Services \ {s} PROVE CountsFit(t)'
      <3>1. CountsFit(t)
        BY DEF CountInv
      <3>2. InLoop(t) => SameCounts(loc[t].loop)
        BY <2>6, <2>7, <3>1 DEF CountsFit, InLoop
      <3>3. QED
        BY <2>2, <3>1, <3>2, OthersKeepCounts
    <2>11. \A l \in Loops : Counted(l)'
      BY <2>6, <2>7, SameCountsKeepRow DEF CountInv
    <2>12. QED
      BY <2>3, <2>8, <2>9, <2>10, <2>11 DEF CountInv
  <1>4. QED
    BY <1>2, <1>3 DEF Acquire

-----------------------------------------------------------------------------
\* The steps of a service in its loop, case by case.

\* s goes to a place, with these locals, and writes this row.
Writes(s, place, after, row) ==
  /\ pc' = [pc EXCEPT ![s] = place]
  /\ loc' = [loc EXCEPT ![s] = after]
  /\ loops' = [loops EXCEPT ![loc[s].loop] = row]

LEMMA WritingKeepsCounts ==
  ASSUME CountInv, NEW s \in Services, UNCHANGED <<now, stops, loopCrashes>>,
         InLoop(s),
         NEW place \in Places, NEW after \in ServiceLocals, NEW row \in LoopRow,
         Writes(s, place, after, row),
         after.loop = loc[s].loop,
         row.state # "absent",
         NEW numbers \in SUBSET Nat, RowFits(row, numbers),
         iterations' = [iterations EXCEPT ![loc[s].loop] = numbers],
         CountsFit(s)'
  PROVE  CountInv'
  <1> DEFINE l == loc[s].loop
  <1>1. LoopsTypeOK /\ CountsFit(s) /\ l \in Loops
    BY DEF CountInv, CountsFit, InLoop
  <1>2. LoopsTypeOK'
    BY <1>1 DEF LoopsTypeOK, Writes
  <1>3. /\ loops'[l] = row /\ iterations'[l] = numbers
        /\ \A k \in Loops \ {l} : loops'[k] = loops[k] /\ iterations'[k] = iterations[k]
        /\ \A t \in Services \ {s} : pc'[t] = pc[t] /\ loc'[t] = loc[t]
        /\ loc'[s].loop = l
    BY <1>1 DEF LoopsTypeOK, Writes
  <1>4. \A k \in Loops \ {l} : SameCounts(k)
    BY <1>3 DEF SameCounts
  <1>5. RowFits(loops'[l], iterations'[l])
    BY <1>3
  <1>6. QED
    BY <1>2, <1>3, <1>4, <1>5, StepKeepsCounts

LEMMA HeartbeatKeepsCounts ==
  ASSUME CountInv, NEW s \in Services, Heartbeat(s), UNCHANGED <<now, stops, loopCrashes>>
  PROVE  CountInv'
  <1> DEFINE l == loc[s].loop
             row == [loops[l] EXCEPT !.lease = now + LeaseTTL]
             after == [loc[s] EXCEPT !.time = now, !.reason = Exhausted(s)]
             place == IF Exhausted(s) = "none" THEN "poll" ELSE "stop"
  <1>1. /\ LoopsTypeOK /\ CountsFit(s) /\ pc[s] = "heartbeat" /\ InLoop(s)
        /\ l \in Loops /\ Counted(l)
        /\ loops[l] \in LoopRow /\ loc[s] \in ServiceLocals /\ now \in Nat
    BY DEF CountInv, CountsFit, LoopsTypeOK, Heartbeat, InLoop
  <1>2. CASE ~IsRunning(l) /\ Leave(s) /\ UNCHANGED loops
    BY <1>1, <1>2, LeavingKeepsCounts, UnchangedIsSame DEF Heartbeat, LoopsTypeOK
  <1>3. CASE Renew(s)
    <2>1. /\ Writes(s, place, after, row)
          /\ iterations' = [iterations EXCEPT ![l] = iterations[l]]
      BY <1>1, <1>3 DEF Heartbeat, Goto, Renew, Writes, LoopsTypeOK, IsRunning
    <2>2. Exhausted(s) \in StopReasons /\ place \in Places
      BY DEF Exhausted, StopReasons, Places
    <2>3. /\ row \in LoopRow /\ row.state = loops[l].state
          /\ row.iteration_count = loops[l].iteration_count
          /\ row.no_yield = loops[l].no_yield /\ row.malformed = loops[l].malformed
      BY <1>1, PolicyIsNat DEF LoopRow
    <2>4. /\ after \in ServiceLocals /\ after.loop = l
          /\ after.iteration = loc[s].iteration
          /\ after.no_yield = loc[s].no_yield /\ after.malformed = loc[s].malformed
      BY <1>1, <2>2 DEF ServiceLocals
    <2>5. place = "poll" => loc[s].iteration < MaxIterations
      BY <1>1, PolicyIsNat DEF Exhausted, ServiceLocals
    <2>6. /\ pc'[s] = place /\ loc'[s] = after /\ loops'[l] = row
          /\ place \in {"poll", "stop"}
      BY <1>1, <2>1 DEF Writes, LoopsTypeOK
    <2>7. row.state # "absent"
      BY <1>1, <2>3 DEF CountsFit
    <2>8. RowFits(row, iterations[l]) /\ iterations[l] \in SUBSET Nat
      BY <1>1, <2>3 DEF Counted, RowFits, LoopsTypeOK
    <2> HIDE DEF row, after, place
    <2>9. CountsFit(s)'
      <3>1. pc'[s] \in {"poll", "stop"} /\ (pc'[s] = "poll" => loc'[s].iteration < MaxIterations)
        BY <2>4, <2>5, <2>6
      <3>2. loc'[s].loop = l /\ loops'[l].state # "absent"
        BY <2>4, <2>6, <2>7
      <3>3. Agree(s) /\ loc[s].no_yield < MaxNoYield /\ loc[s].malformed < MaxMalformed
        BY <1>1 DEF CountsFit
      <3>4. Agree(s)' /\ loc'[s].no_yield < MaxNoYield /\ loc'[s].malformed < MaxMalformed
        BY <2>3, <2>4, <2>6, <3>2, <3>3 DEF Agree
      <3>5. QED
        BY <1>1, <3>1, <3>2, <3>4 DEF CountsFit, InLoop
    <2>10. QED
      BY <1>1, <2>1, <2>2, <2>3, <2>4, <2>7, <2>8, <2>9, WritingKeepsCounts
  <1>4. QED
    BY <1>2, <1>3 DEF Heartbeat

LEMMA PollKeepsCounts ==
  ASSUME CountInv, NEW s \in Services, Poll(s), UNCHANGED <<now, stops, loopCrashes>>
  PROVE  CountInv'
  <1>1. /\ LoopsTypeOK /\ CountsFit(s) /\ pc[s] = "poll" /\ InLoop(s)
        /\ loc[s].loop \in Loops /\ loc[s] \in ServiceLocals
        /\ loops' = loops /\ iterations' = iterations
    BY DEF CountInv, CountsFit, LoopsTypeOK, Poll, InLoop
  <1>2. PICK place \in {"execute", "stop"}, reason \in StopReasons :
          /\ pc' = [pc EXCEPT ![s] = place]
          /\ loc' = [loc EXCEPT ![s].reason = reason]
    <2>1. CASE Goto(s, "execute") /\ UNCHANGED loc
      <3>1. loc[s].reason \in StopReasons /\ loc' = [loc EXCEPT ![s].reason = loc[s].reason]
        BY <1>1, <2>1 DEF LoopsTypeOK, ServiceLocals
      <3>2. QED
        BY <2>1, <3>1 DEF Goto
    <2>2. CASE \E reason \in {"empty_queue_paused_active_conflicts", "empty_queue_converged"} :
                 Goto(s, "stop") /\ loc' = [loc EXCEPT ![s].reason = reason]
      BY <2>2 DEF Goto, StopReasons
    <2>3. QED
      BY <2>1, <2>2 DEF Poll
  <1> DEFINE after == [loc[s] EXCEPT !.reason = reason]
  <1>3. /\ after \in ServiceLocals /\ after.loop = loc[s].loop
        /\ after.iteration = loc[s].iteration
        /\ after.no_yield = loc[s].no_yield /\ after.malformed = loc[s].malformed
    BY <1>1 DEF ServiceLocals
  <1>4. /\ pc'[s] = place /\ loc'[s] = after
        /\ \A t \in Services \ {s} : pc'[t] = pc[t] /\ loc'[t] = loc[t]
    BY <1>1, <1>2 DEF LoopsTypeOK
  <1>5. LoopsTypeOK'
    BY <1>1, <1>2, <1>3 DEF LoopsTypeOK, Places
  <1>6. CountsFit(s)'
    BY <1>1, <1>3, <1>4 DEF CountsFit, Agree, InLoop
  <1>7. loc'[s].loop = loc[s].loop
    BY <1>3, <1>4
  <1> HIDE DEF after
  <1>8. QED
    BY <1>1, <1>4, <1>5, <1>6, <1>7, UnchangedIsSame, StepKeepsCounts

\* A streak that was below its limit is at most one longer, and at the limit
\* there is a reason to stop.
LEMMA ExecuteKeepsCounts ==
  ASSUME CountInv, NEW s \in Services, Execute(s), UNCHANGED <<now, stops, loopCrashes>>
  PROVE  CountInv'
  <1>1. /\ LoopsTypeOK /\ CountsFit(s) /\ pc[s] = "execute" /\ InLoop(s)
        /\ loc[s].loop \in Loops /\ loc[s] \in ServiceLocals
        /\ loops' = loops /\ iterations' = iterations
        /\ pc' = [pc EXCEPT ![s] = "append"]
    BY DEF CountInv, CountsFit, LoopsTypeOK, Execute, InLoop, Goto
  <1>2. /\ Agree(s)
        /\ loc[s].iteration \in Nat /\ loc[s].iteration < MaxIterations
        /\ loc[s].no_yield \in Nat /\ loc[s].no_yield < MaxNoYield
        /\ loc[s].malformed \in Nat /\ loc[s].malformed < MaxMalformed
    BY <1>1 DEF CountsFit, ServiceLocals
  <1>3. PICK outcome \in Outcomes :
          loc' = [loc EXCEPT
                    ![s].iteration = loc[s].iteration + 1,
                    ![s].no_yield = NoYieldAfter(s, outcome),
                    ![s].malformed = MalformedAfter(s, outcome),
                    ![s].reason = Verdict(outcome, MalformedAfter(s, outcome),
                                          NoYieldAfter(s, outcome))]
    BY DEF Execute
  <1> DEFINE i == loc[s].iteration + 1
             n == NoYieldAfter(s, outcome)
             m == MalformedAfter(s, outcome)
             reason == Verdict(outcome, m, n)
             after == [loc[s] EXCEPT !.iteration = i, !.no_yield = n, !.malformed = m,
                                     !.reason = reason]
  <1>4. /\ i \in Nat /\ i <= MaxIterations
        /\ n \in Nat /\ n <= MaxNoYield
        /\ m \in Nat /\ m <= MaxMalformed
    BY <1>2, PolicyIsNat DEF NoYieldAfter, MalformedAfter
  <1>5. reason \in StopReasons /\ (reason = "none" => n < MaxNoYield /\ m < MaxMalformed)
    <2>1. CASE outcome \in {"crashed", "contract_mismatch"}
      BY <2>1 DEF Verdict, StopReasons
    <2>2. CASE outcome \notin {"crashed", "contract_mismatch"}
      <3> HIDE DEF n, m
      <3>1. reason = IF m >= MaxMalformed   THEN "repeated_malformed_proposal"
                     ELSE IF n >= MaxNoYield THEN "max_consecutive_no_yield"
                     ELSE "none"
        BY <2>2 DEF Verdict
      <3>2. QED
        BY <1>4, <3>1, PolicyIsNat DEF StopReasons
    <2>3. QED
      BY <2>1, <2>2
  <1> HIDE DEF i, n, m, reason
  <1>6. /\ after \in ServiceLocals /\ after.loop = loc[s].loop
        /\ after.iteration = i /\ after.no_yield = n /\ after.malformed = m
        /\ after.reason = reason
    BY <1>1, <1>4, <1>5 DEF ServiceLocals
  <1>7. loc' = [loc EXCEPT ![s] = after]
    BY <1>3 DEF i, n, m, reason
  <1> HIDE DEF after
  <1>8. /\ pc'[s] = "append" /\ loc'[s] = after
        /\ \A t \in Services \ {s} : pc'[t] = pc[t] /\ loc'[t] = loc[t]
    BY <1>1, <1>7 DEF LoopsTypeOK
  <1>9. LoopsTypeOK'
    BY <1>1, <1>6, <1>7 DEF LoopsTypeOK, Places
  <1>10. CountsFit(s)'
    <2>1. i = loops[loc[s].loop].iteration_count + 1
      BY <1>2 DEF i, Agree
    <2>2. QED
      BY <1>1, <1>4, <1>5, <1>6, <1>8, <2>1 DEF CountsFit, InLoop
  <1>11. loc'[s].loop = loc[s].loop
    BY <1>6, <1>8
  <1>12. QED
    BY <1>1, <1>8, <1>9, <1>10, <1>11, UnchangedIsSame, StepKeepsCounts

LEMMA AppendKeepsCounts ==
  ASSUME CountInv, NEW s \in Services, Append(s), UNCHANGED <<now, stops, loopCrashes>>
  PROVE  CountInv'
  <1> DEFINE l == loc[s].loop
             n == loc[s].iteration
             row == [loops[l] EXCEPT !.iteration_count = n, !.no_yield = loc[s].no_yield,
                                     !.malformed = loc[s].malformed]
             place == IF loc[s].reason = "none" THEN "heartbeat" ELSE "stop"
             numbers == iterations[l] \cup {n}
  <1>1. /\ LoopsTypeOK /\ CountsFit(s) /\ pc[s] = "append" /\ InLoop(s)
        /\ l \in Loops /\ Counted(l)
        /\ loops[l] \in LoopRow /\ loc[s] \in ServiceLocals
    BY DEF CountInv, CountsFit, LoopsTypeOK, Append, InLoop
  <1>2. CASE n \in iterations[l] /\ Leave(s) /\ UNCHANGED <<loops, iterations>>
    BY <1>1, <1>2, LeavingKeepsCounts, UnchangedIsSame DEF LoopsTypeOK
  <1>3. CASE /\ iterations' = [iterations EXCEPT ![l] = @ \cup {n}]
             /\ loops' = [loops EXCEPT ![l].iteration_count = n,
                                       ![l].no_yield = loc[s].no_yield,
                                       ![l].malformed = loc[s].malformed]
             /\ Goto(s, place)
             /\ UNCHANGED loc
    <2>1. /\ Writes(s, place, loc[s], row)
          /\ iterations' = [iterations EXCEPT ![l] = numbers]
      BY <1>1, <1>3 DEF Goto, Writes, LoopsTypeOK
    <2>2. /\ n \in Nat /\ n <= MaxIterations
          /\ n = loops[l].iteration_count + 1 /\ loops[l].iteration_count \in Nat
          /\ loc[s].no_yield \in Nat /\ loc[s].no_yield <= MaxNoYield
          /\ loc[s].malformed \in Nat /\ loc[s].malformed <= MaxMalformed
          /\ place = "heartbeat" => loc[s].no_yield < MaxNoYield /\ loc[s].malformed < MaxMalformed
          /\ loops[l].state # "absent"
      BY <1>1 DEF CountsFit, ServiceLocals, LoopRow
    <2>3. /\ row \in LoopRow /\ row.state = loops[l].state
          /\ row.iteration_count = n
          /\ row.no_yield = loc[s].no_yield /\ row.malformed = loc[s].malformed
      BY <1>1, <2>2 DEF LoopRow
    <2>4. numbers = 1..n /\ numbers \in SUBSET Nat
      <3>1. iterations[l] = 1..(n - 1)
        BY <1>1, <2>2 DEF Counted, RowFits
      <3>2. QED
        BY <2>2, <3>1
    <2>5. place \in {"heartbeat", "stop"} /\ place \in Places
      BY DEF Places
    <2> HIDE DEF row, numbers, place
    <2>6. RowFits(row, numbers)
      BY <2>2, <2>3, <2>4 DEF RowFits
    <2>7. pc'[s] = place /\ loc'[s] = loc[s] /\ loops'[l] = row
      BY <1>1, <2>1 DEF Writes, LoopsTypeOK
    <2>8. CountsFit(s)'
      <3>1. Agree(s)' /\ loops'[l].state # "absent"
        BY <2>2, <2>3, <2>7 DEF Agree
      <3>2. QED
        BY <1>1, <2>2, <2>5, <2>7, <3>1 DEF CountsFit, InLoop
    <2>9. row.state # "absent" /\ loc[s].loop = l
      BY <2>2, <2>3
    <2>10. QED
      BY <1>1, <2>1, <2>3, <2>4, <2>5, <2>6, <2>8, <2>9, WritingKeepsCounts
  <1>4. QED
    BY <1>2, <1>3 DEF Append

LEMMA StopKeepsCounts ==
  ASSUME CountInv, NEW s \in Services, Stop(s), UNCHANGED <<now, stops, loopCrashes>>
  PROVE  CountInv'
  <1> DEFINE l == loc[s].loop
             row == [loops[l] EXCEPT !.state = StopState[loc[s].reason],
                                     !.reason = loc[s].reason]
  <1>1. /\ LoopsTypeOK /\ CountsFit(s) /\ pc[s] = "stop" /\ l \in Loops
        /\ loops[l] \in LoopRow /\ loc[s] \in ServiceLocals
        /\ loops' = [loops EXCEPT ![l] = row]
        /\ Leave(s) /\ UNCHANGED iterations
        /\ loops[l].state # "absent"
    BY DEF CountInv, CountsFit, LoopsTypeOK, Stop, InLoop
  <1>2. StopState[loc[s].reason] \in {"stopped", "blocked", "converged"}
        /\ loc[s].reason \in StopReasons
    BY <1>1 DEF StopState, ServiceLocals
  <1>3. /\ row \in LoopRow /\ row.state # "absent"
        /\ row.iteration_count = loops[l].iteration_count
        /\ row.no_yield = loops[l].no_yield /\ row.malformed = loops[l].malformed
    BY <1>1, <1>2 DEF LoopRow, RowStates
  <1> HIDE DEF row
  <1>4. loops' \in [Loops -> LoopRow]
    BY <1>1, <1>3 DEF LoopsTypeOK
  <1>5. /\ loops'[l] = row
        /\ \A k \in Loops \ {l} : loops'[k] = loops[k]
    BY <1>1 DEF LoopsTypeOK
  <1>6. ASSUME NEW k \in Loops PROVE SameCounts(k)
    BY <1>1, <1>3, <1>5 DEF SameCounts
  <1>7. loopCrashes' \in 0..MaxLoopCrashes
    BY <1>1 DEF LoopsTypeOK
  <1>8. QED
    BY <1>1, <1>4, <1>6, <1>7, LeavingKeepsCounts

-----------------------------------------------------------------------------
\* A new call of run() starts from nothing.
LEMMA BeginKeepsCounts ==
  ASSUME CountInv, NEW s \in Services, NEW l \in Loops, Begin(s, l),
         UNCHANGED <<now, stops, loopCrashes>>
  PROVE  CountInv'
  <1> DEFINE after == [loc[s] EXCEPT !.loop = l, !.start = now, !.time = now]
  <1>1. /\ LoopsTypeOK /\ CountsFit(s) /\ pc[s] = "idle" /\ Fresh(s)
        /\ loc[s] \in ServiceLocals /\ now \in Nat
        /\ loops' = loops /\ iterations' = iterations
        /\ pc' = [pc EXCEPT ![s] = "acquire"]
        /\ loc' = [loc EXCEPT ![s] = after]
    BY DEF CountInv, CountsFit, LoopsTypeOK, Begin, Goto
  <1>2. /\ after \in ServiceLocals /\ after.loop = l
        /\ after.iteration = loc[s].iteration
        /\ after.no_yield = loc[s].no_yield /\ after.malformed = loc[s].malformed
    BY <1>1 DEF ServiceLocals
  <1> HIDE DEF after
  <1>3. /\ pc'[s] = "acquire" /\ loc'[s] = after
        /\ \A t \in Services \ {s} : pc'[t] = pc[t] /\ loc'[t] = loc[t]
    BY <1>1 DEF LoopsTypeOK
  <1>4. LoopsTypeOK'
    BY <1>1, <1>2 DEF LoopsTypeOK, Places
  <1>5. CountsFit(s)'
    BY <1>1, <1>2, <1>3 DEF CountsFit, InLoop, Fresh
  <1>6. pc'[s] \in {"idle", "acquire"}
    BY <1>3
  <1>7. QED
    BY <1>1, <1>3, <1>4, <1>5, <1>6, UnchangedIsSame, StepKeepsCounts

\* A step that is no service's and leaves all counters alone.
LEMMA OutsideKeepsCounts ==
  ASSUME CountInv, UNCHANGED <<pc, loc>>, LoopsTypeOK', \A k \in Loops : SameCounts(k)
  PROVE  CountInv'
  <1>1. OwnLoops'
    BY DEF CountInv, OwnLoops, InLoop
  <1>2. ASSUME NEW t \in Services PROVE CountsFit(t)'
    <2>1. CountsFit(t)
      BY DEF CountInv
    <2>2. InLoop(t) => SameCounts(loc[t].loop)
      BY <2>1 DEF CountsFit, InLoop
    <2>3. QED
      BY <2>1, <2>2, OthersKeepCounts
  <1>3. \A l \in Loops : Counted(l)'
    BY SameCountsKeepRow DEF CountInv
  <1>4. QED
    BY <1>1, <1>2, <1>3 DEF CountInv

LEMMA OperatorStopKeepsCounts ==
  ASSUME CountInv, OperatorStop
  PROVE  CountInv'
  <1>1. PICK l \in Loops :
          /\ IsRunning(l)
          /\ loops' = [loops EXCEPT ![l].state = "stopped",
                                    ![l].reason = "stopped_by_operator"]
    BY DEF OperatorStop
  <1> DEFINE row == [loops[l] EXCEPT !.state = "stopped",
                                     !.reason = "stopped_by_operator"]
  <1>2. /\ LoopsTypeOK /\ loops[l] \in LoopRow
        /\ loops' = [loops EXCEPT ![l] = row]
        /\ UNCHANGED <<iterations, pc, loc, now, loopCrashes>>
        /\ loops[l].state # "absent"
    BY <1>1 DEF OperatorStop, CountInv, LoopsTypeOK, IsRunning
  <1>3. /\ row \in LoopRow /\ row.state = "stopped"
        /\ row.iteration_count = loops[l].iteration_count
        /\ row.no_yield = loops[l].no_yield /\ row.malformed = loops[l].malformed
    BY <1>2 DEF LoopRow, RowStates, StopReasons
  <1> HIDE DEF row
  <1>4. stops' \in 0..MaxStops
    BY <1>2, WorkerLoopAssumption DEF OperatorStop, LoopsTypeOK
  <1>5. LoopsTypeOK'
    BY <1>2, <1>3, <1>4 DEF LoopsTypeOK
  <1>6. loops'[l] = row /\ \A k \in Loops \ {l} : loops'[k] = loops[k]
    BY <1>2 DEF LoopsTypeOK
  <1>7. ASSUME NEW k \in Loops PROVE SameCounts(k)
    BY <1>2, <1>3, <1>6 DEF SameCounts
  <1>8. QED
    BY <1>2, <1>5, <1>7, OutsideKeepsCounts

LEMMA NextKeepsCounts == CountInv /\ [Next]_loopVars => CountInv'
  <1> SUFFICES ASSUME CountInv, [Next]_loopVars PROVE CountInv'
    OBVIOUS
  <1>1. CASE UNCHANGED loopVars
    BY <1>1, UnchangedIsSame, OutsideKeepsCounts DEF loopVars, CountInv, LoopsTypeOK
  <1>2. ASSUME NEW s \in Services, NEW l \in Loops, Begin(s, l),
               UNCHANGED <<now, stops, loopCrashes>>
        PROVE  CountInv'
    BY <1>2, BeginKeepsCounts
  <1>3. ASSUME NEW s \in Services, ServiceStep(s), UNCHANGED <<now, stops, loopCrashes>>
        PROVE  CountInv'
    BY <1>3, AcquireKeepsCounts, HeartbeatKeepsCounts, PollKeepsCounts, ExecuteKeepsCounts,
       AppendKeepsCounts, StopKeepsCounts DEF ServiceStep
  <1>4. ASSUME NEW s \in Services, Crash(s) PROVE CountInv'
    <2>1. loopCrashes' \in 0..MaxLoopCrashes
      BY <1>4, WorkerLoopAssumption DEF Crash, CountInv, LoopsTypeOK
    <2>2. QED
      BY <1>4, <2>1, UnchangedIsSame, LeavingKeepsCounts DEF Crash, CountInv, LoopsTypeOK
  <1>5. CASE OperatorStop
    BY <1>5, OperatorStopKeepsCounts
  <1>6. CASE Tick
    <2>1. LoopsTypeOK'
      BY <1>6 DEF Tick, CountInv, LoopsTypeOK
    <2>2. QED
      BY <1>6, <2>1, UnchangedIsSame, OutsideKeepsCounts DEF Tick
  <1>7. QED
    BY <1>1, <1>2, <1>3, <1>4, <1>5, <1>6 DEF Next

(* Rows, services and counters of the worker loops keep their types.       *)
THEOREM LoopsTypes == Spec => []LoopsTypeOK
  <1>1. CountInv => LoopsTypeOK
    BY DEF CountInv
  <1>2. QED
    BY <1>1, InitCounts, NextKeepsCounts, PTL DEF Spec

(* append_worker_loop_iteration numbers the iterations of a loop without a *)
(* gap and counts them in its row, for any services, stops and crashes.    *)
THEOREM IterationsCounted == Spec => []IterationsAreCounted
  <1>1. CountInv => IterationsAreCounted
    BY DEF CountInv, Counted, RowFits, IterationsAreCounted
  <1>2. QED
    BY <1>1, InitCounts, NextKeepsCounts, PTL DEF Spec

(* WorkerLoopService.run never goes past a limit of its policy by an item. *)
THEOREM LoopsKeepPolicy == Spec => []LoopBudget
  <1>1. CountInv => LoopBudget
    BY DEF CountInv, Counted, RowFits, LoopBudget
  <1>2. QED
    BY <1>1, InitCounts, NextKeepsCounts, PTL DEF Spec

=============================================================================
