------------------------- MODULE MatchmakingProofs -------------------------
(***************************************************************************)
(* Proofs about Matchmaking, for any numbers of tickets, matchmakers and   *)
(* Cancel calls, any group size and any set of faults: first that no       *)
(* ticket is matched twice, then the order of a ticket's events, the       *)
(* refinement of TicketQueue, what a Matched event and the metric mean,    *)
(* and, when no command is lost, that no ticket is forgotten.              *)
(***************************************************************************)
EXTENDS Matchmaking, FiniteSetTheorems, TLAPS

\* Every event the code publishes is an event, and all but Queued are terminal.
LEMMA EventTypes ==
    /\ Queued \in Events
    /\ \A r \in {"cancelled", "allocator_failed", "internal"} : FailedFor(r) \in TerminalEvents
    /\ \A m \in Matches : Matched(m) \in TerminalEvents
    /\ TerminalEvents \subseteq Events
  BY DEF Queued, FailedFor, Matched, TerminalEvents, Events, Failed

\* A caller that is at a command of publish is in a call, with a ticket and an event.
LEMMA CallFields ==
    ASSUME TypeOK, NEW p \in Callers, call[p].step \in Steps
    PROVE  /\ call[p] \in [step : Steps, ticket : Tickets, event : TerminalEvents]
           /\ call[p].ticket \in Tickets
           /\ call[p].event \in Events
  <1>1. call[p] \in Calls
    BY DEF TypeOK
  <1>2. call[p] # NoCall
    BY DEF NoCall, Steps
  <1>3. call[p] \in [step : Steps, ticket : Tickets, event : TerminalEvents]
    BY <1>1, <1>2 DEF Calls
  <1> QED
    BY <1>3, EventTypes

\* Moving a call to its next command keeps it a call.
LEMMA GotoType ==
    ASSUME TypeOK, NEW p \in Callers, call[p].step \in Steps, NEW s \in Steps, Goto(p, s)
    PROVE  call' \in [Callers -> Calls]
  <1>1. call[p] \in [step : Steps, ticket : Tickets, event : TerminalEvents]
    BY CallFields
  <1>2. [call[p] EXCEPT !.step = s] \in Calls
    BY <1>1 DEF Calls
  <1>3. call' = [call EXCEPT ![p] = [call[p] EXCEPT !.step = s]]
    BY DEF Goto
  <1> QED
    BY <1>2, <1>3 DEF TypeOK

\* Returning from a call keeps the calls and the cancelled tickets typed.
LEMMA ReturnType ==
    ASSUME TypeOK, NEW p \in Callers, call[p].step \in Steps, NEW ok \in BOOLEAN, Return(p, ok)
    PROVE  call' \in [Callers -> Calls] /\ cancelOK' \in SUBSET Tickets
  <1>1. call[p].ticket \in Tickets
    BY CallFields
  <1>2. call' \in [Callers -> Calls]
    BY DEF Return, TypeOK, Calls
  <1>3. cancelOK' \in SUBSET Tickets
    BY <1>1 DEF Return, TypeOK
  <1> QED
    BY <1>2, <1>3

\* A call that fails at one of its commands returns, and keeps the types.
LEMMA CallFailsType ==
    ASSUME TypeOK, NEW p \in Callers, call[p].step \in Steps, CallFails(p)
    PROVE  call' \in [Callers -> Calls] /\ cancelOK' \in SUBSET Tickets
  BY ReturnType DEF CallFails

\* A rejected request and each command of Enqueue keep the types.
LEMMA EnqueueType ==
    ASSUME TypeOK, NEW t \in Tickets, CreateTicket(t)
    PROVE  TypeOK'
  <1> DEFINE EnqStates == {"new", "setEvent", "xadd", "zadd", "ok", "err"}
  <1>1. CASE EnqueueSetTicket(t)
    <2>1. ticket' \in [Tickets -> {"absent", "live", "expired"}]
      BY <1>1 DEF EnqueueSetTicket, TypeOK
    <2>2. enq' \in [Tickets -> EnqStates]
      <3>1. PICK e \in {"setEvent", "err"} : enq' = [enq EXCEPT ![t] = e]
        BY <1>1 DEF EnqueueSetTicket
      <3> QED
        BY <3>1 DEF TypeOK
    <2> QED
      BY <1>1, <2>1, <2>2 DEF EnqueueSetTicket, TypeOK, workerVars
  <1>2. CASE EnqueueSetEvent(t)
    <2>1. snapshot' \in [Tickets -> Events \cup {NoEvent}]
      BY <1>2, EventTypes DEF EnqueueSetEvent, TypeOK
    <2>2. enq' \in [Tickets -> EnqStates]
      <3>1. PICK e \in {"xadd", "err"} : enq' = [enq EXCEPT ![t] = e]
        BY <1>2 DEF EnqueueSetEvent
      <3> QED
        BY <3>1 DEF TypeOK
    <2> QED
      BY <1>2, <2>1, <2>2 DEF EnqueueSetEvent, TypeOK, workerVars
  <1>3. CASE EnqueueXAdd(t)
    <2>1. Append(stream[t], Queued) \in Seq(Events)
      BY EventTypes DEF TypeOK
    <2>2. stream' \in [Tickets -> Seq(Events)]
      BY <1>3, <2>1 DEF EnqueueXAdd, TypeOK
    <2>3. enq' \in [Tickets -> EnqStates]
      <3>1. PICK e \in {"zadd", "err"} : enq' = [enq EXCEPT ![t] = e]
        BY <1>3 DEF EnqueueXAdd
      <3> QED
        BY <3>1 DEF TypeOK
    <2> QED
      BY <1>3, <2>2, <2>3 DEF EnqueueXAdd, TypeOK, workerVars
  <1>4. CASE EnqueueZAdd(t)
    <2>1. pending' \in SUBSET Tickets
      BY <1>4 DEF EnqueueZAdd, TypeOK
    <2>2. enq' \in [Tickets -> EnqStates]
      <3>1. PICK e \in {"ok", "err"} : enq' = [enq EXCEPT ![t] = e]
        BY <1>4 DEF EnqueueZAdd
      <3> QED
        BY <3>1 DEF TypeOK
    <2> QED
      BY <1>4, <2>1, <2>2 DEF EnqueueZAdd, TypeOK, workerVars
  <1>5. CASE RejectTicket(t)
    <2>1. enq' \in [Tickets -> EnqStates]
      BY <1>5 DEF RejectTicket, TypeOK
    <2> QED
      BY <1>5, <2>1 DEF RejectTicket, TypeOK, queueVars, workerVars
  <1> QED
    BY <1>1, <1>2, <1>3, <1>4, <1>5 DEF CreateTicket, Enqueue

\* Each command of publish keeps the types.
LEMMA PublishType ==
    ASSUME TypeOK, NEW p \in Callers, Publish(p)
    PROVE  TypeOK'
  <1>1. CASE PublishGetTicket(p)
    <2>1. call[p].step \in Steps
      BY <1>1 DEF PublishGetTicket, Steps
    <2>2. call' \in [Callers -> Calls] /\ cancelOK' \in SUBSET Tickets
      <3>1. CASE Goto(p, "setEvent") /\ UNCHANGED cancelOK
        BY <2>1, <3>1, GotoType DEF Steps, TypeOK
      <3>2. CASE Return(p, FALSE)
        BY <2>1, <3>2, ReturnType
      <3>3. CASE CallFails(p)
        BY <2>1, <3>3, CallFailsType
      <3> QED
        BY <1>1, <3>1, <3>2, <3>3 DEF PublishGetTicket
    <2> QED
      BY <1>1, <2>2 DEF PublishGetTicket, TypeOK, queueVars, workerVars
  <1>2. CASE setEvent(p)
    <2>1. call[p].step \in Steps
      BY <1>2 DEF setEvent, Steps
    <2>2. call' \in [Callers -> Calls] /\ cancelOK' \in SUBSET Tickets
      <3>1. CASE Goto(p, "zrem") /\ UNCHANGED cancelOK
        BY <2>1, <3>1, GotoType DEF Steps, TypeOK
      <3>2. CASE CallFails(p)
        BY <2>1, <3>2, CallFailsType
      <3> QED
        BY <1>2, <3>1, <3>2 DEF setEvent
    <2>3. call[p].ticket \in Tickets /\ call[p].event \in Events
      BY <2>1, CallFields
    <2>4. snapshot' \in [Tickets -> Events \cup {NoEvent}]
      BY <1>2, <2>3 DEF setEvent, TypeOK
    <2> QED
      BY <1>2, <2>2, <2>4 DEF setEvent, TypeOK, workerVars
  <1>3. CASE zremPending(p)
    <2>1. call[p].step \in Steps
      BY <1>3 DEF zremPending, Steps
    <2>2. call' \in [Callers -> Calls] /\ cancelOK' \in SUBSET Tickets
      <3>1. CASE Goto(p, "xadd") /\ UNCHANGED cancelOK
        BY <2>1, <3>1, GotoType DEF Steps, TypeOK
      <3>2. CASE CallFails(p)
        BY <2>1, <3>2, CallFailsType
      <3> QED
        BY <1>3, <3>1, <3>2 DEF zremPending
    <2>3. pending' \in SUBSET Tickets
      BY <1>3 DEF zremPending, TypeOK
    <2> QED
      BY <1>3, <2>2, <2>3 DEF zremPending, TypeOK, workerVars
  <1>4. CASE xaddEvent(p)
    <2>1. call[p].step \in Steps
      BY <1>4 DEF xaddEvent, Steps
    <2>2. call' \in [Callers -> Calls] /\ cancelOK' \in SUBSET Tickets
      <3>1. CASE Return(p, TRUE)
        BY <2>1, <3>1, ReturnType
      <3>2. CASE CallFails(p)
        BY <2>1, <3>2, CallFailsType
      <3> QED
        BY <1>4, <3>1, <3>2 DEF xaddEvent
    <2>3. call[p].ticket \in Tickets /\ call[p].event \in Events
      BY <2>1, CallFields
    <2>4. Append(stream[call[p].ticket], call[p].event) \in Seq(Events)
      BY <2>3 DEF TypeOK
    <2>5. stream' \in [Tickets -> Seq(Events)]
      BY <1>4, <2>3, <2>4 DEF xaddEvent, TypeOK
    <2> QED
      BY <1>4, <2>2, <2>5 DEF xaddEvent, TypeOK, workerVars
  <1> QED
    BY <1>1, <1>2, <1>3, <1>4 DEF Publish

\* Each command of Cancel keeps the types.
LEMMA CancelType ==
    ASSUME TypeOK, NEW c \in Cancellers, Cancel(c)
    PROVE  TypeOK'
  <1> c \in Callers
    BY DEF Callers
  <1>1. ASSUME NEW t \in Tickets, CancelTicket(c, t)
        PROVE  TypeOK'
    <2>1. Call("cancelGetTicket", t, FailedFor("cancelled")) \in Calls
      BY EventTypes DEF Call, Calls, Steps
    <2>2. call' \in [Callers -> Calls]
      BY <1>1, <2>1 DEF CancelTicket, TypeOK
    <2> QED
      BY <1>1, <2>2 DEF CancelTicket, TypeOK, queueVars, workerVars
  <1>2. CASE CancelGetTicket(c)
    <2>1. call[c].step \in Steps
      BY <1>2 DEF CancelGetTicket, Steps
    <2>2. call' \in [Callers -> Calls] /\ cancelOK' \in SUBSET Tickets
      <3>1. CASE Goto(c, "latestEvent") /\ UNCHANGED cancelOK
        BY <2>1, <3>1, GotoType DEF Steps, TypeOK
      <3>2. CASE Return(c, FALSE)
        BY <2>1, <3>2, ReturnType
      <3>3. CASE CallFails(c)
        BY <2>1, <3>3, CallFailsType
      <3> QED
        BY <1>2, <3>1, <3>2, <3>3 DEF CancelGetTicket
    <2> QED
      BY <1>2, <2>2 DEF CancelGetTicket, TypeOK, queueVars, workerVars
  <1>3. CASE CancelLatestEvent(c)
    <2>1. call[c].step \in Steps
      BY <1>3 DEF CancelLatestEvent, Steps
    <2>2. call' \in [Callers -> Calls] /\ cancelOK' \in SUBSET Tickets
      <3>1. CASE Goto(c, "setEvent") /\ UNCHANGED cancelOK
        BY <2>1, <3>1, GotoType DEF Steps, TypeOK
      <3>2. CASE Return(c, TRUE)
        BY <2>1, <3>2, ReturnType
      <3>3. CASE CallFails(c)
        BY <2>1, <3>3, CallFailsType
      <3> QED
        BY <1>3, <3>1, <3>2, <3>3 DEF CancelLatestEvent
    <2> QED
      BY <1>3, <2>2 DEF CancelLatestEvent, TypeOK, queueVars, workerVars
  <1> QED
    BY <1>1, <1>2, <1>3 DEF Cancel

\* Leaving pair resets the worker's local state.
LEMMA EndPairType ==
    ASSUME TypeOK, NEW w \in Workers, EndPair(w)
    PROVE  /\ pc' \in [Workers -> {"idle", "claim", "allocate", "assign", "notify"}]
           /\ group' \in [Workers -> SUBSET Tickets]
           /\ todo' \in [Workers -> SUBSET Tickets]
           /\ matchID' \in [Workers -> Matches \cup {NoMatch}]
           /\ paired' \in [Workers -> SUBSET Tickets]
  BY DEF EndPair, TypeOK

\* Each step of a matchmaker keeps the types.
LEMMA WorkerType ==
    ASSUME TypeOK, AssignHasMatch, NEW w \in Workers, ReadPending(w) \/ pair(w) \/ Abort(w)
    PROVE  TypeOK' /\ AssignHasMatch'
  <1> w \in Callers
    BY DEF Callers
  <1> DEFINE Pcs == {"idle", "claim", "allocate", "assign", "notify"}
  <1>1. CASE ReadPending(w)
    <2>1. group' \in [Workers -> SUBSET Tickets]
      BY <1>1 DEF ReadPending, TypeOK
    <2>2. pc' \in [Workers -> Pcs]
      BY <1>1 DEF ReadPending, TypeOK
    <2> QED
      BY <1>1, <2>1, <2>2 DEF ReadPending, TypeOK, AssignHasMatch, queueVars
  <1>2. CASE Claim(w)
    <2>1. pending' \in SUBSET Tickets
      BY <1>2 DEF Claim, TypeOK
    <2>2. /\ pc' \in [Workers -> Pcs]
          /\ group' \in [Workers -> SUBSET Tickets]
          /\ todo' \in [Workers -> SUBSET Tickets]
          /\ matchID' \in [Workers -> Matches \cup {NoMatch}]
          /\ paired' \in [Workers -> SUBSET Tickets]
      <3>1. CASE EndPair(w)
        BY <3>1, EndPairType
      <3>2. CASE pc' = [pc EXCEPT ![w] = "allocate"] /\ UNCHANGED <<group, todo, matchID, paired>>
        BY <3>2 DEF TypeOK
      <3> QED
        BY <1>2, <3>1, <3>2 DEF Claim
    <2>3. \A v \in Workers : pc'[v] = "assign" => pc[v] = "assign" /\ matchID'[v] = matchID[v]
      BY <1>2 DEF Claim, EndPair, TypeOK
    <2> QED
      BY <1>2, <2>1, <2>2, <2>3 DEF Claim, TypeOK, AssignHasMatch
  <1>3. CASE Allocate(w)
    <2>1. todo' \in [Workers -> SUBSET Tickets]
      BY <1>3 DEF Allocate, TypeOK
    <2>2. /\ pc' \in [Workers -> Pcs]
          /\ roster' \in [Matches -> SUBSET Tickets]
          /\ matchID' \in [Workers -> Matches \cup {NoMatch}]
          /\ pc'[w] = "assign" => matchID'[w] \in Matches
      <3>1. ASSUME NEW m \in Matches,
                   roster' = [roster EXCEPT ![m] = group[w]],
                   matchID' = [matchID EXCEPT ![w] = m],
                   pc' = [pc EXCEPT ![w] = "assign"]
            PROVE  /\ pc' \in [Workers -> Pcs]
                   /\ roster' \in [Matches -> SUBSET Tickets]
                   /\ matchID' \in [Workers -> Matches \cup {NoMatch}]
                   /\ pc'[w] = "assign" => matchID'[w] \in Matches
        BY <3>1 DEF TypeOK
      <3>2. CASE pc' = [pc EXCEPT ![w] = "notify"] /\ UNCHANGED <<matchID, roster>>
        BY <3>2 DEF TypeOK
      <3> QED
        BY <1>3, <3>1, <3>2 DEF Allocate, Reserve
    <2>3. TypeOK'
      BY <1>3, <2>1, <2>2 DEF Allocate, TypeOK, queueVars
    <2>4. \A v \in Workers \ {w} : pc'[v] = pc[v] /\ matchID'[v] = matchID[v]
      BY <1>3 DEF Allocate, Reserve, TypeOK
    <2> QED
      BY <2>2, <2>3, <2>4 DEF AssignHasMatch
  <1>4. CASE NotifyFailed(w)
    <2>1. PICK t \in todo[w] :
             /\ todo' = [todo EXCEPT ![w] = @ \ {t}]
             /\ call' = [call EXCEPT ![w] = Call("getTicket", t, FailedFor("allocator_failed"))]
      BY <1>4 DEF NotifyFailed
    <2>2. Call("getTicket", t, FailedFor("allocator_failed")) \in Calls
      BY <2>1, EventTypes DEF Call, Calls, Steps, TypeOK
    <2>3. call' \in [Callers -> Calls] /\ todo' \in [Workers -> SUBSET Tickets]
      BY <2>1, <2>2 DEF TypeOK
    <2> QED
      BY <1>4, <2>3 DEF NotifyFailed, TypeOK, AssignHasMatch, queueVars
  <1>5. CASE AssignTicket(w)
    <2>1. matchID[w] \in Matches
      BY <1>5 DEF AssignTicket, AssignHasMatch
    <2>2. PICK t \in todo[w] :
             /\ todo' = [todo EXCEPT ![w] = @ \ {t}]
             /\ \/ call' = [call EXCEPT ![w] = Call("getTicket", t, Matched(matchID[w]))]
                \/ call' = [call EXCEPT ![w] = Call("getTicket", t, FailedFor("internal"))]
             /\ \/ assignments' = assignments
                \/ assignments' = [assignments EXCEPT ![PlayerOf[t]] = matchID[w]]
             /\ \/ paired' = paired
                \/ paired' = [paired EXCEPT ![w] = @ \cup {t}]
      BY <1>5 DEF AssignTicket, Put
    <2>3. t \in Tickets
      BY <2>2 DEF TypeOK
    <2>4. /\ Call("getTicket", t, Matched(matchID[w])) \in Calls
          /\ Call("getTicket", t, FailedFor("internal")) \in Calls
      BY <2>1, <2>3, EventTypes DEF Call, Calls, Steps
    <2>5. call' \in [Callers -> Calls]
      BY <2>2, <2>4 DEF TypeOK
    <2>6. todo' \in [Workers -> SUBSET Tickets] /\ paired' \in [Workers -> SUBSET Tickets]
      <3>1. todo' \in [Workers -> SUBSET Tickets]
        BY <2>2 DEF TypeOK
      <3>2. paired[w] \cup {t} \in SUBSET Tickets
        BY <2>3 DEF TypeOK
      <3>3. paired' \in [Workers -> SUBSET Tickets]
        BY <2>2, <3>2 DEF TypeOK
      <3> QED
        BY <3>1, <3>3
    <2>7. assignments' \in [Players -> Matches \cup {NoMatch}]
      <3>1. PlayerOf[t] \in Players
        BY <2>3, TicketAssumption
      <3> QED
        BY <2>1, <2>2, <3>1 DEF TypeOK
    <2> QED
      BY <1>5, <2>5, <2>6, <2>7 DEF AssignTicket, TypeOK, AssignHasMatch, queueVars
  <1>6. CASE FinishPair(w)
    <2>1. counted' \in SUBSET Matches
      BY <1>6 DEF FinishPair, TypeOK, AssignHasMatch
    <2>2. AssignHasMatch'
      BY <1>6 DEF FinishPair, EndPair, TypeOK, AssignHasMatch
    <2> QED
      BY <1>6, <2>1, <2>2, EndPairType DEF FinishPair, TypeOK, queueVars
  <1>7. CASE Abort(w)
    <2>1. call' \in [Callers -> Calls]
      BY <1>7 DEF Abort, TypeOK, Calls
    <2>2. AssignHasMatch'
      BY <1>7 DEF Abort, EndPair, TypeOK, AssignHasMatch
    <2> QED
      BY <1>7, <2>1, <2>2, EndPairType DEF Abort, TypeOK, queueVars
  <1> QED
    BY <1>1, <1>2, <1>3, <1>4, <1>5, <1>6, <1>7 DEF pair

\* Opening and closing a watch, delivering an event and expiring a ticket keep the types.
LEMMA WatchType ==
    ASSUME TypeOK, NEW t \in Tickets, WatchTicket(t) \/ ExpireTicket(t)
    PROVE  TypeOK'
  <1>1. CASE Subscribe(t)
    <2>1. watch' \in [Tickets -> [pos : Nat, open : BOOLEAN]]
      BY <1>1 DEF Subscribe, TypeOK
    <2> QED
      BY <1>1, <2>1 DEF Subscribe, TypeOK, queueVars, workerVars
  <1>2. CASE Deliver(t)
    <2>1. watch' \in [Tickets -> [pos : Nat, open : BOOLEAN]]
      BY <1>2 DEF Deliver, TypeOK
    <2> QED
      BY <1>2, <2>1 DEF Deliver, TypeOK, queueVars, workerVars
  <1>3. CASE StopWatching(t)
    <2>1. watch' \in [Tickets -> [pos : Nat, open : BOOLEAN]]
      BY <1>3 DEF StopWatching, TypeOK
    <2> QED
      BY <1>3, <2>1 DEF StopWatching, TypeOK, queueVars, workerVars
  <1>4. CASE ExpireTicket(t)
    <2>1. ticket' \in [Tickets -> {"absent", "live", "expired"}]
      BY <1>4 DEF ExpireTicket, TypeOK
    <2> QED
      BY <1>4, <2>1 DEF ExpireTicket, TypeOK, workerVars
  <1> QED
    BY <1>1, <1>2, <1>3, <1>4 DEF WatchTicket

\* The steps of everybody but the matchmakers leave the matchmakers' state alone.
LEMMA OthersLeaveWorkers ==
    /\ \A t \in Tickets : CreateTicket(t) \/ WatchTicket(t) \/ ExpireTicket(t)
                            => UNCHANGED workerVars
    /\ \A c \in Cancellers : Cancel(c) => UNCHANGED workerVars
    /\ \A p \in Callers : Publish(p) => UNCHANGED workerVars
  <1>1. ASSUME NEW t \in Tickets, CreateTicket(t) PROVE UNCHANGED workerVars
    BY <1>1 DEF CreateTicket, RejectTicket, Enqueue, EnqueueSetTicket, EnqueueSetEvent,
           EnqueueXAdd, EnqueueZAdd
  <1>2. ASSUME NEW t \in Tickets, WatchTicket(t) \/ ExpireTicket(t)
        PROVE  UNCHANGED workerVars
    BY <1>2 DEF WatchTicket, Subscribe, Deliver, StopWatching, ExpireTicket
  <1>3. ASSUME NEW c \in Cancellers, Cancel(c) PROVE UNCHANGED workerVars
    BY <1>3 DEF Cancel, CancelTicket, CancelGetTicket, CancelLatestEvent
  <1>4. ASSUME NEW p \in Callers, Publish(p) PROVE UNCHANGED workerVars
    BY <1>4 DEF Publish, PublishGetTicket, setEvent, zremPending, xaddEvent
  <1> QED
    BY <1>1, <1>2, <1>3, <1>4

----------------------------------------------------------------------------
(* Type correctness.  What TypeOK lacks to be inductive is that a          *)
(* matchmaker in its assignment loop has a match id.                       *)

TypeInv == TypeOK /\ AssignHasMatch

\* The type invariant holds in the empty queue.
LEMMA TypeInit == Init => TypeInv
  <1> SUFFICES ASSUME Init PROVE TypeInv
    OBVIOUS
  <1>1. call \in [Callers -> Calls]
    BY DEF Init, Calls
  <1>2. stream \in [Tickets -> Seq(Events)]
    BY DEF Init
  <1>3. AssignHasMatch
    BY DEF Init, AssignHasMatch
  <1> QED
    BY <1>1, <1>2, <1>3 DEF Init, TypeOK, TypeInv

\* Every step of a gateway or a matchmaker keeps the type invariant.
LEMMA TypeStep == TypeInv /\ [Next]_vars => TypeInv'
  <1> SUFFICES ASSUME TypeInv, [Next]_vars PROVE TypeInv'
    OBVIOUS
  <1> USE DEF TypeInv
  <1>0. ASSUME UNCHANGED workerVars PROVE AssignHasMatch'
    BY <1>0 DEF AssignHasMatch, workerVars
  <1>1. ASSUME NEW t \in Tickets, CreateTicket(t) PROVE TypeInv'
    BY <1>0, <1>1, EnqueueType, OthersLeaveWorkers
  <1>2. ASSUME NEW t \in Tickets, WatchTicket(t) \/ ExpireTicket(t) PROVE TypeInv'
    BY <1>0, <1>2, WatchType, OthersLeaveWorkers
  <1>3. ASSUME NEW c \in Cancellers, Cancel(c) PROVE TypeInv'
    BY <1>0, <1>3, CancelType, OthersLeaveWorkers
  <1>4. ASSUME NEW p \in Callers, Publish(p) PROVE TypeInv'
    BY <1>0, <1>4, PublishType, OthersLeaveWorkers
  <1>5. ASSUME NEW w \in Workers, ReadPending(w) \/ pair(w) \/ Abort(w) PROVE TypeInv'
    BY <1>5, WorkerType
  <1>6. CASE UNCHANGED vars
    BY <1>6 DEF vars, queueVars, workerVars, TypeOK, AssignHasMatch
  <1> QED
    BY <1>1, <1>2, <1>3, <1>4, <1>5, <1>6 DEF Next, processMode, Callers

\* Every variable always holds a value of its type: the events in the streams,
\* the calls in progress and the metric only ever name tickets and matches that
\* exist, whatever commands fail.
THEOREM TypeCorrect == Spec => []TypeOK
  <1>1. Spec => []TypeInv
    BY TypeInit, TypeStep, PTL DEF Spec
  <1>2. TypeInv => TypeOK
    BY DEF TypeInv
  <1> QED
    BY <1>1, <1>2, PTL

----------------------------------------------------------------------------
(* No ticket is matched twice.  Custody records where each ticket is: in   *)
(* its Enqueue, in the pool, held by one matchmaker, or on one roster.     *)

SafetyInv == TypeInv /\ Custody /\ NoDoubleMatch

\* A step that leaves the matchmakers alone and puts into the pool at most a
\* ticket that was still being enqueued preserves the custody of every ticket.
LEMMA PoolStep ==
    ASSUME SafetyInv, UNCHANGED workerVars,
           \A t \in pending' : t \in Tickets /\ Settled(t)' /\ (t \in pending \/ ~Settled(t)),
           \A t \in Tickets : Settled(t) => Settled(t)'
    PROVE  Custody' /\ NoDoubleMatch'
  <1>1. \A w \in Workers : Held(w)' = Held(w) /\ Held(w) \subseteq Tickets
    BY DEF Held, workerVars, SafetyInv, TypeInv, TypeOK
  <1>2. \A m \in Matches : roster'[m] = roster[m] /\ roster[m] \subseteq Tickets
    BY DEF workerVars, SafetyInv, TypeInv, TypeOK
  <1>3. \A t \in pending' : Settled(t)'
    OBVIOUS
  <1>4. \A w \in Workers : \A t \in Held(w)' : Settled(t)' /\ t \notin pending'
    BY <1>1 DEF SafetyInv, Custody
  <1>5. \A v, w \in Workers : v # w => Held(v)' \cap Held(w)' = {}
    BY <1>1 DEF SafetyInv, Custody
  <1>6. \A m \in Matches : \A t \in roster'[m] : Settled(t)' /\ t \notin pending'
    BY <1>2 DEF SafetyInv, Custody, NoDoubleMatch
  <1>7. \A w \in Workers : \A m \in Matches :
           pc'[w] = "allocate" => group'[w] \cap roster'[m] = {}
    BY DEF SafetyInv, Custody, workerVars
  <1>8. Custody'
    BY <1>3, <1>4, <1>5, <1>6, <1>7 DEF Custody
  <1>9. NoDoubleMatch'
    BY <1>2, <1>6 DEF SafetyInv, NoDoubleMatch
  <1> QED
    BY <1>8, <1>9

\* Enqueue adds to the pool only a ticket that was never in it, so nobody holds it.
LEMMA EnqueueCustody ==
    ASSUME SafetyInv, NEW t \in Tickets, CreateTicket(t)
    PROVE  Custody' /\ NoDoubleMatch'
  <1>1. UNCHANGED workerVars
    BY OthersLeaveWorkers
  <1>2. \A u \in Tickets : Settled(u) => Settled(u)'
    BY DEF CreateTicket, RejectTicket, Enqueue, EnqueueSetTicket, EnqueueSetEvent,
           EnqueueXAdd, EnqueueZAdd, Settled, SafetyInv, TypeInv, TypeOK
  <1>3. \A u \in pending' : u \in Tickets /\ Settled(u)' /\ (u \in pending \/ ~Settled(u))
    <2>1. CASE EnqueueZAdd(t)
      <3>1. pending' \subseteq pending \cup {t} /\ ~Settled(t) /\ Settled(t)'
        BY <2>1 DEF EnqueueZAdd, Settled, SafetyInv, TypeInv, TypeOK
      <3> QED
        BY <3>1, <1>2 DEF SafetyInv, TypeInv, TypeOK, Custody
    <2>2. CASE pending' = pending
      BY <2>2, <1>2 DEF SafetyInv, TypeInv, TypeOK, Custody
    <2> QED
      BY <2>1, <2>2 DEF CreateTicket, RejectTicket, Enqueue, EnqueueSetTicket, EnqueueSetEvent,
             EnqueueXAdd, queueVars
  <1> QED
    BY <1>1, <1>2, <1>3, PoolStep

\* Publish, Cancel and the watch only ever take tickets out of the pool.
LEMMA OthersCustody ==
    ASSUME SafetyInv, UNCHANGED workerVars, UNCHANGED enq, pending' \subseteq pending
    PROVE  Custody' /\ NoDoubleMatch'
  <1>1. \A t : Settled(t)' = Settled(t)
    BY DEF Settled
  <1>2. \A t \in pending' : t \in Tickets /\ Settled(t)' /\ (t \in pending \/ ~Settled(t))
    BY <1>1 DEF SafetyInv, TypeInv, TypeOK, Custody
  <1> QED
    BY <1>1, <1>2, PoolStep

\* A matchmaker's step that takes no ticket from the pool and allocates nothing
\* can only give up the tickets it holds.
LEMMA ReleaseStep ==
    ASSUME SafetyInv, NEW w \in Workers, UNCHANGED <<enq, roster>>, pending' \subseteq pending,
           \A v \in Workers \ {w} : pc'[v] = pc[v] /\ group'[v] = group[v],
           Held(w)' \subseteq Held(w), pc'[w] # "allocate"
    PROVE  Custody' /\ NoDoubleMatch'
  <1>1. \A v \in Workers : Held(v)' \subseteq Held(v)
    BY DEF Held
  <1>2. \A t : Settled(t)' = Settled(t)
    BY DEF Settled
  <1>3. \A v \in Workers : \A m \in Matches :
           pc'[v] = "allocate" => group'[v] \cap roster'[m] = {}
    BY DEF SafetyInv, Custody
  <1>4. Custody'
    BY <1>1, <1>2, <1>3 DEF SafetyInv, Custody
  <1>5. NoDoubleMatch'
    BY DEF SafetyInv, NoDoubleMatch
  <1> QED
    BY <1>4, <1>5

\* The claim moves the group, whole, from the pool to one matchmaker.
LEMMA ClaimCustody ==
    ASSUME SafetyInv, NEW w \in Workers, Claim(w)
    PROVE  Custody' /\ NoDoubleMatch'
  <1>1. CASE /\ group[w] \subseteq pending
             /\ pending' = pending \ group[w]
             /\ pc' = [pc EXCEPT ![w] = "allocate"]
             /\ UNCHANGED <<group, enq, roster>>
    <2>1. Held(w)' = group[w]
      BY <1>1 DEF Held, SafetyInv, TypeInv, TypeOK
    <2>2. \A v \in Workers \ {w} : Held(v)' = Held(v) /\ pc'[v] = pc[v]
      BY <1>1 DEF Held, SafetyInv, TypeInv, TypeOK
    <2>3. \A t : Settled(t)' = Settled(t)
      BY <1>1 DEF Settled
    <2>4. \A v \in Workers : \A t \in Held(v)' : Settled(t)' /\ t \notin pending'
      BY <1>1, <2>1, <2>2, <2>3 DEF SafetyInv, Custody
    <2>5. \A u, v \in Workers : u # v => Held(u)' \cap Held(v)' = {}
      BY <1>1, <2>1, <2>2 DEF SafetyInv, Custody
    <2>6. \A v \in Workers : \A m \in Matches :
             pc'[v] = "allocate" => group'[v] \cap roster'[m] = {}
      BY <1>1, <2>2 DEF SafetyInv, Custody, NoDoubleMatch
    <2>7. Custody'
      BY <1>1, <2>3, <2>4, <2>5, <2>6 DEF SafetyInv, Custody
    <2>8. NoDoubleMatch'
      BY <1>1 DEF SafetyInv, NoDoubleMatch
    <2> QED
      BY <2>7, <2>8
  <1>2. CASE EndPair(w) /\ pending' \subseteq pending /\ UNCHANGED <<enq, roster>>
    <2>1. Held(w)' = {} /\ pc'[w] # "allocate"
      BY <1>2 DEF EndPair, Held, SafetyInv, TypeInv, TypeOK
    <2>2. \A v \in Workers \ {w} : pc'[v] = pc[v] /\ group'[v] = group[v]
      BY <1>2 DEF EndPair, SafetyInv, TypeInv, TypeOK
    <2> QED
      BY <1>2, <2>1, <2>2, ReleaseStep
  <1> QED
    BY <1>1, <1>2 DEF Claim

\* An allocation makes one roster of the tickets one matchmaker holds.
LEMMA AllocateCustody ==
    ASSUME SafetyInv, NEW w \in Workers, Allocate(w)
    PROVE  Custody' /\ NoDoubleMatch'
  <1>0. /\ pc[w] = "allocate"
        /\ Held(w) = group[w]
        /\ UNCHANGED <<enq, pending, group>>
    BY DEF Allocate, Held, queueVars
  <1>1. \A t : Settled(t)' = Settled(t)
    BY <1>0 DEF Settled
  <1>2. ASSUME NEW m \in Matches, roster[m] = {},
               roster' = [roster EXCEPT ![m] = group[w]],
               pc' = [pc EXCEPT ![w] = "assign"]
        PROVE  Custody' /\ NoDoubleMatch'
    <2>1. \A v \in Workers : Held(v)' = Held(v)
      BY <1>0, <1>2 DEF Held, SafetyInv, TypeInv, TypeOK
    <2>2. \A n \in Matches : roster'[n] = IF n = m THEN group[w] ELSE roster[n]
      BY <1>2 DEF SafetyInv, TypeInv, TypeOK
    <2>3. \A n \in Matches : \A t \in roster'[n] : Settled(t)' /\ t \notin pending'
      BY <1>0, <1>1, <2>2 DEF SafetyInv, Custody, NoDoubleMatch
    <2>4. \A v \in Workers : \A n \in Matches :
             pc'[v] = "allocate" => group'[v] \cap roster'[n] = {}
      <3> SUFFICES ASSUME NEW v \in Workers, NEW n \in Matches, pc'[v] = "allocate"
                   PROVE  group[v] \cap roster'[n] = {}
        BY <1>0
      <3>1. v # w /\ pc[v] = "allocate"
        BY <1>2 DEF SafetyInv, TypeInv, TypeOK
      <3>2. group[v] \cap group[w] = {}
        BY <1>0, <3>1 DEF SafetyInv, Custody, Held
      <3> QED
        BY <2>2, <3>1, <3>2 DEF SafetyInv, Custody
    <2>5. Custody'
      BY <1>0, <1>1, <2>1, <2>3, <2>4 DEF SafetyInv, Custody
    <2>6. \A n, k \in Matches : n # k => roster'[n] \cap roster'[k] = {}
      BY <1>0, <2>2 DEF SafetyInv, Custody, NoDoubleMatch
    <2>7. NoDoubleMatch'
      BY <2>3, <2>6 DEF NoDoubleMatch
    <2> QED
      BY <2>5, <2>7
  <1>3. CASE pc' = [pc EXCEPT ![w] = "notify"] /\ UNCHANGED roster
    <2>1. Held(w)' = Held(w) /\ pc'[w] # "allocate"
      BY <1>0, <1>3 DEF Held, SafetyInv, TypeInv, TypeOK
    <2>2. \A v \in Workers \ {w} : pc'[v] = pc[v] /\ group'[v] = group[v]
      BY <1>0, <1>3 DEF SafetyInv, TypeInv, TypeOK
    <2> QED
      BY <1>0, <1>3, <2>1, <2>2, ReleaseStep
  <1> QED
    BY <1>2, <1>3 DEF Allocate, Reserve

\* The remaining steps of a matchmaker hold what they held, or let go of it.
LEMMA WorkerCustody ==
    ASSUME SafetyInv, NEW w \in Workers, ReadPending(w) \/ pair(w) \/ Abort(w)
    PROVE  Custody' /\ NoDoubleMatch'
  <1>1. CASE ReadPending(w)
    <2>1. Held(w)' = {} /\ pc'[w] # "allocate"
      BY <1>1 DEF ReadPending, Held, SafetyInv, TypeInv, TypeOK
    <2>2. \A v \in Workers \ {w} : pc'[v] = pc[v] /\ group'[v] = group[v]
      BY <1>1 DEF ReadPending, SafetyInv, TypeInv, TypeOK
    <2>3. UNCHANGED <<enq, roster>> /\ pending' = pending
      BY <1>1 DEF ReadPending, queueVars
    <2> QED
      BY <2>1, <2>2, <2>3, ReleaseStep
  <1>2. CASE NotifyFailed(w) \/ AssignTicket(w)
    <2>1. UNCHANGED <<pc, group, enq, roster>> /\ pending' = pending /\ pc[w] # "allocate"
      BY <1>2 DEF NotifyFailed, AssignTicket, queueVars
    <2>2. Held(w)' = Held(w)
      BY <2>1 DEF Held
    <2> QED
      BY <2>1, <2>2, ReleaseStep
  <1>3. CASE FinishPair(w) \/ Abort(w)
    <2>1. EndPair(w) /\ UNCHANGED <<enq, roster>> /\ pending' = pending
      BY <1>3 DEF FinishPair, Abort, queueVars
    <2>2. Held(w)' = {} /\ pc'[w] # "allocate"
      BY <2>1 DEF EndPair, Held, SafetyInv, TypeInv, TypeOK
    <2>3. \A v \in Workers \ {w} : pc'[v] = pc[v] /\ group'[v] = group[v]
      BY <2>1 DEF EndPair, SafetyInv, TypeInv, TypeOK
    <2> QED
      BY <2>1, <2>2, <2>3, ReleaseStep
  <1> QED
    BY <1>1, <1>2, <1>3, ClaimCustody, AllocateCustody DEF pair

\* Every step keeps each ticket in one place: the pool, one matchmaker, or one match.
LEMMA SafetyStep == SafetyInv /\ [Next]_vars => SafetyInv'
  <1> SUFFICES ASSUME SafetyInv, [Next]_vars PROVE Custody' /\ NoDoubleMatch'
    BY TypeStep DEF SafetyInv
  <1>1. ASSUME NEW t \in Tickets, CreateTicket(t) PROVE Custody' /\ NoDoubleMatch'
    BY <1>1, EnqueueCustody
  <1>2. ASSUME NEW t \in Tickets, WatchTicket(t) \/ ExpireTicket(t)
        PROVE  Custody' /\ NoDoubleMatch'
    <2>1. UNCHANGED enq /\ pending' = pending
      BY <1>2 DEF WatchTicket, Subscribe, Deliver, StopWatching, ExpireTicket, queueVars
    <2> QED
      BY <1>2, <2>1, OthersLeaveWorkers, OthersCustody
  <1>3. ASSUME NEW c \in Cancellers, Cancel(c) PROVE Custody' /\ NoDoubleMatch'
    <2>1. UNCHANGED enq /\ pending' = pending
      BY <1>3 DEF Cancel, CancelTicket, CancelGetTicket, CancelLatestEvent, queueVars
    <2> QED
      BY <1>3, <2>1, OthersLeaveWorkers, OthersCustody
  <1>4. ASSUME NEW p \in Callers, Publish(p) PROVE Custody' /\ NoDoubleMatch'
    <2>1. UNCHANGED enq /\ pending' \subseteq pending
      BY <1>4 DEF Publish, PublishGetTicket, setEvent, zremPending, xaddEvent, queueVars
    <2> QED
      BY <1>4, <2>1, OthersLeaveWorkers, OthersCustody
  <1>5. ASSUME NEW w \in Workers, ReadPending(w) \/ pair(w) \/ Abort(w)
        PROVE  Custody' /\ NoDoubleMatch'
    BY <1>5, WorkerCustody
  <1>6. CASE UNCHANGED vars
    BY <1>6, OthersCustody DEF vars, queueVars
  <1> QED
    BY <1>1, <1>2, <1>3, <1>4, <1>5, <1>6 DEF Next, processMode, Callers

\* However many matchmakers run at the same time, with whatever stale view of
\* the pool, and whichever of their calls fail or crash, no ticket is part of
\* two matches and no ticket of a match is in the pool.
THEOREM NoDoubleMatchHolds == Spec => []NoDoubleMatch
  <1>1. Init => SafetyInv
    <2> SUFFICES ASSUME Init PROVE Custody /\ NoDoubleMatch
      BY TypeInit DEF SafetyInv
    <2>1. \A w \in Workers : Held(w) = {} /\ pc[w] = "idle"
      BY DEF Init, Held
    <2>2. \A m \in Matches : roster[m] = {}
      BY DEF Init
    <2> QED
      BY <2>1, <2>2 DEF Init, Custody, NoDoubleMatch
  <1>2. SafetyInv => NoDoubleMatch
    BY DEF SafetyInv
  <1> QED
    BY <1>1, <1>2, SafetyStep, PTL DEF Spec

----------------------------------------------------------------------------
(* What a ticket in the pool, with a matchmaker or in a call has behind it. *)

\* Enqueue has returned and its Queued event is in the stream.
Announced(t) == Settled(t) /\ stream[t] # <<>>

\* Until its XADD a ticket's stream is empty, and after it never again; only
\* announced tickets are offered, held, published to or known to the client.
Announcement ==
    /\ \A t \in Tickets : enq[t] \in {"new", "setEvent", "xadd"} => stream[t] = <<>>
    /\ \A t \in Tickets : enq[t] \in {"zadd", "ok"} => stream[t] # <<>>
    /\ \A t \in pending : Announced(t)
    /\ \A w \in Workers : \A t \in Held(w) : Announced(t)
    /\ \A p \in Callers : call[p] # NoCall => Announced(call[p].ticket)

\* The loop of pair works through the group it claimed.
LoopInGroup == \A w \in Workers : pc[w] \in {"assign", "notify"} => todo[w] \subseteq group[w]

\* publish takes the ticket out of the pool before it appends to the stream.
RemovedFirst == \A p \in Callers : call[p].step = "xadd" => call[p].ticket \notin pending

QueueInv == SafetyInv /\ LoopInGroup /\ Announcement /\ RemovedFirst /\ QueuedFirst

----------------------------------------------------------------------------
(* What any step may do to one piece of the state.                         *)

\* A ticket's Enqueue goes through its commands in order and ends once.
LEMMA EnqStep ==
    ASSUME TypeInv, [Next]_vars, NEW t \in Tickets
    PROVE  \/ enq'[t] = enq[t]
           \/ enq[t] = "new" /\ enq'[t] \in {"setEvent", "err"}
           \/ enq[t] = "setEvent" /\ enq'[t] \in {"xadd", "err"}
           \/ enq[t] = "xadd" /\ enq'[t] \in {"zadd", "err"}
           \/ enq[t] = "zadd" /\ enq'[t] \in {"ok", "err"}
  <1>1. ASSUME NEW u \in Tickets, CreateTicket(u)
        PROVE  \/ UNCHANGED enq
               \/ enq[u] = "new" /\ \E e \in {"setEvent", "err"} : enq' = [enq EXCEPT ![u] = e]
               \/ enq[u] = "setEvent" /\ \E e \in {"xadd", "err"} : enq' = [enq EXCEPT ![u] = e]
               \/ enq[u] = "xadd" /\ \E e \in {"zadd", "err"} : enq' = [enq EXCEPT ![u] = e]
               \/ enq[u] = "zadd" /\ \E e \in {"ok", "err"} : enq' = [enq EXCEPT ![u] = e]
    BY <1>1 DEF CreateTicket, RejectTicket, Enqueue, EnqueueSetTicket, EnqueueSetEvent,
           EnqueueXAdd, EnqueueZAdd
  <1>2. ASSUME NEW u \in Tickets, WatchTicket(u) \/ ExpireTicket(u) PROVE UNCHANGED enq
    BY <1>2 DEF WatchTicket, Subscribe, Deliver, StopWatching, ExpireTicket
  <1>3. ASSUME NEW c \in Cancellers, Cancel(c) PROVE UNCHANGED enq
    BY <1>3 DEF Cancel, CancelTicket, CancelGetTicket, CancelLatestEvent
  <1>4. ASSUME NEW p \in Callers, Publish(p) PROVE UNCHANGED enq
    BY <1>4 DEF Publish, PublishGetTicket, setEvent, zremPending, xaddEvent
  <1>5. ASSUME NEW w \in Workers, ReadPending(w) \/ pair(w) \/ Abort(w) PROVE UNCHANGED enq
    BY <1>5 DEF ReadPending, pair, Claim, Allocate, NotifyFailed, AssignTicket, FinishPair, Abort
  <1>6. CASE UNCHANGED vars
    BY <1>6 DEF vars
  <1> QED
    BY <1>1, <1>2, <1>3, <1>4, <1>5, <1>6 DEF Next, processMode, Callers, TypeInv, TypeOK

\* A stream grows only by Enqueue's Queued or by the event of a call at its XADD.
LEMMA StreamStep ==
    ASSUME TypeInv, [Next]_vars, NEW t \in Tickets
    PROVE  \/ stream'[t] = stream[t] /\ (enq[t] = "xadd" => enq'[t] \in {"xadd", "err"})
           \/ /\ enq[t] = "xadd"
              /\ enq'[t] \in {"zadd", "err"}
              /\ stream'[t] = Append(stream[t], Queued)
           \/ \E p \in Callers :
                 /\ call[p].step = "xadd"
                 /\ call[p].ticket = t
                 /\ enq'[t] = enq[t]
                 /\ stream'[t] = Append(stream[t], call[p].event)
  <1>0. CASE UNCHANGED <<stream, enq>>
    BY <1>0 DEF TypeInv, TypeOK
  <1>1. ASSUME NEW u \in Tickets, CreateTicket(u)
        PROVE  \/ stream'[t] = stream[t] /\ (enq[t] = "xadd" => enq'[t] \in {"xadd", "err"})
               \/ /\ enq[t] = "xadd"
                  /\ enq'[t] \in {"zadd", "err"}
                  /\ stream'[t] = Append(stream[t], Queued)
    <2>1. CASE EnqueueXAdd(u)
      BY <2>1 DEF EnqueueXAdd, TypeInv, TypeOK
    <2>2. CASE UNCHANGED stream /\ enq[u] # "xadd" /\ \E e : enq' = [enq EXCEPT ![u] = e]
      BY <2>2 DEF TypeInv, TypeOK
    <2> QED
      BY <1>1, <2>1, <2>2 DEF CreateTicket, RejectTicket, Enqueue, EnqueueSetTicket,
             EnqueueSetEvent, EnqueueZAdd, queueVars
  <1>2. ASSUME NEW u \in Tickets, WatchTicket(u) \/ ExpireTicket(u)
        PROVE  UNCHANGED <<stream, enq>>
    BY <1>2 DEF WatchTicket, Subscribe, Deliver, StopWatching, ExpireTicket, queueVars
  <1>3. ASSUME NEW c \in Cancellers, Cancel(c) PROVE UNCHANGED <<stream, enq>>
    BY <1>3 DEF Cancel, CancelTicket, CancelGetTicket, CancelLatestEvent, queueVars
  <1>4. ASSUME NEW p \in Callers, Publish(p)
        PROVE  \/ UNCHANGED <<stream, enq>>
               \/ /\ call[p].step = "xadd"
                  /\ UNCHANGED enq
                  /\ stream' = [stream EXCEPT ![call[p].ticket] = Append(@, call[p].event)]
    BY <1>4 DEF Publish, PublishGetTicket, setEvent, zremPending, xaddEvent, queueVars
  <1>5. ASSUME NEW w \in Workers, ReadPending(w) \/ pair(w) \/ Abort(w)
        PROVE  UNCHANGED <<stream, enq>>
    BY <1>5 DEF ReadPending, pair, Claim, Allocate, NotifyFailed, AssignTicket, FinishPair,
           Abort, queueVars
  <1>6. CASE UNCHANGED vars
    BY <1>0, <1>6 DEF vars, queueVars
  <1>7. ASSUME NEW p \in Callers, call[p].step = "xadd", UNCHANGED enq,
               stream' = [stream EXCEPT ![call[p].ticket] = Append(@, call[p].event)]
        PROVE  \/ stream'[t] = stream[t] /\ enq'[t] = enq[t]
               \/ /\ call[p].ticket = t
                  /\ enq'[t] = enq[t]
                  /\ stream'[t] = Append(stream[t], call[p].event)
    BY <1>7 DEF TypeInv, TypeOK
  <1> QED
    BY <1>0, <1>1, <1>2, <1>3, <1>4, <1>5, <1>6, <1>7 DEF Next, processMode, Callers

\* A ticket comes into the pool only by the last command of its Enqueue.
LEMMA PendingStep ==
    ASSUME TypeInv, [Next]_vars, NEW t \in pending', t \notin pending
    PROVE  t \in Tickets /\ enq[t] = "zadd" /\ Settled(t)'
  <1>1. ASSUME NEW u \in Tickets, CreateTicket(u)
        PROVE  t = u /\ enq[u] = "zadd" /\ enq'[u] \in {"ok", "err"}
    BY <1>1 DEF CreateTicket, RejectTicket, Enqueue, EnqueueSetTicket, EnqueueSetEvent,
           EnqueueXAdd, EnqueueZAdd, queueVars, TypeInv, TypeOK
  <1>2. ASSUME NEW u \in Tickets, WatchTicket(u) \/ ExpireTicket(u) PROVE FALSE
    BY <1>2 DEF WatchTicket, Subscribe, Deliver, StopWatching, ExpireTicket, queueVars
  <1>3. ASSUME NEW c \in Cancellers, Cancel(c) PROVE FALSE
    BY <1>3 DEF Cancel, CancelTicket, CancelGetTicket, CancelLatestEvent, queueVars
  <1>4. ASSUME NEW p \in Callers, Publish(p) PROVE FALSE
    BY <1>4 DEF Publish, PublishGetTicket, setEvent, zremPending, xaddEvent, queueVars
  <1>5. ASSUME NEW w \in Workers, ReadPending(w) \/ pair(w) \/ Abort(w) PROVE FALSE
    BY <1>5 DEF ReadPending, pair, Claim, Allocate, NotifyFailed, AssignTicket, FinishPair,
           Abort, queueVars
  <1>6. CASE UNCHANGED vars
    BY <1>6 DEF vars, queueVars
  <1> QED
    BY <1>1, <1>2, <1>3, <1>4, <1>5, <1>6 DEF Next, processMode, Callers, Settled

\* What a matchmaker holds it held before, or has just claimed from the pool; a
\* loop that starts has its whole group to do, and one that goes on has less.
LEMMA HeldStep ==
    ASSUME TypeInv, [Next]_vars, NEW w \in Workers
    PROVE  /\ Held(w)' \subseteq Held(w) \cup pending
           /\ pc'[w] \in {"assign", "notify"} =>
                 /\ group'[w] = group[w]
                 /\ \/ pc[w] = "allocate" /\ todo'[w] = group[w]
                    \/ pc[w] = pc'[w] /\ todo'[w] \subseteq todo[w]
  <1> DEFINE Goal == /\ Held(w)' \subseteq Held(w) \cup pending
                     /\ pc'[w] \in {"assign", "notify"} =>
                           /\ group'[w] = group[w]
                           /\ \/ pc[w] = "allocate" /\ todo'[w] = group[w]
                              \/ pc[w] = pc'[w] /\ todo'[w] \subseteq todo[w]
  <1> SUFFICES Goal
    OBVIOUS
  <1>0. CASE pc'[w] = pc[w] /\ group'[w] = group[w] /\ todo'[w] \subseteq todo[w]
    BY <1>0 DEF Held
  <1>1. CASE UNCHANGED workerVars
    BY <1>0, <1>1 DEF workerVars
  <1>2. ASSUME NEW v \in Workers, ReadPending(v) \/ pair(v) \/ Abort(v) PROVE Goal
    <2>1. CASE EndPair(v)
      BY <2>1 DEF EndPair, Held, TypeInv, TypeOK
    <2>2. CASE ReadPending(v)
      BY <2>2 DEF ReadPending, Held, TypeInv, TypeOK
    <2>3. CASE Claim(v) /\ ~EndPair(v)
      BY <2>3 DEF Claim, Held, TypeInv, TypeOK
    <2>4. CASE Allocate(v)
      BY <2>4 DEF Allocate, Held, TypeInv, TypeOK
    <2>5. CASE NotifyFailed(v)
      BY <2>5 DEF NotifyFailed, Held, TypeInv, TypeOK
    <2>6. CASE AssignTicket(v)
      BY <2>6 DEF AssignTicket, Held, TypeInv, TypeOK
    <2> QED
      BY <1>2, <2>1, <2>2, <2>3, <2>4, <2>5, <2>6 DEF pair, FinishPair, Abort
  <1>3. CASE UNCHANGED vars
    BY <1>1, <1>3 DEF vars
  <1> HIDE DEF Goal
  <1> QED
    BY <1>1, <1>2, <1>3, OthersLeaveWorkers DEF Next, processMode, Callers

\* A call goes on with the ticket and the event it was made with; a new one is a
\* Cancel of a ticket the client knows, or a Publish from the loop of pair.
LEMMA CallStep ==
    ASSUME TypeInv, [Next]_vars, NEW p \in Callers
    PROVE  \/ call'[p] \in {call[p], NoCall}
           \/ /\ call[p].step \in Steps
              /\ \E s \in Steps : call'[p] = [call[p] EXCEPT !.step = s]
              /\ call'[p].step = "xadd" => pending' = pending \ {call[p].ticket}
           \/ /\ p \in Cancellers
              /\ call[p] = NoCall
              /\ \E t \in Tickets :
                    /\ enq[t] = "ok"
                    /\ call'[p] = Call("cancelGetTicket", t, FailedFor("cancelled"))
           \/ /\ p \in Workers
              /\ call[p] = NoCall
              /\ pc[p] \in {"assign", "notify"}
              /\ NotifyFailed(p) \/ AssignTicket(p)
              /\ \E t \in todo[p] : \E ev \in TerminalEvents :
                    call'[p] = Call("getTicket", t, ev)
  <1> DEFINE Moves ==
           /\ call[p].step \in Steps
           /\ \E s \in Steps : call'[p] = [call[p] EXCEPT !.step = s]
           /\ call'[p].step = "xadd" => pending' = pending \ {call[p].ticket}
  <1> DEFINE Goal ==
           \/ call'[p] \in {call[p], NoCall}
           \/ Moves
           \/ /\ p \in Cancellers
              /\ call[p] = NoCall
              /\ \E t \in Tickets :
                    /\ enq[t] = "ok"
                    /\ call'[p] = Call("cancelGetTicket", t, FailedFor("cancelled"))
           \/ /\ p \in Workers
              /\ call[p] = NoCall
              /\ pc[p] \in {"assign", "notify"}
              /\ NotifyFailed(p) \/ AssignTicket(p)
              /\ \E t \in todo[p] : \E ev \in TerminalEvents :
                    call'[p] = Call("getTicket", t, ev)
  <1> SUFFICES Goal
    OBVIOUS
  <1>0. ASSUME NEW q \in Callers, \/ call' = call
                                  \/ \E ok \in BOOLEAN : Return(q, ok)
                                  \/ CallFails(q)
        PROVE  call'[p] \in {call[p], NoCall}
    BY <1>0 DEF CallFails, Return, TypeInv, TypeOK
  <1>g. ASSUME NEW q \in Callers, NEW s \in Steps, call[q].step \in Steps, Goto(q, s),
               s = "xadd" => pending' = pending \ {call[q].ticket}
        PROVE  call'[p] = call[p] \/ Moves
    <2>1. call' = [call EXCEPT ![q] = [call[q] EXCEPT !.step = s]]
      BY <1>g DEF Goto
    <2>2. CASE p = q
      <3>1. call'[p] = [call[p] EXCEPT !.step = s]
        BY <2>1, <2>2 DEF TypeInv, TypeOK
      <3>2. call[p] \in [step : Steps, ticket : Tickets, event : TerminalEvents]
        BY <1>g, <2>2, CallFields DEF TypeInv
      <3>3. call'[p].step = s
        BY <3>1, <3>2
      <3> QED
        BY <1>g, <2>2, <3>1, <3>3
    <2> QED
      BY <2>1, <2>2 DEF TypeInv, TypeOK
  <1>1. ASSUME NEW u \in Tickets, CreateTicket(u) \/ WatchTicket(u) \/ ExpireTicket(u)
        PROVE  call' = call
    BY <1>1 DEF CreateTicket, RejectTicket, Enqueue, EnqueueSetTicket, EnqueueSetEvent,
           EnqueueXAdd, EnqueueZAdd, WatchTicket, Subscribe, Deliver, StopWatching, ExpireTicket
  <1>2. ASSUME NEW c \in Cancellers, NEW t \in Tickets, CancelTicket(c, t)
        PROVE  \/ call'[p] = call[p]
               \/ /\ p \in Cancellers
                  /\ call[p] = NoCall
                  /\ enq[t] = "ok"
                  /\ call'[p] = Call("cancelGetTicket", t, FailedFor("cancelled"))
    BY <1>2 DEF CancelTicket, TypeInv, TypeOK
  <1>3. ASSUME NEW c \in Cancellers, CancelGetTicket(c) \/ CancelLatestEvent(c)
        PROVE  call'[p] \in {call[p], NoCall} \/ Moves
    <2>1. c \in Callers /\ call[c].step \in Steps
      BY <1>3 DEF Callers, CancelGetTicket, CancelLatestEvent, Steps
    <2>2. CASE CallFails(c) \/ \E ok \in BOOLEAN : Return(c, ok)
      BY <1>0, <2>1, <2>2
    <2>3. CASE \E s \in {"latestEvent", "setEvent"} : Goto(c, s)
      BY <1>g, <2>1, <2>3 DEF Steps
    <2> QED
      BY <1>3, <2>2, <2>3 DEF CancelGetTicket, CancelLatestEvent
  <1>4. ASSUME NEW q \in Callers, Publish(q)
        PROVE  call'[p] \in {call[p], NoCall} \/ Moves
    <2>1. call[q].step \in Steps
      BY <1>4 DEF Publish, PublishGetTicket, setEvent, zremPending, xaddEvent, Steps
    <2>2. CASE CallFails(q) \/ \E ok \in BOOLEAN : Return(q, ok)
      BY <1>0, <2>2
    <2>3. CASE \E s \in {"setEvent", "zrem"} : Goto(q, s)
      BY <1>g, <2>1, <2>3 DEF Steps
    <2>4. CASE Goto(q, "xadd") /\ pending' = pending \ {call[q].ticket}
      BY <1>g, <2>1, <2>4 DEF Steps
    <2> QED
      BY <1>4, <2>2, <2>3, <2>4 DEF Publish, PublishGetTicket, setEvent, zremPending, xaddEvent
  <1>5. ASSUME NEW w \in Workers, ReadPending(w) \/ pair(w) \/ Abort(w)
        PROVE  \/ call'[p] \in {call[p], NoCall}
               \/ /\ p \in Workers
                  /\ call[p] = NoCall
                  /\ pc[p] \in {"assign", "notify"}
                  /\ NotifyFailed(p) \/ AssignTicket(p)
                  /\ \E t \in todo[p] : \E ev \in TerminalEvents :
                        call'[p] = Call("getTicket", t, ev)
    <2>1. CASE UNCHANGED call \/ Abort(w)
      BY <2>1 DEF Abort, TypeInv, TypeOK
    <2>2. CASE NotifyFailed(w) \/ AssignTicket(w)
      <3>1. /\ call[w] = NoCall
            /\ pc[w] \in {"assign", "notify"}
            /\ \E t \in todo[w] : \E ev \in TerminalEvents :
                  call' = [call EXCEPT ![w] = Call("getTicket", t, ev)]
        <4>1. CASE NotifyFailed(w)
          BY <4>1, EventTypes DEF NotifyFailed
        <4>2. CASE AssignTicket(w)
          <5>1. matchID[w] \in Matches
            BY <4>2 DEF AssignTicket, TypeInv, AssignHasMatch
          <5> QED
            BY <4>2, <5>1, EventTypes DEF AssignTicket
        <4> QED
          BY <2>2, <4>1, <4>2
      <3>2. call'[p] = call[p] \/ p = w
        BY <3>1 DEF TypeInv, TypeOK
      <3>3. p = w => \E t \in todo[p] : \E ev \in TerminalEvents :
                        call'[p] = Call("getTicket", t, ev)
        BY <3>1 DEF TypeInv, TypeOK
      <3> QED
        BY <2>2, <3>1, <3>2, <3>3
    <2> QED
      BY <1>5, <2>1, <2>2 DEF ReadPending, pair, Claim, Allocate, FinishPair
  <1>6. CASE UNCHANGED vars
    BY <1>6 DEF vars
  <1> HIDE DEF Moves
  <1> QED
    BY <1>0, <1>1, <1>2, <1>3, <1>4, <1>5, <1>6 DEF Next, processMode, Callers, Cancel

----------------------------------------------------------------------------
(* The order of a ticket's events.                                         *)

\* Queued is not terminal, and every event a call publishes is.
LEMMA EventKinds ==
    /\ ~isTerminalEvent(Queued)
    /\ \A ev \in TerminalEvents : isTerminalEvent(ev) /\ ev # Queued /\ ev # NoEvent
  BY DEF isTerminalEvent, Queued, NoEvent, TerminalEvents, Failed, Matched

\* An ended Enqueue stays ended, and a stream never shrinks.
LEMMA AnnouncedStays ==
    ASSUME TypeInv, [Next]_vars, NEW t \in Tickets
    PROVE  /\ Settled(t) => Settled(t)'
           /\ stream[t] # <<>> => stream'[t] # <<>>
           /\ Announced(t) => Announced(t)'
  <1>1. Settled(t) => Settled(t)'
    BY EnqStep DEF Settled
  <1>2. stream[t] \in Seq(Events)
    BY DEF TypeInv, TypeOK
  <1>3. ASSUME NEW ev \in Events PROVE Append(stream[t], ev) # <<>>
    <2>1. Len(Append(stream[t], ev)) = Len(stream[t]) + 1 /\ Len(stream[t]) \in Nat
      BY <1>2
    <2> QED
      BY <2>1
  <1>4. Queued \in Events /\ \A p \in Callers : call[p].step = "xadd" => call[p].event \in Events
    BY EventTypes, CallFields DEF Steps, TypeInv
  <1>5. stream[t] # <<>> => stream'[t] # <<>>
    BY <1>3, <1>4, StreamStep
  <1> QED
    BY <1>1, <1>5 DEF Announced

\* The loop of pair stays within its group.
LEMMA LoopStep == TypeInv /\ LoopInGroup /\ [Next]_vars => LoopInGroup'
  BY HeldStep DEF LoopInGroup

\* Only announced tickets are offered, held, published to or cancelled.
LEMMA AnnouncementStep ==
    ASSUME QueueInv, [Next]_vars
    PROVE  Announcement'
  <1> USE DEF QueueInv, SafetyInv
  <1>0. /\ \A w \in Workers : Held(w) \subseteq Tickets
        /\ \A p \in Callers : call[p] # NoCall => call[p].ticket \in Tickets
        /\ pending \subseteq Tickets
    BY DEF Held, TypeInv, TypeOK, Calls
  <1>1. \A t \in Tickets : enq'[t] \in {"new", "setEvent", "xadd"} => stream'[t] = <<>>
    <2> SUFFICES ASSUME NEW t \in Tickets, enq'[t] \in {"new", "setEvent", "xadd"}
                 PROVE  stream'[t] = <<>>
      OBVIOUS
    <2>1. enq[t] \in {"new", "setEvent", "xadd"}
      BY EnqStep
    <2>2. \A p \in Callers : call[p].step = "xadd" => call[p].ticket # t
      BY <2>1 DEF Announcement, Announced, Settled, NoCall
    <2> QED
      BY <2>1, <2>2, StreamStep DEF Announcement
  <1>2. \A t \in Tickets : enq'[t] \in {"zadd", "ok"} => stream'[t] # <<>>
    <2> SUFFICES ASSUME NEW t \in Tickets, enq'[t] \in {"zadd", "ok"}
                 PROVE  stream'[t] # <<>>
      OBVIOUS
    <2>1. CASE enq[t] = "xadd"
      <3>1. stream'[t] = Append(stream[t], Queued) \/ enq'[t] = "xadd"
        BY <2>1, StreamStep
      <3> QED
        BY <3>1 DEF TypeInv, TypeOK
    <2>2. CASE enq[t] \in {"zadd", "ok"}
      BY <2>2, AnnouncedStays DEF Announcement
    <2> QED
      BY <2>1, <2>2, EnqStep
  <1>3. \A t \in pending' : Announced(t)'
    <2> SUFFICES ASSUME NEW t \in pending' PROVE Announced(t)'
      OBVIOUS
    <2>1. CASE t \in pending
      BY <1>0, <2>1, AnnouncedStays DEF Announcement
    <2>2. CASE t \notin pending
      <3>1. t \in Tickets /\ enq[t] = "zadd" /\ Settled(t)'
        BY <2>2, PendingStep
      <3> QED
        BY <3>1, AnnouncedStays DEF Announcement, Announced
    <2> QED
      BY <2>1, <2>2
  <1>4. \A w \in Workers : \A t \in Held(w)' : Announced(t)'
    BY <1>0, HeldStep, AnnouncedStays DEF Announcement
  <1>5. \A p \in Callers : call'[p] # NoCall => Announced(call[p].ticket)'
    <2> SUFFICES ASSUME NEW p \in Callers, call'[p] # NoCall
                 PROVE  \E t \in Tickets : call'[p].ticket = t /\ Announced(t)
      BY AnnouncedStays DEF Announced, Settled
    <2>1. CASE call'[p] = call[p]
      BY <1>0, <2>1 DEF Announcement
    <2>2. CASE /\ call[p].step \in Steps
               /\ \E s \in Steps : call'[p] = [call[p] EXCEPT !.step = s]
      <3>1. call[p] \in [step : Steps, ticket : Tickets, event : TerminalEvents]
        BY <2>2, CallFields DEF TypeInv
      <3>2. call'[p].ticket = call[p].ticket
        BY <2>2, <3>1
      <3> QED
        BY <2>2, <3>1, <3>2 DEF Announcement, NoCall, Steps
    <2>3. ASSUME NEW t \in Tickets, enq[t] = "ok",
                 call'[p] = Call("cancelGetTicket", t, FailedFor("cancelled"))
          PROVE  call'[p].ticket = t /\ Announced(t)
      BY <2>3 DEF Announcement, Announced, Settled, Call
    <2>4. ASSUME p \in Workers, pc[p] \in {"assign", "notify"}, NEW t \in todo[p],
                 NEW ev, call'[p] = Call("getTicket", t, ev)
          PROVE  call'[p].ticket = t /\ t \in Tickets /\ Announced(t)
      <3>1. t \in Held(p)
        BY <2>4 DEF LoopInGroup, Held
      <3>2. call'[p].ticket = t
        BY <2>4 DEF Call
      <3> QED
        BY <1>0, <2>4, <3>1, <3>2 DEF Announcement
    <2> QED
      BY <2>1, <2>2, <2>3, <2>4, CallStep
  <1> QED
    BY <1>1, <1>2, <1>3, <1>4, <1>5 DEF Announcement

\* No step brings a ticket into the pool while its event is being appended.
LEMMA RemovedFirstStep ==
    ASSUME QueueInv, [Next]_vars
    PROVE  RemovedFirst'
  <1> USE DEF QueueInv, SafetyInv
  <1> SUFFICES ASSUME NEW p \in Callers, call'[p].step = "xadd"
               PROVE  call'[p].ticket \notin pending'
    BY DEF RemovedFirst
  <1>1. CASE call'[p] = call[p]
    <2>1. call[p] # NoCall
      BY <1>1 DEF NoCall
    <2>2. call[p].ticket \notin pending /\ Settled(call[p].ticket)
      BY <1>1, <2>1 DEF RemovedFirst, Announcement, Announced
    <2> QED
      BY <1>1, <2>2, PendingStep DEF Settled
  <1>2. CASE /\ call[p].step \in Steps
             /\ \E s \in Steps : call'[p] = [call[p] EXCEPT !.step = s]
             /\ call'[p].step = "xadd" => pending' = pending \ {call[p].ticket}
    <2>1. call[p] \in [step : Steps, ticket : Tickets, event : TerminalEvents]
      BY <1>2, CallFields DEF TypeInv
    <2>2. call'[p].ticket = call[p].ticket
      BY <1>2, <2>1
    <2> QED
      BY <1>2, <2>2
  <1>3. ASSUME NEW s \in {"cancelGetTicket", "getTicket"}, NEW t, NEW ev,
               call'[p] = Call(s, t, ev)
        PROVE  FALSE
    BY <1>3 DEF Call
  <1>4. call'[p] # NoCall
    BY DEF NoCall
  <1> QED
    BY <1>1, <1>2, <1>3, <1>4, CallStep

\* A terminal event goes behind the Queued that is already there.
LEMMA QueuedFirstStep ==
    ASSUME QueueInv, [Next]_vars
    PROVE  QueuedFirst'
  <1> USE DEF QueueInv, SafetyInv
  <1> SUFFICES ASSUME NEW t \in Tickets, NEW i \in DOMAIN stream'[t]
               PROVE  (stream'[t][i] = Queued) <=> (i = 1)
    BY DEF QueuedFirst
  <1>0. stream[t] \in Seq(Events)
    BY DEF TypeInv, TypeOK
  <1>1. CASE stream'[t] = stream[t]
    BY <1>1 DEF QueuedFirst
  <1>2. CASE enq[t] = "xadd" /\ stream'[t] = Append(stream[t], Queued)
    <2>1. stream[t] = <<>>
      BY <1>2 DEF Announcement
    <2> QED
      BY <1>2, <2>1
  <1>3. ASSUME NEW p \in Callers, call[p].step = "xadd", call[p].ticket = t,
               stream'[t] = Append(stream[t], call[p].event)
        PROVE  (stream'[t][i] = Queued) <=> (i = 1)
    <2>1. call[p].event \in TerminalEvents
      BY <1>3, CallFields DEF TypeInv, Steps
    <2>2. call[p].event # Queued
      BY <2>1, EventKinds
    <2>3. stream[t] # <<>>
      BY <1>3 DEF Announcement, Announced, NoCall
    <2>4. Len(stream[t]) \in Nat /\ Len(stream[t]) > 0
      BY <1>0, <2>3
    <2>5. CASE i = Len(stream[t]) + 1
      BY <1>0, <1>3, <2>2, <2>4, <2>5
    <2>6. CASE i # Len(stream[t]) + 1
      <3>1. i \in DOMAIN stream[t] /\ stream'[t][i] = stream[t][i]
        BY <1>0, <1>3, <2>6
      <3> QED
        BY <3>1 DEF QueuedFirst
    <2> QED
      BY <2>5, <2>6
  <1> QED
    BY <1>1, <1>2, <1>3, StreamStep

\* The invariant holds of the empty queue.
LEMMA QueueInit == Init => QueueInv
  <1> SUFFICES ASSUME Init PROVE QueueInv
    OBVIOUS
  <1>1. \A w \in Workers : Held(w) = {} /\ pc[w] = "idle"
    BY DEF Init, Held
  <1>2. \A m \in Matches : roster[m] = {}
    BY DEF Init
  <1>3. SafetyInv
    BY <1>1, <1>2, TypeInit DEF Init, SafetyInv, Custody, NoDoubleMatch
  <1>4. \A p \in Callers : call[p] = NoCall /\ call[p].step # "xadd"
    BY DEF Init, NoCall
  <1>5. \A t \in Tickets : stream[t] = <<>> /\ DOMAIN stream[t] = {} /\ enq[t] = "new"
    BY DEF Init
  <1>6. Announcement
    BY <1>1, <1>4, <1>5 DEF Init, Announcement
  <1> QED
    BY <1>1, <1>3, <1>4, <1>5, <1>6 DEF QueueInv, LoopInGroup, RemovedFirst, QueuedFirst

\* The invariant is inductive.
LEMMA QueueStep == QueueInv /\ [Next]_vars => QueueInv'
  <1> SUFFICES ASSUME QueueInv, [Next]_vars PROVE QueueInv'
    OBVIOUS
  <1>1. SafetyInv' /\ LoopInGroup'
    BY SafetyStep, LoopStep DEF QueueInv, SafetyInv
  <1> QED
    BY <1>1, AnnouncementStep, RemovedFirstStep, QueuedFirstStep DEF QueueInv

\* Whatever fails and whoever cancels or claims in between, every stream starts
\* with Queued and no later event is Queued.
THEOREM QueuedFirstHolds == Spec => []QueuedFirst
  <1>1. QueueInv => QueuedFirst
    BY DEF QueueInv
  <1> QED
    BY <1>1, QueueInit, QueueStep, PTL DEF Spec

----------------------------------------------------------------------------
(* The refinement of TicketQueue: entered, pool and decided are the        *)
(* settled, the pending and the told tickets, chosen the groups about to   *)
(* be claimed, withdrawn the tickets of the Cancels at their ZREM.         *)

\* Appending adds one entry.
LEMMA EntriesAppend ==
    ASSUME NEW S, NEW s \in Seq(S), NEW e \in S
    PROVE  Entries(Append(s, e)) = Entries(s) \cup {e}
  <1>1. /\ Len(s) \in Nat
        /\ DOMAIN s = 1 .. Len(s)
        /\ DOMAIN Append(s, e) = 1 .. Len(s) + 1
        /\ Append(s, e)[Len(s) + 1] = e
        /\ \A i \in 1 .. Len(s) : Append(s, e)[i] = s[i]
    OBVIOUS
  <1>2. \A i \in 1 .. Len(s) + 1 : i \in 1 .. Len(s) \/ i = Len(s) + 1
    BY <1>1
  <1>3. Len(s) + 1 \in 1 .. Len(s) + 1 /\ \A i \in 1 .. Len(s) : i \in 1 .. Len(s) + 1
    BY <1>1
  <1>4. ASSUME NEW x \in Entries(Append(s, e)) PROVE x \in Entries(s) \cup {e}
    <2>1. PICK i \in 1 .. Len(s) + 1 : x = Append(s, e)[i]
      BY <1>1, <1>4 DEF Entries
    <2> QED
      BY <1>1, <1>2, <2>1 DEF Entries
  <1>5. ASSUME NEW x \in Entries(s) \cup {e} PROVE x \in Entries(Append(s, e))
    BY <1>1, <1>3, <1>5 DEF Entries
  <1> QED
    BY <1>4, <1>5

\* Queued tells nothing of the outcome; every event a call appends does.
LEMMA ToldAppend ==
    ASSUME TypeInv, NEW t \in Tickets, NEW ev \in Events, stream'[t] = Append(stream[t], ev)
    PROVE  Told(t)' <=> Told(t) \/ isTerminalEvent(ev)
  <1>1. stream[t] \in Seq(Events)
    BY DEF TypeInv, TypeOK
  <1>2. Entries(stream'[t]) = Entries(stream[t]) \cup {ev}
    BY <1>1, EntriesAppend
  <1> QED
    BY <1>2 DEF Told

\* What a step that leaves their variables alone does to the abstract state.
LEMMA SameTickets ==
    /\ UNCHANGED enq => {t \in Tickets : Settled(t)}' = {t \in Tickets : Settled(t)}
    /\ UNCHANGED stream => {t \in Tickets : Told(t)}' = {t \in Tickets : Told(t)}
  BY DEF Settled, Told

LEMMA SameChosen ==
    ASSUME UNCHANGED <<pc, group>>
    PROVE  [w \in Workers |-> Choice(w)]' = [w \in Workers |-> Choice(w)]
  BY DEF Choice

LEMMA SameWithdrawn ==
    ASSUME \A c \in Cancellers : call'[c] = call[c]
    PROVE  {t \in Tickets : Withdrawing(t)}' = {t \in Tickets : Withdrawing(t)}
  BY DEF Withdrawing

\* Only a Cancel that gets to its ZREM or past it matters.
LEMMA CallChanges ==
    ASSUME TypeInv, NEW p \in Callers, NEW v, call' = [call EXCEPT ![p] = v],
           p \in Cancellers => call[p].step # "zrem" /\ v.step # "zrem"
    PROVE  {t \in Tickets : Withdrawing(t)}' = {t \in Tickets : Withdrawing(t)}
  <1>1. ASSUME NEW c \in Cancellers
        PROVE  call'[c] = call[c] \/ (call[c].step # "zrem" /\ call'[c].step # "zrem")
    BY <1>1 DEF TypeInv, TypeOK, Callers
  <1>2. \A t \in Tickets : Withdrawing(t)' <=> Withdrawing(t)
    BY <1>1 DEF Withdrawing
  <1> QED
    BY <1>2

\* What a matchmaker publishes to is its own: Publish's ZREM finds it gone.
OutOfPool == \A w \in Workers : call[w] # NoCall => call[w].ticket \notin pending

LEMMA OutOfPoolStep ==
    ASSUME QueueInv, OutOfPool, [Next]_vars
    PROVE  OutOfPool'
  <1> USE DEF QueueInv, SafetyInv
  <1> SUFFICES ASSUME NEW w \in Workers, call'[w] # NoCall, call'[w].ticket \in pending'
               PROVE  FALSE
    BY DEF OutOfPool
  <1>0. w \in Callers /\ w \notin Cancellers
    BY CallerAssumption DEF Callers
  <1>1. call'[w].ticket \in pending \/ ~Settled(call'[w].ticket)
    BY PendingStep DEF Settled
  <1>2. CASE call[w] # NoCall /\ call'[w].ticket = call[w].ticket
    BY <1>0, <1>1, <1>2 DEF OutOfPool, Announcement, Announced
  <1>3. CASE call[w].step \in Steps /\ \E s \in Steps : call'[w] = [call[w] EXCEPT !.step = s]
    <2>1. call[w] \in [step : Steps, ticket : Tickets, event : TerminalEvents]
      BY <1>0, <1>3, CallFields DEF TypeInv
    <2>2. call'[w].ticket = call[w].ticket /\ call[w] # NoCall
      BY <1>3, <2>1 DEF NoCall, Steps
    <2> QED
      BY <1>2, <2>2
  <1>4. ASSUME pc[w] \in {"assign", "notify"}, NEW t \in todo[w], NEW ev,
               call'[w] = Call("getTicket", t, ev)
        PROVE  FALSE
    <2>1. t \in Held(w) /\ call'[w].ticket = t
      BY <1>4 DEF LoopInGroup, Held, Call
    <2> QED
      BY <1>1, <2>1 DEF Custody
  <1> QED
    BY <1>0, <1>2, <1>3, <1>4, CallStep

\* A command of Enqueue is an abstract Enqueue if it is the last, and nothing otherwise.
LEMMA RefineEnqueue ==
    ASSUME QueueInv, NEW t \in Tickets, CreateTicket(t)
    PROVE  [Queue!Next]_(Queue!queueState)
  <1> USE DEF QueueInv, SafetyInv
  <1>1. \A u \in Tickets : Told(u)' <=> Told(u)
    <2>1. CASE UNCHANGED stream
      BY <2>1 DEF Told
    <2>2. CASE stream' = [stream EXCEPT ![t] = Append(@, Queued)]
      <3>1. stream'[t] = Append(stream[t], Queued)
            /\ \A u \in Tickets : u # t => stream'[u] = stream[u]
        BY <2>2 DEF TypeInv, TypeOK
      <3>2. Told(t)' <=> Told(t)
        BY <3>1, ToldAppend, EventTypes, EventKinds
      <3>3. \A u \in Tickets : u # t => (Told(u)' <=> Told(u))
        BY <3>1 DEF Told
      <3> QED
        BY <3>2, <3>3
    <2> QED
      BY <2>1, <2>2 DEF CreateTicket, RejectTicket, Enqueue, EnqueueSetTicket, EnqueueSetEvent,
             EnqueueXAdd, EnqueueZAdd, queueVars
  <1>2. /\ ~Settled(t)
        /\ \A u \in Tickets : u # t => (Settled(u)' <=> Settled(u))
        /\ \/ ~Settled(t)' /\ pending' = pending
           \/ Settled(t)' /\ pending' \in {pending, pending \cup {t}}
    BY DEF CreateTicket, RejectTicket, Enqueue, EnqueueSetTicket, EnqueueSetEvent,
           EnqueueXAdd, EnqueueZAdd, queueVars, Settled, TypeInv, TypeOK
  <1>3. {u \in Tickets : Told(u)}' = {u \in Tickets : Told(u)}
    BY <1>1
  <1>4. UNCHANGED <<pc, group, call>>
    BY DEF CreateTicket, RejectTicket, Enqueue, EnqueueSetTicket, EnqueueSetEvent,
           EnqueueXAdd, EnqueueZAdd, workerVars
  <1>5. /\ [w \in Workers |-> Choice(w)]' = [w \in Workers |-> Choice(w)]
        /\ {u \in Tickets : Withdrawing(u)}' = {u \in Tickets : Withdrawing(u)}
    BY <1>4, SameChosen, SameWithdrawn
  <1>6. CASE ~Settled(t)' /\ pending' = pending
    <2>1. {u \in Tickets : Settled(u)}' = {u \in Tickets : Settled(u)}
      BY <1>2, <1>6
    <2> QED
      BY <1>3, <1>5, <1>6, <2>1 DEF Queue!queueState
  <1>7. CASE Settled(t)' /\ pending' \in {pending, pending \cup {t}}
    <2>1. {u \in Tickets : Settled(u)}' = {u \in Tickets : Settled(u)} \cup {t}
      BY <1>2, <1>7
    <2>2. Queue!Enqueue(t)
      BY <1>2, <1>3, <1>5, <1>7, <2>1 DEF Queue!Enqueue
    <2> QED
      BY <2>2 DEF Queue!Next
  <1> QED
    BY <1>2, <1>6, <1>7

\* A matchmaker chooses, claims the whole of its choice, or gives it up.
LEMMA RefineChoice ==
    ASSUME TypeInv, NEW w \in Workers, ReadPending(w) \/ Claim(w) \/ EndPair(w),
           ReadPending(w) \/ Claim(w) \/ UNCHANGED pending, UNCHANGED <<enq, stream>>,
           \A c \in Cancellers : call'[c] = call[c]
    PROVE  [Queue!Next]_(Queue!queueState)
  <1> DEFINE chosen == [v \in Workers |-> Choice(v)]
  <1>0. /\ {u \in Tickets : Settled(u)}' = {u \in Tickets : Settled(u)}
        /\ {u \in Tickets : Told(u)}' = {u \in Tickets : Told(u)}
        /\ {u \in Tickets : Withdrawing(u)}' = {u \in Tickets : Withdrawing(u)}
    BY SameTickets, SameWithdrawn
  <1>1. ASSUME NEW G, pc'[w] = "claim" => group'[w] = G, pc'[w] # "claim" => G = {},
               \A v \in Workers : v # w => pc'[v] = pc[v] /\ group'[v] = group[v]
        PROVE  chosen' = [chosen EXCEPT ![w] = G]
    BY <1>1 DEF Choice
  <1>2. CASE ReadPending(w)
    <2>1. PICK g \in SUBSET pending :
             GroupOK(g) /\ group' = [group EXCEPT ![w] = g] /\ pc' = [pc EXCEPT ![w] = "claim"]
      BY <1>2 DEF ReadPending
    <2>2. chosen' = [chosen EXCEPT ![w] = g]
      BY <1>1, <2>1 DEF TypeInv, TypeOK
    <2>3. chosen[w] = {} /\ pending' = pending
      BY <1>2 DEF ReadPending, Choice, queueVars
    <2>4. Queue!Choose(w, g)
      BY <1>0, <2>2, <2>3 DEF Queue!Choose
    <2>5. g \in {h \in SUBSET Tickets : GroupOK(h)}
      BY <2>1 DEF TypeInv, TypeOK
    <2> QED
      BY <2>4, <2>5 DEF Queue!Next
  <1>3. ASSUME chosen' = [chosen EXCEPT ![w] = {}],
               \/ pending' = pending
               \/ chosen[w] \subseteq pending /\ pending' = pending \ chosen[w]
        PROVE  Queue!Next
    <2>1. CASE pending' = pending
      BY <1>0, <1>3, <2>1 DEF Queue!GiveUp, Queue!Next
    <2>2. CASE chosen[w] \subseteq pending /\ pending' = pending \ chosen[w]
      BY <1>0, <1>3, <2>2 DEF Queue!Claim, Queue!Next
    <2> QED
      BY <1>3, <2>1, <2>2
  <1>4. CASE Claim(w)
    <2>1. chosen[w] = group[w]
      BY <1>4 DEF Claim, Choice
    <2>2. \/ pending' = pending
          \/ group[w] \subseteq pending /\ pending' = pending \ group[w]
      BY <1>4 DEF Claim
    <2>3. /\ pc'[w] # "claim"
          /\ \A v \in Workers : v # w => pc'[v] = pc[v] /\ group'[v] = group[v]
      BY <1>4 DEF Claim, EndPair, TypeInv, TypeOK
    <2> QED
      BY <1>1, <1>3, <2>1, <2>2, <2>3
  <1>5. CASE EndPair(w) /\ UNCHANGED pending
    <2>1. /\ pc'[w] # "claim"
          /\ \A v \in Workers : v # w => pc'[v] = pc[v] /\ group'[v] = group[v]
      BY <1>5 DEF EndPair, TypeInv, TypeOK
    <2> QED
      BY <1>1, <1>3, <1>5, <2>1
  <1> QED
    BY <1>2, <1>4, <1>5

\* A Cancel about to issue its ZREM is an abstract Withdraw, and its ZREM an
\* abstract Cancel of that ticket alone.
LEMMA RefineCancel ==
    ASSUME QueueInv, NEW p \in Cancellers, setEvent(p) \/ zremPending(p)
    PROVE  [Queue!Next]_(Queue!queueState)
  <1> USE DEF QueueInv, SafetyInv
  <1> p \in Callers
    BY DEF Callers
  <1>0. UNCHANGED <<enq, stream, pc, group>>
    BY DEF setEvent, zremPending, workerVars
  <1>1. /\ {u \in Tickets : Settled(u)}' = {u \in Tickets : Settled(u)}
        /\ {u \in Tickets : Told(u)}' = {u \in Tickets : Told(u)}
        /\ [w \in Workers |-> Choice(w)]' = [w \in Workers |-> Choice(w)]
    BY <1>0, SameTickets, SameChosen
  <1>2. call[p] \in [step : Steps, ticket : Tickets, event : TerminalEvents]
    BY CallFields DEF TypeInv, Steps, setEvent, zremPending
  <1>3. PICK t \in Tickets : t = call[p].ticket
    BY <1>2
  <1>4. PICK v : /\ call' = [call EXCEPT ![p] = v]
                 /\ v.step = "zrem" => call[p].step = "setEvent" /\ v.ticket = t
    <2>1. CASE call' = [call EXCEPT ![p] = NoCall]
      <3>1. NoCall.step # "zrem"
        BY DEF NoCall
      <3> QED
        BY <2>1, <3>1
    <2>2. CASE Goto(p, "zrem") /\ call[p].step = "setEvent"
      <3>1. call' = [call EXCEPT ![p] = [call[p] EXCEPT !.step = "zrem"]]
        BY <2>2 DEF Goto
      <3>2. [call[p] EXCEPT !.step = "zrem"].ticket = t
        BY <1>2, <1>3
      <3> QED
        BY <2>2, <3>1, <3>2
    <2>3. CASE Goto(p, "xadd")
      <3>1. call' = [call EXCEPT ![p] = [call[p] EXCEPT !.step = "xadd"]]
        BY <2>3 DEF Goto
      <3>2. [call[p] EXCEPT !.step = "xadd"].step = "xadd"
        BY <1>2
      <3> QED
        BY <3>1, <3>2
    <2> QED
      BY <2>1, <2>2, <2>3 DEF setEvent, zremPending, CallFails, Return
  <1>5. call'[p] = v /\ \A c \in Cancellers : c # p => call'[c] = call[c]
    BY <1>4 DEF TypeInv, TypeOK, Callers
  <1>6. \A u \in Tickets : u # t => (Withdrawing(u)' <=> Withdrawing(u))
    BY <1>3, <1>4, <1>5 DEF Withdrawing
  <1> DEFINE withdrawn == {u \in Tickets : Withdrawing(u)}
  <1>7. CASE setEvent(p)
    <2>1. pending' = pending
      BY <1>7 DEF setEvent
    <2>2. Withdrawing(t) => Withdrawing(t)'
      BY <1>5, <1>7 DEF Withdrawing, setEvent
    <2>3. withdrawn' = withdrawn \/ withdrawn' = withdrawn \cup {t}
      BY <1>6, <2>2
    <2>4. t \in {u \in Tickets : Settled(u)}
      BY <1>3, <1>7 DEF Announcement, Announced, setEvent, NoCall
    <2>5. CASE withdrawn' = withdrawn
      BY <1>1, <2>1, <2>5 DEF Queue!queueState
    <2>6. CASE withdrawn' = withdrawn \cup {t}
      BY <1>1, <2>1, <2>4, <2>6 DEF Queue!Withdraw, Queue!Next
    <2> QED
      BY <2>3, <2>5, <2>6
  <1>8. CASE zremPending(p)
    <2>1. t \in withdrawn
      BY <1>3, <1>8 DEF zremPending, Withdrawing
    <2>2. withdrawn' = withdrawn \/ withdrawn' = withdrawn \ {t}
      BY <1>6, <2>1
    <2>3. pending' \in {pending, pending \ {t}}
      BY <1>3, <1>8 DEF zremPending
    <2>4. Queue!Cancel(t)
      BY <1>1, <2>1, <2>2, <2>3 DEF Queue!Cancel
    <2> QED
      BY <2>4 DEF Queue!Next
  <1> QED
    BY <1>7, <1>8

\* The last command of publish is an abstract Publish: the ticket has left the
\* pool, and its Enqueue has ended.
LEMMA RefineXAdd ==
    ASSUME QueueInv, NEW p \in Callers, xaddEvent(p)
    PROVE  [Queue!Next]_(Queue!queueState)
  <1> USE DEF QueueInv, SafetyInv
  <1>1. call[p] \in [step : Steps, ticket : Tickets, event : TerminalEvents]
    BY CallFields DEF TypeInv, Steps, xaddEvent
  <1>2. PICK t \in Tickets, ev \in TerminalEvents : t = call[p].ticket /\ ev = call[p].event
    BY <1>1
  <1>3. UNCHANGED <<enq, pending, pc, group>>
    BY DEF xaddEvent, workerVars
  <1>4. call[p].step = "xadd" /\ call' = [call EXCEPT ![p] = NoCall]
    BY DEF xaddEvent, CallFails, Return
  <1>5. /\ {u \in Tickets : Settled(u)}' = {u \in Tickets : Settled(u)}
        /\ [w \in Workers |-> Choice(w)]' = [w \in Workers |-> Choice(w)]
    BY <1>3, SameChosen DEF Settled
  <1>6. {u \in Tickets : Withdrawing(u)}' = {u \in Tickets : Withdrawing(u)}
    <2>1. NoCall.step # "zrem"
      BY DEF NoCall
    <2> QED
      BY <1>4, <2>1, CallChanges
  <1>7. CASE UNCHANGED stream
    BY <1>3, <1>5, <1>6, <1>7, SameTickets DEF Queue!queueState
  <1>8. CASE stream' = [stream EXCEPT ![call[p].ticket] = Append(@, call[p].event)]
    <2>1. /\ stream'[t] = Append(stream[t], ev)
          /\ \A u \in Tickets : u # t => stream'[u] = stream[u]
      BY <1>2, <1>8 DEF TypeInv, TypeOK
    <2>2. Told(t)'
      BY <2>1, ToldAppend, EventTypes, EventKinds
    <2>3. \A u \in Tickets : u # t => (Told(u)' <=> Told(u))
      BY <2>1 DEF Told
    <2>4. {u \in Tickets : Told(u)}' = {u \in Tickets : Told(u)} \cup {t}
      BY <2>2, <2>3
    <2>5. Settled(t) /\ t \notin pending
      BY <1>2, <1>4 DEF Announcement, Announced, NoCall, RemovedFirst
    <2>6. Queue!Publish(t)
      BY <1>3, <1>5, <1>6, <2>4, <2>5 DEF Queue!Publish
    <2> QED
      BY <2>6 DEF Queue!Next
  <1> QED
    BY <1>7, <1>8 DEF xaddEvent

\* Every step of the gateways and the matchmakers is a step of TicketQueue or
\* leaves its state alone.
LEMMA RefineStep == QueueInv /\ OutOfPool /\ [Next]_vars => [Queue!Next]_(Queue!queueState)
  <1> SUFFICES ASSUME QueueInv, OutOfPool, [Next]_vars PROVE [Queue!Next]_(Queue!queueState)
    OBVIOUS
  <1> USE DEF QueueInv, SafetyInv
  <1>0. ASSUME UNCHANGED <<enq, stream, pending>>,
               [w \in Workers |-> Choice(w)]' = [w \in Workers |-> Choice(w)],
               {t \in Tickets : Withdrawing(t)}' = {t \in Tickets : Withdrawing(t)}
        PROVE  [Queue!Next]_(Queue!queueState)
    BY <1>0, SameTickets DEF Queue!queueState
  <1>1. ASSUME NEW t \in Tickets, CreateTicket(t) PROVE [Queue!Next]_(Queue!queueState)
    BY <1>1, RefineEnqueue
  <1>2. ASSUME NEW t \in Tickets, WatchTicket(t) \/ ExpireTicket(t)
        PROVE  [Queue!Next]_(Queue!queueState)
    <2>1. UNCHANGED <<enq, stream, pending, pc, group, call>>
      BY <1>2 DEF WatchTicket, Subscribe, Deliver, StopWatching, ExpireTicket, queueVars,
             workerVars
    <2> QED
      BY <1>0, <2>1, SameChosen, SameWithdrawn
  <1>3. ASSUME NEW p \in Callers, NEW v, call' = [call EXCEPT ![p] = v],
               p \in Cancellers => call[p].step # "zrem" /\ v.step # "zrem",
               UNCHANGED <<enq, stream, pending, pc, group>>
        PROVE  [Queue!Next]_(Queue!queueState)
    BY <1>0, <1>3, SameChosen, CallChanges
  <1>4. ASSUME NEW p \in Callers, call[p].step \in Steps,
               p \in Cancellers => call[p].step # "zrem",
               \/ call' = [call EXCEPT ![p] = NoCall]
               \/ \E s \in {"latestEvent", "setEvent"} : Goto(p, s)
               \/ p \notin Cancellers /\ \E s \in Steps : Goto(p, s),
               UNCHANGED <<enq, stream, pending, pc, group>>
        PROVE  [Queue!Next]_(Queue!queueState)
    <2>1. call[p] \in [step : Steps, ticket : Tickets, event : TerminalEvents]
      BY <1>4, CallFields DEF TypeInv
    <2>2. ASSUME NEW s, Goto(p, s) PROVE call' = [call EXCEPT ![p] = [call[p] EXCEPT !.step = s]]
      BY <2>2 DEF Goto
    <2>3. \A s \in Steps : [call[p] EXCEPT !.step = s].step = s
      BY <2>1
    <2>4. NoCall.step # "zrem" /\ {"latestEvent", "setEvent"} \subseteq Steps
      BY DEF NoCall, Steps
    <2>5. ASSUME NEW s \in Steps, Goto(p, s), p \in Cancellers => s # "zrem"
          PROVE  [Queue!Next]_(Queue!queueState)
      <3>1. PICK v : v = [call[p] EXCEPT !.step = s]
        OBVIOUS
      <3>2. call' = [call EXCEPT ![p] = v] /\ v.step = s
        BY <2>2, <2>3, <2>5, <3>1
      <3> QED
        BY <1>3, <1>4, <2>5, <3>2
    <2>6. CASE call' = [call EXCEPT ![p] = NoCall]
      BY <1>3, <1>4, <2>4, <2>6
    <2> QED
      BY <1>4, <2>4, <2>5, <2>6
  <1>5. ASSUME NEW c \in Cancellers, Cancel(c) PROVE [Queue!Next]_(Queue!queueState)
    <2> c \in Callers
      BY DEF Callers
    <2>1. UNCHANGED <<enq, stream, pending, pc, group>>
      BY <1>5 DEF Cancel, CancelTicket, CancelGetTicket, CancelLatestEvent, queueVars, workerVars
    <2>2. ASSUME NEW t \in Tickets, CancelTicket(c, t) PROVE [Queue!Next]_(Queue!queueState)
      <3>1. Call("cancelGetTicket", t, FailedFor("cancelled")).step # "zrem"
            /\ NoCall.step # "zrem"
        BY DEF Call, NoCall
      <3> QED
        BY <1>3, <2>1, <2>2, <3>1 DEF CancelTicket
    <2>3. CASE CancelGetTicket(c) \/ CancelLatestEvent(c)
      <3>1. call[c].step \in Steps /\ call[c].step # "zrem"
        BY <2>3 DEF CancelGetTicket, CancelLatestEvent, Steps
      <3>2. \/ call' = [call EXCEPT ![c] = NoCall]
            \/ \E s \in {"latestEvent", "setEvent"} : Goto(c, s)
        BY <2>3 DEF CancelGetTicket, CancelLatestEvent, CallFails, Return
      <3> QED
        BY <1>4, <2>1, <3>1, <3>2
    <2> QED
      BY <1>5, <2>2, <2>3 DEF Cancel
  <1>6. ASSUME NEW p \in Callers, Publish(p) PROVE [Queue!Next]_(Queue!queueState)
    <2>1. CASE PublishGetTicket(p)
      <3>1. /\ call[p].step \in Steps /\ call[p].step # "zrem"
            /\ UNCHANGED <<enq, stream, pending, pc, group>>
        BY <2>1 DEF PublishGetTicket, Steps, queueVars, workerVars
      <3>2. call' = [call EXCEPT ![p] = NoCall] \/ Goto(p, "setEvent")
        BY <2>1 DEF PublishGetTicket, CallFails, Return
      <3> QED
        BY <1>4, <3>1, <3>2
    <2>2. CASE p \in Cancellers /\ (setEvent(p) \/ zremPending(p))
      BY <2>2, RefineCancel
    <2>3. CASE p \notin Cancellers /\ (setEvent(p) \/ zremPending(p))
      <3>1. p \in Workers /\ call[p] # NoCall
        BY <2>3 DEF Callers, setEvent, zremPending, NoCall
      <3>2. pending \ {call[p].ticket} = pending
        BY <3>1 DEF OutOfPool
      <3>3. /\ call[p].step \in Steps
            /\ UNCHANGED <<enq, stream, pending, pc, group>>
        BY <2>3, <3>2 DEF setEvent, zremPending, Steps, workerVars
      <3>4. call' = [call EXCEPT ![p] = NoCall] \/ \E s \in Steps : Goto(p, s)
        BY <2>3 DEF setEvent, zremPending, CallFails, Return, Steps
      <3> QED
        BY <1>4, <2>3, <3>3, <3>4
    <2>4. CASE xaddEvent(p)
      BY <2>4, RefineXAdd
    <2> QED
      BY <1>6, <2>1, <2>2, <2>3, <2>4 DEF Publish
  <1>7. ASSUME NEW w \in Workers, ReadPending(w) \/ pair(w) \/ Abort(w)
        PROVE  [Queue!Next]_(Queue!queueState)
    <2>0. w \in Callers /\ w \notin Cancellers
      BY CallerAssumption DEF Callers
    <2>1. UNCHANGED <<enq, stream>> /\ \A c \in Cancellers : call'[c] = call[c]
      BY <1>7, <2>0 DEF ReadPending, pair, Claim, Allocate, NotifyFailed, AssignTicket,
             FinishPair, Abort, queueVars, TypeInv, TypeOK, Callers
    <2>2. CASE ReadPending(w) \/ Claim(w) \/ FinishPair(w) \/ Abort(w)
      <3>1. /\ ReadPending(w) \/ Claim(w) \/ EndPair(w)
            /\ ReadPending(w) \/ Claim(w) \/ UNCHANGED pending
        BY <2>2 DEF FinishPair, Abort, queueVars
      <3> QED
        BY <2>1, <3>1, RefineChoice
    <2>3. CASE Allocate(w) \/ NotifyFailed(w) \/ AssignTicket(w)
      <3>1. /\ UNCHANGED <<pending, group>>
            /\ pc[w] # "claim" /\ pc'[w] # "claim"
            /\ \A v \in Workers : v # w => pc'[v] = pc[v]
        BY <2>3 DEF Allocate, NotifyFailed, AssignTicket, queueVars, TypeInv, TypeOK
      <3>2. [v \in Workers |-> Choice(v)]' = [v \in Workers |-> Choice(v)]
        BY <3>1 DEF Choice
      <3> QED
        BY <1>0, <2>1, <3>1, <3>2, SameWithdrawn
    <2> QED
      BY <1>7, <2>2, <2>3 DEF pair
  <1>8. CASE UNCHANGED vars
    BY <1>0, <1>8, SameChosen, SameWithdrawn DEF vars, queueVars, workerVars
  <1> QED
    BY <1>1, <1>2, <1>5, <1>6, <1>7, <1>8 DEF Next, processMode, Callers

\* The Valkey queue, with all its callers and whatever of their commands fail half
\* way, keeps the promise of match.Queue: no ticket comes back to the pool; one
\* leaves it only with the whole group its matchmaker chose, or alone by a Cancel
\* of that ticket; and a ticket that was told its outcome is neither in the pool
\* nor on its way there.
THEOREM QueueRefinement == Spec => ImplementsQueue
  <1>1. Init => Queue!Init
    <2> SUFFICES ASSUME Init PROVE Queue!Init
      OBVIOUS
    <2>1. \A t \in Tickets : ~Settled(t) /\ Entries(stream[t]) = {}
      BY DEF Init, Settled, Entries
    <2>2. \A t \in Tickets : ~Withdrawing(t)
      BY DEF Init, Withdrawing, NoCall, Callers
    <2>3. [w \in Workers |-> Choice(w)] = [w \in Workers |-> {}]
      BY DEF Init, Choice
    <2>4. /\ {t \in Tickets : Settled(t)} = {}
          /\ {t \in Tickets : Told(t)} = {}
          /\ {t \in Tickets : Withdrawing(t)} = {}
      BY <2>1, <2>2 DEF Told
    <2> QED
      BY <2>3, <2>4 DEF Init, Queue!Init
  <1>2. Init => OutOfPool
    BY DEF Init, OutOfPool, Callers
  <1> QED
    BY <1>1, <1>2, QueueInit, QueueStep, OutOfPoolStep, RefineStep, PTL
    DEF Spec, ImplementsQueue, Queue!Spec

----------------------------------------------------------------------------
(* What a Matched event and the metric mean.                               *)

\* t is on m's roster and its player can find m, or its own later match.
Secured(t, m) == t \in roster[m] /\ Recoverable(t, m)

\* Every Matched that was told, stored or is about to be is secured.
MatchedSecured ==
    \A t \in Tickets : \A m \in Matches :
        \/ ToldMatched(t, m)
        \/ snapshot[t] = Matched(m)
        \/ \E p \in Callers : call[p] # NoCall /\ call[p].ticket = t /\ call[p].event = Matched(m)
        => Secured(t, m)

\* pair works on the roster it allocated, and has secured what it counts as paired.
PairSecured ==
    \A w \in Workers :
        /\ pc[w] # "idle" => group[w] # {}
        /\ pc[w] # "assign" => paired[w] = {}
        /\ pc[w] = "assign" =>
              /\ roster[matchID[w]] = group[w]
              /\ \A t \in paired[w] : Secured(t, matchID[w])

MatchInv == QueueInv /\ MatchedSecured /\ PairSecured /\ CountedFullyFormed

\* Of a matchmaker's steps only AssignTicket changes an assignment.
LEMMA OthersLeaveMatches ==
    ASSUME NEW w \in Workers,
           ReadPending(w) \/ Claim(w) \/ Allocate(w) \/ NotifyFailed(w) \/ FinishPair(w) \/ Abort(w)
    PROVE  UNCHANGED assignments
  BY DEF ReadPending, Claim, Allocate, NotifyFailed, FinishPair, Abort

\* A roster, once allocated, never changes.
LEMMA RosterStep ==
    ASSUME TypeInv, [Next]_vars, NEW m \in Matches, roster[m] # {}
    PROVE  roster'[m] = roster[m]
  <1>1. ASSUME NEW w \in Workers, ReadPending(w) \/ pair(w) \/ Abort(w)
        PROVE  roster'[m] = roster[m]
    <2>1. CASE Allocate(w)
      BY <2>1 DEF Allocate, Reserve, TypeInv, TypeOK
    <2> QED
      BY <1>1, <2>1 DEF ReadPending, pair, Claim, NotifyFailed, AssignTicket, FinishPair, Abort
  <1>2. CASE UNCHANGED workerVars
    BY <1>2 DEF workerVars
  <1> QED
    BY <1>1, <1>2, OthersLeaveWorkers DEF Next, processMode, Callers, vars

\* An assignment changes only when a matchmaker assigns a ticket of that player
\* to the match it has allocated.
LEMMA AssignmentStep ==
    ASSUME TypeInv, [Next]_vars, NEW q \in Players
    PROVE  \/ assignments'[q] = assignments[q]
           \/ \E w \in Workers : \E t \in todo[w] :
                 /\ pc[w] = "assign"
                 /\ PlayerOf[t] = q
                 /\ assignments'[q] = matchID[w]
  <1>1. ASSUME NEW t \in Tickets, CreateTicket(t) \/ WatchTicket(t) \/ ExpireTicket(t)
        PROVE  UNCHANGED assignments
    BY <1>1 DEF CreateTicket, RejectTicket, Enqueue, EnqueueSetTicket, EnqueueSetEvent,
           EnqueueXAdd, EnqueueZAdd, WatchTicket, Subscribe, Deliver, StopWatching, ExpireTicket
  <1>2. ASSUME NEW c \in Cancellers, Cancel(c) PROVE UNCHANGED assignments
    BY <1>2 DEF Cancel, CancelTicket, CancelGetTicket, CancelLatestEvent
  <1>3. ASSUME NEW p \in Callers, Publish(p) PROVE UNCHANGED assignments
    BY <1>3 DEF Publish, PublishGetTicket, setEvent, zremPending, xaddEvent
  <1>4. ASSUME NEW w \in Workers, AssignTicket(w)
        PROVE  \/ UNCHANGED assignments
               \/ /\ pc[w] = "assign"
                  /\ \E t \in todo[w] : assignments' = [assignments EXCEPT ![PlayerOf[t]] = matchID[w]]
    BY <1>4 DEF AssignTicket, Put
  <1>5. ASSUME NEW w \in Workers, AssignTicket(w)
        PROVE  \/ assignments'[q] = assignments[q]
               \/ \E t \in todo[w] :
                     /\ pc[w] = "assign"
                     /\ PlayerOf[t] = q
                     /\ assignments'[q] = matchID[w]
    BY <1>4, <1>5 DEF TypeInv, TypeOK
  <1> QED
    BY <1>1, <1>2, <1>3, <1>5, OthersLeaveMatches DEF Next, processMode, pair, Callers, vars

\* A snapshot is overwritten by Enqueue's Queued or by the event of a call.
LEMMA SnapshotStep ==
    ASSUME TypeInv, [Next]_vars, NEW t \in Tickets
    PROVE  \/ snapshot'[t] = snapshot[t]
           \/ enq[t] = "setEvent" /\ snapshot'[t] = Queued
           \/ \E p \in Callers :
                 /\ call[p].step = "setEvent"
                 /\ call[p].ticket = t
                 /\ snapshot'[t] = call[p].event
  <1>1. ASSUME NEW u \in Tickets, CreateTicket(u)
        PROVE  snapshot'[t] = snapshot[t] \/ (enq[t] = "setEvent" /\ snapshot'[t] = Queued)
    BY <1>1 DEF CreateTicket, RejectTicket, Enqueue, EnqueueSetTicket, EnqueueSetEvent,
           EnqueueXAdd, EnqueueZAdd, queueVars, TypeInv, TypeOK
  <1>2. ASSUME NEW u \in Tickets, WatchTicket(u) \/ ExpireTicket(u) PROVE UNCHANGED snapshot
    BY <1>2 DEF WatchTicket, Subscribe, Deliver, StopWatching, ExpireTicket, queueVars
  <1>3. ASSUME NEW c \in Cancellers, Cancel(c) PROVE UNCHANGED snapshot
    BY <1>3 DEF Cancel, CancelTicket, CancelGetTicket, CancelLatestEvent, queueVars
  <1>4. ASSUME NEW p \in Callers, Publish(p)
        PROVE  \/ UNCHANGED snapshot
               \/ /\ call[p].step = "setEvent"
                  /\ snapshot' = [snapshot EXCEPT ![call[p].ticket] = call[p].event]
    BY <1>4 DEF Publish, PublishGetTicket, setEvent, zremPending, xaddEvent, queueVars
  <1>5. ASSUME NEW p \in Callers, Publish(p)
        PROVE  \/ snapshot'[t] = snapshot[t]
               \/ /\ call[p].step = "setEvent"
                  /\ call[p].ticket = t
                  /\ snapshot'[t] = call[p].event
    BY <1>4, <1>5 DEF TypeInv, TypeOK
  <1>6. ASSUME NEW w \in Workers, ReadPending(w) \/ pair(w) \/ Abort(w) PROVE UNCHANGED snapshot
    BY <1>6 DEF ReadPending, pair, Claim, Allocate, NotifyFailed, AssignTicket, FinishPair,
           Abort, queueVars
  <1>7. CASE UNCHANGED vars
    BY <1>7 DEF vars, queueVars
  <1> QED
    BY <1>1, <1>2, <1>3, <1>5, <1>6, <1>7 DEF Next, processMode, Callers

\* Once secured, a ticket stays secured: the same player's next assignment is
\* that of another of its tickets, because one ticket is never in two matches.
LEMMA SecuredStays ==
    ASSUME QueueInv, PairSecured, [Next]_vars, NEW t \in Tickets, NEW m \in Matches, Secured(t, m)
    PROVE  Secured(t, m)'
  <1> USE DEF QueueInv, SafetyInv
  <1>0. PlayerOf[t] \in Players /\ t \in roster[m]
    BY TicketAssumption DEF Secured
  <1>1. t \in roster'[m]
    BY <1>0, RosterStep
  <1>2. PICK n \in Matches :
           /\ assignments[PlayerOf[t]] = n
           /\ n = m \/ \E u \in roster[n] : u # t /\ PlayerOf[u] = PlayerOf[t]
    BY DEF Secured, Recoverable, GetCurrentMatch
  <1>3. CASE assignments'[PlayerOf[t]] = assignments[PlayerOf[t]]
    <2>1. n = m \/ \E u \in roster'[n] : u # t /\ PlayerOf[u] = PlayerOf[t]
      BY <1>2, RosterStep
    <2> QED
      BY <1>1, <1>2, <1>3, <2>1 DEF Secured, Recoverable, GetCurrentMatch
  <1>4. ASSUME NEW w \in Workers, NEW u \in todo[w], pc[w] = "assign",
               PlayerOf[u] = PlayerOf[t], assignments'[PlayerOf[t]] = matchID[w]
        PROVE  Secured(t, m)'
    <2>1. matchID[w] \in Matches /\ u \in roster[matchID[w]]
      BY <1>4 DEF TypeInv, AssignHasMatch, LoopInGroup, PairSecured
    <2>2. u \in roster'[matchID[w]]
      BY <2>1, RosterStep
    <2>3. u = t => matchID[w] = m
      BY <1>0, <2>1 DEF NoDoubleMatch
    <2> QED
      BY <1>1, <1>4, <2>1, <2>2, <2>3 DEF Secured, Recoverable, GetCurrentMatch
  <1> QED
    BY <1>0, <1>3, <1>4, AssignmentStep

\* A Matched is published only by a matchmaker that has just persisted the
\* assignment of its match.
LEMMA MatchedCallStep ==
    ASSUME TypeInv, [Next]_vars, NEW p \in Callers, NEW m \in Matches,
           call'[p] # NoCall, call'[p].event = Matched(m)
    PROVE  \/ /\ call[p] # NoCall
              /\ call[p].event = Matched(m)
              /\ call'[p].ticket = call[p].ticket
           \/ /\ p \in Workers
              /\ pc[p] = "assign"
              /\ matchID[p] = m
              /\ call'[p].ticket \in todo[p]
              /\ assignments'[PlayerOf[call'[p].ticket]] = m
  <1>1. CASE call[p].step \in Steps /\ \E s \in Steps : call'[p] = [call[p] EXCEPT !.step = s]
    <2>1. call[p] \in [step : Steps, ticket : Tickets, event : TerminalEvents]
      BY <1>1, CallFields DEF TypeInv
    <2>2. call'[p].ticket = call[p].ticket /\ call'[p].event = call[p].event
      BY <1>1, <2>1
    <2> QED
      BY <1>1, <2>2 DEF NoCall, Steps
  <1>2. ASSUME NEW t, call'[p] = Call("cancelGetTicket", t, FailedFor("cancelled")) PROVE FALSE
    BY <1>2 DEF Call, FailedFor, Matched
  <1>3. CASE p \in Workers /\ (NotifyFailed(p) \/ AssignTicket(p))
    <2>1. CASE NotifyFailed(p)
      BY <1>3, <2>1 DEF NotifyFailed, Call, FailedFor, Matched, TypeInv, TypeOK
    <2>2. CASE AssignTicket(p)
      <3>1. PICK t \in todo[p] :
               \/ /\ Put(PlayerOf[t], matchID[p])
                  /\ call' = [call EXCEPT ![p] = Call("getTicket", t, Matched(matchID[p]))]
               \/ call' = [call EXCEPT ![p] = Call("getTicket", t, FailedFor("internal"))]
        BY <2>2 DEF AssignTicket
      <3>2. call' # [call EXCEPT ![p] = Call("getTicket", t, FailedFor("internal"))]
        BY DEF Call, FailedFor, Matched, TypeInv, TypeOK
      <3>3. call'[p].ticket = t /\ matchID[p] = m
        BY <3>1, <3>2 DEF Call, Matched, TypeInv, TypeOK
      <3>4. PlayerOf[t] \in Players
        BY <1>3, TicketAssumption DEF TypeInv, TypeOK
      <3>5. assignments'[PlayerOf[t]] = m
        BY <3>1, <3>2, <3>3, <3>4 DEF Put, TypeInv, TypeOK
      <3> QED
        BY <1>3, <2>2, <3>3, <3>5 DEF AssignTicket
    <2> QED
      BY <1>3, <2>1, <2>2
  <1> QED
    BY <1>1, <1>2, <1>3, CallStep

\* A ticket of the group whose assignment was just persisted is secured.
LEMMA PutSecures ==
    ASSUME QueueInv, PairSecured, [Next]_vars, NEW w \in Workers, NEW t \in todo[w],
           NEW m \in Matches, pc[w] = "assign", m = matchID[w], assignments'[PlayerOf[t]] = m
    PROVE  t \in Tickets /\ Secured(t, m)'
  <1>1. t \in Tickets /\ t \in roster[m]
    BY DEF QueueInv, LoopInGroup, PairSecured, SafetyInv, TypeInv, TypeOK
  <1>2. t \in roster'[m]
    BY <1>1, RosterStep DEF QueueInv, SafetyInv
  <1> QED
    BY <1>1, <1>2 DEF Secured, Recoverable, GetCurrentMatch

\* Every Matched stays secured, and a new one is secured before it is published.
LEMMA MatchedStep ==
    ASSUME MatchInv, [Next]_vars
    PROVE  MatchedSecured'
  <1> USE DEF MatchInv, QueueInv, SafetyInv
  <1> SUFFICES ASSUME NEW t \in Tickets, NEW m \in Matches,
                      \/ ToldMatched(t, m)'
                      \/ snapshot'[t] = Matched(m)
                      \/ \E p \in Callers :
                            /\ call'[p] # NoCall
                            /\ call'[p].ticket = t
                            /\ call'[p].event = Matched(m)
               PROVE  Secured(t, m)'
    BY DEF MatchedSecured
  <1>1. ASSUME NEW p \in Callers, call[p].step \in Steps, call[p].ticket = t,
               call[p].event = Matched(m)
        PROVE  Secured(t, m)
    BY <1>1 DEF MatchedSecured, NoCall, Steps
  <1>2. Matched(m) # Queued
    BY DEF Matched, Queued
  <1>3. CASE ToldMatched(t, m)'
    <2>0. stream[t] \in Seq(Events)
      BY DEF TypeInv, TypeOK
    <2>1. CASE stream'[t] = stream[t]
      BY <1>3, <2>1, SecuredStays DEF MatchedSecured, ToldMatched
    <2>2. CASE stream'[t] = Append(stream[t], Queued)
      <3>1. Entries(stream'[t]) = Entries(stream[t]) \cup {Queued}
        BY <2>0, <2>2, EntriesAppend, EventTypes
      <3> QED
        BY <1>2, <1>3, <3>1, SecuredStays DEF MatchedSecured, ToldMatched
    <2>3. ASSUME NEW p \in Callers, call[p].step = "xadd", call[p].ticket = t,
                 stream'[t] = Append(stream[t], call[p].event)
          PROVE  Secured(t, m)'
      <3>1. call[p].event \in Events
        BY <2>3, CallFields DEF Steps, TypeInv
      <3>2. Entries(stream'[t]) = Entries(stream[t]) \cup {call[p].event}
        BY <2>0, <2>3, <3>1, EntriesAppend
      <3>3. ToldMatched(t, m) \/ call[p].event = Matched(m)
        BY <1>3, <3>2 DEF ToldMatched
      <3> QED
        BY <1>1, <2>3, <3>3, SecuredStays DEF MatchedSecured, Steps
    <2> QED
      BY <2>1, <2>2, <2>3, StreamStep
  <1>4. CASE snapshot'[t] = Matched(m)
    <2>1. snapshot[t] = Matched(m) \/ \E p \in Callers :
             call[p].step \in Steps /\ call[p].ticket = t /\ call[p].event = Matched(m)
      BY <1>2, <1>4, SnapshotStep DEF Steps
    <2> QED
      BY <1>1, <2>1, SecuredStays DEF MatchedSecured
  <1>5. ASSUME NEW p \in Callers, call'[p] # NoCall, call'[p].ticket = t,
               call'[p].event = Matched(m)
        PROVE  Secured(t, m)'
    <2>1. CASE call[p] # NoCall /\ call[p].event = Matched(m) /\ call[p].ticket = t
      BY <2>1, SecuredStays DEF MatchedSecured
    <2>2. CASE /\ p \in Workers
               /\ pc[p] = "assign"
               /\ matchID[p] = m
               /\ t \in todo[p]
               /\ assignments'[PlayerOf[t]] = m
      BY <2>2, PutSecures
    <2> QED
      BY <1>5, <2>1, <2>2, MatchedCallStep
  <1> QED
    BY <1>3, <1>4, <1>5

\* pair allocates a roster for its whole group, and secures what it counts.
LEMMA PairStep ==
    ASSUME MatchInv, [Next]_vars
    PROVE  PairSecured'
  <1> USE DEF MatchInv, QueueInv, SafetyInv
  <1> DEFINE Pair(w) ==
           /\ pc[w] # "idle" => group[w] # {}
           /\ pc[w] # "assign" => paired[w] = {}
           /\ pc[w] = "assign" =>
                 /\ roster[matchID[w]] = group[w]
                 /\ \A t \in paired[w] : Secured(t, matchID[w])
  <1> SUFFICES ASSUME NEW w \in Workers PROVE Pair(w)'
    BY DEF PairSecured
  <1>0. Pair(w)
    BY DEF PairSecured
  <1>1. ASSUME pc'[w] = pc[w], group'[w] = group[w], matchID'[w] = matchID[w],
               \A t \in paired'[w] :
                  \/ t \in paired[w]
                  \/ t \in todo[w] /\ pc[w] = "assign" /\ assignments'[PlayerOf[t]] = matchID[w]
        PROVE  Pair(w)'
    <2>1. CASE pc[w] # "assign"
      BY <1>0, <1>1, <2>1
    <2>2. CASE pc[w] = "assign"
      <3>1. PICK m \in Matches : m = matchID[w]
        BY <2>2 DEF TypeInv, AssignHasMatch
      <3>2. roster'[m] = group'[w] /\ group'[w] # {}
        BY <1>0, <1>1, <2>2, <3>1, RosterStep
      <3>3. ASSUME NEW t \in paired'[w] PROVE Secured(t, m)'
        <4>1. CASE t \in paired[w]
          <5>1. t \in Tickets /\ Secured(t, m)
            BY <1>0, <2>2, <3>1, <4>1 DEF TypeInv, TypeOK
          <5> QED
            BY <5>1, SecuredStays
        <4>2. CASE t \in todo[w] /\ assignments'[PlayerOf[t]] = matchID[w]
          BY <2>2, <3>1, <4>2, PutSecures
        <4> QED
          BY <1>1, <3>3, <4>1, <4>2
      <3>4. \A t \in paired'[w] : Secured(t, matchID[w])'
        BY <1>1, <3>1, <3>3 DEF Secured, Recoverable
      <3> QED
        BY <1>1, <2>2, <3>1, <3>2, <3>4
    <2> QED
      BY <2>1, <2>2
  <1>2. CASE UNCHANGED workerVars
    BY <1>1, <1>2 DEF workerVars
  <1>3. ASSUME NEW v \in Workers, ReadPending(v) \/ pair(v) \/ Abort(v) PROVE Pair(w)'
    <2>1. CASE v # w
      <3>1. /\ pc'[w] = pc[w]
            /\ group'[w] = group[w]
            /\ matchID'[w] = matchID[w]
            /\ paired'[w] = paired[w]
        <4>1. CASE EndPair(v)
          BY <2>1, <4>1 DEF EndPair, TypeInv, TypeOK
        <4>2. CASE ReadPending(v)
          BY <2>1, <4>2 DEF ReadPending, TypeInv, TypeOK
        <4>3. CASE Claim(v) /\ ~EndPair(v)
          BY <2>1, <4>3 DEF Claim, TypeInv, TypeOK
        <4>4. CASE Allocate(v)
          BY <2>1, <4>4 DEF Allocate, Reserve, TypeInv, TypeOK
        <4>5. CASE NotifyFailed(v)
          BY <4>5 DEF NotifyFailed
        <4>6. CASE AssignTicket(v)
          BY <2>1, <4>6 DEF AssignTicket, TypeInv, TypeOK
        <4> QED
          BY <1>3, <4>1, <4>2, <4>3, <4>4, <4>5, <4>6 DEF pair, FinishPair, Abort
      <3> QED
        BY <1>1, <3>1
    <2>2. CASE v = w /\ EndPair(w)
      BY <2>2 DEF EndPair, TypeInv, TypeOK
    <2>3. CASE v = w /\ ReadPending(w)
      <3>1. PICK g \in SUBSET Tickets : GroupOK(g) /\ group' = [group EXCEPT ![w] = g]
        BY <2>3 DEF ReadPending, TypeInv, TypeOK
      <3>2. g # {}
        BY <3>1, SizeAssumption, FS_EmptySet DEF GroupOK
      <3> QED
        BY <1>0, <2>3, <3>1, <3>2 DEF ReadPending, TypeInv, TypeOK
    <2>4. CASE v = w /\ Claim(w) /\ ~EndPair(w)
      BY <1>0, <2>4 DEF Claim, TypeInv, TypeOK
    <2>5. CASE v = w /\ Allocate(w)
      <3>1. group[w] # {} /\ paired'[w] = {} /\ group'[w] = group[w]
        BY <1>0, <2>5 DEF Allocate
      <3>2. CASE \E m \in Matches : Reserve(w, m)
        BY <2>5, <3>1, <3>2 DEF Allocate, Reserve, TypeInv, TypeOK
      <3>3. CASE pc' = [pc EXCEPT ![w] = "notify"]
        BY <2>5, <3>1, <3>3 DEF TypeInv, TypeOK
      <3> QED
        BY <2>5, <3>2, <3>3 DEF Allocate
    <2>6. CASE v = w /\ NotifyFailed(w)
      BY <1>1, <2>6 DEF NotifyFailed
    <2>7. CASE v = w /\ AssignTicket(w)
      <3>1. PICK t \in todo[w] :
               \/ paired' = paired
               \/ Put(PlayerOf[t], matchID[w]) /\ paired' = [paired EXCEPT ![w] = @ \cup {t}]
        BY <2>7 DEF AssignTicket
      <3>2. PlayerOf[t] \in Players
        BY TicketAssumption DEF TypeInv, TypeOK
      <3>3. \A u \in paired'[w] :
               u \in paired[w] \/ (u = t /\ assignments'[PlayerOf[t]] = matchID[w])
        BY <3>1, <3>2 DEF Put, TypeInv, TypeOK
      <3> QED
        BY <1>1, <2>7, <3>3 DEF AssignTicket
    <2> QED
      BY <1>3, <2>1, <2>2, <2>3, <2>4, <2>5, <2>6, <2>7 DEF pair, FinishPair, Abort
  <1> HIDE DEF Pair
  <1> QED
    BY <1>2, <1>3, OthersLeaveWorkers DEF Next, processMode, Callers, vars

\* A match is counted only when its whole roster is secured.
LEMMA CountedStep ==
    ASSUME MatchInv, [Next]_vars
    PROVE  CountedFullyFormed'
  <1> USE DEF MatchInv, QueueInv, SafetyInv
  <1> SUFFICES ASSUME NEW m \in counted'
               PROVE  roster'[m] # {} /\ \A t \in roster'[m] : Recoverable(t, m)'
    BY DEF CountedFullyFormed
  <1>0. counted \subseteq Matches
    BY DEF TypeInv, TypeOK
  <1>1. ASSUME NEW w \in Workers, FinishPair(w), m \notin counted
        PROVE  pc[w] = "assign" /\ paired[w] = group[w] /\ m = matchID[w]
    BY <1>1 DEF FinishPair
  <1>2. m \in counted \/ \E w \in Workers : FinishPair(w)
    <2>1. ASSUME NEW w \in Workers, ReadPending(w) \/ pair(w) \/ Abort(w), ~FinishPair(w)
          PROVE  UNCHANGED counted
      BY <2>1 DEF ReadPending, pair, Claim, Allocate, NotifyFailed, AssignTicket, Abort
    <2>2. CASE UNCHANGED workerVars
      BY <2>2 DEF workerVars
    <2> QED
      BY <2>1, <2>2, OthersLeaveWorkers DEF Next, processMode, Callers, vars
  <1>3. m \in Matches /\ roster[m] # {} /\ \A t \in roster[m] : Secured(t, m)
    <2>1. CASE m \in counted
      BY <1>0, <2>1 DEF CountedFullyFormed, Secured
    <2>2. ASSUME NEW w \in Workers, FinishPair(w), m \notin counted
          PROVE  m \in Matches /\ roster[m] # {} /\ \A t \in roster[m] : Secured(t, m)
      <3>1. pc[w] = "assign" /\ paired[w] = group[w] /\ m = matchID[w]
        BY <1>1, <2>2
      <3> QED
        BY <3>1 DEF PairSecured, TypeInv, AssignHasMatch
    <2> QED
      BY <1>2, <2>1, <2>2
  <1>4. roster'[m] = roster[m] /\ roster[m] \subseteq Tickets
    BY <1>3, RosterStep DEF TypeInv, TypeOK
  <1>5. \A t \in roster[m] : Secured(t, m)'
    BY <1>3, <1>4, SecuredStays
  <1> QED
    BY <1>3, <1>4, <1>5 DEF Secured

\* The invariant of matches holds initially and is inductive.
LEMMA MatchInductive == (Init => MatchInv) /\ (MatchInv /\ [Next]_vars => MatchInv')
  <1>1. ASSUME Init PROVE MatchInv
    <2>1. \A t \in Tickets : Entries(stream[t]) = {} /\ snapshot[t] = NoEvent
      BY <1>1 DEF Init, Entries
    <2>2. \A p \in Callers : call[p] = NoCall
      BY <1>1 DEF Init
    <2>3. \A m \in Matches : NoEvent # Matched(m)
      BY DEF NoEvent, Matched
    <2>4. MatchedSecured
      BY <2>1, <2>2, <2>3 DEF MatchedSecured, ToldMatched
    <2> QED
      BY <1>1, <2>4, QueueInit DEF MatchInv, Init, PairSecured, CountedFullyFormed
  <1>2. ASSUME MatchInv, [Next]_vars PROVE MatchInv'
    <2>1. QueueInv'
      BY <1>2, QueueStep DEF MatchInv
    <2> QED
      BY <1>2, <2>1, MatchedStep, PairStep, CountedStep DEF MatchInv
  <1> QED
    BY <1>1, <1>2

\* Whoever is told Matched, by the stream or the snapshot, is on the roster of
\* that match and its player can recover the assignment, whatever failed, died or
\* raced in between.
THEOREM MatchedIsRecoverableHolds == Spec => []MatchedIsRecoverable
  <1>1. MatchInv => MatchedIsRecoverable
    BY DEF MatchInv, MatchedSecured, MatchedIsRecoverable, Secured
  <1> QED
    BY <1>1, MatchInductive, PTL DEF Spec

\* The MatchAllocated metric counts a match only if every ticket on its roster got
\* a persisted assignment.
THEOREM CountedFullyFormedHolds == Spec => []CountedFullyFormed
  <1>1. MatchInv => CountedFullyFormed
    BY DEF MatchInv
  <1> QED
    BY <1>1, MatchInductive, PTL DEF Spec

----------------------------------------------------------------------------
(* No ticket is forgotten, as long as no matchmaker dies, no command of    *)
(* Publish, Cancel or Claim is lost and no ticket key expires; Enqueue,    *)
(* the allocator, the signer and the assignment store may still fail.      *)

Reliable == Faults \cap {"abort", "publish", "cancel", "claim", "expire"} = {}

\* A ticket's key is there from the first command of Enqueue.
LiveKeys ==
    \A t \in Tickets : enq[t] \in {"setEvent", "xadd", "zadd", "ok"} \/ stream[t] # <<>>
                          => ticket[t] = "live"

\* A matchmaker publishes to the group it works on.
PublishInGroup ==
    \A w \in Workers : call[w] # NoCall =>
        pc[w] \in {"assign", "notify"} /\ call[w].ticket \in group[w]

\* What the loop of pair has passed was told or is being told.
PassedTold ==
    \A w \in Workers : pc[w] \in {"assign", "notify"} =>
        \A t \in group[w] \ todo[w] : Told(t) \/ Publishing(w, t)

\* t has left the pool, or a Cancel is about to remove it, and its terminal event
\* is in the stream or on its way there.
Ended(t) ==
    /\ Settled(t)
    /\ t \in pending => \E c \in Cancellers : Publishing(c, t) /\ call[c].step = "zrem"
    /\ Told(t) \/ \E p \in Callers : Publishing(p, t)

\* A ticket with a terminal snapshot, and one whose Cancel returned nil, has ended.
EndedOnce == \A t \in Tickets : isTerminalEvent(snapshot[t]) \/ t \in cancelOK => Ended(t)

ReliableInv ==
    QueueInv /\ LiveKeys /\ PublishInGroup /\ PassedTold /\ NoStrandedTicket /\ EndedOnce

\* A told ticket stays told.
LEMMA ToldStays ==
    ASSUME TypeInv, [Next]_vars, NEW t \in Tickets, Told(t)
    PROVE  Told(t)'
  <1>1. CASE stream'[t] = stream[t]
    BY <1>1 DEF Told
  <1>2. ASSUME NEW ev \in Events, stream'[t] = Append(stream[t], ev)
        PROVE  Told(t)'
    BY <1>2, ToldAppend
  <1>3. Queued \in Events /\ \A p \in Callers : call[p].step = "xadd" => call[p].event \in Events
    BY EventTypes, CallFields DEF Steps, TypeInv
  <1> QED
    BY <1>1, <1>2, <1>3, StreamStep

\* Ticket keys are set by Enqueue and, unless they expire, stay.
LEMMA LiveKeysStep ==
    ASSUME Reliable, QueueInv, LiveKeys, [Next]_vars
    PROVE  LiveKeys'
  <1> USE DEF QueueInv, SafetyInv
  <1> SUFFICES ASSUME NEW t \in Tickets,
                      enq'[t] \in {"setEvent", "xadd", "zadd", "ok"} \/ stream'[t] # <<>>
               PROVE  ticket'[t] = "live"
    BY DEF LiveKeys
  <1>1. /\ ticket'[t] \in {ticket[t], "live"}
        /\ enq[t] = "new" /\ enq'[t] = "setEvent" => ticket'[t] = "live"
    <2>0. CASE UNCHANGED <<ticket, enq>>
      BY <2>0
    <2>1. ASSUME NEW u \in Tickets, CreateTicket(u)
          PROVE  /\ ticket'[t] \in {ticket[t], "live"}
                 /\ enq[t] = "new" /\ enq'[t] = "setEvent" => ticket'[t] = "live"
      <3>1. CASE EnqueueSetTicket(u)
        BY <3>1 DEF EnqueueSetTicket, TypeInv, TypeOK
      <3>2. CASE UNCHANGED ticket /\ \E e : enq' = [enq EXCEPT ![u] = e] /\ e # "setEvent"
        BY <3>2 DEF TypeInv, TypeOK
      <3> QED
        BY <2>1, <3>1, <3>2 DEF CreateTicket, RejectTicket, Enqueue, EnqueueSetEvent, EnqueueXAdd,
               EnqueueZAdd, queueVars
    <2>2. ASSUME NEW u \in Tickets, WatchTicket(u) \/ ExpireTicket(u) PROVE UNCHANGED <<ticket, enq>>
      BY <2>2 DEF WatchTicket, Subscribe, Deliver, StopWatching, ExpireTicket, queueVars, Reliable
    <2>3. ASSUME NEW c \in Cancellers, Cancel(c) PROVE UNCHANGED <<ticket, enq>>
      BY <2>3 DEF Cancel, CancelTicket, CancelGetTicket, CancelLatestEvent, queueVars
    <2>4. ASSUME NEW p \in Callers, Publish(p) PROVE UNCHANGED <<ticket, enq>>
      BY <2>4 DEF Publish, PublishGetTicket, setEvent, zremPending, xaddEvent, queueVars
    <2>5. ASSUME NEW w \in Workers, ReadPending(w) \/ pair(w) \/ Abort(w)
          PROVE  UNCHANGED <<ticket, enq>>
      BY <2>5 DEF ReadPending, pair, Claim, Allocate, NotifyFailed, AssignTicket, FinishPair,
             Abort, queueVars
    <2> QED
      BY <2>0, <2>1, <2>2, <2>3, <2>4, <2>5 DEF Next, processMode, Callers, vars, queueVars
  <1>2. CASE enq'[t] \in {"setEvent", "xadd", "zadd", "ok"}
    BY <1>1, <1>2, EnqStep DEF LiveKeys
  <1>3. CASE stream'[t] # <<>>
    <2>1. CASE enq[t] = "xadd" \/ stream[t] # <<>>
      BY <1>1, <2>1 DEF LiveKeys
    <2>2. CASE enq[t] # "xadd" /\ stream[t] = <<>>
      <3>1. PICK p \in Callers : call[p].step = "xadd" /\ call[p].ticket = t
        BY <1>3, <2>2, StreamStep
      <3> QED
        BY <2>2, <3>1 DEF Announcement, Announced, NoCall
    <2> QED
      BY <2>1, <2>2
  <1> QED
    BY <1>2, <1>3

\* Without lost commands no call of Publish or Cancel fails.
LEMMA NoCallFails == ASSUME Reliable, NEW p \in Callers PROVE ~CallFails(p)
  BY DEF Reliable, CallFails

\* A call past its checks goes on until it has appended its event, and one at
\* its ZREM stays there until the ticket is out of the pool.
LEMMA PublishingStep ==
    ASSUME Reliable, QueueInv, LiveKeys, [Next]_vars, NEW p \in Callers, NEW t \in Tickets,
           Publishing(p, t)
    PROVE  /\ Publishing(p, t)' \/ Told(t)'
           /\ call[p].step = "zrem" => call'[p] = call[p] \/ t \notin pending'
  <1> USE DEF QueueInv, SafetyInv
  <1> DEFINE Goal == /\ Publishing(p, t)' \/ Told(t)'
                     /\ call[p].step = "zrem" => call'[p] = call[p] \/ t \notin pending'
  <1> SUFFICES Goal
    OBVIOUS
  <1>0. /\ call[p].step \in {"getTicket", "setEvent", "zrem", "xadd"}
        /\ call[p].ticket = t
        /\ call[p] # NoCall
    BY DEF Publishing, NoCall
  <1>1. call[p] \in [step : Steps, ticket : Tickets, event : TerminalEvents]
    BY <1>0, CallFields DEF TypeInv, Steps
  <1>2. ticket[t] = "live"
    BY <1>0 DEF Announcement, Announced, LiveKeys
  <1>3. ASSUME call'[p] = call[p] PROVE Goal
    BY <1>0, <1>3 DEF Publishing
  <1>4. ASSUME NEW s \in {"setEvent", "zrem", "xadd"}, Goto(p, s),
               call[p].step = "zrem" => t \notin pending'
        PROVE  Goal
    <2>1. call' = [call EXCEPT ![p] = [call[p] EXCEPT !.step = s]]
      BY <1>4 DEF Goto
    <2>2. call'[p] = [call[p] EXCEPT !.step = s]
      BY <2>1 DEF TypeInv, TypeOK
    <2>3. call'[p].step = s /\ call'[p].ticket = t
      BY <1>0, <1>1, <2>2
    <2> QED
      BY <1>4, <2>3 DEF Publishing
  <1>5. ASSUME NEW u \in Tickets, CreateTicket(u) \/ WatchTicket(u) \/ ExpireTicket(u)
        PROVE  call'[p] = call[p]
    BY <1>5 DEF CreateTicket, RejectTicket, Enqueue, EnqueueSetTicket, EnqueueSetEvent,
           EnqueueXAdd, EnqueueZAdd, WatchTicket, Subscribe, Deliver, StopWatching, ExpireTicket
  <1>6. ASSUME NEW q \in Callers, q # p,
               \/ \E s : Goto(q, s)
               \/ \E ok \in BOOLEAN : Return(q, ok)
               \/ \E c : call' = [call EXCEPT ![q] = c]
        PROVE  call'[p] = call[p]
    BY <1>6 DEF Goto, Return, TypeInv, TypeOK
  <1>7. ASSUME NEW c \in Cancellers, Cancel(c) PROVE call'[p] = call[p]
    <2>1. c \in Callers /\ ~CallFails(c)
      BY NoCallFails DEF Callers
    <2>2. c # p
      BY <1>0, <1>7 DEF Cancel, CancelTicket, CancelGetTicket, CancelLatestEvent
    <2> QED
      BY <1>6, <1>7, <2>1, <2>2 DEF Cancel, CancelTicket, CancelGetTicket, CancelLatestEvent
  <1>8. ASSUME NEW q \in Callers, q # p, Publish(q) PROVE call'[p] = call[p]
    <2>1. ~CallFails(q)
      BY NoCallFails
    <2> QED
      BY <1>6, <1>8, <2>1 DEF Publish, PublishGetTicket, setEvent, zremPending, xaddEvent
  <1>9. CASE Publish(p)
    <2>0. ~CallFails(p)
      BY NoCallFails
    <2>1. CASE PublishGetTicket(p)
      <3>1. Goto(p, "setEvent") /\ call[p].step = "getTicket"
        BY <1>0, <1>2, <2>0, <2>1 DEF PublishGetTicket
      <3> QED
        BY <1>4, <3>1
    <2>2. CASE setEvent(p)
      <3>1. Goto(p, "zrem") /\ call[p].step = "setEvent"
        BY <2>0, <2>2 DEF setEvent
      <3> QED
        BY <1>4, <3>1
    <2>3. CASE zremPending(p)
      <3>1. Goto(p, "xadd") /\ t \notin pending'
        BY <1>0, <2>0, <2>3 DEF zremPending
      <3> QED
        BY <1>4, <3>1
    <2>4. CASE xaddEvent(p)
      <3>1. /\ call[p].step = "xadd"
            /\ stream' = [stream EXCEPT ![call[p].ticket] = Append(@, call[p].event)]
        BY <2>0, <2>4 DEF xaddEvent
      <3>2. stream'[t] = Append(stream[t], call[p].event)
        BY <1>0, <3>1 DEF TypeInv, TypeOK
      <3>3. call[p].event \in Events /\ isTerminalEvent(call[p].event)
        BY <1>1, EventTypes, EventKinds
      <3>4. Told(t)'
        BY <3>2, <3>3, ToldAppend
      <3> QED
        BY <3>1, <3>4
    <2> QED
      BY <1>9, <2>1, <2>2, <2>3, <2>4 DEF Publish
  <1>10. ASSUME NEW w \in Workers, ReadPending(w) \/ pair(w) \/ Abort(w) PROVE call'[p] = call[p]
    <2>1. CASE UNCHANGED call
      BY <2>1
    <2>2. CASE NotifyFailed(w) \/ AssignTicket(w)
      <3>1. w \in Callers /\ w # p /\ \E c : call' = [call EXCEPT ![w] = c]
        BY <1>0, <2>2 DEF NotifyFailed, AssignTicket, Callers
      <3> QED
        BY <1>6, <3>1
    <2>3. ~Abort(w)
      BY DEF Abort, Reliable
    <2> QED
      BY <1>10, <2>1, <2>2, <2>3 DEF ReadPending, pair, Claim, Allocate, FinishPair
  <1> HIDE DEF Goal
  <1> QED
    BY <1>3, <1>5, <1>7, <1>8, <1>9, <1>10 DEF Next, processMode, Callers, vars

\* A matchmaker moves only on its own steps, and while it is in a Publish call
\* only that call moves.
LEMMA BusyWorker ==
    ASSUME Reliable, TypeInv, PublishInGroup, [Next]_vars, NEW w \in Workers, call[w] # NoCall
    PROVE  pc'[w] = pc[w] /\ group'[w] = group[w] /\ todo'[w] = todo[w]
  <1>0. pc[w] \in {"assign", "notify"}
    BY DEF PublishInGroup
  <1>1. CASE UNCHANGED workerVars
    BY <1>1 DEF workerVars
  <1>2. ASSUME NEW v \in Workers, ReadPending(v) \/ pair(v) \/ Abort(v)
        PROVE  pc'[w] = pc[w] /\ group'[w] = group[w] /\ todo'[w] = todo[w]
    <2>1. v # w
      BY <1>0, <1>2 DEF ReadPending, pair, Claim, Allocate, NotifyFailed, AssignTicket,
             FinishPair, Abort, Reliable
    <2>2. CASE EndPair(v)
      BY <2>1, <2>2 DEF EndPair, TypeInv, TypeOK
    <2>3. CASE ReadPending(v)
      BY <2>1, <2>3 DEF ReadPending, TypeInv, TypeOK
    <2>4. CASE Claim(v) /\ ~EndPair(v)
      BY <2>1, <2>4 DEF Claim, TypeInv, TypeOK
    <2>5. CASE Allocate(v)
      BY <2>1, <2>5 DEF Allocate, TypeInv, TypeOK
    <2>6. CASE NotifyFailed(v) \/ AssignTicket(v)
      BY <2>1, <2>6 DEF NotifyFailed, AssignTicket, TypeInv, TypeOK
    <2> QED
      BY <1>2, <2>2, <2>3, <2>4, <2>5, <2>6 DEF pair, FinishPair, Abort
  <1> QED
    BY <1>1, <1>2, OthersLeaveWorkers DEF Next, processMode, Callers, vars

\* A matchmaker's Publish calls stay within the group it works on.
LEMMA PublishInGroupStep ==
    ASSUME Reliable, QueueInv, PublishInGroup, [Next]_vars
    PROVE  PublishInGroup'
  <1> USE DEF QueueInv, SafetyInv
  <1> SUFFICES ASSUME NEW w \in Workers, call'[w] # NoCall
               PROVE  pc'[w] \in {"assign", "notify"} /\ call'[w].ticket \in group'[w]
    BY DEF PublishInGroup
  <1>0. w \in Callers /\ w \notin Cancellers
    BY CallerAssumption DEF Callers
  <1>1. CASE call'[w] = call[w]
    BY <1>1, BusyWorker DEF PublishInGroup
  <1>2. CASE call[w].step \in Steps /\ \E s \in Steps : call'[w] = [call[w] EXCEPT !.step = s]
    <2>1. call[w] \in [step : Steps, ticket : Tickets, event : TerminalEvents]
      BY <1>0, <1>2, CallFields DEF TypeInv
    <2>2. call'[w].ticket = call[w].ticket /\ call[w] # NoCall
      BY <1>2, <2>1 DEF NoCall, Steps
    <2> QED
      BY <2>2, BusyWorker DEF PublishInGroup
  <1>3. ASSUME pc[w] \in {"assign", "notify"}, NotifyFailed(w) \/ AssignTicket(w),
               NEW t \in todo[w], NEW ev, call'[w] = Call("getTicket", t, ev)
        PROVE  pc'[w] \in {"assign", "notify"} /\ call'[w].ticket \in group'[w]
    <2>1. UNCHANGED <<pc, group>> /\ call'[w].ticket = t
      BY <1>3 DEF NotifyFailed, AssignTicket, Call
    <2> QED
      BY <1>3, <2>1 DEF LoopInGroup
  <1> QED
    BY <1>0, <1>1, <1>2, <1>3, CallStep

\* The loop of pair passes a ticket by starting to publish to it.
LEMMA TodoStep ==
    ASSUME TypeInv, [Next]_vars, NEW w \in Workers, NEW t \in todo[w], t \notin todo'[w],
           pc'[w] = pc[w], pc[w] \in {"assign", "notify"}
    PROVE  Publishing(w, t)'
  <1>1. ASSUME NEW v \in Workers, ReadPending(v) \/ pair(v) \/ Abort(v)
        PROVE  v = w /\ (NotifyFailed(w) \/ AssignTicket(w))
    <2>1. CASE EndPair(v)
      BY <2>1 DEF EndPair, TypeInv, TypeOK
    <2>2. CASE Allocate(v)
      BY <2>2 DEF Allocate, TypeInv, TypeOK
    <2>3. CASE NotifyFailed(v) \/ AssignTicket(v)
      BY <2>3 DEF NotifyFailed, AssignTicket, TypeInv, TypeOK
    <2> QED
      BY <1>1, <2>1, <2>2, <2>3 DEF ReadPending, pair, Claim, FinishPair, Abort
  <1>2. ~UNCHANGED workerVars
    BY DEF workerVars
  <1>3. NotifyFailed(w) \/ AssignTicket(w)
    BY <1>1, <1>2, OthersLeaveWorkers DEF Next, processMode, Callers, vars
  <1>4. PICK u \in todo[w] : \E ev :
           /\ todo' = [todo EXCEPT ![w] = @ \ {u}]
           /\ call' = [call EXCEPT ![w] = Call("getTicket", u, ev)]
    BY <1>3 DEF NotifyFailed, AssignTicket
  <1>5. u = t
    BY <1>4 DEF TypeInv, TypeOK
  <1> QED
    BY <1>4, <1>5 DEF Publishing, Call, TypeInv, TypeOK, Callers

\* What the loop of pair has passed is told, or still being told.
LEMMA PassedToldStep ==
    ASSUME Reliable, QueueInv, LiveKeys, PassedTold, [Next]_vars
    PROVE  PassedTold'
  <1> USE DEF QueueInv, SafetyInv
  <1> SUFFICES ASSUME NEW w \in Workers, pc'[w] \in {"assign", "notify"},
                      NEW t \in group'[w] \ todo'[w]
               PROVE  Told(t)' \/ Publishing(w, t)'
    BY DEF PassedTold
  <1>1. group'[w] = group[w] /\ pc[w] = pc'[w] /\ t \in Tickets /\ w \in Callers
    BY HeldStep DEF TypeInv, TypeOK, Callers
  <1>2. CASE t \in todo[w]
    BY <1>1, <1>2, TodoStep
  <1>3. CASE t \notin todo[w]
    <2>1. Told(t) \/ Publishing(w, t)
      BY <1>1, <1>3 DEF PassedTold
    <2> QED
      BY <1>1, <2>1, ToldStays, PublishingStep
  <1> QED
    BY <1>2, <1>3

\* A ticket leaves the pool into the hands of a matchmaker or of a call.
LEMMA LeaveStep ==
    ASSUME Reliable, QueueInv, [Next]_vars, NEW t \in pending, t \notin pending'
    PROVE  (\E w \in Workers : t \in Held(w)') \/ (\E p \in Callers : Publishing(p, t)')
  <1> USE DEF QueueInv, SafetyInv
  <1>1. ASSUME NEW u \in Tickets, CreateTicket(u) \/ WatchTicket(u) \/ ExpireTicket(u) PROVE FALSE
    BY <1>1 DEF CreateTicket, RejectTicket, Enqueue, EnqueueSetTicket, EnqueueSetEvent,
           EnqueueXAdd, EnqueueZAdd, WatchTicket, Subscribe, Deliver, StopWatching, ExpireTicket,
           queueVars
  <1>2. ASSUME NEW c \in Cancellers, Cancel(c) PROVE FALSE
    BY <1>2 DEF Cancel, CancelTicket, CancelGetTicket, CancelLatestEvent, queueVars
  <1>3. ASSUME NEW p \in Callers, Publish(p) PROVE Publishing(p, t)'
    <2>1. call[p].step = "zrem" /\ call[p].ticket = t /\ Goto(p, "xadd")
      BY <1>3, NoCallFails DEF Publish, PublishGetTicket, setEvent, zremPending, xaddEvent,
             queueVars
    <2>2. call[p] \in [step : Steps, ticket : Tickets, event : TerminalEvents]
      BY <2>1, CallFields DEF TypeInv, Steps
    <2>3. call' = [call EXCEPT ![p] = [call[p] EXCEPT !.step = "xadd"]]
      BY <2>1 DEF Goto
    <2>4. call'[p] = [call[p] EXCEPT !.step = "xadd"]
      BY <2>3 DEF TypeInv, TypeOK
    <2>5. call'[p].step = "xadd" /\ call'[p].ticket = t
      BY <2>1, <2>2, <2>4
    <2> QED
      BY <2>5 DEF Publishing
  <1>4. ASSUME NEW w \in Workers, ReadPending(w) \/ pair(w) \/ Abort(w) PROVE t \in Held(w)'
    <2>1. Claim(w)
      BY <1>4 DEF ReadPending, pair, Allocate, NotifyFailed, AssignTicket, FinishPair, Abort,
             queueVars
    <2> QED
      BY <2>1 DEF Claim, Held, Reliable, TypeInv, TypeOK
  <1> QED
    BY <1>1, <1>2, <1>3, <1>4 DEF Next, processMode, Callers, vars, queueVars

\* A matchmaker lets go of its group only when it has published to all of it.
LEMMA ReleaseTold ==
    ASSUME Reliable, QueueInv, PassedTold, [Next]_vars, NEW w \in Workers, NEW t \in Held(w),
           t \notin Held(w)'
    PROVE  Told(t)
  <1> USE DEF QueueInv, SafetyInv
  <1>1. ASSUME NEW v \in Workers, ReadPending(v) \/ pair(v) \/ Abort(v)
        PROVE  v = w /\ FinishPair(w)
    <2>1. CASE FinishPair(v)
      BY <2>1 DEF FinishPair, EndPair, Held, TypeInv, TypeOK
    <2>2. CASE ReadPending(v)
      BY <2>2 DEF ReadPending, Held, TypeInv, TypeOK
    <2>3. CASE Claim(v)
      BY <2>3 DEF Claim, EndPair, Held, TypeInv, TypeOK
    <2>4. CASE Allocate(v)
      BY <2>4 DEF Allocate, Held, TypeInv, TypeOK
    <2>5. CASE NotifyFailed(v) \/ AssignTicket(v)
      BY <2>5 DEF NotifyFailed, AssignTicket, Held
    <2>6. ~Abort(v)
      BY DEF Abort, Reliable
    <2> QED
      BY <1>1, <2>1, <2>2, <2>3, <2>4, <2>5, <2>6 DEF pair
  <1>2. ~UNCHANGED workerVars
    BY DEF workerVars, Held
  <1>3. FinishPair(w)
    BY <1>1, <1>2, OthersLeaveWorkers DEF Next, processMode, Callers, vars
  <1>4. ~Publishing(w, t)
    BY <1>3 DEF FinishPair, Publishing, NoCall
  <1> QED
    BY <1>3, <1>4 DEF FinishPair, PassedTold, Held

\* No step forgets a ticket.
LEMMA NoStrandedStep ==
    ASSUME Reliable, QueueInv, LiveKeys, PassedTold, NoStrandedTicket, [Next]_vars
    PROVE  NoStrandedTicket'
  <1> USE DEF QueueInv, SafetyInv
  <1> SUFFICES ASSUME NEW t \in Tickets, enq'[t] = "ok", t \notin pending'
               PROVE  \/ Told(t)'
                      \/ \E w \in Workers : t \in Held(w)'
                      \/ \E p \in Callers : Publishing(p, t)'
    BY DEF NoStrandedTicket
  <1>1. enq[t] = "ok"
    <2> SUFFICES ASSUME enq[t] # "ok" PROVE FALSE
      OBVIOUS
    <2>1. ASSUME NEW u \in Tickets, CreateTicket(u) PROVE FALSE
      BY <2>1 DEF CreateTicket, RejectTicket, Enqueue, EnqueueSetTicket, EnqueueSetEvent,
             EnqueueXAdd, EnqueueZAdd, TypeInv, TypeOK
    <2>2. ASSUME NEW u \in Tickets, WatchTicket(u) \/ ExpireTicket(u) PROVE FALSE
      BY <2>2 DEF WatchTicket, Subscribe, Deliver, StopWatching, ExpireTicket
    <2>3. ASSUME NEW c \in Cancellers, Cancel(c) PROVE FALSE
      BY <2>3 DEF Cancel, CancelTicket, CancelGetTicket, CancelLatestEvent
    <2>4. ASSUME NEW p \in Callers, Publish(p) PROVE FALSE
      BY <2>4 DEF Publish, PublishGetTicket, setEvent, zremPending, xaddEvent
    <2>5. ASSUME NEW w \in Workers, ReadPending(w) \/ pair(w) \/ Abort(w) PROVE FALSE
      BY <2>5 DEF ReadPending, pair, Claim, Allocate, NotifyFailed, AssignTicket, FinishPair, Abort
    <2> QED
      BY <2>1, <2>2, <2>3, <2>4, <2>5 DEF Next, processMode, Callers, vars
  <1>2. CASE t \in pending
    BY <1>2, LeaveStep
  <1>3. CASE Told(t)
    BY <1>3, ToldStays
  <1>4. ASSUME NEW w \in Workers, t \in Held(w) PROVE Told(t)' \/ t \in Held(w)'
    BY <1>4, ReleaseTold, ToldStays
  <1>5. ASSUME NEW p \in Callers, Publishing(p, t) PROVE Told(t)' \/ Publishing(p, t)'
    BY <1>5, PublishingStep
  <1> QED
    BY <1>1, <1>2, <1>3, <1>4, <1>5 DEF NoStrandedTicket

\* A terminal snapshot is written by a call that goes on to its ZREM.
LEMMA SetEventStep ==
    ASSUME Reliable, QueueInv, [Next]_vars, NEW t \in Tickets,
           isTerminalEvent(snapshot'[t]), ~isTerminalEvent(snapshot[t])
    PROVE  \E p \in Callers :
              /\ call[p] # NoCall /\ call[p].ticket = t
              /\ Publishing(p, t)' /\ call'[p].step = "zrem"
  <1> USE DEF QueueInv, SafetyInv
  <1>1. PICK p \in Callers : setEvent(p)
    <2>1. ASSUME NEW u \in Tickets, CreateTicket(u) PROVE FALSE
      <3>1. snapshot' = snapshot \/ snapshot' = [snapshot EXCEPT ![u] = Queued]
        BY <2>1 DEF CreateTicket, RejectTicket, Enqueue, EnqueueSetTicket, EnqueueSetEvent,
               EnqueueXAdd, EnqueueZAdd, queueVars
      <3>2. snapshot'[t] = snapshot[t] \/ snapshot'[t] = Queued
        BY <3>1 DEF TypeInv, TypeOK
      <3> QED
        BY <3>2, EventKinds
    <2>2. ASSUME NEW u \in Tickets, WatchTicket(u) \/ ExpireTicket(u) PROVE FALSE
      BY <2>2 DEF WatchTicket, Subscribe, Deliver, StopWatching, ExpireTicket, queueVars
    <2>3. ASSUME NEW c \in Cancellers, Cancel(c) PROVE FALSE
      BY <2>3 DEF Cancel, CancelTicket, CancelGetTicket, CancelLatestEvent, queueVars
    <2>4. ASSUME NEW p \in Callers, Publish(p) PROVE setEvent(p)
      BY <2>4 DEF Publish, PublishGetTicket, zremPending, xaddEvent, queueVars
    <2>5. ASSUME NEW w \in Workers, ReadPending(w) \/ pair(w) \/ Abort(w) PROVE FALSE
      BY <2>5 DEF ReadPending, pair, Claim, Allocate, NotifyFailed, AssignTicket, FinishPair,
             Abort, queueVars
    <2> QED
      BY <2>1, <2>2, <2>3, <2>4, <2>5 DEF Next, processMode, Callers, vars, queueVars
  <1>2. /\ call[p].step = "setEvent"
        /\ snapshot' = [snapshot EXCEPT ![call[p].ticket] = call[p].event]
        /\ Goto(p, "zrem")
    BY <1>1, NoCallFails DEF setEvent
  <1>3. call[p] \in [step : Steps, ticket : Tickets, event : TerminalEvents] /\ call[p] # NoCall
    BY <1>2, CallFields DEF TypeInv, Steps, NoCall
  <1>4. call[p].ticket = t
    BY <1>2, <1>3 DEF TypeInv, TypeOK
  <1>5. call' = [call EXCEPT ![p] = [call[p] EXCEPT !.step = "zrem"]]
    BY <1>2 DEF Goto
  <1>6. call'[p] = [call[p] EXCEPT !.step = "zrem"]
    BY <1>5 DEF TypeInv, TypeOK
  <1>7. call'[p].step = "zrem" /\ call'[p].ticket = t
    BY <1>3, <1>4, <1>6
  <1> QED
    BY <1>3, <1>4, <1>7 DEF Publishing

\* Cancel returns nil after its own event is in the stream, or when it found a
\* terminal snapshot.
LEMMA CancelOKStep ==
    ASSUME Reliable, QueueInv, [Next]_vars, NEW t \in cancelOK', t \notin cancelOK
    PROVE  /\ t \in Tickets
           /\ \/ isTerminalEvent(snapshot[t])
              \/ Told(t)' /\ \E p \in Callers : call[p].step = "xadd" /\ call[p].ticket = t
  <1> USE DEF QueueInv, SafetyInv
  <1>1. ASSUME NEW u \in Tickets, CreateTicket(u) \/ WatchTicket(u) \/ ExpireTicket(u) PROVE FALSE
    BY <1>1 DEF CreateTicket, RejectTicket, Enqueue, EnqueueSetTicket, EnqueueSetEvent,
           EnqueueXAdd, EnqueueZAdd, WatchTicket, Subscribe, Deliver, StopWatching, ExpireTicket
  <1>2. ASSUME NEW w \in Workers, ReadPending(w) \/ pair(w) \/ Abort(w) PROVE FALSE
    BY <1>2 DEF ReadPending, pair, Claim, Allocate, NotifyFailed, AssignTicket, FinishPair, Abort
  <1>3. ASSUME NEW c \in Cancellers, Cancel(c)
        PROVE  t \in Tickets /\ isTerminalEvent(snapshot[t])
    <2>1. c \in Callers
      BY DEF Callers
    <2>2. CancelLatestEvent(c) /\ isTerminalEvent(snapshot[call[c].ticket]) /\ t = call[c].ticket
      BY <1>3, <2>1, NoCallFails DEF Cancel, CancelTicket, CancelGetTicket, CancelLatestEvent, Return
    <2> QED
      BY <2>1, <2>2, CallFields DEF CancelLatestEvent, Steps, TypeInv
  <1>4. ASSUME NEW p \in Callers, Publish(p)
        PROVE  t \in Tickets /\ Told(t)' /\ call[p].step = "xadd" /\ call[p].ticket = t
    <2>1. /\ call[p].step = "xadd"
          /\ t = call[p].ticket
          /\ stream' = [stream EXCEPT ![call[p].ticket] = Append(@, call[p].event)]
      BY <1>4, NoCallFails DEF Publish, PublishGetTicket, setEvent, zremPending, xaddEvent, Return
    <2>2. call[p] \in [step : Steps, ticket : Tickets, event : TerminalEvents]
      BY <2>1, CallFields DEF TypeInv, Steps
    <2>3. t \in Tickets /\ call[p].event \in Events /\ isTerminalEvent(call[p].event)
      BY <2>1, <2>2, EventTypes, EventKinds
    <2>4. stream'[t] = Append(stream[t], call[p].event)
      BY <2>1, <2>3 DEF TypeInv, TypeOK
    <2> QED
      BY <2>1, <2>3, <2>4, ToldAppend
  <1> QED
    BY <1>1, <1>2, <1>3, <1>4 DEF Next, processMode, Callers, vars

\* A ticket that has ended stays ended.
LEMMA EndedStays ==
    ASSUME Reliable, QueueInv, LiveKeys, [Next]_vars, NEW t \in Tickets, Ended(t)
    PROVE  Ended(t)'
  <1> USE DEF QueueInv, SafetyInv
  <1>1. Settled(t)'
    BY AnnouncedStays DEF Ended
  <1>2. ASSUME t \in pending'
        PROVE  \E c \in Cancellers : Publishing(c, t)' /\ call'[c].step = "zrem"
    <2>1. t \in pending
      BY <1>2, PendingStep DEF Ended, Settled
    <2>2. PICK c \in Cancellers : Publishing(c, t) /\ call[c].step = "zrem"
      BY <2>1 DEF Ended
    <2>3. c \in Callers
      BY DEF Callers
    <2>4. call'[c] = call[c]
      BY <1>2, <2>2, <2>3, PublishingStep
    <2> QED
      BY <2>2, <2>4 DEF Publishing
  <1>3. Told(t)' \/ \E p \in Callers : Publishing(p, t)'
    BY ToldStays, PublishingStep DEF Ended
  <1> QED
    BY <1>1, <1>2, <1>3 DEF Ended

\* A snapshot becomes terminal, and a Cancel returns nil, only for an ended ticket.
LEMMA EndedOnceStep ==
    ASSUME Reliable, QueueInv, LiveKeys, PublishInGroup, EndedOnce, [Next]_vars
    PROVE  EndedOnce'
  <1> USE DEF QueueInv, SafetyInv
  <1> SUFFICES ASSUME NEW t \in Tickets, isTerminalEvent(snapshot'[t]) \/ t \in cancelOK'
               PROVE  Ended(t)'
    BY DEF EndedOnce
  <1>1. CASE isTerminalEvent(snapshot[t]) \/ t \in cancelOK
    BY <1>1, EndedStays DEF EndedOnce
  <1>2. CASE isTerminalEvent(snapshot'[t]) /\ ~isTerminalEvent(snapshot[t])
    <2>1. PICK p \in Callers :
             /\ call[p] # NoCall /\ call[p].ticket = t
             /\ Publishing(p, t)' /\ call'[p].step = "zrem"
      BY <1>2, SetEventStep
    <2>2. Settled(t) /\ Settled(t)'
      BY <2>1, AnnouncedStays DEF Announcement, Announced
    <2>3. ASSUME p \in Workers PROVE t \notin pending'
      <3>1. t \in Held(p)
        BY <2>1, <2>3 DEF PublishInGroup, Held
      <3>2. t \notin pending
        BY <2>3, <3>1 DEF Custody
      <3> QED
        BY <2>2, <3>2, PendingStep DEF Settled
    <2> QED
      BY <2>1, <2>2, <2>3 DEF Ended, Callers
  <1>3. CASE t \in cancelOK' /\ t \notin cancelOK /\ ~isTerminalEvent(snapshot[t])
    <2>1. PICK p \in Callers : call[p].step = "xadd" /\ call[p].ticket = t /\ Told(t)'
      BY <1>3, CancelOKStep
    <2>2. Settled(t) /\ Settled(t)' /\ t \notin pending
      BY <2>1, AnnouncedStays DEF Announcement, Announced, NoCall, RemovedFirst
    <2>3. t \notin pending'
      BY <2>2, PendingStep DEF Settled
    <2> QED
      BY <2>1, <2>2, <2>3 DEF Ended
  <1> QED
    BY <1>1, <1>2, <1>3

\* Without lost commands the invariant of ended tickets is inductive.
LEMMA ReliableInductive ==
    ASSUME Reliable
    PROVE  (Init => ReliableInv) /\ (ReliableInv /\ [Next]_vars => ReliableInv')
  <1>1. ASSUME Init PROVE ReliableInv
    <2>1. \A t \in Tickets : enq[t] = "new" /\ stream[t] = <<>> /\ snapshot[t] = NoEvent
      BY <1>1 DEF Init
    <2>2. LiveKeys /\ NoStrandedTicket
      BY <2>1 DEF LiveKeys, NoStrandedTicket
    <2>3. PublishInGroup /\ PassedTold
      BY <1>1 DEF Init, PublishInGroup, PassedTold, Callers
    <2>4. ~isTerminalEvent(NoEvent)
      BY DEF isTerminalEvent, NoEvent
    <2>5. EndedOnce
      BY <1>1, <2>1, <2>4 DEF Init, EndedOnce
    <2> QED
      BY <1>1, <2>2, <2>3, <2>5, QueueInit DEF ReliableInv
  <1>2. ASSUME ReliableInv, [Next]_vars PROVE ReliableInv'
    <2>1. QueueInv'
      BY <1>2, QueueStep DEF ReliableInv
    <2> QED
      BY <1>2, <2>1, LiveKeysStep, PublishInGroupStep, PassedToldStep, NoStrandedStep,
         EndedOnceStep DEF ReliableInv
  <1> QED
    BY <1>1, <1>2

\* As long as no matchmaker dies, no command of Publish, Cancel or Claim is lost and
\* no key expires, a ticket that left the pool is never forgotten: a matchmaker
\* or a Cancel works on it or its stream holds a terminal event, although Enqueue,
\* the allocator, the signer and the assignment store may fail.
THEOREM NoStrandedTicketHolds ==
    ASSUME Reliable
    PROVE  Spec => []NoStrandedTicket
  <1>1. Init => ReliableInv
    BY ReliableInductive
  <1>2. ReliableInv /\ [Next]_vars => ReliableInv'
    BY ReliableInductive
  <1>3. ReliableInv => NoStrandedTicket
    BY DEF ReliableInv
  <1> QED
    BY <1>1, <1>2, <1>3, PTL DEF Spec

\* Under the same condition a CancelTicket that returned nil has taken the ticket
\* out of the pool, or a second Cancel of it is about to, and the ticket's
\* terminal event is in the stream or on its way there.
THEOREM CancelEndsHolds ==
    ASSUME Reliable
    PROVE  Spec => []CancelEnds
  <1>1. Init => ReliableInv
    BY ReliableInductive
  <1>2. ReliableInv /\ [Next]_vars => ReliableInv'
    BY ReliableInductive
  <1>3. ReliableInv => CancelEnds
    BY DEF ReliableInv, EndedOnce, Ended, CancelEnds, QueueInv, SafetyInv, TypeInv, TypeOK
  <1> QED
    BY <1>1, <1>2, <1>3, PTL DEF Spec
============================================================================
