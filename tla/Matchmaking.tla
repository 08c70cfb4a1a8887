---------------------------- MODULE Matchmaking ----------------------------
(***************************************************************************)
(* Matchmaking over the shared Valkey queue: gateway replicas enqueue and  *)
(* cancel tickets and stream their events, while one or more matchmaker    *)
(* workers read the pending pool, claim a group, allocate a room, persist  *)
(* the assignments and publish the outcome.                                *)
(*                                                                         *)
(* One action is one Valkey command (or one allocator or signer call): the *)
(* commands of Enqueue, Cancel and publish are not one transaction, and    *)
(* those of different replicas interleave.  Only the Claim script is       *)
(* atomic.  One game mode is modelled; modes share no key.                 *)
(***************************************************************************)
EXTENDS Naturals, Sequences, FiniteSets

CONSTANTS
    Tickets,          \* ticket ids; CreateTicket draws a fresh one per call
    Players,
    PlayerOf,         \* the player who created each ticket
    Party,            \* each ticket's normalised roster; a solo ticket's is {PlayerOf[t]}
    Workers,          \* matchmaker loops, one per gateway replica that believes it leads
    Cancellers,       \* CancelTicket calls that may be in flight together
    Matches,          \* match ids the allocator can draw; Allocate draws a fresh one
    NoMatch,
    PlayersPerMatch,
    Watched,          \* the tickets whose client calls WatchTicket
    Faults            \* which calls may fail, see FaultKinds

FaultKinds ==
    {"enqueue", "publish", "cancel", "claim", "allocate", "sign", "persist", "abort", "expire"}

ASSUME SizeAssumption == PlayersPerMatch \in Nat \ {0}
ASSUME TicketAssumption ==
    /\ PlayerOf \in [Tickets -> Players]
    /\ Party \in [Tickets -> SUBSET Players]
    /\ \A t \in Tickets : PlayerOf[t] \in Party[t]
ASSUME CallerAssumption == Workers \cap Cancellers = {}
ASSUME MatchAssumption == NoMatch \notin Matches
ASSUME WatchAssumption == Watched \subseteq Tickets
ASSUME FaultAssumption == Faults \subseteq FaultKinds

----------------------------------------------------------------------------
(* Events, as the queue stores them.  Queue depth, endpoints, tokens and   *)
(* messages are payload no property tells apart.                           *)

Queued == [type |-> "queued"]
Failed == {[type |-> "failed", reason |-> r] : r \in {"cancelled", "allocator_failed", "internal"}}
FailedFor(r) == [type |-> "failed", reason |-> r]
Matched(m) == [type |-> "matched", match |-> m]
NoEvent == [type |-> "none"]

TerminalEvents == Failed \cup {Matched(m) : m \in Matches}
Events == {Queued} \cup TerminalEvents
isTerminalEvent(ev) == ev.type \in {"matched", "failed"}

(* A call of Publish or Cancel in progress: the command it issues next.    *)
Callers == Workers \cup Cancellers
NoCall == [step |-> "none"]
Call(step, t, ev) == [step |-> step, ticket |-> t, event |-> ev]
Steps == {"getTicket", "cancelGetTicket", "latestEvent", "setEvent", "zrem", "xadd"}
Calls == {NoCall} \cup [step : Steps, ticket : Tickets, event : TerminalEvents]

VARIABLES
    \* Valkey keys
    ticket,           \* ticketKey(id): "absent", "live", or "expired" by its TTL
    snapshot,         \* eventKey(id): the latest event
    stream,           \* streamKey(id): every event, in order
    pending,          \* pendingKey(mode): the pool of waiting tickets
    assignments,      \* assignmentstore: the player's current match
    \* Enqueue calls, Publish and Cancel calls, matchmaker loops
    enq,              \* the next command of each ticket's Enqueue, then "ok" or "err"
    call,             \* the Publish or Cancel call each caller is in
    pc,               \* where each matchmaker is in pair
    group,            \* the tickets pair works on
    todo,             \* those its loop has not reached
    matchID,          \* allocation.MatchID
    paired,           \* the tickets counted in paired
    \* what the outside saw
    roster,           \* the tickets each allocated match was made for
    counted,          \* the matches the MatchAllocated metric counted
    cancelOK,         \* the tickets for which a CancelTicket returned nil
    watch             \* each ticket's WatchTicket stream: events delivered, and still open

queueVars == <<ticket, snapshot, stream, pending>>
workerVars == <<pc, group, todo, matchID, paired, roster, counted>>
vars == <<queueVars, assignments, enq, call, workerVars, cancelOK, watch>>

TypeOK ==
    /\ ticket \in [Tickets -> {"absent", "live", "expired"}]
    /\ snapshot \in [Tickets -> Events \cup {NoEvent}]
    /\ stream \in [Tickets -> Seq(Events)]
    /\ pending \in SUBSET Tickets
    /\ assignments \in [Players -> Matches \cup {NoMatch}]
    /\ enq \in [Tickets -> {"new", "setEvent", "xadd", "zadd", "ok", "err"}]
    /\ call \in [Callers -> Calls]
    /\ pc \in [Workers -> {"idle", "claim", "allocate", "assign", "notify"}]
    /\ group \in [Workers -> SUBSET Tickets]
    /\ todo \in [Workers -> SUBSET Tickets]
    /\ matchID \in [Workers -> Matches \cup {NoMatch}]
    /\ paired \in [Workers -> SUBSET Tickets]
    /\ roster \in [Matches -> SUBSET Tickets]
    /\ counted \in SUBSET Matches
    /\ cancelOK \in SUBSET Tickets
    /\ watch \in [Tickets -> [pos : Nat, open : BOOLEAN]]

Init ==
    /\ ticket = [t \in Tickets |-> "absent"]
    /\ snapshot = [t \in Tickets |-> NoEvent]
    /\ stream = [t \in Tickets |-> <<>>]
    /\ pending = {}
    /\ assignments = [p \in Players |-> NoMatch]
    /\ enq = [t \in Tickets |-> "new"]
    /\ call = [p \in Callers |-> NoCall]
    /\ pc = [w \in Workers |-> "idle"]
    /\ group = [w \in Workers |-> {}]
    /\ todo = [w \in Workers |-> {}]
    /\ matchID = [w \in Workers |-> NoMatch]
    /\ paired = [w \in Workers |-> {}]
    /\ roster = [m \in Matches |-> {}]
    /\ counted = {}
    /\ cancelOK = {}
    /\ watch = [t \in Tickets |-> [pos |-> 0, open |-> FALSE]]

----------------------------------------------------------------------------
(* CreateTicket and Valkey.Enqueue.  A failing command returns its error   *)
(* at once; the command itself may have taken effect or not (the request   *)
(* or the reply was lost).                                                 *)

\* No game mode, a malformed member or too large a party: nothing is queued.
RejectTicket(t) ==
    /\ enq[t] = "new"
    /\ enq' = [enq EXCEPT ![t] = "err"]
    /\ UNCHANGED <<queueVars, assignments, call, workerVars, cancelOK, watch>>

\* Mutant of EnqueueSetTicket: the ticket joins the pool before its events are written.
EnqueueSetTicketEarly(t) ==
    /\ enq[t] = "new"
    /\ ticket' = [ticket EXCEPT ![t] = "live"]
    /\ pending' = pending \cup {t}
    /\ enq' = [enq EXCEPT ![t] = "setEvent"]
    /\ UNCHANGED <<snapshot, stream, assignments, call, workerVars, cancelOK, watch>>

EnqueueSetTicket(t) ==
    /\ enq[t] = "new"
    /\ \/ /\ ticket' = [ticket EXCEPT ![t] = "live"]
          /\ enq' = [enq EXCEPT ![t] = "setEvent"]
       \/ /\ "enqueue" \in Faults
          /\ \/ ticket' = [ticket EXCEPT ![t] = "live"]
             \/ UNCHANGED ticket
          /\ enq' = [enq EXCEPT ![t] = "err"]
    /\ UNCHANGED <<snapshot, stream, pending, assignments, call, workerVars, cancelOK, watch>>

\* ZCARD, whose answer only fills the Queued event's depth, and SET of the event.
EnqueueSetEvent(t) ==
    /\ enq[t] = "setEvent"
    /\ \/ /\ snapshot' = [snapshot EXCEPT ![t] = Queued]
          /\ enq' = [enq EXCEPT ![t] = "xadd"]
       \/ /\ "enqueue" \in Faults
          /\ \/ snapshot' = [snapshot EXCEPT ![t] = Queued]
             \/ UNCHANGED snapshot
          /\ enq' = [enq EXCEPT ![t] = "err"]
    /\ UNCHANGED <<ticket, stream, pending, assignments, call, workerVars, cancelOK, watch>>

EnqueueXAdd(t) ==
    /\ enq[t] = "xadd"
    /\ \/ /\ stream' = [stream EXCEPT ![t] = Append(@, Queued)]
          /\ enq' = [enq EXCEPT ![t] = "zadd"]
       \/ /\ "enqueue" \in Faults
          /\ \/ stream' = [stream EXCEPT ![t] = Append(@, Queued)]
             \/ UNCHANGED stream
          /\ enq' = [enq EXCEPT ![t] = "err"]
    /\ UNCHANGED <<ticket, snapshot, pending, assignments, call, workerVars, cancelOK, watch>>

EnqueueZAdd(t) ==
    /\ enq[t] = "zadd"
    /\ \/ /\ pending' = pending \cup {t}
          /\ enq' = [enq EXCEPT ![t] = "ok"]
       \/ /\ "enqueue" \in Faults
          /\ \/ pending' = pending \cup {t}
             \/ UNCHANGED pending
          /\ enq' = [enq EXCEPT ![t] = "err"]
    /\ UNCHANGED <<ticket, snapshot, stream, assignments, call, workerVars, cancelOK, watch>>

Enqueue(t) == EnqueueSetTicket(t) \/ EnqueueSetEvent(t) \/ EnqueueXAdd(t) \/ EnqueueZAdd(t)

CreateTicket(t) == RejectTicket(t) \/ Enqueue(t)

----------------------------------------------------------------------------
(* Publish and publish, run by a worker or by a CancelTicket call.         *)

Goto(p, step) == call' = [call EXCEPT ![p].step = step]

\* The call returns.  Matchmakers ignore what Publish returns; only a
\* Cancel's nil is seen by anyone.
Return(p, ok) ==
    /\ call' = [call EXCEPT ![p] = NoCall]
    /\ cancelOK' = IF ok /\ p \in Cancellers THEN cancelOK \cup {call[p].ticket} ELSE cancelOK

\* A command of p's call fails and the call returns the error.
CallFails(p) ==
    /\ (IF p \in Workers THEN "publish" ELSE "cancel") \in Faults
    /\ Return(p, FALSE)

PublishGetTicket(p) ==
    /\ call[p].step = "getTicket"
    /\ \/ /\ ticket[call[p].ticket] = "live"
          /\ Goto(p, "setEvent")
          /\ UNCHANGED cancelOK
       \/ /\ ticket[call[p].ticket] # "live"   \* ErrTicketNotFound
          /\ Return(p, FALSE)
       \/ CallFails(p)
    /\ UNCHANGED <<queueVars, assignments, enq, workerVars, watch>>

setEvent(p) ==
    LET set == snapshot' = [snapshot EXCEPT ![call[p].ticket] = call[p].event]
    IN /\ call[p].step = "setEvent"
       /\ \/ /\ set
             /\ Goto(p, "zrem")
             /\ UNCHANGED cancelOK
          \/ /\ CallFails(p)
             /\ set \/ UNCHANGED snapshot
       /\ UNCHANGED <<ticket, stream, pending, assignments, enq, workerVars, watch>>

\* Mutant of zremPending: a terminal event leaves the ticket in the pool.
zremNever(p) ==
    /\ call[p].step = "zrem"
    /\ Goto(p, "xadd")
    /\ UNCHANGED <<queueVars, cancelOK, assignments, enq, workerVars, watch>>

\* Mutant of zremPending: publish ends without appending to the stream.
zremLast(p) ==
    /\ call[p].step = "zrem"
    /\ pending' = pending \ {call[p].ticket}
    /\ Return(p, TRUE)
    /\ UNCHANGED <<ticket, snapshot, stream, assignments, enq, workerVars, watch>>

\* Every event published after Enqueue is terminal, so the ZREM is always issued.
zremPending(p) ==
    LET zrem == pending' = pending \ {call[p].ticket}
    IN /\ call[p].step = "zrem"
       /\ \/ /\ zrem
             /\ Goto(p, "xadd")
             /\ UNCHANGED cancelOK
          \/ /\ CallFails(p)
             /\ zrem \/ UNCHANGED pending
       /\ UNCHANGED <<ticket, snapshot, stream, assignments, enq, workerVars, watch>>

xaddEvent(p) ==
    LET xadd == stream' = [stream EXCEPT ![call[p].ticket] = Append(@, call[p].event)]
    IN /\ call[p].step = "xadd"
       /\ \/ /\ xadd
             /\ Return(p, TRUE)
          \/ /\ CallFails(p)
             /\ xadd \/ UNCHANGED stream
       /\ UNCHANGED <<ticket, snapshot, pending, assignments, enq, workerVars, watch>>

Publish(p) == PublishGetTicket(p) \/ setEvent(p) \/ zremPending(p) \/ xaddEvent(p)

----------------------------------------------------------------------------
(* CancelTicket.  The client learnt the ticket id from CreateTicket.       *)

CancelTicket(c, t) ==
    /\ enq[t] = "ok"
    /\ call[c] = NoCall
    /\ call' = [call EXCEPT ![c] = Call("cancelGetTicket", t, FailedFor("cancelled"))]
    /\ UNCHANGED <<queueVars, assignments, enq, workerVars, cancelOK, watch>>

CancelGetTicket(c) ==
    /\ call[c].step = "cancelGetTicket"
    /\ \/ /\ ticket[call[c].ticket] = "live"
          /\ Goto(c, "latestEvent")
          /\ UNCHANGED cancelOK
       \/ /\ ticket[call[c].ticket] # "live"
          /\ Return(c, FALSE)
       \/ CallFails(c)
    /\ UNCHANGED <<queueVars, assignments, enq, workerVars, watch>>

\* Mutant of CancelLatestEvent: a ticket no longer in the pool counts as decided.
CancelIfPending(c) ==
    /\ call[c].step = "latestEvent"
    /\ IF call[c].ticket \notin pending
         THEN Return(c, TRUE) ELSE Goto(c, "setEvent") /\ UNCHANGED cancelOK
    /\ UNCHANGED <<queueVars, assignments, enq, workerVars, watch>>

CancelLatestEvent(c) ==
    /\ call[c].step = "latestEvent"
    /\ \/ /\ isTerminalEvent(snapshot[call[c].ticket])
          /\ Return(c, TRUE)
       \/ /\ ~isTerminalEvent(snapshot[call[c].ticket])
          /\ Goto(c, "setEvent")
          /\ UNCHANGED cancelOK
       \/ CallFails(c)
    /\ UNCHANGED <<queueVars, assignments, enq, workerVars, watch>>

Cancel(c) ==
    \/ \E t \in Tickets : CancelTicket(c, t)
    \/ CancelGetTicket(c)
    \/ CancelLatestEvent(c)

----------------------------------------------------------------------------
(* The matchmaker: processMode and pair.                                   *)

\* What SelectGroup promises of the group it picks from the tickets it is
\* given: exactly PlayersPerMatch of them, and a party whole, with one ticket
\* per member, or not at all.
GroupOK(g) ==
    /\ Cardinality(g) = PlayersPerMatch
    /\ \A t \in g : Party[t] # {PlayerOf[t]} =>
          \A p \in Party[t] :
             Cardinality({u \in g : PlayerOf[u] = p /\ Party[u] = Party[t]}) = 1

\* Pending reads the pool and then each ticket, skipping one whose key is gone
\* or whose read fails.  When SelectGroup finds no group the tick ends and
\* nothing has changed.
ReadPending(w) ==
    /\ pc[w] = "idle"
    /\ \E g \in SUBSET {t \in pending : ticket[t] = "live"} :
          /\ GroupOK(g)
          /\ group' = [group EXCEPT ![w] = g]
    /\ pc' = [pc EXCEPT ![w] = "claim"]
    /\ UNCHANGED <<queueVars, assignments, enq, call, todo, matchID, paired, roster,
                   counted, cancelOK, watch>>

\* pair is left: processMode reads the pool again, or the tick ends.
EndPair(w) ==
    /\ pc' = [pc EXCEPT ![w] = "idle"]
    /\ group' = [group EXCEPT ![w] = {}]
    /\ todo' = [todo EXCEPT ![w] = {}]
    /\ matchID' = [matchID EXCEPT ![w] = NoMatch]
    /\ paired' = [paired EXCEPT ![w] = {}]

\* Mutant of Claim: what is left of the group is taken without asking for all of it.
ClaimUnchecked(w) ==
    /\ pc[w] = "claim"
    /\ pending' = pending \ group[w]
    /\ pc' = [pc EXCEPT ![w] = "allocate"]
    /\ UNCHANGED <<group, todo, matchID, paired, ticket, snapshot, stream, assignments, enq,
                   call, roster, counted, cancelOK, watch>>

\* Mutant of Claim: a lost race has removed the tickets that were still there.
ClaimPartial(w) ==
    /\ pc[w] = "claim"
    /\ pending' = pending \ group[w]
    /\ IF group[w] \subseteq pending
         THEN pc' = [pc EXCEPT ![w] = "allocate"] /\ UNCHANGED <<group, todo, matchID, paired>>
         ELSE EndPair(w)
    /\ UNCHANGED <<ticket, snapshot, stream, assignments, enq, call, roster, counted,
                   cancelOK, watch>>

\* The claim script: all of the group or none of it, in one step.
Claim(w) ==
    /\ pc[w] = "claim"
    /\ \/ /\ group[w] \subseteq pending
          /\ pending' = pending \ group[w]
          /\ pc' = [pc EXCEPT ![w] = "allocate"]
          /\ UNCHANGED <<group, todo, matchID, paired>>
       \/ /\ ~(group[w] \subseteq pending)
          /\ EndPair(w)
          /\ UNCHANGED pending
       \/ /\ "claim" \in Faults
          /\ pending' \in {pending, IF group[w] \subseteq pending THEN pending \ group[w] ELSE pending}
          /\ EndPair(w)
    /\ UNCHANGED <<ticket, snapshot, stream, assignments, enq, call, roster, counted,
                   cancelOK, watch>>

\* Mutant of Allocate: after a failed allocation the group goes back to the pool.
AllocateRequeues(w) ==
    /\ pc[w] = "allocate"
    /\ \/ \E m \in Matches :
             /\ roster[m] = {}
             /\ roster' = [roster EXCEPT ![m] = group[w]]
             /\ matchID' = [matchID EXCEPT ![w] = m]
             /\ todo' = [todo EXCEPT ![w] = group[w]]
             /\ pc' = [pc EXCEPT ![w] = "assign"]
             /\ UNCHANGED <<group, paired, pending>>
       \/ /\ "allocate" \in Faults
          /\ pending' = pending \cup group[w]
          /\ EndPair(w)
          /\ UNCHANGED roster
    /\ UNCHANGED <<ticket, snapshot, stream, assignments, enq, call, counted, cancelOK, watch>>

\* Mutant of Allocate: allocation.MatchID is not kept.
AllocateForgets(w) ==
    /\ pc[w] = "allocate"
    /\ \E m \in Matches : roster[m] = {} /\ roster' = [roster EXCEPT ![m] = group[w]]
    /\ todo' = [todo EXCEPT ![w] = group[w]]
    /\ pc' = [pc EXCEPT ![w] = "assign"]
    /\ UNCHANGED <<queueVars, assignments, enq, call, group, matchID, paired, counted, cancelOK,
                   watch>>

\* The allocator reserves a Ready game server for the group under a fresh match id.
Reserve(w, m) ==
    /\ roster[m] = {}
    /\ roster' = [roster EXCEPT ![m] = group[w]]
    /\ matchID' = [matchID EXCEPT ![w] = m]

\* Without a Ready server, or one with a port, the allocation fails.
Allocate(w) ==
    /\ pc[w] = "allocate"
    /\ todo' = [todo EXCEPT ![w] = group[w]]
    /\ \/ /\ \E m \in Matches : Reserve(w, m)
          /\ pc' = [pc EXCEPT ![w] = "assign"]
       \/ /\ "allocate" \in Faults
          /\ pc' = [pc EXCEPT ![w] = "notify"]
          /\ UNCHANGED <<matchID, roster>>
    /\ UNCHANGED <<queueVars, assignments, enq, call, group, paired, counted, cancelOK, watch>>

\* The allocation failed: Publish Failed to each ticket, best effort.
NotifyFailed(w) ==
    /\ pc[w] = "notify"
    /\ call[w] = NoCall
    /\ \E t \in todo[w] :
          /\ todo' = [todo EXCEPT ![w] = @ \ {t}]
          /\ call' = [call EXCEPT ![w] = Call("getTicket", t, FailedFor("allocator_failed"))]
    /\ UNCHANGED <<queueVars, assignments, enq, pc, group, matchID, paired, roster, counted,
                   cancelOK, watch>>

\* The assignment store: one key per player, the last Put wins.
Put(p, m) == assignments' = [assignments EXCEPT ![p] = m]

\* Mutant of AssignTicket: Matched is published although nothing was persisted.
AssignUnpersisted(w) ==
    /\ pc[w] = "assign"
    /\ call[w] = NoCall
    /\ \E t \in todo[w] :
          /\ todo' = [todo EXCEPT ![w] = @ \ {t}]
          /\ call' = [call EXCEPT ![w] = Call("getTicket", t, Matched(matchID[w]))]
          /\ paired' = [paired EXCEPT ![w] = @ \cup {t}]
    /\ UNCHANGED <<queueVars, assignments, enq, pc, group, matchID, roster, counted, cancelOK,
                   watch>>

\* One ticket of the group: sign its session token, persist its assignment,
\* and only then publish Matched; Failed when either step fails.
AssignTicket(w) ==
    /\ pc[w] = "assign"
    /\ call[w] = NoCall
    /\ \E t \in todo[w] :
          LET publish(ev) == call' = [call EXCEPT ![w] = Call("getTicket", t, ev)]
          IN /\ todo' = [todo EXCEPT ![w] = @ \ {t}]
             /\ \/ /\ Put(PlayerOf[t], matchID[w])
                   /\ publish(Matched(matchID[w]))
                   /\ paired' = [paired EXCEPT ![w] = @ \cup {t}]
                \/ /\ "sign" \in Faults
                   /\ publish(FailedFor("internal"))
                   /\ UNCHANGED <<assignments, paired>>
                \/ /\ "persist" \in Faults
                   /\ Put(PlayerOf[t], matchID[w]) \/ UNCHANGED assignments
                   /\ publish(FailedFor("internal"))
                   /\ UNCHANGED paired
    /\ UNCHANGED <<queueVars, enq, pc, group, matchID, roster, counted, cancelOK, watch>>

\* Mutant of FinishPair: a match is counted whoever of its group was assigned.
FinishCountsAll(w) ==
    /\ pc[w] \in {"assign", "notify"}
    /\ todo[w] = {}
    /\ call[w] = NoCall
    /\ counted' = IF pc[w] = "assign" THEN counted \cup {matchID[w]} ELSE counted
    /\ EndPair(w)
    /\ UNCHANGED <<queueVars, assignments, enq, call, roster, cancelOK, watch>>

\* The loop over the group is done: count a fully formed match and return.
FinishPair(w) ==
    /\ pc[w] \in {"assign", "notify"}
    /\ todo[w] = {}
    /\ call[w] = NoCall
    /\ counted' = IF pc[w] = "assign" /\ paired[w] = group[w]
                    THEN counted \cup {matchID[w]} ELSE counted
    /\ EndPair(w)
    /\ UNCHANGED <<queueVars, assignments, enq, call, roster, cancelOK, watch>>

\* The replica crashes, shuts down or loses its lease.  A cancelled context
\* fails every further command of pair, so nothing of it reaches Valkey after
\* this point; the loop may be started again.
Abort(w) ==
    /\ "abort" \in Faults
    /\ pc[w] # "idle"
    /\ EndPair(w)
    /\ call' = [call EXCEPT ![w] = NoCall]
    /\ UNCHANGED <<queueVars, assignments, enq, roster, counted, cancelOK, watch>>

pair(w) == Claim(w) \/ Allocate(w) \/ NotifyFailed(w) \/ AssignTicket(w) \/ FinishPair(w)
processMode(w) == ReadPending(w) \/ pair(w) \/ Publish(w)

----------------------------------------------------------------------------
(* WatchTicket: Subscribe reads the stream from its beginning and closes   *)
(* after the first terminal event.                                         *)

Subscribe(t) ==
    /\ t \in Watched
    /\ enq[t] = "ok"
    /\ ticket[t] = "live"
    /\ watch[t] = [pos |-> 0, open |-> FALSE]
    /\ watch' = [watch EXCEPT ![t].open = TRUE]
    /\ UNCHANGED <<queueVars, assignments, enq, call, workerVars, cancelOK>>

\* Mutant of Deliver: the stream stays open after a terminal event.
DeliverKeepsOpen(t) ==
    /\ watch[t].open
    /\ watch[t].pos < Len(stream[t])
    /\ watch' = [watch EXCEPT ![t].pos = @ + 1]
    /\ UNCHANGED <<queueVars, assignments, enq, call, workerVars, cancelOK>>

Deliver(t) ==
    /\ watch[t].open
    /\ watch[t].pos < Len(stream[t])
    /\ watch' = [watch EXCEPT ![t] =
          [pos |-> @.pos + 1, open |-> ~isTerminalEvent(stream[t][@.pos + 1])]]
    /\ UNCHANGED <<queueVars, assignments, enq, call, workerVars, cancelOK>>

\* The client drops its stream; it may watch again, from the beginning.
StopWatching(t) ==
    /\ watch[t].open
    /\ watch' = [watch EXCEPT ![t] = [pos |-> 0, open |-> FALSE]]
    /\ UNCHANGED <<queueVars, assignments, enq, call, workerVars, cancelOK>>

WatchTicket(t) == Subscribe(t) \/ Deliver(t) \/ StopWatching(t)

\* The TTL of a ticket key runs out.  Its event keys were written later and
\* outlive it.
ExpireTicket(t) ==
    /\ "expire" \in Faults
    /\ ticket[t] = "live"
    /\ enq[t] \in {"ok", "err"}
    /\ ticket' = [ticket EXCEPT ![t] = "expired"]
    /\ UNCHANGED <<snapshot, stream, pending, assignments, enq, call, workerVars, cancelOK, watch>>

----------------------------------------------------------------------------

Next ==
    \/ \E t \in Tickets : CreateTicket(t) \/ WatchTicket(t) \/ ExpireTicket(t)
    \/ \E c \in Cancellers : Cancel(c) \/ Publish(c)
    \/ \E w \in Workers : processMode(w) \/ Abort(w)

Spec == Init /\ [][Next]_vars

\* Goroutines and RPC handlers that can run do run; nobody has to cancel a
\* ticket, and no fault has to happen.
Fairness ==
    /\ \A t \in Tickets : WF_vars(Enqueue(t)) /\ WF_vars(Subscribe(t)) /\ WF_vars(Deliver(t))
    /\ \A c \in Cancellers : WF_vars(CancelGetTicket(c) \/ CancelLatestEvent(c) \/ Publish(c))
    /\ \A w \in Workers : WF_vars(processMode(w))

FairSpec == Spec /\ Fairness
----------------------------------------------------------------------------
(* Properties.                                                             *)

Entries(s) == {s[i] : i \in DOMAIN s}
Held(w) == IF pc[w] \in {"allocate", "assign", "notify"} THEN group[w] ELSE {}
Told(t) == \E ev \in Entries(stream[t]) : isTerminalEvent(ev)
ToldMatched(t, m) == Matched(m) \in Entries(stream[t])
\* p's Publish or Cancel call has yet to append t's event; a Cancel is past its check.
Publishing(p, t) ==
    call[p].step \in {"getTicket", "setEvent", "zrem", "xadd"} /\ call[p].ticket = t

\* No ticket is ever part of two matches, and no ticket of a match is offered
\* to another matchmaker: what Queue.Claim is for ("this is what makes
\* matchmaking safe to run on more than one gateway").
NoDoubleMatch ==
    /\ \A m, n \in Matches : m # n => roster[m] \cap roster[n] = {}
    /\ \A m \in Matches : roster[m] \cap pending = {}

\* A matchmaker assigns tickets only to a match it has allocated.
AssignHasMatch == \A w \in Workers : pc[w] = "assign" => matchID[w] \in Matches

\* Why NoDoubleMatch holds: a ticket enters the pool once, when its Enqueue ends,
\* and leaves it for one matchmaker, which allocates one match for it.
Settled(t) == enq[t] \in {"ok", "err"}

Custody ==
    /\ \A t \in pending : Settled(t)
    /\ \A w \in Workers : \A t \in Held(w) : Settled(t) /\ t \notin pending
    /\ \A v, w \in Workers : v # w => Held(v) \cap Held(w) = {}
    /\ \A m \in Matches : \A t \in roster[m] : Settled(t)
    /\ \A w \in Workers : \A m \in Matches :
          pc[w] = "allocate" => group[w] \cap roster[m] = {}

GetCurrentMatch(p) == assignments[p]

\* The match GetCurrentMatch returns to t's player is the one m that t was
\* matched into, or that of another ticket the same player has queued.
Recoverable(t, m) ==
    \E n \in Matches :
        /\ GetCurrentMatch(PlayerOf[t]) = n
        /\ n = m \/ \E u \in roster[n] : u # t /\ PlayerOf[u] = PlayerOf[t]

\* Whoever is told Matched(m), by the stream or by the snapshot, is on m's
\* roster, and its player can recover the assignment with GetCurrentMatch: pair
\* persists the assignment before it publishes, and fails the player otherwise.
MatchedIsRecoverable ==
    \A t \in Tickets : \A m \in Matches :
        ToldMatched(t, m) \/ snapshot[t] = Matched(m)
            => t \in roster[m] /\ Recoverable(t, m)

\* A watcher reads Queued before anything else and never again: the events
\* Enqueue writes precede every event of a matchmaker or of a Cancel, although
\* none of them holds a lock.
QueuedFirst ==
    \A t \in Tickets : \A i \in DOMAIN stream[t] : (stream[t][i] = Queued) <=> (i = 1)

\* The MatchAllocated metric counts a match only if every ticket on its roster
\* got a persisted assignment, whatever failed in between.
CountedFullyFormed ==
    \A m \in counted : roster[m] # {} /\ \A t \in roster[m] : Recoverable(t, m)

\* A ticket that left the pool is never forgotten: some matchmaker or Cancel
\* still works on it, or its stream holds a terminal event.
NoStrandedTicket ==
    \A t \in Tickets : enq[t] = "ok" /\ t \notin pending =>
        \/ Told(t)
        \/ \E w \in Workers : t \in Held(w)
        \/ \E p \in Callers : Publishing(p, t)

\* A CancelTicket that returned nil has taken the ticket out of the pool, unless a
\* second Cancel of it is just about to issue its ZREM, and has published a
\* terminal event, or some other call still in progress is going to, so that a
\* watcher's stream closes.
CancelEnds ==
    \A t \in cancelOK :
        /\ t \in pending => \E c \in Cancellers : Publishing(c, t) /\ call[c].step = "zrem"
        /\ Told(t) \/ \E p \in Callers : Publishing(p, t)

\* A claimed ticket is always told its outcome.
ClaimResolves == \A t \in Tickets : (\E w \in Workers : t \in Held(w)) ~> Told(t)

\* The pool does not keep a group that could play: the matchmakers always end
\* up with fewer tickets than a match needs.
QueueDrains == <>[](\A g \in SUBSET pending : ~GroupOK(g))

\* Every open WatchTicket stream whose ticket was decided closes.
WatchCloses == \A t \in Tickets : (watch[t].open /\ Told(t)) ~> ~watch[t].open

\* The group w has read and is going to claim, and whether a Cancel of t is past
\* its check and about to issue its ZREM.
Choice(w) == IF pc[w] = "claim" THEN group[w] ELSE {}
Withdrawing(t) == \E c \in Cancellers : call[c].step = "zrem" /\ call[c].ticket = t

\* The Valkey queue and its callers keep the promise of match.Queue, whatever
\* fails half way: no ticket comes back to the pool; one leaves it only with the
\* whole group its matchmaker chose, or alone by a Cancel of that ticket, so that
\* a claim that lost its race or a Publish takes nothing; and a ticket that was
\* told its outcome is neither in the pool nor on its way there.
Queue == INSTANCE TicketQueue WITH
    Claimers <- Workers,
    Groups <- {g \in SUBSET Tickets : GroupOK(g)},
    entered <- {t \in Tickets : Settled(t)},
    pool <- pending,
    decided <- {t \in Tickets : Told(t)},
    chosen <- [w \in Workers |-> Choice(w)],
    withdrawn <- {t \in Tickets : Withdrawing(t)}
ImplementsQueue == Queue!Spec
=============================================================================
