-------------------------------- MODULE Room --------------------------------
(***************************************************************************)
(* The room daemon: the Manager that finds or creates the match of an      *)
(* incoming WebTransport session, the Match that runs the plugin's tick    *)
(* loop, and the session handlers that join it, feed it inputs and leave.  *)
(*                                                                         *)
(* Handlers and Run loops are goroutines.  One action is what a goroutine  *)
(* does under one lock, on one channel, or in one plugin call.             *)
(***************************************************************************)
EXTENDS Integers, Sequences, FiniteSets

CONSTANTS
    Handlers,         \* WebTransport sessions, one handleRoom goroutine each
    Players,
    PlayerOf,         \* the player of each session; a reconnect is another session
    MatchIDs,
    MatchOf,          \* the match id in each session's URL and token
    Instances,        \* plugin instances the factory can create, each with its Match
    Slow,             \* the sessions whose client grants the server no more streams
    None,
    EventCap,         \* capacity of Match.events
    InputCap,         \* capacity of Match.inputs
    Faults            \* what may go wrong, see FaultKinds

FaultKinds == {"create", "init", "tick", "shutdown"}

ASSUME SessionAssumption ==
    /\ PlayerOf \in [Handlers -> Players]
    /\ MatchOf \in [Handlers -> MatchIDs]
    /\ Slow \subseteq Handlers
ASSUME NoneAssumption == None \notin Handlers /\ None \notin Instances
\* Capacity 0 stands for a channel every send finds full.
ASSUME CapAssumption == EventCap \in Nat /\ InputCap \in Nat
ASSUME RoomFaultAssumption == Faults \subseteq FaultKinds

VARIABLES
    conn,             \* where each handler is in handleRoom
    inst,             \* the Match it works with
    matches,          \* Manager.matches
    gauge,            \* the active-matches metric
    stopped,          \* the manager's context is cancelled
    id,               \* the match id each instance was made for
    run,              \* where each instance is in its life
    closes,           \* how often its plugin was closed
    players,          \* Match.players: each player's session
    events, inputs,   \* the two channels
    batch,            \* the actions drained for the tick in progress
    out,              \* the sessions the frame in progress has yet to be sent to
    view,             \* the players the plugin takes to be present
    left,             \* the players the plugin was told have left
    strays,           \* actions handed to the plugin before their player's Joined
    closed            \* sessions closed by PlayerIO.Close

handlerVars == <<conn, inst>>
managerVars == <<matches, gauge, stopped>>
pluginVars == <<batch, out, view, left, strays>>
vars == <<handlerVars, managerVars, id, run, closes, players, events, inputs,
          pluginVars, closed>>

Conns == {"new", "find", "create", "insert", "join", "sendJoined", "read", "leave", "sendLeft", "gone"}
Runs == {"unused", "built", "discarded", "idle", "drained", "respond", "broadcast", "dispatch",
         "finalise", "lastFrame", "closeAll", "closePlugin", "cleanup", "dec", "over"}
Started == Runs \ {"unused", "built", "discarded", "over"}

TypeOK ==
    /\ conn \in [Handlers -> Conns]
    /\ inst \in [Handlers -> Instances \cup {None}]
    /\ matches \in [MatchIDs -> Instances \cup {None}]
    /\ gauge \in Int
    /\ stopped \in BOOLEAN
    /\ id \in [Instances -> MatchIDs \cup {None}]
    /\ run \in [Instances -> Runs]
    /\ closes \in [Instances -> Nat]
    /\ players \in [Instances -> [Players -> Handlers \cup {None}]]
    /\ events \in [Instances -> Seq({"joined", "left"} \X Players)]
    /\ inputs \in [Instances -> Seq(Players)]
    /\ batch \in [Instances -> SUBSET Players]
    /\ out \in [Instances -> SUBSET Handlers]
    /\ view \in [Instances -> SUBSET Players]
    /\ left \in [Instances -> SUBSET Players]
    /\ strays \in [Instances -> SUBSET Players]
    /\ closed \in SUBSET Handlers

Init ==
    /\ conn = [h \in Handlers |-> "new"]
    /\ inst = [h \in Handlers |-> None]
    /\ matches = [m \in MatchIDs |-> None]
    /\ gauge = 0
    /\ stopped = FALSE
    /\ id = [i \in Instances |-> None]
    /\ run = [i \in Instances |-> "unused"]
    /\ closes = [i \in Instances |-> 0]
    /\ players = [i \in Instances |-> [p \in Players |-> None]]
    /\ events = [i \in Instances |-> <<>>]
    /\ inputs = [i \in Instances |-> <<>>]
    /\ batch = [i \in Instances |-> {}]
    /\ out = [i \in Instances |-> {}]
    /\ view = [i \in Instances |-> {}]
    /\ left = [i \in Instances |-> {}]
    /\ strays = [i \in Instances |-> {}]
    /\ closed = {}

Step(h, label) == conn' = [conn EXCEPT ![h] = label]
Goto(i, label) == run' = [run EXCEPT ![i] = label]

\* Match.mu is free: only dispatchEvent keeps it over more than one step.
Unlocked(i) == run[i] # "dispatch"

----------------------------------------------------------------------------
(* handleRoom up to Join.                                                  *)

\* No ClientHello within HandshakeTimeout, or a token that does not verify.
authenticateFails(h) ==
    /\ conn[h] = "new"
    /\ Step(h, "gone")
    /\ UNCHANGED <<inst, managerVars, id, run, closes, players, events, inputs, pluginVars, closed>>

\* The token is good and for this match.
Connect(h) ==
    /\ conn[h] = "new"
    /\ Step(h, "find")
    /\ UNCHANGED <<inst, managerVars, id, run, closes, players, events, inputs, pluginVars, closed>>

\* The first critical section of FindOrCreate.
FindMatch(h) ==
    /\ conn[h] = "find"
    /\ IF matches[MatchOf[h]] # None
         THEN Step(h, "join") /\ inst' = [inst EXCEPT ![h] = matches[MatchOf[h]]]
         ELSE Step(h, "create") /\ UNCHANGED inst
    /\ UNCHANGED <<managerVars, id, run, closes, players, events, inputs, pluginVars, closed>>

\* The module cannot be instantiated, or lacks an export and is closed at once.
CreateFails(h) ==
    /\ "create" \in Faults
    /\ conn[h] = "create"
    /\ Step(h, "gone")
    /\ UNCHANGED <<inst, managerVars, id, run, closes, players, events, inputs, pluginVars, closed>>

\* A call into the guest traps, returns an empty frame or an error status, or
\* cannot be passed through its memory.
callFails(fn) == fn \in Faults

\* factory.Create and Init run outside the lock; a plugin whose Init fails is closed.
CreatePlugin(h) ==
    /\ conn[h] = "create"
    /\ \E i \in Instances :
          /\ run[i] = "unused"
          /\ id' = [id EXCEPT ![i] = MatchOf[h]]
          /\ \/ /\ Goto(i, "built")
                /\ inst' = [inst EXCEPT ![h] = i]
                /\ Step(h, "insert")
                /\ UNCHANGED closes
             \/ /\ callFails("init")
                /\ Goto(i, "discarded")
                /\ closes' = [closes EXCEPT ![i] = @ + 1]
                /\ Step(h, "gone")
                /\ UNCHANGED inst
    /\ UNCHANGED <<managerVars, players, events, inputs, pluginVars, closed>>

\* Mutant of InsertMatch: no second look at the map.
InsertUnchecked(h) ==
    /\ conn[h] = "insert"
    /\ Step(h, "join")
    /\ matches' = [matches EXCEPT ![MatchOf[h]] = inst[h]]
    /\ gauge' = gauge + 1
    /\ Goto(inst[h], "idle")
    /\ UNCHANGED <<inst, closes, stopped, id, players, events, inputs, pluginVars, closed>>

\* Mutant of InsertMatch: the loser's plugin is not closed.
InsertLeaks(h) ==
    LET m == MatchOf[h]
        i == inst[h]
        won == matches[m] = None
    IN /\ conn[h] = "insert"
       /\ Step(h, "join")
       /\ Goto(i, IF won THEN "idle" ELSE "discarded")
       /\ matches' = IF won THEN [matches EXCEPT ![m] = i] ELSE matches
       /\ inst' = [inst EXCEPT ![h] = matches'[m]]
       /\ gauge' = IF won THEN gauge + 1 ELSE gauge
       /\ UNCHANGED <<closes, stopped, id, players, events, inputs, pluginVars, closed>>

\* The second critical section: keep the first match built for the id, discard
\* the loser; the winner's Run goroutine starts.
InsertMatch(h) ==
    LET m == MatchOf[h]
        i == inst[h]
    IN /\ conn[h] = "insert"
       /\ Step(h, "join")
       /\ IF matches[m] # None
            THEN /\ closes' = [closes EXCEPT ![i] = @ + 1]
                 /\ Goto(i, "discarded")
                 /\ inst' = [inst EXCEPT ![h] = matches[m]]
                 /\ UNCHANGED <<matches, gauge>>
            ELSE /\ matches' = [matches EXCEPT ![m] = i]
                 /\ gauge' = gauge + 1
                 /\ Goto(i, "idle")
                 /\ UNCHANGED <<inst, closes>>
       /\ UNCHANGED <<stopped, id, players, events, inputs, pluginVars, closed>>

----------------------------------------------------------------------------
(* Match.Join, SubmitInput and Leave, called by the handler.               *)

\* Mutant of JoinMatch: a second session takes the player's slot over.
JoinTakesOver(h) ==
    /\ conn[h] = "join"
    /\ Unlocked(inst[h])
    /\ Step(h, "sendJoined")
    /\ players' = [players EXCEPT ![inst[h]][PlayerOf[h]] = h]
    /\ UNCHANGED <<inst, managerVars, id, run, closes, events, inputs, pluginVars, closed>>

JoinMatch(h) ==
    LET i == inst[h]
        p == PlayerOf[h]
    IN /\ conn[h] = "join"
       /\ Unlocked(i)
       /\ IF players[i][p] # None
            THEN Step(h, "gone") /\ UNCHANGED players   \* player already joined
            ELSE Step(h, "sendJoined") /\ players' = [players EXCEPT ![i][p] = h]
       /\ UNCHANGED <<inst, managerVars, id, run, closes, events, inputs, pluginVars, closed>>

\* A non-blocking send: the event is dropped when the channel is full.
SendEvent(i, ev) ==
    events' = IF Len(events[i]) < EventCap
                THEN [events EXCEPT ![i] = Append(@, ev)] ELSE events

SendJoined(h) ==
    /\ conn[h] = "sendJoined"
    /\ SendEvent(inst[h], <<"joined", PlayerOf[h]>>)
    /\ Step(h, "read")
    /\ UNCHANGED <<inst, managerVars, id, run, closes, players, inputs, pluginVars, closed>>

\* Mutant of SubmitInput: the read loop starts before Join has sent its event.
SubmitInputEarly(h) ==
    /\ conn[h] \in {"sendJoined", "read"}
    /\ Len(inputs[inst[h]]) < InputCap
    /\ inputs' = [inputs EXCEPT ![inst[h]] = Append(@, PlayerOf[h])]
    /\ UNCHANGED <<handlerVars, managerVars, id, run, closes, players, events, pluginVars, closed>>

\* readLoop passes an input on; it is dropped when the channel is full.
SubmitInput(h) ==
    /\ conn[h] = "read"
    /\ Len(inputs[inst[h]]) < InputCap
    /\ inputs' = [inputs EXCEPT ![inst[h]] = Append(@, PlayerOf[h])]
    /\ UNCHANGED <<handlerVars, managerVars, id, run, closes, players, events, pluginVars, closed>>

\* The transport closes and readLoop returns; nothing in the daemon makes it.
Disconnect(h) ==
    /\ conn[h] = "read"
    /\ Step(h, "leave")
    /\ UNCHANGED <<inst, managerVars, id, run, closes, players, events, inputs, pluginVars, closed>>

\* Mutant of LeaveMatch: the plugin is not told.
LeaveSilently(h) ==
    /\ conn[h] = "leave"
    /\ Unlocked(inst[h])
    /\ players' = [players EXCEPT ![inst[h]][PlayerOf[h]] = None]
    /\ closed' = closed \cup {h}
    /\ Step(h, "gone")
    /\ UNCHANGED <<inst, managerVars, id, run, closes, events, inputs, pluginVars>>

\* Leave deletes the player's entry, whichever session it holds.
LeaveMatch(h) ==
    LET i == inst[h]
        p == PlayerOf[h]
    IN /\ conn[h] = "leave"
       /\ Unlocked(i)
       /\ IF players[i][p] # None
            THEN /\ players' = [players EXCEPT ![i][p] = None]
                 /\ closed' = closed \cup {players[i][p]}
                 /\ Step(h, "sendLeft")
            ELSE Step(h, "gone") /\ UNCHANGED <<players, closed>>
       /\ UNCHANGED <<inst, managerVars, id, run, closes, events, inputs, pluginVars>>

SendLeft(h) ==
    /\ conn[h] = "sendLeft"
    /\ SendEvent(inst[h], <<"left", PlayerOf[h]>>)
    /\ Step(h, "gone")
    /\ UNCHANGED <<inst, managerVars, id, run, closes, players, inputs, pluginVars, closed>>

----------------------------------------------------------------------------
(* Match.Run.                                                              *)

DrainActions(i) ==
    /\ run[i] = "idle"
    /\ batch' = [batch EXCEPT ![i] = {inputs[i][k] : k \in DOMAIN inputs[i]}]
    /\ inputs' = [inputs EXCEPT ![i] = <<>>]
    /\ Goto(i, "drained")
    /\ UNCHANGED <<handlerVars, managerVars, id, closes, players, events, out, view, left, strays,
                   closed>>

\* The players whose last event among evs is of the given kind.
LastIs(evs, kind) ==
    {p \in Players : \E k \in DOMAIN evs :
        evs[k] = <<kind, p>> /\ \A n \in DOMAIN evs : n > k => evs[n][2] # p}
Mentioned(evs, kind) == {p \in Players : \E k \in DOMAIN evs : evs[k] = <<kind, p>>}

\* drainEvents and OnTick.  The plugin applies the network events in order.
OnTick(i) ==
    /\ run[i] = "drained"
    /\ events' = [events EXCEPT ![i] = <<>>]
    /\ view' = [view EXCEPT ![i] = (@ \cup LastIs(events[i], "joined")) \ LastIs(events[i], "left")]
    /\ left' = [left EXCEPT ![i] = @ \cup Mentioned(events[i], "left")]
    /\ strays' = [strays EXCEPT ![i] =
          @ \cup (batch[i] \ (view[i] \cup left[i] \cup Mentioned(events[i], "joined")))]
    /\ batch' = [batch EXCEPT ![i] = {}]
    /\ \/ Goto(i, "respond")
       \/ callFails("tick") /\ Goto(i, "closeAll")
    /\ UNCHANGED <<handlerVars, managerVars, id, closes, players, inputs, out, closed>>

----------------------------------------------------------------------------
(* The frames of a tick's response, sent one after another.  A delta small *)
(* enough for a datagram goes out without waiting and is left out.         *)

Present(i) == {h \in Handlers : players[i][PlayerOf[h]] = h}

\* broadcast: the players are copied under the lock and sent to without it.
broadcast(i) ==
    /\ run[i] = "respond"
    /\ Goto(i, "broadcast")
    /\ out' = [out EXCEPT ![i] = Present(i)]
    /\ UNCHANGED <<handlerVars, managerVars, id, closes, players, events, inputs, batch, view, left,
                   strays, closed>>

\* dispatchEvent with recipients sends while it holds the lock.
dispatchEvent(i) ==
    /\ run[i] = "respond"
    /\ Goto(i, "dispatch")
    /\ \E R \in SUBSET Present(i) : out' = [out EXCEPT ![i] = R]
    /\ UNCHANGED <<handlerVars, managerVars, id, closes, players, events, inputs, batch, view, left,
                   strays, closed>>

\* The session's context is done once its transport has closed.
Ended(h) == conn[h] \in {"leave", "sendLeft", "gone"}

\* sendStream waits for the client to grant a stream, or for the session to end.
sendStream(h) == h \notin Slow \/ Ended(h)

\* Mutant of SendFrame: the wait for a stream does not see the session end.
SendFrameForever(i, h) ==
    /\ h \in out[i]
    /\ h \in closed \/ h \notin Slow
    /\ out' = [out EXCEPT ![i] = @ \ {h}]
    /\ UNCHANGED <<handlerVars, managerVars, id, run, closes, players, events, inputs, batch, view,
                   left, strays, closed>>

\* A closed session is refused at once; a failed send is logged and the loop goes on.
SendFrame(i, h) ==
    /\ h \in out[i]
    /\ h \in closed \/ sendStream(h)
    /\ out' = [out EXCEPT ![i] = @ \ {h}]
    /\ UNCHANGED <<handlerVars, managerVars, id, run, closes, players, events, inputs, batch, view,
                   left, strays, closed>>

\* Every recipient was tried: the next frame of the response.
FrameSent(i) ==
    /\ run[i] \in {"broadcast", "dispatch"}
    /\ out[i] = {}
    /\ Goto(i, "respond")
    /\ UNCHANGED <<handlerVars, managerVars, id, closes, players, events, inputs, pluginVars, closed>>

\* The response has no more frames; it may have ended the game.
EndTick(i) ==
    /\ run[i] = "respond"
    /\ Goto(i, "idle") \/ Goto(i, "finalise")
    /\ UNCHANGED <<handlerVars, managerVars, id, closes, players, events, inputs, pluginVars, closed>>

----------------------------------------------------------------------------
(* The end of Run.                                                         *)

\* The daemon shuts down: Run sees the cancelled context between two ticks.
CtxDone(i) ==
    /\ run[i] = "idle"
    /\ stopped
    /\ Goto(i, "closeAll")
    /\ UNCHANGED <<handlerVars, managerVars, id, closes, players, events, inputs, pluginVars, closed>>

\* OnGameEnd, then the broadcast of game_ended to the players present.
Finalise(i) ==
    /\ run[i] = "finalise"
    /\ Goto(i, "lastFrame")
    /\ out' = [out EXCEPT ![i] = Present(i)]
    /\ UNCHANGED <<handlerVars, managerVars, id, closes, players, events, inputs, batch, view, left,
                   strays, closed>>

FinaliseSent(i) ==
    /\ run[i] = "lastFrame"
    /\ out[i] = {}
    /\ Goto(i, "closeAll")
    /\ UNCHANGED <<handlerVars, managerVars, id, closes, players, events, inputs, pluginVars, closed>>

closeAllPlayers(i) ==
    /\ run[i] = "closeAll"
    /\ closed' = closed \cup Present(i)
    /\ players' = [players EXCEPT ![i] = [p \in Players |-> None]]
    /\ Goto(i, "closePlugin")
    /\ UNCHANGED <<handlerVars, managerVars, id, closes, events, inputs, pluginVars>>

\* Run's deferred calls.
ClosePlugin(i) ==
    /\ run[i] = "closePlugin"
    /\ closes' = [closes EXCEPT ![i] = @ + 1]
    /\ Goto(i, "cleanup")
    /\ UNCHANGED <<handlerVars, managerVars, id, players, events, inputs, pluginVars, closed>>

\* Only the instance itself is evicted.
Cleanup(i) ==
    /\ run[i] = "cleanup"
    /\ matches' = IF matches[id[i]] = i THEN [matches EXCEPT ![id[i]] = None] ELSE matches
    /\ Goto(i, "dec")
    /\ UNCHANGED <<handlerVars, gauge, stopped, id, closes, players, events, inputs, pluginVars, closed>>

DecActiveMatches(i) ==
    /\ run[i] = "dec"
    /\ gauge' = gauge - 1
    /\ Goto(i, "over")
    /\ UNCHANGED <<handlerVars, matches, stopped, id, closes, players, events, inputs, pluginVars, closed>>

CloseManager ==
    /\ "shutdown" \in Faults
    /\ ~stopped
    /\ stopped' = TRUE
    /\ UNCHANGED <<handlerVars, matches, gauge, id, run, closes, players, events, inputs,
                   pluginVars, closed>>

FindOrCreate(h) == FindMatch(h) \/ CreateFails(h) \/ CreatePlugin(h) \/ InsertMatch(h)
Join(h) == JoinMatch(h) \/ SendJoined(h)
Leave(h) == LeaveMatch(h) \/ SendLeft(h)
handleRoom(h) == authenticateFails(h) \/ Connect(h) \/ FindOrCreate(h) \/ Join(h) \/ Leave(h)
Respond(i) ==
    \/ broadcast(i) \/ dispatchEvent(i) \/ FrameSent(i) \/ EndTick(i)
    \/ \E h \in Handlers : SendFrame(i, h)
tick(i) == DrainActions(i) \/ OnTick(i) \/ Respond(i)
Ending(i) ==
    \/ Finalise(i) \/ FinaliseSent(i) \/ closeAllPlayers(i)
    \/ ClosePlugin(i) \/ Cleanup(i) \/ DecActiveMatches(i)

Next ==
    \/ \E h \in Handlers : handleRoom(h) \/ SubmitInput(h) \/ Disconnect(h)
    \/ \E i \in Instances : tick(i) \/ CtxDone(i) \/ Ending(i)
    \/ CloseManager

Spec == Init /\ [][Next]_vars

\* Every goroutine that can run does; Go's select picks the cancelled context
\* eventually even though the ticker keeps firing; a response has finitely many
\* frames; and the daemon's context closes the WebTransport server, which ends
\* its sessions.
FairSpec ==
    /\ Spec
    /\ \A i \in Instances :
          WF_vars(tick(i) \/ Ending(i)) /\ SF_vars(EndTick(i)) /\ SF_vars(CtxDone(i))
    /\ \A h \in Handlers :
          WF_vars(FindOrCreate(h) \/ Join(h) \/ (stopped /\ Disconnect(h)) \/ Leave(h))

----------------------------------------------------------------------------
(* Properties.                                                             *)

\* At most one instance of a match is alive at a time, although plugins are
\* built outside the lock, and while it is it can be found under its id.
SingleInstance ==
    \A i, j \in Instances :
        run[i] \in Started \ {"dec"} /\ run[j] \in Started \ {"dec"} /\ id[i] = id[j]
            => i = j /\ matches[id[i]] = i

\* Every plugin the factory created is closed exactly once, by the race's loser,
\* by a failed Init or by Run, and never before its last tick; and the
\* active-matches gauge counts exactly the Run goroutines that are alive.
PluginClosedOnce ==
    /\ \A i \in Instances :
          closes[i] = IF run[i] \in {"discarded", "cleanup", "dec", "over"} THEN 1 ELSE 0
    /\ gauge = Cardinality({i \in Instances : run[i] \in Started})

\* While a match plays, a joined player's slot is held by the session that
\* joined: no other session's Leave can take it away.
SlotOwned ==
    \A h \in Handlers : conn[h] \in {"sendJoined", "read", "leave"}
            /\ run[inst[h]] \in Started \ {"closePlugin", "cleanup", "dec"}
        => players[inst[h]][PlayerOf[h]] = h

\* As long as no event was dropped, the plugin never gets an action of a player
\* it has not been told about: actions are drained before events.
ActionsAfterJoined == \A i \in Instances : strays[i] = {}

\* Once the daemon shuts down every match ends, its plugin is closed and every
\* session's handler returns, although dispatchEvent may be waiting, with the
\* match's lock, for a client that grants no stream.
ShutdownEnds ==
    stopped ~> /\ \A i \in Instances : run[i] \in {"unused", "discarded", "over"}
               /\ \A h \in Handlers : conn[h] \in {"new", "gone"}

\* What the plugin is told of Match.players: between two ticks, with every event
\* sent and none dropped, whoever it takes to be present holds a slot, although a
\* slot is freed and taken again before the events about it are sent, and whoever
\* holds a slot it takes to be present.  The second half is exact for a player with
\* one session.  After a reconnect the plugin may have been told last that the player
\* left: the Joined of the new session can overtake the Left of the old one, which
\* Leave sends after it unlocks.  A lost connection is a Leave like any other: the
\* code reserves no slot for a reconnect, as docs/architecture.md says it does.
ViewExact ==
    \A i \in Instances : \A p \in Players :
        /\ run[i] = "idle" /\ events[i] = <<>>
        /\ \A h \in Handlers : inst[h] = i => conn[h] \notin {"sendJoined", "sendLeft"}
        => /\ p \in view[i] => players[i][p] # None
           /\ players[i][p] # None =>
                 \/ p \in view[i]
                 \/ p \in left[i] /\ Cardinality({h \in Handlers : PlayerOf[h] = p}) # 1
=============================================================================
