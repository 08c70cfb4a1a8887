---------------------------- MODULE RoomProofs -----------------------------
(***************************************************************************)
(* Proofs about Room, for any numbers of sessions, players, matches and    *)
(* plugin instances and any set of faults.                                 *)
(***************************************************************************)
EXTENDS Room, FiniteSetTheorems, TLAPS

\* The handler's connection states from which it is in a match.
InMatch == {"join", "sendJoined", "read", "leave", "sendLeft"}

\* The states in which a match has players: from its start to closeAllPlayers.
Playing == Started \ {"closePlugin", "cleanup", "dec"}

\* A handler that has built a plugin owns it alone until it inserts it; one that
\* found or inserted a match is in a match that was started for its match id.
HandlersInMatch ==
    /\ \A h \in Handlers : conn[h] = "insert" =>
          inst[h] \in Instances /\ run[inst[h]] = "built" /\ id[inst[h]] = MatchOf[h]
    /\ \A g, h \in Handlers : conn[g] = "insert" /\ conn[h] = "insert" /\ inst[g] = inst[h] => g = h
    /\ \A h \in Handlers : conn[h] \in InMatch =>
          inst[h] \in Instances /\ run[inst[h]] \in Started \cup {"over"}

\* The manager's map holds exactly the matches whose Run has not cleaned up yet.
Registered ==
    /\ \A i \in Instances : run[i] # "unused" => id[i] \in MatchIDs
    /\ \A i \in Instances : run[i] \in Started \ {"dec"} => matches[id[i]] = i
    /\ \A m \in MatchIDs : matches[m] # None =>
          id[matches[m]] = m /\ run[matches[m]] \in Started \ {"dec"}

RunsFinite == IsFiniteSet({i \in Instances : run[i] \in Started})

RoomInv == TypeOK /\ HandlersInMatch /\ Registered /\ RunsFinite /\ PluginClosedOnce /\ SlotOwned

----------------------------------------------------------------------------
(* Types.                                                                  *)

\* Every step of a session's handler keeps the types.
LEMMA HandlerType ==
    ASSUME TypeOK, HandlersInMatch, NEW h \in Handlers,
           handleRoom(h) \/ SubmitInput(h) \/ Disconnect(h)
    PROVE  TypeOK'
  <1> USE DEF TypeOK, handlerVars, managerVars, pluginVars
  <1>0. MatchOf[h] \in MatchIDs /\ PlayerOf[h] \in Players
    BY SessionAssumption
  <1>1. ASSUME NEW l \in Conns, Step(h, l) PROVE conn' \in [Handlers -> Conns]
    BY <1>1 DEF Step
  <1>2. CASE authenticateFails(h) \/ Connect(h) \/ CreateFails(h) \/ Disconnect(h)
    <2>1. \E l \in Conns : Step(h, l)
      BY <1>2 DEF authenticateFails, Connect, CreateFails, Disconnect, Conns
    <2> QED
      BY <1>1, <1>2, <2>1 DEF authenticateFails, Connect, CreateFails, Disconnect
  <1>3. CASE FindMatch(h)
    <2>1. \E l \in Conns : Step(h, l)
      BY <1>3 DEF FindMatch, Conns
    <2>2. inst' \in [Handlers -> Instances \cup {None}]
      BY <1>0, <1>3 DEF FindMatch
    <2> QED
      BY <1>1, <1>3, <2>1, <2>2 DEF FindMatch
  <1>4. CASE CreatePlugin(h)
    <2>1. PICK i \in Instances :
             /\ id' = [id EXCEPT ![i] = MatchOf[h]]
             /\ \/ Goto(i, "built") /\ inst' = [inst EXCEPT ![h] = i] /\ UNCHANGED closes
                \/ Goto(i, "discarded") /\ closes' = [closes EXCEPT ![i] = @ + 1] /\ UNCHANGED inst
             /\ \E l \in Conns : Step(h, l)
      BY <1>4 DEF CreatePlugin, Conns
    <2>2. id' \in [Instances -> MatchIDs \cup {None}]
      BY <1>0, <2>1
    <2>3. run' \in [Instances -> Runs]
      BY <2>1 DEF Goto, Runs
    <2>4. inst' \in [Handlers -> Instances \cup {None}]
      BY <2>1
    <2>5. closes' \in [Instances -> Nat]
      BY <2>1
    <2> QED
      BY <1>1, <1>4, <2>1, <2>2, <2>3, <2>4, <2>5 DEF CreatePlugin
  <1>5. CASE InsertMatch(h)
    <2>1. inst[h] \in Instances
      BY <1>5 DEF InsertMatch, HandlersInMatch
    <2>2. \E l \in Conns : Step(h, l)
      BY <1>5 DEF InsertMatch, Conns
    <2>3. run' \in [Instances -> Runs]
      BY <1>5, <2>1 DEF InsertMatch, Goto, Runs
    <2>4. inst' \in [Handlers -> Instances \cup {None}]
      BY <1>0, <1>5 DEF InsertMatch
    <2>5. closes' \in [Instances -> Nat]
      <3>1. CASE matches[MatchOf[h]] = None
        BY <1>5, <3>1 DEF InsertMatch
      <3>2. CASE matches[MatchOf[h]] # None
        <4>1. closes' = [closes EXCEPT ![inst[h]] = @ + 1]
          BY <1>5, <3>2 DEF InsertMatch
        <4> QED
          BY <2>1, <4>1
      <3> QED
        BY <3>1, <3>2
    <2>6. matches' \in [MatchIDs -> Instances \cup {None}]
      BY <1>0, <1>5, <2>1 DEF InsertMatch
    <2>7. gauge' \in Int
      BY <1>5 DEF InsertMatch
    <2> QED
      BY <1>1, <1>5, <2>2, <2>3, <2>4, <2>5, <2>6, <2>7 DEF InsertMatch
  <1>6. CASE JoinMatch(h)
    <2>1. inst[h] \in Instances
      BY <1>6 DEF JoinMatch, HandlersInMatch, InMatch
    <2>2. \E l \in Conns : Step(h, l)
      BY <1>6 DEF JoinMatch, Conns
    <2>3. players' \in [Instances -> [Players -> Handlers \cup {None}]]
      <3>1. [players[inst[h]] EXCEPT ![PlayerOf[h]] = h] \in [Players -> Handlers \cup {None}]
        BY <1>0, <2>1
      <3>2. \/ UNCHANGED players
            \/ players' = [players EXCEPT ![inst[h]] = [players[inst[h]] EXCEPT ![PlayerOf[h]] = h]]
        BY <1>6 DEF JoinMatch
      <3> QED
        BY <2>1, <3>1, <3>2
    <2> QED
      BY <1>1, <1>6, <2>2, <2>3 DEF JoinMatch
  <1>7. CASE SendJoined(h) \/ SendLeft(h)
    <2>1. inst[h] \in Instances
      BY <1>7 DEF SendJoined, SendLeft, HandlersInMatch, InMatch
    <2>2. \E l \in Conns : Step(h, l)
      BY <1>7 DEF SendJoined, SendLeft, Conns
    <2>3. PICK kind \in {"joined", "left"} : SendEvent(inst[h], <<kind, PlayerOf[h]>>)
      BY <1>7 DEF SendJoined, SendLeft
    <2>4. Append(events[inst[h]], <<kind, PlayerOf[h]>>) \in Seq({"joined", "left"} \X Players)
      BY <1>0, <2>1
    <2>5. events' \in [Instances -> Seq({"joined", "left"} \X Players)]
      BY <2>1, <2>3, <2>4 DEF SendEvent
    <2> QED
      BY <1>1, <1>7, <2>2, <2>5 DEF SendJoined, SendLeft
  <1>8. CASE SubmitInput(h)
    <2>1. inst[h] \in Instances
      BY <1>8 DEF SubmitInput, HandlersInMatch, InMatch
    <2>2. Append(inputs[inst[h]], PlayerOf[h]) \in Seq(Players)
      BY <1>0, <2>1
    <2>3. inputs' \in [Instances -> Seq(Players)]
      BY <1>8, <2>1, <2>2 DEF SubmitInput
    <2> QED
      BY <1>8, <2>3 DEF SubmitInput
  <1>9. CASE LeaveMatch(h)
    <2>1. inst[h] \in Instances
      BY <1>9 DEF LeaveMatch, HandlersInMatch, InMatch
    <2>2. \E l \in Conns : Step(h, l)
      BY <1>9 DEF LeaveMatch, Conns
    <2>3. players' \in [Instances -> [Players -> Handlers \cup {None}]]
      <3>1. [players[inst[h]] EXCEPT ![PlayerOf[h]] = None] \in [Players -> Handlers \cup {None}]
        BY <1>0, <2>1
      <3>2. \/ UNCHANGED players
            \/ players' = [players EXCEPT ![inst[h]] = [players[inst[h]] EXCEPT ![PlayerOf[h]] = None]]
        BY <1>9 DEF LeaveMatch
      <3> QED
        BY <2>1, <3>1, <3>2
    <2>4. closed' \in SUBSET Handlers
      BY <1>0, <1>9, <2>1 DEF LeaveMatch
    <2> QED
      BY <1>1, <1>9, <2>2, <2>3, <2>4 DEF LeaveMatch
  <1> QED
    BY <1>2, <1>3, <1>4, <1>5, <1>6, <1>7, <1>8, <1>9
       DEF handleRoom, FindOrCreate, Join, Leave

\* Every step of a Run loop keeps the types.
LEMMA RunType ==
    ASSUME TypeOK, Registered, NEW i \in Instances, tick(i) \/ CtxDone(i) \/ Ending(i)
    PROVE  TypeOK'
  <1> USE DEF TypeOK, handlerVars, managerVars, pluginVars
  <1>1. ASSUME NEW l \in Runs, Goto(i, l) PROVE run' \in [Instances -> Runs]
    BY <1>1 DEF Goto
  <1>2. CASE DrainActions(i)
    <2>1. inputs[i] \in Seq(Players)
      OBVIOUS
    <2>2. {inputs[i][k] : k \in DOMAIN inputs[i]} \in SUBSET Players
      BY <2>1
    <2>3. batch' \in [Instances -> SUBSET Players] /\ inputs' \in [Instances -> Seq(Players)]
      BY <1>2, <2>2 DEF DrainActions
    <2>4. run' \in [Instances -> Runs]
      BY <1>1, <1>2 DEF DrainActions, Runs
    <2> QED
      BY <1>2, <2>3, <2>4 DEF DrainActions
  <1>3. CASE OnTick(i)
    <2>1. \A evs, kind : LastIs(evs, kind) \subseteq Players /\ Mentioned(evs, kind) \subseteq Players
      BY DEF LastIs, Mentioned
    <2>2. /\ view' \in [Instances -> SUBSET Players]
          /\ left' \in [Instances -> SUBSET Players]
      BY <1>3, <2>1 DEF OnTick
    <2>3. strays' \in [Instances -> SUBSET Players] /\ batch' \in [Instances -> SUBSET Players]
      BY <1>3 DEF OnTick
    <2>4. events' \in [Instances -> Seq({"joined", "left"} \X Players)]
      BY <1>3 DEF OnTick
    <2>5. run' \in [Instances -> Runs]
      BY <1>1, <1>3 DEF OnTick, Runs
    <2> QED
      BY <1>3, <2>2, <2>3, <2>4, <2>5 DEF OnTick
  <1>4. CASE broadcast(i) \/ dispatchEvent(i) \/ Finalise(i)
    <2>0. Present(i) \subseteq Handlers
      BY DEF Present
    <2>1. \E R \in SUBSET Handlers : out' = [out EXCEPT ![i] = R]
      BY <1>4, <2>0 DEF broadcast, dispatchEvent, Finalise
    <2>2. run' \in [Instances -> Runs]
      BY <1>1, <1>4 DEF broadcast, dispatchEvent, Finalise, Runs
    <2>3. out' \in [Instances -> SUBSET Handlers]
      BY <2>1
    <2> QED
      BY <1>4, <2>2, <2>3 DEF broadcast, dispatchEvent, Finalise
  <1>5. ASSUME NEW h \in Handlers, SendFrame(i, h) PROVE TypeOK'
    <2>1. out' \in [Instances -> SUBSET Handlers]
      BY <1>5 DEF SendFrame
    <2> QED
      BY <1>5, <2>1 DEF SendFrame
  <1>6. CASE FrameSent(i) \/ EndTick(i) \/ CtxDone(i) \/ FinaliseSent(i)
    <2>1. run' \in [Instances -> Runs]
      BY <1>1, <1>6 DEF FrameSent, EndTick, CtxDone, FinaliseSent, Runs
    <2> QED
      BY <1>6, <2>1 DEF FrameSent, EndTick, CtxDone, FinaliseSent
  <1>7. CASE closeAllPlayers(i)
    <2>1. closed' \in SUBSET Handlers
      BY <1>7 DEF closeAllPlayers, Present
    <2>2. players' \in [Instances -> [Players -> Handlers \cup {None}]]
      BY <1>7 DEF closeAllPlayers
    <2>3. run' \in [Instances -> Runs]
      BY <1>1, <1>7 DEF closeAllPlayers, Runs
    <2> QED
      BY <1>7, <2>1, <2>2, <2>3 DEF closeAllPlayers
  <1>8. CASE ClosePlugin(i)
    <2>1. closes' \in [Instances -> Nat] /\ run' \in [Instances -> Runs]
      BY <1>1, <1>8 DEF ClosePlugin, Runs
    <2> QED
      BY <1>8, <2>1 DEF ClosePlugin
  <1>9. CASE Cleanup(i)
    <2>1. id[i] \in MatchIDs
      BY <1>9 DEF Cleanup, Registered
    <2>2. matches' \in [MatchIDs -> Instances \cup {None}] /\ run' \in [Instances -> Runs]
      BY <1>1, <1>9, <2>1 DEF Cleanup, Runs
    <2> QED
      BY <1>9, <2>2 DEF Cleanup
  <1>10. CASE DecActiveMatches(i)
    <2>1. gauge' \in Int /\ run' \in [Instances -> Runs]
      BY <1>1, <1>10 DEF DecActiveMatches, Runs
    <2> QED
      BY <1>10, <2>1 DEF DecActiveMatches
  <1> QED
    BY <1>2, <1>3, <1>4, <1>5, <1>6, <1>7, <1>8, <1>9, <1>10 DEF tick, Respond, Ending

----------------------------------------------------------------------------
(* The manager's map, the plugins and the gauge.                           *)

\* Run loops between their start and the close of their plugin.
Alive == Started \ {"cleanup", "dec"}

\* A step that builds, starts and ends no match, and brings no handler to its
\* Join, leaves the books of the manager in order.
LEMMA QuietStep ==
    ASSUME RoomInv, UNCHANGED <<inst, matches, gauge, id, closes>>,
           \A i \in Instances : run'[i] = run[i] \/ (run[i] \in Alive /\ run'[i] \in Alive),
           \A h \in Handlers :
              \/ conn'[h] = conn[h]
              \/ conn'[h] \notin InMatch \cup {"insert"}
              \/ conn[h] \in InMatch /\ conn'[h] \in InMatch
    PROVE  HandlersInMatch' /\ Registered' /\ RunsFinite' /\ PluginClosedOnce'
  <1>1. \A i \in Instances : /\ run'[i] \in Started <=> run[i] \in Started
                             /\ run'[i] \in Started \ {"dec"} <=> run[i] \in Started \ {"dec"}
                             /\ run'[i] = "unused" <=> run[i] = "unused"
                             /\ run'[i] = "built" <=> run[i] = "built"
                             /\ run'[i] = "over" <=> run[i] = "over"
                             /\ run'[i] \in {"discarded", "cleanup", "dec", "over"}
                                   <=> run[i] \in {"discarded", "cleanup", "dec", "over"}
    BY DEF Alive, Started
  <1>2. HandlersInMatch'
    BY <1>1 DEF RoomInv, HandlersInMatch, InMatch
  <1>3. Registered'
    <2>1. \A m \in MatchIDs : matches[m] # None => matches[m] \in Instances
      BY DEF RoomInv, TypeOK
    <2> QED
      BY <1>1, <2>1 DEF RoomInv, Registered
  <1>4. {i \in Instances : run[i] \in Started}' = {i \in Instances : run[i] \in Started}
    BY <1>1
  <1>5. RunsFinite' /\ PluginClosedOnce'
    BY <1>1, <1>4 DEF RoomInv, RunsFinite, PluginClosedOnce
  <1> QED
    BY <1>2, <1>3, <1>5

\* The Run loops that count, when one starts or ends.
LEMMA RunsChange ==
    ASSUME RunsFinite, NEW i \in Instances, NEW l,
           run \in [Instances -> Runs], run' = [run EXCEPT ![i] = l]
    PROVE  LET R == {j \in Instances : run[j] \in Started}
               Rn == {j \in Instances : run'[j] \in Started}
           IN /\ (run[i] \in Started <=> l \in Started) => Rn = R
              /\ run[i] \notin Started /\ l \in Started
                    => IsFiniteSet(Rn) /\ Cardinality(Rn) = Cardinality(R) + 1
              /\ run[i] \in Started /\ l \notin Started
                    => IsFiniteSet(Rn) /\ Cardinality(Rn) = Cardinality(R) - 1
              /\ Cardinality(R) \in Nat
  <1> DEFINE R == {j \in Instances : run[j] \in Started}
             Rn == {j \in Instances : run'[j] \in Started}
  <1>1. \A j \in Instances : run'[j] = IF j = i THEN l ELSE run[j]
    OBVIOUS
  <1>2. (run[i] \in Started <=> l \in Started) => Rn = R
    BY <1>1
  <1>3. IsFiniteSet(R)
    BY DEF RunsFinite
  <1>4. Cardinality(R) \in Nat
    BY <1>3, FS_CardinalityType
  <1>5. ASSUME run[i] \notin Started, l \in Started
        PROVE  IsFiniteSet(Rn) /\ Cardinality(Rn) = Cardinality(R) + 1
    <2>1. Rn = R \cup {i} /\ i \notin R
      BY <1>1, <1>5
    <2> HIDE DEF R, Rn
    <2> QED
      BY <1>3, <2>1, FS_AddElement
  <1>6. ASSUME run[i] \in Started, l \notin Started
        PROVE  IsFiniteSet(Rn) /\ Cardinality(Rn) = Cardinality(R) - 1
    <2>1. Rn = R \ {i} /\ i \in R
      BY <1>1, <1>6
    <2> HIDE DEF R, Rn
    <2> QED
      BY <1>3, <2>1, FS_RemoveElement
  <1> QED
    BY <1>2, <1>4, <1>5, <1>6

\* A match found in the map has been started and has not been cleaned up.
LEMMA FindBooks ==
    ASSUME RoomInv, NEW h \in Handlers, FindMatch(h)
    PROVE  HandlersInMatch' /\ Registered' /\ RunsFinite' /\ PluginClosedOnce'
  <1> USE DEF RoomInv, managerVars
  <1>1. UNCHANGED <<matches, gauge, id, run, closes>>
    BY DEF FindMatch
  <1>2. Registered' /\ RunsFinite' /\ PluginClosedOnce'
    BY <1>1 DEF Registered, RunsFinite, PluginClosedOnce
  <1>3. CASE matches[MatchOf[h]] = None
    BY <1>1, <1>2, <1>3, QuietStep DEF FindMatch, Step, TypeOK, InMatch
  <1>4. CASE matches[MatchOf[h]] # None
    <2>1. PICK i \in Instances : i = matches[MatchOf[h]]
      BY <1>4, SessionAssumption DEF TypeOK
    <2>2. run[i] \in Started
      BY <1>4, <2>1, SessionAssumption DEF Registered
    <2>3. \A g \in Handlers :
             IF g = h THEN conn'[g] = "join" /\ inst'[g] = i
                      ELSE conn'[g] = conn[g] /\ inst'[g] = inst[g]
      BY <1>4, <2>1 DEF FindMatch, Step, TypeOK
    <2>4. HandlersInMatch'
      BY <1>1, <2>2, <2>3 DEF HandlersInMatch, InMatch
    <2> QED
      BY <1>2, <2>4
  <1> QED
    BY <1>3, <1>4

\* A new plugin belongs to the handler that built it, or was closed again.
LEMMA CreateBooks ==
    ASSUME RoomInv, NEW h \in Handlers, CreatePlugin(h)
    PROVE  HandlersInMatch' /\ Registered' /\ RunsFinite' /\ PluginClosedOnce'
  <1> USE DEF RoomInv, managerVars
  <1>1. PICK i \in Instances :
           /\ run[i] = "unused"
           /\ id' = [id EXCEPT ![i] = MatchOf[h]]
           /\ \/ /\ run' = [run EXCEPT ![i] = "built"]
                 /\ inst' = [inst EXCEPT ![h] = i]
                 /\ conn' = [conn EXCEPT ![h] = "insert"]
                 /\ UNCHANGED closes
              \/ /\ run' = [run EXCEPT ![i] = "discarded"]
                 /\ closes' = [closes EXCEPT ![i] = @ + 1]
                 /\ conn' = [conn EXCEPT ![h] = "gone"]
                 /\ UNCHANGED inst
    BY DEF CreatePlugin, Goto, Step
  <1>2. UNCHANGED <<matches, gauge>> /\ MatchOf[h] \in MatchIDs
    BY SessionAssumption DEF CreatePlugin
  <1>3. /\ \A j \in Instances : j # i => run'[j] = run[j] /\ id'[j] = id[j] /\ closes'[j] = closes[j]
        /\ id'[i] = MatchOf[h]
        /\ run'[i] \in {"built", "discarded"}
    BY <1>1 DEF TypeOK
  <1>4. {j \in Instances : run[j] \in Started}' = {j \in Instances : run[j] \in Started}
    BY <1>1, <1>3 DEF Started
  <1>5. \A m \in MatchIDs : matches[m] # None => matches[m] \in Instances /\ matches[m] # i
    BY <1>1 DEF TypeOK, Registered, Started
  <1>6. Registered'
    BY <1>1, <1>2, <1>3, <1>5 DEF Registered, Started
  <1>7. closes[i] = 0
    BY <1>1 DEF PluginClosedOnce
  <1>8. closes'[i] = IF run'[i] = "discarded" THEN 1 ELSE 0
    BY <1>1, <1>7 DEF TypeOK
  <1>9. RunsFinite' /\ PluginClosedOnce'
    BY <1>2, <1>3, <1>4, <1>8 DEF RunsFinite, PluginClosedOnce
  <1>10. \A g \in Handlers : conn[g] \in InMatch \cup {"insert"} => inst[g] # i /\ inst[g] \in Instances
    BY <1>1 DEF HandlersInMatch, Started
  <1>11. HandlersInMatch'
    <2>1. CASE /\ run' = [run EXCEPT ![i] = "built"]
               /\ inst' = [inst EXCEPT ![h] = i]
               /\ conn' = [conn EXCEPT ![h] = "insert"]
      <3>1. \A g \in Handlers :
               IF g = h THEN conn'[g] = "insert" /\ inst'[g] = i
                        ELSE conn'[g] = conn[g] /\ inst'[g] = inst[g]
        BY <2>1 DEF TypeOK
      <3>2. run'[i] = "built"
        BY <2>1 DEF TypeOK
      <3> QED
        BY <1>3, <1>10, <3>1, <3>2 DEF HandlersInMatch, InMatch
    <2>2. CASE conn' = [conn EXCEPT ![h] = "gone"] /\ UNCHANGED inst
      <3>1. \A g \in Handlers : inst'[g] = inst[g] /\ (conn'[g] = conn[g] \/ conn'[g] = "gone")
        BY <2>2 DEF TypeOK
      <3> QED
        BY <1>3, <1>10, <3>1 DEF HandlersInMatch, InMatch
    <2> QED
      BY <1>1, <2>1, <2>2
  <1> QED
    BY <1>6, <1>9, <1>11

\* Of the handlers that built a match for one id, the first inserts its own; a
\* later one closes its plugin and goes on with the first's.
LEMMA InsertBooks ==
    ASSUME RoomInv, NEW h \in Handlers, InsertMatch(h)
    PROVE  HandlersInMatch' /\ Registered' /\ RunsFinite' /\ PluginClosedOnce'
  <1> USE DEF RoomInv, managerVars
  <1>1. PICK i \in Instances : i = inst[h] /\ run[i] = "built" /\ id[i] = MatchOf[h]
    BY DEF InsertMatch, HandlersInMatch
  <1>2. PICK m \in MatchIDs : m = MatchOf[h]
    BY SessionAssumption
  <1>3. /\ conn[h] = "insert"
        /\ conn' = [conn EXCEPT ![h] = "join"]
        /\ UNCHANGED id
    BY DEF InsertMatch, Step
  <1>4. closes[i] = 0
    BY <1>1 DEF PluginClosedOnce
  <1>5. \A g \in Handlers : g # h =>
           /\ conn[g] \in InMatch \cup {"insert"} => inst[g] # i /\ inst[g] \in Instances
           /\ conn'[g] = conn[g]
    BY <1>1, <1>3 DEF HandlersInMatch, Started, TypeOK
  <1>6. CASE matches[m] # None
    <2>1. /\ closes' = [closes EXCEPT ![i] = @ + 1]
          /\ run' = [run EXCEPT ![i] = "discarded"]
          /\ inst' = [inst EXCEPT ![h] = matches[m]]
          /\ UNCHANGED <<matches, gauge>>
      BY <1>1, <1>2, <1>6 DEF InsertMatch, Goto
    <2>2. PICK k \in Instances : k = matches[m] /\ run[k] \in Started /\ k # i
      BY <1>1, <1>6 DEF TypeOK, Registered, Started
    <2>3. \A j \in Instances : j # i => run'[j] = run[j] /\ closes'[j] = closes[j]
      BY <2>1 DEF TypeOK
    <2>4. run'[i] = "discarded" /\ closes'[i] = 1
      BY <1>4, <2>1 DEF TypeOK
    <2>5. {j \in Instances : run[j] \in Started}' = {j \in Instances : run[j] \in Started}
      BY <1>1, <2>3, <2>4 DEF Started
    <2>6. RunsFinite' /\ PluginClosedOnce'
      BY <2>1, <2>3, <2>4, <2>5 DEF RunsFinite, PluginClosedOnce
    <2>7. \A n \in MatchIDs : matches[n] # None => matches[n] \in Instances /\ matches[n] # i
      BY <1>1 DEF TypeOK, Registered, Started
    <2>8. Registered'
      BY <1>1, <1>2, <1>3, <2>1, <2>3, <2>4, <2>7 DEF Registered, Started
    <2>9. \A g \in Handlers : IF g = h THEN conn'[g] = "join" /\ inst'[g] = k
                              ELSE inst'[g] = inst[g]
      BY <1>3, <2>1, <2>2 DEF TypeOK
    <2>10. HandlersInMatch'
      BY <1>3, <1>5, <2>2, <2>3, <2>9 DEF HandlersInMatch, InMatch
    <2> QED
      BY <2>6, <2>8, <2>10
  <1>7. CASE matches[m] = None
    <2>1. /\ matches' = [matches EXCEPT ![m] = i]
          /\ gauge' = gauge + 1
          /\ run' = [run EXCEPT ![i] = "idle"]
          /\ UNCHANGED <<inst, closes>>
      BY <1>1, <1>2, <1>7 DEF InsertMatch, Goto
    <2>2. \A j \in Instances : run'[j] = IF j = i THEN "idle" ELSE run[j]
      BY <2>1 DEF TypeOK
    <2>3. \A n \in MatchIDs : matches'[n] = IF n = m THEN i ELSE matches[n]
      BY <2>1 DEF TypeOK
    <2>4. RunsFinite' /\ gauge' = Cardinality({j \in Instances : run'[j] \in Started})
      <3>1. run[i] \notin Started /\ "idle" \in Started
        BY <1>1 DEF Started, Runs
      <3> QED
        BY <2>1, <3>1, RunsChange DEF TypeOK, RunsFinite, PluginClosedOnce
    <2>5. PluginClosedOnce'
      BY <1>1, <2>1, <2>2, <2>4 DEF PluginClosedOnce
    <2>6. Registered'
      <3>1. \A j \in Instances : run[j] \in Started \ {"dec"} => id[j] # m /\ id[j] \in MatchIDs
        BY <1>7, NoneAssumption DEF Registered, Started
      <3>2. \A n \in MatchIDs : matches[n] # None => matches[n] \in Instances /\ matches[n] # i
        BY <1>1 DEF TypeOK, Registered, Started
      <3> QED
        BY <1>1, <1>2, <1>3, <2>2, <2>3, <3>1, <3>2 DEF Registered, Started, Runs
    <2>7. \A g \in Handlers : g # h => conn'[g] = conn[g] /\ inst'[g] = inst[g]
      BY <1>5, <2>1
    <2>8. conn'[h] = "join" /\ inst'[h] = i
      BY <1>1, <1>3, <2>1 DEF TypeOK
    <2>9. HandlersInMatch'
      BY <1>3, <1>5, <2>2, <2>7, <2>8 DEF HandlersInMatch, InMatch, Started, Runs
    <2> QED
      BY <2>4, <2>5, <2>6, <2>9
  <1> QED
    BY <1>6, <1>7

\* Run's deferred calls close the plugin, free the id and count the match out.
LEMMA EndBooks ==
    ASSUME RoomInv, NEW i \in Instances, ClosePlugin(i) \/ Cleanup(i) \/ DecActiveMatches(i)
    PROVE  HandlersInMatch' /\ Registered' /\ RunsFinite' /\ PluginClosedOnce'
  <1> USE DEF RoomInv, managerVars, handlerVars
  <1>1. UNCHANGED <<conn, inst, id>>
    BY DEF ClosePlugin, Cleanup, DecActiveMatches
  <1>2. PICK l \in {"cleanup", "dec", "over"} : run' = [run EXCEPT ![i] = l]
    BY DEF ClosePlugin, Cleanup, DecActiveMatches, Goto
  <1>3. \A j \in Instances : run'[j] = IF j = i THEN l ELSE run[j]
    BY <1>2 DEF TypeOK
  <1>4. run[i] \in {"closePlugin", "cleanup", "dec"}
    BY DEF ClosePlugin, Cleanup, DecActiveMatches
  <1>5. HandlersInMatch'
    BY <1>1, <1>3, <1>4 DEF HandlersInMatch, Started, Runs
  <1>6. CASE ClosePlugin(i)
    <2>1. /\ l = "cleanup"
          /\ run[i] = "closePlugin"
          /\ closes' = [closes EXCEPT ![i] = @ + 1]
          /\ UNCHANGED <<matches, gauge>>
      BY <1>2, <1>6 DEF ClosePlugin, Goto, TypeOK
    <2>2. closes'[i] = 1 /\ \A j \in Instances : j # i => closes'[j] = closes[j]
      <3>1. closes[i] = 0
        BY <2>1 DEF PluginClosedOnce
      <3> QED
        BY <2>1, <3>1 DEF TypeOK
    <2>3. {j \in Instances : run[j] \in Started}' = {j \in Instances : run[j] \in Started}
      BY <1>3, <2>1 DEF Started, Runs
    <2>4. RunsFinite' /\ PluginClosedOnce'
      BY <1>3, <2>1, <2>2, <2>3 DEF RunsFinite, PluginClosedOnce
    <2>5. Registered'
      BY <1>1, <1>3, <2>1 DEF Registered, Started, Runs, TypeOK
    <2> QED
      BY <1>5, <2>4, <2>5
  <1>7. CASE Cleanup(i)
    <2>1. l = "dec" /\ run[i] = "cleanup" /\ UNCHANGED <<closes, gauge>>
      BY <1>2, <1>7 DEF Cleanup, Goto, TypeOK
    <2>2. id[i] \in MatchIDs /\ matches[id[i]] = i
      BY <2>1 DEF Registered, Started, Runs
    <2>3. matches' = [matches EXCEPT ![id[i]] = None]
      BY <1>7, <2>2 DEF Cleanup
    <2>4. {j \in Instances : run[j] \in Started}' = {j \in Instances : run[j] \in Started}
      BY <1>3, <2>1 DEF Started, Runs
    <2>5. RunsFinite' /\ PluginClosedOnce'
      BY <1>3, <2>1, <2>4 DEF RunsFinite, PluginClosedOnce
    <2>6. \A n \in MatchIDs : matches'[n] = IF n = id[i] THEN None ELSE matches[n]
      BY <2>2, <2>3 DEF TypeOK
    <2>7. \A j \in Instances : j # i /\ run[j] \in Started \ {"dec"} => id[j] # id[i]
      BY <2>2 DEF Registered
    <2>8. \A n \in MatchIDs : n # id[i] /\ matches[n] # None => matches[n] # i /\ matches[n] \in Instances
      BY DEF Registered, TypeOK
    <2>9. Registered'
      BY <1>1, <1>3, <2>1, <2>2, <2>6, <2>7, <2>8 DEF Registered, Started
    <2> QED
      BY <1>5, <2>5, <2>9
  <1>8. CASE DecActiveMatches(i)
    <2>1. l = "over" /\ run[i] = "dec" /\ gauge' = gauge - 1 /\ UNCHANGED <<closes, matches>>
      BY <1>2, <1>8 DEF DecActiveMatches, Goto, TypeOK
    <2>2. run[i] \in Started /\ "over" \notin Started
      BY <2>1 DEF Started, Runs
    <2>3. RunsFinite' /\ gauge' = Cardinality({j \in Instances : run'[j] \in Started})
      BY <1>2, <2>1, <2>2, RunsChange DEF TypeOK, RunsFinite, PluginClosedOnce
    <2>4. PluginClosedOnce'
      BY <1>3, <2>1, <2>3 DEF PluginClosedOnce
    <2>5. \A n \in MatchIDs : matches[n] # None => matches[n] # i /\ matches[n] \in Instances
      BY <2>1 DEF Registered, TypeOK
    <2>6. Registered'
      BY <1>1, <1>3, <2>1, <2>2, <2>5 DEF Registered, Started
    <2> QED
      BY <1>5, <2>3, <2>4, <2>6
  <1> QED
    BY <1>6, <1>7, <1>8

----------------------------------------------------------------------------
(* Slots.                                                                  *)

Joined == {"sendJoined", "read", "leave"}

\* A step that moves no session into a slot or out of one leaves the slots with
\* their sessions: a match, once started, does not play again after it has closed.
LEMMA QuietSlots ==
    ASSUME RoomInv, UNCHANGED players,
           \A h \in Handlers : conn'[h] \in Joined => conn[h] \in Joined /\ inst'[h] = inst[h],
           \A i \in Instances : run'[i] \in Playing /\ run[i] \in Started \cup {"over"}
              => run[i] \in Playing
    PROVE  SlotOwned'
  BY DEF RoomInv, SlotOwned, HandlersInMatch, InMatch, Joined, Playing, Started

\* A session joins only a free slot.
LEMMA JoinSlots ==
    ASSUME RoomInv, NEW h \in Handlers, JoinMatch(h)
    PROVE  SlotOwned'
  <1> USE DEF RoomInv
  <1>1. UNCHANGED <<inst, run>> /\ inst[h] \in Instances /\ PlayerOf[h] \in Players
    BY SessionAssumption DEF JoinMatch, HandlersInMatch, InMatch
  <1>2. CASE players[inst[h]][PlayerOf[h]] # None
    BY <1>1, <1>2, QuietSlots DEF JoinMatch, Step, Joined, TypeOK
  <1>3. CASE players[inst[h]][PlayerOf[h]] = None
    <2>1. /\ players' = [players EXCEPT ![inst[h]] = [players[inst[h]] EXCEPT ![PlayerOf[h]] = h]]
          /\ conn' = [conn EXCEPT ![h] = "sendJoined"]
      BY <1>3 DEF JoinMatch, Step
    <2>2. players'[inst[h]][PlayerOf[h]] = h
      BY <1>1, <2>1 DEF TypeOK
    <2>3. ASSUME NEW g \in Handlers, g # h, conn'[g] \in Joined, run[inst[g]] \in Playing
          PROVE  players'[inst[g]][PlayerOf[g]] = g
      <3>1. conn[g] \in Joined /\ PlayerOf[g] \in Players
        BY <2>1, <2>3, SessionAssumption DEF TypeOK
      <3>2. players[inst[g]][PlayerOf[g]] = g /\ inst[g] \in Instances
        BY <2>3, <3>1 DEF SlotOwned, Joined, Playing, HandlersInMatch, InMatch
      <3>3. inst[g] # inst[h] \/ PlayerOf[g] # PlayerOf[h]
        BY <1>3, <3>2, NoneAssumption
      <3>4. players'[inst[g]][PlayerOf[g]] = players[inst[g]][PlayerOf[g]]
        BY <1>1, <2>1, <3>1, <3>2, <3>3 DEF TypeOK
      <3> QED
        BY <3>2, <3>4
    <2> QED
      BY <1>1, <2>2, <2>3 DEF SlotOwned, Joined, Playing
  <1> QED
    BY <1>2, <1>3

\* A session's Leave frees its own slot: while the match plays no other session
\* can hold it.
LEMMA LeaveSlots ==
    ASSUME RoomInv, NEW h \in Handlers, LeaveMatch(h)
    PROVE  SlotOwned'
  <1> USE DEF RoomInv
  <1>1. /\ UNCHANGED <<inst, run>>
        /\ conn[h] = "leave"
        /\ inst[h] \in Instances
        /\ PlayerOf[h] \in Players
    BY SessionAssumption DEF LeaveMatch, HandlersInMatch, InMatch
  <1>2. CASE players[inst[h]][PlayerOf[h]] = None
    BY <1>1, <1>2, QuietSlots DEF LeaveMatch, Step, Joined, TypeOK
  <1>3. CASE players[inst[h]][PlayerOf[h]] # None
    <2>1. /\ players' = [players EXCEPT ![inst[h]] = [players[inst[h]] EXCEPT ![PlayerOf[h]] = None]]
          /\ conn' = [conn EXCEPT ![h] = "sendLeft"]
      BY <1>3 DEF LeaveMatch, Step
    <2>2. ASSUME NEW g \in Handlers, conn'[g] \in Joined, run[inst[g]] \in Playing
          PROVE  players'[inst[g]][PlayerOf[g]] = g
      <3>1. g # h /\ conn[g] \in Joined /\ PlayerOf[g] \in Players
        BY <2>1, <2>2, SessionAssumption DEF TypeOK, Joined
      <3>2. players[inst[g]][PlayerOf[g]] = g /\ inst[g] \in Instances
        BY <2>2, <3>1 DEF SlotOwned, Joined, Playing, HandlersInMatch, InMatch
      <3>3. inst[g] = inst[h] => players[inst[h]][PlayerOf[h]] = h
        BY <1>1, <2>2 DEF SlotOwned, Playing
      <3>4. inst[g] # inst[h] \/ PlayerOf[g] # PlayerOf[h]
        BY <3>1, <3>2, <3>3
      <3>5. players'[inst[g]][PlayerOf[g]] = players[inst[g]][PlayerOf[g]]
        BY <1>1, <2>1, <3>1, <3>2, <3>4 DEF TypeOK
      <3> QED
        BY <3>2, <3>5
    <2> QED
      BY <1>1, <2>2 DEF SlotOwned, Joined, Playing
  <1> QED
    BY <1>2, <1>3

\* closeAllPlayers frees the slots of one match, which has stopped playing.
LEMMA CloseSlots ==
    ASSUME RoomInv, NEW i \in Instances, closeAllPlayers(i)
    PROVE  SlotOwned'
  <1>1. /\ UNCHANGED <<conn, inst>>
        /\ \A j \in Instances : j # i => players'[j] = players[j] /\ run'[j] = run[j]
        /\ run'[i] = "closePlugin"
    BY DEF RoomInv, TypeOK, closeAllPlayers, Goto, handlerVars
  <1> QED
    BY <1>1 DEF RoomInv, SlotOwned, HandlersInMatch, InMatch

----------------------------------------------------------------------------
(* The invariant.                                                          *)

\* The invariant holds when the daemon starts.
LEMMA RoomInit == Init => RoomInv
  <1> SUFFICES ASSUME Init PROVE RoomInv
    OBVIOUS
  <1>1. TypeOK
    <2>1. events \in [Instances -> Seq({"joined", "left"} \X Players)]
      BY <<>> \in Seq({"joined", "left"} \X Players) DEF Init
    <2>2. inputs \in [Instances -> Seq(Players)]
      BY <<>> \in Seq(Players) DEF Init
    <2>3. players \in [Instances -> [Players -> Handlers \cup {None}]]
      BY DEF Init
    <2>4. /\ conn \in [Handlers -> Conns] /\ run \in [Instances -> Runs]
          /\ inst \in [Handlers -> Instances \cup {None}]
          /\ matches \in [MatchIDs -> Instances \cup {None}]
          /\ id \in [Instances -> MatchIDs \cup {None}]
      BY SMT DEF Init, Conns, Runs
    <2>5. /\ gauge \in Int
          /\ stopped \in BOOLEAN
          /\ closes \in [Instances -> Nat]
      <3>1. stopped \in BOOLEAN
        BY Zenon DEF Init
      <3>2. gauge \in Int /\ closes \in [Instances -> Nat]
        BY DEF Init
      <3> QED
        BY <3>1, <3>2
    <2>6. /\ batch \in [Instances -> SUBSET Players] /\ view \in [Instances -> SUBSET Players]
          /\ left \in [Instances -> SUBSET Players] /\ strays \in [Instances -> SUBSET Players]
      BY {} \in SUBSET Players DEF Init
    <2>7. out \in [Instances -> SUBSET Handlers] /\ closed \in SUBSET Handlers
      BY {} \in SUBSET Handlers DEF Init
    <2> QED
      BY <2>1, <2>2, <2>3, <2>4, <2>5, <2>6, <2>7 DEF TypeOK
  <1>2. HandlersInMatch /\ Registered /\ SlotOwned
    BY DEF Init, HandlersInMatch, InMatch, Registered, Started, Runs, SlotOwned
  <1>3. {i \in Instances : run[i] \in Started} = {}
    BY DEF Init, Started
  <1>4. RunsFinite /\ Cardinality({i \in Instances : run[i] \in Started}) = 0
    BY <1>3, FS_EmptySet DEF RunsFinite
  <1>5. PluginClosedOnce
    BY <1>4 DEF Init, PluginClosedOnce
  <1> QED
    BY <1>1, <1>2, <1>4, <1>5 DEF RoomInv

\* Every step of a session's handler keeps the invariant.
LEMMA HandlerStep ==
    ASSUME RoomInv, NEW h \in Handlers, handleRoom(h) \/ SubmitInput(h) \/ Disconnect(h)
    PROVE  RoomInv'
  <1> USE DEF managerVars, handlerVars
  <1>0. TypeOK'
    BY HandlerType DEF RoomInv
  <1>1. CASE \/ authenticateFails(h) \/ Connect(h) \/ CreateFails(h) \/ Disconnect(h)
             \/ SendJoined(h) \/ SendLeft(h) \/ SubmitInput(h)
    <2>1. UNCHANGED <<inst, matches, gauge, id, run, closes, players>>
      BY <1>1 DEF authenticateFails, Connect, CreateFails, Disconnect, SendJoined, SendLeft,
             SubmitInput
    <2>2. \A g \in Handlers :
             \/ conn'[g] = conn[g]
             \/ conn'[g] \in {"find", "gone"}
             \/ conn[g] = "read" /\ conn'[g] = "leave"
             \/ conn[g] = "sendJoined" /\ conn'[g] = "read"
      BY <1>1 DEF authenticateFails, Connect, CreateFails, Disconnect, SendJoined, SendLeft,
             SubmitInput, Step, RoomInv, TypeOK
    <2>3. HandlersInMatch' /\ Registered' /\ RunsFinite' /\ PluginClosedOnce'
      BY <2>1, <2>2, QuietStep DEF InMatch
    <2>4. SlotOwned'
      BY <2>1, <2>2, QuietSlots DEF Joined
    <2> QED
      BY <1>0, <2>3, <2>4 DEF RoomInv
  <1>2. CASE FindMatch(h)
    <2>1. UNCHANGED <<run, players>> /\ \A g \in Handlers :
             (conn'[g] = conn[g] /\ inst'[g] = inst[g]) \/ conn'[g] \in {"join", "create"}
      BY <1>2 DEF FindMatch, Step, RoomInv, TypeOK
    <2>2. SlotOwned'
      BY <2>1, QuietSlots DEF Joined
    <2> QED
      BY <1>0, <1>2, <2>2, FindBooks DEF RoomInv
  <1>3. CASE CreatePlugin(h)
    <2>1. UNCHANGED players
      BY <1>3 DEF CreatePlugin
    <2>2. \A g \in Handlers :
             (conn'[g] = conn[g] /\ inst'[g] = inst[g]) \/ conn'[g] \in {"insert", "gone"}
      BY <1>3 DEF CreatePlugin, Step, RoomInv, TypeOK
    <2>3. \A i \in Instances : run'[i] = run[i] \/ run'[i] \in {"built", "discarded"}
      BY <1>3 DEF CreatePlugin, Goto, RoomInv, TypeOK
    <2>4. SlotOwned'
      BY <2>1, <2>2, <2>3, QuietSlots DEF Joined, Playing, Started
    <2> QED
      BY <1>0, <1>3, <2>4, CreateBooks DEF RoomInv
  <1>4. CASE InsertMatch(h)
    <2>1. UNCHANGED players /\ inst[h] \in Instances /\ run[inst[h]] = "built"
      BY <1>4 DEF InsertMatch, RoomInv, HandlersInMatch
    <2>2. \A g \in Handlers : (conn'[g] = conn[g] /\ inst'[g] = inst[g]) \/ conn'[g] = "join"
      BY <1>4 DEF InsertMatch, Step, RoomInv, TypeOK
    <2>3. \A i \in Instances : run'[i] = run[i] \/ run[i] = "built"
      BY <1>4, <2>1 DEF InsertMatch, Goto, RoomInv, TypeOK
    <2>4. SlotOwned'
      BY <2>1, <2>2, <2>3, QuietSlots DEF Joined, Playing, Started
    <2> QED
      BY <1>0, <1>4, <2>4, InsertBooks DEF RoomInv
  <1>5. CASE JoinMatch(h) \/ LeaveMatch(h)
    <2>1. UNCHANGED <<inst, matches, gauge, id, run, closes>>
      BY <1>5 DEF JoinMatch, LeaveMatch
    <2>2. \A g \in Handlers : \/ conn'[g] = conn[g]
                              \/ conn'[g] = "gone"
                              \/ conn[g] = "join" /\ conn'[g] = "sendJoined"
                              \/ conn[g] = "leave" /\ conn'[g] = "sendLeft"
      BY <1>5 DEF JoinMatch, LeaveMatch, Step, RoomInv, TypeOK
    <2>3. HandlersInMatch' /\ Registered' /\ RunsFinite' /\ PluginClosedOnce'
      BY <2>1, <2>2, QuietStep DEF InMatch
    <2> QED
      BY <1>0, <1>5, <2>3, JoinSlots, LeaveSlots DEF RoomInv
  <1> QED
    BY <1>1, <1>2, <1>3, <1>4, <1>5 DEF handleRoom, FindOrCreate, Join, Leave

\* Every step of a Run loop keeps the invariant.
LEMMA RunStep ==
    ASSUME RoomInv, NEW i \in Instances, tick(i) \/ CtxDone(i) \/ Ending(i)
    PROVE  RoomInv'
  <1> USE DEF managerVars, handlerVars
  <1>0. TypeOK' /\ UNCHANGED <<conn, inst>>
    BY RunType DEF RoomInv, tick, Respond, Ending, CtxDone, DrainActions, OnTick, broadcast,
       dispatchEvent, FrameSent, EndTick, SendFrame, Finalise, FinaliseSent, closeAllPlayers,
       ClosePlugin, Cleanup, DecActiveMatches
  <1>1. CASE tick(i) \/ CtxDone(i) \/ Finalise(i) \/ FinaliseSent(i) \/ closeAllPlayers(i)
    <2>1. UNCHANGED <<matches, gauge, id, closes>>
      BY <1>1 DEF tick, Respond, CtxDone, DrainActions, OnTick, broadcast, dispatchEvent,
         FrameSent, EndTick, SendFrame, Finalise, FinaliseSent, closeAllPlayers
    <2>2. \/ UNCHANGED run
          \/ /\ run[i] \in Alive \ {"closePlugin"}
             /\ \E l \in Alive : run' = [run EXCEPT ![i] = l]
      BY <1>1 DEF tick, Respond, CtxDone, DrainActions, OnTick, broadcast, dispatchEvent,
         FrameSent, EndTick, SendFrame, Finalise, FinaliseSent, closeAllPlayers, Goto,
         Alive, Started, Runs
    <2>3. \A j \in Instances : run'[j] = run[j]
             \/ (run[j] \in Alive \ {"closePlugin"} /\ run'[j] \in Alive)
      BY <2>2 DEF RoomInv, TypeOK
    <2>4. HandlersInMatch' /\ Registered' /\ RunsFinite' /\ PluginClosedOnce'
      BY <1>0, <2>1, <2>3, QuietStep
    <2>5. CASE UNCHANGED players
      BY <1>0, <2>3, <2>4, <2>5, QuietSlots DEF RoomInv, Playing, Alive
    <2> QED
      BY <1>0, <1>1, <2>4, <2>5, CloseSlots DEF RoomInv, tick, Respond, CtxDone, DrainActions,
         OnTick, broadcast, dispatchEvent, FrameSent, EndTick, SendFrame, Finalise, FinaliseSent
  <1>2. CASE ClosePlugin(i) \/ Cleanup(i) \/ DecActiveMatches(i)
    <2>1. UNCHANGED players
      BY <1>2 DEF ClosePlugin, Cleanup, DecActiveMatches
    <2>2. \A j \in Instances : run'[j] = run[j] \/ run'[j] \in {"cleanup", "dec", "over"}
      BY <1>2 DEF ClosePlugin, Cleanup, DecActiveMatches, Goto, RoomInv, TypeOK
    <2>3. SlotOwned'
      BY <1>0, <2>1, <2>2, QuietSlots DEF Playing, Started
    <2> QED
      BY <1>0, <1>2, <2>3, EndBooks DEF RoomInv
  <1> QED
    BY <1>1, <1>2 DEF Ending

\* The invariant is inductive.
LEMMA RoomStep == RoomInv /\ [Next]_vars => RoomInv'
  <1> SUFFICES ASSUME RoomInv, [Next]_vars PROVE RoomInv'
    OBVIOUS
  <1>1. CASE CloseManager \/ UNCHANGED vars
    <2>1. /\ UNCHANGED <<conn, inst, matches, gauge, id, run, closes, players, events, inputs,
                         batch, out, view, left, strays, closed>>
          /\ stopped' \in BOOLEAN
      BY <1>1 DEF CloseManager, vars, handlerVars, managerVars, pluginVars, RoomInv, TypeOK
    <2>2. TypeOK'
      BY <2>1 DEF RoomInv, TypeOK
    <2>3. HandlersInMatch' /\ Registered' /\ RunsFinite' /\ PluginClosedOnce'
      BY <2>1, QuietStep
    <2>4. SlotOwned'
      BY <2>1, QuietSlots
    <2> QED
      BY <2>2, <2>3, <2>4 DEF RoomInv
  <1> QED
    BY <1>1, HandlerStep, RunStep DEF Next

\* At most one instance of a match is alive at a time, however many sessions build
\* a plugin for it at once, and while it is it can be found under its id.
THEOREM SingleInstanceHolds == Spec => []SingleInstance
  <1>1. RoomInv => SingleInstance
    BY DEF RoomInv, Registered, SingleInstance
  <1> QED
    BY <1>1, RoomInit, RoomStep, PTL DEF Spec

\* Every plugin the factory created is closed exactly once, whoever loses the race,
\* fails or shuts down, and the gauge counts exactly the Run loops alive.
THEOREM PluginClosedOnceHolds == Spec => []PluginClosedOnce
  <1>1. RoomInv => PluginClosedOnce
    BY DEF RoomInv
  <1> QED
    BY <1>1, RoomInit, RoomStep, PTL DEF Spec

\* While a match plays, no other session's Leave takes a joined session's slot away.
THEOREM SlotOwnedHolds == Spec => []SlotOwned
  <1>1. RoomInv => SlotOwned
    BY DEF RoomInv
  <1> QED
    BY <1>1, RoomInit, RoomStep, PTL DEF Spec

\* Room's type invariant.
THEOREM RoomTypeCorrect == Spec => []TypeOK
  <1>1. RoomInv => TypeOK
    BY DEF RoomInv
  <1> QED
    BY <1>1, RoomInit, RoomStep, PTL DEF Spec

----------------------------------------------------------------------------
(* What the plugin is told, as long as the event channel never fills.      *)

\* Every session sends at most a Joined and a Left, so a channel with room for
\* both of every session drops none.
EventRoom == IsFiniteSet(Handlers) /\ EventCap >= 2 * Cardinality(Handlers)

\* A handler is Announced between its two events.
Announced == {"read", "leave", "sendLeft"}

SentJoined == {h \in Handlers : conn[h] \in Announced \cup {"gone"}}
SentLeft == {h \in Handlers : conn[h] = "gone"}
EventsFit == \A i \in Instances : Len(events[i]) <= Cardinality(SentJoined) + Cardinality(SentLeft)

\* The players the plugin takes to be present once it has seen the events in the
\* channel, and the players it knows or will know by then.
ViewAfter(i) == (view[i] \cup LastIs(events[i], "joined")) \ LastIs(events[i], "left")
Known(i) == view[i] \cup left[i] \cup Mentioned(events[i], "joined")

Fresh == {"unused", "built", "discarded"}

\* A match that was not started has told its plugin nothing.
FreshQuiet ==
    \A i \in Instances : run[i] \in Fresh =>
        events[i] = <<>> /\ inputs[i] = <<>> /\ batch[i] = {} /\ view[i] = {}

\* A Joined in the channel is the last word on its player, or a Left is there too.
JoinedOrLeft ==
    \A i \in Instances : Mentioned(events[i], "joined")
        \subseteq LastIs(events[i], "joined") \cup Mentioned(events[i], "left")

\* Whoever reads inputs was announced, and every action is of such a player.
ActorsKnown ==
    /\ \A h \in Handlers : conn[h] \in Announced => PlayerOf[h] \in Known(inst[h])
    /\ \A i \in Instances : batch[i] \cup {inputs[i][k] : k \in DOMAIN inputs[i]} \subseteq Known(i)

\* A slot is held by a session of its player that has joined this match.
SlotHolder ==
    \A i \in Instances : \A p \in Players : players[i][p] # None =>
        LET h == players[i][p]
        IN PlayerOf[h] = p /\ inst[h] = i /\ conn[h] \in {"sendJoined", "read", "leave"}

\* The only session of its player.
Sole(h) == \A g \in Handlers : PlayerOf[g] = PlayerOf[h] => g = h

\* While a match plays, its plugin will take the player of a sole session to be
\* present exactly while that session's handler is between its two events.
SoleFollows ==
    \A h \in Handlers : \A i \in Instances : Sole(h) /\ run[i] \in Playing =>
        (PlayerOf[h] \in ViewAfter(i) <=>
            inst[h] = i /\ conn[h] \in Announced)

\* However many sessions a player has, one of them vouches for it: the plugin will
\* take nobody to be present none of whose handlers is between its two events.
Vouches(h, i, p) == PlayerOf[h] = p /\ inst[h] = i /\ conn[h] \in Announced
Vouched ==
    \A i \in Instances : run[i] \in Playing =>
        \A p \in ViewAfter(i) : \E h \in Handlers : Vouches(h, i, p)

ViewFollows == SoleFollows /\ Vouched

EventInv ==
    /\ RoomInv /\ EventsFit /\ FreshQuiet /\ JoinedOrLeft /\ ActorsKnown
    /\ SlotHolder /\ ViewFollows /\ ActionsAfterJoined

----------------------------------------------------------------------------
(* What an event adds to the channel.                                      *)

\* Nothing is said by an empty channel.
LEMMA EmptyChannel == \A k : Mentioned(<<>>, k) = {} /\ LastIs(<<>>, k) = {}
  BY DEF Mentioned, LastIs

\* An event is the last word on its player and leaves the others' alone.
LEMMA AppendEvent ==
    ASSUME NEW s \in Seq({"joined", "left"} \X Players), NEW kind \in {"joined", "left"},
           NEW p \in Players
    PROVE  \A k \in {"joined", "left"} :
             /\ Mentioned(Append(s, <<kind, p>>), k)
                  = Mentioned(s, k) \cup (IF k = kind THEN {p} ELSE {})
             /\ LastIs(Append(s, <<kind, p>>), k)
                  = (LastIs(s, k) \ {p}) \cup (IF k = kind THEN {p} ELSE {})
  <1> DEFINE t == Append(s, <<kind, p>>)
  <1>1. /\ Len(s) \in Nat /\ DOMAIN s = 1..Len(s) /\ DOMAIN t = 1..Len(s) + 1
        /\ t[Len(s) + 1] = <<kind, p>>
        /\ \A n \in 1..Len(s) : t[n] = s[n] /\ s[n] \in {"joined", "left"} \X Players
    OBVIOUS
  <1> HIDE DEF t
  <1> SUFFICES ASSUME NEW k \in {"joined", "left"}
               PROVE  /\ Mentioned(t, k) = Mentioned(s, k) \cup (IF k = kind THEN {p} ELSE {})
                      /\ LastIs(t, k) = (LastIs(s, k) \ {p}) \cup (IF k = kind THEN {p} ELSE {})
    BY DEF t
  <1> SUFFICES ASSUME NEW q \in Players
               PROVE  /\ q \in Mentioned(t, k) <=> q \in Mentioned(s, k) \/ (k = kind /\ q = p)
                      /\ q \in LastIs(t, k) <=> (q \in LastIs(s, k) /\ q # p) \/ (k = kind /\ q = p)
    <2>1. Mentioned(t, k) \cup Mentioned(s, k) \cup LastIs(t, k) \cup LastIs(s, k) \subseteq Players
      BY DEF Mentioned, LastIs
    <2> QED
      BY <2>1
  <1>2. q \in Mentioned(t, k) <=> q \in Mentioned(s, k) \/ (k = kind /\ q = p)
    <2>1. ASSUME NEW n \in DOMAIN t, t[n] = <<k, q>>
          PROVE  q \in Mentioned(s, k) \/ (k = kind /\ q = p)
      <3>1. CASE n = Len(s) + 1
        BY <1>1, <2>1, <3>1
      <3>2. CASE n \in 1..Len(s)
        BY <1>1, <2>1, <3>2 DEF Mentioned
      <3> QED
        BY <1>1, <3>1, <3>2
    <2>2. ASSUME NEW n \in DOMAIN s, s[n] = <<k, q>> PROVE n \in DOMAIN t /\ t[n] = <<k, q>>
      BY <1>1, <2>2
    <2>3. Len(s) + 1 \in DOMAIN t
      BY <1>1
    <2> QED
      BY <1>1, <2>1, <2>2, <2>3 DEF Mentioned
  <1>3. ASSUME q \in LastIs(t, k) PROVE (q \in LastIs(s, k) /\ q # p) \/ (k = kind /\ q = p)
    <2>1. PICK n \in DOMAIN t : t[n] = <<k, q>> /\ \A m \in DOMAIN t : m > n => t[m][2] # q
      BY <1>3 DEF LastIs
    <2>2. CASE n = Len(s) + 1
      BY <1>1, <2>1, <2>2
    <2>3. CASE n \in 1..Len(s)
      <3>1. q # p
        BY <1>1, <2>1, <2>3
      <3>2. s[n] = <<k, q>> /\ \A m \in DOMAIN s : m > n => s[m][2] # q
        BY <1>1, <2>1, <2>3
      <3> QED
        BY <1>1, <2>3, <3>1, <3>2 DEF LastIs
    <2> QED
      BY <1>1, <2>2, <2>3
  <1>4. ASSUME q \in LastIs(s, k), q # p PROVE q \in LastIs(t, k)
    <2>1. PICK n \in DOMAIN s : s[n] = <<k, q>> /\ \A m \in DOMAIN s : m > n => s[m][2] # q
      BY <1>4 DEF LastIs
    <2>2. n \in DOMAIN t /\ t[n] = <<k, q>>
      BY <1>1, <2>1
    <2>3. \A m \in DOMAIN t : m > n => t[m][2] # q
      BY <1>1, <1>4, <2>1
    <2> QED
      BY <2>2, <2>3 DEF LastIs
  <1>5. ASSUME k = kind, q = p PROVE q \in LastIs(t, k)
    <2>1. Len(s) + 1 \in DOMAIN t /\ \A m \in DOMAIN t : ~ (m > Len(s) + 1)
      BY <1>1
    <2> QED
      BY <1>1, <1>5, <2>1 DEF LastIs
  <1> QED
    BY <1>2, <1>3, <1>4, <1>5

\* What each event does to what the plugin will believe of match i.
LEMMA SendBelief ==
    ASSUME TypeOK, NEW i \in Instances, NEW kind \in {"joined", "left"}, NEW p \in Players,
           events' = [events EXCEPT ![i] = Append(@, <<kind, p>>)], UNCHANGED <<view, left>>
    PROVE  /\ \A j \in Instances : j # i => events'[j] = events[j]
           /\ Len(events'[i]) = Len(events[i]) + 1
           /\ Known(i)' = Known(i) \cup (IF kind = "joined" THEN {p} ELSE {})
           /\ ViewAfter(i)' = (ViewAfter(i) \ {p}) \cup (IF kind = "joined" THEN {p} ELSE {})
           /\ Mentioned(events[i], "joined") \subseteq LastIs(events[i], "joined") \cup Mentioned(events[i], "left")
                => Mentioned(events'[i], "joined")
                     \subseteq LastIs(events'[i], "joined") \cup Mentioned(events'[i], "left")
  <1>1. events[i] \in Seq({"joined", "left"} \X Players) /\ events'[i] = Append(events[i], <<kind, p>>)
    BY DEF TypeOK
  <1>2. \A k \in {"joined", "left"} :
          /\ Mentioned(events'[i], k) = Mentioned(events[i], k) \cup (IF k = kind THEN {p} ELSE {})
          /\ LastIs(events'[i], k) = (LastIs(events[i], k) \ {p}) \cup (IF k = kind THEN {p} ELSE {})
    <2>1. \A k \in {"joined", "left"} :
             /\ Mentioned(Append(events[i], <<kind, p>>), k)
                  = Mentioned(events[i], k) \cup (IF k = kind THEN {p} ELSE {})
             /\ LastIs(Append(events[i], <<kind, p>>), k)
                  = (LastIs(events[i], k) \ {p}) \cup (IF k = kind THEN {p} ELSE {})
      <3> DEFINE s == events[i]
      <3>1. s \in Seq({"joined", "left"} \X Players)
        BY <1>1
      <3> HIDE DEF s
      <3>2. \A k \in {"joined", "left"} :
              /\ Mentioned(Append(s, <<kind, p>>), k) = Mentioned(s, k) \cup (IF k = kind THEN {p} ELSE {})
              /\ LastIs(Append(s, <<kind, p>>), k) = (LastIs(s, k) \ {p}) \cup (IF k = kind THEN {p} ELSE {})
        BY ONLY <3>1, AppendEvent, SMTT(30), kind \in {"joined", "left"}, p \in Players
      <3> QED
        BY <3>2 DEF s
    <2> QED
      BY <1>1, <2>1
  <1>3. Len(events'[i]) = Len(events[i]) + 1
    BY <1>1
  <1>4. \A j \in Instances : j # i => events'[j] = events[j]
    BY DEF TypeOK
  <1>5. Known(i)' = Known(i) \cup (IF kind = "joined" THEN {p} ELSE {})
    BY <1>2 DEF Known
  <1>6. ViewAfter(i)' = (ViewAfter(i) \ {p}) \cup (IF kind = "joined" THEN {p} ELSE {})
    BY <1>2 DEF ViewAfter
  <1> QED
    BY <1>2, <1>3, <1>4, <1>5, <1>6

----------------------------------------------------------------------------
(* The channel never fills.                                                *)

\* The counts of the sessions that have sent a Joined and a Left.
LEMMA SentCounts ==
    ASSUME EventRoom
    PROVE  /\ IsFiniteSet(SentJoined) /\ IsFiniteSet(SentLeft)
           /\ Cardinality(SentJoined) \in Nat /\ Cardinality(SentLeft) \in Nat
           /\ Cardinality(Handlers) \in Nat
           /\ Cardinality(SentLeft) <= Cardinality(SentJoined)
           /\ Cardinality(SentJoined) <= Cardinality(Handlers)
  <1>1. SentLeft \subseteq SentJoined /\ SentJoined \subseteq Handlers
    BY DEF SentLeft, SentJoined
  <1>2. IsFiniteSet(SentJoined) /\ Cardinality(SentJoined) <= Cardinality(Handlers)
    BY <1>1, FS_Subset DEF EventRoom
  <1>3. IsFiniteSet(SentLeft) /\ Cardinality(SentLeft) <= Cardinality(SentJoined)
    BY <1>1, <1>2, FS_Subset
  <1> QED
    BY <1>2, <1>3, FS_CardinalityType DEF EventRoom

\* No session takes back what it has sent.
LEMMA SentGrows ==
    ASSUME EventRoom, SentJoined \subseteq SentJoined', SentLeft \subseteq SentLeft'
    PROVE  /\ Cardinality(SentJoined) <= Cardinality(SentJoined')
           /\ Cardinality(SentLeft) <= Cardinality(SentLeft')
           /\ Cardinality(SentJoined') \in Nat /\ Cardinality(SentLeft') \in Nat
  <1>1. SentLeft' \subseteq Handlers /\ SentJoined' \subseteq Handlers
    BY DEF SentLeft, SentJoined
  <1>2. IsFiniteSet(SentJoined') /\ IsFiniteSet(SentLeft')
    BY <1>1, FS_Subset DEF EventRoom
  <1> QED
    BY <1>2, FS_Subset, FS_CardinalityType

\* A Joined or a Left always finds room in the channel, and the channel stays
\* within what was sent.
LEMMA SendFits ==
    ASSUME EventRoom, TypeOK, EventsFit, NEW h \in Handlers, inst[h] \in Instances,
           SendJoined(h) \/ SendLeft(h)
    PROVE  /\ Len(events[inst[h]]) < EventCap
           /\ EventsFit'
  <1> DEFINE J == Cardinality(SentJoined)
  <1> DEFINE L == Cardinality(SentLeft)
  <1> DEFINE n == Cardinality(Handlers)
  <1>1. /\ J \in Nat /\ L \in Nat /\ n \in Nat /\ L <= J /\ J <= n
        /\ IsFiniteSet(SentJoined) /\ IsFiniteSet(SentLeft)
    BY SentCounts
  <1>2. \A i \in Instances : Len(events[i]) \in Nat /\ Len(events[i]) <= J + L
    BY DEF EventsFit, TypeOK
  <1>3. EventCap \in Nat /\ EventCap >= 2 * n
    BY CapAssumption DEF EventRoom
  <1>4. CASE SendJoined(h)
    <2>1. h \notin SentJoined /\ SentJoined' = SentJoined \cup {h} /\ SentLeft' = SentLeft
      BY <1>4 DEF SendJoined, Step, SentJoined, SentLeft, Announced, TypeOK
    <2>2. Cardinality(SentJoined') = J + 1 /\ Cardinality(SentLeft') = L
      BY <1>1, <2>1, FS_AddElement
    <2>3. J + 1 <= n
      <3>1. SentJoined' \subseteq Handlers
        BY DEF SentJoined
      <3> QED
        BY <2>2, <3>1, FS_Subset DEF EventRoom
    <2>4. Len(events[inst[h]]) < EventCap
      BY <1>1, <1>2, <1>3, <2>3
    <2>5. events' = [events EXCEPT ![inst[h]] = Append(@, <<"joined", PlayerOf[h]>>)]
      BY <1>4, <2>4 DEF SendJoined, SendEvent
    <2>6. \A i \in Instances : Len(events'[i]) <= J + 1 + L
      BY <1>1, <1>2, <2>5 DEF TypeOK
    <2> QED
      BY <1>1, <2>2, <2>4, <2>6 DEF EventsFit
  <1>5. CASE SendLeft(h)
    <2>1. h \notin SentLeft /\ SentLeft' = SentLeft \cup {h} /\ SentJoined' = SentJoined
      BY <1>5 DEF SendLeft, Step, SentJoined, SentLeft, Announced, TypeOK
    <2>2. Cardinality(SentLeft') = L + 1 /\ Cardinality(SentJoined') = J
      BY <1>1, <2>1, FS_AddElement
    <2>3. L + 1 <= n
      <3>1. SentLeft' \subseteq Handlers
        BY DEF SentLeft
      <3> QED
        BY <2>2, <3>1, FS_Subset DEF EventRoom
    <2>4. Len(events[inst[h]]) < EventCap
      BY <1>1, <1>2, <1>3, <2>3
    <2>5. events' = [events EXCEPT ![inst[h]] = Append(@, <<"left", PlayerOf[h]>>)]
      BY <1>5, <2>4 DEF SendLeft, SendEvent
    <2>6. \A i \in Instances : Len(events'[i]) <= J + 1 + L
      BY <1>1, <1>2, <2>5 DEF TypeOK
    <2> QED
      BY <1>1, <2>2, <2>4, <2>6 DEF EventsFit
  <1> QED
    BY <1>4, <1>5

----------------------------------------------------------------------------
(* Steps that send and drain nothing.                                      *)

\* Such a step keeps what is said about the channels, if no session becomes
\* announced by it, none unsends an event and no started match becomes fresh.
LEMMA QuietChannels ==
    ASSUME EventRoom, EventInv, UNCHANGED <<events, inputs, batch, view, left, strays>>,
           \A g \in Handlers : conn'[g] \in Announced => conn[g] \in Announced /\ inst'[g] = inst[g],
           \A g \in Handlers : conn[g] \in Announced => conn'[g] \in Announced \cup {"gone"},
           \A g \in Handlers : conn[g] = "gone" => conn'[g] = "gone",
           \A i \in Instances : run'[i] \in Fresh => run[i] \in Fresh
    PROVE  EventsFit' /\ FreshQuiet' /\ JoinedOrLeft' /\ ActorsKnown' /\ ActionsAfterJoined'
  <1>1. EventsFit'
    <2>1. SentJoined \subseteq SentJoined' /\ SentLeft \subseteq SentLeft'
      BY DEF SentJoined, SentLeft
    <2>2. /\ Cardinality(SentJoined) <= Cardinality(SentJoined')
          /\ Cardinality(SentLeft) <= Cardinality(SentLeft')
          /\ Cardinality(SentJoined') \in Nat /\ Cardinality(SentLeft') \in Nat
          /\ Cardinality(SentJoined) \in Nat /\ Cardinality(SentLeft) \in Nat
      BY <2>1, SentGrows, SentCounts
    <2>3. \A i \in Instances : /\ Len(events[i]) \in Nat
                               /\ Len(events[i]) <= Cardinality(SentJoined) + Cardinality(SentLeft)
      BY DEF EventInv, EventsFit, RoomInv, TypeOK
    <2>4. \A i \in Instances :
             Len(events[i]) <= Cardinality(SentJoined') + Cardinality(SentLeft')
      BY <2>2, <2>3
    <2> QED
      BY <2>4 DEF EventsFit
  <1>2. FreshQuiet' /\ JoinedOrLeft' /\ ActionsAfterJoined'
    BY DEF EventInv, FreshQuiet, JoinedOrLeft, ActionsAfterJoined
  <1>3. ActorsKnown'
    BY DEF EventInv, ActorsKnown, Known
  <1> QED
    BY <1>1, <1>2, <1>3

\* Such a step keeps what the plugin will believe, if it announces no session of a
\* match that plays and takes none back.
LEMMA QuietView ==
    ASSUME EventInv, UNCHANGED <<events, view>>,
           \A i \in Instances : run'[i] \in Playing => run[i] \in Playing,
           \A g \in Handlers, i \in Instances : run[i] \in Playing =>
              (inst'[g] = i /\ conn'[g] \in Announced <=> inst[g] = i /\ conn[g] \in Announced)
    PROVE  ViewFollows'
  <1>1. \A i \in Instances : ViewAfter(i)' = ViewAfter(i)
    BY DEF ViewAfter
  <1>2. SoleFollows'
    BY <1>1 DEF EventInv, ViewFollows, SoleFollows
  <1>3. Vouched'
    BY <1>1 DEF EventInv, ViewFollows, Vouched, Vouches
  <1> QED
    BY <1>2, <1>3 DEF ViewFollows

\* A step that leaves the slots and their holders' sessions alone.
LEMMA QuietHolders ==
    ASSUME EventInv, UNCHANGED players,
           \A g \in Handlers : conn[g] \in {"sendJoined", "read", "leave"} =>
              inst'[g] = inst[g] /\ conn'[g] \in {"sendJoined", "read", "leave"}
    PROVE  SlotHolder'
  <1> SUFFICES ASSUME NEW i \in Instances, NEW p \in Players, players[i][p] # None
               PROVE  LET h == players[i][p]
                      IN PlayerOf[h] = p /\ inst'[h] = i /\ conn'[h] \in {"sendJoined", "read", "leave"}
    BY DEF SlotHolder
  <1>1. players[i][p] \in Handlers
    BY DEF EventInv, RoomInv, TypeOK
  <1> QED
    BY <1>1 DEF EventInv, SlotHolder

----------------------------------------------------------------------------
(* The steps of a session.                                                 *)

\* Up to Join nothing is sent.
LEMMA EnterEvents ==
    ASSUME EventRoom, EventInv, NEW h \in Handlers,
           \/ authenticateFails(h) \/ Connect(h) \/ FindMatch(h) \/ CreateFails(h)
           \/ CreatePlugin(h) \/ InsertMatch(h) \/ JoinMatch(h)
    PROVE  EventsFit' /\ FreshQuiet' /\ JoinedOrLeft' /\ ActorsKnown' /\ ActionsAfterJoined'
  <1>1. UNCHANGED <<events, inputs, batch, view, left, strays>>
    BY DEF authenticateFails, Connect, FindMatch, CreateFails, CreatePlugin, InsertMatch,
       JoinMatch, pluginVars
  <1>2. /\ conn[h] \in {"new", "find", "create", "insert", "join"}
        /\ conn'[h] \notin Announced
        /\ \A g \in Handlers : g # h => conn'[g] = conn[g] /\ inst'[g] = inst[g]
    BY DEF authenticateFails, Connect, FindMatch, CreateFails, CreatePlugin, InsertMatch,
       JoinMatch, Step, Announced, EventInv, RoomInv, TypeOK
  <1>3. \A i \in Instances : run'[i] \in Fresh => run[i] \in Fresh
    <2>1. CASE CreatePlugin(h)
      BY <2>1 DEF CreatePlugin, Goto, Fresh, EventInv, RoomInv, TypeOK
    <2>2. CASE InsertMatch(h)
      BY <2>2 DEF InsertMatch, Goto, Fresh, EventInv, RoomInv, HandlersInMatch, TypeOK
    <2>3. CASE \/ authenticateFails(h) \/ Connect(h) \/ FindMatch(h) \/ CreateFails(h)
               \/ JoinMatch(h)
      BY <2>3 DEF authenticateFails, Connect, FindMatch, CreateFails, JoinMatch
    <2> QED
      BY <2>1, <2>2, <2>3
  <1>4. conn[h] \notin Announced \cup {"gone"}
    BY <1>2 DEF Announced
  <1> QED
    BY <1>1, <1>2, <1>3, <1>4, QuietChannels

\* Nor does the plugin's belief change; a match that starts playing has no
\* announced session and a plugin that believes nothing.
LEMMA EnterView ==
    ASSUME EventInv, NEW h \in Handlers,
           \/ authenticateFails(h) \/ Connect(h) \/ FindMatch(h) \/ CreateFails(h)
           \/ CreatePlugin(h) \/ InsertMatch(h) \/ JoinMatch(h)
    PROVE  ViewFollows'
  <1>1. UNCHANGED <<events, view>>
    BY DEF authenticateFails, Connect, FindMatch, CreateFails, CreatePlugin, InsertMatch,
       JoinMatch, pluginVars
  <1>2. /\ conn[h] \notin Announced /\ conn'[h] \notin Announced
        /\ \A g \in Handlers : g # h => conn'[g] = conn[g] /\ inst'[g] = inst[g]
    BY DEF authenticateFails, Connect, FindMatch, CreateFails, CreatePlugin, InsertMatch,
       JoinMatch, Step, Announced, EventInv, RoomInv, TypeOK
  <1>3. CASE InsertMatch(h)
    <2>1. PICK j \in Instances : j = inst[h] /\ run[j] = "built"
      BY <1>3 DEF InsertMatch, EventInv, RoomInv, HandlersInMatch
    <2>2. \A i \in Instances : i # j => run'[i] = run[i]
      BY <1>3, <2>1 DEF InsertMatch, Goto, EventInv, RoomInv, TypeOK
    <2>3. \A g \in Handlers : conn[g] \in Announced => inst[g] # j
      BY <2>1 DEF EventInv, RoomInv, HandlersInMatch, InMatch, Announced, Started
    <2>4. ViewAfter(j)' = {}
      <3>1. events'[j] = <<>> /\ view'[j] = {}
        BY <1>1, <2>1 DEF EventInv, FreshQuiet, Fresh
      <3> QED
        BY <3>1, EmptyChannel DEF ViewAfter
    <2>5. \A i \in Instances : ViewAfter(i)' = ViewAfter(i)
      BY <1>1 DEF ViewAfter
    <2>6. ASSUME NEW g \in Handlers, NEW i \in Instances, Sole(g), run'[i] \in Playing
          PROVE  PlayerOf[g] \in ViewAfter(i)' <=> inst'[g] = i /\ conn'[g] \in Announced
      <3>1. CASE i = j
        BY <1>2, <2>3, <2>4, <3>1
      <3>2. CASE i # j
        BY <1>2, <2>2, <2>5, <2>6, <3>2 DEF EventInv, ViewFollows, SoleFollows
      <3> QED
        BY <3>1, <3>2
    <2>7. ASSUME NEW i \in Instances, run'[i] \in Playing, NEW p \in ViewAfter(i)'
          PROVE  \E g \in Handlers : Vouches(g, i, p)'
      <3>1. i # j /\ run[i] \in Playing /\ p \in ViewAfter(i)
        BY <2>2, <2>4, <2>5, <2>7
      <3>2. PICK g \in Handlers : Vouches(g, i, p)
        BY <3>1 DEF EventInv, ViewFollows, Vouched
      <3> QED
        BY <1>2, <3>2 DEF Vouches
    <2> QED
      BY <2>6, <2>7 DEF ViewFollows, SoleFollows, Vouched, Sole
  <1>4. CASE \/ authenticateFails(h) \/ Connect(h) \/ FindMatch(h) \/ CreateFails(h)
             \/ CreatePlugin(h) \/ JoinMatch(h)
    <2>1. \A i \in Instances : run'[i] \in Playing => run[i] \in Playing
      BY <1>4 DEF authenticateFails, Connect, FindMatch, CreateFails, CreatePlugin, JoinMatch,
         Goto, Playing, Started, EventInv, RoomInv, TypeOK
    <2> QED
      BY <1>1, <1>2, <2>1, QuietView
  <1> QED
    BY <1>3, <1>4

\* A Joined or a Left reaches the channel, so the plugin will take the session's
\* player to be present, or no longer.
LEMMA SendEvents ==
    ASSUME EventRoom, EventInv, NEW h \in Handlers, SendJoined(h) \/ SendLeft(h)
    PROVE  /\ EventsFit' /\ FreshQuiet' /\ JoinedOrLeft' /\ ActorsKnown' /\ ActionsAfterJoined'
           /\ SlotHolder' /\ ViewFollows'
  <1> DEFINE p == PlayerOf[h]
  <1>0. TypeOK /\ p \in Players
    BY SessionAssumption DEF EventInv, RoomInv
  <1>1. PICK i \in Instances : i = inst[h] /\ run[i] \notin Fresh
    BY DEF SendJoined, SendLeft, EventInv, RoomInv, HandlersInMatch, InMatch, Started, Fresh
  <1>2. Len(events[i]) < EventCap /\ EventsFit'
    BY <1>0, <1>1, SendFits DEF EventInv
  <1>3. PICK kind \in {"joined", "left"} :
           /\ events' = [events EXCEPT ![i] = Append(@, <<kind, p>>)]
           /\ kind = "joined" => conn[h] = "sendJoined" /\ Step(h, "read")
           /\ kind = "left" => conn[h] = "sendLeft" /\ Step(h, "gone")
    BY <1>1, <1>2 DEF SendJoined, SendLeft, SendEvent
  <1>4. UNCHANGED <<inst, run, players, inputs, batch, view, left, strays>>
    BY DEF SendJoined, SendLeft, pluginVars
  <1>5. /\ \A j \in Instances : j # i => events'[j] = events[j]
        /\ Known(i)' = Known(i) \cup (IF kind = "joined" THEN {p} ELSE {})
        /\ ViewAfter(i)' = (ViewAfter(i) \ {p}) \cup (IF kind = "joined" THEN {p} ELSE {})
        /\ Mentioned(events'[i], "joined")
             \subseteq LastIs(events'[i], "joined") \cup Mentioned(events'[i], "left")
    BY <1>0, <1>3, <1>4, SendBelief DEF EventInv, JoinedOrLeft
  <1>6. \A j \in Instances : j # i => Known(j)' = Known(j) /\ ViewAfter(j)' = ViewAfter(j)
    BY <1>4, <1>5 DEF Known, ViewAfter
  <1>7. /\ \A g \in Handlers : g # h => conn'[g] = conn[g]
        /\ kind = "joined" => conn'[h] = "read"
        /\ kind = "left" => conn'[h] = "gone"
    BY <1>0, <1>3 DEF TypeOK, Step
  <1>8. FreshQuiet'
    BY <1>1, <1>4, <1>5 DEF EventInv, FreshQuiet
  <1>9. JoinedOrLeft'
    BY <1>5 DEF EventInv, JoinedOrLeft
  <1>10. ActorsKnown'
    <2>1. \A j \in Instances : Known(j) \subseteq Known(j)'
      BY <1>5, <1>6
    <2>2. ASSUME NEW g \in Handlers, conn'[g] \in Announced
          PROVE  PlayerOf[g] \in Known(inst[g])'
      <3>1. CASE g = h
        <4>1. kind = "joined"
          BY <1>7, <2>2, <3>1 DEF Announced
        <4>2. PlayerOf[g] \in Known(i)'
          BY <1>5, <3>1, <4>1
        <4> QED
          BY <1>1, <1>4, <3>1, <4>2
      <3>2. CASE g # h
        <4>1. PICK j \in Instances : j = inst[g]
          BY <1>7, <2>2, <3>2 DEF EventInv, RoomInv, HandlersInMatch, InMatch, Announced
        <4>2. PlayerOf[g] \in Known(j)'
          BY <1>7, <2>1, <2>2, <3>2, <4>1 DEF EventInv, ActorsKnown
        <4> QED
          BY <1>4, <4>1, <4>2
      <3> QED
        BY <3>1, <3>2
    <2>3. \A j \in Instances : batch[j] \cup {inputs[j][k] : k \in DOMAIN inputs[j]} \subseteq Known(j)'
      BY <2>1 DEF EventInv, ActorsKnown
    <2> QED
      BY <1>4, <2>2, <2>3 DEF ActorsKnown
  <1>11. ActionsAfterJoined'
    BY <1>4 DEF EventInv, ActionsAfterJoined
  <1>12. SlotHolder'
    <2>1. \A g \in Handlers : conn[g] \in {"sendJoined", "read", "leave"} =>
             inst'[g] = inst[g] /\ conn'[g] \in {"sendJoined", "read", "leave"}
      BY <1>3, <1>4, <1>7
    <2> QED
      BY <1>4, <2>1, QuietHolders
  <1>13. ASSUME NEW g \in Handlers, NEW j \in Instances, Sole(g), run[j] \in Playing
         PROVE  PlayerOf[g] \in ViewAfter(j)' <=> inst[g] = j /\ conn'[g] \in Announced
    <2>1. PlayerOf[g] \in ViewAfter(j) <=> inst[g] = j /\ conn[g] \in Announced
      BY <1>13 DEF EventInv, ViewFollows, SoleFollows
    <2>2. CASE g = h /\ j = i
      BY <1>1, <1>5, <1>7, <2>2 DEF Announced
    <2>3. CASE g = h /\ j # i
      BY <1>1, <1>6, <2>1, <2>3
    <2>4. CASE g # h
      <3>1. PlayerOf[g] # p
        BY <1>13, <2>4 DEF Sole
      <3>2. PlayerOf[g] \in ViewAfter(j)' <=> PlayerOf[g] \in ViewAfter(j)
        BY <1>5, <1>6, <3>1
      <3> QED
        BY <1>7, <2>1, <2>4, <3>2
    <2> QED
      BY <2>2, <2>3, <2>4
  <1>14. ASSUME NEW j \in Instances, run[j] \in Playing, NEW q \in ViewAfter(j)'
         PROVE  \E g \in Handlers : Vouches(g, j, q)'
    <2>1. CASE j = i /\ q = p
      <3>1. kind = "joined"
        BY <1>5, <1>14, <2>1
      <3> QED
        BY <1>1, <1>4, <1>7, <2>1, <3>1 DEF Vouches, Announced
    <2>2. CASE j # i \/ q # p
      <3>1. q \in ViewAfter(j)
        BY <1>5, <1>6, <1>14, <2>2
      <3>2. PICK g \in Handlers : Vouches(g, j, q)
        BY <1>14, <3>1 DEF EventInv, ViewFollows, Vouched
      <3>3. g # h
        BY <1>1, <2>2, <3>2 DEF Vouches
      <3> QED
        BY <1>4, <1>7, <3>2, <3>3 DEF Vouches
    <2> QED
      BY <2>1, <2>2
  <1>15. ViewFollows'
    BY <1>4, <1>13, <1>14 DEF ViewFollows, SoleFollows, Vouched, Sole
  <1> QED
    BY <1>2, <1>8, <1>9, <1>10, <1>11, <1>12, <1>15

\* An input is passed on only for a player who was announced.
LEMMA InputEvents ==
    ASSUME EventRoom, EventInv, NEW h \in Handlers, SubmitInput(h)
    PROVE  /\ EventsFit' /\ FreshQuiet' /\ JoinedOrLeft' /\ ActorsKnown' /\ ActionsAfterJoined'
           /\ SlotHolder' /\ ViewFollows'
  <1>1. UNCHANGED <<conn, inst, run, players, events, batch, view, left, strays>>
    BY DEF SubmitInput, handlerVars, pluginVars
  <1>2. PICK i \in Instances : /\ i = inst[h] /\ run[i] \notin Fresh
                               /\ PlayerOf[h] \in Known(i) /\ PlayerOf[h] \in Players
                               /\ inputs' = [inputs EXCEPT ![i] = Append(@, PlayerOf[h])]
    BY SessionAssumption DEF SubmitInput, EventInv, RoomInv, HandlersInMatch, InMatch, Started,
       Fresh, ActorsKnown, Announced
  <1>3. EventsFit' /\ JoinedOrLeft' /\ ActionsAfterJoined'
    <2>1. SentJoined' = SentJoined /\ SentLeft' = SentLeft
      BY <1>1 DEF SentJoined, SentLeft
    <2> QED
      BY <1>1, <2>1 DEF EventInv, EventsFit, JoinedOrLeft, ActionsAfterJoined
  <1>4. \A j \in Instances : j # i => inputs'[j] = inputs[j]
    BY <1>2 DEF EventInv, RoomInv, TypeOK
  <1>5. FreshQuiet'
    BY <1>1, <1>2, <1>4 DEF EventInv, FreshQuiet
  <1>6. ActorsKnown'
    <2>1. {inputs'[i][k] : k \in DOMAIN inputs'[i]}
            \subseteq {inputs[i][k] : k \in DOMAIN inputs[i]} \cup {PlayerOf[h]}
      <3>1. inputs[i] \in Seq(Players) /\ inputs'[i] = Append(inputs[i], PlayerOf[h])
        BY <1>2 DEF EventInv, RoomInv, TypeOK
      <3> HIDE <1>2
      <3> QED
        BY <3>1
    <2>2. \A j \in Instances : Known(j)' = Known(j)
      BY <1>1 DEF Known
    <2>3. \A j \in Instances : batch[j] \cup {inputs'[j][k] : k \in DOMAIN inputs'[j]} \subseteq Known(j)
      BY <1>2, <1>4, <2>1 DEF EventInv, ActorsKnown
    <2>4. \A g \in Handlers : conn[g] \in Announced => inst[g] \in Instances /\ PlayerOf[g] \in Known(inst[g])
      BY DEF EventInv, ActorsKnown, RoomInv, HandlersInMatch, InMatch, Announced
    <2>5. \A g \in Handlers : conn'[g] \in Announced => PlayerOf[g] \in Known(inst[g])'
      BY <1>1, <2>2, <2>4
    <2> QED
      BY <1>1, <2>2, <2>3, <2>5 DEF ActorsKnown
  <1>7. SlotHolder' /\ ViewFollows'
    BY <1>1, QuietHolders, QuietView
  <1> QED
    BY <1>3, <1>5, <1>6, <1>7

\* A session that ends stays announced until its Left; while its match plays it
\* holds its slot, so that Leave does send one.
LEMMA LeaveEvents ==
    ASSUME EventRoom, EventInv, NEW h \in Handlers, Disconnect(h) \/ LeaveMatch(h)
    PROVE  /\ EventsFit' /\ FreshQuiet' /\ JoinedOrLeft' /\ ActorsKnown' /\ ActionsAfterJoined'
           /\ SlotHolder' /\ ViewFollows'
  <1>0. UNCHANGED <<inst, run, events, inputs, batch, view, left, strays>> /\ TypeOK
    BY DEF Disconnect, LeaveMatch, pluginVars, EventInv, RoomInv
  <1>1. /\ conn[h] \in {"read", "leave"} /\ conn'[h] \in {"leave", "sendLeft", "gone"}
        /\ \A g \in Handlers : g # h => conn'[g] = conn[g]
    BY <1>0 DEF Disconnect, LeaveMatch, Step, TypeOK
  <1>2. EventsFit' /\ FreshQuiet' /\ JoinedOrLeft' /\ ActorsKnown' /\ ActionsAfterJoined'
    BY <1>0, <1>1, QuietChannels DEF Announced
  <1>3. inst[h] \in Instances /\ PlayerOf[h] \in Players
    BY <1>1, SessionAssumption DEF EventInv, RoomInv, HandlersInMatch, InMatch
  <1>4. CASE Disconnect(h)
    <2>1. UNCHANGED players /\ conn'[h] = "leave"
      BY <1>0, <1>4 DEF Disconnect, Step, TypeOK
    <2> QED
      BY <1>0, <1>1, <1>2, <2>1, QuietHolders, QuietView DEF Announced
  <1>5. CASE LeaveMatch(h)
    <2>1. ViewFollows'
      <3>1. run[inst[h]] \in Playing => conn'[h] = "sendLeft"
        BY <1>0, <1>3, <1>5, NoneAssumption
           DEF LeaveMatch, Step, TypeOK, EventInv, RoomInv, SlotOwned, Playing
      <3>2. conn[h] \in Announced /\ (conn'[h] = "sendLeft" => conn'[h] \in Announced)
        BY <1>1 DEF Announced
      <3> QED
        BY <1>0, <1>1, <3>1, <3>2, QuietView
    <2>2. SlotHolder'
      <3> DEFINE Holds(i, p, g) == PlayerOf[g] = p /\ inst[g] = i
                                   /\ conn[g] \in {"sendJoined", "read", "leave"}
      <3>1. \A i \in Instances, p \in Players :
               players[i][p] # None => players[i][p] \in Handlers /\ Holds(i, p, players[i][p])
        BY <1>0 DEF EventInv, SlotHolder, TypeOK
      <3>2. players'[inst[h]][PlayerOf[h]] = None
        BY <1>0, <1>3, <1>5 DEF LeaveMatch, TypeOK
      <3>3. \A i \in Instances, p \in Players :
               i # inst[h] \/ p # PlayerOf[h] => players'[i][p] = players[i][p]
        BY <1>0, <1>3, <1>5 DEF LeaveMatch, TypeOK
      <3>4. ASSUME NEW i \in Instances, NEW p \in Players, players'[i][p] # None
            PROVE  LET g == players'[i][p]
                   IN PlayerOf[g] = p /\ inst[g] = i /\ conn'[g] \in {"sendJoined", "read", "leave"}
        <4>1. i # inst[h] \/ p # PlayerOf[h]
          BY <3>2, <3>4
        <4>2. players'[i][p] = players[i][p]
          BY <3>3, <4>1
        <4>3. players[i][p] \in Handlers /\ Holds(i, p, players[i][p])
          BY <3>1, <3>4, <4>2
        <4>4. players[i][p] # h
          BY <4>1, <4>3
        <4> QED
          BY <1>1, <4>2, <4>3, <4>4
      <3> QED
        BY <1>0, <3>4 DEF SlotHolder
    <2> QED
      BY <1>2, <2>1, <2>2
  <1> QED
    BY <1>4, <1>5

\* Join takes a free slot for the session itself.
LEMMA EnterHolders ==
    ASSUME EventInv, NEW h \in Handlers,
           \/ authenticateFails(h) \/ Connect(h) \/ FindMatch(h) \/ CreateFails(h)
           \/ CreatePlugin(h) \/ InsertMatch(h) \/ JoinMatch(h)
    PROVE  SlotHolder'
  <1>0. TypeOK
    BY DEF EventInv, RoomInv
  <1>1. /\ conn[h] \in {"new", "find", "create", "insert", "join"}
        /\ \A g \in Handlers : g # h => conn'[g] = conn[g] /\ inst'[g] = inst[g]
    BY <1>0 DEF authenticateFails, Connect, FindMatch, CreateFails, CreatePlugin, InsertMatch,
       JoinMatch, Step, TypeOK
  <1>2. CASE UNCHANGED players
    BY <1>1, <1>2, QuietHolders
  <1>3. CASE JoinMatch(h) /\ players' # players
    <2>1. inst[h] \in Instances /\ PlayerOf[h] \in Players
      BY <1>3, SessionAssumption DEF JoinMatch, EventInv, RoomInv, HandlersInMatch, InMatch
    <2>2. /\ UNCHANGED inst /\ conn'[h] = "sendJoined"
          /\ players' = [players EXCEPT ![inst[h]] = [players[inst[h]] EXCEPT ![PlayerOf[h]] = h]]
      BY <1>0, <1>3 DEF JoinMatch, Step, TypeOK
    <2>3. ASSUME NEW i \in Instances, NEW p \in Players, players'[i][p] # None
          PROVE  LET g == players'[i][p]
                 IN PlayerOf[g] = p /\ inst[g] = i /\ conn'[g] \in {"sendJoined", "read", "leave"}
      <3>1. CASE i = inst[h] /\ p = PlayerOf[h]
        <4>1. players'[i][p] = h
          BY <1>0, <2>1, <2>2, <3>1 DEF TypeOK
        <4> QED
          BY <2>2, <3>1, <4>1
      <3>2. CASE i # inst[h] \/ p # PlayerOf[h]
        <4>1. players'[i][p] = players[i][p]
          BY <1>0, <2>1, <2>2, <3>2 DEF TypeOK
        <4>2. /\ players[i][p] \in Handlers
              /\ PlayerOf[players[i][p]] = p /\ inst[players[i][p]] = i
              /\ conn[players[i][p]] \in {"sendJoined", "read", "leave"}
          BY <1>0, <2>3, <4>1 DEF TypeOK, EventInv, SlotHolder
        <4> QED
          BY <1>1, <2>2, <4>1, <4>2
      <3> QED
        BY <3>1, <3>2
    <2> QED
      BY <2>2, <2>3 DEF SlotHolder
  <1> QED
    BY <1>2, <1>3 DEF authenticateFails, Connect, FindMatch, CreateFails, CreatePlugin,
       InsertMatch, JoinMatch

----------------------------------------------------------------------------
(* The steps of a Run loop.                                                *)

\* Draining the inputs moves the actions from the channel to the tick.
LEMMA DrainEvents ==
    ASSUME EventRoom, EventInv, NEW i \in Instances, DrainActions(i)
    PROVE  /\ EventsFit' /\ FreshQuiet' /\ JoinedOrLeft' /\ ActorsKnown' /\ ActionsAfterJoined'
           /\ SlotHolder' /\ ViewFollows'
  <1>1. UNCHANGED <<conn, inst, players, events, view, left, strays>> /\ TypeOK
    BY DEF DrainActions, handlerVars, EventInv, RoomInv
  <1>2. /\ batch'[i] = {inputs[i][k] : k \in DOMAIN inputs[i]} /\ inputs'[i] = <<>>
        /\ run[i] = "idle" /\ run'[i] = "drained"
        /\ \A j \in Instances : j # i => /\ batch'[j] = batch[j] /\ inputs'[j] = inputs[j]
                                         /\ run'[j] = run[j]
    BY <1>1 DEF DrainActions, Goto, TypeOK
  <1>3. EventsFit' /\ JoinedOrLeft' /\ ActionsAfterJoined'
    <2>1. SentJoined' = SentJoined /\ SentLeft' = SentLeft
      BY <1>1 DEF SentJoined, SentLeft
    <2> QED
      BY <1>1, <2>1 DEF EventInv, EventsFit, JoinedOrLeft, ActionsAfterJoined
  <1>4. FreshQuiet'
    BY <1>1, <1>2 DEF EventInv, FreshQuiet, Fresh
  <1>5. ActorsKnown'
    <2>1. \A j \in Instances : Known(j)' = Known(j)
      BY <1>1 DEF Known
    <2>2. {inputs'[i][k] : k \in DOMAIN inputs'[i]} = {}
      BY <1>2
    <2>3. \A j \in Instances : batch'[j] \cup {inputs'[j][k] : k \in DOMAIN inputs'[j]} \subseteq Known(j)
      BY <1>2, <2>2 DEF EventInv, ActorsKnown
    <2>4. \A g \in Handlers : conn[g] \in Announced => inst[g] \in Instances /\ PlayerOf[g] \in Known(inst[g])
      BY DEF EventInv, ActorsKnown, RoomInv, HandlersInMatch, InMatch, Announced
    <2>5. \A g \in Handlers : conn'[g] \in Announced => PlayerOf[g] \in Known(inst[g])'
      BY <1>1, <2>1, <2>4
    <2> QED
      BY <2>1, <2>3, <2>5 DEF ActorsKnown
  <1>6. \A j \in Instances : run'[j] \in Playing => run[j] \in Playing
    BY <1>2 DEF Playing, Started, Runs
  <1>7. SlotHolder' /\ ViewFollows'
    BY <1>1, <1>6, QuietHolders, QuietView
  <1> QED
    BY <1>3, <1>4, <1>5, <1>7

\* OnTick makes the plugin believe what the channel had for it, and every action
\* it is handed is of a player it knows by then.
LEMMA TickEvents ==
    ASSUME EventRoom, EventInv, NEW i \in Instances, OnTick(i)
    PROVE  /\ EventsFit' /\ FreshQuiet' /\ JoinedOrLeft' /\ ActorsKnown' /\ ActionsAfterJoined'
           /\ SlotHolder' /\ ViewFollows'
  <1>1. UNCHANGED <<conn, inst, players, inputs>> /\ TypeOK
    BY DEF OnTick, handlerVars, EventInv, RoomInv
  <1>2. /\ events'[i] = <<>> /\ view'[i] = ViewAfter(i) /\ batch'[i] = {}
        /\ left'[i] = left[i] \cup Mentioned(events[i], "left")
        /\ strays'[i] = strays[i] \cup (batch[i] \ Known(i))
        /\ run[i] = "drained" /\ run'[i] \in {"respond", "closeAll"}
    BY <1>1 DEF OnTick, Goto, TypeOK, ViewAfter, Known
  <1>3. \A j \in Instances : j # i =>
           /\ events'[j] = events[j] /\ view'[j] = view[j] /\ batch'[j] = batch[j]
           /\ left'[j] = left[j] /\ strays'[j] = strays[j] /\ run'[j] = run[j]
    BY <1>1 DEF OnTick, Goto, TypeOK
  <1>4. \A j \in Instances : ViewAfter(j)' = ViewAfter(j)
    <2>1. ViewAfter(i)' = ViewAfter(i)
      <3>1. ViewAfter(i)' = (view'[i] \cup LastIs(<<>>, "joined")) \ LastIs(<<>>, "left")
        BY <1>2 DEF ViewAfter
      <3> QED
        BY <1>2, <3>1, EmptyChannel
    <2> QED
      BY <1>3, <2>1 DEF ViewAfter
  <1>5. \A j \in Instances : Known(j) \subseteq Known(j)'
    <2>1. Mentioned(events[i], "joined")
            \subseteq LastIs(events[i], "joined") \cup Mentioned(events[i], "left")
      BY DEF EventInv, JoinedOrLeft
    <2>2. LastIs(events[i], "left") \subseteq Mentioned(events[i], "left")
      BY DEF LastIs, Mentioned
    <2>3. Known(i) \subseteq view'[i] \cup left'[i]
      BY <1>2, <2>1, <2>2 DEF Known, ViewAfter
    <2>4. Known(i) \subseteq Known(i)'
      BY <2>3 DEF Known
    <2> QED
      BY <1>3, <2>4 DEF Known
  <1>6. EventsFit'
    <2>1. SentJoined' = SentJoined /\ SentLeft' = SentLeft
      BY <1>1 DEF SentJoined, SentLeft
    <2>2. Cardinality(SentJoined) \in Nat /\ Cardinality(SentLeft) \in Nat
      BY SentCounts
    <2>3. Len(events'[i]) = 0
      BY <1>2
    <2>4. 0 <= Cardinality(SentJoined) + Cardinality(SentLeft)
      BY <2>2
    <2> QED
      BY <1>3, <2>1, <2>3, <2>4 DEF EventInv, EventsFit
  <1>7. FreshQuiet'
    BY <1>1, <1>2, <1>3 DEF EventInv, FreshQuiet, Fresh
  <1>8. JoinedOrLeft'
    <2>1. Mentioned(events'[i], "joined") = {}
      BY <1>2, EmptyChannel
    <2> QED
      BY <1>3, <2>1 DEF EventInv, JoinedOrLeft
  <1>9. ActorsKnown'
    <2>1. \A j \in Instances : batch'[j] \cup {inputs'[j][k] : k \in DOMAIN inputs'[j]} \subseteq Known(j)
      BY <1>1, <1>2, <1>3 DEF EventInv, ActorsKnown
    <2>2. \A j \in Instances : batch'[j] \cup {inputs'[j][k] : k \in DOMAIN inputs'[j]} \subseteq Known(j)'
      BY <1>5, <2>1
    <2>3. \A g \in Handlers : conn[g] \in Announced => inst[g] \in Instances /\ PlayerOf[g] \in Known(inst[g])
      BY DEF EventInv, ActorsKnown, RoomInv, HandlersInMatch, InMatch, Announced
    <2>4. \A g \in Handlers : conn'[g] \in Announced => PlayerOf[g] \in Known(inst[g])'
      BY <1>1, <1>5, <2>3
    <2> QED
      BY <2>2, <2>4 DEF ActorsKnown
  <1>10. ActionsAfterJoined'
    BY <1>2, <1>3 DEF EventInv, ActionsAfterJoined, ActorsKnown
  <1>11. SlotHolder'
    BY <1>1, QuietHolders
  <1>12. \A j \in Instances : run'[j] \in Playing => run[j] \in Playing
    BY <1>2, <1>3 DEF Playing, Started, Runs
  <1>13. ViewFollows'
    BY <1>1, <1>4, <1>12 DEF EventInv, ViewFollows, SoleFollows, Vouched, Vouches
  <1> QED
    BY <1>6, <1>7, <1>8, <1>9, <1>10, <1>11, <1>13

\* Sending frames and ending a match tell the plugin nothing; closeAllPlayers
\* frees the slots of a match that no longer plays.
LEMMA LoopEvents ==
    ASSUME EventRoom, EventInv, NEW i \in Instances, Respond(i) \/ CtxDone(i) \/ Ending(i)
    PROVE  /\ EventsFit' /\ FreshQuiet' /\ JoinedOrLeft' /\ ActorsKnown' /\ ActionsAfterJoined'
           /\ SlotHolder' /\ ViewFollows'
  <1> USE DEF Respond, CtxDone, Ending, broadcast, dispatchEvent, FrameSent, EndTick, SendFrame,
         Finalise, FinaliseSent, closeAllPlayers, ClosePlugin, Cleanup, DecActiveMatches
  <1>1. UNCHANGED <<conn, inst, events, inputs, batch, view, left, strays>> /\ TypeOK
    BY DEF handlerVars, pluginVars, EventInv, RoomInv
  <1>2. /\ \A j \in Instances : j # i => run'[j] = run[j]
        /\ \/ run'[i] = run[i]
           \/ /\ run[i] \in Playing /\ run'[i] \notin Fresh
           \/ /\ run'[i] \notin Playing /\ run'[i] \notin Fresh
    BY <1>1 DEF Goto, TypeOK, Playing, Started, Runs, Fresh
  <1>3. /\ \A j \in Instances : run'[j] \in Fresh => run[j] \in Fresh
        /\ \A j \in Instances : run'[j] \in Playing => run[j] \in Playing
    BY <1>2
  <1>4. EventsFit' /\ FreshQuiet' /\ JoinedOrLeft' /\ ActorsKnown' /\ ActionsAfterJoined'
    BY ONLY EventRoom, EventInv, <1>1, <1>3, QuietChannels
  <1>5. ViewFollows'
    BY ONLY EventInv, <1>1, <1>3, QuietView
  <1>6. \A j \in Instances, p \in Players : players'[j][p] \in {players[j][p], None}
    <2>1. UNCHANGED players \/ players' = [players EXCEPT ![i] = [p \in Players |-> None]]
      OBVIOUS
    <2>2. CASE UNCHANGED players
      BY ONLY <2>2
    <2>3. CASE players' = [players EXCEPT ![i] = [p \in Players |-> None]]
      <3>1. /\ players'[i] = [p \in Players |-> None]
            /\ \A j \in Instances : j # i => players'[j] = players[j]
        BY ONLY <1>1, <2>3, i \in Instances DEF TypeOK
      <3> QED
        BY ONLY <3>1
    <2> QED
      BY ONLY <2>1, <2>2, <2>3
  <1>7. SlotHolder'
    BY ONLY EventInv, <1>1, <1>6 DEF EventInv, SlotHolder
  <1> QED
    BY ONLY <1>4, <1>5, <1>7

----------------------------------------------------------------------------
(* The invariant.                                                          *)

\* The invariant holds when the daemon starts.
LEMMA EventInit == EventRoom /\ Init => EventInv
  <1> SUFFICES ASSUME EventRoom, Init PROVE EventInv
    OBVIOUS
  <1>1. RoomInv
    BY RoomInit
  <1>2. EventsFit
    <2>1. 0 <= Cardinality(SentJoined) + Cardinality(SentLeft)
      BY SentCounts
    <2> QED
      BY <2>1 DEF Init, EventsFit
  <1>3. FreshQuiet /\ ActionsAfterJoined
    BY DEF Init, FreshQuiet, ActionsAfterJoined
  <1>4. JoinedOrLeft
    BY EmptyChannel DEF Init, JoinedOrLeft
  <1>5. ActorsKnown /\ SlotHolder
    BY DEF Init, ActorsKnown, Announced, SlotHolder
  <1>6. ViewFollows
    BY DEF Init, ViewFollows, SoleFollows, Vouched, Playing, Started
  <1> QED
    BY <1>1, <1>2, <1>3, <1>4, <1>5, <1>6 DEF EventInv

\* The invariant is inductive as long as no event can be dropped.
LEMMA EventStep == EventRoom /\ EventInv /\ [Next]_vars => EventInv'
  <1> SUFFICES ASSUME EventRoom, EventInv, [Next]_vars PROVE EventInv'
    OBVIOUS
  <1> DEFINE Goal == /\ EventsFit /\ FreshQuiet /\ JoinedOrLeft /\ ActorsKnown /\ SlotHolder
                     /\ ViewFollows /\ ActionsAfterJoined
  <1>0. RoomInv'
    BY RoomStep DEF EventInv
  <1>1. Goal' => EventInv'
    BY <1>0 DEF EventInv
  <1>2. ASSUME NEW h \in Handlers, handleRoom(h) \/ SubmitInput(h) \/ Disconnect(h) PROVE Goal'
    BY <1>2, EnterEvents, EnterView, EnterHolders, SendEvents, InputEvents, LeaveEvents
       DEF handleRoom, FindOrCreate, Join, Leave
  <1>3. ASSUME NEW i \in Instances, tick(i) \/ CtxDone(i) \/ Ending(i) PROVE Goal'
    BY <1>3, DrainEvents, TickEvents, LoopEvents DEF tick
  <1>4. CASE CloseManager \/ UNCHANGED vars
    <2>1. UNCHANGED <<conn, inst, run, players, events, inputs, batch, view, left, strays>>
      BY <1>4 DEF CloseManager, vars, handlerVars, pluginVars
    <2>2. EventsFit' /\ FreshQuiet' /\ JoinedOrLeft' /\ ActorsKnown' /\ ActionsAfterJoined'
      BY <2>1, QuietChannels
    <2>3. SlotHolder'
      BY <2>1, QuietHolders
    <2>4. ViewFollows'
      BY <2>1, QuietView
    <2> QED
      BY <1>1, <2>2, <2>3, <2>4
  <1> HIDE DEF Goal
  <1> QED
    BY <1>1, <1>2, <1>3, <1>4 DEF Next

\* The plugin never gets an action of a player it was not told about, whatever the
\* order of the handlers' and the Run loop's steps, as long as Match.events has
\* room for the two events of every session.
THEOREM ActionsAfterJoinedHolds ==
    ASSUME EventRoom
    PROVE  Spec => []ActionsAfterJoined
  <1>1. Init => EventInv
    BY EventInit
  <1>2. EventInv /\ [Next]_vars => EventInv'
    BY EventStep
  <1>3. EventInv => ActionsAfterJoined
    BY DEF EventInv
  <1> QED
    BY <1>1, <1>2, <1>3, PTL DEF Spec

\* Between two ticks, with nothing in flight, whoever the plugin takes to be present
\* holds a slot, however many sessions come and go, and it takes a player with a
\* single session to be present exactly when the player holds a slot, as long as
\* Match.events has room for the two events of every session.
THEOREM ViewExactHolds ==
    ASSUME EventRoom
    PROVE  Spec => []ViewExact
  <1>1. Init => EventInv
    BY EventInit
  <1>2. EventInv /\ [Next]_vars => EventInv'
    BY EventStep
  <1>3. EventInv => ViewExact
    <2> SUFFICES ASSUME EventInv, NEW i \in Instances, NEW p \in Players,
                        run[i] = "idle", events[i] = <<>>,
                        \A h \in Handlers : inst[h] = i => conn[h] \notin {"sendJoined", "sendLeft"}
                 PROVE  /\ p \in view[i] => players[i][p] # None
                        /\ players[i][p] # None =>
                              \/ p \in view[i]
                              \/ p \in left[i] /\ Cardinality({h \in Handlers : PlayerOf[h] = p}) # 1
      BY DEF ViewExact
    <2>1. ViewAfter(i) = view[i] /\ Known(i) = view[i] \cup left[i]
      <3>1. ViewAfter(i) = (view[i] \cup LastIs(<<>>, "joined")) \ LastIs(<<>>, "left")
        BY DEF ViewAfter
      <3>2. Known(i) = view[i] \cup left[i] \cup Mentioned(<<>>, "joined")
        BY DEF Known
      <3> QED
        BY <3>1, <3>2, EmptyChannel
    <2>2. run[i] \in Playing
      BY DEF Playing, Started, Runs
    <2>3. ASSUME p \in view[i] PROVE players[i][p] # None
      <3>1. PICK h \in Handlers : PlayerOf[h] = p /\ inst[h] = i /\ conn[h] \in Announced
        BY <2>1, <2>2, <2>3 DEF EventInv, ViewFollows, Vouched, Vouches
      <3> QED
        BY <2>2, <3>1, NoneAssumption DEF EventInv, RoomInv, SlotOwned, Playing, Announced
    <2>4. ASSUME players[i][p] # None, p \notin view[i]
          PROVE  p \in left[i] /\ Cardinality({h \in Handlers : PlayerOf[h] = p}) # 1
      <3>1. PICK h \in Handlers : PlayerOf[h] = p /\ inst[h] = i /\ conn[h] \in Announced
        <4>1. /\ players[i][p] \in Handlers
              /\ PlayerOf[players[i][p]] = p /\ inst[players[i][p]] = i
              /\ conn[players[i][p]] \in {"sendJoined", "read", "leave"}
          BY <2>4 DEF EventInv, SlotHolder, RoomInv, TypeOK
        <4> QED
          BY <4>1 DEF Announced
      <3>2. p \in left[i]
        BY <2>1, <2>4, <3>1 DEF EventInv, ActorsKnown
      <3>3. ~Sole(h)
        BY <2>1, <2>2, <2>4, <3>1 DEF EventInv, ViewFollows, SoleFollows
      <3>4. PICK g \in Handlers : g # h /\ PlayerOf[g] = p
        BY <3>1, <3>3 DEF Sole
      <3>5. ASSUME Cardinality({k \in Handlers : PlayerOf[k] = p}) = 1 PROVE FALSE
        <4>1. IsFiniteSet({k \in Handlers : PlayerOf[k] = p})
          BY FS_Subset DEF EventRoom
        <4>2. PICK k : {l \in Handlers : PlayerOf[l] = p} = {k}
          BY <3>5, <4>1, FS_Singleton
        <4> QED
          BY <3>1, <3>4, <4>2
      <3> QED
        BY <3>2, <3>5
    <2> QED
      BY <2>3, <2>4
  <1> QED
    BY <1>1, <1>2, <1>3, PTL DEF Spec
=============================================================================
