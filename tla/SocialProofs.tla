---------------------------- MODULE SocialProofs ----------------------------
(***************************************************************************)
(* Proofs about Social, for any numbers of players and concurrent calls.   *)
(***************************************************************************)
EXTENDS Social, PostgresProofs, FiniteSetTheorems

\* The rows about two players, apart from the blocks between them.
Rel(p, q) == {friendship(p, q), request(p, q), request(q, p)}
Blk(p, q) == {block(p, q), block(q, p)}

Requests == [op : Ops, step : Steps, me : Players, other : Players]

\* What the transaction of a call has written so far.
TxRows(c) ==
    LET p == call[c].me  q == call[c].other
    IN \/ call[c] = NoCall /\ ins[c] = {} /\ del[c] = {}
       \/ /\ call[c] # NoCall /\ p # q
          /\ \/ /\ call[c].op \in {"send", "accept"}
                /\ \/ call[c].step \notin {"saveFriendship", "commit"} /\ ins[c] = {} /\ del[c] = {}
                   \/ call[c].step = "saveFriendship" /\ ins[c] = {} /\ del[c] = {request(q, p)}
                   \/ call[c].step = "commit" /\ ins[c] = {friendship(p, q)} /\ del[c] = {request(q, p)}
                   \/ /\ call[c].op = "send" /\ call[c].step = "commit"
                      /\ ins[c] = {request(p, q)} /\ del[c] = {}
             \/ /\ call[c].op = "block"
                /\ ins[c] \subseteq {block(p, q)} /\ del[c] \subseteq Rel(p, q)
             \/ /\ call[c].op \in {"decline", "cancel", "remove", "unblock"}
                /\ ins[c] = {} /\ del[c] \subseteq Rel(p, q) \cup Blk(p, q)

TxInv ==
    /\ DbType(Tables) /\ DbInv
    /\ call \in [Calls -> {NoCall} \cup Requests]
    /\ raced \subseteq Pairs
    /\ \A c \in Calls : TxRows(c)

\* What a call has found out, as long as no other call raced with it: a request
\* that no block, friendship or request stands in its way, a block that nothing
\* is left of the relation but what it deletes.
Found(c) ==
    LET p == call[c].me  q == call[c].other
    IN /\ call[c].op = "send" =>
             /\ call[c].step # "isBlocked" => Blk(p, q) \cap rows = {}
             /\ call[c].step \notin {"isBlocked", "friends"} => friendship(p, q) \notin rows
             /\ call[c].step \in {"forward", "saveRequest"} => request(q, p) \notin rows
             /\ call[c].step = "saveRequest" \/ request(p, q) \in ins[c] => Rel(p, q) \cap rows = {}
       /\ call[c].op = "block" =>
             /\ call[c].step \in {"deleteOutgoing", "deleteIncoming", "commit"} =>
                   friendship(p, q) \notin rows \ del[c]
             /\ call[c].step \in {"deleteIncoming", "commit"} => request(p, q) \notin rows \ del[c]
             /\ call[c].step = "commit" => Rel(p, q) \cap rows \subseteq del[c]

\* For two players whose calls did not race.
PairInv(p, q) ==
    /\ \A c, d \in InFlight(p, q) : c # d => ~Races(call[c].op, call[d].op)
    /\ \A a, b \in Rel(p, q) \cap rows : a = b
    /\ Blk(p, q) \cap rows # {} => Rel(p, q) \cap rows = {}
    /\ \A c \in InFlight(p, q) : Found(c)

RelationInv == TxInv /\ \A p, q \in Players : p # q /\ {p, q} \notin raced => PairInv(p, q)

----------------------------------------------------------------------------
(* The rows.                                                               *)

\* Rows of different tables, or of different players, are different.
LEMMA RowIds ==
    \A p, q, a, b :
        /\ request(p, q) = request(a, b) <=> p = a /\ q = b
        /\ friendship(p, q) = friendship(a, b) <=> {p, q} = {a, b}
        /\ block(p, q) = block(a, b) <=> p = a /\ q = b
        /\ request(p, q) # friendship(a, b)
        /\ request(p, q) # block(a, b)
        /\ friendship(p, q) # block(a, b)
  <1> SUFFICES ASSUME NEW p, NEW q, NEW a, NEW b
               PROVE  /\ request(p, q) = request(a, b) <=> p = a /\ q = b
                      /\ friendship(p, q) = friendship(a, b) <=> {p, q} = {a, b}
                      /\ block(p, q) = block(a, b) <=> p = a /\ q = b
                      /\ request(p, q) # friendship(a, b)
                      /\ request(p, q) # block(a, b)
                      /\ friendship(p, q) # block(a, b)
    OBVIOUS
  <1>1. request(p, q).key = <<"friend_requests", p, q>> /\ request(a, b).key = <<"friend_requests", a, b>>
    BY DEF request
  <1>2. friendship(p, q).key = <<"friendships", {p, q}>> /\ friendship(a, b).key = <<"friendships", {a, b}>>
    BY DEF friendship
  <1>3. block(p, q).key = <<"player_blocks", p, q>> /\ block(a, b).key = <<"player_blocks", a, b>>
    BY DEF block
  <1>4. request(p, q) = request(a, b) <=> p = a /\ q = b
    BY <1>1 DEF request
  <1>5. friendship(p, q) = friendship(a, b) <=> {p, q} = {a, b}
    <2>1. CASE {p, q} = {a, b}
      BY <2>1 DEF friendship
    <2>2. CASE friendship(p, q) = friendship(a, b)
      <3> DEFINE x == {p, q}
      <3> DEFINE y == {a, b}
      <3>1. <<"friendships", x>> = <<"friendships", y>>
        BY <1>2, <2>2
      <3> HIDE DEF x, y
      <3>2. x = y
        BY <3>1
      <3> QED
        BY <2>2, <3>2 DEF x, y
    <2> QED
      BY <2>1, <2>2
  <1>6. block(p, q) = block(a, b) <=> p = a /\ q = b
    BY <1>3 DEF block
  <1>7. /\ request(p, q).key[1] = "friend_requests"
        /\ friendship(p, q).key[1] = "friendships" /\ friendship(a, b).key[1] = "friendships"
        /\ block(a, b).key[1] = "player_blocks"
    BY <1>1, <1>2, <1>3
  <1> QED
    BY <1>4, <1>5, <1>6, <1>7

\* A row is its key.
LEMMA KeyIsRow == \A r, s \in Tables : r.key = s.key => r = s
  <1>1. \A r \in Tables : r = [key |-> r.key]
    BY DEF Tables, request, friendship, block
  <1> QED
    BY <1>1

\* The rows about two players say nothing about any other two.
LEMMA PairRows ==
    ASSUME NEW p, NEW q, NEW a, NEW b, {p, q} # {a, b}
    PROVE  (Rel(p, q) \cup Blk(p, q)) \cap (Rel(a, b) \cup Blk(a, b)) = {}
  <1>1. ~(p = a /\ q = b) /\ ~(p = b /\ q = a)
    OBVIOUS
  <1> QED
    BY <1>1, RowIds DEF Rel, Blk

\* Two players are the same two in either order.
LEMMA PairSymmetric ==
    ASSUME NEW p, NEW q
    PROVE  /\ Rel(p, q) = Rel(q, p) /\ Blk(p, q) = Blk(q, p)
           /\ Rel(p, q) \cap Blk(p, q) = {}
           /\ InFlight(p, q) = InFlight(q, p)
           /\ {p, q} = {q, p}
  <1>1. {p, q} = {q, p}
    OBVIOUS
  <1>2. Rel(p, q) = Rel(q, p) /\ Blk(p, q) = Blk(q, p)
    BY <1>1 DEF Rel, Blk, friendship
  <1>3. Rel(p, q) \cap Blk(p, q) = {}
    BY RowIds DEF Rel, Blk
  <1>4. InFlight(p, q) = InFlight(q, p)
    BY <1>1 DEF InFlight
  <1> QED
    BY <1>1, <1>2, <1>3, <1>4

\* The invariant of two players is the same in either order.
LEMMA PairSwap == \A p, q : PairInv(p, q) => PairInv(q, p)
  <1> SUFFICES ASSUME NEW p, NEW q, PairInv(p, q) PROVE PairInv(q, p)
    OBVIOUS
  <1> QED
    BY PairSymmetric DEF PairInv

\* The rows a call can write are rows of the tables.
LEMMA PairTables ==
    ASSUME NEW p \in Players, NEW q \in Players
    PROVE  Rel(p, q) \cup Blk(p, q) \subseteq Tables
  <1>1. \A a, b \in Players : {request(a, b), friendship(a, b), block(a, b)} \subseteq Tables
    <2> SUFFICES ASSUME NEW a \in Players, NEW b \in Players
                 PROVE  {request(a, b), friendship(a, b), block(a, b)} \subseteq Tables
      OBVIOUS
    <2> DEFINE Of(x, y) == {request(x, y), friendship(x, y), block(x, y)}
    <2>1. Tables = UNION {Of(x, y) : x, y \in Players}
      BY DEF Tables
    <2> HIDE DEF Of
    <2>2. Of(a, b) \subseteq Tables
      BY <2>1
    <2> QED
      BY <2>2 DEF Of
  <1> QED
    BY <1>1 DEF Rel, Blk

----------------------------------------------------------------------------
(* The steps of a call.                                                    *)

\* A call that runs has a request.
LEMMA Running ==
    ASSUME TxInv, NEW c \in Calls, call[c] # NoCall
    PROVE  /\ call[c] \in Requests /\ call[c].me # call[c].other
           /\ call[c].me \in Players /\ call[c].other \in Players
           /\ call[c].op \in Ops /\ call[c].step \in Steps
           /\ c \in InFlight(call[c].me, call[c].other)
  BY DEF TxInv, TxRows, Requests, InFlight

\* A call that waits for its next request has op and step "none".
LEMMA NoCallFields == NoCall.op = "none" /\ NoCall.step = "none"
  BY DEF NoCall

\* Goto changes the statement a call issues next, and nothing else.
LEMMA GotoStep ==
    ASSUME TxInv, NEW c \in Calls, call[c] # NoCall, NEW st \in Steps, Goto(c, st)
    PROVE  /\ call' \in [Calls -> {NoCall} \cup Requests]
           /\ call'[c] # NoCall /\ call'[c].step = st /\ call'[c].op = call[c].op
           /\ call'[c].me = call[c].me /\ call'[c].other = call[c].other
           /\ \A d \in Calls : d # c => call'[d] = call[d]
           /\ UNCHANGED raced
  <1>1. call[c] \in Requests /\ call \in [Calls -> {NoCall} \cup Requests]
    BY Running DEF TxInv
  <1>2. call' = [call EXCEPT ![c] = [call[c] EXCEPT !.step = st]] /\ UNCHANGED raced
    BY DEF Goto
  <1>3. [call[c] EXCEPT !.step = st] \in Requests
    BY <1>1 DEF Requests
  <1>4. call'[c] = [call[c] EXCEPT !.step = st] /\ \A d \in Calls : d # c => call'[d] = call[d]
    BY <1>1, <1>2
  <1>5. /\ call'[c].step = st /\ call'[c].op = call[c].op
        /\ call'[c].me = call[c].me /\ call'[c].other = call[c].other
    BY <1>1, <1>4 DEF Requests
  <1>6. call'[c] # NoCall
    BY <1>5, NoCallFields DEF Steps
  <1> QED
    BY <1>1, <1>2, <1>3, <1>4, <1>5, <1>6

\* What the others have written stays as it is.
LEMMA OthersRows ==
    ASSUME TxInv, NEW c \in Calls, TxRows(c)',
           \A d \in Calls : d # c =>
              call'[d] = call[d] /\ ins'[d] = ins[d] /\ del'[d] = del[d]
    PROVE  \A d \in Calls : TxRows(d)'
  <1> SUFFICES ASSUME NEW d \in Calls, d # c PROVE TxRows(d)'
    OBVIOUS
  <1>1. TxRows(d) /\ call'[d] = call[d] /\ ins'[d] = ins[d] /\ del'[d] = del[d]
    BY DEF TxInv
  <1> QED
    BY ONLY <1>1 DEF TxRows

\* A step of a call that commits nothing keeps what is known of every two players,
\* if the call itself has found what it claims to.
LEMMA QuietPairs ==
    ASSUME RelationInv, NEW c \in Calls, UNCHANGED <<rows, raced>>,
           \A d \in Calls : d # c =>
              call'[d] = call[d] /\ ins'[d] = ins[d] /\ del'[d] = del[d],
           \/ call'[c] = NoCall
           \/ /\ call[c] # NoCall /\ call'[c] # NoCall /\ call'[c].op = call[c].op
              /\ call'[c].me = call[c].me /\ call'[c].other = call[c].other
              /\ PairInv(call[c].me, call[c].other) => Found(c)'
    PROVE  \A p, q \in Players : p # q /\ {p, q} \notin raced' => PairInv(p, q)'
  <1> SUFFICES ASSUME NEW p \in Players, NEW q \in Players, p # q, {p, q} \notin raced
               PROVE  PairInv(p, q)'
    OBVIOUS
  <1>1. PairInv(p, q) /\ TxInv
    BY DEF RelationInv
  <1>2. InFlight(p, q)' \subseteq InFlight(p, q)
    BY DEF InFlight
  <1>3. \A d \in InFlight(p, q)' : d \in Calls /\ call'[d].op = call[d].op
    BY DEF InFlight
  <1>4. \A d, e \in InFlight(p, q)' : d # e => ~Races(call'[d].op, call'[e].op)
    BY <1>1, <1>2, <1>3 DEF PairInv
  <1>5. ASSUME NEW d \in InFlight(p, q)' PROVE Found(d)'
    <2>1. d \in Calls /\ d \in InFlight(p, q)
      BY <1>2, <1>3
    <2>2. CASE d = c
      <3>1. call[c] # NoCall /\ call'[c] # NoCall /\ {call[c].me, call[c].other} = {p, q}
        BY <2>1, <2>2 DEF InFlight
      <3>2. (call[c].me = p /\ call[c].other = q) \/ (call[c].me = q /\ call[c].other = p)
        BY <3>1
      <3>3. PairInv(call[c].me, call[c].other)
        BY <1>1, <3>2, PairSwap
      <3> QED
        BY <2>2, <3>1, <3>3
    <2>3. CASE d # c
      <3>1. /\ Found(d) /\ call'[d] = call[d] /\ ins'[d] = ins[d] /\ del'[d] = del[d]
            /\ rows' = rows
        BY <1>1, <2>1, <2>3 DEF PairInv
      <3> QED
        BY ONLY <3>1 DEF Found
    <2> QED
      BY <2>2, <2>3
  <1> QED
    BY <1>1, <1>4, <1>5 DEF PairInv

\* An error rolls the transaction back and ends the call.
LEMMA ErrStep ==
    ASSUME RelationInv, NEW c \in Calls, ReturnErr(c)
    PROVE  RelationInv'
  <1>1. TxInv /\ call \in [Calls -> {NoCall} \cup Requests]
    BY DEF RelationInv, TxInv
  <1>2. /\ call' = [call EXCEPT ![c] = NoCall] /\ UNCHANGED raced /\ Rollback(c)
    BY DEF ReturnErr, Return
  <1>3. call' \in [Calls -> {NoCall} \cup Requests] /\ call'[c] = NoCall
        /\ \A d \in Calls : d # c => call'[d] = call[d]
    BY <1>1, <1>2
  <1>4. /\ DbType(Tables)' /\ DbInv' /\ UNCHANGED rows /\ ins'[c] = {} /\ del'[c] = {}
        /\ \A d \in Calls : d # c => ins'[d] = ins[d] /\ del'[d] = del[d]
    BY <1>1, <1>2, RollbackStep DEF TxInv
  <1>5. TxRows(c)'
    BY <1>3, <1>4 DEF TxRows
  <1>6. TxInv'
    BY <1>1, <1>2, <1>3, <1>4, <1>5, OthersRows DEF TxInv
  <1>7. \A p, q \in Players : p # q /\ {p, q} \notin raced' => PairInv(p, q)'
    BY <1>2, <1>3, <1>4, QuietPairs
  <1> QED
    BY <1>6, <1>7 DEF RelationInv

\* A step of a call that runs on, without committing.
LEMMA RunOn ==
    ASSUME RelationInv, NEW c \in Calls, call[c] # NoCall, NEW st \in Steps, Goto(c, st),
           DbType(Tables)', DbInv', UNCHANGED rows,
           \A d \in Calls : d # c => ins'[d] = ins[d] /\ del'[d] = del[d],
           TxRows(c)', PairInv(call[c].me, call[c].other) => Found(c)'
    PROVE  RelationInv'
  <1>1. TxInv
    BY DEF RelationInv
  <1>2. /\ call' \in [Calls -> {NoCall} \cup Requests]
        /\ call'[c] # NoCall /\ call'[c].step = st /\ call'[c].op = call[c].op
        /\ call'[c].me = call[c].me /\ call'[c].other = call[c].other
        /\ \A d \in Calls : d # c => call'[d] = call[d]
        /\ UNCHANGED raced
    BY <1>1, GotoStep
  <1>3. TxInv'
    BY <1>1, <1>2, OthersRows DEF TxInv
  <1>4. \A p, q \in Players : p # q /\ {p, q} \notin raced' => PairInv(p, q)'
    BY <1>2, QuietPairs
  <1> QED
    BY <1>3, <1>4 DEF RelationInv

----------------------------------------------------------------------------
(* The actions.                                                            *)

\* A request begins without a transaction; it may race with a call in flight.
LEMMA ReceiveStep ==
    ASSUME RelationInv, NEW c \in Calls, NEW p \in Players, NEW q \in Players,
           NEW op \in Ops, Receive(c, op, p, q)
    PROVE  RelationInv'
  <1> DEFINE req == [op |-> op, step |-> FirstStep[op], me |-> p, other |-> q]
  <1>0. TxInv /\ call \in [Calls -> {NoCall} \cup Requests]
    BY DEF RelationInv, TxInv
  <1>1. FirstStep[op] \in Steps \ {"friends", "reverse", "forward", "saveRequest", "saveFriendship", "commit"}
    BY DEF FirstStep, Steps, Ops, RequestOps, RelationOps
  <1>2. req \in Requests /\ req # NoCall
    BY <1>1, NoCallFields DEF Requests, Ops, RequestOps, RelationOps
  <1>3. /\ call[c] = NoCall /\ p # q /\ UNCHANGED dbVars
        /\ call' = [call EXCEPT ![c] = req]
        /\ raced' = IF \E d \in InFlight(p, q) : Races(op, call[d].op) THEN raced \cup {{p, q}} ELSE raced
    BY DEF Receive
  <1>4. /\ call' \in [Calls -> {NoCall} \cup Requests] /\ call'[c] = req
        /\ \A d \in Calls : d # c => call'[d] = call[d]
    BY <1>0, <1>2, <1>3
  <1>5. rows' = rows /\ ins' = ins /\ del' = del /\ ins[c] = {} /\ del[c] = {}
    BY <1>0, <1>3 DEF dbVars, TxInv, TxRows
  <1>6. /\ call'[c] # NoCall /\ call'[c].op = op /\ call'[c].step = FirstStep[op]
        /\ call'[c].me = p /\ call'[c].other = q
    BY <1>2, <1>4
  <1>7. TxInv'
    <2>1. TxRows(c)'
      BY <1>1, <1>3, <1>5, <1>6 DEF TxRows, Ops, RequestOps, RelationOps
    <2>2. raced' \subseteq Pairs
      <3>1. {p, q} \in Pairs
        <4>1. IsFiniteSet({p}) /\ Cardinality({p}) = 1
          BY FS_Singleton
        <4>2. Cardinality({p} \cup {q}) = Cardinality({p}) + 1
          <5>1. q \notin {p}
            BY <1>3
          <5> QED
            BY ONLY <4>1, <5>1, FS_AddElement
        <4>3. {p} \cup {q} = {p, q}
          OBVIOUS
        <4> QED
          BY <4>1, <4>2, <4>3 DEF Pairs
      <3> QED
        BY <1>0, <1>3, <3>1 DEF TxInv
    <2>3. DbType(Tables)' /\ DbInv'
      BY <1>0, <1>3, IdleStep DEF TxInv
    <2>4. \A d \in Calls : TxRows(d)'
      BY <1>0, <1>4, <1>5, <2>1, OthersRows
    <2> QED
      BY <1>4, <2>2, <2>3, <2>4 DEF TxInv
  <1>8. ASSUME NEW a \in Players, NEW b \in Players, a # b, {a, b} \notin raced'
        PROVE  PairInv(a, b)'
    <2>1. {a, b} \notin raced /\ PairInv(a, b)
      BY <1>3, <1>8 DEF RelationInv
    <2>2. \A d \in InFlight(a, b)' : d # c => d \in InFlight(a, b) /\ call'[d] = call[d]
      BY <1>4 DEF InFlight
    <2>3. Found(c)'
      <3>1. call'[c].op = "send" => call'[c].step = "isBlocked" /\ request(p, q) \notin ins'[c]
        BY <1>5, <1>6 DEF FirstStep
      <3>2. call'[c].op = "block" => call'[c].step = "saveBlock"
        BY <1>6 DEF FirstStep
      <3> QED
        BY <1>6, <3>1, <3>2 DEF Found
    <2>4. ASSUME NEW d \in InFlight(a, b)' PROVE Found(d)'
      <3>1. CASE d # c
        <4>1. Found(d) /\ call'[d] = call[d] /\ ins' = ins /\ del' = del /\ rows' = rows
          BY <1>5, <2>1, <2>2, <2>4, <3>1 DEF PairInv
        <4> QED
          BY ONLY <4>1 DEF Found
      <3> QED
        BY <2>3, <3>1
    <2>5. ASSUME c \in InFlight(a, b)', NEW d \in InFlight(a, b)', d # c
          PROVE  ~Races(call'[c].op, call'[d].op) /\ ~Races(call'[d].op, call'[c].op)
      <3>1. {p, q} = {a, b}
        BY <1>6, <2>5 DEF InFlight
      <3>2. d \in InFlight(p, q) /\ call'[d] = call[d]
        BY <2>2, <2>5, <3>1 DEF InFlight
      <3>3. ~Races(op, call[d].op)
        BY <1>3, <1>8, <3>1, <3>2
      <3> QED
        BY <1>6, <3>2, <3>3 DEF Races
    <2>6. \A d, e \in InFlight(a, b)' : d # e => ~Races(call'[d].op, call'[e].op)
      BY <2>1, <2>2, <2>5 DEF PairInv
    <2> QED
      BY <1>5, <2>1, <2>4, <2>6 DEF PairInv
  <1> QED
    BY <1>7, <1>8 DEF RelationInv

\* What a transaction without writes sees are the committed rows.
LEMMA SeesCommitted ==
    ASSUME NEW c \in Calls, ins[c] = {}, del[c] = {}
    PROVE  Visible(c) = rows
  BY DEF Visible

\* The checks of SendFriendRequest read, and return or go on.
LEMMA CheckStep ==
    ASSUME RelationInv, NEW c \in Calls, call[c].op = "send",
           IsBlocked(c) \/ FriendsExist(c) \/ ReverseExists(c) \/ ForwardExists(c)
    PROVE  RelationInv'
  <1> DEFINE p == call[c].me
  <1> DEFINE q == call[c].other
  <1>0. TxInv /\ call[c] # NoCall
    BY NoCallFields DEF RelationInv
  <1>1. /\ p # q /\ c \in InFlight(p, q)
        /\ ins[c] = {} /\ del[c] = {} /\ Visible(c) = rows
    <2>1. TxRows(c) /\ call[c].step \notin {"saveFriendship", "commit"}
      BY <1>0 DEF TxInv, IsBlocked, FriendsExist, ReverseExists, ForwardExists
    <2>2. ins[c] = {} /\ del[c] = {}
      BY <1>0, <2>1 DEF TxRows
    <2> QED
      BY <1>0, <2>2, Running, SeesCommitted
  <1>2. CASE ReturnErr(c)
    BY <1>2, ErrStep
  <1>3. ASSUME NEW st \in {"friends", "reverse", "forward", "deleteIncoming", "saveRequest"},
               Goto(c, st), UNCHANGED dbVars,
               PairInv(p, q) =>
                  /\ Blk(p, q) \cap rows = {}
                  /\ st # "friends" => friendship(p, q) \notin rows
                  /\ st \in {"forward", "saveRequest"} => request(q, p) \notin rows
                  /\ st = "saveRequest" => Rel(p, q) \cap rows = {}
        PROVE  RelationInv'
    <2>0. st \in Steps
      BY DEF Steps
    <2>1. DbType(Tables)' /\ DbInv' /\ rows' = rows /\ ins' = ins /\ del' = del
      BY <1>0, <1>3, IdleStep DEF dbVars, TxInv
    <2>2. /\ call'[c] # NoCall /\ call'[c].step = st /\ call'[c].op = "send"
          /\ call'[c].me = p /\ call'[c].other = q
      BY <1>0, <1>3, <2>0, GotoStep
    <2>3. TxRows(c)'
      BY <1>1, <2>1, <2>2 DEF TxRows
    <2>4. PairInv(p, q) => Found(c)'
      BY <1>1, <1>3, <2>1, <2>2 DEF Found
    <2> QED
      BY <1>0, <1>3, <2>0, <2>1, <2>3, <2>4, RunOn
  <1>4. PairInv(p, q) => Found(c)
    BY <1>1 DEF PairInv
  <1>5. CASE IsBlocked(c) /\ ~ReturnErr(c)
    <2>1. Goto(c, "friends") /\ UNCHANGED dbVars /\ Blk(p, q) \cap rows = {}
      BY <1>1, <1>5 DEF IsBlocked, Blk
    <2> QED
      BY <1>3, <2>1
  <1>6. CASE FriendsExist(c) /\ ~ReturnErr(c)
    <2>1. /\ Goto(c, "reverse") /\ UNCHANGED dbVars /\ friendship(p, q) \notin rows
          /\ call[c].step = "friends"
      BY <1>1, <1>6 DEF FriendsExist
    <2>2. PairInv(p, q) => Blk(p, q) \cap rows = {}
      BY <1>4, <2>1 DEF Found
    <2> QED
      BY <1>3, <2>1, <2>2
  <1>7. CASE ReverseExists(c)
    <2>1. call[c].step = "reverse" /\ UNCHANGED dbVars
      BY <1>7 DEF ReverseExists
    <2>2. PairInv(p, q) => Blk(p, q) \cap rows = {} /\ friendship(p, q) \notin rows
      BY <1>4, <2>1 DEF Found
    <2>3. CASE request(q, p) \in rows
      <3>1. Goto(c, "deleteIncoming")
        BY <1>1, <1>7, <2>3 DEF ReverseExists
      <3> QED
        BY <1>3, <2>1, <2>2, <3>1
    <2>4. CASE request(q, p) \notin rows
      <3>1. Goto(c, "forward")
        BY <1>1, <1>7, <2>4 DEF ReverseExists
      <3> QED
        BY <1>3, <2>1, <2>2, <2>4, <3>1
    <2> QED
      BY <2>3, <2>4
  <1>8. CASE ForwardExists(c) /\ ~ReturnErr(c)
    <2>1. /\ Goto(c, "saveRequest") /\ UNCHANGED dbVars /\ request(p, q) \notin rows
          /\ call[c].step = "forward"
      BY <1>1, <1>8 DEF ForwardExists
    <2>2. PairInv(p, q) => /\ Blk(p, q) \cap rows = {} /\ friendship(p, q) \notin rows
                           /\ request(q, p) \notin rows
      BY <1>4, <2>1 DEF Found
    <2>3. PairInv(p, q) => Rel(p, q) \cap rows = {}
      BY <2>1, <2>2 DEF Rel
    <2> QED
      BY <1>3, <2>1, <2>2, <2>3
  <1> QED
    BY <1>2, <1>5, <1>6, <1>7, <1>8

\* The INSERT of a request or of a friendship.
LEMMA SaveStep ==
    ASSUME RelationInv, NEW c \in Calls,
           \/ call[c].op = "send" /\ SaveRequest(c)
           \/ call[c].op \in {"send", "accept"} /\ SaveFriendship(c)
    PROVE  RelationInv'
  <1> DEFINE p == call[c].me
  <1> DEFINE q == call[c].other
  <1>0. TxInv /\ call[c] # NoCall
    BY NoCallFields DEF RelationInv
  <1>1. /\ p # q /\ c \in InFlight(p, q) /\ TxRows(c)
        /\ request(p, q) \in Tables /\ friendship(p, q) \in Tables
    BY <1>0, Running, PairTables DEF TxInv, Rel
  <1>2. CASE ReturnErr(c)
    BY <1>2, ErrStep
  <1>3. ASSUME NEW r \in Tables, ~ReturnErr(c), SaveOr(c, r, "commit")
        PROVE  /\ DbType(Tables)' /\ DbInv' /\ UNCHANGED rows
               /\ ins'[c] = ins[c] \cup {r} /\ del'[c] = del[c]
               /\ \A d \in Calls : d # c => ins'[d] = ins[d] /\ del'[d] = del[d]
               /\ Goto(c, "commit")
    <2>1. r \notin Visible(c) /\ Insert(c, r) /\ Goto(c, "commit")
      BY <1>3 DEF SaveOr
    <2>2. Visible(c) \subseteq Tables
      BY <1>0 DEF TxInv, DbType, Visible
    <2>3. ~Exists(c, r.key)
      BY <2>1, <2>2, KeyIsRow DEF Exists
    <2> QED
      BY <1>0, <2>1, <2>3, InsertStep DEF TxInv
  <1>4. "commit" \in Steps
    BY DEF Steps
  <1>5. Goto(c, "commit") =>
           /\ call'[c] # NoCall /\ call'[c].step = "commit" /\ call'[c].op = call[c].op
           /\ call'[c].me = p /\ call'[c].other = q
    BY <1>0, <1>4, GotoStep
  <1>6. PairInv(p, q) => Found(c)
    BY <1>1 DEF PairInv
  <1>7. CASE SaveRequest(c) /\ call[c].op = "send" /\ ~ReturnErr(c)
    <2>1. call[c].step = "saveRequest" /\ SaveOr(c, request(p, q), "commit")
      BY <1>7 DEF SaveRequest
    <2>2. ins[c] = {} /\ del[c] = {}
      BY <1>0, <1>1, <1>7, <2>1 DEF TxRows
    <2>3. /\ DbType(Tables)' /\ DbInv' /\ UNCHANGED rows
          /\ ins'[c] = {request(p, q)} /\ del'[c] = {}
          /\ \A d \in Calls : d # c => ins'[d] = ins[d] /\ del'[d] = del[d]
          /\ Goto(c, "commit")
      BY <1>1, <1>3, <1>7, <2>1, <2>2
    <2>4. TxRows(c)'
      BY <1>1, <1>5, <1>7, <2>3 DEF TxRows
    <2>5. PairInv(p, q) => Found(c)'
      BY <1>5, <1>6, <1>7, <2>1, <2>3 DEF Found, Rel
    <2> QED
      BY <1>0, <1>4, <2>3, <2>4, <2>5, RunOn
  <1>8. CASE SaveFriendship(c) /\ call[c].op \in {"send", "accept"} /\ ~ReturnErr(c)
    <2>1. call[c].step = "saveFriendship" /\ SaveOr(c, friendship(p, q), "commit")
      BY <1>8 DEF SaveFriendship
    <2>2. ins[c] = {} /\ del[c] = {request(q, p)}
      BY <1>0, <1>1, <1>8, <2>1 DEF TxRows
    <2>3. /\ DbType(Tables)' /\ DbInv' /\ UNCHANGED rows
          /\ ins'[c] = {friendship(p, q)} /\ del'[c] = {request(q, p)}
          /\ \A d \in Calls : d # c => ins'[d] = ins[d] /\ del'[d] = del[d]
          /\ Goto(c, "commit")
      BY <1>1, <1>3, <1>8, <2>1, <2>2
    <2>4. TxRows(c)'
      BY <1>1, <1>5, <1>8, <2>3 DEF TxRows
    <2>5. request(p, q) \notin ins'[c]
      BY <2>3, RowIds
    <2>6. PairInv(p, q) => Found(c)'
      BY <1>5, <1>6, <1>8, <2>1, <2>3, <2>5 DEF Found
    <2> QED
      BY <1>0, <1>4, <2>3, <2>4, <2>6, RunOn
  <1> QED
    BY <1>2, <1>7, <1>8

\* BlockPlayer's INSERT.
LEMMA SaveBlockStep ==
    ASSUME RelationInv, NEW c \in Calls, call[c].op = "block", SaveBlock(c)
    PROVE  RelationInv'
  <1> DEFINE p == call[c].me
  <1> DEFINE q == call[c].other
  <1>0. TxInv /\ call[c] # NoCall
    BY NoCallFields DEF RelationInv
  <1>1. /\ p # q /\ TxRows(c) /\ block(p, q) \in Tables
    BY <1>0, Running, PairTables DEF TxInv, Blk
  <1>2. ins[c] \subseteq {block(p, q)} /\ del[c] \subseteq Rel(p, q)
    BY <1>0, <1>1 DEF TxRows
  <1>3. /\ DbType(Tables)' /\ DbInv' /\ UNCHANGED rows
        /\ ins'[c] \subseteq {block(p, q)} /\ del'[c] \subseteq Rel(p, q)
        /\ \A d \in Calls : d # c => ins'[d] = ins[d] /\ del'[d] = del[d]
    <2>1. CASE UNCHANGED dbVars
      BY <1>0, <1>2, <2>1, IdleStep DEF TxInv, dbVars
    <2>2. CASE block(p, q) \notin Visible(c) /\ Insert(c, block(p, q))
      <3>1. Visible(c) \subseteq Tables
        BY <1>0 DEF TxInv, DbType, Visible
      <3>2. ~Exists(c, block(p, q).key)
        BY <1>1, <2>2, <3>1, KeyIsRow DEF Exists
      <3>3. /\ DbType(Tables)' /\ DbInv' /\ UNCHANGED rows
            /\ ins'[c] = ins[c] \cup {block(p, q)} /\ del'[c] = del[c]
            /\ \A d \in Calls : d # c => ins'[d] = ins[d] /\ del'[d] = del[d]
        BY <1>0, <1>1, <2>2, <3>2, InsertStep DEF TxInv
      <3> QED
        BY <1>2, <3>3
    <2> QED
      BY <2>1, <2>2 DEF SaveBlock
  <1>4. Goto(c, "deleteFriendship") /\ "deleteFriendship" \in Steps
    BY DEF SaveBlock, Steps
  <1>5. /\ call'[c] # NoCall /\ call'[c].step = "deleteFriendship" /\ call'[c].op = "block"
        /\ call'[c].me = p /\ call'[c].other = q
    BY <1>0, <1>4, GotoStep
  <1>6. TxRows(c)' /\ Found(c)'
    BY <1>1, <1>3, <1>5 DEF TxRows, Found
  <1> QED
    BY <1>0, <1>3, <1>4, <1>6, RunOn

\* A DELETE of a row about the two players.
LEMMA DeleteRow ==
    ASSUME TxInv, NEW c \in Calls, call[c] # NoCall, NEW r \in Tables, NEW st,
           DeleteOr(c, r, st), ~ReturnErr(c), r \notin ins[c]
    PROVE  /\ DbType(Tables)' /\ DbInv' /\ UNCHANGED rows /\ Goto(c, st)
           /\ ins'[c] = ins[c] /\ del'[c] \subseteq del[c] \cup {r} /\ del[c] \subseteq del'[c]
           /\ \A d \in Calls : d # c => ins'[d] = ins[d] /\ del'[d] = del[d]
           /\ r \notin rows \ del'[c]
           /\ call[c].op \notin {"block", "unblock"} => del'[c] = del[c] \cup {r}
  <1>1. CASE r \in Visible(c)
    <2>1. Delete(c, r.key) /\ Goto(c, st) /\ r \in rows
      BY <1>1 DEF DeleteOr, Visible
    <2>2. /\ DbType(Tables)' /\ DbInv' /\ UNCHANGED rows
          /\ ins'[c] = {s \in ins[c] : s.key # r.key}
          /\ del'[c] = del[c] \cup {s \in rows : s.key = r.key /\ s \in Visible(c)}
          /\ \A d \in Calls : d # c => ins'[d] = ins[d] /\ del'[d] = del[d]
      BY <2>1, DeleteStep DEF TxInv
    <2>3. \A s \in Tables : s.key = r.key <=> s = r
      BY KeyIsRow
    <2>4. ins[c] \subseteq Tables /\ rows \subseteq Tables
      BY DEF TxInv, DbType
    <2>5. ins'[c] = ins[c] /\ del'[c] = del[c] \cup {r}
      BY <1>1, <2>1, <2>2, <2>3, <2>4
    <2> QED
      BY <2>1, <2>2, <2>5
  <1>2. CASE r \notin Visible(c)
    <2>1. Goto(c, st) /\ UNCHANGED dbVars /\ call[c].op \in {"block", "unblock"}
      BY <1>2 DEF DeleteOr
    <2>2. DbType(Tables)' /\ DbInv' /\ ins' = ins /\ del' = del /\ rows' = rows
      BY <2>1, IdleStep DEF TxInv, dbVars
    <2> QED
      BY <1>2, <2>1, <2>2 DEF Visible
  <1> QED
    BY <1>1, <1>2

\* The acceptance of a request deletes it before the friendship is saved.
LEMMA AcceptStep ==
    ASSUME RelationInv, NEW c \in Calls, call[c].op \in {"send", "accept"}, DeleteIncoming(c)
    PROVE  RelationInv'
  <1> DEFINE p == call[c].me
  <1> DEFINE q == call[c].other
  <1>0. TxInv /\ call[c] # NoCall
    BY NoCallFields DEF RelationInv
  <1>1. /\ p # q /\ c \in InFlight(p, q) /\ TxRows(c) /\ request(q, p) \in Tables
    BY <1>0, Running, PairTables DEF TxInv, Rel
  <1>2. /\ call[c].step = "deleteIncoming" /\ DeleteOr(c, request(q, p), "saveFriendship")
        /\ ins[c] = {} /\ del[c] = {} /\ "saveFriendship" \in Steps
    BY <1>0, <1>1 DEF DeleteIncoming, TxRows, Steps
  <1>3. CASE ReturnErr(c)
    BY <1>3, ErrStep
  <1>4. CASE ~ReturnErr(c)
    <2>1. /\ DbType(Tables)' /\ DbInv' /\ UNCHANGED rows /\ Goto(c, "saveFriendship")
          /\ ins'[c] = {} /\ del'[c] = {request(q, p)}
          /\ \A d \in Calls : d # c => ins'[d] = ins[d] /\ del'[d] = del[d]
      BY <1>0, <1>1, <1>2, <1>4, DeleteRow
    <2>2. /\ call'[c] # NoCall /\ call'[c].step = "saveFriendship" /\ call'[c].op = call[c].op
          /\ call'[c].me = p /\ call'[c].other = q
      BY <1>0, <1>2, <2>1, GotoStep
    <2>3. TxRows(c)'
      BY <1>1, <2>1, <2>2 DEF TxRows
    <2>4. PairInv(p, q) => Found(c)
      BY <1>1 DEF PairInv
    <2>5. PairInv(p, q) => Found(c)'
      BY <1>2, <2>1, <2>2, <2>4 DEF Found
    <2> QED
      BY <1>0, <1>2, <2>1, <2>3, <2>5, RunOn
  <1> QED
    BY <1>3, <1>4

\* The other deletions of one row.
LEMMA RemoveStep ==
    ASSUME RelationInv, NEW c \in Calls,
           \/ call[c].op = "decline" /\ DeleteIncoming(c)
           \/ call[c].op = "cancel" /\ DeleteOutgoing(c)
           \/ call[c].op = "remove" /\ DeleteFriendship(c)
           \/ call[c].op = "unblock" /\ DeleteBlock(c)
    PROVE  RelationInv'
  <1> DEFINE p == call[c].me
  <1> DEFINE q == call[c].other
  <1>0. TxInv /\ call[c] # NoCall
    BY NoCallFields DEF RelationInv
  <1>1. p # q /\ TxRows(c) /\ Rel(p, q) \cup Blk(p, q) \subseteq Tables
    BY <1>0, Running, PairTables DEF TxInv
  <1>2. ins[c] = {} /\ del[c] \subseteq Rel(p, q) \cup Blk(p, q)
    BY <1>0, <1>1 DEF TxRows
  <1>3. PICK r \in Rel(p, q) \cup Blk(p, q) : DeleteOr(c, r, "commit")
    BY DEF DeleteIncoming, DeleteOutgoing, DeleteFriendship, DeleteBlock, Rel, Blk
  <1>4. CASE ReturnErr(c)
    BY <1>4, ErrStep
  <1>5. CASE ~ReturnErr(c)
    <2>1. /\ DbType(Tables)' /\ DbInv' /\ UNCHANGED rows /\ Goto(c, "commit")
          /\ ins'[c] = {} /\ del'[c] \subseteq Rel(p, q) \cup Blk(p, q)
          /\ \A d \in Calls : d # c => ins'[d] = ins[d] /\ del'[d] = del[d]
      BY <1>0, <1>1, <1>2, <1>3, <1>5, DeleteRow
    <2>2. "commit" \in Steps
      BY DEF Steps
    <2>3. /\ call'[c] # NoCall /\ call'[c].op = call[c].op
          /\ call'[c].me = p /\ call'[c].other = q
      BY <1>0, <2>1, <2>2, GotoStep
    <2>4. TxRows(c)' /\ Found(c)'
      BY <1>1, <2>1, <2>3 DEF TxRows, Found
    <2> QED
      BY <1>0, <2>1, <2>2, <2>4, RunOn
  <1> QED
    BY <1>4, <1>5

\* BlockPlayer's deletions, whether or not there is a row.
LEMMA SeverStep ==
    ASSUME RelationInv, NEW c \in Calls, call[c].op = "block",
           DeleteFriendship(c) \/ DeleteOutgoing(c) \/ DeleteIncoming(c)
    PROVE  RelationInv'
  <1> DEFINE p == call[c].me
  <1> DEFINE q == call[c].other
  <1>0. TxInv /\ call[c] # NoCall
    BY NoCallFields DEF RelationInv
  <1>1. /\ p # q /\ c \in InFlight(p, q) /\ TxRows(c) /\ Rel(p, q) \subseteq Tables
    BY <1>0, Running, PairTables DEF TxInv
  <1>2. ins[c] \subseteq {block(p, q)} /\ del[c] \subseteq Rel(p, q)
    BY <1>0, <1>1 DEF TxRows
  <1>3. PairInv(p, q) => Found(c)
    BY <1>1 DEF PairInv
  <1>4. ASSUME NEW r \in Rel(p, q), NEW st \in {"deleteOutgoing", "deleteIncoming", "commit"},
               DeleteOr(c, r, st), ~ReturnErr(c),
               PairInv(p, q) => \A s \in Rel(p, q) \ {r} :
                  \/ s \notin rows \ del[c]
                  \/ st = "deleteOutgoing" /\ s # friendship(p, q)
                  \/ st = "deleteIncoming" /\ s = request(q, p)
        PROVE  RelationInv'
    <2>1. r \notin ins[c] /\ r \in Tables /\ st \in Steps
      BY <1>1, <1>2, RowIds DEF Rel, Steps
    <2>2. /\ DbType(Tables)' /\ DbInv' /\ UNCHANGED rows /\ Goto(c, st)
          /\ ins'[c] = ins[c] /\ del'[c] \subseteq del[c] \cup {r} /\ del[c] \subseteq del'[c]
          /\ \A d \in Calls : d # c => ins'[d] = ins[d] /\ del'[d] = del[d]
          /\ r \notin rows \ del'[c]
      BY <1>0, <1>4, <2>1, DeleteRow
    <2>3. /\ call'[c] # NoCall /\ call'[c].step = st /\ call'[c].op = "block"
          /\ call'[c].me = p /\ call'[c].other = q
      BY <1>0, <2>1, <2>2, GotoStep
    <2>4. TxRows(c)'
      BY <1>1, <1>2, <2>2, <2>3 DEF TxRows
    <2>5. ASSUME PairInv(p, q) PROVE Found(c)'
      <3>1. \A s \in Rel(p, q) :
               \/ s \notin rows' \ del'[c]
               \/ st = "deleteOutgoing" /\ s # friendship(p, q)
               \/ st = "deleteIncoming" /\ s = request(q, p)
        BY <1>4, <2>2, <2>5
      <3>2. friendship(p, q) \notin rows' \ del'[c]
        BY <3>1, RowIds DEF Rel
      <3>3. st \in {"deleteIncoming", "commit"} => request(p, q) \notin rows' \ del'[c]
        BY <1>1, <3>1, RowIds DEF Rel
      <3>4. st = "commit" => Rel(p, q) \cap rows' \subseteq del'[c]
        BY <3>1
      <3> QED
        BY <2>3, <3>2, <3>3, <3>4 DEF Found
    <2> QED
      BY <1>0, <2>1, <2>2, <2>4, <2>5, RunOn
  <1>5. CASE ReturnErr(c)
    BY <1>5, ErrStep
  <1>6. CASE DeleteFriendship(c) /\ ~ReturnErr(c)
    <2>1. DeleteOr(c, friendship(p, q), "deleteOutgoing") /\ friendship(p, q) \in Rel(p, q)
      BY <1>6 DEF DeleteFriendship, Rel
    <2> QED
      BY <1>4, <1>6, <2>1
  <1>7. CASE DeleteOutgoing(c) /\ ~ReturnErr(c)
    <2>1. DeleteOr(c, request(p, q), "deleteIncoming") /\ request(p, q) \in Rel(p, q)
      BY <1>7 DEF DeleteOutgoing, Rel
    <2>2. PairInv(p, q) => friendship(p, q) \notin rows \ del[c]
      BY <1>3, <1>7 DEF Found, DeleteOutgoing
    <2>3. PairInv(p, q) => \A s \in Rel(p, q) \ {request(p, q)} :
             s \notin rows \ del[c] \/ s = request(q, p)
      BY <2>2 DEF Rel
    <2> QED
      BY <1>4, <1>7, <2>1, <2>3
  <1>8. CASE DeleteIncoming(c) /\ ~ReturnErr(c)
    <2>1. DeleteOr(c, request(q, p), "commit") /\ request(q, p) \in Rel(p, q)
      BY <1>8 DEF DeleteIncoming, Rel
    <2>2. PairInv(p, q) => friendship(p, q) \notin rows \ del[c] /\ request(p, q) \notin rows \ del[c]
      BY <1>3, <1>8 DEF Found, DeleteIncoming
    <2>3. PairInv(p, q) => \A s \in Rel(p, q) \ {request(q, p)} : s \notin rows \ del[c]
      BY <2>2 DEF Rel
    <2> QED
      BY <1>4, <1>8, <2>1, <2>3
  <1> QED
    BY <1>5, <1>6, <1>7, <1>8

----------------------------------------------------------------------------
(* The commit.                                                             *)

\* A call keeps what it has found if its two players only lose rows, or, unless
\* it is a request, only lose rows of their relation.
LEMMA FoundKept ==
    ASSUME NEW d, Found(d), call'[d] = call[d], ins'[d] = ins[d], del'[d] = del[d],
           call[d].op \in {"send", "block"} =>
              Rel(call[d].me, call[d].other) \cap rows' \subseteq rows,
           call[d].op = "send" => Blk(call[d].me, call[d].other) \cap rows' \subseteq rows
    PROVE  Found(d)'
  <1> DEFINE p == call[d].me
  <1> DEFINE q == call[d].other
  <1>1. friendship(p, q) \in Rel(p, q) /\ request(p, q) \in Rel(p, q) /\ request(q, p) \in Rel(p, q)
    BY DEF Rel
  <1>2. CASE call[d].op = "send"
    BY <1>1, <1>2 DEF Found
  <1>3. CASE call[d].op = "block"
    BY <1>1, <1>3 DEF Found
  <1> QED
    BY <1>2, <1>3 DEF Found

\* What a commit does to the rows about the caller's two players, when no other
\* call raced with it.
LEMMA CommitOwnPair ==
    ASSUME RelationInv, NEW c \in Calls, call[c] # NoCall, call[c].step = "commit",
           rows' = (rows \ del[c]) \cup ins[c], PairInv(call[c].me, call[c].other)
    PROVE  LET p == call[c].me  q == call[c].other
           IN  /\ \A a, b \in Rel(p, q) \cap rows' : a = b
               /\ Blk(p, q) \cap rows' # {} => Rel(p, q) \cap rows' = {}
               /\ call[c].op \notin {"send", "accept"} => Rel(p, q) \cap rows' \subseteq rows
               /\ call[c].op \notin {"send", "accept", "block"} => Blk(p, q) \cap rows' \subseteq rows
  <1> DEFINE p == call[c].me
  <1> DEFINE q == call[c].other
  <1>0. TxInv
    BY DEF RelationInv
  <1>1. p # q /\ c \in InFlight(p, q) /\ TxRows(c) /\ del[c] \subseteq rows
    BY <1>0, Running DEF TxInv, DbInv
  <1>2. /\ Found(c)
        /\ \A a, b \in Rel(p, q) \cap rows : a = b
        /\ Blk(p, q) \cap rows # {} => Rel(p, q) \cap rows = {}
    BY <1>1 DEF PairInv
  <1>3. /\ friendship(p, q) \in Rel(p, q) /\ request(p, q) \in Rel(p, q) /\ request(q, p) \in Rel(p, q)
        /\ friendship(p, q) # request(q, p) /\ friendship(p, q) # request(p, q)
        /\ request(p, q) # request(q, p)
        /\ \A r \in Rel(p, q) : r \notin Blk(p, q)
        /\ block(p, q) \in Blk(p, q)
    BY <1>1, RowIds DEF Rel, Blk
  <1>4. CASE ins[c] = {friendship(p, q)} /\ del[c] = {request(q, p)} /\ call[c].op \in {"send", "accept"}
    <2>1. Rel(p, q) \cap rows = {request(q, p)} /\ Blk(p, q) \cap rows = {}
      BY <1>1, <1>2, <1>3, <1>4
    <2>2. Rel(p, q) \cap rows' = {friendship(p, q)} /\ Blk(p, q) \cap rows' = {}
      BY <1>3, <1>4, <2>1
    <2> QED
      BY <1>4, <2>2
  <1>5. CASE ins[c] = {request(p, q)} /\ del[c] = {} /\ call[c].op = "send"
    <2>1. Rel(p, q) \cap rows = {} /\ Blk(p, q) \cap rows = {}
      BY <1>2, <1>5 DEF Found
    <2>2. Rel(p, q) \cap rows' = {request(p, q)} /\ Blk(p, q) \cap rows' = {}
      BY <1>3, <1>5, <2>1
    <2> QED
      BY <1>5, <2>2
  <1>6. CASE call[c].op = "block" /\ ins[c] \subseteq {block(p, q)}
    <2>1. Rel(p, q) \cap rows \subseteq del[c]
      BY <1>2, <1>6 DEF Found
    <2>2. Rel(p, q) \cap rows' = {}
      BY <1>3, <1>6, <2>1
    <2> QED
      BY <1>6, <2>2
  <1>7. CASE call[c].op \in {"decline", "cancel", "remove", "unblock"} /\ ins[c] = {}
    <2>1. rows' \subseteq rows
      BY <1>7
    <2> QED
      BY <1>2, <1>7, <2>1
  <1> QED
    BY <1>1, <1>4, <1>5, <1>6, <1>7 DEF TxRows

\* A commit changes the rows about the caller's two players only.
LEMMA CommitOtherPairs ==
    ASSUME TxInv, NEW c \in Calls, call[c] # NoCall,
           rows' = (rows \ del[c]) \cup ins[c],
           NEW a, NEW b,
           ~(a = call[c].me /\ b = call[c].other), ~(a = call[c].other /\ b = call[c].me)
    PROVE  Rel(a, b) \cap rows' = Rel(a, b) \cap rows /\ Blk(a, b) \cap rows' = Blk(a, b) \cap rows
  <1> DEFINE p == call[c].me
  <1> DEFINE q == call[c].other
  <1>1. ins[c] \cup del[c] \subseteq Rel(p, q) \cup Blk(p, q)
    <2>1. TxRows(c)
      BY DEF TxInv
    <2> QED
      BY <2>1 DEF TxRows, Rel, Blk
  <1>2. (Rel(p, q) \cup Blk(p, q)) \cap (Rel(a, b) \cup Blk(a, b)) = {}
    <2>1. {p, q} # {a, b}
      OBVIOUS
    <2> QED
      BY <2>1, PairRows
  <1> QED
    BY <1>1, <1>2

\* The commit of a call keeps the invariant.
LEMMA CommitCallStep ==
    ASSUME RelationInv, NEW c \in Calls, CommitCall(c)
    PROVE  RelationInv'
  <1> DEFINE p == call[c].me
  <1> DEFINE q == call[c].other
  <1>0. TxInv /\ call[c] # NoCall /\ call[c].step = "commit"
    BY NoCallFields DEF RelationInv, CommitCall
  <1>1. p # q /\ p \in Players /\ q \in Players
    BY <1>0, Running
  <1>2. /\ call' = [call EXCEPT ![c] = NoCall] /\ UNCHANGED raced /\ Commit(c)
    BY DEF CommitCall, Return
  <1>3. /\ call' \in [Calls -> {NoCall} \cup Requests] /\ call'[c] = NoCall
        /\ \A d \in Calls : d # c => call'[d] = call[d]
    BY <1>0, <1>2 DEF TxInv
  <1>4. /\ DbType(Tables)' /\ DbInv' /\ rows' = (rows \ del[c]) \cup ins[c]
        /\ ins'[c] = {} /\ del'[c] = {}
        /\ \A d \in Calls : d # c => ins'[d] = ins[d] /\ del'[d] = del[d]
    BY <1>0, <1>2, CommitStep DEF TxInv
  <1>5. TxInv'
    <2>1. TxRows(c)'
      BY <1>3, <1>4 DEF TxRows
    <2>2. \A d \in Calls : TxRows(d)'
      BY <1>0, <1>3, <1>4, <2>1, OthersRows
    <2> QED
      BY <1>0, <1>2, <1>3, <1>4, <2>2 DEF TxInv
  <1>6. ASSUME NEW a \in Players, NEW b \in Players, a # b, {a, b} \notin raced
        PROVE  PairInv(a, b)'
    <2>0. PairInv(a, b)
      BY <1>6 DEF RelationInv
    <2>1. \A d \in InFlight(a, b)' :
             /\ d \in Calls /\ d # c /\ d \in InFlight(a, b)
             /\ call'[d] = call[d] /\ ins'[d] = ins[d] /\ del'[d] = del[d]
             /\ {call[d].me, call[d].other} = {a, b}
      BY <1>3, <1>4 DEF InFlight
    <2>2. \A d, e \in InFlight(a, b)' : d # e => ~Races(call'[d].op, call'[e].op)
      BY <2>0, <2>1 DEF PairInv
    <2>3. \A d \in InFlight(a, b)' : /\ Rel(call[d].me, call[d].other) = Rel(a, b)
                                     /\ Blk(call[d].me, call[d].other) = Blk(a, b)
      <3> SUFFICES ASSUME NEW d \in InFlight(a, b)'
                   PROVE  /\ Rel(call[d].me, call[d].other) = Rel(a, b)
                          /\ Blk(call[d].me, call[d].other) = Blk(a, b)
        OBVIOUS
      <3>1. (call[d].me = a /\ call[d].other = b) \/ (call[d].me = b /\ call[d].other = a)
        BY <2>1
      <3> QED
        BY <3>1, PairSymmetric
    <2>4. CASE {a, b} # {p, q}
      <3>1. Rel(a, b) \cap rows' = Rel(a, b) \cap rows /\ Blk(a, b) \cap rows' = Blk(a, b) \cap rows
        <4>1. ~(a = call[c].me /\ b = call[c].other) /\ ~(a = call[c].other /\ b = call[c].me)
          BY <2>4
        <4> QED
          BY <1>0, <1>4, <4>1, CommitOtherPairs
      <3>2. ASSUME NEW d \in InFlight(a, b)' PROVE Found(d)'
        <4>1. Found(d) /\ call'[d] = call[d] /\ ins'[d] = ins[d] /\ del'[d] = del[d]
          BY <2>0, <2>1, <3>2 DEF PairInv
        <4>2. /\ Rel(call[d].me, call[d].other) \cap rows' \subseteq rows
              /\ Blk(call[d].me, call[d].other) \cap rows' \subseteq rows
          BY <2>3, <3>1
        <4> QED
          BY <4>1, <4>2, FoundKept
      <3> QED
        BY <2>0, <2>2, <3>1, <3>2 DEF PairInv
    <2>5. CASE {a, b} = {p, q}
      <3>0. (p = a /\ q = b) \/ (p = b /\ q = a)
        BY <2>5
      <3>1. PairInv(p, q) /\ Rel(p, q) = Rel(a, b) /\ Blk(p, q) = Blk(a, b)
        BY <2>0, <3>0, PairSwap, PairSymmetric
      <3>2. /\ \A x, y \in Rel(a, b) \cap rows' : x = y
            /\ Blk(a, b) \cap rows' # {} => Rel(a, b) \cap rows' = {}
            /\ call[c].op \notin {"send", "accept"} => Rel(a, b) \cap rows' \subseteq rows
            /\ call[c].op \notin {"send", "accept", "block"} => Blk(a, b) \cap rows' \subseteq rows
        BY <1>0, <1>4, <3>1, CommitOwnPair
      <3>3. ASSUME NEW d \in InFlight(a, b)' PROVE Found(d)'
        <4>1. Found(d) /\ call'[d] = call[d] /\ ins'[d] = ins[d] /\ del'[d] = del[d]
          BY <2>0, <2>1, <3>3 DEF PairInv
        <4>2. ~Races(call[c].op, call[d].op)
          <5>1. c \in InFlight(a, b) /\ d \in InFlight(a, b) /\ c # d
            BY <1>0, <2>1, <2>5, <3>3 DEF InFlight
          <5> QED
            BY <2>0, <5>1 DEF PairInv
        <4>3. /\ call[d].op \in {"send", "block"} => call[c].op \notin {"send", "accept"}
              /\ call[d].op = "send" => call[c].op # "block"
          BY <4>2 DEF Races
        <4>4. /\ call[d].op \in {"send", "block"} =>
                    Rel(call[d].me, call[d].other) \cap rows' \subseteq rows
              /\ call[d].op = "send" => Blk(call[d].me, call[d].other) \cap rows' \subseteq rows
          BY <2>3, <3>2, <4>3
        <4> QED
          BY <4>1, <4>4, FoundKept
      <3> QED
        BY <2>2, <3>2, <3>3 DEF PairInv
    <2> QED
      BY <2>4, <2>5
  <1> QED
    BY <1>2, <1>5, <1>6 DEF RelationInv

----------------------------------------------------------------------------
(* The theorems.                                                           *)

\* The invariant holds of an empty database.
LEMMA RelationInit == Init => RelationInv
  <1> SUFFICES ASSUME Init PROVE RelationInv
    OBVIOUS
  <1>1. DbType(Tables) /\ DbInv
    <2>1. {} \in SUBSET Tables /\ Unique({}) /\ DbInit({})
      BY DEF Init, Unique
    <2> QED
      BY ONLY <2>1, DbStart
  <1>2. /\ call = [c \in Calls |-> NoCall] /\ raced = {} /\ rows = {}
        /\ \A c \in Calls : ins[c] = {} /\ del[c] = {}
    BY DEF Init, DbInit
  <1>3. \A c \in Calls : TxRows(c)
    BY <1>2 DEF TxRows
  <1>4. \A p, q \in Players : PairInv(p, q)
    BY <1>2 DEF PairInv, InFlight
  <1> QED
    BY <1>1, <1>2, <1>3, <1>4 DEF RelationInv, TxInv

\* Every step of every call keeps the invariant.
LEMMA RelationStep == RelationInv /\ [Next]_vars => RelationInv'
  <1> SUFFICES ASSUME RelationInv, [Next]_vars PROVE RelationInv'
    OBVIOUS
  <1>1. ASSUME NEW c \in Calls, NEW p \in Players, NEW q \in Players,
               FriendRequestCall(c, p, q) \/ RelationCall(c, p, q)
        PROVE  RelationInv'
    <2>1. PICK op \in Ops : Receive(c, op, p, q)
      BY <1>1 DEF FriendRequestCall, RelationCall, Ops
    <2> QED
      BY <2>1, ReceiveStep
  <1>2. ASSUME NEW c \in Calls, Step(c) \/ Fail(c) PROVE RelationInv'
    <2>1. CASE SendTx(c)
      BY <2>1, CheckStep, SaveStep, AcceptStep DEF SendTx
    <2>2. CASE AcceptTx(c)
      BY <2>2, SaveStep, AcceptStep DEF AcceptTx
    <2>3. CASE DeclineTx(c) \/ CancelTx(c) \/ RemoveTx(c) \/ UnblockTx(c)
      BY <2>3, RemoveStep DEF DeclineTx, CancelTx, RemoveTx, UnblockTx
    <2>4. CASE BlockTx(c)
      BY <2>4, SaveBlockStep, SeverStep DEF BlockTx
    <2>5. CASE CommitCall(c)
      BY <2>5, CommitCallStep
    <2>6. CASE DeadlockAbort(c) \/ Fail(c)
      BY <2>6, ErrStep DEF DeadlockAbort, Fail
    <2> QED
      BY <1>2, <2>1, <2>2, <2>3, <2>4, <2>5, <2>6 DEF Step
  <1>3. CASE UNCHANGED vars
    <2>1. rows' = rows /\ ins' = ins /\ del' = del /\ call' = call /\ raced' = raced
      BY <1>3 DEF vars, dbVars
    <2>2. TxInv'
      <3>1. DbType(Tables)' /\ DbInv'
        BY <2>1, IdleStep DEF dbVars, RelationInv, TxInv
      <3> QED
        BY <2>1, <3>1 DEF RelationInv, TxInv, TxRows
    <2>3. \A p, q \in Players : p # q /\ {p, q} \notin raced' => PairInv(p, q)'
      BY <2>1 DEF RelationInv, PairInv, InFlight, Found
    <2> QED
      BY <2>2, <2>3 DEF RelationInv
  <1> QED
    BY <1>1, <1>2, <1>3 DEF Next

\* Every variable of the social graph always holds a value of its type.
THEOREM SocialTypeCorrect == Spec => []TypeOK
  <1>1. RelationInv => TypeOK
    BY DEF RelationInv, TxInv, TypeOK, DbType, Requests
  <1> QED
    BY <1>1, RelationInit, RelationStep, PTL DEF Spec

\* Two players whose requests, acceptances and blocks did not overlap are at most
\* one of friends, requester and addressee, and neither while one blocks the other,
\* whatever failed and however other calls interleaved.
THEOREM OneRelationHolds == Spec => []OneRelation
  <1>1. RelationInv => OneRelation
    <2> SUFFICES ASSUME RelationInv, NEW p \in Players, NEW q \in Players, p # q, {p, q} \notin raced
                 PROVE  Cardinality({friendship(p, q), request(p, q), request(q, p)} \cap rows)
                          <= (IF q \in ListBlocked(p) \cup {r \in Players : p \in ListBlocked(r)}
                                THEN 0 ELSE 1)
      BY DEF OneRelation
    <2> DEFINE R == Rel(p, q) \cap rows
    <2>1. (\A a, b \in R : a = b) /\ (Blk(p, q) \cap rows # {} => R = {})
      BY DEF RelationInv, PairInv
    <2>2. q \in ListBlocked(p) \cup {r \in Players : p \in ListBlocked(r)} => Blk(p, q) \cap rows # {}
      BY DEF ListBlocked, Blk
    <2>3. {friendship(p, q), request(p, q), request(q, p)} \cap rows = R
      BY DEF Rel
    <2>4. Cardinality({}) = 0 /\ \A x : Cardinality({x}) = 1
      BY FS_EmptySet, FS_Singleton
    <2> DEFINE blocked == q \in ListBlocked(p) \cup {r \in Players : p \in ListBlocked(r)}
    <2>5. R = {} \/ \E x : R = {x}
      <3> HIDE DEF R
      <3> QED
        BY <2>1
    <2>6. Cardinality(R) = 0 \/ (Cardinality(R) = 1 /\ ~blocked)
      <3>1. blocked => R = {}
        BY <2>1, <2>2
      <3> HIDE DEF R, blocked
      <3> QED
        BY <2>4, <2>5, <3>1
    <2>7. Cardinality(R) <= (IF blocked THEN 0 ELSE 1)
      <3> HIDE DEF R, blocked
      <3> QED
        BY <2>6
    <2> QED
      BY <2>7 DEF Rel
  <1> QED
    BY <1>1, RelationInit, RelationStep, PTL DEF Spec

\* A friendship appears only in the step that consumes a pending request of the
\* pair, however an acceptance, a crossing request, a cancellation and a decline
\* of that request interleave.
THEOREM FriendshipConsumesRequestHolds == Spec => FriendshipConsumesRequest
  <1> DEFINE Consumes == \A p, q \in Players : q \in ListFriends(p)' \ ListFriends(p) =>
                 q \in (ListIncomingRequests(p) \ ListIncomingRequests(p)')
                          \cup (ListOutgoingRequests(p) \ ListOutgoingRequests(p)')
  <1>1. RelationInv /\ [Next]_vars => [Consumes]_vars
    <2> SUFFICES ASSUME RelationInv, Next, NEW p \in Players, NEW q \in Players,
                        friendship(p, q) \in rows', friendship(p, q) \notin rows
                 PROVE  q \in (ListIncomingRequests(p) \ ListIncomingRequests(p)')
                          \cup (ListOutgoingRequests(p) \ ListOutgoingRequests(p)')
      BY DEF ListFriends
    <2>1. PICK c \in Calls : CommitCall(c)
      <3> USE DEF Receive, ReturnErr, Rollback, dbVars, Goto, Return
      <3>1. ASSUME NEW c \in Calls, NEW a \in Players, NEW b \in Players,
                   FriendRequestCall(c, a, b) \/ RelationCall(c, a, b)
            PROVE  rows' = rows
        BY <3>1 DEF FriendRequestCall, RelationCall
      <3>2. ASSUME NEW c \in Calls, Fail(c) \/ DeadlockAbort(c) PROVE rows' = rows
        BY <3>2 DEF Fail, DeadlockAbort
      <3>3. ASSUME NEW c \in Calls,
                   \/ SendTx(c) \/ AcceptTx(c) \/ DeclineTx(c) \/ CancelTx(c)
                   \/ RemoveTx(c) \/ BlockTx(c) \/ UnblockTx(c)
            PROVE  rows' = rows
        BY <3>3 DEF SendTx, AcceptTx, DeclineTx, CancelTx, RemoveTx, BlockTx, UnblockTx, IsBlocked,
           FriendsExist, ReverseExists, ForwardExists, SaveRequest, SaveFriendship, SaveBlock,
           DeleteIncoming, DeleteOutgoing, DeleteFriendship, DeleteBlock, SaveOr, DeleteOr,
           Insert, Delete, Write
      <3> QED
        BY <3>1, <3>2, <3>3 DEF Next, Step
    <2>2. TxInv /\ call[c] # NoCall /\ TxRows(c) /\ call[c].step = "commit"
      BY <2>1, NoCallFields DEF RelationInv, TxInv, CommitCall
    <2>3. rows' = (rows \ del[c]) \cup ins[c] /\ del[c] \subseteq rows
      BY <2>1, <2>2 DEF CommitCall, Commit, Visible, TxInv, DbInv
    <2>4. friendship(p, q) \in ins[c]
      BY <2>3
    <2>5. PICK a, b : /\ a = call[c].me /\ b = call[c].other
                      /\ ins[c] = {friendship(a, b)} /\ del[c] = {request(b, a)}
      BY <2>2, <2>4, RowIds DEF TxRows
    <2>6. request(b, a) \in rows /\ request(b, a) \notin rows'
      BY <2>3, <2>5, RowIds
    <2>7. (p = a /\ q = b) \/ (p = b /\ q = a)
      <3>1. {p, q} = {a, b}
        BY <2>4, <2>5, RowIds
      <3> QED
        BY <3>1
    <2> QED
      BY <2>6, <2>7 DEF ListIncomingRequests, ListOutgoingRequests
  <1> QED
    BY <1>1, RelationInit, RelationStep, PTL DEF Spec, FriendshipConsumesRequest
=============================================================================
