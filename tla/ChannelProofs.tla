--------------------------- MODULE ChannelProofs ----------------------------
(***************************************************************************)
(* Proofs about Channel, for any players, calls, subscriptions, messages   *)
(* and stream, buffer and page sizes.                                      *)
(***************************************************************************)
EXTENDS Channel, PostgresProofs, FiniteSetTheorems, WellFoundedInduction

Alive == group(Owner) \in rows
Idle(c) == ins[c] = {} /\ del[c] = {}
Whole == Groups \cup Children

----------------------------------------------------------------------------
(* How far each call is: what its transaction has written, and what the    *)
(* lock on the group keeps others from doing.                              *)

\* The group does not exist, and whoever looks for it will find so.
CreateInv(c) ==
    /\ call[c].step \in {"saveGroup", "saveOwner", "commit"} /\ call[c].me = Owner
    /\ del[c] = {}
    /\ call[c].step = "saveGroup" => ins[c] = {}
    /\ call[c].step = "saveOwner" => ins[c] = {group(Owner)}
    /\ call[c].step = "commit" => ins[c] = {group(Owner), member(Owner)}
    /\ Whole \cap rows = {} /\ log = <<>>
    /\ \A d \in Calls : d # c => call[d] = NoCall \/ call[d].step \in {"find", "isMember"}

\* The deletion has locked all there is, and nobody is about to add to it.
DeleteInv(c) ==
    /\ call[c].step \in {"find", "deleteGroup", "commit"}
    /\ call[c].step # "commit" => Idle(c)
    /\ call[c].step = "commit" =>
          /\ ins[c] = {} /\ del[c] = Whole \cap rows
          /\ \A d \in Calls : d # c => Children \cap ins[d] = {}

JoinInv(c) ==
    /\ call[c].step \in {"find", "saveMember", "commit"}
    /\ call[c].step # "commit" => Idle(c)
    /\ call[c].step = "commit" => ins[c] \subseteq {member(call[c].me)} /\ del[c] = {}

LeaveInv(c) ==
    /\ call[c].step \in {"find", "deleteMember", "commit"}
    /\ call[c].step # "find" => call[c].me # Owner
    /\ call[c].step # "commit" => Idle(c)
    /\ call[c].step = "commit" => ins[c] = {} /\ del[c] \subseteq {member(call[c].me)}

Posted(c) == message(call[c].n, call[c].me, call[c].at)
PostInv(c) ==
    /\ call[c].step \in {"isMember", "saveMessage", "commit", "publish"} /\ call[c].me \in Senders
    /\ call[c].n \in 1..sent /\ call[c].at \in Numbers
    /\ call[c].step # "commit" => Idle(c)
    /\ call[c].step = "commit" => ins[c] = {Posted(c)} /\ del[c] = {}
    /\ call[c].step \in {"isMember", "saveMessage"} => \A r \in rows : r.key # Posted(c).key
    /\ call[c].step = "publish" => (Alive => Posted(c) \in rows)
    /\ \A i \in 1..Len(log) : log[i] # call[c].n
    /\ \A d \in Calls : d # c /\ call[d].op = "post" => call[d].n # call[c].n

CallInv(c) ==
    /\ call[c] = NoCall => Idle(c)
    /\ call[c].op = "create" => CreateInv(c)
    /\ call[c].op = "delete" => DeleteInv(c)
    /\ call[c].op = "join" => JoinInv(c)
    /\ call[c].op = "leave" => LeaveInv(c)
    /\ call[c].op = "post" => PostInv(c)
    /\ call[c].op # "create" /\ Children \cap ins[c] # {} => Alive

Requests == [op : Ops, step : Steps, me : Players, n : 0..MaxMessages, at : 0..MaxMessages]

\* Messages are numbered in the order they were sent, and pushed once.
NumbersInv ==
    /\ sent \in 0..MaxMessages /\ now \in 0..MaxMessages /\ now <= sent
    /\ log \in Seq(1..sent) /\ gone \in 0..Len(log)
    /\ \A i, j \in 1..Len(log) : log[i] = log[j] => i = j
    /\ \A r \in rows : r.key[1] \in {"channel_messages", "direct_messages"} => r.key[2] <= sent

ChannelInv ==
    /\ DbType(Tables) /\ DbInv
    /\ call \in [Calls -> {NoCall} \cup Requests]
    /\ NumbersInv
    /\ \A c \in Calls : CallInv(c)
    /\ GroupWhole /\ OnlyCommittedPushed

----------------------------------------------------------------------------
(* The subscriptions.                                                      *)

\* b may follow a in what a subscriber is sent.
Follows(a, b, lagged) == a < b /\ (lagged \/ b = a + 1)
Chain(q, lagged) == \A i \in 1..(Len(q) - 1) : Follows(q[i], q[i + 1], lagged)

SubRecords == [st : {"idle", "blocked", "pushing", "closed"}, last : Nat, from : Nat,
               batch : Seq(Nat \ {0}), buf : Seq(Nat \ {0}), prev : Nat, lagged : BOOLEAN]

\* Its entries are among the first n of the stream.
Streamed(q, n) == \A i \in 1..Len(q) : q[i] <= n

\* The batch being pushed, the buffer and the last entry sent follow one another,
\* and the loop goes on from the end of them; n entries were added to the stream.
SubInv(k, n) ==
    /\ k.last <= n /\ k.from <= n /\ k.prev <= n /\ Streamed(k.batch, n) /\ Streamed(k.buf, n)
    /\ Len(k.batch) <= ReadCount /\ Len(k.buf) <= BufCap
    /\ (k.st = "pushing") <=> (k.batch # <<>>)
    /\ Chain(k.batch, k.lagged) /\ Chain(k.buf, k.lagged)
    /\ k.batch # <<>> => k.last = k.batch[Len(k.batch)]
    /\ k.batch = <<>> /\ k.buf # <<>> => k.last = k.buf[Len(k.buf)]
    /\ k.batch = <<>> /\ k.buf = <<>> => k.last = k.prev
    /\ k.prev # 0 /\ k.buf # <<>> => Follows(k.prev, k.buf[1], k.lagged)
    /\ k.batch # <<>> /\ k.buf # <<>> => Follows(k.buf[Len(k.buf)], k.batch[1], k.lagged)
    /\ k.prev # 0 /\ k.buf = <<>> /\ k.batch # <<>> => Follows(k.prev, k.batch[1], k.lagged)
    /\ k.st = "blocked" /\ k.last # 0 => k.from = k.last

TailInv ==
    /\ sub \in [Subs -> {NoSub} \cup SubRecords]
    /\ \A s \in Subs : sub[s] # NoSub => SubInv(sub[s], Len(log))

----------------------------------------------------------------------------
(* The rows.                                                               *)

\* What tells rows apart.
LEMMA Keys ==
    /\ group(Owner).key = <<"groups", g>> /\ group(Owner).owner = Owner
    /\ \A p : member(p).key = <<"group_members", p>>
    /\ \A n, p, t : message(n, p, t).key = <<"channel_messages", n>> /\ message(n, p, t).at = t
    /\ \A n, p, q, t : direct(n, p, q, t).key = <<"direct_messages", n>> /\ direct(n, p, q, t).at = t
  BY DEF group, member, message, direct

\* Which table a row is in.
LEMMA TableOf ==
    /\ \A r \in Groups : r = group(Owner) /\ r.key[1] = "groups"
    /\ \A r \in Members : r.key[1] = "group_members"
    /\ \A r \in Messages : r.key[1] = "channel_messages" /\ r.key[2] \in Numbers /\ r.at \in Numbers
    /\ \A r \in Directs : r.key[1] = "direct_messages" /\ r.key[2] \in Numbers /\ r.at \in Numbers
  <1>1. \A r \in Groups : r = group(Owner) /\ r.key[1] = "groups"
    BY Keys DEF Groups
  <1>2. \A r \in Members : r.key[1] = "group_members"
    BY Keys DEF Members
  <1>3. ASSUME NEW r \in Messages
        PROVE  r.key[1] = "channel_messages" /\ r.key[2] \in Numbers /\ r.at \in Numbers
    <2>1. PICK n \in Numbers, t \in Numbers, p \in Senders : r = message(n, p, t)
      BY <1>3 DEF Messages
    <2> QED
      BY <2>1, Keys
  <1>4. ASSUME NEW r \in Directs
        PROVE  r.key[1] = "direct_messages" /\ r.key[2] \in Numbers /\ r.at \in Numbers
    <2>1. PICK n \in Numbers, t \in Numbers, p \in Senders, q \in Recipients : r = direct(n, p, q, t)
      BY <1>4 DEF Directs
    <2> QED
      BY <2>1, Keys
  <1> QED
    BY <1>1, <1>2, <1>3, <1>4

\* Membership in the tables.
LEMMA RowsIn ==
    /\ group(Owner) \in Groups /\ group(Owner) \in Tables /\ group(Owner) \notin Children
    /\ \A p \in Players : member(p) \in Members /\ member(p) \in Tables
    /\ \A p, q : member(p) = member(q) => p = q
    /\ \A n, t \in Numbers : \A p \in Senders : message(n, p, t) \in Messages /\ message(n, p, t) \in Tables
    /\ \A n, t \in Numbers : \A p \in Senders : \A q \in Recipients :
          direct(n, p, q, t) \in Tables /\ direct(n, p, q, t) \notin Whole
  <1>1. group(Owner) \in Groups /\ group(Owner) \in Tables
    BY DEF Groups, Tables
  <1>2. group(Owner) \notin Children
    BY TableOf, <1>1 DEF Children
  <1>3. \A p \in Players : member(p) \in Members /\ member(p) \in Tables
    BY DEF Members, Tables
  <1>4. ASSUME NEW p, NEW q, member(p) = member(q) PROVE p = q
    <2>1. <<"group_members", p>> = <<"group_members", q>>
      BY <1>4, Keys
    <2> QED
      BY <2>1
  <1>5. \A n, t \in Numbers : \A p \in Senders : message(n, p, t) \in Messages /\ message(n, p, t) \in Tables
    BY DEF Messages, Tables
  <1>6. ASSUME NEW n \in Numbers, NEW t \in Numbers, NEW p \in Senders, NEW q \in Recipients
        PROVE  direct(n, p, q, t) \in Tables /\ direct(n, p, q, t) \notin Whole
    <2>1. direct(n, p, q, t) \in Directs
      BY DEF Directs
    <2>2. direct(n, p, q, t).key[1] = "direct_messages"
      BY <2>1, TableOf
    <2> QED
      BY <2>1, <2>2, TableOf DEF Tables, Whole, Children
  <1> QED
    BY <1>1, <1>2, <1>3, <1>4, <1>5, <1>6

\* The one group there may be.
LEMMA TheGroup ==
    ASSUME NEW S
    PROVE  /\ Groups \cap S # {} <=> group(Owner) \in S
           /\ Whole \cap S = {} <=> group(Owner) \notin S /\ Children \cap S = {}
  BY DEF Groups, Whole

----------------------------------------------------------------------------
(* Steps of one call.                                                      *)

\* The parts of the invariant that rows, messages and stream alone determine.
LEMMA QuietStep ==
    ASSUME ChannelInv, UNCHANGED <<rows, log, sent, now>>, gone' \in 0..Len(log)
    PROVE  GroupWhole' /\ OnlyCommittedPushed' /\ NumbersInv'
  <1>1. GroupWhole'
    BY DEF ChannelInv, GroupWhole
  <1>2. OnlyCommittedPushed'
    BY DEF ChannelInv, OnlyCommittedPushed
  <1>3. NumbersInv'
    BY DEF ChannelInv, NumbersInv
  <1> QED
    BY <1>1, <1>2, <1>3

\* A step of c that commits nothing leaves the other calls' facts alone, unless
\* it takes c past a group that is being created or adds to one being deleted.
LEMMA OthersKept ==
    ASSUME ChannelInv, NEW c \in Calls, UNCHANGED <<rows, log, sent>>,
           \A d \in Calls : d # c => call'[d] = call[d] /\ ins'[d] = ins[d] /\ del'[d] = del[d],
           \/ call'[c] = NoCall
           \/ call'[c].op # "post"
           \/ call'[c].op = call[c].op /\ call'[c].n = call[c].n,
           \A d \in Calls : d # c /\ call[d].op = "create" =>
               call'[c] = NoCall \/ call'[c].step \in {"find", "isMember"},
           \A d \in Calls : d # c /\ call[d].op = "delete" /\ call[d].step = "commit" =>
               Children \cap ins'[c] = {}
    PROVE  \A d \in Calls : d # c => CallInv(d)'
  <1> SUFFICES ASSUME NEW d \in Calls, d # c PROVE CallInv(d)'
    OBVIOUS
  <1>0. CallInv(d) /\ call'[d] = call[d] /\ ins'[d] = ins[d] /\ del'[d] = del[d] /\ (Idle(d)' <=> Idle(d))
    BY DEF ChannelInv, Idle
  <1>1. call'[d] = NoCall => Idle(d)'
    BY <1>0 DEF CallInv
  <1>2. call'[d].op = "create" => CreateInv(d)'
    BY <1>0 DEF CallInv, CreateInv
  <1>3. call'[d].op = "delete" => DeleteInv(d)'
    BY <1>0 DEF CallInv, DeleteInv
  <1>4. call'[d].op = "join" => JoinInv(d)'
    BY <1>0 DEF CallInv, JoinInv
  <1>5. call'[d].op = "leave" => LeaveInv(d)'
    BY <1>0 DEF CallInv, LeaveInv
  <1>6. call'[d].op = "post" => PostInv(d)'
    <2> SUFFICES ASSUME call[d].op = "post" PROVE PostInv(d)'
      BY <1>0
    <2>1. PostInv(d) /\ Posted(d)' = Posted(d) /\ (Alive' <=> Alive)
      BY <1>0 DEF CallInv, Posted, Alive
    <2>2. ASSUME NEW e \in Calls, e # d, call'[e].op = "post" PROVE call'[e].n # call[d].n
      BY <1>0, <2>1, <2>2 DEF PostInv, NoCall
    <2> QED
      BY <1>0, <2>1, <2>2 DEF PostInv
  <1>7. call'[d].op # "create" /\ Children \cap ins'[d] # {} => Alive'
    BY <1>0 DEF CallInv, Alive
  <1> QED
    BY <1>1, <1>2, <1>3, <1>4, <1>5, <1>6, <1>7 DEF CallInv

\* A step of c that commits nothing.
LEMMA LocalStep ==
    ASSUME ChannelInv, NEW c \in Calls, UNCHANGED <<rows, sent, now, log, gone>>,
           DbType(Tables)', DbInv', call' \in [Calls -> {NoCall} \cup Requests],
           \A d \in Calls : d # c => call'[d] = call[d] /\ ins'[d] = ins[d] /\ del'[d] = del[d],
           CallInv(c)',
           \/ call'[c] = NoCall
           \/ call'[c].op # "post"
           \/ call'[c].op = call[c].op /\ call'[c].n = call[c].n,
           \A d \in Calls : d # c /\ call[d].op = "create" =>
               call'[c] = NoCall \/ call'[c].step \in {"find", "isMember"},
           \A d \in Calls : d # c /\ call[d].op = "delete" /\ call[d].step = "commit" =>
               Children \cap ins'[c] = {}
    PROVE  ChannelInv'
  <1>1. \A d \in Calls : d # c => CallInv(d)'
    BY OthersKept
  <1>2. gone' \in 0..Len(log)
    BY DEF ChannelInv, NumbersInv
  <1>3. GroupWhole' /\ OnlyCommittedPushed' /\ NumbersInv'
    BY <1>2, QuietStep
  <1> QED
    BY <1>1, <1>3 DEF ChannelInv

\* A call that has a step is one.
LEMMA Called ==
    ASSUME ChannelInv, NEW c \in Calls, call[c].step \in Steps
    PROVE  call[c] \in Requests /\ call[c] # NoCall
  <1>1. NoCall.step \notin Steps
    BY DEF NoCall, Steps
  <1> QED
    BY <1>1 DEF ChannelInv

\* What going on to the next statement changes.
LEMMA GotoStep ==
    ASSUME ChannelInv, NEW c \in Calls, call[c] \in Requests, NEW l \in Steps, Goto(c, l)
    PROVE  /\ call' \in [Calls -> {NoCall} \cup Requests]
           /\ call'[c].step = l /\ call'[c].op = call[c].op /\ call'[c].me = call[c].me
           /\ call'[c].n = call[c].n /\ call'[c].at = call[c].at
           /\ call'[c] # NoCall
           /\ \A d \in Calls : d # c => call'[d] = call[d]
           /\ UNCHANGED <<sent, now, log, gone>>
  <1> DEFINE k == [call[c] EXCEPT !.step = l]
  <1>1. k \in Requests /\ k.step = l /\ k.op = call[c].op /\ k.me = call[c].me
        /\ k.n = call[c].n /\ k.at = call[c].at
    BY DEF Requests
  <1>2. NoCall.op \notin Ops /\ k.op \in Ops
    BY <1>1 DEF NoCall, Ops, Requests
  <1>3. call' = [call EXCEPT ![c] = k] /\ UNCHANGED <<sent, now, log, gone>>
    BY DEF Goto, streamVars
  <1> HIDE DEF k
  <1> QED
    BY <1>1, <1>2, <1>3 DEF ChannelInv

\* A call that returns an error takes everything back.
LEMMA ErrStep ==
    ASSUME ChannelInv, NEW c \in Calls, ReturnErr(c)
    PROVE  ChannelInv'
  <1>1. DbType(Tables) /\ DbInv
    BY DEF ChannelInv
  <1>2. /\ DbType(Tables)' /\ DbInv' /\ UNCHANGED rows /\ ins'[c] = {} /\ del'[c] = {}
        /\ \A d \in Calls : d # c => ins'[d] = ins[d] /\ del'[d] = del[d]
    BY <1>1, RollbackStep DEF ReturnErr
  <1>3. /\ call' \in [Calls -> {NoCall} \cup Requests] /\ call'[c] = NoCall
        /\ \A d \in Calls : d # c => call'[d] = call[d]
        /\ UNCHANGED <<sent, now, log, gone>>
    BY DEF ReturnErr, Return, ChannelInv, streamVars
  <1>4. CallInv(c)'
    BY <1>2, <1>3 DEF CallInv, NoCall, Idle
  <1> QED
    BY <1>2, <1>3, <1>4, LocalStep

\* A request begins.
LEMMA BeginStep ==
    ASSUME ChannelInv, NEW c \in Calls, NEW op \in Ops, NEW l \in Steps, NEW p \in Players,
           NEW n \in 0..MaxMessages, NEW t \in 0..MaxMessages, Begin(c, op, l, p, n, t)
    PROVE  /\ call[c] = NoCall /\ Idle(c)
           /\ call' \in [Calls -> {NoCall} \cup Requests]
           /\ call'[c] = [op |-> op, step |-> l, me |-> p, n |-> n, at |-> t] /\ call'[c] # NoCall
           /\ \A d \in Calls : d # c => call'[d] = call[d]
           /\ UNCHANGED <<rows, ins, del, log, gone>>
           /\ DbType(Tables)' /\ DbInv'
  <1> DEFINE k == [op |-> op, step |-> l, me |-> p, n |-> n, at |-> t]
  <1>1. k \in Requests /\ k.op \in Ops
    BY DEF Requests
  <1>2. NoCall.op \notin Ops
    BY DEF NoCall, Ops
  <1>3. call[c] = NoCall /\ call' = [call EXCEPT ![c] = k] /\ UNCHANGED <<rows, ins, del, log, gone>>
    BY DEF Begin, dbVars, streamVars
  <1>4. Idle(c)
    BY <1>3 DEF ChannelInv, CallInv
  <1>5. DbType(Tables)' /\ DbInv'
    BY <1>3, IdleStep DEF ChannelInv, dbVars
  <1>6. k # NoCall
    BY <1>1, <1>2
  <1> HIDE DEF k
  <1>7. call' \in [Calls -> {NoCall} \cup Requests] /\ call'[c] = k
        /\ \A d \in Calls : d # c => call'[d] = call[d]
    BY <1>1, <1>3 DEF ChannelInv
  <1> QED
    BY <1>3, <1>4, <1>5, <1>6, <1>7 DEF k

\* CreateGroup, and the requests about a group.
LEMMA RequestStep ==
    ASSUME ChannelInv, NEW c \in Calls,
           CreateGroup(c) \/ \E p \in Players : GroupRequest(c, p)
    PROVE  ChannelInv'
  <1>1. CASE CreateGroup(c)
    <2>1. "create" \in Ops /\ "saveGroup" \in Steps /\ Owner \in Players /\ 0 \in 0..MaxMessages
      BY PlayersAssumption, BoundsAssumption DEF Ops, Steps
    <2>2. Begin(c, "create", "saveGroup", Owner, 0, 0) /\ UNCHANGED <<sent, now>>
          /\ Whole \cap rows = {} /\ log = <<>> /\ \A d \in Calls : call[d] = NoCall
      BY <1>1 DEF CreateGroup, Whole
    <2>3. /\ Idle(c) /\ call' \in [Calls -> {NoCall} \cup Requests]
          /\ call'[c] = [op |-> "create", step |-> "saveGroup", me |-> Owner, n |-> 0, at |-> 0]
          /\ call'[c] # NoCall
          /\ \A d \in Calls : d # c => call'[d] = call[d]
          /\ UNCHANGED <<rows, ins, del, log, gone>> /\ DbType(Tables)' /\ DbInv'
      BY <2>1, <2>2, BeginStep
    <2>4. call'[c].op = "create" /\ call'[c].step = "saveGroup" /\ call'[c].me = Owner
      BY <2>3
    <2>5. CreateInv(c)'
      BY <2>2, <2>3, <2>4 DEF CreateInv, Idle, Whole
    <2>6. CallInv(c)'
      BY <2>3, <2>4, <2>5 DEF CallInv
    <2>7. \A d \in Calls : call[d].op # "create" /\ call[d].op # "delete"
      BY <2>2 DEF NoCall
    <2> QED
      BY <2>2, <2>3, <2>4, <2>6, <2>7, LocalStep
  <1>2. CASE \E p \in Players : GroupRequest(c, p)
    <2>1. PICK p \in Players, op \in {"delete", "join", "leave"} :
              Begin(c, op, "find", p, 0, 0) /\ UNCHANGED <<sent, now>>
      BY <1>2 DEF GroupRequest
    <2>2. op \in Ops /\ "find" \in Steps /\ 0 \in 0..MaxMessages
      BY BoundsAssumption DEF Ops, Steps
    <2>3. /\ Idle(c) /\ call' \in [Calls -> {NoCall} \cup Requests]
          /\ call'[c] = [op |-> op, step |-> "find", me |-> p, n |-> 0, at |-> 0]
          /\ call'[c] # NoCall
          /\ \A d \in Calls : d # c => call'[d] = call[d]
          /\ UNCHANGED <<rows, ins, del, log, gone>> /\ DbType(Tables)' /\ DbInv'
      BY <2>1, <2>2, BeginStep
    <2>4. call'[c].op \in {"delete", "join", "leave"} /\ call'[c].step = "find"
      BY <2>3
    <2>5. Idle(c)' /\ ins'[c] = {}
      BY <2>3 DEF Idle
    <2>6. CallInv(c)'
      BY <2>3, <2>4, <2>5 DEF CallInv, DeleteInv, JoinInv, LeaveInv
    <2> QED
      BY <2>1, <2>3, <2>4, <2>5, <2>6, LocalStep
  <1> QED
    BY <1>1, <1>2

----------------------------------------------------------------------------
(* The statements.                                                         *)

\* While a group is created every other call is at its first statement.
LEMMA CreateAlone ==
    ASSUME ChannelInv, NEW c \in Calls, NEW d \in Calls, d # c, call[d].op = "create"
    PROVE  /\ ~Alive /\ Children \cap rows = {} /\ log = <<>>
           /\ call[c] = NoCall \/ call[c].step \in {"find", "isMember"}
           /\ call[c].op # "create"
  <1>1. CreateInv(d) /\ CallInv(c)
    BY DEF ChannelInv, CallInv
  <1>2. ~Alive /\ Children \cap rows = {} /\ log = <<>>
    BY <1>1, TheGroup DEF CreateInv, Alive
  <1>3. call[c] = NoCall \/ call[c].step \in {"find", "isMember"}
    BY <1>1 DEF CreateInv
  <1>4. call[c].op # "create"
    BY <1>1, <1>3 DEF CallInv, CreateInv, NoCall
  <1> QED
    BY <1>2, <1>3, <1>4

\* A row that names the group is added only while nobody deletes the group.
LEMMA ShareLock ==
    ASSUME ChannelInv, NEW c \in Calls, Unlocked(c, group(Owner)), Alive,
           NEW d \in Calls, d # c, call[d].op = "delete"
    PROVE  call[d].step # "commit"
  <1> SUFFICES ASSUME call[d].step = "commit" PROVE FALSE
    OBVIOUS
  <1>1. del[d] = Whole \cap rows
    BY DEF ChannelInv, CallInv, DeleteInv
  <1> QED
    BY <1>1, RowsIn DEF Unlocked, Alive, Whole

\* SaveGroup and SaveOwner of CreateGroup.
LEMMA CreateTxStep ==
    ASSUME ChannelInv, NEW c \in Calls, CreateTx(c)
    PROVE  ChannelInv'
  <1>0. call[c].op = "create" /\ CreateInv(c) /\ DbType(Tables) /\ DbInv
    BY DEF CreateTx, ChannelInv, CallInv
  <1>1. call[c] \in Requests
    BY <1>0, Called DEF CreateInv, Steps
  <1>2. /\ \A d \in Calls : d # c => call[d].op # "create"
        /\ \A d \in Calls : d # c /\ call[d].op = "delete" => call[d].step # "commit"
    <2>1. ASSUME NEW d \in Calls, d # c, call[d].op = "create" PROVE FALSE
      BY <1>0, <2>1, CreateAlone
    <2>2. ASSUME NEW d \in Calls, d # c, call[d].op = "delete", call[d].step = "commit" PROVE FALSE
      BY <1>0, <2>2 DEF CreateInv, NoCall
    <2> QED
      BY <2>1, <2>2
  <1>3. group(Owner) \notin rows /\ Children \cap rows = {}
    BY <1>0, TheGroup DEF CreateInv
  <1>4. CASE SaveGroup(c)
    <2>1. /\ call[c].step = "saveGroup" /\ Insert(c, group(Owner)) /\ Goto(c, "saveOwner")
          /\ ins[c] = {} /\ del[c] = {}
      BY <1>0, <1>4 DEF SaveGroup, CreateInv
    <2>2. ~Exists(c, group(Owner).key)
      <3> SUFFICES ASSUME NEW r \in rows, r.key = group(Owner).key PROVE FALSE
        BY <2>1 DEF Exists, Visible
      <3> QED
        BY <1>0, <1>3, Keys, TableOf DEF DbType, Tables
    <2>3. /\ DbType(Tables)' /\ DbInv'
          /\ ins'[c] = ins[c] \cup {group(Owner)} /\ del'[c] = del[c]
          /\ \A d \in Calls : d # c => ins'[d] = ins[d] /\ del'[d] = del[d]
          /\ UNCHANGED rows
      BY <1>0, <2>1, <2>2, RowsIn, InsertStep
    <2>4. "saveOwner" \in Steps
      BY DEF Steps
    <2>5. /\ call' \in [Calls -> {NoCall} \cup Requests]
          /\ call'[c].step = "saveOwner" /\ call'[c].op = call[c].op /\ call'[c].me = call[c].me
          /\ call'[c].n = call[c].n /\ call'[c] # NoCall
          /\ \A d \in Calls : d # c => call'[d] = call[d]
          /\ UNCHANGED <<sent, now, log, gone>>
      BY <1>1, <2>1, <2>4, GotoStep
    <2>6. CreateInv(c)'
      BY <1>0, <2>1, <2>3, <2>5 DEF CreateInv
    <2>7. CallInv(c)'
      BY <1>0, <2>5, <2>6 DEF CallInv
    <2> QED
      BY <1>2, <2>3, <2>5, <2>7, LocalStep
  <1>5. CASE SaveOwner(c)
    <2>1. /\ call[c].step = "saveOwner" /\ SaveChild(c, member(Owner))
          /\ ins[c] = {group(Owner)} /\ del[c] = {}
      BY <1>0, <1>5 DEF SaveOwner, CreateInv
    <2>2. Groups \cap Visible(c) # {}
      BY <2>1, TheGroup DEF Visible
    <2>3. Insert(c, member(Owner)) /\ Goto(c, "commit")
      BY <2>1, <2>2 DEF SaveChild
    <2>4. ~Exists(c, member(Owner).key)
      <3> SUFFICES ASSUME NEW r \in rows \cup {group(Owner)}, r.key = member(Owner).key PROVE FALSE
        BY <2>1 DEF Exists, Visible
      <3>1. r.key[1] = "group_members"
        BY Keys
      <3> QED
        BY <1>0, <1>3, <3>1, TableOf, RowsIn DEF DbType, Tables, Children
    <2>5. /\ DbType(Tables)' /\ DbInv'
          /\ ins'[c] = ins[c] \cup {member(Owner)} /\ del'[c] = del[c]
          /\ \A d \in Calls : d # c => ins'[d] = ins[d] /\ del'[d] = del[d]
          /\ UNCHANGED rows
      BY <1>0, <2>3, <2>4, RowsIn, PlayersAssumption, InsertStep
    <2>6. "commit" \in Steps
      BY DEF Steps
    <2>7. /\ call' \in [Calls -> {NoCall} \cup Requests]
          /\ call'[c].step = "commit" /\ call'[c].op = call[c].op /\ call'[c].me = call[c].me
          /\ call'[c].n = call[c].n /\ call'[c] # NoCall
          /\ \A d \in Calls : d # c => call'[d] = call[d]
          /\ UNCHANGED <<sent, now, log, gone>>
      BY <1>1, <2>3, <2>6, GotoStep
    <2>8. CreateInv(c)'
      BY <1>0, <2>1, <2>5, <2>7 DEF CreateInv
    <2>9. CallInv(c)'
      BY <1>0, <2>7, <2>8 DEF CallInv
    <2> QED
      BY <1>2, <2>5, <2>7, <2>9, LocalStep
  <1> QED
    BY <1>4, <1>5 DEF CreateTx

\* Find, and what the callers check of the group.
LEMMA FindStep ==
    ASSUME ChannelInv, NEW c \in Calls, call[c].op \in {"delete", "join", "leave"}, Find(c)
    PROVE  ChannelInv'
  <1>0. CallInv(c) /\ DbType(Tables) /\ DbInv /\ call[c].step = "find"
    BY DEF ChannelInv, Find
  <1>1. call[c] \in Requests
    BY <1>0, Called DEF Steps
  <1>2. Idle(c)
    BY <1>0 DEF CallInv, DeleteInv, JoinInv, LeaveInv
  <1>3. CASE ReturnErr(c)
    BY <1>3, ErrStep
  <1>4. CASE ~ReturnErr(c)
    <2> DEFINE l == [delete |-> "deleteGroup", join |-> "saveMember", leave |-> "deleteMember"][call[c].op]
    <2>1. /\ Groups \cap Visible(c) # {}
          /\ call[c].op = "leave" => Group(c).owner # call[c].me
          /\ Goto(c, l) /\ UNCHANGED dbVars
      BY <1>4 DEF Find
    <2>2. l \in Steps /\ l \in {"deleteGroup", "saveMember", "deleteMember"}
          /\ (call[c].op = "delete" => l = "deleteGroup") /\ (call[c].op = "join" => l = "saveMember")
          /\ (call[c].op = "leave" => l = "deleteMember")
      BY DEF Steps
    <2> HIDE DEF l
    <2>3. Visible(c) = rows /\ Alive
      BY <1>2, <2>1, TheGroup DEF Visible, Idle, Alive
    <2>4. call[c].op = "leave" => call[c].me # Owner
      <3>1. Group(c) = group(Owner)
        BY <2>1, TableOf DEF Group
      <3> QED
        BY <2>1, <3>1, Keys
    <2>5. /\ call' \in [Calls -> {NoCall} \cup Requests]
          /\ call'[c].step = l /\ call'[c].op = call[c].op /\ call'[c].me = call[c].me
          /\ call'[c].n = call[c].n /\ call'[c] # NoCall
          /\ \A d \in Calls : d # c => call'[d] = call[d]
          /\ UNCHANGED <<sent, now, log, gone>>
      BY <1>1, <2>1, <2>2, GotoStep
    <2>6. DbType(Tables)' /\ DbInv' /\ UNCHANGED <<rows, ins, del>>
      BY <1>0, <2>1, IdleStep DEF dbVars
    <2>7. Idle(c)' /\ ins'[c] = {}
      BY <1>2, <2>6 DEF Idle
    <2>8. CallInv(c)'
      BY <2>2, <2>4, <2>5, <2>7 DEF CallInv, DeleteInv, JoinInv, LeaveInv
    <2>9. \A d \in Calls : d # c => call[d].op # "create"
      BY <2>3, CreateAlone
    <2> QED
      BY <2>5, <2>6, <2>7, <2>8, <2>9, LocalStep
  <1> QED
    BY <1>3, <1>4

\* The deletion locks all there is.
LEMMA DeleteTxStep ==
    ASSUME ChannelInv, NEW c \in Calls, DeleteTx(c)
    PROVE  ChannelInv'
  <1>1. CASE Find(c)
    BY <1>1, FindStep DEF DeleteTx
  <1>2. CASE DeleteGroup(c)
    <2>0. CallInv(c) /\ DbType(Tables) /\ DbInv /\ call[c].op = "delete" /\ call[c].step = "deleteGroup"
      BY <1>2 DEF ChannelInv, DeleteGroup, DeleteTx
    <2>1. call[c] \in Requests /\ call[c] # NoCall
      BY <2>0, Called DEF Steps
    <2>2. Idle(c)
      BY <2>0 DEF CallInv, DeleteInv
    <2>3. Visible(c) = rows
      BY <2>2 DEF Visible, Idle
    <2> DEFINE old == Whole \cap rows
    <2>4. Write(c, old, {}) /\ Goto(c, "commit") /\ \A d \in Calls \ {c} : Children \cap ins[d] = {}
      BY <1>2, <2>3 DEF DeleteGroup, Whole
    <2>5. old \cap rows = Whole \cap rows
      OBVIOUS
    <2> HIDE DEF old
    <2>6. {} \in SUBSET Tables /\ Unique({}) /\ \A r \in {}, s \in Visible(c) : r.key = s.key => s \in old
      BY DEF Unique
    <2>7. /\ DbType(Tables)' /\ DbInv'
          /\ ins'[c] = (ins[c] \ old) \cup {}
          /\ del'[c] = del[c] \cup (old \cap rows)
          /\ \A d \in Calls : d # c => ins'[d] = ins[d] /\ del'[d] = del[d]
          /\ UNCHANGED rows
      BY <2>0, <2>4, <2>6, WriteStep
    <2>8. ins'[c] = {} /\ del'[c] = Whole \cap rows
      BY <2>2, <2>5, <2>7 DEF Idle
    <2>9. "commit" \in Steps
      BY DEF Steps
    <2>10. /\ call' \in [Calls -> {NoCall} \cup Requests]
           /\ call'[c].step = "commit" /\ call'[c].op = call[c].op /\ call'[c].n = call[c].n
           /\ call'[c] # NoCall
           /\ \A d \in Calls : d # c => call'[d] = call[d]
           /\ UNCHANGED <<sent, now, log, gone>>
      BY <2>1, <2>4, <2>9, GotoStep
    <2>11. DeleteInv(c)'
      BY <2>4, <2>7, <2>8, <2>10 DEF DeleteInv
    <2>12. CallInv(c)'
      BY <2>0, <2>8, <2>10, <2>11 DEF CallInv
    <2>13. \A d \in Calls : d # c => call[d].op # "create"
      BY <2>0, <2>1, CreateAlone
    <2> QED
      BY <2>7, <2>8, <2>10, <2>12, <2>13, LocalStep
  <1> QED
    BY <1>1, <1>2 DEF DeleteTx

\* A row that names the group is inserted, or the group is gone.
LEMMA ChildStep ==
    ASSUME ChannelInv, NEW c \in Calls, call[c] \in Requests, Idle(c), NEW r \in Children \cap Tables,
           \A s \in rows : s.key # r.key, SaveChild(c, r), ~ReturnErr(c)
    PROVE  /\ Alive /\ DbType(Tables)' /\ DbInv' /\ UNCHANGED rows /\ ins'[c] = {r} /\ del'[c] = {}
           /\ \A d \in Calls : d # c => ins'[d] = ins[d] /\ del'[d] = del[d]
           /\ call' \in [Calls -> {NoCall} \cup Requests]
           /\ call'[c].step = "commit" /\ call'[c].op = call[c].op /\ call'[c].me = call[c].me
           /\ call'[c].n = call[c].n /\ call'[c].at = call[c].at /\ call'[c] # NoCall
           /\ \A d \in Calls : d # c => call'[d] = call[d]
           /\ UNCHANGED <<sent, now, log, gone>>
           /\ \A d \in Calls : d # c => call[d].op # "create"
           /\ \A d \in Calls : d # c /\ call[d].op = "delete" => call[d].step # "commit"
  <1>0. DbType(Tables) /\ DbInv /\ Visible(c) = rows
    BY DEF ChannelInv, Visible, Idle
  <1>1. Groups \cap rows # {} /\ Unlocked(c, group(Owner)) /\ Insert(c, r) /\ Goto(c, "commit")
    BY <1>0 DEF SaveChild
  <1>2. Alive
    BY <1>1, TheGroup DEF Alive
  <1>3. ~Exists(c, r.key)
    BY <1>0 DEF Exists
  <1>4. /\ DbType(Tables)' /\ DbInv'
        /\ ins'[c] = ins[c] \cup {r} /\ del'[c] = del[c]
        /\ \A d \in Calls : d # c => ins'[d] = ins[d] /\ del'[d] = del[d]
        /\ UNCHANGED rows
    BY <1>0, <1>1, <1>3, InsertStep
  <1>5. ins'[c] = {r} /\ del'[c] = {}
    BY <1>4 DEF Idle
  <1>6. "commit" \in Steps
    BY DEF Steps
  <1>7. /\ call' \in [Calls -> {NoCall} \cup Requests]
        /\ call'[c].step = "commit" /\ call'[c].op = call[c].op /\ call'[c].me = call[c].me
        /\ call'[c].n = call[c].n /\ call'[c].at = call[c].at /\ call'[c] # NoCall
        /\ \A d \in Calls : d # c => call'[d] = call[d]
        /\ UNCHANGED <<sent, now, log, gone>>
    BY <1>1, <1>6, GotoStep
  <1>8. \A d \in Calls : d # c => call[d].op # "create"
    BY <1>2, CreateAlone
  <1>9. \A d \in Calls : d # c /\ call[d].op = "delete" => call[d].step # "commit"
    BY <1>1, <1>2, ShareLock
  <1> QED
    BY <1>2, <1>4, <1>5, <1>7, <1>8, <1>9

\* Find and SaveMember of JoinGroup.
LEMMA JoinTxStep ==
    ASSUME ChannelInv, NEW c \in Calls, JoinTx(c)
    PROVE  ChannelInv'
  <1>1. CASE Find(c)
    BY <1>1, FindStep DEF JoinTx
  <1>2. CASE SaveMember(c)
    <2>0. CallInv(c) /\ DbType(Tables) /\ DbInv /\ call[c].op = "join" /\ call[c].step = "saveMember"
      BY <1>2 DEF ChannelInv, SaveMember, JoinTx
    <2>1. call[c] \in Requests /\ call[c] # NoCall /\ call[c].me \in Players
      <3>1. call[c] \in Requests /\ call[c] # NoCall
        BY <2>0, Called DEF Steps
      <3> QED
        BY <3>1 DEF Requests
    <2>2. Idle(c) /\ Visible(c) = rows
      BY <2>0 DEF CallInv, JoinInv, Visible, Idle
    <2> DEFINE m == member(call[c].me)
    <2>3. m \in Members /\ m \in Children \cap Tables
      BY <2>1, RowsIn DEF Children
    <2>4. CASE m \in rows
      <3>1. Goto(c, "commit") /\ UNCHANGED dbVars
        BY <1>2, <2>2, <2>4 DEF SaveMember
      <3>2. "commit" \in Steps
        BY DEF Steps
      <3>3. /\ call' \in [Calls -> {NoCall} \cup Requests]
            /\ call'[c].step = "commit" /\ call'[c].op = call[c].op /\ call'[c].n = call[c].n
            /\ call'[c] # NoCall
            /\ \A d \in Calls : d # c => call'[d] = call[d]
            /\ UNCHANGED <<sent, now, log, gone>>
        BY <2>1, <3>1, <3>2, GotoStep
      <3>4. DbType(Tables)' /\ DbInv' /\ UNCHANGED <<rows, ins, del>>
        BY <2>0, <3>1, IdleStep DEF dbVars
      <3>5. ins'[c] = {} /\ del'[c] = {}
        BY <2>2, <3>4 DEF Idle
      <3>6. CallInv(c)'
        BY <2>0, <3>3, <3>5 DEF CallInv, JoinInv
      <3>7. \A d \in Calls : d # c => call[d].op # "create"
        BY <2>0, <2>1, CreateAlone
      <3> QED
        BY <3>3, <3>4, <3>5, <3>6, <3>7, LocalStep
    <2>5. CASE m \notin rows
      <3>1. SaveChild(c, m)
        BY <1>2, <2>2, <2>5 DEF SaveMember
      <3>2. \A s \in rows : s.key # m.key
        <4> SUFFICES ASSUME NEW s \in rows, s.key = m.key PROVE FALSE
          OBVIOUS
        <4>1. s.key = <<"group_members", call[c].me>>
          BY Keys
        <4>2. s \in Members
          BY <2>0, <4>1, TableOf DEF DbType, Tables
        <4>3. PICK p \in Players : s = member(p)
          BY <4>2 DEF Members
        <4>4. s.key = <<"group_members", p>>
          BY <4>3, Keys
        <4>5. p = call[c].me
          BY <4>1, <4>4
        <4> QED
          BY <2>5, <4>3, <4>5
      <3>3. CASE ReturnErr(c)
        BY <3>3, ErrStep
      <3>4. CASE ~ReturnErr(c)
        <4> HIDE DEF m
        <4>1. /\ Alive /\ DbType(Tables)' /\ DbInv' /\ UNCHANGED rows /\ ins'[c] = {m} /\ del'[c] = {}
              /\ \A d \in Calls : d # c => ins'[d] = ins[d] /\ del'[d] = del[d]
              /\ call' \in [Calls -> {NoCall} \cup Requests]
              /\ call'[c].step = "commit" /\ call'[c].op = call[c].op /\ call'[c].me = call[c].me
              /\ call'[c].n = call[c].n /\ call'[c].at = call[c].at /\ call'[c] # NoCall
              /\ \A d \in Calls : d # c => call'[d] = call[d]
              /\ UNCHANGED <<sent, now, log, gone>>
              /\ \A d \in Calls : d # c => call[d].op # "create"
              /\ \A d \in Calls : d # c /\ call[d].op = "delete" => call[d].step # "commit"
          BY <2>1, <2>2, <2>3, <3>1, <3>2, <3>4, ChildStep
        <4>2. CallInv(c)'
          BY <2>0, <4>1 DEF CallInv, JoinInv, Alive, m
        <4> QED
          BY <4>1, <4>2, LocalStep
      <3> QED
        BY <3>3, <3>4
    <2> QED
      BY <2>4, <2>5
  <1> QED
    BY <1>1, <1>2 DEF JoinTx

\* Find and DeleteMember of LeaveGroup.
LEMMA LeaveTxStep ==
    ASSUME ChannelInv, NEW c \in Calls, LeaveTx(c)
    PROVE  ChannelInv'
  <1>1. CASE Find(c)
    BY <1>1, FindStep DEF LeaveTx
  <1>2. CASE DeleteMember(c)
    <2>0. CallInv(c) /\ DbType(Tables) /\ DbInv /\ call[c].op = "leave" /\ call[c].step = "deleteMember"
      BY <1>2 DEF ChannelInv, DeleteMember, LeaveTx
    <2>1. call[c] \in Requests /\ call[c] # NoCall
      BY <2>0, Called DEF Steps
    <2>2. Idle(c) /\ Visible(c) = rows /\ call[c].me # Owner
      BY <2>0 DEF CallInv, LeaveInv, Visible, Idle
    <2>3. CASE ReturnErr(c)
      BY <2>3, ErrStep
    <2>4. CASE ~ReturnErr(c)
      <3> DEFINE k == member(call[c].me).key
      <3>1. member(call[c].me) \in rows /\ Delete(c, k) /\ Goto(c, "commit")
        BY <1>2, <2>2, <2>4 DEF DeleteMember
      <3>2. \A s \in rows : s.key = k => s = member(call[c].me)
        BY <2>0, <3>1 DEF DbInv, Unique
      <3> HIDE DEF k
      <3>3. /\ DbType(Tables)' /\ DbInv'
            /\ ins'[c] = {s \in ins[c] : s.key # k}
            /\ del'[c] = del[c] \cup {s \in rows : s.key = k /\ s \in Visible(c)}
            /\ \A d \in Calls : d # c => ins'[d] = ins[d] /\ del'[d] = del[d]
            /\ UNCHANGED rows
        BY <2>0, <3>1, DeleteStep
      <3>4. ins'[c] = {} /\ del'[c] \subseteq {member(call[c].me)}
        BY <2>2, <3>2, <3>3 DEF Idle
      <3>5. "commit" \in Steps
        BY DEF Steps
      <3>6. /\ call' \in [Calls -> {NoCall} \cup Requests]
            /\ call'[c].step = "commit" /\ call'[c].op = call[c].op /\ call'[c].me = call[c].me
            /\ call'[c].n = call[c].n /\ call'[c] # NoCall
            /\ \A d \in Calls : d # c => call'[d] = call[d]
            /\ UNCHANGED <<sent, now, log, gone>>
        BY <2>1, <3>1, <3>5, GotoStep
      <3>7. CallInv(c)'
        BY <2>0, <2>2, <3>4, <3>6 DEF CallInv, LeaveInv
      <3>8. \A d \in Calls : d # c => call[d].op # "create"
        BY <2>0, <2>1, CreateAlone
      <3> QED
        BY <3>3, <3>4, <3>6, <3>7, <3>8, LocalStep
    <2> QED
      BY <2>3, <2>4
  <1> QED
    BY <1>1, <1>2 DEF LeaveTx

\* IsMember and SaveChannelMessage of a post.
LEMMA PostStep ==
    ASSUME ChannelInv, NEW c \in Calls, call[c].op = "post", IsMember(c) \/ SaveChannelMessage(c)
    PROVE  ChannelInv'
  <1>0. PostInv(c) /\ DbType(Tables) /\ DbInv /\ call[c].step \in {"isMember", "saveMessage"}
    BY DEF ChannelInv, CallInv, IsMember, SaveChannelMessage
  <1>1. call[c] \in Requests /\ call[c] # NoCall
    BY <1>0, Called DEF Steps
  <1>2. Idle(c) /\ Visible(c) = rows
    BY <1>0 DEF PostInv, Visible, Idle
  <1>3. CASE ReturnErr(c)
    BY <1>3, ErrStep
  <1>4. CASE IsMember(c) /\ ~ReturnErr(c)
    <2>1. member(call[c].me) \in rows /\ Goto(c, "saveMessage") /\ UNCHANGED dbVars
          /\ call[c].step = "isMember"
      BY <1>2, <1>4 DEF IsMember
    <2>2. "saveMessage" \in Steps
      BY DEF Steps
    <2>3. /\ call' \in [Calls -> {NoCall} \cup Requests]
          /\ call'[c].step = "saveMessage" /\ call'[c].op = call[c].op /\ call'[c].me = call[c].me
          /\ call'[c].n = call[c].n /\ call'[c].at = call[c].at /\ call'[c] # NoCall
          /\ \A d \in Calls : d # c => call'[d] = call[d]
          /\ UNCHANGED <<sent, now, log, gone>>
      BY <1>1, <2>1, <2>2, GotoStep
    <2>4. DbType(Tables)' /\ DbInv' /\ UNCHANGED <<rows, ins, del>>
      BY <1>0, <2>1, IdleStep DEF dbVars
    <2>5. Idle(c)' /\ ins'[c] = {} /\ Posted(c)' = Posted(c)
      BY <1>2, <2>3, <2>4 DEF Idle, Posted
    <2>6. PostInv(c)'
      BY <1>0, <2>1, <2>3, <2>4, <2>5 DEF PostInv
    <2>7. CallInv(c)'
      BY <2>3, <2>5, <2>6 DEF CallInv
    <2>8. \A d \in Calls : d # c => call[d].op # "create"
      <3> SUFFICES ASSUME NEW d \in Calls, d # c, call[d].op = "create" PROVE FALSE
        OBVIOUS
      <3>1. Children \cap rows = {}
        BY CreateAlone
      <3>2. call[c].me \in Players
        BY <1>1 DEF Requests
      <3> QED
        BY <2>1, <3>1, <3>2, RowsIn DEF Children
    <2> QED
      BY <2>3, <2>4, <2>5, <2>7, <2>8, LocalStep
  <1>5. CASE SaveChannelMessage(c) /\ ~ReturnErr(c)
    <2>1. call[c].step = "saveMessage" /\ SaveChild(c, Posted(c)) /\ \A s \in rows : s.key # Posted(c).key
      BY <1>0, <1>5 DEF SaveChannelMessage, PostInv, Posted
    <2>2. Posted(c) \in Children \cap Tables
      <3>1. call[c].n \in Numbers
        BY <1>0, BoundsAssumption DEF PostInv, ChannelInv, NumbersInv, Numbers
      <3> QED
        BY <1>0, <3>1, RowsIn DEF PostInv, Posted, Children
    <2> DEFINE m == Posted(c)
    <2>3. m \in Children \cap Tables /\ SaveChild(c, m) /\ \A s \in rows : s.key # m.key
      BY <2>1, <2>2
    <2> HIDE DEF m
    <2>4. /\ Alive /\ DbType(Tables)' /\ DbInv' /\ UNCHANGED rows /\ ins'[c] = {m} /\ del'[c] = {}
          /\ \A d \in Calls : d # c => ins'[d] = ins[d] /\ del'[d] = del[d]
          /\ call' \in [Calls -> {NoCall} \cup Requests]
          /\ call'[c].step = "commit" /\ call'[c].op = call[c].op /\ call'[c].me = call[c].me
          /\ call'[c].n = call[c].n /\ call'[c].at = call[c].at /\ call'[c] # NoCall
          /\ \A d \in Calls : d # c => call'[d] = call[d]
          /\ UNCHANGED <<sent, now, log, gone>>
          /\ \A d \in Calls : d # c => call[d].op # "create"
          /\ \A d \in Calls : d # c /\ call[d].op = "delete" => call[d].step # "commit"
      BY <1>1, <1>2, <1>5, <2>3, ChildStep
    <2>5. Posted(c)' = m
      BY <2>4 DEF Posted, m
    <2>6. PostInv(c)'
      BY <1>0, <2>4, <2>5 DEF PostInv
    <2>7. CallInv(c)'
      BY <2>4, <2>6 DEF CallInv, Alive
    <2> QED
      BY <2>4, <2>7, LocalStep
  <1> QED
    BY <1>3, <1>4, <1>5

----------------------------------------------------------------------------
(* The commits.                                                            *)

\* What a commit does to the database and to the calls.
LEMMA CommitChanges ==
    ASSUME ChannelInv, NEW c \in Calls, CommitCall(c)
    PROVE  /\ call[c] \in Requests /\ call[c] # NoCall /\ call[c].step = "commit"
           /\ DbType(Tables)' /\ DbInv'
           /\ rows' = (rows \ del[c]) \cup ins[c] /\ ins'[c] = {} /\ del'[c] = {}
           /\ \A d \in Calls : d # c => ins'[d] = ins[d] /\ del'[d] = del[d] /\ call'[d] = call[d]
           /\ call' \in [Calls -> {NoCall} \cup Requests]
           /\ call[c].op # "post" => call'[c] = NoCall
           /\ call[c].op = "post" =>
                 /\ call'[c].step = "publish" /\ call'[c].op = call[c].op /\ call'[c].me = call[c].me
                 /\ call'[c].n = call[c].n /\ call'[c].at = call[c].at /\ call'[c] # NoCall
           /\ UNCHANGED <<sent, now, log, gone>>
  <1>1. call[c].step = "commit" /\ Commit(c) /\ DbType(Tables) /\ DbInv
    BY DEF CommitCall, ChannelInv
  <1>2. call[c] \in Requests /\ call[c] # NoCall
    BY <1>1, Called DEF Steps
  <1>3. /\ DbType(Tables)' /\ DbInv'
        /\ rows' = (rows \ del[c]) \cup ins[c] /\ ins'[c] = {} /\ del'[c] = {}
        /\ \A d \in Calls : d # c => ins'[d] = ins[d] /\ del'[d] = del[d]
    BY <1>1, CommitStep
  <1>4. CASE call[c].op = "post"
    <2>1. Goto(c, "publish")
      BY <1>4 DEF CommitCall
    <2>2. "publish" \in Steps
      BY DEF Steps
    <2>3. /\ call' \in [Calls -> {NoCall} \cup Requests]
          /\ call'[c].step = "publish" /\ call'[c].op = call[c].op /\ call'[c].me = call[c].me
          /\ call'[c].n = call[c].n /\ call'[c].at = call[c].at /\ call'[c] # NoCall
          /\ \A d \in Calls : d # c => call'[d] = call[d]
          /\ UNCHANGED <<sent, now, log, gone>>
      BY <1>2, <2>1, <2>2, GotoStep
    <2> QED
      BY <1>1, <1>2, <1>3, <1>4, <2>3
  <1>5. CASE call[c].op # "post"
    <2>1. /\ call' \in [Calls -> {NoCall} \cup Requests] /\ call'[c] = NoCall
          /\ \A d \in Calls : d # c => call'[d] = call[d]
          /\ UNCHANGED <<sent, now, log, gone>>
      BY <1>5 DEF CommitCall, Return, ChannelInv, streamVars
    <2> QED
      BY <1>1, <1>2, <1>3, <1>5, <2>1
  <1> QED
    BY <1>4, <1>5

\* CreateGroup commits the group and its owner's membership.
LEMMA CommitCreate ==
    ASSUME ChannelInv, NEW c \in Calls, CommitCall(c), call[c].op = "create"
    PROVE  ChannelInv'
  <1>1. /\ call[c].step = "commit" /\ DbType(Tables)' /\ DbInv'
        /\ rows' = (rows \ del[c]) \cup ins[c] /\ ins'[c] = {} /\ del'[c] = {}
        /\ \A d \in Calls : d # c => ins'[d] = ins[d] /\ del'[d] = del[d] /\ call'[d] = call[d]
        /\ call' \in [Calls -> {NoCall} \cup Requests] /\ call'[c] = NoCall
        /\ UNCHANGED <<sent, now, log, gone>>
    BY CommitChanges
  <1>2. CreateInv(c) /\ DbType(Tables)
    BY DEF ChannelInv, CallInv
  <1>3. rows' = rows \cup {group(Owner), member(Owner)} /\ log = <<>> /\ Children \cap rows = {}
    BY <1>1, <1>2, TheGroup DEF CreateInv
  <1>4. GroupWhole'
    BY <1>3, RowsIn DEF GroupWhole
  <1>5. OnlyCommittedPushed'
    <2>1. Len(log') = 0
      BY <1>1, <1>3
    <2> QED
      BY <2>1 DEF OnlyCommittedPushed
  <1>6. NumbersInv'
    <2>1. NumbersInv
      BY DEF ChannelInv
    <2>2. group(Owner).key[1] = "groups" /\ member(Owner).key[1] = "group_members"
      BY Keys
    <2>3. \A r \in rows' : r.key[1] \in {"channel_messages", "direct_messages"} => r.key[2] <= sent
      BY <1>3, <2>1, <2>2 DEF NumbersInv
    <2> QED
      BY <1>1, <2>1, <2>3 DEF NumbersInv
  <1>7. ASSUME NEW d \in Calls PROVE CallInv(d)'
    <2>1. CASE d = c
      BY <1>1, <2>1 DEF CallInv, NoCall, Idle
    <2>2. CASE d # c
      <3>1. CallInv(d) /\ ins'[d] = ins[d] /\ del'[d] = del[d] /\ call'[d] = call[d]
            /\ (call[d] = NoCall \/ call[d].step \in {"find", "isMember"}) /\ call[d].op # "create"
        <4>1. call[d].op # "create"
          BY <2>2, CreateAlone
        <4> QED
          BY <1>1, <1>2, <2>2, <4>1 DEF ChannelInv, CreateInv
      <3>2. Idle(d) /\ Idle(d)'
        <4>1. call[d] \in {NoCall} \cup Requests
          BY DEF ChannelInv
        <4>2. call[d] # NoCall => call[d].op \in Ops
          BY <4>1 DEF Requests
        <4> QED
          BY <3>1, <4>2 DEF CallInv, DeleteInv, JoinInv, LeaveInv, PostInv, Idle, Ops
      <3>3. call'[d].op = "post" => PostInv(d)'
        <4> SUFFICES ASSUME call[d].op = "post" PROVE PostInv(d)'
          BY <3>1
        <4>1. PostInv(d) /\ call[d].step = "isMember" /\ Posted(d)' = Posted(d)
          BY <3>1 DEF CallInv, PostInv, Posted, NoCall
        <4>2. \A r \in rows' : r.key # Posted(d).key
          <5>1. Posted(d).key = <<"channel_messages", call[d].n>>
            BY Keys DEF Posted
          <5>2. group(Owner).key # Posted(d).key /\ member(Owner).key # Posted(d).key
            BY <5>1, Keys
          <5> QED
            BY <1>3, <4>1, <5>2 DEF PostInv
        <4>3. \A e \in Calls : e # d /\ call'[e].op = "post" => call'[e].n # call[d].n
          BY <1>1, <4>1 DEF PostInv, NoCall
        <4> QED
          BY <1>1, <3>1, <3>2, <4>1, <4>2, <4>3 DEF PostInv
      <3>4. /\ call'[d].op = "delete" => DeleteInv(d)'
            /\ call'[d].op = "join" => JoinInv(d)'
            /\ call'[d].op = "leave" => LeaveInv(d)'
        BY <3>1, <3>2 DEF CallInv, DeleteInv, JoinInv, LeaveInv, NoCall
      <3> QED
        BY <3>1, <3>2, <3>3, <3>4 DEF CallInv, Idle
    <2> QED
      BY <2>1, <2>2
  <1> QED
    BY <1>1, <1>4, <1>5, <1>6, <1>7 DEF ChannelInv

\* A commit of another call than CreateGroup, for the other calls: the group does
\* not appear, what is deleted is the whole group or a membership, and what is
\* added is no row of the group while that is being deleted.
LEMMA CommitOthers ==
    ASSUME ChannelInv, NEW c \in Calls, call[c].step = "commit", call[c].op # "create",
           rows' = (rows \ del[c]) \cup ins[c],
           group(Owner) \notin ins[c],
           Alive' => \A r \in Messages : r \in rows => r \in rows',
           Alive /\ ~Alive' => call[c].op = "delete",
           \A d \in Calls : d # c => ins'[d] = ins[d] /\ del'[d] = del[d] /\ call'[d] = call[d],
           call'[c] = NoCall \/ (call'[c].op = call[c].op /\ call'[c].n = call[c].n),
           ins'[c] = {},
           \A n : (\E r \in ins[c] : r.key = <<"channel_messages", n>>) => call[c].op = "post" /\ call[c].n = n,
           UNCHANGED <<sent, log>>
    PROVE  \A d \in Calls : d # c => CallInv(d)'
  <1> SUFFICES ASSUME NEW d \in Calls, d # c PROVE CallInv(d)'
    OBVIOUS
  <1>0. /\ CallInv(d) /\ CallInv(c) /\ DbInv
        /\ call'[d] = call[d] /\ ins'[d] = ins[d] /\ del'[d] = del[d] /\ (Idle(d)' <=> Idle(d))
    BY DEF ChannelInv, Idle
  <1>1. call[d].op # "create"
    BY CreateAlone DEF NoCall
  <1>2. call'[d] = NoCall => Idle(d)'
    BY <1>0 DEF CallInv
  <1>3. call'[d].op = "delete" => DeleteInv(d)'
    <2> SUFFICES ASSUME call[d].op = "delete" PROVE DeleteInv(d)'
      BY <1>0
    <2>1. DeleteInv(d)
      BY <1>0 DEF CallInv
    <2>2. ASSUME call[d].step = "commit" PROVE del[d] = Whole \cap rows'
      <3>1. del[d] = Whole \cap rows /\ Children \cap ins[c] = {} /\ del[c] \cap del[d] = {}
        BY <1>0, <2>1, <2>2 DEF DeleteInv, DbInv
      <3>2. Whole \cap ins[c] = {}
        BY <3>1, TheGroup
      <3> QED
        BY <3>1, <3>2
    <2>3. ASSUME NEW e \in Calls, e # d, call[d].step = "commit" PROVE Children \cap ins'[e] = {}
      BY <2>1, <2>3 DEF DeleteInv
    <2> QED
      BY <1>0, <2>1, <2>2, <2>3 DEF DeleteInv, Whole, Groups, Children, Members, Messages
  <1>4. call'[d].op = "join" => JoinInv(d)'
    BY <1>0 DEF CallInv, JoinInv
  <1>5. call'[d].op = "leave" => LeaveInv(d)'
    BY <1>0 DEF CallInv, LeaveInv
  <1>6. call'[d].op = "post" => PostInv(d)'
    <2> SUFFICES ASSUME call[d].op = "post" PROVE PostInv(d)'
      BY <1>0
    <2>1. PostInv(d) /\ Posted(d)' = Posted(d)
      BY <1>0 DEF CallInv, Posted
    <2>2. \A e \in Calls : e # d /\ call'[e].op = "post" => call'[e].n # call[d].n
      BY <2>1 DEF PostInv, NoCall
    <2>3. ASSUME call[d].step \in {"isMember", "saveMessage"}, NEW r \in rows', r.key = Posted(d).key
          PROVE  FALSE
      <3>1. r \in ins[c]
        BY <2>1, <2>3 DEF PostInv
      <3>2. Posted(d).key = <<"channel_messages", call[d].n>>
        BY Keys DEF Posted
      <3>3. call[c].op = "post" /\ call[c].n = call[d].n
        BY <2>3, <3>1, <3>2
      <3> QED
        BY <2>1, <3>3 DEF PostInv
    <2>4. ASSUME call[d].step = "publish", Alive' PROVE Posted(d) \in rows'
      <3>1. Alive
        BY <2>4 DEF Alive
      <3>2. Posted(d) \in rows
        BY <2>1, <2>4, <3>1 DEF PostInv
      <3>3. Posted(d) \in Messages
        <4>1. call[d].n \in Numbers
          BY <2>1, BoundsAssumption DEF PostInv, ChannelInv, NumbersInv, Numbers
        <4> QED
          BY <2>1, <4>1, RowsIn DEF PostInv, Posted
      <3> QED
        BY <2>4, <3>2, <3>3
    <2> QED
      BY <1>0, <2>1, <2>2, <2>3, <2>4 DEF PostInv
  <1>7. ASSUME Children \cap ins'[d] # {} PROVE Alive'
    <2>1. Alive
      BY <1>0, <1>1, <1>7 DEF CallInv
    <2>2. call[c].op # "delete"
      BY <1>0, <1>7 DEF CallInv, DeleteInv
    <2> QED
      BY <2>1, <2>2
  <1> QED
    BY <1>0, <1>1, <1>2, <1>3, <1>4, <1>5, <1>6, <1>7 DEF CallInv

\* DeleteGroup commits: nothing of the group is left.
LEMMA CommitDelete ==
    ASSUME ChannelInv, NEW c \in Calls, CommitCall(c), call[c].op = "delete"
    PROVE  ChannelInv'
  <1>1. /\ call[c].step = "commit" /\ DbType(Tables)' /\ DbInv'
        /\ rows' = (rows \ del[c]) \cup ins[c] /\ ins'[c] = {} /\ del'[c] = {}
        /\ \A d \in Calls : d # c => ins'[d] = ins[d] /\ del'[d] = del[d] /\ call'[d] = call[d]
        /\ call' \in [Calls -> {NoCall} \cup Requests] /\ call'[c] = NoCall
        /\ UNCHANGED <<sent, now, log, gone>>
    BY CommitChanges
  <1>2. ins[c] = {} /\ del[c] = Whole \cap rows
    BY <1>1 DEF ChannelInv, CallInv, DeleteInv
  <1>3. rows' = rows \ Whole
    BY <1>1, <1>2
  <1>4. Whole \cap rows' = {}
    BY <1>3
  <1>5. group(Owner) \notin rows' /\ Children \cap rows' = {}
    BY <1>4, TheGroup
  <1>6. GroupWhole' /\ OnlyCommittedPushed'
    BY <1>5, TheGroup DEF GroupWhole, OnlyCommittedPushed
  <1>7. NumbersInv'
    BY <1>1, <1>3 DEF ChannelInv, NumbersInv
  <1>8. \A d \in Calls : d # c => CallInv(d)'
    <2>1. group(Owner) \notin ins[c] /\ ~Alive'
      BY <1>2, <1>5 DEF Alive
    <2>2. \A n : (\E r \in ins[c] : r.key = <<"channel_messages", n>>) => call[c].op = "post" /\ call[c].n = n
      BY <1>2
    <2> QED
      BY <1>1, <2>1, <2>2, CommitOthers
  <1>9. CallInv(c)'
    BY <1>1 DEF CallInv, NoCall, Idle
  <1> QED
    BY <1>1, <1>6, <1>7, <1>8, <1>9 DEF ChannelInv

\* A member joins or leaves, or a message is added.
LEMMA CommitChild ==
    ASSUME ChannelInv, NEW c \in Calls, CommitCall(c), call[c].op \in {"join", "leave", "post"}
    PROVE  ChannelInv'
  <1>1. /\ call[c] \in Requests /\ call[c].step = "commit" /\ DbType(Tables)' /\ DbInv'
        /\ rows' = (rows \ del[c]) \cup ins[c] /\ ins'[c] = {} /\ del'[c] = {}
        /\ \A d \in Calls : d # c => ins'[d] = ins[d] /\ del'[d] = del[d] /\ call'[d] = call[d]
        /\ call' \in [Calls -> {NoCall} \cup Requests]
        /\ call[c].op # "post" => call'[c] = NoCall
        /\ call[c].op = "post" =>
              /\ call'[c].step = "publish" /\ call'[c].op = call[c].op /\ call'[c].me = call[c].me
              /\ call'[c].n = call[c].n /\ call'[c].at = call[c].at /\ call'[c] # NoCall
        /\ UNCHANGED <<sent, now, log, gone>>
    BY CommitChanges
  <1>2. CallInv(c) /\ NumbersInv /\ GroupWhole /\ OnlyCommittedPushed
    BY DEF ChannelInv
  <1>3. call[c].me \in Players
    BY <1>1 DEF Requests
  <1>4. call[c].op = "post" => PostInv(c) /\ ins[c] = {Posted(c)} /\ Posted(c) \in Messages
                              /\ Posted(c).key = <<"channel_messages", call[c].n>>
    <2> SUFFICES ASSUME call[c].op = "post"
                 PROVE  PostInv(c) /\ ins[c] = {Posted(c)} /\ Posted(c) \in Messages
                        /\ Posted(c).key = <<"channel_messages", call[c].n>>
      OBVIOUS
    <2>1. PostInv(c)
      BY <1>2 DEF CallInv
    <2>2. call[c].n \in Numbers
      BY <1>2, <2>1, BoundsAssumption DEF PostInv, NumbersInv, Numbers
    <2> QED
      BY <1>1, <2>1, <2>2, RowsIn, Keys DEF PostInv, Posted
  <1>5. /\ del[c] \subseteq Members \ {member(Owner)}
        /\ ins[c] \subseteq Children
        /\ call[c].op # "post" => ins[c] \subseteq Members
    <2>1. member(call[c].me) \in Members
      BY <1>3, RowsIn
    <2>2. call[c].op = "leave" => member(call[c].me) # member(Owner)
      BY <1>1, <1>2, RowsIn DEF CallInv, LeaveInv
    <2>3. CASE call[c].op = "join"
      BY <1>1, <1>2, <2>1, <2>3 DEF CallInv, JoinInv, Children
    <2>4. CASE call[c].op = "leave"
      BY <1>1, <1>2, <2>1, <2>2, <2>4 DEF CallInv, LeaveInv, Children
    <2>5. CASE call[c].op = "post"
      BY <1>1, <1>4, <2>5 DEF PostInv, Children
    <2> QED
      BY <2>3, <2>4, <2>5
  <1>6. Alive' <=> Alive
    <2>1. group(Owner) \notin Members /\ group(Owner) \notin Children
      BY RowsIn DEF Children
    <2> QED
      BY <1>1, <1>5, <2>1 DEF Alive
  <1>7. ins[c] # {} => Alive
    <2>1. ins[c] # {} => Children \cap ins[c] # {}
      BY <1>5
    <2> QED
      BY <1>2, <2>1 DEF CallInv
  <1>8. \A r \in Messages : r \in rows => r \in rows'
    BY <1>1, <1>5, TableOf
  <1>9. GroupWhole'
    <2>1. CASE Alive
      <3>1. member(Owner) \in rows
        BY <1>2, <2>1, TheGroup DEF GroupWhole, Alive
      <3>2. member(Owner) \in rows'
        BY <1>1, <1>5, <3>1
      <3> QED
        BY <1>6, <2>1, <3>2, TheGroup DEF GroupWhole, Alive
    <2>2. CASE ~Alive
      <3>1. Children \cap rows = {} /\ ins[c] = {}
        BY <1>2, <1>7, <2>2, TheGroup DEF GroupWhole, Alive
      <3>2. Children \cap rows' = {}
        BY <1>1, <3>1
      <3> QED
        BY <1>6, <2>2, <3>2, TheGroup DEF GroupWhole, Alive
    <2> QED
      BY <2>1, <2>2
  <1>10. OnlyCommittedPushed'
    <2> SUFFICES ASSUME Groups \cap rows' # {}, NEW i \in 1..Len(log)
                 PROVE  \E r \in Messages \cap rows' : r.key = <<"channel_messages", log[i]>>
      BY <1>1 DEF OnlyCommittedPushed
    <2>1. Groups \cap rows # {}
      BY <1>6, TheGroup DEF Alive
    <2>2. PICK r \in Messages \cap rows : r.key = <<"channel_messages", log[i]>>
      BY <1>2, <2>1 DEF OnlyCommittedPushed
    <2> QED
      BY <1>8, <2>2
  <1>11. NumbersInv'
    <2>1. ASSUME NEW r \in rows', r.key[1] \in {"channel_messages", "direct_messages"} PROVE r.key[2] <= sent
      <3>1. CASE r \in rows
        BY <1>2, <2>1, <3>1 DEF NumbersInv
      <3>2. CASE r \in ins[c]
        <4>1. call[c].op = "post"
          BY <1>5, <2>1, <3>2, TableOf
        <4>2. r.key[2] = call[c].n /\ call[c].n <= sent
          BY <1>2, <1>4, <3>2, <4>1 DEF PostInv, NumbersInv
        <4> QED
          BY <4>2
      <3> QED
        BY <1>1, <3>1, <3>2
    <2> QED
      BY <1>1, <1>2, <2>1 DEF NumbersInv
  <1>12. \A d \in Calls : d # c => CallInv(d)'
    <2>1. group(Owner) \notin ins[c]
      BY <1>5, RowsIn
    <2>2. ASSUME NEW n, NEW r \in ins[c], r.key = <<"channel_messages", n>>
          PROVE  call[c].op = "post" /\ call[c].n = n
      <3>1. call[c].op = "post"
        BY <1>5, <2>2, TableOf
      <3>2. <<"channel_messages", n>> = <<"channel_messages", call[c].n>>
        BY <1>4, <2>2, <3>1
      <3> QED
        BY <3>1, <3>2
    <2>3. \A n : (\E r \in ins[c] : r.key = <<"channel_messages", n>>) => call[c].op = "post" /\ call[c].n = n
      BY <2>2
    <2>4. call'[c] = NoCall \/ (call'[c].op = call[c].op /\ call'[c].n = call[c].n)
      <3>1. CASE call[c].op = "post"
        BY <1>1, <3>1
      <3>2. CASE call[c].op # "post"
        BY <1>1, <3>2
      <3> QED
        BY <3>1, <3>2
    <2> QED
      BY <1>1, <1>6, <1>8, <2>1, <2>3, <2>4, CommitOthers
  <1>13. CallInv(c)'
    <2>1. Idle(c)' /\ ins'[c] = {}
      BY <1>1 DEF Idle
    <2>2. CASE call[c].op # "post"
      BY <1>1, <2>1, <2>2 DEF CallInv, NoCall
    <2>3. CASE call[c].op = "post"
      <3>1. Posted(c)' = Posted(c) /\ Posted(c) \in rows'
        BY <1>1, <1>4, <2>3 DEF Posted
      <3>2. PostInv(c)'
        BY <1>1, <1>4, <2>1, <2>3, <3>1 DEF PostInv
      <3> QED
        BY <1>1, <2>1, <2>3, <3>2 DEF CallInv
    <2> QED
      BY <2>2, <2>3
  <1> QED
    BY <1>1, <1>9, <1>10, <1>11, <1>12, <1>13 DEF ChannelInv

----------------------------------------------------------------------------
(* Messages.                                                               *)

\* A message gets the next number, which nothing bears yet.
LEMMA NumberStep ==
    ASSUME ChannelInv, NextMessage
    PROVE  /\ sent' = sent + 1 /\ sent' \in Numbers /\ now' \in Numbers
           /\ sent' \in 0..MaxMessages /\ now' \in 0..MaxMessages /\ now' <= sent'
           /\ sent \in Nat
           /\ \A i \in 1..Len(log) : log[i] # sent'
           /\ \A c \in Calls : call[c].op = "post" => call[c].n # sent'
           /\ \A r \in rows : r.key # <<"channel_messages", sent'>> /\ r.key # <<"direct_messages", sent'>>
  <1>1. NumbersInv
    BY DEF ChannelInv
  <1>2. /\ sent' = sent + 1 /\ sent' \in Numbers /\ now' \in Numbers
        /\ sent' \in 0..MaxMessages /\ now' \in 0..MaxMessages /\ now' <= sent' /\ sent \in Nat
    BY <1>1, BoundsAssumption DEF NextMessage, NumbersInv, Numbers
  <1>3. \A i \in 1..Len(log) : log[i] # sent'
    BY <1>1, <1>2 DEF NumbersInv
  <1>4. \A c \in Calls : call[c].op = "post" => call[c].n # sent'
    BY <1>2 DEF ChannelInv, CallInv, PostInv
  <1>5. ASSUME NEW r \in rows,
               r.key = <<"channel_messages", sent'>> \/ r.key = <<"direct_messages", sent'>>
        PROVE  FALSE
    <2>1. r.key[1] \in {"channel_messages", "direct_messages"} /\ r.key[2] = sent'
      BY <1>5
    <2> QED
      BY <1>1, <1>2, <2>1 DEF NumbersInv
  <1> QED
    BY <1>2, <1>3, <1>4, <1>5

\* A message that is sent, in whichever way, leaves the numbers of the others.
LEMMA NumbersKept ==
    ASSUME ChannelInv, sent' = sent + 1, sent' \in 0..MaxMessages, now' \in 0..MaxMessages, now' <= sent',
           UNCHANGED <<log, gone>>,
           \A r \in rows' : r \in rows \/ r.key[2] <= sent'
    PROVE  NumbersInv'
  <1>1. NumbersInv
    BY DEF ChannelInv
  <1>2. sent \in Nat /\ 1..sent \subseteq 1..sent'
    BY <1>1 DEF NumbersInv
  <1>3. log' \in Seq(1..sent')
    BY <1>1, <1>2 DEF NumbersInv
  <1>4. \A r \in rows' : r.key[1] \in {"channel_messages", "direct_messages"} => r.key[2] <= sent'
    <2> SUFFICES ASSUME NEW r \in rows, r.key[1] \in {"channel_messages", "direct_messages"}
                 PROVE  r.key[2] <= sent'
      OBVIOUS
    <2>1. r.key[2] \in Nat
      BY TableOf DEF ChannelInv, DbType, Tables, Numbers
    <2> QED
      BY <1>1, <1>2, <2>1 DEF NumbersInv
  <1> QED
    BY <1>1, <1>3, <1>4 DEF NumbersInv

\* A post begins with its number and its time.
LEMMA SendStep ==
    ASSUME ChannelInv, NEW c \in Calls, NEW p \in Senders, SendChannelMessage(c, p)
    PROVE  ChannelInv'
  <1>1. /\ sent' = sent + 1 /\ sent' \in Numbers /\ now' \in Numbers
        /\ sent' \in 0..MaxMessages /\ now' \in 0..MaxMessages /\ now' <= sent' /\ sent \in Nat
        /\ \A i \in 1..Len(log) : log[i] # sent'
        /\ \A d \in Calls : call[d].op = "post" => call[d].n # sent'
        /\ \A r \in rows : r.key # <<"channel_messages", sent'>>
    BY NumberStep DEF SendChannelMessage
  <1> DEFINE n == sent'
  <1> DEFINE t == now'
  <1>2. n \in 0..MaxMessages /\ t \in 0..MaxMessages /\ Begin(c, "post", "isMember", p, n, t)
    BY <1>1 DEF SendChannelMessage
  <1>3. "post" \in Ops /\ "isMember" \in Steps /\ p \in Players
    BY PlayersAssumption DEF Ops, Steps
  <1> HIDE DEF n, t
  <1>4. /\ Idle(c) /\ call[c] = NoCall
        /\ call' \in [Calls -> {NoCall} \cup Requests]
        /\ call'[c] = [op |-> "post", step |-> "isMember", me |-> p, n |-> n, at |-> t]
        /\ call'[c] # NoCall
        /\ \A d \in Calls : d # c => call'[d] = call[d]
        /\ UNCHANGED <<rows, ins, del, log, gone>> /\ DbType(Tables)' /\ DbInv'
    BY <1>2, <1>3, BeginStep
  <1>5. /\ call'[c].op = "post" /\ call'[c].step = "isMember" /\ call'[c].me = p
        /\ call'[c].n = sent' /\ call'[c].at = now'
    BY <1>4 DEF n, t
  <1>6. Idle(c)' /\ ins'[c] = {}
    BY <1>4 DEF Idle
  <1>7. PostInv(c)'
    <2>1. Posted(c)'.key = <<"channel_messages", sent'>>
      BY <1>5, Keys DEF Posted
    <2>2. \A r \in rows' : r.key # Posted(c)'.key
      BY <1>1, <1>4, <2>1
    <2>3. \A d \in Calls : d # c /\ call'[d].op = "post" => call'[d].n # call'[c].n
      BY <1>1, <1>4, <1>5
    <2>4. call'[c].n \in 1..sent'
      BY <1>1, <1>5
    <2>5. \A i \in 1..Len(log') : log'[i] # call'[c].n
      BY <1>1, <1>4, <1>5
    <2> QED
      BY <1>1, <1>5, <1>6, <2>2, <2>3, <2>4, <2>5 DEF PostInv
  <1>8. CallInv(c)'
    BY <1>4, <1>5, <1>6, <1>7 DEF CallInv
  <1>9. ASSUME NEW d \in Calls, d # c PROVE CallInv(d)'
    <2>0. /\ CallInv(d) /\ call'[d] = call[d] /\ ins'[d] = ins[d] /\ del'[d] = del[d] /\ (Idle(d)' <=> Idle(d))
          /\ (Alive' <=> Alive)
      BY <1>4, <1>9 DEF ChannelInv, Idle, Alive
    <2>1. call'[d].op = "create" => CreateInv(d)'
      BY <1>4, <1>5, <2>0 DEF CallInv, CreateInv
    <2>2. call'[d].op = "delete" => DeleteInv(d)'
      BY <1>4, <2>0 DEF CallInv, DeleteInv
    <2>3. (call'[d].op = "join" => JoinInv(d)') /\ (call'[d].op = "leave" => LeaveInv(d)')
      BY <2>0 DEF CallInv, JoinInv, LeaveInv
    <2>4. call'[d].op = "post" => PostInv(d)'
      <3> SUFFICES ASSUME call[d].op = "post" PROVE PostInv(d)'
        BY <2>0
      <3>1. PostInv(d) /\ Posted(d)' = Posted(d)
        BY <2>0 DEF CallInv, Posted
      <3>2. call[d].n \in 1..sent'
        BY <1>1, <3>1 DEF PostInv
      <3>3. \A e \in Calls : e # d /\ call'[e].op = "post" => call'[e].n # call[d].n
        BY <1>1, <1>4, <1>5, <3>1 DEF PostInv
      <3> QED
        BY <1>4, <2>0, <3>1, <3>2, <3>3 DEF PostInv
    <2> QED
      BY <2>0, <2>1, <2>2, <2>3, <2>4 DEF CallInv
  <1>10. NumbersInv'
    BY <1>1, <1>4, NumbersKept
  <1>11. GroupWhole' /\ OnlyCommittedPushed'
    BY <1>4 DEF ChannelInv, GroupWhole, OnlyCommittedPushed
  <1> QED
    BY <1>4, <1>8, <1>9, <1>10, <1>11 DEF ChannelInv

\* A direct message has nothing to do with the group.
LEMMA DirectStep ==
    ASSUME ChannelInv, NEW p \in Senders, NEW q \in Recipients, SendDirectMessage(p, q)
    PROVE  ChannelInv'
  <1>1. /\ sent' = sent + 1 /\ sent' \in Numbers /\ now' \in Numbers
        /\ sent' \in 0..MaxMessages /\ now' \in 0..MaxMessages /\ now' <= sent' /\ sent \in Nat
        /\ \A r \in rows : r.key # <<"direct_messages", sent'>>
    BY NumberStep DEF SendDirectMessage
  <1> DEFINE m == direct(sent', p, q, now')
  <1>2. m \in Tables /\ m \notin Whole /\ m.key = <<"direct_messages", sent'>>
    BY <1>1, RowsIn, Keys
  <1>3. rows' = rows \cup {m} /\ UNCHANGED <<ins, del, call, log, gone>>
    BY DEF SendDirectMessage, streamVars
  <1> HIDE DEF m
  <1>4. m.key[1] = "direct_messages" /\ m.key[2] = sent'
    BY <1>2
  <1>5. group(Owner) # m /\ m \notin Children /\ m \notin Messages
    BY <1>2, RowsIn DEF Whole, Children
  <1>6. ASSUME NEW c \in Calls, NEW r \in ins[c] PROVE r.key # m.key
    <2>1. CallInv(c) /\ DbType(Tables) /\ call[c] \in {NoCall} \cup Requests
      BY DEF ChannelInv
    <2>2. call[c] # NoCall => call[c].op \in Ops /\ call[c].me \in Players
      BY <2>1 DEF Requests
    <2>3. call[c] # NoCall
      BY <1>6, <2>1 DEF CallInv, Idle
    <2>4. r = group(Owner) \/ r = member(Owner) \/ r = member(call[c].me) \/ r = Posted(c)
      BY <1>6, <2>1, <2>2, <2>3 DEF CallInv, CreateInv, DeleteInv, JoinInv, LeaveInv, PostInv, Idle, Ops
    <2>5. r.key[1] # "direct_messages"
      BY <2>4, Keys DEF Posted
    <2> QED
      BY <1>4, <2>5
  <1>7. DbType(Tables)' /\ DbInv'
    <2>1. DbType(Tables)'
      BY <1>2, <1>3 DEF ChannelInv, DbType
    <2>2. Unique(rows')
      BY <1>1, <1>2, <1>3 DEF ChannelInv, DbInv, Unique
    <2>3. \A c \in Calls : Unique(ins'[c]) /\ del'[c] \subseteq rows'
      BY <1>3 DEF ChannelInv, DbInv
    <2>4. \A c \in Calls : \A r \in ins'[c], s \in rows' : r.key = s.key => s \in del'[c]
      BY <1>3, <1>6 DEF ChannelInv, DbInv
    <2>5. \A c, d \in Calls : c # d =>
             /\ del'[c] \cap del'[d] = {}
             /\ \A r \in ins'[c], s \in ins'[d] : r.key # s.key
      BY <1>3 DEF ChannelInv, DbInv
    <2> QED
      BY <2>1, <2>2, <2>3, <2>4, <2>5 DEF DbInv, Unique
  <1>8. NumbersInv'
    <2>1. \A r \in rows' : r \in rows \/ r.key[2] <= sent'
      BY <1>1, <1>3, <1>4
    <2> QED
      BY <1>1, <1>3, <2>1, NumbersKept
  <1>9. (Alive' <=> Alive) /\ Whole \cap rows' = Whole \cap rows /\ Children \cap rows' = Children \cap rows
    BY <1>2, <1>3, <1>5 DEF Alive
  <1>10. GroupWhole'
    <2>1. member(Owner) \in rows => member(Owner) \in rows'
      BY <1>3
    <2> QED
      BY <1>9, <2>1, TheGroup DEF ChannelInv, GroupWhole, Alive
  <1>11. OnlyCommittedPushed'
    <2>1. \A r \in Messages \cap rows : r \in Messages \cap rows'
      BY <1>3
    <2> QED
      BY <1>3, <1>9, <2>1, TheGroup DEF ChannelInv, OnlyCommittedPushed, Alive
  <1>12. ASSUME NEW d \in Calls PROVE CallInv(d)'
    <2>0. /\ CallInv(d) /\ call'[d] = call[d] /\ ins'[d] = ins[d] /\ del'[d] = del[d] /\ (Idle(d)' <=> Idle(d))
      BY <1>3 DEF ChannelInv, Idle
    <2>1. call'[d].op = "create" => CreateInv(d)'
      BY <1>3, <1>9, <2>0 DEF CallInv, CreateInv, Whole
    <2>2. call'[d].op = "delete" => DeleteInv(d)'
      BY <1>3, <1>9, <2>0 DEF CallInv, DeleteInv, Whole
    <2>3. (call'[d].op = "join" => JoinInv(d)') /\ (call'[d].op = "leave" => LeaveInv(d)')
      BY <2>0 DEF CallInv, JoinInv, LeaveInv
    <2>4. call'[d].op = "post" => PostInv(d)'
      <3> SUFFICES ASSUME call[d].op = "post" PROVE PostInv(d)'
        BY <2>0
      <3>1. PostInv(d) /\ Posted(d)' = Posted(d)
        BY <2>0 DEF CallInv, Posted
      <3>2. call[d].n \in 1..sent'
        BY <1>1, <3>1 DEF PostInv
      <3>3. m.key # Posted(d).key
        BY <1>2, Keys DEF Posted
      <3> QED
        BY <1>3, <1>9, <2>0, <3>1, <3>2, <3>3 DEF PostInv
    <2>5. call'[d].op # "create" /\ Children \cap ins'[d] # {} => Alive'
      BY <1>9, <2>0 DEF CallInv
    <2> QED
      BY <2>0, <2>1, <2>2, <2>3, <2>4, <2>5 DEF CallInv
  <1>13. call' \in [Calls -> {NoCall} \cup Requests]
    BY <1>3 DEF ChannelInv
  <1> QED
    BY <1>7, <1>8, <1>10, <1>11, <1>12, <1>13 DEF ChannelInv

\* The committed message is pushed.
LEMMA PublishStep ==
    ASSUME ChannelInv, NEW c \in Calls, call[c].op = "post", Publish(c)
    PROVE  ChannelInv'
  <1>0. PostInv(c) /\ call[c].step = "publish" /\ NumbersInv
    BY DEF ChannelInv, CallInv, Publish
  <1>1. /\ log' = Append(log, call[c].n) /\ UNCHANGED <<rows, ins, del, sent, now>>
        /\ call' \in [Calls -> {NoCall} \cup Requests] /\ call'[c] = NoCall
        /\ \A d \in Calls : d # c => call'[d] = call[d]
    BY DEF Publish, dbVars, ChannelInv
  <1>2. /\ log \in Seq(1..sent) /\ call[c].n \in 1..sent /\ Len(log) \in Nat
        /\ Len(log') = Len(log) + 1 /\ log'[Len(log')] = call[c].n
        /\ \A i \in 1..Len(log) : log'[i] = log[i]
        /\ log' \in Seq(1..sent)
    BY <1>0, <1>1 DEF NumbersInv, PostInv
  <1>3. \A i \in 1..Len(log') : i \in 1..Len(log) \/ i = Len(log')
    BY <1>2
  <1>4. gone' \in 0..Len(log')
    <2>1. gone \in 0..Len(log) /\ StreamMaxLen \in Nat \ {0}
      BY <1>0, BoundsAssumption DEF NumbersInv
    <2> DEFINE x == Len(log) + 1 - StreamMaxLen
    <2>2. x \in Int /\ x <= Len(log)
      BY <1>2, <2>1
    <2>3. gone' = gone \/ gone' = Max({gone, x})
      BY DEF Publish
    <2>4. Max({gone, x}) \in {gone, x} /\ Max({gone, x}) >= gone
      <3> HIDE DEF x
      <3>1. \E y \in {gone, x} : \A z \in {gone, x} : y >= z
        BY <2>1, <2>2
      <3> QED
        BY <3>1 DEF Max
    <2> HIDE DEF x
    <2> QED
      BY <1>2, <2>1, <2>2, <2>3, <2>4
  <1>5. NumbersInv'
    <2>1. \A i, j \in 1..Len(log) : log[i] = log[j] => i = j
      BY <1>0 DEF NumbersInv
    <2>2. \A i \in 1..Len(log) : log[i] # call[c].n
      BY <1>0 DEF PostInv
    <2>3. \A i, j \in 1..Len(log') : log'[i] = log'[j] => i = j
      BY <1>2, <1>3, <2>1, <2>2
    <2> QED
      BY <1>0, <1>1, <1>2, <1>4, <2>3 DEF NumbersInv
  <1>6. GroupWhole'
    BY <1>1 DEF ChannelInv, GroupWhole
  <1>7. OnlyCommittedPushed'
    <2> SUFFICES ASSUME Groups \cap rows # {}, NEW i \in 1..Len(log')
                 PROVE  \E r \in Messages \cap rows : r.key = <<"channel_messages", log'[i]>>
      BY <1>1 DEF OnlyCommittedPushed
    <2>1. CASE i \in 1..Len(log)
      BY <1>2, <2>1 DEF ChannelInv, OnlyCommittedPushed
    <2>2. CASE i = Len(log')
      <3>1. Posted(c) \in rows
        BY <1>0, TheGroup DEF PostInv, Alive
      <3>2. call[c].n \in Numbers
        <4>1. sent \in 0..MaxMessages /\ MaxMessages \in Nat
          BY <1>0, BoundsAssumption DEF NumbersInv
        <4> QED
          BY <1>2, <4>1 DEF Numbers
      <3>3. Posted(c) \in Messages /\ Posted(c).key = <<"channel_messages", call[c].n>>
        BY <1>0, <3>2, RowsIn, Keys DEF PostInv, Posted
      <3> QED
        BY <1>2, <2>2, <3>1, <3>3
    <2> QED
      BY <1>3, <2>1, <2>2
  <1>8. DbType(Tables)' /\ DbInv'
    BY <1>1, IdleStep DEF ChannelInv, dbVars
  <1>9. CallInv(c)'
    <2>1. Idle(c)'
      BY <1>0, <1>1 DEF PostInv, Idle
    <2> QED
      BY <1>1, <2>1 DEF CallInv, NoCall, Idle
  <1>10. ASSUME NEW d \in Calls, d # c PROVE CallInv(d)'
    <2>0. /\ CallInv(d) /\ call'[d] = call[d] /\ ins'[d] = ins[d] /\ del'[d] = del[d] /\ (Idle(d)' <=> Idle(d))
          /\ (Alive' <=> Alive)
      BY <1>1, <1>10 DEF ChannelInv, Idle, Alive
    <2>1. call[d].op # "create"
      <3>1. call[c] # NoCall
        BY <1>0 DEF NoCall
      <3> QED
        BY <1>0, <1>10, <3>1, CreateAlone
    <2>2. call'[d].op = "delete" => DeleteInv(d)'
      BY <1>1, <2>0 DEF CallInv, DeleteInv
    <2>3. (call'[d].op = "join" => JoinInv(d)') /\ (call'[d].op = "leave" => LeaveInv(d)')
      BY <2>0 DEF CallInv, JoinInv, LeaveInv
    <2>4. call'[d].op = "post" => PostInv(d)'
      <3> SUFFICES ASSUME call[d].op = "post" PROVE PostInv(d)'
        BY <2>0
      <3>1. PostInv(d) /\ Posted(d)' = Posted(d)
        BY <2>0 DEF CallInv, Posted
      <3>2. \A i \in 1..Len(log') : log'[i] # call[d].n
        BY <1>0, <1>2, <1>3, <1>10, <3>1 DEF PostInv
      <3>3. \A e \in Calls : e # d /\ call'[e].op = "post" => call'[e].n # call[d].n
        BY <1>1, <3>1 DEF PostInv, NoCall
      <3> QED
        BY <1>1, <2>0, <3>1, <3>2, <3>3 DEF PostInv
    <2> QED
      BY <2>0, <2>1, <2>2, <2>3, <2>4 DEF CallInv
  <1> QED
    BY <1>1, <1>5, <1>6, <1>7, <1>8, <1>9, <1>10 DEF ChannelInv

----------------------------------------------------------------------------
(* The invariant of groups and messages.                                   *)

\* What the subscriptions do, and the stream's expiry, change none of it.
LEMMA ReadersStep ==
    ASSUME ChannelInv, UNCHANGED <<dbVars, call, sent, now, log>>, gone' \in 0..Len(log)
    PROVE  ChannelInv'
  <1>1. UNCHANGED <<rows, ins, del, call, sent, now, log>>
    BY DEF dbVars
  <1>2. DbType(Tables)' /\ DbInv'
    BY IdleStep DEF ChannelInv
  <1>3. GroupWhole' /\ OnlyCommittedPushed' /\ NumbersInv'
    BY <1>1, QuietStep
  <1>4. ASSUME NEW d \in Calls PROVE CallInv(d)'
    <2>0. /\ CallInv(d) /\ (Idle(d)' <=> Idle(d)) /\ (Alive' <=> Alive) /\ Posted(d)' = Posted(d)
      BY <1>1 DEF ChannelInv, Idle, Alive, Posted
    <2>1. call'[d].op = "create" => CreateInv(d)'
      BY <1>1, <2>0 DEF CallInv, CreateInv
    <2>2. call'[d].op = "delete" => DeleteInv(d)'
      BY <1>1, <2>0 DEF CallInv, DeleteInv
    <2>3. (call'[d].op = "join" => JoinInv(d)') /\ (call'[d].op = "leave" => LeaveInv(d)')
      BY <1>1, <2>0 DEF CallInv, JoinInv, LeaveInv
    <2>4. call'[d].op = "post" => PostInv(d)'
      BY <1>1, <2>0 DEF CallInv, PostInv
    <2> QED
      BY <1>1, <2>0, <2>1, <2>2, <2>3, <2>4 DEF CallInv
  <1>5. call' \in [Calls -> {NoCall} \cup Requests]
    BY <1>1 DEF ChannelInv
  <1> QED
    BY <1>2, <1>3, <1>4, <1>5 DEF ChannelInv

\* There is nothing at first.
LEMMA ChannelInit == Init => ChannelInv
  <1> SUFFICES ASSUME Init PROVE ChannelInv
    OBVIOUS
  <1>1. DbType(Tables) /\ DbInv
    BY DbStart DEF Init, Unique
  <1>2. rows = {} /\ (\A c \in Calls : ins[c] = {} /\ del[c] = {})
    BY DEF Init, DbInit
  <1>3. call \in [Calls -> {NoCall} \cup Requests] /\ \A c \in Calls : call[c] = NoCall
    BY DEF Init
  <1>4. \A c \in Calls : CallInv(c)
    BY <1>2, <1>3 DEF CallInv, NoCall, Idle
  <1>5. Len(log) = 0 /\ log = <<>>
    BY DEF Init
  <1>6. NumbersInv
    BY <1>2, <1>5, BoundsAssumption DEF NumbersInv, Init
  <1>7. GroupWhole /\ OnlyCommittedPushed
    BY <1>2 DEF GroupWhole, OnlyCommittedPushed
  <1> QED
    BY <1>1, <1>3, <1>4, <1>6, <1>7 DEF ChannelInv

\* Every step keeps the invariant.
LEMMA ChannelStep == ChannelInv /\ [Next]_vars => ChannelInv'
  <1> SUFFICES ASSUME ChannelInv, [Next]_vars PROVE ChannelInv'
    OBVIOUS
  <1>0. gone \in 0..Len(log) /\ Len(log) \in Nat
    BY DEF ChannelInv, NumbersInv
  <1>1. CASE UNCHANGED vars
    BY <1>0, <1>1, ReadersStep DEF vars
  <1>2. ASSUME NEW c \in Calls, CreateGroup(c) \/ \E p \in Players : GroupRequest(c, p) PROVE ChannelInv'
    BY <1>2, RequestStep
  <1>3. ASSUME NEW c \in Calls, NEW p \in Senders, SendChannelMessage(c, p) PROVE ChannelInv'
    BY <1>3, SendStep
  <1>4. ASSUME NEW c \in Calls, Statement(c) PROVE ChannelInv'
    <2>1. CASE CreateTx(c)
      BY <2>1, CreateTxStep
    <2>2. CASE DeleteTx(c)
      BY <2>2, DeleteTxStep
    <2>3. CASE JoinTx(c)
      BY <2>3, JoinTxStep
    <2>4. CASE LeaveTx(c)
      BY <2>4, LeaveTxStep
    <2>5. CASE SendChannel(c)
      BY <2>5, PostStep, PublishStep DEF SendChannel
    <2>6. CASE CommitCall(c)
      <3>1. call[c] \in Requests
        BY <2>6, CommitChanges
      <3>2. call[c].op \in Ops
        BY <3>1 DEF Requests
      <3> QED
        BY <2>6, <3>2, CommitCreate, CommitDelete, CommitChild DEF Ops
    <2> QED
      BY <1>4, <2>1, <2>2, <2>3, <2>4, <2>5, <2>6 DEF Statement
  <1>5. ASSUME NEW c \in Calls, Fail(c) PROVE ChannelInv'
    BY <1>5, ErrStep DEF Fail
  <1>6. ASSUME NEW p \in Senders, NEW q \in Recipients, SendDirectMessage(p, q) PROVE ChannelInv'
    BY <1>6, DirectStep
  <1>7. CASE StreamExpires
    BY <1>0, <1>7, ReadersStep DEF StreamExpires
  <1>8. CASE UNCHANGED rest
    BY <1>0, <1>8, ReadersStep DEF rest
  <1>9. ASSUME NEW s \in Subs,
               \/ \E p \in Players : Subscribe(s, p)
               \/ Reader(s) \/ Handler(s) \/ BlockTimeout(s) \/ XReadFails(s) \/ Unsubscribe(s)
        PROVE  UNCHANGED rest
    BY <1>9 DEF Subscribe, Reader, Handler, BlockTimeout, XReadFails, Unsubscribe, XRead, XReadReturns,
                Push, Send, Drained
  <1> QED
    BY <1>1, <1>2, <1>3, <1>4, <1>5, <1>6, <1>7, <1>8, <1>9 DEF Next

\* The invariant holds of every behaviour.
LEMMA ChannelInductive == Spec => []ChannelInv
  BY ChannelInit, ChannelStep, PTL DEF Spec

\* The group's owner is a member as long as the group exists, and no membership
\* or message outlives it, however creations, deletions, joins, leaves and posts
\* interleave and fail.
THEOREM GroupWholeHolds == Spec => []GroupWhole
  <1>1. ChannelInv => GroupWhole
    BY DEF ChannelInv
  <1> QED
    BY <1>1, ChannelInductive, PTL

\* Only committed messages are in the stream: what a subscriber is pushed is in
\* the history as long as the group exists.
THEOREM OnlyCommittedPushedHolds == Spec => []OnlyCommittedPushed
  <1>1. ChannelInv => OnlyCommittedPushed
    BY DEF ChannelInv
  <1> QED
    BY <1>1, ChannelInductive, PTL

----------------------------------------------------------------------------
(* What a subscriber is sent.                                              *)

\* Of two numbers.
LEMMA Extremes ==
    ASSUME NEW a \in Int, NEW b \in Int
    PROVE  /\ Max({a, b}) = IF a >= b THEN a ELSE b
           /\ Min({a, b}) = IF a <= b THEN a ELSE b
  <1>1. Max({a, b}) \in {a, b} /\ \A y \in {a, b} : Max({a, b}) >= y
    <2>1. \E x \in {a, b} : \A y \in {a, b} : x >= y
      OBVIOUS
    <2> QED
      BY <2>1 DEF Max
  <1>2. Min({a, b}) \in {a, b} /\ \A y \in {a, b} : Min({a, b}) <= y
    <2>1. \E x \in {a, b} : \A y \in {a, b} : x <= y
      OBVIOUS
    <2> QED
      BY <2>1 DEF Min
  <1> HIDE DEF Max, Min
  <1> QED
    BY <1>1, <1>2

\* An entry added to the end of a chain that it follows.
LEMMA ChainAppend ==
    ASSUME NEW q \in Seq(Nat \ {0}), NEW b \in Nat \ {0}, NEW m \in BOOLEAN, NEW n \in Nat, Chain(q, m),
           q # <<>> => Follows(q[Len(q)], b, m)
    PROVE  /\ Append(q, b) \in Seq(Nat \ {0}) /\ Append(q, b) # <<>>
           /\ Len(Append(q, b)) = Len(q) + 1 /\ Append(q, b)[Len(q) + 1] = b
           /\ q # <<>> => Append(q, b)[1] = q[1]
           /\ Streamed(q, n) /\ b <= n => Streamed(Append(q, b), n)
           /\ Chain(Append(q, b), m)
  <1> DEFINE r == Append(q, b)
  <1>1. r \in Seq(Nat \ {0}) /\ Len(r) = Len(q) + 1 /\ r[Len(q) + 1] = b /\ Len(q) \in Nat
    OBVIOUS
  <1>2. \A i \in 1..Len(q) : r[i] = q[i]
    OBVIOUS
  <1>3. q # <<>> => Len(q) # 0
    OBVIOUS
  <1>4. r # <<>>
    BY <1>1
  <1> HIDE DEF r
  <1>5. ASSUME NEW i \in 1..(Len(r) - 1) PROVE Follows(r[i], r[i + 1], m)
    <2>1. CASE i = Len(q)
      <3>1. q # <<>>
        BY <2>1, <1>1
      <3> QED
        BY <2>1, <1>1, <1>2, <3>1
    <2>2. CASE i # Len(q)
      <3>1. i \in 1..(Len(q) - 1) /\ i \in 1..Len(q) /\ i + 1 \in 1..Len(q)
        BY <2>2, <1>1
      <3> QED
        BY <3>1, <1>2 DEF Chain
    <2> QED
      BY <2>1, <2>2
  <1>6. q # <<>> => r[1] = q[1]
    BY <1>1, <1>2, <1>3
  <1>7. ASSUME Streamed(q, n), b <= n PROVE Streamed(r, n)
    <2> SUFFICES ASSUME NEW i \in 1..Len(r) PROVE r[i] <= n
      BY DEF Streamed
    <2>1. i = Len(q) + 1 \/ i \in 1..Len(q)
      BY <1>1
    <2>2. i \in 1..Len(q) => q[i] <= n
      BY <1>7 DEF Streamed
    <2> QED
      BY <1>1, <1>2, <1>7, <2>1, <2>2
  <1> QED
    BY <1>1, <1>4, <1>5, <1>6, <1>7 DEF Chain, r

\* A chain without its first entry.
LEMMA ChainTail ==
    ASSUME NEW q \in Seq(Nat \ {0}), NEW m \in BOOLEAN, NEW n \in Nat, Chain(q, m), q # <<>>
    PROVE  /\ Tail(q) \in Seq(Nat \ {0}) /\ Len(Tail(q)) = Len(q) - 1
           /\ Head(q) = q[1] /\ q[1] \in Nat \ {0}
           /\ Chain(Tail(q), m)
           /\ Tail(q) # <<>> => Follows(q[1], Tail(q)[1], m) /\ Tail(q)[Len(Tail(q))] = q[Len(q)]
           /\ Tail(q) = <<>> => Len(q) = 1
           /\ Streamed(q, n) => Streamed(Tail(q), n) /\ q[1] <= n
  <1> DEFINE r == Tail(q)
  <1>1. r \in Seq(Nat \ {0}) /\ Len(r) = Len(q) - 1 /\ Head(q) = q[1] /\ q[1] \in Nat \ {0} /\ Len(q) \in Nat \ {0}
    OBVIOUS
  <1>2. \A i \in 1..Len(r) : r[i] = q[i + 1]
    OBVIOUS
  <1>3. r # <<>> => Len(r) # 0
    BY <1>1
  <1> HIDE DEF r
  <1>4. r = <<>> => Len(r) = 0
    BY <1>1
  <1>5. ASSUME NEW i \in 1..(Len(r) - 1) PROVE Follows(r[i], r[i + 1], m)
    <2>1. i \in 1..Len(r) /\ i + 1 \in 1..Len(r) /\ i + 1 \in 1..(Len(q) - 1)
      BY <1>1
    <2> QED
      BY <2>1, <1>2 DEF Chain
  <1>6. ASSUME r # <<>> PROVE Follows(q[1], r[1], m) /\ r[Len(r)] = q[Len(q)]
    <2>1. 1 \in 1..Len(r) /\ Len(r) \in 1..Len(r) /\ 1 \in 1..(Len(q) - 1) /\ Len(r) + 1 = Len(q)
      BY <1>1, <1>3, <1>6
    <2>2. r[1] = q[1 + 1] /\ r[Len(r)] = q[Len(q)]
      BY <2>1, <1>2
    <2> QED
      BY <2>1, <2>2 DEF Chain
  <1>7. ASSUME Streamed(q, n) PROVE Streamed(r, n) /\ q[1] <= n
    <2>1. ASSUME NEW i \in 1..Len(r) PROVE r[i] <= n
      <3>1. i + 1 \in 1..Len(q)
        BY <1>1
      <3>2. q[i + 1] <= n
        BY <3>1, <1>7 DEF Streamed
      <3> QED
        BY <3>2, <1>2
    <2>2. 1 \in 1..Len(q)
      BY <1>1
    <2>3. q[1] <= n
      BY <2>2, <1>7 DEF Streamed
    <2> QED
      BY <2>1, <2>3 DEF Streamed
  <1> QED
    BY <1>1, <1>4, <1>5, <1>6, <1>7 DEF Chain, r

\* A subscriber that lags allows holes.
LEMMA ChainLag ==
    ASSUME NEW l \in BOOLEAN, NEW m \in BOOLEAN, l => m
    PROVE  /\ \A a, b : Follows(a, b, l) => Follows(a, b, m)
           /\ \A q : Chain(q, l) => Chain(q, m)
  <1>1. ASSUME NEW a, NEW b, Follows(a, b, l) PROVE Follows(a, b, m)
    BY <1>1, Zenon DEF Follows
  <1> QED
    BY <1>1 DEF Chain

\* XREAD answers the entries after the last one read, without a hole, and
\* starts past it only when entries were gone.
LEMMA BatchFollows ==
    ASSUME NEW s \in Subs, sub[s].from \in Nat, gone \in Nat, log \in Seq(Nat), Entries(s) # {},
           NEW m \in BOOLEAN
    PROVE  /\ Batch(s) \in Seq(Nat \ {0}) /\ Len(Batch(s)) \in 1..ReadCount /\ Batch(s) # <<>>
           /\ Chain(Batch(s), m)
           /\ Streamed(Batch(s), Len(log))
           /\ sub[s].from < Batch(s)[1]
           /\ gone <= sub[s].from => Batch(s)[1] = sub[s].from + 1
  <1> DEFINE read == Max({sub[s].from, gone})
             n == Min({ReadCount, Len(log) - read})
             b == [k \in 1..n |-> read + k]
  <1>0. ReadCount \in Nat \ {0} /\ Len(log) \in Nat
    BY BoundsAssumption
  <1>1. read = IF sub[s].from >= gone THEN sub[s].from ELSE gone
    BY Extremes
  <1>2. read \in Nat /\ read < Len(log) /\ sub[s].from <= read /\ (gone <= sub[s].from => read = sub[s].from)
    <2>1. PICK i \in (sub[s].from + 1)..Len(log) : i > gone
      BY DEF Entries
    <2> HIDE DEF read
    <2> QED
      BY <2>1, <1>1, <1>0
  <1> HIDE DEF read
  <1>3. n \in 1..ReadCount /\ n <= Len(log) - read
    <2>1. Len(log) - read \in Int /\ Len(log) - read >= 1 /\ ReadCount \in Int
      BY <1>0, <1>2
    <2>2. n = IF ReadCount <= Len(log) - read THEN ReadCount ELSE Len(log) - read
      BY <2>1, Extremes
    <2> HIDE DEF n
    <2> QED
      BY <2>1, <2>2, <1>0, <1>2
  <1>4. Batch(s) = b
    BY DEF Batch, read
  <1> HIDE DEF n
  <1>5. \A k \in 1..n : read + k \in Nat \ {0}
    BY <1>2, <1>3
  <1>6. b \in Seq(Nat \ {0}) /\ Len(b) = n /\ \A k \in 1..n : b[k] = read + k
    BY <1>3, <1>5, <1>0
  <1> HIDE DEF b
  <1>7. Chain(b, m)
    <2> SUFFICES ASSUME NEW i \in 1..(Len(b) - 1) PROVE Follows(b[i], b[i + 1], m)
      BY DEF Chain
    <2>1. i \in 1..n /\ i + 1 \in 1..n
      BY <1>3, <1>6, <1>0
    <2>2. b[i] = read + i /\ b[i + 1] = read + (i + 1)
      BY <2>1, <1>6
    <2>3. b[i] < b[i + 1] /\ b[i + 1] = b[i] + 1
      <3>1. i \in Int /\ read \in Int
        BY <1>2, <2>1
      <3> QED
        BY <2>2, <3>1
    <2> QED
      BY <2>3 DEF Follows
  <1>8. b[1] = read + 1 /\ b # <<>>
    BY <1>3, <1>6, <1>0
  <1>9. Streamed(b, Len(log))
    BY <1>2, <1>3, <1>6, <1>0 DEF Streamed
  <1> QED
    BY <1>2, <1>3, <1>4, <1>6, <1>7, <1>8, <1>9, <1>0

\* The subscriptions when the stream has only grown.
LEMMA TailKept ==
    ASSUME TailInv, sub' = sub, Len(log) \in Nat, Len(log') \in Nat, Len(log') >= Len(log)
    PROVE  TailInv'
  <1>1. sub' \in [Subs -> {NoSub} \cup SubRecords]
    BY DEF TailInv
  <1>2. ASSUME NEW s \in Subs, sub'[s] # NoSub PROVE SubInv(sub'[s], Len(log'))
    <2>1. SubInv(sub[s], Len(log)) /\ sub[s] \in SubRecords /\ sub'[s] = sub[s]
      BY <1>2 DEF TailInv
    <2>2. sub[s].last \in Nat /\ sub[s].from \in Nat /\ sub[s].prev \in Nat
      BY <2>1 DEF SubRecords
    <2>3. sub[s].batch \in Seq(Nat \ {0}) /\ sub[s].buf \in Seq(Nat \ {0})
      BY <2>1 DEF SubRecords
    <2>4. ASSUME NEW q \in Seq(Nat \ {0}), Streamed(q, Len(log)) PROVE Streamed(q, Len(log'))
      BY <2>4 DEF Streamed
    <2>5. Streamed(sub[s].batch, Len(log')) /\ Streamed(sub[s].buf, Len(log'))
      BY <2>1, <2>3, <2>4 DEF SubInv
    <2> QED
      BY <2>1, <2>2, <2>5 DEF SubInv
  <1> QED
    BY <1>1, <1>2 DEF TailInv

\* One subscription goes on to k.
LEMMA SubStep ==
    ASSUME TailInv, UNCHANGED log, NEW s \in Subs, NEW k \in {NoSub} \cup SubRecords,
           k # NoSub => SubInv(k, Len(log)), sub' = [sub EXCEPT ![s] = k]
    PROVE  TailInv'
  <1>1. sub' \in [Subs -> {NoSub} \cup SubRecords]
    BY DEF TailInv
  <1>2. \A t \in Subs : sub'[t] # NoSub => SubInv(sub'[t], Len(log))
    BY DEF TailInv
  <1> QED
    BY <1>1, <1>2 DEF TailInv

\* A subscription that is in some state is one.
LEMMA Subscribed ==
    ASSUME TailInv, NEW s \in Subs, sub[s] # NoSub \/ sub[s].st # "off"
    PROVE  /\ sub[s] # NoSub /\ sub[s] \in SubRecords /\ SubInv(sub[s], Len(log))
           /\ sub[s].st \in {"idle", "blocked", "pushing", "closed"}
           /\ sub[s].last \in Nat /\ sub[s].from \in Nat /\ sub[s].prev \in Nat
           /\ sub[s].batch \in Seq(Nat \ {0}) /\ sub[s].buf \in Seq(Nat \ {0})
           /\ sub[s].lagged \in BOOLEAN
  <1>1. NoSub.st = "off"
    BY DEF NoSub
  <1>2. sub[s] # NoSub /\ sub[s] \in SubRecords /\ SubInv(sub[s], Len(log))
    BY <1>1 DEF TailInv
  <1> QED
    BY <1>2 DEF SubRecords

\* A subscription begins with nothing read.
LEMMA SubscribeStep ==
    ASSUME TailInv, log \in Seq(Nat), NEW s \in Subs, NEW p \in Players, Subscribe(s, p)
    PROVE  TailInv'
  <1> DEFINE k == [st |-> "idle", last |-> 0, from |-> 0, batch |-> <<>>, buf |-> <<>>,
                   prev |-> 0, lagged |-> FALSE]
  <1>1. <<>> \in Seq(Nat \ {0}) /\ Len(<<>>) = 0
    OBVIOUS
  <1>2. k \in SubRecords
    BY <1>1 DEF SubRecords
  <1>3. SubInv(k, Len(log))
    <2>1. Chain(<<>>, FALSE) /\ Streamed(<<>>, Len(log))
      BY <1>1 DEF Chain, Streamed
    <2>2. Len(log) \in Nat /\ ReadCount \in Nat /\ BufCap \in Nat
      BY BoundsAssumption
    <2>3. /\ k.st = "idle" /\ k.from = 0 /\ k.last = 0 /\ k.batch = <<>> /\ k.buf = <<>>
          /\ k.prev = 0 /\ k.lagged = FALSE
      OBVIOUS
    <2> HIDE DEF k
    <2>4. Len(k.batch) <= ReadCount /\ Len(k.buf) <= BufCap
      BY <1>1, <2>2, <2>3
    <2>5. k.last <= Len(log) /\ k.from <= Len(log) /\ k.prev <= Len(log)
      BY <2>2, <2>3
    <2>6. Streamed(k.batch, Len(log)) /\ Streamed(k.buf, Len(log)) /\ Chain(k.batch, k.lagged) /\ Chain(k.buf, k.lagged)
      BY <2>1, <2>3
    <2> QED
      BY <2>3, <2>4, <2>5, <2>6 DEF SubInv
  <1>4. sub' = [sub EXCEPT ![s] = k] /\ UNCHANGED log
    BY DEF Subscribe, rest
  <1> HIDE DEF k
  <1> QED
    BY <1>2, <1>3, <1>4, SubStep

\* The loop reads on from where it is, or from the end when it has read nothing.
LEMMA XReadStep ==
    ASSUME TailInv, log \in Seq(Nat), NEW s \in Subs, XRead(s)
    PROVE  TailInv'
  <1> DEFINE o == sub[s]
             k == [o EXCEPT !.st = "blocked", !.from = IF o.last = 0 THEN Len(log) ELSE o.last]
  <1>1. o.st = "idle" /\ sub' = [sub EXCEPT ![s] = k] /\ UNCHANGED log
    BY DEF XRead, rest
  <1>2. /\ o \in SubRecords /\ SubInv(o, Len(log)) /\ o.last \in Nat /\ Len(log) \in Nat
    BY <1>1, Subscribed
  <1> HIDE DEF o
  <1>3. k \in SubRecords
    BY <1>2 DEF SubRecords
  <1>4. /\ k.st = "blocked" /\ k.from = (IF o.last = 0 THEN Len(log) ELSE o.last) /\ k.last = o.last
        /\ k.batch = o.batch /\ k.buf = o.buf /\ k.prev = o.prev /\ k.lagged = o.lagged
    BY <1>2 DEF SubRecords
  <1> HIDE DEF k
  <1>5. SubInv(k, Len(log))
    BY <1>1, <1>2, <1>4 DEF SubInv
  <1> QED
    BY <1>1, <1>3, <1>5, SubStep

\* XREAD times out, or fails for good.
LEMMA BlockStep ==
    ASSUME TailInv, log \in Seq(Nat), NEW s \in Subs, BlockTimeout(s) \/ XReadFails(s)
    PROVE  TailInv'
  <1> DEFINE o == sub[s]
  <1>0. o.st = "blocked" /\ o \in SubRecords /\ SubInv(o, Len(log)) /\ Len(log) \in Nat
    BY Subscribed DEF BlockTimeout, XReadFails
  <1>1. CASE BlockTimeout(s)
    <2> DEFINE k == [o EXCEPT !.st = "idle", !.from = 0]
    <2>1. sub' = [sub EXCEPT ![s] = k] /\ UNCHANGED log
      BY <1>1 DEF BlockTimeout, rest
    <2> HIDE DEF o
    <2>2. k \in SubRecords
      BY <1>0 DEF SubRecords
    <2>3. /\ k.st = "idle" /\ k.from = 0 /\ k.last = o.last
          /\ k.batch = o.batch /\ k.buf = o.buf /\ k.prev = o.prev /\ k.lagged = o.lagged
      BY <1>0 DEF SubRecords
    <2> HIDE DEF k
    <2>4. SubInv(k, Len(log))
      BY <1>0, <2>3 DEF SubInv
    <2> QED
      BY <2>1, <2>2, <2>4, SubStep
  <1>2. CASE XReadFails(s)
    <2> DEFINE k == [o EXCEPT !.st = "closed"]
    <2>1. sub' = [sub EXCEPT ![s] = k] /\ UNCHANGED log
      BY <1>2 DEF XReadFails, rest
    <2> HIDE DEF o
    <2>2. k \in SubRecords
      BY <1>0 DEF SubRecords
    <2>3. /\ k.st = "closed" /\ k.from = o.from /\ k.last = o.last
          /\ k.batch = o.batch /\ k.buf = o.buf /\ k.prev = o.prev /\ k.lagged = o.lagged
      BY <1>0 DEF SubRecords
    <2> HIDE DEF k
    <2>4. SubInv(k, Len(log))
      BY <1>0, <2>3 DEF SubInv
    <2> QED
      BY <2>1, <2>2, <2>4, SubStep
  <1> QED
    BY <1>1, <1>2

\* XREAD answers.
LEMMA AnswerStep ==
    ASSUME TailInv, log \in Seq(Nat), gone \in Nat, NEW s \in Subs, XReadReturns(s)
    PROVE  TailInv'
  <1> DEFINE o == sub[s]
             b == Batch(s)
             m == (o.lagged \/ gone > o.from)
             k == [o EXCEPT !.st = "pushing", !.from = 0, !.batch = b, !.last = b[Len(b)], !.lagged = m]
  <1>1. o.st = "blocked" /\ sub' = [sub EXCEPT ![s] = k] /\ UNCHANGED log /\ Entries(s) # {}
    BY DEF XReadReturns, rest
  <1>2. /\ o \in SubRecords /\ SubInv(o, Len(log)) /\ o.last \in Nat /\ o.from \in Nat /\ o.prev \in Nat
        /\ o.buf \in Seq(Nat \ {0}) /\ o.lagged \in BOOLEAN /\ Len(log) \in Nat
    BY <1>1, Subscribed
  <1>3. m \in BOOLEAN /\ (o.lagged => m) /\ (~m => gone <= o.from)
    BY <1>2
  <1>4. /\ b \in Seq(Nat \ {0}) /\ Len(b) \in 1..ReadCount /\ b # <<>> /\ Chain(b, m)
        /\ Streamed(b, Len(log)) /\ o.from < b[1] /\ (gone <= o.from => b[1] = o.from + 1)
    BY <1>1, <1>2, <1>3, BatchFollows
  <1>5. b[1] \in Nat \ {0} /\ b[Len(b)] \in Nat \ {0} /\ b[Len(b)] <= Len(log)
    BY <1>4, BoundsAssumption DEF Streamed
  <1> HIDE DEF o, b, m
  <1>6. k \in SubRecords
    BY <1>2, <1>3, <1>4, <1>5 DEF SubRecords
  <1>7. /\ k.st = "pushing" /\ k.from = 0 /\ k.last = b[Len(b)] /\ k.batch = b
        /\ k.buf = o.buf /\ k.prev = o.prev /\ k.lagged = m
    BY <1>2 DEF SubRecords
  <1> HIDE DEF k
  <1>8. /\ o.batch = <<>> /\ o.prev <= Len(log) /\ Len(o.buf) <= BufCap /\ Chain(o.buf, o.lagged)
        /\ Streamed(o.buf, Len(log))
        /\ (o.last # 0 => o.from = o.last)
        /\ (o.buf # <<>> => o.last = o.buf[Len(o.buf)]) /\ (o.buf = <<>> => o.last = o.prev)
        /\ (o.prev # 0 /\ o.buf # <<>> => Follows(o.prev, o.buf[1], o.lagged))
    BY <1>1, <1>2 DEF SubInv
  <1>9. Chain(o.buf, m) /\ (o.prev # 0 /\ o.buf # <<>> => Follows(o.prev, o.buf[1], m))
    BY <1>2, <1>3, <1>8, ChainLag
  <1>10. o.last # 0 => Follows(o.last, b[1], m)
    <2>1. ASSUME o.last # 0 PROVE o.last < b[1] /\ (gone <= o.from => b[1] = o.last + 1)
      BY <2>1, <1>4, <1>8
    <2> QED
      BY <2>1, <1>3 DEF Follows
  <1>11. o.buf # <<>> => o.buf[Len(o.buf)] # 0
    BY <1>2
  <1>12. SubInv(k, Len(log))
    <2>1. k.last <= Len(log) /\ k.from <= Len(log) /\ k.prev <= Len(log)
      BY <1>2, <1>5, <1>7, <1>8
    <2>2. /\ Streamed(k.batch, Len(log)) /\ Streamed(k.buf, Len(log))
          /\ Len(k.batch) <= ReadCount /\ Len(k.buf) <= BufCap
      BY <1>4, <1>7, <1>8, BoundsAssumption
    <2>3. (k.st = "pushing") <=> (k.batch # <<>>)
      BY <1>4, <1>7
    <2>4. Chain(k.batch, k.lagged) /\ Chain(k.buf, k.lagged)
      BY <1>4, <1>7, <1>9
    <2>5. k.batch # <<>> /\ k.last = k.batch[Len(k.batch)] /\ k.st # "blocked"
      BY <1>4, <1>7
    <2>6. k.prev # 0 /\ k.buf # <<>> => Follows(k.prev, k.buf[1], k.lagged)
      BY <1>7, <1>9
    <2>7. k.buf # <<>> => Follows(k.buf[Len(k.buf)], k.batch[1], k.lagged)
      BY <1>7, <1>8, <1>10, <1>11
    <2>8. k.prev # 0 /\ k.buf = <<>> => Follows(k.prev, k.batch[1], k.lagged)
      BY <1>7, <1>8, <1>10
    <2> QED
      BY <2>1, <2>2, <2>3, <2>4, <2>5, <2>6, <2>7, <2>8 DEF SubInv
  <1> QED
    BY <1>1, <1>6, <1>12, SubStep

\* The reader hands an entry over.
LEMMA PushStep ==
    ASSUME TailInv, log \in Seq(Nat), NEW s \in Subs, Push(s)
    PROVE  TailInv'
  <1> DEFINE o == sub[s]
             h == Head(o.batch)
             a == Append(o.buf, h)
             t == Tail(o.batch)
             st == IF Len(o.batch) = 1 THEN "idle" ELSE "pushing"
             k == [o EXCEPT !.buf = a, !.batch = t, !.st = st]
  <1>1. o.st = "pushing" /\ Len(o.buf) < BufCap /\ sub' = [sub EXCEPT ![s] = k] /\ UNCHANGED log
    BY DEF Push, rest
  <1>2. /\ o \in SubRecords /\ SubInv(o, Len(log)) /\ o.last \in Nat /\ o.from \in Nat /\ o.prev \in Nat
        /\ o.buf \in Seq(Nat \ {0}) /\ o.batch \in Seq(Nat \ {0}) /\ o.lagged \in BOOLEAN
        /\ Len(log) \in Nat /\ BufCap \in Nat /\ ReadCount \in Nat
    BY <1>1, Subscribed, BoundsAssumption
  <1> HIDE DEF o
  <1>3. /\ o.batch # <<>> /\ Chain(o.batch, o.lagged) /\ Chain(o.buf, o.lagged)
        /\ (o.buf # <<>> => Follows(o.buf[Len(o.buf)], o.batch[1], o.lagged))
        /\ (o.buf = <<>> /\ o.prev # 0 => Follows(o.prev, o.batch[1], o.lagged))
        /\ (o.buf # <<>> /\ o.prev # 0 => Follows(o.prev, o.buf[1], o.lagged))
        /\ o.last = o.batch[Len(o.batch)] /\ Len(o.batch) <= ReadCount
        /\ o.last <= Len(log) /\ o.from <= Len(log) /\ o.prev <= Len(log)
        /\ Streamed(o.batch, Len(log)) /\ Streamed(o.buf, Len(log))
    BY <1>1, <1>2 DEF SubInv
  <1>4. /\ t \in Seq(Nat \ {0}) /\ Len(t) = Len(o.batch) - 1 /\ h = o.batch[1]
        /\ o.batch[1] \in Nat \ {0} /\ Chain(t, o.lagged) /\ Streamed(t, Len(log)) /\ o.batch[1] <= Len(log)
        /\ (t # <<>> => Follows(o.batch[1], t[1], o.lagged) /\ t[Len(t)] = o.batch[Len(o.batch)])
        /\ (t = <<>> => Len(o.batch) = 1)
    BY <1>2, <1>3, ChainTail
  <1>5. /\ a \in Seq(Nat \ {0}) /\ a # <<>> /\ Len(a) = Len(o.buf) + 1 /\ a[Len(o.buf) + 1] = o.batch[1]
        /\ (o.buf # <<>> => a[1] = o.buf[1]) /\ Chain(a, o.lagged) /\ Streamed(a, Len(log))
    <2> HIDE DEF h, t
    <2>1. /\ h \in Nat \ {0} /\ h <= Len(log) /\ h = o.batch[1]
          /\ (o.buf # <<>> => Follows(o.buf[Len(o.buf)], h, o.lagged))
      BY <1>3, <1>4
    <2>2. /\ a \in Seq(Nat \ {0}) /\ a # <<>> /\ Len(a) = Len(o.buf) + 1 /\ a[Len(o.buf) + 1] = h
          /\ (o.buf # <<>> => a[1] = o.buf[1]) /\ Chain(a, o.lagged)
          /\ (Streamed(o.buf, Len(log)) /\ h <= Len(log) => Streamed(a, Len(log)))
      <3>1. o.buf \in Seq(Nat \ {0}) /\ o.lagged \in BOOLEAN /\ Len(log) \in Nat /\ Chain(o.buf, o.lagged)
        BY <1>2, <1>3
      <3> DEFINE f == o.buf
                 m == o.lagged
                 n == Len(log)
      <3>2. /\ f \in Seq(Nat \ {0}) /\ h \in Nat \ {0} /\ m \in BOOLEAN /\ n \in Nat
            /\ Chain(f, m) /\ (f # <<>> => Follows(f[Len(f)], h, m))
        BY <2>1, <3>1
      <3> HIDE DEF f, m, n
      <3>3. /\ Append(f, h) \in Seq(Nat \ {0}) /\ Append(f, h) # <<>> /\ Len(Append(f, h)) = Len(f) + 1
            /\ Append(f, h)[Len(f) + 1] = h
            /\ (f # <<>> => Append(f, h)[1] = f[1]) /\ Chain(Append(f, h), m)
            /\ (Streamed(f, n) /\ h <= n => Streamed(Append(f, h), n))
        BY <3>2, ChainAppend
      <3> QED
        BY <3>3 DEF f, m, n
    <2> QED
      BY <1>3, <2>1, <2>2
  <1>6. o.buf = <<>> => Len(o.buf) = 0
    BY <1>2
  <1> HIDE DEF a, h, t
  <1>7. Len(o.batch) = 1 <=> t = <<>>
    <2>1. t # <<>> => Len(t) # 0
      BY <1>4
    <2> QED
      BY <2>1, <1>4
  <1>8. k \in SubRecords
    BY <1>2, <1>4, <1>5 DEF SubRecords
  <1>9. /\ k.st = st /\ k.from = o.from /\ k.last = o.last /\ k.batch = t
        /\ k.buf = a /\ k.prev = o.prev /\ k.lagged = o.lagged
    BY <1>2 DEF SubRecords
  <1> HIDE DEF k
  <1>10. SubInv(k, Len(log))
    <2>1. k.prev # 0 => Follows(k.prev, k.buf[1], k.lagged)
      BY <1>3, <1>5, <1>6, <1>9
    <2>2. k.batch # <<>> => Follows(k.buf[Len(k.buf)], k.batch[1], k.lagged) /\ k.last = k.batch[Len(k.batch)]
      BY <1>3, <1>4, <1>5, <1>9
    <2>3. k.batch = <<>> => k.last = k.buf[Len(k.buf)]
      BY <1>3, <1>4, <1>5, <1>9
    <2>4. Len(k.batch) <= ReadCount /\ Len(k.buf) <= BufCap
      <3>1. Len(o.buf) \in Nat /\ Len(o.batch) \in Nat
        BY <1>2
      <3>2. Len(a) <= BufCap
        BY <3>1, <1>1, <1>2, <1>5
      <3>3. Len(t) <= ReadCount
        BY <3>1, <1>2, <1>3, <1>4
      <3> QED
        BY <3>2, <3>3, <1>9
    <2>6. (k.st = "pushing") <=> (k.batch # <<>>)
      BY <1>7, <1>9
    <2>5. k.st # "blocked" /\ k.buf # <<>>
      BY <1>5, <1>9
    <2> QED
      BY <2>1, <2>2, <2>3, <2>4, <2>5, <2>6, <1>3, <1>4, <1>5, <1>9 DEF SubInv
  <1> QED
    BY <1>1, <1>8, <1>10, SubStep

\* The handler sends an entry.
LEMMA DeliverStep ==
    ASSUME TailInv, log \in Seq(Nat), NEW s \in Subs, Send(s)
    PROVE  TailInv'
  <1> DEFINE o == sub[s]
             t == Tail(o.buf)
             h == Head(o.buf)
             k == [o EXCEPT !.prev = h, !.buf = t]
  <1>1. o # NoSub /\ o.buf # <<>> /\ sub' = [sub EXCEPT ![s] = k] /\ UNCHANGED log
    BY DEF Send, rest
  <1>2. /\ o \in SubRecords /\ SubInv(o, Len(log)) /\ o.last \in Nat /\ o.from \in Nat /\ o.prev \in Nat
        /\ o.buf \in Seq(Nat \ {0}) /\ o.batch \in Seq(Nat \ {0}) /\ o.lagged \in BOOLEAN
        /\ Len(log) \in Nat /\ BufCap \in Nat /\ ReadCount \in Nat
    BY <1>1, Subscribed, BoundsAssumption
  <1> HIDE DEF o
  <1>3. /\ Chain(o.batch, o.lagged) /\ Chain(o.buf, o.lagged) /\ Len(o.buf) <= BufCap
        /\ (o.batch # <<>> => Follows(o.buf[Len(o.buf)], o.batch[1], o.lagged))
        /\ (o.batch # <<>> => o.last = o.batch[Len(o.batch)])
        /\ (o.batch = <<>> => o.last = o.buf[Len(o.buf)])
        /\ o.last <= Len(log) /\ o.from <= Len(log) /\ o.prev <= Len(log)
        /\ Streamed(o.batch, Len(log)) /\ Streamed(o.buf, Len(log))
    BY <1>1, <1>2 DEF SubInv
  <1>4. /\ t \in Seq(Nat \ {0}) /\ Len(t) = Len(o.buf) - 1 /\ h = o.buf[1]
        /\ h \in Nat \ {0} /\ Chain(t, o.lagged) /\ Streamed(t, Len(log)) /\ h <= Len(log)
        /\ (t # <<>> => Follows(h, t[1], o.lagged) /\ t[Len(t)] = o.buf[Len(o.buf)])
        /\ (t = <<>> => Len(o.buf) = 1)
    <2> DEFINE q == o.buf
               m == o.lagged
               n == Len(log)
    <2>1. q \in Seq(Nat \ {0}) /\ m \in BOOLEAN /\ n \in Nat /\ Chain(q, m) /\ q # <<>> /\ Streamed(q, n)
      BY <1>1, <1>2, <1>3
    <2> HIDE DEF q, m, n
    <2>2. /\ Tail(q) \in Seq(Nat \ {0}) /\ Len(Tail(q)) = Len(q) - 1
          /\ Head(q) = q[1] /\ q[1] \in Nat \ {0} /\ Chain(Tail(q), m)
          /\ Tail(q) # <<>> => Follows(q[1], Tail(q)[1], m) /\ Tail(q)[Len(Tail(q))] = q[Len(q)]
          /\ Tail(q) = <<>> => Len(q) = 1
          /\ Streamed(Tail(q), n) /\ q[1] <= n
      BY <2>1, ChainTail
    <2> QED
      BY <2>2 DEF q, m, n
  <1> HIDE DEF h, t
  <1>8. k \in SubRecords
    BY <1>2, <1>4 DEF SubRecords
  <1>9. /\ k.st = o.st /\ k.from = o.from /\ k.last = o.last /\ k.batch = o.batch
        /\ k.buf = t /\ k.prev = h /\ k.lagged = o.lagged
    BY <1>2 DEF SubRecords
  <1> HIDE DEF k
  <1>10. SubInv(k, Len(log))
    <2>1. k.buf # <<>> => Follows(k.prev, k.buf[1], k.lagged) /\ k.buf[Len(k.buf)] = o.buf[Len(o.buf)]
      BY <1>4, <1>9
    <2>2. k.buf = <<>> => k.prev = o.buf[Len(o.buf)]
      BY <1>4, <1>9
    <2>3. k.prev <= Len(log) /\ Len(k.buf) <= BufCap
      BY <1>2, <1>3, <1>4, <1>9
    <2>4. (k.st = "pushing") <=> (k.batch # <<>>)
      BY <1>2, <1>9 DEF SubInv
    <2>5. k.st = "blocked" /\ k.last # 0 => k.from = k.last
      BY <1>2, <1>9 DEF SubInv
    <2>6. Len(k.batch) <= ReadCount /\ k.last <= Len(log) /\ k.from <= Len(log)
      BY <1>2, <1>9 DEF SubInv
    <2> QED
      BY <2>1, <2>2, <2>3, <2>4, <2>5, <2>6, <1>3, <1>4, <1>9 DEF SubInv
  <1> QED
    BY <1>1, <1>8, <1>10, SubStep

\* The calls only add to the stream.
LEMMA CallsStep ==
    ASSUME ChannelInv,
           \/ \E c \in Calls : \/ CreateGroup(c)
                               \/ \E p \in Players : GroupRequest(c, p)
                               \/ \E p \in Senders : SendChannelMessage(c, p)
                               \/ Statement(c) \/ Fail(c)
           \/ \E p \in Senders, q \in Recipients : SendDirectMessage(p, q)
           \/ StreamExpires
    PROVE  sub' = sub /\ (log' = log \/ \E n : log' = Append(log, n))
  <1>1. ASSUME NEW c \in Calls, CreateGroup(c) \/ \E p \in Players : GroupRequest(c, p)
        PROVE  sub' = sub /\ log' = log
    BY <1>1 DEF CreateGroup, GroupRequest, Begin, streamVars
  <1>2. ASSUME NEW c \in Calls, NEW p \in Senders, SendChannelMessage(c, p)
        PROVE  sub' = sub /\ log' = log
    BY <1>2 DEF SendChannelMessage, Begin, streamVars
  <1>3. ASSUME NEW c \in Calls, ReturnErr(c) \/ (\E l : Goto(c, l)) \/ Return(c)
        PROVE  sub' = sub /\ log' = log
    BY <1>3 DEF ReturnErr, Goto, Return, streamVars
  <1>4. ASSUME NEW c \in Calls, NEW r, SaveChild(c, r) PROVE ReturnErr(c) \/ \E l : Goto(c, l)
    BY <1>4 DEF SaveChild
  <1>5. ASSUME NEW c \in Calls, CreateTx(c) PROVE ReturnErr(c) \/ \E l : Goto(c, l)
    BY <1>5, <1>4 DEF CreateTx, SaveGroup, SaveOwner
  <1>6. ASSUME NEW c \in Calls, Find(c) PROVE ReturnErr(c) \/ \E l : Goto(c, l)
    BY <1>6 DEF Find
  <1>7. ASSUME NEW c \in Calls, DeleteTx(c) \/ JoinTx(c) \/ LeaveTx(c) PROVE ReturnErr(c) \/ \E l : Goto(c, l)
    BY <1>7, <1>4, <1>6 DEF DeleteTx, JoinTx, LeaveTx, DeleteGroup, SaveMember, DeleteMember
  <1>8. ASSUME NEW c \in Calls, SendChannel(c), ~Publish(c) PROVE ReturnErr(c) \/ \E l : Goto(c, l)
    BY <1>8, <1>4 DEF SendChannel, IsMember, SaveChannelMessage
  <1>9. ASSUME NEW c \in Calls, Publish(c) PROVE sub' = sub /\ \E n : log' = Append(log, n)
    BY <1>9 DEF Publish
  <1>10. ASSUME NEW c \in Calls, CommitCall(c) PROVE Return(c) \/ \E l : Goto(c, l)
    BY <1>10 DEF CommitCall
  <1>11. ASSUME NEW c \in Calls, Statement(c) PROVE sub' = sub /\ (log' = log \/ \E n : log' = Append(log, n))
    BY <1>11, <1>3, <1>5, <1>7, <1>8, <1>9, <1>10 DEF Statement
  <1>12. ASSUME NEW c \in Calls, Fail(c) PROVE sub' = sub /\ log' = log
    BY <1>12, <1>3 DEF Fail
  <1>13. ASSUME NEW p \in Senders, NEW q \in Recipients, SendDirectMessage(p, q) PROVE sub' = sub /\ log' = log
    BY <1>13 DEF SendDirectMessage, streamVars
  <1>14. ASSUME StreamExpires PROVE sub' = sub /\ log' = log
    BY <1>14 DEF StreamExpires
  <1> QED
    BY <1>1, <1>2, <1>11, <1>12, <1>13, <1>14

\* Every step keeps what a subscriber has been sent in the order of the stream.
LEMMA TailStep ==
    ASSUME ChannelInv, TailInv, [Next]_vars
    PROVE  TailInv'
  <1>0. log \in Seq(Nat) /\ gone \in Nat /\ Len(log) \in Nat
    <2>1. log \in Seq(1..sent) /\ gone \in 0..Len(log) /\ sent \in 0..MaxMessages
      BY DEF ChannelInv, NumbersInv
    <2> QED
      BY <2>1
  <1>1. CASE UNCHANGED vars
    BY <1>0, <1>1, TailKept DEF vars
  <1>2. ASSUME sub' = sub, log' = log \/ \E n : log' = Append(log, n) PROVE TailInv'
    <2>1. Len(log') \in Nat /\ Len(log') >= Len(log)
      BY <1>0, <1>2
    <2> QED
      BY <1>0, <1>2, <2>1, TailKept
  <1>3. ASSUME NEW s \in Subs, \E p \in Players : Subscribe(s, p) PROVE TailInv'
    BY <1>0, <1>3, SubscribeStep
  <1>4. ASSUME NEW s \in Subs, Reader(s) PROVE TailInv'
    BY <1>0, <1>4, XReadStep, AnswerStep, PushStep DEF Reader
  <1>5. ASSUME NEW s \in Subs, BlockTimeout(s) \/ XReadFails(s) PROVE TailInv'
    BY <1>0, <1>5, BlockStep
  <1>6. ASSUME NEW s \in Subs, Unsubscribe(s) PROVE TailInv'
    BY <1>6, SubStep DEF Unsubscribe, rest
  <1>7. ASSUME NEW s \in Subs, Handler(s) PROVE TailInv'
    BY <1>0, <1>6, <1>7, DeliverStep DEF Handler, Drained
  <1>8. CASE Next
    <2>1. CASE \E s \in Subs : \/ \E p \in Players : Subscribe(s, p)
                               \/ Reader(s) \/ Handler(s) \/ BlockTimeout(s) \/ XReadFails(s) \/ Unsubscribe(s)
      BY <2>1, <1>3, <1>4, <1>5, <1>6, <1>7
    <2>2. CASE \/ \E c \in Calls : \/ CreateGroup(c)
                                   \/ \E p \in Players : GroupRequest(c, p)
                                   \/ \E p \in Senders : SendChannelMessage(c, p)
                                   \/ Statement(c) \/ Fail(c)
               \/ \E p \in Senders, q \in Recipients : SendDirectMessage(p, q)
               \/ StreamExpires
      BY <2>2, <1>2, CallsStep
    <2> QED
      BY <1>8, <2>1, <2>2 DEF Next
  <1> QED
    BY <1>1, <1>8

\* The subscriptions' invariant holds of every behaviour.
LEMMA TailInductive == Spec => []TailInv
  <1>1. Init => TailInv
    BY DEF Init, TailInv
  <1>2. ChannelInv /\ TailInv /\ [Next]_vars => TailInv'
    BY TailStep
  <1> QED
    BY <1>1, <1>2, ChannelInductive, PTL DEF Spec

\* Chains that follow one another make a chain.
LEMMA ChainJoin ==
    ASSUME NEW p \in Seq(Nat \ {0}), NEW q \in Seq(Nat \ {0}), NEW m \in BOOLEAN, Chain(p, m), Chain(q, m),
           p # <<>> /\ q # <<>> => Follows(p[Len(p)], q[1], m)
    PROVE  p \o q \in Seq(Nat \ {0}) /\ Chain(p \o q, m)
  <1> DEFINE r == p \o q
  <1>1. /\ r \in Seq(Nat \ {0}) /\ Len(r) = Len(p) + Len(q) /\ Len(p) \in Nat /\ Len(q) \in Nat
    OBVIOUS
  <1>2. \A i \in 1..Len(p) : r[i] = p[i]
    OBVIOUS
  <1>3. \A i \in 1..Len(q) : r[Len(p) + i] = q[i]
    OBVIOUS
  <1>4. (p = <<>> => Len(p) = 0) /\ (q = <<>> => Len(q) = 0)
    OBVIOUS
  <1> HIDE DEF r
  <1>5. ASSUME NEW i \in 1..(Len(r) - 1) PROVE Follows(r[i], r[i + 1], m)
    <2>0. i \in Nat /\ 1 <= i /\ i < Len(p) + Len(q) /\ Len(p) \in Nat /\ Len(q) \in Nat
      BY <1>1
    <2>1. CASE i < Len(p)
      <3>1. i \in 1..(Len(p) - 1) /\ i \in 1..Len(p) /\ i + 1 \in 1..Len(p)
        BY <2>0, <2>1
      <3> QED
        BY <3>1, <1>2 DEF Chain
    <2>2. CASE i = Len(p)
      <3>1. i \in 1..Len(p) /\ 1 \in 1..Len(q)
        BY <2>2, <1>1
      <3>2. p # <<>> /\ q # <<>>
        BY <3>1, <1>1, <1>4
      <3>3. r[i] = p[Len(p)] /\ r[i + 1] = q[1]
        BY <3>1, <2>2, <1>2, <1>3
      <3> QED
        BY <3>2, <3>3
    <2>3. CASE i > Len(p)
      <3> DEFINE j == i - Len(p)
      <3>1. j \in 1..(Len(q) - 1) /\ j \in 1..Len(q) /\ j + 1 \in 1..Len(q)
        <4>1. j \in Int /\ 1 <= j /\ j <= Len(q) - 1
          BY <2>0, <2>3
        <4> HIDE DEF j
        <4> QED
          BY <2>0, <4>1
      <3>2. i = Len(p) + j /\ i + 1 = Len(p) + (j + 1)
        BY <2>0
      <3> HIDE DEF j
      <3>3. r[i] = q[j] /\ r[i + 1] = q[j + 1]
        BY <3>1, <3>2, <1>3
      <3> QED
        BY <3>1, <3>3 DEF Chain
    <2> QED
      BY <2>1, <2>2, <2>3, <1>1
  <1> QED
    BY <1>1, <1>5 DEF Chain, r

\* What a subscriber has been sent is in the order of the stream without a repeat,
\* and without a hole unless entries were gone before it was read: a timeout or
\* a full buffer loses nothing, for any buffer, stream and batch size.
THEOREM DeliveredInOrderHolds == Spec => []DeliveredInOrder
  <1>1. TailInv => DeliveredInOrder
    <2> SUFFICES ASSUME TailInv, NEW s \in Subs, sub[s] # NoSub
                 PROVE  Chain((IF sub[s].prev = 0 THEN <<>> ELSE <<sub[s].prev>>) \o sub[s].buf \o sub[s].batch,
                              sub[s].lagged)
      BY DEF DeliveredInOrder, Chain, Follows
    <2> DEFINE a == IF sub[s].prev = 0 THEN <<>> ELSE <<sub[s].prev>>
               f == sub[s].buf
               b == sub[s].batch
               m == sub[s].lagged
    <2>1. /\ sub[s].prev \in Nat /\ f \in Seq(Nat \ {0}) /\ b \in Seq(Nat \ {0}) /\ m \in BOOLEAN
      BY Subscribed
    <2>2. /\ Chain(f, m) /\ Chain(b, m)
          /\ (sub[s].prev # 0 /\ f # <<>> => Follows(sub[s].prev, f[1], m))
          /\ (b # <<>> /\ f # <<>> => Follows(f[Len(f)], b[1], m))
          /\ (sub[s].prev # 0 /\ f = <<>> /\ b # <<>> => Follows(sub[s].prev, b[1], m))
      <3>1. SubInv(sub[s], Len(log))
        BY Subscribed
      <3> QED
        BY <3>1 DEF SubInv
    <2>3. a \in Seq(Nat \ {0}) /\ Chain(a, m) /\ (a # <<>> => a = <<sub[s].prev>> /\ sub[s].prev # 0)
      <3>1. Chain(<<>>, m) /\ <<>> \in Seq(Nat \ {0})
        BY DEF Chain
      <3>2. ASSUME sub[s].prev # 0
            PROVE  <<sub[s].prev>> \in Seq(Nat \ {0}) /\ Chain(<<sub[s].prev>>, m)
        BY <2>1, <3>2 DEF Chain
      <3> QED
        BY <3>1, <3>2
    <2> HIDE DEF f, b, m
    <2>4. a # <<>> => a[Len(a)] = sub[s].prev
      BY <2>3
    <2> HIDE DEF a
    <2>5. a \o f \in Seq(Nat \ {0}) /\ Chain(a \o f, m)
      BY <2>1, <2>2, <2>3, <2>4, ChainJoin
    <2>6. f # <<>> => (a \o f)[Len(a \o f)] = f[Len(f)]
      BY <2>1, <2>3
    <2>7. f = <<>> => a \o f = a
      BY <2>1, <2>3
    <2>8. a \o f # <<>> /\ b # <<>> => Follows((a \o f)[Len(a \o f)], b[1], m)
      BY <2>2, <2>3, <2>4, <2>6, <2>7
    <2> DEFINE c == a \o f
    <2>9. c \in Seq(Nat \ {0}) /\ Chain(c, m) /\ (c # <<>> /\ b # <<>> => Follows(c[Len(c)], b[1], m))
      BY <2>5, <2>8
    <2> HIDE DEF c
    <2>10. Chain(c \o b, m)
      BY <2>1, <2>2, <2>9, ChainJoin
    <2> QED
      BY <2>10 DEF a, b, c, f, m
  <1> QED
    BY <1>1, TailInductive, PTL

----------------------------------------------------------------------------
(* The histories' pages.                                                   *)

\* A set of naturals has a least element, which Min is.
LEMMA LeastOf ==
    ASSUME NEW S \in SUBSET Nat, S # {}
    PROVE  Min(S) \in S /\ \A y \in S : Min(S) <= y
  <1>1. PICK x \in S : \A y \in S : ~(<<y, x>> \in OpToRel(<, Nat))
    BY NatLessThanWellFounded, WFMin
  <1>2. \A y \in S : x <= y
    <2> SUFFICES ASSUME NEW y \in S PROVE x <= y
      OBVIOUS
    <2>1. x \in Nat /\ y \in Nat
      OBVIOUS
    <2>2. ~(y < x)
      <3>1. y < x => <<y, x>> \in OpToRel(<, Nat)
        BY <2>1 DEF OpToRel
      <3> QED
        BY <1>1, <3>1
    <2> QED
      BY <2>1, <2>2
  <1> QED
    BY <1>1, <1>2 DEF Min

\* A page's limit is a number.
LEMMA LimitType ==
    ASSUME NEW limit \in Nat
    PROVE  clampLimit(limit) \in Int
  <1>1. DefaultLimit \in Int /\ MaxLimit \in Int /\ limit \in Int
    BY BoundsAssumption
  <1>2. Min({limit, MaxLimit}) = IF limit <= MaxLimit THEN limit ELSE MaxLimit
    BY <1>1, Extremes
  <1>3. Min({limit, MaxLimit}) \in Int
    BY <1>1, <1>2
  <1> HIDE DEF Min
  <1> QED
    BY <1>1, <1>3 DEF clampLimit

\* The next page begins where this one stops.
Continues(history, before, limit) ==
    Page(history, before, limit) # {} =>
        Older(history, Min({r.at : r \in Page(history, before, limit)}))
            = Older(history, before) \ Page(history, before, limit)

\* Any page of a history continues, when no two of its messages have the same time.
Paged(history) ==
    history # {} /\ (\A r, s \in history : r.at = s.at => r = s) =>
        \A before \in 0..MaxMessages, limit \in 0..(MaxLimit + 1) : Continues(history, before, limit)

\* What is older than a page is what the page left out.
LEMMA PageContinues ==
    ASSUME NEW history, \A r \in history : r.at \in Numbers,
           \A r, s \in history : r.at = s.at => r = s,
           NEW before \in 0..MaxMessages, NEW limit \in Nat
    PROVE  Continues(history, before, limit)
  <1> SUFFICES ASSUME Page(history, before, limit) # {}
               PROVE  Older(history, Min({r.at : r \in Page(history, before, limit)}))
                        = Older(history, before) \ Page(history, before, limit)
    BY DEF Continues
  <1> DEFINE older == Older(history, before)
             first(r) == {s \in older : s.at > r.at \/ (s.at = r.at /\ s.key[2] > r.key[2])}
             page == Page(history, before, limit)
             times == {r.at : r \in page}
             m == Min(times)
  <1>0. MaxMessages \in Nat /\ clampLimit(limit) \in Int
    BY BoundsAssumption, LimitType
  <1>1. page = {r \in older : Cardinality(first(r)) < clampLimit(limit)}
    BY DEF Page
  <1>2. older \subseteq history /\ \A r \in history : r \in older <=> before = 0 \/ r.at < before
    BY DEF Older
  <1>3. IsFiniteSet(older)
    <2> DEFINE f == [r \in older |-> r.at]
    <2>1. f \in Injection(older, Numbers)
      BY <1>2 DEF Injection, IsInjective
    <2>2. IsFiniteSet(Numbers)
      BY <1>0, FS_Interval DEF Numbers
    <2> HIDE DEF f, older
    <2> QED
      BY <2>1, <2>2, FS_Injection
  <1> HIDE DEF older, page
  \* The page reaches back from the newest.
  <1>4. ASSUME NEW r \in page, NEW s \in older, s.at >= r.at PROVE s \in page
    <2>1. r \in older /\ r.at \in Nat /\ s.at \in Nat
      BY <1>0, <1>1, <1>2 DEF Numbers
    <2>2. CASE s.at = r.at
      BY <1>2, <2>1, <2>2
    <2>3. CASE s.at > r.at
      <3>1. ASSUME NEW x \in first(s) PROVE x \in first(r)
        <4>1. x \in older /\ x.at \in Nat /\ (x.at > s.at \/ x.at = s.at)
          BY <1>0, <1>2, <3>1 DEF Numbers
        <4> QED
          BY <2>1, <2>3, <4>1
      <3>2. IsFiniteSet(first(r)) /\ first(s) \subseteq first(r)
        BY <1>3, <3>1, FS_Subset
      <3>3. /\ IsFiniteSet(first(s)) /\ Cardinality(first(s)) <= Cardinality(first(r))
        BY <3>2, FS_Subset
      <3>4. Cardinality(first(s)) \in Nat /\ Cardinality(first(r)) \in Nat
        BY <3>2, <3>3, FS_CardinalityType
      <3>5. Cardinality(first(r)) < clampLimit(limit)
        BY <1>1
      <3> HIDE DEF first
      <3>6. Cardinality(first(s)) < clampLimit(limit)
        BY <1>0, <3>3, <3>4, <3>5
      <3> QED
        BY <1>1, <3>6
    <2> QED
      BY <1>4, <2>1, <2>2, <2>3
  <1>5. page \subseteq older /\ page \subseteq history /\ page # {}
    BY <1>1, <1>2 DEF page
  <1>6. times \in SUBSET Nat /\ times # {}
    BY <1>0, <1>2, <1>5 DEF Numbers
  <1>7. m \in times /\ \A y \in times : m <= y
    <2> HIDE DEF times
    <2> QED
      BY <1>6, LeastOf
  <1> HIDE DEF m
  <1>8. PICK o \in page : m = o.at
    BY <1>7
  <1>9. \A r \in page : m <= r.at
    BY <1>7
  <1>10. m \in Nat /\ m # 0 /\ (before = 0 \/ m < before)
    BY <1>0, <1>2, <1>5, <1>8 DEF Numbers
  <1>11. ASSUME NEW r \in history PROVE r.at < m <=> r \in older /\ r \notin page
    <2>1. r.at \in Nat /\ before \in Nat
      BY <1>0 DEF Numbers
    <2>2. ASSUME r.at < m PROVE r \in older /\ r \notin page
      BY <2>1, <2>2, <1>2, <1>9, <1>10
    <2>3. ASSUME r \in older, r \notin page PROVE r.at < m
      BY <2>1, <2>3, <1>4, <1>8, <1>10
    <2> QED
      BY <2>2, <2>3
  <1>12. Older(history, m) = {r \in history : r.at < m}
    BY <1>10 DEF Older
  <1>13. Older(history, m) = older \ page
    BY <1>2, <1>11, <1>12
  <1> QED
    BY <1>13 DEF m, older, page

\* A page of a channel's or a conversation's history continues where the one
\* before it stopped, for any limits and any number of messages.
THEOREM PagesContinueHolds == Spec => []PagesContinue
  <1>1. ChannelInv => PagesContinue
    <2> SUFFICES ASSUME rows \subseteq Tables PROVE PagesContinue
      BY DEF ChannelInv, DbType
    <2>1. ASSUME NEW history, \A r \in history : r.at \in Numbers PROVE Paged(history)
      <3>1. ASSUME NEW limit \in 0..(MaxLimit + 1) PROVE limit \in Nat
        BY BoundsAssumption
      <3> QED
        BY <2>1, <3>1, PageContinues DEF Paged
    <2>2. \A r \in Messages : r.at \in Numbers
      BY TableOf
    <2>3. \A r \in Directs : r.at \in Numbers
      BY TableOf
    <2>4. Paged(ChannelHistory)
      BY <2>1, <2>2 DEF ChannelHistory
    <2>5. \A p \in Senders : \A q \in Recipients : Paged(Conversation(p, q))
      BY <2>1, <2>3 DEF Conversation
    <2>6. \A history \in Histories : Paged(history)
      BY <2>4, <2>5 DEF Histories
    <2> QED
      BY <2>6, Zenon DEF PagesContinue, Paged, Continues
  <1> QED
    BY <1>1, ChannelInductive, PTL

\* A sequence without repeats is no longer than the numbers it draws from.
LEMMA NoLonger ==
    ASSUME NEW n \in Nat, NEW q \in Seq(1..n), \A i, j \in 1..Len(q) : q[i] = q[j] => i = j
    PROVE  Len(q) <= n
  <1>1. Len(q) \in Nat /\ q \in [1..Len(q) -> 1..n]
    OBVIOUS
  <1>2. q \in Injection(1..Len(q), 1..n)
    BY <1>1 DEF Injection, IsInjective
  <1>3. IsFiniteSet(1..n) /\ Cardinality(1..n) = n /\ Cardinality(1..Len(q)) = Len(q)
    <2>1. \A k \in Nat : IsFiniteSet(1..k) /\ Cardinality(1..k) = IF 1 > k THEN 0 ELSE k - 1 + 1
      BY FS_Interval
    <2> QED
      BY <1>1, <2>1
  <1>4. Cardinality(1..Len(q)) <= Cardinality(1..n)
    BY <1>2, <1>3, FS_Injection
  <1> QED
    BY <1>3, <1>4

\* The type invariant, with the keys unique, no more entries than messages sent
\* and every subscription's batch and buffer within their sizes.
THEOREM ChannelTypeCorrect == Spec => []TypeOK
  <1>1. ChannelInv /\ TailInv => TypeOK
    <2> SUFFICES ASSUME ChannelInv, TailInv PROVE TypeOK
      OBVIOUS
    <2>1. /\ rows \subseteq Tables /\ KeysUnique
          /\ ins \in [Calls -> SUBSET Tables] /\ del \in [Calls -> SUBSET Tables]
      BY DEF ChannelInv, DbType, DbInv, Unique, KeysUnique
    <2>2. call \in [Calls -> {NoCall} \cup
              [op : Ops, step : Steps, me : Players, n : 0..MaxMessages, at : 0..MaxMessages]]
      BY DEF ChannelInv, Requests
    <2>3. /\ sent \in 0..MaxMessages /\ now \in 0..MaxMessages /\ gone \in 0..Len(log)
          /\ log \in Seq(1..sent) /\ \A i, j \in 1..Len(log) : log[i] = log[j] => i = j
      BY DEF ChannelInv, NumbersInv
    <2>4. Len(log) <= sent /\ Len(log) \in Nat
      <3>1. sent \in Nat
        BY <2>3
      <3> QED
        BY <2>3, <3>1, NoLonger
    <2>5. ASSUME NEW s \in Subs, sub[s] # NoSub
          PROVE  /\ sub[s].st \in {"idle", "blocked", "pushing", "closed"}
                 /\ sub[s].last \in 0..Len(log) /\ sub[s].from \in 0..Len(log)
                 /\ sub[s].prev \in 0..Len(log)
                 /\ Len(sub[s].batch) <= ReadCount /\ Len(sub[s].buf) <= BufCap
                 /\ (sub[s].st = "pushing") <=> (sub[s].batch # <<>>)
      <3>1. /\ SubInv(sub[s], Len(log)) /\ sub[s].st \in {"idle", "blocked", "pushing", "closed"}
            /\ sub[s].last \in Nat /\ sub[s].from \in Nat /\ sub[s].prev \in Nat
        BY <2>5, Subscribed
      <3> QED
        BY <3>1, <2>4 DEF SubInv
    <2> QED
      BY <2>1, <2>2, <2>3, <2>4, <2>5 DEF TypeOK
  <1> QED
    BY <1>1, ChannelInductive, TailInductive, PTL
=============================================================================
