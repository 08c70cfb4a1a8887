------------------------------ MODULE Channel -------------------------------
(***************************************************************************)
(* GroupService and ChatService: a group is a channel, its members may     *)
(* post and subscribe.  Groups, memberships and messages are rows changed  *)
(* in concurrent transactions; a committed channel message is then added   *)
(* to the channel's Valkey stream, which subscriptions tail.               *)
(*                                                                         *)
(* log is every entry ever added to the stream, and an entry's id its      *)
(* place in it; the first gone entries have been trimmed or have expired.  *)
(***************************************************************************)
EXTENDS Postgres, Sequences, FiniteSetsExt

CONSTANTS
    Players, Subs,
    Senders,          \* the players who send messages
    Recipients,       \* players who only take part as recipients of direct messages
    g, Owner,         \* the group and who creates it
    MaxMessages,      \* bound on the messages sent
    StreamMaxLen,     \* streamMaxLen
    ReadCount,        \* COUNT of XREAD
    BufCap,           \* capacity of a subscription's Go channel
    DefaultLimit, MaxLimit

ASSUME PlayersAssumption == Owner \in Players /\ Senders \subseteq Players
ASSUME BoundsAssumption ==
    {MaxMessages, StreamMaxLen, ReadCount, BufCap, DefaultLimit, MaxLimit} \subseteq Nat \ {0}

group(o) == [key |-> <<"groups", g>>, owner |-> o]
member(p) == [key |-> <<"group_members", p>>]
message(n, p, t) == [key |-> <<"channel_messages", n>>, sender |-> p, at |-> t]
\* The two players of a conversation, in whichever order they are named.
direct(n, p, q, t) == [key |-> <<"direct_messages", n>>, pair |-> {p, q}, at |-> t]

VARIABLES
    call,             \* the RPC each call handler runs and the statement it issues next
    sent,             \* messages numbered so far
    now,              \* the wall clock, which two messages may read alike
    log, gone,        \* the stream
    sub               \* the subscriptions
vars == <<dbVars, call, sent, now, log, gone, sub>>

Ops == {"create", "delete", "join", "leave", "post"}
Steps == {"saveGroup", "saveOwner", "find", "deleteGroup", "saveMember", "deleteMember", "isMember",
          "saveMessage", "commit", "publish"}
NoCall == [op |-> "none", step |-> "none"]
NoSub == [st |-> "off"]
Numbers == 1..MaxMessages
Groups == {group(Owner)}
Members == {member(p) : p \in Players}
Messages == {message(n, p, t) : n, t \in Numbers, p \in Senders}
Directs == {direct(n, p, q, t) : n, t \in Numbers, p \in Senders, q \in Recipients}
Children == Members \cup Messages
Tables == Groups \cup Members \cup Messages \cup Directs

TypeOK ==
    /\ rows \subseteq Tables /\ KeysUnique
    /\ ins \in [Calls -> SUBSET Tables] /\ del \in [Calls -> SUBSET Tables]
    /\ call \in [Calls -> {NoCall} \cup
          [op : Ops, step : Steps, me : Players, n : 0..MaxMessages, at : 0..MaxMessages]]
    /\ sent \in 0..MaxMessages /\ now \in 0..MaxMessages
    /\ Len(log) <= sent /\ gone \in 0..Len(log)
    /\ \A s \in Subs : sub[s] # NoSub =>
          /\ sub[s].st \in {"idle", "blocked", "pushing", "closed"}
          /\ sub[s].last \in 0..Len(log) /\ sub[s].from \in 0..Len(log)
          /\ sub[s].prev \in 0..Len(log)
          /\ Len(sub[s].batch) <= ReadCount /\ Len(sub[s].buf) <= BufCap
          /\ (sub[s].st = "pushing") <=> (sub[s].batch # <<>>)

Init ==
    /\ DbInit({})
    /\ call = [c \in Calls |-> NoCall]
    /\ sent = 0 /\ now = 0
    /\ log = <<>> /\ gone = 0
    /\ sub = [s \in Subs |-> NoSub]

----------------------------------------------------------------------------
(* The requests.                                                           *)

streamVars == <<log, gone, sub>>
Begin(c, op, step, p, n, t) ==
    /\ call[c] = NoCall
    /\ call' = [call EXCEPT ![c] = [op |-> op, step |-> step, me |-> p, n |-> n, at |-> t]]
    /\ UNCHANGED <<dbVars, streamVars>>
Goto(c, step) == call' = [call EXCEPT ![c].step = step] /\ UNCHANGED <<sent, now, streamVars>>
Return(c) == call' = [call EXCEPT ![c] = NoCall] /\ UNCHANGED <<sent, now, streamVars>>
ReturnErr(c) == Rollback(c) /\ Return(c)

\* The id is new: nothing refers to it yet.
CreateGroup(c) ==
    /\ (Groups \cup Children) \cap rows = {} /\ log = <<>>
    /\ \A d \in Calls : call[d] = NoCall
    /\ \A s \in Subs : sub[s] = NoSub
    /\ Begin(c, "create", "saveGroup", Owner, 0, 0) /\ UNCHANGED <<sent, now>>
GroupRequest(c, p) ==
    \E op \in {"delete", "join", "leave"} :
        Begin(c, op, "find", p, 0, 0) /\ UNCHANGED <<sent, now>>
\* A message is numbered and dated when the call begins.
NextMessage == sent < MaxMessages /\ sent' = sent + 1 /\ now' \in {t \in {now, now + 1} : t > 0}
SendChannelMessage(c, p) == NextMessage /\ Begin(c, "post", "isMember", p, sent', now')

\* A transaction of one statement that no other call can meet.
SendDirectMessage(p, q) ==
    /\ NextMessage
    /\ rows' = rows \cup {direct(sent', p, q, now')}
    /\ UNCHANGED <<ins, del, call, streamVars>>

----------------------------------------------------------------------------
(* The statements.  A row that names the group takes a share lock on it:   *)
(* it waits for a concurrent deletion and fails once the group is gone.    *)

Group(c) == CHOOSE r \in Groups \cap Visible(c) : TRUE
SaveChild(c, r) ==
    /\ Unlocked(c, group(Owner))
    /\ Free(c, r.key)
    /\ IF Groups \cap Visible(c) = {} THEN ReturnErr(c) ELSE Insert(c, r) /\ Goto(c, "commit")

SaveGroup(c) ==
    call[c].step = "saveGroup" /\ Insert(c, group(call[c].me)) /\ Goto(c, "saveOwner")

SaveOwner(c) == call[c].step = "saveOwner" /\ SaveChild(c, member(call[c].me))

\* Mutant of Find: the owner may leave.
FindLetsOwnerLeave(c) ==
    /\ call[c].step = "find"
    /\ IF \/ Groups \cap Visible(c) = {}
          \/ call[c].op = "delete" /\ Group(c).owner # call[c].me
         THEN ReturnErr(c)
         ELSE /\ Goto(c, [delete |-> "deleteGroup", join |-> "saveMember", leave |-> "deleteMember"][call[c].op])
              /\ UNCHANGED dbVars

\* Find, and what DeleteGroup, JoinGroup and LeaveGroup check of the group.
Find(c) ==
    /\ call[c].step = "find"
    /\ IF \/ Groups \cap Visible(c) = {}
          \/ call[c].op = "delete" /\ Group(c).owner # call[c].me
          \/ call[c].op = "leave" /\ Group(c).owner = call[c].me
         THEN ReturnErr(c)
         ELSE /\ Goto(c, [delete |-> "deleteGroup", join |-> "saveMember", leave |-> "deleteMember"][call[c].op])
              /\ UNCHANGED dbVars

\* ON DELETE CASCADE.  The deletion waits for those whose rows share the group.
DeleteGroup(c) ==
    /\ call[c].step = "deleteGroup"
    /\ \A d \in Calls \ {c} : Children \cap ins[d] = {}
    /\ Write(c, (Groups \cup Children) \cap Visible(c), {})
    /\ Goto(c, "commit")

\* ON CONFLICT DO NOTHING.
SaveMember(c) ==
    /\ call[c].step = "saveMember"
    /\ IF member(call[c].me) \in Visible(c)
         THEN Free(c, member(call[c].me).key) /\ Goto(c, "commit") /\ UNCHANGED dbVars
         ELSE SaveChild(c, member(call[c].me))

DeleteMember(c) ==
    /\ call[c].step = "deleteMember"
    /\ IF member(call[c].me) \in Visible(c)
         THEN Delete(c, member(call[c].me).key) /\ Goto(c, "commit")
         ELSE ReturnErr(c)

IsMember(c) ==
    /\ call[c].step = "isMember"
    /\ IF member(call[c].me) \in Visible(c)
         THEN Goto(c, "saveMessage") /\ UNCHANGED dbVars ELSE ReturnErr(c)

SaveChannelMessage(c) ==
    /\ call[c].step = "saveMessage"
    /\ SaveChild(c, message(call[c].n, call[c].me, call[c].at))

\* Mutant of CommitCall: the push happens before the commit.
CommitAfterPush(c) ==
    /\ call[c].step = "commit"
    /\ IF call[c].op = "post" THEN Goto(c, "publish") /\ UNCHANGED dbVars ELSE Commit(c) /\ Return(c)

CommitCall(c) ==
    /\ call[c].step = "commit"
    /\ Commit(c)
    /\ IF call[c].op = "post" THEN Goto(c, "publish") ELSE Return(c)

\* A statement or the commit fails; once committed, a failed push is ignored.
Fail(c) == call[c] # NoCall /\ ReturnErr(c)

----------------------------------------------------------------------------
(* Publish and the subscriptions' loop of XREAD BLOCK.                     *)

Entries(s) == {i \in (sub[s].from + 1)..Len(log) : i > gone}
\* What XREAD answers: the first of them, oldest first.
Batch(s) ==
    LET read == Max({sub[s].from, gone})
    IN [k \in 1..Min({ReadCount, Len(log) - read}) |-> read + k]
\* A blocked XREAD is served by the XADD it waits for.
Served == \A s \in Subs : sub[s].st = "blocked" => Entries(s) = {}

\* XADD, which may trim what exceeds MAXLEN ~, and EXPIRE.
Publish(c) ==
    /\ call[c].step = "publish" /\ Served
    /\ log' = Append(log, call[c].n)
    /\ gone' \in {gone, Max({gone, Len(log) + 1 - StreamMaxLen})}
    /\ call' = [call EXCEPT ![c] = NoCall]
    /\ UNCHANGED <<dbVars, sent, now, sub>>

StreamExpires ==
    /\ gone < Len(log) /\ Served
    /\ gone' = Len(log)
    /\ UNCHANGED <<dbVars, call, sent, now, log, sub>>

rest == <<dbVars, call, sent, now, log, gone>>

\* last = 0 stands for "$".
Subscribe(s, p) ==
    /\ sub[s] = NoSub
    /\ member(p) \in rows
    /\ sub' = [sub EXCEPT ![s] = [st |-> "idle", last |-> 0, from |-> 0, batch |-> <<>>,
                                  buf |-> <<>>, prev |-> 0, lagged |-> FALSE]]
    /\ UNCHANGED rest

\* Mutant of XRead: every read starts at "$".
XReadFromEnd(s) ==
    /\ sub[s].st = "idle"
    /\ sub' = [sub EXCEPT ![s].st = "blocked", ![s].from = Len(log)]
    /\ UNCHANGED rest

XRead(s) ==
    /\ sub[s].st = "idle"
    /\ sub' = [sub EXCEPT ![s].st = "blocked",
                          ![s].from = IF sub[s].last = 0 THEN Len(log) ELSE sub[s].last]
    /\ UNCHANGED rest

\* Mutant of XReadReturns: the loop goes on from where it has just read.
XReadForgets(s) ==
    /\ sub[s].st = "blocked" /\ Entries(s) # {}
    /\ sub' = [sub EXCEPT ![s].st = "pushing", ![s].from = 0, ![s].batch = Batch(s),
                          ![s].last = sub[s].from]
    /\ UNCHANGED rest

XReadReturns(s) ==
    /\ sub[s].st = "blocked" /\ Entries(s) # {}
    /\ sub' = [sub EXCEPT ![s].st = "pushing", ![s].from = 0, ![s].batch = Batch(s),
                          ![s].last = Batch(s)[Len(Batch(s))],
                          ![s].lagged = @ \/ gone > sub[s].from]
    /\ UNCHANGED rest

BlockTimeout(s) ==
    /\ sub[s].st = "blocked" /\ Entries(s) = {}
    /\ sub' = [sub EXCEPT ![s].st = "idle", ![s].from = 0]
    /\ UNCHANGED rest

XReadFails(s) ==
    /\ sub[s].st = "blocked"
    /\ sub' = [sub EXCEPT ![s].st = "closed"]
    /\ UNCHANGED rest

Push(s) ==
    /\ sub[s].st = "pushing" /\ Len(sub[s].buf) < BufCap
    /\ sub' = [sub EXCEPT ![s].buf = Append(@, Head(sub[s].batch)), ![s].batch = Tail(@),
                          ![s].st = IF Len(sub[s].batch) = 1 THEN "idle" ELSE "pushing"]
    /\ UNCHANGED rest

\* stream.Send succeeds.
Send(s) ==
    /\ sub[s] # NoSub /\ sub[s].buf # <<>>
    /\ sub' = [sub EXCEPT ![s].prev = Head(sub[s].buf), ![s].buf = Tail(@)]
    /\ UNCHANGED rest

\* The client is gone or stream.Send fails; or the closed channel is drained.
Unsubscribe(s) ==
    /\ sub[s] # NoSub
    /\ sub' = [sub EXCEPT ![s] = NoSub]
    /\ UNCHANGED rest
Drained(s) == sub[s].st = "closed" /\ sub[s].buf = <<>> /\ Unsubscribe(s)

\* What each usecase does, in one transaction; a post is published after its own.
CreateTx(c) == call[c].op = "create" /\ (SaveGroup(c) \/ SaveOwner(c))
DeleteTx(c) == call[c].op = "delete" /\ (Find(c) \/ DeleteGroup(c))
JoinTx(c) == call[c].op = "join" /\ (Find(c) \/ SaveMember(c))
LeaveTx(c) == call[c].op = "leave" /\ (Find(c) \/ DeleteMember(c))
SendChannel(c) == call[c].op = "post" /\ (IsMember(c) \/ SaveChannelMessage(c) \/ Publish(c))
Statement(c) ==
    CreateTx(c) \/ DeleteTx(c) \/ JoinTx(c) \/ LeaveTx(c) \/ SendChannel(c) \/ CommitCall(c)

Reader(s) == XRead(s) \/ XReadReturns(s) \/ Push(s)
Handler(s) == Send(s) \/ Drained(s)

Next ==
    \/ \E c \in Calls : \/ CreateGroup(c)
                        \/ \E p \in Players : GroupRequest(c, p)
                        \/ \E p \in Senders : SendChannelMessage(c, p)
                        \/ Statement(c) \/ Fail(c)
    \/ \E p \in Senders, q \in Recipients : SendDirectMessage(p, q)
    \/ StreamExpires
    \/ \E s \in Subs : \/ \E p \in Players : Subscribe(s, p)
                       \/ Reader(s) \/ Handler(s) \/ BlockTimeout(s) \/ XReadFails(s) \/ Unsubscribe(s)

Spec == Init /\ [][Next]_vars

\* A subscription's two goroutines run, and its client reads what it is sent.
FairSpec == Spec /\ \A s \in Subs : WF_vars(Reader(s)) /\ WF_vars(Handler(s))

----------------------------------------------------------------------------
(* History: "newest first; the zero before means from latest".             *)

clampLimit(limit) == IF limit <= 0 THEN DefaultLimit ELSE Min({limit, MaxLimit})

\* Mutant of Older: before is inclusive.
OlderOrEqual(history, before) == {r \in history : before = 0 \/ r.at <= before}

Older(history, before) == {r \in history : before = 0 \/ r.at < before}

\* ORDER BY created_at DESC LIMIT; among equal times PostgreSQL promises no order.
Page(history, before, limit) ==
    LET older == Older(history, before)
        first(r) == {s \in older : s.at > r.at \/ (s.at = r.at /\ s.key[2] > r.key[2])}
    IN {r \in older : Cardinality(first(r)) < clampLimit(limit)}

\* ListChannelMessages and ListDirectMessages page through one of these.
ChannelHistory == Messages \cap rows
Conversation(p, q) == {r \in Directs \cap rows : r.pair = {p, q}}
Histories == {ChannelHistory} \cup {Conversation(p, q) : p \in Senders, q \in Recipients}

----------------------------------------------------------------------------

\* "Subscribers never see a write that later rolled back": a message is in the
\* stream only if it is in the history, until the group is deleted with it.
OnlyCommittedPushed ==
    Groups \cap rows # {} =>
        \A i \in 1..Len(log) : \E r \in Messages \cap rows : r.key = <<"channel_messages", log[i]>>

\* What a subscriber has been sent, in the order of the stream without a repeat,
\* and without a hole unless entries were trimmed or expired before it read them:
\* once an entry has arrived, a timeout of XREAD loses nothing.
DeliveredInOrder ==
    \A s \in Subs : sub[s] # NoSub =>
        LET seen == (IF sub[s].prev = 0 THEN <<>> ELSE <<sub[s].prev>>) \o sub[s].buf \o sub[s].batch
        IN \A i \in 1..(Len(seen) - 1) :
              seen[i] < seen[i + 1] /\ (sub[s].lagged \/ seen[i + 1] = seen[i] + 1)

\* The group's owner is a member as long as it exists (CreateGroup makes him one,
\* LeaveGroup refuses him), and no membership or message outlives the group.
GroupWhole ==
    IF Groups \cap rows = {} THEN Children \cap rows = {}
    ELSE member(Owner) \in rows

\* A page continues where the one before it stopped: what is older than the
\* oldest message of a page is what the page left out, when no two messages of
\* the history have the same time.
PagesContinue ==
    \A history \in Histories :
        history # {} /\ (\A r, s \in history : r.at = s.at => r = s) =>
            \A before \in 0..MaxMessages, limit \in 0..(MaxLimit + 1) :
                LET page == Page(history, before, limit)
                IN page # {} =>
                      Older(history, Min({r.at : r \in page})) = Older(history, before) \ page

\* A subscription that has had its first entry is sent every entry added after
\* it, unless it ends or entries were gone before it read them.
TailReachesEnd ==
    \A s \in Subs, i \in 1..MaxMessages :
        (sub[s] # NoSub /\ sub[s].st # "closed" /\ sub[s].last > 0 /\ i > sub[s].last /\ i <= Len(log))
            ~> (sub[s] = NoSub \/ i <= gone \/ sub[s].prev >= i \/ sub[s].st = "closed")
=============================================================================
