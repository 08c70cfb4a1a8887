------------------------------- MODULE Social -------------------------------
(***************************************************************************)
(* SocialService: friend requests, friendships and blocks, as rows that    *)
(* several calls of both players change in concurrent transactions.  One   *)
(* action is one SQL statement.                                            *)
(***************************************************************************)
EXTENDS Postgres

CONSTANT Players

\* A friendship is stored once, whoever asked: OrderPair makes a pair a set.
request(p, q) == [key |-> <<"friend_requests", p, q>>]
friendship(p, q) == [key |-> <<"friendships", {p, q}>>]
block(p, q) == [key |-> <<"player_blocks", p, q>>]

VARIABLES
    call,             \* the RPC each call handler runs and the statement it issues next
    raced             \* pairs for which a request or an acceptance met another call, see Races
vars == <<dbVars, call, raced>>

NoCall == [op |-> "none", step |-> "none"]
RequestOps == {"send", "accept", "decline", "cancel"}
RelationOps == {"remove", "block", "unblock"}
Ops == RequestOps \cup RelationOps
Steps == {"isBlocked", "friends", "reverse", "forward", "saveRequest", "deleteIncoming",
          "deleteOutgoing", "saveFriendship", "deleteFriendship", "saveBlock", "deleteBlock",
          "commit"}
Pairs == {x \in SUBSET Players : Cardinality(x) = 2}
Tables == UNION {{request(p, q), friendship(p, q), block(p, q)} : p, q \in Players}

TypeOK ==
    /\ rows \subseteq Tables
    /\ ins \in [Calls -> SUBSET Tables]
    /\ del \in [Calls -> SUBSET Tables]
    /\ call \in [Calls -> {NoCall} \cup [op : Ops, step : Steps, me : Players, other : Players]]
    /\ raced \subseteq Pairs

Init ==
    /\ DbInit({})
    /\ call = [c \in Calls |-> NoCall]
    /\ raced = {}

----------------------------------------------------------------------------
(* The handlers.  A call that names the caller himself changes nothing.    *)

FirstStep == [send |-> "isBlocked", accept |-> "deleteIncoming", decline |-> "deleteIncoming",
              cancel |-> "deleteOutgoing", remove |-> "deleteFriendship", block |-> "saveBlock",
              unblock |-> "deleteBlock"]

\* The overlaps under which two calls can each miss what the other writes.
Races(op1, op2) ==
    \/ op1 \in {"send", "accept"} /\ op2 \in {"send", "accept", "block"}
    \/ op1 = "block" /\ op2 \in {"send", "accept"}
InFlight(p, q) == {c \in Calls : call[c] # NoCall /\ {call[c].me, call[c].other} = {p, q}}

Receive(c, op, p, q) ==
    /\ call[c] = NoCall
    /\ p # q
    /\ call' = [call EXCEPT ![c] = [op |-> op, step |-> FirstStep[op], me |-> p, other |-> q]]
    /\ raced' = IF \E d \in InFlight(p, q) : Races(op, call[d].op)
                  THEN raced \cup {{p, q}} ELSE raced
    /\ UNCHANGED dbVars

FriendRequestCall(c, p, q) == \E op \in RequestOps : Receive(c, op, p, q)
RelationCall(c, p, q) == \E op \in RelationOps : Receive(c, op, p, q)

Goto(c, step) == call' = [call EXCEPT ![c].step = step] /\ UNCHANGED raced
Return(c) == call' = [call EXCEPT ![c] = NoCall] /\ UNCHANGED raced

\* Mutant of ReturnErr: the transaction is not rolled back.
ReturnErrLeaks(c) == UNCHANGED dbVars /\ Return(c)

ReturnErr(c) == Rollback(c) /\ Return(c)

----------------------------------------------------------------------------
(* SendFriendRequest's checks, each a statement with a snapshot of its own *)

IsBlocked(c) ==
    LET p == call[c].me  q == call[c].other
    IN /\ call[c].step = "isBlocked"
       /\ IF {block(p, q), block(q, p)} \cap Visible(c) # {}
            THEN ReturnErr(c) ELSE Goto(c, "friends") /\ UNCHANGED dbVars

FriendsExist(c) ==
    /\ call[c].step = "friends"
    /\ IF friendship(call[c].me, call[c].other) \in Visible(c)
         THEN ReturnErr(c) ELSE Goto(c, "reverse") /\ UNCHANGED dbVars

ReverseExists(c) ==
    /\ call[c].step = "reverse"
    /\ Goto(c, IF request(call[c].other, call[c].me) \in Visible(c)
                 THEN "deleteIncoming" ELSE "forward")
    /\ UNCHANGED dbVars

ForwardExists(c) ==
    /\ call[c].step = "forward"
    /\ IF request(call[c].me, call[c].other) \in Visible(c)
         THEN ReturnErr(c) ELSE Goto(c, "saveRequest") /\ UNCHANGED dbVars

----------------------------------------------------------------------------
(* The writes.  Save is a plain INSERT: it waits for a concurrent one of   *)
(* the same key and fails on a duplicate.                                  *)

SaveOr(c, r, next) ==
    /\ Free(c, r.key)
    /\ IF r \in Visible(c) THEN ReturnErr(c) ELSE Insert(c, r) /\ Goto(c, next)

SaveRequest(c) ==
    call[c].step = "saveRequest" /\ SaveOr(c, request(call[c].me, call[c].other), "commit")

SaveFriendship(c) ==
    call[c].step = "saveFriendship" /\ SaveOr(c, friendship(call[c].me, call[c].other), "commit")

\* BlockPlayer inserts ON CONFLICT DO NOTHING.
SaveBlock(c) ==
    LET b == block(call[c].me, call[c].other)
    IN /\ call[c].step = "saveBlock"
       /\ Free(c, b.key)
       /\ IF b \in Visible(c) THEN UNCHANGED dbVars ELSE Insert(c, b)
       /\ Goto(c, "deleteFriendship")

\* A DELETE of the row r; only BlockPlayer and UnblockPlayer go on when there is none.
DeleteOr(c, r, next) ==
    IF r \in Visible(c)
      THEN Delete(c, r.key) /\ Goto(c, next)
      ELSE IF call[c].op \in {"block", "unblock"} THEN Goto(c, next) /\ UNCHANGED dbVars
           ELSE ReturnErr(c)

\* Mutant of DeleteIncoming: an acceptance does not care whether the request was there.
DeleteIncomingUnchecked(c) ==
    /\ call[c].step = "deleteIncoming"
    /\ Delete(c, request(call[c].other, call[c].me).key)
    /\ Goto(c, IF call[c].op \in {"send", "accept"} THEN "saveFriendship" ELSE "commit")

\* requests.Delete(other, me)
DeleteIncoming(c) ==
    /\ call[c].step = "deleteIncoming"
    /\ DeleteOr(c, request(call[c].other, call[c].me),
                IF call[c].op \in {"send", "accept"} THEN "saveFriendship" ELSE "commit")

\* Mutant of DeleteOutgoing: a block leaves the request of the blocked player.
DeleteOutgoingOnly(c) ==
    /\ call[c].step = "deleteOutgoing"
    /\ DeleteOr(c, request(call[c].me, call[c].other), "commit")

\* requests.Delete(me, other)
DeleteOutgoing(c) ==
    /\ call[c].step = "deleteOutgoing"
    /\ DeleteOr(c, request(call[c].me, call[c].other),
                IF call[c].op = "block" THEN "deleteIncoming" ELSE "commit")

DeleteFriendship(c) ==
    /\ call[c].step = "deleteFriendship"
    /\ DeleteOr(c, friendship(call[c].me, call[c].other),
                IF call[c].op = "block" THEN "deleteOutgoing" ELSE "commit")

DeleteBlock(c) ==
    /\ call[c].step = "deleteBlock"
    /\ DeleteOr(c, block(call[c].me, call[c].other), "commit")

\* The commit, whose acknowledgement may be lost; the call returns either way.
CommitCall(c) == call[c].step = "commit" /\ Commit(c) /\ Return(c)

\* A statement or the commit fails.
Fail(c) == call[c] # NoCall /\ ReturnErr(c)

\* The row or index entry a call's next statement may have to wait for.
Wants == [c \in Calls |->
    LET p == call[c].me  q == call[c].other
        visible(r) == {k \in {r.key} : r \in Visible(c)}
    IN CASE call[c].step = "saveRequest" -> {request(p, q).key}
         [] call[c].step = "saveFriendship" -> {friendship(p, q).key}
         [] call[c].step = "saveBlock" -> {block(p, q).key}
         [] call[c].step = "deleteIncoming" -> visible(request(q, p))
         [] call[c].step = "deleteOutgoing" -> visible(request(p, q))
         [] call[c].step = "deleteFriendship" -> visible(friendship(p, q))
         [] call[c].step = "deleteBlock" -> visible(block(p, q))
         [] OTHER -> {}]

\* PostgreSQL ends a deadlock by failing one of its statements.
DeadlockAbort(c) == InDeadlock(c, Wants) /\ ReturnErr(c)

\* The statements of each usecase, in one transaction.
SendTx(c) ==
    /\ call[c].op = "send"
    /\ \/ IsBlocked(c) \/ FriendsExist(c) \/ ReverseExists(c) \/ ForwardExists(c)
       \/ SaveRequest(c) \/ DeleteIncoming(c) \/ SaveFriendship(c)
AcceptTx(c) == call[c].op = "accept" /\ (DeleteIncoming(c) \/ SaveFriendship(c))
DeclineTx(c) == call[c].op = "decline" /\ DeleteIncoming(c)
CancelTx(c) == call[c].op = "cancel" /\ DeleteOutgoing(c)
RemoveTx(c) == call[c].op = "remove" /\ DeleteFriendship(c)
BlockTx(c) ==
    /\ call[c].op = "block"
    /\ SaveBlock(c) \/ DeleteFriendship(c) \/ DeleteOutgoing(c) \/ DeleteIncoming(c)
UnblockTx(c) == call[c].op = "unblock" /\ DeleteBlock(c)

Step(c) ==
    \/ SendTx(c) \/ AcceptTx(c) \/ DeclineTx(c) \/ CancelTx(c)
    \/ RemoveTx(c) \/ BlockTx(c) \/ UnblockTx(c)
    \/ CommitCall(c) \/ DeadlockAbort(c)

Next == \E c \in Calls :
    \/ \E p, q \in Players : FriendRequestCall(c, p, q) \/ RelationCall(c, p, q)
    \/ Step(c)
    \/ Fail(c)

Spec == Init /\ [][Next]_vars

\* A handler that can run does.  PostgreSQL grants a row lock to those who wait
\* for it in turn, so a call that gets its chance again and again takes it.
FairSpec == Spec /\ \A c \in Calls : SF_vars(Step(c))

----------------------------------------------------------------------------
(* What the lists show.                                                    *)

ListFriends(p) == {q \in Players : friendship(p, q) \in rows}
ListIncomingRequests(p) == {q \in Players : request(q, p) \in rows}
ListOutgoingRequests(p) == {q \in Players : request(p, q) \in rows}
ListBlocked(p) == {q \in Players : block(p, q) \in rows}

\* "A row exists only while requester -> addressee is outstanding": unless calls
\* raced, two players are at most one of friends, requester and addressee, and
\* neither when one of them blocks the other, since BlockPlayer "severs any
\* existing relationship" and a later request is refused.
OneRelation ==
    \A p, q \in Players : p # q /\ {p, q} \notin raced =>
        Cardinality({friendship(p, q), request(p, q), request(q, p)} \cap rows)
            <= (IF q \in ListBlocked(p) \cup {r \in Players : p \in ListBlocked(r)} THEN 0 ELSE 1)

\* Nobody becomes a friend without having asked or having been asked: a
\* friendship appears only in the step that consumes a pending request of the
\* pair, even when that request is being cancelled or declined.
FriendshipConsumesRequest ==
    [][\A p, q \in Players : q \in ListFriends(p)' \ ListFriends(p) =>
          q \in (ListIncomingRequests(p) \ ListIncomingRequests(p)')
                   \cup (ListOutgoingRequests(p) \ ListOutgoingRequests(p)')]_vars

\* Every call returns, however the locks of concurrent calls cross.
CallsReturn == \A c \in Calls : call[c] # NoCall ~> call[c] = NoCall
=============================================================================
