-------------------------------- MODULE Auth --------------------------------
(***************************************************************************)
(* AuthService: logins that find or create a player, identity linking,     *)
(* refresh token rotation, logout and profile updates.                     *)
(*                                                                         *)
(* A call is one RPC and happens once; one action is one SQL statement of  *)
(* its transaction.  Any statement, and the commit, may fail.              *)
(***************************************************************************)
EXTENDS Postgres

CONSTANTS
    Devices,          \* device ids of anonymous logins
    Accounts,         \* verified OIDC identities: provider and subject
    Nicknames,
    NoName,           \* a nil nickname
    Blank,            \* a nickname validateNickname rejects
    Nil,              \* a nil device id, or an argument the call does not have
    First,            \* a login made before the calls, with FirstDevice
    FirstDevice,
    Ops               \* the RPCs the clients use

Subjects == Devices \cup Accounts

\* Player ids and refresh tokens are random and never drawn twice; those a call
\* draws are named after it.
Players == Calls \cup {First}
Tokens == Calls \cup {First}

ASSUME FirstAssumption == First \notin Calls /\ FirstDevice \in Devices
ASSUME NilAssumption == Nil \notin Players \cup Subjects \cup Nicknames
ASSUME OpsAssumption == Ops \subseteq {"login", "link", "refresh", "logout", "profile"}

playerRow(p, n) == [key |-> <<"players", p>>, nickname |-> n]
identityRow(s, p) == [key |-> <<"player_identities", s>>, player |-> p]
tokenRow(t, p, revoked) ==
    [key |-> <<"refresh_tokens", t>>, player |-> p, revoked |-> revoked]

VARIABLE call         \* each call's request, the statement it issues next, then its result
vars == <<dbVars, call>>

Results == {"ok", "err", "ErrInvalidCredential", "ErrIdentityAlreadyLinked",
            "ErrRefreshTokenInvalid", "ErrInvalidNickname"}
Steps == {"new", "verify", "find", "create", "saveIdentity", "findToken", "revoke", "issue",
          "snapshot", "revokeAll", "getPlayer", "savePlayer", "commit"} \cup Results
NoRequest == [op |-> "none", step |-> "new", subject |-> Nil, player |-> Nil, token |-> Nil,
              nickname |-> Nil, issued |-> Nil, retried |-> FALSE, todo |-> {}, held |-> {}]

Done(c) == call[c].step \in Results
Tables == {playerRow(p, n) : p \in Players, n \in Nicknames \cup {NoName}}
          \cup {identityRow(s, p) : s \in Subjects \cup Players, p \in Players}
          \cup {tokenRow(t, p, b) : t \in Tokens, p \in Players, b \in BOOLEAN}

TypeOK ==
    /\ rows \subseteq Tables
    /\ KeysUnique
    /\ ins \in [Calls -> SUBSET Tables]
    /\ del \in [Calls -> SUBSET Tables]
    /\ \A c \in Calls :
          /\ call[c].op \in Ops \cup {"none"}
          /\ call[c].step \in Steps
          /\ call[c].subject \in Subjects \cup Players \cup {Nil}
          /\ call[c].player \in Players \cup {Nil}
          /\ call[c].token \in Tokens \cup {Nil}
          /\ call[c].issued \in Tokens \cup {Nil}
          /\ call[c].nickname \in Nicknames \cup {NoName, Blank, Nil}
          /\ call[c].retried \in BOOLEAN
          /\ call[c].todo \subseteq Tokens
          /\ call[c].held \subseteq Tokens

Init ==
    /\ DbInit({playerRow(First, NoName),
               identityRow(FirstDevice, First),
               tokenRow(First, First, FALSE)})
    /\ call = [c \in Calls |-> NoRequest]

----------------------------------------------------------------------------
(* The handlers.  A client knows the tokens its calls returned, and the    *)
(* access token of a login or a refresh authenticates the player.          *)

GoodIssue == {c \in Calls : call[c].op \in {"login", "refresh"} /\ call[c].step = "ok"}
KnownTokens == {First} \cup {call[c].issued : c \in GoodIssue}
Authenticated == {First} \cup {call[c].player : c \in GoodIssue}
Committed(t) == \E p \in Players, b \in BOOLEAN : tokenRow(t, p, b) \in rows
TokensOf(p) == {t \in Tokens : \E b \in BOOLEAN : tokenRow(t, p, b) \in rows}

Receive(c, request) ==
    /\ call[c] = NoRequest
    /\ request.op \in Ops
    /\ call' = [call EXCEPT ![c] = request]
    /\ UNCHANGED dbVars

\* Anonymous, with or without a device id, or with an OIDC identity.
Login(c) ==
    \/ \E s \in Subjects :
          Receive(c, [NoRequest EXCEPT !.op = "login", !.subject = s,
                                       !.step = IF s \in Accounts THEN "verify" ELSE "find"])
    \/ Receive(c, [NoRequest EXCEPT !.op = "login", !.step = "create"])

LinkIdentity(c) == \E p \in Authenticated, s \in Accounts :
    Receive(c, [NoRequest EXCEPT !.op = "link", !.step = "verify", !.subject = s, !.player = p])

Refresh(c) == \E t \in KnownTokens :
    Receive(c, [NoRequest EXCEPT !.op = "refresh", !.step = "findToken", !.token = t])

Logout(c) == \E p \in Authenticated :
    Receive(c, [NoRequest EXCEPT !.op = "logout", !.step = "snapshot", !.player = p,
                                 !.held = TokensOf(p)])

UpdateProfile(c) == \E p \in Authenticated, n \in Nicknames \cup {Blank, Nil} :
    Receive(c, [NoRequest EXCEPT !.op = "profile", !.step = "getPlayer", !.player = p,
                                 !.nickname = n])

Request(c) == Login(c) \/ LinkIdentity(c) \/ Refresh(c) \/ Logout(c) \/ UpdateProfile(c)

Goto(c, step) == call' = [call EXCEPT ![c].step = step]

\* The transaction's function returns an error: RW rolls back and returns it.
ReturnErr(c, err) == Rollback(c) /\ Goto(c, err)

----------------------------------------------------------------------------
(* Login: runLoginTx over findOrCreatePlayer or findOrCreateByIdentity.    *)

IdentityOf(c) == <<"player_identities", call[c].subject>>

\* The ID token is checked before the transaction begins; the provider may not
\* be configured, or the token bad.
Verify(c) ==
    /\ call[c].step = "verify"
    /\ Goto(c, "find") \/ Goto(c, "ErrInvalidCredential")
    /\ UNCHANGED dbVars

\* identityRepo.Find and, when it finds one, GetByID of its player.
Find(c) ==
    /\ call[c].step = "find"
    /\ IF ~Exists(c, IdentityOf(c))
         THEN Goto(c, IF call[c].op = "login" THEN "create" ELSE "saveIdentity") /\ UNCHANGED dbVars
         ELSE LET owner == RowOf(c, IdentityOf(c)).player
              IN CASE call[c].op = "login" ->
                        /\ call' = [call EXCEPT ![c].player = owner, ![c].step = "issue"]
                        /\ UNCHANGED dbVars
                   [] call[c].op = "link" /\ owner = call[c].player -> Goto(c, "commit") /\ UNCHANGED dbVars
                   [] OTHER -> ReturnErr(c, "ErrIdentityAlreadyLinked")

\* player.New and playerRepo.Save; a nil device id gets a random
\* provider_uid, as unique as the player id it is named after.
CreatePlayer(c) ==
    /\ call[c].step = "create"
    /\ \/ /\ \E n \in Nicknames \cup {NoName} : Insert(c, playerRow(c, n))
          /\ call' = [call EXCEPT ![c].player = c, ![c].step = "saveIdentity",
                                  ![c].subject = IF @ = Nil THEN c ELSE @]
       \/ call[c].subject \notin Accounts /\ ReturnErr(c, "ErrInvalidNickname")

\* Mutant of SaveIdentity: the loser of the race carries on with its own player.
SaveIdentityIgnoresLoss(c) ==
    /\ call[c].step = "saveIdentity"
    /\ Free(c, IdentityOf(c))
    /\ IF Exists(c, IdentityOf(c))
         THEN UNCHANGED dbVars ELSE Insert(c, identityRow(call[c].subject, call[c].player))
    /\ Goto(c, IF call[c].op = "login" THEN "issue" ELSE "commit")

\* Mutant of SaveIdentity: without the unique index the last writer owns the identity.
SaveIdentityOverwrites(c) ==
    /\ call[c].step = "saveIdentity"
    /\ Upsert(c, identityRow(call[c].subject, call[c].player))
    /\ Goto(c, IF call[c].op = "login" THEN "issue" ELSE "commit")

\* identityRepo.Save: the unique (provider, provider_uid) index makes a
\* concurrent insert wait and then fail; runLoginTx runs a login once more.
SaveIdentity(c) ==
    /\ call[c].step = "saveIdentity"
    /\ Free(c, IdentityOf(c))
    /\ \/ /\ ~Exists(c, IdentityOf(c))
          /\ Insert(c, identityRow(call[c].subject, call[c].player))
          /\ Goto(c, IF call[c].op = "login" THEN "issue" ELSE "commit")
       \/ /\ Exists(c, IdentityOf(c))
          /\ call[c].op = "login" /\ ~call[c].retried
          /\ Rollback(c)
          /\ call' = [call EXCEPT ![c].step = "find", ![c].retried = TRUE, ![c].player = Nil]
       \/ /\ Exists(c, IdentityOf(c))
          /\ call[c].op = "link" \/ call[c].retried
          /\ ReturnErr(c, "ErrIdentityAlreadyLinked")

\* issueTokens, the last statement of a login or a refresh.
issueTokens(c) ==
    /\ call[c].step = "issue"
    /\ Insert(c, tokenRow(c, call[c].player, FALSE))
    /\ call' = [call EXCEPT ![c].issued = c, ![c].step = "commit"]

----------------------------------------------------------------------------
(* Refresh and Logout.                                                     *)

TokenKey(t) == <<"refresh_tokens", t>>

\* FindByHash skips revoked and expired tokens; any token may have expired by now.
FindByHash(c) ==
    /\ call[c].step = "findToken"
    /\ \/ /\ Exists(c, TokenKey(call[c].token))
          /\ ~RowOf(c, TokenKey(call[c].token)).revoked
          /\ call' = [call EXCEPT ![c].player = RowOf(c, TokenKey(call[c].token)).player,
                                  ![c].step = "revoke"]
          /\ UNCHANGED dbVars
       \/ ReturnErr(c, "ErrRefreshTokenInvalid")

\* Mutant of Revoke: the UPDATE is not conditional on revoked_at IS NULL.
RevokeUnconditional(c) ==
    /\ call[c].step = "revoke"
    /\ Upsert(c, tokenRow(call[c].token, call[c].player, TRUE))
    /\ Goto(c, "issue")

\* The UPDATE waits for a concurrent one and re-checks revoked_at IS NULL.
Revoke(c) ==
    /\ call[c].step = "revoke"
    /\ Free(c, TokenKey(call[c].token))
    /\ IF RowOf(c, TokenKey(call[c].token)).revoked
         THEN ReturnErr(c, "ErrRefreshTokenInvalid")
         ELSE /\ Upsert(c, tokenRow(call[c].token, call[c].player, TRUE))
              /\ Goto(c, "issue")

\* Mutant of RevokeAllSnapshot: tokens another call has locked are left alone.
RevokeAllSkipsLocked(c) ==
    /\ call[c].step = "snapshot"
    /\ call' = [call EXCEPT ![c].step = "revokeAll",
          ![c].todo = {t \in Tokens : tokenRow(t, call[c].player, FALSE) \in rows /\ Free(c, TokenKey(t))}]
    /\ UNCHANGED dbVars

\* RevokeAllForPlayer takes its snapshot of the live tokens when it starts ...
RevokeAllSnapshot(c) ==
    /\ call[c].step = "snapshot"
    /\ call' = [call EXCEPT ![c].step = "revokeAll",
          ![c].todo = {t \in Tokens : tokenRow(t, call[c].player, FALSE) \in rows}]
    /\ UNCHANGED dbVars

\* ... and updates them one by one, skipping one that a transaction it had
\* to wait for has revoked.
RevokeAllForPlayer(c) ==
    /\ call[c].step = "revokeAll"
    /\ \/ \E t \in call[c].todo :
             /\ Free(c, TokenKey(t))
             /\ call' = [call EXCEPT ![c].todo = @ \ {t}]
             /\ IF RowOf(c, TokenKey(t)).revoked
                  THEN UNCHANGED dbVars ELSE Upsert(c, tokenRow(t, call[c].player, TRUE))
       \/ call[c].todo = {} /\ Goto(c, "commit") /\ UNCHANGED dbVars

----------------------------------------------------------------------------
(* UpdateProfile reads the player, changes it and saves it whole.          *)

PlayerKey(c) == <<"players", call[c].player>>

\* GetByID and SetNickname; a nil argument keeps the nickname just read.
SetNickname(c) ==
    /\ call[c].step = "getPlayer"
    /\ IF call[c].nickname = Blank
         THEN ReturnErr(c, "ErrInvalidNickname")
         ELSE /\ call' = [call EXCEPT ![c].step = "savePlayer",
                             ![c].nickname = IF @ = Nil THEN RowOf(c, PlayerKey(c)).nickname ELSE @]
              /\ UNCHANGED dbVars

SavePlayer(c) ==
    /\ call[c].step = "savePlayer"
    /\ Upsert(c, playerRow(call[c].player, call[c].nickname))
    /\ Goto(c, "commit")

----------------------------------------------------------------------------

Return(c) == call[c].step = "commit" /\ Commit(c) /\ Goto(c, "ok")

\* A statement or the commit fails, or the commit's acknowledgement is lost.
Fail(c) ==
    /\ call[c].step \notin Results \cup {"new", "verify"}
    /\ \/ ReturnErr(c, "err")
       \/ call[c].step = "commit" /\ Commit(c) /\ Goto(c, "err")

\* The rows and index entries a call's next statement may have to wait for.
Wants == [c \in Calls |->
    CASE call[c].step = "saveIdentity" -> {IdentityOf(c)}
      [] call[c].step = "revoke" -> {TokenKey(call[c].token)}
      [] call[c].step = "revokeAll" -> {TokenKey(t) : t \in call[c].todo}
      [] call[c].step = "savePlayer" -> {PlayerKey(c)}
      [] OTHER -> {}]

\* PostgreSQL ends a deadlock by failing one of its statements.
DeadlockAbort(c) == InDeadlock(c, Wants) /\ ReturnErr(c, "err")

\* The statements of each usecase, in one transaction.
findOrCreatePlayer(c) == Find(c) \/ CreatePlayer(c) \/ SaveIdentity(c)
LoginTx(c) == call[c].op = "login" /\ (Verify(c) \/ findOrCreatePlayer(c) \/ issueTokens(c))
LinkTx(c) == call[c].op = "link" /\ (Verify(c) \/ Find(c) \/ SaveIdentity(c))
RefreshTx(c) == call[c].op = "refresh" /\ (FindByHash(c) \/ Revoke(c) \/ issueTokens(c))
LogoutTx(c) == call[c].op = "logout" /\ (RevokeAllSnapshot(c) \/ RevokeAllForPlayer(c))
UpdateProfileTx(c) == call[c].op = "profile" /\ (SetNickname(c) \/ SavePlayer(c))

Step(c) ==
    \/ LoginTx(c) \/ LinkTx(c) \/ RefreshTx(c) \/ LogoutTx(c) \/ UpdateProfileTx(c)
    \/ Return(c) \/ DeadlockAbort(c)

Next == \E c \in Calls : Request(c) \/ Step(c) \/ Fail(c)
Spec == Init /\ [][Next]_vars

----------------------------------------------------------------------------
(* Properties.                                                             *)

\* Concurrent first logins "never leave an orphan player": a committed player
\* always has an identity that leads back to it, whichever insert lost.
NoOrphanPlayer ==
    \A r \in rows : r.key[1] = "players" =>
        \E s \in Subjects \cup Players : identityRow(s, r.key[2]) \in rows

\* "The same provider account always maps to the same Player": the player a
\* login or a link reported owns the identity, then and ever after, so any two
\* of them report the same one; and the login that loses the race to create the
\* player finds the winner's on its one retry instead of failing.
IdentityKept ==
    \A c \in Calls :
        /\ call[c].op \in {"login", "link"} /\ call[c].step = "ok" =>
              identityRow(call[c].subject, call[c].player) \in rows
        /\ call[c].op = "login" => call[c].step # "ErrIdentityAlreadyLinked"

\* "The old one is revoked atomically with the issue of the new pair": of the
\* calls that race to exchange a refresh token at most one has its new token
\* committed, and wherever a call failed, a token is only ever found revoked
\* together with its successor or after a Logout.
RotationExact ==
    LET successors(t) == {c \in Calls :
            call[c].op = "refresh" /\ call[c].token = t /\ Committed(call[c].issued)}
    IN \A t \in Tokens :
          /\ Cardinality(successors(t)) <= 1
          /\ \A p \in Players : tokenRow(t, p, TRUE) \in rows =>
                successors(t) # {} \/ \E c \in Calls :
                    call[c].op = "logout" /\ call[c].player = p /\ Done(c)

\* After a successful Logout every token the player had when it began is
\* revoked for good, whatever refreshed one of them meanwhile.
LogoutRevokes ==
    \A c \in Calls : call[c].op = "logout" /\ call[c].step = "ok" =>
        \A t \in call[c].held : tokenRow(t, call[c].player, FALSE) \notin rows
=============================================================================
