----------------------------- MODULE AuthProofs -----------------------------
(***************************************************************************)
(* Proofs about Auth, for any numbers of calls, devices and accounts.      *)
(***************************************************************************)
EXTENDS Auth, PostgresProofs, FiniteSetTheorems

Names == Nicknames \cup {NoName}

Requests == [op : Ops \cup {"none"}, step : Steps, subject : Subjects \cup Players \cup {Nil},
             player : Players \cup {Nil}, token : Tokens \cup {Nil},
             nickname : Nicknames \cup {NoName, Blank, Nil}, issued : Tokens \cup {Nil},
             retried : BOOLEAN, todo : SUBSET Tokens, held : SUBSET Tokens]

\* The rows of a refresh token; a committed player, and a committed token of a player.
LiveToken(t, p) == tokenRow(t, p, FALSE)
RevokedToken(t, p) == tokenRow(t, p, TRUE)
Live(p) == \E n \in Names : playerRow(p, n) \in rows
Holds(p, t) == RevokedToken(t, p) \in rows \/ LiveToken(t, p) \in rows

Idle(c) == ins[c] = {} /\ del[c] = {}
\* The refresh token a login or a refresh has issued.
NewToken(c) == IF call[c].step = "commit" THEN {LiveToken(c, call[c].player)} ELSE {}

----------------------------------------------------------------------------
(* How far each call is: what its transaction has written, and what it has *)
(* read that no other call can undo.                                       *)

LoginInv(c) ==
    /\ call[c].step \in {"verify", "find", "create", "saveIdentity", "issue", "commit"} \cup Results
    /\ call[c].step \in {"verify", "find", "create"} \cup Results => Idle(c)
    /\ call[c].step \notin {"create"} \cup Results => call[c].subject # Nil
    /\ call[c].step = "saveIdentity" =>
          /\ call[c].player = c
          /\ del[c] = {} /\ \E n \in Names : ins[c] = {playerRow(c, n)}
    /\ call[c].step \in {"issue", "commit"} =>
          /\ call[c].player # Nil
          /\ del[c] = {}
          /\ \/ identityRow(call[c].subject, call[c].player) \in rows /\ ins[c] = NewToken(c)
             \/ /\ call[c].player = c
                /\ \E n \in Names :
                      ins[c] = {playerRow(c, n), identityRow(call[c].subject, c)} \cup NewToken(c)
    /\ call[c].retried =>
          /\ call[c].step \notin {"verify", "create", "saveIdentity"}
          /\ call[c].step = "find" => \E p \in Players : identityRow(call[c].subject, p) \in rows
    /\ call[c].step = "ok" =>
          call[c].player # Nil /\ identityRow(call[c].subject, call[c].player) \in rows
    /\ call[c].step # "ErrIdentityAlreadyLinked"

LinkInv(c) ==
    /\ call[c].step \in {"verify", "find", "saveIdentity", "commit"} \cup Results
    /\ call[c].subject # Nil /\ call[c].player # Nil /\ Live(call[c].player)
    /\ call[c].step # "commit" => Idle(c)
    /\ call[c].step = "commit" =>
          /\ del[c] = {}
          /\ \/ identityRow(call[c].subject, call[c].player) \in rows /\ ins[c] = {}
             \/ ins[c] = {identityRow(call[c].subject, call[c].player)}
    /\ call[c].step = "ok" => identityRow(call[c].subject, call[c].player) \in rows

RefreshInv(c) ==
    /\ call[c].step \in {"findToken", "revoke", "issue", "commit"} \cup Results
    /\ call[c].token # Nil
    /\ call[c].step \in {"findToken", "revoke"} \cup Results => Idle(c)
    /\ call[c].step \in {"revoke", "issue", "commit"} =>
          call[c].player # Nil /\ Holds(call[c].player, call[c].token)
    /\ call[c].step \in {"issue", "commit"} =>
          /\ ins[c] = {RevokedToken(call[c].token, call[c].player)} \cup NewToken(c)
          /\ del[c] = {LiveToken(call[c].token, call[c].player)}
    /\ call[c].step = "ok" => call[c].player # Nil /\ Live(call[c].player)

LogoutInv(c) ==
    /\ call[c].step \in {"snapshot", "revokeAll", "commit"} \cup Results
    /\ call[c].player # Nil
    /\ \A t \in call[c].held \cup call[c].todo : Holds(call[c].player, t)
    /\ call[c].step \in {"snapshot"} \cup Results => Idle(c)
    /\ call[c].step \in {"revokeAll", "commit"} =>
          /\ \E S \in SUBSET (Tokens \ call[c].todo) :
                /\ ins[c] = {RevokedToken(t, call[c].player) : t \in S}
                /\ del[c] = {LiveToken(t, call[c].player) : t \in S}
          /\ \A t \in call[c].held : LiveToken(t, call[c].player) \in rows \ del[c] =>
                                        t \in call[c].todo
    /\ call[c].step = "commit" => call[c].todo = {}
    /\ call[c].step = "ok" =>
          \A t \in call[c].held : LiveToken(t, call[c].player) \notin rows

ProfileInv(c) ==
    /\ call[c].step \in {"getPlayer", "savePlayer", "commit"} \cup Results
    /\ call[c].player # Nil /\ Live(call[c].player)
    /\ call[c].step # "commit" => Idle(c)
    /\ call[c].step = "getPlayer" => call[c].nickname \in Nicknames \cup {Blank, Nil}
    /\ call[c].step = "savePlayer" => call[c].nickname \in Names
    /\ call[c].step = "commit" => \E m, n \in Names :
          ins[c] = {playerRow(call[c].player, m)} /\ del[c] = {playerRow(call[c].player, n)}

CallInv(c) ==
    /\ call[c].op = "none" => call[c] = NoRequest /\ Idle(c)
    /\ call[c].op = "login" => LoginInv(c)
    /\ call[c].op = "link" => LinkInv(c)
    /\ call[c].op = "refresh" => RefreshInv(c)
    /\ call[c].op = "logout" => LogoutInv(c)
    /\ call[c].op = "profile" => ProfileInv(c)
    /\ call[c].issued \in {Nil, c}
    /\ call[c].issued = c => call[c].op \in {"login", "refresh"} /\ (call[c].step = "commit" \/ Done(c))
    /\ call[c].op \in {"login", "refresh"} /\ call[c].step \in {"commit", "ok"} => call[c].issued = c

\* Every player has an identity, every identity and token has a player; the
\* player and the token a call draws appear when it is done.
RowsInv ==
    /\ Live(First)
    /\ \A p \in Players : Live(p) => \E s \in Subjects \cup Players : identityRow(s, p) \in rows
    /\ \A s \in Subjects \cup Players, p \in Players : identityRow(s, p) \in rows => Live(p)
    /\ \A t \in Tokens, p \in Players : Holds(p, t) => Live(p)
    /\ \A c \in Calls : Live(c) => Done(c)
    /\ \A c \in Calls, p \in Players : Holds(p, c) => Done(c) /\ call[c].issued = c

\* c has exchanged the token t.
Exchanged(c, t) == call[c].op = "refresh" /\ call[c].token = t /\ Committed(call[c].issued)

RotationInv ==
    \A t \in Tokens :
        /\ \A c \in Calls : Exchanged(c, t) => \E p \in Players : RevokedToken(t, p) \in rows
        /\ \A c, d \in Calls : Exchanged(c, t) /\ Exchanged(d, t) => c = d
        /\ \A p \in Players : RevokedToken(t, p) \in rows =>
              \/ \E c \in Calls : Exchanged(c, t)
              \/ \E c \in Calls : call[c].op = "logout" /\ call[c].player = p /\ Done(c)

AuthInv ==
    /\ DbType(Tables) /\ DbInv
    /\ call \in [Calls -> Requests]
    /\ \A c \in Calls : CallInv(c)
    /\ RowsInv
    /\ RotationInv
----------------------------------------------------------------------------
(* The rows.                                                               *)

\* Rows of different tables, of different keys or with different columns are
\* different; a key determines the table and the id of its row.
LEMMA PlayerIds ==
    /\ \A p, n : playerRow(p, n).key = <<"players", p>> /\ playerRow(p, n).nickname = n
    /\ \A p, n, q, m : /\ playerRow(p, n).key = playerRow(q, m).key <=> p = q
                       /\ playerRow(p, n) = playerRow(q, m) <=> p = q /\ n = m
    /\ \A p, n, s, q : /\ playerRow(p, n).key # identityRow(s, q).key
                       /\ playerRow(p, n) # identityRow(s, q)
    /\ \A p, n, t, q : /\ playerRow(p, n).key # LiveToken(t, q).key
                       /\ playerRow(p, n) # LiveToken(t, q)
    /\ \A p, n, t, q : /\ playerRow(p, n).key # RevokedToken(t, q).key
                       /\ playerRow(p, n) # RevokedToken(t, q)
  <1>1. ASSUME NEW p, NEW n
        PROVE  playerRow(p, n).key = <<"players", p>> /\ playerRow(p, n).nickname = n
    BY DEF playerRow
  <1>2. \A s, q : identityRow(s, q).key = <<"player_identities", s>>
    BY DEF identityRow
  <1>3. ASSUME NEW t, NEW q
        PROVE  /\ LiveToken(t, q).key = <<"refresh_tokens", t>>
               /\ RevokedToken(t, q).key = <<"refresh_tokens", t>>
    BY DEF tokenRow, LiveToken, RevokedToken
  <1>4. \A p, n, q, m : /\ playerRow(p, n).key = playerRow(q, m).key <=> p = q
                        /\ playerRow(p, n) = playerRow(q, m) <=> p = q /\ n = m
    BY <1>1
  <1>5. ASSUME NEW p, NEW n, NEW s, NEW q PROVE playerRow(p, n).key # identityRow(s, q).key
    BY <1>1, <1>2
  <1>6. ASSUME NEW p, NEW n, NEW t, NEW q
        PROVE  /\ playerRow(p, n).key # LiveToken(t, q).key
               /\ playerRow(p, n).key # RevokedToken(t, q).key
    BY <1>1, <1>3
  <1> QED
    BY <1>1, <1>4, <1>5, <1>6

\* The same for the identities.
LEMMA IdentityIds ==
    /\ \A s, p : identityRow(s, p).key = <<"player_identities", s>> /\ identityRow(s, p).player = p
    /\ \A s, p, u, q : /\ identityRow(s, p).key = identityRow(u, q).key <=> s = u
                       /\ identityRow(s, p) = identityRow(u, q) <=> s = u /\ p = q
    /\ \A s, p, t, q : /\ identityRow(s, p).key # LiveToken(t, q).key
                       /\ identityRow(s, p) # LiveToken(t, q)
    /\ \A s, p, t, q : /\ identityRow(s, p).key # RevokedToken(t, q).key
                       /\ identityRow(s, p) # RevokedToken(t, q)
  <1>1. ASSUME NEW s, NEW p
        PROVE  identityRow(s, p).key = <<"player_identities", s>> /\ identityRow(s, p).player = p
    BY DEF identityRow
  <1>2. ASSUME NEW t, NEW q
        PROVE  /\ LiveToken(t, q).key = <<"refresh_tokens", t>>
               /\ RevokedToken(t, q).key = <<"refresh_tokens", t>>
    BY DEF tokenRow, LiveToken, RevokedToken
  <1>3. \A s, p, u, q : /\ identityRow(s, p).key = identityRow(u, q).key <=> s = u
                        /\ identityRow(s, p) = identityRow(u, q) <=> s = u /\ p = q
    BY <1>1
  <1>4. ASSUME NEW s, NEW p, NEW t, NEW q
        PROVE  /\ identityRow(s, p).key # LiveToken(t, q).key
               /\ identityRow(s, p).key # RevokedToken(t, q).key
    BY <1>1, <1>2
  <1> QED
    BY <1>1, <1>3, <1>4

\* The same for the refresh tokens.
LEMMA TokenIds ==
    /\ \A t, p : /\ LiveToken(t, p).key = TokenKey(t) /\ RevokedToken(t, p).key = TokenKey(t)
                 /\ LiveToken(t, p).player = p /\ RevokedToken(t, p).player = p
                 /\ ~LiveToken(t, p).revoked /\ RevokedToken(t, p).revoked
    /\ \A t, u : TokenKey(t) = TokenKey(u) <=> t = u
    /\ \A t, p, u, q : LiveToken(t, p) = LiveToken(u, q) <=> t = u /\ p = q
    /\ \A t, p, u, q : RevokedToken(t, p) = RevokedToken(u, q) <=> t = u /\ p = q
    /\ \A t, p, u, q : LiveToken(t, p) # RevokedToken(u, q)
  <1>1. ASSUME NEW t, NEW p
        PROVE  /\ LiveToken(t, p).key = TokenKey(t) /\ RevokedToken(t, p).key = TokenKey(t)
               /\ LiveToken(t, p).player = p /\ RevokedToken(t, p).player = p
               /\ ~LiveToken(t, p).revoked /\ RevokedToken(t, p).revoked
    BY DEF LiveToken, RevokedToken, tokenRow, TokenKey
  <1>2. \A t, u : TokenKey(t) = TokenKey(u) <=> t = u
    BY DEF TokenKey
  <1>3. \A t, p, u, q : LiveToken(t, p) = LiveToken(u, q) <=> t = u /\ p = q
    BY <1>1, <1>2
  <1>4. \A t, p, u, q : RevokedToken(t, p) = RevokedToken(u, q) <=> t = u /\ p = q
    BY <1>1, <1>2
  <1>5. \A t, p, u, q : LiveToken(t, p) # RevokedToken(u, q)
    BY <1>1
  <1> QED
    BY <1>1, <1>2, <1>3, <1>4, <1>5

\* What a table holds.
LEMMA TableRows ==
    ASSUME NEW r \in Tables
    PROVE  \/ \E p \in Players, n \in Names : r = playerRow(p, n)
           \/ \E s \in Subjects \cup Players, p \in Players : r = identityRow(s, p)
           \/ \E t \in Tokens, p \in Players : r = LiveToken(t, p) \/ r = RevokedToken(t, p)
  <1> DEFINE A == \E p \in Players, n \in Names : r = playerRow(p, n)
  <1> DEFINE B == \E s \in Subjects \cup Players, p \in Players : r = identityRow(s, p)
  <1> DEFINE C == \E t \in Tokens, p \in Players : r = LiveToken(t, p) \/ r = RevokedToken(t, p)
  <1>1. r \in {playerRow(p, n) : p \in Players, n \in Nicknames \cup {NoName}} => A
    BY DEF Names
  <1>2. r \in {identityRow(s, p) : s \in Subjects \cup Players, p \in Players} => B
    OBVIOUS
  <1>3. r \in {tokenRow(t, p, b) : t \in Tokens, p \in Players, b \in BOOLEAN} => C
    BY DEF tokenRow, LiveToken, RevokedToken
  <1> HIDE DEF A, B, C
  <1>4. A \/ B \/ C
    BY <1>1, <1>2, <1>3 DEF Tables
  <1> QED
    BY <1>4 DEF A, B, C

\* The rows of the model's tables.
LEMMA InTables ==
    /\ \A p \in Players, n \in Names : playerRow(p, n) \in Tables
    /\ \A s \in Subjects \cup Players, p \in Players : identityRow(s, p) \in Tables
    /\ \A t \in Tokens, p \in Players : LiveToken(t, p) \in Tables /\ RevokedToken(t, p) \in Tables
  <1>1. \A p \in Players, n \in Names : playerRow(p, n) \in Tables
    BY DEF Tables, Names
  <1>2. \A s \in Subjects \cup Players, p \in Players : identityRow(s, p) \in Tables
    BY DEF Tables
  <1>3. ASSUME NEW t \in Tokens, NEW p \in Players
        PROVE  LiveToken(t, p) \in Tables /\ RevokedToken(t, p) \in Tables
    <2> DEFINE U == {tokenRow(u, q, b) : u \in Tokens, q \in Players, b \in BOOLEAN}
    <2>1. LiveToken(t, p) \in U /\ RevokedToken(t, p) \in U
      <3>1. \A b \in BOOLEAN : tokenRow(t, p, b) \in U
        OBVIOUS
      <3> HIDE DEF U
      <3>2. tokenRow(t, p, TRUE) \in U /\ tokenRow(t, p, FALSE) \in U
        BY ONLY <3>1, Zenon
      <3> QED
        BY <3>2 DEF LiveToken, RevokedToken
    <2>2. U \subseteq Tables
      BY DEF Tables
    <2> HIDE DEF U
    <2> QED
      BY <2>1, <2>2
  <1> QED
    BY <1>1, <1>2, <1>3

\* Only rows of known ids are in the tables.
LEMMA TableIds ==
    /\ \A p, n : playerRow(p, n) \in Tables => p \in Players /\ n \in Names
    /\ \A s, p : identityRow(s, p) \in Tables => s \in Subjects \cup Players /\ p \in Players
    /\ \A t, p : LiveToken(t, p) \in Tables \/ RevokedToken(t, p) \in Tables =>
                    t \in Tokens /\ p \in Players
  <1>1. ASSUME NEW p, NEW n, playerRow(p, n) \in Tables PROVE p \in Players /\ n \in Names
    BY <1>1, TableRows, PlayerIds
  <1>2. ASSUME NEW s, NEW p, identityRow(s, p) \in Tables
        PROVE  s \in Subjects \cup Players /\ p \in Players
    BY <1>2, TableRows, PlayerIds, IdentityIds
  <1>3. ASSUME NEW t, NEW p, LiveToken(t, p) \in Tables \/ RevokedToken(t, p) \in Tables
        PROVE  t \in Tokens /\ p \in Players
    <2>1. PICK r \in Tables : r = LiveToken(t, p) \/ r = RevokedToken(t, p)
      BY <1>3
    <2> QED
      BY <2>1, TableRows, PlayerIds, IdentityIds, TokenIds
  <1> QED
    BY <1>1, <1>2, <1>3

\* Committed is about the two rows a token can have.
LEMMA CommittedIs ==
    \A t : Committed(t) <=> \E p \in Players : Holds(p, t)
  BY DEF Committed, Holds, LiveToken, RevokedToken

----------------------------------------------------------------------------
(* Steps that change one call and leave the tables alone.                  *)

\* Nothing the other calls rely on is ever taken back: identities, players and
\* tokens stay, and a revoked token stays revoked.
Grows ==
    /\ \A s, p : identityRow(s, p) \in rows => identityRow(s, p) \in rows'
    /\ \A p : Live(p) => Live(p)'
    /\ \A t, p : Holds(p, t) => Holds(p, t)'
    /\ \A t, p : Holds(p, t) /\ LiveToken(t, p) \in rows' => LiveToken(t, p) \in rows

\* The other calls keep what they have written and read.
LEMMA OtherCalls ==
    ASSUME NEW d \in Calls, CallInv(d), Grows,
           call'[d] = call[d], ins'[d] = ins[d], del'[d] = del[d]
    PROVE  CallInv(d)'
  <1>1. LoginInv(d) => LoginInv(d)'
    BY DEF LoginInv, Grows, Idle, NewToken
  <1>2. LinkInv(d) => LinkInv(d)'
    BY DEF LinkInv, Grows, Idle, Live
  <1>3. RefreshInv(d) => RefreshInv(d)'
    BY DEF RefreshInv, Grows, Idle, Live, Holds, NewToken
  <1>4. LogoutInv(d) => LogoutInv(d)'
    BY DEF LogoutInv, Grows, Idle, Holds
  <1>5. ProfileInv(d) => ProfileInv(d)'
    BY DEF ProfileInv, Grows, Idle, Live
  <1>6. Idle(d)' <=> Idle(d)
    BY DEF Idle
  <1>7. Done(d)' <=> Done(d)
    BY DEF Done
  <1> QED
    BY <1>1, <1>2, <1>3, <1>4, <1>5, <1>6, <1>7 DEF CallInv

\* A nil token is never committed, and a token only when its call is done.
LEMMA NotCommitted ==
    ASSUME AuthInv
    PROVE  ~Committed(Nil) /\ \A c \in Calls : ~Done(c) => ~Committed(c)
  <1>1. \A p \in Players : ~Holds(p, Nil)
    BY TableIds, NilAssumption DEF AuthInv, DbType, Holds, Tokens, Players
  <1> QED
    BY <1>1, CommittedIs DEF AuthInv, RowsInv

\* A statement of a call, which commits nothing.
LEMMA StatementStep ==
    ASSUME AuthInv, NEW c \in Calls, ~Done(c), UNCHANGED rows, DbType(Tables)', DbInv',
           \A d \in Calls : d # c => ins'[d] = ins[d] /\ del'[d] = del[d] /\ call'[d] = call[d],
           call' \in [Calls -> Requests], CallInv(c)'
    PROVE  AuthInv'
  <1>1. Grows
    BY DEF Grows, Live, Holds
  <1>2. \A d \in Calls : CallInv(d)'
    BY <1>1, OtherCalls DEF AuthInv
  <1>3. \A p, t : (Live(p)' <=> Live(p)) /\ (Holds(p, t)' <=> Holds(p, t))
    BY DEF Live, Holds
  <1>4. \A d \in Calls : d # c => (Done(d)' <=> Done(d))
    BY DEF Done
  <1>5. \A p \in Players : ~Live(c) /\ ~Holds(p, c)
    BY DEF AuthInv, RowsInv
  <1>6. RowsInv'
    <2>1. \A p \in Players : Live(p)' => \E s \in Subjects \cup Players : identityRow(s, p) \in rows'
      BY <1>3 DEF AuthInv, RowsInv
    <2>2. \A s \in Subjects \cup Players, p \in Players : identityRow(s, p) \in rows' => Live(p)'
      BY <1>3 DEF AuthInv, RowsInv
    <2>3. \A t \in Tokens, p \in Players : Holds(p, t)' => Live(p)'
      BY <1>3 DEF AuthInv, RowsInv
    <2>4. \A d \in Calls : Live(d)' => Done(d)'
      BY <1>3, <1>4, <1>5 DEF AuthInv, RowsInv
    <2>5. \A d \in Calls, p \in Players : Holds(p, d)' => Done(d)' /\ call'[d].issued = d
      BY <1>3, <1>4, <1>5 DEF AuthInv, RowsInv
    <2>6. Live(First)'
      BY <1>3 DEF AuthInv, RowsInv
    <2> QED
      BY <2>1, <2>2, <2>3, <2>4, <2>5, <2>6 DEF RowsInv
  <1>7. RotationInv'
    <2>1. \A t : Committed(t)' <=> Committed(t)
      BY DEF Committed
    <2>2. \A t : \A d \in Calls : d # c => (Exchanged(d, t)' <=> Exchanged(d, t))
      BY <2>1 DEF Exchanged, Committed
    <2>3. \A t : ~Exchanged(c, t) /\ ~Exchanged(c, t)'
      <3>1. ~Committed(Nil) /\ ~Committed(c)
        BY NotCommitted
      <3>2. call[c].issued \in {Nil, c} /\ call'[c].issued \in {Nil, c}
        BY DEF AuthInv, CallInv
      <3> QED
        BY <2>1, <3>1, <3>2 DEF Exchanged, Committed
    <2>4. ASSUME NEW t \in Tokens
          PROVE  /\ \A d \in Calls : Exchanged(d, t)' => \E p \in Players : RevokedToken(t, p) \in rows'
                 /\ \A d, e \in Calls : Exchanged(d, t)' /\ Exchanged(e, t)' => d = e
                 /\ \A p \in Players : RevokedToken(t, p) \in rows' =>
                       \/ \E d \in Calls : Exchanged(d, t)'
                       \/ \E d \in Calls : call'[d].op = "logout" /\ call'[d].player = p /\ Done(d)'
      <3>1. \A d \in Calls : Exchanged(d, t)' <=> Exchanged(d, t)
        BY <2>2, <2>3
      <3>2. \A d \in Calls : Done(d) => d # c
        OBVIOUS
      <3> QED
        BY <1>4, <3>1, <3>2 DEF AuthInv, RotationInv
    <2> QED
      BY <2>4 DEF RotationInv
  <1> QED
    BY <1>2, <1>6, <1>7 DEF AuthInv

\* What changes when a call goes on to its next step.
LEMMA GotoFields ==
    ASSUME AuthInv, NEW c \in Calls, NEW x \in Steps, Goto(c, x)
    PROVE  /\ call' \in [Calls -> Requests]
           /\ \A d \in Calls : d # c => call'[d] = call[d]
           /\ call'[c].step = x /\ call'[c].op = call[c].op
           /\ call'[c].subject = call[c].subject /\ call'[c].player = call[c].player
           /\ call'[c].token = call[c].token /\ call'[c].nickname = call[c].nickname
           /\ call'[c].issued = call[c].issued /\ call'[c].retried = call[c].retried
           /\ call'[c].todo = call[c].todo /\ call'[c].held = call[c].held
  <1>1. call \in [Calls -> Requests] /\ call[c] \in Requests
    BY DEF AuthInv
  <1>2. call' = [call EXCEPT ![c] = [call[c] EXCEPT !.step = x]]
    BY DEF Goto
  <1>3. [call[c] EXCEPT !.step = x] \in Requests
    BY <1>1 DEF Requests
  <1>4. /\ call' \in [Calls -> Requests] /\ call'[c] = [call[c] EXCEPT !.step = x]
        /\ \A d \in Calls : d # c => call'[d] = call[d]
    BY <1>1, <1>2, <1>3
  <1> QED
    BY <1>1, <1>4 DEF Requests

\* A call returns an error: its transaction is rolled back.
LEMMA ErrStep ==
    ASSUME AuthInv, NEW c \in Calls, NEW err \in Results \ {"ok"}, ReturnErr(c, err),
           ~Done(c), call[c].op # "none",
           ~(call[c].op = "login" /\ err = "ErrIdentityAlreadyLinked")
    PROVE  AuthInv'
  <1>1. /\ DbType(Tables)' /\ DbInv' /\ UNCHANGED rows /\ ins'[c] = {} /\ del'[c] = {}
        /\ \A d \in Calls : d # c => ins'[d] = ins[d] /\ del'[d] = del[d]
    BY RollbackStep DEF AuthInv, ReturnErr
  <1>2. err \in Steps /\ err # "ok" /\ err # "commit" /\ Goto(c, err)
    BY DEF Steps, Results, ReturnErr
  <1>3. CallInv(c)'
    <2>0. CallInv(c)
      BY DEF AuthInv
    <2>1. Done(c)' /\ Idle(c)'
      BY <1>1, <1>2, GotoFields DEF Done, Idle
    <2>2. call[c].op = "login" => LoginInv(c)'
      BY <1>1, <1>2, <2>0, <2>1, GotoFields DEF CallInv, LoginInv, Results
    <2>3. call[c].op = "link" => LinkInv(c)'
      BY <1>1, <1>2, <2>0, <2>1, GotoFields DEF CallInv, LinkInv, Live
    <2>4. call[c].op = "refresh" => RefreshInv(c)'
      BY <1>1, <1>2, <2>0, <2>1, GotoFields DEF CallInv, RefreshInv, Results
    <2>5. call[c].op = "logout" => LogoutInv(c)'
      BY <1>1, <1>2, <2>0, <2>1, GotoFields DEF CallInv, LogoutInv, Holds, Results
    <2>6. call[c].op = "profile" => ProfileInv(c)'
      BY <1>1, <1>2, <2>0, <2>1, GotoFields DEF CallInv, ProfileInv, Live, Results
    <2> QED
      BY <1>2, <2>0, <2>1, <2>2, <2>3, <2>4, <2>5, <2>6, GotoFields DEF CallInv
  <1> QED
    BY <1>1, <1>2, <1>3, GotoFields, StatementStep

----------------------------------------------------------------------------
(* The requests.                                                           *)

\* A client is authenticated as a committed player, and knows issued tokens.
LEMMA ClientsKnow ==
    ASSUME AuthInv
    PROVE  /\ \A p \in Authenticated : p \in Players /\ Live(p)
           /\ KnownTokens \subseteq Tokens
           /\ \A p, t : t \in TokensOf(p) <=> t \in Tokens /\ Holds(p, t)
  <1>1. ASSUME NEW c \in GoodIssue
        PROVE  call[c].player \in Players /\ Live(call[c].player) /\ call[c].issued \in Tokens
    <2>1. c \in Calls /\ call[c] \in Requests /\ CallInv(c) /\ call[c].step = "ok"
      BY <1>1 DEF GoodIssue, AuthInv
    <2>2. call[c].player \in Players \cup {Nil} /\ call[c].subject \in Subjects \cup Players \cup {Nil}
      BY <2>1 DEF Requests
    <2>3. call[c].issued \in Tokens
      BY <1>1, <2>1 DEF GoodIssue, CallInv, Tokens
    <2>4. CASE call[c].op = "login"
      <3>1. identityRow(call[c].subject, call[c].player) \in rows /\ call[c].player # Nil
        BY <2>1, <2>4 DEF CallInv, LoginInv
      <3>2. call[c].subject \in Subjects \cup Players
        BY <3>1, TableIds DEF AuthInv, DbType
      <3> QED
        BY <2>2, <2>3, <3>1, <3>2 DEF AuthInv, RowsInv
    <2>5. CASE call[c].op = "refresh"
      BY <2>1, <2>2, <2>3, <2>5 DEF CallInv, RefreshInv
    <2> QED
      BY <1>1, <2>4, <2>5 DEF GoodIssue
  <1>2. First \in Players /\ First \in Tokens /\ Live(First)
    BY DEF Players, Tokens, AuthInv, RowsInv
  <1>3. \A p, t : t \in TokensOf(p) <=> t \in Tokens /\ Holds(p, t)
    BY DEF TokensOf, Holds, LiveToken, RevokedToken
  <1> QED
    BY <1>1, <1>2, <1>3 DEF Authenticated, KnownTokens

\* A new request has written nothing.
LEMMA ReceiveFrame ==
    ASSUME AuthInv, NEW c \in Calls, NEW k \in Requests, Receive(c, k)
    PROVE  /\ ~Done(c) /\ UNCHANGED rows /\ DbType(Tables)' /\ DbInv'
           /\ \A d \in Calls : d # c => ins'[d] = ins[d] /\ del'[d] = del[d] /\ call'[d] = call[d]
           /\ call' \in [Calls -> Requests] /\ call'[c] = k
           /\ Idle(c)' /\ k.op # "none"
  <1>1. call[c] = NoRequest /\ call' = [call EXCEPT ![c] = k] /\ UNCHANGED dbVars /\ k.op \in Ops
    BY DEF Receive
  <1>2. Idle(c) /\ ~Done(c)
    BY <1>1 DEF AuthInv, CallInv, NoRequest, Done, Results
  <1>3. DbType(Tables)' /\ DbInv' /\ UNCHANGED rows /\ ins' = ins /\ del' = del
    BY <1>1, IdleStep DEF AuthInv, dbVars
  <1>4. k.op # "none"
    BY <1>1, OpsAssumption
  <1> QED
    BY <1>1, <1>2, <1>3, <1>4 DEF AuthInv, Idle

\* Every request keeps the invariant.
LEMMA RequestStep ==
    ASSUME AuthInv, NEW c \in Calls, Request(c)
    PROVE  AuthInv'
  <1>0. c \in Tokens /\ Nil # c /\ NoRequest \in Requests
    BY NilAssumption DEF Tokens, Players, NoRequest, Requests, Steps
  <1>1. CASE \E s \in Subjects :
          Receive(c, [NoRequest EXCEPT !.op = "login", !.subject = s,
                                       !.step = IF s \in Accounts THEN "verify" ELSE "find"])
    <2>1. PICK s \in Subjects : 
            Receive(c, [NoRequest EXCEPT !.op = "login", !.subject = s,
                                         !.step = IF s \in Accounts THEN "verify" ELSE "find"])
      BY <1>1
    <2> DEFINE x == IF s \in Accounts THEN "verify" ELSE "find"
    <2> DEFINE k == [NoRequest EXCEPT !.op = "login", !.subject = s, !.step = x]
    <2>2. x \in {"verify", "find"}
      OBVIOUS
    <2> HIDE DEF x
    <2>3. "login" \in Ops
      BY <2>1 DEF Receive, NoRequest
    <2>4. /\ k \in Requests /\ k.op = "login" /\ k.subject = s /\ k.step = x
          /\ k.issued = Nil /\ k.retried = FALSE
      BY <1>0, <2>2, <2>3 DEF NoRequest, Requests, Steps
    <2>5. Receive(c, k)
      BY <2>1 DEF x
    <2> HIDE DEF k
    <2>6. call'[c] = k /\ Idle(c)'
      BY <2>4, <2>5, ReceiveFrame
    <2>7. LoginInv(c)'
      BY <2>2, <2>4, <2>6, NilAssumption DEF LoginInv, Results
    <2>8. CallInv(c)'
      BY <1>0, <2>2, <2>4, <2>6, <2>7 DEF CallInv
    <2> QED
      BY <2>4, <2>5, <2>8, ReceiveFrame, StatementStep
  <1>2. CASE Receive(c, [NoRequest EXCEPT !.op = "login", !.step = "create"])
    <2> DEFINE k == [NoRequest EXCEPT !.op = "login", !.step = "create"]
    <2>3. "login" \in Ops
      BY <1>2 DEF Receive, NoRequest
    <2>4. k \in Requests /\ k.op = "login" /\ k.step = "create" /\ k.issued = Nil /\ k.retried = FALSE
      BY <1>0, <2>3 DEF NoRequest, Requests, Steps
    <2>5. Receive(c, k)
      BY <1>2
    <2> HIDE DEF k
    <2>6. call'[c] = k /\ Idle(c)'
      BY <2>4, <2>5, ReceiveFrame
    <2>7. LoginInv(c)'
      BY <2>4, <2>6 DEF LoginInv, Results
    <2>8. CallInv(c)'
      BY <1>0, <2>4, <2>6, <2>7 DEF CallInv
    <2> QED
      BY <2>4, <2>5, <2>8, ReceiveFrame, StatementStep
  <1>3. CASE LinkIdentity(c)
    <2>1. PICK p \in Authenticated, s \in Accounts :
            Receive(c, [NoRequest EXCEPT !.op = "link", !.step = "verify", !.subject = s, !.player = p])
      BY <1>3 DEF LinkIdentity
    <2>2. p \in Players /\ Live(p) /\ s \in Subjects /\ p # Nil /\ s # Nil
      BY ClientsKnow, NilAssumption DEF Subjects
    <2> DEFINE k == [NoRequest EXCEPT !.op = "link", !.step = "verify", !.subject = s, !.player = p]
    <2>3. "link" \in Ops
      BY <2>1 DEF Receive, NoRequest
    <2>4. /\ k \in Requests /\ k.op = "link" /\ k.subject = s /\ k.step = "verify" /\ k.player = p
          /\ k.issued = Nil
      BY <1>0, <2>2, <2>3 DEF NoRequest, Requests, Steps
    <2>5. Receive(c, k)
      BY <2>1
    <2> HIDE DEF k
    <2>6. call'[c] = k /\ Idle(c)' /\ UNCHANGED rows
      BY <2>4, <2>5, ReceiveFrame
    <2>7. LinkInv(c)'
      BY <2>2, <2>4, <2>6 DEF LinkInv, Live
    <2>8. CallInv(c)'
      BY <1>0, <2>4, <2>6, <2>7 DEF CallInv
    <2> QED
      BY <2>4, <2>5, <2>8, ReceiveFrame, StatementStep
  <1>4. CASE Refresh(c)
    <2>1. PICK t \in KnownTokens :
            Receive(c, [NoRequest EXCEPT !.op = "refresh", !.step = "findToken", !.token = t])
      BY <1>4 DEF Refresh
    <2>2. t \in Tokens /\ t # Nil
      BY ClientsKnow, NilAssumption DEF Tokens, Players
    <2> DEFINE k == [NoRequest EXCEPT !.op = "refresh", !.step = "findToken", !.token = t]
    <2>3. "refresh" \in Ops
      BY <2>1 DEF Receive, NoRequest
    <2>4. /\ k \in Requests /\ k.op = "refresh" /\ k.token = t /\ k.step = "findToken"
          /\ k.issued = Nil
      BY <1>0, <2>2, <2>3 DEF NoRequest, Requests, Steps
    <2>5. Receive(c, k)
      BY <2>1
    <2> HIDE DEF k
    <2>6. call'[c] = k /\ Idle(c)'
      BY <2>4, <2>5, ReceiveFrame
    <2>7. RefreshInv(c)'
      BY <2>2, <2>4, <2>6 DEF RefreshInv
    <2>8. CallInv(c)'
      BY <1>0, <2>4, <2>6, <2>7 DEF CallInv
    <2> QED
      BY <2>4, <2>5, <2>8, ReceiveFrame, StatementStep
  <1>5. CASE Logout(c)
    <2>1. PICK p \in Authenticated :
            Receive(c, [NoRequest EXCEPT !.op = "logout", !.step = "snapshot", !.player = p,
                                         !.held = TokensOf(p)])
      BY <1>5 DEF Logout
    <2>2. p \in Players /\ p # Nil
      BY ClientsKnow, NilAssumption
    <2>3. "logout" \in Ops
      BY <2>1 DEF Receive, NoRequest
    <2> DEFINE H == TokensOf(p)
    <2> DEFINE k == [NoRequest EXCEPT !.op = "logout", !.step = "snapshot", !.player = p, !.held = H]
    <2>9. \A t : t \in H <=> t \in Tokens /\ Holds(p, t)
      BY ClientsKnow
    <2> HIDE DEF H
    <2>4. /\ k \in Requests /\ k.op = "logout" /\ k.player = p /\ k.step = "snapshot"
          /\ k.issued = Nil /\ k.held = H /\ k.todo = {}
      BY <1>0, <2>2, <2>3, <2>9 DEF NoRequest, Requests, Steps
    <2>5. Receive(c, k)
      BY <2>1 DEF H
    <2> HIDE DEF k
    <2>6. call'[c] = k /\ Idle(c)' /\ UNCHANGED rows
      BY <2>4, <2>5, ReceiveFrame
    <2>7. LogoutInv(c)'
      BY <2>2, <2>4, <2>6, <2>9 DEF LogoutInv, Holds
    <2>8. CallInv(c)'
      BY <1>0, <2>4, <2>6, <2>7 DEF CallInv
    <2> QED
      BY <2>4, <2>5, <2>8, ReceiveFrame, StatementStep
  <1>6. CASE UpdateProfile(c)
    <2>1. PICK p \in Authenticated, n \in Nicknames \cup {Blank, Nil} :
            Receive(c, [NoRequest EXCEPT !.op = "profile", !.step = "getPlayer", !.player = p,
                                         !.nickname = n])
      BY <1>6 DEF UpdateProfile
    <2>2. p \in Players /\ Live(p) /\ p # Nil
      BY ClientsKnow, NilAssumption
    <2> DEFINE k == [NoRequest EXCEPT !.op = "profile", !.step = "getPlayer", !.player = p,
                                      !.nickname = n]
    <2>3. "profile" \in Ops
      BY <2>1 DEF Receive, NoRequest
    <2>4. /\ k \in Requests /\ k.op = "profile" /\ k.nickname = n /\ k.step = "getPlayer"
          /\ k.player = p /\ k.issued = Nil
      BY <1>0, <2>2, <2>3 DEF NoRequest, Requests, Steps
    <2>5. Receive(c, k)
      BY <2>1
    <2> HIDE DEF k
    <2>6. call'[c] = k /\ Idle(c)' /\ UNCHANGED rows
      BY <2>4, <2>5, ReceiveFrame
    <2>7. ProfileInv(c)'
      BY <2>2, <2>4, <2>6 DEF ProfileInv, Live
    <2>8. CallInv(c)'
      BY <1>0, <2>4, <2>6, <2>7 DEF CallInv
    <2> QED
      BY <2>4, <2>5, <2>8, ReceiveFrame, StatementStep
  <1> QED
    BY <1>1, <1>2, <1>3, <1>4, <1>5, <1>6 DEF Request, Login

----------------------------------------------------------------------------
(* The statements of a login and of a link.                                *)

\* A call that has not returned and has begun.
LEMMA RunningCall ==
    ASSUME AuthInv, NEW c \in Calls
    PROVE  /\ CallInv(c) /\ call[c] \in Requests /\ c \in Players /\ c \in Tokens /\ c # Nil
           /\ call[c].op \in {"none", "login", "link", "refresh", "logout", "profile"}
           /\ call[c].player \in Players \cup {Nil} /\ call[c].token \in Tokens \cup {Nil}
           /\ call[c].subject \in Subjects \cup Players \cup {Nil}
  BY NilAssumption, OpsAssumption DEF AuthInv, Requests, Players, Tokens

\* What a transaction that has written no identity finds under a subject.
LEMMA IdentityFound ==
    ASSUME AuthInv, NEW c \in Calls, NEW s,
           del[c] = {}, \A r \in ins[c] : r.key # <<"player_identities", s>>
    PROVE  /\ \A p : identityRow(s, p) \in rows => Exists(c, <<"player_identities", s>>)
           /\ Exists(c, <<"player_identities", s>>) =>
                 \E p \in Players : /\ identityRow(s, p) \in rows
                                    /\ RowOf(c, <<"player_identities", s>>) = identityRow(s, p)
  <1>1. \A p : identityRow(s, p) \in rows => Exists(c, <<"player_identities", s>>)
    BY IdentityIds DEF Exists, Visible
  <1>2. ASSUME Exists(c, <<"player_identities", s>>)
        PROVE  \E p \in Players : /\ identityRow(s, p) \in rows
                                  /\ RowOf(c, <<"player_identities", s>>) = identityRow(s, p)
    <2>1. PICK r \in Visible(c) : r.key = <<"player_identities", s>>
      BY <1>2 DEF Exists
    <2>2. r \in rows /\ r \in Tables
      BY <2>1 DEF Visible, AuthInv, DbType
    <2>3. PICK p \in Players : r = identityRow(s, p)
      <3>1. \A q, n : r # playerRow(q, n)
        BY <2>1, PlayerIds
      <3>2. \A t, q : r # LiveToken(t, q) /\ r # RevokedToken(t, q)
        BY <2>1, TokenIds DEF TokenKey
      <3>3. PICK u \in Subjects \cup Players, p \in Players : r = identityRow(u, p)
        BY <2>2, <3>1, <3>2, TableRows
      <3>4. u = s
        BY <2>1, <3>3, IdentityIds
      <3> QED
        BY <3>3, <3>4
    <2>4. RowOf(c, r.key) = r
      BY <2>1, RowOfIs DEF AuthInv
    <2> QED
      BY <2>1, <2>2, <2>3, <2>4
  <1> QED
    BY <1>1, <1>2

\* The ID token is verified or rejected.
LEMMA VerifyStep ==
    ASSUME AuthInv, NEW c \in Calls, call[c].op \in {"login", "link"}, Verify(c)
    PROVE  AuthInv'
  <1>1. /\ call[c].step = "verify" /\ UNCHANGED dbVars /\ ~Done(c)
        /\ \E x \in {"find", "ErrInvalidCredential"} : Goto(c, x)
    BY DEF Verify, Done, Results
  <1>2. PICK x \in {"find", "ErrInvalidCredential"} : Goto(c, x)
    BY <1>1
  <1>3. x \in Steps
    BY DEF Steps, Results
  <1>4. DbType(Tables)' /\ DbInv' /\ UNCHANGED rows /\ ins' = ins /\ del' = del
    BY <1>1, IdleStep DEF AuthInv, dbVars
  <1>5. CallInv(c)'
    <2>0. CallInv(c) /\ Idle(c) /\ Idle(c)' /\ c # Nil
      BY <1>1, <1>4, RunningCall DEF CallInv, LoginInv, LinkInv, Idle
    <2>1. call[c].op = "login" => LoginInv(c)'
      BY <1>1, <1>2, <1>3, <2>0, GotoFields DEF CallInv, LoginInv, Results
    <2>2. call[c].op = "link" => LinkInv(c)'
      BY <1>1, <1>2, <1>3, <1>4, <2>0, GotoFields DEF CallInv, LinkInv, Live, Results
    <2>3. call[c].issued = Nil
      BY <1>1, <2>0 DEF CallInv, Done, Results
    <2> QED
      BY <1>2, <1>3, <2>0, <2>1, <2>2, <2>3, GotoFields DEF CallInv
  <1> QED
    BY <1>1, <1>2, <1>3, <1>4, <1>5, GotoFields, StatementStep

\* A login or a link looks for the identity.
LEMMA FindStep ==
    ASSUME AuthInv, NEW c \in Calls, call[c].op \in {"login", "link"}, Find(c)
    PROVE  AuthInv'
  <1> DEFINE s == call[c].subject
  <1>0. /\ CallInv(c) /\ call[c].step = "find" /\ ~Done(c) /\ Idle(c) /\ s # Nil /\ c # Nil
        /\ call[c].issued = Nil
    BY RunningCall DEF Find, Done, Results, CallInv, LoginInv, LinkInv
  <1>1. /\ \A p : identityRow(s, p) \in rows => Exists(c, IdentityOf(c))
        /\ Exists(c, IdentityOf(c)) =>
              \E p \in Players : identityRow(s, p) \in rows /\ RowOf(c, IdentityOf(c)) = identityRow(s, p)
    BY <1>0, IdentityFound DEF Idle, IdentityOf
  <1>2. CASE ~Exists(c, IdentityOf(c))
    <2>1. PICK x \in {"create", "saveIdentity"} :
            /\ Goto(c, x) /\ UNCHANGED dbVars
            /\ x = IF call[c].op = "login" THEN "create" ELSE "saveIdentity"
      BY <1>2 DEF Find
    <2>2. x \in Steps
      BY DEF Steps
    <2>3. DbType(Tables)' /\ DbInv' /\ UNCHANGED rows /\ ins' = ins /\ del' = del
      BY <2>1, IdleStep DEF AuthInv, dbVars
    <2>4. Idle(c)'
      BY <1>0, <2>3 DEF Idle
    <2>5. call[c].op = "login" => LoginInv(c)'
      BY <1>0, <1>1, <1>2, <2>1, <2>2, <2>4, GotoFields DEF CallInv, LoginInv, Results
    <2>6. call[c].op = "link" => LinkInv(c)'
      BY <1>0, <2>1, <2>2, <2>3, <2>4, GotoFields DEF CallInv, LinkInv, Live, Results
    <2>7. CallInv(c)'
      BY <1>0, <2>1, <2>2, <2>5, <2>6, GotoFields DEF CallInv
    <2> QED
      BY <1>0, <2>1, <2>2, <2>3, <2>7, GotoFields, StatementStep
  <1>3. CASE Exists(c, IdentityOf(c))
    <2>1. PICK p \in Players : identityRow(s, p) \in rows /\ RowOf(c, IdentityOf(c)) = identityRow(s, p)
      BY <1>1, <1>3
    <2>2. RowOf(c, IdentityOf(c)).player = p /\ p # Nil
      BY <2>1, IdentityIds, NilAssumption
    <2>3. CASE call[c].op = "login"
      <3>1. call' = [call EXCEPT ![c].player = p, ![c].step = "issue"] /\ UNCHANGED dbVars
        BY <1>3, <2>2, <2>3 DEF Find
      <3>2. DbType(Tables)' /\ DbInv' /\ UNCHANGED rows /\ ins' = ins /\ del' = del
        BY <3>1, IdleStep DEF AuthInv, dbVars
      <3> DEFINE k == [call[c] EXCEPT !.player = p, !.step = "issue"]
      <3>3. /\ k \in Requests /\ k.op = "login" /\ k.step = "issue" /\ k.player = p /\ k.subject = s
            /\ k.issued = Nil
        <4>1. call[c] \in Requests /\ "issue" \in Steps
          BY RunningCall DEF Steps
        <4> QED
          BY <1>0, <2>3, <4>1 DEF Requests
      <3>4. call' = [call EXCEPT ![c] = k]
        BY <3>1 DEF AuthInv
      <3> HIDE DEF k
      <3>5. /\ call' \in [Calls -> Requests] /\ call'[c] = k
            /\ \A d \in Calls : d # c => call'[d] = call[d]
        BY <3>3, <3>4 DEF AuthInv
      <3>6. LoginInv(c)'
        BY <1>0, <2>1, <2>2, <3>2, <3>3, <3>5 DEF LoginInv, Idle, NewToken, Results
      <3>7. CallInv(c)'
        BY <1>0, <3>3, <3>5, <3>6 DEF CallInv
      <3> QED
        BY <1>0, <3>2, <3>5, <3>7, StatementStep
    <2>4. CASE call[c].op = "link" /\ p = call[c].player
      <3>1. Goto(c, "commit") /\ UNCHANGED dbVars
        BY <1>3, <2>2, <2>4 DEF Find
      <3>2. DbType(Tables)' /\ DbInv' /\ UNCHANGED rows /\ ins' = ins /\ del' = del /\ "commit" \in Steps
        BY <3>1, IdleStep DEF AuthInv, dbVars, Steps
      <3>3. LinkInv(c)'
        BY <1>0, <2>1, <2>4, <3>1, <3>2, GotoFields DEF CallInv, LinkInv, Idle, Live, Results
      <3>4. CallInv(c)'
        BY <1>0, <2>4, <3>1, <3>2, <3>3, GotoFields DEF CallInv
      <3> QED
        BY <1>0, <3>1, <3>2, <3>4, GotoFields, StatementStep
    <2>5. CASE call[c].op = "link" /\ p # call[c].player
      <3>1. ReturnErr(c, "ErrIdentityAlreadyLinked")
        BY <1>3, <2>2, <2>5 DEF Find
      <3>2. "ErrIdentityAlreadyLinked" \in Results \ {"ok"}
        BY DEF Results
      <3> QED
        BY <1>0, <2>5, <3>1, <3>2, ErrStep
    <2> QED
      BY <2>3, <2>4, <2>5
  <1> QED
    BY <1>2, <1>3

\* A login creates a player, with an id nobody has drawn before.
LEMMA CreateStep ==
    ASSUME AuthInv, NEW c \in Calls, call[c].op = "login", CreatePlayer(c)
    PROVE  AuthInv'
  <1>0. /\ CallInv(c) /\ call[c].step = "create" /\ ~Done(c) /\ Idle(c) /\ c # Nil /\ c \in Players
        /\ call[c].issued = Nil /\ ~call[c].retried
    BY RunningCall DEF CreatePlayer, Done, Results, CallInv, LoginInv
  <1>1. CASE ReturnErr(c, "ErrInvalidNickname")
    <2>1. "ErrInvalidNickname" \in Results \ {"ok"}
      BY DEF Results
    <2> QED
      BY <1>0, <1>1, <2>1, ErrStep
  <1>2. CASE /\ \E n \in Nicknames \cup {NoName} : Insert(c, playerRow(c, n))
             /\ call' = [call EXCEPT ![c].player = c, ![c].step = "saveIdentity",
                                     ![c].subject = IF @ = Nil THEN c ELSE @]
    <2>1. PICK n \in Names : Insert(c, playerRow(c, n))
      BY <1>2 DEF Names
    <2>2. playerRow(c, n) \in Tables /\ ~Exists(c, playerRow(c, n).key)
      <3>1. playerRow(c, n) \in Tables
        BY <1>0, InTables
      <3>2. ASSUME Exists(c, playerRow(c, n).key) PROVE FALSE
        <4>1. PICK r \in rows : r.key = playerRow(c, n).key /\ r \in Tables
          BY <1>0, <3>2 DEF Exists, Visible, Idle, AuthInv, DbType
        <4>2. PICK m \in Names : r = playerRow(c, m)
          BY <4>1, TableRows, PlayerIds
        <4> QED
          BY <1>0, <4>1, <4>2 DEF AuthInv, RowsInv, Live
      <3> QED
        BY <3>1, <3>2
    <2>3. /\ DbType(Tables)' /\ DbInv' /\ UNCHANGED rows
          /\ ins'[c] = {playerRow(c, n)} /\ del'[c] = {}
          /\ \A d \in Calls : d # c => ins'[d] = ins[d] /\ del'[d] = del[d]
      BY <1>0, <2>1, <2>2, InsertStep DEF AuthInv, Idle
    <2> DEFINE u == IF call[c].subject = Nil THEN c ELSE call[c].subject
    <2> DEFINE k == [call[c] EXCEPT !.player = c, !.step = "saveIdentity", !.subject = u]
    <2>4. u \in Subjects \cup Players /\ u # Nil
      BY <1>0, RunningCall
    <2>5. call' = [call EXCEPT ![c] = k]
      BY <1>2 DEF AuthInv
    <2> HIDE DEF u
    <2>6. /\ k \in Requests /\ k.op = "login" /\ k.step = "saveIdentity" /\ k.player = c /\ k.subject = u
          /\ k.issued = Nil /\ ~k.retried
      <3>1. call[c] \in Requests /\ "saveIdentity" \in Steps
        BY RunningCall DEF Steps
      <3> QED
        BY <1>0, <2>4, <3>1 DEF Requests
    <2> HIDE DEF k
    <2>7. /\ call' \in [Calls -> Requests] /\ call'[c] = k
          /\ \A d \in Calls : d # c => call'[d] = call[d]
      BY <2>5, <2>6 DEF AuthInv
    <2>8. LoginInv(c)'
      BY <1>0, <2>3, <2>4, <2>6, <2>7 DEF LoginInv, Results
    <2>9. CallInv(c)'
      BY <1>0, <2>6, <2>7, <2>8 DEF CallInv
    <2> QED
      BY <1>0, <2>3, <2>7, <2>9, StatementStep
  <1> QED
    BY <1>1, <1>2 DEF CreatePlayer

\* A login or a link inserts the identity, or finds that another one was faster.
LEMMA SaveIdentityStep ==
    ASSUME AuthInv, NEW c \in Calls, call[c].op \in {"login", "link"}, SaveIdentity(c)
    PROVE  AuthInv'
  <1> DEFINE s == call[c].subject
  <1> DEFINE p == call[c].player
  <1>0. /\ CallInv(c) /\ call[c].step = "saveIdentity" /\ ~Done(c) /\ s # Nil /\ p # Nil /\ c # Nil
        /\ del[c] = {} /\ call[c].issued = Nil /\ (call[c].op = "login" => ~call[c].retried)
    BY RunningCall DEF SaveIdentity, Done, Results, CallInv, LoginInv, LinkInv, Idle
  <1>1. \/ call[c].op = "link" /\ ins[c] = {}
        \/ call[c].op = "login" /\ p = c /\ \E n \in Names : ins[c] = {playerRow(c, n)}
    BY <1>0 DEF CallInv, LoginInv, LinkInv, Idle
  <1>2. \A r \in ins[c] : r.key # <<"player_identities", s>>
    BY <1>1, PlayerIds
  <1>3. Exists(c, IdentityOf(c)) => \E q \in Players : identityRow(s, q) \in rows
    BY <1>0, <1>2, IdentityFound DEF IdentityOf
  <1>4. s \in Subjects \cup Players /\ p \in Players
    BY <1>0, RunningCall
  <1>5. CASE /\ ~Exists(c, IdentityOf(c))
             /\ Insert(c, identityRow(call[c].subject, call[c].player))
             /\ Goto(c, IF call[c].op = "login" THEN "issue" ELSE "commit")
    <2>1. identityRow(s, p) \in Tables /\ identityRow(s, p).key = IdentityOf(c)
      BY <1>4, InTables, IdentityIds DEF IdentityOf
    <2>2. /\ DbType(Tables)' /\ DbInv' /\ UNCHANGED rows
          /\ ins'[c] = ins[c] \cup {identityRow(s, p)} /\ del'[c] = {}
          /\ \A d \in Calls : d # c => ins'[d] = ins[d] /\ del'[d] = del[d]
      BY <1>0, <1>5, <2>1, InsertStep DEF AuthInv
    <2>3. PICK x \in {"issue", "commit"} :
            Goto(c, x) /\ x = IF call[c].op = "login" THEN "issue" ELSE "commit"
      BY <1>5
    <2>4. x \in Steps
      BY DEF Steps
    <2>5. call[c].op = "login" => LoginInv(c)'
      <3> SUFFICES ASSUME call[c].op = "login" PROVE LoginInv(c)'
        OBVIOUS
      <3>1. PICK n \in Names : ins[c] = {playerRow(c, n)} /\ p = c
        BY <1>1
      <3>2. ins'[c] = {playerRow(c, n), identityRow(s, c)} \cup {}
        BY <2>2, <3>1
      <3> QED
        BY <1>0, <2>2, <2>3, <2>4, <3>1, <3>2, GotoFields DEF LoginInv, NewToken, Results
    <2>6. call[c].op = "link" => LinkInv(c)'
      BY <1>0, <1>1, <2>2, <2>3, <2>4, GotoFields DEF CallInv, LinkInv, Live, Results
    <2>7. CallInv(c)'
      BY <1>0, <2>3, <2>4, <2>5, <2>6, GotoFields DEF CallInv
    <2> QED
      BY <1>0, <2>2, <2>3, <2>4, <2>7, GotoFields, StatementStep
  <1>6. CASE /\ Exists(c, IdentityOf(c)) /\ call[c].op = "login" /\ Rollback(c)
             /\ call' = [call EXCEPT ![c].step = "find", ![c].retried = TRUE, ![c].player = Nil]
    <2>1. /\ DbType(Tables)' /\ DbInv' /\ UNCHANGED rows /\ ins'[c] = {} /\ del'[c] = {}
          /\ \A d \in Calls : d # c => ins'[d] = ins[d] /\ del'[d] = del[d]
      BY <1>6, RollbackStep DEF AuthInv
    <2> DEFINE k == [call[c] EXCEPT !.step = "find", !.retried = TRUE, !.player = Nil]
    <2>2. call' = [call EXCEPT ![c] = k]
      BY <1>6 DEF AuthInv
    <2>3. k \in Requests /\ k.op = "login" /\ k.step = "find" /\ k.subject = s /\ k.issued = Nil
      <3>1. call[c] \in Requests /\ "find" \in Steps
        BY RunningCall DEF Steps
      <3> QED
        BY <1>0, <1>6, <3>1 DEF Requests
    <2> HIDE DEF k
    <2>4. /\ call' \in [Calls -> Requests] /\ call'[c] = k
          /\ \A d \in Calls : d # c => call'[d] = call[d]
      BY <2>2, <2>3 DEF AuthInv
    <2>5. LoginInv(c)'
      BY <1>0, <1>3, <1>6, <2>1, <2>3, <2>4 DEF LoginInv, Idle, Results
    <2>6. CallInv(c)'
      BY <1>0, <2>3, <2>4, <2>5 DEF CallInv
    <2> QED
      BY <1>0, <2>1, <2>4, <2>6, StatementStep
  <1>7. CASE /\ call[c].op = "link" \/ call[c].retried
             /\ ReturnErr(c, "ErrIdentityAlreadyLinked")
    <2>1. "ErrIdentityAlreadyLinked" \in Results \ {"ok"} /\ call[c].op = "link"
      BY <1>0, <1>7 DEF Results
    <2> QED
      BY <1>0, <1>7, <2>1, ErrStep
  <1> QED
    BY <1>5, <1>6, <1>7 DEF SaveIdentity

----------------------------------------------------------------------------
(* The statements on refresh tokens.                                       *)

\* What a transaction that has not written a token finds under it.
LEMMA TokenFound ==
    ASSUME AuthInv, NEW c \in Calls, NEW t, \A r \in ins[c] \cup del[c] : r.key # TokenKey(t)
    PROVE  /\ \A p : LiveToken(t, p) \in rows =>
                 /\ RowOf(c, TokenKey(t)) = LiveToken(t, p) /\ RevokedToken(t, p) \notin rows
                 /\ {r \in rows : r.key = TokenKey(t)} = {LiveToken(t, p)}
           /\ \A p : RevokedToken(t, p) \in rows =>
                 RowOf(c, TokenKey(t)) = RevokedToken(t, p) /\ LiveToken(t, p) \notin rows
           /\ Exists(c, TokenKey(t)) => \E p \in Players : Holds(p, t)
  <1>0. DbInv /\ Unique(rows) /\ rows \subseteq Tables
    BY DEF AuthInv, DbInv, DbType
  <1>1. ASSUME NEW p, LiveToken(t, p) \in rows
        PROVE  /\ RowOf(c, TokenKey(t)) = LiveToken(t, p) /\ RevokedToken(t, p) \notin rows
               /\ {r \in rows : r.key = TokenKey(t)} = {LiveToken(t, p)}
    <2>1. LiveToken(t, p).key = TokenKey(t) /\ RevokedToken(t, p).key = TokenKey(t)
          /\ LiveToken(t, p) # RevokedToken(t, p)
      BY TokenIds
    <2>2. LiveToken(t, p) \in Visible(c)
      BY <1>1, <2>1 DEF Visible
    <2>3. RowOf(c, TokenKey(t)) = LiveToken(t, p)
      BY <1>0, <2>1, <2>2, RowOfIs
    <2> QED
      BY <1>0, <1>1, <2>1, <2>3 DEF Unique
  <1>2. ASSUME NEW p, RevokedToken(t, p) \in rows
        PROVE  RowOf(c, TokenKey(t)) = RevokedToken(t, p) /\ LiveToken(t, p) \notin rows
    <2>1. LiveToken(t, p).key = TokenKey(t) /\ RevokedToken(t, p).key = TokenKey(t)
          /\ LiveToken(t, p) # RevokedToken(t, p)
      BY TokenIds
    <2>2. RevokedToken(t, p) \in Visible(c)
      BY <1>2, <2>1 DEF Visible
    <2>3. RowOf(c, TokenKey(t)) = RevokedToken(t, p)
      BY <1>0, <2>1, <2>2, RowOfIs
    <2> QED
      BY <1>0, <1>2, <2>1, <2>3 DEF Unique
  <1>3. ASSUME Exists(c, TokenKey(t)) PROVE \E p \in Players : Holds(p, t)
    <2>1. PICK r \in rows : r.key = TokenKey(t) /\ r \in Tables
      BY <1>0, <1>3 DEF Exists, Visible
    <2>2. \A q, n : r # playerRow(q, n) /\ r # identityRow(n, q)
      BY <2>1, PlayerIds, IdentityIds DEF TokenKey
    <2>3. PICK u \in Tokens, p \in Players : r = LiveToken(u, p) \/ r = RevokedToken(u, p)
      BY <2>1, <2>2, TableRows
    <2>4. u = t
      BY <2>1, <2>3, TokenIds
    <2> QED
      BY <2>1, <2>3, <2>4 DEF Holds
  <1> QED
    BY <1>1, <1>2, <1>3

\* A login or a refresh issues a token that nobody has drawn before.
LEMMA IssueStep ==
    ASSUME AuthInv, NEW c \in Calls, call[c].op \in {"login", "refresh"}, issueTokens(c)
    PROVE  AuthInv'
  <1> DEFINE p == call[c].player
  <1>0. /\ CallInv(c) /\ call[c].step = "issue" /\ ~Done(c) /\ c # Nil /\ c \in Tokens
        /\ p # Nil /\ p \in Players /\ NewToken(c) = {}
    BY RunningCall DEF issueTokens, Done, Results, CallInv, LoginInv, RefreshInv, NewToken
  <1>1. \A q \in Players : ~Holds(q, c)
    BY <1>0 DEF AuthInv, RowsInv
  <1>2. call[c].op = "refresh" => call[c].token # c
    BY <1>0, <1>1 DEF CallInv, RefreshInv
  <1>3. \A r \in ins[c] \cup del[c] : r.key # TokenKey(c)
    <2>1. CASE call[c].op = "login"
      <3>1. del[c] = {} /\ (ins[c] = {} \/ \E n \in Names :
                               ins[c] = {playerRow(c, n), identityRow(call[c].subject, c)} \cup {})
        BY <1>0, <2>1 DEF CallInv, LoginInv
      <3> QED
        BY <3>1, PlayerIds, IdentityIds DEF TokenKey
    <2>2. CASE call[c].op = "refresh"
      <3>1. ins[c] = {RevokedToken(call[c].token, p)} \cup {} /\ del[c] = {LiveToken(call[c].token, p)}
        BY <1>0, <2>2 DEF CallInv, RefreshInv
      <3> QED
        BY <1>2, <2>2, <3>1, TokenIds
    <2> QED
      BY <2>1, <2>2
  <1>4. ~Exists(c, TokenKey(c))
    BY <1>1, <1>3, TokenFound
  <1>5. Insert(c, LiveToken(c, p)) /\ LiveToken(c, p) \in Tables /\ LiveToken(c, p).key = TokenKey(c)
    BY <1>0, InTables, TokenIds DEF issueTokens, LiveToken
  <1>6. /\ DbType(Tables)' /\ DbInv' /\ UNCHANGED rows
        /\ ins'[c] = ins[c] \cup {LiveToken(c, p)} /\ del'[c] = del[c]
        /\ \A d \in Calls : d # c => ins'[d] = ins[d] /\ del'[d] = del[d]
    BY <1>4, <1>5, InsertStep DEF AuthInv
  <1> DEFINE k == [call[c] EXCEPT !.issued = c, !.step = "commit"]
  <1>7. call' = [call EXCEPT ![c] = k]
    BY DEF AuthInv, issueTokens
  <1>8. /\ k \in Requests /\ k.op = call[c].op /\ k.step = "commit" /\ k.player = p
        /\ k.subject = call[c].subject /\ k.token = call[c].token
        /\ k.issued = c /\ k.retried = call[c].retried
    <2>1. call[c] \in Requests /\ "commit" \in Steps
      BY RunningCall DEF Steps
    <2> QED
      BY <1>0, <2>1 DEF Requests
  <1> HIDE DEF k
  <1>9. /\ call' \in [Calls -> Requests] /\ call'[c] = k
        /\ \A d \in Calls : d # c => call'[d] = call[d]
    BY <1>7, <1>8 DEF AuthInv
  <1>10. NewToken(c)' = {LiveToken(c, p)}
    BY <1>8, <1>9 DEF NewToken
  <1>11. call[c].op = "login" => LoginInv(c)'
    <2> SUFFICES ASSUME call[c].op = "login" PROVE LoginInv(c)'
      OBVIOUS
    <2>1. LoginInv(c)
      BY <1>0 DEF CallInv
    <2>2. \/ identityRow(call[c].subject, p) \in rows' /\ ins'[c] = NewToken(c)'
          \/ /\ p = c
             /\ \E n \in Names :
                   ins'[c] = {playerRow(c, n), identityRow(call[c].subject, c)} \cup NewToken(c)'
      BY <1>0, <1>6, <1>10, <2>1 DEF LoginInv
    <2> QED
      BY <1>0, <1>6, <1>8, <1>9, <2>1, <2>2 DEF LoginInv, Results
  <1>12. call[c].op = "refresh" => RefreshInv(c)'
    <2> SUFFICES ASSUME call[c].op = "refresh" PROVE RefreshInv(c)'
      OBVIOUS
    <2>1. RefreshInv(c)
      BY <1>0 DEF CallInv
    <2>2. ins'[c] = {RevokedToken(call[c].token, p)} \cup NewToken(c)'
      BY <1>0, <1>6, <1>10, <2>1 DEF RefreshInv
    <2> QED
      BY <1>0, <1>6, <1>8, <1>9, <2>1, <2>2 DEF RefreshInv, Results, Holds
  <1>13. CallInv(c)'
    BY <1>0, <1>8, <1>9, <1>11, <1>12 DEF CallInv
  <1> QED
    BY <1>0, <1>6, <1>9, <1>13, StatementStep

\* A refresh looks its token up.
LEMMA FindByHashStep ==
    ASSUME AuthInv, NEW c \in Calls, call[c].op = "refresh", FindByHash(c)
    PROVE  AuthInv'
  <1> DEFINE t == call[c].token
  <1>0. /\ CallInv(c) /\ call[c].step = "findToken" /\ ~Done(c) /\ c # Nil
        /\ t # Nil /\ Idle(c) /\ call[c].issued = Nil
    BY RunningCall DEF FindByHash, Done, Results, CallInv, RefreshInv
  <1>1. CASE ReturnErr(c, "ErrRefreshTokenInvalid")
    <2>1. "ErrRefreshTokenInvalid" \in Results \ {"ok"}
      BY DEF Results
    <2> QED
      BY <1>0, <1>1, <2>1, ErrStep
  <1>2. CASE /\ Exists(c, TokenKey(call[c].token))
             /\ call' = [call EXCEPT ![c].player = RowOf(c, TokenKey(call[c].token)).player,
                                     ![c].step = "revoke"]
             /\ UNCHANGED dbVars
    <2>1. \A r \in ins[c] \cup del[c] : r.key # TokenKey(t)
      BY <1>0 DEF Idle
    <2>2. PICK p \in Players : Holds(p, t)
      BY <1>2, <2>1, TokenFound
    <2>3. RowOf(c, TokenKey(t)) = LiveToken(t, p) \/ RowOf(c, TokenKey(t)) = RevokedToken(t, p)
      BY <2>1, <2>2, TokenFound DEF Holds
    <2>4. RowOf(c, TokenKey(t)).player = p /\ p # Nil
      BY <2>3, TokenIds, NilAssumption
    <2> DEFINE k == [call[c] EXCEPT !.player = p, !.step = "revoke"]
    <2>5. call' = [call EXCEPT ![c] = k]
      BY <1>2, <2>4 DEF AuthInv
    <2>6. /\ k \in Requests /\ k.op = "refresh" /\ k.step = "revoke" /\ k.player = p /\ k.token = t
          /\ k.issued = Nil
      <3>1. call[c] \in Requests /\ "revoke" \in Steps
        BY RunningCall DEF Steps
      <3> QED
        BY <1>0, <3>1 DEF Requests
    <2> HIDE DEF k
    <2>7. /\ call' \in [Calls -> Requests] /\ call'[c] = k
          /\ \A d \in Calls : d # c => call'[d] = call[d]
      BY <2>5, <2>6 DEF AuthInv
    <2>8. DbType(Tables)' /\ DbInv' /\ UNCHANGED rows /\ ins' = ins /\ del' = del
      BY <1>2, IdleStep DEF AuthInv, dbVars
    <2>9. RefreshInv(c)'
      BY <1>0, <2>2, <2>4, <2>6, <2>7, <2>8 DEF RefreshInv, Idle, Holds, Results
    <2>10. CallInv(c)'
      BY <1>0, <2>6, <2>7, <2>9 DEF CallInv
    <2> QED
      BY <1>0, <2>7, <2>8, <2>10, StatementStep
  <1> QED
    BY <1>1, <1>2 DEF FindByHash

\* A refresh revokes its token, unless another call has.
LEMMA RevokeStep ==
    ASSUME AuthInv, NEW c \in Calls, call[c].op = "refresh", Revoke(c)
    PROVE  AuthInv'
  <1> DEFINE t == call[c].token
  <1> DEFINE p == call[c].player
  <1>0. /\ CallInv(c) /\ call[c].step = "revoke" /\ ~Done(c) /\ c # Nil
        /\ t # Nil /\ t \in Tokens /\ p # Nil /\ p \in Players /\ Holds(p, t)
        /\ Idle(c) /\ call[c].issued = Nil
    BY RunningCall DEF Revoke, Done, Results, CallInv, RefreshInv
  <1>1. CASE ReturnErr(c, "ErrRefreshTokenInvalid")
    <2>1. "ErrRefreshTokenInvalid" \in Results \ {"ok"}
      BY DEF Results
    <2> QED
      BY <1>0, <1>1, <2>1, ErrStep
  <1>2. CASE /\ ~RowOf(c, TokenKey(call[c].token)).revoked
             /\ Upsert(c, tokenRow(call[c].token, call[c].player, TRUE))
             /\ Goto(c, "issue")
    <2>1. \A r \in ins[c] \cup del[c] : r.key # TokenKey(t)
      BY <1>0 DEF Idle
    <2>2. LiveToken(t, p) \in rows
      BY <1>0, <1>2, <2>1, TokenFound, TokenIds DEF Holds
    <2>3. {r \in rows : r.key = TokenKey(t)} = {LiveToken(t, p)}
      BY <2>1, <2>2, TokenFound
    <2>4. Upsert(c, RevokedToken(t, p)) /\ RevokedToken(t, p) \in Tables
      BY <1>0, <1>2, InTables DEF RevokedToken
    <2>5. RevokedToken(t, p).key = TokenKey(t)
      BY TokenIds
    <2>6. /\ DbType(Tables)' /\ DbInv' /\ UNCHANGED rows
          /\ ins'[c] = {s \in ins[c] : s.key # RevokedToken(t, p).key} \cup {RevokedToken(t, p)}
          /\ del'[c] = del[c] \cup {s \in rows : s.key = RevokedToken(t, p).key}
          /\ \A d \in Calls : d # c => ins'[d] = ins[d] /\ del'[d] = del[d]
      BY <2>4, UpsertStep DEF AuthInv
    <2>7. ins'[c] = {RevokedToken(t, p)} \cup {} /\ del'[c] = {LiveToken(t, p)}
      BY <1>0, <2>3, <2>5, <2>6 DEF Idle
    <2>8. Goto(c, "issue") /\ "issue" \in Steps
      BY <1>2 DEF Steps
    <2>9. RefreshInv(c)'
      BY <1>0, <2>6, <2>7, <2>8, GotoFields DEF RefreshInv, NewToken, Holds, Results
    <2>10. CallInv(c)'
      BY <1>0, <2>8, <2>9, GotoFields DEF CallInv
    <2> QED
      BY <1>0, <2>6, <2>8, <2>10, GotoFields, StatementStep
  <1> QED
    BY <1>1, <1>2 DEF Revoke

\* A logout takes its snapshot of the player's live tokens.
LEMMA SnapshotStep ==
    ASSUME AuthInv, NEW c \in Calls, call[c].op = "logout", RevokeAllSnapshot(c)
    PROVE  AuthInv'
  <1> DEFINE p == call[c].player
  <1>0. /\ CallInv(c) /\ LogoutInv(c) /\ call[c].step = "snapshot" /\ ~Done(c) /\ c # Nil
        /\ Idle(c) /\ call[c].issued = Nil
    BY RunningCall DEF RevokeAllSnapshot, Done, Results, CallInv, LogoutInv
  <1>1. DbType(Tables)' /\ DbInv' /\ UNCHANGED rows /\ ins' = ins /\ del' = del
    BY IdleStep DEF AuthInv, dbVars, RevokeAllSnapshot
  <1> DEFINE T == {t \in Tokens : LiveToken(t, p) \in rows}
  <1> DEFINE k == [call[c] EXCEPT !.step = "revokeAll", !.todo = T]
  <1>2. call' = [call EXCEPT ![c] = k]
    BY DEF AuthInv, RevokeAllSnapshot, LiveToken
  <1>3. T \subseteq Tokens /\ \A t \in Tokens : t \in T <=> LiveToken(t, p) \in rows
    OBVIOUS
  <1> HIDE DEF T
  <1>4. /\ k \in Requests /\ k.op = "logout" /\ k.step = "revokeAll" /\ k.player = p /\ k.todo = T
        /\ k.issued = Nil /\ k.held = call[c].held /\ k.held \subseteq Tokens
    <2>1. call[c] \in Requests /\ "revokeAll" \in Steps
      BY RunningCall DEF Steps
    <2> QED
      BY <1>0, <1>3, <2>1 DEF Requests
  <1> HIDE DEF k
  <1>5. /\ call' \in [Calls -> Requests] /\ call'[c] = k
        /\ \A d \in Calls : d # c => call'[d] = call[d]
    BY <1>2, <1>4 DEF AuthInv
  <1>6. LogoutInv(c)'
    <2>1. \A t \in k.held \cup k.todo : RevokedToken(t, p) \in rows' \/ LiveToken(t, p) \in rows'
      BY <1>0, <1>1, <1>3, <1>4 DEF LogoutInv, Holds
    <2>2. /\ {} \in SUBSET (Tokens \ k.todo)
          /\ ins'[c] = {RevokedToken(t, p) : t \in {}} /\ del'[c] = {LiveToken(t, p) : t \in {}}
      BY <1>0, <1>1 DEF Idle
    <2> QED
      BY <1>0, <1>1, <1>3, <1>4, <1>5, <2>1, <2>2 DEF LogoutInv, Holds, Results
  <1>7. CallInv(c)'
    BY <1>0, <1>4, <1>5, <1>6 DEF CallInv
  <1> QED
    BY <1>0, <1>1, <1>5, <1>7, StatementStep

\* A logout revokes the tokens of its snapshot.
LEMMA RevokeAllStep ==
    ASSUME AuthInv, NEW c \in Calls, call[c].op = "logout", RevokeAllForPlayer(c)
    PROVE  AuthInv'
  <1> DEFINE p == call[c].player
  <1>0. /\ CallInv(c) /\ LogoutInv(c) /\ call[c].step = "revokeAll" /\ ~Done(c) /\ c # Nil
        /\ p \in Players /\ call[c].issued = Nil /\ call[c].todo \subseteq Tokens /\ call[c].held \subseteq Tokens
    BY RunningCall DEF RevokeAllForPlayer, Done, Results, CallInv, LogoutInv, Requests
  <1>1. PICK S \in SUBSET (Tokens \ call[c].todo) :
          ins[c] = {RevokedToken(u, p) : u \in S} /\ del[c] = {LiveToken(u, p) : u \in S}
    BY <1>0 DEF LogoutInv
  <1>2. CASE call[c].todo = {} /\ Goto(c, "commit") /\ UNCHANGED dbVars
    <2>1. DbType(Tables)' /\ DbInv' /\ UNCHANGED rows /\ ins' = ins /\ del' = del /\ "commit" \in Steps
      BY <1>2, IdleStep DEF AuthInv, dbVars, Steps
    <2>2. LogoutInv(c)'
      BY <1>0, <1>2, <2>1, GotoFields DEF LogoutInv, Holds, Results
    <2>3. CallInv(c)'
      BY <1>0, <1>2, <2>1, <2>2, GotoFields DEF CallInv
    <2> QED
      BY <1>0, <1>2, <2>1, <2>3, GotoFields, StatementStep
  <1>3. ASSUME NEW t \in call[c].todo,
               call' = [call EXCEPT ![c].todo = @ \ {t}],
               IF RowOf(c, TokenKey(t)).revoked
                 THEN UNCHANGED dbVars ELSE Upsert(c, tokenRow(t, call[c].player, TRUE))
        PROVE  AuthInv'
    <2> DEFINE T == call[c].todo \ {t}
    <2> DEFINE k == [call[c] EXCEPT !.todo = T]
    <2>1. call' = [call EXCEPT ![c] = k]
      BY <1>3 DEF AuthInv
    <2>2. T \subseteq Tokens /\ t \in Tokens /\ t \notin S /\ t \notin T
      BY <1>0
    <2>3. /\ k \in Requests /\ k.op = "logout" /\ k.step = "revokeAll" /\ k.player = p /\ k.todo = T
          /\ k.issued = Nil /\ k.held = call[c].held
      <3>1. call[c] \in Requests
        BY RunningCall
      <3> HIDE DEF T
      <3> QED
        BY <1>0, <2>2, <3>1 DEF Requests
    <2> HIDE DEF k
    <2>4. /\ call' \in [Calls -> Requests] /\ call'[c] = k
          /\ \A d \in Calls : d # c => call'[d] = call[d]
      BY <2>1, <2>3 DEF AuthInv
    <2>5. Holds(p, t) /\ \A r \in ins[c] \cup del[c] : r.key # TokenKey(t)
      BY <1>0, <1>1, <2>2, TokenIds DEF LogoutInv
    <2>6. ASSUME UNCHANGED rows,
                 LiveToken(t, p) \in rows \ del'[c] => FALSE, del[c] \subseteq del'[c],
                 NEW S2 \in SUBSET (Tokens \ T),
                 ins'[c] = {RevokedToken(u, p) : u \in S2}, del'[c] = {LiveToken(u, p) : u \in S2}
          PROVE  CallInv(c)'
      <3>1. \A u \in k.held \cup k.todo : RevokedToken(u, p) \in rows' \/ LiveToken(u, p) \in rows'
        BY <1>0, <2>3, <2>6 DEF LogoutInv, Holds
      <3>2. \A u \in k.held : LiveToken(u, p) \in rows' \ del'[c] => u \in k.todo
        BY <1>0, <2>3, <2>6 DEF LogoutInv
      <3>3. LogoutInv(c)'
        <4>1. /\ call'[c].step = "revokeAll" /\ call'[c].player = p /\ call'[c].todo = T
              /\ call'[c].held = k.held /\ k.todo = T /\ p # Nil
          BY <1>0, <2>3, <2>4 DEF LogoutInv
        <4>2. \E R \in SUBSET (Tokens \ T) :
                 ins'[c] = {RevokedToken(u, p) : u \in R} /\ del'[c] = {LiveToken(u, p) : u \in R}
          BY <2>6
        <4> HIDE DEF T
        <4> QED
          BY <3>1, <3>2, <4>1, <4>2 DEF LogoutInv, Holds, Results
      <3> QED
        BY <1>0, <2>3, <2>4, <3>3 DEF CallInv
    <2>7. CASE RevokedToken(t, p) \in rows
      <3>0. RowOf(c, TokenKey(t)) = RevokedToken(t, p) /\ LiveToken(t, p) \notin rows
        BY <2>5, <2>7, TokenFound
      <3>1. UNCHANGED dbVars
        <4>1. RevokedToken(t, p).revoked
          BY TokenIds
        <4> QED
          BY <1>3, <3>0, <4>1
      <3>2. DbType(Tables)' /\ DbInv' /\ UNCHANGED rows /\ ins' = ins /\ del' = del
        BY <3>1, IdleStep DEF AuthInv, dbVars
      <3>3. S \in SUBSET (Tokens \ T)
        OBVIOUS
      <3>4. CallInv(c)'
        BY <1>1, <2>6, <3>0, <3>2, <3>3
      <3> QED
        BY <1>0, <2>4, <3>2, <3>4, StatementStep
    <2>8. CASE LiveToken(t, p) \in rows
      <3>1. RowOf(c, TokenKey(t)) = LiveToken(t, p) /\ {r \in rows : r.key = TokenKey(t)} = {LiveToken(t, p)}
        BY <2>5, <2>8, TokenFound
      <3>2. Upsert(c, tokenRow(t, call[c].player, TRUE))
        <4>1. ~LiveToken(t, p).revoked
          BY TokenIds
        <4> QED
          BY <1>3, <3>1, <4>1
      <3>3. Upsert(c, RevokedToken(t, p)) /\ RevokedToken(t, p) \in Tables
        BY <1>0, <2>2, <3>2, InTables DEF RevokedToken
      <3>4. RevokedToken(t, p).key = TokenKey(t)
        BY TokenIds
      <3>5. /\ DbType(Tables)' /\ DbInv' /\ UNCHANGED rows
            /\ ins'[c] = {s \in ins[c] : s.key # RevokedToken(t, p).key} \cup {RevokedToken(t, p)}
            /\ del'[c] = del[c] \cup {s \in rows : s.key = RevokedToken(t, p).key}
            /\ \A d \in Calls : d # c => ins'[d] = ins[d] /\ del'[d] = del[d]
        BY <3>3, UpsertStep DEF AuthInv
      <3> DEFINE S2 == S \cup {t}
      <3>6. ins'[c] = ins[c] \cup {RevokedToken(t, p)} /\ del'[c] = del[c] \cup {LiveToken(t, p)}
        BY <2>5, <3>1, <3>4, <3>5
      <3>7. ins'[c] = {RevokedToken(u, p) : u \in S2} /\ del'[c] = {LiveToken(u, p) : u \in S2}
        BY <1>1, <3>6
      <3>8. S2 \in SUBSET (Tokens \ T)
        BY <2>2
      <3> HIDE DEF S2
      <3>9. CallInv(c)'
        BY <2>6, <3>5, <3>6, <3>7, <3>8
      <3> QED
        BY <1>0, <2>4, <3>5, <3>9, StatementStep
    <2> QED
      BY <2>5, <2>7, <2>8 DEF Holds
  <1> QED
    BY <1>2, <1>3 DEF RevokeAllForPlayer

----------------------------------------------------------------------------
(* The statements of a profile update.                                     *)

\* What a transaction that has written nothing finds of a committed player.
LEMMA PlayerFound ==
    ASSUME AuthInv, NEW c \in Calls, NEW p, NEW n, playerRow(p, n) \in rows, Idle(c)
    PROVE  /\ RowOf(c, <<"players", p>>) = playerRow(p, n)
           /\ {r \in rows : r.key = <<"players", p>>} = {playerRow(p, n)}
  <1>1. DbInv /\ Unique(rows) /\ playerRow(p, n).key = <<"players", p>>
    BY PlayerIds DEF AuthInv, DbInv
  <1>2. playerRow(p, n) \in Visible(c)
    BY DEF Visible, Idle
  <1> QED
    BY <1>1, <1>2, RowOfIs DEF Unique

\* UpdateProfile reads the player.
LEMMA SetNicknameStep ==
    ASSUME AuthInv, NEW c \in Calls, call[c].op = "profile", SetNickname(c)
    PROVE  AuthInv'
  <1> DEFINE p == call[c].player
  <1>0. /\ CallInv(c) /\ ProfileInv(c) /\ call[c].step = "getPlayer" /\ ~Done(c) /\ c # Nil
        /\ Idle(c) /\ call[c].issued = Nil /\ call[c].nickname \in Nicknames \cup {Blank, Nil}
    BY RunningCall DEF SetNickname, Done, Results, CallInv, ProfileInv
  <1>1. CASE ReturnErr(c, "ErrInvalidNickname")
    <2>1. "ErrInvalidNickname" \in Results \ {"ok"}
      BY DEF Results
    <2> QED
      BY <1>0, <1>1, <2>1, ErrStep
  <1>2. CASE /\ call[c].nickname # Blank /\ UNCHANGED dbVars
             /\ call' = [call EXCEPT ![c].step = "savePlayer",
                    ![c].nickname = IF @ = Nil THEN RowOf(c, PlayerKey(c)).nickname ELSE @]
    <2>1. PICK n \in Names : playerRow(p, n) \in rows
      BY <1>0 DEF ProfileInv, Live
    <2>2. RowOf(c, PlayerKey(c)).nickname = n
      BY <1>0, <2>1, PlayerFound, PlayerIds DEF PlayerKey
    <2> DEFINE m == IF call[c].nickname = Nil THEN n ELSE call[c].nickname
    <2> DEFINE k == [call[c] EXCEPT !.step = "savePlayer", !.nickname = m]
    <2>3. m \in Names
      BY <1>0, <1>2 DEF Names
    <2>4. call' = [call EXCEPT ![c] = k]
      BY <1>2, <2>2 DEF AuthInv
    <2> HIDE DEF m
    <2>5. /\ k \in Requests /\ k.op = "profile" /\ k.step = "savePlayer" /\ k.player = p
          /\ k.nickname = m /\ k.issued = Nil
      <3>1. call[c] \in Requests /\ "savePlayer" \in Steps
        BY RunningCall DEF Steps
      <3> QED
        BY <1>0, <2>3, <3>1 DEF Requests, Names
    <2> HIDE DEF k
    <2>6. /\ call' \in [Calls -> Requests] /\ call'[c] = k
          /\ \A d \in Calls : d # c => call'[d] = call[d]
      BY <2>4, <2>5 DEF AuthInv
    <2>7. DbType(Tables)' /\ DbInv' /\ UNCHANGED rows /\ ins' = ins /\ del' = del
      BY <1>2, IdleStep DEF AuthInv, dbVars
    <2>8. ProfileInv(c)'
      BY <1>0, <2>3, <2>5, <2>6, <2>7 DEF ProfileInv, Idle, Live
    <2>9. CallInv(c)'
      BY <1>0, <2>5, <2>6, <2>8 DEF CallInv
    <2> QED
      BY <1>0, <2>6, <2>7, <2>9, StatementStep
  <1> QED
    BY <1>1, <1>2 DEF SetNickname

\* ... and saves it whole.
LEMMA SavePlayerStep ==
    ASSUME AuthInv, NEW c \in Calls, call[c].op = "profile", SavePlayer(c)
    PROVE  AuthInv'
  <1> DEFINE p == call[c].player
  <1> DEFINE m == call[c].nickname
  <1>0. /\ CallInv(c) /\ ProfileInv(c) /\ call[c].step = "savePlayer" /\ ~Done(c) /\ c # Nil
        /\ Idle(c) /\ call[c].issued = Nil /\ m \in Names /\ p \in Players
    BY RunningCall DEF SavePlayer, Done, Results, CallInv, ProfileInv
  <1>1. PICK n \in Names : playerRow(p, n) \in rows
    BY <1>0 DEF ProfileInv, Live
  <1>2. {r \in rows : r.key = <<"players", p>>} = {playerRow(p, n)}
    BY <1>0, <1>1, PlayerFound
  <1>3. playerRow(p, m).key = <<"players", p>> /\ playerRow(p, m) \in Tables /\ Upsert(c, playerRow(p, m))
    BY <1>0, PlayerIds, InTables DEF SavePlayer
  <1>4. /\ DbType(Tables)' /\ DbInv' /\ UNCHANGED rows
        /\ ins'[c] = {s \in ins[c] : s.key # playerRow(p, m).key} \cup {playerRow(p, m)}
        /\ del'[c] = del[c] \cup {s \in rows : s.key = playerRow(p, m).key}
        /\ \A d \in Calls : d # c => ins'[d] = ins[d] /\ del'[d] = del[d]
    BY <1>3, UpsertStep DEF AuthInv
  <1>5. ins'[c] = {playerRow(p, m)} /\ del'[c] = {playerRow(p, n)}
    BY <1>0, <1>2, <1>3, <1>4 DEF Idle
  <1>6. Goto(c, "commit") /\ "commit" \in Steps
    BY DEF SavePlayer, Steps
  <1>7. ProfileInv(c)'
    BY <1>0, <1>1, <1>4, <1>5, <1>6, GotoFields DEF ProfileInv, Live, Results
  <1>8. CallInv(c)'
    BY <1>0, <1>6, <1>7, GotoFields DEF CallInv
  <1> QED
    BY <1>0, <1>4, <1>6, <1>8, GotoFields, StatementStep

----------------------------------------------------------------------------
(* The commit.                                                             *)

\* What a commit adds to the tables.
Adds(c) ==
    /\ Grows
    /\ \A q : Live(q)' => \/ Live(q)
                          \/ q = c /\ call[c].subject # Nil /\ identityRow(call[c].subject, c) \in rows'
    /\ \A s, q : identityRow(s, q) \in rows' => identityRow(s, q) \in rows \/ Live(q)'
    /\ \A t, q : Holds(q, t)' => Holds(q, t) \/ (t = c /\ call[c].issued = c /\ Live(q)')
    /\ \A t, q : RevokedToken(t, q) \in rows' =>
          \/ RevokedToken(t, q) \in rows
          \/ call[c].op = "refresh" /\ call[c].token = t
          \/ call[c].op = "logout" /\ call[c].player = q

\* No commit takes back what another call relies on; players come with their
\* identity, and tokens are revoked by a refresh or a logout.
LEMMA CommitAdds ==
    ASSUME AuthInv, NEW c \in Calls, call[c].step = "commit",
           rows' = (rows \ del[c]) \cup ins[c]
    PROVE  Adds(c)
  <1> DEFINE p == call[c].player
  <1> DEFINE s == call[c].subject
  <1>0. /\ CallInv(c) /\ call[c].op \in {"login", "link", "refresh", "logout", "profile"}
        /\ (call[c].op \in {"login", "refresh"} => call[c].issued = c)
        /\ p \in Players \cup {Nil} /\ s \in Subjects \cup Players \cup {Nil} /\ c \in Players
        /\ call[c].token \in Tokens \cup {Nil}
    <2>1. CallInv(c) /\ call[c] \in Requests
      BY RunningCall
    <2> QED
      BY <2>1, RunningCall DEF CallInv, NoRequest
  <1>1. /\ \A q, u : identityRow(u, q) \in rows => Live(q)
        /\ \A q, t : Holds(q, t) => Live(q)
    BY TableIds DEF AuthInv, RowsInv, DbType, Holds
  <1>2. CASE call[c].op = "login"
    <2>1. /\ del[c] = {} /\ s # Nil /\ NewToken(c) = {LiveToken(c, p)} /\ call[c].issued = c
          /\ \/ identityRow(s, p) \in rows /\ ins[c] = {LiveToken(c, p)}
             \/ p = c /\ \E n \in Names : ins[c] = {playerRow(c, n), identityRow(s, c)} \cup {LiveToken(c, p)}
      <3>1. LoginInv(c) /\ call[c].issued = c
        BY <1>0, <1>2 DEF CallInv
      <3>2. NewToken(c) = {LiveToken(c, p)}
        BY DEF NewToken
      <3>3. del[c] = {} /\ s # Nil
        BY <3>1 DEF LoginInv, Results
      <3>4. \/ identityRow(s, p) \in rows /\ ins[c] = NewToken(c)
            \/ p = c /\ \E n \in Names : ins[c] = {playerRow(c, n), identityRow(s, c)} \cup NewToken(c)
        BY <3>1 DEF LoginInv
      <3> QED
        BY <3>1, <3>2, <3>3, <3>4
    <2>2. rows \subseteq rows' /\ LiveToken(c, p) \in rows'
      BY <2>1
    <2>3. \A q \in Players : ~Holds(q, c)
      BY DEF AuthInv, RowsInv, Done, Results
    <2>4. p \in Players
      BY <2>1, <1>0, TableIds DEF AuthInv, DbType
    <2>5. CASE identityRow(s, p) \in rows /\ rows' = rows \cup {LiveToken(c, p)}
      <3>1. \A q, n : playerRow(q, n) \in rows' <=> playerRow(q, n) \in rows
        BY <2>5, PlayerIds
      <3>2. \A q, u : identityRow(u, q) \in rows' <=> identityRow(u, q) \in rows
        BY <2>5, IdentityIds
      <3>3. \A q, t : RevokedToken(t, q) \in rows' <=> RevokedToken(t, q) \in rows
        BY <2>5, TokenIds
      <3>4. \A q, t : LiveToken(t, q) \in rows' => LiveToken(t, q) \in rows \/ (t = c /\ q = p)
        BY <2>5, TokenIds
      <3>5. Live(p)
        BY <1>1, <2>5
      <3>6. \A q : Live(q)' <=> Live(q)
        BY <3>1 DEF Live
      <3>7. ~Holds(p, c)
        BY <2>3, <2>4
      <3>8. Grows
        BY <2>2, <3>4, <3>6, <3>7 DEF Grows, Holds
      <3>9. \A t, q : Holds(q, t)' => Holds(q, t) \/ (t = c /\ q = p)
        BY <3>3, <3>4 DEF Holds
      <3>10. \A t, q : Holds(q, t)' => Holds(q, t) \/ (t = c /\ call[c].issued = c /\ Live(q)')
        BY <2>1, <3>5, <3>6, <3>9
      <3> QED
        BY <3>2, <3>3, <3>6, <3>8, <3>10 DEF Adds
    <2>6. CASE p = c /\ \E n \in Names : ins[c] = {playerRow(c, n), identityRow(s, c)} \cup {LiveToken(c, p)}
      <3>0. PICK n \in Names : rows' = rows \cup {playerRow(c, n), identityRow(s, c), LiveToken(c, c)}
        BY <2>1, <2>6
      <3>1. \A q, m : playerRow(q, m) \in rows' => playerRow(q, m) \in rows \/ q = c
        BY <3>0, PlayerIds
      <3>2. \A q, u : identityRow(u, q) \in rows' => identityRow(u, q) \in rows \/ q = c
        BY <3>0, PlayerIds, IdentityIds
      <3>3. \A q, t : RevokedToken(t, q) \in rows' <=> RevokedToken(t, q) \in rows
        BY <3>0, PlayerIds, IdentityIds, TokenIds
      <3>4. \A q, t : LiveToken(t, q) \in rows' => LiveToken(t, q) \in rows \/ (t = c /\ q = c)
        BY <3>0, PlayerIds, IdentityIds, TokenIds
      <3>5. Live(c)' /\ identityRow(s, c) \in rows'
        BY <3>0 DEF Live
      <3>6. \A q : (Live(q)' => Live(q) \/ q = c) /\ (Live(q) => Live(q)')
        BY <2>2, <3>1 DEF Live
      <3>7. ~Holds(c, c)
        BY <1>0, <2>3
      <3>8. Grows
        BY <2>2, <3>4, <3>6, <3>7 DEF Grows, Holds
      <3>9. \A t, q : Holds(q, t)' => Holds(q, t) \/ (t = c /\ q = c)
        BY <3>3, <3>4 DEF Holds
      <3>10. \A t, q : Holds(q, t)' => Holds(q, t) \/ (t = c /\ call[c].issued = c /\ Live(q)')
        BY <2>1, <3>5, <3>9
      <3> QED
        BY <2>1, <3>2, <3>3, <3>5, <3>6, <3>8, <3>10 DEF Adds
    <2> QED
      BY <2>1, <2>5, <2>6
  <1>3. CASE call[c].op = "link"
    <2>1. /\ del[c] = {} /\ Live(p)
          /\ ins[c] \subseteq {identityRow(s, p)}
      BY <1>0, <1>3 DEF CallInv, LinkInv
    <2>2. rows \subseteq rows' /\ rows' \subseteq rows \cup {identityRow(s, p)}
      BY <2>1
    <2>3. \A q, n : playerRow(q, n) \in rows' <=> playerRow(q, n) \in rows
      BY <2>2, PlayerIds
    <2>4. \A q, u : identityRow(u, q) \in rows' => identityRow(u, q) \in rows \/ q = p
      BY <2>2, IdentityIds
    <2>5. \A q, t : /\ RevokedToken(t, q) \in rows' <=> RevokedToken(t, q) \in rows
                    /\ LiveToken(t, q) \in rows' <=> LiveToken(t, q) \in rows
      BY <2>2, IdentityIds
    <2>6. \A q, t : (Live(q)' <=> Live(q)) /\ (Holds(q, t)' <=> Holds(q, t))
      BY <2>3, <2>5 DEF Live, Holds
    <2> QED
      BY <2>1, <2>2, <2>4, <2>5, <2>6 DEF Adds, Grows
  <1>4. CASE call[c].op = "refresh"
    <2> DEFINE t == call[c].token
    <2>1. /\ ins[c] = {RevokedToken(t, p)} \cup NewToken(c) /\ del[c] = {LiveToken(t, p)}
          /\ NewToken(c) = {LiveToken(c, p)} /\ Holds(p, t) /\ call[c].issued = c
      BY <1>0, <1>4 DEF CallInv, RefreshInv, NewToken
    <2>2. rows' = (rows \ {LiveToken(t, p)}) \cup {RevokedToken(t, p), LiveToken(c, p)}
      BY <2>1
    <2>3. \A q, n : playerRow(q, n) \in rows' <=> playerRow(q, n) \in rows
      BY <2>2, PlayerIds
    <2>4. \A q, u : identityRow(u, q) \in rows' <=> identityRow(u, q) \in rows
      BY <2>2, IdentityIds
    <2>5. \A q, u : RevokedToken(u, q) \in rows' <=> RevokedToken(u, q) \in rows \/ (u = t /\ q = p)
      BY <2>2, TokenIds
    <2>6. \A q, u : /\ LiveToken(u, q) \in rows' => LiveToken(u, q) \in rows \/ (u = c /\ q = p)
                    /\ LiveToken(u, q) \in rows => LiveToken(u, q) \in rows' \/ (u = t /\ q = p)
      BY <2>2, TokenIds
    <2>7. ~Holds(p, c)
      <3>1. p \in Players
        BY <2>1, TableIds DEF Holds, AuthInv, DbType
      <3> QED
        BY <3>1 DEF AuthInv, RowsInv, Done, Results
    <2>8. \A q : Live(q)' <=> Live(q)
      BY <2>3 DEF Live
    <2>9. \A u, q : Holds(q, u)' <=> Holds(q, u) \/ (u = c /\ q = p)
      <3>1. LiveToken(c, p) \in rows'
        BY <2>2
      <3> QED
        BY <2>1, <2>5, <2>6, <3>1 DEF Holds
    <2>10. Live(p)
      BY <1>1, <2>1
    <2>11. Grows
      BY <2>4, <2>6, <2>7, <2>8, <2>9 DEF Grows
    <2>12. \A u, q : Holds(q, u)' => Holds(q, u) \/ (u = c /\ call[c].issued = c /\ Live(q)')
      BY <2>1, <2>8, <2>9, <2>10
    <2> QED
      BY <1>4, <2>4, <2>5, <2>8, <2>11, <2>12 DEF Adds
  <1>5. CASE call[c].op = "logout"
    <2>1. PICK S : ins[c] = {RevokedToken(t, p) : t \in S} /\ del[c] = {LiveToken(t, p) : t \in S}
      BY <1>0, <1>5 DEF CallInv, LogoutInv
    <2>2. \A q, n : playerRow(q, n) \in rows' <=> playerRow(q, n) \in rows
      BY <2>1, PlayerIds
    <2>3. \A q, u : identityRow(u, q) \in rows' <=> identityRow(u, q) \in rows
      BY <2>1, IdentityIds
    <2>4. \A q, u : RevokedToken(u, q) \in rows' <=> RevokedToken(u, q) \in rows \/ (u \in S /\ q = p)
      BY <2>1, TokenIds
    <2>5. \A q, u : LiveToken(u, q) \in rows' <=> LiveToken(u, q) \in rows /\ ~(u \in S /\ q = p)
      BY <2>1, TokenIds
    <2>6. \A q : Live(q)' <=> Live(q)
      BY <2>2 DEF Live
    <2>7. \A u \in S : LiveToken(u, p) \in rows
      BY <2>1 DEF AuthInv, DbInv
    <2>8. \A u, q : Holds(q, u)' <=> Holds(q, u)
      BY <2>4, <2>5, <2>7 DEF Holds
    <2> QED
      BY <1>5, <2>3, <2>4, <2>5, <2>6, <2>8 DEF Adds, Grows
  <1>6. CASE call[c].op = "profile"
    <2>1. PICK m \in Names, n \in Names : ins[c] = {playerRow(p, m)} /\ del[c] = {playerRow(p, n)}
      BY <1>0, <1>6 DEF CallInv, ProfileInv
    <2>2. \A q, l : /\ playerRow(q, l) \in rows' => playerRow(q, l) \in rows \/ q = p
                    /\ playerRow(q, l) \in rows => playerRow(q, l) \in rows' \/ q = p
      BY <2>1, PlayerIds
    <2>3. \A q, u : identityRow(u, q) \in rows' <=> identityRow(u, q) \in rows
      BY <2>1, PlayerIds
    <2>4. \A q, u : /\ RevokedToken(u, q) \in rows' <=> RevokedToken(u, q) \in rows
                    /\ LiveToken(u, q) \in rows' <=> LiveToken(u, q) \in rows
      BY <2>1, PlayerIds
    <2>5. Live(p) /\ playerRow(p, m) \in rows'
      BY <1>0, <1>6, <2>1 DEF CallInv, ProfileInv
    <2>6. \A q, u : (Live(q)' <=> Live(q)) /\ (Holds(q, u)' <=> Holds(q, u))
      BY <2>2, <2>4, <2>5 DEF Live, Holds
    <2> QED
      BY <2>3, <2>4, <2>6 DEF Adds, Grows
  <1> QED
    BY <1>0, <1>2, <1>3, <1>4, <1>5, <1>6

\* A commit, acknowledged or not, keeps the invariant.
LEMMA CommitStepAuth ==
    ASSUME AuthInv, NEW c \in Calls, NEW x \in {"ok", "err"}, call[c].step = "commit",
           Commit(c), Goto(c, x)
    PROVE  AuthInv'
  <1> DEFINE p == call[c].player
  <1>1. /\ DbType(Tables)' /\ DbInv' /\ rows' = (rows \ del[c]) \cup ins[c]
        /\ ins'[c] = {} /\ del'[c] = {}
        /\ \A d \in Calls : d # c => ins'[d] = ins[d] /\ del'[d] = del[d]
    BY CommitStep DEF AuthInv
  <1>2. Adds(c) /\ Grows
    BY <1>1, CommitAdds DEF Adds
  <1>3. /\ call' \in [Calls -> Requests]
        /\ \A d \in Calls : d # c => call'[d] = call[d]
        /\ call'[c].step = x /\ call'[c].op = call[c].op
        /\ call'[c].subject = call[c].subject /\ call'[c].player = call[c].player
        /\ call'[c].token = call[c].token /\ call'[c].nickname = call[c].nickname
        /\ call'[c].issued = call[c].issued /\ call'[c].retried = call[c].retried
        /\ call'[c].todo = call[c].todo /\ call'[c].held = call[c].held
    <2>1. x \in Steps
      BY DEF Steps, Results
    <2> QED
      BY <2>1, GotoFields
  <1>4. CallInv(c) /\ ~Done(c) /\ Done(c)' /\ Idle(c)' /\ c # Nil /\ call[c].op # "none"
    BY <1>1, <1>3, RunningCall DEF Done, Results, Idle, CallInv, NoRequest
  <1>5. \A d \in Calls : d # c => CallInv(d)'
    BY <1>1, <1>2, <1>3, OtherCalls DEF AuthInv
  <1>6. CallInv(c)'
    <2>1. call[c].op = "login" => LoginInv(c)'
      <3> SUFFICES ASSUME call[c].op = "login" PROVE LoginInv(c)'
        OBVIOUS
      <3>1. LoginInv(c)
        BY <1>4 DEF CallInv
      <3>2. p # Nil /\ identityRow(call[c].subject, p) \in rows'
        <4>1. \/ identityRow(call[c].subject, p) \in rows
              \/ p = c /\ identityRow(call[c].subject, c) \in ins[c]
          BY <3>1 DEF LoginInv
        <4> QED
          BY <1>1, <1>2, <3>1, <4>1 DEF LoginInv, Grows
      <3> QED
        BY <1>3, <1>4, <3>1, <3>2 DEF LoginInv, Results
    <2>2. call[c].op = "link" => LinkInv(c)'
      <3> SUFFICES ASSUME call[c].op = "link" PROVE LinkInv(c)'
        OBVIOUS
      <3>1. LinkInv(c)
        BY <1>4 DEF CallInv
      <3>2. identityRow(call[c].subject, p) \in rows'
        BY <1>1, <1>2, <3>1 DEF LinkInv, Grows
      <3>3. \E n \in Names : playerRow(p, n) \in rows'
        BY <1>2, <3>1 DEF LinkInv, Grows, Live
      <3> QED
        BY <1>3, <1>4, <3>1, <3>2, <3>3 DEF LinkInv, Results, Live
    <2>3. call[c].op = "refresh" => RefreshInv(c)'
      <3> SUFFICES ASSUME call[c].op = "refresh" PROVE RefreshInv(c)'
        OBVIOUS
      <3>1. RefreshInv(c)
        BY <1>4 DEF CallInv
      <3>2. p # Nil /\ p \in Players /\ call[c].token \in Tokens /\ Holds(p, call[c].token)
        BY <3>1, RunningCall DEF RefreshInv
      <3>3. Live(p)
        BY <3>2 DEF AuthInv, RowsInv
      <3>4. \E n \in Names : playerRow(p, n) \in rows'
        BY <1>2, <3>3 DEF Grows, Live
      <3> QED
        BY <1>3, <1>4, <3>1, <3>2, <3>4 DEF RefreshInv, Results, Live
    <2>4. call[c].op = "logout" => LogoutInv(c)'
      <3> SUFFICES ASSUME call[c].op = "logout" PROVE LogoutInv(c)'
        OBVIOUS
      <3>1. LogoutInv(c) /\ call[c].todo = {}
        BY <1>4 DEF CallInv, LogoutInv
      <3>2. \A t \in call[c].held : LiveToken(t, p) \notin rows'
        <4>1. \A t \in call[c].held : LiveToken(t, p) \notin rows \ del[c]
          BY <3>1 DEF LogoutInv
        <4>2. \A t : LiveToken(t, p) \notin ins[c]
          BY <3>1, TokenIds DEF LogoutInv
        <4> QED
          BY <1>1, <4>1, <4>2
      <3>3. \A t \in call[c].held \cup call[c].todo : RevokedToken(t, p) \in rows' \/ LiveToken(t, p) \in rows'
        BY <1>2, <3>1 DEF LogoutInv, Grows, Holds
      <3> QED
        BY <1>3, <1>4, <3>1, <3>2, <3>3 DEF LogoutInv, Results, Holds
    <2>5. call[c].op = "profile" => ProfileInv(c)'
      <3> SUFFICES ASSUME call[c].op = "profile" PROVE ProfileInv(c)'
        OBVIOUS
      <3>1. ProfileInv(c)
        BY <1>4 DEF CallInv
      <3>2. \E n \in Names : playerRow(p, n) \in rows'
        BY <1>2, <3>1 DEF ProfileInv, Grows, Live
      <3> QED
        BY <1>3, <1>4, <3>1, <3>2 DEF ProfileInv, Results, Live
    <2> QED
      BY <1>3, <1>4, <2>1, <2>2, <2>3, <2>4, <2>5 DEF CallInv
  <1>7. \A d \in Calls : d # c => (Done(d)' <=> Done(d)) /\ call'[d].issued = call[d].issued
    BY <1>3 DEF Done
  <1>8. RowsInv'
    <2>0. RowsInv /\ c \in Players /\ call[c].subject \in Subjects \cup Players \cup {Nil}
      BY RunningCall DEF AuthInv
    <2>1. ASSUME NEW q \in Players, Live(q)'
          PROVE  \E s \in Subjects \cup Players : identityRow(s, q) \in rows'
      <3>1. CASE Live(q)
        BY <1>2, <2>0, <3>1 DEF Grows, RowsInv
      <3>2. CASE q = c /\ call[c].subject # Nil /\ identityRow(call[c].subject, c) \in rows'
        BY <2>0, <3>2
      <3> QED
        BY <1>2, <2>1, <3>1, <3>2 DEF Adds
    <2>2. \A s \in Subjects \cup Players, q \in Players : identityRow(s, q) \in rows' => Live(q)'
      BY <1>2, <2>0 DEF Adds, Grows, RowsInv
    <2>3. \A t \in Tokens, q \in Players : Holds(q, t)' => Live(q)'
      BY <1>2, <2>0 DEF Adds, Grows, RowsInv
    <2>4. \A d \in Calls : Live(d)' => Done(d)'
      BY <1>2, <1>4, <1>7, <2>0 DEF Adds, RowsInv
    <2>5. \A d \in Calls, q \in Players : Holds(q, d)' => Done(d)' /\ call'[d].issued = d
      BY <1>2, <1>3, <1>4, <1>7, <2>0 DEF Adds, RowsInv
    <2>6. Live(First)'
      BY <1>2, <2>0 DEF Grows, RowsInv
    <2> QED
      BY <2>1, <2>2, <2>3, <2>4, <2>5, <2>6 DEF RowsInv
  <1>9. RotationInv'
    <2>0. RotationInv /\ ~Committed(Nil) /\ ~Committed(c)
      BY <1>4, NotCommitted DEF AuthInv
    <2>1. \A t : (\E q \in Players : Holds(q, t)') <=> (\E q \in Players : Holds(q, t)) \/
                                                        (t = c /\ \E q \in Players : Holds(q, t)')
      BY <1>2 DEF Adds, Grows
    <2>2. \A t : Committed(t)' <=> \E q \in Players : Holds(q, t)'
      BY DEF Committed, Holds, LiveToken, RevokedToken
    <2>3. \A t : t # c => (Committed(t)' <=> Committed(t))
      BY <2>1, <2>2, CommittedIs
    <2>4. \A t : \A d \in Calls : d # c => (Exchanged(d, t)' <=> Exchanged(d, t))
      <3> SUFFICES ASSUME NEW d \in Calls, NEW t, d # c PROVE Exchanged(d, t)' <=> Exchanged(d, t)
        OBVIOUS
      <3>1. call[d].issued \in {Nil, d} /\ call'[d] = call[d]
        BY <1>3 DEF AuthInv, CallInv
      <3>2. PICK i : i = call[d].issued /\ i = call'[d].issued /\ i # c
        BY <1>4, <3>1
      <3>3. Committed(i)' <=> Committed(i)
        BY <2>3, <3>2
      <3>4. Exchanged(d, t) <=> call[d].op = "refresh" /\ call[d].token = t /\ Committed(i)
        BY <3>2 DEF Exchanged
      <3>5. Exchanged(d, t)' <=> call[d].op = "refresh" /\ call[d].token = t /\ Committed(i)'
        BY <3>1, <3>2 DEF Exchanged, Committed
      <3> QED
        BY <3>3, <3>4, <3>5
    <2>5. \A t : ~Exchanged(c, t)
      <3>1. call[c].issued \in {Nil, c}
        BY <1>4 DEF CallInv
      <3> QED
        BY <2>0, <3>1 DEF Exchanged
    <2>6. CASE call[c].op # "refresh"
      <3>1. \A t : ~Exchanged(c, t)'
        BY <1>3, <2>6 DEF Exchanged
      <3>2. \A t : \A d \in Calls : Exchanged(d, t)' <=> Exchanged(d, t)
        BY <2>4, <2>5, <3>1
      <3>3. ASSUME NEW t \in Tokens, NEW d \in Calls, Exchanged(d, t)'
            PROVE  \E q \in Players : RevokedToken(t, q) \in rows'
        <4>1. PICK q \in Players : RevokedToken(t, q) \in rows
          BY <2>0, <3>2, <3>3 DEF RotationInv
        <4>2. LiveToken(t, q) \notin rows
          BY <4>1, TokenIds DEF AuthInv, DbInv, Unique
        <4>3. Holds(q, t)' /\ LiveToken(t, q) \notin rows'
          BY <1>2, <4>1, <4>2 DEF Grows, Holds
        <4> QED
          BY <4>3 DEF Holds
      <3>4. ASSUME NEW t \in Tokens, NEW q \in Players, RevokedToken(t, q) \in rows'
            PROVE  \/ \E d \in Calls : Exchanged(d, t)'
                   \/ \E d \in Calls : call'[d].op = "logout" /\ call'[d].player = q /\ Done(d)'
        <4>1. CASE RevokedToken(t, q) \in rows
          <5>1. CASE \E d \in Calls : Exchanged(d, t)
            BY <3>2, <5>1
          <5>2. CASE \E d \in Calls : call[d].op = "logout" /\ call[d].player = q /\ Done(d)
            BY <1>3, <1>4, <1>7, <5>2
          <5> QED
            BY <2>0, <4>1, <5>1, <5>2 DEF RotationInv
        <4>2. CASE call[c].op = "logout" /\ call[c].player = q
          BY <1>3, <1>4, <4>2
        <4> QED
          BY <1>2, <2>6, <3>4, <4>1, <4>2 DEF Adds
      <3> QED
        BY <2>0, <3>2, <3>3, <3>4 DEF RotationInv
    <2>7. CASE call[c].op = "refresh"
      <3> DEFINE u == call[c].token
      <3>1. RefreshInv(c) /\ p \in Players /\ call[c].issued = c /\ u \in Tokens
        BY <1>4, <2>7, RunningCall DEF CallInv, RefreshInv
      <3>2. LiveToken(u, p) \in del[c] /\ RevokedToken(u, p) \in ins[c] /\ LiveToken(c, p) \in ins[c]
        BY <3>1 DEF RefreshInv, NewToken
      <3>3. RevokedToken(u, p) \in rows' /\ Holds(p, c)'
        <4>1. RevokedToken(u, p) \in rows' /\ LiveToken(c, p) \in rows'
          BY <1>1, <3>2
        <4> QED
          BY <1>3, <4>1 DEF Holds
      <3>4. Committed(c)'
        <4>1. PICK q \in Players : q = p
          BY <3>1
        <4>2. Holds(q, c)'
          BY <1>1, <3>2, <4>1 DEF Holds
        <4> QED
          BY <2>2, <4>2
      <3>5. \A t : Exchanged(c, t)' <=> t = u
        BY <1>3, <2>7, <3>1, <3>4 DEF Exchanged, Committed
      <3>6. \A d \in Calls : ~Exchanged(d, u)
        <4>1. LiveToken(u, p) \in rows
          BY <3>2 DEF AuthInv, DbInv
        <4>2. \A q : RevokedToken(u, q) \notin rows
          BY <4>1, TokenIds DEF AuthInv, DbInv, Unique
        <4> QED
          BY <2>0, <3>1, <4>2 DEF RotationInv
      <3>7. \A t : \A d \in Calls : Exchanged(d, t)' <=> Exchanged(d, t) \/ (d = c /\ t = u)
        BY <2>4, <2>5, <3>5
      <3>8. ASSUME NEW t \in Tokens, NEW d \in Calls, Exchanged(d, t)'
            PROVE  \E q \in Players : RevokedToken(t, q) \in rows'
        <4>1. CASE d = c /\ t = u
          BY <3>1, <3>3, <4>1
        <4>2. CASE Exchanged(d, t)
          <5>1. PICK q \in Players : RevokedToken(t, q) \in rows
            BY <2>0, <4>2 DEF RotationInv
          <5>2. LiveToken(t, q) \notin rows
            BY <5>1, TokenIds DEF AuthInv, DbInv, Unique
          <5>3. Holds(q, t)' /\ LiveToken(t, q) \notin rows'
            BY <1>2, <5>1, <5>2 DEF Grows, Holds
          <5> QED
            BY <5>3 DEF Holds
        <4> QED
          BY <3>7, <3>8, <4>1, <4>2
      <3>9. ASSUME NEW t \in Tokens, NEW q \in Players, RevokedToken(t, q) \in rows'
            PROVE  \/ \E d \in Calls : Exchanged(d, t)'
                   \/ \E d \in Calls : call'[d].op = "logout" /\ call'[d].player = q /\ Done(d)'
        <4>1. CASE RevokedToken(t, q) \in rows
          <5>1. CASE \E d \in Calls : Exchanged(d, t)
            BY <3>7, <5>1
          <5>2. CASE \E d \in Calls : call[d].op = "logout" /\ call[d].player = q /\ Done(d)
            BY <1>3, <1>4, <1>7, <5>2
          <5> QED
            BY <2>0, <4>1, <5>1, <5>2 DEF RotationInv
        <4>2. CASE t = u
          BY <3>5, <4>2
        <4> QED
          BY <1>2, <2>7, <3>9, <4>1, <4>2 DEF Adds
      <3>10. \A t \in Tokens : \A d, e \in Calls : Exchanged(d, t)' /\ Exchanged(e, t)' => d = e
        BY <2>0, <3>6, <3>7 DEF RotationInv
      <3> QED
        BY <3>8, <3>9, <3>10 DEF RotationInv
    <2> QED
      BY <2>6, <2>7
  <1> QED
    BY <1>1, <1>3, <1>5, <1>6, <1>8, <1>9 DEF AuthInv

----------------------------------------------------------------------------
(* The theorems.                                                           *)

\* The invariant holds when nothing but the first login has happened.
LEMMA AuthInit == Init => AuthInv
  <1> SUFFICES ASSUME Init PROVE AuthInv
    OBVIOUS
  <1> DEFINE initial == {playerRow(First, NoName), identityRow(FirstDevice, First), LiveToken(First, First)}
  <1>1. /\ First \in Players /\ First \in Tokens /\ First \notin Calls
        /\ FirstDevice \in Subjects /\ NoName \in Names
    BY FirstAssumption DEF Players, Tokens, Subjects, Names
  <1>2. DbInit(initial) /\ call = [c \in Calls |-> NoRequest]
    BY DEF Init, LiveToken
  <1>3. initial \in SUBSET Tables
    BY <1>1, InTables
  <1>4. Unique(initial)
    BY PlayerIds, IdentityIds DEF Unique
  <1>5. rows = initial /\ \A c \in Calls : Idle(c)
    BY <1>2 DEF DbInit, Idle
  <1> HIDE DEF initial
  <1>6. DbType(Tables) /\ DbInv
    BY ONLY <1>2, <1>3, <1>4, DbStart
  <1>7. NoRequest \in Requests
    BY DEF NoRequest, Requests, Steps
  <1>8. \A c \in Calls : CallInv(c) /\ call[c] = NoRequest
    <2>1. \A c \in Calls : c # Nil /\ call[c] = NoRequest
      BY <1>2, NilAssumption DEF Players
    <2>2. NoRequest.op = "none" /\ NoRequest.issued = Nil
      BY DEF NoRequest
    <2> QED
      BY <1>5, <2>1, <2>2 DEF CallInv
  <1>9. /\ \A p, n : playerRow(p, n) \in rows <=> p = First /\ n = NoName
        /\ \A s, p : identityRow(s, p) \in rows <=> s = FirstDevice /\ p = First
        /\ \A t, p : LiveToken(t, p) \in rows <=> t = First /\ p = First
        /\ \A t, p : RevokedToken(t, p) \notin rows
    BY <1>5, PlayerIds, IdentityIds, TokenIds DEF initial
  <1>10. \A p, t : (Live(p) <=> p = First) /\ (Holds(p, t) <=> p = First /\ t = First)
    BY <1>1, <1>9 DEF Live, Holds
  <1>11. RowsInv
    BY <1>1, <1>9, <1>10 DEF RowsInv
  <1>12. RotationInv
    <2>1. \A t : \A c \in Calls : ~Exchanged(c, t)
      BY <1>8 DEF Exchanged, NoRequest
    <2> QED
      BY <1>9, <2>1 DEF RotationInv
  <1> QED
    BY <1>2, <1>6, <1>7, <1>8, <1>11, <1>12 DEF AuthInv

\* Every step of every call keeps the invariant.
LEMMA AuthStep == AuthInv /\ [Next]_vars => AuthInv'
  <1> SUFFICES ASSUME AuthInv, [Next]_vars PROVE AuthInv'
    OBVIOUS
  <1>1. ASSUME NEW c \in Calls, Step(c) PROVE AuthInv'
    <2>1. CASE LoginTx(c)
      BY <2>1, VerifyStep, FindStep, CreateStep, SaveIdentityStep, IssueStep DEF LoginTx, findOrCreatePlayer
    <2>2. CASE LinkTx(c)
      BY <2>2, VerifyStep, FindStep, SaveIdentityStep DEF LinkTx
    <2>3. CASE RefreshTx(c)
      BY <2>3, FindByHashStep, RevokeStep, IssueStep DEF RefreshTx
    <2>4. CASE LogoutTx(c)
      BY <2>4, SnapshotStep, RevokeAllStep DEF LogoutTx
    <2>5. CASE UpdateProfileTx(c)
      BY <2>5, SetNicknameStep, SavePlayerStep DEF UpdateProfileTx
    <2>6. CASE Return(c)
      BY <2>6, CommitStepAuth DEF Return
    <2>7. CASE DeadlockAbort(c)
      <3>1. ReturnErr(c, "err") /\ Wants[c] # {}
        BY <2>7 DEF DeadlockAbort, InDeadlock
      <3>2. call[c].step \in {"saveIdentity", "revoke", "revokeAll", "savePlayer"}
        BY <3>1 DEF Wants
      <3>3. ~Done(c) /\ call[c].op # "none" /\ "err" \in Results \ {"ok"}
        BY <3>2 DEF Done, Results, AuthInv, CallInv, NoRequest
      <3> QED
        BY <3>1, <3>3, ErrStep
    <2> QED
      BY <1>1, <2>1, <2>2, <2>3, <2>4, <2>5, <2>6, <2>7 DEF Step
  <1>2. ASSUME NEW c \in Calls, Fail(c) PROVE AuthInv'
    <2>1. ~Done(c) /\ call[c].op # "none" /\ "err" \in Results \ {"ok"}
      BY <1>2 DEF Fail, Done, Results, AuthInv, CallInv, NoRequest
    <2>2. CASE ReturnErr(c, "err")
      BY <2>1, <2>2, ErrStep
    <2>3. CASE call[c].step = "commit" /\ Commit(c) /\ Goto(c, "err")
      BY <2>3, CommitStepAuth
    <2> QED
      BY <1>2, <2>2, <2>3 DEF Fail
  <1>3. CASE UNCHANGED vars
    <2>1. rows' = rows /\ ins' = ins /\ del' = del /\ call' = call
      BY <1>3 DEF vars, dbVars
    <2>2. DbType(Tables)' /\ DbInv'
      BY <2>1, IdleStep DEF dbVars, AuthInv
    <2>3. Grows
      BY <2>1 DEF Grows, Live, Holds
    <2>4. \A d \in Calls : CallInv(d)'
      BY <2>1, <2>3, OtherCalls DEF AuthInv
    <2>5. RowsInv'
      BY <2>1 DEF AuthInv, RowsInv, Live, Holds, Done
    <2>6. RotationInv'
      BY <2>1 DEF AuthInv, RotationInv, Exchanged, Committed, Done
    <2> QED
      BY <2>1, <2>2, <2>4, <2>5, <2>6 DEF AuthInv
  <1> QED
    BY <1>1, <1>2, <1>3, RequestStep DEF Next

\* Every variable of the auth model always holds a value of its type, and no
\* two committed rows have the same key.
THEOREM AuthTypeCorrect == Spec => []TypeOK
  <1>1. AuthInv => TypeOK
    <2> SUFFICES ASSUME AuthInv PROVE TypeOK
      OBVIOUS
    <2>1. rows \subseteq Tables /\ ins \in [Calls -> SUBSET Tables] /\ del \in [Calls -> SUBSET Tables]
      BY DEF AuthInv, DbType
    <2>2. KeysUnique
      BY DEF AuthInv, DbInv, Unique, KeysUnique
    <2>3. \A c \in Calls : call[c] \in Requests
      BY DEF AuthInv
    <2> QED
      BY <2>1, <2>2, <2>3 DEF TypeOK, Requests
  <1> QED
    BY <1>1, AuthInit, AuthStep, PTL DEF Spec

\* Every committed player has an identity that leads back to it, whichever of
\* several concurrent first logins lost and wherever a call failed.
THEOREM NoOrphanPlayerHolds == Spec => []NoOrphanPlayer
  <1>1. AuthInv => NoOrphanPlayer
    <2> SUFFICES ASSUME AuthInv, NEW r \in rows, r.key[1] = "players"
                 PROVE  \E s \in Subjects \cup Players : identityRow(s, r.key[2]) \in rows
      BY DEF NoOrphanPlayer
    <2>1. r \in Tables
      BY DEF AuthInv, DbType
    <2>2. \A s, q : r # identityRow(s, q)
      BY IdentityIds
    <2>3. \A t, q : r # LiveToken(t, q) /\ r # RevokedToken(t, q)
      BY TokenIds DEF TokenKey
    <2>4. PICK p \in Players, n \in Names : r = playerRow(p, n)
      BY <2>1, <2>2, <2>3, TableRows
    <2>5. r.key[2] = p /\ Live(p)
      BY <2>4, PlayerIds DEF Live
    <2> QED
      BY <2>5 DEF AuthInv, RowsInv
  <1> QED
    BY <1>1, AuthInit, AuthStep, PTL DEF Spec

\* The player a login or a link reported owns the identity from then on, and a
\* login that lost the race to create it finds the winner's on its retry.
THEOREM IdentityKeptHolds == Spec => []IdentityKept
  <1>1. AuthInv => IdentityKept
    BY DEF AuthInv, CallInv, LoginInv, LinkInv, IdentityKept
  <1> QED
    BY <1>1, AuthInit, AuthStep, PTL DEF Spec

\* A refresh token is exchanged at most once, however many calls race for it, and
\* is found revoked only together with its successor or after a logout.
THEOREM RotationExactHolds == Spec => []RotationExact
  <1>1. AuthInv => RotationExact
    <2> SUFFICES ASSUME AuthInv, NEW t \in Tokens
                 PROVE  LET N == {c \in Calls : call[c].op = "refresh" /\ call[c].token = t
                                                    /\ Committed(call[c].issued)}
                        IN /\ Cardinality(N) <= 1
                           /\ \A p \in Players : tokenRow(t, p, TRUE) \in rows =>
                                 N # {} \/ \E c \in Calls :
                                     call[c].op = "logout" /\ call[c].player = p /\ Done(c)
      BY DEF RotationExact
    <2> DEFINE N == {c \in Calls : call[c].op = "refresh" /\ call[c].token = t
                                       /\ Committed(call[c].issued)}
    <2>1. \A c \in Calls : c \in N <=> Exchanged(c, t)
      BY DEF Exchanged
    <2>2. \A c, d \in N : c = d
      BY <2>1 DEF AuthInv, RotationInv
    <2>3. Cardinality(N) <= 1
      <3>1. Cardinality({}) = 0 /\ \A x : Cardinality({x}) = 1
        BY FS_EmptySet, FS_Singleton
      <3> HIDE DEF N
      <3>2. N = {} \/ \E x : N = {x}
        BY <2>2
      <3> QED
        BY <3>1, <3>2
    <2>4. \A p \in Players : RevokedToken(t, p) \in rows =>
             N # {} \/ \E c \in Calls : call[c].op = "logout" /\ call[c].player = p /\ Done(c)
      BY <2>1 DEF AuthInv, RotationInv
    <2> HIDE DEF N
    <2>5. \A p \in Players : tokenRow(t, p, TRUE) \in rows =>
             N # {} \/ \E c \in Calls : call[c].op = "logout" /\ call[c].player = p /\ Done(c)
      BY <2>4 DEF RevokedToken
    <2> QED
      BY <2>3, <2>5 DEF N
  <1> QED
    BY <1>1, AuthInit, AuthStep, PTL DEF Spec

\* After a logout succeeded, every token the player had when it began is revoked
\* for good, whatever refreshed one of them meanwhile.
THEOREM LogoutRevokesHolds == Spec => []LogoutRevokes
  <1>1. AuthInv => LogoutRevokes
    BY DEF AuthInv, CallInv, LogoutInv, LogoutRevokes, LiveToken
  <1> QED
    BY <1>1, AuthInit, AuthStep, PTL DEF Spec
=============================================================================
