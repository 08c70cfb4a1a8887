---------------------------- MODULE Leaderboard -----------------------------
(***************************************************************************)
(* LeaderboardService on one board: the best score of each player is a     *)
(* row, and a Valkey sorted set mirrors the rows to answer ranks.  The     *)
(* set is written inside the submitting transaction, before it commits,    *)
(* and is rebuilt from the rows by whoever finds its key absent.           *)
(***************************************************************************)
EXTENDS Postgres, Integers, FiniteSetsExt

CONSTANTS
    Players, Scores,
    SortOrder,        \* "desc" or "asc"
    MaxExact,         \* 2^53: the largest integer up to which float64 is exact
    MaxSubmits,       \* bound on the submissions
    MaxRadius, DefaultLimit, MaxLimit

ASSUME ScoresFit == MaxExact \in Nat /\ Scores \subseteq 0..(2 * MaxExact)
ASSUME BoundsAssumption ==
    /\ IsFiniteSet(Players) /\ {MaxSubmits, MaxRadius} \subseteq Nat
    /\ {DefaultLimit, MaxLimit} \subseteq Nat \ {0}

Beats(a, b) == IF SortOrder = "asc" THEN a < b ELSE a > b

\* The conversion of an int64 below 2^54 rounds an odd one to a multiple of four.
float64(s) == IF s <= MaxExact \/ s % 2 = 0 THEN s ELSE IF (s - 1) % 4 = 0 THEN s - 1 ELSE s + 1

entry(p, s, t) == [key |-> p, score |-> s, at |-> t]

VARIABLES
    call,             \* the RPC each call handler runs and the command it issues next
    submits,          \* the submissions so far; their number is also the time they are dated
    zset,             \* the sorted set: the scores of its members; no key when it is empty
    expires,          \* the key has a TTL
    torn              \* the sorted set may disagree with the rows, see Tear
vars == <<dbVars, call, submits, zset, expires, torn>>

Tables == {entry(p, s, t) : p \in Players, s \in Scores, t \in 1..MaxSubmits}
Zsets == UNION {[P -> {float64(s) : s \in Scores}] : P \in SUBSET Players}
NoKey == <<>>
NoCall == [op |-> "none", step |-> "none"]
Steps == {"upsert", "exists", "load", "rebuild", "expire", "zadd", "zrank", "commit", "pgrank"}

TypeOK ==
    /\ rows \subseteq Tables /\ KeysUnique
    /\ ins \in [Calls -> SUBSET Tables] /\ del \in [Calls -> SUBSET Tables]
    /\ \A c \in Calls : call[c] # NoCall =>
          /\ call[c].op \in {"submit", "rank"} /\ call[c].step \in Steps
          /\ call[c].me \in Players /\ call[c].score \in Scores \cup {0}
          /\ call[c].at \in 0..MaxSubmits /\ call[c].loaded \in Zsets /\ call[c].improved \in BOOLEAN
    /\ submits \in 0..MaxSubmits
    /\ zset \in Zsets /\ expires \in BOOLEAN /\ (expires => zset # NoKey) /\ torn \in BOOLEAN

Init ==
    /\ DbInit({})
    /\ call = [c \in Calls |-> NoCall]
    /\ submits = 0
    /\ zset = NoKey /\ expires = FALSE /\ torn = FALSE

----------------------------------------------------------------------------
(* Requests.  SubmitScore reads the clock before its transaction, and the  *)
(* rank in a second one.                                                   *)

index == <<zset, expires, torn>>
Begin(c, op, step, p, s, t) ==
    call' = [call EXCEPT ![c] = [op |-> op, step |-> step, me |-> p, score |-> s, at |-> t,
                                 loaded |-> NoKey, improved |-> FALSE]]
Goto(c, step) == call' = [call EXCEPT ![c].step = step] /\ UNCHANGED submits
Return(c) == call' = [call EXCEPT ![c] = NoCall] /\ UNCHANGED submits

SubmitScore(c, p, s) ==
    /\ call[c] = NoCall /\ submits < MaxSubmits
    /\ submits' = submits + 1
    /\ Begin(c, "submit", "upsert", p, s, submits')
    /\ UNCHANGED <<dbVars, index>>

GetPlayerRank(c, p) ==
    /\ call[c] = NoCall
    /\ Begin(c, "rank", "exists", p, 0, 0)
    /\ UNCHANGED <<dbVars, index, submits>>

----------------------------------------------------------------------------
(* Submit                                                                  *)

\* Mutant of Submit: the upsert overwrites whatever is there.
SubmitOverwrites(c) ==
    /\ call[c].step = "upsert"
    /\ Upsert(c, entry(call[c].me, call[c].score, call[c].at))
    /\ call' = [call EXCEPT ![c].step = "exists", ![c].improved = TRUE]
    /\ UNCHANGED <<submits, index>>

\* The upsert locks the player's row even when its WHERE leaves it alone, as the
\* lock of a row no better than the one it would write.
Submit(c) ==
    LET p == call[c].me
        held == {r \in Visible(c) : r.key = p}
        better == \A r \in held : Beats(call[c].score, r.score)
    IN /\ call[c].step = "upsert"
       /\ Write(c, held, IF better THEN {entry(p, call[c].score, call[c].at)} ELSE held)
       /\ call' = [call EXCEPT ![c].step = "exists", ![c].improved = better]
       /\ UNCHANGED <<submits, index>>

Then(c) == IF call[c].op = "submit" THEN "zadd" ELSE "zrank"

ensureBuilt(c) ==
    /\ call[c].step = "exists"
    /\ Goto(c, IF zset = NoKey THEN "load" ELSE Then(c))
    /\ UNCHANGED <<dbVars, index>>

\* Every entry the transaction sees, its own uncommitted one included.
Load(c) ==
    /\ call[c].step = "load"
    /\ LET seen == [p \in {r.key : r \in Visible(c)} |-> float64(RowOf(c, p).score)]
       IN call' = [call EXCEPT ![c].loaded = seen,
                               ![c].step = IF seen = NoKey THEN Then(c) ELSE "rebuild"]
    /\ UNCHANGED <<dbVars, submits, index>>

\* The sorted set z with the members of new at their scores there.
zadd(z, new) == [p \in DOMAIN z \cup DOMAIN new |-> IF p \in DOMAIN new THEN new[p] ELSE z[p]]

\* A plain ZADD, which also overwrites what is newer.
ZaddLoaded(c) ==
    /\ call[c].step = "rebuild"
    /\ zset' = zadd(zset, call[c].loaded)
    /\ torn' = (torn \/ \E p \in DOMAIN zset \cap DOMAIN call[c].loaded : zset[p] # call[c].loaded[p])
    /\ call' = [call EXCEPT ![c].step = "expire", ![c].loaded = NoKey]
    /\ UNCHANGED <<dbVars, submits, expires>>

Expire(c) ==
    /\ call[c].step = "expire"
    /\ expires' = (zset # NoKey)
    /\ Goto(c, Then(c))
    /\ UNCHANGED <<dbVars, zset, torn>>

\* Mutant of Zadd: without GT or LT.
ZaddPlain(c) ==
    /\ call[c].step = "zadd"
    /\ zset' = zadd(zset, [p \in {call[c].me} |-> float64(call[c].score)])
    /\ Goto(c, "commit")
    /\ UNCHANGED <<dbVars, expires, torn>>

\* ZADD GT or LT.
Zadd(c) ==
    LET p == call[c].me  f == float64(call[c].score)
    IN /\ call[c].step = "zadd"
       /\ zset' = IF p \in DOMAIN zset /\ ~Beats(f, zset[p]) THEN zset ELSE zadd(zset, [q \in {p} |-> f])
       /\ Goto(c, "commit")
       /\ UNCHANGED <<dbVars, expires, torn>>

CommitSubmit(c) ==
    /\ call[c].step = "commit"
    /\ Commit(c)
    /\ Begin(c, "rank", "exists", call[c].me, 0, 0)
    /\ UNCHANGED <<submits, index>>

----------------------------------------------------------------------------
(* RankOf: ZRANK or ZREVRANK, then the player's row.                       *)

Zrank(c) == call[c].step = "zrank" /\ Return(c) /\ UNCHANGED <<dbVars, index>>

\* Any Valkey error makes RankOf count rows instead.
PgRankOf(c) == call[c].step = "pgrank" /\ Return(c) /\ UNCHANGED <<dbVars, index>>

----------------------------------------------------------------------------
(* Failures.                                                               *)

\* A Valkey command fails: a submission goes on to commit without the mirror.
ValkeyFails(c) ==
    /\ call[c].step \in {"exists", "rebuild", "expire", "zadd", "zrank"}
    /\ call' = [call EXCEPT ![c].step = IF call[c].op = "submit" THEN "commit" ELSE "pgrank",
                            ![c].loaded = NoKey]
    /\ torn' = (torn \/ call[c].op = "submit" \/ call[c].step = "expire")
    /\ UNCHANGED <<dbVars, submits, zset, expires>>

\* A statement or the commit fails; what a submission mirrored stays.
Fail(c) ==
    /\ call[c] # NoCall
    /\ Rollback(c) /\ Return(c)
    /\ torn' = (torn \/ call[c].op = "submit" \/ call[c].step = "expire")
    /\ UNCHANGED <<zset, expires>>

\* The TTL runs out, or the key is evicted.  The calls that will write a part of
\* the set without looking again, or whose entry the next rebuild may not see.
Tear == \E c \in Calls :
    \/ call[c].step = "rebuild"
    \/ call[c].op = "submit" /\ call[c].step \in {"expire", "zadd", "commit"}
KeyGone ==
    /\ zset # NoKey
    /\ zset' = NoKey /\ expires' = FALSE /\ torn' = Tear
    /\ UNCHANGED <<dbVars, call, submits>>

rebuild(c) == Load(c) \/ ZaddLoaded(c) \/ Expire(c)
SubmitTx(c) ==
    /\ call[c].op = "submit"
    /\ Submit(c) \/ ensureBuilt(c) \/ rebuild(c) \/ Zadd(c) \/ CommitSubmit(c)
RankOf(c) == call[c].op = "rank" /\ (ensureBuilt(c) \/ rebuild(c) \/ Zrank(c) \/ PgRankOf(c))
Step(c) == SubmitTx(c) \/ RankOf(c)

Next ==
    \/ \E c \in Calls :
          \/ \E p \in Players : GetPlayerRank(c, p) \/ \E s \in Scores : SubmitScore(c, p, s)
          \/ Step(c) \/ ValkeyFails(c) \/ Fail(c)
    \/ KeyGone

Spec == Init /\ [][Next]_vars

----------------------------------------------------------------------------
(* Ranks.                                                                  *)

Ahead(r, s) == Beats(r.score, s.score) \/ (r.score = s.score /\ r.at < s.at)
pgRank(r) == 1 + Cardinality({s \in rows : Ahead(s, r)})
\* Members of equal score are ordered by name, in the direction of the command.
zRanks(p) ==
    LET ahead == {q \in DOMAIN zset : Beats(zset[q], zset[p])}
        tied == {q \in DOMAIN zset \ {p} : zset[q] = zset[p]}
    IN {1 + Cardinality(ahead) + n : n \in 0..Cardinality(tied)}

clampLimit(limit) == IF limit <= 0 THEN DefaultLimit ELSE Min({limit, MaxLimit})
TopRanks(offset, limit) == {r \in rows : pgRank(r) > offset /\ pgRank(r) <= offset + limit}
ListRanks(offset, limit) == TopRanks(Max({offset, 0}), clampLimit(limit))

\* ListRanksAroundPlayer, for the rank RankOf answered.
RanksAround(rank, radius) ==
    LET r == Min({Max({radius, 0}), MaxRadius}) IN TopRanks(Max({rank - 1 - r, 0}), 2 * r + 1)

----------------------------------------------------------------------------

Settled == \A c \in Calls : call[c].op # "submit" /\ call[c].step \notin {"load", "rebuild"}

\* "Concurrent submits never lose a better score": a player's row only ever
\* gives way to a better one, and when a submission commits, the row is at least
\* as good as its score.
BestKept ==
    [][/\ \A r \in rows : \E s \in rows' : s.key = r.key /\ (s = r \/ Beats(s.score, r.score))
       /\ \A c \in Calls : CommitSubmit(c) =>
             /\ \E r \in rows' : r.key = call[c].me /\ ~Beats(call[c].score, r.score)
             /\ call[c].improved <=> rows' # rows]_vars

\* When no submission runs and none was torn from the index (by a failure, by the
\* key going while it was between EXISTS and commit, or by a rebuild from older
\* rows), the sorted set is absent, or holds exactly the rows and will expire.
\* While no two scores are equal as float64, its ranks are then those of the
\* paginated list, and the window around a player holds the neighbours on either
\* side, and no one else unless it was shifted to the top of the list.
IndexAgrees ==
    Settled /\ ~torn /\ zset # NoKey =>
        /\ zset = [p \in {r.key : r \in rows} |-> float64((CHOOSE r \in rows : r.key = p).score)]
        /\ expires \/ \E c \in Calls : call[c].step = "expire"
        /\ (\A r, s \in rows : float64(r.score) = float64(s.score) => r = s) =>
              \A r \in rows :
                 /\ zRanks(r.key) = {pgRank(r)}
                 /\ \A limit \in 0..(MaxLimit + 1) : r \in ListRanks(pgRank(r) - 1, limit)
                 /\ \A radius \in 0..(MaxRadius + 1) :
                       LET m == Min({radius, MaxRadius})
                           near == {s \in rows : pgRank(s) \in (pgRank(r) - m)..(pgRank(r) + m)}
                           window == RanksAround(pgRank(r), radius)
                       IN near \subseteq window /\ (pgRank(r) > m => window = near)
=============================================================================
