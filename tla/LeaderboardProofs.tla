------------------------- MODULE LeaderboardProofs --------------------------
(***************************************************************************)
(* Proofs about Leaderboard, for any players, calls, scores and sizes of   *)
(* page and window, in either sort order.                                  *)
(***************************************************************************)
EXTENDS Leaderboard, PostgresProofs, FiniteSetTheorems

Floats == {float64(s) : s \in Scores}

\* A sorted set of some players.
IsZset(z) == DOMAIN z \subseteq Players /\ z \in [DOMAIN z -> Floats]

Requests == [op : {"submit", "rank"}, step : Steps, me : Players, score : Scores \cup {0}, at : 0..MaxSubmits,
             loaded : Zsets, improved : BOOLEAN]

\* The submission's transaction holds the player's row.
Submitting(c) == call[c].op = "submit" /\ call[c].step # "upsert"
Improving(c) == Submitting(c) /\ call[c].improved

----------------------------------------------------------------------------
(* The rows.                                                               *)

Held(p) == {r \in rows : r.key = p}

\* What a call's transaction has written: the better entry in place of the
\* player's row, or that row again, which is no worse than the score.
CallInv(c) ==
    /\ call[c].op = "submit" => call[c].step \in {"upsert", "exists", "load", "rebuild", "expire", "zadd", "commit"}
    /\ call[c].op = "rank" => call[c].step \in {"exists", "load", "rebuild", "expire", "zrank", "pgrank"}
    /\ call[c].op = "submit" => call[c].score \in Scores /\ call[c].at \in 1..MaxSubmits
    /\ call[c].step = "rebuild" => DOMAIN call[c].loaded # {}
    /\ ~Submitting(c) => ins[c] = {} /\ del[c] = {}
    /\ Submitting(c) => del[c] = Held(call[c].me)
    /\ Improving(c) =>
          /\ ins[c] = {entry(call[c].me, call[c].score, call[c].at)}
          /\ \A r \in Held(call[c].me) : Beats(call[c].score, r.score)
    /\ Submitting(c) /\ ~Improving(c) =>
          /\ ins[c] = Held(call[c].me) /\ Held(call[c].me) # {}
          /\ \A r \in Held(call[c].me) : ~Beats(call[c].score, r.score)

RowsInv ==
    /\ DbType(Tables) /\ DbInv
    /\ call \in [Calls -> {NoCall} \cup Requests]
    /\ submits \in 0..MaxSubmits
    /\ zset \in Zsets /\ expires \in BOOLEAN /\ (expires => DOMAIN zset # {}) /\ torn \in BOOLEAN
    /\ \A c \in Calls : CallInv(c)

----------------------------------------------------------------------------
(* The sorted set, as long as it is not torn.                              *)

\* v is the score of p's row, or of the better entry about to replace it.
Current(p, v) ==
    \/ \E r \in rows : r.key = p /\ float64(r.score) = v
    \/ \E c \in Calls : Improving(c) /\ call[c].me = p /\ float64(call[c].score) = v

\* The set and what a rebuild has loaded together have every player; what it
\* would overwrite with an older score is there to tell.
RebuildInv(c) ==
    /\ \A p \in DOMAIN call[c].loaded :
          Current(p, call[c].loaded[p]) \/ (p \in DOMAIN zset /\ zset[p] # call[c].loaded[p])
    /\ \A r \in rows : r.key \in DOMAIN call[c].loaded \cup DOMAIN zset

MirrorInv(c) ==
    /\ call[c].step = "rebuild" => RebuildInv(c)
    /\ call[c].op = "submit" /\ call[c].step \in {"expire", "zadd", "commit"} => DOMAIN zset # {}
    /\ Improving(c) /\ call[c].step = "commit" =>
          call[c].me \in DOMAIN zset /\ zset[call[c].me] = float64(call[c].score)

Mirrored ==
    /\ \A p \in DOMAIN zset : Current(p, zset[p])
    /\ DOMAIN zset # {} => \A r \in rows : r.key \in DOMAIN zset
    /\ DOMAIN zset # {} => expires \/ \E c \in Calls : call[c].step = "expire"
    /\ \A c \in Calls : MirrorInv(c)

IndexInv == ~torn => Mirrored

----------------------------------------------------------------------------
(* Scores, entries and sorted sets.                                        *)

\* Scores are integers, and so is what they are converted to.
LEMMA ScoreTypes ==
    /\ \A s \in Scores : s \in Nat /\ float64(s) \in Int
    /\ \A f \in Floats : f \in Int
  <1>1. \A s \in Scores : s \in Nat
    BY ScoresFit
  <1>2. \A s \in Scores : float64(s) \in Int
    BY <1>1 DEF float64
  <1> QED
    BY <1>1, <1>2 DEF Floats

\* Beats is a strict order.
LEMMA BeatsOrder ==
    ASSUME NEW a \in Int, NEW b \in Int
    PROVE  /\ ~Beats(a, a)
           /\ a = b \/ Beats(a, b) \/ Beats(b, a)
           /\ ~(Beats(a, b) /\ Beats(b, a))
  BY DEF Beats

\* The conversion keeps the order, though it makes neighbours equal.
LEMMA FloatOrder ==
    ASSUME NEW a \in Scores, NEW b \in Scores
    PROVE  /\ Beats(float64(a), float64(b)) => Beats(a, b)
           /\ Beats(a, b) => float64(a) = float64(b) \/ Beats(float64(a), float64(b))
  <1>1. \A x, y \in Nat : x < y => float64(x) <= float64(y)
    BY ScoresFit DEF float64
  <1>2. a \in Nat /\ b \in Nat /\ float64(a) \in Int /\ float64(b) \in Int
    BY ScoreTypes
  <1>3. (a < b => float64(a) <= float64(b)) /\ (b < a => float64(b) <= float64(a))
        /\ (a = b => float64(a) = float64(b))
    BY <1>1, <1>2
  <1> HIDE DEF float64
  <1> QED
    BY <1>2, <1>3 DEF Beats

\* The entries.
LEMMA Entries ==
    /\ \A p, s, t : entry(p, s, t).key = p /\ entry(p, s, t).score = s /\ entry(p, s, t).at = t
    /\ \A r \in Tables : r.key \in Players /\ r.score \in Scores /\ r.at \in 1..MaxSubmits
    /\ \A p \in Players : \A s \in Scores : \A t \in 1..MaxSubmits : entry(p, s, t) \in Tables
  <1>1. \A p, s, t : entry(p, s, t).key = p /\ entry(p, s, t).score = s /\ entry(p, s, t).at = t
    BY DEF entry
  <1>2. ASSUME NEW r \in Tables PROVE r.key \in Players /\ r.score \in Scores /\ r.at \in 1..MaxSubmits
    <2>1. PICK p \in Players, s \in Scores, t \in 1..MaxSubmits : r = entry(p, s, t)
      BY <1>2 DEF Tables
    <2> QED
      BY <2>1, <1>1
  <1>3. \A p \in Players : \A s \in Scores : \A t \in 1..MaxSubmits : entry(p, s, t) \in Tables
    BY DEF Tables
  <1> QED
    BY <1>1, <1>2, <1>3

\* What a sorted set is.
LEMMA ZsetIs == \A z : z \in Zsets <=> IsZset(z)
  <1>1. ASSUME NEW z, z \in Zsets PROVE IsZset(z)
    <2>1. PICK P \in SUBSET Players : z \in [P -> Floats]
      BY <1>1 DEF Zsets, Floats
    <2> QED
      BY <2>1 DEF IsZset
  <1>2. ASSUME NEW z, IsZset(z) PROVE z \in Zsets
    BY <1>2 DEF Zsets, Floats, IsZset
  <1> QED
    BY <1>1, <1>2

\* No key, and a set that has members.
LEMMA EmptyZset ==
    /\ NoKey \in Zsets /\ DOMAIN NoKey = {}
    /\ \A z \in Zsets : DOMAIN z = {} <=> z = NoKey
  <1>1. DOMAIN NoKey = {}
    BY DEF NoKey
  <1>2. NoKey \in Zsets
    <2>1. NoKey \in [{} -> Floats]
      BY DEF NoKey
    <2> QED
      BY <2>1, <1>1, ZsetIs DEF IsZset
  <1>3. ASSUME NEW z \in Zsets, DOMAIN z = {} PROVE z = NoKey
    <2>1. z \in [{} -> Floats]
      BY <1>3, ZsetIs DEF IsZset
    <2> QED
      BY <2>1 DEF NoKey
  <1> QED
    BY <1>1, <1>2, <1>3

\* ZADD.
LEMMA ZaddIs ==
    ASSUME NEW z \in Zsets, NEW n \in Zsets
    PROVE  /\ zadd(z, n) \in Zsets
           /\ DOMAIN zadd(z, n) = DOMAIN z \cup DOMAIN n
           /\ \A p \in DOMAIN n : zadd(z, n)[p] = n[p]
           /\ \A p \in DOMAIN z : p \notin DOMAIN n => zadd(z, n)[p] = z[p]
  <1>1. IsZset(z) /\ IsZset(n)
    BY ZsetIs
  <1>2. /\ DOMAIN zadd(z, n) = DOMAIN z \cup DOMAIN n
        /\ \A p \in DOMAIN n : zadd(z, n)[p] = n[p]
        /\ \A p \in DOMAIN z : p \notin DOMAIN n => zadd(z, n)[p] = z[p]
    BY DEF zadd
  <1>3. IsZset(zadd(z, n))
    BY <1>1, <1>2 DEF IsZset, zadd
  <1> QED
    BY <1>2, <1>3, ZsetIs

\* A single member.
LEMMA SingleIs ==
    ASSUME NEW p \in Players, NEW f \in Floats
    PROVE  [q \in {p} |-> f] \in Zsets /\ DOMAIN [q \in {p} |-> f] = {p} /\ [q \in {p} |-> f][p] = f
  <1>1. IsZset([q \in {p} |-> f])
    BY DEF IsZset
  <1> QED
    BY <1>1, ZsetIs

----------------------------------------------------------------------------
(* Steps of one call.                                                      *)

\* A call that has a step is one.
LEMMA Called ==
    ASSUME RowsInv, NEW c \in Calls, call[c].step \in Steps \/ call[c].op \in {"submit", "rank"} \/ call[c] # NoCall
    PROVE  /\ call[c] \in Requests /\ call[c] # NoCall
           /\ call[c].op \in {"submit", "rank"} /\ call[c].step \in Steps /\ call[c].me \in Players
           /\ call[c].score \in Scores \cup {0} /\ call[c].at \in 0..MaxSubmits
           /\ call[c].loaded \in Zsets /\ call[c].improved \in BOOLEAN
  <1>1. NoCall.step \notin Steps /\ NoCall.op \notin {"submit", "rank"}
    BY DEF NoCall, Steps
  <1>2. call[c] \in Requests /\ call[c] # NoCall
    BY <1>1 DEF RowsInv
  <1> QED
    BY <1>2 DEF Requests

\* What going on to command l with the loaded rows z and the outcome b changes.
Moves(c, l, z, b) ==
    /\ call' \in [Calls -> {NoCall} \cup Requests]
    /\ call'[c].op = call[c].op /\ call'[c].step = l /\ call'[c].me = call[c].me
    /\ call'[c].score = call[c].score /\ call'[c].at = call[c].at
    /\ call'[c].loaded = z /\ call'[c].improved = b
    /\ \A d \in Calls : d # c => call'[d] = call[d]

\* How the actions say so.
Going(c, l, z, b) ==
    \/ call' = [call EXCEPT ![c].step = l] /\ z = call[c].loaded /\ b = call[c].improved
    \/ call' = [call EXCEPT ![c].step = l, ![c].improved = b] /\ z = call[c].loaded
    \/ call' = [call EXCEPT ![c].step = l, ![c].loaded = z] /\ b = call[c].improved
    \/ call' = [call EXCEPT ![c].loaded = z, ![c].step = l] /\ b = call[c].improved

LEMMA Moved ==
    ASSUME RowsInv, NEW c \in Calls, call[c] \in Requests, NEW l \in Steps, NEW z \in Zsets, NEW b \in BOOLEAN,
           Going(c, l, z, b)
    PROVE  Moves(c, l, z, b)
  <1> DEFINE o == call[c]
             Fits(k) == /\ k \in Requests /\ k.op = o.op /\ k.step = l /\ k.me = o.me
                        /\ k.score = o.score /\ k.at = o.at /\ k.loaded = z /\ k.improved = b
  <1>0. o \in Requests /\ call \in [Calls -> {NoCall} \cup Requests]
    BY DEF RowsInv
  <1>1. ASSUME call' = [call EXCEPT ![c].step = l] /\ z = call[c].loaded /\ b = call[c].improved
        PROVE  \E k : Fits(k) /\ call' = [call EXCEPT ![c] = k]
    <2> DEFINE k == [o EXCEPT !.step = l]
    <2>1. call' = [call EXCEPT ![c] = k]
      BY <1>1
    <2>2. z = o.loaded /\ b = o.improved
      BY <1>1
    <2> HIDE DEF o
    <2>3. Fits(k)
      BY <1>0, <2>2 DEF Requests
    <2> HIDE DEF k, Fits
    <2> QED
      BY <2>1, <2>3
  <1>2. ASSUME call' = [call EXCEPT ![c].step = l, ![c].improved = b] /\ z = call[c].loaded
        PROVE  \E k : Fits(k) /\ call' = [call EXCEPT ![c] = k]
    <2> DEFINE k == [o EXCEPT !.step = l, !.improved = b]
    <2>1. call' = [call EXCEPT ![c] = k]
      BY <1>2
    <2>2. z = o.loaded
      BY <1>2
    <2> HIDE DEF o
    <2>3. Fits(k)
      BY <1>0, <2>2 DEF Requests
    <2> HIDE DEF k, Fits
    <2> QED
      BY <2>1, <2>3
  <1>3. ASSUME call' = [call EXCEPT ![c].step = l, ![c].loaded = z] /\ b = call[c].improved
        PROVE  \E k : Fits(k) /\ call' = [call EXCEPT ![c] = k]
    <2> DEFINE k == [o EXCEPT !.step = l, !.loaded = z]
    <2>1. call' = [call EXCEPT ![c] = k]
      BY <1>3
    <2>2. b = o.improved
      BY <1>3
    <2> HIDE DEF o
    <2>3. Fits(k)
      BY <1>0, <2>2 DEF Requests
    <2> HIDE DEF k, Fits
    <2> QED
      BY <2>1, <2>3
  <1>4. ASSUME call' = [call EXCEPT ![c].loaded = z, ![c].step = l] /\ b = call[c].improved
        PROVE  \E k : Fits(k) /\ call' = [call EXCEPT ![c] = k]
    <2> DEFINE k == [o EXCEPT !.loaded = z, !.step = l]
    <2>1. call' = [call EXCEPT ![c] = k]
      BY <1>4
    <2>2. b = o.improved
      BY <1>4
    <2> HIDE DEF o
    <2>3. Fits(k)
      BY <1>0, <2>2 DEF Requests
    <2> HIDE DEF k, Fits
    <2> QED
      BY <2>1, <2>3
  <1>5. PICK k : Fits(k) /\ call' = [call EXCEPT ![c] = k]
    BY <1>1, <1>2, <1>3, <1>4 DEF Going
  <1> QED
    BY <1>0, <1>5 DEF Moves

\* A request begins, or a submission goes on to its rank.
LEMMA Begun ==
    ASSUME RowsInv, NEW c \in Calls, NEW op \in {"submit", "rank"}, NEW l \in Steps, NEW p \in Players,
           NEW s \in Scores \cup {0}, NEW t \in 0..MaxSubmits, Begin(c, op, l, p, s, t)
    PROVE  /\ call' \in [Calls -> {NoCall} \cup Requests] /\ call'[c] \in Requests
           /\ call'[c].op = op /\ call'[c].step = l /\ call'[c].me = p
           /\ call'[c].score = s /\ call'[c].at = t
           /\ call'[c].loaded = NoKey /\ call'[c].improved = FALSE
           /\ \A d \in Calls : d # c => call'[d] = call[d]
  <1> DEFINE k == [op |-> op, step |-> l, me |-> p, score |-> s, at |-> t, loaded |-> NoKey, improved |-> FALSE]
  <1>1. /\ k \in Requests /\ k.op = op /\ k.step = l /\ k.me = p
        /\ k.score = s /\ k.at = t /\ k.loaded = NoKey /\ k.improved = FALSE
    BY EmptyZset DEF Requests
  <1>2. call' = [call EXCEPT ![c] = k]
    BY DEF Begin
  <1> HIDE DEF k
  <1> QED
    BY <1>1, <1>2 DEF RowsInv

\* A call returns.
LEMMA Returned ==
    ASSUME RowsInv, NEW c \in Calls, Return(c)
    PROVE  /\ call' \in [Calls -> {NoCall} \cup Requests] /\ call'[c] = NoCall
           /\ \A d \in Calls : d # c => call'[d] = call[d]
           /\ UNCHANGED submits
  BY DEF RowsInv, Return

\* A call that neither it nor the rows of its player have changed keeps its facts.
LEMMA CallKept ==
    ASSUME NEW c \in Calls, CallInv(c), call'[c] = call[c], ins'[c] = ins[c], del'[c] = del[c],
           Submitting(c) => \A r : r.key = call[c].me => (r \in rows' <=> r \in rows)
    PROVE  CallInv(c)' /\ (Submitting(c)' <=> Submitting(c)) /\ (Improving(c)' <=> Improving(c))
  <1>1. (Submitting(c)' <=> Submitting(c)) /\ (Improving(c)' <=> Improving(c))
    BY DEF Submitting, Improving
  <1>2. Submitting(c) => Held(call[c].me)' = Held(call[c].me)
    BY DEF Held
  <1>3. /\ ~Submitting(c)' => ins'[c] = {} /\ del'[c] = {}
        /\ Submitting(c)' => del'[c] = Held(call[c].me)'
    BY <1>1, <1>2 DEF CallInv
  <1>4. Improving(c) => Submitting(c)
    BY DEF Improving
  <1>5. /\ Improving(c)' =>
             /\ ins'[c] = {entry(call[c].me, call[c].score, call[c].at)'}
             /\ \A r \in Held(call[c].me)' : Beats(call[c].score, r.score)
        /\ Submitting(c)' /\ ~Improving(c)' =>
             /\ ins'[c] = Held(call[c].me)' /\ Held(call[c].me)' # {}
             /\ \A r \in Held(call[c].me)' : ~Beats(call[c].score, r.score)
    BY <1>1, <1>2, <1>4 DEF CallInv
  <1> QED
    BY <1>1, <1>3, <1>5 DEF CallInv

\* A step of one call that leaves the rows alone.
LEMMA RowsKept ==
    ASSUME RowsInv, NEW c \in Calls, UNCHANGED rows, DbType(Tables)', DbInv',
           call' \in [Calls -> {NoCall} \cup Requests], CallInv(c)',
           \A d \in Calls : d # c => call'[d] = call[d] /\ ins'[d] = ins[d] /\ del'[d] = del[d],
           submits' \in 0..MaxSubmits, zset' \in Zsets, expires' \in BOOLEAN,
           expires' => DOMAIN zset' # {}, torn' \in BOOLEAN
    PROVE  RowsInv'
  <1>1. ASSUME NEW d \in Calls, d # c PROVE CallInv(d)'
    BY <1>1, CallKept DEF RowsInv
  <1> QED
    BY <1>1 DEF RowsInv

\* A command that leaves the rows alone.
LEMMA StepOn ==
    ASSUME RowsInv, NEW c \in Calls, UNCHANGED <<rows, ins, del, submits>>,
           NEW l, NEW z, Moves(c, l, z, call[c].improved),
           call[c].op \in {"submit", "rank"},
           call[c].op = "submit" => /\ call[c].step # "upsert"
                                    /\ l \in {"exists", "load", "rebuild", "expire", "zadd", "commit"},
           call[c].op = "rank" => l \in {"exists", "load", "rebuild", "expire", "zrank", "pgrank"},
           l = "rebuild" => DOMAIN z # {},
           zset' \in Zsets, expires' \in BOOLEAN, expires' => DOMAIN zset' # {}, torn' \in BOOLEAN
    PROVE  /\ RowsInv'
           /\ \A d \in Calls : (Submitting(d)' <=> Submitting(d)) /\ (Improving(d)' <=> Improving(d))
  <1>1. /\ call'[c].op = call[c].op /\ call'[c].step = l /\ call'[c].me = call[c].me
        /\ call'[c].score = call[c].score /\ call'[c].at = call[c].at
        /\ call'[c].loaded = z /\ call'[c].improved = call[c].improved
        /\ call' \in [Calls -> {NoCall} \cup Requests]
        /\ \A d \in Calls : d # c => call'[d] = call[d]
    BY DEF Moves
  <1>2. (Submitting(c)' <=> Submitting(c)) /\ (Improving(c)' <=> Improving(c))
    BY <1>1 DEF Submitting, Improving
  <1>3. CallInv(c) /\ Held(call[c].me)' = Held(call[c].me)
    BY <1>1 DEF RowsInv, Held
  <1>4. CallInv(c)'
    BY <1>1, <1>2, <1>3 DEF CallInv
  <1>5. DbType(Tables)' /\ DbInv'
    BY IdleStep DEF RowsInv, dbVars
  <1>6. RowsInv'
    <2>1. submits' \in 0..MaxSubmits
      BY DEF RowsInv
    <2> QED
      BY <1>1, <1>4, <1>5, <2>1, RowsKept
  <1>7. \A d \in Calls : d # c => (Submitting(d)' <=> Submitting(d)) /\ (Improving(d)' <=> Improving(d))
    BY <1>1 DEF Submitting, Improving
  <1> QED
    BY <1>2, <1>6, <1>7

\* EXISTS.
LEMMA EnsureStep ==
    ASSUME RowsInv, NEW c \in Calls, call[c].op \in {"submit", "rank"}, ensureBuilt(c)
    PROVE  /\ Moves(c, IF zset = NoKey THEN "load" ELSE Then(c), call[c].loaded, call[c].improved)
           /\ UNCHANGED <<rows, ins, del, submits, zset, expires, torn>>
           /\ RowsInv'
           /\ \A d \in Calls : (Submitting(d)' <=> Submitting(d)) /\ (Improving(d)' <=> Improving(d))
  <1> DEFINE l == IF zset = NoKey THEN "load" ELSE Then(c)
  <1>1. /\ call[c].step = "exists" /\ call' = [call EXCEPT ![c].step = l]
        /\ UNCHANGED <<rows, ins, del, submits, zset, expires, torn>>
    BY DEF ensureBuilt, Goto, dbVars, index
  <1>2. call[c] \in Requests /\ call[c].loaded \in Zsets /\ call[c].improved \in BOOLEAN
    BY Called
  <1>3. l \in Steps /\ (call[c].op = "submit" => l \in {"load", "zadd"}) /\ (call[c].op = "rank" => l \in {"load", "zrank"})
    BY DEF Then, Steps
  <1> HIDE DEF l
  <1>4. Moves(c, l, call[c].loaded, call[c].improved)
    <2>1. Going(c, l, call[c].loaded, call[c].improved)
      BY <1>1 DEF Going
    <2> QED
      BY <2>1, <1>1, <1>2, <1>3, Moved
  <1>5. zset' \in Zsets /\ expires' \in BOOLEAN /\ (expires' => DOMAIN zset' # {}) /\ torn' \in BOOLEAN
    BY <1>1 DEF RowsInv
  <1>6. /\ RowsInv'
        /\ \A d \in Calls : (Submitting(d)' <=> Submitting(d)) /\ (Improving(d)' <=> Improving(d))
    BY <1>1, <1>3, <1>4, <1>5, StepOn
  <1> QED
    BY <1>1, <1>4, <1>6 DEF l

\* The rows a transaction sees: one for every player who has a row.
Seen(c) == [p \in {r.key : r \in Visible(c)} |-> float64(RowOf(c, p).score)]

LEMMA SeenIs ==
    ASSUME RowsInv, NEW c \in Calls
    PROVE  /\ Seen(c) \in Zsets
           /\ \A r \in rows : r.key \in DOMAIN Seen(c)
           /\ \A p \in DOMAIN Seen(c) : \E r \in Visible(c) : r.key = p /\ Seen(c)[p] = float64(r.score)
           /\ Submitting(c) => DOMAIN Seen(c) # {}
  <1> DEFINE P == {r.key : r \in Visible(c)}
  <1>0. DbInv /\ CallInv(c) /\ rows \subseteq Tables /\ ins[c] \subseteq Tables
    BY DEF RowsInv, DbType
  <1>1. DOMAIN Seen(c) = P /\ \A p \in P : Seen(c)[p] = float64(RowOf(c, p).score)
    BY DEF Seen
  <1>2. \A r \in Visible(c) : r \in Tables /\ RowOf(c, r.key) = r
    BY <1>0, RowOfIs DEF Visible
  <1>3. \A p \in P : \E r \in Visible(c) : r.key = p /\ Seen(c)[p] = float64(r.score)
    BY <1>1, <1>2
  <1>4. Seen(c) \in Zsets
    <2>1. \A r \in Tables : r.key \in Players /\ float64(r.score) \in Floats
      BY Entries DEF Floats
    <2>2. P \subseteq Players /\ \A p \in P : Seen(c)[p] \in Floats
      BY <1>2, <1>3, <2>1
    <2>3. Seen(c) = [p \in P |-> Seen(c)[p]]
      BY <1>1 DEF Seen
    <2>4. Seen(c) \in [P -> Floats]
      BY <2>2, <2>3
    <2> QED
      BY <1>1, <2>2, <2>4, ZsetIs DEF IsZset
  <1>5. ASSUME NEW r \in rows PROVE r.key \in P
    <2>1. CASE r \notin del[c]
      BY <2>1 DEF Visible
    <2>2. CASE r \in del[c]
      <3>1. Submitting(c) /\ r.key = call[c].me
        BY <2>2, <1>0 DEF CallInv, Held
      <3>2. CASE Improving(c)
        <4>1. ins[c] = {entry(call[c].me, call[c].score, call[c].at)}
          BY <3>2, <1>0 DEF CallInv
        <4> QED
          BY <3>1, <4>1, Entries DEF Visible
      <3>3. CASE ~Improving(c)
        BY <3>1, <3>3, <1>0 DEF CallInv, Held, Visible
      <3> QED
        BY <3>2, <3>3
    <2> QED
      BY <2>1, <2>2
  <1>6. Submitting(c) => P # {}
    <2>1. Submitting(c) => ins[c] # {}
      BY <1>0 DEF CallInv
    <2> QED
      BY <2>1 DEF Visible
  <1> HIDE DEF P
  <1> QED
    BY <1>1, <1>3, <1>4, <1>5, <1>6

\* rebuild reads the rows.
LEMMA LoadStep ==
    ASSUME RowsInv, NEW c \in Calls, call[c].op \in {"submit", "rank"}, Load(c)
    PROVE  /\ Moves(c, IF Seen(c) = NoKey THEN Then(c) ELSE "rebuild", Seen(c), call[c].improved)
           /\ UNCHANGED <<rows, ins, del, submits, zset, expires, torn>>
           /\ RowsInv'
           /\ \A d \in Calls : (Submitting(d)' <=> Submitting(d)) /\ (Improving(d)' <=> Improving(d))
           /\ Submitting(c) => Seen(c) # NoKey
  <1> DEFINE l == IF Seen(c) = NoKey THEN Then(c) ELSE "rebuild"
  <1>1. /\ call[c].step = "load" /\ call' = [call EXCEPT ![c].loaded = Seen(c), ![c].step = l]
        /\ UNCHANGED <<rows, ins, del, submits, zset, expires, torn>>
    BY DEF Load, Seen, dbVars, index
  <1>2. call[c] \in Requests /\ call[c].loaded \in Zsets /\ call[c].improved \in BOOLEAN
    BY Called
  <1>3. /\ l \in Steps /\ (call[c].op = "submit" => l \in {"rebuild", "zadd"})
        /\ (call[c].op = "rank" => l \in {"rebuild", "zrank"})
    BY DEF Then, Steps
  <1>4. Seen(c) \in Zsets
    BY SeenIs
  <1>5. (l = "rebuild" => DOMAIN Seen(c) # {}) /\ (Submitting(c) => Seen(c) # NoKey)
    <2>1. l = "rebuild" => Seen(c) # NoKey
      BY DEF Then
    <2> HIDE DEF l
    <2> QED
      BY <2>1, <1>4, EmptyZset, SeenIs
  <1> HIDE DEF l
  <1>6. Moves(c, l, Seen(c), call[c].improved)
    <2>1. Going(c, l, Seen(c), call[c].improved)
      BY <1>1 DEF Going
    <2> QED
      BY <2>1, <1>1, <1>2, <1>3, <1>4, Moved
  <1>7. zset' \in Zsets /\ expires' \in BOOLEAN /\ (expires' => DOMAIN zset' # {}) /\ torn' \in BOOLEAN
    BY <1>1 DEF RowsInv
  <1>8. /\ RowsInv'
        /\ \A d \in Calls : (Submitting(d)' <=> Submitting(d)) /\ (Improving(d)' <=> Improving(d))
    BY <1>1, <1>3, <1>5, <1>6, <1>7, StepOn
  <1> QED
    BY <1>1, <1>5, <1>6, <1>8 DEF l

\* rebuild writes them to the sorted set.
LEMMA ZaddLoadedStep ==
    ASSUME RowsInv, NEW c \in Calls, call[c].op \in {"submit", "rank"}, ZaddLoaded(c)
    PROVE  /\ call[c].step = "rebuild" /\ Moves(c, "expire", NoKey, call[c].improved)
           /\ UNCHANGED <<rows, ins, del, submits, expires>>
           /\ RowsInv'
           /\ \A d \in Calls : (Submitting(d)' <=> Submitting(d)) /\ (Improving(d)' <=> Improving(d))
           /\ call[c].loaded \in Zsets /\ DOMAIN call[c].loaded # {}
           /\ zset' = zadd(zset, call[c].loaded) /\ zset \in Zsets
           /\ torn' = (torn \/ \E p \in DOMAIN zset \cap DOMAIN call[c].loaded : zset[p] # call[c].loaded[p])
  <1>1. /\ call[c].step = "rebuild" /\ call' = [call EXCEPT ![c].step = "expire", ![c].loaded = NoKey]
        /\ UNCHANGED <<rows, ins, del, submits, expires>>
        /\ zset' = zadd(zset, call[c].loaded)
        /\ torn' = (torn \/ \E p \in DOMAIN zset \cap DOMAIN call[c].loaded : zset[p] # call[c].loaded[p])
    BY DEF ZaddLoaded, dbVars
  <1>2. call[c] \in Requests /\ call[c].loaded \in Zsets /\ call[c].improved \in BOOLEAN
    BY Called
  <1>3. DOMAIN call[c].loaded # {} /\ zset \in Zsets /\ expires \in BOOLEAN
    BY <1>1 DEF RowsInv, CallInv
  <1>4. Moves(c, "expire", NoKey, call[c].improved)
    <2>1. Going(c, "expire", NoKey, call[c].improved)
      BY <1>1 DEF Going
    <2> QED
      BY <2>1, <1>1, <1>2, Moved, EmptyZset DEF Steps
  <1>5. zset' \in Zsets /\ DOMAIN zset' # {} /\ torn' \in BOOLEAN
    <2> DEFINE n == call[c].loaded
    <2>1. zset \in Zsets /\ n \in Zsets /\ DOMAIN n # {} /\ zset' = zadd(zset, n)
      BY <1>1, <1>2, <1>3
    <2> HIDE DEF n
    <2>2. zadd(zset, n) \in Zsets /\ DOMAIN zadd(zset, n) = DOMAIN zset \cup DOMAIN n
      BY <2>1, ZaddIs
    <2>3. torn' \in BOOLEAN
      BY <1>1 DEF RowsInv
    <2> QED
      BY <2>1, <2>2, <2>3
  <1>6. /\ RowsInv'
        /\ \A d \in Calls : (Submitting(d)' <=> Submitting(d)) /\ (Improving(d)' <=> Improving(d))
    <2>1. call[c].step = "rebuild" /\ UNCHANGED <<rows, ins, del, submits>> /\ expires' \in BOOLEAN
      BY <1>1, <1>3
    <2> DEFINE l == "expire"
               z == NoKey
    <2>2. /\ Moves(c, l, z, call[c].improved) /\ l # "rebuild"
          /\ l \in {"exists", "load", "rebuild", "expire", "zadd", "commit"}
          /\ l \in {"exists", "load", "rebuild", "expire", "zrank", "pgrank"}
      BY <1>4
    <2> HIDE DEF l, z
    <2> QED
      BY <2>1, <2>2, <1>5, StepOn
  <1> QED
    BY <1>1, <1>2, <1>3, <1>4, <1>6

\* EXPIRE.
LEMMA ExpireStep ==
    ASSUME RowsInv, NEW c \in Calls, call[c].op \in {"submit", "rank"}, Expire(c)
    PROVE  /\ call[c].step = "expire" /\ Moves(c, Then(c), call[c].loaded, call[c].improved)
           /\ UNCHANGED <<rows, ins, del, submits, zset, torn>>
           /\ expires' <=> DOMAIN zset # {}
           /\ RowsInv'
           /\ \A d \in Calls : (Submitting(d)' <=> Submitting(d)) /\ (Improving(d)' <=> Improving(d))
  <1>1. /\ call[c].step = "expire" /\ call' = [call EXCEPT ![c].step = Then(c)]
        /\ UNCHANGED <<rows, ins, del, submits, zset, torn>> /\ expires' = (zset # NoKey)
    BY DEF Expire, Goto, dbVars
  <1>2. call[c] \in Requests /\ call[c].loaded \in Zsets /\ call[c].improved \in BOOLEAN
    BY Called
  <1>3. /\ Then(c) \in Steps /\ (call[c].op = "submit" => Then(c) = "zadd")
        /\ (call[c].op = "rank" => Then(c) = "zrank")
    BY DEF Then, Steps
  <1>4. Moves(c, Then(c), call[c].loaded, call[c].improved)
    <2>1. Going(c, Then(c), call[c].loaded, call[c].improved)
      BY <1>1 DEF Going
    <2> QED
      BY <2>1, <1>1, <1>2, <1>3, Moved
  <1>5. zset' \in Zsets /\ torn' \in BOOLEAN /\ (expires' <=> DOMAIN zset # {}) /\ expires' \in BOOLEAN
    BY <1>1, EmptyZset DEF RowsInv
  <1>6. /\ RowsInv'
        /\ \A d \in Calls : (Submitting(d)' <=> Submitting(d)) /\ (Improving(d)' <=> Improving(d))
    BY <1>1, <1>3, <1>4, <1>5, StepOn
  <1> QED
    BY <1>1, <1>4, <1>5, <1>6

\* ZADD GT or LT.
LEMMA ZaddStep ==
    ASSUME RowsInv, NEW c \in Calls, call[c].op = "submit", Zadd(c)
    PROVE  /\ call[c].step = "zadd" /\ Moves(c, "commit", call[c].loaded, call[c].improved)
           /\ UNCHANGED <<rows, ins, del, submits, expires, torn>>
           /\ RowsInv'
           /\ \A d \in Calls : (Submitting(d)' <=> Submitting(d)) /\ (Improving(d)' <=> Improving(d))
           /\ DOMAIN zset' = DOMAIN zset \cup {call[c].me}
           /\ \A p \in DOMAIN zset : p # call[c].me => zset'[p] = zset[p]
           /\ IF call[c].me \in DOMAIN zset /\ ~Beats(float64(call[c].score), zset[call[c].me])
                THEN zset' = zset ELSE zset'[call[c].me] = float64(call[c].score)
  <1> DEFINE p == call[c].me
             f == float64(call[c].score)
             n == [q \in {p} |-> f]
  <1>1. /\ call[c].step = "zadd" /\ call' = [call EXCEPT ![c].step = "commit"]
        /\ UNCHANGED <<rows, ins, del, submits, expires, torn>>
        /\ zset' = IF p \in DOMAIN zset /\ ~Beats(f, zset[p]) THEN zset ELSE zadd(zset, n)
    BY DEF Zadd, Goto, dbVars
  <1>2. /\ call[c] \in Requests /\ call[c].loaded \in Zsets /\ call[c].improved \in BOOLEAN /\ p \in Players
        /\ zset \in Zsets /\ expires \in BOOLEAN /\ torn \in BOOLEAN /\ (expires => DOMAIN zset # {})
    BY Called DEF RowsInv
  <1>3. f \in Floats
    BY DEF RowsInv, CallInv, Floats
  <1>4. n \in Zsets /\ DOMAIN n = {p} /\ n[p] = f
    BY <1>2, <1>3, SingleIs
  <1> HIDE DEF n, p, f
  <1>5. /\ zadd(zset, n) \in Zsets /\ DOMAIN zadd(zset, n) = DOMAIN zset \cup {p}
        /\ zadd(zset, n)[p] = f /\ \A q \in DOMAIN zset : q # p => zadd(zset, n)[q] = zset[q]
    <2>1. /\ zadd(zset, n) \in Zsets /\ DOMAIN zadd(zset, n) = DOMAIN zset \cup DOMAIN n
          /\ \A q \in DOMAIN n : zadd(zset, n)[q] = n[q]
          /\ \A q \in DOMAIN zset : q \notin DOMAIN n => zadd(zset, n)[q] = zset[q]
      <3>1. zset \in Zsets /\ n \in Zsets
        BY <1>2, <1>4
      <3> QED
        BY <3>1, ZaddIs
    <2> QED
      BY <1>4, <2>1
  <1>6. /\ zset' \in Zsets /\ DOMAIN zset' = DOMAIN zset \cup {p}
        /\ \A q \in DOMAIN zset : q # p => zset'[q] = zset[q]
        /\ IF p \in DOMAIN zset /\ ~Beats(f, zset[p]) THEN zset' = zset ELSE zset'[p] = f
    BY <1>1, <1>2, <1>5
  <1>7. Moves(c, "commit", call[c].loaded, call[c].improved)
    <2>1. Going(c, "commit", call[c].loaded, call[c].improved)
      BY <1>1 DEF Going
    <2> QED
      BY <2>1, <1>1, <1>2, Moved DEF Steps
  <1>8. /\ RowsInv'
        /\ \A d \in Calls : (Submitting(d)' <=> Submitting(d)) /\ (Improving(d)' <=> Improving(d))
    BY <1>1, <1>2, <1>6, <1>7, StepOn
  <1> QED
    BY <1>1, <1>6, <1>7, <1>8 DEF p, f

\* A Valkey command fails.
LEMMA ValkeyFailsStep ==
    ASSUME RowsInv, NEW c \in Calls, ValkeyFails(c)
    PROVE  /\ call[c].op \in {"submit", "rank"}
           /\ Moves(c, IF call[c].op = "submit" THEN "commit" ELSE "pgrank", NoKey, call[c].improved)
           /\ UNCHANGED <<rows, ins, del, submits, zset, expires>>
           /\ torn' = (torn \/ call[c].op = "submit" \/ call[c].step = "expire")
           /\ RowsInv'
           /\ \A d \in Calls : (Submitting(d)' <=> Submitting(d)) /\ (Improving(d)' <=> Improving(d))
  <1> DEFINE l == IF call[c].op = "submit" THEN "commit" ELSE "pgrank"
  <1>1. /\ call[c].step \in {"exists", "rebuild", "expire", "zadd", "zrank"}
        /\ call' = [call EXCEPT ![c].step = l, ![c].loaded = NoKey]
        /\ UNCHANGED <<rows, ins, del, submits, zset, expires>>
        /\ torn' = (torn \/ call[c].op = "submit" \/ call[c].step = "expire")
    BY DEF ValkeyFails, dbVars
  <1>2. /\ call[c] \in Requests /\ call[c].op \in {"submit", "rank"} /\ call[c].improved \in BOOLEAN
    BY <1>1, Called DEF Steps
  <1>3. l \in Steps /\ (call[c].op = "submit" => l = "commit") /\ (call[c].op = "rank" => l = "pgrank")
    BY DEF Steps
  <1> HIDE DEF l
  <1>4. Moves(c, l, NoKey, call[c].improved)
    <2>1. Going(c, l, NoKey, call[c].improved)
      BY <1>1 DEF Going
    <2> QED
      BY <2>1, <1>1, <1>2, <1>3, Moved, EmptyZset
  <1>5. zset' \in Zsets /\ expires' \in BOOLEAN /\ (expires' => DOMAIN zset' # {}) /\ torn' \in BOOLEAN
    BY <1>1 DEF RowsInv
  <1>6. /\ RowsInv'
        /\ \A d \in Calls : (Submitting(d)' <=> Submitting(d)) /\ (Improving(d)' <=> Improving(d))
    BY <1>1, <1>2, <1>3, <1>4, <1>5, StepOn
  <1> QED
    BY <1>1, <1>2, <1>4, <1>6 DEF l

\* The upsert.
LEMMA SubmitStep ==
    ASSUME RowsInv, NEW c \in Calls, call[c].op = "submit", Submit(c)
    PROVE  /\ call[c].step = "upsert" /\ \E b \in BOOLEAN : Moves(c, "exists", call[c].loaded, b)
           /\ UNCHANGED <<rows, submits, zset, expires, torn>>
           /\ RowsInv' /\ Submitting(c)' /\ ~Submitting(c)
  <1> DEFINE p == call[c].me
             s == call[c].score
             e == entry(p, s, call[c].at)
             held == {r \in Visible(c) : r.key = p}
             better == \A r \in held : Beats(s, r.score)
             new == IF better THEN {e} ELSE held
  <1>1. /\ call[c].step = "upsert" /\ Write(c, held, new)
        /\ call' = [call EXCEPT ![c].step = "exists", ![c].improved = better]
        /\ UNCHANGED <<submits, zset, expires, torn>>
    BY DEF Submit, index
  <1>2. /\ call[c] \in Requests /\ p \in Players /\ call[c].loaded \in Zsets
        /\ s \in Scores /\ call[c].at \in 1..MaxSubmits /\ ins[c] = {} /\ del[c] = {} /\ ~Submitting(c)
        /\ DbType(Tables) /\ DbInv /\ rows \subseteq Tables
    BY <1>1, Called DEF RowsInv, CallInv, Submitting, DbType
  <1>3. held = Held(p) /\ Visible(c) = rows
    BY <1>2 DEF Held, Visible
  <1>4. e.key = p /\ e \in Tables
    BY <1>2, Entries
  <1>5. better \in BOOLEAN
    OBVIOUS
  <1>6. Moves(c, "exists", call[c].loaded, better)
    <2> HIDE DEF better
    <2>1. Going(c, "exists", call[c].loaded, better)
      BY <1>1 DEF Going
    <2> QED
      BY <2>1, <1>2, <1>5, Moved DEF Steps
  <1>7. \A r, v \in held : r = v
    BY <1>2, <1>3 DEF Held, DbInv, Unique
  <1>8. /\ new \in SUBSET Tables /\ Unique(new)
        /\ \A r \in new, v \in Visible(c) : r.key = v.key => v \in held
    BY <1>2, <1>3, <1>4, <1>7 DEF Unique
  <1> HIDE DEF held, new, better, e, p, s
  <1>9. /\ DbType(Tables)' /\ DbInv' /\ ins'[c] = (ins[c] \ held) \cup new
        /\ del'[c] = del[c] \cup (held \cap rows)
        /\ \A d \in Calls : d # c => ins'[d] = ins[d] /\ del'[d] = del[d]
        /\ UNCHANGED rows
    <2>1. Write(c, held, new) /\ DbType(Tables) /\ DbInv
      BY <1>1, <1>2
    <2> QED
      BY <2>1, <1>8, WriteStep
  <1>10. ins'[c] = new /\ del'[c] = Held(p)
    BY <1>2, <1>3, <1>9 DEF Held
  <1>11. /\ call'[c].op = "submit" /\ call'[c].step = "exists" /\ call'[c].me = p /\ call'[c].score = s
         /\ call'[c].at = call[c].at /\ call'[c].improved = better
         /\ call' \in [Calls -> {NoCall} \cup Requests]
         /\ \A d \in Calls : d # c => call'[d] = call[d]
    BY <1>6 DEF Moves, p, s
  <1>12. Held(call[c].me)' = Held(p)
    BY <1>9, <1>11 DEF Held
  <1>13. Submitting(c)' /\ (Improving(c)' <=> better)
    BY <1>5, <1>11 DEF Submitting, Improving
  <1>14. CallInv(c)'
    <2>1. better => ins'[c] = {entry(call'[c].me, call'[c].score, call'[c].at)}
      BY <1>10, <1>11 DEF new, e
    <2>2. better => \A r \in Held(p) : Beats(s, r.score)
      BY <1>3 DEF better
    <2>3. ~better => ins'[c] = Held(p) /\ Held(p) # {} /\ \A r \in Held(p) : ~Beats(s, r.score)
      BY <1>3, <1>7, <1>10 DEF new, better
    <2>4. del'[c] = Held(call[c].me)'
      BY <1>10, <1>12
    <2>5. Improving(c)' =>
             /\ ins'[c] = {entry(call'[c].me, call'[c].score, call'[c].at)}
             /\ \A r \in Held(call[c].me)' : Beats(call'[c].score, r.score)
      BY <2>1, <2>2, <1>11, <1>12, <1>13
    <2>6. Submitting(c)' /\ ~Improving(c)' =>
             /\ ins'[c] = Held(call[c].me)' /\ Held(call[c].me)' # {}
             /\ \A r \in Held(call[c].me)' : ~Beats(call'[c].score, r.score)
      BY <2>3, <1>11, <1>12, <1>13
    <2>7. call'[c].score \in Scores /\ call'[c].at \in 1..MaxSubmits
      BY <1>2, <1>11
    <2> QED
      BY <1>11, <1>13, <2>4, <2>5, <2>6, <2>7 DEF CallInv
  <1>15. RowsInv'
    <2>1. submits' \in 0..MaxSubmits /\ zset' \in Zsets /\ expires' \in BOOLEAN
          /\ (expires' => DOMAIN zset' # {}) /\ torn' \in BOOLEAN
      BY <1>1 DEF RowsInv
    <2> QED
      BY <1>9, <1>11, <1>14, <2>1, RowsKept
  <1> QED
    BY <1>1, <1>2, <1>5, <1>6, <1>9, <1>13, <1>15

\* The locks let one submission at a time hold a player's row.
LEMMA OneSubmitter ==
    ASSUME RowsInv, NEW c \in Calls, NEW d \in Calls, c # d, Submitting(c), Submitting(d)
    PROVE  call[c].me # call[d].me
  <1>1. ASSUME NEW x \in Calls, Submitting(x) PROVE \E r \in ins[x] : r.key = call[x].me
    <2>1. CallInv(x)
      BY DEF RowsInv
    <2>2. CASE Improving(x)
      <3>1. entry(call[x].me, call[x].score, call[x].at) \in ins[x]
        BY <2>1, <2>2 DEF CallInv
      <3> QED
        BY <3>1, Entries
    <2>3. CASE ~Improving(x)
      BY <1>1, <2>1, <2>3 DEF CallInv, Held
    <2> QED
      BY <2>2, <2>3
  <1> QED
    BY <1>1 DEF RowsInv, DbInv

\* What a commit does to the rows: nothing, or a better entry for the player.
LEMMA CommitRows ==
    ASSUME RowsInv, NEW c \in Calls, CommitSubmit(c)
    PROVE  /\ call[c].op = "submit" /\ call[c].step = "commit" /\ Submitting(c)
           /\ \A r : r.key # call[c].me => (r \in rows' <=> r \in rows)
           /\ Improving(c) =>
                /\ entry(call[c].me, call[c].score, call[c].at) \in rows'
                /\ \A r \in rows' : r.key = call[c].me => r = entry(call[c].me, call[c].score, call[c].at)
                /\ \A r \in rows : r.key = call[c].me => Beats(call[c].score, r.score)
           /\ ~Improving(c) => rows' = rows
           /\ DbType(Tables)' /\ DbInv' /\ ins'[c] = {} /\ del'[c] = {}
           /\ \A d \in Calls : d # c => ins'[d] = ins[d] /\ del'[d] = del[d]
  <1>1. call[c].step = "commit" /\ Commit(c)
    BY DEF CommitSubmit
  <1>2. call[c].op = "submit" /\ Submitting(c) /\ CallInv(c) /\ DbType(Tables) /\ DbInv
    <2>1. call[c].op \in {"submit", "rank"}
      BY <1>1, Called DEF Steps
    <2> QED
      BY <1>1, <2>1 DEF RowsInv, CallInv, Submitting
  <1>3. /\ DbType(Tables)' /\ DbInv' /\ rows' = (rows \ del[c]) \cup ins[c] /\ ins'[c] = {} /\ del'[c] = {}
        /\ \A d \in Calls : d # c => ins'[d] = ins[d] /\ del'[d] = del[d]
    BY <1>1, <1>2, CommitStep
  <1>4. del[c] = Held(call[c].me)
    BY <1>2 DEF CallInv
  <1>5. CASE Improving(c)
    <2> DEFINE e == entry(call[c].me, call[c].score, call[c].at)
    <2>1. ins[c] = {e} /\ e.key = call[c].me /\ \A r \in Held(call[c].me) : Beats(call[c].score, r.score)
      BY <1>2, <1>5, Entries DEF CallInv
    <2> HIDE DEF e
    <2>2. rows' = (rows \ Held(call[c].me)) \cup {e}
      BY <1>3, <1>4, <2>1
    <2>3. /\ e \in rows' /\ \A r \in rows' : r.key = call[c].me => r = e
          /\ \A r : r.key # call[c].me => (r \in rows' <=> r \in rows)
          /\ \A r \in rows : r.key = call[c].me => Beats(call[c].score, r.score)
      BY <2>1, <2>2 DEF Held
    <2> QED
      BY <1>1, <1>2, <1>3, <1>5, <2>3 DEF e
  <1>6. CASE ~Improving(c)
    <2>1. ins[c] = Held(call[c].me)
      BY <1>2, <1>6 DEF CallInv
    <2>2. rows' = rows
      BY <1>3, <1>4, <2>1 DEF Held
    <2> QED
      BY <1>1, <1>2, <1>3, <1>6, <2>2
  <1> QED
    BY <1>5, <1>6

\* The commit.
LEMMA CommitSubmitStep ==
    ASSUME RowsInv, NEW c \in Calls, CommitSubmit(c)
    PROVE  /\ RowsInv' /\ UNCHANGED <<submits, zset, expires, torn>>
           /\ call'[c].op = "rank" /\ call'[c].step = "exists" /\ ~Submitting(c)'
           /\ \A d \in Calls : d # c => call'[d] = call[d]
           /\ \A d \in Calls : d # c => (Submitting(d)' <=> Submitting(d)) /\ (Improving(d)' <=> Improving(d))
  <1>1. UNCHANGED <<submits, zset, expires, torn>> /\ Begin(c, "rank", "exists", call[c].me, 0, 0)
    BY DEF CommitSubmit, index
  <1>2. /\ call[c].op = "submit" /\ Submitting(c)
        /\ \A r : r.key # call[c].me => (r \in rows' <=> r \in rows)
        /\ DbType(Tables)' /\ DbInv' /\ ins'[c] = {} /\ del'[c] = {}
        /\ \A d \in Calls : d # c => ins'[d] = ins[d] /\ del'[d] = del[d]
    BY CommitRows
  <1>3. /\ call' \in [Calls -> {NoCall} \cup Requests] /\ call'[c].op = "rank" /\ call'[c].step = "exists"
        /\ \A d \in Calls : d # c => call'[d] = call[d]
    <2>1. call[c].me \in Players
      BY <1>2, Called
    <2>2. 0 \in Scores \cup {0} /\ 0 \in 0..MaxSubmits /\ "exists" \in Steps
      BY BoundsAssumption DEF Steps
    <2> DEFINE p == call[c].me
               z == 0
    <2>3. Begin(c, "rank", "exists", p, z, z) /\ p \in Players /\ z \in Scores \cup {0} /\ z \in 0..MaxSubmits
      BY <1>1, <2>1, <2>2
    <2> HIDE DEF p, z
    <2> QED
      BY <2>2, <2>3, Begun
  <1>4. ~Submitting(c)' /\ ~Improving(c)'
    BY <1>3 DEF Submitting, Improving
  <1>5. CallInv(c)'
    BY <1>2, <1>3, <1>4 DEF CallInv
  <1>6. ASSUME NEW d \in Calls, d # c
        PROVE  CallInv(d)' /\ (Submitting(d)' <=> Submitting(d)) /\ (Improving(d)' <=> Improving(d))
    <2>1. Submitting(d) => call[d].me # call[c].me
      BY <1>2, <1>6, OneSubmitter
    <2>2. Submitting(d) => \A r : r.key = call[d].me => (r \in rows' <=> r \in rows)
      BY <2>1, <1>2
    <2>3. CallInv(d)
      BY DEF RowsInv
    <2> QED
      BY <1>2, <1>3, <1>6, <2>2, <2>3, CallKept
  <1>7. RowsInv'
    BY <1>1, <1>2, <1>3, <1>5, <1>6 DEF RowsInv
  <1> QED
    BY <1>1, <1>3, <1>4, <1>6, <1>7

\* A request comes.
LEMMA RequestStep ==
    ASSUME RowsInv, NEW c \in Calls, NEW p \in Players,
           GetPlayerRank(c, p) \/ \E s \in Scores : SubmitScore(c, p, s)
    PROVE  /\ RowsInv' /\ UNCHANGED <<rows, ins, del, zset, expires, torn>> /\ call[c] = NoCall
           /\ \A d \in Calls : d # c => call'[d] = call[d]
           /\ call'[c].step \in {"upsert", "exists"} /\ ~Submitting(c)'
  <1>0. submits \in 0..MaxSubmits /\ MaxSubmits \in Nat
    BY BoundsAssumption DEF RowsInv
  <1>1. /\ UNCHANGED <<rows, ins, del, zset, expires, torn>> /\ call[c] = NoCall
        /\ \/ UNCHANGED submits /\ Begin(c, "rank", "exists", p, 0, 0)
           \/ \E s \in Scores : submits < MaxSubmits /\ submits' = submits + 1
                                /\ Begin(c, "submit", "upsert", p, s, submits + 1)
    BY DEF GetPlayerRank, SubmitScore, index, dbVars
  <1>2. submits' \in 0..MaxSubmits
    BY <1>0, <1>1
  <1>3. /\ call' \in [Calls -> {NoCall} \cup Requests] /\ \A d \in Calls : d # c => call'[d] = call[d]
        /\ \/ call'[c].op = "rank" /\ call'[c].step = "exists"
           \/ /\ call'[c].op = "submit" /\ call'[c].step = "upsert"
              /\ call'[c].score \in Scores /\ call'[c].at \in 1..MaxSubmits
    <2>1. CASE Begin(c, "rank", "exists", p, 0, 0)
      <3>1. 0 \in Scores \cup {0} /\ 0 \in 0..MaxSubmits /\ "exists" \in Steps
        BY <1>0 DEF Steps
      <3> QED
        BY <2>1, <3>1, Begun
    <2>2. ASSUME NEW x \in Scores, NEW t \in 1..MaxSubmits, Begin(c, "submit", "upsert", p, x, t)
          PROVE  /\ call' \in [Calls -> {NoCall} \cup Requests] /\ \A d \in Calls : d # c => call'[d] = call[d]
                 /\ call'[c].op = "submit" /\ call'[c].step = "upsert"
                 /\ call'[c].score \in Scores /\ call'[c].at \in 1..MaxSubmits
      <3> DEFINE k == [op |-> "submit", step |-> "upsert", me |-> p, score |-> x, at |-> t,
                       loaded |-> NoKey, improved |-> FALSE]
      <3>1. t \in 0..MaxSubmits
        BY <1>0
      <3>2. k \in Requests /\ k.op = "submit" /\ k.step = "upsert" /\ k.score = x /\ k.at = t
        BY <3>1, EmptyZset DEF Requests, Steps
      <3>3. call' = [call EXCEPT ![c] = k]
        BY <2>2 DEF Begin
      <3> HIDE DEF k
      <3> QED
        BY <3>2, <3>3 DEF RowsInv
    <2>3. submits < MaxSubmits => submits + 1 \in 1..MaxSubmits
      BY <1>0
    <2> QED
      BY <1>1, <2>1, <2>2, <2>3
  <1>4. ~Submitting(c) /\ CallInv(c) /\ ~Submitting(c)' /\ ~Improving(c)'
    BY <1>1, <1>3 DEF Submitting, Improving, RowsInv, NoCall
  <1>5. CallInv(c)'
    BY <1>1, <1>3, <1>4 DEF CallInv
  <1>6. DbType(Tables)' /\ DbInv'
    BY <1>1, IdleStep DEF RowsInv, dbVars
  <1>7. RowsInv'
    <2>1. zset' \in Zsets /\ expires' \in BOOLEAN /\ (expires' => DOMAIN zset' # {}) /\ torn' \in BOOLEAN
      BY <1>1 DEF RowsInv
    <2> QED
      BY <1>1, <1>2, <1>3, <1>5, <1>6, <2>1, RowsKept
  <1> QED
    BY <1>1, <1>3, <1>4, <1>7

\* A call returns, having read its rank or failed.
LEMMA ReturnStep ==
    ASSUME RowsInv, NEW c \in Calls, Return(c), UNCHANGED <<zset, expires>>, torn' \in BOOLEAN,
           Rollback(c) \/ (UNCHANGED dbVars /\ call[c].op = "rank")
    PROVE  /\ RowsInv' /\ UNCHANGED <<rows, submits>> /\ call'[c] = NoCall
           /\ \A d \in Calls : d # c => call'[d] = call[d]
  <1>0. DbType(Tables) /\ DbInv /\ CallInv(c)
    BY DEF RowsInv
  <1>1. /\ call' \in [Calls -> {NoCall} \cup Requests] /\ call'[c] = NoCall
        /\ \A d \in Calls : d # c => call'[d] = call[d]
        /\ UNCHANGED submits
    BY Returned
  <1>2. /\ DbType(Tables)' /\ DbInv' /\ UNCHANGED rows /\ ins'[c] = {} /\ del'[c] = {}
        /\ \A d \in Calls : d # c => ins'[d] = ins[d] /\ del'[d] = del[d]
    <2>1. CASE Rollback(c)
      BY <1>0, <2>1, RollbackStep
    <2>2. CASE UNCHANGED dbVars /\ call[c].op = "rank"
      <3>1. ins[c] = {} /\ del[c] = {}
        BY <1>0, <2>2 DEF CallInv, Submitting
      <3>2. DbType(Tables)' /\ DbInv'
        BY <1>0, <2>2, IdleStep
      <3> QED
        BY <2>2, <3>1, <3>2 DEF dbVars
    <2> QED
      BY <2>1, <2>2
  <1>3. CallInv(c)'
    BY <1>1, <1>2 DEF CallInv, Submitting, Improving, NoCall
  <1>4. RowsInv'
    <2>1. submits' \in 0..MaxSubmits /\ zset' \in Zsets /\ expires' \in BOOLEAN /\ (expires' => DOMAIN zset' # {})
      BY <1>1 DEF RowsInv
    <2> QED
      BY <1>1, <1>2, <1>3, <2>1, RowsKept
  <1> QED
    BY <1>1, <1>2, <1>4

\* The key goes, or nothing happens.
LEMMA QuietStep ==
    ASSUME RowsInv, UNCHANGED <<rows, ins, del, call, submits>>,
           KeyGone \/ UNCHANGED <<zset, expires, torn>>
    PROVE  RowsInv'
  <1>1. DbType(Tables)' /\ DbInv'
    BY IdleStep DEF RowsInv, dbVars
  <1>2. zset' \in Zsets /\ expires' \in BOOLEAN /\ (expires' => DOMAIN zset' # {}) /\ torn' \in BOOLEAN
    <2>1. CASE KeyGone
      BY <2>1, EmptyZset DEF KeyGone, Tear
    <2>2. CASE UNCHANGED <<zset, expires, torn>>
      BY <2>2 DEF RowsInv
    <2> QED
      BY <2>1, <2>2
  <1>3. ASSUME NEW d \in Calls PROVE CallInv(d)'
    BY CallKept DEF RowsInv
  <1> QED
    BY <1>1, <1>2, <1>3 DEF RowsInv

\* There is nothing at first.
LEMMA RowsInit == Init => RowsInv
  <1> SUFFICES ASSUME Init PROVE RowsInv
    OBVIOUS
  <1>1. DbType(Tables) /\ DbInv
    BY DbStart DEF Init, Unique
  <1>2. call \in [Calls -> {NoCall} \cup Requests] /\ (\A c \in Calls : call[c] = NoCall)
    BY DEF Init
  <1>3. \A c \in Calls : CallInv(c)
    BY <1>2 DEF CallInv, Submitting, Improving, NoCall, Init, DbInit
  <1>4. submits \in 0..MaxSubmits /\ zset \in Zsets /\ expires \in BOOLEAN /\ ~expires /\ torn \in BOOLEAN
    <2>1. 0 \in 0..MaxSubmits
      BY BoundsAssumption
    <2> QED
      BY <2>1, EmptyZset DEF Init
  <1> QED
    BY <1>1, <1>2, <1>3, <1>4 DEF RowsInv

\* Every step keeps the invariant of the rows.
LEMMA RowsStep == RowsInv /\ [Next]_vars => RowsInv'
  <1> SUFFICES ASSUME RowsInv, [Next]_vars PROVE RowsInv'
    OBVIOUS
  <1>1. CASE UNCHANGED vars
    BY <1>1, QuietStep DEF vars, dbVars
  <1>2. CASE KeyGone
    BY <1>2, QuietStep DEF KeyGone, dbVars
  <1>3. ASSUME NEW c \in Calls, NEW p \in Players,
               GetPlayerRank(c, p) \/ \E s \in Scores : SubmitScore(c, p, s)
        PROVE  RowsInv'
    BY <1>3, RequestStep
  <1>4. ASSUME NEW c \in Calls, ValkeyFails(c) PROVE RowsInv'
    BY <1>4, ValkeyFailsStep
  <1>5. ASSUME NEW c \in Calls, Fail(c) PROVE RowsInv'
    <2>1. torn' \in BOOLEAN
      BY <1>5 DEF Fail, RowsInv
    <2> QED
      BY <1>5, <2>1, ReturnStep DEF Fail
  <1>6. ASSUME NEW c \in Calls, SubmitTx(c) PROVE RowsInv'
    BY <1>6, SubmitStep, EnsureStep, LoadStep, ZaddLoadedStep, ExpireStep, ZaddStep, CommitSubmitStep
       DEF SubmitTx, rebuild
  <1>7. ASSUME NEW c \in Calls, RankOf(c) PROVE RowsInv'
    <2>1. CASE Zrank(c) \/ PgRankOf(c)
      <3>1. torn' \in BOOLEAN
        BY <2>1 DEF Zrank, PgRankOf, index, RowsInv
      <3> QED
        BY <1>7, <2>1, <3>1, ReturnStep DEF Zrank, PgRankOf, RankOf, index
    <2> QED
      BY <1>7, <2>1, EnsureStep, LoadStep, ZaddLoadedStep, ExpireStep DEF RankOf, rebuild
  <1> QED
    BY <1>1, <1>2, <1>3, <1>4, <1>5, <1>6, <1>7 DEF Next, Step

\* The invariant of the rows holds of every behaviour.
LEMMA RowsInductive == Spec => []RowsInv
  BY RowsInit, RowsStep, PTL DEF Spec

\* Only a commit changes the rows.
LEMMA RowsChange ==
    ASSUME RowsInv, Next
    PROVE  rows' = rows \/ \E c \in Calls : CommitSubmit(c)
  <1>1. ASSUME NEW c \in Calls, NEW p \in Players,
               GetPlayerRank(c, p) \/ \E s \in Scores : SubmitScore(c, p, s)
        PROVE  rows' = rows
    BY <1>1, RequestStep
  <1>2. ASSUME NEW c \in Calls, ValkeyFails(c) \/ Fail(c) PROVE rows' = rows
    BY <1>2, ValkeyFailsStep DEF Fail, Rollback
  <1>3. ASSUME NEW c \in Calls, SubmitTx(c), ~CommitSubmit(c) PROVE rows' = rows
    BY <1>3, SubmitStep, EnsureStep, LoadStep, ZaddLoadedStep, ExpireStep, ZaddStep DEF SubmitTx, rebuild
  <1>4. ASSUME NEW c \in Calls, RankOf(c) PROVE rows' = rows
    BY <1>4, EnsureStep, LoadStep, ZaddLoadedStep, ExpireStep DEF RankOf, rebuild, Zrank, PgRankOf, dbVars
  <1>5. CASE KeyGone
    BY <1>5 DEF KeyGone, dbVars
  <1> QED
    BY <1>1, <1>2, <1>3, <1>4, <1>5 DEF Next, Step

\* What a commit leaves.
LEMMA CommitKeepsBest ==
    ASSUME RowsInv, NEW c \in Calls, CommitSubmit(c)
    PROVE  /\ \A r \in rows : \E s \in rows' : s.key = r.key /\ (s = r \/ Beats(s.score, r.score))
           /\ \E r \in rows' : r.key = call[c].me /\ ~Beats(call[c].score, r.score)
           /\ call[c].improved <=> rows' # rows
  <1> DEFINE e == entry(call[c].me, call[c].score, call[c].at)
  <1>1. /\ Submitting(c) /\ call[c].op = "submit"
        /\ \A r : r.key # call[c].me => (r \in rows' <=> r \in rows)
        /\ Improving(c) => /\ e \in rows' /\ \A r \in rows' : r.key = call[c].me => r = e
                           /\ \A r \in rows : r.key = call[c].me => Beats(call[c].score, r.score)
        /\ ~Improving(c) => rows' = rows
    BY CommitRows
  <1>2. (Improving(c) <=> call[c].improved) /\ call[c].improved \in BOOLEAN /\ call[c].score \in Int /\ CallInv(c)
    BY <1>1, Called, ScoreTypes DEF Improving, RowsInv, CallInv
  <1>3. e.key = call[c].me /\ e.score = call[c].score /\ ~Beats(call[c].score, call[c].score)
    BY <1>2, Entries, BeatsOrder
  <1> HIDE DEF e
  <1>4. CASE Improving(c)
    <2>1. e \notin rows
      BY <1>1, <1>3, <1>4
    <2>2. \A r \in rows : \E s \in rows' : s.key = r.key /\ (s = r \/ Beats(s.score, r.score))
      BY <1>1, <1>3, <1>4
    <2>3. \E r \in rows' : r.key = call[c].me /\ ~Beats(call[c].score, r.score)
      BY <1>1, <1>3, <1>4
    <2> QED
      BY <1>1, <1>2, <1>4, <2>1, <2>2, <2>3
  <1>5. CASE ~Improving(c)
    <2>1. Held(call[c].me) # {} /\ \A r \in Held(call[c].me) : ~Beats(call[c].score, r.score)
      BY <1>1, <1>2, <1>5 DEF CallInv
    <2> QED
      BY <1>1, <1>2, <1>5, <2>1 DEF Held
  <1> QED
    BY <1>4, <1>5

\* Concurrent submissions never lose a better score: a player's row only gives way
\* to a better one, and after a commit it is at least as good as what was submitted.
THEOREM BestKeptHolds == Spec => BestKept
  <1> DEFINE Kept == \A r \in rows : \E s \in rows' : s.key = r.key /\ (s = r \/ Beats(s.score, r.score))
             Best == \A c \in Calls : CommitSubmit(c) =>
                         /\ \E r \in rows' : r.key = call[c].me /\ ~Beats(call[c].score, r.score)
                         /\ call[c].improved <=> rows' # rows
  <1>1. RowsInv /\ [Next]_vars => [Kept /\ Best]_vars
    <2> SUFFICES ASSUME RowsInv, Next PROVE Kept /\ Best
      OBVIOUS
    <2>1. Best
      BY CommitKeepsBest
    <2>2. Kept
      BY RowsChange, CommitKeepsBest
    <2> QED
      BY <2>1, <2>2
  <1> QED
    BY <1>1, RowsInductive, PTL DEF Spec, BestKept

\* The type invariant, with the keys unique and a TTL only on a set that exists.
THEOREM LeaderboardTypeCorrect == Spec => []TypeOK
  <1>1. RowsInv => TypeOK
    <2> SUFFICES ASSUME RowsInv PROVE TypeOK
      OBVIOUS
    <2>1. /\ rows \subseteq Tables /\ KeysUnique
          /\ ins \in [Calls -> SUBSET Tables] /\ del \in [Calls -> SUBSET Tables]
      BY DEF RowsInv, DbType, DbInv, Unique, KeysUnique
    <2>2. ASSUME NEW c \in Calls, call[c] # NoCall
          PROVE  /\ call[c].op \in {"submit", "rank"} /\ call[c].step \in Steps
                 /\ call[c].me \in Players /\ call[c].score \in Scores \cup {0}
                 /\ call[c].at \in 0..MaxSubmits /\ call[c].loaded \in Zsets /\ call[c].improved \in BOOLEAN
      BY <2>2, Called
    <2>3. /\ submits \in 0..MaxSubmits
          /\ zset \in Zsets /\ expires \in BOOLEAN /\ (expires => zset # NoKey) /\ torn \in BOOLEAN
      BY EmptyZset DEF RowsInv
    <2> QED
      BY <2>1, <2>2, <2>3 DEF TypeOK
  <1> QED
    BY <1>1, RowsInductive, PTL

----------------------------------------------------------------------------
(* Steps and the sorted set.                                               *)

\* Neither the rows nor a better entry about to replace one go away.
LEMMA CurrentKept ==
    ASSUME NEW c \in Calls, UNCHANGED rows, \A d \in Calls : d # c => call'[d] = call[d],
           Improving(c) => Improving(c)' /\ call'[c].me = call[c].me /\ call'[c].score = call[c].score
    PROVE  \A p, v : Current(p, v) => Current(p, v)'
  <1>1. \A d \in Calls : Improving(d) => Improving(d)' /\ call'[d].me = call[d].me /\ call'[d].score = call[d].score
    BY DEF Improving, Submitting
  <1> QED
    BY <1>1 DEF Current

\* What a step of call c has to see to, for the set to stay current for the others.
LEMMA MirrorKept ==
    ASSUME Mirrored, NEW c \in Calls, \A d \in Calls : d # c => call'[d] = call[d],
           \A p \in DOMAIN zset' : Current(p, zset[p])',
           \A p, v : p \notin DOMAIN zset' => (Current(p, v) => Current(p, v)'),
           DOMAIN zset \subseteq DOMAIN zset',
           \A r \in rows' : (\E s \in rows : s.key = r.key) \/ r.key \in DOMAIN zset',
           DOMAIN zset' # {} => \A r \in rows' : r.key \in DOMAIN zset',
           \A d \in Calls : d # c /\ Improving(d) /\ call[d].step = "commit" /\ call[d].me \in DOMAIN zset
                               => zset'[call[d].me] = zset[call[d].me],
           DOMAIN zset' # {} => expires' \/ \E d \in Calls : call'[d].step = "expire",
           MirrorInv(c)'
    PROVE  Mirrored'
  <1>1. ASSUME NEW d \in Calls, d # c, call[d].step = "rebuild" PROVE RebuildInv(d)'
    <2>1. call'[d] = call[d] /\ RebuildInv(d)
      BY <1>1 DEF Mirrored, MirrorInv
    <2>2. \A r \in rows' : r.key \in DOMAIN call[d].loaded \cup DOMAIN zset'
      BY <2>1 DEF RebuildInv
    <2>3. ASSUME NEW p \in DOMAIN call[d].loaded
          PROVE  Current(p, call[d].loaded[p])' \/ (p \in DOMAIN zset' /\ zset'[p] # call[d].loaded[p])
      <3> DEFINE v == call[d].loaded[p]
      <3>1. v' = v
        BY <2>1
      <3>2. Current(p, v) \/ p \in DOMAIN zset
        BY <2>1 DEF RebuildInv
      <3>3. CASE p \notin DOMAIN zset'
        <4>1. Current(p, v)
          BY <3>2, <3>3
        <4> HIDE DEF v
        <4> QED
          BY <3>1, <3>3, <4>1 DEF v
      <3>4. CASE p \in DOMAIN zset' /\ zset'[p] = v
        BY <2>1, <3>4 DEF Current
      <3> QED
        BY <3>3, <3>4
    <2> QED
      BY <2>1, <2>2, <2>3 DEF RebuildInv
  <1>2. ASSUME NEW d \in Calls, d # c PROVE MirrorInv(d)'
    <2>1. call'[d] = call[d] /\ MirrorInv(d)
      BY <1>2 DEF Mirrored
    <2>2. Improving(d)' <=> Improving(d)
      BY <2>1 DEF Improving, Submitting
    <2>3. (call[d].op = "submit" /\ call[d].step \in {"expire", "zadd", "commit"} => DOMAIN zset # {})'
      BY <2>1 DEF MirrorInv
    <2>4. (Improving(d) /\ call[d].step = "commit" =>
              call[d].me \in DOMAIN zset /\ zset[call[d].me] = float64(call[d].score))'
      BY <1>2, <2>1, <2>2 DEF MirrorInv
    <2> QED
      BY <1>1, <1>2, <2>1, <2>3, <2>4 DEF MirrorInv
  <1> QED
    BY <1>2 DEF Mirrored

\* A step of call c that changes neither the rows nor the set.
LEMMA MirrorQuiet ==
    ASSUME Mirrored, NEW c \in Calls, \A d \in Calls : d # c => call'[d] = call[d], UNCHANGED <<rows, zset>>,
           Improving(c) => Improving(c)' /\ call'[c].me = call[c].me /\ call'[c].score = call[c].score,
           DOMAIN zset # {} => (expires \/ call[c].step = "expire" => expires' \/ call'[c].step = "expire"),
           MirrorInv(c)'
    PROVE  Mirrored'
  <1>1. \A p, v : Current(p, v) => Current(p, v)'
    BY CurrentKept
  <1>2. \A p \in DOMAIN zset' : Current(p, zset[p])'
    <2> SUFFICES ASSUME NEW p \in DOMAIN zset' PROVE Current(p, zset[p])'
      OBVIOUS
    <2> DEFINE v == zset[p]
    <2>1. Current(p, v) /\ v' = v
      BY DEF Mirrored
    <2> HIDE DEF v
    <2> QED
      BY <1>1, <2>1 DEF v
  <1>3. DOMAIN zset' # {} => expires' \/ \E d \in Calls : call'[d].step = "expire"
    BY DEF Mirrored
  <1>4. /\ \A r \in rows' : \E s \in rows : s.key = r.key
        /\ DOMAIN zset' # {} => \A r \in rows' : r.key \in DOMAIN zset'
        /\ DOMAIN zset \subseteq DOMAIN zset'
        /\ \A p : zset'[p] = zset[p]
    BY DEF Mirrored
  <1> QED
    BY <1>1, <1>2, <1>3, <1>4, MirrorKept

\* A request comes, or a submission writes its entry.
LEMMA MirrorRequest ==
    ASSUME RowsInv, Mirrored, NEW c \in Calls, NEW p \in Players,
           GetPlayerRank(c, p) \/ \E s \in Scores : SubmitScore(c, p, s)
    PROVE  Mirrored'
  <1>1. /\ UNCHANGED <<rows, zset, expires>> /\ call[c] = NoCall
        /\ \A d \in Calls : d # c => call'[d] = call[d]
        /\ call'[c].step \in {"upsert", "exists"} /\ ~Submitting(c)'
    BY RequestStep
  <1>2. ~Improving(c) /\ call[c].step # "expire"
    BY <1>1 DEF Improving, Submitting, NoCall
  <1>3. MirrorInv(c)'
    BY <1>1 DEF MirrorInv, Improving
  <1> QED
    BY <1>1, <1>2, <1>3, MirrorQuiet

LEMMA MirrorSubmit ==
    ASSUME RowsInv, Mirrored, NEW c \in Calls, call[c].op = "submit", Submit(c)
    PROVE  Mirrored'
  <1>1. /\ UNCHANGED <<rows, zset, expires>> /\ call[c].step = "upsert" /\ ~Submitting(c)
        /\ \E b \in BOOLEAN : Moves(c, "exists", call[c].loaded, b)
    BY SubmitStep
  <1>2. (\A d \in Calls : d # c => call'[d] = call[d]) /\ call'[c].step = "exists"
    BY <1>1 DEF Moves
  <1>3. ~Improving(c) /\ MirrorInv(c)'
    BY <1>1, <1>2 DEF Improving, MirrorInv
  <1> QED
    BY <1>1, <1>2, <1>3, MirrorQuiet

\* EXISTS finds the set, or the call goes on to the rows.
LEMMA MirrorEnsure ==
    ASSUME RowsInv, Mirrored, NEW c \in Calls, call[c].op \in {"submit", "rank"}, ensureBuilt(c)
    PROVE  Mirrored'
  <1> DEFINE l == IF zset = NoKey THEN "load" ELSE Then(c)
  <1>0. call[c].step = "exists" /\ zset \in Zsets
    BY DEF ensureBuilt, RowsInv
  <1>1. /\ UNCHANGED <<rows, zset, expires>> /\ Moves(c, l, call[c].loaded, call[c].improved)
        /\ Improving(c)' <=> Improving(c)
    BY EnsureStep
  <1>2. l \in {"load", "zadd", "zrank"} /\ (l = "zadd" => DOMAIN zset # {})
    BY <1>0, EmptyZset DEF Then
  <1> HIDE DEF l
  <1>3. /\ \A d \in Calls : d # c => call'[d] = call[d]
        /\ call'[c].step = l /\ call'[c].me = call[c].me /\ call'[c].score = call[c].score
    BY <1>1 DEF Moves
  <1>4. MirrorInv(c)'
    BY <1>1, <1>2, <1>3 DEF MirrorInv
  <1> QED
    BY <1>0, <1>1, <1>3, <1>4, MirrorQuiet

\* What a transaction loads is current, its own entry included.
LEMMA MirrorLoad ==
    ASSUME RowsInv, Mirrored, NEW c \in Calls, call[c].op \in {"submit", "rank"}, Load(c)
    PROVE  Mirrored'
  <1> DEFINE l == IF Seen(c) = NoKey THEN Then(c) ELSE "rebuild"
  <1>0. call[c].step = "load" /\ CallInv(c)
    BY DEF Load, RowsInv
  <1>1. /\ UNCHANGED <<rows, zset, expires>> /\ Moves(c, l, Seen(c), call[c].improved)
        /\ Improving(c)' <=> Improving(c)
        /\ Submitting(c) => Seen(c) # NoKey
    BY LoadStep
  <1>2. l \in {"rebuild", "zadd", "zrank"} /\ (call[c].op = "submit" => l = "rebuild") /\ l # "zadd"
    BY <1>0, <1>1 DEF Then, Submitting
  <1> HIDE DEF l
  <1>3. /\ \A d \in Calls : d # c => call'[d] = call[d]
        /\ call'[c].op = call[c].op /\ call'[c].step = l /\ call'[c].me = call[c].me
        /\ call'[c].score = call[c].score /\ call'[c].loaded = Seen(c)
    BY <1>1 DEF Moves
  <1>4. \A p, v : Current(p, v) => Current(p, v)'
    BY <1>1, <1>3, CurrentKept
  <1>5. ASSUME NEW p \in DOMAIN Seen(c) PROVE Current(p, Seen(c)[p])
    <2>1. PICK r \in Visible(c) : r.key = p /\ Seen(c)[p] = float64(r.score)
      BY SeenIs
    <2>2. CASE r \in rows
      BY <2>1, <2>2 DEF Current
    <2>3. CASE r \notin rows
      <3>1. r \in ins[c]
        BY <2>3 DEF Visible
      <3>2. Improving(c) /\ ins[c] = {entry(call[c].me, call[c].score, call[c].at)}
        BY <1>0, <2>3, <3>1 DEF CallInv, Held
      <3>3. r.key = call[c].me /\ r.score = call[c].score
        BY <3>1, <3>2, Entries
      <3> QED
        BY <2>1, <3>2, <3>3 DEF Current
    <2> QED
      BY <2>2, <2>3
  <1>6. RebuildInv(c)'
    <2>1. \A r \in rows' : r.key \in DOMAIN call'[c].loaded
      BY <1>1, <1>3, SeenIs
    <2>2. ASSUME NEW p \in DOMAIN call'[c].loaded PROVE Current(p, call[c].loaded[p])'
      <3>1. PICK v : v = Seen(c)[p]
        OBVIOUS
      <3>2. Current(p, v)
        BY <1>3, <1>5, <2>2, <3>1
      <3>3. Current(p, v)'
        BY <1>4, <3>2
      <3>4. call'[c].loaded[p] = v
        BY <1>3, <3>1
      <3> QED
        BY <3>3, <3>4 DEF Current
    <2> QED
      BY <2>1, <2>2 DEF RebuildInv
  <1>7. MirrorInv(c)'
    BY <1>2, <1>3, <1>6 DEF MirrorInv
  <1> QED
    BY <1>0, <1>1, <1>3, <1>7, MirrorQuiet

\* EXPIRE gives the set a TTL.
LEMMA MirrorExpire ==
    ASSUME RowsInv, Mirrored, NEW c \in Calls, call[c].op \in {"submit", "rank"}, Expire(c)
    PROVE  Mirrored'
  <1>1. /\ UNCHANGED <<rows, zset>> /\ call[c].step = "expire"
        /\ Moves(c, Then(c), call[c].loaded, call[c].improved)
        /\ Improving(c)' <=> Improving(c)
        /\ expires' <=> DOMAIN zset # {}
    BY ExpireStep
  <1>2. Then(c) \in {"zadd", "zrank"} /\ (Then(c) = "zadd" => call[c].op = "submit")
    BY DEF Then
  <1>3. /\ \A d \in Calls : d # c => call'[d] = call[d]
        /\ call'[c].op = call[c].op /\ call'[c].step = Then(c)
        /\ call'[c].me = call[c].me /\ call'[c].score = call[c].score
    BY <1>1 DEF Moves
  <1>4. MirrorInv(c)'
    <2>1. call[c].op = "submit" => DOMAIN zset # {}
      BY <1>1 DEF Mirrored, MirrorInv
    <2> QED
      BY <1>1, <1>2, <1>3, <2>1 DEF MirrorInv
  <1> QED
    BY <1>1, <1>3, <1>4, MirrorQuiet

\* A rank query gives up on the set, or returns.
LEMMA MirrorLeaves ==
    ASSUME Mirrored, NEW c \in Calls, \A d \in Calls : d # c => call'[d] = call[d],
           UNCHANGED <<rows, zset, expires>>, call[c].op # "submit", call[c].step # "expire",
           call'[c].op # "submit", call'[c].step \in {"none", "pgrank"}
    PROVE  Mirrored'
  <1>1. ~Improving(c) /\ ~Improving(c)'
    BY DEF Improving, Submitting
  <1>2. MirrorInv(c)'
    BY <1>1 DEF MirrorInv
  <1> QED
    BY <1>1, <1>2, MirrorQuiet

\* A rebuild that overwrites nothing newer.
LEMMA MirrorZaddLoaded ==
    ASSUME RowsInv, Mirrored, NEW c \in Calls, call[c].op \in {"submit", "rank"}, ZaddLoaded(c), ~torn'
    PROVE  Mirrored'
  <1> DEFINE n == call[c].loaded
  <1>1. /\ UNCHANGED rows /\ call[c].step = "rebuild" /\ Moves(c, "expire", NoKey, call[c].improved)
        /\ Improving(c)' <=> Improving(c)
        /\ n \in Zsets /\ DOMAIN n # {} /\ zset \in Zsets /\ zset' = zadd(zset, n)
        /\ \A p \in DOMAIN zset \cap DOMAIN n : zset[p] = n[p]
    BY ZaddLoadedStep
  <1>2. /\ \A d \in Calls : d # c => call'[d] = call[d]
        /\ call'[c].step = "expire" /\ call'[c].me = call[c].me /\ call'[c].score = call[c].score
    BY <1>1 DEF Moves
  <1>3. \A p, v : Current(p, v) => Current(p, v)'
    BY <1>1, <1>2, CurrentKept
  <1>4. /\ \A p \in DOMAIN n : Current(p, n[p]) \/ (p \in DOMAIN zset /\ zset[p] # n[p])
        /\ \A r \in rows : r.key \in DOMAIN n \cup DOMAIN zset
    BY <1>1 DEF Mirrored, MirrorInv, RebuildInv
  <1> HIDE DEF n
  <1>5. /\ DOMAIN zset' = DOMAIN zset \cup DOMAIN n
        /\ \A p \in DOMAIN n : zset'[p] = n[p]
        /\ \A p \in DOMAIN zset : zset'[p] = zset[p]
    <2>1. /\ DOMAIN zadd(zset, n) = DOMAIN zset \cup DOMAIN n
          /\ \A p \in DOMAIN n : zadd(zset, n)[p] = n[p]
          /\ \A p \in DOMAIN zset : p \notin DOMAIN n => zadd(zset, n)[p] = zset[p]
      <3>1. zset \in Zsets /\ n \in Zsets
        BY <1>1
      <3> QED
        BY <3>1, ZaddIs
    <2> QED
      BY <1>1, <2>1
  <1>6. ASSUME NEW p \in DOMAIN zset' PROVE Current(p, zset[p])'
    <2>1. PICK v : v = zset'[p]
      OBVIOUS
    <2>2. Current(p, v)
      <3>1. CASE p \in DOMAIN zset
        BY <1>5, <2>1, <3>1 DEF Mirrored
      <3>2. CASE p \notin DOMAIN zset
        BY <1>4, <1>5, <2>1, <3>2
      <3> QED
        BY <3>1, <3>2
    <2>3. Current(p, v)'
      BY <1>3, <2>2
    <2> QED
      BY <2>1, <2>3 DEF Current
  <1>7. MirrorInv(c)'
    BY <1>1, <1>2, <1>5 DEF MirrorInv
  <1> QED
    BY <1>1, <1>2, <1>3, <1>4, <1>5, <1>6, <1>7, MirrorKept

\* What ZADD GT or LT leaves of a set that is current: an entry that improves is
\* at its new score, and an entry that does not leaves the set alone.
LEMMA ZaddLeaves ==
    ASSUME RowsInv, Mirrored, NEW c \in Calls, call[c].op = "submit", Zadd(c)
    PROVE  /\ DOMAIN zset # {} /\ DOMAIN zset' = DOMAIN zset \cup {call[c].me}
           /\ Improving(c) => zset'[call[c].me] = float64(call[c].score)
           /\ \A p \in DOMAIN zset' : (p = call[c].me /\ Improving(c)) \/ (p \in DOMAIN zset /\ zset'[p] = zset[p])
  <1> DEFINE p == call[c].me
             s == call[c].score
  <1>1. /\ UNCHANGED rows /\ call[c].step = "zadd"
        /\ DOMAIN zset' = DOMAIN zset \cup {p}
        /\ \A q \in DOMAIN zset : q # p => zset'[q] = zset[q]
        /\ IF p \in DOMAIN zset /\ ~Beats(float64(s), zset[p]) THEN zset' = zset ELSE zset'[p] = float64(s)
    BY ZaddStep
  <1>2. Submitting(c) /\ CallInv(c) /\ s \in Scores /\ \A r \in rows : r.score \in Scores
    BY <1>1, Entries DEF RowsInv, CallInv, Submitting, DbType
  <1>3. DOMAIN zset # {} /\ \A r \in rows : r.key \in DOMAIN zset
    BY <1>1 DEF Mirrored, MirrorInv
  <1>4. p \in DOMAIN zset => (Improving(c) /\ zset[p] = float64(s)) \/ \E r \in rows : r.key = p /\ zset[p] = float64(r.score)
    <2> SUFFICES ASSUME p \in DOMAIN zset
                 PROVE  (Improving(c) /\ zset[p] = float64(s)) \/ \E r \in rows : r.key = p /\ zset[p] = float64(r.score)
      OBVIOUS
    <2>1. Current(p, zset[p])
      BY DEF Mirrored
    <2>2. ASSUME NEW d \in Calls, Improving(d), call[d].me = p PROVE d = c
      BY <1>2, <2>2, OneSubmitter DEF Improving
    <2> QED
      BY <2>1, <2>2 DEF Current
  <1>5. ASSUME Improving(c) PROVE zset'[p] = float64(s)
    <2>1. \A r \in rows : r.key = p => Beats(s, r.score)
      BY <1>2, <1>5 DEF CallInv, Held
    <2>2. \A r \in rows : r.key = p => float64(s) = float64(r.score) \/ Beats(float64(s), float64(r.score))
      BY <1>2, <2>1, FloatOrder
    <2> HIDE DEF p, s
    <2> QED
      BY <1>1, <1>4, <2>2
  <1>6. ASSUME ~Improving(c) PROVE p \in DOMAIN zset /\ zset' = zset
    <2>1. (\E r \in rows : r.key = p) /\ \A r \in rows : r.key = p => ~Beats(s, r.score)
      BY <1>2, <1>6 DEF CallInv, Held
    <2>2. \A r \in rows : r.key = p => ~Beats(float64(s), float64(r.score))
      BY <1>2, <2>1, FloatOrder
    <2> HIDE DEF p, s
    <2>3. p \in DOMAIN zset
      BY <1>3, <2>1
    <2> QED
      BY <1>1, <1>4, <1>6, <2>2, <2>3
  <1> HIDE DEF p, s
  <1>7. \A q \in DOMAIN zset' : (q = p /\ Improving(c)) \/ (q \in DOMAIN zset /\ zset'[q] = zset[q])
    BY <1>1, <1>6
  <1> QED
    BY <1>1, <1>3, <1>5, <1>7 DEF p, s

LEMMA MirrorZadd ==
    ASSUME RowsInv, Mirrored, NEW c \in Calls, call[c].op = "submit", Zadd(c)
    PROVE  Mirrored'
  <1>1. /\ UNCHANGED <<rows, expires>> /\ call[c].step = "zadd"
        /\ Moves(c, "commit", call[c].loaded, call[c].improved)
        /\ Improving(c)' <=> Improving(c)
    BY ZaddStep
  <1>2. /\ \A d \in Calls : d # c => call'[d] = call[d]
        /\ call'[c].step = "commit" /\ call'[c].me = call[c].me /\ call'[c].score = call[c].score
    BY <1>1 DEF Moves
  <1>3. \A p, v : Current(p, v) => Current(p, v)'
    BY <1>1, <1>2, CurrentKept
  <1>4. /\ DOMAIN zset # {} /\ DOMAIN zset' = DOMAIN zset \cup {call[c].me}
        /\ Improving(c) => zset'[call[c].me] = float64(call[c].score)
        /\ \A p \in DOMAIN zset' : (p = call[c].me /\ Improving(c)) \/ (p \in DOMAIN zset /\ zset'[p] = zset[p])
    BY ZaddLeaves
  <1>5. ASSUME NEW p \in DOMAIN zset' PROVE Current(p, zset[p])'
    <2>1. PICK v : v = zset'[p]
      OBVIOUS
    <2>2. Current(p, v)
      <3>1. CASE p = call[c].me /\ Improving(c)
        BY <1>4, <2>1, <3>1 DEF Current
      <3>2. CASE p \in DOMAIN zset /\ zset'[p] = zset[p]
        BY <2>1, <3>2 DEF Mirrored
      <3> QED
        BY <1>4, <3>1, <3>2
    <2>3. Current(p, v)'
      BY <1>3, <2>2
    <2> QED
      BY <2>1, <2>3 DEF Current
  <1>6. MirrorInv(c)'
    BY <1>1, <1>2, <1>4 DEF MirrorInv
  <1>7. ASSUME NEW d \in Calls, d # c, Improving(d), call[d].me \in DOMAIN zset
        PROVE  zset'[call[d].me] = zset[call[d].me]
    <2>1. Submitting(c) /\ Submitting(d)
      BY <1>1, <1>7 DEF Submitting, Improving
    <2>2. call[d].me # call[c].me
      BY <1>7, <2>1, OneSubmitter
    <2> QED
      BY <1>4, <1>7, <2>2
  <1>8. /\ \A r \in rows' : r.key \in DOMAIN zset'
        /\ expires' \/ \E d \in Calls : call'[d].step = "expire"
    BY <1>1, <1>2, <1>4 DEF Mirrored
  <1> QED
    BY <1>2, <1>3, <1>4, <1>5, <1>6, <1>7, <1>8, MirrorKept

\* The commit: the set already has the score of the row.
LEMMA MirrorCommit ==
    ASSUME RowsInv, Mirrored, NEW c \in Calls, CommitSubmit(c)
    PROVE  Mirrored'
  <1> DEFINE p == call[c].me
             e == entry(call[c].me, call[c].score, call[c].at)
  <1>1. /\ call[c].op = "submit" /\ call[c].step = "commit" /\ Submitting(c)
        /\ \A r : r.key # p => (r \in rows' <=> r \in rows)
        /\ Improving(c) => e \in rows'
        /\ ~Improving(c) => rows' = rows
    BY CommitRows
  <1>2. /\ UNCHANGED <<zset, expires>> /\ call'[c].op = "rank" /\ call'[c].step = "exists" /\ ~Submitting(c)'
        /\ \A d \in Calls : d # c => call'[d] = call[d] /\ (Improving(d)' <=> Improving(d))
    BY CommitSubmitStep
  <1>3. DOMAIN zset # {} /\ (Improving(c) => p \in DOMAIN zset /\ zset[p] = float64(call[c].score))
    BY <1>1 DEF Mirrored, MirrorInv
  <1>4. e.key = p /\ e.score = call[c].score
    BY Entries
  <1> HIDE DEF p, e
  <1>5. ASSUME NEW q, NEW v, Current(q, v), q # p \/ ~Improving(c) PROVE Current(q, v)'
    <2>1. CASE \E r \in rows : r.key = q /\ float64(r.score) = v
      BY <1>1, <1>5, <2>1 DEF Current
    <2>2. ASSUME NEW d \in Calls, Improving(d), call[d].me = q, float64(call[d].score) = v PROVE Current(q, v)'
      <3>1. d # c
        BY <1>5, <2>2 DEF p
      <3> QED
        BY <1>2, <2>2, <3>1 DEF Current
    <2> QED
      BY <1>5, <2>1, <2>2 DEF Current
  <1>6. ASSUME NEW q \in DOMAIN zset' PROVE Current(q, zset[q])'
    <2>1. PICK v : v = zset[q]
      OBVIOUS
    <2>2. Current(q, v)'
      <3>1. CASE q = p /\ Improving(c)
        BY <1>1, <1>3, <1>4, <2>1, <3>1 DEF Current
      <3>2. CASE q # p \/ ~Improving(c)
        <4>1. Current(q, v)
          BY <1>2, <2>1 DEF Mirrored
        <4> QED
          BY <1>5, <3>2, <4>1
      <3> QED
        BY <3>1, <3>2
    <2> QED
      BY <1>2, <2>1, <2>2 DEF Current
  <1>7. \A q, v : q \notin DOMAIN zset' => (Current(q, v) => Current(q, v)')
    BY <1>2, <1>3, <1>5
  <1>8. MirrorInv(c)'
    BY <1>2 DEF MirrorInv, Improving
  <1>9. \A r \in rows' : r.key \in DOMAIN zset'
    BY <1>1, <1>2, <1>3 DEF Mirrored
  <1>10. expires' \/ \E d \in Calls : call'[d].step = "expire"
    BY <1>1, <1>2, <1>3 DEF Mirrored
  <1> QED
    BY <1>2, <1>6, <1>7, <1>8, <1>9, <1>10, MirrorKept

\* The key goes while nobody is about to write a part of the set.
LEMMA MirrorGone ==
    ASSUME RowsInv, KeyGone, ~torn'
    PROVE  Mirrored'
  <1>1. zset' = NoKey /\ UNCHANGED <<rows, call>> /\ ~Tear
    BY DEF KeyGone, dbVars
  <1>2. DOMAIN zset' = {}
    BY <1>1, EmptyZset
  <1>3. ASSUME NEW d \in Calls PROVE MirrorInv(d)'
    <2>1. call'[d].step # "rebuild" /\ ~(call'[d].op = "submit" /\ call'[d].step \in {"expire", "zadd", "commit"})
      BY <1>1 DEF Tear
    <2> QED
      BY <2>1 DEF MirrorInv, Improving, Submitting
  <1> QED
    BY <1>2, <1>3 DEF Mirrored

\* Every step of a submission, of a rank query or of the set keeps the invariant.
LEMMA IndexStep == RowsInv /\ IndexInv /\ [Next]_vars => IndexInv'
  <1> SUFFICES ASSUME RowsInv, IndexInv, [Next]_vars, ~torn' PROVE Mirrored'
    BY DEF IndexInv
  <1>0. CASE KeyGone
    BY <1>0, MirrorGone
  <1>1. CASE UNCHANGED vars
    <2>1. Mirrored /\ UNCHANGED <<rows, call, zset, expires>>
      BY <1>1 DEF IndexInv, vars, dbVars
    <2> QED
      BY <2>1 DEF Mirrored, MirrorInv, RebuildInv, Current, Improving, Submitting
  <1>2. ASSUME NEW c \in Calls, NEW p \in Players,
               GetPlayerRank(c, p) \/ \E s \in Scores : SubmitScore(c, p, s)
        PROVE  Mirrored'
    <2>1. UNCHANGED torn
      BY <1>2, RequestStep
    <2> QED
      BY <1>2, <2>1, MirrorRequest DEF IndexInv
  <1>3. ASSUME NEW c \in Calls, ValkeyFails(c) PROVE Mirrored'
    <2>1. /\ call[c].op \in {"submit", "rank"} /\ ~torn /\ call[c].op # "submit" /\ call[c].step # "expire"
          /\ Moves(c, "pgrank", NoKey, call[c].improved) /\ UNCHANGED <<rows, zset, expires>>
      BY <1>3, ValkeyFailsStep
    <2>2. /\ \A d \in Calls : d # c => call'[d] = call[d]
          /\ call'[c].op = call[c].op /\ call'[c].step = "pgrank"
      BY <2>1 DEF Moves
    <2> QED
      BY <2>1, <2>2, MirrorLeaves DEF IndexInv
  <1>4. ASSUME NEW c \in Calls, Fail(c) PROVE Mirrored'
    <2>1. ~torn /\ call[c].op # "submit" /\ call[c].step # "expire" /\ UNCHANGED <<rows, zset, expires>> /\ Return(c)
      BY <1>4 DEF Fail, Rollback
    <2>2. call'[c] = NoCall /\ \A d \in Calls : d # c => call'[d] = call[d]
      BY <2>1, Returned
    <2> QED
      BY <2>1, <2>2, MirrorLeaves DEF IndexInv, NoCall
  <1>5. ASSUME NEW c \in Calls, call[c].op \in {"submit", "rank"}, ensureBuilt(c) \/ rebuild(c) PROVE Mirrored'
    <2>1. Mirrored
      <3>1. torn => torn'
        BY <1>5 DEF ensureBuilt, rebuild, Load, ZaddLoaded, Expire, index
      <3> QED
        BY <3>1 DEF IndexInv
    <2> QED
      BY <1>5, <2>1, MirrorEnsure, MirrorLoad, MirrorZaddLoaded, MirrorExpire DEF rebuild
  <1>6. ASSUME NEW c \in Calls, call[c].op = "submit", Submit(c) \/ Zadd(c) \/ CommitSubmit(c) PROVE Mirrored'
    <2>1. Mirrored
      BY <1>6, SubmitStep, ZaddStep, CommitSubmitStep DEF IndexInv
    <2> QED
      BY <1>6, <2>1, MirrorSubmit, MirrorZadd, MirrorCommit
  <1>7. ASSUME NEW c \in Calls, call[c].op = "rank", Zrank(c) \/ PgRankOf(c) PROVE Mirrored'
    <2>1. UNCHANGED <<rows, zset, expires, torn>> /\ Return(c) /\ call[c].step # "expire"
      BY <1>7 DEF Zrank, PgRankOf, dbVars, index
    <2>2. call'[c] = NoCall /\ \A d \in Calls : d # c => call'[d] = call[d]
      BY <2>1, Returned
    <2> QED
      BY <1>7, <2>1, <2>2, MirrorLeaves DEF IndexInv, NoCall
  <1>8. ASSUME NEW c \in Calls, Step(c) PROVE Mirrored'
    <2>1. CASE SubmitTx(c)
      BY <2>1, <1>5, <1>6 DEF SubmitTx
    <2>2. CASE RankOf(c)
      BY <2>2, <1>5, <1>7 DEF RankOf
    <2> QED
      BY <1>8, <2>1, <2>2 DEF Step
  <1> QED
    BY <1>0, <1>1, <1>2, <1>3, <1>4, <1>8 DEF Next

\* The invariant of the sorted set holds of every behaviour.
LEMMA IndexInductive == Spec => [](RowsInv /\ IndexInv)
  <1>1. Init => IndexInv
    <2> SUFFICES ASSUME Init PROVE Mirrored
      BY DEF IndexInv
    <2>1. DOMAIN zset = {} /\ \A c \in Calls : call[c] = NoCall
      BY EmptyZset DEF Init
    <2>2. \A c \in Calls : MirrorInv(c)
      BY <2>1 DEF MirrorInv, Improving, Submitting, NoCall
    <2> QED
      BY <2>1, <2>2 DEF Mirrored
  <1> QED
    BY <1>1, RowsInit, RowsStep, IndexStep, PTL DEF Spec

----------------------------------------------------------------------------
(* The ranks of a settled set.                                             *)

\* The sorted set has the rows, each at its score.
Exact ==
    /\ \A r \in rows : r.key \in DOMAIN zset /\ zset[r.key] = float64(r.score)
    /\ \A p \in DOMAIN zset : \E r \in rows : r.key = p

NoTies == \A r, s \in rows : float64(r.score) = float64(s.score) => r = s

\* With no submission under way, only the rows are current.
LEMMA SettledIsExact ==
    ASSUME RowsInv, IndexInv, Settled, ~torn, zset # NoKey
    PROVE  /\ Exact /\ (expires \/ \E c \in Calls : call[c].step = "expire")
           /\ zset = [p \in {r.key : r \in rows} |-> float64((CHOOSE r \in rows : r.key = p).score)]
  <1>1. Mirrored /\ zset \in Zsets /\ DOMAIN zset # {} /\ \A r, s \in rows : r.key = s.key => r = s
    BY EmptyZset DEF IndexInv, RowsInv, DbInv, Unique
  <1>2. \A c \in Calls : ~Improving(c)
    BY DEF Settled, Improving, Submitting
  <1>3. \A p \in DOMAIN zset : \E r \in rows : r.key = p /\ float64(r.score) = zset[p]
    BY <1>1, <1>2 DEF Mirrored, Current
  <1>4. Exact /\ (expires \/ \E c \in Calls : call[c].step = "expire")
    BY <1>1, <1>3 DEF Mirrored, Exact
  <1> DEFINE P == {r.key : r \in rows}
             row(p) == CHOOSE r \in rows : r.key = p
  <1>5. DOMAIN zset = P
    BY <1>4 DEF Exact
  <1>6. ASSUME NEW p \in P PROVE zset[p] = float64(row(p).score)
    <2>1. row(p) \in rows /\ row(p).key = p
      BY <1>6
    <2> QED
      BY <1>4, <2>1 DEF Exact
  <1>7. zset = [p \in DOMAIN zset |-> zset[p]]
    BY <1>1, ZsetIs DEF IsZset
  <1> HIDE DEF P, row
  <1>8. zset = [p \in P |-> float64(row(p).score)]
    BY <1>5, <1>6, <1>7
  <1> QED
    BY <1>4, <1>8 DEF P, row

\* There are no more rows than players.
LEMMA RowsFinite == RowsInv => IsFiniteSet(rows)
  <1> SUFFICES ASSUME RowsInv PROVE IsFiniteSet(rows)
    OBVIOUS
  <1> DEFINE f == [r \in rows |-> r.key]
  <1>1. rows \subseteq Tables /\ \A r, s \in rows : r.key = s.key => r = s
    BY DEF RowsInv, DbType, DbInv, Unique
  <1>2. f \in [rows -> Players]
    BY <1>1, Entries
  <1>3. f \in Injection(rows, Players)
    BY <1>1, <1>2 DEF Injection, IsInjective
  <1> HIDE DEF f
  <1> QED
    BY <1>3, FS_Injection, BoundsAssumption

\* Ranks count from one.
LEMMA RankType ==
    ASSUME RowsInv, NEW r \in rows
    PROVE  pgRank(r) \in Nat /\ pgRank(r) >= 1
  <1> DEFINE A == {s \in rows : Ahead(s, r)}
  <1>1. IsFiniteSet(A)
    BY RowsFinite, FS_Subset
  <1>2. Cardinality(A) \in Nat
    BY <1>1, FS_CardinalityType
  <1>3. pgRank(r) = 1 + Cardinality(A)
    BY DEF pgRank
  <1> HIDE DEF A
  <1> QED
    BY <1>2, <1>3

\* While no two scores are equal as float64, those ahead in the set are those ahead
\* in the rows, and none is tied.
LEMMA RanksAgree ==
    ASSUME RowsInv, Exact, NoTies, NEW r \in rows
    PROVE  zRanks(r.key) = {pgRank(r)}
  <1> DEFINE A == {s \in rows : Ahead(s, r)}
             p == r.key
             ahead == {q \in DOMAIN zset : Beats(zset[q], zset[p])}
             tied == {q \in DOMAIN zset \ {p} : zset[q] = zset[p]}
             f == [s \in A |-> s.key]
  <1>1. \A s \in rows : s.score \in Scores /\ s.at \in Int
    BY Entries, BoundsAssumption DEF RowsInv, DbType
  <1>2. \A s, t \in rows : s.key = t.key => s = t
    BY DEF RowsInv, DbInv, Unique
  <1>3. tied = {}
    BY DEF Exact, NoTies
  <1>4. \A s \in rows : Ahead(s, r) <=> Beats(float64(s.score), float64(r.score))
    <2> SUFFICES ASSUME NEW s \in rows
                 PROVE  Ahead(s, r) <=> Beats(float64(s.score), float64(r.score))
      OBVIOUS
    <2>1. s.score \in Scores /\ r.score \in Scores /\ s.at \in Int /\ r.at \in Int /\ r.score \in Int
      BY <1>1, ScoreTypes
    <2>2. /\ Beats(float64(s.score), float64(r.score)) => Beats(s.score, r.score)
          /\ Beats(s.score, r.score) =>
                float64(s.score) = float64(r.score) \/ Beats(float64(s.score), float64(r.score))
      BY <2>1, FloatOrder
    <2>3. float64(s.score) = float64(r.score) => s = r
      BY DEF NoTies
    <2>4. ~Ahead(r, r)
      BY <2>1, BeatsOrder DEF Ahead
    <2> QED
      BY <2>2, <2>3, <2>4 DEF Ahead
  <1>5. f \in Bijection(A, ahead)
    <2>1. f \in [A -> ahead]
      BY <1>4 DEF Exact
    <2>2. f \in Injection(A, ahead)
      BY <1>2, <2>1 DEF Injection, IsInjective
    <2>3. \A q \in ahead : \E s \in A : s.key = q
      BY <1>4 DEF Exact
    <2>4. f \in Surjection(A, ahead)
      BY <2>1, <2>3 DEF Surjection
    <2> QED
      BY <2>2, <2>4 DEF Bijection
  <1>6. IsFiniteSet(A)
    BY RowsFinite, FS_Subset
  <1>7. zRanks(r.key) = {1 + Cardinality(ahead) + n : n \in 0..Cardinality(tied)}
    BY DEF zRanks
  <1>8. pgRank(r) = 1 + Cardinality(A)
    BY DEF pgRank
  <1> HIDE DEF A, ahead, tied, f, p
  <1>9. Cardinality(ahead) = Cardinality(A) /\ Cardinality(A) \in Nat
    BY <1>5, <1>6, FS_Bijection, FS_CardinalityType DEF ExistsBijection
  <1>10. Cardinality(tied) = 0
    BY <1>3, FS_EmptySet
  <1> QED
    BY <1>7, <1>8, <1>9, <1>10

\* The larger and the smaller of two numbers.
LEMMA Extremes ==
    ASSUME NEW a \in Int, NEW b \in Int
    PROVE  /\ Max({a, b}) = IF a >= b THEN a ELSE b
           /\ Min({a, b}) = IF a <= b THEN a ELSE b
  <1>1. Max({a, b}) \in {a, b} /\ \A y \in {a, b} : Max({a, b}) >= y
    <2>1. \E x \in {a, b} : \A y \in {a, b} : x >= y
      OBVIOUS
    <2> QED
      BY <2>1 DEF Max
  <1>2. Min({a, b}) \in {a, b} /\ \A y \in {a, b} : Min({a, b}) <= y
    <2>1. \E x \in {a, b} : \A y \in {a, b} : x <= y
      OBVIOUS
    <2> QED
      BY <2>1 DEF Min
  <1> HIDE DEF Max, Min
  <1> QED
    BY <1>1, <1>2

\* A player's rank is the offset of a page that begins with the player.
LEMMA PageHasRank ==
    ASSUME RowsInv, NEW r \in rows, NEW limit \in Nat
    PROVE  r \in ListRanks(pgRank(r) - 1, limit)
  <1> DEFINE k == pgRank(r)
  <1>1. k \in Nat /\ k >= 1
    BY RankType
  <1>2. DefaultLimit \in Nat /\ DefaultLimit >= 1 /\ MaxLimit \in Nat /\ MaxLimit >= 1
    BY BoundsAssumption
  <1>3. clampLimit(limit) \in Nat /\ clampLimit(limit) >= 1
    <2>1. Min({limit, MaxLimit}) = IF limit <= MaxLimit THEN limit ELSE MaxLimit
      BY <1>2, Extremes
    <2> QED
      BY <1>2, <2>1 DEF clampLimit
  <1> HIDE DEF k
  <1>4. Max({k - 1, 0}) = k - 1
    BY <1>1, Extremes
  <1>5. r \in TopRanks(k - 1, clampLimit(limit))
    BY <1>1, <1>3 DEF TopRanks, k
  <1> QED
    BY <1>4, <1>5 DEF ListRanks, k

\* The window around a rank: the neighbours on either side, or the top of the list.
LEMMA WindowIs ==
    ASSUME RowsInv, NEW r \in rows, NEW radius \in Nat, NEW m \in Nat, m = Min({radius, MaxRadius}),
           NEW near, near = {s \in rows : pgRank(s) \in (pgRank(r) - m)..(pgRank(r) + m)}
    PROVE  /\ near \subseteq RanksAround(pgRank(r), radius)
           /\ pgRank(r) > m => RanksAround(pgRank(r), radius) = near
  <1> DEFINE k == pgRank(r)
             o == IF k - 1 - m >= 0 THEN k - 1 - m ELSE 0
  <1>1. k \in Nat /\ k >= 1 /\ \A s \in rows : pgRank(s) \in Nat /\ pgRank(s) >= 1
    BY RankType
  <1>2. Max({radius, 0}) = radius
    BY Extremes
  <1> HIDE DEF k
  <1>3. Max({k - 1 - m, 0}) = o
    <2>1. k - 1 - m \in Int /\ 0 \in Int
      BY <1>1
    <2> QED
      BY <2>1, Extremes
  <1>4. RanksAround(k, radius) = TopRanks(o, 2 * m + 1)
    BY <1>2, <1>3 DEF RanksAround
  <1>5. RanksAround(k, radius) = {s \in rows : pgRank(s) > o /\ pgRank(s) <= o + (2 * m + 1)}
    BY <1>4 DEF TopRanks
  <1>6. near = {s \in rows : pgRank(s) >= k - m /\ pgRank(s) <= k + m}
    BY <1>1 DEF k
  <1>7. ASSUME NEW x \in Nat, x >= 1
        PROVE  /\ x >= k - m /\ x <= k + m => x > o /\ x <= o + (2 * m + 1)
               /\ k > m => (x > o /\ x <= o + (2 * m + 1) => x >= k - m /\ x <= k + m)
    BY <1>1, <1>7
  <1> HIDE DEF o
  <1> QED
    BY <1>1, <1>5, <1>6, <1>7 DEF k

\* When no submission runs and none was torn from it, the sorted set is absent or holds
\* exactly the rows and will expire; without ties its ranks, the paginated list and
\* the window around a player agree.
THEOREM IndexAgreesHolds == Spec => []IndexAgrees
  <1>1. RowsInv /\ IndexInv => IndexAgrees
    <2> SUFFICES ASSUME RowsInv, IndexInv, Settled, ~torn, zset # NoKey PROVE IndexAgrees
      BY DEF IndexAgrees
    <2>1. /\ Exact /\ (expires \/ \E c \in Calls : call[c].step = "expire")
          /\ zset = [p \in {r.key : r \in rows} |-> float64((CHOOSE r \in rows : r.key = p).score)]
      BY SettledIsExact
    <2>2. ASSUME NoTies, NEW r \in rows PROVE zRanks(r.key) = {pgRank(r)}
      BY <2>1, <2>2, RanksAgree
    <2>3. ASSUME NEW r \in rows, NEW limit \in 0..(MaxLimit + 1) PROVE r \in ListRanks(pgRank(r) - 1, limit)
      BY PageHasRank, BoundsAssumption
    <2>4. ASSUME NEW r \in rows, NEW radius \in 0..(MaxRadius + 1)
          PROVE  LET m == Min({radius, MaxRadius})
                     near == {s \in rows : pgRank(s) \in (pgRank(r) - m)..(pgRank(r) + m)}
                     window == RanksAround(pgRank(r), radius)
                 IN near \subseteq window /\ (pgRank(r) > m => window = near)
      <3> DEFINE m == Min({radius, MaxRadius})
                 near == {s \in rows : pgRank(s) \in (pgRank(r) - m)..(pgRank(r) + m)}
      <3>1. radius \in Nat /\ m \in Nat
        <4>1. radius \in Nat /\ MaxRadius \in Nat
          BY BoundsAssumption
        <4>2. Min({radius, MaxRadius}) = IF radius <= MaxRadius THEN radius ELSE MaxRadius
          BY <4>1, Extremes
        <4> QED
          BY <4>1, <4>2
      <3>2. m = Min({radius, MaxRadius}) /\ near = {s \in rows : pgRank(s) \in (pgRank(r) - m)..(pgRank(r) + m)}
        OBVIOUS
      <3> HIDE DEF m, near
      <3>3. near \subseteq RanksAround(pgRank(r), radius) /\ (pgRank(r) > m => RanksAround(pgRank(r), radius) = near)
        BY <3>1, <3>2, WindowIs
      <3> QED
        BY <3>3 DEF m, near
    <2>5. NoTies => \A r \in rows :
             /\ zRanks(r.key) = {pgRank(r)}
             /\ \A limit \in 0..(MaxLimit + 1) : r \in ListRanks(pgRank(r) - 1, limit)
             /\ \A radius \in 0..(MaxRadius + 1) :
                   LET m == Min({radius, MaxRadius})
                       near == {s \in rows : pgRank(s) \in (pgRank(r) - m)..(pgRank(r) + m)}
                       window == RanksAround(pgRank(r), radius)
                   IN near \subseteq window /\ (pgRank(r) > m => window = near)
      BY <2>2, <2>3, <2>4
    <2> QED
      BY <2>1, <2>5 DEF IndexAgrees, NoTies
  <1> QED
    BY <1>1, IndexInductive, PTL
=============================================================================
