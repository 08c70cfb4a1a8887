------------------------------ MODULE Matcher ------------------------------
(***************************************************************************)
(* The matching rules of domain/match: how SelectGroup picks a group from  *)
(* the pending pool.  A small state machine around it lets tickets arrive  *)
(* and time pass between two looks at the pool, and takes a chosen group   *)
(* out, as the loop of processMode does, so that SelectGroup is checked on *)
(* every pool that can build up.                                           *)
(***************************************************************************)
EXTENDS Integers, Sequences, FiniteSets, SequencesExt

CONSTANTS
    PlayersPerMatch,
    BaseRatingWindow,
    RatingWindowGrowthPerSec,
    RegionRelaxAfter,      \* seconds
    MaxPartySize,          \* 0: not limited
    NoRating, NoRegion,    \* the ticket leaves the field out
    Requests,              \* what CreateTicket is called with: player, members, rating, region
    MaxTickets,            \* bound: tickets that ever arrive
    MaxTime                \* bound: seconds that pass

ASSUME PolicyAssumption ==
    /\ PlayersPerMatch \in Nat \ {0}
    /\ {BaseRatingWindow, RatingWindowGrowthPerSec, RegionRelaxAfter} \subseteq Nat \ {0}
    /\ {MaxPartySize, MaxTickets, MaxTime} \subseteq Nat

\* The submitter and the members it named; a roster of one is a solo queue.
NormalizeParty(self, members) == {self} \cup members

\* A ticket's id is a random UUID: its order says nothing about its age.
NewTicket(id, req, now) ==
    [id |-> id, player |-> req.player, roster |-> NormalizeParty(req.player, req.members),
     rating |-> req.rating, region |-> req.region, at |-> now]

IsParty(t) == Cardinality(t.roster) >= 2

\* A missing rating or region skips that check.
CompatibleWith(t, other, ratingWindow, ignoreRegion) ==
    /\ \/ ignoreRegion
       \/ NoRegion \in {t.region, other.region}
       \/ t.region = other.region
    /\ \/ NoRating \in {t.rating, other.rating}
       \/ LET gap == t.rating - other.rating IN gap <= ratingWindow /\ -gap <= ratingWindow

----------------------------------------------------------------------------
(* Units: a solo ticket, or a complete party.  A unit is the set of its    *)
(* tickets; the code lists them in roster (player) order.                  *)

Before(t, u) == t.at < u.at \/ (t.at = u.at /\ t.id < u.id)

\* The first of a unit's tickets in roster order, and its longest-waiting one.
FirstTicket(u) == CHOOSE t \in u : \A s \in u : t.player <= s.player
anchor(u) == CHOOSE t \in u : \A s \in u : t.at < s.at \/ (t.at = s.at /\ t.player <= s.player)
SeedAt(u) == anchor(u).at

\* A party is placed once every member of the roster has a pending ticket for
\* that roster; the oldest ticket of each member counts.
PartyUnit(pending, roster) ==
    {t \in pending : t.roster = roster /\
        \A s \in pending : s.roster = roster /\ s.player = t.player => s = t \/ Before(t, s)}
Complete(pending, roster) ==
    \A p \in roster : \E t \in pending : t.roster = roster /\ t.player = p

UnitSet(pending) ==
    {{t} : t \in {s \in pending : ~IsParty(s)}} \cup
    {PartyUnit(pending, r) : r \in {s.roster : s \in {x \in pending : IsParty(x) /\ Complete(pending, x.roster)}}}

UnitBefore(u, v) ==
    SeedAt(u) < SeedAt(v) \/ (SeedAt(u) = SeedAt(v) /\ FirstTicket(u).id < FirstTicket(v).id)

buildUnits(pending) == SetToSortSeq(UnitSet(pending), UnitBefore)

----------------------------------------------------------------------------

Waited(now, seed) == now - SeedAt(seed)

\* Mutant of RatingWindow: the window narrows with the wait.
RatingWindowNarrows(now, seed) == BaseRatingWindow - RatingWindowGrowthPerSec * Waited(now, seed)

RatingWindow(now, seed) == BaseRatingWindow + RatingWindowGrowthPerSec * Waited(now, seed)
IgnoreRegion(now, seed) == Waited(now, seed) >= RegionRelaxAfter

unitCompatibleWith(u, now, seed) ==
    \A t \in u : CompatibleWith(anchor(seed), t, RatingWindow(now, seed), IgnoreRegion(now, seed))

\* Mutant of groupFromSeed: the tier is not checked.
groupUnchecked(now, units, seed) ==
    LET fill(g, u) ==
            IF u # seed /\ Cardinality(g) + Cardinality(u) <= PlayersPerMatch THEN g \cup u ELSE g
        g == FoldLeft(fill, seed, units)
    IN IF Cardinality(g) = PlayersPerMatch THEN g ELSE {}

\* Greedy: every other unit in line joins if it fits what is left of the match
\* and suits the seed.  {} stands for nil.
groupFromSeed(now, units, seed) ==
    LET fill(g, u) ==
            IF u # seed /\ Cardinality(g) + Cardinality(u) <= PlayersPerMatch
                        /\ unitCompatibleWith(u, now, seed)
            THEN g \cup u ELSE g
        g == FoldLeft(fill, seed, units)
    IN IF Cardinality(g) = PlayersPerMatch THEN g ELSE {}

\* Mutant of SelectGroup: the line is served from its end.
SelectNewest(now, pending) ==
    LET units == Reverse(buildUnits(pending))
        i == SelectInSeq(units, LAMBDA s : groupFromSeed(now, units, s) # {})
    IN IF i = 0 THEN {} ELSE groupFromSeed(now, units, units[i])

\* The first seed in line that yields a group.
SelectGroup(now, pending) ==
    LET units == buildUnits(pending)
        i == SelectInSeq(units, LAMBDA s : groupFromSeed(now, units, s) # {})
    IN IF i = 0 THEN {} ELSE groupFromSeed(now, units, units[i])

----------------------------------------------------------------------------
(* The pool over time.                                                     *)

VARIABLES pool, used, clock, now
vars == <<pool, used, clock, now>>

Init == pool = {} /\ used = {} /\ clock = 0 /\ now = 0

CreateTicket(id, req) ==
    /\ id \notin used
    /\ MaxPartySize > 0 =>                                \* else ErrPartyTooLarge
          Cardinality(NormalizeParty(req.player, req.members)) <= MaxPartySize
    /\ used' = used \cup {id}
    /\ pool' = pool \cup {NewTicket(id, req, clock)}
    /\ UNCHANGED <<clock, now>>

PassTime == clock < MaxTime /\ clock' = clock + 1 /\ UNCHANGED <<pool, used, now>>

\* A tick of the matchmaker reads the clock once, before its loop.
StartTick == now' = clock /\ UNCHANGED <<pool, used, clock>>

\* One turn of processMode's loop that finds a group.
TakeGroup ==
    /\ SelectGroup(now, pool) # {}
    /\ pool' = pool \ SelectGroup(now, pool)
    /\ UNCHANGED <<used, clock, now>>

Next ==
    \/ \E id \in 1..MaxTickets, req \in Requests : CreateTicket(id, req)
    \/ PassTime
    \/ StartTick
    \/ TakeGroup

Spec == Init /\ [][Next]_vars

----------------------------------------------------------------------------
(* The reference: every group the rules allow, found by search.            *)

AllowedGroups ==
    {UNION G : G \in {H \in SUBSET UnitSet(pool) :
        /\ Cardinality(UNION H) = PlayersPerMatch
        /\ \E seed \in H : \A u \in H \ {seed} : unitCompatibleWith(u, now, seed)}}

TypeOK ==
    /\ used \subseteq 1..MaxTickets
    /\ {t.id : t \in pool} \subseteq used
    /\ clock \in 0..MaxTime /\ now \in 0..clock

\* With three places or more the greedy fill may let in a unit that leaves a gap
\* no other unit fits, and miss a group that was there.
Pairs == PlayersPerMatch = 2

\* SelectGroup against the reference: it returns a group exactly when the rules
\* allow one, and then one they allow: PlayersPerMatch tickets, every party whole
\* with one ticket per member, everyone within the seed's rating and region tier.
\* That it misses none is said of matches of two only.
SelectExact ==
    LET g == SelectGroup(now, pool)
    IN /\ Pairs /\ g = {} => AllowedGroups = {}
       /\ g # {} =>
            /\ g \in AllowedGroups
            /\ \A t \in g : IsParty(t) =>
                  \A p \in t.roster : Cardinality({s \in g : s.player = p /\ s.roster = t.roster}) = 1

\* The longest-waiting entry is preferred: when some allowed group fits the
\* tier of the unit at the head of the line, that unit plays.  Said of matches of
\* two only.
OldestPreferred ==
    Pairs /\ UnitSet(pool) # {} =>
        LET head == buildUnits(pool)[1]
            fits(G) == Cardinality(UNION G) = PlayersPerMatch /\ head \in G
                          /\ \A u \in G \ {head} : unitCompatibleWith(u, now, head)
        IN (\E G \in SUBSET UnitSet(pool) : fits(G)) => head \subseteq SelectGroup(now, pool)

\* Waiting only helps in matches of two: a pool that yields a group keeps yielding
\* one at every later tick as long as nobody leaves, whoever arrives.  In a match of
\* four it does not: a solo ticket that the widened window lets in, tried before
\* two parties of two, leaves each seed one player short.
NeverWithdrawn ==
    [][Pairs /\ SelectGroup(now, pool) # {} /\ pool \subseteq pool' /\ now' >= now
          => SelectGroup(now', pool') # {}]_vars
=============================================================================
