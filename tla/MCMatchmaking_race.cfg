\* Two matchmakers race for four tickets, two of one player; calls of pair fail and workers die.
CONSTANTS
    t1 = t1  t2 = t2  t3 = t3  t4 = t4
    p1 = p1  p2 = p2  p3 = p3
    Tickets = {t1, t2, t3, t4}
    Players = {p1, p2, p3}
    PlayerOf <- TwiceQueued
    Party <- SoloParty
    Workers = {w1, w2}
    Cancellers = {}
    Matches = {m1, m2}
    NoMatch = NoMatch
    PlayersPerMatch = 2
    Watched = {}
    Faults = {"claim", "publish", "persist", "abort"}
SPECIFICATION Spec
SYMMETRY Symmetry
CHECK_DEADLOCK FALSE
INVARIANTS TypeOK NoDoubleMatch MatchedIsRecoverable CountedFullyFormed
