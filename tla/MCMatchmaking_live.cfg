\* Liveness: two matchmakers and a CancelTicket, no crash and no lost command.
CONSTANTS
    t1 = t1  t2 = t2  t3 = t3  t4 = t4
    p1 = p1  p2 = p2  p3 = p3
    Tickets = {t1, t2}
    Players = {p1, p2}
    PlayerOf <- SoloPlayers2
    Party <- SoloParty
    Workers = {w1, w2}
    Cancellers = {c1}
    Matches = {m1}
    NoMatch = NoMatch
    PlayersPerMatch = 2
    Watched = {t1}
    Faults = {"allocate", "sign"}
SPECIFICATION FairSpec
CHECK_DEADLOCK FALSE
INVARIANTS CancelEnds NoStrandedTicket
PROPERTIES ClaimResolves QueueDrains WatchCloses
