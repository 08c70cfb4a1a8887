\* Any command may fail, with or without taking effect, and ticket keys expire.
CONSTANTS
    t1 = t1  t2 = t2  t3 = t3  t4 = t4
    p1 = p1  p2 = p2  p3 = p3
    Tickets = {t1, t2}
    Players = {p1, p2}
    PlayerOf <- SoloPlayers2
    Party <- SoloParty
    Workers = {w1}
    Cancellers = {c1}
    Matches = {m1}
    NoMatch = NoMatch
    PlayersPerMatch = 2
    Watched = {}
    Faults = {"enqueue", "publish", "cancel", "claim", "allocate", "sign", "persist", "abort", "expire"}
SPECIFICATION Spec
CHECK_DEADLOCK FALSE
INVARIANT QueuedFirst
PROPERTY ImplementsQueue
