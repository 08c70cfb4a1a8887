\* No event is dropped; the manager is closed while matches are created and played.
CONSTANTS
    h1 = h1  h2 = h2  h3 = h3  p1 = p1  p2 = p2  m1 = m1
    Handlers = {h1, h2}
    Players = {p1, p2}
    PlayerOf <- Sessions2
    MatchIDs = {m1}
    MatchOf <- SameMatch
    Instances = {i1, i2}
    Slow = {h2}
    None = None
    EventCap = 4
    InputCap = 1
    Faults = {"init", "shutdown"}
SPECIFICATION FairSpec
CHECK_DEADLOCK FALSE
INVARIANT ActionsAfterJoined
PROPERTIES ShutdownEnds
