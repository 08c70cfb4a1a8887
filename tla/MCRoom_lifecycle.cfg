\* Three sessions, two of one player, race to create one match and come and go; no event is
\* dropped, plugins and ticks fail, the daemon shuts down.
CONSTANTS
    h1 = h1  h2 = h2  h3 = h3  p1 = p1  p2 = p2  m1 = m1
    Handlers = {h1, h2, h3}
    Players = {p1, p2}
    PlayerOf <- Sessions3
    MatchIDs = {m1}
    MatchOf <- SameMatch
    Instances = {i1, i2, i3}
    Slow = {}
    None = None
    EventCap = 6
    InputCap = 0
    Faults = {"create", "init", "tick", "shutdown"}
SPECIFICATION Spec
SYMMETRY Symmetry
CHECK_DEADLOCK FALSE
INVARIANTS SingleInstance PluginClosedOnce SlotOwned ViewExact
