SPECIFICATION FairSpec
CONSTANTS
    Calls = {c1, c2}
    Players = {alice, bob}
INVARIANT OneRelation
PROPERTIES FriendshipConsumesRequest CallsReturn
CHECK_DEADLOCK FALSE
