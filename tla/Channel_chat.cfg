SPECIFICATION FairSpec
CONSTANTS
    Calls = {c1, c2}
    Players = {alice, bob}
    Owner = alice
    Senders = {bob}
    Recipients = {carol}
    Subs = {s1}
    g = g
    MaxMessages = 2
    StreamMaxLen = 1
    ReadCount = 2
    BufCap = 1
    DefaultLimit = 1
    MaxLimit = 2
INVARIANTS OnlyCommittedPushed GroupWhole PagesContinue DeliveredInOrder
PROPERTIES TailReachesEnd
CHECK_DEADLOCK FALSE
