\* Solo tickets of different ratings and regions, and parties, over three seconds; matches of two.
CONSTANTS
    PlayersPerMatch = 2
    BaseRatingWindow = 100
    RatingWindowGrowthPerSec = 50
    RegionRelaxAfter = 2
    MaxPartySize = 3
    NoRating = NoRating
    NoRegion = NoRegion
    Requests <- MixedRequests
    MaxTickets = 3
    MaxTime = 3
SPECIFICATION Spec
CHECK_DEADLOCK FALSE
INVARIANTS SelectExact OldestPreferred
PROPERTIES NeverWithdrawn
