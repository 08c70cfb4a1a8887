--------------------------- MODULE MCMatchmaking ---------------------------
(* Small instances of Matchmaking for TLC.                                 *)
EXTENDS Matchmaking, TLC

CONSTANTS t1, t2, t3, t4, p1, p2, p3

\* Two solo players, one ticket each.
SoloPlayers2 == t1 :> p1 @@ t2 :> p2
SoloParty == [t \in Tickets |-> {PlayerOf[t]}]

\* p1 queued twice (a CreateTicket retried after a lost reply).
TwiceQueued == t1 :> p1 @@ t2 :> p1 @@ t3 :> p2 @@ t4 :> p3

Symmetry == Permutations(Workers) \cup Permutations(Cancellers) \cup Permutations(Matches)
=============================================================================
