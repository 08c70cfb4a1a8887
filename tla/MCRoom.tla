------------------------------- MODULE MCRoom -------------------------------
(* Small instances of Room for TLC.                                        *)
EXTENDS Room, TLC

CONSTANTS h1, h2, h3, p1, p2, m1

\* Two players; h3 is a second session of p1.
Sessions3 == h1 :> p1 @@ h2 :> p2 @@ h3 :> p1
Sessions2 == h1 :> p1 @@ h2 :> p2
SameMatch == [h \in Handlers |-> m1]

\* h1 and h3 are interchangeable: sessions of one player in one match.
Symmetry == Permutations(Instances) \cup Permutations({h1, h3})
=============================================================================
