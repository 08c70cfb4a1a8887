----------------------------- MODULE MCMatcher -----------------------------
(* Small instances of Matcher for TLC.                                     *)
EXTENDS Matcher

\* Solo players told apart by rating and region, a party of two, a member who
\* disagrees about the roster, and a party that is refused for its size.
MixedRequests ==
    {[player |-> 5, members |-> {}, rating |-> r, region |-> g] :
        r \in {0, 120, NoRating}, g \in {"eu", "us"}}
    \cup
    {[player |-> p[1], members |-> p[2], rating |-> 0, region |-> "eu"] :
        p \in {<<1, {2}>>, <<2, {1}>>, <<2, {1, 3}>>, <<4, {1, 2, 3}>>}}
=============================================================================
