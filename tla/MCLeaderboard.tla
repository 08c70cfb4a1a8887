--------------------------- MODULE MCLeaderboard ----------------------------
(* Small instances of Leaderboard for TLC.                                  *)
EXTENDS Leaderboard, TLC

MCSymmetry == Permutations(Calls) \cup Permutations(Players)
=============================================================================
