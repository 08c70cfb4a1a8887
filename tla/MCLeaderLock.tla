---------------------------- MODULE MCLeaderLock ----------------------------
(***************************************************************************)
(* The instance of LeaderLock that TLC checks; its constants are in the    *)
(* configuration.  No symmetry: the run has temporal properties.           *)
(***************************************************************************)
EXTENDS LeaderLock
=============================================================================
