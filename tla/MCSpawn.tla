------------------------------ MODULE MCSpawn -------------------------------
(***************************************************************************)
(* Instances of Spawn for TLC: one start of one service.                   *)
(***************************************************************************)
EXTENDS Spawn
=============================================================================
