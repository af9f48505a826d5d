--------------------------- MODULE MCTurnCheckpoint ---------------------------
(* Two sessions of one workspace. *)
EXTENDS TurnCheckpoint
=============================================================================
