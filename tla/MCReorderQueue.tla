---------------------------- MODULE MCReorderQueue ----------------------------
(* Two input sessions and a queue that four inputs fill. *)
EXTENDS ReorderQueue
===============================================================================
