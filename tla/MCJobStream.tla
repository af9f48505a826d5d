----------------------------- MODULE MCJobStream -----------------------------
(* A job of three bytes, windows of two, one reconnection. *)
EXTENDS JobStream
==============================================================================
