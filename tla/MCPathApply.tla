----------------------------- MODULE MCPathApply -----------------------------
(* PathApply with symmetric contents. *)
EXTENDS PathApply, TLC

Symmetry == Permutations(Bytes)

=============================================================================
