------------------------------ MODULE MCRestore ------------------------------
(* A small workspace for WorkspaceRestore. *)
EXTENDS WorkspaceRestore, TLC

Symmetry == Permutations(Bytes \ {Absent})

=============================================================================
