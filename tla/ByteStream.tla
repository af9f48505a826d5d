----------------------------- MODULE ByteStream ------------------------------
(***************************************************************************)
(* What a file that follows a job's output promises: it grows by the next  *)
(* bytes of the output, in order and once.  Bytes that were lost are       *)
(* skipped and counted.  A crash takes the file back to an earlier length. *)
(***************************************************************************)
EXTENDS Naturals, Sequences, SequencesExt

VARIABLES
    out,     \* the bytes in the file, each its position in the output
    pos,     \* the position the file stands at
    lost,    \* how many bytes were skipped
    total    \* how many bytes the job has written

vars == <<out, pos, lost, total>>

Init == out = <<>> /\ pos = 0 /\ lost = 0 /\ total = 0

Write == total' > total /\ UNCHANGED <<out, pos, lost>>

Deliver == \E n \in 1..(total - pos) :
    /\ out' = out \o [i \in 1..n |-> pos + i - 1]
    /\ pos' = pos + n
    /\ UNCHANGED <<lost, total>>

Skip ==
    /\ pos' \in (pos + 1)..total
    /\ lost' = lost + (pos' - pos)
    /\ UNCHANGED <<out, total>>

TakeBack ==
    /\ IsPrefix(out', out) /\ lost' <= lost
    /\ pos' = Len(out') + lost'
    /\ UNCHANGED total

Next == Write \/ Deliver \/ Skip \/ TakeBack

Spec == Init /\ [][Next]_vars

=============================================================================
