---------------------------- MODULE AtomicRestore ----------------------------
(***************************************************************************)
(* What a restore promises to whoever looks at the workspace while no      *)
(* restore is open: the commit chain and the conversation moved together   *)
(* or not at all, one operation at a time, and each operation is decided   *)
(* once.                                                                   *)
(***************************************************************************)
EXTENDS Naturals

VARIABLES
    open,          \* the operation under way, 0 when there is none
    chain,         \* the operations whose commit is on the chain
    conversation   \* the operations whose marker is in the conversation

Init == open = 0 /\ chain = {} /\ conversation = {}

\* A new operation is opened when none is.
Open ==
    /\ open = 0
    /\ open' \in Nat \ ({0} \cup chain)
    /\ UNCHANGED <<chain, conversation>>

\* It takes effect, on both sides in one step ...
Commit ==
    /\ open # 0
    /\ chain' = chain \cup {open}
    /\ conversation' = conversation \cup {open}
    /\ open' = 0

\* ... or on neither.
Abort == open # 0 /\ open' = 0 /\ UNCHANGED <<chain, conversation>>

Next == Open \/ Commit \/ Abort

Spec == Init /\ [][Next]_<<open, chain, conversation>>

=============================================================================
