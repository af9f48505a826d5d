----------------------------- MODULE ReorderQueue -----------------------------
(***************************************************************************)
(* QuickReorderQueue, which puts the keystrokes of a remote job back in    *)
(* order.  Commands are handled in goroutines of their own, so that inputs *)
(* numbered 1, 2, ... by a session reach QueueItem in any order; one that  *)
(* is early is buffered until its turn comes or it has waited for the      *)
(* timeout.  Every method holds the queue's lock and is one action.        *)
(*                                                                         *)
(* Time is the order of arrivals: a timer set for an item runs when that   *)
(* item, and so every earlier one, has waited long enough.                 *)
(***************************************************************************)
EXTENDS Naturals, Sequences, FiniteSets, SequencesExt

CONSTANTS
    Sessions,      \* input sessions, NoSession among them
    NoSession,     \* the empty session id
    MaxSeq,        \* bound: the largest number of an input
    Capacity,      \* JobInputQueueSize
    MaxItems       \* bound: inputs sent

ASSUME QueueAssumption ==
    /\ NoSession \in Sessions
    /\ MaxSeq \in Nat /\ Capacity \in Nat /\ MaxItems \in Nat

VARIABLES
    order,      \* sessionOrder: sessions as they were first seen
    next,       \* nextSeqNum
    buffer,     \* items that came early
    timer,      \* the item whose deadline q.timer is set for, or 0
    callbacks,  \* timers that were not stopped in time, the present one included
    emitted,    \* everything ever put into outCh
    taken,      \* how much of it processInputQueue took
    closed,
    arrived,    \* inputs sent so far
    accepted,   \* history: items QueueItem did not refuse
    behind        \* history: items that were not held back: their turn was over when they came, or they have none

qvars == <<order, next, buffer, timer, callbacks, emitted, taken, closed, arrived, accepted, behind>>

Item == [session : Sessions, seq : 0..MaxSeq, at : 1..MaxItems]

QInit ==
    /\ order = <<>> /\ next = 1 /\ buffer = {} /\ timer = 0 /\ callbacks = {}
    /\ emitted = <<>> /\ taken = 0 /\ closed = FALSE
    /\ arrived = 0 /\ accepted = {} /\ behind = {}

\* sessionOrder of a session nobody saw is 0.
Age(s) == IF Contains(order, s) THEN CHOOSE i \in DOMAIN order : order[i] = s ELSE 0

\* cmpSessionSeq
Before(a, b) ==
    \/ Age(a.session) < Age(b.session)
    \/ Age(a.session) = Age(b.session) /\ a.seq < b.seq
    \/ Age(a.session) = Age(b.session) /\ a.seq = b.seq /\ a.at < b.at

\* sortBuffer
Sorted(items) ==
    CHOOSE s \in SetToSeqs(items) : \A i, j \in DOMAIN s : i < j => Before(s[i], s[j])

\* Mutant: only what is in the channel counts.
Full_ChannelOnly == Len(emitted) - taken >= Capacity

Full == Cardinality(buffer) + (Len(emitted) - taken) >= Capacity

\* Mutant: a new session starts without the last one's buffer being written out.
Flushed_Dropped(items) == <<>>

Flushed(items) == Sorted(items)

\* Mutant: the numbers of a new session start at 0, like Go's zero value.
NextOf_Zero(item) == IF item.session # NoSession /\ ~Contains(order, item.session) THEN 0 ELSE next

\* A session seen for the first time: what the last one left is written out before it.
NewSession(s) == s # NoSession /\ ~Contains(order, s)
Current(item) == IF NewSession(item.session) THEN Append(order, item.session) ELSE order
NextOf(item) == IF NewSession(item.session) THEN 1 ELSE next
BufferOf(item) == IF NewSession(item.session) THEN {} ELSE buffer

\* Items that follow each other from the front of the sorted buffer.
Run(items, from) ==
    LET sorted == Sorted(items)
        InTurn(n) == \A i \in 1..n : sorted[i].seq = from + i - 1 /\ sorted[i].session = Last(order)
    IN  SubSeq(sorted, 1, CHOOSE n \in 0..Len(sorted) :
            InTurn(n) /\ (n = Len(sorted) \/ ~InTurn(n + 1)))

\* Stop comes too late for a timer whose callback already waits for the lock.
StopTimer(stop) ==
    IF stop THEN timer' = 0 /\ callbacks' \in {callbacks, callbacks \ {timer}}
    ELSE UNCHANGED <<timer, callbacks>>

Refuse == closed \/ Full

\* Items of an earlier session, with an earlier number or with none are not held back.
Bypasses(item) ==
    \/ item.seq = 0 \/ item.session = NoSession
    \/ item.session # Last(Current(item)) \/ item.seq < NextOf(item)

\* QueueItem; the caller drops an input that is refused.
QueueItem(s, n) ==
    LET item == [session |-> s, seq |-> n, at |-> arrived + 1]
        flushed == IF NewSession(s) THEN Flushed(buffer) ELSE <<>>
        rest == BufferOf(item)
        run == Run(rest, NextOf(item) + 1)
    IN  /\ arrived < MaxItems
        /\ arrived' = arrived + 1
        /\ IF Refuse
           THEN UNCHANGED <<order, next, buffer, timer, callbacks, emitted, accepted, behind>>
           ELSE /\ accepted' = accepted \cup {item}
                /\ order' = Current(item)
                /\ IF Bypasses(item)
                   THEN /\ emitted' = emitted \o flushed \o <<item>>
                        /\ behind' = behind \cup {item}
                        /\ next' = NextOf(item) /\ buffer' = rest
                        /\ StopTimer(flushed # <<>>)
                   ELSE IF n = NextOf(item)
                   THEN /\ emitted' = emitted \o flushed \o <<item>> \o run
                        /\ next' = NextOf(item) + 1 + Len(run)
                        /\ buffer' = rest \ ToSet(run)
                        /\ StopTimer(flushed # <<>>)
                        /\ UNCHANGED behind
                   ELSE /\ emitted' = emitted \o flushed
                        /\ next' = NextOf(item)
                        /\ buffer' = rest \cup {item}
                        /\ IF flushed # <<>> \/ timer = 0
                           THEN /\ timer' = item.at
                                /\ \E gone \in {{}, {timer}} : callbacks' = (callbacks \ gone) \cup {item.at}
                           ELSE UNCHANGED <<timer, callbacks>>
                        /\ UNCHANGED behind
        /\ UNCHANGED <<taken, closed>>

\* Mutant: what is left in the buffer gets no timer of its own.
Rearmed_Not(rest) == 0

\* The next timer is for the oldest item left.
Rearmed(rest) == IF rest = {} THEN 0 ELSE (CHOOSE x \in rest : \A y \in rest : x.at <= y.at).at

\* Mutant: the next number is the one that was waited for.
NextAfter_Kept(out) == next

\* The gap that was waited for is given up.
NextAfter(out) ==
    LET seqs == {x.seq + 1 : x \in {y \in ToSet(out) : y.session = Last(order)}} \cup {next}
    IN  CHOOSE m \in seqs : \A k \in seqs : k <= m

\* onTimeout: everything up to the last item, in order, that has waited long enough.
OnTimeout(c) ==
    /\ c \in callbacks
    /\ IF closed
       THEN callbacks' = callbacks \ {c} /\ UNCHANGED <<timer, buffer, emitted, next>>
       ELSE \E until \in c..arrived :
            LET sorted == Sorted(buffer)
                old == {i \in DOMAIN sorted : sorted[i].at <= until}
                out == IF old = {} THEN <<>> ELSE SubSeq(sorted, 1, CHOOSE i \in old : \A j \in old : j <= i)
                rest == buffer \ ToSet(out)
            IN  /\ emitted' = emitted \o out
                /\ next' = NextAfter(out)
                /\ buffer' = rest
                /\ timer' = Rearmed(rest)
                /\ callbacks' = (callbacks \ {c}) \cup ({Rearmed(rest)} \ {0})
    /\ UNCHANGED <<order, taken, closed, arrived, accepted, behind>>

\* processInputQueue
TakeInput ==
    /\ taken < Len(emitted)
    /\ taken' = taken + 1
    /\ UNCHANGED <<order, next, buffer, timer, callbacks, emitted, closed, arrived, accepted, behind>>

CloseQueue ==
    /\ ~closed
    /\ closed' = TRUE
    /\ timer' = 0 /\ callbacks' \in {callbacks, callbacks \ {timer}}
    /\ UNCHANGED <<order, next, buffer, emitted, taken, arrived, accepted, behind>>

Timeouts == \E c \in callbacks : OnTimeout(c)

\* An input without a session and one without a number are treated alike.
QNext ==
    \/ \E s \in Sessions, n \in 0..MaxSeq : (s = NoSession) = (n = 0) /\ QueueItem(s, n)
    \/ Timeouts
    \/ TakeInput \/ CloseQueue

\* Timers run and the job takes its input; nobody has to send any, or to close the queue.
QSpec ==
    /\ QInit /\ [][QNext]_qvars
    /\ WF_qvars(Timeouts) /\ WF_qvars(TakeInput)

-----------------------------------------------------------------------------
(* Properties *)

\* Type invariant; the items in the buffer are waited for by a timer.
QTypeOK ==
    /\ order \in Seq(Sessions \ {NoSession}) /\ next \in Nat \ {0}
    /\ buffer \subseteq Item /\ accepted \subseteq Item /\ behind \subseteq accepted
    /\ emitted \in Seq(Item) /\ taken \in 0..Len(emitted)
    /\ arrived \in 0..MaxItems
    /\ timer \in 0..arrived /\ callbacks \subseteq 1..arrived
    /\ closed \in BOOLEAN

\* No method blocks on the channel with the lock held, where processBuffer, a new session or a
\* timer writes many items at once: what is held back counts against the capacity too.
NeverBlocks == Cardinality(buffer) + (Len(emitted) - taken) <= Capacity

\* Every accepted input is either held or handed on, never both and never twice.
ExactlyOnce ==
    /\ accepted = ToSet(emitted) \cup buffer
    /\ ToSet(emitted) \cap buffer = {}
    /\ Len(emitted) = Cardinality(ToSet(emitted))

\* Inputs of a session, and sessions, are handed on in order; an exception came when a later one
\* had gone, or repeats a number.
InOrderUnlessLate ==
    \A i, j \in DOMAIN emitted :
        i < j /\ Before(emitted[j], emitted[i]) =>
            emitted[j] \in behind \/ emitted[i] \in behind
            \/ \E k \in 1..(j - 1) : emitted[k].session = emitted[j].session /\ emitted[k].seq = emitted[j].seq

\* Nothing is held for ever: an input whose predecessor was lost goes on after a timeout.
EventuallyHandedOn == <>[](buffer = {} \/ closed)

=============================================================================
