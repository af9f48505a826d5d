-------------------------- MODULE AgentSessionProofs --------------------------
(***************************************************************************)
(* Proofs about AgentSession, for any number of sends, aborts and          *)
(* failures, whether sends come one by one or not.                         *)
(*                                                                         *)
(* The checked properties rest on where a message is: a message in the     *)
(* queue, reported as cleared or in flight has left the hands of its send, *)
(* the run is the one of runPromise, and what it took from the queue is in *)
(* inFlightFollowUpDrain until it is recorded, put back or dropped.  The   *)
(* answer of a send rests on which promises wait for an event: unless      *)
(* something odd happened, only that of the message the run is about.      *)
(***************************************************************************)
EXTENDS AgentSession, QueueLemmas, FiniteSetTheorems

Promise == [state : {"none", "open", "resolved", "rejected"}, answer : 0..MaxSends,
            prepared : BOOLEAN, awaiting : BOOLEAN, committed : BOOLEAN, lead : 0..MaxSends]

\* The send has not become a run, or is not one any more.
Before == {"none", "queueing", "gate", "refused"}
Running == Stages \ (Before \cup {"done"})

\* The run is about a message it took from the queue, and inFlightFollowUpDrain holds it.
Drained == {"followUp", "activating", "activated", "preparedNext"}

\* Neither has anything happened that leaves a promise or an event with the wrong one.
Straight == odd \subseteq {"drained"}

VarsInv ==
    /\ running \in BOOLEAN /\ finalizing \in BOOLEAN
    /\ pending \in Seq(Sends) /\ followUps \in Seq(Sends)
    /\ send \in [Sends -> Promise]
    /\ at \in [Sends -> Stages] /\ msg \in [Sends -> Sends]
    /\ phase \in {"idle", "turn"}
    /\ drain \in [of : 0..MaxSends, cancelled : BOOLEAN]
    /\ turn \in 0..MaxSends /\ controller \in 0..MaxSends /\ runPromise \in 0..MaxSends /\ lead \in 0..MaxSends
    /\ abort \in [waiting : BOOLEAN, for : 0..MaxSends, during : SUBSET Sends]
    /\ aborted \subseteq Sends /\ recorded \subseteq Sends /\ cleared \subseteq Sends
    /\ odd \subseteq Odd
    /\ count \in [aborts : Nat, failures : Nat]

\* The run that is going is that of runPromise; it has its controller from its first step on.
RunInv ==
    /\ \A r \in Sends : at[r] \in Running <=> r = runPromise
    /\ phase = "idle" <=> runPromise = 0 /\ ~finalizing
    /\ finalizing => runPromise = 0
    /\ phase = "idle" => turn = 0
    /\ \A r \in Sends : at[r] \in Running \ {"start", "promote"} => controller = r

\* abort() waits for the run it found, which stays the last one until it has returned.
AbortInv ==
    abort.waiting =>
        /\ abort.during = {abort.for} \ {0}
        /\ \/ runPromise = abort.for
           \/ runPromise = 0 /\ at[abort.for] = "done"

\* Where a message may be: in the queue, cleared, in the session.
QueueInv ==
    /\ Once(followUps)
    /\ \A m \in ToSet(followUps) : at[m] = "done" /\ m \notin cleared /\ (m \notin recorded \/ finalizing)
    /\ \A m \in cleared : at[m] = "done"
    /\ \A m \in recorded : at[m] \notin Before

\* What run r is about.
RunOf(r) ==
    /\ at[r] \in Before \cup {"start"} => msg[r] = r
    /\ at[r] \in Running => msg[r] = r \/ at[msg[r]] = "done"
    /\ at[r] \in Running \ {"end"} => msg[r] \notin ToSet(followUps)
    /\ at[r] \in Drained => drain.of = msg[r]
    /\ at[r] \in Drained \cup {"promoting"} => at[msg[r]] = "done"
    /\ at[r] \in (Drained \cup {"promoting"}) \ {"preparedNext"} => msg[r] \notin recorded
    /\ at[r] \in {"prepared", "preparedNext"} => msg[r] \in recorded
    /\ at[r] \in {"prepare", "promoting"} => msg[r] \notin cleared
    /\ at[r] = "user" => ~send[msg[r]].prepared \/ msg[r] \in recorded
    /\ at[r] \in Drained \ {"followUp"} /\ r \in aborted => drain.cancelled

\* inFlightFollowUpDrain: what it holds is nowhere else, and cleared only by the abort() that
\* is waiting for the run.
DrainInv ==
    /\ drain.of # 0 =>
        /\ runPromise # 0 /\ at[runPromise] \in Drained \cup {"end"}
        /\ msg[runPromise] = drain.of /\ at[drain.of] = "done" /\ drain.of \notin ToSet(followUps)
        /\ drain.of \in cleared => drain.cancelled
    /\ drain.cancelled => drain.of # 0 /\ runPromise \in aborted /\ abort.waiting /\ abort.for = runPromise

\* Promises: those that are open are pending.
PromiseInv ==
    /\ Once(pending)
    /\ \A m \in ToSet(pending) : at[m] # "none"
    /\ \A m \in Sends : Open(m) => m \in ToSet(pending) /\ ~send[m].committed

\* Where a send may wait for an event.
AwaitsHere(p) ==
    \/ at[p] = "gate"
    \/ abort.waiting /\ abort.for # 0 /\ at[abort.for] \in {"end", "done"}
    \/ runPromise # 0 /\ msg[runPromise] = p /\ at[runPromise] \in {"start", "prepare", "activated", "user"}

\* Answers.
AnswerInv ==
    /\ \A m \in Sends : send[m].state = "resolved" /\ Straight => send[m].answer = m
    /\ Straight => \A m \in Sends : at[m] = "gate" =>
        /\ running /\ runPromise = 0 /\ Open(m)
        /\ \A k \in Sends : at[k] = "gate" => k = m
    /\ Straight /\ runPromise # 0 => running
    /\ Straight => \A p \in Sends : Awaits(p) => AwaitsHere(p)

IInv ==
    /\ VarsInv /\ RunInv /\ AbortInv /\ QueueInv /\ DrainInv /\ PromiseInv /\ AnswerInv
    /\ \A r \in Sends : RunOf(r)

USE DEF Stages, Before, Running, Drained

-----------------------------------------------------------------------------
(* A step of the run, seen from its parts *)

\* What the other sends keep.
Elsewhere(r) == \A x \in Sends \ {r} : at'[x] = at[x] /\ msg'[x] = msg[x]

\* What is known of a run that makes a step.
LEMMA TheRun ==
    ASSUME IInv, NEW r \in Sends, at[r] \in Running
    PROVE  /\ runPromise = r /\ r # 0 /\ phase = "turn" /\ ~finalizing /\ RunOf(r)
           /\ \A x \in Sends : x # r => at[x] \notin Running
           /\ abort.waiting => abort.for = r /\ abort.during = {r}
           /\ msg[r] \in Sends /\ msg[r] # 0 /\ VarsInv
           /\ at[r] \notin {"start", "promote"} => controller = r
<1>1. RunInv /\ AbortInv /\ VarsInv /\ RunOf(r)
  BY DEF IInv
<1>2. runPromise = r /\ \A x \in Sends : x # r => at[x] \notin Running
  BY <1>1 DEF RunInv
<1>3. r # 0 /\ msg[r] \in Sends /\ msg[r] # 0
  BY <1>1 DEF VarsInv, Sends
<1> QED BY <1>1, <1>2, <1>3, SMTT(30) DEF RunInv, AbortInv, VarsInv

\* The run goes on to another stage.
LEMMA RunGoes ==
    ASSUME IInv, NEW r \in Sends, at[r] \in Running, NEW stage \in Running, Go(r, stage),
           UNCHANGED <<phase, runPromise, finalizing, abort>>,
           stage \notin {"start", "promote"} => controller' = r
    PROVE  /\ at' \in [Sends -> Stages] /\ at'[r] = stage /\ \A x \in Sends \ {r} : at'[x] = at[x]
           /\ RunInv' /\ AbortInv'
<1>1. /\ at' \in [Sends -> Stages] /\ at'[r] = stage /\ \A x \in Sends \ {r} : at'[x] = at[x]
  BY DEF IInv, VarsInv, Go
<1>2. RunInv /\ AbortInv /\ abort' = abort /\ phase' = phase /\ runPromise' = runPromise /\ finalizing' = finalizing
  BY DEF IInv
<1>3. RunInv'
  BY <1>1, <1>2, TheRun DEF RunInv
<1>4. AbortInv'
  BY <1>1, <1>2, TheRun DEF AbortInv
<1> QED BY <1>1, <1>3, <1>4

\* The run is over, or its user turn could not be closed and the harness is stuck.
LEMMA RunEnds ==
    ASSUME IInv, NEW r \in Sends, at[r] \in Running, at' = [at EXCEPT ![r] = "done"], runPromise' = 0,
           UNCHANGED abort,
           \/ phase' = "idle" /\ turn' = 0 /\ UNCHANGED finalizing
           \/ UNCHANGED phase /\ finalizing' = TRUE
    PROVE  /\ at' \in [Sends -> Stages] /\ at'[r] = "done" /\ \A x \in Sends \ {r} : at'[x] = at[x]
           /\ RunInv' /\ AbortInv'
<1>1. /\ at' \in [Sends -> Stages] /\ at'[r] = "done" /\ \A x \in Sends \ {r} : at'[x] = at[x]
  BY DEF IInv, VarsInv
<1>2. RunInv /\ AbortInv /\ abort' = abort
  BY DEF IInv
<1>3. RunInv'
  BY <1>1, <1>2, TheRun DEF RunInv, Sends
<1>4. AbortInv'
  BY <1>1, <1>2, TheRun DEF AbortInv
<1> QED BY <1>1, <1>3, <1>4

\* Then nothing is claimed of it.
LEMMA OverOf ==
    ASSUME NEW r \in Sends, at'[r] = "done"
    PROVE  RunOf(r)'
BY DEF RunOf

\* Nor of the others.
LEMMA OthersOf ==
    ASSUME IInv, NEW r \in Sends, at[r] \in Running, Elsewhere(r)
    PROVE  \A x \in Sends \ {r} : RunOf(x)'
<1> SUFFICES ASSUME NEW x \in Sends \ {r} PROVE RunOf(x)'
  OBVIOUS
<1>1. at[x] \notin Running /\ at'[x] = at[x] /\ msg'[x] = msg[x] /\ RunOf(x)
  BY TheRun DEF Elsewhere, IInv
<1> QED BY <1>1 DEF RunOf

\* The queue stays as it is; what the run is about may be recorded.
LEMMA QueueStays ==
    ASSUME IInv, NEW r \in Sends, at[r] \in Running, at'[r] \notin Before,
           \A x \in Sends \ {r} : at'[x] = at[x],
           UNCHANGED <<followUps, cleared>>,
           recorded' = recorded \/ (recorded' = recorded \cup {msg[r]} /\ at[r] # "end")
    PROVE  QueueInv' /\ recorded' \subseteq Sends
<1>1. QueueInv /\ followUps' = followUps /\ cleared' = cleared /\ msg[r] \in Sends /\ ~finalizing
      /\ recorded \subseteq Sends /\ cleared \subseteq Sends /\ ToSet(followUps) \subseteq Sends
  BY TheRun, ElementOfSeq, LenProperties DEF IInv, VarsInv, ToSet
<1>2. \A m \in recorded' \ recorded : m = msg[r] /\ m \notin ToSet(followUps) /\ at'[m] \notin Before
  <2>1. RunOf(r)
    BY DEF IInv
  <2> QED BY <2>1, <1>1 DEF RunOf
<1>3. \A m \in Sends : at[m] \notin Before => at'[m] \notin Before
  OBVIOUS
<1>4. \A m \in Sends : at[m] = "done" => at'[m] = "done"
  OBVIOUS
<1> QED BY <1>1, <1>2, <1>3, <1>4 DEF QueueInv

\* The run puts what it is about back.
LEMMA QueuePutBack ==
    ASSUME IInv, NEW r \in Sends, at[r] \in Running \ {"end"}, at'[r] \notin Before,
           \A x \in Sends \ {r} : at'[x] = at[x],
           followUps' = <<msg[r]>> \o followUps, UNCHANGED <<cleared, recorded>>,
           at[msg[r]] = "done", msg[r] \notin cleared, msg[r] \notin recorded \/ finalizing'
    PROVE  QueueInv' /\ followUps' \in Seq(Sends)
<1>1. /\ QueueInv /\ cleared' = cleared /\ recorded' = recorded /\ msg[r] \in Sends /\ ~finalizing
      /\ recorded \subseteq Sends /\ cleared \subseteq Sends /\ ToSet(followUps) \subseteq Sends /\ RunOf(r)
  BY TheRun, ElementOfSeq, LenProperties DEF IInv, VarsInv, ToSet
<1>2. /\ followUps' \in Seq(Sends) /\ Once(followUps')
      /\ ToSet(followUps') = ToSet(followUps) \cup {msg[r]}
  <2>1. followUps \in Seq(Sends) /\ Once(followUps) /\ msg[r] \notin ToSet(followUps)
    BY <1>1 DEF IInv, VarsInv, QueueInv, RunOf
  <2> QED BY <1>1, <2>1, PutOnce
<1>3. \A m \in Sends : at[m] = "done" => at'[m] = "done"
  OBVIOUS
<1>4. \A m \in recorded : at'[m] \notin Before
  BY <1>1 DEF QueueInv
<1> QED BY <1>1, <1>2, <1>3, <1>4 DEF QueueInv

\* The run takes the first of the queue.
LEMMA QueueTaken ==
    ASSUME IInv, NEW r \in Sends, at[r] \in Running, at'[r] \notin Before,
           \A x \in Sends \ {r} : at'[x] = at[x],
           followUps # <<>>, followUps' = Tail(followUps), UNCHANGED <<cleared, recorded>>
    PROVE  /\ QueueInv' /\ followUps' \in Seq(Sends)
           /\ Head(followUps) \in Sends /\ at[Head(followUps)] = "done"
           /\ Head(followUps) \notin recorded \cup cleared \cup ToSet(followUps')
<1>1. /\ QueueInv /\ cleared' = cleared /\ recorded' = recorded /\ ~finalizing
      /\ recorded \subseteq Sends /\ cleared \subseteq Sends /\ ToSet(followUps) \subseteq Sends
  BY TheRun, ElementOfSeq, LenProperties DEF IInv, VarsInv, ToSet
<1>2. /\ followUps' \in Seq(Sends) /\ Once(followUps')
      /\ ToSet(followUps') = ToSet(followUps) \ {Head(followUps)} /\ Head(followUps) \in ToSet(followUps)
  BY <1>1, TakeOnce DEF IInv, VarsInv, QueueInv
<1>3. \A m \in Sends : at[m] = "done" => at'[m] = "done"
  OBVIOUS
<1>4. \A m \in recorded : at'[m] \notin Before
  BY <1>1 DEF QueueInv
<1> QED BY <1>1, <1>2, <1>3, <1>4 DEF QueueInv

\* Nothing is in flight between the stages that take a message and those that settle it.
LEMMA NothingDrained ==
    ASSUME IInv, NEW r \in Sends, at[r] \in Running \ (Drained \cup {"end"})
    PROVE  drain = NoDrain
<1>1. drain.of = 0 /\ ~drain.cancelled
  BY TheRun DEF IInv, DrainInv
<1>2. drain \in [of : 0..MaxSends, cancelled : BOOLEAN]
  BY DEF IInv, VarsInv
<1> QED BY <1>1, <1>2 DEF NoDrain

LEMMA DrainOver ==
    ASSUME IInv, drain' = NoDrain
    PROVE  DrainInv' /\ drain' \in [of : 0..MaxSends, cancelled : BOOLEAN]
<1>1. MaxSends \in Nat
  BY SessionAssumption
<1> QED BY <1>1 DEF DrainInv, NoDrain

\* What is in flight stays there.
LEMMA DrainStays ==
    ASSUME IInv, NEW r \in Sends, at[r] \in Running, at'[r] \in Drained \cup {"end"}, Elsewhere(r),
           UNCHANGED <<msg, drain, followUps, cleared, runPromise, abort>>, aborted \subseteq aborted'
    PROVE  DrainInv' /\ drain' \in [of : 0..MaxSends, cancelled : BOOLEAN]
<1>1. DrainInv /\ drain \in [of : 0..MaxSends, cancelled : BOOLEAN]
  BY DEF IInv, VarsInv
<1>2. runPromise = r
  BY TheRun
<1>3. drain.of # 0 => drain.of \in Sends /\ at'[drain.of] = "done"
  BY <1>1 DEF DrainInv, Elsewhere, Sends
<1> QED BY <1>1, <1>2, <1>3 DEF DrainInv

-----------------------------------------------------------------------------
(* Promises and answers *)

\* What a step does to a promise, if it does not leave it as it is: it is answered, rejected or
\* marked; no promise is opened, and how a message was sent does not change.
Promises ==
    /\ pending' \in Seq(Sends) /\ send' \in [Sends -> Promise]
    /\ Once(pending') /\ ToSet(pending') \subseteq ToSet(pending)
    /\ \A x \in Sends :
        /\ send'[x].prepared = send[x].prepared
        /\ send'[x].state = "open" => Open(x) /\ x \in ToSet(pending') /\ ~send'[x].committed

\* It goes on waiting for an event only if it did.
Waits == \A x \in Sends : Awaits(x)' => Awaits(x)

\* The answers are those of before, or right.
Answers ==
    \A x \in Sends : send'[x].state = "resolved" =>
        (send[x].state = "resolved" /\ send'[x].answer = send[x].answer) \/ send'[x].answer = x

LEMMA PromisesStay ==
    ASSUME IInv, UNCHANGED <<pending, send>>
    PROVE  Promises /\ Waits /\ Answers
<1>1. PromiseInv /\ VarsInv
  BY DEF IInv
<1> QED BY <1>1 DEF Promises, Waits, Answers, Awaits, Open, PromiseInv, VarsInv

LEMMA Rejected ==
    ASSUME IInv, NEW m \in Sends, RejectPending(m)
    PROVE  /\ Promises /\ Waits /\ Answers
           /\ ~Open(m)' /\ \A x \in Sends \ {m} : send'[x] = send[x]
<1>1. PromiseInv /\ VarsInv
  BY DEF IInv
<1>2. pending' \in Seq(Sends) /\ Once(pending') /\ ToSet(pending') = ToSet(pending) \ {m}
  BY <1>1, RemoveOnce DEF RejectPending, PromiseInv, VarsInv
<1>3. Open(m) => ~send[m].committed /\ send' = [send EXCEPT ![m].state = "rejected"]
  BY <1>1 DEF RejectPending, PromiseInv
<1>4. ~Open(m) => send' = send
  BY DEF RejectPending
<1>5. /\ send' \in [Sends -> Promise]
      /\ \A x \in Sends \ {m} : send'[x] = send[x]
      /\ send'[m].prepared = send[m].prepared /\ send'[m].state \in {send[m].state, "rejected"}
      /\ send'[m].answer = send[m].answer /\ send'[m].state # "open"
  <2>1. send[m] \in Promise /\ DOMAIN send = Sends /\ \A x \in Sends : send[x] \in Promise
    BY <1>1 DEF VarsInv
  <2>2. CASE Open(m)
    <3>1. /\ send'[m] = [send[m] EXCEPT !.state = "rejected"]
          /\ DOMAIN send' = Sends /\ \A x \in Sends \ {m} : send'[x] = send[x]
      BY <1>3, <2>1, <2>2
    <3>2. /\ send'[m] \in Promise /\ send'[m].prepared = send[m].prepared /\ send'[m].state = "rejected"
          /\ send'[m].answer = send[m].answer
      BY <2>1, <3>1 DEF Promise
    <3>3. send' \in [Sends -> Promise]
      BY <1>3, <2>1, <2>2, <3>1, <3>2
    <3> QED BY <3>1, <3>2, <3>3
  <2>3. CASE ~Open(m)
    BY <1>1, <1>4, <2>3 DEF VarsInv, Open
  <2> QED BY <2>2, <2>3
<1>6. Promises
  BY <1>1, <1>2, <1>5 DEF Promises, PromiseInv, Open
<1>7. Waits /\ Answers
  BY <1>5 DEF Waits, Answers, Awaits, Open
<1> QED BY <1>5, <1>6, <1>7 DEF Open

\* A prepared message is durable, which answers its send.
LEMMA Durable ==
    ASSUME IInv, NEW m \in Sends, UNCHANGED pending,
           send' = [send EXCEPT ![m].committed = TRUE, ![m].answer = IF Open(m) THEN m ELSE @,
                                ![m].state = IF Open(m) THEN "resolved" ELSE @]
    PROVE  Promises /\ Waits /\ Answers /\ ~Open(m)'
<1>1. PromiseInv /\ VarsInv
  BY DEF IInv
<1>2. send[m] \in Promise /\ m \in 0..MaxSends
  BY <1>1 DEF VarsInv, Sends
<1>3. send'[m] = [send[m] EXCEPT !.committed = TRUE, !.answer = IF Open(m) THEN m ELSE @,
                                 !.state = IF Open(m) THEN "resolved" ELSE @]
      /\ DOMAIN send' = Sends /\ \A x \in Sends \ {m} : send'[x] = send[x]
  BY <1>1 DEF VarsInv
<1>4. /\ send'[m] \in Promise /\ send'[m].prepared = send[m].prepared /\ send'[m].state # "open"
      /\ send'[m].state = "resolved" => send'[m].answer = m \/ (send[m].state = "resolved" /\ send'[m].answer = send[m].answer)
  BY <1>2, <1>3 DEF Promise, Open
<1>5. send' \in [Sends -> Promise]
  BY <1>1, <1>3, <1>4 DEF VarsInv
<1>6. \A x \in Sends \ {m} : send'[x] = send[x]
  BY <1>3
<1>7. Promises
  BY <1>1, <1>4, <1>5, <1>6 DEF Promises, PromiseInv, VarsInv, Open
<1>8. Waits /\ Answers
  BY <1>4, <1>6 DEF Waits, Answers, Awaits, Open
<1> QED BY <1>4, <1>7, <1>8 DEF Open

\* Whether a taken message will be recorded by its event.
LEMMA Marked ==
    ASSUME IInv, NEW m \in Sends, UNCHANGED pending, send' = [send EXCEPT ![m].awaiting = Activated(m)]
    PROVE  /\ Promises /\ Answers
           /\ \A x \in Sends \ {m} : send'[x] = send[x]
           /\ Awaits(m)' => ~send[m].prepared
<1>1. PromiseInv /\ VarsInv
  BY DEF IInv
<1>2. send[m] \in Promise /\ Activated(m) \in BOOLEAN
  BY <1>1 DEF VarsInv, Activated
<1>3. send'[m] = [send[m] EXCEPT !.awaiting = Activated(m)]
      /\ DOMAIN send' = Sends /\ \A x \in Sends \ {m} : send'[x] = send[x]
  BY <1>1 DEF VarsInv
<1>4. /\ send'[m] \in Promise /\ send'[m].prepared = send[m].prepared /\ send'[m].state = send[m].state
      /\ send'[m].answer = send[m].answer /\ send'[m].committed = send[m].committed
      /\ send'[m].awaiting = ~send[m].prepared
  BY <1>2, <1>3 DEF Promise, Activated
<1>5. send' \in [Sends -> Promise]
  BY <1>1, <1>3, <1>4 DEF VarsInv
<1>6. Promises
  BY <1>1, <1>3, <1>4, <1>5 DEF Promises, PromiseInv, VarsInv, Open
<1>7. Answers
  BY <1>3, <1>4 DEF Answers
<1> QED BY <1>3, <1>4, <1>6, <1>7 DEF Awaits

LEMMA PromiseStep ==
    ASSUME IInv, Promises, \A x \in Sends : at[x] # "none" => at'[x] # "none"
    PROVE  PromiseInv'
<1>1. ToSet(pending) \subseteq Sends /\ PromiseInv
  BY ElementOfSeq, LenProperties DEF IInv, VarsInv, ToSet
<1> QED BY <1>1 DEF Promises, PromiseInv, Open

\* Before the run ends, only the promise of the message it is about may wait for an event.
LEMMA OnlyOwnWaits ==
    ASSUME IInv, NEW r \in Sends, at[r] \in Running \ {"end"}, Straight, NEW p \in Sends, Awaits(p)
    PROVE  p = msg[r] /\ at[r] \in {"start", "prepare", "activated", "user"}
<1>1. AwaitsHere(p) /\ at[p] # "gate"
  BY TheRun DEF IInv, AnswerInv
<1> QED BY <1>1, TheRun DEF AwaitsHere

\* A step of the run, and the answers.
LEMMA AnswerStep ==
    ASSUME IInv, NEW r \in Sends, at[r] \in Running, at'[r] \notin Before,
           \A x \in Sends \ {r} : at'[x] = at[x],
           \A x \in Sends : send'[x].state = "resolved" /\ Straight =>
               (send[x].state = "resolved" /\ send'[x].answer = send[x].answer) \/ send'[x].answer = x,
           odd \subseteq odd', runPromise' = 0 \/ running' = running,
           Straight' => \A p \in Sends : Awaits(p)' => AwaitsHere(p)'
    PROVE  AnswerInv'
<1>1. Straight' => Straight
  BY DEF Straight
<1>2. AnswerInv
  BY DEF IInv
<1>3. Straight' => \A m \in Sends : at'[m] # "gate"
  BY <1>1, <1>2, TheRun DEF AnswerInv
<1>4. Straight' /\ runPromise' # 0 => running'
  BY <1>1, <1>2, TheRun DEF AnswerInv
<1>5. \A m \in Sends : send'[m].state = "resolved" /\ Straight' => send'[m].answer = m
  BY <1>1, <1>2 DEF AnswerInv
<1> QED BY <1>3, <1>4, <1>5 DEF AnswerInv

LEMMA EndStep ==
    ASSUME IInv, NEW r \in Sends, at[r] \in Running, at' = [at EXCEPT ![r] = "done"], runPromise' = 0,
           controller' = 0, running' = FALSE, UNCHANGED <<lead, msg, abort, aborted, cleared>>,
           \/ phase' = "idle" /\ turn' = 0 /\ UNCHANGED finalizing
           \/ UNCHANGED phase /\ turn' \in 0..MaxSends /\ finalizing' = TRUE,
           drain' = NoDrain, Promises, Waits, Answers, odd \subseteq odd', odd' \subseteq Odd,
           count' \in [aborts : Nat, failures : Nat],
           QueueInv', followUps' \in Seq(Sends), recorded' \subseteq Sends,
           Straight' => \A p \in Sends : Awaits(p)' => at[r] = "end"
    PROVE  IInv'
<1>1. /\ at' \in [Sends -> Stages] /\ at'[r] = "done" /\ \A x \in Sends \ {r} : at'[x] = at[x]
      /\ RunInv' /\ AbortInv'
  BY RunEnds
<1>2. DrainInv' /\ drain' \in [of : 0..MaxSends, cancelled : BOOLEAN]
  BY DrainOver
<1>3. VarsInv'
  <2>1. VarsInv /\ 0 \in 0..MaxSends
    BY SessionAssumption DEF IInv
  <2>2. phase' \in {"idle", "turn"} /\ turn' \in 0..MaxSends /\ finalizing' \in BOOLEAN
    BY <2>1 DEF VarsInv
  <2>3. send' \in [Sends -> Promise] /\ pending' \in Seq(Sends)
    BY DEF Promises
  <2> QED BY <1>1, <1>2, <2>1, <2>2, <2>3 DEF VarsInv
<1>4. PromiseInv'
  BY <1>1, PromiseStep
<1>5. AnswerInv'
  <2>1. Straight' => \A p \in Sends : Awaits(p)' => AwaitsHere(p)'
    <3> SUFFICES ASSUME Straight', NEW p \in Sends, Awaits(p)' PROVE AwaitsHere(p)'
      OBVIOUS
    <3>1. Straight /\ Awaits(p) /\ at[r] = "end"
      BY DEF Straight, Waits
    <3>2. AwaitsHere(p) /\ at[p] # "gate"
      BY <3>1, TheRun DEF IInv, AnswerInv
    <3>3. abort.waiting /\ abort.for # 0 /\ abort.for = r
      BY <3>1, <3>2, TheRun DEF AwaitsHere
    <3> QED BY <1>1, <3>3 DEF AwaitsHere
  <2> QED BY <1>1, <2>1, AnswerStep DEF Answers
<1>6. \A x \in Sends : RunOf(x)'
  <2>1. Elsewhere(r)
    BY <1>1 DEF Elsewhere
  <2> QED BY <1>1, <2>1, OthersOf, OverOf
<1> QED BY <1>1, <1>2, <1>3, <1>4, <1>5, <1>6 DEF IInv

LEMMA GoStep ==
    ASSUME IInv, NEW r \in Sends, at[r] \in Running \ {"end"}, NEW stage \in Running, Go(r, stage),
           UNCHANGED <<running, lead, phase, runPromise, finalizing, abort, cleared>>,
           controller' = r \/ (stage = "promote" /\ controller' = 0), turn' \in 0..MaxSends, aborted' \subseteq Sends,
           msg' \in [Sends -> Sends], \A x \in Sends \ {r} : msg'[x] = msg[x],
           Promises, Straight => Answers, odd \subseteq odd', odd' \subseteq Odd,
           count' \in [aborts : Nat, failures : Nat],
           QueueInv', followUps' \in Seq(Sends), recorded' \subseteq Sends,
           DrainInv', drain' \in [of : 0..MaxSends, cancelled : BOOLEAN],
           Straight' => \A p \in Sends : Awaits(p)' =>
               \/ p = msg'[r] /\ stage \in {"start", "prepare", "activated", "user"}
               \/ abort.waiting /\ abort.for = r /\ stage = "end",
           RunOf(r)'
    PROVE  IInv'
<1>1. /\ at' \in [Sends -> Stages] /\ at'[r] = stage /\ \A x \in Sends \ {r} : at'[x] = at[x]
      /\ RunInv' /\ AbortInv'
  BY RunGoes
<1>2. runPromise = r /\ r # 0
  BY TheRun
<1>3. VarsInv'
  <2>1. VarsInv /\ 0 \in 0..MaxSends /\ r \in 0..MaxSends
    BY SessionAssumption DEF IInv, Sends
  <2>2. send' \in [Sends -> Promise] /\ pending' \in Seq(Sends) /\ controller' \in 0..MaxSends
    BY <2>1 DEF Promises
  <2> QED BY <1>1, <2>1, <2>2 DEF VarsInv
<1>4. PromiseInv'
  BY <1>1, PromiseStep
<1>5. AnswerInv'
  <2>1. Straight' => \A p \in Sends : Awaits(p)' => AwaitsHere(p)'
    BY <1>1, <1>2 DEF AwaitsHere
  <2> QED BY <1>1, <2>1, AnswerStep DEF Answers
<1>6. \A x \in Sends \ {r} : RunOf(x)'
  <2>1. Elsewhere(r)
    BY <1>1 DEF Elsewhere
  <2> QED BY <2>1, OthersOf
<1> QED BY <1>1, <1>3, <1>4, <1>5, <1>6 DEF IInv

\* prompt() rejects, or a user-turn event fails, in a step of the run.
LEMMA PromptFailsOver ==
    ASSUME IInv, NEW r \in Sends, at[r] \in Running, PromptFails(r)
    PROVE  /\ at' = [at EXCEPT ![r] = "done"] /\ running' = FALSE
           /\ Promises /\ Waits /\ Answers /\ ~Open(r)'
<1>1. at' = [at EXCEPT ![r] = "done"] /\ running' = FALSE /\ RejectPending(r)
  BY TheRun DEF PromptFails
<1> QED BY <1>1, Rejected

-----------------------------------------------------------------------------
(* The steps of a run *)

LEMMA StartStep ==
    ASSUME IInv, NEW r \in Sends, Start(r)
    PROVE  IInv'
<1>1. /\ at[r] = "start" /\ msg[r] = r /\ UNCHANGED <<lead, followUps, drain, finalizing, abort, recorded, cleared, odd>>
  BY TheRun DEF Start, Stands, RunOf
<1>2. VarsInv /\ count \in [aborts : Nat, failures : Nat] /\ odd \subseteq Odd /\ followUps \in Seq(Sends)
      /\ r \in 0..MaxSends /\ QueueInv
  BY SMTT(30) DEF IInv, VarsInv, Sends
<1>3. drain' = NoDrain
  BY <1>1, NothingDrained
<1>4. ASSUME Fails, RunRejects(r), UNCHANGED <<msg, aborted>>
      PROVE  IInv'
  <2>1. /\ at' = [at EXCEPT ![r] = "done"] /\ running' = FALSE
        /\ Promises /\ Waits /\ Answers /\ ~Open(r)'
    BY <1>1, <1>4, PromptFailsOver DEF RunRejects
  <2>2. phase' = "idle" /\ runPromise' = 0 /\ controller' = 0 /\ turn' = 0
    BY <1>4 DEF RunRejects
  <2>3. count' \in [aborts : Nat, failures : Nat]
    BY <1>2, <1>4 DEF Fails
  <2>4. QueueInv' /\ recorded' \subseteq Sends
    <3>1. at'[r] \notin Before /\ \A x \in Sends \ {r} : at'[x] = at[x]
      BY <1>2, <2>1 DEF VarsInv
    <3> QED BY <1>1, <3>1, QueueStays
  <2>5. Straight' => \A p \in Sends : ~Awaits(p)'
    <3>1. Straight => \A p \in Sends \ {r} : ~Awaits(p)
      BY <1>1, OnlyOwnWaits
    <3> QED BY <1>1, <2>1, <3>1 DEF Waits, Straight, Awaits, Open
  <2> QED BY <1>1, <1>2, <1>3, <1>4, <2>1, <2>2, <2>3, <2>4, <2>5, EndStep
<1>5. ASSUME Go(r, IF send[r].prepared THEN "prepare" ELSE "user"), msg' = [msg EXCEPT ![r] = r],
             controller' = r, aborted' = aborted \ {r},
             UNCHANGED <<running, pending, send, phase, turn, runPromise, count>>
      PROVE  IInv'
  <2> DEFINE stage == IF send[r].prepared THEN "prepare" ELSE "user"
  <2>1. stage \in {"prepare", "user"} /\ at'[r] = stage /\ msg' = msg /\ \A x \in Sends \ {r} : at'[x] = at[x]
    BY <1>1, <1>2, <1>5 DEF VarsInv, Go
  <2>2. Promises /\ Waits /\ Answers
    BY <1>5, PromisesStay
  <2>3. QueueInv' /\ recorded' \subseteq Sends
    BY <1>1, <2>1, QueueStays
  <2>4. DrainInv' /\ drain' \in [of : 0..MaxSends, cancelled : BOOLEAN]
    BY <1>3, DrainOver
  <2>5. Straight' => \A p \in Sends : Awaits(p)' => p = msg'[r]
    BY <1>1, <2>1, <2>2, OnlyOwnWaits DEF Waits, Straight
  <2>6. RunOf(r)'
    <3>1. r \notin cleared
      BY <1>1, <1>2 DEF QueueInv
    <3>2. RunOf(r) /\ (stage = "user" => ~send'[r].prepared)
      BY <1>5, <2>1 DEF IInv
    <3> HIDE DEF stage
    <3> QED BY <1>1, <1>5, <2>1, <3>1, <3>2 DEF RunOf
  <2>7. turn' \in 0..MaxSends /\ aborted' \subseteq Sends /\ msg' \in [Sends -> Sends]
    BY <1>2, <1>5, <2>1 DEF VarsInv
  <2>8. Go(r, stage) /\ stage \in Running
    BY <1>5, <2>1
  <2> HIDE DEF stage
  <2> QED BY <1>1, <1>2, <1>5, <2>1, <2>2, <2>3, <2>4, <2>5, <2>6, <2>7, <2>8, GoStep
<1> QED BY <1>4, <1>5 DEF Start

\* The types a step of the run needs.
LEMMA Typed ==
    ASSUME IInv, NEW r \in Sends
    PROVE  /\ VarsInv /\ QueueInv /\ RunOf(r)
           /\ count \in [aborts : Nat, failures : Nat] /\ count.failures \in Nat /\ odd \subseteq Odd
           /\ followUps \in Seq(Sends) /\ aborted \subseteq Sends /\ recorded \subseteq Sends
           /\ msg \in [Sends -> Sends] /\ msg[r] \in Sends /\ msg[r] \in 0..MaxSends /\ 0 \in 0..MaxSends
           /\ turn \in 0..MaxSends /\ r \in 0..MaxSends
           /\ \A stage \in Stages : Go(r, stage) => at'[r] = stage /\ \A x \in Sends \ {r} : at'[x] = at[x]
<1>1. VarsInv /\ QueueInv /\ RunOf(r) /\ MaxSends \in Nat
  BY SessionAssumption DEF IInv
<1>2. \A stage \in Stages : Go(r, stage) => at'[r] = stage /\ \A x \in Sends \ {r} : at'[x] = at[x]
  BY <1>1 DEF VarsInv, Go
<1>3. r \in 0..MaxSends /\ 0 \in 0..MaxSends /\ turn \in 0..MaxSends
  BY <1>1 DEF VarsInv, Sends
<1>4. msg \in [Sends -> Sends] /\ msg[r] \in Sends
  BY <1>1 DEF VarsInv
<1>5. msg[r] \in 0..MaxSends
  BY <1>1, <1>4 DEF Sends
<1>6. /\ count \in [aborts : Nat, failures : Nat] /\ count.failures \in Nat /\ odd \subseteq Odd
      /\ followUps \in Seq(Sends) /\ aborted \subseteq Sends /\ recorded \subseteq Sends
  BY <1>1 DEF VarsInv
<1> QED BY <1>1, <1>2, <1>3, <1>4, <1>5, <1>6

\* The failures counted stay a number, whether one more is counted or not.
LEMMA Counted ==
    ASSUME IInv, \/ Fails \/ UNCHANGED count
                 \/ count' = [count EXCEPT !.failures = @ + 1]
                 \/ \E r \in Sends : count' = IF r \in aborted THEN count ELSE [count EXCEPT !.failures = @ + 1]
    PROVE  count' \in [aborts : Nat, failures : Nat]
<1>1. count \in [aborts : Nat, failures : Nat]
  BY DEF IInv, VarsInv
<1>2. [count EXCEPT !.failures = @ + 1] \in [aborts : Nat, failures : Nat]
  BY <1>1
<1>3. count' = count \/ count' = [count EXCEPT !.failures = @ + 1]
  BY DEF Fails
<1> QED BY <1>1, <1>2, <1>3

LEMMA PrepareStep ==
    ASSUME IInv, NEW r \in Sends, Prepare(r)
    PROVE  IInv'
<1> PICK m \in Sends : m = msg[r]
  BY Typed
<1>1. /\ at[r] = "prepare" /\ UNCHANGED <<running, lead, msg, phase, followUps, runPromise, finalizing, aborted, abort, cleared, odd>>
      /\ controller' = IF at'[r] = "promote" THEN 0 ELSE controller
      /\ Prepared(r, "prepared", "promote")
  BY DEF Prepare, Stands
<1>2. controller = r /\ drain = NoDrain
  BY <1>1, TheRun, NothingDrained
<1>3. Straight => \A p \in Sends \ {m} : ~Awaits(p)
  BY <1>1, OnlyOwnWaits
<1>4. ASSUME recorded' = recorded \cup {m},
             send' = [send EXCEPT ![m].committed = TRUE, ![m].answer = IF Open(m) THEN m ELSE @,
                                  ![m].state = IF Open(m) THEN "resolved" ELSE @],
             turn' = m, Go(r, "prepared"), UNCHANGED <<pending, count, drain>>
      PROVE  IInv'
  <2>1. at'[r] = "prepared" /\ \A x \in Sends \ {r} : at'[x] = at[x]
    BY <1>4, Typed
  <2>2. Promises /\ Waits /\ Answers /\ ~Open(m)'
    BY <1>4, Typed, Durable
  <2>3. QueueInv' /\ recorded' \subseteq Sends
    BY <1>1, <1>4, <2>1, QueueStays
  <2>4. DrainInv' /\ drain' \in [of : 0..MaxSends, cancelled : BOOLEAN]
    BY <1>2, <1>4, DrainOver
  <2>5. Straight' => \A p \in Sends : ~Awaits(p)'
    BY <1>1, <1>3, <2>2 DEF Waits, Straight, Awaits, Open
  <2>6. RunOf(r)'
    <3>1. RunOf(r) /\ msg'[r] = m /\ msg[r] = m /\ at'[r] = "prepared" /\ m \in recorded' /\ followUps' = followUps
      BY <1>1, <1>4, <2>1, Typed
    <3>2. (m = r \/ at[m] = "done") /\ m \notin ToSet(followUps)
      BY <1>1, <3>1 DEF RunOf
    <3>3. m = r \/ at'[m] = "done"
      BY <1>1, <2>1, <3>2
    <3> QED BY <3>1, <3>2, <3>3 DEF RunOf
  <2>7. controller' = r /\ turn' \in 0..MaxSends /\ aborted' \subseteq Sends /\ msg' \in [Sends -> Sends]
        /\ followUps' \in Seq(Sends) /\ odd \subseteq odd' /\ odd' \subseteq Odd
    BY <1>1, <1>2, <1>4, <2>1, Typed
  <2>8. count' \in [aborts : Nat, failures : Nat]
    BY <1>4, Counted
  <2> QED BY <1>1, <1>4, <2>2, <2>3, <2>4, <2>5, <2>6, <2>7, <2>8, GoStep
<1>5. ASSUME count' = IF r \in aborted THEN count ELSE [count EXCEPT !.failures = @ + 1], RejectPending(m),
             turn' = 0, drain' = NoDrain, Go(r, "promote"), UNCHANGED recorded
      PROVE  IInv'
  <2>1. at'[r] = "promote" /\ \A x \in Sends \ {r} : at'[x] = at[x]
    BY <1>5, Typed
  <2>2. Promises /\ Waits /\ Answers /\ ~Open(m)'
    BY <1>5, Typed, Rejected
  <2>3. QueueInv' /\ recorded' \subseteq Sends
    BY <1>1, <1>5, <2>1, QueueStays
  <2>4. DrainInv' /\ drain' \in [of : 0..MaxSends, cancelled : BOOLEAN]
    BY <1>5, DrainOver
  <2>5. Straight' => \A p \in Sends : ~Awaits(p)'
    BY <1>1, <1>3, <2>2 DEF Waits, Straight, Awaits, Open
  <2>6. RunOf(r)'
    BY <1>1, <1>5, <2>1, Typed DEF RunOf
  <2>7. controller' = 0 /\ turn' \in 0..MaxSends /\ aborted' \subseteq Sends /\ msg' \in [Sends -> Sends]
        /\ followUps' \in Seq(Sends) /\ odd \subseteq odd' /\ odd' \subseteq Odd
    BY <1>1, <1>2, <1>5, <2>1, Typed
  <2>8. count' \in [aborts : Nat, failures : Nat]
    BY <1>5, Counted
  <2> QED BY <1>1, <1>5, <2>2, <2>3, <2>4, <2>5, <2>6, <2>7, <2>8, GoStep
<1> QED BY <1>1, <1>4, <1>5 DEF Prepared

LEMMA AfterPrepareStep ==
    ASSUME IInv, NEW r \in Sends, AfterPrepare(r)
    PROVE  IInv'
<1>1. /\ at[r] \in {"prepared", "preparedNext"} /\ UNCHANGED <<lead, msg, aborted, abort, recorded, cleared>>
  BY DEF AfterPrepare, Stands
<1>2. controller = r /\ runPromise = r
  BY <1>1, TheRun
<1>3. Straight => \A p \in Sends : ~Awaits(p)
  BY <1>1, OnlyOwnWaits
<1>4. /\ at[r] = "prepared" => drain = NoDrain
      /\ at[r] = "preparedNext" => drain.of = msg[r] /\ at[msg[r]] = "done"
                                   /\ (msg[r] \in cleared => drain.cancelled)
                                   /\ (r \in aborted => drain.cancelled)
  <2>1. drain.of = msg[r] /\ msg[r] # 0 => (msg[r] \in cleared => drain.cancelled)
    BY DEF IInv, DrainInv
  <2> QED BY <1>1, <2>1, TheRun, Typed, NothingDrained DEF RunOf
<1>5. PutBack(r) = followUps \/ (PutBack(r) = <<msg[r]>> \o followUps /\ ~(drain.of = msg[r] /\ drain.cancelled))
  BY DEF PutBack, Cancelled
<1>6. ASSUME Go(r, "user"), drain' = NoDrain,
             UNCHANGED <<running, pending, send, phase, turn, controller, runPromise, followUps, finalizing, odd, count>>
      PROVE  IInv'
  <2>1. at'[r] = "user" /\ \A x \in Sends \ {r} : at'[x] = at[x]
    BY <1>6, Typed
  <2>2. Promises /\ Waits /\ Answers
    BY <1>6, PromisesStay
  <2>3. QueueInv' /\ recorded' \subseteq Sends
    BY <1>1, <1>6, <2>1, QueueStays
  <2>4. DrainInv' /\ drain' \in [of : 0..MaxSends, cancelled : BOOLEAN]
    BY <1>6, DrainOver
  <2>5. Straight' => \A p \in Sends : ~Awaits(p)'
    BY <1>6, <1>3, <2>2 DEF Waits, Straight
  <2>6. RunOf(r)'
    BY <1>1, <1>6, <2>1, Typed DEF RunOf
  <2>7. controller' = r /\ turn' \in 0..MaxSends /\ aborted' \subseteq Sends /\ msg' \in [Sends -> Sends]
        /\ followUps' \in Seq(Sends) /\ odd \subseteq odd' /\ odd' \subseteq Odd
    BY <1>1, <1>2, <1>6, <2>1, Typed
  <2>8. count' \in [aborts : Nat, failures : Nat]
    BY <1>6, Counted
  <2> QED BY <1>1, <1>6, <2>2, <2>3, <2>4, <2>5, <2>6, <2>7, <2>8, GoStep
<1>7. ASSUME Fails, followUps' = IF at[r] = "prepared" THEN followUps ELSE PutBack(r),
             odd' = odd \cup {"failed"}, Stick(r), UNCHANGED <<phase, turn>>
      PROVE  IInv'
  <2>1. /\ at' = [at EXCEPT ![r] = "done"] /\ running' = FALSE
        /\ Promises /\ Waits /\ Answers /\ finalizing' = TRUE /\ runPromise' = 0 /\ controller' = 0 /\ drain' = NoDrain
    BY <1>1, <1>7, PromptFailsOver DEF Stick
  <2>2. at'[r] \notin Before /\ \A x \in Sends \ {r} : at'[x] = at[x]
    BY <2>1, Typed DEF VarsInv
  <2>3. QueueInv' /\ recorded' \subseteq Sends /\ followUps' \in Seq(Sends)
    <3>1. CASE followUps' = followUps
      BY <1>1, <2>2, <3>1, Typed, QueueStays
    <3>2. CASE at[r] = "preparedNext" /\ followUps' = <<msg[r]>> \o followUps /\ ~(drain.of = msg[r] /\ drain.cancelled)
      <4>1. at[msg[r]] = "done" /\ msg[r] \notin cleared
        BY <1>4, <3>2
      <4> QED BY <1>1, <2>1, <2>2, <3>2, <4>1, Typed, QueuePutBack
    <3> QED BY <1>1, <1>5, <1>7, <3>1, <3>2
  <2>4. odd \subseteq odd' /\ odd' \subseteq Odd /\ turn' \in 0..MaxSends
    BY <1>7, Typed DEF Odd
  <2>5. Straight' => \A p \in Sends : ~Awaits(p)'
    BY <1>7, <1>3, <2>1 DEF Waits, Straight
  <2>6. count' \in [aborts : Nat, failures : Nat]
    BY <1>7, Counted
  <2> QED BY <1>1, <1>7, <2>1, <2>3, <2>4, <2>5, <2>6, EndStep
<1>8. ASSUME at[r] = "prepared", RunRejects(r), UNCHANGED <<drain, followUps, finalizing, odd, count>>
      PROVE  IInv'
  <2>1. /\ at' = [at EXCEPT ![r] = "done"] /\ running' = FALSE
        /\ Promises /\ Waits /\ Answers /\ runPromise' = 0 /\ controller' = 0 /\ phase' = "idle" /\ turn' = 0
    BY <1>1, <1>8, PromptFailsOver DEF RunRejects
  <2>2. at'[r] \notin Before /\ \A x \in Sends \ {r} : at'[x] = at[x]
    BY <2>1, Typed DEF VarsInv
  <2>3. QueueInv' /\ recorded' \subseteq Sends /\ followUps' \in Seq(Sends)
    BY <1>1, <1>8, <2>2, Typed, QueueStays
  <2>4. odd \subseteq odd' /\ odd' \subseteq Odd /\ drain' = NoDrain
    BY <1>4, <1>8, Typed
  <2>5. Straight' => \A p \in Sends : ~Awaits(p)'
    BY <1>8, <1>3, <2>1 DEF Waits, Straight
  <2>6. count' \in [aborts : Nat, failures : Nat]
    BY <1>8, Counted
  <2> QED BY <1>1, <1>8, <2>1, <2>3, <2>4, <2>5, <2>6, EndStep
<1>9. ASSUME at[r] = "preparedNext", r \in aborted, followUps' = PutBack(r), drain' = NoDrain, turn' = 0, Go(r, "end"),
             UNCHANGED <<running, pending, send, phase, controller, runPromise, finalizing, odd, count>>
      PROVE  IInv'
  <2>1. at'[r] = "end" /\ \A x \in Sends \ {r} : at'[x] = at[x]
    BY <1>9, Typed
  <2>2. Promises /\ Waits /\ Answers
    BY <1>9, PromisesStay
  <2>3. followUps' = followUps
    BY <1>4, <1>5, <1>9
  <2>4. QueueInv' /\ recorded' \subseteq Sends
    BY <1>1, <2>1, <2>3, QueueStays
  <2>5. DrainInv' /\ drain' \in [of : 0..MaxSends, cancelled : BOOLEAN]
    BY <1>9, DrainOver
  <2>6. Straight' => \A p \in Sends : ~Awaits(p)'
    BY <1>9, <1>3, <2>2 DEF Waits, Straight
  <2>7. RunOf(r)'
    BY <1>1, <1>9, <2>1, Typed DEF RunOf
  <2>8. controller' = r /\ turn' \in 0..MaxSends /\ aborted' \subseteq Sends /\ msg' \in [Sends -> Sends]
        /\ followUps' \in Seq(Sends) /\ odd \subseteq odd' /\ odd' \subseteq Odd
    BY <1>1, <1>2, <1>9, <2>1, <2>3, Typed
  <2>9. count' \in [aborts : Nat, failures : Nat]
    BY <1>9, Counted
  <2> QED BY <1>1, <1>9, <2>2, <2>4, <2>5, <2>6, <2>7, <2>8, <2>9, GoStep
<1> QED BY <1>6, <1>7, <1>8, <1>9 DEF AfterPrepare, Stands

\* The event of a user message, when no promise but its own send's may be waiting for it.
LEMMA Settles ==
    ASSUME IInv, NEW m \in Sends, MessageEnd(m), Straight => \A x \in Sends : Awaits(x) => x = m
    PROVE  /\ Promises /\ Waits /\ (Straight => Answers)
           /\ Straight => \A x \in Sends : ~Awaits(x)'
<1> DEFINE mine == {i \in DOMAIN pending : pending[i] = m /\ send[m].committed}
           waiting == {i \in DOMAIN pending : Awaits(pending[i])}
           those == IF mine # {} THEN mine ELSE waiting
           first == CHOOSE i \in those : \A j \in those : i <= j
<1>1. PromiseInv /\ VarsInv /\ pending \in Seq(Sends) /\ DOMAIN pending = 1..Len(pending) /\ Len(pending) \in Nat
  BY LenProperties DEF IInv, VarsInv
<1>2. CASE those = {}
  <2>1. UNCHANGED <<pending, send>>
    BY <1>2 DEF MessageEnd
  <2>2. Promises /\ Waits /\ Answers
    BY <2>1, PromisesStay
  <2>3. \A x \in Sends : ~Awaits(x)
    <3> SUFFICES ASSUME NEW x \in Sends, Awaits(x) PROVE FALSE
      OBVIOUS
    <3>1. x \in ToSet(pending)
      BY <1>1 DEF PromiseInv, Awaits
    <3>2. PICK i \in DOMAIN pending : pending[i] = x
      BY <3>1 DEF ToSet
    <3> QED BY <1>2, <3>2
  <2> QED BY <2>2, <2>3 DEF Waits
<1>3. CASE those # {}
  <2>1. those \subseteq Nat /\ those \subseteq DOMAIN pending
    BY <1>1
  <2>2. \E i \in those : \A j \in those : i <= j
    <3> HIDE DEF those
    <3> QED BY <1>3, <2>1, LeastElement
  <2>3. first \in those
    <3> HIDE DEF those
    <3> QED BY <2>2
  <2>4. PICK p \in Sends : p = pending[first]
    <3> HIDE DEF first, those
    <3>1. first \in 1..Len(pending)
      BY <1>1, <2>1, <2>3
    <3> QED BY <1>1, <3>1, ElementOfSeq
  <2>5. /\ pending' = RemoveFirst(pending, p)
        /\ send' = IF Open(p) THEN [send EXCEPT ![p].state = "resolved", ![p].answer = m] ELSE send
    BY <1>3, <2>4 DEF MessageEnd
  <2>6. (p = m /\ send[m].committed) \/ (Awaits(p) /\ ~send[m].committed) \/ Awaits(p)
    BY <2>3, <2>4
  <2>7. mine = {} \/ (p = m /\ send[m].committed)
    BY <2>3, <2>4
  <2> HIDE DEF mine, waiting, those, first
  <2>8. pending' \in Seq(Sends) /\ Once(pending') /\ ToSet(pending') = ToSet(pending) \ {p}
    BY <1>1, <2>5, RemoveOnce DEF PromiseInv
  <2>9. Straight => p = m
    BY <2>6
  <2>10. CASE Open(p)
    <3>1. /\ send'[p] = [send[p] EXCEPT !.state = "resolved", !.answer = m]
          /\ DOMAIN send' = Sends /\ \A x \in Sends \ {p} : send'[x] = send[x]
      BY <1>1, <2>5, <2>10 DEF VarsInv
    <3>2. send[p] \in Promise /\ m \in 0..MaxSends
      BY <1>1 DEF VarsInv, Sends
    <3>3. /\ send'[p] \in Promise /\ send'[p].prepared = send[p].prepared /\ send'[p].state = "resolved"
          /\ send'[p].answer = m
      BY <3>1, <3>2 DEF Promise
    <3>4. send' \in [Sends -> Promise]
      BY <1>1, <2>5, <2>10, <3>1, <3>3 DEF VarsInv
    <3>5. Promises
      BY <1>1, <2>8, <3>1, <3>3, <3>4 DEF Promises, PromiseInv, Open
    <3>6. Waits /\ ~Awaits(p)'
      BY <3>1, <3>3 DEF Waits, Awaits, Open
    <3>7. Straight => Answers
      BY <2>9, <3>1, <3>3 DEF Answers
    <3> QED BY <2>9, <3>5, <3>6, <3>7 DEF Waits
  <2>11. CASE ~Open(p)
    <3>1. send' = send
      BY <2>5, <2>11
    <3>2. p = m /\ send[m].committed
      BY <2>6, <2>11 DEF Awaits
    <3>3. Promises
      BY <1>1, <2>8, <2>11, <3>1 DEF Promises, PromiseInv, Open, VarsInv
    <3>4. Waits /\ Answers /\ ~Awaits(m)'
      BY <3>1, <3>2 DEF Waits, Answers, Awaits, Open
    <3> QED BY <3>3, <3>4 DEF Waits
  <2> QED BY <2>10, <2>11
<1> QED BY <1>2, <1>3

LEMMA UserMessageStep ==
    ASSUME IInv, NEW r \in Sends, UserMessage(r)
    PROVE  IInv'
<1> PICK m \in Sends : m = msg[r]
  BY Typed
<1>1. at[r] = "user" /\ UNCHANGED <<lead, msg, phase, followUps, aborted, abort, cleared>>
  BY DEF UserMessage, Stands
<1>2. controller = r /\ drain = NoDrain
  BY <1>1, TheRun, NothingDrained
<1>3. Straight => \A p \in Sends : Awaits(p) => p = m
  BY <1>1, OnlyOwnWaits
<1>4. ASSUME recorded' = recorded \cup {m}, turn' = m, MessageEnd(m), Go(r, "stream"),
             UNCHANGED <<running, controller, runPromise, finalizing, drain, odd, count>>
      PROVE  IInv'
  <2>1. at'[r] = "stream" /\ \A x \in Sends \ {r} : at'[x] = at[x]
    BY <1>4, Typed
  <2>2. Promises /\ (Straight => Answers) /\ (Straight => \A p \in Sends : ~Awaits(p)')
    BY <1>3, <1>4, Settles
  <2>3. QueueInv' /\ recorded' \subseteq Sends
    BY <1>1, <1>4, <2>1, QueueStays
  <2>4. DrainInv' /\ drain' \in [of : 0..MaxSends, cancelled : BOOLEAN]
    BY <1>2, <1>4, DrainOver
  <2>5. Straight' => \A p \in Sends : ~Awaits(p)'
    BY <1>4, <2>2 DEF Straight
  <2>6. RunOf(r)'
    <3>1. RunOf(r) /\ msg'[r] = m /\ msg[r] = m /\ at'[r] = "stream" /\ followUps' = followUps
      BY <1>1, <1>4, <2>1, Typed
    <3>2. (m = r \/ at[m] = "done") /\ m \notin ToSet(followUps)
      BY <1>1, <3>1 DEF RunOf
    <3>3. m = r \/ at'[m] = "done"
      BY <1>1, <2>1, <3>2
    <3> QED BY <3>1, <3>2, <3>3 DEF RunOf
  <2>7. controller' = r /\ turn' \in 0..MaxSends /\ aborted' \subseteq Sends /\ msg' \in [Sends -> Sends]
        /\ followUps' \in Seq(Sends) /\ odd \subseteq odd' /\ odd' \subseteq Odd
    BY <1>1, <1>2, <1>4, <2>1, Typed
  <2>8. count' \in [aborts : Nat, failures : Nat]
    BY <1>4, Counted
  <2> QED BY <1>1, <1>4, <2>2, <2>3, <2>4, <2>5, <2>6, <2>7, <2>8, GoStep
<1>5. ASSUME Fails, Go(r, "end"), odd' = odd \cup {"failed"},
             UNCHANGED <<running, pending, send, recorded, turn, controller, runPromise, finalizing, drain>>
      PROVE  IInv'
  <2>1. at'[r] = "end" /\ \A x \in Sends \ {r} : at'[x] = at[x]
    BY <1>5, Typed
  <2>2. Promises /\ Answers /\ ~Straight'
    BY <1>5, PromisesStay DEF Straight
  <2>3. QueueInv' /\ recorded' \subseteq Sends
    BY <1>1, <1>5, <2>1, QueueStays
  <2>4. DrainInv' /\ drain' \in [of : 0..MaxSends, cancelled : BOOLEAN]
    BY <1>2, <1>5, DrainOver
  <2>5. RunOf(r)'
    BY <1>1, <1>5, <2>1, Typed DEF RunOf
  <2>6. controller' = r /\ turn' \in 0..MaxSends /\ aborted' \subseteq Sends /\ msg' \in [Sends -> Sends]
        /\ followUps' \in Seq(Sends) /\ odd \subseteq odd' /\ odd' \subseteq Odd
    BY <1>1, <1>2, <1>5, <2>1, Typed DEF Odd
  <2>7. count' \in [aborts : Nat, failures : Nat]
    BY <1>5, Counted
  <2> QED BY <1>1, <1>5, <2>2, <2>3, <2>4, <2>5, <2>6, <2>7, GoStep
<1>6. ASSUME Fails, recorded' = recorded \cup {m}, turn' = m, Stick(r), odd' = odd \cup {"failed"}
      PROVE  IInv'
  <2>1. /\ at' = [at EXCEPT ![r] = "done"] /\ running' = FALSE
        /\ Promises /\ Waits /\ Answers /\ finalizing' = TRUE /\ runPromise' = 0 /\ controller' = 0 /\ drain' = NoDrain
    BY <1>1, <1>6, PromptFailsOver DEF Stick
  <2>2. at'[r] \notin Before /\ \A x \in Sends \ {r} : at'[x] = at[x]
    BY <2>1, Typed DEF VarsInv
  <2>3. QueueInv' /\ recorded' \subseteq Sends /\ followUps' \in Seq(Sends)
    BY <1>1, <1>6, <2>2, Typed, QueueStays
  <2>4. odd \subseteq odd' /\ odd' \subseteq Odd /\ turn' \in 0..MaxSends /\ ~Straight'
    BY <1>6, Typed DEF Odd, Straight
  <2>5. count' \in [aborts : Nat, failures : Nat]
    BY <1>6, Counted
  <2> QED BY <1>1, <1>6, <2>1, <2>3, <2>4, <2>5, EndStep
<1> QED BY <1>4, <1>5, <1>6 DEF UserMessage

LEMMA StreamStep ==
    ASSUME IInv, NEW r \in Sends, Stream(r)
    PROVE  IInv'
<1>1. at[r] = "stream" /\ UNCHANGED <<running, pending, send, lead, msg, phase, followUps, drain, turn, controller,
          runPromise, finalizing, aborted, abort, recorded, cleared, odd, count>>
  BY DEF Stream, Stands, runtimeVars, harnessVars
<1>2. PICK stage \in {"end", "poll"} : Go(r, stage)
  BY DEF Stream
<1>3. controller = r /\ drain = NoDrain
  BY <1>1, TheRun, NothingDrained
<1>4. at'[r] = stage /\ \A x \in Sends \ {r} : at'[x] = at[x]
  BY <1>2, Typed
<1>5. Promises /\ Waits /\ Answers
  BY <1>1, PromisesStay
<1>6. Straight' => \A p \in Sends : ~Awaits(p)'
  BY <1>1, <1>5, OnlyOwnWaits DEF Waits, Straight
<1>7. QueueInv' /\ recorded' \subseteq Sends
  BY <1>1, <1>4, QueueStays
<1>8. DrainInv' /\ drain' \in [of : 0..MaxSends, cancelled : BOOLEAN]
  BY <1>1, <1>3, DrainOver
<1>9. RunOf(r)'
  <2>1. RunOf(r) /\ msg'[r] = msg[r] /\ followUps' = followUps
    BY <1>1, Typed
  <2>2. (msg[r] = r \/ at[msg[r]] = "done") /\ msg[r] \notin ToSet(followUps)
    BY <1>1, <2>1 DEF RunOf
  <2>3. msg[r] = r \/ at'[msg[r]] = "done"
    BY <1>1, <1>4, <2>2, Typed
  <2> QED BY <1>4, <2>1, <2>2, <2>3 DEF RunOf
<1>10. controller' = r /\ turn' \in 0..MaxSends /\ aborted' \subseteq Sends /\ msg' \in [Sends -> Sends]
       /\ followUps' \in Seq(Sends) /\ odd \subseteq odd' /\ odd' \subseteq Odd
  BY <1>1, <1>3, Typed
<1>11. count' \in [aborts : Nat, failures : Nat]
  BY <1>1, Counted
<1> QED BY <1>1, <1>2, <1>5, <1>6, <1>7, <1>8, <1>9, <1>10, <1>11, GoStep

LEMMA PollStep ==
    ASSUME IInv, NEW r \in Sends, Poll(r)
    PROVE  IInv'
<1>1. at[r] = "poll" /\ UNCHANGED <<running, pending, send, lead, phase, turn, controller,
          runPromise, finalizing, aborted, abort, recorded, cleared, count>>
  BY DEF Poll, Stands, runtimeVars
<1>2. controller = r /\ runPromise = r /\ r # 0 /\ drain = NoDrain
  BY <1>1, TheRun, NothingDrained
<1>3. Promises /\ Waits /\ Answers
  BY <1>1, PromisesStay
<1>4. Straight => \A p \in Sends : ~Awaits(p)
  BY <1>1, OnlyOwnWaits
<1>5. count' \in [aborts : Nat, failures : Nat]
  BY <1>1, Counted
<1>6. CASE followUps = <<>>
  <2>1. Go(r, "end") /\ UNCHANGED <<msg, followUps, drain, odd>>
    BY <1>6 DEF Poll
  <2>2. at'[r] = "end" /\ \A x \in Sends \ {r} : at'[x] = at[x]
    BY <2>1, Typed
  <2>3. QueueInv' /\ recorded' \subseteq Sends
    BY <1>1, <2>1, <2>2, QueueStays
  <2>4. DrainInv' /\ drain' \in [of : 0..MaxSends, cancelled : BOOLEAN]
    BY <1>2, <2>1, DrainOver
  <2>5. RunOf(r)'
    <3>1. RunOf(r) /\ msg'[r] = msg[r]
      BY <2>1, Typed
    <3>2. msg[r] = r \/ at[msg[r]] = "done"
      BY <1>1, <3>1 DEF RunOf
    <3>3. msg[r] = r \/ at'[msg[r]] = "done"
      BY <1>1, <2>2, <3>2, Typed
    <3> QED BY <2>2, <3>1, <3>3 DEF RunOf
  <2>6. Straight' => \A p \in Sends : ~Awaits(p)'
    BY <1>3, <1>4, <2>1 DEF Waits, Straight
  <2>7. controller' = r /\ turn' \in 0..MaxSends /\ aborted' \subseteq Sends /\ msg' \in [Sends -> Sends]
        /\ followUps' \in Seq(Sends) /\ odd \subseteq odd' /\ odd' \subseteq Odd
    BY <1>1, <1>2, <2>1, Typed
  <2> QED BY <1>1, <1>3, <1>5, <2>1, <2>3, <2>4, <2>5, <2>6, <2>7, GoStep
<1>7. CASE followUps # <<>>
  <2>0. PICK m : m = Head(followUps)
    OBVIOUS
  <2>1. /\ Go(r, "followUp") /\ msg' = [msg EXCEPT ![r] = m] /\ followUps' = Tail(followUps)
        /\ drain' = [of |-> m, cancelled |-> FALSE]
        /\ odd' = IF r \in aborted THEN odd \cup {"drained"} ELSE odd
    BY <1>7, <2>0 DEF Poll
  <2>2. at'[r] = "followUp" /\ \A x \in Sends \ {r} : at'[x] = at[x]
    BY <2>1, Typed
  <2>3. /\ QueueInv' /\ followUps' \in Seq(Sends) /\ recorded' \subseteq Sends
        /\ m \in Sends /\ at[m] = "done" /\ m \notin recorded \cup cleared \cup ToSet(followUps')
    BY <1>1, <1>7, <2>0, <2>1, <2>2, Typed, QueueTaken
  <2>4. msg' \in [Sends -> Sends] /\ msg'[r] = m /\ \A x \in Sends \ {r} : msg'[x] = msg[x]
    BY <2>1, <2>3, Typed
  <2>5. at'[m] = "done" /\ m \in 0..MaxSends /\ m # 0
    BY <1>1, <2>2, <2>3 DEF Sends
  <2>6. drain' \in [of : 0..MaxSends, cancelled : BOOLEAN] /\ drain'.of = m /\ ~drain'.cancelled
    BY <2>1, <2>5
  <2>7. DrainInv'
    BY <1>1, <1>2, <2>2, <2>3, <2>4, <2>5, <2>6 DEF DrainInv
  <2>8. RunOf(r)'
    BY <1>1, <2>2, <2>3, <2>4, <2>5, <2>6 DEF RunOf
  <2>9. Straight' => \A p \in Sends : ~Awaits(p)'
    BY <1>3, <1>4, <2>1 DEF Waits, Straight
  <2>10. controller' = r /\ turn' \in 0..MaxSends /\ aborted' \subseteq Sends
         /\ odd \subseteq odd' /\ odd' \subseteq Odd
    BY <1>1, <1>2, <2>1, Typed DEF Odd
  <2> QED BY <1>1, <1>3, <1>5, <2>1, <2>3, <2>4, <2>6, <2>7, <2>8, <2>9, <2>10, GoStep
<1> QED BY <1>6, <1>7

LEMMA BeginFollowUpStep ==
    ASSUME IInv, NEW r \in Sends, BeginFollowUp(r)
    PROVE  IInv'
<1>1. at[r] = "followUp" /\ UNCHANGED <<running, pending, send, lead, msg, phase, followUps, drain, controller,
          runPromise, finalizing, aborted, abort, recorded, cleared, odd, count>>
  BY DEF BeginFollowUp, Stands, runtimeVars
<1>2. PICK stage \in {"end", "activating"} : Go(r, stage) /\ (stage = "activating" => r \notin aborted)
  BY DEF BeginFollowUp
<1>3. controller = r
  BY <1>1, TheRun
<1>4. at'[r] = stage /\ \A x \in Sends \ {r} : at'[x] = at[x]
  BY <1>2, Typed
<1>5. Promises /\ Waits /\ Answers
  BY <1>1, PromisesStay
<1>6. Straight' => \A p \in Sends : ~Awaits(p)'
  BY <1>1, <1>5, OnlyOwnWaits DEF Waits, Straight
<1>7. QueueInv' /\ recorded' \subseteq Sends
  BY <1>1, <1>4, QueueStays
<1>8. DrainInv' /\ drain' \in [of : 0..MaxSends, cancelled : BOOLEAN]
  BY <1>1, <1>4, DrainStays DEF Elsewhere
<1>9. RunOf(r)'
  <2>1. /\ RunOf(r) /\ msg'[r] = msg[r] /\ followUps' = followUps /\ drain' = drain /\ recorded' = recorded
        /\ aborted' = aborted
    BY <1>1, Typed
  <2>2. at[msg[r]] = "done" /\ msg[r] \notin ToSet(followUps) /\ drain.of = msg[r] /\ msg[r] \notin recorded
    BY <1>1, <2>1 DEF RunOf
  <2>3. at'[msg[r]] = "done"
    BY <1>1, <1>4, <2>2, Typed
  <2> QED BY <1>2, <1>4, <2>1, <2>2, <2>3 DEF RunOf
<1>10. controller' = r /\ turn' \in 0..MaxSends /\ aborted' \subseteq Sends /\ msg' \in [Sends -> Sends]
       /\ followUps' \in Seq(Sends) /\ odd \subseteq odd' /\ odd' \subseteq Odd
  <2>1. turn' \in {turn, msg[r]}
    BY DEF BeginFollowUp
  <2> QED BY <1>1, <1>3, <2>1, Typed
<1>11. count' \in [aborts : Nat, failures : Nat]
  BY <1>1, Counted
<1> QED BY <1>1, <1>2, <1>5, <1>6, <1>7, <1>8, <1>9, <1>10, <1>11, GoStep

LEMMA AgentEndStep ==
    ASSUME IInv, NEW r \in Sends, AgentEnd(r)
    PROVE  IInv'
<1>1. at[r] = "end" /\ UNCHANGED <<lead, msg, followUps, aborted, abort, recorded, cleared, odd>>
  BY DEF AgentEnd, Stands
<1>2. /\ at' = [at EXCEPT ![r] = "done"] /\ running' = FALSE /\ runPromise' = 0 /\ controller' = 0 /\ drain' = NoDrain
      /\ Promises /\ Waits /\ Answers
      /\ (Fails \/ UNCHANGED count)
      /\ \/ phase' = "idle" /\ turn' = 0 /\ UNCHANGED finalizing
         \/ UNCHANGED phase /\ turn' = turn /\ finalizing' = TRUE
  <2>1. CASE phase' = "idle" /\ runPromise' = 0 /\ controller' = 0 /\ turn' = 0 /\ drain' = NoDrain
             /\ running' = FALSE /\ Go(r, "done") /\ UNCHANGED <<pending, send, finalizing, count>>
    BY <2>1, PromisesStay DEF Go
  <2>2. CASE Fails /\ Stick(r) /\ UNCHANGED <<phase, turn>>
    BY <1>1, <2>2, PromptFailsOver DEF Stick
  <2> QED BY <2>1, <2>2 DEF AgentEnd
<1>3. at'[r] \notin Before /\ \A x \in Sends \ {r} : at'[x] = at[x]
  BY <1>2, Typed DEF VarsInv
<1>4. QueueInv' /\ recorded' \subseteq Sends /\ followUps' \in Seq(Sends)
  BY <1>1, <1>3, Typed, QueueStays
<1>5. count' \in [aborts : Nat, failures : Nat]
  BY <1>2, Counted
<1>6. odd \subseteq odd' /\ odd' \subseteq Odd /\ turn \in 0..MaxSends
  BY <1>1, Typed
<1> QED BY <1>1, <1>2, <1>4, <1>5, <1>6, EndStep

LEMMA ActivateStep ==
    ASSUME IInv, NEW r \in Sends, Activate(r)
    PROVE  IInv'
<1> PICK m \in Sends : m = msg[r]
  BY Typed
<1>1. at[r] = "activating" /\ UNCHANGED <<running, lead, msg, phase, followUps, controller, runPromise, finalizing,
                   aborted, abort, recorded, cleared, odd>>
  BY DEF Activate, Stands
<1>2. controller = r
  BY <1>1, TheRun
<1>3. Straight => \A p \in Sends : ~Awaits(p)
  BY <1>1, OnlyOwnWaits
<1>4. ASSUME r \notin aborted, send' = [send EXCEPT ![m].awaiting = Activated(m)], Go(r, "activated"),
             UNCHANGED <<pending, turn, drain, count>>
      PROVE  IInv'
  <2>1. at'[r] = "activated" /\ \A x \in Sends \ {r} : at'[x] = at[x]
    BY <1>4, Typed
  <2>2. Promises /\ Answers /\ \A x \in Sends \ {m} : send'[x] = send[x]
    BY <1>4, Marked
  <2>3. QueueInv' /\ recorded' \subseteq Sends
    BY <1>1, <2>1, QueueStays
  <2>4. DrainInv' /\ drain' \in [of : 0..MaxSends, cancelled : BOOLEAN]
    BY <1>1, <1>4, <2>1, DrainStays DEF Elsewhere
  <2>5. Straight' => \A p \in Sends : Awaits(p)' => p = msg'[r]
    BY <1>1, <1>3, <2>2 DEF Straight, Awaits, Open
  <2>6. RunOf(r)'
    <3>1. /\ RunOf(r) /\ msg'[r] = m /\ followUps' = followUps /\ drain' = drain /\ recorded' = recorded
          /\ aborted' = aborted
      BY <1>1, <1>4, Typed
    <3>2. at[m] = "done" /\ m \notin ToSet(followUps) /\ drain.of = m /\ m \notin recorded
      BY <1>1, <3>1 DEF RunOf
    <3>3. at'[m] = "done"
      BY <1>1, <2>1, <3>2
    <3> QED BY <1>4, <2>1, <3>1, <3>2, <3>3 DEF RunOf
  <2>7. controller' = r /\ turn' \in 0..MaxSends /\ aborted' \subseteq Sends /\ msg' \in [Sends -> Sends]
        /\ followUps' \in Seq(Sends) /\ odd \subseteq odd' /\ odd' \subseteq Odd
    BY <1>1, <1>2, <1>4, Typed
  <2>8. count' \in [aborts : Nat, failures : Nat]
    BY <1>4, Counted
  <2> QED BY <1>1, <1>4, <2>2, <2>3, <2>4, <2>5, <2>6, <2>7, <2>8, GoStep
<1>5. ASSUME count' = IF r \in aborted THEN count ELSE [count EXCEPT !.failures = @ + 1], RejectPending(m),
             turn' = 0, drain' = NoDrain, Go(r, "end")
      PROVE  IInv'
  <2>1. at'[r] = "end" /\ \A x \in Sends \ {r} : at'[x] = at[x]
    BY <1>5, Typed
  <2>2. Promises /\ Waits /\ Answers
    BY <1>5, Rejected
  <2>3. QueueInv' /\ recorded' \subseteq Sends
    BY <1>1, <2>1, QueueStays
  <2>4. DrainInv' /\ drain' \in [of : 0..MaxSends, cancelled : BOOLEAN]
    BY <1>5, DrainOver
  <2>5. Straight' => \A p \in Sends : ~Awaits(p)'
    BY <1>1, <1>3, <2>2 DEF Waits, Straight
  <2>6. RunOf(r)'
    <3>1. RunOf(r) /\ msg'[r] = m
      BY <1>1, Typed
    <3>2. at[m] = "done"
      BY <1>1, <3>1 DEF RunOf
    <3>3. at'[m] = "done"
      BY <1>1, <2>1, <3>2
    <3> QED BY <2>1, <3>1, <3>3 DEF RunOf
  <2>7. controller' = r /\ turn' \in 0..MaxSends /\ aborted' \subseteq Sends /\ msg' \in [Sends -> Sends]
        /\ followUps' \in Seq(Sends) /\ odd \subseteq odd' /\ odd' \subseteq Odd
    BY <1>1, <1>2, <1>5, Typed
  <2>8. count' \in [aborts : Nat, failures : Nat]
    BY <1>5, Counted
  <2> QED BY <1>1, <1>5, <2>2, <2>3, <2>4, <2>5, <2>6, <2>7, <2>8, GoStep
<1> QED BY <1>4, <1>5 DEF Activate

LEMMA FollowUpTurnStep ==
    ASSUME IInv, NEW r \in Sends, FollowUpTurn(r)
    PROVE  IInv'
<1> PICK m \in Sends : m = msg[r]
  BY Typed
<1>1. at[r] = "activated" /\ UNCHANGED <<running, lead, msg, phase, controller, runPromise, finalizing, aborted, abort, cleared>>
  BY DEF FollowUpTurn, Stands
<1>2. controller = r /\ runPromise = r
  BY <1>1, TheRun
<1>3. Straight => \A p \in Sends : Awaits(p) => p = m
  BY <1>1, OnlyOwnWaits
<1>4. /\ RunOf(r) /\ msg'[r] = m /\ drain.of = m /\ m # 0
      /\ at[m] = "done" /\ m \notin ToSet(followUps) /\ m \notin recorded
      /\ m \in cleared => drain.cancelled
      /\ r \in aborted => drain.cancelled
      /\ drain.cancelled => abort.waiting /\ abort.for = r
  <2>1. RunOf(r) /\ msg'[r] = m /\ m # 0
    BY <1>1, Typed, TheRun
  <2>2. drain.of = m /\ at[m] = "done" /\ m \notin ToSet(followUps) /\ m \notin recorded
        /\ (r \in aborted => drain.cancelled)
    BY <1>1, <2>1 DEF RunOf
  <2>3. DrainInv
    BY DEF IInv
  <2> QED BY <1>2, <2>1, <2>2, <2>3 DEF DrainInv
<1>5. msg' \in [Sends -> Sends] /\ controller' = r /\ aborted' \subseteq Sends
  BY <1>1, <1>2, Typed
<1>6. ASSUME Fails, followUps' = PutBack(r), odd' = odd \cup (IF Cancelled(r) THEN {} ELSE {"putBack"}),
             turn' = 0, drain' = NoDrain, Go(r, "end"), UNCHANGED <<pending, send, recorded>>
      PROVE  IInv'
  <2>1. at'[r] = "end" /\ \A x \in Sends \ {r} : at'[x] = at[x]
    BY <1>6, Typed
  <2>2. Promises /\ Waits /\ Answers
    BY <1>6, PromisesStay
  <2>3. QueueInv' /\ recorded' \subseteq Sends /\ followUps' \in Seq(Sends)
    <3>1. CASE Cancelled(r)
      <4>1. followUps' = followUps
        BY <1>6, <3>1 DEF PutBack
      <4> QED BY <1>1, <1>6, <2>1, <4>1, Typed, QueueStays
    <3>2. CASE ~Cancelled(r)
      <4>1. followUps' = <<msg[r]>> \o followUps /\ m \notin cleared
        BY <1>4, <1>6, <3>2 DEF PutBack, Cancelled
      <4> QED BY <1>1, <1>4, <1>6, <2>1, <4>1, Typed, QueuePutBack
    <3> QED BY <3>1, <3>2
  <2>4. DrainInv' /\ drain' \in [of : 0..MaxSends, cancelled : BOOLEAN]
    BY <1>6, DrainOver
  <2>5. Straight' => abort.waiting /\ abort.for = r
    BY <1>4, <1>6 DEF Straight, Cancelled
  <2>6. RunOf(r)'
    <3>1. at'[m] = "done"
      BY <1>1, <1>4, <2>1
    <3> QED BY <1>4, <2>1, <3>1 DEF RunOf
  <2>7. turn' \in 0..MaxSends /\ odd \subseteq odd' /\ odd' \subseteq Odd
    BY <1>6, Typed DEF Odd
  <2>8. count' \in [aborts : Nat, failures : Nat]
    BY <1>6, Counted
  <2> QED BY <1>1, <1>5, <1>6, <2>2, <2>3, <2>4, <2>5, <2>6, <2>7, <2>8, GoStep
<1>7. ASSUME ~send[m].prepared, drain' = NoDrain, Go(r, "user"),
             UNCHANGED <<pending, send, followUps, turn, recorded, odd, count>>
      PROVE  IInv'
  <2>1. at'[r] = "user" /\ \A x \in Sends \ {r} : at'[x] = at[x]
    BY <1>7, Typed
  <2>2. Promises /\ Waits /\ Answers
    BY <1>7, PromisesStay
  <2>3. QueueInv' /\ recorded' \subseteq Sends
    BY <1>1, <1>7, <2>1, QueueStays
  <2>4. DrainInv' /\ drain' \in [of : 0..MaxSends, cancelled : BOOLEAN]
    BY <1>7, DrainOver
  <2>5. Straight' => \A p \in Sends : Awaits(p)' => p = msg'[r]
    BY <1>3, <1>4, <1>7, <2>2 DEF Waits, Straight
  <2>6. RunOf(r)'
    <3>1. at'[m] = "done" /\ followUps' = followUps /\ send' = send
      BY <1>1, <1>4, <1>7, <2>1
    <3> QED BY <1>4, <1>7, <2>1, <3>1 DEF RunOf
  <2>7. turn' \in 0..MaxSends /\ odd \subseteq odd' /\ odd' \subseteq Odd /\ followUps' \in Seq(Sends)
    BY <1>7, Typed
  <2>8. count' \in [aborts : Nat, failures : Nat]
    BY <1>7, Counted
  <2> QED BY <1>1, <1>5, <1>7, <2>2, <2>3, <2>4, <2>5, <2>6, <2>7, <2>8, GoStep
<1>8. ASSUME r \notin aborted, recorded' = recorded \cup {m},
             send' = [send EXCEPT ![m].committed = TRUE, ![m].answer = IF Open(m) THEN m ELSE @,
                                  ![m].state = IF Open(m) THEN "resolved" ELSE @],
             turn' = m, Go(r, "preparedNext"), UNCHANGED <<pending, count, drain, followUps, odd>>
      PROVE  IInv'
  <2>1. at'[r] = "preparedNext" /\ \A x \in Sends \ {r} : at'[x] = at[x]
    BY <1>8, Typed
  <2>2. Promises /\ Waits /\ Answers /\ ~Open(m)'
    BY <1>8, Durable
  <2>3. QueueInv' /\ recorded' \subseteq Sends
    BY <1>1, <1>8, <2>1, QueueStays
  <2>4. DrainInv' /\ drain' \in [of : 0..MaxSends, cancelled : BOOLEAN]
    BY <1>1, <1>8, <2>1, DrainStays DEF Elsewhere
  <2>5. Straight' => \A p \in Sends : ~Awaits(p)'
    BY <1>3, <1>8, <2>2 DEF Waits, Straight, Awaits, Open
  <2>6. RunOf(r)'
    <3>1. at'[m] = "done" /\ followUps' = followUps /\ drain' = drain /\ aborted' = aborted /\ m \in recorded'
      BY <1>1, <1>4, <1>8, <2>1
    <3> QED BY <1>4, <1>8, <2>1, <3>1 DEF RunOf
  <2>7. turn' \in 0..MaxSends /\ odd \subseteq odd' /\ odd' \subseteq Odd /\ followUps' \in Seq(Sends)
    BY <1>8, Typed
  <2>8. count' \in [aborts : Nat, failures : Nat]
    BY <1>8, Counted
  <2> QED BY <1>1, <1>5, <1>8, <2>2, <2>3, <2>4, <2>5, <2>6, <2>7, <2>8, GoStep
<1>9. ASSUME count' = IF r \in aborted THEN count ELSE [count EXCEPT !.failures = @ + 1], RejectPending(m),
             turn' = 0, drain' = NoDrain, Go(r, "end"), UNCHANGED <<recorded, followUps, odd>>
      PROVE  IInv'
  <2>1. at'[r] = "end" /\ \A x \in Sends \ {r} : at'[x] = at[x]
    BY <1>9, Typed
  <2>2. Promises /\ Waits /\ Answers /\ ~Open(m)'
    BY <1>9, Rejected
  <2>3. QueueInv' /\ recorded' \subseteq Sends
    BY <1>1, <1>9, <2>1, QueueStays
  <2>4. DrainInv' /\ drain' \in [of : 0..MaxSends, cancelled : BOOLEAN]
    BY <1>9, DrainOver
  <2>5. Straight' => \A p \in Sends : ~Awaits(p)'
    BY <1>3, <1>9, <2>2 DEF Waits, Straight, Awaits, Open
  <2>6. RunOf(r)'
    <3>1. at'[m] = "done"
      BY <1>1, <1>4, <2>1
    <3> QED BY <1>4, <2>1, <3>1 DEF RunOf
  <2>7. turn' \in 0..MaxSends /\ odd \subseteq odd' /\ odd' \subseteq Odd /\ followUps' \in Seq(Sends)
    BY <1>9, Typed
  <2>8. count' \in [aborts : Nat, failures : Nat]
    BY <1>9, Counted
  <2> QED BY <1>1, <1>5, <1>9, <2>2, <2>3, <2>4, <2>5, <2>6, <2>7, <2>8, GoStep
<1> QED BY <1>6, <1>7, <1>8, <1>9 DEF FollowUpTurn, Prepared

LEMMA PromoteStep ==
    ASSUME IInv, NEW r \in Sends, Promote(r)
    PROVE  IInv'
<1>1. at[r] = "promote" /\ UNCHANGED <<lead, drain, finalizing, abort, recorded, cleared, odd, count>>
  BY DEF Promote, Stands
<1>2. runPromise = r /\ r # 0 /\ drain' = NoDrain
  BY <1>1, TheRun, NothingDrained
<1>3. Straight => \A p \in Sends : ~Awaits(p)
  BY <1>1, OnlyOwnWaits
<1>4. count' \in [aborts : Nat, failures : Nat] /\ odd \subseteq odd' /\ odd' \subseteq Odd
  BY <1>1, Counted, Typed
<1>5. CASE followUps = <<>>
  <2>1. RunRejects(r) /\ UNCHANGED <<msg, followUps, aborted>>
    BY <1>5 DEF Promote
  <2>2. /\ at' = [at EXCEPT ![r] = "done"] /\ running' = FALSE
        /\ Promises /\ Waits /\ Answers /\ runPromise' = 0 /\ controller' = 0 /\ phase' = "idle" /\ turn' = 0
    BY <1>1, <2>1, PromptFailsOver DEF RunRejects
  <2>3. at'[r] \notin Before /\ \A x \in Sends \ {r} : at'[x] = at[x]
    BY <2>2, Typed DEF VarsInv
  <2>4. QueueInv' /\ recorded' \subseteq Sends /\ followUps' \in Seq(Sends)
    BY <1>1, <2>1, <2>3, Typed, QueueStays
  <2>5. Straight' => \A p \in Sends : ~Awaits(p)'
    BY <1>1, <1>3, <2>2 DEF Waits, Straight
  <2> QED BY <1>1, <1>2, <1>4, <2>1, <2>2, <2>4, <2>5, EndStep
<1>6. CASE followUps # <<>>
  <2>0. PICK m : m = Head(followUps)
    OBVIOUS
  <2>1. /\ Go(r, "promoting") /\ msg' = [msg EXCEPT ![r] = m] /\ followUps' = Tail(followUps)
        /\ controller' = r /\ aborted' = aborted \ {r} /\ turn' = m
        /\ UNCHANGED <<running, pending, send, phase, runPromise>>
    BY <1>6, <2>0 DEF Promote
  <2>2. at'[r] = "promoting" /\ \A x \in Sends \ {r} : at'[x] = at[x]
    BY <2>1, Typed
  <2>3. /\ QueueInv' /\ followUps' \in Seq(Sends) /\ recorded' \subseteq Sends
        /\ m \in Sends /\ at[m] = "done" /\ m \notin recorded \cup cleared \cup ToSet(followUps')
    BY <1>1, <1>6, <2>0, <2>1, <2>2, Typed, QueueTaken
  <2>4. msg' \in [Sends -> Sends] /\ msg'[r] = m /\ \A x \in Sends \ {r} : msg'[x] = msg[x]
    BY <2>1, <2>3, Typed
  <2>5. at'[m] = "done" /\ turn' \in 0..MaxSends
    BY <1>1, <2>1, <2>2, <2>3 DEF Sends
  <2>6. DrainInv' /\ drain' \in [of : 0..MaxSends, cancelled : BOOLEAN]
    BY <1>2, DrainOver
  <2>7. Promises /\ Waits /\ Answers
    BY <2>1, PromisesStay
  <2>8. RunOf(r)'
    BY <1>1, <2>2, <2>3, <2>4, <2>5 DEF RunOf
  <2>9. Straight' => \A p \in Sends : ~Awaits(p)'
    BY <1>1, <1>3, <2>7 DEF Waits, Straight
  <2>10. aborted' \subseteq Sends
    BY <2>1, Typed
  <2> QED BY <1>1, <1>4, <2>1, <2>3, <2>4, <2>5, <2>6, <2>7, <2>8, <2>9, <2>10, GoStep
<1> QED BY <1>5, <1>6

LEMMA PromotingStep ==
    ASSUME IInv, NEW r \in Sends, Promoting(r)
    PROVE  IInv'
<1> PICK m \in Sends : m = msg[r]
  BY Typed
<1>1. at[r] = "promoting" /\ UNCHANGED <<lead, msg, drain, finalizing, aborted, abort, recorded, cleared>>
  BY DEF Promoting, Stands
<1>2. controller = r /\ drain' = NoDrain
  BY <1>1, TheRun, NothingDrained
<1>3. Straight => \A p \in Sends : ~Awaits(p)
  BY <1>1, OnlyOwnWaits
<1>4. /\ RunOf(r) /\ msg'[r] = m /\ at[m] = "done" /\ m \notin ToSet(followUps) /\ m \notin recorded /\ m \notin cleared
      /\ aborted' \subseteq Sends /\ msg' \in [Sends -> Sends]
  <2>1. RunOf(r) /\ msg'[r] = m /\ aborted' \subseteq Sends /\ msg' \in [Sends -> Sends]
    BY <1>1, Typed
  <2> QED BY <1>1, <2>1 DEF RunOf
<1>5. DrainInv' /\ drain' \in [of : 0..MaxSends, cancelled : BOOLEAN]
  BY <1>2, DrainOver
<1>6. ASSUME NEW stage \in {"prepare", "user"}, Go(r, stage), (stage = "user" => ~send[m].prepared),
             send' = [send EXCEPT ![m].awaiting = Activated(m)],
             UNCHANGED <<running, pending, phase, turn, controller, runPromise, followUps, odd, count>>
      PROVE  IInv'
  <2>1. at'[r] = stage /\ \A x \in Sends \ {r} : at'[x] = at[x]
    BY <1>6, Typed
  <2>2. Promises /\ Answers /\ \A x \in Sends \ {m} : send'[x] = send[x]
    BY <1>6, Marked
  <2>3. QueueInv' /\ recorded' \subseteq Sends
    BY <1>1, <1>6, <2>1, QueueStays
  <2>4. Straight' => \A p \in Sends : Awaits(p)' => p = msg'[r]
    BY <1>3, <1>4, <1>6, <2>2 DEF Straight, Awaits, Open
  <2>5. RunOf(r)'
    <3>1. /\ at'[m] = "done" /\ send'[m].prepared = send[m].prepared /\ followUps' = followUps /\ cleared' = cleared
      BY <1>1, <1>4, <1>6, <2>1, <2>2 DEF Promises
    <3> QED BY <1>4, <1>6, <2>1, <3>1 DEF RunOf
  <2>6. controller' = r /\ turn' \in 0..MaxSends
        /\ followUps' \in Seq(Sends) /\ odd \subseteq odd' /\ odd' \subseteq Odd
    BY <1>2, <1>6, Typed
  <2>7. count' \in [aborts : Nat, failures : Nat]
    BY <1>6, Counted
  <2> QED BY <1>1, <1>4, <1>5, <1>6, <2>2, <2>3, <2>4, <2>5, <2>6, <2>7, GoStep
<1>7. ASSUME count' = IF r \in aborted THEN count ELSE [count EXCEPT !.failures = @ + 1], RejectPending(m),
             turn' = 0, controller' = 0, Go(r, "promote"), UNCHANGED <<running, phase, runPromise, followUps, odd>>
      PROVE  IInv'
  <2>1. at'[r] = "promote" /\ \A x \in Sends \ {r} : at'[x] = at[x]
    BY <1>7, Typed
  <2>2. Promises /\ Waits /\ Answers
    BY <1>7, Rejected
  <2>3. QueueInv' /\ recorded' \subseteq Sends
    BY <1>1, <1>7, <2>1, QueueStays
  <2>4. Straight' => \A p \in Sends : ~Awaits(p)'
    BY <1>3, <1>7, <2>2 DEF Waits, Straight
  <2>5. RunOf(r)'
    <3>1. at'[m] = "done" /\ followUps' = followUps
      BY <1>1, <1>4, <1>7, <2>1
    <3> QED BY <1>4, <2>1, <3>1 DEF RunOf
  <2>6. turn' \in 0..MaxSends /\ followUps' \in Seq(Sends) /\ odd \subseteq odd' /\ odd' \subseteq Odd
    BY <1>7, Typed
  <2>7. count' \in [aborts : Nat, failures : Nat]
    BY <1>7, Counted
  <2> QED BY <1>1, <1>4, <1>5, <1>7, <2>2, <2>3, <2>4, <2>5, <2>6, <2>7, GoStep
<1>8. ASSUME Fails, RunRejects(r), followUps' = <<m>> \o followUps, odd' = odd \cup {"putBack"}
      PROVE  IInv'
  <2>1. /\ at' = [at EXCEPT ![r] = "done"] /\ running' = FALSE
        /\ Promises /\ Waits /\ Answers /\ runPromise' = 0 /\ controller' = 0 /\ phase' = "idle" /\ turn' = 0
    BY <1>1, <1>8, PromptFailsOver DEF RunRejects
  <2>2. at'[r] \notin Before /\ \A x \in Sends \ {r} : at'[x] = at[x]
    BY <2>1, Typed DEF VarsInv
  <2>3. QueueInv' /\ recorded' \subseteq Sends /\ followUps' \in Seq(Sends)
    BY <1>1, <1>4, <1>8, <2>2, Typed, QueuePutBack
  <2>4. odd \subseteq odd' /\ odd' \subseteq Odd /\ ~Straight'
    BY <1>8, Typed DEF Odd, Straight
  <2>5. count' \in [aborts : Nat, failures : Nat]
    BY <1>8, Counted
  <2> QED BY <1>1, <1>2, <1>8, <2>1, <2>3, <2>4, <2>5, EndStep
<1>9. ASSUME send' = [send EXCEPT ![m].awaiting = Activated(m)], Go(r, IF send[m].prepared THEN "prepare" ELSE "user"),
             UNCHANGED <<running, pending, phase, turn, controller, runPromise, followUps, odd, count>>
      PROVE  IInv'
  <2>1. CASE send[m].prepared
    BY <1>6, <1>9, <2>1
  <2>2. CASE ~send[m].prepared
    BY <1>6, <1>9, <2>2
  <2> QED BY <2>1, <2>2
<1> QED BY <1>7, <1>8, <1>9 DEF Promoting

-----------------------------------------------------------------------------
(* Sending and aborting *)

\* A step of a send that is not a run: the run does not notice.
LEMMA OutsideStep ==
    ASSUME IInv, NEW m \in Sends, at[m] \in Before, at' \in [Sends -> Stages],
           \A x \in Sends \ {m} : at'[x] = at[x], at'[m] \in Before \cup {"done"},
           UNCHANGED <<msg, phase, drain, turn, controller, runPromise, finalizing, aborted, abort, recorded, cleared>>,
           \/ UNCHANGED followUps
           \/ at'[m] = "done" /\ followUps' = Append(followUps, m),
           \A x \in Sends \ {m} : send'[x].prepared = send[x].prepared
    PROVE  /\ RunInv' /\ AbortInv' /\ QueueInv' /\ DrainInv' /\ followUps' \in Seq(Sends)
           /\ \A r \in Sends : RunOf(r)'
<1>1. /\ RunInv /\ AbortInv /\ QueueInv /\ DrainInv /\ VarsInv /\ \A r \in Sends : RunOf(r)
      /\ ToSet(followUps) \subseteq Sends
  BY ElementOfSeq, LenProperties DEF IInv, VarsInv, ToSet
<1>2. m \notin ToSet(followUps) /\ m \notin cleared
  BY <1>1 DEF QueueInv
<1>3. \A x \in Sends : at[x] = "done" => at'[x] = "done" /\ x # m
  OBVIOUS
<1>4. RunInv'
  BY <1>1 DEF RunInv
<1>5. abort.waiting /\ runPromise # abort.for => abort.for \in Sends
  <2>1. abort.for \in 0..MaxSends /\ runPromise \in 0..MaxSends
    BY <1>1 DEF VarsInv
  <2> QED BY <1>1, <2>1 DEF AbortInv, Sends
<1>6. AbortInv'
  BY <1>1, <1>3, <1>5 DEF AbortInv
<1>7. /\ followUps' \in Seq(Sends) /\ Once(followUps') /\ ToSet(followUps') \subseteq ToSet(followUps) \cup {m}
      /\ m \in ToSet(followUps') => at'[m] = "done"
  <2>1. followUps \in Seq(Sends) /\ Once(followUps)
    BY <1>1 DEF QueueInv, VarsInv
  <2>2. CASE UNCHANGED followUps
    BY <1>2, <2>1, <2>2
  <2>3. CASE at'[m] = "done" /\ followUps' = Append(followUps, m)
    BY <1>2, <2>1, <2>3, JoinOnce
  <2> QED BY <2>2, <2>3
<1>8. QueueInv'
  <2>1. \A x \in recorded : at[x] \notin Before /\ x \in Sends /\ x # m
    BY <1>1 DEF QueueInv, VarsInv
  <2>2. cleared \subseteq Sends /\ \A x \in cleared : at[x] = "done"
    BY <1>1 DEF QueueInv, VarsInv
  <2>3. \A x \in ToSet(followUps) : at[x] = "done" /\ x \notin cleared /\ (x \notin recorded \/ finalizing)
    BY <1>1 DEF QueueInv
  <2> QED BY <1>1, <1>2, <1>3, <1>7, <2>1, <2>2, <2>3 DEF QueueInv
<1>9. DrainInv'
  <2>1. drain.of # 0 => runPromise \in Sends /\ runPromise # m /\ drain.of \in Sends /\ drain.of # m
    <3>1. runPromise \in 0..MaxSends /\ drain.of \in 0..MaxSends
      BY <1>1 DEF VarsInv
    <3> QED BY <1>1, <3>1 DEF DrainInv, Sends
  <2> QED BY <1>1, <1>3, <1>7, <2>1 DEF DrainInv
<1>10. ASSUME NEW r \in Sends PROVE RunOf(r)'
  <2>1. RunOf(r) /\ msg[r] \in Sends
    BY <1>1 DEF VarsInv
  <2>2. CASE r = m
    <3>1. msg[m] = m
      BY <2>1, <2>2 DEF RunOf
    <3> QED BY <2>2, <3>1 DEF RunOf
  <2>3. CASE r # m
    <3>1. at[r] \in Running => msg[r] # m
      BY <2>1, <2>3 DEF RunOf
    <3>2. at'[r] = at[r] /\ (at[r] \in Running => send'[msg[r]].prepared = send[msg[r]].prepared)
      BY <2>1, <2>3, <3>1
    <3> QED BY <1>3, <1>7, <2>1, <3>1, <3>2 DEF RunOf
  <2> QED BY <2>2, <2>3
<1> QED BY <1>4, <1>6, <1>7, <1>8, <1>9, <1>10

\* Nor do the promises that wait for it.
LEMMA WaitsOutside ==
    ASSUME IInv, NEW m \in Sends, at[m] \in Before, \A x \in Sends \ {m} : at'[x] = at[x],
           UNCHANGED <<msg, runPromise, abort>>, NEW p \in Sends \ {m}, AwaitsHere(p)
    PROVE  AwaitsHere(p)'
<1>1. RunInv /\ VarsInv
  BY DEF IInv
<1>2. runPromise # 0 => runPromise \in Sends /\ runPromise # m
  BY <1>1 DEF RunInv, VarsInv, Sends
<1>3. abort.for # 0 => abort.for \in Sends
  BY <1>1 DEF VarsInv, Sends
<1> QED BY <1>2, <1>3 DEF AwaitsHere

LEMMA SendStep ==
    ASSUME IInv, NEW m \in Sends, NEW prepared \in BOOLEAN, SendMessage(m, prepared)
    PROVE  IInv'
<1>1. /\ at[m] = "none" /\ pending' = Append(pending, m)
      /\ send' = [send EXCEPT ![m] = [state |-> "open", answer |-> 0, prepared |-> prepared,
                                      awaiting |-> ~running, committed |-> FALSE, lead |-> lead]]
      /\ at' = [at EXCEPT ![m] = IF running THEN "queueing" ELSE "gate"]
      /\ running' = TRUE
      /\ lead' = IF running THEN lead ELSE m
      /\ odd' = IF ~running /\ \E k \in Sends : at[k] = "gate" THEN odd \cup {"twoPrompts"} ELSE odd
      /\ UNCHANGED <<msg, phase, followUps, drain, turn, controller, runPromise, finalizing, aborted, abort, recorded, cleared, count>>
  BY DEF SendMessage, Stands, harnessVars
<1>2. VarsInv /\ PromiseInv /\ AnswerInv
  BY DEF IInv
<1>3. /\ at' \in [Sends -> Stages] /\ at'[m] = (IF running THEN "queueing" ELSE "gate")
      /\ \A x \in Sends \ {m} : at'[x] = at[x]
  BY <1>1, <1>2 DEF VarsInv
<1>4. /\ send' \in [Sends -> Promise] /\ \A x \in Sends \ {m} : send'[x] = send[x]
      /\ send'[m].state = "open" /\ ~send'[m].committed /\ (send'[m].awaiting => ~running)
  <2>1. running \in BOOLEAN /\ lead \in 0..MaxSends /\ 0 \in 0..MaxSends
    BY <1>2, Typed DEF VarsInv
  <2>2. [state |-> "open", answer |-> 0, prepared |-> prepared,
         awaiting |-> ~running, committed |-> FALSE, lead |-> lead] \in Promise
    BY <2>1 DEF Promise
  <2> QED BY <1>1, <1>2, <2>2 DEF VarsInv
<1>5. /\ RunInv' /\ AbortInv' /\ QueueInv' /\ DrainInv' /\ followUps' \in Seq(Sends)
      /\ \A r \in Sends : RunOf(r)'
  BY <1>1, <1>3, <1>4, OutsideStep
<1>6. pending' \in Seq(Sends) /\ Once(pending') /\ ToSet(pending') = ToSet(pending) \cup {m}
  BY <1>1, <1>2, JoinOnce DEF VarsInv, PromiseInv
<1>7. VarsInv'
  <2>1. lead' \in 0..MaxSends
    BY <1>1, <1>2, Typed DEF VarsInv
  <2>2. odd' \subseteq Odd
    BY <1>1, <1>2 DEF VarsInv, Odd
  <2> QED BY <1>1, <1>2, <1>3, <1>4, <1>5, <1>6, <2>1, <2>2 DEF VarsInv
<1>8. PromiseInv'
  <2>1. ToSet(pending) \subseteq Sends
    BY <1>2, ElementOfSeq, LenProperties DEF VarsInv, ToSet
  <2> QED BY <1>2, <1>3, <1>4, <1>6, <2>1 DEF PromiseInv, Open
<1>9. Straight' => Straight /\ (~running => \A k \in Sends : at[k] # "gate")
  BY <1>1 DEF Straight
<1>10. AnswerInv'
  <2>1. ASSUME NEW k \in Sends, send'[k].state = "resolved", Straight' PROVE send'[k].answer = k
    BY <1>2, <1>4, <1>9, <2>1 DEF AnswerInv
  <2>2. ASSUME Straight', NEW k \in Sends, at'[k] = "gate"
        PROVE  /\ running' /\ runPromise' = 0 /\ Open(k)'
               /\ \A j \in Sends : at'[j] = "gate" => j = k
    <3>1. CASE running
      BY <1>1, <1>2, <1>3, <1>4, <1>9, <2>2, <3>1 DEF AnswerInv, Open
    <3>2. CASE ~running
      <4>1. k = m /\ \A j \in Sends : at'[j] = "gate" => j = k
        BY <1>3, <1>9, <2>2, <3>2
      <4> QED BY <1>1, <1>2, <1>4, <1>9, <2>2, <3>2, <4>1 DEF AnswerInv, Open
    <3> QED BY <3>1, <3>2
  <2>3. ASSUME Straight', NEW p \in Sends, Awaits(p)' PROVE AwaitsHere(p)'
    <3>1. CASE p = m
      BY <1>3, <1>4, <2>3, <3>1 DEF Awaits, AwaitsHere
    <3>2. CASE p # m
      <4>1. Awaits(p)
        BY <1>4, <2>3, <3>2 DEF Awaits, Open
      <4> QED BY <1>1, <1>2, <1>3, <1>9, <2>3, <3>2, <4>1, WaitsOutside DEF AnswerInv
    <3> QED BY <3>1, <3>2
  <2> QED BY <1>1, <2>1, <2>2, <2>3 DEF AnswerInv
<1> QED BY <1>5, <1>7, <1>8, <1>10 DEF IInv

LEMMA FollowUpStep ==
    ASSUME IInv, NEW m \in Sends, FollowUp(m)
    PROVE  IInv'
<1>1. /\ at[m] = "queueing" /\ at' = [at EXCEPT ![m] = "done"]
      /\ (RejectPending(m) /\ UNCHANGED followUps) \/ (followUps' = Append(followUps, m) /\ UNCHANGED <<pending, send>>)
      /\ UNCHANGED <<running, lead, msg, phase, drain, turn, controller, runPromise, finalizing,
                     aborted, abort, recorded, cleared, odd, count>>
  BY DEF FollowUp, Stands
<1>2. VarsInv /\ AnswerInv
  BY DEF IInv
<1>3. at' \in [Sends -> Stages] /\ at'[m] = "done" /\ \A x \in Sends \ {m} : at'[x] = at[x]
  BY <1>1, <1>2 DEF VarsInv
<1>4. Promises /\ Waits /\ Answers /\ \A x \in Sends \ {m} : send'[x] = send[x]
  BY <1>1, Rejected, PromisesStay
<1>5. /\ RunInv' /\ AbortInv' /\ QueueInv' /\ DrainInv' /\ followUps' \in Seq(Sends)
      /\ \A r \in Sends : RunOf(r)'
  BY <1>1, <1>3, <1>4, OutsideStep
<1>6. VarsInv'
  <2>1. send' \in [Sends -> Promise] /\ pending' \in Seq(Sends)
    BY <1>4 DEF Promises
  <2> QED BY <1>1, <1>2, <1>3, <1>5, <2>1 DEF VarsInv
<1>7. PromiseInv'
  BY <1>3, <1>4, PromiseStep
<1>8. AnswerInv'
  <2>1. Straight' => Straight
    BY <1>1 DEF Straight
  <2>2. ASSUME NEW k \in Sends, send'[k].state = "resolved", Straight' PROVE send'[k].answer = k
    BY <1>2, <1>4, <2>1, <2>2 DEF AnswerInv, Answers
  <2>3. ASSUME Straight', NEW k \in Sends, at'[k] = "gate"
        PROVE  /\ running' /\ runPromise' = 0 /\ Open(k)'
               /\ \A j \in Sends : at'[j] = "gate" => j = k
    BY <1>1, <1>2, <1>3, <1>4, <2>1, <2>3 DEF AnswerInv, Open
  <2>4. ASSUME Straight', NEW p \in Sends, Awaits(p)' PROVE AwaitsHere(p)'
    <3>1. Awaits(p) /\ AwaitsHere(p)
      BY <1>2, <1>4, <2>1, <2>4 DEF Waits, AnswerInv
    <3>2. CASE p # m
      BY <1>1, <1>3, <3>1, <3>2, WaitsOutside
    <3>3. CASE p = m
      <4>1. ~(at[p] = "gate")
        BY <1>1, <3>3
      <4>2. RunInv
        BY DEF IInv
      <4>3. runPromise # 0 => at'[runPromise] = at[runPromise]
        BY <1>1, <1>2, <1>3, <4>2 DEF RunInv, VarsInv, Sends
      <4>4. abort.for # 0 /\ at[abort.for] \in {"end", "done"} => at'[abort.for] = at[abort.for]
        BY <1>1, <1>2, <1>3 DEF VarsInv, Sends
      <4> QED BY <1>1, <3>1, <4>1, <4>3, <4>4 DEF AwaitsHere
    <3> QED BY <3>2, <3>3
  <2> QED BY <1>1, <1>2, <2>1, <2>2, <2>3, <2>4 DEF AnswerInv
<1> QED BY <1>5, <1>6, <1>7, <1>8 DEF IInv

LEMMA PromptStep ==
    ASSUME IInv, NEW m \in Sends, Prompt(m)
    PROVE  IInv'
<1>1. /\ at[m] = "gate" /\ ~(abort.waiting /\ RunOver)
      /\ UNCHANGED <<lead, msg, followUps, drain, turn, controller, finalizing, aborted, abort,
                     recorded, cleared, odd>>
  BY DEF Prompt, Stands
<1>2. VarsInv /\ AnswerInv /\ RunInv /\ AbortInv /\ DrainInv /\ QueueInv /\ m \in 0..MaxSends /\ m # 0
  BY SMTT(30) DEF IInv, VarsInv, Sends
<1>3. Straight' => Straight
  BY <1>1 DEF Straight
<1>4. ASSUME PromptFails(m), UNCHANGED <<phase, runPromise>>, Fails \/ UNCHANGED count
      PROVE  IInv'
  <2>1. /\ at' \in [Sends -> Stages] /\ at'[m] \in {"refused", "done"} /\ \A x \in Sends \ {m} : at'[x] = at[x]
        /\ running' = FALSE /\ RejectPending(m)
    BY <1>2, <1>4 DEF PromptFails, VarsInv
  <2>2. Promises /\ Waits /\ Answers /\ ~Open(m)' /\ \A x \in Sends \ {m} : send'[x] = send[x]
    BY <2>1, Rejected
  <2>3. /\ RunInv' /\ AbortInv' /\ QueueInv' /\ DrainInv' /\ followUps' \in Seq(Sends)
        /\ \A r \in Sends : RunOf(r)'
    BY <1>1, <1>4, <2>1, <2>2, OutsideStep
  <2>4. VarsInv'
    <3>1. send' \in [Sends -> Promise] /\ pending' \in Seq(Sends) /\ count' \in [aborts : Nat, failures : Nat]
      BY <1>4, <2>2, Counted DEF Promises
    <3> QED BY <1>1, <1>2, <1>4, <2>1, <2>3, <3>1 DEF VarsInv
  <2>5. PromiseInv'
    BY <2>1, <2>2, PromiseStep
  <2>6. AnswerInv'
    <3>1. ASSUME NEW k \in Sends, send'[k].state = "resolved", Straight' PROVE send'[k].answer = k
      BY <1>2, <1>3, <2>2, <3>1 DEF AnswerInv, Answers
    <3>2. Straight' => runPromise' = 0 /\ \A k \in Sends : at'[k] # "gate"
      BY <1>1, <1>2, <1>3, <1>4, <2>1 DEF AnswerInv
    <3>3. ASSUME Straight', NEW p \in Sends, Awaits(p)' PROVE AwaitsHere(p)'
      <4>1. Awaits(p) /\ AwaitsHere(p) /\ p # m
        BY <1>2, <1>3, <2>2, <3>3 DEF Waits, AnswerInv, Awaits
      <4> QED BY <1>1, <1>4, <2>1, <4>1, WaitsOutside
    <3> QED BY <3>1, <3>2, <3>3 DEF AnswerInv
  <2> QED BY <2>3, <2>4, <2>5, <2>6 DEF IInv
<1>5. ASSUME ~Busy, phase' = "turn", runPromise' = m, at' = [at EXCEPT ![m] = "start"],
             UNCHANGED <<running, pending, send, count>>
      PROVE  IInv'
  <2>1. at' \in [Sends -> Stages] /\ at'[m] = "start" /\ \A x \in Sends \ {m} : at'[x] = at[x]
    BY <1>2, <1>5 DEF VarsInv
  <2>2. phase = "idle" /\ runPromise = 0 /\ ~finalizing /\ \A x \in Sends : at[x] \notin Running
    BY <1>2, <1>5 DEF Busy, RunInv, Sends
  <2>3. ~abort.waiting
    BY <1>1, <1>2, <2>2 DEF AbortInv, RunOver
  <2>4. drain.of = 0 /\ ~drain.cancelled
    BY <1>2, <2>2 DEF DrainInv
  <2>5. RunInv'
    BY <1>1, <1>2, <1>5, <2>1, <2>2 DEF RunInv
  <2>6. AbortInv' /\ DrainInv'
    BY <1>1, <2>3, <2>4 DEF AbortInv, DrainInv
  <2>7. QueueInv'
    <3>1. ToSet(followUps) \subseteq Sends /\ cleared \subseteq Sends /\ recorded \subseteq Sends
      BY <1>2, ElementOfSeq, LenProperties DEF VarsInv, ToSet
    <3> QED BY <1>1, <1>2, <2>1, <3>1 DEF QueueInv
  <2>8. VarsInv'
    BY <1>1, <1>2, <1>5, <2>1 DEF VarsInv
  <2>9. PromiseInv'
    <3>1. Promises
      BY <1>5, PromisesStay
    <3> QED BY <1>1, <2>1, <3>1, PromiseStep
  <2>10. AnswerInv'
    <3>1. ASSUME NEW k \in Sends, send'[k].state = "resolved", Straight' PROVE send'[k].answer = k
      BY <1>2, <1>3, <1>5, <3>1 DEF AnswerInv
    <3>2. Straight' => running' /\ \A k \in Sends : at'[k] # "gate"
      BY <1>1, <1>2, <1>3, <1>5, <2>1 DEF AnswerInv
    <3>3. ASSUME Straight', NEW p \in Sends, Awaits(p)' PROVE AwaitsHere(p)'
      <4>1. Awaits(p) /\ AwaitsHere(p)
        BY <1>2, <1>3, <1>5, <3>3 DEF AnswerInv, Awaits, Open
      <4>2. at[p] = "gate"
        BY <2>2, <2>3, <4>1 DEF AwaitsHere
      <4>3. p = m
        BY <1>1, <1>2, <1>3, <3>3, <4>2 DEF AnswerInv
      <4>4. msg'[m] = m
        BY <1>1, Typed DEF RunOf
      <4> QED BY <1>2, <1>5, <2>1, <4>3, <4>4 DEF AwaitsHere
    <3> QED BY <3>1, <3>2, <3>3 DEF AnswerInv
  <2>11. ASSUME NEW r \in Sends PROVE RunOf(r)'
    <3>1. RunOf(r) /\ at[r] \notin Running /\ msg'[r] = msg[r]
      BY <1>1, <2>2 DEF IInv
    <3>2. m \notin ToSet(followUps)
      BY <1>1, <1>2 DEF QueueInv
    <3>3. CASE r = m
      <4>1. msg'[r] = m
        BY <1>1, <3>1, <3>3 DEF RunOf
      <4> QED BY <1>1, <2>1, <3>2, <3>3, <4>1 DEF RunOf
    <3>4. CASE r # m
      BY <2>1, <3>1, <3>4 DEF RunOf
    <3> QED BY <3>3, <3>4
  <2> QED BY <2>5, <2>6, <2>7, <2>8, <2>9, <2>10, <2>11 DEF IInv
<1> QED BY <1>4, <1>5 DEF Prompt

\* Going, by runPromise.
LEMMA GoingIs ==
    ASSUME IInv
    PROVE  Going = {runPromise} \ {0}
<1>1. RunInv /\ VarsInv
  BY DEF IInv
<1>2. \A r \in Sends : r \in Going <=> r = runPromise
  BY <1>1 DEF RunInv, VarsInv, Going
<1>3. runPromise \in Sends \cup {0} /\ 0 \notin Sends
  BY <1>1 DEF VarsInv, Sends
<1> QED BY <1>2, <1>3 DEF Going

LEMMA AbortStep ==
    ASSUME IInv, Abort
    PROVE  IInv'
<1>1. /\ ~abort.waiting /\ count' = [count EXCEPT !.aborts = @ + 1]
      /\ cleared' = cleared \cup ToSet(followUps) \cup InFlight
      /\ followUps' = <<>>
      /\ drain' = [drain EXCEPT !.cancelled = drain.of # 0]
      /\ aborted' = aborted \cup ({controller} \ {0})
      /\ abort' = [waiting |-> TRUE, for |-> runPromise, during |-> Going]
      /\ UNCHANGED <<running, pending, send, lead, at, msg, phase, turn, controller, runPromise, finalizing, recorded, odd>>
  BY DEF Abort, runtimeVars
<1>2. VarsInv /\ RunInv /\ QueueInv /\ DrainInv /\ PromiseInv /\ AnswerInv
  BY DEF IInv
<1>3. /\ ToSet(followUps) \subseteq Sends /\ followUps' \in Seq(Sends) /\ ToSet(followUps') = {} /\ Once(followUps')
      /\ InFlight \subseteq {drain.of} \ {0} /\ InFlight \subseteq Sends
  <2>1. followUps \in Seq(Sends) /\ drain.of \in 0..MaxSends
    BY <1>2 DEF VarsInv
  <2>2. ToSet(followUps) \subseteq Sends
    BY <2>1, ElementOfSeq, LenProperties DEF ToSet
  <2>3. followUps' \in Seq(Sends) /\ ToSet(followUps') = {} /\ Once(followUps')
    BY <1>1, EmptySeq DEF ToSet, Once
  <2>4. InFlight \subseteq {drain.of} \ {0} /\ InFlight \subseteq Sends
    BY <2>1 DEF InFlight, Sends
  <2> QED BY <2>2, <2>3, <2>4
<1>4. drain' \in [of : 0..MaxSends, cancelled : BOOLEAN] /\ drain'.of = drain.of /\ drain'.cancelled = (drain.of # 0)
  BY <1>1, <1>2 DEF VarsInv
<1>5. Going = {runPromise} \ {0} /\ Going \subseteq Sends
  BY GoingIs DEF Going
<1>6. VarsInv'
  <2>1. cleared' \subseteq Sends /\ aborted' \subseteq Sends
    BY <1>1, <1>2, <1>3 DEF VarsInv, Sends
  <2>2. abort' \in [waiting : BOOLEAN, for : 0..MaxSends, during : SUBSET Sends]
    BY <1>1, <1>2, <1>5 DEF VarsInv
  <2>3. count' \in [aborts : Nat, failures : Nat]
    <3>1. count \in [aborts : Nat, failures : Nat]
      BY <1>2 DEF VarsInv
    <3> QED BY <1>1, <3>1
  <2> QED BY <1>1, <1>2, <1>3, <1>4, <2>1, <2>2, <2>3 DEF VarsInv
<1>7. RunInv'
  BY <1>1, <1>2 DEF RunInv
<1>8. AbortInv'
  BY <1>1, <1>5 DEF AbortInv
<1>9. QueueInv'
  <2>1. \A m \in InFlight : at[m] = "done"
    BY <1>2, <1>3 DEF DrainInv
  <2> QED BY <1>1, <1>2, <1>3, <2>1 DEF QueueInv
<1>10. DrainInv'
  <2>1. drain.of # 0 => runPromise \in Sends /\ controller = runPromise
    BY <1>2 DEF DrainInv, RunInv, VarsInv, Sends
  <2>2. drain.of # 0 => runPromise \in aborted'
    BY <1>1, <1>2, <2>1 DEF DrainInv
  <2> QED BY <1>1, <1>2, <1>3, <1>4, <2>2 DEF DrainInv
<1>11. PromiseInv'
  BY <1>1, <1>2 DEF PromiseInv, Open
<1>12. AnswerInv'
  <2>1. \A p \in Sends : AwaitsHere(p) => AwaitsHere(p)'
    BY <1>1 DEF AwaitsHere
  <2>2. \A p \in Sends : Awaits(p)' = Awaits(p) /\ Open(p)' = Open(p)
    BY <1>1 DEF Awaits, Open
  <2>3. Straight' = Straight
    BY <1>1 DEF Straight
  <2> QED BY <1>1, <1>2, <2>1, <2>2, <2>3 DEF AnswerInv
<1>13. ASSUME NEW r \in Sends PROVE RunOf(r)'
  <2>1. RunOf(r) /\ msg[r] # 0
    BY <1>2 DEF IInv, VarsInv, Sends
  <2>2. at[r] \in {"prepare", "promoting"} => msg[r] \notin cleared'
    <3>1. CASE at[r] \in {"prepare", "promoting"}
      <4>1. drain = NoDrain
        BY <3>1, NothingDrained
      <4> QED BY <1>1, <1>3, <2>1, <3>1, <4>1 DEF RunOf, NoDrain
    <3> QED BY <3>1
  <2>3. at[r] \in Drained => drain'.of = msg[r] /\ drain'.cancelled
    BY <1>4, <2>1 DEF RunOf
  <2>4. at'[r] = at[r] /\ msg' = msg /\ send' = send /\ recorded' = recorded /\ ToSet(followUps') = {} /\ at' = at
    BY <1>1, <1>3
  <2> QED BY <2>1, <2>2, <2>3, <2>4 DEF RunOf
<1> QED BY <1>6, <1>7, <1>8, <1>9, <1>10, <1>11, <1>12, <1>13 DEF IInv

LEMMA AbortEndsStep ==
    ASSUME IInv, AbortEnds
    PROVE  IInv'
<1>1. /\ abort.waiting /\ RunOver
      /\ abort' = [waiting |-> FALSE, for |-> 0, during |-> {}]
      /\ running' = FALSE
      /\ send' = [m \in Sends |-> IF m \in ToSet(pending) /\ Open(m) THEN [send[m] EXCEPT !.state = "rejected"] ELSE send[m]]
      /\ pending' = <<>>
      /\ odd' = IF \E m \in Sends : Open(m) /\ OnItsWay(m) THEN odd \cup {"rejected"} ELSE odd
      /\ UNCHANGED <<lead, at, msg, phase, followUps, drain, turn, controller, runPromise, finalizing, aborted, recorded, cleared, count>>
  BY DEF AbortEnds, harnessVars
<1>2. VarsInv /\ RunInv /\ QueueInv /\ DrainInv /\ PromiseInv /\ AnswerInv /\ AbortInv
  BY DEF IInv
<1>3. runPromise = 0
  <2>1. runPromise = abort.for /\ runPromise # 0 => at[runPromise] = "done" /\ runPromise \in Sends
    BY <1>1, <1>2 DEF RunOver, VarsInv, Sends
  <2> QED BY <1>1, <1>2, <2>1 DEF AbortInv, RunInv
<1>4. drain.of = 0 /\ ~drain.cancelled
  BY <1>2, <1>3 DEF DrainInv
<1>5. ASSUME NEW m \in Sends
      PROVE  /\ send'[m] \in Promise /\ send'[m].state # "open" /\ send'[m].prepared = send[m].prepared
             /\ send'[m].state = "resolved" => send[m].state = "resolved" /\ send'[m].answer = send[m].answer
  <2>1. send[m] \in Promise
    BY <1>2 DEF VarsInv
  <2>2. CASE Open(m)
    <3>1. send'[m] = [send[m] EXCEPT !.state = "rejected"]
      BY <1>1, <1>2, <2>2 DEF PromiseInv
    <3> QED BY <2>1, <3>1 DEF Promise
  <2>3. CASE ~Open(m)
    BY <1>1, <2>1, <2>3 DEF Open
  <2> QED BY <2>2, <2>3
<1>6. VarsInv'
  <2>1. send' \in [Sends -> Promise]
    BY <1>1, <1>5
  <2>2. odd' \subseteq Odd /\ pending' \in Seq(Sends)
    BY <1>1, <1>2, EmptySeq DEF VarsInv, Odd
  <2>3. abort' \in [waiting : BOOLEAN, for : 0..MaxSends, during : SUBSET Sends]
    BY <1>1, SessionAssumption
  <2> QED BY <1>1, <1>2, <2>1, <2>2, <2>3 DEF VarsInv
<1>7. RunInv' /\ AbortInv' /\ QueueInv'
  BY <1>1, <1>2 DEF RunInv, AbortInv, QueueInv
<1>8. DrainInv'
  BY <1>1, <1>4 DEF DrainInv
<1>9. PromiseInv'
  <2>1. Once(pending') /\ ToSet(pending') = {}
    BY <1>1 DEF Once, ToSet
  <2> QED BY <1>5, <2>1 DEF PromiseInv, Open
<1>10. AnswerInv'
  <2>1. Straight' => Straight /\ ~\E m \in Sends : Open(m) /\ OnItsWay(m)
    BY <1>1 DEF Straight
  <2>2. Straight' => \A m \in Sends : at'[m] # "gate"
    BY <1>1, <1>2, <2>1 DEF AnswerInv, OnItsWay
  <2>3. \A m \in Sends : ~Awaits(m)'
    BY <1>5 DEF Awaits, Open
  <2>4. \A m \in Sends : send'[m].state = "resolved" /\ Straight' => send'[m].answer = m
    BY <1>2, <1>5, <2>1 DEF AnswerInv
  <2> QED BY <1>1, <1>3, <2>2, <2>3, <2>4 DEF AnswerInv
<1>11. ASSUME NEW r \in Sends PROVE RunOf(r)'
  <2>1. RunOf(r) /\ at[r] \notin Running
    BY <1>2, <1>3 DEF IInv, RunInv, Sends
  <2> QED BY <1>1, <2>1 DEF RunOf
<1> QED BY <1>6, <1>7, <1>8, <1>9, <1>10, <1>11 DEF IInv

LEMMA InvInit == SInit => IInv
<1> SUFFICES ASSUME SInit PROVE IInv
  OBVIOUS
<1>1. 0 \in 0..MaxSends /\ Sends \subseteq 0..MaxSends
  BY SessionAssumption DEF Sends
<1>2. VarsInv
  <2>1. [state |-> "none", answer |-> 0, prepared |-> FALSE,
         awaiting |-> FALSE, committed |-> FALSE, lead |-> 0] \in Promise
    BY <1>1 DEF Promise
  <2>2. send \in [Sends -> Promise]
    BY <2>1 DEF SInit
  <2>3. drain \in [of : 0..MaxSends, cancelled : BOOLEAN]
        /\ abort \in [waiting : BOOLEAN, for : 0..MaxSends, during : SUBSET Sends]
        /\ count \in [aborts : Nat, failures : Nat]
    BY <1>1 DEF SInit, NoDrain
  <2>4. pending \in Seq(Sends) /\ followUps \in Seq(Sends)
    BY EmptySeq DEF SInit
  <2> QED BY <1>1, <2>2, <2>3, <2>4 DEF SInit, VarsInv
<1>3. RunInv /\ AbortInv
  BY DEF SInit, RunInv, AbortInv, Sends
<1>4. QueueInv /\ PromiseInv
  BY DEF SInit, QueueInv, PromiseInv, Once, ToSet, Open
<1>5. DrainInv
  BY DEF SInit, DrainInv, NoDrain
<1>6. AnswerInv
  BY DEF SInit, AnswerInv, Awaits, Open
<1>7. \A r \in Sends : RunOf(r)
  BY DEF SInit, RunOf
<1> QED BY <1>2, <1>3, <1>4, <1>5, <1>6, <1>7 DEF IInv

LEMMA InvStep == IInv /\ [SNext]_svars => IInv'
<1> SUFFICES ASSUME IInv, [SNext]_svars PROVE IInv'
  OBVIOUS
<1>1. ASSUME NEW m \in Sends, NEW prepared \in BOOLEAN, SendMessage(m, prepared) PROVE IInv'
  BY <1>1, SendStep
<1>2. ASSUME NEW m \in Sends, Prompt(m) \/ FollowUp(m) PROVE IInv'
  BY <1>2, PromptStep, FollowUpStep
<1>3. ASSUME NEW m \in Sends, RunStep(m) PROVE IInv'
  BY <1>3, StartStep, PrepareStep, AfterPrepareStep, UserMessageStep, StreamStep, PollStep, BeginFollowUpStep,
     ActivateStep, FollowUpTurnStep, AgentEndStep, PromoteStep, PromotingStep DEF RunStep
<1>4. CASE Abort \/ AbortEnds
  BY <1>4, AbortStep, AbortEndsStep
<1>5. CASE UNCHANGED svars
  <2>1. UNCHANGED <<running, pending, send, lead, at, msg, phase, followUps, drain, turn, controller, runPromise,
                    finalizing, aborted, abort, recorded, cleared, odd, count>>
    BY <1>5 DEF svars, runtimeVars, harnessVars
  <2>2. VarsInv' /\ RunInv' /\ AbortInv' /\ QueueInv'
    BY <2>1 DEF IInv, VarsInv, RunInv, AbortInv, QueueInv
  <2>3. DrainInv' /\ PromiseInv'
    BY <2>1 DEF IInv, DrainInv, PromiseInv, Open
  <2>4. AnswerInv'
    BY <2>1 DEF IInv, AnswerInv, Straight, Awaits, AwaitsHere, Open
  <2>5. \A r \in Sends : RunOf(r)'
    BY <2>1 DEF IInv, RunOf
  <2> QED BY <2>2, <2>3, <2>4, <2>5 DEF IInv
<1> QED BY <1>1, <1>2, <1>3, <1>4, <1>5 DEF SNext

LEMMA Invariance == SSpec => []IInv
BY InvInit, InvStep, PTL DEF SSpec

-----------------------------------------------------------------------------
(* What follows *)

LEMMA TypeFollows == IInv => STypeOK
<1> SUFFICES ASSUME IInv PROVE STypeOK
  OBVIOUS
<1>1. VarsInv /\ PromiseInv
  BY DEF IInv
<1>2. drain.of \in 0..MaxSends /\ abort.for \in 0..MaxSends
  BY <1>1 DEF VarsInv
<1> QED BY <1>1, <1>2 DEF VarsInv, PromiseInv, STypeOK

\* Every variable keeps its type, and a promise of AgentSessionRuntime that is open is one of
\* pendingSends, where an event or a rejection finds it.
THEOREM TypeCorrect == SSpec => []STypeOK
BY Invariance, TypeFollows, PTL

LEMMA OneRunFollows == IInv => OneRun
<1> SUFFICES ASSUME IInv PROVE OneRun
  OBVIOUS
<1>1. Going = {runPromise} \ {0} /\ RunInv
  BY GoingIs DEF IInv
<1>2. Cardinality(Going) <= 1
  <2>1. Going = {} \/ Going = {runPromise}
    BY <1>1
  <2>2. Cardinality({}) = 0 /\ Cardinality({runPromise}) = 1
    BY FS_EmptySet, FS_Singleton
  <2> QED BY <2>1, <2>2
<1>3. Going = {} <=> runPromise = 0
  BY <1>1
<1> QED BY <1>1, <1>2, <1>3 DEF RunInv, OneRun

\* The harness runs one prompt at a time whatever aborts, follow-ups and failures come between
\* its awaits, it is idle exactly when none is going, and then no user turn is left open.
THEOREM OneRunAtATime == SSpec => []OneRun
BY Invariance, OneRunFollows, PTL

LEMMA AnswerFollows == IInv => SendResolvesOwn
<1> SUFFICES ASSUME IInv, NEW m \in Sends, send[m].state = "resolved", odd \ {"drained"} = {}
             PROVE  send[m].answer = m
  BY DEF SendResolvesOwn
<1>1. Straight
  BY DEF Straight
<1> QED BY <1>1 DEF IInv, AnswerInv

\* The promise of a send resolves with the entry of its own message: message_end events, which
\* settlePendingSend matches by order, meet the right promise unless a failure, a message put back
\* or an abort during a start came between.
THEOREM AnswersAreOwn == SSpec => []SendResolvesOwn
BY Invariance, AnswerFollows, PTL

LEMMA QueueFollows == IInv => QueuedOnce
<1> SUFFICES ASSUME IInv PROVE QueuedOnce
  OBVIOUS
<1>1. QueueInv /\ DrainInv
  BY DEF IInv
<1>2. drain.of \notin ToSet(followUps) \/ drain.of = 0
  BY <1>1 DEF DrainInv
<1>3. ToSet(followUps) \cap (recorded \cup InFlight) = {} \/ finalizing
  BY <1>1, <1>2 DEF QueueInv, InFlight
<1> QED BY <1>1, <1>3 DEF QueuedOnce, QueueInv, Once

\* followUpQueue never holds a message twice, nor one that is in flight or already in the session:
\* what promoteQueuedFollowUp and prepareFollowUpTurn take they put back at most once.
THEOREM NoMessageTwice == SSpec => []QueuedOnce
BY Invariance, QueueFollows, PTL

\* What a step adds to the session is what its run is about, and that has not been cleared.
LEMMA RecordStep ==
    ASSUME IInv, [SNext]_svars
    PROVE  /\ cleared \subseteq cleared'
           /\ \A m \in recorded' \ recorded : m \in cleared => ~send[m].prepared
<1>1. ASSUME NEW r \in Sends, msg[r] \in Sends, msg[r] # 0,
             \/ at[r] = "prepare"
             \/ at[r] = "activated" /\ r \notin aborted
             \/ at[r] = "user"
      PROVE  msg[r] \in cleared \ recorded => ~send[msg[r]].prepared
  <2>1. RunOf(r) /\ DrainInv /\ (at[r] \in Running => runPromise = r)
    BY <1>1, TheRun DEF IInv
  <2> QED BY <1>1, <2>1 DEF RunOf, DrainInv
<1>2. ASSUME NEW r \in Sends, RunStep(r)
      PROVE  /\ cleared' = cleared
             /\ recorded' = recorded \/ (recorded' = recorded \cup {msg[r]} /\ (msg[r] \in cleared \ recorded => ~send[msg[r]].prepared))
  <2>1. msg[r] \in Sends /\ msg[r] # 0
    BY Typed DEF Sends
  <2>2. CASE Prepare(r) \/ FollowUpTurn(r) \/ UserMessage(r)
    BY <1>1, <2>1, <2>2 DEF Prepare, FollowUpTurn, UserMessage, Prepared, Stands
  <2>3. CASE ~(Prepare(r) \/ FollowUpTurn(r) \/ UserMessage(r))
    BY <1>2, <2>3 DEF RunStep, Start, AfterPrepare, Stream, Poll, BeginFollowUp, Activate, AgentEnd, Promote, Promoting
  <2> QED BY <2>2, <2>3
<1>3. ASSUME NEW m \in Sends, Prompt(m) \/ FollowUp(m) PROVE cleared' = cleared /\ recorded' = recorded
  BY <1>3 DEF Prompt, FollowUp
<1>4. ASSUME NEW m \in Sends, NEW prepared \in BOOLEAN, SendMessage(m, prepared) PROVE cleared' = cleared /\ recorded' = recorded
  BY <1>4 DEF SendMessage
<1>5. CASE Abort \/ AbortEnds
  BY <1>5 DEF Abort, AbortEnds
<1>6. CASE UNCHANGED svars
  BY <1>6 DEF svars
<1> QED BY <1>2, <1>3, <1>4, <1>5, <1>6 DEF SNext

LEMMA ClearedFollows ==
    IInv /\ IInv' /\ [SNext]_svars =>
        [\A m \in cleared \ recorded :
            /\ m \notin ToSet(followUps')
            /\ m \in recorded' => ~send[m].prepared]_svars
<1> SUFFICES ASSUME IInv, IInv', [SNext]_svars, NEW m \in cleared \ recorded
             PROVE  m \notin ToSet(followUps') /\ (m \in recorded' => ~send[m].prepared)
  OBVIOUS
<1>1. m \in cleared' /\ (m \in recorded' => ~send[m].prepared)
  BY RecordStep
<1>2. QueueInv'
  BY DEF IInv
<1> QED BY <1>1, <1>2 DEF QueueInv

\* What abort() reports in clearedFollowUp is not put back by the failure of a step that had taken
\* it, nor is a prepared message recorded later.
THEOREM ClearedStaysCleared == SSpec => ClearedNotDelivered
<1>1. SSpec => []IInv
  BY Invariance
<1> QED BY <1>1, ClearedFollows, PTL DEF SSpec, ClearedNotDelivered

LEMMA WaitFollows ==
    IInv /\ [SNext]_svars =>
        [abort.waiting /\ ~abort'.waiting => \A r \in abort.during : at[r] = "done"]_svars
<1> SUFFICES ASSUME IInv, [SNext]_svars, abort.waiting, ~abort'.waiting, NEW r \in abort.during
             PROVE  at[r] = "done"
  OBVIOUS
<1>1. AbortEnds
  <2>1. \A x \in Sends : RunStep(x) => abort' = abort
    BY DEF RunStep, Start, Prepare, AfterPrepare, UserMessage, Stream, Poll, BeginFollowUp, Activate, FollowUpTurn,
           AgentEnd, Promote, Promoting
  <2>2. \A x \in Sends : Prompt(x) \/ FollowUp(x) => abort' = abort
    BY DEF Prompt, FollowUp
  <2>3. \A x \in Sends, prepared \in BOOLEAN : SendMessage(x, prepared) => abort' = abort
    BY DEF SendMessage
  <2>4. ~Abort
    BY DEF Abort
  <2>5. UNCHANGED svars => abort' = abort
    BY DEF svars
  <2> QED BY <2>1, <2>2, <2>3, <2>4, <2>5 DEF SNext
<1>2. abort.during = {abort.for} \ {0}
  BY DEF IInv, AbortInv
<1> QED BY <1>1, <1>2 DEF AbortEnds, RunOver

\* abort() does not return, and running is not reset, before the run it found has ended.
THEOREM AbortOutlastsRun == SSpec => AbortWaitsForRun
<1>1. SSpec => []IInv
  BY Invariance
<1> QED BY <1>1, WaitFollows, PTL DEF SSpec, AbortWaitsForRun

=============================================================================
