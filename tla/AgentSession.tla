----------------------------- MODULE AgentSession -----------------------------
(***************************************************************************)
(* Messages sent to an agent: AgentSessionRuntime, which gives every send  *)
(* a promise of its entry in the session, over the AgentHarness, which     *)
(* runs one prompt at a time and holds later messages as follow-ups, and   *)
(* the loop (runLoop) that takes them when the agent would stop.           *)
(*                                                                         *)
(* A step ends where the code awaits I/O or a listener or hook that does;  *)
(* the sends and aborts of the user come between steps.  A send is its     *)
(* number; a run is the send whose prompt started it.  Steering, next-turn *)
(* messages, compaction and tree navigation, which the runtime uses only   *)
(* while idle or not at all, tool calls within a response, changes of the  *)
(* model (no write of theirs is left when a run ends) and the contents of  *)
(* messages are left out, and so is ignoredCommittedEntryIds: whatever     *)
(* adds to it, but for dispose(), empties it in the same step.             *)
(***************************************************************************)
EXTENDS Naturals, Sequences, FiniteSets, SequencesExt

CONSTANTS
    MaxSends,      \* bound: messages sent
    MaxAborts,     \* bound: aborts
    MaxFailures,   \* bound: awaited calls that fail
    Serial         \* do sends come by sendWithExecutionConfig, or by send()?

ASSUME SessionAssumption == {MaxSends, MaxAborts, MaxFailures} \subseteq Nat /\ Serial \in BOOLEAN

VARIABLES
    running,     \* runtime: running
    pending,     \* runtime: pendingSends
    send,        \* runtime: the promises
    lead,        \* runtime: the send that made the present promptDispatch
    at,          \* where the handling of each send, and the run it started, stands
    msg,         \* by run: the user message it is about
    phase,       \* harness: "idle" or "turn"
    followUps,   \* harness: followUpQueue with its preparations and activations
    drain,       \* harness: inFlightFollowUpDrain
    turn,        \* harness: activeUserTurn, or 0
    controller,  \* harness: the run of runAbortController, or 0
    runPromise,  \* harness: the run of runPromise, or 0
    finalizing,  \* harness: userTurnFinalizationPending
    aborted,     \* runs whose signal is aborted
    abort,       \* a call of abort()
    recorded,    \* user messages in the session
    cleared,     \* history: messages abort() reported as cleared
    odd,         \* history: what went another way than usual, see Odd
    count        \* aborts and failures so far

runtimeVars == <<running, pending, send, lead>>
harnessVars == <<phase, followUps, drain, turn, controller, runPromise, finalizing, aborted>>
svars == <<runtimeVars, at, msg, harnessVars, abort, recorded, cleared, odd, count>>

Sends == 1..MaxSends
NoDrain == [of |-> 0, cancelled |-> FALSE]

\* "putBack": a message whose activation was done went back to the queue.  "drained": a message
\* was taken from the queue by a run that was aborted before.  "failed": a message was
\* lost with a failing listener or append.  "rejected": abort() rejected a send that goes on all
\* the same.  "twoPrompts": a send became a prompt while another waited at the gate.
Odd == {"putBack", "drained", "failed", "rejected", "twoPrompts"}

Fails == count.failures < MaxFailures /\ count' = [count EXCEPT !.failures = @ + 1]

SInit ==
    /\ running = FALSE /\ pending = <<>> /\ lead = 0
    /\ send = [m \in Sends |-> [state |-> "none", answer |-> 0, prepared |-> FALSE,
                                awaiting |-> FALSE, committed |-> FALSE, lead |-> 0]]
    /\ at = [m \in Sends |-> "none"] /\ msg = [m \in Sends |-> m]
    /\ phase = "idle" /\ followUps = <<>> /\ drain = NoDrain /\ turn = 0
    /\ controller = 0 /\ runPromise = 0 /\ finalizing = FALSE /\ aborted = {}
    /\ abort = [waiting |-> FALSE, for |-> 0, during |-> {}]
    /\ recorded = {} /\ cleared = {} /\ odd = {}
    /\ count = [aborts |-> 0, failures |-> 0]

-----------------------------------------------------------------------------
(* The runtime's promises *)

Open(m) == send[m].state = "open"

\* Mutant: a failed send is only forgotten.
RejectPending_Dropped(m) == pending' = RemoveFirst(pending, m) /\ UNCHANGED send

\* rejectPendingSend: a send that is durable is not reported as failed.
RejectPending(m) ==
    /\ pending' = RemoveFirst(pending, m)
    /\ send' = IF Open(m) /\ ~send[m].committed THEN [send EXCEPT ![m].state = "rejected"] ELSE send

\* Mutant: a send waits for the next user message from the moment it is made.
Awaits_AtOnce(p) == ~send[p].committed /\ Open(p)

\* Sends that wait for the event of a user message they did not commit themselves.
Awaits(p) == send[p].awaiting /\ ~send[p].committed /\ Open(p)

\* The message_end of user message m settles the send that committed it, or the first that waits.
MessageEnd(m) ==
    LET mine == {i \in DOMAIN pending : pending[i] = m /\ send[m].committed}
        waiting == {i \in DOMAIN pending : Awaits(pending[i])}
        those == IF mine # {} THEN mine ELSE waiting
        p == pending[CHOOSE i \in those : \A j \in those : i <= j]
    IN  IF those = {}
        THEN UNCHANGED <<pending, send>>
        ELSE /\ pending' = RemoveFirst(pending, p)
             /\ send' = IF Open(p) THEN [send EXCEPT ![p].state = "resolved", ![p].answer = m] ELSE send

\* Mutant: abort() does not wait for the run.
RunOver_Now == TRUE

\* waitForIdle: the promise abort() waits for is settled.
RunOver == IF abort.for = 0 THEN TRUE ELSE at[abort.for] = "done"

\* The end of abort() follows the end of the run in the same turn of the event loop: no other
\* handler comes between.
Stands(m, stage) == at[m] = stage /\ ~(abort.waiting /\ RunOver)

-----------------------------------------------------------------------------
(* Sending *)

\* A send of sendWithExecutionConfig starts when the promise of the one before is settled.
InTurn(m) == \A k \in 1..(m - 1) : at[k] # "none" /\ (Serial => ~Open(k))

\* send(): a follow-up while a run is going, a prompt otherwise.
SendMessage(m, prepared) ==
    /\ Stands(m, "none") /\ InTurn(m)
    /\ pending' = Append(pending, m)
    /\ send' = [send EXCEPT ![m] = [state |-> "open", answer |-> 0, prepared |-> prepared,
                                    awaiting |-> ~running, committed |-> FALSE, lead |-> lead]]
    /\ at' = [at EXCEPT ![m] = IF running THEN "queueing" ELSE "gate"]
    /\ running' = TRUE
    /\ lead' = IF running THEN lead ELSE m
    /\ odd' = IF ~running /\ \E k \in Sends : at[k] = "gate" THEN odd \cup {"twoPrompts"} ELSE odd
    /\ UNCHANGED <<msg, harnessVars, abort, recorded, cleared, count>>

\* onSendError, and the end of startPromptTurn.
PromptFails(m) ==
    /\ running' = FALSE
    /\ RejectPending(m)
    /\ at' = [at EXCEPT ![m] = IF @ = "gate" /\ phase = "idle" THEN "refused" ELSE "done"]

\* Mutant: the harness is busy once a run has its controller.
Busy_Controller == controller # 0

Busy == phase # "idle"

\* The workspace gate, then harness.prompt(), which refuses while a run is going.
Prompt(m) ==
    /\ Stands(m, "gate")
    /\ \/ /\ Fails
          /\ PromptFails(m)
          /\ UNCHANGED <<phase, runPromise>>
       \/ /\ Busy
          /\ PromptFails(m)
          /\ UNCHANGED <<phase, runPromise, count>>
       \/ /\ ~Busy
          /\ phase' = "turn" /\ runPromise' = m
          /\ at' = [at EXCEPT ![m] = "start"]
          /\ UNCHANGED <<running, pending, send, count>>
    /\ UNCHANGED <<lead, msg, followUps, drain, turn, controller, finalizing, aborted, abort,
                   recorded, cleared, odd>>

\* A send made while running waits for the prompt's dispatch; harness.followUp() refuses when idle.
FollowUp(m) ==
    /\ Stands(m, "queueing") /\ at[send[m].lead] # "gate"
    /\ at' = [at EXCEPT ![m] = "done"]
    /\ IF phase = "idle" \/ at[send[m].lead] = "refused"
       THEN RejectPending(m) /\ UNCHANGED followUps
       ELSE followUps' = Append(followUps, m) /\ UNCHANGED <<pending, send>>
    /\ UNCHANGED <<running, lead, msg, phase, drain, turn, controller, runPromise, finalizing,
                   aborted, abort, recorded, cleared, odd, count>>

-----------------------------------------------------------------------------
(* A run *)

Go(r, stage) == at' = [at EXCEPT ![r] = stage]

\* prompt() rejects: the harness is idle again.
RunRejects(r) ==
    /\ phase' = "idle" /\ runPromise' = 0 /\ controller' = 0 /\ turn' = 0
    /\ PromptFails(r)

\* A user-turn event that failed leaves the harness busy for good.
Stick(r) ==
    /\ finalizing' = TRUE /\ runPromise' = 0 /\ controller' = 0 /\ drain' = NoDrain
    /\ PromptFails(r)

\* createTurnState, then executeTurn.
Start(r) ==
    /\ Stands(r, "start")
    /\ \/ /\ Fails
          /\ RunRejects(r)
          /\ UNCHANGED <<msg, aborted>>
       \/ /\ Go(r, IF send[r].prepared THEN "prepare" ELSE "user")
          /\ msg' = [msg EXCEPT ![r] = r]
          /\ controller' = r /\ aborted' = aborted \ {r}
          /\ UNCHANGED <<running, pending, send, phase, turn, runPromise, count>>
    /\ UNCHANGED <<lead, followUps, drain, finalizing, abort, recorded, cleared, odd>>

\* The prepared message is appended by its preparation, which makes the send durable; a failure
\* is the end of this message only.
Prepared(r, next, terminal) ==
    LET m == msg[r] IN
    \/ /\ r \notin aborted
       /\ recorded' = recorded \cup {m}
       /\ send' = [send EXCEPT ![m].committed = TRUE, ![m].answer = IF Open(m) THEN m ELSE @,
                               ![m].state = IF Open(m) THEN "resolved" ELSE @]
       /\ turn' = m
       /\ Go(r, next)
       /\ UNCHANGED <<pending, count, drain>>
    \/ /\ r \in aborted \/ count.failures < MaxFailures
       /\ count' = IF r \in aborted THEN count ELSE [count EXCEPT !.failures = @ + 1]
       /\ RejectPending(m)
       /\ turn' = 0 /\ drain' = NoDrain
       /\ Go(r, terminal)
       /\ UNCHANGED recorded

Prepare(r) ==
    /\ Stands(r, "prepare")
    /\ Prepared(r, "prepared", "promote")
    /\ controller' = IF at'[r] = "promote" THEN 0 ELSE controller
    /\ UNCHANGED <<running, lead, msg, phase, followUps, runPromise, finalizing, aborted,
                   abort, cleared, odd>>

\* Mutant: the message goes back even if abort() has taken it.
PutBack_Always(r) == <<msg[r]>> \o followUps

\* Has abort() cleared the message that run r took from the queue?
Cancelled(r) == drain.of = msg[r] /\ drain.cancelled

\* A message that could not be started goes back, unless abort() has cleared it.
PutBack(r) == IF Cancelled(r) THEN followUps ELSE <<msg[r]>> \o followUps

\* The "committed" event, then the signal is looked at once more.
AfterPrepare(r) ==
    /\ \/ /\ Stands(r, "prepared") \/ Stands(r, "preparedNext")
          /\ r \notin aborted
          /\ Go(r, "user")
          /\ drain' = NoDrain
          /\ UNCHANGED <<running, pending, send, phase, turn, controller, runPromise, followUps, finalizing, odd, count>>
       \/ /\ Stands(r, "prepared") \/ Stands(r, "preparedNext")
          /\ Fails
          /\ followUps' = IF at[r] = "prepared" THEN followUps ELSE PutBack(r)
          /\ odd' = odd \cup {"failed"}
          /\ Stick(r)
          /\ UNCHANGED <<phase, turn>>
       \/ /\ Stands(r, "prepared")
          /\ r \in aborted
          /\ RunRejects(r)
          /\ UNCHANGED <<drain, followUps, finalizing, odd, count>>
       \/ /\ Stands(r, "preparedNext")
          /\ r \in aborted
          /\ followUps' = PutBack(r)
          /\ drain' = NoDrain /\ turn' = 0
          /\ Go(r, "end")
          /\ UNCHANGED <<running, pending, send, phase, controller, runPromise, finalizing, odd, count>>
    /\ UNCHANGED <<lead, msg, aborted, abort, recorded, cleared>>

\* The loop emits the user message; a failing hook or append ends the run and the message is gone,
\* a failing "committed" listener leaves the harness stuck.
UserMessage(r) ==
    LET m == msg[r] IN
    /\ Stands(r, "user")
    /\ \/ /\ recorded' = recorded \cup {m}
          /\ turn' = m
          /\ MessageEnd(m)
          /\ Go(r, "stream")
          /\ UNCHANGED <<running, controller, runPromise, finalizing, drain, odd, count>>
       \/ /\ Fails
          /\ Go(r, "end")
          /\ odd' = odd \cup {"failed"}
          /\ UNCHANGED <<running, pending, send, recorded, turn, controller, runPromise, finalizing, drain>>
       \/ /\ Fails /\ m \notin recorded
          /\ recorded' = recorded \cup {m}
          /\ turn' = m
          /\ Stick(r)
          /\ odd' = odd \cup {"failed"}
    /\ UNCHANGED <<lead, msg, phase, followUps, aborted, abort, cleared>>

\* The response; an error or an abort ends the run.
Stream(r) ==
    /\ Stands(r, "stream")
    /\ \/ Go(r, "end")
       \/ r \notin aborted /\ Go(r, "poll")
    /\ UNCHANGED <<runtimeVars, msg, harnessVars, abort, recorded, cleared, odd, count>>

\* getFollowUpMessages; one at a time, as every follow-up of the runtime has an activation.
Poll(r) ==
    /\ Stands(r, "poll")
    /\ IF followUps = <<>>
       THEN Go(r, "end") /\ UNCHANGED <<msg, followUps, drain, odd>>
       ELSE /\ Go(r, "followUp")
            /\ msg' = [msg EXCEPT ![r] = Head(followUps)]
            /\ followUps' = Tail(followUps)
            /\ drain' = [of |-> Head(followUps), cancelled |-> FALSE]
            /\ odd' = IF r \in aborted THEN odd \cup {"drained"} ELSE odd
    /\ UNCHANGED <<runtimeVars, phase, turn, controller, runPromise, finalizing, aborted, abort,
                   recorded, cleared, count>>

\* prepareFollowUpTurn: an abort seen here is thrown before anything is put back.
BeginFollowUp(r) ==
    /\ Stands(r, "followUp")
    /\ IF r \in aborted THEN Go(r, "end") /\ UNCHANGED turn
       ELSE Go(r, "activating") /\ turn' = msg[r]
    /\ UNCHANGED <<runtimeVars, msg, phase, followUps, drain, controller, runPromise, finalizing,
                   aborted, abort, recorded, cleared, odd, count>>

\* Mutant: the activation leaves the send's mark as it is.
Activated_Unmarked(m) == send[m].awaiting

\* A message without a preparation is recorded by its event.
Activated(m) == ~send[m].prepared

\* wrapActivation
Activate(r) ==
    LET m == msg[r] IN
    /\ Stands(r, "activating")
    /\ \/ /\ r \notin aborted
          /\ send' = [send EXCEPT ![m].awaiting = Activated(m)]
          /\ Go(r, "activated")
          /\ UNCHANGED <<pending, turn, drain, count>>
       \/ /\ r \in aborted \/ count.failures < MaxFailures
          /\ count' = IF r \in aborted THEN count ELSE [count EXCEPT !.failures = @ + 1]
          /\ RejectPending(m)
          /\ turn' = 0 /\ drain' = NoDrain
          /\ Go(r, "end")
    /\ UNCHANGED <<running, lead, msg, phase, followUps, controller, runPromise, finalizing,
                   aborted, abort, recorded, cleared, odd>>

\* The pending writes and createTurnState; then the preparation, if there is one.
FollowUpTurn(r) ==
    /\ Stands(r, "activated")
    /\ \/ /\ Fails
          /\ followUps' = PutBack(r)
          /\ odd' = odd \cup (IF Cancelled(r) THEN {} ELSE {"putBack"})
          /\ turn' = 0 /\ drain' = NoDrain
          /\ Go(r, "end")
          /\ UNCHANGED <<pending, send, recorded>>
       \/ /\ ~send[msg[r]].prepared
          /\ drain' = NoDrain
          /\ Go(r, "user")
          /\ UNCHANGED <<pending, send, followUps, turn, recorded, odd, count>>
       \/ /\ send[msg[r]].prepared
          /\ Prepared(r, "preparedNext", "end")
          /\ UNCHANGED <<followUps, odd>>
    /\ UNCHANGED <<running, lead, msg, phase, controller, runPromise, finalizing, aborted, abort, cleared>>

\* agent_end: the terminal event of the user turn; then, with nothing to wait for, the runtime
\* hears of the end, the phase is idle and the finally blocks of executeTurn, prompt and
\* startPromptTurn run.
AgentEnd(r) ==
    /\ Stands(r, "end")
    /\ \/ /\ phase' = "idle" /\ runPromise' = 0 /\ controller' = 0
          /\ turn' = 0 /\ drain' = NoDrain
          /\ running' = FALSE
          /\ Go(r, "done")
          /\ UNCHANGED <<pending, send, finalizing, count>>
       \/ /\ Fails
          /\ Stick(r)
          /\ UNCHANGED <<phase, turn>>
    /\ UNCHANGED <<lead, msg, followUps, aborted, abort, recorded, cleared, odd>>

\* promoteQueuedFollowUp: the prompt's message could not be prepared, the next one is tried.
Promote(r) ==
    /\ Stands(r, "promote")
    /\ IF followUps = <<>>
       THEN /\ RunRejects(r)
            /\ UNCHANGED <<msg, followUps, aborted>>
       ELSE /\ Go(r, "promoting")
            /\ msg' = [msg EXCEPT ![r] = Head(followUps)]
            /\ followUps' = Tail(followUps)
            /\ controller' = r /\ aborted' = aborted \ {r}
            /\ turn' = Head(followUps)
            /\ UNCHANGED <<running, pending, send, phase, runPromise>>
    /\ UNCHANGED <<lead, drain, finalizing, abort, recorded, cleared, odd, count>>

Promoting(r) ==
    LET m == msg[r] IN
    /\ Stands(r, "promoting")
    /\ \/ /\ r \notin aborted
          /\ send' = [send EXCEPT ![m].awaiting = Activated(m)]
          /\ Go(r, IF send[m].prepared THEN "prepare" ELSE "user")
          /\ UNCHANGED <<running, pending, phase, turn, controller, runPromise, followUps, odd, count>>
       \/ /\ r \in aborted \/ count.failures < MaxFailures
          /\ count' = IF r \in aborted THEN count ELSE [count EXCEPT !.failures = @ + 1]
          /\ RejectPending(m)
          /\ turn' = 0 /\ controller' = 0
          /\ Go(r, "promote")
          /\ UNCHANGED <<running, phase, runPromise, followUps, odd>>
       \/ /\ Fails /\ r \notin aborted
          /\ RunRejects(r)
          /\ followUps' = <<m>> \o followUps
          /\ odd' = odd \cup {"putBack"}
    /\ UNCHANGED <<lead, msg, drain, finalizing, aborted, abort, recorded, cleared>>

-----------------------------------------------------------------------------
(* Aborting *)

\* Runs between the start of their prompt and its end.
Going == {r \in Sends : at[r] \notin {"none", "queueing", "gate", "refused", "done"}}

\* Messages that no abort() has taken and that may still reach the session.
OnItsWay(m) ==
    \/ at[m] \in {"gate", "queueing"} \/ m \in ToSet(followUps)
    \/ m \notin recorded /\ \E r \in Going : msg[r] = m /\ at[r] # "end"

\* A drained message that no step has recorded, or is bound to record, yet.
InFlight == {drain.of} \ ({0} \cup recorded)

\* abort(): everything queued or in flight is cleared, the present run's signal is set.
Abort ==
    /\ ~abort.waiting /\ count.aborts < MaxAborts
    /\ count' = [count EXCEPT !.aborts = @ + 1]
    /\ cleared' = cleared \cup ToSet(followUps) \cup InFlight
    /\ followUps' = <<>>
    /\ drain' = [drain EXCEPT !.cancelled = drain.of # 0]
    /\ aborted' = aborted \cup ({controller} \ {0})
    /\ abort' = [waiting |-> TRUE, for |-> runPromise, during |-> Going]
    /\ UNCHANGED <<runtimeVars, at, msg, phase, turn, controller, runPromise, finalizing, recorded, odd>>

\* The runtime hears of the abort and rejects every send that is pending.
AbortEnds ==
    /\ abort.waiting /\ RunOver
    /\ abort' = [waiting |-> FALSE, for |-> 0, during |-> {}]
    /\ running' = FALSE
    /\ send' = [m \in Sends |-> IF m \in ToSet(pending) /\ Open(m) THEN [send[m] EXCEPT !.state = "rejected"] ELSE send[m]]
    /\ pending' = <<>>
    /\ odd' = IF \E m \in Sends : Open(m) /\ OnItsWay(m) THEN odd \cup {"rejected"} ELSE odd
    /\ UNCHANGED <<lead, at, msg, harnessVars, recorded, cleared, count>>

-----------------------------------------------------------------------------
RunStep(r) ==
    \/ Start(r) \/ Prepare(r) \/ AfterPrepare(r) \/ UserMessage(r) \/ Stream(r) \/ Poll(r)
    \/ BeginFollowUp(r) \/ Activate(r) \/ FollowUpTurn(r) \/ AgentEnd(r)
    \/ Promote(r) \/ Promoting(r)

SNext ==
    \/ \E m \in Sends, prepared \in BOOLEAN : SendMessage(m, prepared)
    \/ \E m \in Sends : Prompt(m) \/ FollowUp(m) \/ RunStep(m)
    \/ Abort \/ AbortEnds

SSpec == SInit /\ [][SNext]_svars

\* What the code awaits returns or fails, providers time out; nobody has to send or abort.
FairSession ==
    /\ SSpec
    /\ \A m \in Sends : WF_svars(Prompt(m) \/ FollowUp(m) \/ RunStep(m))
    /\ WF_svars(AbortEnds)

-----------------------------------------------------------------------------
(* Properties *)

Stages == {"none", "gate", "refused", "queueing", "start", "prepare", "prepared", "preparedNext",
           "user", "stream", "poll", "followUp", "activating", "activated", "end", "promote",
           "promoting", "done"}

\* Type invariant; the runtime waits only for promises that are pending.
STypeOK ==
    /\ running \in BOOLEAN /\ finalizing \in BOOLEAN
    /\ pending \in Seq(Sends) /\ followUps \in Seq(Sends)
    /\ at \in [Sends -> Stages] /\ msg \in [Sends -> Sends]
    /\ phase \in {"idle", "turn"}
    /\ {turn, controller, runPromise, drain.of, abort.for, lead} \subseteq 0..MaxSends
    /\ \A m \in Sends : Open(m) => m \in ToSet(pending)
    /\ odd \subseteq Odd

\* One run at a time, and the phase tells whether there is one; when it is idle the last user turn
\* was closed.  (A stuck harness stays busy.)
OneRun ==
    /\ Cardinality(Going) <= 1
    /\ phase = "idle" <=> Going = {} /\ ~finalizing
    /\ phase = "idle" => turn = 0

\* A send resolves with the entry of its own message, whatever order sends, preparations and
\* events come in, unless something odd happened, which leaves a promise or an event that meets
\* the wrong one.
SendResolvesOwn ==
    \A m \in Sends : send[m].state = "resolved" =>
        send[m].answer = m \/ odd \ {"drained"} # {}

\* No message is in two places: queued twice, or queued and in flight or already in the session
\* (but in a harness that a failing user-turn event has left stuck).
QueuedOnce ==
    /\ \A i, j \in DOMAIN followUps : followUps[i] = followUps[j] => i = j
    /\ ToSet(followUps) \cap (recorded \cup InFlight) = {} \/ finalizing

\* What abort() reports as cleared is not delivered later: not put back by the failure of a step
\* that had taken it, nor started.  (An unprepared message already activated is.)
ClearedNotDelivered ==
    [][\A m \in cleared \ recorded :
        /\ m \notin ToSet(followUps')
        /\ m \in recorded' => ~send[m].prepared]_svars

\* When abort() has returned, the run it found going is over: none of its events can meet a
\* promise of a later send.
AbortWaitsForRun ==
    [][abort.waiting /\ ~abort'.waiting => \A r \in abort.during : at[r] = "done"]_svars

\* Every send is answered, unless it sits in the queue of a harness that is idle or stuck, or
\* something odd happened: its message was lost, or another answer went astray to its promise.
Stranded(m) == m \in ToSet(followUps) /\ Going = {}
SendsSettle ==
    \A m \in Sends : Open(m) ~> ~Open(m) \/ Stranded(m) \/ odd # {}

\* Every send is answered: a promise left open would hang.  It does not hold: see Stream.
EverySendSettles == \A m \in Sends : Open(m) ~> ~Open(m)

=============================================================================
