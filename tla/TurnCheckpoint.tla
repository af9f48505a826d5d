---------------------------- MODULE TurnCheckpoint ----------------------------
(***************************************************************************)
(* What a user turn of an agent session does to the workspace's history.   *)
(* The first tool of a turn that may write waits for the workspace's       *)
(* writer lease, commits what changed since the last commit as external,   *)
(* and leaves a pending boundary on disk: a ref of the session and, after  *)
(* it, a file named after the turn's token.  At the turn's end the files   *)
(* are captured into a commit of the turn, its status is appended to the   *)
(* session, the boundary is removed and the lease released.  Any call may  *)
(* throw, with or without its effect, and the process may die at any step; *)
(* a session that is opened settles the boundaries dead processes left.    *)
(***************************************************************************)
EXTENDS Naturals, Sequences, FiniteSets, SequencesExt

CONSTANTS
    Sessions,       \* sessions of one workspace
    MaxTurns,       \* bound: user turns of a session
    MaxAllTurns,    \* bound: user turns of all sessions
    MaxFailures,    \* bound: calls that throw
    MaxCrashes      \* bound: deaths of the process

ASSUME CheckpointAssumption ==
    /\ Sessions # {} /\ MaxTurns \in Nat \ {0} /\ MaxAllTurns \in Nat
    /\ MaxFailures \in Nat /\ MaxCrashes \in Nat

VARIABLES
    epoch,      \* runs of the process so far: the process owner of its boundaries
    turns,      \* user entries of each session
    marks,      \* checkpoint entries of each session
    log,        \* workspace commits after the first one: who made them, whose writes they hold
    dirty,      \* whose writes are in the files and in no commit
    ref,        \* refs/crest/pending/<session>/<token>
    file,       \* journal/pending/<token>.json
    temp,       \* temporary files in that directory: their writer, or "left" by a dead process
    at,         \* what each session's runtime does
    b,          \* its active boundary
    count,      \* userTurnCounter of its harness
    lease,      \* the workspace's acquisitions, the active one first
    failures,
    wrote,      \* history: turns whose tools wrote
    lost,       \* history: turns whose status could not be appended, or whose boundary another
                \* session removed
    cut         \* history: turns the process died in

vars == <<epoch, turns, marks, log, dirty, ref, file, temp, at, b, count, lease,
          failures, wrote, lost, cut>>
disk == <<turns, marks, log, dirty, ref, file>>
rest == <<epoch, count, wrote, cut>>

Tokens == 1..MaxTurns
TurnOf(s) == <<s, turns[s]>>
None == [turn |-> 0]
NoMark == [turn |-> 0, status |-> "unavailable", before |-> 0, after |-> 0]
NoBoundary == [token |-> 0, base |-> 0, op |-> "begin", pending |-> FALSE, bound |-> FALSE,
               failed |-> FALSE, mark |-> NoMark, then |-> "idle", names |-> {}]

Stages == {"closed", "refused", "listed", "recover", "idle", "turn", "waiting", "anchor", "temp",
           "rename", "unanchor", "holding", "append", "unref", "unlink", "stuck"}

TCInit ==
    /\ epoch = 1 /\ turns = [s \in Sessions |-> 0] /\ marks = [s \in Sessions |-> <<>>]
    /\ log = <<>> /\ dirty = {}
    /\ ref = [s \in Sessions |-> [k \in Tokens |-> None]] /\ file = [k \in Tokens |-> None]
    /\ temp = {}
    /\ at = [s \in Sessions |-> "closed"] /\ b = [s \in Sessions |-> NoBoundary]
    /\ count = [s \in Sessions |-> 0] /\ lease = <<>>
    /\ failures = 0 /\ wrote = {} /\ lost = {} /\ cut = {}

-----------------------------------------------------------------------------
(* Pieces of the handlers *)

Go(s, stage, boundary) ==
    at' = [at EXCEPT ![s] = stage] /\ b' = [b EXCEPT ![s] = boundary]

Fails == failures < MaxFailures /\ failures' = failures + 1

\* Mutant: a failed acquisition keeps the lease.
Leave_KeptOnFailure(s) ==
    lease' = IF at[s] \in {"waiting", "anchor", "unanchor"} THEN lease ELSE RemoveFirst(lease, s)

\* Mutant: whether a boundary is pending is read before its removal.
Leave_UnlessPending(s) ==
    lease' = IF b[s].pending THEN lease ELSE RemoveFirst(lease, s)

\* release: the next acquisition in the queue becomes the active one.
Leave(s) == lease' = RemoveFirst(lease, s)

\* Mutant: whoever has asked for the lease goes on.
Holds_Queued(s) == \E i \in DOMAIN lease : lease[i] = s

Holds(s) == lease # <<>> /\ Head(lease) = s

\* resolvePendingRefRecord
Resolved(k) ==
    LET written == file[k]
        anchored == ref[written.session][k]
    IN  IF anchored = None THEN written ELSE anchored

\* isPendingSuccessor
Readable(k) ==
    /\ file[k] # None
    /\ \/ ref[file[k].session][k] = None
       \/ LET next == ref[file[k].session][k]
          IN  /\ next.turn = file[k].turn /\ next.epoch = file[k].epoch
              /\ file[k].bound => next.bound
              /\ file[k].after => next.after

\* The record that begin, bind or recordAfter writes.
Wanted(s) == [session |-> s, turn |-> turns[s], epoch |-> epoch,
              bound |-> b[s].op # "begin", after |-> b[s].op = "after"]

\* Mutant: only begin moves the ref, bind and recordAfter write the file alone.
Anchored_Once(s) == IF b[s].op = "begin" THEN Wanted(s) ELSE ref[s][b[s].token]

\* anchorPending, before the file is written.
Anchored(s) == Wanted(s)

\* A commit holds everything that is not in an earlier one; nothing changed, no commit.  (What
\* the user edits lands in the same commits and belongs to nobody; it is left out.)
Publish(by) ==
    /\ log' = IF dirty = {} THEN log ELSE Append(log, [by |-> by, from |-> dirty])
    /\ dirty' = {}

Unavailable(s) == [NoMark EXCEPT !.turn = turns[s]]
Available(s, before, after) == [turn |-> turns[s], status |-> "available", before |-> before, after |-> after]

\* acquireBoundary gives up: the turn goes on, its writing tools are refused.
AcquireRefused(s) ==
    /\ Go(s, "turn", [b[s] EXCEPT !.failed = TRUE, !.then = "idle"])
    /\ Leave(s)

Retire(s, then, boundary) == Go(s, "unref", [boundary EXCEPT !.then = then])

-----------------------------------------------------------------------------
(* Opening a session *)

\* scanPendingBoundaryRecords takes a name that is not a token's for damage.
Open(s) ==
    /\ at[s] \in {"closed", "refused"}
    /\ IF temp # {}
       THEN Go(s, "refused", NoBoundary)
       ELSE Go(s, "listed", [NoBoundary EXCEPT !.names = {k \in Tokens : file[k] # None}])
    /\ UNCHANGED <<disk, temp, lease, failures, lost, rest>>

\* Mutant: an unbound record is nobody's business.
Dead_Bound(s) ==
    {k \in b[s].names : file[k].session = s /\ file[k].epoch < epoch /\ file[k].bound}

\* The session's own records that a dead process left.
Dead(s) == {k \in b[s].names : file[k].session = s /\ file[k].epoch < epoch}

\* The records are read one by one: one that was removed meanwhile cannot be.
ReadRecords(s) ==
    /\ at[s] = "listed"
    /\ IF \A k \in b[s].names : Readable(k)
       THEN Go(s, "recover", [b[s] EXCEPT !.names = Dead(s)])
       ELSE Go(s, "refused", NoBoundary)
    /\ UNCHANGED <<disk, temp, lease, failures, lost, rest>>

Finalized(s, t) == \E i \in DOMAIN marks[s] : marks[s][i].turn = t

\* Mutant: a turn gets its status whether it has one or not.
Unfinished_Always(s, record) == record.bound

\* Mutant: a turn that captured nothing is taken for one that changed nothing.
Unfinished_AfterOnly(s, record) == record.bound /\ record.after /\ ~Finalized(s, record.turn)

\* A bound record whose turn has no status gets one.
Unfinished(s, record) == record.bound /\ ~Finalized(s, record.turn)

\* recover, for the next record.
Recover(s) ==
    /\ at[s] = "recover"
    /\ IF b[s].names = {}
       THEN /\ Go(s, "idle", NoBoundary)
            /\ count' = [count EXCEPT ![s] = 0]
            /\ UNCHANGED marks
       ELSE LET k == CHOOSE k \in b[s].names : \A j \in b[s].names : k <= j
                record == Resolved(k)
            IN  /\ Retire(s, "recover", [b[s] EXCEPT !.token = k, !.bound = record.bound])
                /\ marks' = [marks EXCEPT ![s] = IF Unfinished(s, record)
                                THEN Append(@, [NoMark EXCEPT !.turn = record.turn]) ELSE @]
                /\ UNCHANGED count
    /\ UNCHANGED <<epoch, turns, log, dirty, ref, file, temp, lease, failures, wrote, lost, cut>>

RecoverFails(s) ==
    /\ at[s] \in {"listed", "recover"} /\ Fails
    /\ Go(s, "refused", NoBoundary)
    /\ UNCHANGED <<disk, temp, lease, lost, rest>>

-----------------------------------------------------------------------------
(* A turn *)

\* session_before_user_turn and, with its user entry, session_user_turn_committed.
StartTurn(s) ==
    /\ at[s] = "idle" /\ turns[s] < MaxTurns
    /\ FoldFunction(+, 0, turns) < MaxAllTurns
    /\ turns' = [turns EXCEPT ![s] = @ + 1]
    /\ count' = [count EXCEPT ![s] = @ + 1]
    /\ Go(s, "turn", [NoBoundary EXCEPT !.token = count[s] + 1])
    /\ UNCHANGED <<epoch, marks, log, dirty, ref, file, temp, lease, failures, wrote, lost, cut>>

\* beforeWorkspaceTool: a tool that may write queues for the lease.
ToolCall(s) ==
    /\ at[s] = "turn" /\ ~b[s].failed
    /\ Go(s, "waiting", b[s])
    /\ lease' = Append(lease, s)
    /\ UNCHANGED <<disk, temp, failures, lost, rest>>

\* Mutant: the base is the head as it is, without a look at the files.
Outside_Kept == UNCHANGED <<log, dirty>>

\* synchronizeExternal: what is not in a commit yet is nobody's of this turn, and goes into one.
Outside == Publish(<<"external", 0>>)

Synchronize(s) ==
    /\ at[s] = "waiting" /\ Holds(s)
    /\ Outside
    /\ Go(s, "anchor", [b[s] EXCEPT !.base = Len(log'), !.op = "begin"])
    /\ UNCHANGED <<epoch, turns, marks, ref, file, temp, count, lease, failures, wrote, lost, cut>>

SynchronizeFails(s) ==
    /\ at[s] = "waiting" /\ Holds(s) /\ Fails
    /\ Outside \/ UNCHANGED <<log, dirty>>
    /\ AcquireRefused(s)
    /\ UNCHANGED <<epoch, turns, marks, ref, file, temp, count, wrote, lost, cut>>

\* begin refuses a token that has a file, whichever session left it; bind and recordAfter read
\* the record they go on from.
Ready(s) ==
    LET k == b[s].token
    IN  IF b[s].op = "begin" THEN file[k] = None
        ELSE /\ Readable(k)
             /\ Resolved(k).bound = (b[s].op = "after") /\ ~Resolved(k).after

\* recordAfter comes before the status, which is then not appended.
NotAppended(s) == IF b[s].op = "after" THEN lost \cup {TurnOf(s)} ELSE lost

PersistThrows(s) ==
    CASE b[s].op = "begin" /\ at[s] = "anchor" -> AcquireRefused(s)
      [] b[s].op = "begin" /\ at[s] # "anchor" -> Go(s, "unanchor", b[s]) /\ UNCHANGED lease
      [] b[s].op = "bind" -> Retire(s, "turn", [b[s] EXCEPT !.failed = TRUE]) /\ UNCHANGED lease
      [] b[s].op = "after" -> Retire(s, "stuck", b[s]) /\ UNCHANGED lease

Anchor(s) ==
    /\ at[s] = "anchor"
    /\ IF ~Ready(s)
       THEN PersistThrows(s) /\ UNCHANGED ref
       ELSE /\ ref' = [ref EXCEPT ![s][b[s].token] = Anchored(s)]
            /\ Go(s, "temp", b[s])
            /\ UNCHANGED lease
    /\ lost' = IF ~Ready(s) THEN NotAppended(s) ELSE lost
    /\ UNCHANGED <<turns, marks, log, dirty, file, temp, failures, rest>>

\* writeDurableJson: a temporary file in the same directory, then a rename.
WriteTemporary(s) ==
    /\ at[s] = "temp"
    /\ temp' = temp \cup {s}
    /\ Go(s, "rename", b[s])
    /\ UNCHANGED <<disk, lease, failures, lost, rest>>

Rename(s) ==
    /\ at[s] = "rename"
    /\ temp' = temp \ {s}
    /\ file' = [file EXCEPT ![b[s].token] = Wanted(s)]
    /\ CASE b[s].op = "begin" -> Go(s, "anchor", [b[s] EXCEPT !.pending = TRUE, !.op = "bind"])
         [] b[s].op = "bind" -> Go(s, "holding", [b[s] EXCEPT !.bound = TRUE])
         [] b[s].op = "after" -> Go(s, "append", b[s])
    /\ UNCHANGED <<turns, marks, log, dirty, ref, lease, failures, lost, rest>>

\* A step of the above throws, maybe after its effect.
PersistFails(s) ==
    /\ at[s] \in {"anchor", "temp", "rename"} /\ Fails
    /\ temp' = temp \ {s}
    /\ at[s] = "anchor" => Ready(s)
    /\ IF at[s] = "anchor"
       THEN ref' \in {ref, [ref EXCEPT ![s][b[s].token] = Anchored(s)]} /\ UNCHANGED file
       ELSE IF at[s] = "rename"
       THEN file' \in {file, [file EXCEPT ![b[s].token] = Wanted(s)]} /\ UNCHANGED ref
       ELSE UNCHANGED <<ref, file>>
    /\ PersistThrows(s)
    /\ lost' = NotAppended(s)
    /\ UNCHANGED <<turns, marks, log, dirty, rest>>

\* begin takes its ref back when the file could not be written.
Unanchor(s) ==
    /\ at[s] = "unanchor"
    /\ \/ ref' = [ref EXCEPT ![s][b[s].token] = None] /\ UNCHANGED failures
       \/ Fails /\ UNCHANGED ref
    /\ AcquireRefused(s)
    /\ UNCHANGED <<turns, marks, log, dirty, file, temp, lost, rest>>

ToolWrite(s) ==
    /\ at[s] = "holding"
    /\ dirty' = dirty \cup {TurnOf(s)}
    /\ wrote' = wrote \cup {TurnOf(s)}
    /\ UNCHANGED <<epoch, turns, marks, log, ref, file, temp, at, b, count, lease, failures, lost, cut>>

-----------------------------------------------------------------------------
(* The end of a turn: onTerminal *)

\* A failed acquisition, or a hosted command that still runs, leaves nothing to capture.
EndTurn(s) ==
    /\ at[s] \in {"turn", "holding"}
    /\ \/ Go(s, "append", [b[s] EXCEPT !.mark = Unavailable(s)])
       \/ /\ at[s] = "turn" /\ ~b[s].failed
          /\ Go(s, "append", [b[s] EXCEPT !.mark = Available(s, Len(log), Len(log))])
    /\ UNCHANGED <<disk, temp, lease, failures, lost, rest>>

\* captureOwnedTurn, of a turn that holds the lease.
Capture(s) ==
    /\ at[s] = "holding"
    /\ IF Len(log) # b[s].base
       THEN Go(s, "append", [b[s] EXCEPT !.mark = Unavailable(s)]) /\ UNCHANGED <<log, dirty>>
       ELSE /\ Publish(TurnOf(s))
            /\ Go(s, "anchor", [b[s] EXCEPT !.mark = Available(s, b[s].base, Len(log')), !.op = "after"])
    /\ UNCHANGED <<turns, marks, ref, file, temp, lease, failures, lost, rest>>

CaptureFails(s) ==
    /\ at[s] = "holding" /\ Fails
    /\ Publish(TurnOf(s)) \/ UNCHANGED <<log, dirty>>
    /\ Go(s, "append", [b[s] EXCEPT !.mark = Unavailable(s)])
    /\ UNCHANGED <<turns, marks, ref, file, temp, lease, lost, rest>>

\* appendCheckpoint; what is pending is removed after it.
AppendMark(s) ==
    /\ at[s] = "append"
    /\ marks' = [marks EXCEPT ![s] = Append(@, b[s].mark)]
    /\ IF b[s].pending
       THEN Retire(s, "idle", b[s]) /\ UNCHANGED lease
       ELSE Go(s, "idle", NoBoundary) /\ Leave(s)
    /\ UNCHANGED <<turns, log, dirty, ref, file, temp, failures, lost, rest>>

\* A turn without a lease tries once more, as unavailable; else the harness is left unfinished.
AppendFails(s) ==
    /\ at[s] = "append" /\ Fails
    /\ IF ~Holds(s) /\ b[s].mark.status = "available"
       THEN Go(s, "append", [b[s] EXCEPT !.mark = Unavailable(s)]) /\ UNCHANGED <<lost, lease>>
       ELSE /\ lost' = lost \cup {TurnOf(s)}
            /\ IF b[s].pending
               THEN Retire(s, "stuck", b[s]) /\ UNCHANGED lease
               ELSE Go(s, "stuck", b[s]) /\ Leave(s)
    /\ UNCHANGED <<disk, temp, rest>>

-----------------------------------------------------------------------------
(* Retiring a boundary: the ref goes first, then the file *)

\* retireUnbound and retireUnavailable refuse a record of the other kind.
Retirable(s) == Readable(b[s].token) /\ Resolved(b[s].token).bound = b[s].bound

\* What a removal was for, once it is done.
Retired(s) ==
    LET done == [b[s] EXCEPT !.pending = FALSE]
    IN  CASE b[s].then = "recover" ->
                Go(s, "recover", [done EXCEPT !.names = @ \ {b[s].token}]) /\ UNCHANGED lease
          [] b[s].then = "turn" -> Go(s, "turn", done) /\ Leave(s)
          [] b[s].then = "stuck" -> Go(s, "stuck", done) /\ Leave(s)
          [] b[s].then \in {"idle", "closed"} -> Go(s, b[s].then, NoBoundary) /\ Leave(s)

\* And what is left when it throws; complete is followed by one more attempt.
RetireThrows(s) ==
    CASE b[s].then = "recover" -> Go(s, "refused", NoBoundary) /\ UNCHANGED lease
      [] b[s].then = "turn" -> Go(s, "turn", b[s]) /\ Leave(s)
      [] b[s].then = "stuck" -> Go(s, "stuck", b[s]) /\ Leave(s)
      [] b[s].then = "closed" -> Go(s, "closed", NoBoundary) /\ Leave(s)
      [] b[s].then = "idle" /\ b[s].mark.status = "available" -> Retire(s, "stuck", b[s]) /\ UNCHANGED lease
      [] b[s].then = "idle" /\ b[s].mark.status = "unavailable" -> Go(s, "stuck", b[s]) /\ Leave(s)

\* A session whose removal threw after its effect still takes the token's file for its own,
\* and another session may have written one since.
Robbed(s) ==
    LET record == file[b[s].token]
    IN  IF record # None /\ record.session # s THEN {<<record.session, record.turn>>} ELSE {}

Unref(s) ==
    /\ at[s] = "unref"
    /\ IF Retirable(s)
       THEN /\ ref' = [ref EXCEPT ![file[b[s].token].session][b[s].token] = None]
            /\ lost' = lost \cup Robbed(s)
            /\ Go(s, "unlink", b[s]) /\ UNCHANGED lease
       ELSE RetireThrows(s) /\ UNCHANGED <<ref, lost>>
    /\ UNCHANGED <<turns, marks, log, dirty, file, temp, failures, rest>>

Unlink(s) ==
    /\ at[s] = "unlink"
    /\ file' = [file EXCEPT ![b[s].token] = None]
    /\ lost' = lost \cup Robbed(s)
    /\ Retired(s)
    /\ UNCHANGED <<turns, marks, log, dirty, ref, temp, failures, rest>>

RetireFails(s) ==
    /\ at[s] \in {"unref", "unlink"} /\ Fails
    /\ IF at[s] = "unref"
       THEN /\ Retirable(s)
            /\ ref' \in {ref, [ref EXCEPT ![file[b[s].token].session][b[s].token] = None]}
            /\ UNCHANGED file
       ELSE file' \in {file, [file EXCEPT ![b[s].token] = None]} /\ UNCHANGED ref
    /\ lost' = lost \cup Robbed(s)
    /\ RetireThrows(s)
    /\ UNCHANGED <<turns, marks, log, dirty, temp, rest>>

-----------------------------------------------------------------------------
(* Everything else *)

\* dispose, of a session with no run; a removal that failed is tried again.
Close(s) ==
    /\ at[s] \in {"idle", "stuck"}
    /\ IF b[s].pending THEN Retire(s, "closed", b[s]) ELSE Go(s, "closed", NoBoundary)
    /\ UNCHANGED <<disk, temp, lease, failures, lost, rest>>

Crash ==
    /\ epoch <= MaxCrashes
    /\ epoch' = epoch + 1
    /\ temp' = IF temp = {} THEN {} ELSE {"left"}
    /\ at' = [s \in Sessions |-> "closed"] /\ b' = [s \in Sessions |-> NoBoundary]
    /\ count' = [s \in Sessions |-> 0] /\ lease' = <<>>
    /\ cut' = cut \cup {TurnOf(s) : s \in {x \in Sessions : at[x] \notin {"closed", "refused", "idle"}}}
    /\ UNCHANGED <<disk, failures, wrote, lost>>

\* What a handler under way does next.
Step(s) ==
    \/ ReadRecords(s) \/ Recover(s)
    \/ Synchronize(s) \/ Anchor(s) \/ WriteTemporary(s) \/ Rename(s) \/ Unanchor(s)
    \/ AppendMark(s) \/ Unref(s) \/ Unlink(s)

Throw(s) ==
    \/ RecoverFails(s) \/ SynchronizeFails(s) \/ PersistFails(s) \/ CaptureFails(s)
    \/ AppendFails(s) \/ RetireFails(s)

TCNext ==
    \/ \E s \in Sessions :
        \/ Open(s) \/ StartTurn(s) \/ ToolCall(s) \/ ToolWrite(s) \/ EndTurn(s) \/ Capture(s) \/ Close(s)
        \/ Step(s) \/ Throw(s)
    \/ Crash

\* Calls answer and turns end; nobody has to open a session or to send anything.
TCSpec ==
    /\ TCInit /\ [][TCNext]_vars
    /\ \A s \in Sessions : WF_vars(Step(s)) /\ WF_vars(EndTurn(s))

-----------------------------------------------------------------------------
(* Properties *)

Record == [session : Sessions, turn : 1..MaxTurns, epoch : Nat, bound : BOOLEAN, after : BOOLEAN]
Mark == [turn : 0..MaxTurns, status : {"available", "unavailable"}, before : Nat, after : Nat]

\* Type invariant; only who waits or writes is in the queue of the lease.
TCTypeOK ==
    /\ turns \in [Sessions -> 0..MaxTurns] /\ count \in [Sessions -> 0..MaxTurns]
    /\ at \in [Sessions -> Stages]
    /\ \A s \in Sessions : marks[s] \in Seq(Mark) /\ b[s].token \in 0..MaxTurns
    /\ file \in [Tokens -> Record \cup {None}] /\ ref \in [Sessions -> [Tokens -> Record \cup {None}]]
    /\ temp \subseteq Sessions \cup {"left"}
    /\ \A i \in DOMAIN lease :
        at[lease[i]] \in {"waiting", "anchor", "temp", "rename", "unanchor", "holding",
                         "append", "unref", "unlink"}

\* A turn that is available is the whole of what its tools wrote and nothing another session
\* wrote: its commit follows its base, and no other commit has a write of it.
OwnChangesOnly ==
    \A s \in Sessions : \A i \in DOMAIN marks[s] :
        LET m == marks[s][i]
            turn == <<s, m.turn>>
        IN  m.status = "available" =>
                /\ m.before # m.after => m.after = m.before + 1 /\ log[m.after].by = turn
                /\ m.before # m.after => log[m.after].from \subseteq {turn}
                /\ turn \notin dirty
                /\ \A c \in DOMAIN log : turn \in log[c].from => c = m.after /\ c # m.before

\* The turn that has the files to itself: from its boundary to its capture.
Writing(s) == at[s] = "holding" \/ (at[s] \in {"anchor", "temp", "rename"} /\ b[s].op # "after")
Writers == {TurnOf(s) : s \in {x \in Sessions : Writing(x)}}

\* Turns have the files to themselves one after the other, each commit is what one of them wrote
\* or what nobody claims, and a status is appended once, of a turn that is over, and is true;
\* no step takes back a commit or a status.
Ledger == INSTANCE TurnLedger WITH writer <- Writers, loose <- dirty, history <- log, reports <- marks
ImplementsTurnLedger == Ledger!Init /\ [][Ledger!Next]_(Ledger!vars)

\* No turn has two statuses, however often it is recovered, and one that ended has one unless
\* it could not be appended or the process died in it.
OneStatus ==
    \A s \in Sessions :
        /\ \A i, j \in DOMAIN marks[s] : marks[s][i].turn = marks[s][j].turn => i = j
        /\ at[s] = "idle" => \A t \in 1..turns[s] : Finalized(s, t) \/ <<s, t>> \in lost \cup cut

\* A turn whose tools wrote has a status, or a bound boundary from which it will get one,
\* through every crash and failure but that of the append itself.
WritesAccounted ==
    \A turn \in wrote \ lost :
        \/ Finalized(turn[1], turn[2])
        \/ \E k \in Tokens : /\ Readable(k)
                             /\ Resolved(k).session = turn[1] /\ Resolved(k).turn = turn[2]
                             /\ Resolved(k).bound

\* The ref and the file of a boundary never contradict each other, between whichever two
\* steps the process dies: a reader takes it for damage and no session opens.
RecordsReadable == \A k \in Tokens : file[k] # None => Readable(k)

\* A session that is open has nothing left of a dead process.
DeadRecordsRetired ==
    \A k \in Tokens : file[k] # None /\ file[k].epoch < epoch =>
        \/ at[file[k].session] \in {"closed", "refused", "listed", "recover"}
        \/ at[file[k].session] \in {"unref", "unlink"} /\ b[file[k].session].then = "recover"

\* A turn that waits for the lease gets it or goes on without it, whatever fails for those
\* before it in the queue.
LeaseGranted == \A s \in Sessions : at[s] = "waiting" ~> at[s] # "waiting"

\* "On restart, an unbound record is retired only after proving its exact owner is gone; a bound
\* durable user entry without terminal status is completed": a session is refused only when a
\* call failed or another session is at work in the directory.  It does not hold: see Open.
OpensAfterCrash ==
    [][\A s \in Sessions : at'[s] = "refused" /\ at[s] # "refused" =>
        failures' > 0 \/ \E x \in Sessions \ {s} : at[x] \notin {"closed", "refused"}]_vars

=============================================================================
