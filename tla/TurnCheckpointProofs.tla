------------------------- MODULE TurnCheckpointProofs -------------------------
(***************************************************************************)
(* Proofs about TurnCheckpoint, for every set of sessions and every bound. *)
(*                                                                         *)
(* The checked invariants hold for reasons they do not mention: only the   *)
(* holder of the lease writes files, commits and boundaries' files; a      *)
(* token's file belongs to whoever created it in this process; a status is *)
(* appended only in a turn that has none.  IInv adds exactly that, a named *)
(* part for each reason.                                                   *)
(***************************************************************************)
EXTENDS TurnCheckpoint, QueueLemmas

Persisting == {"anchor", "temp", "rename"}
Holding == Persisting \cup {"unanchor", "holding"}
Removing == {"unref", "unlink"}
InTurn == Holding \cup {"turn", "waiting", "append"}

Turn == Sessions \X (0..MaxTurns)
Commit == [by : (Sessions \cup {"external"}) \X (0..MaxTurns), from : SUBSET Turn]
Boundary == [token : 0..MaxTurns, base : Nat, op : {"begin", "bind", "after"}, pending : BOOLEAN,
             bound : BOOLEAN, failed : BOOLEAN, mark : Mark,
             then : {"idle", "recover", "turn", "stuck", "closed"}, names : SUBSET Tokens]

\* The session is in a turn that has no status yet.
Turning(s) == at[s] \in InTurn \/ (at[s] \in Removing /\ b[s].then = "turn")

\* The session removes a record that a dead process left.
Clearing(s) == at[s] \in Removing /\ b[s].then = "recover"

\* Its turn has been captured, the record of that is written.
Captured(s) == at[s] \in Persisting /\ b[s].op = "after"

\* Its boundary is being written for the first time, or bound to its user entry.
Acquiring(s) == at[s] \in Persisting /\ b[s].op # "after"

VarsInv ==
    /\ epoch \in Nat \ {0} /\ failures \in Nat
    /\ turns \in [Sessions -> 0..MaxTurns] /\ count \in [Sessions -> 0..MaxTurns]
    /\ marks \in [Sessions -> Seq(Mark)]
    /\ log \in Seq(Commit) /\ dirty \subseteq Turn
    /\ file \in [Tokens -> Record \cup {None}] /\ ref \in [Sessions -> [Tokens -> Record \cup {None}]]
    /\ temp \subseteq Sessions \cup {"left"}
    /\ at \in [Sessions -> Stages] /\ b \in [Sessions -> Boundary]
    /\ lease \in Seq(Sessions)
    /\ wrote \subseteq Turn /\ lost \subseteq Turn /\ cut \subseteq Turn

\* The lease: who is in the queue waits or writes, and only the first is past waiting.
LeaseInv ==
    /\ Once(lease)
    /\ \A s \in Sessions : at[s] \in Holding => lease # <<>> /\ lease[1] = s
    /\ \A s \in Sessions : s \in ToSet(lease) =>
        at[s] \in (InTurn \ {"turn"}) \cup Removing /\ ~Clearing(s)

\* A session's boundary, by what it does.
BoundaryOf(s) ==
    /\ count[s] <= turns[s]
    /\ at[s] \in InTurn \cup Removing => b[s].token \in Tokens
    /\ at[s] \in InTurn => turns[s] > 0
    /\ at[s] \in {"closed", "refused", "idle", "listed", "recover"} \/ Clearing(s) => ~b[s].pending
    /\ b[s].pending => b[s].token \in Tokens /\ turns[s] > 0
    /\ at[s] = "holding" \/ Captured(s) \/ (at[s] \in Removing /\ ~Clearing(s)) => b[s].pending
    /\ at[s] \in Persisting /\ b[s].op = "bind" => b[s].pending

\* Refs and files: whose they are, and that a file never says more than its ref.
RecordInv ==
    /\ \A k \in Tokens : file[k] # None =>
        /\ Readable(k) /\ file[k].epoch <= epoch
        /\ file[k].turn <= turns[file[k].session]
    /\ \A s \in Sessions, k \in Tokens : ref[s][k] # None => ref[s][k].session = s

\* What is on disk for the token of a session that writes a boundary or has one pending.
PendingOf(s) ==
    LET k == b[s].token
        written == file[k]
    IN  /\ at[s] \in {"temp", "rename"} => ref[s][k] \in {None, Wanted(s)}
        /\ at[s] \in {"temp", "rename"} /\ b[s].op = "begin" => written = None
        /\ at[s] = "holding" \/ (at[s] \in Persisting /\ b[s].op # "begin") =>
            \/ written = None
            \/ /\ written.session = s /\ written.turn = turns[s] /\ written.epoch = epoch
               /\ ~written.after
               /\ written.bound => at[s] = "holding" \/ b[s].op = "after"
        /\ b[s].pending /\ written # None =>
            written.epoch = epoch /\ (written.session = s => written.turn = turns[s])

\* What a dead process left of a session is in its list when it is opened, until it is removed.
DeadOf(s) ==
    /\ \A k \in Tokens : file[k] # None /\ file[k].session = s /\ file[k].epoch < epoch =>
        \/ at[s] \in {"closed", "refused"}
        \/ (at[s] \in {"listed", "recover"} \/ Clearing(s)) /\ k \in b[s].names
    /\ at[s] = "recover" \/ Clearing(s) =>
        \A k \in b[s].names : file[k] # None /\ file[k].session = s /\ file[k].epoch < epoch
    /\ Clearing(s) => b[s].token \in b[s].names

\* Statuses: which turn has one, and which will get one.
StatusOf(s) ==
    /\ \A i, j \in DOMAIN marks[s] : marks[s][i].turn = marks[s][j].turn => i = j
    /\ \A i \in DOMAIN marks[s] : marks[s][i].turn <= turns[s]
    /\ Turning(s) => ~Finalized(s, turns[s])
    /\ \A t \in 1..turns[s] :
        Finalized(s, t) \/ <<s, t>> \in lost \cup cut \/ (t = turns[s] /\ Turning(s))
    /\ at[s] = "append" \/ Captured(s) => b[s].mark.turn = turns[s]
    /\ at[s] = "stuck" \/ (at[s] \in Removing /\ b[s].then \in {"idle", "stuck", "closed"}) =>
        Finalized(s, turns[s]) \/ TurnOf(s) \in lost

\* The turn of a record on disk.
RecordedTurn(k) == <<file[k].session, file[k].turn>>
Settled(turn) == Finalized(turn[1], turn[2]) \/ turn \in lost

\* Turns that wrote: a bound record is on disk until their status is appended.
WroteInv ==
    /\ \A turn \in wrote : turn[2] <= turns[turn[1]]
    /\ \A turn \in wrote : Settled(turn) \/ \E k \in Tokens : file[k] # None /\ RecordedTurn(k) = turn /\ file[k].bound

\* The record is there before the first write, and is not removed before the status.
WriterOf(s) ==
    LET k == b[s].token
    IN  /\ at[s] = "holding" => TurnOf(s) \in lost \/ (file[k] # None /\ file[k].session = s /\ file[k].bound)
        /\ \/ at[s] \in {"turn", "waiting", "unanchor"} \/ Acquiring(s)
           \/ (at[s] \in Removing /\ b[s].then = "turn")
           => TurnOf(s) \notin wrote
        /\ at[s] \in Removing /\ file[k] # None /\ file[k].session = s /\ file[k].bound =>
            RecordedTurn(k) \notin wrote \/ Settled(RecordedTurn(k))

\* What OwnChangesOnly says of one status.
Own(s, m) ==
    LET turn == <<s, m.turn>>
    IN  m.status = "available" =>
            /\ m.before # m.after => m.after = m.before + 1 /\ log[m.after].by = turn
            /\ m.before # m.after => log[m.after].from \subseteq {turn}
            /\ turn \notin dirty
            /\ \A c \in DOMAIN log : turn \in log[c].from => c = m.after /\ c # m.before

\* And that it is about commits that are there.
Owned(s, m) == Own(s, m) /\ (m.status = "available" => m.after <= Len(log))

\* A status, appended or about to be, is about commits that no later one changes.
MarkOf(s) ==
    /\ \A i \in DOMAIN marks[s] : Owned(s, marks[s][i])
    /\ at[s] = "append" \/ Captured(s) => Owned(s, b[s].mark)

\* Only turns whose tools wrote have writes in the files and in commits.
DirtyInv == dirty \subseteq wrote /\ \A c \in DOMAIN log : log[c].from \subseteq wrote

\* A turn's writes are in no commit before its base, and nobody else's are in the files while it
\* holds the lease.
DirtyOf(s) ==
    at[s] = "holding" \/ Acquiring(s) =>
        /\ dirty \subseteq {TurnOf(s)}
        /\ \A c \in DOMAIN log : TurnOf(s) \in log[c].from => c > b[s].base

Local(s) ==
    /\ BoundaryOf(s) /\ PendingOf(s) /\ DeadOf(s) /\ StatusOf(s) /\ WriterOf(s) /\ MarkOf(s) /\ DirtyOf(s)

IInv == VarsInv /\ LeaseInv /\ RecordInv /\ WroteInv /\ DirtyInv /\ \A s \in Sessions : Local(s)

-----------------------------------------------------------------------------
(* The pieces of the handlers keep their types. *)

\* A record on disk is told from none by its turn.
LEMMA RecordType ==
    ASSUME NEW r \in Record
    PROVE  /\ r.session \in Sessions /\ r.turn \in 1..MaxTurns /\ r.epoch \in Nat
           /\ r.bound \in BOOLEAN /\ r.after \in BOOLEAN
           /\ r # None
<1>1. r.turn # 0
  BY CheckpointAssumption DEF Record
<1> QED BY <1>1 DEF Record, None

\* The record a boundary is written as is one.
LEMMA WantedType ==
    ASSUME VarsInv, NEW s \in Sessions, turns[s] > 0
    PROVE  Wanted(s) \in Record
<1>1. turns[s] \in 1..MaxTurns /\ b[s].op \in {"begin", "bind", "after"}
  BY CheckpointAssumption DEF VarsInv, Boundary
<1> QED BY <1>1 DEF Wanted, Record, VarsInv

LEMMA BoundaryType ==
    ASSUME VarsInv
    PROVE  /\ NoMark \in Mark /\ NoBoundary \in Boundary
           /\ \A s \in Sessions : Unavailable(s) \in Mark
           /\ \A s \in Sessions : \A m, n \in Nat : Available(s, m, n) \in Mark
           /\ \A s \in Sessions : b[s] \in Boundary /\ TurnOf(s) \in Turn
<1>1. NoMark \in Mark
  BY CheckpointAssumption DEF NoMark, Mark
<1>2. NoBoundary \in Boundary
  BY <1>1, CheckpointAssumption DEF NoBoundary, Boundary
<1>3. \A s \in Sessions : turns[s] \in 0..MaxTurns
  BY DEF VarsInv
<1>4. \A s \in Sessions : Unavailable(s) \in Mark
  BY <1>3, CheckpointAssumption DEF NoMark, Unavailable, Mark
<1>5. \A s \in Sessions : \A m, n \in Nat : Available(s, m, n) \in Mark
  BY <1>3 DEF Available, Mark
<1> QED BY <1>1, <1>2, <1>3, <1>4, <1>5 DEF VarsInv, TurnOf, Turn

\* One session goes on, the others stay.
LEMMA GoOn ==
    ASSUME VarsInv, NEW s \in Sessions, NEW stage \in Stages, NEW r \in Boundary, Go(s, stage, r)
    PROVE  /\ at' \in [Sessions -> Stages] /\ b' \in [Sessions -> Boundary]
           /\ at'[s] = stage /\ b'[s] = r
           /\ \A x \in Sessions \ {s} : at'[x] = at[x] /\ b'[x] = b[x]
BY DEF VarsInv, Go

\* Publishing adds one commit of all that was dirty, or none.
LEMMA PublishType ==
    ASSUME VarsInv, NEW by \in (Sessions \cup {"external"}) \X (0..MaxTurns), Publish(by)
    PROVE  /\ log' \in Seq(Commit) /\ dirty' = {} /\ Len(log') \in Nat
           /\ dirty = {} => log' = log
           /\ dirty # {} => /\ Len(log') = Len(log) + 1
                            /\ \A c \in 1..Len(log) : log'[c] = log[c]
                            /\ log'[Len(log')] = [by |-> by, from |-> dirty]
<1>1. [by |-> by, from |-> dirty] \in Commit
  BY DEF Commit, VarsInv
<1> QED BY <1>1, AppendProperties DEF Publish, VarsInv

-----------------------------------------------------------------------------
(* A step of one session, seen from the others *)

\* What every other session keeps for itself.
Elsewhere(s) ==
    \A x \in Sessions \ {s} :
        /\ at'[x] = at[x] /\ b'[x] = b[x] /\ turns'[x] = turns[x] /\ count'[x] = count[x]
        /\ marks'[x] = marks[x]

\* What the invariant says of one session, with the types it needs.
LEMMA Here ==
    ASSUME IInv, NEW s \in Sessions
    PROVE  /\ BoundaryOf(s) /\ PendingOf(s) /\ DeadOf(s) /\ StatusOf(s) /\ WriterOf(s) /\ MarkOf(s)
           /\ DirtyOf(s)
           /\ VarsInv /\ at[s] \in Stages /\ b[s] \in Boundary /\ turns[s] \in 0..MaxTurns /\ count[s] \in 0..MaxTurns
           /\ b[s].token \in 0..MaxTurns /\ b[s].base \in Nat /\ b[s].op \in {"begin", "bind", "after"}
           /\ b[s].pending \in BOOLEAN /\ b[s].mark \in Mark /\ b[s].names \subseteq Tokens
           /\ b[s].then \in {"idle", "recover", "turn", "stuck", "closed"}
           /\ marks[s] \in Seq(Mark)
<1>1. at[s] \in Stages /\ b[s] \in Boundary /\ turns[s] \in 0..MaxTurns /\ count[s] \in 0..MaxTurns
      /\ marks[s] \in Seq(Mark)
  BY DEF IInv, VarsInv
<1>2. Local(s) /\ VarsInv
  BY DEF IInv
<1> QED BY <1>1, <1>2 DEF Local, Boundary

\* The lease stays as it is.
LEMMA LeaseKept ==
    ASSUME IInv, NEW s \in Sessions, Elsewhere(s), lease' = lease,
           at'[s] \in Holding => lease # <<>> /\ lease[1] = s,
           s \in ToSet(lease) => at'[s] \in (InTurn \ {"turn"}) \cup Removing /\ ~Clearing(s)'
    PROVE  LeaseInv'
<1>1. LeaseInv
  BY DEF IInv
<1> QED BY <1>1 DEF LeaseInv, Elsewhere, Clearing

\* The session leaves the queue, if it was in it.
LEMMA LeaseLeft ==
    ASSUME IInv, NEW s \in Sessions, Elsewhere(s), Leave(s), at'[s] \notin Holding
    PROVE  lease' \in Seq(Sessions) /\ LeaseInv'
<1>1. LeaseInv /\ VarsInv
  BY DEF IInv
<1>2. /\ lease' \in Seq(Sessions) /\ Once(lease')
      /\ ToSet(lease') = ToSet(lease) \ {s}
      /\ lease # <<>> /\ lease[1] # s => lease' # <<>> /\ lease'[1] = lease[1]
  BY <1>1, RemoveOnce DEF VarsInv, LeaseInv, Leave
<1>3. \A x \in Sessions : x \in ToSet(lease') =>
        at'[x] \in (InTurn \ {"turn"}) \cup Removing /\ ~Clearing(x)'
  BY <1>1, <1>2 DEF LeaseInv, Elsewhere, Clearing
<1>4. \A x \in Sessions : at'[x] \in Holding => lease' # <<>> /\ lease'[1] = x
  BY <1>1, <1>2 DEF LeaseInv, Elsewhere
<1> QED BY <1>2, <1>3, <1>4 DEF LeaseInv

\* Boundaries and statuses of the others.
LEMMA OthersStay ==
    ASSUME IInv, NEW s \in Sessions, Elsewhere(s), lost \subseteq lost', cut \subseteq cut'
    PROVE  \A x \in Sessions \ {s} : BoundaryOf(x)' /\ StatusOf(x)'
<1> SUFFICES ASSUME NEW x \in Sessions \ {s} PROVE BoundaryOf(x)' /\ StatusOf(x)'
  OBVIOUS
<1>1. BoundaryOf(x) /\ StatusOf(x)
  BY Here
<1>2. at'[x] = at[x] /\ b'[x] = b[x] /\ turns'[x] = turns[x] /\ count'[x] = count[x] /\ marks'[x] = marks[x]
  BY DEF Elsewhere
<1>3. BoundaryOf(x)'
  BY <1>1, <1>2 DEF BoundaryOf, Clearing, Captured
<1>4. StatusOf(x)'
  BY <1>1, <1>2 DEF StatusOf, Captured, Turning, Finalized, TurnOf
<1> QED BY <1>3, <1>4

\* What is on disk for the others, when no file changes and no ref of theirs but to be removed.
LEMMA OthersOnDisk ==
    ASSUME IInv, NEW s \in Sessions, Elsewhere(s), lost \subseteq lost', epoch' = epoch, file' = file,
           wrote' \subseteq wrote \cup {TurnOf(s)},
           \A x \in Sessions \ {s} : \A k \in Tokens : ref'[x][k] \in {ref[x][k], None}
    PROVE  \A x \in Sessions \ {s} : PendingOf(x)' /\ DeadOf(x)' /\ WriterOf(x)'
<1> SUFFICES ASSUME NEW x \in Sessions \ {s} PROVE PendingOf(x)' /\ DeadOf(x)' /\ WriterOf(x)'
  OBVIOUS
<1>1. PendingOf(x) /\ DeadOf(x) /\ WriterOf(x) /\ BoundaryOf(x)
  BY Here
<1>2. at'[x] = at[x] /\ b'[x] = b[x] /\ turns'[x] = turns[x] /\ marks'[x] = marks[x]
  BY DEF Elsewhere
<1>3. PendingOf(x)'
  BY <1>1, <1>2 DEF PendingOf, BoundaryOf, Wanted, Persisting, Holding, InTurn
<1>4. DeadOf(x)'
  BY <1>1, <1>2 DEF DeadOf, Clearing
<1>5. WriterOf(x)'
  <2>1. TurnOf(x)' = TurnOf(x) /\ TurnOf(x) # TurnOf(s) /\ Acquiring(x)' = Acquiring(x)
    BY <1>2 DEF TurnOf, Acquiring
  <2>2. \A k : RecordedTurn(k)' = RecordedTurn(k)
    BY DEF RecordedTurn
  <2>3. \A k : file[k].session = x => RecordedTurn(k) # TurnOf(s)
                                   /\ (Settled(RecordedTurn(k)) => Settled(RecordedTurn(k))')
    BY <1>2 DEF RecordedTurn, TurnOf, Settled, Finalized
  <2> QED BY <1>1, <1>2, <2>1, <2>2, <2>3 DEF WriterOf
<1> QED BY <1>3, <1>4, <1>5

\* Statuses and bases of the others, when nothing is committed or written.
LEMMA OthersCommits ==
    ASSUME IInv, NEW s \in Sessions, Elsewhere(s), log' = log, dirty' = dirty
    PROVE  \A x \in Sessions \ {s} : MarkOf(x)' /\ DirtyOf(x)'
<1> SUFFICES ASSUME NEW x \in Sessions \ {s} PROVE MarkOf(x)' /\ DirtyOf(x)'
  OBVIOUS
<1>1. MarkOf(x) /\ DirtyOf(x)
  BY Here
<1>2. at'[x] = at[x] /\ b'[x] = b[x] /\ turns'[x] = turns[x] /\ marks'[x] = marks[x]
  BY DEF Elsewhere
<1>3. \A m : Owned(x, m)' = Owned(x, m)
  BY DEF Owned, Own
<1>4. MarkOf(x)'
  BY <1>1, <1>2, <1>3 DEF MarkOf, Captured
<1>5. DirtyOf(x)'
  BY <1>1, <1>2 DEF DirtyOf, Acquiring, TurnOf
<1> QED BY <1>4, <1>5

\* One step of a session: what it goes to, and that nobody else moves.
LEMMA Goes ==
    ASSUME IInv, NEW s \in Sessions, NEW stage \in Stages, NEW r \in Boundary, Go(s, stage, r),
           \A x \in Sessions \ {s} : turns'[x] = turns[x] /\ count'[x] = count[x] /\ marks'[x] = marks[x]
    PROVE  /\ at' \in [Sessions -> Stages] /\ b' \in [Sessions -> Boundary]
           /\ at'[s] = stage /\ b'[s] = r /\ Elsewhere(s)
BY GoOn DEF IInv, Elsewhere

\* Everything about the records, when no file and no ref changes.
LEMMA RecordsStay ==
    ASSUME IInv, epoch' = epoch, file' = file, ref' = ref,
           \A s \in Sessions : turns[s] <= turns'[s] /\ turns'[s] \in Nat
    PROVE  RecordInv'
<1>1. \A k \in Tokens : file[k] # None => file[k].session \in Sessions /\ file[k].turn \in Nat
  BY RecordType DEF IInv, VarsInv
<1>2. \A s \in Sessions : turns[s] \in Nat
  BY DEF IInv, VarsInv
<1>3. RecordInv
  BY DEF IInv
<1>4. \A k \in Tokens : Readable(k)' = Readable(k)
  BY DEF Readable
<1> QED BY <1>1, <1>2, <1>3, <1>4 DEF RecordInv

\* A turn that wrote stays accounted for, when no file changes.
LEMMA WroteStays ==
    ASSUME IInv, file' = file, wrote' = wrote, lost \subseteq lost',
           \A s \in Sessions : turns[s] <= turns'[s] /\ turns'[s] \in Nat,
           \A s \in Sessions, t \in Nat : Finalized(s, t) => Finalized(s, t)'
    PROVE  WroteInv'
<1>1. WroteInv /\ wrote \subseteq Turn
  BY DEF IInv, VarsInv
<1>2. \A turn \in wrote : turn[1] \in Sessions /\ turn[2] \in Nat /\ turns[turn[1]] \in Nat
  BY <1>1 DEF Turn, IInv, VarsInv
<1>3. \A turn \in wrote : Settled(turn) => Settled(turn)'
  BY <1>2 DEF Settled
<1>4. \A k : RecordedTurn(k)' = RecordedTurn(k)
  BY DEF RecordedTurn
<1> QED BY <1>1, <1>2, <1>3, <1>4 DEF WroteInv

\* A step that changes nothing on disk.
LEMMA QuietStep ==
    ASSUME IInv, VarsInv', LeaseInv', NEW s \in Sessions, Elsewhere(s), lost \subseteq lost', Local(s)',
           UNCHANGED <<epoch, turns, marks, log, dirty, ref, file, wrote, cut>>
    PROVE  IInv'
<1>1. \A x \in Sessions : Local(x)'
  BY OthersStay, OthersOnDisk, OthersCommits DEF Local
<1>2. \A x \in Sessions : turns[x] \in Nat
  BY DEF IInv, VarsInv
<1>3. RecordInv'
  BY <1>2, RecordsStay
<1>4. WroteInv'
  BY <1>2, WroteStays DEF Finalized
<1>5. DirtyInv'
  BY DEF IInv, DirtyInv
<1> QED BY <1>1, <1>3, <1>4, <1>5 DEF IInv

\* Its statuses stay those of the same turns.
LEMMA StatusStays ==
    ASSUME IInv, NEW s \in Sessions, turns'[s] = turns[s], marks'[s] = marks[s],
           lost \subseteq lost', cut \subseteq cut', Turning(s)' => Turning(s),
           Turning(s) => Turning(s)' \/ TurnOf(s) \in lost',
           (at[s] = "append" \/ Captured(s))' => b'[s].mark.turn = turns[s],
           (at[s] = "stuck" \/ (at[s] \in Removing /\ b[s].then \in {"idle", "stuck", "closed"}))' =>
               Finalized(s, turns[s]) \/ TurnOf(s) \in lost'
    PROVE  StatusOf(s)'
<1>1. StatusOf(s) /\ turns[s] \in Nat
  BY Here
<1>2. \A t : Finalized(s, t)' = Finalized(s, t)
  BY DEF Finalized
<1>3. TurnOf(s)' = TurnOf(s)
  BY DEF TurnOf
<1>4. \A t \in 1..turns[s] : Finalized(s, t) \/ <<s, t>> \in lost' \cup cut' \/ (t = turns[s] /\ Turning(s)')
  BY <1>1 DEF StatusOf, TurnOf
<1> QED BY <1>1, <1>2, <1>3, <1>4 DEF StatusOf

\* Its statuses, when nothing is committed or written.
LEMMA MarksStay ==
    ASSUME IInv, NEW s \in Sessions, marks'[s] = marks[s], log' = log, dirty' = dirty,
           (at[s] = "append" \/ Captured(s))' => Owned(s, b'[s].mark)
    PROVE  MarkOf(s)'
<1>1. MarkOf(s)
  BY Here
<1>2. \A m : Owned(s, m)' = Owned(s, m)
  BY DEF Owned, Own
<1> QED BY <1>1, <1>2 DEF MarkOf

-----------------------------------------------------------------------------
(* Steps that change nothing on disk *)

USE DEF Persisting, Holding, Removing, InTurn, Stages

LEMMA OpenStep ==
    ASSUME IInv, NEW s \in Sessions, Open(s)
    PROVE  IInv'
<1> DEFINE r == [NoBoundary EXCEPT !.names = {k \in Tokens : file[k] # None}]
<1>1. /\ NoBoundary \in Boundary /\ r \in Boundary /\ ~NoBoundary.pending
      /\ ~r.pending /\ r.names = {k \in Tokens : file[k] # None}
  BY Here, BoundaryType DEF Boundary, NoBoundary
<1>2. /\ at[s] \in {"closed", "refused"}
      /\ UNCHANGED <<epoch, turns, marks, log, dirty, ref, file, temp, count, lease, failures, wrote, lost, cut>>
      /\ Go(s, "refused", NoBoundary) \/ Go(s, "listed", r)
  BY DEF Open, disk, rest
<1> HIDE DEF r
<1>3. /\ at' \in [Sessions -> Stages] /\ b' \in [Sessions -> Boundary] /\ Elsewhere(s)
      /\ at'[s] \in {"refused", "listed"} /\ ~b'[s].pending
      /\ at'[s] = "listed" => b'[s].names = {k \in Tokens : file[k] # None}
  BY <1>1, <1>2, Goes
<1>4. VarsInv'
  BY <1>2, <1>3 DEF IInv, VarsInv
<1>5. LeaseInv'
  <2>1. s \notin ToSet(lease)
    BY <1>2 DEF IInv, LeaseInv
  <2> QED BY <1>2, <1>3, <2>1, LeaseKept
<1>6. Local(s)'
  <2>1. BoundaryOf(s)'
    BY <1>2, <1>3, Here DEF BoundaryOf, Clearing, Captured
  <2>2. PendingOf(s)'
    BY <1>2, <1>3, Here DEF PendingOf
  <2>3. DeadOf(s)'
    BY <1>2, <1>3, Here DEF DeadOf, Clearing
  <2>4. StatusOf(s)'
    BY <1>2, <1>3, Here, StatusStays DEF StatusOf, Captured, Turning
  <2>5. WriterOf(s)'
    BY <1>2, <1>3, Here DEF WriterOf, Acquiring, TurnOf, RecordedTurn, Settled, Finalized
  <2>6. MarkOf(s)'
    BY <1>2, <1>3, Here, MarksStay DEF MarkOf, Captured
  <2>7. DirtyOf(s)'
    BY <1>2, <1>3, Here DEF DirtyOf, Acquiring, TurnOf
  <2> QED BY <2>1, <2>2, <2>3, <2>4, <2>5, <2>6, <2>7 DEF Local
<1> QED BY <1>2, <1>3, <1>4, <1>5, <1>6, QuietStep

LEMMA ReadRecordsStep ==
    ASSUME IInv, NEW s \in Sessions, ReadRecords(s)
    PROVE  IInv'
<1> DEFINE r == [b[s] EXCEPT !.names = Dead(s)]
<1>1. NoBoundary \in Boundary /\ r \in Boundary /\ r.pending = b[s].pending /\ r.names = Dead(s) /\ ~NoBoundary.pending
  BY Here, BoundaryType DEF Boundary, NoBoundary, Dead
<1>2. /\ at[s] = "listed"
      /\ UNCHANGED <<epoch, turns, marks, log, dirty, ref, file, temp, count, lease, failures, wrote, lost, cut>>
      /\ \/ Go(s, "refused", NoBoundary)
         \/ Go(s, "recover", r) /\ \A k \in b[s].names : file[k] # None
  BY DEF ReadRecords, disk, rest, Readable
<1> HIDE DEF r
<1>3. /\ at' \in [Sessions -> Stages] /\ b' \in [Sessions -> Boundary] /\ Elsewhere(s) /\ ~b'[s].pending
      /\ \/ at'[s] = "refused"
         \/ at'[s] = "recover" /\ b'[s].names = Dead(s) /\ \A k \in b[s].names : file[k] # None
  BY <1>1, <1>2, Goes, Here DEF BoundaryOf
<1>4. VarsInv'
  BY <1>2, <1>3 DEF IInv, VarsInv
<1>5. LeaseInv'
  <2>1. s \notin ToSet(lease)
    BY <1>2 DEF IInv, LeaseInv
  <2> QED BY <1>2, <1>3, <2>1, LeaseKept
<1>6. Local(s)'
  <2>1. BoundaryOf(s)'
    BY <1>2, <1>3, Here DEF BoundaryOf, Clearing, Captured
  <2>2. PendingOf(s)'
    BY <1>2, <1>3, Here DEF PendingOf
  <2>3. DeadOf(s)'
    BY <1>2, <1>3, Here DEF DeadOf, Clearing, Dead
  <2>4. StatusOf(s)'
    BY <1>2, <1>3, Here, StatusStays DEF StatusOf, Captured, Turning
  <2>5. WriterOf(s)'
    BY <1>2, <1>3, Here DEF WriterOf, Acquiring, TurnOf, RecordedTurn, Settled, Finalized
  <2>6. MarkOf(s)'
    BY <1>2, <1>3, Here, MarksStay DEF MarkOf, Captured
  <2>7. DirtyOf(s)'
    BY <1>2, <1>3, Here DEF DirtyOf, Acquiring, TurnOf
  <2> QED BY <2>1, <2>2, <2>3, <2>4, <2>5, <2>6, <2>7 DEF Local
<1> QED BY <1>2, <1>3, <1>4, <1>5, <1>6, QuietStep

LEMMA RecoverFailsStep ==
    ASSUME IInv, NEW s \in Sessions, RecoverFails(s)
    PROVE  IInv'
<1>1. NoBoundary \in Boundary /\ ~NoBoundary.pending
  BY Here, BoundaryType DEF NoBoundary
<1>2. /\ at[s] \in {"listed", "recover"} /\ Go(s, "refused", NoBoundary) /\ failures' = failures + 1
      /\ UNCHANGED <<epoch, turns, marks, log, dirty, ref, file, temp, count, lease, wrote, lost, cut>>
  BY DEF RecoverFails, Fails, disk, rest
<1>3. /\ at' \in [Sessions -> Stages] /\ b' \in [Sessions -> Boundary] /\ Elsewhere(s)
      /\ at'[s] = "refused" /\ ~b'[s].pending
  BY <1>1, <1>2, Goes
<1>4. VarsInv'
  BY <1>2, <1>3 DEF IInv, VarsInv
<1>5. LeaseInv'
  <2>1. s \notin ToSet(lease)
    BY <1>2 DEF IInv, LeaseInv
  <2> QED BY <1>2, <1>3, <2>1, LeaseKept
<1>6. Local(s)'
  <2>1. BoundaryOf(s)'
    BY <1>2, <1>3, Here DEF BoundaryOf, Clearing, Captured
  <2>2. PendingOf(s)'
    BY <1>2, <1>3, Here DEF PendingOf
  <2>3. DeadOf(s)'
    BY <1>2, <1>3, Here DEF DeadOf, Clearing
  <2>4. StatusOf(s)'
    BY <1>2, <1>3, Here, StatusStays DEF StatusOf, Captured, Turning
  <2>5. WriterOf(s)'
    BY <1>2, <1>3, Here DEF WriterOf, Acquiring, TurnOf, RecordedTurn, Settled, Finalized
  <2>6. MarkOf(s)'
    BY <1>2, <1>3, Here, MarksStay DEF MarkOf, Captured
  <2>7. DirtyOf(s)'
    BY <1>2, <1>3, Here DEF DirtyOf, Acquiring, TurnOf
  <2> QED BY <2>1, <2>2, <2>3, <2>4, <2>5, <2>6, <2>7 DEF Local
<1> QED BY <1>2, <1>3, <1>4, <1>5, <1>6, QuietStep

LEMMA ToolCallStep ==
    ASSUME IInv, NEW s \in Sessions, ToolCall(s)
    PROVE  IInv'
<1>1. /\ at[s] = "turn" /\ Go(s, "waiting", b[s]) /\ lease' = Append(lease, s)
      /\ UNCHANGED <<epoch, turns, marks, log, dirty, ref, file, temp, count, failures, wrote, lost, cut>>
  BY DEF ToolCall, disk, rest
<1>2. /\ at' \in [Sessions -> Stages] /\ b' \in [Sessions -> Boundary] /\ Elsewhere(s)
      /\ at'[s] = "waiting" /\ b'[s] = b[s]
  BY <1>1, Goes, Here
<1>3. LeaseInv /\ lease \in Seq(Sessions) /\ s \notin ToSet(lease)
  BY <1>1 DEF IInv, VarsInv, LeaseInv
<1>4. /\ lease' \in Seq(Sessions) /\ Once(lease') /\ ToSet(lease') = ToSet(lease) \cup {s}
      /\ lease # <<>> => lease' # <<>> /\ lease'[1] = lease[1]
  BY <1>1, <1>3, JoinOnce DEF LeaseInv
<1>5. VarsInv'
  BY <1>1, <1>2, <1>4 DEF IInv, VarsInv
<1>6. LeaseInv'
  BY <1>2, <1>3, <1>4 DEF LeaseInv, Elsewhere, Clearing
<1>7. Local(s)'
  <2>1. BoundaryOf(s)'
    BY <1>1, <1>2, Here DEF BoundaryOf, Clearing, Captured
  <2>2. PendingOf(s)'
    BY <1>1, <1>2, Here DEF PendingOf
  <2>3. DeadOf(s)'
    BY <1>1, <1>2, Here DEF DeadOf, Clearing
  <2>4. StatusOf(s)'
    BY <1>1, <1>2, Here, StatusStays DEF StatusOf, Captured, Turning
  <2>5. WriterOf(s)'
    BY <1>1, <1>2, Here DEF WriterOf, Acquiring, TurnOf, RecordedTurn, Settled, Finalized
  <2>6. MarkOf(s)'
    BY <1>1, <1>2, Here, MarksStay DEF MarkOf, Captured
  <2>7. DirtyOf(s)'
    BY <1>1, <1>2, Here DEF DirtyOf, Acquiring, TurnOf
  <2> QED BY <2>1, <2>2, <2>3, <2>4, <2>5, <2>6, <2>7 DEF Local
<1> QED BY <1>1, <1>2, <1>5, <1>6, <1>7, QuietStep

LEMMA WriteTemporaryStep ==
    ASSUME IInv, NEW s \in Sessions, WriteTemporary(s)
    PROVE  IInv'
<1>1. /\ at[s] = "temp" /\ Go(s, "rename", b[s]) /\ temp' = temp \cup {s}
      /\ UNCHANGED <<epoch, turns, marks, log, dirty, ref, file, count, lease, failures, wrote, lost, cut>>
  BY DEF WriteTemporary, disk, rest
<1>2. /\ at' \in [Sessions -> Stages] /\ b' \in [Sessions -> Boundary] /\ Elsewhere(s)
      /\ at'[s] = "rename" /\ b'[s] = b[s]
  BY <1>1, Goes, Here
<1>3. VarsInv'
  BY <1>1, <1>2 DEF IInv, VarsInv
<1>4. LeaseInv'
  <2>1. lease # <<>> /\ lease[1] = s
    BY <1>1 DEF IInv, LeaseInv
  <2> QED BY <1>1, <1>2, <2>1, LeaseKept DEF Clearing
<1>5. Local(s)'
  <2>1. BoundaryOf(s)'
    BY <1>1, <1>2, Here DEF BoundaryOf, Clearing, Captured
  <2>2. PendingOf(s)'
    BY <1>1, <1>2, Here DEF PendingOf, Wanted
  <2>3. DeadOf(s)'
    BY <1>1, <1>2, Here DEF DeadOf, Clearing
  <2>4. StatusOf(s)'
    BY <1>1, <1>2, Here, StatusStays DEF StatusOf, Captured, Turning
  <2>5. WriterOf(s)'
    BY ZenonT(60), <1>1, <1>2, Here DEF WriterOf, Acquiring, TurnOf, RecordedTurn, Settled, Finalized
  <2>6. MarkOf(s)'
    BY <1>1, <1>2, Here, MarksStay DEF MarkOf, Captured
  <2>7. DirtyOf(s)'
    BY <1>1, <1>2, Here DEF DirtyOf, Acquiring, TurnOf
  <2> QED BY <2>1, <2>2, <2>3, <2>4, <2>5, <2>6, <2>7 DEF Local
<1> QED BY <1>1, <1>2, <1>3, <1>4, <1>5, QuietStep

LEMMA CloseStep ==
    ASSUME IInv, NEW s \in Sessions, Close(s)
    PROVE  IInv'
<1> DEFINE r == [b[s] EXCEPT !.then = "closed"]
<1>1. /\ NoBoundary \in Boundary /\ r \in Boundary /\ ~NoBoundary.pending
      /\ r.pending = b[s].pending /\ r.then = "closed" /\ r.token = b[s].token
  BY Here, BoundaryType DEF Boundary, NoBoundary
<1>2. /\ at[s] \in {"idle", "stuck"}
      /\ \/ b[s].pending /\ Go(s, "unref", r)
         \/ Go(s, "closed", NoBoundary)
      /\ UNCHANGED <<epoch, turns, marks, log, dirty, ref, file, temp, count, lease, failures, wrote, lost, cut>>
  BY DEF Close, Retire, disk, rest
<1> HIDE DEF r
<1>3. /\ at' \in [Sessions -> Stages] /\ b' \in [Sessions -> Boundary] /\ Elsewhere(s)
      /\ \/ /\ b[s].pending /\ at[s] = "stuck" /\ at'[s] = "unref"
            /\ b'[s].pending /\ b'[s].then = "closed" /\ b'[s].token = b[s].token
         \/ at'[s] = "closed" /\ ~b'[s].pending
  BY <1>1, <1>2, Goes, Here DEF BoundaryOf
<1>4. VarsInv'
  BY <1>2, <1>3 DEF IInv, VarsInv
<1>5. LeaseInv'
  <2>1. s \notin ToSet(lease)
    BY <1>2 DEF IInv, LeaseInv
  <2> QED BY <1>2, <1>3, <2>1, LeaseKept
<1>6. Local(s)'
  <2>1. BoundaryOf(s)'
    BY <1>2, <1>3, Here DEF BoundaryOf, Clearing, Captured
  <2>2. PendingOf(s)'
    BY <1>2, <1>3, Here DEF PendingOf
  <2>3. DeadOf(s)'
    BY <1>2, <1>3, Here DEF DeadOf, Clearing
  <2>4. StatusOf(s)'
    BY <1>2, <1>3, Here, StatusStays DEF StatusOf, Captured, Turning
  <2>5. WriterOf(s)'
    <3>1. file[b[s].token] # None /\ b[s].pending /\ file[b[s].token].session = s =>
              RecordedTurn(b[s].token) = TurnOf(s)
      BY Here DEF PendingOf, RecordedTurn, TurnOf
    <3>2. at'[s] = "unref" => Settled(TurnOf(s))
      BY <1>2, <1>3, Here DEF StatusOf, Settled, TurnOf
    <3>3. \A turn : Settled(turn)' = Settled(turn)
      BY <1>2 DEF Settled, Finalized
    <3>4. \A k : RecordedTurn(k)' = RecordedTurn(k)
      BY <1>2 DEF RecordedTurn
    <3> QED BY <1>2, <1>3, <3>1, <3>2, <3>3, <3>4 DEF WriterOf, Acquiring
  <2>6. MarkOf(s)'
    BY <1>2, <1>3, Here, MarksStay DEF MarkOf, Captured
  <2>7. DirtyOf(s)'
    BY <1>2, <1>3, Here DEF DirtyOf, Acquiring, TurnOf
  <2> QED BY <2>1, <2>2, <2>3, <2>4, <2>5, <2>6, <2>7 DEF Local
<1> QED BY <1>2, <1>3, <1>4, <1>5, <1>6, QuietStep

LEMMA EndTurnStep ==
    ASSUME IInv, NEW s \in Sessions, EndTurn(s)
    PROVE  IInv'
<1> DEFINE r(m) == [b[s] EXCEPT !.mark = m]
           here == Available(s, Len(log), Len(log))
<1>1. /\ Unavailable(s) \in Mark /\ here \in Mark /\ Unavailable(s).turn = turns[s] /\ here.turn = turns[s]
      /\ Unavailable(s).status = "unavailable" /\ here.before = Len(log) /\ here.after = Len(log) /\ Len(log) \in Nat
  BY Here, BoundaryType, LenProperties DEF Unavailable, Available, NoMark, IInv, VarsInv
<1>2. \A m \in Mark : /\ r(m) \in Boundary /\ r(m).mark = m /\ r(m).token = b[s].token /\ r(m).pending = b[s].pending
  BY Here DEF Boundary
<1>3. /\ at[s] \in {"turn", "holding"}
      /\ Go(s, "append", r(Unavailable(s))) \/ (at[s] = "turn" /\ Go(s, "append", r(here)))
      /\ UNCHANGED <<epoch, turns, marks, log, dirty, ref, file, temp, count, lease, failures, wrote, lost, cut>>
  BY DEF EndTurn, disk, rest
<1> HIDE DEF r, here
<1>4. /\ at' \in [Sessions -> Stages] /\ b' \in [Sessions -> Boundary] /\ Elsewhere(s)
      /\ at'[s] = "append" /\ b'[s].token = b[s].token /\ b'[s].pending = b[s].pending
      /\ b'[s].mark = Unavailable(s) \/ (at[s] = "turn" /\ b'[s].mark = here)
  BY <1>1, <1>2, <1>3, Goes
<1>5. VarsInv'
  BY <1>3, <1>4 DEF IInv, VarsInv
<1>6. LeaseInv'
  BY <1>3, <1>4, LeaseKept DEF Clearing
<1>7. at[s] = "turn" => Owned(s, here)
  <2>1. at[s] = "turn" => TurnOf(s) \notin dirty /\ \A c \in DOMAIN log : TurnOf(s) \notin log[c].from
    BY Here DEF WriterOf, IInv, DirtyInv
  <2> QED BY <1>1, <2>1 DEF Owned, Own, TurnOf
<1>8. Owned(s, Unavailable(s))
  BY <1>1 DEF Owned, Own
<1>9. Local(s)'
  <2>1. BoundaryOf(s)'
    BY <1>3, <1>4, Here DEF BoundaryOf, Clearing, Captured
  <2>2. PendingOf(s)'
    BY <1>3, <1>4, Here DEF PendingOf
  <2>3. DeadOf(s)'
    BY <1>3, <1>4, Here DEF DeadOf, Clearing
  <2>4. StatusOf(s)'
    BY <1>1, <1>3, <1>4, Here, StatusStays DEF StatusOf, Captured, Turning
  <2>5. WriterOf(s)'
    BY <1>3, <1>4, Here DEF WriterOf, Acquiring, TurnOf, RecordedTurn, Settled, Finalized
  <2>6. MarkOf(s)'
    BY <1>3, <1>4, <1>7, <1>8, MarksStay DEF MarkOf, Captured
  <2>7. DirtyOf(s)'
    BY <1>3, <1>4, Here DEF DirtyOf, Acquiring, TurnOf
  <2> QED BY <2>1, <2>2, <2>3, <2>4, <2>5, <2>6, <2>7 DEF Local
<1> QED BY <1>3, <1>4, <1>5, <1>6, <1>9, QuietStep

LEMMA AppendFailsStep ==
    ASSUME IInv, NEW s \in Sessions, AppendFails(s)
    PROVE  IInv'
<1> DEFINE r == [b[s] EXCEPT !.mark = Unavailable(s)]
           q == [b[s] EXCEPT !.then = "stuck"]
<1>1. /\ Unavailable(s) \in Mark /\ Unavailable(s).turn = turns[s] /\ Unavailable(s).status = "unavailable"
      /\ b[s] \in Boundary /\ TurnOf(s) \in Turn
  BY Here, BoundaryType DEF Unavailable, NoMark
<1>2. /\ r \in Boundary /\ r.mark = Unavailable(s) /\ r.token = b[s].token /\ r.pending = b[s].pending
      /\ q \in Boundary /\ q.token = b[s].token /\ q.pending = b[s].pending /\ q.then = "stuck"
  BY <1>1, Here DEF Boundary
<1>3. /\ at[s] = "append" /\ failures' = failures + 1
      /\ UNCHANGED <<epoch, turns, marks, log, dirty, ref, file, temp, count, wrote, cut>>
      /\ \/ Go(s, "append", r) /\ lost' = lost /\ lease' = lease
         \/ /\ lost' = lost \cup {TurnOf(s)}
            /\ \/ b[s].pending /\ Go(s, "unref", q) /\ lease' = lease
               \/ Go(s, "stuck", b[s]) /\ Leave(s)
  BY DEF AppendFails, Fails, Retire, disk, rest
<1> HIDE DEF r, q
<1>4. /\ at' \in [Sessions -> Stages] /\ b' \in [Sessions -> Boundary] /\ Elsewhere(s)
      /\ b'[s].token = b[s].token /\ b'[s].pending = b[s].pending
      /\ \/ at'[s] = "append" /\ lost' = lost /\ b'[s].mark = Unavailable(s) /\ lease' = lease
         \/ /\ lost' = lost \cup {TurnOf(s)}
            /\ \/ at'[s] = "unref" /\ b[s].pending /\ b'[s].then = "stuck" /\ lease' = lease
               \/ at'[s] = "stuck" /\ Leave(s)
  BY <1>1, <1>2, <1>3, Goes
<1>5. lost \subseteq lost' /\ lost' \subseteq Turn
  BY <1>1, <1>4 DEF IInv, VarsInv
<1>6. lease' \in Seq(Sessions) /\ LeaseInv'
  BY <1>3, <1>4, LeaseKept, LeaseLeft DEF Clearing, IInv, VarsInv
<1>7. VarsInv'
  BY <1>3, <1>4, <1>5, <1>6 DEF IInv, VarsInv
<1>8. Owned(s, Unavailable(s))
  BY <1>1 DEF Owned, Own
<1>9. Local(s)'
  <2>1. BoundaryOf(s)'
    BY <1>3, <1>4, Here DEF BoundaryOf, Clearing, Captured
  <2>2. PendingOf(s)'
    BY <1>3, <1>4, Here DEF PendingOf
  <2>3. DeadOf(s)'
    BY <1>3, <1>4, Here DEF DeadOf, Clearing
  <2>4. StatusOf(s)'
    BY <1>1, <1>3, <1>4, <1>5, Here, StatusStays DEF StatusOf, Captured, Turning
  <2>5. WriterOf(s)'
    <3>1. file[b[s].token] # None /\ b[s].pending /\ file[b[s].token].session = s =>
              RecordedTurn(b[s].token) = TurnOf(s)
      BY Here DEF PendingOf, RecordedTurn, TurnOf
    <3>2. at'[s] = "unref" => Settled(TurnOf(s))'
      BY <1>3, <1>4 DEF Settled, TurnOf
    <3>3. RecordedTurn(b[s].token)' = RecordedTurn(b[s].token)' /\ TurnOf(s)' = TurnOf(s)
      BY <1>3 DEF TurnOf
    <3>4. \A k : RecordedTurn(k)' = RecordedTurn(k)
      BY <1>3 DEF RecordedTurn
    <3> QED BY <1>3, <1>4, <3>1, <3>2, <3>3, <3>4 DEF WriterOf, Acquiring
  <2>6. MarkOf(s)'
    BY <1>3, <1>4, <1>8, MarksStay DEF MarkOf, Captured
  <2>7. DirtyOf(s)'
    BY <1>3, <1>4, Here DEF DirtyOf, Acquiring, TurnOf
  <2> QED BY <2>1, <2>2, <2>3, <2>4, <2>5, <2>6, <2>7 DEF Local
<1> QED BY <1>3, <1>4, <1>5, <1>6, <1>7, <1>9, QuietStep

LEMMA StartTurnStep ==
    ASSUME IInv, NEW s \in Sessions, StartTurn(s)
    PROVE  IInv'
<1> DEFINE r == [NoBoundary EXCEPT !.token = count[s] + 1]
<1>1. /\ at[s] = "idle" /\ turns[s] < MaxTurns
      /\ turns' = [turns EXCEPT ![s] = @ + 1] /\ count' = [count EXCEPT ![s] = @ + 1]
      /\ Go(s, "turn", r)
      /\ UNCHANGED <<epoch, marks, log, dirty, ref, file, temp, lease, failures, wrote, lost, cut>>
  BY DEF StartTurn
<1>2. count[s] <= turns[s] /\ turns[s] \in Nat /\ count[s] \in Nat /\ MaxTurns \in Nat
  BY Here, CheckpointAssumption DEF BoundaryOf
<1>3. r \in Boundary /\ r.token = count[s] + 1 /\ ~r.pending
  <2>1. NoBoundary \in Boundary /\ ~NoBoundary.pending
    BY Here, BoundaryType DEF NoBoundary
  <2>2. count[s] + 1 \in 0..MaxTurns
    BY <1>1, <1>2
  <2> QED BY <2>1, <2>2 DEF Boundary
<1> HIDE DEF r
<1>4. /\ turns' \in [Sessions -> 0..MaxTurns] /\ count' \in [Sessions -> 0..MaxTurns]
      /\ turns'[s] = turns[s] + 1 /\ count'[s] = count[s] + 1
      /\ \A x \in Sessions \ {s} : turns'[x] = turns[x] /\ count'[x] = count[x]
  BY <1>1, <1>2 DEF IInv, VarsInv
<1>5. /\ at' \in [Sessions -> Stages] /\ b' \in [Sessions -> Boundary] /\ Elsewhere(s)
      /\ at'[s] = "turn" /\ b'[s].token = count[s] + 1 /\ ~b'[s].pending /\ b'[s].token \in Tokens
  BY <1>1, <1>2, <1>3, <1>4, Goes DEF Tokens
<1>6. VarsInv'
  BY <1>1, <1>4, <1>5 DEF IInv, VarsInv
<1>7. LeaseInv'
  <2>1. s \notin ToSet(lease)
    BY <1>1 DEF IInv, LeaseInv
  <2> QED BY <1>1, <1>5, <2>1, LeaseKept
<1>8. TurnOf(s)' \notin wrote
  <2>1. \A turn \in wrote : turn[2] <= turns[turn[1]]
    BY DEF IInv, WroteInv
  <2> QED BY <1>2, <1>4, <2>1 DEF TurnOf
<1>9. Local(s)'
  <2>1. BoundaryOf(s)'
    BY <1>1, <1>2, <1>4, <1>5, Here DEF BoundaryOf, Clearing, Captured, Tokens
  <2>2. PendingOf(s)'
    BY <1>1, <1>4, <1>5, Here DEF PendingOf
  <2>3. DeadOf(s)'
    BY <1>1, <1>5, Here DEF DeadOf, Clearing
  <2>4. StatusOf(s)'
    <3>1. /\ \A i, j \in DOMAIN marks[s] : marks[s][i].turn = marks[s][j].turn => i = j
          /\ \A i \in DOMAIN marks[s] : marks[s][i].turn <= turns[s] /\ marks[s][i].turn \in Nat
          /\ \A t \in 1..turns[s] : Finalized(s, t) \/ <<s, t>> \in lost \cup cut
      <4>1. \A i \in DOMAIN marks[s] : marks[s][i] \in Mark
        BY Here, ElementOfSeq, LenProperties
      <4>2. \A m \in Mark : m.turn \in Nat
        BY <1>2 DEF Mark
      <4> QED BY <1>1, <4>1, <4>2, Here DEF StatusOf, Turning
    <3>2. ~Finalized(s, turns[s] + 1)
      BY <1>2, <3>1 DEF Finalized
    <3>3. \A t : Finalized(s, t)' = Finalized(s, t)
      BY <1>1 DEF Finalized
    <3> QED BY <1>1, <1>2, <1>4, <1>5, <3>1, <3>2, <3>3 DEF StatusOf, Turning, Captured
  <2>5. WriterOf(s)'
    BY <1>1, <1>5, <1>8 DEF WriterOf, Acquiring, TurnOf, RecordedTurn, Settled, Finalized
  <2>6. MarkOf(s)'
    BY <1>1, <1>5, MarksStay DEF MarkOf, Captured
  <2>7. DirtyOf(s)'
    BY <1>1, <1>4, <1>5, Here DEF DirtyOf, Acquiring, TurnOf
  <2> QED BY <2>1, <2>2, <2>3, <2>4, <2>5, <2>6, <2>7 DEF Local
<1>10. \A x \in Sessions : Local(x)'
  BY <1>1, <1>5, <1>9, OthersStay, OthersOnDisk, OthersCommits DEF Local
<1>11. \A x \in Sessions : turns[x] <= turns'[x] /\ turns'[x] \in Nat /\ turns[x] \in Nat
  <2>1. turns \in [Sessions -> 0..MaxTurns]
    BY DEF IInv, VarsInv
  <2> QED BY <1>2, <1>4, <2>1
<1>12. RecordInv'
  BY <1>1, <1>11, RecordsStay
<1>13. WroteInv'
  BY <1>1, <1>11, WroteStays DEF Finalized
<1>14. DirtyInv'
  BY <1>1 DEF IInv, DirtyInv
<1> QED BY <1>6, <1>7, <1>10, <1>12, <1>13, <1>14 DEF IInv

-----------------------------------------------------------------------------
(* Steps that append a status *)

\* A step that changes no file, no ref and no commit, but may give the session's turn a status.
LEMMA StatusStep ==
    ASSUME IInv, VarsInv', LeaseInv', NEW s \in Sessions, Elsewhere(s), lost \subseteq lost', Local(s)',
           UNCHANGED <<epoch, turns, log, dirty, ref, file, wrote, cut>>,
           \A t \in Nat : Finalized(s, t) => Finalized(s, t)'
    PROVE  IInv'
<1>1. \A x \in Sessions : Local(x)'
  BY OthersStay, OthersOnDisk, OthersCommits DEF Local
<1>2. \A x \in Sessions : turns[x] \in Nat
  BY DEF IInv, VarsInv
<1>3. RecordInv'
  BY <1>2, RecordsStay
<1>4. WroteInv'
  <2>1. \A x \in Sessions, t \in Nat : Finalized(x, t) => Finalized(x, t)'
    BY DEF Elsewhere, Finalized
  <2> QED BY <1>2, <2>1, WroteStays
<1>5. DirtyInv'
  BY DEF IInv, DirtyInv
<1> QED BY <1>1, <1>3, <1>4, <1>5 DEF IInv

\* A turn that has no status gets one: it has that one.
LEMMA NewMark ==
    ASSUME IInv, NEW s \in Sessions, NEW m \in Mark, ~Finalized(s, m.turn), m.turn <= turns[s],
           marks' = [marks EXCEPT ![s] = Append(@, m)]
    PROVE  /\ marks' \in [Sessions -> Seq(Mark)] /\ \A x \in Sessions \ {s} : marks'[x] = marks[x]
           /\ \A t : Finalized(s, t)' <=> Finalized(s, t) \/ t = m.turn
           /\ \A i, j \in DOMAIN marks'[s] : marks'[s][i].turn = marks'[s][j].turn => i = j
           /\ \A i \in DOMAIN marks'[s] : marks'[s][i].turn <= turns[s]
           /\ \A i \in DOMAIN marks'[s] : marks'[s][i] = m \/ (i \in DOMAIN marks[s] /\ marks'[s][i] = marks[s][i])
<1>1. marks \in [Sessions -> Seq(Mark)] /\ marks[s] \in Seq(Mark)
  BY DEF IInv, VarsInv
<1>2. marks'[s] = Append(marks[s], m) /\ marks' \in [Sessions -> Seq(Mark)] /\ \A x \in Sessions \ {s} : marks'[x] = marks[x]
  BY <1>1
<1>3. /\ Len(marks[s]) \in Nat /\ DOMAIN marks[s] = 1..Len(marks[s])
      /\ DOMAIN marks'[s] = 1..(Len(marks[s]) + 1) /\ marks'[s][Len(marks[s]) + 1] = m
      /\ \A i \in 1..Len(marks[s]) : marks'[s][i] = marks[s][i]
  BY <1>1, <1>2, LenProperties, AppendProperties
<1>4. /\ \A i, j \in DOMAIN marks[s] : marks[s][i].turn = marks[s][j].turn => i = j
      /\ \A i \in DOMAIN marks[s] : marks[s][i].turn <= turns[s] /\ marks[s][i].turn # m.turn
  BY Here DEF StatusOf, Finalized
<1>5. \A i \in DOMAIN marks'[s] : i \in DOMAIN marks[s] \/ i = Len(marks[s]) + 1
  BY <1>3
<1>6. \A i \in DOMAIN marks[s] : i \in DOMAIN marks'[s] /\ marks'[s][i] = marks[s][i]
  BY <1>3
<1>7. \A t : Finalized(s, t)' <=> Finalized(s, t) \/ t = m.turn
  BY <1>3, <1>5, <1>6 DEF Finalized
<1>8. \A i, j \in DOMAIN marks'[s] : marks'[s][i].turn = marks'[s][j].turn => i = j
  BY <1>3, <1>4, <1>5, <1>6
<1>9. \A i \in DOMAIN marks'[s] : marks'[s][i].turn <= turns[s]
  BY <1>3, <1>4, <1>5, <1>6
<1>10. \A i \in DOMAIN marks'[s] : marks'[s][i] = m \/ (i \in DOMAIN marks[s] /\ marks'[s][i] = marks[s][i])
  BY <1>3, <1>5, <1>6
<1> QED BY <1>2, <1>7, <1>8, <1>9, <1>10

LEMMA AppendMarkStep ==
    ASSUME IInv, NEW s \in Sessions, AppendMark(s)
    PROVE  IInv'
<1> DEFINE r == [b[s] EXCEPT !.then = "idle"]
           m == b[s].mark
<1>1. /\ NoBoundary \in Boundary /\ r \in Boundary /\ ~NoBoundary.pending
      /\ r.pending = b[s].pending /\ r.then = "idle" /\ r.token = b[s].token
  BY Here, BoundaryType DEF Boundary, NoBoundary
<1>2. /\ at[s] = "append" /\ marks' = [marks EXCEPT ![s] = Append(@, m)]
      /\ \/ b[s].pending /\ Go(s, "unref", r) /\ lease' = lease
         \/ Go(s, "idle", NoBoundary) /\ Leave(s)
      /\ UNCHANGED <<epoch, turns, log, dirty, ref, file, temp, count, failures, wrote, lost, cut>>
  BY DEF AppendMark, Retire, rest
<1>3. m \in Mark /\ m.turn = turns[s] /\ ~Finalized(s, m.turn) /\ Owned(s, m)
  BY <1>2, Here DEF StatusOf, MarkOf, Turning
<1>4. turns[s] \in Nat /\ m.turn <= turns[s]
  BY <1>3, Here
<1> HIDE DEF r, m
<1>5. /\ marks' \in [Sessions -> Seq(Mark)] /\ \A x \in Sessions \ {s} : marks'[x] = marks[x]
      /\ \A t : Finalized(s, t)' <=> Finalized(s, t) \/ t = turns[s]
      /\ \A i, j \in DOMAIN marks'[s] : marks'[s][i].turn = marks'[s][j].turn => i = j
      /\ \A i \in DOMAIN marks'[s] : marks'[s][i].turn <= turns[s]
      /\ \A i \in DOMAIN marks'[s] : marks'[s][i] = m \/ (i \in DOMAIN marks[s] /\ marks'[s][i] = marks[s][i])
  <2>1. \A t : Finalized(s, t)' <=> Finalized(s, t) \/ t = m.turn
    BY <1>2, <1>3, <1>4, NewMark
  <2> QED BY <1>2, <1>3, <1>4, <2>1, NewMark
<1>6. /\ at' \in [Sessions -> Stages] /\ b' \in [Sessions -> Boundary] /\ Elsewhere(s)
      /\ \/ /\ at'[s] = "unref" /\ b[s].pending /\ b'[s].pending /\ b'[s].then = "idle"
            /\ b'[s].token = b[s].token /\ lease' = lease
         \/ at'[s] = "idle" /\ ~b'[s].pending /\ Leave(s)
  BY <1>1, <1>2, <1>5, Goes
<1>7. lease' \in Seq(Sessions) /\ LeaseInv'
  BY <1>2, <1>6, LeaseKept, LeaseLeft DEF Clearing, IInv, VarsInv
<1>8. VarsInv'
  BY <1>2, <1>5, <1>6, <1>7 DEF IInv, VarsInv
<1>9. Local(s)'
  <2>1. BoundaryOf(s)'
    BY <1>2, <1>6, Here DEF BoundaryOf, Clearing, Captured
  <2>2. PendingOf(s)'
    BY <1>2, <1>6, Here DEF PendingOf
  <2>3. DeadOf(s)'
    <3>1. at'[s] \notin {"listed", "recover"} /\ ~Clearing(s)'
      BY <1>6 DEF Clearing
    <3>2. \A k \in Tokens : file[k] # None /\ file[k].session = s => ~(file[k].epoch < epoch)
      BY <1>2, Here DEF DeadOf, Clearing
    <3> QED BY <1>2, <3>1, <3>2 DEF DeadOf
  <2>4. StatusOf(s)'
    <3>1. \A t \in 1..turns[s] : Finalized(s, t)' \/ <<s, t>> \in lost \cup cut
      BY <1>5, Here DEF StatusOf
    <3> QED BY <1>2, <1>5, <1>6, <3>1 DEF StatusOf, Turning, Captured
  <2>5. WriterOf(s)'
    <3>1. file[b[s].token] # None /\ b[s].pending /\ file[b[s].token].session = s =>
              RecordedTurn(b[s].token) = TurnOf(s)
      BY Here DEF PendingOf, RecordedTurn, TurnOf
    <3>2. Settled(TurnOf(s))'
      BY <1>2, <1>5 DEF Settled, TurnOf
    <3>3. TurnOf(s)' = TurnOf(s) /\ \A k : RecordedTurn(k)' = RecordedTurn(k)
      BY <1>2 DEF TurnOf, RecordedTurn
    <3> QED BY <1>2, <1>6, <3>1, <3>2, <3>3 DEF WriterOf, Acquiring
  <2>6. MarkOf(s)'
    <3>1. \A n : Owned(s, n)' = Owned(s, n)
      BY <1>2 DEF Owned, Own
    <3> QED BY <1>3, <1>5, <1>6, <3>1, Here DEF MarkOf, Captured
  <2>7. DirtyOf(s)'
    BY <1>2, <1>6, Here DEF DirtyOf, Acquiring, TurnOf
  <2> QED BY <2>1, <2>2, <2>3, <2>4, <2>5, <2>6, <2>7 DEF Local
<1> QED BY <1>2, <1>5, <1>6, <1>7, <1>8, <1>9, StatusStep

\* What the ref and the file of a token say together.
LEMMA ResolvedRecord ==
    ASSUME IInv, NEW k \in Tokens, file[k] # None
    PROVE  /\ file[k] \in Record /\ Resolved(k) \in Record /\ Readable(k)
           /\ Resolved(k).session = file[k].session /\ Resolved(k).turn = file[k].turn
           /\ Resolved(k).epoch = file[k].epoch /\ (file[k].bound => Resolved(k).bound)
           /\ file[k].turn \in 1..MaxTurns /\ file[k].turn <= turns[file[k].session] /\ file[k].session \in Sessions
<1>1. file[k] \in Record /\ file[k].session \in Sessions /\ file[k].turn \in 1..MaxTurns
  BY RecordType DEF IInv, VarsInv
<1>2. ref[file[k].session][k] \in Record \cup {None}
  BY <1>1 DEF IInv, VarsInv
<1>3. /\ Readable(k) /\ file[k].turn <= turns[file[k].session]
      /\ ref[file[k].session][k] # None => ref[file[k].session][k].session = file[k].session
  BY <1>1 DEF IInv, RecordInv
<1> QED BY <1>1, <1>2, <1>3 DEF Readable, Resolved

LEMMA RecoverStep ==
    ASSUME IInv, NEW s \in Sessions, Recover(s)
    PROVE  IInv'
<1>1. /\ at[s] = "recover"
      /\ UNCHANGED <<epoch, turns, log, dirty, ref, file, temp, lease, failures, wrote, lost, cut>>
  BY DEF Recover
<1>2. s \notin ToSet(lease)
  BY <1>1 DEF IInv, LeaseInv
<1>3. /\ \A k \in b[s].names : k \in Tokens /\ file[k] # None /\ file[k].session = s /\ file[k].epoch < epoch
      /\ \A k \in Tokens : file[k] # None /\ file[k].session = s /\ file[k].epoch < epoch => k \in b[s].names
      /\ ~b[s].pending
  BY <1>1, Here DEF DeadOf, BoundaryOf, Clearing
<1>4. CASE b[s].names = {}
  <2>1. /\ NoBoundary \in Boundary /\ ~NoBoundary.pending /\ Go(s, "idle", NoBoundary)
        /\ count' = [count EXCEPT ![s] = 0] /\ marks' = marks
    BY <1>4, Here, BoundaryType DEF Recover, NoBoundary
  <2>2. count' \in [Sessions -> 0..MaxTurns] /\ count'[s] = 0 /\ \A x \in Sessions \ {s} : count'[x] = count[x]
    <3>1. 0 \in 0..MaxTurns
      BY CheckpointAssumption
    <3> QED BY <2>1, <3>1 DEF IInv, VarsInv
  <2>3. /\ at' \in [Sessions -> Stages] /\ b' \in [Sessions -> Boundary] /\ Elsewhere(s)
        /\ at'[s] = "idle" /\ ~b'[s].pending
    BY <1>1, <2>1, <2>2, Goes
  <2>4. VarsInv'
    BY <1>1, <2>1, <2>2, <2>3 DEF IInv, VarsInv
  <2>5. LeaseInv'
    BY <1>1, <1>2, <2>3, LeaseKept
  <2>6. Local(s)'
    <3>1. BoundaryOf(s)'
      BY <1>1, <2>2, <2>3, Here DEF BoundaryOf, Clearing, Captured
    <3>2. PendingOf(s)'
      BY <2>3 DEF PendingOf
    <3>3. DeadOf(s)'
      BY <1>1, <1>3, <1>4, <2>3 DEF DeadOf, Clearing
    <3>4. StatusOf(s)'
      BY <1>1, <2>1, <2>3, StatusStays DEF Turning, Captured
    <3>5. WriterOf(s)'
      BY <2>3 DEF WriterOf, Acquiring
    <3>6. MarkOf(s)'
      BY <1>1, <2>1, <2>3, MarksStay DEF Captured
    <3>7. DirtyOf(s)'
      BY <2>3 DEF DirtyOf, Acquiring
    <3> QED BY <3>1, <3>2, <3>3, <3>4, <3>5, <3>6, <3>7 DEF Local
  <2> QED BY <1>1, <2>1, <2>3, <2>4, <2>5, <2>6, QuietStep
<1>5. CASE b[s].names # {}
  <2>1. PICK k \in b[s].names : k = CHOOSE i \in b[s].names : \A j \in b[s].names : i <= j
    <3>1. b[s].names \subseteq Nat
      BY <1>3 DEF Tokens
    <3>2. \E j \in b[s].names : \A i \in b[s].names : j <= i
      BY <1>5, <3>1, LeastElement
    <3> QED BY <3>2
  <2>2. k \in Tokens /\ file[k] # None /\ file[k].session = s
    BY <1>3
  <2>3. PICK record \in Record : record = Resolved(k) /\ record.turn = file[k].turn /\ record.turn <= turns[s]
                                 /\ (file[k].bound => record.bound)
    BY <2>2, ResolvedRecord
  <2> DEFINE m == [NoMark EXCEPT !.turn = record.turn]
             r == [[b[s] EXCEPT !.token = k, !.bound = record.bound] EXCEPT !.then = "recover"]
  <2>4. /\ Go(s, "unref", r) /\ count' = count
        /\ marks' = [marks EXCEPT ![s] = IF Unfinished(s, record) THEN Append(@, m) ELSE @]
    BY <1>5, <2>1, <2>3 DEF Recover, Retire
  <2>5. m \in Mark /\ m.turn = record.turn /\ m.status = "unavailable"
    BY <2>3 DEF Record, NoMark, Mark
  <2>6. record.bound \in BOOLEAN
    BY <2>3, RecordType
  <2> HIDE DEF m
  <2>7. r \in Boundary /\ r.token = k /\ r.then = "recover" /\ r.names = b[s].names /\ ~r.pending
    <3>1. k \in 0..MaxTurns
      BY <2>2, CheckpointAssumption DEF Tokens
    <3> QED BY <1>3, <2>6, <3>1, Here DEF Boundary
  <2> HIDE DEF r
  <2>8. /\ marks' \in [Sessions -> Seq(Mark)] /\ \A x \in Sessions \ {s} : marks'[x] = marks[x]
        /\ \A t : Finalized(s, t) => Finalized(s, t)'
        /\ \A i, j \in DOMAIN marks'[s] : marks'[s][i].turn = marks'[s][j].turn => i = j
        /\ \A i \in DOMAIN marks'[s] : marks'[s][i].turn <= turns[s]
        /\ \A i \in DOMAIN marks'[s] : marks'[s][i] = m \/ (i \in DOMAIN marks[s] /\ marks'[s][i] = marks[s][i])
        /\ record.bound => Finalized(s, record.turn)'
    <3>1. CASE Unfinished(s, record)
      <4>1. marks' = [marks EXCEPT ![s] = Append(@, m)] /\ ~Finalized(s, m.turn) /\ m.turn <= turns[s]
        BY <2>4, <2>3, <2>5, <3>1 DEF Unfinished
      <4>2. \A t : Finalized(s, t)' <=> Finalized(s, t) \/ t = m.turn
        BY ZenonT(60), <2>5, <4>1, NewMark
      <4>3. /\ marks' \in [Sessions -> Seq(Mark)] /\ \A x \in Sessions \ {s} : marks'[x] = marks[x]
            /\ \A i, j \in DOMAIN marks'[s] : marks'[s][i].turn = marks'[s][j].turn => i = j
            /\ \A i \in DOMAIN marks'[s] : marks'[s][i].turn <= turns[s]
            /\ \A i \in DOMAIN marks'[s] : marks'[s][i] = m \/ (i \in DOMAIN marks[s] /\ marks'[s][i] = marks[s][i])
        BY <2>5, <4>1, NewMark
      <4> QED BY <2>5, <4>2, <4>3
    <3>2. CASE ~Unfinished(s, record)
      <4>1. marks' = marks /\ marks \in [Sessions -> Seq(Mark)]
        BY <2>4, <3>2 DEF IInv, VarsInv
      <4>2. \A t : Finalized(s, t)' = Finalized(s, t)
        BY <4>1 DEF Finalized
      <4>3. record.bound => Finalized(s, record.turn)
        BY <3>2 DEF Unfinished
      <4>4. StatusOf(s)
        BY Here
      <4> QED BY <4>1, <4>2, <4>3, <4>4 DEF StatusOf
    <3> QED BY <3>1, <3>2
  <2>9. /\ at' \in [Sessions -> Stages] /\ b' \in [Sessions -> Boundary] /\ Elsewhere(s)
        /\ at'[s] = "unref" /\ ~b'[s].pending /\ b'[s].token = k /\ b'[s].then = "recover" /\ b'[s].names = b[s].names
    BY <1>1, <2>4, <2>7, <2>8, Goes
  <2>10. VarsInv'
    BY <1>1, <2>4, <2>8, <2>9 DEF IInv, VarsInv
  <2>11. LeaseInv'
    BY <1>1, <1>2, <2>9, LeaseKept
  <2>12. Local(s)'
    <3>1. BoundaryOf(s)'
      BY <1>1, <2>2, <2>4, <2>9, Here DEF BoundaryOf, Clearing, Captured
    <3>2. PendingOf(s)'
      BY <2>9 DEF PendingOf
    <3>3. DeadOf(s)'
      BY <1>1, <1>3, <2>2, <2>9 DEF DeadOf, Clearing
    <3>4. StatusOf(s)'
      <4>1. \A t \in 1..turns[s] : Finalized(s, t)' \/ <<s, t>> \in lost \cup cut
        BY <1>1, <2>8, Here DEF StatusOf, Turning
      <4> QED BY <1>1, <2>8, <2>9, <4>1 DEF StatusOf, Turning, Captured
    <3>5. WriterOf(s)'
      <4>1. file[k].bound => Settled(RecordedTurn(k))'
        <5>1. RecordedTurn(k)' = <<s, record.turn>>
          BY <1>1, <2>2, <2>3 DEF RecordedTurn
        <5> QED BY <2>3, <2>8, <5>1 DEF Settled
      <4> QED BY <1>1, <2>9, <4>1 DEF WriterOf, Acquiring
    <3>6. MarkOf(s)'
      <4>1. \A n : Owned(s, n)' = Owned(s, n)
        BY <1>1 DEF Owned, Own
      <4>2. Owned(s, m)
        BY <2>5 DEF Owned, Own
      <4> QED BY <2>8, <2>9, <4>1, <4>2, Here DEF MarkOf, Captured
    <3>7. DirtyOf(s)'
      BY <2>9 DEF DirtyOf, Acquiring
    <3> QED BY <3>1, <3>2, <3>3, <3>4, <3>5, <3>6, <3>7 DEF Local
  <2> QED BY <1>1, <2>8, <2>9, <2>10, <2>11, <2>12, StatusStep
<1> QED BY <1>4, <1>5

-----------------------------------------------------------------------------
(* Steps that write files or commit them *)

\* Everything that is dirty becomes a commit, or nothing does.
Commits(by) == Publish(by) \/ (log' = log /\ dirty' = dirty)

LEMMA CommitsAppend ==
    ASSUME IInv, NEW by \in (Sessions \cup {"external"}) \X (0..MaxTurns), Commits(by)
    PROVE  /\ log' \in Seq(Commit) /\ dirty' \in {{}, dirty} /\ Len(log) \in Nat /\ Len(log') \in Nat
           /\ Len(log) <= Len(log') /\ DOMAIN log = 1..Len(log) /\ DOMAIN log' = 1..Len(log')
           /\ \A c \in DOMAIN log : log'[c] = log[c]
           /\ \A c \in DOMAIN log' : c \in DOMAIN log \/ log'[c] = [by |-> by, from |-> dirty]
           /\ \A c \in DOMAIN log' : c \in DOMAIN log \/ (c = Len(log) + 1 /\ dirty' = {} /\ dirty # {})
<1>1. log \in Seq(Commit) /\ Len(log) \in Nat /\ DOMAIN log = 1..Len(log) /\ VarsInv
  BY LenProperties DEF IInv, VarsInv
<1>2. CASE log' = log /\ dirty' = dirty
  BY <1>1, <1>2
<1>3. CASE Publish(by)
  <2>1. /\ log' \in Seq(Commit) /\ dirty' = {} /\ Len(log') \in Nat
        /\ dirty = {} => log' = log
        /\ dirty # {} => /\ Len(log') = Len(log) + 1
                         /\ \A c \in 1..Len(log) : log'[c] = log[c]
                         /\ log'[Len(log')] = [by |-> by, from |-> dirty]
    BY <1>1, <1>3, PublishType
  <2>2. DOMAIN log' = 1..Len(log')
    BY <2>1, LenProperties
  <2>3. CASE dirty = {}
    BY <1>1, <2>1, <2>3
  <2>4. CASE dirty # {}
    <3>1. \A c \in 1..Len(log') : c \in 1..Len(log) \/ c = Len(log) + 1
      BY <1>1, <2>1, <2>4
    <3>2. \A c \in DOMAIN log : log'[c] = log[c]
      BY <1>1, <2>1, <2>4
    <3>3. \A c \in DOMAIN log' : c \in DOMAIN log \/ log'[c] = [by |-> by, from |-> dirty]
      BY <1>1, <2>1, <2>2, <2>4, <3>1
    <3>4. \A c \in DOMAIN log' : c \in DOMAIN log \/ (c = Len(log) + 1 /\ dirty' = {} /\ dirty # {})
      BY <1>1, <2>1, <2>2, <2>4, <3>1
    <3>5. Len(log) <= Len(log')
      BY <1>1, <2>1, <2>4
    <3> QED BY <1>1, <2>1, <2>2, <3>2, <3>3, <3>4, <3>5
  <2> QED BY <2>3, <2>4
<1> QED BY <1>2, <1>3 DEF Commits

\* A status stays true, whoever commits.
LEMMA OwnedStays ==
    ASSUME IInv, NEW by \in (Sessions \cup {"external"}) \X (0..MaxTurns), Commits(by),
           NEW s \in Sessions, NEW m \in Mark, Owned(s, m)
    PROVE  Owned(s, m)'
<1>1. m.before \in Nat /\ m.after \in Nat
  BY DEF Mark
<1>2. CASE m.status # "available"
  BY <1>2 DEF Owned, Own
<1>3. CASE m.status = "available"
  <2> DEFINE turn == <<s, m.turn>>
  <2>1. /\ m.before # m.after => m.after = m.before + 1 /\ log[m.after].by = turn /\ log[m.after].from \subseteq {turn}
        /\ turn \notin dirty /\ m.after <= Len(log)
        /\ \A c \in DOMAIN log : turn \in log[c].from => c = m.after /\ c # m.before
    BY <1>3 DEF Owned, Own
  <2> HIDE DEF turn
  <2>2. /\ dirty' \in {{}, dirty} /\ Len(log) \in Nat /\ Len(log') \in Nat /\ Len(log) <= Len(log')
        /\ DOMAIN log = 1..Len(log) /\ \A c \in DOMAIN log : log'[c] = log[c]
        /\ \A c \in DOMAIN log' : c \in DOMAIN log \/ log'[c].from = dirty
    BY CommitsAppend
  <2>3. m.before # m.after => m.after \in DOMAIN log
    BY <1>1, <2>1, <2>2
  <2>4. m.before # m.after => log'[m.after].by = turn /\ log'[m.after].from \subseteq {turn}
    BY <2>1, <2>2, <2>3
  <2>5. \A c \in DOMAIN log' : turn \in log'[c].from => c = m.after /\ c # m.before
    BY <2>1, <2>2
  <2>6. turn \notin dirty' /\ m.after <= Len(log')
    BY <1>1, <2>1, <2>2
  <2> QED BY <2>1, <2>4, <2>5, <2>6 DEF Owned, Own, turn
<1> QED BY <1>2, <1>3

\* A session's statuses, whoever commits.
LEMMA MarksKept ==
    ASSUME IInv, NEW by \in (Sessions \cup {"external"}) \X (0..MaxTurns), Commits(by),
           NEW s \in Sessions, marks'[s] = marks[s],
           (at[s] = "append" \/ Captured(s))' => Owned(s, b[s].mark)'
    PROVE  MarkOf(s)'
<1>1. marks[s] \in Seq(Mark) /\ MarkOf(s)
  BY Here
<1>2. \A i \in DOMAIN marks[s] : marks[s][i] \in Mark
  BY <1>1, ElementOfSeq, LenProperties
<1>3. \A m \in Mark : Owned(s, m) => Owned(s, m)'
  BY OwnedStays
<1> QED BY <1>1, <1>2, <1>3 DEF MarkOf

\* A step that commits, of the session that holds the lease.
LEMMA CommitStep ==
    ASSUME IInv, VarsInv', LeaseInv', NEW s \in Sessions, Elsewhere(s), Local(s)', lease # <<>>, lease[1] = s,
           NEW by \in (Sessions \cup {"external"}) \X (0..MaxTurns), Commits(by),
           UNCHANGED <<epoch, turns, marks, ref, file, wrote, lost, cut>>
    PROVE  IInv'
<1>1. \A x \in Sessions \ {s} : BoundaryOf(x)' /\ StatusOf(x)' /\ PendingOf(x)' /\ DeadOf(x)' /\ WriterOf(x)'
  BY OthersStay, OthersOnDisk
<1>2. ASSUME NEW x \in Sessions \ {s} PROVE MarkOf(x)' /\ DirtyOf(x)'
  <2>1. at'[x] = at[x] /\ b'[x] = b[x] /\ marks'[x] = marks[x]
    BY DEF Elsewhere
  <2>2. MarkOf(x)'
    <3>1. b[x].mark \in Mark /\ MarkOf(x)
      BY Here
    <3>2. (at[x] = "append" \/ Captured(x))' => Owned(x, b[x].mark)
      BY <2>1, <3>1 DEF MarkOf, Captured
    <3>3. \A m \in Mark : Owned(x, m) => Owned(x, m)'
      BY OwnedStays
    <3>4. (at[x] = "append" \/ Captured(x))' => Owned(x, b[x].mark)'
      BY <2>1, <3>1, <3>2, <3>3
    <3> QED BY <2>1, <3>4, MarksKept
  <2>3. at[x] \notin Holding
    BY DEF IInv, LeaseInv
  <2> QED BY <2>1, <2>2, <2>3 DEF DirtyOf, Acquiring
<1>3. \A x \in Sessions : Local(x)'
  BY <1>1, <1>2 DEF Local
<1>4. \A x \in Sessions : turns[x] \in Nat
  BY DEF IInv, VarsInv
<1>5. RecordInv'
  BY <1>4, RecordsStay
<1>6. WroteInv'
  BY <1>4, WroteStays DEF Finalized
<1>7. DirtyInv'
  <2>1. DirtyInv
    BY DEF IInv
  <2>2. dirty' \subseteq wrote
    BY <2>1, CommitsAppend DEF DirtyInv
  <2>3. \A c \in DOMAIN log' : log'[c].from \subseteq wrote
    BY <2>1, CommitsAppend DEF DirtyInv
  <2> QED BY <2>2, <2>3 DEF DirtyInv
<1> QED BY <1>3, <1>5, <1>6, <1>7 DEF IInv

\* A turn's writes are in no commit before its first write.
LEMMA NotCommitted ==
    ASSUME IInv, NEW s \in Sessions, TurnOf(s) \notin wrote
    PROVE  TurnOf(s) \notin dirty /\ \A c \in DOMAIN log : TurnOf(s) \notin log[c].from
BY DEF IInv, DirtyInv

LEMMA SynchronizeStep ==
    ASSUME IInv, NEW s \in Sessions, Synchronize(s)
    PROVE  IInv'
<1> DEFINE r == [b[s] EXCEPT !.base = Len(log'), !.op = "begin"]
           out == <<"external", 0>>
<1>1. /\ at[s] = "waiting" /\ lease # <<>> /\ lease[1] = s /\ Commits(out) /\ Go(s, "anchor", r)
      /\ UNCHANGED <<epoch, turns, marks, ref, file, temp, count, lease, failures, wrote, lost, cut>>
  BY DEF Synchronize, Holds, Outside, Commits
<1>2. out \in (Sessions \cup {"external"}) \X (0..MaxTurns)
  BY CheckpointAssumption
<1>3. log' \in Seq(Commit) /\ dirty' \in {{}, dirty} /\ Len(log') \in Nat
  BY <1>1, <1>2, CommitsAppend
<1>4. dirty' = {}
  BY <1>1 DEF Synchronize, Outside, Publish
<1>5. /\ r \in Boundary /\ r.pending = b[s].pending /\ r.token = b[s].token /\ r.op = "begin" /\ r.base = Len(log')
  BY <1>3, Here DEF Boundary
<1> HIDE DEF r, out
<1>6. /\ at' \in [Sessions -> Stages] /\ b' \in [Sessions -> Boundary] /\ Elsewhere(s) /\ at'[s] = "anchor"
      /\ b'[s].pending = b[s].pending /\ b'[s].token = b[s].token /\ b'[s].op = "begin" /\ b'[s].base = Len(log')
  BY <1>1, <1>5, Goes
<1>7. VarsInv'
  BY <1>1, <1>3, <1>6 DEF IInv, VarsInv
<1>8. LeaseInv'
  BY <1>1, <1>6, LeaseKept DEF Clearing
<1>9. TurnOf(s) \notin wrote
  BY <1>1, Here DEF WriterOf
<1>10. MarkOf(s)'
  BY <1>1, <1>2, <1>6, MarksKept DEF Captured
<1>11. DirtyOf(s)'
  <2>1. dirty \subseteq wrote /\ \A c \in DOMAIN log : TurnOf(s) \notin log[c].from
    BY <1>9, NotCommitted DEF IInv, DirtyInv
  <2>2. \A c \in DOMAIN log' : TurnOf(s) \notin log'[c].from
    BY <1>1, <1>2, <1>9, <2>1, CommitsAppend
  <2>3. TurnOf(s)' = TurnOf(s)
    BY <1>1 DEF TurnOf
  <2> QED BY <1>4, <2>2, <2>3 DEF DirtyOf
<1>12. Local(s)'
  <2>1. BoundaryOf(s)'
    BY <1>1, <1>6, Here DEF BoundaryOf, Clearing, Captured
  <2>2. PendingOf(s)'
    BY <1>1, <1>6, Here DEF PendingOf
  <2>3. DeadOf(s)'
    BY <1>1, <1>6, Here DEF DeadOf, Clearing
  <2>4. StatusOf(s)'
    BY <1>1, <1>6, Here, StatusStays DEF StatusOf, Captured, Turning
  <2>5. WriterOf(s)'
    BY <1>1, <1>6, Here DEF WriterOf, Acquiring, TurnOf, RecordedTurn, Settled, Finalized
  <2>6. MarkOf(s)'
    BY <1>10
  <2>7. DirtyOf(s)'
    BY <1>11
  <2> QED BY <2>1, <2>2, <2>3, <2>4, <2>5, <2>6, <2>7 DEF Local
<1> QED BY <1>1, <1>2, <1>6, <1>7, <1>8, <1>12, CommitStep

LEMMA SynchronizeFailsStep ==
    ASSUME IInv, NEW s \in Sessions, SynchronizeFails(s)
    PROVE  IInv'
<1> DEFINE r == [b[s] EXCEPT !.failed = TRUE, !.then = "idle"]
           out == <<"external", 0>>
<1>1. /\ at[s] = "waiting" /\ lease # <<>> /\ lease[1] = s /\ Commits(out) /\ Go(s, "turn", r) /\ Leave(s)
      /\ failures' = failures + 1
      /\ UNCHANGED <<epoch, turns, marks, ref, file, temp, count, wrote, lost, cut>>
  BY DEF SynchronizeFails, Holds, Outside, Commits, Fails, AcquireRefused
<1>2. out \in (Sessions \cup {"external"}) \X (0..MaxTurns)
  BY CheckpointAssumption
<1>3. log' \in Seq(Commit) /\ dirty' \in {{}, dirty}
  BY <1>1, <1>2, CommitsAppend
<1>4. /\ r \in Boundary /\ r.pending = b[s].pending /\ r.token = b[s].token
  BY Here DEF Boundary
<1> HIDE DEF r, out
<1>5. /\ at' \in [Sessions -> Stages] /\ b' \in [Sessions -> Boundary] /\ Elsewhere(s) /\ at'[s] = "turn"
      /\ b'[s].pending = b[s].pending /\ b'[s].token = b[s].token
  BY <1>1, <1>4, Goes
<1>6. lease' \in Seq(Sessions) /\ LeaseInv'
  BY <1>1, <1>5, LeaseLeft
<1>7. VarsInv'
  BY <1>1, <1>3, <1>5, <1>6 DEF IInv, VarsInv
<1>8. Local(s)'
  <2>1. BoundaryOf(s)'
    BY <1>1, <1>5, Here DEF BoundaryOf, Clearing, Captured
  <2>2. PendingOf(s)'
    BY <1>1, <1>5, Here DEF PendingOf
  <2>3. DeadOf(s)'
    BY <1>1, <1>5, Here DEF DeadOf, Clearing
  <2>4. StatusOf(s)'
    BY <1>1, <1>5, Here, StatusStays DEF StatusOf, Captured, Turning
  <2>5. WriterOf(s)'
    BY <1>1, <1>5, Here DEF WriterOf, Acquiring, TurnOf, RecordedTurn, Settled, Finalized
  <2>6. MarkOf(s)'
    BY <1>1, <1>2, <1>5, MarksKept DEF Captured
  <2>7. DirtyOf(s)'
    BY <1>1, <1>5, Here DEF DirtyOf, Acquiring, TurnOf
  <2> QED BY <2>1, <2>2, <2>3, <2>4, <2>5, <2>6, <2>7 DEF Local
<1> QED BY <1>1, <1>2, <1>5, <1>6, <1>7, <1>8, CommitStep

LEMMA CaptureFailsStep ==
    ASSUME IInv, NEW s \in Sessions, CaptureFails(s)
    PROVE  IInv'
<1> DEFINE r == [b[s] EXCEPT !.mark = Unavailable(s)]
<1>1. /\ at[s] = "holding" /\ Commits(TurnOf(s)) /\ Go(s, "append", r) /\ failures' = failures + 1
      /\ UNCHANGED <<epoch, turns, marks, ref, file, temp, count, lease, wrote, lost, cut>>
  BY DEF CaptureFails, Commits, Fails, rest
<1>2. TurnOf(s) \in (Sessions \cup {"external"}) \X (0..MaxTurns)
  BY Here DEF TurnOf
<1>3. log' \in Seq(Commit) /\ dirty' \in {{}, dirty}
  BY <1>1, <1>2, CommitsAppend
<1>4. /\ Unavailable(s) \in Mark /\ Unavailable(s).turn = turns[s] /\ Unavailable(s).status = "unavailable"
  BY Here, BoundaryType DEF Unavailable, NoMark
<1>5. /\ r \in Boundary /\ r.mark = Unavailable(s) /\ r.pending = b[s].pending /\ r.token = b[s].token
  BY <1>4, Here DEF Boundary
<1> HIDE DEF r
<1>6. /\ at' \in [Sessions -> Stages] /\ b' \in [Sessions -> Boundary] /\ Elsewhere(s) /\ at'[s] = "append"
      /\ b'[s].pending = b[s].pending /\ b'[s].token = b[s].token /\ b'[s].mark.turn = turns[s]
      /\ b'[s].mark.status = "unavailable"
  BY <1>1, <1>4, <1>5, Goes
<1>7. lease # <<>> /\ lease[1] = s
  BY <1>1 DEF IInv, LeaseInv
<1>8. LeaseInv'
  BY <1>1, <1>6, LeaseKept DEF Clearing
<1>9. VarsInv'
  BY <1>1, <1>3, <1>6 DEF IInv, VarsInv
<1>10. Local(s)'
  <2>1. BoundaryOf(s)'
    BY <1>1, <1>6, Here DEF BoundaryOf, Clearing, Captured
  <2>2. PendingOf(s)'
    BY <1>1, <1>6, Here DEF PendingOf
  <2>3. DeadOf(s)'
    BY <1>1, <1>6, Here DEF DeadOf, Clearing
  <2>4. StatusOf(s)'
    BY <1>1, <1>6, Here, StatusStays DEF StatusOf, Captured, Turning
  <2>5. WriterOf(s)'
    BY <1>1, <1>6, Here DEF WriterOf, Acquiring, TurnOf, RecordedTurn, Settled, Finalized
  <2>6. MarkOf(s)'
    BY <1>1, <1>2, <1>6, MarksKept DEF Owned, Own
  <2>7. DirtyOf(s)'
    BY <1>1, <1>6, Here DEF DirtyOf, Acquiring, TurnOf
  <2> QED BY <2>1, <2>2, <2>3, <2>4, <2>5, <2>6, <2>7 DEF Local
<1> QED BY <1>1, <1>2, <1>6, <1>7, <1>8, <1>9, <1>10, CommitStep

LEMMA CaptureStep ==
    ASSUME IInv, NEW s \in Sessions, Capture(s)
    PROVE  IInv'
<1> DEFINE captured == Len(log) = b[s].base
           r == [b[s] EXCEPT !.mark = Available(s, b[s].base, Len(log')), !.op = "after"]
           q == [b[s] EXCEPT !.mark = Unavailable(s)]
<1>1. /\ at[s] = "holding" /\ Commits(TurnOf(s))
      /\ \/ captured /\ Publish(TurnOf(s)) /\ Go(s, "anchor", r)
         \/ Go(s, "append", q)
      /\ UNCHANGED <<epoch, turns, marks, ref, file, temp, count, lease, failures, wrote, lost, cut>>
  BY DEF Capture, Commits, rest
<1>2. TurnOf(s) \in (Sessions \cup {"external"}) \X (0..MaxTurns)
  BY Here DEF TurnOf
<1>3. log' \in Seq(Commit) /\ dirty' \in {{}, dirty} /\ Len(log') \in Nat
  BY <1>1, <1>2, CommitsAppend
<1>4. /\ Unavailable(s) \in Mark /\ Unavailable(s).turn = turns[s] /\ Unavailable(s).status = "unavailable"
      /\ Available(s, b[s].base, Len(log')) \in Mark
  BY <1>3, Here, BoundaryType DEF Unavailable, NoMark
<1>5. /\ r \in Boundary /\ r.mark = Available(s, b[s].base, Len(log')) /\ r.pending = b[s].pending /\ r.token = b[s].token
      /\ r.op = "after" /\ q \in Boundary /\ q.mark = Unavailable(s) /\ q.pending = b[s].pending /\ q.token = b[s].token
  BY <1>4, Here DEF Boundary
<1> HIDE DEF r, q
<1>6. /\ at' \in [Sessions -> Stages] /\ b' \in [Sessions -> Boundary] /\ Elsewhere(s) /\ at'[s] \in {"anchor", "append"}
      /\ b'[s].pending = b[s].pending /\ b'[s].token = b[s].token
      /\ \/ /\ captured /\ Publish(TurnOf(s)) /\ at'[s] = "anchor" /\ b'[s].op = "after"
            /\ b'[s].mark = Available(s, b[s].base, Len(log'))
         \/ at'[s] = "append" /\ b'[s].mark = Unavailable(s)
  BY <1>1, <1>4, <1>5, Goes
<1>7. lease # <<>> /\ lease[1] = s
  BY <1>1 DEF IInv, LeaseInv
<1>8. LeaseInv'
  BY <1>1, <1>6, <1>7, LeaseKept DEF Clearing
<1>9. VarsInv'
  BY <1>1, <1>3, <1>6 DEF IInv, VarsInv
<1>10. Owned(s, b[s].mark)'
  <2>1. CASE b'[s].mark = Unavailable(s)
    BY <1>4, <2>1 DEF Owned, Own
  <2>2. CASE captured /\ Publish(TurnOf(s)) /\ b'[s].mark = Available(s, b[s].base, Len(log'))
    <3> DEFINE turn == TurnOf(s)
    <3>1. /\ dirty \subseteq {turn} /\ \A c \in DOMAIN log : turn \in log[c].from => c > b[s].base
      BY <1>1, Here DEF DirtyOf
    <3>2. \A c \in DOMAIN log : turn \notin log[c].from
      BY <1>1, <1>2, <2>2, <3>1, CommitsAppend
    <3>3. /\ dirty' = {} /\ Len(log) \in Nat /\ Len(log') \in Nat
          /\ dirty = {} => log' = log
          /\ dirty # {} => /\ Len(log') = Len(log) + 1
                           /\ log'[Len(log')] = [by |-> turn, from |-> dirty]
      BY <1>2, <2>2, PublishType, LenProperties DEF IInv, VarsInv
    <3>4. \A c \in DOMAIN log' : \/ c \in DOMAIN log /\ log'[c] = log[c]
                                 \/ c = Len(log) + 1 /\ dirty # {}
      BY <1>1, <1>2, CommitsAppend
    <3>5. <<s, b'[s].mark.turn>> = turn /\ b'[s].mark.before = Len(log) /\ b'[s].mark.after = Len(log')
      BY <2>2 DEF Available, TurnOf
    <3> HIDE DEF turn
    <3>6. \A c \in DOMAIN log' : turn \in log'[c].from => c = Len(log') /\ c # Len(log)
      BY <3>2, <3>3, <3>4
    <3>7. Len(log) # Len(log') => Len(log') = Len(log) + 1 /\ log'[Len(log')].by = turn /\ log'[Len(log')].from \subseteq {turn}
      BY <3>1, <3>3
    <3> QED BY <3>3, <3>5, <3>6, <3>7 DEF Owned, Own
  <2> QED BY <1>6, <2>1, <2>2
<1>11. Local(s)'
  <2>1. BoundaryOf(s)'
    BY <1>1, <1>6, Here DEF BoundaryOf, Clearing, Captured
  <2>2. PendingOf(s)'
    BY <1>1, <1>6, Here DEF PendingOf
  <2>3. DeadOf(s)'
    BY <1>1, <1>6, Here DEF DeadOf, Clearing
  <2>4. StatusOf(s)'
    BY <1>1, <1>4, <1>6, Here, StatusStays DEF StatusOf, Captured, Turning, Available
  <2>5. WriterOf(s)'
    BY <1>1, <1>6, Here DEF WriterOf, Acquiring, TurnOf, RecordedTurn, Settled, Finalized
  <2>6. MarkOf(s)'
    BY <1>1, <1>2, <1>10, MarksKept
  <2>7. DirtyOf(s)'
    BY <1>1, <1>6, Here DEF DirtyOf, Acquiring, TurnOf
  <2> QED BY <2>1, <2>2, <2>3, <2>4, <2>5, <2>6, <2>7 DEF Local
<1> QED BY <1>1, <1>2, <1>6, <1>7, <1>8, <1>9, <1>11, CommitStep

LEMMA ToolWriteStep ==
    ASSUME IInv, NEW s \in Sessions, ToolWrite(s)
    PROVE  IInv'
<1>1. /\ at[s] = "holding" /\ dirty' = dirty \cup {TurnOf(s)} /\ wrote' = wrote \cup {TurnOf(s)}
      /\ UNCHANGED <<epoch, turns, marks, log, ref, file, temp, at, b, count, lease, failures, lost, cut>>
  BY DEF ToolWrite
<1>2. Elsewhere(s) /\ TurnOf(s) \in Turn /\ TurnOf(s)' = TurnOf(s)
  BY <1>1, BoundaryType DEF Elsewhere, IInv, TurnOf
<1>3. VarsInv'
  BY <1>1, <1>2 DEF IInv, VarsInv
<1>4. LeaseInv'
  BY <1>1 DEF IInv, LeaseInv, Clearing
<1>5. \A x \in Sessions \ {s} : BoundaryOf(x)' /\ StatusOf(x)' /\ PendingOf(x)' /\ DeadOf(x)' /\ WriterOf(x)'
  BY <1>1, <1>2, OthersStay, OthersOnDisk
<1>6. BoundaryOf(s)' /\ StatusOf(s)' /\ PendingOf(s)' /\ DeadOf(s)'
  <2>1. BoundaryOf(s)'
    BY <1>1, Here DEF BoundaryOf, Clearing, Captured
  <2>2. StatusOf(s)'
    BY <1>1, Here, StatusStays DEF StatusOf, Captured, Turning
  <2>3. PendingOf(s)'
    BY <1>1, Here DEF PendingOf, Wanted
  <2>4. DeadOf(s)'
    BY <1>1, Here DEF DeadOf, Clearing
  <2> QED BY <2>1, <2>2, <2>3, <2>4
<1>7. WriterOf(s)'
  BY <1>1, <1>2, Here DEF WriterOf, Acquiring
<1>8. \A x \in Sessions : MarkOf(x)'
  <2>1. ~Finalized(s, turns[s])
    BY <1>1, Here DEF StatusOf, Turning
  <2>2. ASSUME NEW x \in Sessions, NEW m \in Mark, Owned(x, m), <<x, m.turn>> # TurnOf(s)
        PROVE  Owned(x, m)'
    BY <1>1, <2>2 DEF Owned, Own
  <2>3. ASSUME NEW x \in Sessions, NEW i \in DOMAIN marks[x]
        PROVE  marks[x][i] \in Mark /\ <<x, marks[x][i].turn>> # TurnOf(s) /\ Owned(x, marks[x][i])
    <3>1. marks[x][i] \in Mark
      BY Here, ElementOfSeq, LenProperties
    <3> QED BY <3>1, <2>1, Here DEF MarkOf, Finalized, TurnOf
  <2>4. ASSUME NEW x \in Sessions, at[x] = "append" \/ Captured(x)
        PROVE  x # s /\ Owned(x, b[x].mark) /\ b[x].mark \in Mark
    <3>1. x # s
      BY <1>1, <2>4 DEF Captured
    <3> QED BY <2>4, <3>1, Here DEF MarkOf
  <2>5. \A x \in Sessions : (at[x] = "append" \/ Captured(x))' = (at[x] = "append" \/ Captured(x))
    BY <1>1 DEF Captured
  <2>6. \A x \in Sessions : \A i \in DOMAIN marks[x] : Owned(x, marks[x][i])'
    BY <1>1, <2>2, <2>3
  <2>7. \A x \in Sessions : at[x] = "append" \/ Captured(x) => Owned(x, b[x].mark)'
    <3>1. \A x \in Sessions : x # s => \A n : <<x, n>> # TurnOf(s)
      BY DEF TurnOf
    <3> QED BY <1>1, <2>2, <2>4, <3>1
  <2> QED BY <1>1, <2>5, <2>6, <2>7 DEF MarkOf
<1>9. \A x \in Sessions : DirtyOf(x)'
  <2>1. \A x \in Sessions \ {s} : at[x] \notin Holding
    BY <1>1 DEF IInv, LeaseInv
  <2> QED BY <1>1, <1>2, <2>1, Here DEF DirtyOf, Acquiring
<1>10. \A x \in Sessions : Local(x)'
  BY <1>5, <1>6, <1>7, <1>8, <1>9 DEF Local
<1>11. RecordInv'
  <2>1. \A x \in Sessions : turns[x] \in Nat
    BY DEF IInv, VarsInv
  <2> QED BY <1>1, <2>1, RecordsStay
<1>12. WroteInv'
  <2>1. turns[s] \in Nat /\ TurnOf(s)[1] = s /\ TurnOf(s)[2] = turns[s]
    BY Here DEF TurnOf
  <2>2. \A turn \in wrote : /\ turn[2] <= turns[turn[1]]
                            /\ \/ Settled(turn)
                               \/ \E k \in Tokens : file[k] # None /\ RecordedTurn(k) = turn /\ file[k].bound
    BY DEF IInv, WroteInv
  <2>3. \/ Settled(TurnOf(s))
        \/ \E k \in Tokens : file[k] # None /\ RecordedTurn(k) = TurnOf(s) /\ file[k].bound
    <3>1. b[s].token \in Tokens /\ b[s].pending
      BY <1>1, Here DEF BoundaryOf
    <3>2. \/ TurnOf(s) \in lost
          \/ file[b[s].token] # None /\ file[b[s].token].session = s /\ file[b[s].token].bound
      BY <1>1, Here DEF WriterOf
    <3>3. file[b[s].token] # None /\ file[b[s].token].session = s => RecordedTurn(b[s].token) = TurnOf(s)
      BY <3>1, Here DEF PendingOf, RecordedTurn, TurnOf
    <3> QED BY <3>1, <3>2, <3>3 DEF Settled
  <2>4. \A turn : Settled(turn)' = Settled(turn)
    BY <1>1 DEF Settled, Finalized
  <2>5. \A k : RecordedTurn(k)' = RecordedTurn(k)
    BY <1>1 DEF RecordedTurn
  <2> QED BY <1>1, <2>1, <2>2, <2>3, <2>4, <2>5 DEF WroteInv
<1>13. DirtyInv'
  BY <1>1 DEF IInv, DirtyInv
<1> QED BY <1>3, <1>4, <1>10, <1>11, <1>12, <1>13 DEF IInv

-----------------------------------------------------------------------------
(* Steps that write refs and files *)

\* A step that writes refs and files, and commits nothing.
LEMMA DiskStep ==
    ASSUME IInv, VarsInv', LeaseInv', RecordInv', WroteInv', NEW s \in Sessions, Elsewhere(s), Local(s)',
           lost \subseteq lost', UNCHANGED <<log, dirty, wrote, cut>>,
           \A x \in Sessions \ {s} : PendingOf(x)' /\ DeadOf(x)' /\ WriterOf(x)'
    PROVE  IInv'
<1>1. \A x \in Sessions : Local(x)'
  BY OthersStay, OthersCommits DEF Local
<1>2. DirtyInv'
  BY DEF IInv, DirtyInv
<1> QED BY <1>1, <1>2 DEF IInv

\* A ref that goes leaves every record readable.
LEMMA RefRemoved ==
    ASSUME IInv, NEW x \in Sessions, NEW k \in Tokens, ref' = [ref EXCEPT ![x][k] = None],
           UNCHANGED <<epoch, turns, file>>
    PROVE  RecordInv' /\ ref' \in [Sessions -> [Tokens -> Record \cup {None}]]
           /\ \A y \in Sessions : \A j \in Tokens : ref'[y][j] \in {ref[y][j], None}
<1>1. ref \in [Sessions -> [Tokens -> Record \cup {None}]] /\ file \in [Tokens -> Record \cup {None}]
  BY DEF IInv, VarsInv
<1>2. \A y \in Sessions : \A j \in Tokens : ref'[y][j] \in {ref[y][j], None}
  BY <1>1
<1>3. ref' \in [Sessions -> [Tokens -> Record \cup {None}]]
  BY <1>1
<1>4. \A j \in Tokens : Readable(j) => Readable(j)'
  <2>1. \A j \in Tokens : file[j] # None => file[j].session \in Sessions
    BY <1>1, RecordType
  <2> QED BY <1>2, <2>1 DEF Readable
<1>5. RecordInv'
  BY <1>2, <1>4 DEF IInv, RecordInv
<1> QED BY <1>2, <1>3, <1>5

LEMMA UnanchorStep ==
    ASSUME IInv, NEW s \in Sessions, Unanchor(s)
    PROVE  IInv'
<1> DEFINE r == [b[s] EXCEPT !.failed = TRUE, !.then = "idle"]
           k == b[s].token
<1>1. /\ at[s] = "unanchor" /\ Go(s, "turn", r) /\ Leave(s)
      /\ ref' = [ref EXCEPT ![s][k] = None] \/ ref' = ref
      /\ failures' \in {failures, failures + 1}
      /\ UNCHANGED <<epoch, turns, marks, log, dirty, file, temp, count, wrote, lost, cut>>
  BY DEF Unanchor, AcquireRefused, Fails, rest
<1>2. r \in Boundary /\ r.pending = b[s].pending /\ r.token = k
  BY Here DEF Boundary
<1> HIDE DEF r
<1>3. k \in Tokens
  BY <1>1, Here DEF BoundaryOf
<1>4. /\ at' \in [Sessions -> Stages] /\ b' \in [Sessions -> Boundary] /\ Elsewhere(s) /\ at'[s] = "turn"
      /\ b'[s].pending = b[s].pending /\ b'[s].token = b[s].token
  BY <1>1, <1>2, Goes
<1>5. lease' \in Seq(Sessions) /\ LeaseInv'
  BY <1>1, <1>4, LeaseLeft
<1>6. /\ ref' \in [Sessions -> [Tokens -> Record \cup {None}]] /\ RecordInv'
      /\ \A x \in Sessions : \A j \in Tokens : ref'[x][j] \in {ref[x][j], None}
  <2>1. CASE ref' = ref
    <3>1. \A x \in Sessions : turns[x] \in Nat
      BY DEF IInv, VarsInv
    <3> QED BY <1>1, <2>1, <3>1, RecordsStay DEF IInv, VarsInv
  <2>2. CASE ref' = [ref EXCEPT ![s][k] = None]
    BY <1>1, <1>3, <2>2, RefRemoved
  <2> QED BY <1>1, <2>1, <2>2
<1>7. VarsInv'
  BY <1>1, <1>4, <1>5, <1>6 DEF IInv, VarsInv
<1>8. WroteInv'
  <2>1. \A x \in Sessions : turns[x] \in Nat
    BY DEF IInv, VarsInv
  <2> QED BY <1>1, <2>1, WroteStays DEF Finalized
<1>9. Local(s)'
  <2>1. BoundaryOf(s)'
    BY <1>1, <1>4, Here DEF BoundaryOf, Clearing, Captured
  <2>2. PendingOf(s)'
    BY <1>1, <1>4, Here DEF PendingOf
  <2>3. DeadOf(s)'
    BY <1>1, <1>4, Here DEF DeadOf, Clearing
  <2>4. StatusOf(s)'
    BY <1>1, <1>4, Here, StatusStays DEF StatusOf, Captured, Turning
  <2>5. WriterOf(s)'
    BY <1>1, <1>4, Here DEF WriterOf, Acquiring, TurnOf, RecordedTurn, Settled, Finalized
  <2>6. MarkOf(s)'
    BY <1>1, <1>4, Here, MarksStay DEF MarkOf, Captured
  <2>7. DirtyOf(s)'
    BY <1>1, <1>4, Here DEF DirtyOf, Acquiring, TurnOf
  <2> QED BY <2>1, <2>2, <2>3, <2>4, <2>5, <2>6, <2>7 DEF Local
<1>10. \A x \in Sessions \ {s} : PendingOf(x)' /\ DeadOf(x)' /\ WriterOf(x)'
  BY <1>1, <1>4, <1>6, OthersOnDisk
<1> QED BY <1>1, <1>4, <1>5, <1>6, <1>7, <1>8, <1>9, <1>10, DiskStep

\* What writing a boundary may have done to the disk.
Written(s) ==
    \/ ref' = ref /\ file' = file
    \/ at[s] = "anchor" /\ Ready(s) /\ ref' = [ref EXCEPT ![s][b[s].token] = Wanted(s)] /\ file' = file
    \/ at[s] = "rename" /\ ref' = ref /\ file' = [file EXCEPT ![b[s].token] = Wanted(s)]

\* What is known before it.
LEMMA BeforeWriting ==
    ASSUME IInv, NEW s \in Sessions, at[s] \in Persisting
    PROVE  /\ b[s].token \in Tokens /\ lease # <<>> /\ lease[1] = s /\ \A x \in Sessions \ {s} : at[x] \notin Holding
           /\ Wanted(s) \in Record /\ Wanted(s) # None /\ Wanted(s).session = s /\ Wanted(s).turn = turns[s]
           /\ Wanted(s).epoch = epoch /\ Wanted(s).bound = (b[s].op # "begin") /\ Wanted(s).after = (b[s].op = "after")
           /\ file[b[s].token] # None /\ (b[s].op # "begin" \/ at[s] # "anchor") =>
                /\ file[b[s].token].session = s /\ file[b[s].token].turn = turns[s] /\ file[b[s].token].epoch = epoch
                /\ ~file[b[s].token].after /\ b[s].op # "begin"
                /\ file[b[s].token].bound => b[s].op = "after"
<1>1. b[s].token \in Tokens /\ turns[s] > 0
  BY Here DEF BoundaryOf
<1>2. lease # <<>> /\ lease[1] = s /\ \A x \in Sessions \ {s} : at[x] \notin Holding
  BY DEF IInv, LeaseInv
<1>3. Wanted(s) \in Record
  BY <1>1, WantedType DEF IInv
<1>4. /\ Wanted(s).session = s /\ Wanted(s).turn = turns[s]
      /\ Wanted(s).epoch = epoch /\ Wanted(s).bound = (b[s].op # "begin") /\ Wanted(s).after = (b[s].op = "after")
  BY DEF Wanted
<1>5. file[b[s].token] # None /\ (b[s].op # "begin" \/ at[s] # "anchor") =>
        /\ file[b[s].token].session = s /\ file[b[s].token].turn = turns[s] /\ file[b[s].token].epoch = epoch
        /\ ~file[b[s].token].after /\ b[s].op # "begin"
        /\ file[b[s].token].bound => b[s].op = "after"
  BY Here DEF PendingOf
<1> QED BY <1>1, <1>2, <1>3, <1>4, <1>5, RecordType

\* What is on disk afterwards, and that it is nobody else's.
LEMMA AfterWriting ==
    ASSUME IInv, NEW s \in Sessions, at[s] \in Persisting, Written(s), Elsewhere(s), lost \subseteq lost',
           UNCHANGED <<epoch, turns, marks, wrote>>
    PROVE  /\ file' \in [Tokens -> Record \cup {None}] /\ ref' \in [Sessions -> [Tokens -> Record \cup {None}]]
           /\ file'[b[s].token] \in {file[b[s].token], Wanted(s)}
           /\ file'[b[s].token] # file[b[s].token] =>
                at[s] = "rename" /\ file'[b[s].token] = Wanted(s)
           /\ \A j \in Tokens : j # b[s].token => file'[j] = file[j]
           /\ RecordInv' /\ WroteInv'
           /\ \A x \in Sessions \ {s} : PendingOf(x)' /\ DeadOf(x)' /\ WriterOf(x)'
<1>0. PICK k \in Tokens : k = b[s].token
  BY BeforeWriting
<1>1. /\ \A x \in Sessions \ {s} : at[x] \notin Holding
      /\ Wanted(s) \in Record /\ Wanted(s) # None /\ Wanted(s).session = s /\ Wanted(s).turn = turns[s]
      /\ Wanted(s).epoch = epoch /\ Wanted(s).bound = (b[s].op # "begin") /\ Wanted(s).after = (b[s].op = "after")
      /\ file[k] # None /\ (b[s].op # "begin" \/ at[s] # "anchor") =>
            /\ file[k].session = s /\ file[k].turn = turns[s] /\ file[k].epoch = epoch
            /\ ~file[k].after /\ b[s].op # "begin"
            /\ file[k].bound => b[s].op = "after"
  BY <1>0, BeforeWriting
<1>2. /\ file \in [Tokens -> Record \cup {None}] /\ ref \in [Sessions -> [Tokens -> Record \cup {None}]]
      /\ epoch \in Nat /\ \A x \in Sessions : turns[x] \in Nat
  BY DEF IInv, VarsInv
<1>3. RecordInv /\ WroteInv /\ b[s].op \in {"begin", "bind", "after"}
  BY Here DEF IInv
<1>4. ASSUME at[s] = "anchor", Ready(s), ref' = [ref EXCEPT ![s][k] = Wanted(s)], file' = file
      PROVE  /\ ref' \in [Sessions -> [Tokens -> Record \cup {None}]] /\ RecordInv'
             /\ \A x \in Sessions \ {s} : \A j \in Tokens : ref'[x][j] = ref[x][j]
  <2>1. ref' \in [Sessions -> [Tokens -> Record \cup {None}]]
    BY <1>1, <1>2, <1>4
  <2>2. /\ \A x \in Sessions, j \in Tokens : x # s \/ j # k => ref'[x][j] = ref[x][j]
        /\ ref'[s][k] = Wanted(s)
    BY <1>1, <1>2, <1>4
  <2>3. \A j \in Tokens : file[j] # None => file[j].session \in Sessions
    BY <1>2, RecordType
  <2>4. file[k] # None => b[s].op # "begin" /\ file[k].session = s
    BY <1>0, <1>1, <1>4 DEF Ready
  <2>5. file[k] # None => Readable(k)'
    BY ZenonT(60), <1>0, <1>1, <1>4, <2>2, <2>4 DEF Ready, Readable
  <2>6. \A j \in Tokens : j # k /\ Readable(j) => Readable(j)'
    BY <1>4, <2>2, <2>3 DEF Readable
  <2>7. \A x \in Sessions, j \in Tokens : ref'[x][j] # None => ref'[x][j].session = x
    BY <1>1, <1>3, <2>2 DEF RecordInv
  <2>8. \A j \in Tokens : file[j] # None =>
            Readable(j)' /\ file[j].epoch <= epoch /\ file[j].turn <= turns[file[j].session]
    BY <1>3, <2>5, <2>6 DEF RecordInv
  <2> QED BY <1>4, <2>1, <2>2, <2>7, <2>8 DEF RecordInv
<1>5. ASSUME at[s] = "rename", ref' = ref, file' = [file EXCEPT ![k] = Wanted(s)]
      PROVE  /\ file' \in [Tokens -> Record \cup {None}] /\ file'[k] = Wanted(s)
             /\ \A j \in Tokens : j # k => file'[j] = file[j]
             /\ RecordInv' /\ WroteInv'
             /\ \A x \in Sessions \ {s} : PendingOf(x)' /\ DeadOf(x)' /\ WriterOf(x)'
  <2>1. /\ file' \in [Tokens -> Record \cup {None}] /\ file'[k] = Wanted(s)
        /\ \A j \in Tokens : j # k => file'[j] = file[j]
    BY <1>1, <1>2, <1>5
  <2>2. ref[s][k] \in {None, Wanted(s)}
    BY <1>0, <1>5, Here DEF PendingOf
  <2>3. RecordInv'
    <3>1. Readable(k)'
      BY <1>1, <1>5, <2>1, <2>2 DEF Readable
    <3>2. \A j \in Tokens : j # k /\ Readable(j) => Readable(j)'
      BY <1>5, <2>1 DEF Readable
    <3>3. \A j \in Tokens : file'[j] # None =>
            Readable(j)' /\ file'[j].epoch <= epoch /\ file'[j].turn <= turns[file'[j].session]
      BY <1>1, <1>2, <1>3, <2>1, <3>1, <3>2 DEF RecordInv
    <3> QED BY <1>3, <1>5, <3>3 DEF RecordInv
  <2>4. WroteInv'
    <3>1. \A j \in Tokens : file[j] # None /\ file[j].bound =>
            file'[j] # None /\ RecordedTurn(j)' = RecordedTurn(j) /\ file'[j].bound
      BY <1>1, <1>5, <2>1 DEF RecordedTurn
    <3>2. \A turn \in wrote : Settled(turn) => Settled(turn)'
      BY DEF Settled, Finalized
    <3> QED BY <1>3, <3>1, <3>2 DEF WroteInv
  <2>5. ASSUME NEW x \in Sessions \ {s} PROVE PendingOf(x)' /\ DeadOf(x)' /\ WriterOf(x)'
    <3>1. at'[x] = at[x] /\ b'[x] = b[x] /\ turns'[x] = turns[x] /\ marks'[x] = marks[x]
      BY DEF Elsewhere
    <3>2. PendingOf(x) /\ DeadOf(x) /\ WriterOf(x) /\ BoundaryOf(x) /\ at[x] \notin Holding
      BY <1>1, Here
    <3>3. PendingOf(x)'
      BY <1>1, <2>1, <3>1, <3>2 DEF PendingOf, BoundaryOf
    <3>4. DeadOf(x)'
      <4>1. \A j \in Tokens : file'[j] # None /\ file'[j].session = x => file'[j] = file[j]
        BY <1>1, <2>1
      <4>2. \A j \in Tokens : file[j] # None /\ file[j].session = x => file'[j] = file[j]
        BY <1>1, <1>5, <2>1
      <4>3. b[x].names \subseteq Tokens
        BY Here
      <4> QED BY <3>1, <3>2, <4>1, <4>2, <4>3 DEF DeadOf, Clearing
    <3>5. WriterOf(x)'
      <4>1. \A j \in Tokens : file'[j] # None /\ file'[j].session = x =>
                file'[j] = file[j] /\ RecordedTurn(j)' = RecordedTurn(j)
        BY <1>1, <2>1 DEF RecordedTurn
      <4>2. \A turn : Settled(turn) => Settled(turn)'
        BY DEF Settled, Finalized
      <4>3. TurnOf(x)' = TurnOf(x) /\ Acquiring(x)' = Acquiring(x)
        BY <3>1 DEF TurnOf, Acquiring
      <4>4. at[x] \in Removing => b[x].token \in Tokens
        BY <3>2 DEF BoundaryOf
      <4> QED BY <3>1, <3>2, <4>1, <4>2, <4>3, <4>4 DEF WriterOf
    <3> QED BY <3>3, <3>4, <3>5
  <2> QED BY <2>1, <2>3, <2>4, <2>5
<1>6. file' = file => WroteInv' /\ (ref' = ref => RecordInv')
  BY <1>2, WroteStays, RecordsStay DEF Finalized
<1>7. file' = file /\ (\A x \in Sessions \ {s} : \A j \in Tokens : ref'[x][j] = ref[x][j]) =>
        \A x \in Sessions \ {s} : PendingOf(x)' /\ DeadOf(x)' /\ WriterOf(x)'
  BY OthersOnDisk
<1>8. CASE ref' = ref /\ file' = file
  BY <1>0, <1>1, <1>2, <1>6, <1>7, <1>8
<1>9. CASE at[s] = "anchor" /\ Ready(s) /\ ref' = [ref EXCEPT ![s][k] = Wanted(s)] /\ file' = file
  BY <1>0, <1>1, <1>2, <1>4, <1>6, <1>7, <1>9
<1>10. CASE at[s] = "rename" /\ ref' = ref /\ file' = [file EXCEPT ![k] = Wanted(s)]
  BY <1>0, <1>1, <1>2, <1>5, <1>10
<1> QED BY <1>0, <1>8, <1>9, <1>10 DEF Written

\* Where a session goes when its boundary could not be written.
LEMMA PersistThrowsGoes ==
    ASSUME IInv, NEW s \in Sessions, at[s] \in Persisting, PersistThrows(s),
           UNCHANGED <<turns, marks, count>>
    PROVE  /\ at' \in [Sessions -> Stages] /\ b' \in [Sessions -> Boundary] /\ Elsewhere(s)
           /\ b'[s].token = b[s].token /\ b'[s].pending = b[s].pending
           /\ \/ b[s].op = "begin" /\ at'[s] = "turn" /\ Leave(s)
              \/ b[s].op = "begin" /\ at'[s] = "unanchor" /\ lease' = lease
              \/ b[s].op = "bind" /\ at'[s] = "unref" /\ b'[s].then = "turn" /\ lease' = lease
              \/ b[s].op = "after" /\ at'[s] = "unref" /\ b'[s].then = "stuck" /\ lease' = lease
<1> DEFINE refused == [b[s] EXCEPT !.failed = TRUE, !.then = "idle"]
           failed == [[b[s] EXCEPT !.failed = TRUE] EXCEPT !.then = "turn"]
           stuck == [b[s] EXCEPT !.then = "stuck"]
<1>1. /\ b[s] \in Boundary /\ refused \in Boundary /\ failed \in Boundary /\ stuck \in Boundary
      /\ refused.token = b[s].token /\ refused.pending = b[s].pending
      /\ failed.token = b[s].token /\ failed.pending = b[s].pending /\ failed.then = "turn"
      /\ stuck.token = b[s].token /\ stuck.pending = b[s].pending /\ stuck.then = "stuck"
  BY Here DEF Boundary
<1>2. \/ b[s].op = "begin" /\ Go(s, "turn", refused) /\ Leave(s)
      \/ b[s].op = "begin" /\ Go(s, "unanchor", b[s]) /\ lease' = lease
      \/ b[s].op = "bind" /\ Go(s, "unref", failed) /\ lease' = lease
      \/ b[s].op = "after" /\ Go(s, "unref", stuck) /\ lease' = lease
  BY Here DEF PersistThrows, AcquireRefused, Retire
<1> HIDE DEF refused, failed, stuck
<1> QED BY <1>1, <1>2, Goes

LEMMA ThrownStep ==
    ASSUME IInv, NEW s \in Sessions, at[s] \in Persisting, PersistThrows(s), Written(s), lost' = NotAppended(s),
           UNCHANGED <<epoch, turns, marks, log, dirty, count, wrote, cut>>,
           temp' \subseteq Sessions \cup {"left"}, failures' \in Nat
    PROVE  IInv'
<1>0. PICK k \in Tokens : k = b[s].token
  BY BeforeWriting
<1>1. /\ at' \in [Sessions -> Stages] /\ b' \in [Sessions -> Boundary] /\ Elsewhere(s)
      /\ b'[s].token = k /\ b'[s].pending = b[s].pending
      /\ \/ b[s].op = "begin" /\ at'[s] = "turn" /\ Leave(s)
         \/ b[s].op = "begin" /\ at'[s] = "unanchor" /\ lease' = lease
         \/ b[s].op = "bind" /\ at'[s] = "unref" /\ b'[s].then = "turn" /\ lease' = lease
         \/ b[s].op = "after" /\ at'[s] = "unref" /\ b'[s].then = "stuck" /\ lease' = lease
  BY <1>0, PersistThrowsGoes
<1>2. TurnOf(s) \in Turn /\ TurnOf(s)' = TurnOf(s)
  BY BoundaryType DEF IInv, TurnOf
<1>3. lost \subseteq lost' /\ lost' \subseteq Turn /\ (b[s].op = "after" => TurnOf(s) \in lost')
  BY <1>2 DEF NotAppended, IInv, VarsInv
<1>4. /\ file' \in [Tokens -> Record \cup {None}] /\ ref' \in [Sessions -> [Tokens -> Record \cup {None}]]
      /\ file'[k] \in {file[k], Wanted(s)} /\ (file'[k] # file[k] => at[s] = "rename")
      /\ \A j \in Tokens : j # k => file'[j] = file[j]
      /\ RecordInv' /\ WroteInv'
      /\ \A x \in Sessions \ {s} : PendingOf(x)' /\ DeadOf(x)' /\ WriterOf(x)'
  BY <1>0, <1>1, <1>3, AfterWriting
<1>5. /\ lease # <<>> /\ lease[1] = s
      /\ Wanted(s).session = s /\ Wanted(s).turn = turns[s] /\ Wanted(s).epoch = epoch
      /\ file[k] # None /\ (b[s].op # "begin" \/ at[s] # "anchor") => file[k].session = s /\ file[k].turn = turns[s]
  BY <1>0, BeforeWriting
<1>6. lease' \in Seq(Sessions) /\ LeaseInv'
  BY <1>1, <1>5, LeaseKept, LeaseLeft DEF Clearing, IInv, VarsInv
<1>7. VarsInv'
  BY <1>1, <1>3, <1>4, <1>6 DEF IInv, VarsInv
<1>8. Local(s)'
  <2>1. BoundaryOf(s)'
    BY <1>0, <1>1, Here DEF BoundaryOf, Clearing, Captured
  <2>2. PendingOf(s)'
    BY <1>0, <1>1, <1>4, <1>5, Here DEF PendingOf
  <2>3. DeadOf(s)'
    <3>1. \A j \in Tokens : file[j] # None /\ file[j].session = s => ~(file[j].epoch < epoch)
      BY Here DEF DeadOf, Clearing
    <3>2. epoch \in Nat
      BY DEF IInv, VarsInv
    <3>3. \A j \in Tokens : file'[j] # None /\ file'[j].session = s => ~(file'[j].epoch < epoch)
      BY <1>4, <1>5, <3>1, <3>2
    <3> QED BY <1>1, <3>3 DEF DeadOf, Clearing
  <2>4. StatusOf(s)'
    BY <1>1, <1>2, <1>3, Here, StatusStays DEF StatusOf, Captured, Turning
  <2>5. WriterOf(s)'
    <3>1. b[s].op # "after" => TurnOf(s) \notin wrote
      BY Here DEF WriterOf, Acquiring
    <3>2. b[s].op # "begin" /\ file'[k] # None => RecordedTurn(k)' = TurnOf(s)
      BY <1>4, <1>5 DEF RecordedTurn, TurnOf
    <3>3. b[s].op = "after" => Settled(TurnOf(s))'
      BY <1>2, <1>3 DEF Settled
    <3>4. Settled(TurnOf(s))' /\ b[s].op = "after" /\ file'[k] # None => Settled(RecordedTurn(k))'
      BY <1>2, <3>2 DEF Settled
    <3> QED BY <1>1, <1>2, <3>1, <3>2, <3>3, <3>4 DEF WriterOf, Acquiring
  <2>6. MarkOf(s)'
    BY <1>1, MarksStay DEF MarkOf, Captured
  <2>7. DirtyOf(s)'
    BY <1>1, Here DEF DirtyOf, Acquiring, TurnOf
  <2> QED BY <2>1, <2>2, <2>3, <2>4, <2>5, <2>6, <2>7 DEF Local
<1> QED BY <1>1, <1>3, <1>4, <1>6, <1>7, <1>8, DiskStep

LEMMA PersistFailsStep ==
    ASSUME IInv, NEW s \in Sessions, PersistFails(s)
    PROVE  IInv'
<1>1. /\ at[s] \in Persisting /\ failures' = failures + 1 /\ PersistThrows(s) /\ lost' = NotAppended(s)
      /\ temp' = temp \ {s}
      /\ UNCHANGED <<epoch, turns, marks, log, dirty, count, wrote, cut>>
  BY DEF PersistFails, Fails, rest
<1>2. Written(s)
  BY DEF PersistFails, Written, Anchored
<1>3. failures' \in Nat /\ temp' \subseteq Sessions \cup {"left"}
  BY <1>1 DEF IInv, VarsInv
<1> QED BY <1>1, <1>2, <1>3, ThrownStep

LEMMA AnchorStep ==
    ASSUME IInv, NEW s \in Sessions, Anchor(s)
    PROVE  IInv'
<1>1. /\ at[s] = "anchor"
      /\ UNCHANGED <<epoch, turns, marks, log, dirty, file, temp, count, failures, wrote, cut>>
  BY DEF Anchor, rest
<1>2. Written(s)
  BY <1>1 DEF Anchor, Written, Anchored
<1>3. CASE ~Ready(s)
  <2>1. failures' \in Nat /\ temp' \subseteq Sessions \cup {"left"}
    BY <1>1 DEF IInv, VarsInv
  <2>2. PersistThrows(s) /\ lost' = NotAppended(s)
    BY <1>3 DEF Anchor
  <2> QED BY <1>1, <1>2, <2>1, <2>2, ThrownStep
<1>4. CASE Ready(s)
  <2>0. PICK k \in Tokens : k = b[s].token
    BY <1>1, BeforeWriting
  <2>1. /\ ref' = [ref EXCEPT ![s][k] = Wanted(s)] /\ Go(s, "temp", b[s])
        /\ lease' = lease /\ lost' = lost
    BY <1>4, <2>0 DEF Anchor, Anchored
  <2>2. /\ at' \in [Sessions -> Stages] /\ b' \in [Sessions -> Boundary] /\ Elsewhere(s)
        /\ at'[s] = "temp" /\ b'[s] = b[s]
    BY <1>1, <2>1, Goes, Here
  <2>3. /\ ref' \in [Sessions -> [Tokens -> Record \cup {None}]] /\ RecordInv' /\ WroteInv'
        /\ \A x \in Sessions \ {s} : PendingOf(x)' /\ DeadOf(x)' /\ WriterOf(x)'
    BY <1>1, <1>2, <2>1, <2>2, AfterWriting
  <2>4. lease # <<>> /\ lease[1] = s
    BY <1>1, BeforeWriting
  <2>5. VarsInv'
    BY <1>1, <2>1, <2>2, <2>3 DEF IInv, VarsInv
  <2>6. LeaseInv'
    BY <2>1, <2>2, <2>4, LeaseKept DEF Clearing
  <2>7. Local(s)'
    <3>1. BoundaryOf(s)'
      BY <1>1, <2>2, Here DEF BoundaryOf, Clearing, Captured
    <3>2. PendingOf(s)'
      <4>1. ref'[s][k] = Wanted(s)
        BY <2>1 DEF IInv, VarsInv
      <4>2. Wanted(s)' = Wanted(s)
        BY <1>1, <2>2 DEF Wanted
      <4>3. b[s].op = "begin" => file[k] = None
        BY <1>4, <2>0 DEF Ready
      <4> QED BY <1>1, <2>0, <2>2, <4>1, <4>2, <4>3, Here DEF PendingOf
    <3>3. DeadOf(s)'
      BY <1>1, <2>2, Here DEF DeadOf, Clearing
    <3>4. StatusOf(s)'
      BY <1>1, <2>1, <2>2, Here, StatusStays DEF StatusOf, Captured, Turning
    <3>5. WriterOf(s)'
      BY <1>1, <2>1, <2>2, Here DEF WriterOf, Acquiring, TurnOf
    <3>6. MarkOf(s)'
      BY <1>1, <2>2, Here, MarksStay DEF MarkOf, Captured
    <3>7. DirtyOf(s)'
      BY <1>1, <2>2, Here DEF DirtyOf, Acquiring, TurnOf
    <3> QED BY <3>1, <3>2, <3>3, <3>4, <3>5, <3>6, <3>7 DEF Local
  <2> QED BY <1>1, <2>1, <2>2, <2>3, <2>5, <2>6, <2>7, DiskStep
<1> QED BY <1>3, <1>4

LEMMA RenameStep ==
    ASSUME IInv, NEW s \in Sessions, Rename(s)
    PROVE  IInv'
<1>1. /\ at[s] = "rename" /\ temp' = temp \ {s} /\ file' = [file EXCEPT ![b[s].token] = Wanted(s)]
      /\ UNCHANGED <<epoch, turns, marks, log, dirty, ref, count, lease, failures, wrote, lost, cut>>
  BY DEF Rename, rest
<1>2. PICK k \in Tokens : k = b[s].token
  BY <1>1, BeforeWriting
<1> DEFINE begun == [b[s] EXCEPT !.pending = TRUE, !.op = "bind"]
           bound == [b[s] EXCEPT !.bound = TRUE]
<1>3. /\ begun \in Boundary /\ begun.token = k /\ begun.pending /\ begun.op = "bind"
      /\ bound \in Boundary /\ bound.token = k /\ bound.pending = b[s].pending /\ bound.op = b[s].op
      /\ bound.base = b[s].base /\ begun.base = b[s].base
  BY <1>2, Here DEF Boundary
<1>4. \/ b[s].op = "begin" /\ Go(s, "anchor", begun)
      \/ b[s].op = "bind" /\ Go(s, "holding", bound)
      \/ b[s].op = "after" /\ Go(s, "append", b[s])
  BY Here DEF Rename
<1> HIDE DEF begun, bound
<1>5. /\ at' \in [Sessions -> Stages] /\ b' \in [Sessions -> Boundary] /\ Elsewhere(s) /\ b'[s].token = k
      /\ b'[s].base = b[s].base
      /\ \/ b[s].op = "begin" /\ at'[s] = "anchor" /\ b'[s].pending /\ b'[s].op = "bind"
         \/ b[s].op = "bind" /\ at'[s] = "holding" /\ b'[s].pending = b[s].pending
         \/ b[s].op = "after" /\ at'[s] = "append" /\ b'[s] = b[s]
  BY <1>1, <1>2, <1>3, <1>4, Goes, Here
<1>6. Written(s)
  BY <1>1 DEF Written
<1>7. /\ file' \in [Tokens -> Record \cup {None}] /\ \A j \in Tokens : j # k => file'[j] = file[j]
      /\ RecordInv' /\ WroteInv'
      /\ \A x \in Sessions \ {s} : PendingOf(x)' /\ DeadOf(x)' /\ WriterOf(x)'
  BY <1>1, <1>2, <1>5, <1>6, AfterWriting
<1>8. file'[k] = Wanted(s)
  BY <1>1, <1>2 DEF IInv, VarsInv
<1>9. /\ lease # <<>> /\ lease[1] = s /\ Wanted(s) # None
      /\ Wanted(s).session = s /\ Wanted(s).turn = turns[s] /\ Wanted(s).epoch = epoch
      /\ Wanted(s).bound = (b[s].op # "begin") /\ Wanted(s).after = (b[s].op = "after")
  BY <1>1, BeforeWriting
<1>10. VarsInv'
  BY <1>1, <1>5, <1>7 DEF IInv, VarsInv
<1>11. LeaseInv'
  BY <1>1, <1>5, <1>9, LeaseKept DEF Clearing
<1>12. Local(s)'
  <2>1. BoundaryOf(s)'
    BY <1>1, <1>2, <1>5, Here DEF BoundaryOf, Clearing, Captured
  <2>2. PendingOf(s)'
    <3>1. (at'[s] \notin {"temp", "rename"} /\ b'[s].op # "begin") \/ at'[s] \in {"holding", "append"}
      BY <1>5
    <3>2. ~Wanted(s).after \/ at'[s] = "append"
      BY <1>5, <1>9
    <3>3. Wanted(s).bound => at'[s] \in {"holding", "append"}
      BY <1>5, <1>9
    <3> DEFINE w == file'[k]
    <3>4. w.session = s /\ w.turn = turns[s] /\ w.epoch = epoch
      BY <1>8, <1>9
    <3>5. (~w.after \/ at'[s] = "append") /\ (w.bound => at'[s] \in {"holding", "append"})
      BY <1>8, <3>2, <3>3
    <3> HIDE DEF w
    <3>6. at'[s] \in {"anchor", "holding", "append"}
      BY <1>5
    <3> QED BY <1>1, <1>5, <3>4, <3>5, <3>6 DEF PendingOf, w
  <2>3. DeadOf(s)'
    <3>1. \A j \in Tokens : file[j] # None /\ file[j].session = s => ~(file[j].epoch < epoch)
      BY <1>1, Here DEF DeadOf, Clearing
    <3>2. epoch \in Nat
      BY DEF IInv, VarsInv
    <3>3. \A j \in Tokens : file'[j] # None /\ file'[j].session = s => ~(file'[j].epoch < epoch)
      BY <1>7, <1>8, <1>9, <3>1, <3>2
    <3> QED BY <1>1, <1>5, <3>3 DEF DeadOf, Clearing
  <2>4. StatusOf(s)'
    BY <1>1, <1>5, Here, StatusStays DEF StatusOf, Captured, Turning
  <2>5. WriterOf(s)'
    <3>1. at'[s] = "anchor" => TurnOf(s) \notin wrote
      BY <1>1, <1>5, Here DEF WriterOf, Acquiring
    <3>2. at'[s] = "holding" => file'[k] # None /\ file'[k].session = s /\ file'[k].bound
      BY <1>5, <1>8, <1>9
    <3>3. TurnOf(s)' = TurnOf(s)
      BY <1>1 DEF TurnOf
    <3> QED BY <1>1, <1>5, <3>1, <3>2, <3>3 DEF WriterOf, Acquiring
  <2>6. MarkOf(s)'
    BY <1>1, <1>5, Here, MarksStay DEF MarkOf, Captured
  <2>7. DirtyOf(s)'
    BY <1>1, <1>5, Here DEF DirtyOf, Acquiring, TurnOf
  <2> QED BY <2>1, <2>2, <2>3, <2>4, <2>5, <2>6, <2>7 DEF Local
<1> QED BY <1>1, <1>5, <1>7, <1>10, <1>11, <1>12, DiskStep

\* What removing a boundary may have done to the disk: it removes whatever its token names.
Removed(s) ==
    \/ ref' = ref /\ file' = file /\ lost' \in {lost, lost \cup Robbed(s)}
    \/ /\ ref' = [ref EXCEPT ![file[b[s].token].session][b[s].token] = None] /\ file[b[s].token] # None
       /\ file' = file /\ lost' = lost \cup Robbed(s)
    \/ ref' = ref /\ file' = [file EXCEPT ![b[s].token] = None] /\ lost' = lost \cup Robbed(s)

\* What is on disk afterwards, and that what was another session's is a turn that is lost.
LEMMA AfterRemoval ==
    ASSUME IInv, NEW s \in Sessions, at[s] \in Removing, Removed(s), Elsewhere(s),
           UNCHANGED <<epoch, turns, marks, wrote>>
    PROVE  /\ file' \in [Tokens -> Record \cup {None}] /\ ref' \in [Sessions -> [Tokens -> Record \cup {None}]]
           /\ lost \subseteq lost' /\ lost' \subseteq Turn
           /\ file'[b[s].token] \in {file[b[s].token], None}
           /\ \A j \in Tokens : j # b[s].token => file'[j] = file[j]
           /\ RecordInv' /\ WroteInv'
           /\ \A x \in Sessions \ {s} : PendingOf(x)' /\ DeadOf(x)' /\ WriterOf(x)'
<1>0. PICK k \in Tokens : k = b[s].token
  BY Here DEF BoundaryOf
<1>1. /\ file \in [Tokens -> Record \cup {None}] /\ ref \in [Sessions -> [Tokens -> Record \cup {None}]]
      /\ epoch \in Nat /\ (\A x \in Sessions : turns[x] \in Nat) /\ lost \subseteq Turn
  BY DEF IInv, VarsInv
<1>2. file[k] # None => file[k].session \in Sessions /\ file[k].turn \in 0..MaxTurns
  BY ResolvedRecord
<1>3. /\ lost \subseteq lost' /\ lost' \subseteq Turn
      /\ file[k] # None /\ file[k].session # s /\ lost' = lost \cup Robbed(s) => RecordedTurn(k) \in lost'
  BY SMTT(30), <1>0, <1>1, <1>2 DEF Removed, Robbed, RecordedTurn, Turn
<1>4. CASE ref' = ref /\ file' = file
  <2>1. RecordInv' /\ WroteInv'
    BY <1>1, <1>3, <1>4, RecordsStay, WroteStays DEF Finalized
  <2> QED BY <1>0, <1>1, <1>3, <1>4, <2>1, OthersOnDisk
<1>5. CASE file' = file /\ file[k] # None /\ ref' = [ref EXCEPT ![file[k].session][k] = None]
  <2>1. WroteInv'
    BY <1>1, <1>3, <1>5, WroteStays DEF Finalized
  <2>2. /\ RecordInv' /\ ref' \in [Sessions -> [Tokens -> Record \cup {None}]]
        /\ \A y \in Sessions : \A j \in Tokens : ref'[y][j] \in {ref[y][j], None}
    BY <1>2, <1>5, RefRemoved
  <2> QED BY <1>0, <1>1, <1>3, <1>5, <2>1, <2>2, OthersOnDisk
<1>6. CASE ref' = ref /\ file' = [file EXCEPT ![k] = None] /\ lost' = lost \cup Robbed(s)
  <2>1. /\ file' \in [Tokens -> Record \cup {None}] /\ file'[k] = None
        /\ \A j \in Tokens : j # k => file'[j] = file[j]
    BY <1>1, <1>6
  <2>2. RecordInv'
    <3>1. \A j \in Tokens : j # k /\ Readable(j) => Readable(j)'
      BY <1>6, <2>1 DEF Readable
    <3> QED BY <1>6, <2>1, <3>1 DEF IInv, RecordInv
  <2>3. WroteInv'
    <3>1. \A turn : Settled(turn) => Settled(turn)'
      BY <1>3 DEF Settled, Finalized
    <3>2. \A j \in Tokens : j # k => RecordedTurn(j)' = RecordedTurn(j)
      BY <2>1 DEF RecordedTurn
    <3>3. \A turn \in wrote : file[k] # None /\ file[k].bound /\ turn = RecordedTurn(k) => Settled(turn)'
      <4>1. file[k] # None /\ file[k].bound /\ file[k].session = s =>
                RecordedTurn(k) \notin wrote \/ Settled(RecordedTurn(k))
        BY <1>0, Here DEF WriterOf
      <4>2. \A turn \in lost' : Settled(turn)'
        BY DEF Settled
      <4> QED BY <1>3, <1>6, <3>1, <4>1, <4>2
    <3> QED BY <2>1, <3>1, <3>2, <3>3 DEF IInv, WroteInv
  <2>4. ASSUME NEW x \in Sessions \ {s} PROVE PendingOf(x)' /\ DeadOf(x)' /\ WriterOf(x)'
    <3>1. at'[x] = at[x] /\ b'[x] = b[x] /\ turns'[x] = turns[x] /\ marks'[x] = marks[x]
      BY DEF Elsewhere
    <3>2. PendingOf(x) /\ DeadOf(x) /\ WriterOf(x) /\ BoundaryOf(x)
      BY Here
    <3>3. PendingOf(x)'
      BY <1>6, <2>1, <3>1, <3>2 DEF PendingOf, BoundaryOf, Wanted
    <3>4. DeadOf(x)'
      <4>1. file[k] # None /\ file[k].epoch < epoch => file[k].session = s
        <5>1. CASE Clearing(s)
          BY <1>0, <5>1, Here DEF DeadOf
        <5>2. CASE ~Clearing(s)
          BY <1>0, <1>1, <5>2, Here DEF BoundaryOf, PendingOf
        <5> QED BY <5>1, <5>2
      <4>2. b[x].names \subseteq Tokens
        BY Here
      <4> QED BY <2>1, <3>1, <3>2, <4>1, <4>2 DEF DeadOf, Clearing
    <3>5. WriterOf(x)'
      <4>1. \A turn : Settled(turn) => Settled(turn)'
        BY <1>3 DEF Settled, Finalized
      <4>2. \A j \in Tokens : j # k => RecordedTurn(j)' = RecordedTurn(j)
        BY <2>1 DEF RecordedTurn
      <4>3. TurnOf(x)' = TurnOf(x) /\ Acquiring(x)' = Acquiring(x)
        BY <3>1 DEF TurnOf, Acquiring
      <4>4. at[x] \in Removing \cup {"holding"} => b[x].token \in Tokens
        BY <3>2 DEF BoundaryOf
      <4>5. at[x] = "holding" /\ file[k] # None /\ file[k].session = x /\ b[x].token = k => TurnOf(x) \in lost'
        BY <1>3, <1>6, <3>2 DEF PendingOf, RecordedTurn, TurnOf
      <4> QED BY <1>3, <2>1, <3>1, <3>2, <4>1, <4>2, <4>3, <4>4, <4>5 DEF WriterOf
    <3> QED BY <3>3, <3>4, <3>5
  <2> QED BY <1>0, <1>1, <1>3, <1>6, <2>1, <2>2, <2>3, <2>4
<1> QED BY <1>0, <1>4, <1>5, <1>6 DEF Removed

\* Where a session goes from a removal, done or not.
Onward(s) ==
    LET then == b[s].then
    IN  \/ then = "recover" /\ at'[s] = "refused" /\ ~b'[s].pending /\ lease' = lease
        \/ /\ then = "recover" /\ at'[s] = "recover" /\ ~b'[s].pending /\ lease' = lease
           /\ b'[s].names = b[s].names \ {b[s].token} /\ file'[b[s].token] = None
        \/ /\ then = "turn" /\ at'[s] = "turn" /\ b'[s].token = b[s].token /\ (b'[s].pending => b[s].pending)
           /\ Leave(s)
        \/ /\ then \in {"stuck", "idle"} /\ at'[s] = "stuck" /\ b'[s].token = b[s].token
           /\ (b'[s].pending => b[s].pending) /\ Leave(s)
        \/ then \in {"idle", "closed"} /\ at'[s] = then /\ ~b'[s].pending /\ Leave(s)
        \/ /\ then = "idle" /\ at'[s] = "unref" /\ b'[s].token = b[s].token
           /\ b'[s].pending = b[s].pending /\ b'[s].then = "stuck" /\ lease' = lease
        \/ at'[s] = "unlink" /\ b'[s] = b[s] /\ lease' = lease /\ file' = file

LEMMA RetireThrowsGoes ==
    ASSUME IInv, NEW s \in Sessions, RetireThrows(s), UNCHANGED <<turns, marks, count>>
    PROVE  at' \in [Sessions -> Stages] /\ b' \in [Sessions -> Boundary] /\ Elsewhere(s) /\ Onward(s)
<1> DEFINE stuck == [b[s] EXCEPT !.then = "stuck"]
<1>1. /\ b[s] \in Boundary /\ NoBoundary \in Boundary /\ ~NoBoundary.pending /\ stuck \in Boundary
      /\ stuck.token = b[s].token /\ stuck.pending = b[s].pending /\ stuck.then = "stuck"
  BY Here, BoundaryType DEF Boundary, NoBoundary
<1>2. b[s].then \in {"idle", "recover", "turn", "stuck", "closed"} /\ b[s].mark.status \in {"available", "unavailable"}
  BY Here DEF Mark
<1>3. \/ b[s].then = "recover" /\ Go(s, "refused", NoBoundary) /\ lease' = lease
      \/ b[s].then = "turn" /\ Go(s, "turn", b[s]) /\ Leave(s)
      \/ b[s].then \in {"stuck", "idle"} /\ Go(s, "stuck", b[s]) /\ Leave(s)
      \/ b[s].then = "closed" /\ Go(s, "closed", NoBoundary) /\ Leave(s)
      \/ b[s].then = "idle" /\ Go(s, "unref", stuck) /\ lease' = lease
  BY <1>2 DEF RetireThrows, Retire
<1> HIDE DEF stuck
<1> QED BY <1>1, <1>3, Goes DEF Onward

LEMMA RetiredGoes ==
    ASSUME IInv, NEW s \in Sessions, Retired(s), file'[b[s].token] = None, UNCHANGED <<turns, marks, count>>
    PROVE  at' \in [Sessions -> Stages] /\ b' \in [Sessions -> Boundary] /\ Elsewhere(s) /\ Onward(s)
<1> DEFINE done == [b[s] EXCEPT !.pending = FALSE]
           next == [done EXCEPT !.names = @ \ {b[s].token}]
<1>1. /\ NoBoundary \in Boundary /\ ~NoBoundary.pending /\ done \in Boundary /\ done.token = b[s].token /\ ~done.pending
      /\ next \in Boundary /\ ~next.pending /\ next.names = b[s].names \ {b[s].token}
  BY Here, BoundaryType DEF Boundary, NoBoundary
<1>2. b[s].then \in {"idle", "recover", "turn", "stuck", "closed"}
  BY Here
<1>3. \/ b[s].then = "recover" /\ Go(s, "recover", next) /\ lease' = lease
      \/ b[s].then = "turn" /\ Go(s, "turn", done) /\ Leave(s)
      \/ b[s].then = "stuck" /\ Go(s, "stuck", done) /\ Leave(s)
      \/ b[s].then \in {"idle", "closed"} /\ Go(s, b[s].then, NoBoundary) /\ Leave(s)
  BY <1>2 DEF Retired
<1> HIDE DEF done, next
<1> QED BY <1>1, <1>3, Goes DEF Onward

LEMMA RemovalStep ==
    ASSUME IInv, NEW s \in Sessions, at[s] \in Removing, Removed(s),
           at' \in [Sessions -> Stages], b' \in [Sessions -> Boundary], Elsewhere(s), Onward(s),
           failures' \in Nat, UNCHANGED <<epoch, turns, marks, log, dirty, temp, count, wrote, cut>>
    PROVE  IInv'
<1>0. PICK k \in Tokens : k = b[s].token
  BY Here DEF BoundaryOf
<1>1. /\ file' \in [Tokens -> Record \cup {None}] /\ ref' \in [Sessions -> [Tokens -> Record \cup {None}]]
      /\ lost \subseteq lost' /\ lost' \subseteq Turn
      /\ file'[k] \in {file[k], None} /\ \A j \in Tokens : j # k => file'[j] = file[j]
      /\ RecordInv' /\ WroteInv'
      /\ \A x \in Sessions \ {s} : PendingOf(x)' /\ DeadOf(x)' /\ WriterOf(x)'
  BY <1>0, AfterRemoval
<1>2. \/ b[s].then = "recover" /\ at'[s] = "refused" /\ ~b'[s].pending
      \/ /\ b[s].then = "recover" /\ at'[s] = "recover" /\ ~b'[s].pending
         /\ b'[s].names = b[s].names \ {k} /\ file'[k] = None
      \/ b[s].then = "turn" /\ at'[s] = "turn" /\ b'[s].token = k /\ (b'[s].pending => b[s].pending)
      \/ b[s].then \in {"stuck", "idle"} /\ at'[s] = "stuck" /\ b'[s].token = k /\ (b'[s].pending => b[s].pending)
      \/ b[s].then \in {"idle", "closed"} /\ at'[s] = b[s].then /\ ~b'[s].pending
      \/ /\ b[s].then = "idle" /\ at'[s] = "unref" /\ b'[s].token = k /\ b'[s].pending = b[s].pending /\ b'[s].then = "stuck"
      \/ at'[s] = "unlink" /\ b'[s] = b[s] /\ file' = file
  BY <1>0 DEF Onward
<1>3. lease' \in Seq(Sessions) /\ LeaseInv'
  <2>1. CASE lease' = lease
    <3>1. s \in ToSet(lease) => b[s].then # "recover"
      BY DEF IInv, LeaseInv, Clearing
    <3>2. b[s].then # "recover" => (at'[s] \in Removing /\ ~Clearing(s)') \/ Leave(s)
      BY DEF Onward, Clearing
    <3>3. at'[s] \notin Holding
      BY <1>2
    <3>4. lease \in Seq(Sessions)
      BY DEF IInv, VarsInv
    <3> QED BY <2>1, <3>1, <3>2, <3>3, <3>4, LeaseKept, LeaseLeft
  <2>2. CASE Leave(s)
    BY <1>2, <2>2, LeaseLeft
  <2> QED BY <2>1, <2>2 DEF Onward
<1>4. VarsInv'
  BY <1>1, <1>3 DEF IInv, VarsInv
<1>5. Local(s)'
  <2>1. BoundaryOf(s)'
    BY <1>0, <1>2, Here DEF BoundaryOf, Clearing, Captured
  <2>2. PendingOf(s)'
    BY <1>0, <1>1, <1>2, Here DEF PendingOf
  <2>3. DeadOf(s)'
    <3>1. b[s].names \subseteq Tokens /\ DeadOf(s)
      BY Here
    <3>2. \A j \in Tokens : file'[j] # None => file'[j] = file[j]
      BY <1>1
    <3>3. CASE at'[s] = "recover"
      BY SMTT(30), <1>0, <1>1, <1>2, <3>1, <3>2, <3>3 DEF DeadOf, Clearing
    <3>4. CASE at'[s] = "refused"
      BY <3>4 DEF DeadOf, Clearing
    <3>5. CASE at'[s] = "unlink"
      <4>1. b'[s] = b[s] /\ file' = file
        BY <1>2, <3>5
      <4> QED BY <3>1, <3>5, <4>1 DEF DeadOf, Clearing
    <3>6. CASE at'[s] \notin {"recover", "refused", "unlink"}
      <4>1. b[s].then # "recover" /\ ~Clearing(s)' /\ at'[s] # "listed"
        BY <1>2, <3>6 DEF Clearing
      <4> QED BY <3>1, <3>2, <3>6, <4>1 DEF DeadOf, Clearing
    <3> QED BY <3>3, <3>4, <3>5, <3>6
  <2>4. StatusOf(s)'
    <3>1. Turning(s)' = Turning(s)
      BY <1>2, Here DEF Turning
    <3>2. (at[s] = "stuck" \/ (at[s] \in Removing /\ b[s].then \in {"idle", "stuck", "closed"}))' =>
              Finalized(s, turns[s]) \/ TurnOf(s) \in lost'
      BY <1>1, <1>2, Here DEF StatusOf
    <3> QED BY <1>1, <1>2, <3>1, <3>2, StatusStays DEF Captured
  <2>5. WriterOf(s)'
    <3>1. b[s].then = "turn" => TurnOf(s) \notin wrote
      BY Here DEF WriterOf
    <3>2. TurnOf(s)' = TurnOf(s) /\ \A turn : Settled(turn) => Settled(turn)'
      BY <1>1 DEF TurnOf, Settled, Finalized
    <3>3. file'[k] # None => file'[k] = file[k] /\ RecordedTurn(k)' = RecordedTurn(k)
      BY <1>1 DEF RecordedTurn
    <3>4. file[k] # None /\ file[k].session = s /\ file[k].bound =>
              RecordedTurn(k) \notin wrote \/ Settled(RecordedTurn(k))
      BY <1>0, Here DEF WriterOf
    <3>5. at'[s] \in Removing => b'[s].token = k /\ (b'[s].then = "turn" => b[s].then = "turn")
      BY <1>0, <1>2
    <3>6. at'[s] \notin {"waiting", "unanchor", "holding"} /\ ~Acquiring(s)' /\ (at'[s] = "turn" => b[s].then = "turn")
      BY <1>2 DEF Acquiring
    <3> QED BY <3>1, <3>2, <3>3, <3>4, <3>5, <3>6 DEF WriterOf
  <2>6. MarkOf(s)'
    BY <1>2, Here, MarksStay DEF MarkOf, Captured
  <2>7. DirtyOf(s)'
    BY <1>2, Here DEF DirtyOf, Acquiring, TurnOf
  <2> QED BY <2>1, <2>2, <2>3, <2>4, <2>5, <2>6, <2>7 DEF Local
<1> QED BY <1>1, <1>3, <1>4, <1>5, DiskStep

LEMMA UnrefStep ==
    ASSUME IInv, NEW s \in Sessions, Unref(s)
    PROVE  IInv'
<1>1. /\ at[s] = "unref"
      /\ UNCHANGED <<epoch, turns, marks, log, dirty, file, temp, count, failures, wrote, cut>>
  BY DEF Unref, rest
<1>2. failures' \in Nat /\ b[s].token \in Tokens
  BY <1>1, Here DEF IInv, VarsInv, BoundaryOf
<1>3. CASE Retirable(s)
  <2>1. Removed(s) /\ Go(s, "unlink", b[s]) /\ lease' = lease
    BY <1>1, <1>3 DEF Unref, Retirable, Readable, Removed
  <2>2. at' \in [Sessions -> Stages] /\ b' \in [Sessions -> Boundary] /\ Elsewhere(s) /\ Onward(s)
    BY <1>1, <2>1, Goes, Here DEF Onward
  <2> QED BY <1>1, <1>2, <2>1, <2>2, RemovalStep
<1>4. CASE ~Retirable(s)
  <2>1. RetireThrows(s) /\ ref' = ref /\ lost' = lost
    BY <1>4 DEF Unref
  <2>2. at' \in [Sessions -> Stages] /\ b' \in [Sessions -> Boundary] /\ Elsewhere(s) /\ Onward(s)
    BY <1>1, <2>1, RetireThrowsGoes
  <2>3. Removed(s)
    BY <1>1, <2>1 DEF Removed
  <2> QED BY <1>1, <1>2, <2>2, <2>3, RemovalStep
<1> QED BY <1>3, <1>4

LEMMA UnlinkStep ==
    ASSUME IInv, NEW s \in Sessions, Unlink(s)
    PROVE  IInv'
<1>1. /\ at[s] = "unlink" /\ Retired(s) /\ Removed(s) /\ file' = [file EXCEPT ![b[s].token] = None]
      /\ UNCHANGED <<epoch, turns, marks, log, dirty, temp, count, failures, wrote, cut>>
  BY DEF Unlink, Removed, rest
<1>2. failures' \in Nat /\ file'[b[s].token] = None
  BY <1>1, Here DEF IInv, VarsInv, BoundaryOf
<1>3. at' \in [Sessions -> Stages] /\ b' \in [Sessions -> Boundary] /\ Elsewhere(s) /\ Onward(s)
  BY <1>1, <1>2, RetiredGoes
<1> QED BY <1>1, <1>2, <1>3, RemovalStep

LEMMA RetireFailsStep ==
    ASSUME IInv, NEW s \in Sessions, RetireFails(s)
    PROVE  IInv'
<1>1. /\ at[s] \in Removing /\ RetireThrows(s) /\ failures' = failures + 1
      /\ UNCHANGED <<epoch, turns, marks, log, dirty, temp, count, wrote, cut>>
  BY DEF RetireFails, Fails, rest
<1>2. Removed(s)
  BY DEF RetireFails, Removed, Retirable, Readable
<1>3. failures' \in Nat
  BY <1>1 DEF IInv, VarsInv
<1>4. at' \in [Sessions -> Stages] /\ b' \in [Sessions -> Boundary] /\ Elsewhere(s) /\ Onward(s)
  BY <1>1, RetireThrowsGoes
<1> QED BY <1>1, <1>2, <1>3, <1>4, RemovalStep

-----------------------------------------------------------------------------
(* The death of the process, and the whole *)

LEMMA CrashStep ==
    ASSUME IInv, Crash
    PROVE  IInv'
<1>1. /\ epoch' = epoch + 1 /\ at' = [s \in Sessions |-> "closed"] /\ b' = [s \in Sessions |-> NoBoundary]
      /\ count' = [s \in Sessions |-> 0] /\ lease' = <<>> /\ temp' \subseteq {"left"}
      /\ cut' = cut \cup {TurnOf(s) : s \in {x \in Sessions : at[x] \notin {"closed", "refused", "idle"}}}
      /\ UNCHANGED <<turns, marks, log, dirty, ref, file, failures, wrote, lost>>
  BY DEF Crash, disk
<1>2. /\ NoBoundary \in Boundary /\ ~NoBoundary.pending /\ \A s \in Sessions : TurnOf(s) \in Turn
      /\ VarsInv /\ epoch \in Nat /\ MaxTurns \in Nat
  BY BoundaryType, CheckpointAssumption DEF NoBoundary, IInv, VarsInv
<1>3. VarsInv'
  <2>1. at' \in [Sessions -> Stages] /\ b' \in [Sessions -> Boundary] /\ count' \in [Sessions -> 0..MaxTurns]
    BY <1>1, <1>2
  <2>2. lease' \in Seq(Sessions) /\ temp' \subseteq Sessions \cup {"left"} /\ cut' \subseteq Turn /\ epoch' \in Nat \ {0}
    BY <1>1, <1>2, EmptySeq DEF VarsInv
  <2> QED BY <1>1, <1>2, <2>1, <2>2 DEF VarsInv
<1>4. LeaseInv'
  BY <1>1 DEF LeaseInv, Once, ToSet
<1>5. ASSUME NEW s \in Sessions PROVE Local(s)'
  <2>1. at'[s] = "closed" /\ ~b'[s].pending /\ count'[s] = 0 /\ turns[s] \in 0..MaxTurns
    BY <1>1, <1>2, Here
  <2>2. BoundaryOf(s)'
    BY <1>1, <2>1 DEF BoundaryOf, Clearing, Captured
  <2>3. PendingOf(s)'
    BY <2>1 DEF PendingOf
  <2>4. DeadOf(s)'
    BY <2>1 DEF DeadOf, Clearing
  <2>5. StatusOf(s)'
    <3>1. Turning(s) => TurnOf(s) \in cut'
      BY <1>1 DEF Turning
    <3>2. \A t : Finalized(s, t)' = Finalized(s, t)
      BY <1>1 DEF Finalized
    <3>3. StatusOf(s) /\ cut \subseteq cut'
      BY <1>1, Here
    <3>4. \A t \in 1..turns[s] : Finalized(s, t) \/ <<s, t>> \in lost \cup cut'
      BY <3>1, <3>3 DEF StatusOf, TurnOf
    <3> QED BY <1>1, <2>1, <3>2, <3>3, <3>4 DEF StatusOf, Turning, Captured
  <2>6. WriterOf(s)'
    BY <2>1 DEF WriterOf, Acquiring
  <2>7. MarkOf(s)'
    BY <1>1, <2>1, MarksStay DEF Captured
  <2>8. DirtyOf(s)'
    BY <2>1 DEF DirtyOf, Acquiring
  <2> QED BY <2>2, <2>3, <2>4, <2>5, <2>6, <2>7, <2>8 DEF Local
<1>6. RecordInv'
  <2>1. \A k \in Tokens : Readable(k)' = Readable(k)
    BY <1>1 DEF Readable
  <2>2. \A k \in Tokens : file[k] # None => file[k].epoch \in Nat
    BY <1>2, RecordType DEF VarsInv
  <2> QED BY <1>1, <1>2, <2>1, <2>2 DEF IInv, RecordInv
<1>7. WroteInv'
  <2>1. \A s \in Sessions : turns[s] \in Nat
    BY DEF IInv, VarsInv
  <2> QED BY <1>1, <2>1, WroteStays DEF Finalized
<1>8. DirtyInv'
  BY <1>1 DEF IInv, DirtyInv
<1> QED BY <1>3, <1>4, <1>5, <1>6, <1>7, <1>8 DEF IInv

LEMMA VarsInit == TCInit => VarsInv
<1> SUFFICES ASSUME TCInit PROVE VarsInv
  OBVIOUS
<1>1. NoMark \in Mark /\ NoBoundary \in Boundary
  BY CheckpointAssumption DEF NoMark, Mark, NoBoundary, Boundary
<1> QED BY <1>1, CheckpointAssumption, EmptySeq DEF TCInit, VarsInv, Stages

LEMMA InvInit == TCInit => IInv
<1> SUFFICES ASSUME TCInit PROVE IInv
  OBVIOUS
<1>1. VarsInv
  BY VarsInit
<1>2. LeaseInv
  BY DEF TCInit, LeaseInv, Once, ToSet
<1>3. RecordInv
  BY DEF TCInit, RecordInv
<1>4. WroteInv /\ DirtyInv
  BY DEF TCInit, WroteInv, DirtyInv
<1>5. ASSUME NEW s \in Sessions PROVE Local(s)
  <2>1. at[s] = "closed" /\ ~b[s].pending /\ count[s] = 0 /\ turns[s] = 0 /\ marks[s] = <<>> /\ \A k \in Tokens : file[k] = None
    BY <1>5 DEF TCInit, NoBoundary
  <2>2. BoundaryOf(s)
    BY <2>1 DEF BoundaryOf, Clearing, Captured
  <2>3. PendingOf(s)
    BY <2>1 DEF PendingOf
  <2>4. DeadOf(s)
    BY <2>1 DEF DeadOf, Clearing
  <2>5. StatusOf(s)
    BY <2>1 DEF StatusOf, Turning, Captured
  <2>6. WriterOf(s)
    BY <2>1 DEF WriterOf, Acquiring
  <2>7. MarkOf(s)
    BY <2>1 DEF MarkOf, Captured
  <2>8. DirtyOf(s)
    BY <2>1 DEF DirtyOf, Acquiring
  <2> QED BY <2>2, <2>3, <2>4, <2>5, <2>6, <2>7, <2>8 DEF Local
<1> QED BY <1>1, <1>2, <1>3, <1>4, <1>5 DEF IInv

LEMMA InvStep == IInv /\ [TCNext]_vars => IInv'
<1> SUFFICES ASSUME IInv, [TCNext]_vars PROVE IInv'
  OBVIOUS
<1>1. ASSUME NEW s \in Sessions,
             Open(s) \/ StartTurn(s) \/ ToolCall(s) \/ ToolWrite(s) \/ EndTurn(s) \/ Capture(s) \/ Close(s)
      PROVE  IInv'
  BY <1>1, OpenStep, StartTurnStep, ToolCallStep, ToolWriteStep, EndTurnStep, CaptureStep, CloseStep
<1>2. ASSUME NEW s \in Sessions, Step(s) PROVE IInv'
  BY <1>2, ReadRecordsStep, RecoverStep, SynchronizeStep, AnchorStep, WriteTemporaryStep, RenameStep,
     UnanchorStep, AppendMarkStep, UnrefStep, UnlinkStep DEF Step
<1>3. ASSUME NEW s \in Sessions, Throw(s) PROVE IInv'
  BY <1>3, RecoverFailsStep, SynchronizeFailsStep, PersistFailsStep, CaptureFailsStep, AppendFailsStep,
     RetireFailsStep DEF Throw
<1>4. CASE Crash
  BY <1>4, CrashStep
<1>5. CASE UNCHANGED vars
  <2>1. UNCHANGED <<epoch, turns, marks, log, dirty, ref, file, temp, at, b, count, lease, failures, wrote, lost, cut>>
    BY <1>5 DEF vars
  <2>2. VarsInv' /\ LeaseInv'
    BY <2>1 DEF IInv, VarsInv, LeaseInv, Clearing
  <2>3. CASE Sessions # {}
    <3>1. PICK s \in Sessions : TRUE
      BY <2>3
    <3>2. Elsewhere(s)
      BY <2>1 DEF Elsewhere
    <3>3. BoundaryOf(s)' /\ PendingOf(s)' /\ DeadOf(s)'
      BY <2>1, Here DEF BoundaryOf, PendingOf, DeadOf, Clearing, Captured, Wanted
    <3>4. StatusOf(s)'
      BY <2>1, Here, StatusStays DEF StatusOf, Captured, Turning
    <3>5. WriterOf(s)'
      <4>1. \A k : RecordedTurn(k)' = RecordedTurn(k)
        BY <2>1 DEF RecordedTurn
      <4>2. \A t : Settled(t)' = Settled(t)
        BY <2>1 DEF Settled, Finalized
      <4>3. WriterOf(s) /\ Acquiring(s)' = Acquiring(s) /\ TurnOf(s)' = TurnOf(s)
        BY <2>1, Here DEF Acquiring, TurnOf
      <4> QED BY <2>1, <4>1, <4>2, <4>3 DEF WriterOf
    <3>6. MarkOf(s)'
      BY <2>1, Here, MarksStay DEF MarkOf, Captured
    <3>7. DirtyOf(s)'
      BY <2>1, Here DEF DirtyOf, Acquiring, TurnOf
    <3>8. Local(s)'
      BY <3>3, <3>4, <3>5, <3>6, <3>7 DEF Local
    <3> QED BY <2>1, <2>2, <3>2, <3>8, QuietStep
  <2> QED BY <2>3, CheckpointAssumption
<1> QED BY <1>1, <1>2, <1>3, <1>4, <1>5 DEF TCNext

LEMMA Invariance == TCSpec => []IInv
BY InvInit, InvStep, PTL DEF TCSpec

-----------------------------------------------------------------------------
(* What follows *)

LEMMA TypeFollows == IInv => TCTypeOK
<1> SUFFICES ASSUME IInv PROVE TCTypeOK
  OBVIOUS
<1>1. ASSUME NEW s \in Sessions PROVE marks[s] \in Seq(Mark) /\ b[s].token \in 0..MaxTurns
  BY Here
<1>2. ASSUME NEW i \in DOMAIN lease PROVE at[lease[i]] \in (InTurn \ {"turn"}) \cup Removing
  <2>1. lease[i] \in Sessions /\ lease[i] \in ToSet(lease)
    BY <1>2, ElementOfSeq DEF IInv, VarsInv, ToSet
  <2> QED BY <2>1 DEF IInv, LeaseInv
<1>3. \A i \in DOMAIN lease :
        at[lease[i]] \in {"waiting", "anchor", "temp", "rename", "unanchor", "holding",
                          "append", "unref", "unlink"}
  BY <1>2 DEF InTurn, Holding, Persisting, Removing
<1> QED BY <1>1, <1>3 DEF IInv, VarsInv, TCTypeOK

\* Every variable keeps its type, and only a session that waits for the lease or writes under it
\* is in the queue of WorkspaceWriterLease.
THEOREM TypeCorrect == TCSpec => []TCTypeOK
BY Invariance, TypeFollows, PTL

LEMMA OwnFollows == IInv => OwnChangesOnly
<1> SUFFICES ASSUME IInv, NEW s \in Sessions, NEW i \in DOMAIN marks[s]
             PROVE  Own(s, marks[s][i])
  BY DEF OwnChangesOnly, Own
<1> QED BY Here DEF MarkOf, Owned

\* A checkpoint that onTerminal appends as available is about its own turn's writes alone: its
\* commit follows the base that was taken under the lease, and no other commit, nor the files
\* since, has a write of the turn; whatever throws and wherever the process dies.
THEOREM OnlyOwnChanges == TCSpec => []OwnChangesOnly
BY Invariance, OwnFollows, PTL

LEMMA StatusFollows == IInv => OneStatus
<1> SUFFICES ASSUME IInv, NEW s \in Sessions
             PROVE  /\ \A i, j \in DOMAIN marks[s] : marks[s][i].turn = marks[s][j].turn => i = j
                    /\ at[s] = "idle" =>
                        \A t \in 1..turns[s] : Finalized(s, t) \/ <<s, t>> \in lost \cup cut
  BY DEF OneStatus
<1>1. StatusOf(s)
  BY Here
<1>2. at[s] = "idle" => ~Turning(s)
  BY DEF Turning, InTurn, Holding, Persisting, Removing
<1> QED BY <1>1, <1>2 DEF StatusOf

\* Neither onTerminal nor the recovery of a dead process's boundary gives a turn a second status,
\* and a turn that ended has one unless the append itself threw or the process died in it.
THEOREM StatusIsOne == TCSpec => []OneStatus
BY Invariance, StatusFollows, PTL

LEMMA WritesFollow == IInv => WritesAccounted
<1> SUFFICES ASSUME IInv, NEW turn \in wrote, turn \notin lost, ~Finalized(turn[1], turn[2])
             PROVE  \E k \in Tokens : /\ Readable(k)
                                      /\ Resolved(k).session = turn[1] /\ Resolved(k).turn = turn[2]
                                      /\ Resolved(k).bound
  BY DEF WritesAccounted
<1>1. PICK k \in Tokens : file[k] # None /\ RecordedTurn(k) = turn /\ file[k].bound
  BY DEF IInv, WroteInv, Settled
<1>2. turn[1] = file[k].session /\ turn[2] = file[k].turn
  BY <1>1 DEF RecordedTurn
<1> QED BY <1>1, <1>2, ResolvedRecord

\* A turn whose tools wrote has a status or a bound record on disk from which recover will
\* append one, between any two steps and after every crash.
THEOREM NoWriteForgotten == TCSpec => []WritesAccounted
BY Invariance, WritesFollow, PTL

LEMMA RecordsFollow == IInv => RecordsReadable
BY DEF IInv, RecordInv, RecordsReadable

\* resolvePendingRefRecord never meets a ref and a file that contradict each other, although
\* begin, bind and recordAfter write the one and then the other and the process may die between.
THEOREM EveryRecordReadable == TCSpec => []RecordsReadable
BY Invariance, RecordsFollow, PTL

LEMMA DeadFollow == IInv => DeadRecordsRetired
<1> SUFFICES ASSUME IInv, NEW k \in Tokens, file[k] # None, file[k].epoch < epoch
             PROVE  \/ at[file[k].session] \in {"closed", "refused", "listed", "recover"}
                    \/ at[file[k].session] \in {"unref", "unlink"} /\ b[file[k].session].then = "recover"
  BY DEF DeadRecordsRetired
<1>1. file[k].session \in Sessions
  BY ResolvedRecord
<1>2. DeadOf(file[k].session)
  BY <1>1, Here
<1> QED BY <1>1, <1>2 DEF DeadOf, Clearing, Removing

\* A session that was opened has none of a dead process's boundaries left: recover has retired
\* every one it listed, or the session was refused.
THEOREM NothingDeadLeft == TCSpec => []DeadRecordsRetired
BY Invariance, DeadFollow, PTL

-----------------------------------------------------------------------------
(* The refinement of TurnLedger *)

\* Who writes holds the lease, so that it is one at most.
LEMMA WriterHolds ==
    ASSUME IInv, NEW s \in Sessions, Writing(s)
    PROVE  lease # <<>> /\ lease[1] = s /\ Writers = {TurnOf(s)}
<1>1. \A x \in Sessions : Writing(x) => lease # <<>> /\ lease[1] = x
  BY DEF Writing, IInv, LeaseInv
<1>2. {x \in Sessions : Writing(x)} = {s}
  BY <1>1
<1> QED BY <1>1, <1>2 DEF Writers

LEMMA NobodyWrites ==
    ASSUME \A s \in Sessions : ~Writing(s)
    PROVE  Writers = {}
BY DEF Writers

\* What a step of one session does to the turn that writes.
LEMMA WritersGo ==
    ASSUME IInv, IInv', NEW s \in Sessions, Elsewhere(s)
    PROVE  /\ ~Writing(s) /\ ~Writing(s)' => Writers' = Writers
           /\ Writing(s) /\ Writing(s)' /\ turns' = turns => Writers' = Writers
           /\ Writing(s) /\ ~Writing(s)' => Writers = {TurnOf(s)} /\ Writers' = {}
           /\ ~Writing(s) /\ Writing(s)' /\ turns' = turns => Writers = {} /\ Writers' = {TurnOf(s)}
<1>1. \A x \in Sessions \ {s} : Writing(x)' = Writing(x) /\ TurnOf(x)' = TurnOf(x)
  BY DEF Elsewhere, Writing, TurnOf
<1>2. CASE ~Writing(s) /\ ~Writing(s)'
  <2>1. {x \in Sessions : Writing(x)}' = {x \in Sessions : Writing(x)}
    BY <1>1, <1>2
  <2>2. \A x \in {y \in Sessions : Writing(y)} : TurnOf(x)' = TurnOf(x)
    BY <1>1, <1>2
  <2>3. Writers' = Writers
    BY <2>1, <2>2 DEF Writers
  <2> QED BY <1>2, <2>3
<1>3. CASE Writing(s)
  <2>1. Writers = {TurnOf(s)} /\ lease[1] = s
    BY <1>3, WriterHolds
  <2>2. \A x \in Sessions \ {s} : ~Writing(x)
    BY <1>3, <2>1, WriterHolds
  <2>3. {x \in Sessions : Writing(x)}' = IF Writing(s)' THEN {s} ELSE {}
    BY <1>1, <2>2
  <2>4. turns' = turns => TurnOf(s)' = TurnOf(s)
    BY DEF TurnOf
  <2>5. Writing(s)' /\ turns' = turns => Writers' = {TurnOf(s)}
    BY <2>3, <2>4 DEF Writers
  <2>6. ~Writing(s)' => Writers' = {}
    BY <2>3 DEF Writers
  <2> QED BY <1>3, <2>1, <2>5, <2>6
<1>4. CASE ~Writing(s) /\ Writing(s)'
  <2>1. \A x \in Sessions : Writing(x)' => lease'[1] = x
    BY DEF Writing, IInv, LeaseInv
  <2>2. {x \in Sessions : Writing(x)}' = {s}
    BY <1>4, <2>1
  <2>3. \A x \in Sessions : ~Writing(x)
    BY <1>1, <1>4, <2>2
  <2>4. turns' = turns => Writers' = {TurnOf(s)}
    BY <2>2 DEF Writers, TurnOf
  <2> QED BY <1>4, <2>3, <2>4, NobodyWrites
<1> QED BY <1>2, <1>3, <1>4

\* A step that writes, commits and reports nothing: at most a turn ends.
LEMMA MovesOn ==
    ASSUME IInv, IInv', NEW s \in Sessions, Elsewhere(s), UNCHANGED <<log, dirty, marks>>,
           ~Writing(s) => ~Writing(s)', Writing(s) => turns' = turns
    PROVE  [Ledger!Next]_(Ledger!vars)
<1>1. CASE Writing(s) /\ ~Writing(s)'
  <2>1. Writers # {} /\ Writers' = {}
    BY <1>1, WritersGo
  <2> QED BY <2>1 DEF Ledger!Next, Ledger!End
<1>2. CASE ~(Writing(s) /\ ~Writing(s)')
  <2>1. Writers' = Writers
    BY <1>2, WritersGo
  <2> QED BY <2>1 DEF Ledger!vars
<1> QED BY <1>1, <1>2

\* The steps of a session that only moves.
LEMMA QuietMoves ==
    ASSUME IInv, IInv', NEW s \in Sessions,
           \/ Open(s) \/ ReadRecords(s) \/ RecoverFails(s) \/ StartTurn(s) \/ ToolCall(s)
           \/ WriteTemporary(s) \/ Rename(s) \/ Unanchor(s) \/ EndTurn(s) \/ AppendFails(s) \/ Close(s)
    PROVE  [Ledger!Next]_(Ledger!vars)
<1>1. UNCHANGED <<log, dirty, marks>>
  BY DEF Open, ReadRecords, RecoverFails, StartTurn, ToolCall, WriteTemporary, Rename, Unanchor, EndTurn,
         AppendFails, Close, disk
<1>2. \E stage, r : /\ Go(s, stage, r)
                    /\ \/ stage \notin {"holding", "anchor", "temp", "rename"}
                       \/ Writing(s)
                       \/ stage = "rename" /\ r = b[s] /\ at[s] = "temp"
  <2>1. CASE Open(s) \/ ReadRecords(s) \/ RecoverFails(s) \/ StartTurn(s) \/ ToolCall(s) \/ Close(s)
    <3>1. CASE Open(s)
      BY <3>1 DEF Open
    <3>2. CASE ReadRecords(s)
      BY <3>2 DEF ReadRecords
    <3>3. CASE RecoverFails(s)
      BY <3>3 DEF RecoverFails
    <3>6. CASE StartTurn(s)
      <4>1. Go(s, "turn", [NoBoundary EXCEPT !.token = count[s] + 1])
        BY <3>6 DEF StartTurn
      <4> QED BY <4>1
    <3>4. CASE ToolCall(s)
      BY <3>4 DEF ToolCall
    <3>5. CASE Close(s)
      BY <3>5 DEF Close, Retire
    <3> QED BY <2>1, <3>1, <3>2, <3>3, <3>4, <3>5, <3>6
  <2>2. CASE WriteTemporary(s)
    BY <2>2 DEF WriteTemporary
  <2>3. CASE Rename(s)
    <3>1. b[s].op \in {"begin", "bind", "after"} /\ at[s] = "rename"
      BY <2>3, Here DEF Rename
    <3>2. b[s].op = "after" => Go(s, "append", b[s])
      BY <2>3 DEF Rename
    <3>3. b[s].op # "after" => Writing(s)
      BY <3>1 DEF Writing
    <3>4. b[s].op # "after" => \E stage, r : Go(s, stage, r)
      BY <2>3, <3>1 DEF Rename
    <3> QED BY <3>2, <3>3, <3>4
  <2>4. CASE Unanchor(s)
    BY <2>4 DEF Unanchor, AcquireRefused
  <2>5. CASE EndTurn(s)
    BY <2>5 DEF EndTurn
  <2>6. CASE AppendFails(s)
    BY <2>6 DEF AppendFails, Retire
  <2> QED BY <2>1, <2>2, <2>3, <2>4, <2>5, <2>6
<1>3. PICK stage, r : /\ Go(s, stage, r)
                      /\ \/ stage \notin {"holding", "anchor", "temp", "rename"}
                         \/ Writing(s)
                         \/ stage = "rename" /\ r = b[s] /\ at[s] = "temp"
  BY <1>2
<1>4. at'[s] = stage /\ b'[s] = r /\ \A x \in Sessions \ {s} : at'[x] = at[x] /\ b'[x] = b[x]
  BY <1>3 DEF Go, IInv, VarsInv
<1>5. Elsewhere(s)
  <2>1. \A x \in Sessions \ {s} : turns'[x] = turns[x] /\ count'[x] = count[x]
    <3>1. CASE StartTurn(s)
      <4>1. turns' = [turns EXCEPT ![s] = @ + 1] /\ count' = [count EXCEPT ![s] = @ + 1]
        BY <3>1 DEF StartTurn
      <4> QED BY <4>1 DEF IInv, VarsInv
    <3>2. CASE ~StartTurn(s)
      BY <3>2 DEF Open, ReadRecords, RecoverFails, ToolCall, WriteTemporary, Rename, Unanchor, EndTurn,
                  AppendFails, Close, disk, rest
    <3> QED BY <3>1, <3>2
  <2> QED BY <1>1, <1>4, <2>1 DEF Elsewhere
<1>6. ~Writing(s) => ~Writing(s)'
  BY <1>3, <1>4 DEF Writing
<1>7. Writing(s) => turns' = turns
  BY DEF Writing, Open, ReadRecords, RecoverFails, StartTurn, ToolCall, WriteTemporary, Rename, Unanchor,
         EndTurn, AppendFails, Close, disk
<1> QED BY <1>1, <1>5, <1>6, <1>7, MovesOn

\* Nor does what is written of a boundary or taken away of it, whether it throws or not.
LEMMA RecordMoves ==
    ASSUME IInv, IInv', NEW s \in Sessions,
           Anchor(s) \/ PersistFails(s) \/ Unref(s) \/ Unlink(s) \/ RetireFails(s)
    PROVE  [Ledger!Next]_(Ledger!vars)
<1>1. UNCHANGED <<log, dirty, marks, turns, count>>
  BY DEF Anchor, PersistFails, Unref, Unlink, RetireFails, rest
<1>2. CASE at[s] \in Persisting /\ PersistThrows(s)
  <2>1. /\ Elsewhere(s)
        /\ at'[s] \in {"turn", "unanchor", "unref"}
    BY <1>1, <1>2, PersistThrowsGoes
  <2> QED BY <1>1, <2>1, MovesOn DEF Writing
<1>3. CASE Go(s, "temp", b[s]) /\ at[s] = "anchor"
  <2>1. Elsewhere(s) /\ at'[s] = "temp" /\ b'[s] = b[s]
    BY <1>1, <1>3, Goes, Here
  <2> QED BY <1>1, <1>3, <2>1, MovesOn DEF Writing
<1>4. CASE Go(s, "unlink", b[s])
  <2>1. Elsewhere(s) /\ at'[s] = "unlink"
    BY <1>1, <1>4, Goes, Here
  <2> QED BY <1>1, <2>1, MovesOn DEF Writing
<1>5. CASE RetireThrows(s) \/ (Retired(s) /\ file'[b[s].token] = None)
  <2>1. Elsewhere(s) /\ Onward(s)
    BY <1>1, <1>5, RetireThrowsGoes, RetiredGoes
  <2>2. at'[s] \in {"refused", "recover", "turn", "stuck", "idle", "closed", "unref", "unlink"}
    BY <2>1 DEF Onward
  <2> QED BY <1>1, <2>1, <2>2, MovesOn DEF Writing
<1>6. CASE Anchor(s)
  BY <1>2, <1>3, <1>6 DEF Anchor
<1>7. CASE PersistFails(s)
  BY <1>2, <1>7 DEF PersistFails
<1>8. CASE Unref(s)
  BY <1>4, <1>5, <1>8 DEF Unref
<1>9. CASE Unlink(s)
  <2>1. file' = [file EXCEPT ![b[s].token] = None] /\ Retired(s) /\ at[s] = "unlink"
    BY <1>9 DEF Unlink
  <2>2. b[s].token \in Tokens
    BY <2>1, Here DEF BoundaryOf
  <2>3. file'[b[s].token] = None
    BY <2>1, <2>2 DEF IInv, VarsInv
  <2> QED BY <1>5, <2>1, <2>3
<1>10. CASE RetireFails(s)
  BY <1>5, <1>10 DEF RetireFails
<1> QED BY <1>6, <1>7, <1>8, <1>9, <1>10

\* The process dies, and whoever writes with it.
LEMMA CrashMoves ==
    ASSUME Crash
    PROVE  [Ledger!Next]_(Ledger!vars)
<1>1. UNCHANGED <<log, dirty, marks>> /\ \A s \in Sessions : at'[s] = "closed"
  BY DEF Crash, disk
<1>2. Writers' = {}
  BY <1>1 DEF Writers, Writing
<1>3. CASE Writers = {}
  BY <1>1, <1>2, <1>3 DEF Ledger!vars
<1>4. CASE Writers # {}
  BY <1>1, <1>2, <1>4 DEF Ledger!Next, Ledger!End
<1> QED BY <1>3, <1>4

\* The first in the queue of the lease commits what is left over, and begins or gives up.
LEMMA SynchronizeMoves ==
    ASSUME IInv, IInv', NEW s \in Sessions, Synchronize(s) \/ SynchronizeFails(s)
    PROVE  [Ledger!Next]_(Ledger!vars)
<1>1. /\ at[s] = "waiting" /\ lease # <<>> /\ lease[1] = s
      /\ Outside \/ UNCHANGED <<log, dirty>>
      /\ UNCHANGED <<turns, marks, count>>
  BY DEF Synchronize, SynchronizeFails, Holds
<1>2. Writers = {}
  <2>1. \A x \in Sessions : ~Writing(x)
    <3>1. ~Writing(s)
      BY <1>1 DEF Writing
    <3> QED BY <1>1, <3>1, WriterHolds
  <2> QED BY <2>1, NobodyWrites
<1>3. Outside => Ledger!Commit(Ledger!Nobody)
  BY DEF Outside, Publish, Ledger!Commit, Ledger!Nobody
<1>4. CASE Synchronize(s)
  <2>1. Outside /\ Go(s, "anchor", [b[s] EXCEPT !.base = Len(log'), !.op = "begin"])
    BY <1>4 DEF Synchronize
  <2>2. PICK r \in Boundary : r = [b[s] EXCEPT !.base = Len(log'), !.op = "begin"] /\ r.op = "begin"
    <3>1. Len(log') \in Nat
      BY LenProperties DEF IInv, VarsInv
    <3>2. /\ [b[s] EXCEPT !.base = Len(log'), !.op = "begin"] \in Boundary
          /\ [b[s] EXCEPT !.base = Len(log'), !.op = "begin"].op = "begin"
      BY <3>1, Here DEF Boundary
    <3> QED BY <3>2
  <2>3. Elsewhere(s) /\ at'[s] = "anchor" /\ b'[s] = r
    BY <1>1, <2>1, <2>2, Goes
  <2>4. Writers' = {TurnOf(s)}
    <3>1. ~Writing(s) /\ Writing(s)'
      BY <1>1, <2>2, <2>3 DEF Writing
    <3> QED BY <1>1, <2>3, <3>1, WritersGo
  <2>5. ~Ledger!Reported(TurnOf(s))
    <3>1. ~Finalized(s, turns[s])
      BY <1>1, Here DEF StatusOf, Turning
    <3> QED BY <3>1 DEF Finalized, Ledger!Reported, TurnOf
  <2>6. ~Ledger!HasWritten(TurnOf(s))
    <3>1. TurnOf(s) \notin wrote
      BY <1>1, Here DEF WriterOf
    <3> QED BY <3>1, NotCommitted DEF Ledger!HasWritten
  <2> QED BY <1>1, <1>2, <1>3, <2>1, <2>4, <2>5, <2>6 DEF Ledger!Next, Ledger!Begin
<1>5. CASE SynchronizeFails(s)
  <2>1. Elsewhere(s) /\ at'[s] = "turn"
    <3>1. PICK r \in Boundary : r = [b[s] EXCEPT !.failed = TRUE, !.then = "idle"]
      BY Here DEF Boundary
    <3>2. Go(s, "turn", r)
      BY <1>5, <3>1 DEF SynchronizeFails, AcquireRefused
    <3> QED BY <1>1, <3>2, Goes
  <2>2. Writers' = Writers
    <3>1. ~Writing(s) /\ ~Writing(s)'
      BY <1>1, <2>1 DEF Writing
    <3> QED BY <2>1, <3>1, WritersGo
  <2>3. CASE Outside
    BY <1>1, <1>2, <1>3, <2>2, <2>3 DEF Ledger!Next, Ledger!CleanUp
  <2>4. CASE UNCHANGED <<log, dirty>>
    BY <1>1, <2>2, <2>4 DEF Ledger!vars
  <2> QED BY <1>1, <2>3, <2>4
<1> QED BY <1>4, <1>5

LEMMA WriteMoves ==
    ASSUME IInv, NEW s \in Sessions, ToolWrite(s)
    PROVE  [Ledger!Next]_(Ledger!vars)
<1>1. /\ at[s] = "holding" /\ dirty' = dirty \cup {TurnOf(s)}
      /\ UNCHANGED <<log, marks, at, b, turns>>
  BY DEF ToolWrite
<1>2. TurnOf(s) \in Writers
  BY <1>1 DEF Writers, Writing
<1>3. Writers' = Writers
  BY <1>1 DEF Writers, Writing, TurnOf
<1> QED BY <1>1, <1>2, <1>3 DEF Ledger!Next, Ledger!Write

\* The turn that holds the lease commits what it wrote, and only that, or ends without.
LEMMA CaptureMoves ==
    ASSUME IInv, IInv', NEW s \in Sessions, Capture(s) \/ CaptureFails(s)
    PROVE  [Ledger!Next]_(Ledger!vars)
<1>1. /\ at[s] = "holding" /\ UNCHANGED <<marks, turns, count>>
      /\ Publish(TurnOf(s)) \/ UNCHANGED <<log, dirty>>
  BY DEF Capture, CaptureFails, rest
<1>2. Writing(s) /\ dirty \subseteq {TurnOf(s)}
  BY <1>1, Here DEF Writing, DirtyOf
<1>3. Elsewhere(s) /\ ~Writing(s)'
  <2>1. PICK stage \in {"append", "anchor"} : \E m :
            /\ Go(s, stage, IF stage = "append" THEN [b[s] EXCEPT !.mark = m]
                            ELSE [b[s] EXCEPT !.mark = m, !.op = "after"])
            /\ m \in Mark
    <3>1. Unavailable(s) \in Mark
      BY BoundaryType DEF IInv
    <3>2. Available(s, b[s].base, Len(log')) \in Mark
      <4>1. Len(log') \in Nat
        BY LenProperties DEF IInv, VarsInv
      <4> QED BY <4>1, BoundaryType, Here
    <3>3. \/ Go(s, "append", [b[s] EXCEPT !.mark = Unavailable(s)])
          \/ Go(s, "anchor", [b[s] EXCEPT !.mark = Available(s, b[s].base, Len(log')), !.op = "after"])
      BY DEF Capture, CaptureFails
    <3>4. CASE Go(s, "append", [b[s] EXCEPT !.mark = Unavailable(s)])
      BY <3>1, <3>4
    <3>5. CASE Go(s, "anchor", [b[s] EXCEPT !.mark = Available(s, b[s].base, Len(log')), !.op = "after"])
      BY <3>2, <3>5
    <3> QED BY <3>3, <3>4, <3>5
  <2>2. PICK m \in Mark : Go(s, stage, IF stage = "append" THEN [b[s] EXCEPT !.mark = m]
                                       ELSE [b[s] EXCEPT !.mark = m, !.op = "after"])
    BY <2>1
  <2>3. PICK r \in Boundary : Go(s, stage, r) /\ (stage = "append" \/ r.op = "after")
    <3>1. [b[s] EXCEPT !.mark = m] \in Boundary
      BY Here DEF Boundary
    <3>2. /\ [b[s] EXCEPT !.mark = m, !.op = "after"] \in Boundary
          /\ [b[s] EXCEPT !.mark = m, !.op = "after"].op = "after"
      BY Here DEF Boundary
    <3> QED BY <2>2, <3>1, <3>2
  <2>4. Elsewhere(s) /\ at'[s] = stage /\ b'[s] = r
    BY <1>1, <2>3, Goes
  <2> QED BY <2>3, <2>4 DEF Writing
<1>4. Writers = {TurnOf(s)} /\ Writers' = {}
  BY <1>2, <1>3, WritersGo
<1>5. CASE Publish(TurnOf(s))
  <2>1. Ledger!Commit(TurnOf(s))
    BY <1>5 DEF Publish, Ledger!Commit
  <2> QED BY <1>1, <1>2, <1>4, <2>1 DEF Ledger!Next, Ledger!Capture
<1>6. CASE UNCHANGED <<log, dirty>>
  BY <1>1, <1>4, <1>6 DEF Ledger!Next, Ledger!End
<1> QED BY <1>1, <1>5, <1>6

\* What OwnChangesOnly says of a status is that it is whole.
LEMMA OwnedIsWhole ==
    ASSUME IInv, NEW s \in Sessions, NEW m \in Mark, Owned(s, m), m.status = "available"
    PROVE  Ledger!Whole(<<s, m.turn>>, m.before, m.after)
<1> DEFINE turn == <<s, m.turn>>
<1>1. /\ m.before # m.after => m.after = m.before + 1 /\ log[m.after].by = turn
      /\ m.before # m.after => log[m.after].from \subseteq {turn}
      /\ turn \notin dirty /\ m.after <= Len(log)
      /\ \A c \in DOMAIN log : turn \in log[c].from => c = m.after /\ c # m.before
  BY DEF Owned, Own
<1>2. m.before \in Nat /\ m.after \in Nat
  BY DEF Mark
<1>3. DOMAIN log = 1..Len(log) /\ Len(log) \in Nat
  BY LenProperties DEF IInv, VarsInv
<1> HIDE DEF turn
<1>4. \A i \in DOMAIN log : turn \in log[i].from => m.before < i /\ i <= m.after
  BY <1>1, <1>2, <1>3
<1>5. ASSUME NEW i \in DOMAIN log, m.before < i, i <= m.after
      PROVE  log[i].by = turn /\ log[i].from \subseteq {turn}
  <2>1. m.before # m.after /\ i = m.after
    BY <1>1, <1>2, <1>3, <1>5
  <2> QED BY <1>1, <2>1
<1>6. Ledger!Whole(turn, m.before, m.after)
  BY <1>1, <1>4, <1>5 DEF Ledger!Whole
<1> QED BY <1>6 DEF turn

\* A status is appended of a turn that has none and is over, and tells the truth.
LEMMA AppendReports ==
    ASSUME IInv, NEW s \in Sessions, NEW m \in Mark, marks' = [marks EXCEPT ![s] = Append(@, m)],
           UNCHANGED <<log, dirty, turns>>, Writers' = Writers, ~Writing(s),
           Owned(s, m), ~Finalized(s, m.turn)
    PROVE  Ledger!Report
<1>1. marks \in [Sessions -> Seq(Mark)] /\ marks[s] \in Seq(Mark)
  BY DEF IInv, VarsInv
<1>2. marks'[s] = Append(marks[s], m)
  BY <1>1
<1>3. Len(marks'[s]) = Len(marks[s]) + 1 /\ marks'[s][Len(marks'[s])] = m
  BY <1>1, <1>2, AppendProperties
<1>4. <<s, m.turn>> \notin Writers
  BY DEF Writers, TurnOf
<1>5. ~Ledger!Reported(<<s, m.turn>>)
  BY DEF Ledger!Reported, Finalized
<1>6. m.status = "available" => Ledger!Whole(<<s, m.turn>>, m.before, m.after)
  BY OwnedIsWhole
<1> QED BY <1>3, <1>4, <1>5, <1>6 DEF Ledger!Report

\* A session that goes on without writing, before and after.
LEMMA SilentGo ==
    ASSUME IInv, IInv', NEW s \in Sessions, NEW stage, NEW r, Go(s, stage, r), at[s] \in {"append", "recover"},
           stage \in {"unref", "idle"}, turns' = turns,
           \A x \in Sessions \ {s} : marks'[x] = marks[x] /\ count'[x] = count[x]
    PROVE  Writers' = Writers /\ ~Writing(s)
<1>1. at'[s] = stage /\ \A x \in Sessions \ {s} : at'[x] = at[x] /\ b'[x] = b[x]
  BY DEF Go, IInv, VarsInv
<1>2. Elsewhere(s) /\ ~Writing(s) /\ ~Writing(s)'
  BY <1>1 DEF Elsewhere, Writing
<1> QED BY <1>2, WritersGo

\* At the end of a turn.
LEMMA AppendMoves ==
    ASSUME IInv, IInv', NEW s \in Sessions, AppendMark(s)
    PROVE  [Ledger!Next]_(Ledger!vars)
<1>1. /\ at[s] = "append" /\ marks' = [marks EXCEPT ![s] = Append(@, b[s].mark)]
      /\ UNCHANGED <<log, dirty, turns, count>>
  BY DEF AppendMark, rest
<1>2. Writers' = Writers /\ ~Writing(s)
  <2>1. \A x \in Sessions \ {s} : marks'[x] = marks[x] /\ count'[x] = count[x]
    BY <1>1 DEF IInv, VarsInv
  <2>2. \/ Go(s, "unref", [b[s] EXCEPT !.then = "idle"])
        \/ Go(s, "idle", NoBoundary)
    BY DEF AppendMark, Retire
  <2>3. CASE Go(s, "unref", [b[s] EXCEPT !.then = "idle"])
    BY <1>1, <2>1, <2>3, SilentGo
  <2>4. CASE Go(s, "idle", NoBoundary)
    BY <1>1, <2>1, <2>4, SilentGo
  <2> QED BY <2>2, <2>3, <2>4
<1>3. b[s].mark \in Mark /\ Owned(s, b[s].mark) /\ b[s].mark.turn = turns[s] /\ ~Finalized(s, turns[s])
  BY <1>1, Here DEF MarkOf, StatusOf, Turning
<1> QED BY <1>1, <1>2, <1>3, AppendReports DEF Ledger!Next

\* When a session is opened after a death of the process.
LEMMA RecoverMoves ==
    ASSUME IInv, IInv', NEW s \in Sessions, Recover(s)
    PROVE  [Ledger!Next]_(Ledger!vars)
<1>1. at[s] = "recover" /\ UNCHANGED <<turns, log, dirty>>
  BY DEF Recover
<1>2. CASE b[s].names = {}
  <2>1. Go(s, "idle", NoBoundary) /\ count' = [count EXCEPT ![s] = 0] /\ marks' = marks
    BY <1>2 DEF Recover
  <2>2. \A x \in Sessions \ {s} : marks'[x] = marks[x] /\ count'[x] = count[x]
    BY <2>1 DEF IInv, VarsInv
  <2>3. Writers' = Writers
    BY <1>1, <2>1, <2>2, SilentGo
  <2> QED BY <1>1, <2>1, <2>3 DEF Ledger!vars
<1>3. CASE b[s].names # {}
  <2>1. PICK k \in b[s].names : k = CHOOSE i \in b[s].names : \A j \in b[s].names : i <= j
    <3>1. b[s].names \subseteq Nat
      BY Here DEF Tokens
    <3>2. \E j \in b[s].names : \A i \in b[s].names : j <= i
      BY <1>3, <3>1, LeastElement
    <3> QED BY <3>2
  <2>2. k \in Tokens /\ file[k] # None
    BY <1>1, <2>1, Here DEF DeadOf, Clearing
  <2>3. PICK record \in Record : record = Resolved(k)
    BY <2>2, ResolvedRecord
  <2>10. /\ [NoMark EXCEPT !.turn = record.turn] \in Mark
         /\ [NoMark EXCEPT !.turn = record.turn].turn = record.turn
         /\ [NoMark EXCEPT !.turn = record.turn].status = "unavailable"
    BY <2>3 DEF Record, NoMark, Mark
  <2>4. PICK m \in Mark : m = [NoMark EXCEPT !.turn = record.turn] /\ m.turn = record.turn /\ m.status = "unavailable"
    BY <2>10
  <2>5. PICK r : Go(s, "unref", r) /\ count' = count
                 /\ marks' = [marks EXCEPT ![s] = IF Unfinished(s, record) THEN Append(@, m) ELSE @]
    BY <1>3, <2>1, <2>3, <2>4 DEF Recover, Retire
  <2>6. \A x \in Sessions \ {s} : marks'[x] = marks[x] /\ count'[x] = count[x]
    BY <2>5 DEF IInv, VarsInv
  <2>7. Writers' = Writers /\ ~Writing(s)
    BY <1>1, <2>5, <2>6, SilentGo
  <2>8. CASE Unfinished(s, record)
    <3>1. Owned(s, m) /\ ~Finalized(s, m.turn)
      BY <2>4, <2>8 DEF Owned, Own, Unfinished
    <3>2. marks' = [marks EXCEPT ![s] = Append(@, m)]
      BY <2>5, <2>8
    <3> QED BY <1>1, <2>7, <3>1, <3>2, AppendReports DEF Ledger!Next
  <2>9. CASE ~Unfinished(s, record)
    <3>1. marks' = marks
      BY <2>5, <2>9 DEF IInv, VarsInv
    <3> QED BY <1>1, <2>7, <3>1 DEF Ledger!vars
  <2> QED BY <2>8, <2>9
<1> QED BY <1>2, <1>3

\* ImplementsTurnLedger: a turn's lease, from Synchronize to captureOwnedTurn, is TurnLedger's time of
\* a writer; every commit, whether of a turn, of what was left over, or made by a call that threw after
\* it, is one of its commits; and a status, appended by onTerminal or by recover, is one of its reports.
THEOREM TurnsKeepALedger == TCSpec => ImplementsTurnLedger
<1>1. TCInit => Ledger!Init
  <2> SUFFICES ASSUME TCInit PROVE Ledger!Init
    OBVIOUS
  <2>1. \A s \in Sessions : ~Writing(s)
    BY DEF TCInit, Writing
  <2>2. Writers = {}
    BY <2>1, NobodyWrites
  <2> QED BY <2>2 DEF TCInit, Ledger!Init
<1>2. IInv /\ IInv' /\ [TCNext]_vars => [Ledger!Next]_(Ledger!vars)
  <2> SUFFICES ASSUME IInv, IInv', [TCNext]_vars PROVE [Ledger!Next]_(Ledger!vars)
    OBVIOUS
  <2>1. ASSUME NEW s \in Sessions,
               Open(s) \/ StartTurn(s) \/ ToolCall(s) \/ ToolWrite(s) \/ EndTurn(s) \/ Capture(s) \/ Close(s)
        PROVE  [Ledger!Next]_(Ledger!vars)
    BY <2>1, QuietMoves, WriteMoves, CaptureMoves
  <2>2. ASSUME NEW s \in Sessions, Step(s) PROVE [Ledger!Next]_(Ledger!vars)
    BY <2>2, QuietMoves, RecoverMoves, SynchronizeMoves, RecordMoves, AppendMoves DEF Step
  <2>3. ASSUME NEW s \in Sessions, Throw(s) PROVE [Ledger!Next]_(Ledger!vars)
    BY <2>3, QuietMoves, SynchronizeMoves, RecordMoves, CaptureMoves DEF Throw
  <2>4. CASE Crash
    BY <2>4, CrashMoves
  <2>5. CASE UNCHANGED vars
    BY <2>5 DEF vars, Ledger!vars, Writers, Writing, TurnOf
  <2> QED BY <2>1, <2>2, <2>3, <2>4, <2>5 DEF TCNext
<1> QED BY <1>1, <1>2, Invariance, PTL DEF TCSpec, ImplementsTurnLedger

=============================================================================
