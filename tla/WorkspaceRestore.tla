-------------------------- MODULE WorkspaceRestore --------------------------
(***************************************************************************)
(* The restore transaction of packages/coding-agent/workspace-rewind: a    *)
(* rewind (or redo) replaces several files, advances the workspace's       *)
(* private commit chain and moves the conversation of one session, three   *)
(* stores that have no transaction in common.  What ties them together is  *)
(* one durable record, pending.json, and the recovery that reads it back.  *)
(*                                                                         *)
(* Actors and what may interleave:                                         *)
(*   - the restore executor of the owning session (holds the session's     *)
(*     mutation lease and the workspace writer lease);                     *)
(*   - recovery, run by the executor's catch block, or by a write gate,    *)
(*     start-up or the user's retry (takes the writer lease itself);       *)
(*   - a turn of another session, which passes the write gate first and    *)
(*     takes the writer lease afterwards;                                  *)
(*   - the user's editor, which takes nothing and writes at any moment;    *)
(*   - crashes of the main process, and calls that throw, before or after  *)
(*     their effect became durable.                                        *)
(*                                                                         *)
(* Abstractions: a file's state (absent, bytes and mode, link) is a value  *)
(* of Bytes; the paths are numbered in the byte order the code sorts them  *)
(* by; a commit is identified by its place in the linear chain; replacing  *)
(* one file is one step, and so is what it leaves when it fails or dies    *)
(* (module PathApply opens both up); somebody else's write replaces the    *)
(* file by name; a crash and the next start are one step, since a dead     *)
(* process takes no step.                                                  *)
(***************************************************************************)
EXTENDS Naturals, FiniteSets

CONSTANTS
    NumPaths,     \* the workspace has paths 1 .. NumPaths, in byte order
    Bytes,        \* the states a file can be in
    Absent,       \* the one of a file that is not there
    MaxOps,       \* bound: restore operations started
    MaxEdits,     \* bound: writes by the user's editor
    MaxWrites,    \* bound: writes by the other session's tools
    MaxTurns,     \* bound: turns of the other session that take the lease
    MaxAppends,   \* bound: entries the owning session appends by itself
    MaxFaults,    \* bound: calls of the executor or of recovery that throw
    MaxCrashes    \* bound: crashes of the main process

ASSUME PathsAssumption == NumPaths \in Nat \ {0}
ASSUME BytesAssumption == Absent \in Bytes
ASSUME BoundsAssumption ==
    /\ MaxOps \in Nat /\ MaxEdits \in Nat /\ MaxWrites \in Nat /\ MaxTurns \in Nat
    /\ MaxAppends \in Nat /\ MaxFaults \in Nat /\ MaxCrashes \in Nat

Paths == 1 .. NumPaths
Tree == [Paths -> Bytes]
Partial == UNION {[S -> Bytes] : S \in SUBSET Paths}

None == [op |-> 0]          \* no record, no confirmation: operation ids start at 1
Foreign == [foreign |-> TRUE]   \* last committed by another session
Odd == [odd |-> TRUE]       \* a half-written file, an empty quarantine: nothing recovery can use

VARIABLES
    live,      \* the files on disk
    beside,    \* per path: what this operation's replacements left beside the file
    head,      \* refs/crest/workspace-head: [ver, tree, op], op = 0 unless a restore's result
    restores,  \* the restore operations whose commit is on the chain
    own,       \* per path: the bytes the owning session's history last left, or Foreign
    leaf,      \* the session's leaf: [n, mark, redo]; mark = 0 unless a restore's marker
    markers,   \* the restore operations whose marker is in the session
    pending,   \* pending.json: None or a PendingRecord
    confirmed, \* the plan behind the one outstanding confirmation token, or None
    lease,     \* who holds the workspace writer lease
    pc,        \* the executor's control state
    txn,       \* the executor's locals: [op, plan, src, srcTree, todo], or None
    rec,       \* recovery's control state and locals: [pc, holds, todo, view]
    gate,      \* the other session's tool call: "closed", or "passed" the write gate
    reply,     \* what the last finished operation told its caller: [op, result]
    edited,    \* paths written by somebody else since the record was published
    count      \* how much of each bound is used

vars == <<live, beside, head, restores, own, leaf, markers, pending, confirmed, lease, pc, txn,
          rec, gate, reply, edited, count>>

-----------------------------------------------------------------------------
(* Data *)

NoStates == [p \in {} |-> 0]

\* A confirmed plan: what the user saw on each path and what is to be put there.
Plan == {plan \in [kind : {"rewind", "redo"}, mode : {"normal", "force"},
                   paths : SUBSET Paths, seen : Partial, target : Partial, leaf : Nat,
                   overlap : SUBSET Paths] :
            plan.seen \in [plan.paths -> Bytes] /\ plan.target \in [plan.paths -> Bytes]}

PendingRecord == [op : Nat \ {0}, kind : {"rewind", "redo"}, leaf : Nat, src : Nat,
                  srcTree : Tree, planned : Tree, paths : SUBSET Paths]

Transaction == {t \in [op : Nat \ {0}, plan : Plan, src : Nat, srcTree : Tree,
                       todo : SUBSET Paths] : t.todo \subseteq t.plan.paths}

Changed(t, u) == {p \in Paths : t[p] # u[p]}

\* Mutant: the index is not loaded with the source tree first.
PlannedTree_TargetsOnly(plan, srcTree) == plan.target

\* The result commit is the source commit's tree with the targets put in.
PlannedTree(plan, srcTree) ==
    [p \in Paths |-> IF p \in plan.paths THEN plan.target[p] ELSE srcTree[p]]

\* The quarantined file, the prepared one, and whether the file has one of them as a second link.
Beside == [entry : Bytes \cup {Odd}, prepared : Bytes, linked : BOOLEAN]
Nothing == [entry |-> Absent, prepared |-> Absent, linked |-> FALSE]

MakePending(t) ==
    [op |-> t.op, kind |-> t.plan.kind, leaf |-> t.plan.leaf, src |-> t.src,
     srcTree |-> t.srcTree, planned |-> PlannedTree(t.plan, t.srcTree), paths |-> t.plan.paths]

\* The session entry of a restore: a rewind's also carries the states to redo to.
Marker(op, kind, leafNo, states) ==
    [n |-> leafNo + 1, mark |-> op, redo |-> IF kind = "rewind" THEN states ELSE NoStates]

Restrict(t, S) == [p \in S |-> t[p]]

\* The marker recovery derives from the two commits the record names.
DerivedMarker(r) == Marker(r.op, r.kind, r.leaf, Restrict(r.srcTree, r.paths))

\* Mutant: any later head passes for the source.
HeadIsSource_OrLater(r) == head.ver >= r.src

\* Mutant: the files alone decide that the restore went through.
HeadIsPlanned_AnyHead(r) == head.ver >= r.src

HeadIsSource(r) == head.ver = r.src
HeadIsPlanned(r) == head.ver = r.src + 1 /\ head.op = r.op

\* The record is only usable when the two commits differ on exactly its paths.
CommitFactsValid(r) == Changed(r.srcTree, r.planned) = r.paths

\* Mutant: source and planned state handed over in the wrong order.
Classify_Swapped(r, p) ==
    IF beside[p].linked THEN "unknown"
    ELSE IF live[p] = r.planned[p] THEN "before"
    ELSE IF live[p] = r.srcTree[p] THEN "target" ELSE "unknown"

\* A file with a second link is never looked at more closely.
Classify(r, p) ==
    IF beside[p].linked THEN "unknown"
    ELSE IF live[p] = r.srcTree[p] THEN "before"
    ELSE IF live[p] = r.planned[p] THEN "target" ELSE "unknown"

AllAre(r, class) == \A p \in r.paths : Classify(r, p) = class

\* Mutant: a rollback that only looks.
ToUndo_Nothing(r) == {}

ToUndo(r) == {p \in r.paths : Classify(r, p) = "target"}

\* Mutant: a leaf that is still the expected one is taken for the marker.
MarkerIsExact_OrExpected(r) == leaf = DerivedMarker(r) \/ leaf.n = r.leaf

MarkerIsExact(r) == leaf = DerivedMarker(r)

Idle == [pc |-> "idle", holds |-> "nothing", todo |-> {}, view |-> Absent]

First(S) == {p \in S : \A q \in S : p <= q}
Last(S) == {p \in S : \A q \in S : q <= p}

\* The owning session's mutation lease is held by its executor, or by a recovery
\* that may have to append the marker.
SessionHeld == pc # "idle" \/ rec.holds = "session"

Budgets == {"ops", "edits", "writes", "turns", "appends", "faults", "crashes"}

Use(bound, limit) == count[bound] < limit /\ count' = [count EXCEPT ![bound] = @ + 1]

StoreVars == <<live, beside, head, restores, own, leaf, markers, pending>>

Init ==
    /\ live \in Tree
    /\ beside = [p \in Paths |-> Nothing]
    /\ head = [ver |-> 0, tree |-> live, op |-> 0]
    /\ restores = {}
    /\ own = live
    /\ leaf = [n |-> 0, mark |-> 0, redo |-> NoStates]
    /\ markers = {}
    /\ pending = None
    /\ confirmed = None
    /\ lease = "free"
    /\ pc = "idle"
    /\ txn = None
    /\ rec = Idle
    /\ gate = "closed"
    /\ reply = [op |-> 0, result |-> "none"]
    /\ edited = {}
    /\ count = [b \in Budgets |-> 0]

-----------------------------------------------------------------------------
(* The rest of the world *)

\* The user's editor, or any process outside Crest, writes a file.
ExternalEdit(p, b) ==
    /\ live[p] # b
    /\ Use("edits", MaxEdits)
    /\ live' = [live EXCEPT ![p] = b]
    /\ beside' = [beside EXCEPT ![p].linked = FALSE]
    /\ edited' = edited \cup {p}
    /\ UNCHANGED <<head, restores, own, leaf, markers, pending, confirmed, lease, pc, txn,
                   rec, gate, reply>>

\* The owning session's conversation grows.  Its send path refuses while a record is
\* pending and while a restore or a recovery holds the session.
SessionAppend ==
    /\ pending = None
    /\ ~SessionHeld
    /\ Use("appends", MaxAppends)
    /\ leaf' = [n |-> leaf.n + 1, mark |-> 0, redo |-> NoStates]
    /\ UNCHANGED <<live, beside, head, restores, own, markers, pending, confirmed, lease, pc, txn,
                   rec, gate, reply, edited>>

\* The commit chain gains a commit; an outstanding plan notes the paths it changes.
Commit(tree, op) ==
    /\ head' = [ver |-> head.ver + 1, tree |-> tree, op |-> op]
    /\ confirmed' = IF confirmed = None THEN None
                    ELSE [confirmed EXCEPT !.overlap = @ \cup Changed(head.tree, tree)]

\* synchronizeExternal: what is on disk and not in the head becomes an external commit.
SynchronizeExternal ==
    IF live = head.tree THEN UNCHANGED <<head, confirmed>> ELSE Commit(live, 0)

\* The other session calls a tool that may write: the hook asks the write gate ...
ToolGate ==
    /\ gate = "closed"
    /\ pending = None
    /\ gate' = "passed"
    /\ UNCHANGED <<live, beside, head, restores, own, leaf, markers, pending, confirmed, lease, pc,
                   txn, rec, reply, edited, count>>

\* ... and then, not in the same step, waits for the writer lease, unless its turn has
\* it already.  acquireBoundary does not look at pending.json.
TurnAcquire ==
    /\ gate = "passed"
    /\ lease = "free"
    /\ Use("turns", MaxTurns)
    /\ lease' = "turn"
    /\ SynchronizeExternal
    /\ UNCHANGED <<live, beside, restores, own, leaf, markers, pending, pc, txn, rec, gate, reply,
                   edited>>

ToolRun(p, b) ==
    /\ gate = "passed"
    /\ lease = "turn"
    /\ live[p] # b
    /\ Use("writes", MaxWrites)
    /\ gate' = "closed"
    /\ live' = [live EXCEPT ![p] = b]
    /\ beside' = [beside EXCEPT ![p].linked = FALSE]
    /\ edited' = edited \cup {p}
    /\ UNCHANGED <<head, restores, own, leaf, markers, pending, confirmed, lease, pc, txn,
                   rec, reply>>

\* The turn is over: captureOwnedTurn commits its net change and the lease is released.
TurnEnd ==
    /\ lease = "turn"
    /\ lease' = "free"
    /\ gate' = "closed"
    /\ IF live = head.tree
       THEN UNCHANGED <<head, confirmed, own>>
       ELSE /\ Commit(live, 0)
            /\ own' = [p \in Paths |-> IF live[p] # head.tree[p] THEN Foreign ELSE own[p]]
    /\ UNCHANGED <<live, beside, restores, leaf, markers, pending, pc, txn, rec, reply, edited,
                   count>>

-----------------------------------------------------------------------------
(* Preview: a plan is computed, frozen and bound to a one-time token. *)

Issue(kind, mode, S, target) ==
    confirmed' = [kind |-> kind, mode |-> mode, paths |-> S, seen |-> Restrict(live, S),
                  target |-> target, leaf |-> leaf.n, overlap |-> {}]

\* No drift: every path still holds what the session's own history left there.
\* A redo is blocked by any later commit on its paths, a rewind by Crest commits only.
PreviewNormal(kind, S, target) ==
    /\ ~SessionHeld
    /\ \A p \in S : live[p] = own[p] /\ target[p] # own[p]
    /\ kind = "redo" => leaf.mark # 0 /\ \A p \in S : head.tree[p] = own[p]
    /\ Issue(kind, "normal", S, target)
    /\ UNCHANGED <<live, beside, head, restores, own, leaf, markers, pending, lease, pc, txn, rec,
                   gate, reply, edited, count>>

\* Some path drifted: under the writer lease the drift is committed first, and the plan
\* is bound to the head that contains it.
PreviewForce(S, target) ==
    /\ ~SessionHeld
    /\ lease = "free"
    /\ pending = None
    /\ \A p \in S : own[p] # Foreign /\ target[p] \notin {own[p], live[p]}
    /\ \E p \in S : live[p] # own[p]
    /\ head' = IF live = head.tree THEN head
               ELSE [ver |-> head.ver + 1, tree |-> live, op |-> 0]
    /\ Issue("rewind", "force", S, target)
    /\ UNCHANGED <<live, beside, restores, own, leaf, markers, pending, lease, pc, txn, rec, gate,
                   reply, edited, count>>

-----------------------------------------------------------------------------
(* A replacement that is cut short *)

Left(file, entry, prepared, linked) ==
    [file |-> file,
     beside |-> [entry |-> entry, prepared |-> prepared, linked |-> linked]]

\* What a replacement can leave when it fails or its worker dies: the file it found, perhaps
\* with something prepared; that file moved aside, or linked back from there; the target,
\* perhaps with the old file still aside.  What it found may be newer than its last look.
LeftByReplacing(p, from, to) ==
    LET found == live[p]
        early == {Left(found, Absent, q, FALSE) : q \in {Absent, to}}
                 \cup {Left(found, Odd, Absent, FALSE)}
        moved == {Left(Absent, found, q, FALSE) : q \in {Absent, to}}
                 \cup {Left(found, found, q, TRUE) : q \in {Absent, to}}
        late == {Left(to, from, to, to # Absent)}
                \cup {Left(to, e, Absent, FALSE) : e \in IF from = Absent THEN {Absent}
                                                       ELSE {Absent, Odd, from}}
    IN IF beside[p] # Nothing THEN {[file |-> found, beside |-> beside[p]]}
       ELSE early \cup (IF Absent \in {from, found} THEN {} ELSE moved)
                  \cup (IF found # from THEN {} ELSE late)

\* The head decides what recovery puts in place.
Desired(p) == IF HeadIsSource(pending) THEN pending.srcTree[p] ELSE pending.planned[p]
Alternate(p) == IF HeadIsSource(pending) THEN pending.planned[p] ELSE pending.srcTree[p]

\* Recovery's worker can tell from the file and what is beside it how far a replacement came.
Explained(p, file) ==
    LET entry == beside[p].entry
        prepared == beside[p].prepared IN
    /\ {entry, prepared} \subseteq {Absent, Desired(p), Alternate(p)}
    /\ entry = Absent => prepared = Absent \/ file \in {Desired(p), Alternate(p)}
    /\ entry # Absent /\ entry = Desired(p) => file # entry /\ file \in {Absent, Alternate(p)}
    /\ entry # Absent /\ entry = Alternate(p) =>
           file = Desired(p) \/ (file = Absent /\ prepared = Desired(p))

\* It has to put the desired file back: from the quarantine, by a rename, once what it saw
\* there is unlinked; or from the prepared file, by a link, which needs the name free.
PutsBack(p) == beside[p].entry # Absent /\ rec.view # Desired(p)
CanPutBack(p) ==
    IF beside[p].entry = Desired(p) THEN rec.view = Absent \/ live[p] # Absent
                                    ELSE live[p] = Absent

\* What the reconciliation of a path can leave when it is cut short itself.
LeftByMending(p) ==
    LET entry == beside[p].entry
        prepared == beside[p].prepared
        file == IF PutsBack(p) THEN Desired(p) ELSE live[p]
        linking == PutsBack(p) /\ entry # Desired(p)
        early == IF linking THEN {Left(file, entry, file, TRUE), Left(file, entry, Absent, FALSE)}
                 ELSE IF PutsBack(p) /\ rec.view # Absent
                 THEN {Left(Absent, entry, prepared, FALSE)} ELSE {}
        late == {Left(file, Absent, q, FALSE) : q \in IF linking THEN {Absent}
                                                     ELSE {Absent, prepared}}
                \cup (IF entry = Absent THEN {} ELSE {Left(file, Odd, Absent, FALSE)})
    IN {[file |-> live[p], beside |-> beside[p]]}
       \cup (IF Explained(p, rec.view) /\ (PutsBack(p) => CanPutBack(p)) THEN early \cup late
                                                                         ELSE {})

Becomes(p, left) ==
    /\ live' = [live EXCEPT ![p] = left.file]
    /\ beside' = [beside EXCEPT ![p] = left.beside]

\* Whatever is being done to a file stops where it is.
Stop ==
    IF pc = "apply" /\ txn.todo # {}
    THEN \E p \in First(txn.todo) :
            \E left \in LeftByReplacing(p, txn.plan.seen[p], txn.plan.target[p]) : Becomes(p, left)
    ELSE IF rec.pc = "undo" /\ rec.todo # {}
    THEN \E p \in Last(rec.todo) :
            \E left \in LeftByReplacing(p, pending.planned[p], pending.srcTree[p]) :
                Becomes(p, left)
    ELSE IF rec.pc = "mend"
    THEN \E p \in First(rec.todo) : \E left \in LeftByMending(p) : Becomes(p, left)
    ELSE UNCHANGED <<live, beside>>

\* The main process dies, its worker with it, and is started again: leases, confirmations and
\* locals go.
Crash ==
    /\ lease # "free" \/ confirmed # None \/ gate = "passed" \/ rec # Idle
    /\ Use("crashes", MaxCrashes)
    /\ Stop
    /\ confirmed' = None
    /\ lease' = "free"
    /\ pc' = "idle"
    /\ txn' = None
    /\ rec' = Idle
    /\ gate' = "closed"
    /\ UNCHANGED <<head, restores, own, leaf, markers, pending, reply, edited>>

-----------------------------------------------------------------------------
(* The executor *)

Answer(result) == reply' = [op |-> txn.op, result |-> result]

\* A call throws.  Where it throws after its effect is durable, the caller cannot tell.
Throws == Use("faults", MaxFaults)

\* Nothing durable was written: the error goes to the caller.
Abandon ==
    /\ pc' = "idle" /\ txn' = None /\ lease' = "free"
    /\ Answer("failed")

\* The token is taken, the lease acquired, the plan checked against what happened since
\* the preview: commits that touch its paths, or a moved session leaf, make it stale.
BeginRestore ==
    LET plan == confirmed
        drift == IF plan.mode = "force" THEN Changed(head.tree, live) ELSE {}
        source == IF drift = {} THEN head
                  ELSE [ver |-> head.ver + 1, tree |-> live, op |-> 0]
        fresh == (plan.overlap \cup drift) \cap plan.paths = {} /\ leaf.n = plan.leaf
    IN /\ confirmed # None
       /\ ~SessionHeld
       /\ lease = "free"
       /\ pending = None
       /\ confirmed' = None
       /\ head' = source
       /\ IF fresh
          THEN /\ Use("ops", MaxOps)
               /\ lease' = "restore"
               /\ pc' = "verify"
               /\ txn' = [op |-> count["ops"] + 1, plan |-> plan, src |-> source.ver,
                          srcTree |-> source.tree, todo |-> plan.paths]
          ELSE UNCHANGED <<lease, pc, txn, count>>
       /\ UNCHANGED <<live, beside, restores, own, leaf, markers, pending, rec, gate, reply,
                      edited>>

SourceUnchanged ==
    /\ head.ver = txn.src
    /\ \A p \in txn.plan.paths :
           /\ live[p] = txn.plan.seen[p]
           /\ txn.plan.mode = "force" => txn.srcTree[p] = txn.plan.seen[p]

\* verifySourceStates: the files are still what the user confirmed.
VerifySource ==
    /\ pc = "verify"
    /\ \/ SourceUnchanged /\ pc' = "publish" /\ UNCHANGED <<txn, lease, reply, count>>
       \/ ~SourceUnchanged /\ Abandon /\ UNCHANGED count
       \/ Throws /\ Abandon
    /\ UNCHANGED <<StoreVars, confirmed, rec, gate, edited>>

\* The publication threw after the record was there, and the catch block reads it again:
\* it finds its own record, or the reading throws as well (the same outage, counted once) and
\* the error goes to the caller with the record in place.
PublicationUncertain ==
    /\ Throws
    /\ \/ pc' = "catch" /\ UNCHANGED <<txn, lease, reply>>
       \/ Abandon

\* pending.json becomes durable before the first file is touched.  The names beside a file
\* carry the operation's id: nothing there is this operation's yet.
PublishPending ==
    /\ pc = "publish"
    /\ \/ /\ pending = None
          /\ pending' = MakePending(txn)
          /\ beside' = [p \in Paths |-> Nothing]
          /\ edited' = {}
          /\ \/ pc' = "apply" /\ UNCHANGED <<txn, lease, reply, count>>
             \/ PublicationUncertain
       \/ pending # None /\ Abandon /\ UNCHANGED <<pending, beside, edited, count>>
       \/ Throws /\ Abandon /\ UNCHANGED <<pending, beside, edited>>
    /\ UNCHANGED <<live, head, restores, own, leaf, markers, confirmed, rec, gate>>

\* Mutant: the replacement does not compare what it replaces.
StillExpected_Unchecked(p) == TRUE

StillExpected(p) == live[p] = txn.plan.seen[p]

\* The next path in byte order is replaced if it still holds the expected state.
ApplyPath ==
    /\ pc = "apply"
    /\ \E p \in First(txn.todo) :
          \/ /\ StillExpected(p)
             /\ live' = [live EXCEPT ![p] = txn.plan.target[p]]
             /\ txn' = [txn EXCEPT !.todo = @ \ {p}]
             /\ UNCHANGED <<beside, pc, count>>
          \/ ~StillExpected(p) /\ pc' = "catch" /\ UNCHANGED <<live, beside, txn, count>>
          \/ Throws /\ pc' = "catch" /\ Stop /\ UNCHANGED txn
    /\ UNCHANGED <<head, restores, own, leaf, markers, pending, confirmed, lease, rec, gate,
                   reply, edited>>

\* update-ref with the source commit as the expected old value.
PublishHead ==
    LET planned == PlannedTree(txn.plan, txn.srcTree) IN
    /\ pc = "apply"
    /\ txn.todo = {}
    /\ \/ /\ head.ver = txn.src
          /\ Commit(planned, txn.op)
          /\ restores' = restores \cup {txn.op}
          /\ own' = [p \in Paths |-> IF p \in txn.plan.paths THEN planned[p] ELSE own[p]]
          /\ \/ pc' = "mark" /\ UNCHANGED count
             \/ pc' = "catch" /\ Throws
       \/ /\ \/ head.ver # txn.src /\ UNCHANGED count
             \/ Throws
          /\ pc' = "catch"
          /\ UNCHANGED <<head, confirmed, restores, own>>
    /\ UNCHANGED <<live, beside, leaf, markers, pending, lease, txn, rec, gate, reply, edited>>

\* The marker is appended with the confirmed leaf as the expected one.
AppendMarker ==
    /\ pc = "mark"
    /\ \/ /\ leaf.n = txn.plan.leaf
          /\ leaf' = Marker(txn.op, txn.plan.kind, leaf.n, txn.plan.seen)
          /\ markers' = markers \cup {txn.op}
          /\ \/ pc' = "check" /\ UNCHANGED count
             \/ pc' = "catch" /\ Throws
       \/ /\ \/ leaf.n # txn.plan.leaf /\ UNCHANGED count
             \/ Throws
          /\ pc' = "catch"
          /\ UNCHANGED <<leaf, markers>>
    /\ UNCHANGED <<live, beside, head, restores, own, pending, confirmed, lease, txn, rec, gate,
                   reply, edited>>

Committed ==
    /\ \A p \in txn.plan.paths : live[p] = txn.plan.target[p]
    /\ leaf = Marker(txn.op, txn.plan.kind, txn.plan.leaf, txn.plan.seen)

\* verifyCommittedState
VerifyCommitted ==
    /\ pc = "check"
    /\ \/ Committed /\ pc' = "clear" /\ UNCHANGED count
       \/ ~Committed /\ pc' = "catch" /\ UNCHANGED count
       \/ Throws /\ pc' = "catch"
    /\ UNCHANGED <<StoreVars, confirmed, lease, txn, rec, gate, reply, edited>>

\* clearCommittedPending: only this operation's record, only under the planned head.
ClearCommitted ==
    LET clear == pending # None /\ pending.op = txn.op /\ HeadIsPlanned(MakePending(txn)) IN
    /\ pc = "clear"
    /\ \/ /\ clear
          /\ pending' = None
          /\ \/ /\ pc' = "idle" /\ txn' = None /\ lease' = "free"
                /\ Answer("committed")
                /\ UNCHANGED count
             \/ pc' = "catch" /\ Throws /\ UNCHANGED <<txn, lease, reply>>
       \/ /\ \/ ~clear /\ UNCHANGED count
             \/ Throws
          /\ pc' = "catch"
          /\ UNCHANGED <<pending, txn, lease, reply>>
    /\ UNCHANGED <<live, beside, head, restores, own, leaf, markers, confirmed, rec, gate, edited>>

\* The catch block hands the record to the resolver, under the leases it still holds.
Catch ==
    /\ pc = "catch"
    /\ pc' = "recovering"
    /\ rec' = [Idle EXCEPT !.pc = "facts", !.holds = "session"]
    /\ UNCHANGED <<StoreVars, confirmed, lease, txn, gate, reply, edited, count>>

-----------------------------------------------------------------------------
(* Recovery *)

\* Mutant: whatever recovery could not complete is reported as the error it was.
Told_AnyError(decision) == IF decision = "committed" THEN "committed" ELSE "failed"

\* What the executor makes of recovery's decision: anything but committed or
\* not-committed is reported as a frozen workspace.
Told(decision) ==
    IF decision = "committed" THEN "committed"
    ELSE IF decision = "not-committed" THEN "failed" ELSE "frozen"

\* A decision, or an exception, ends recovery.
Finish(result) ==
    /\ rec' = Idle
    /\ lease' = "free"
    /\ IF pc = "recovering"
       THEN /\ pc' = "idle" /\ txn' = None
            /\ Answer(Told(result))
       ELSE UNCHANGED <<pc, txn, reply>>

Goto(label) == rec' = [rec EXCEPT !.pc = label] /\ UNCHANGED <<lease, pc, txn, reply>>

\* A write gate, start-up or the user's retry found a record.
StartRecovery ==
    /\ pending # None
    /\ rec = Idle
    /\ lease = "free"
    /\ lease' = "recovery"
    /\ rec' = [Idle EXCEPT !.pc = "facts"]
    /\ UNCHANGED <<StoreVars, confirmed, pc, txn, gate, reply, edited, count>>

\* The discovery saw the planned head: the lease was given back, the session is taken
\* first, then the lease again.
TakeSession ==
    /\ rec.pc = "session"
    /\ pc = "idle"
    /\ rec' = [Idle EXCEPT !.pc = "lease", !.holds = "session"]
    /\ UNCHANGED <<StoreVars, confirmed, lease, pc, txn, gate, reply, edited, count>>

TakeLease ==
    /\ rec.pc = "lease"
    /\ lease = "free"
    /\ lease' = "recovery"
    /\ rec' = [rec EXCEPT !.pc = "facts"]
    /\ UNCHANGED <<StoreVars, confirmed, pc, txn, gate, reply, edited, count>>

\* The head decides the direction.
ReadFacts ==
    /\ rec.pc = "facts"
    /\ \/ pending = None /\ Finish("none")
       \/ pending # None /\ ~CommitFactsValid(pending) /\ Finish("throw")
       \/ /\ pending # None
          /\ CommitFactsValid(pending)
          /\ \/ /\ HeadIsSource(pending) \/ (HeadIsPlanned(pending) /\ rec.holds = "session")
                /\ rec' = [rec EXCEPT !.pc = "look", !.todo = pending.paths]
                /\ UNCHANGED <<lease, pc, txn, reply>>
             \/ /\ HeadIsPlanned(pending) /\ rec.holds # "session"
                /\ rec' = [rec EXCEPT !.pc = "session"]
                /\ lease' = "free"
                /\ UNCHANGED <<pc, txn, reply>>
             \/ ~HeadIsSource(pending) /\ ~HeadIsPlanned(pending) /\ Finish("needs-user")
    /\ UNCHANGED <<StoreVars, confirmed, gate, edited, count>>

\* reconcileInterruptedArtifacts, path by path: the file is inspected, a worker is started to
\* clear up beside it.  A file with a second link is passed over.
LookAtPath ==
    /\ rec.pc = "look"
    /\ \/ /\ rec.todo = {}
          /\ Goto(IF HeadIsSource(pending) THEN "rollback" ELSE "complete")
       \/ \E p \in First(rec.todo) :
             /\ rec' = IF beside[p].linked THEN [rec EXCEPT !.todo = @ \ {p}]
                       ELSE [rec EXCEPT !.pc = "mend", !.view = live[p]]
             /\ UNCHANGED <<lease, pc, txn, reply>>
    /\ UNCHANGED <<StoreVars, confirmed, gate, edited, count>>

\* The worker works from what was seen.  It compares the file with that once, before its first
\* write: a later write by somebody else goes unnoticed, and the file may be put back over it.
MendPath ==
    /\ rec.pc = "mend"
    /\ \E p \in First(rec.todo) :
          \/ /\ Explained(p, rec.view)
             /\ PutsBack(p) => CanPutBack(p)
             /\ live' = IF PutsBack(p) THEN [live EXCEPT ![p] = Desired(p)] ELSE live
             /\ beside' = [beside EXCEPT ![p] = Nothing]
             /\ rec' = [rec EXCEPT !.pc = "look", !.todo = @ \ {p}, !.view = Absent]
             /\ UNCHANGED <<lease, pc, txn, reply>>
          \/ /\ \/ live[p] # rec.view
                \/ ~Explained(p, rec.view)
                \/ PutsBack(p) /\ ~CanPutBack(p)
             /\ Finish("throw")
             /\ UNCHANGED <<live, beside>>
    /\ UNCHANGED <<head, restores, own, leaf, markers, pending, confirmed, gate, edited, count>>

\* All paths are classified before any is changed.
ClassifyForRollback ==
    /\ rec.pc = "rollback"
    /\ IF \E p \in pending.paths : Classify(pending, p) = "unknown"
       THEN Finish("needs-user")
       ELSE /\ rec' = [rec EXCEPT !.pc = "undo", !.todo = ToUndo(pending)]
            /\ UNCHANGED <<lease, pc, txn, reply>>
    /\ UNCHANGED <<StoreVars, confirmed, gate, edited, count>>

\* restoreSourcePaths: in reverse order, with the planned state as the expected one.
UndoPath ==
    /\ rec.pc = "undo"
    /\ \E p \in Last(rec.todo) :
          IF live[p] = pending.planned[p] /\ beside[p] = Nothing
          THEN /\ live' = [live EXCEPT ![p] = pending.srcTree[p]]
               /\ rec' = [rec EXCEPT !.todo = @ \ {p}]
               /\ UNCHANGED <<lease, pc, txn, reply>>
          ELSE Finish("throw") /\ UNCHANGED live
    /\ UNCHANGED <<beside, head, restores, own, leaf, markers, pending, confirmed, gate, edited,
                   count>>

VerifyUndone ==
    /\ rec.pc = "undo"
    /\ rec.todo = {}
    /\ IF AllAre(pending, "before")
       THEN Goto("clearSource")
       ELSE Finish("throw")
    /\ UNCHANGED <<StoreVars, confirmed, gate, edited, count>>

ClearUndone ==
    /\ rec.pc = "clearSource"
    /\ \/ /\ HeadIsSource(pending)
          /\ pending' = None
          /\ \/ Finish("not-committed") /\ UNCHANGED count
             \/ Finish("throw") /\ Throws
       \/ ~HeadIsSource(pending) /\ UNCHANGED <<pending, count>> /\ Finish("throw")
    /\ UNCHANGED <<live, beside, head, restores, own, leaf, markers, confirmed, gate, edited>>

\* completePlanned: the files must all be at their targets; then the leaf decides
\* whether the marker is still to be appended.
ClassifyForCompletion ==
    /\ rec.pc = "complete"
    /\ \/ ~AllAre(pending, "target") /\ Finish("needs-user")
       \/ /\ AllAre(pending, "target")
          /\ \/ MarkerIsExact(pending) /\ Goto("verify")
             \/ ~MarkerIsExact(pending) /\ leaf.n = pending.leaf /\ Goto("append")
             \/ ~MarkerIsExact(pending) /\ leaf.n # pending.leaf /\ Finish("needs-user")
    /\ UNCHANGED <<StoreVars, confirmed, gate, edited, count>>

CompleteMarker ==
    /\ rec.pc = "append"
    /\ IF leaf.n = pending.leaf
       THEN /\ leaf' = DerivedMarker(pending)
            /\ markers' = markers \cup {pending.op}
            /\ Goto("verify")
       ELSE Finish("throw") /\ UNCHANGED <<leaf, markers>>
    /\ UNCHANGED <<live, beside, head, restores, own, pending, confirmed, gate, edited, count>>

VerifyCompleted ==
    /\ rec.pc = "verify"
    /\ IF MarkerIsExact(pending) /\ AllAre(pending, "target")
       THEN Goto("clearPlanned")
       ELSE Finish("throw")
    /\ UNCHANGED <<StoreVars, confirmed, gate, edited, count>>

ClearCompleted ==
    /\ rec.pc = "clearPlanned"
    /\ \/ /\ HeadIsPlanned(pending)
          /\ pending' = None
          /\ \/ Finish("committed") /\ UNCHANGED count
             \/ Finish("throw") /\ Throws
       \/ ~HeadIsPlanned(pending) /\ UNCHANGED <<pending, count>> /\ Finish("throw")
    /\ UNCHANGED <<live, beside, head, restores, own, leaf, markers, confirmed, gate, edited>>

\* A call of recovery throws: it gives up where it is, and the record stays.
RecoveryThrows ==
    /\ rec.pc \notin {"idle", "session", "lease"}
    /\ Throws
    /\ Stop
    /\ Finish("throw")
    /\ UNCHANGED <<head, restores, own, leaf, markers, pending, confirmed, gate, edited>>

-----------------------------------------------------------------------------

Preview ==
    \E S \in SUBSET Paths : \E target \in [S -> Bytes] :
        \/ \E kind \in {"rewind", "redo"} : PreviewNormal(kind, S, target)
        \/ PreviewForce(S, target)

Executor ==
    \/ VerifySource \/ PublishPending \/ ApplyPath \/ PublishHead
    \/ AppendMarker \/ VerifyCommitted \/ ClearCommitted \/ Catch

Recovery ==
    \/ TakeSession \/ TakeLease \/ ReadFacts \/ LookAtPath \/ MendPath
    \/ ClassifyForRollback \/ UndoPath \/ VerifyUndone \/ ClearUndone
    \/ ClassifyForCompletion \/ CompleteMarker \/ VerifyCompleted \/ ClearCompleted

Environment ==
    \/ \E p \in Paths, b \in Bytes : ExternalEdit(p, b) \/ ToolRun(p, b)
    \/ SessionAppend \/ ToolGate \/ TurnAcquire \/ TurnEnd \/ Crash

Next ==
    \/ Environment \/ Preview \/ BeginRestore \/ Executor
    \/ StartRecovery \/ Recovery \/ RecoveryThrows

Spec == Init /\ [][Next]_vars

\* The event loop runs what has been started; the write gates, start-up and the retry
\* button call recovery again as long as a record is there; a turn comes to its end.  A
\* turn that holds the lease beside a pending record is left out: its next tool call
\* waits, in the gate, for the lease its own turn holds.
Fairness ==
    /\ WF_vars(Executor)
    /\ WF_vars(StartRecovery)
    /\ WF_vars(Recovery)
    /\ WF_vars(pending = None /\ TurnEnd)

FairSpec == Spec /\ Fairness

-----------------------------------------------------------------------------
(* Properties *)

\* Type invariant: every variable holds what the code's declarations say, and the
\* locals of the executor and of recovery exist exactly while they run.
TypeOK ==
    /\ live \in Tree
    /\ beside \in [Paths -> Beside]
    /\ head \in [ver : Nat, tree : Tree, op : Nat]
    /\ restores \subseteq Nat \ {0}
    /\ own \in [Paths -> Bytes \cup {Foreign}]
    /\ leaf \in [n : Nat, mark : Nat, redo : Partial]
    /\ markers \subseteq Nat \ {0}
    /\ pending = None \/ pending \in PendingRecord
    /\ confirmed = None \/ confirmed \in Plan
    /\ lease \in {"free", "restore", "recovery", "turn"}
    /\ pc \in {"idle", "verify", "publish", "apply", "mark", "check", "clear", "catch",
               "recovering"}
    /\ IF pc = "idle" THEN txn = None ELSE txn \in Transaction
    /\ rec \in [pc : {"idle", "session", "lease", "facts", "look", "mend", "rollback", "undo",
                      "clearSource", "complete", "append", "verify", "clearPlanned"},
                holds : {"nothing", "session"}, todo : SUBSET Paths, view : Bytes]
    /\ gate \in {"closed", "passed"}
    /\ reply \in [op : Nat, result : {"none", "committed", "failed", "frozen"}]
    /\ edited \subseteq Paths
    /\ count \in [Budgets -> Nat]

\* The conversation never moves before the files' commit is published: a marker in the
\* session implies the operation's commit on the chain (the order publishPrepared, then
\* appendEntries, in the executor and in completePlanned).
MarkerAfterCommit == markers \subseteq restores

\* No restore is lost half way: an operation whose commit is on the chain has its marker
\* in the session, unless its record is still there for recovery to finish.
CommittedOrPending == \A op \in restores : op \in markers \/ pending.op = op

\* What the caller was told is true of the stores: "committed" means commit and marker
\* are both there, a plain failure means neither is, and neither comes as long as that is the
\* last thing said (executeUnderLease's return, rethrow and WorkspaceFrozenError).  It does
\* not mean that no record is left: where reading the record again throws too, the caller
\* gets the plain error with the workspace frozen.
ReplyTruthful ==
    /\ reply.result = "committed" => reply.op \in markers \cap restores
    /\ reply.result = "failed" => reply.op \notin markers \cup restores

\* The record is removed only when the operation is whole or undone: commit and marker
\* both present, or both absent and the head back at the source (clearPending,
\* clearCommittedPending).
ClearedOnlyWhenDecided ==
    [][pending # None /\ pending' = None =>
          \/ pending.op \in restores' \cap markers' /\ leaf'.mark = pending.op
          \/ pending.op \notin restores' \cup markers' /\ head'.ver = pending.src]_vars

\* No torn outcome: when the record goes, every restored path that nobody else wrote to
\* meanwhile is at its target if the operation's commit is on the chain, and at the
\* source commit if it is not; never a mixture (resolveFacts, verifyClassifications).
NoTornRestore ==
    [][pending # None /\ pending' = None =>
          \A p \in pending.paths \ edited' :
              live'[p] = (IF pending.op \in restores' THEN pending.planned
                                                      ELSE pending.srcTree)[p]]_vars

\* Executor and recovery, interrupted or not, take a file away only when its bytes are in a
\* commit (the source commit, the operation's result, or the owning session's last commit of
\* that path) or are kept in the quarantine; and what is in the quarantine stays there unless
\* it is in a commit.  Whatever the user wrote in between is left alone (expectedCurrent in
\* applyCapturedPath, the overlap check of assertConfirmedRestoreFresh, synchronizeExternal
\* before a force), with one exception: what was written after recovery looked at the file,
\* while its worker reconciles it (UserBytesSurvive in PathApply).
OverwrittenBytesAreCommitted ==
    [][Executor \/ Recovery \/ RecoveryThrows \/ Crash =>
          \A p \in Paths :
             LET committed == {pending.srcTree[p], pending.planned[p], own[p]} IN
             /\ live'[p] # live[p] =>
                   \/ live[p] \in committed
                   \/ beside'[p].entry = live[p]
                   \/ live[p] = Absent /\ beside[p].entry # Absent
                   \/ rec.pc = "mend" /\ live[p] # rec.view
             /\ pending # None /\ beside'[p].entry # beside[p].entry =>
                   beside[p].entry \in committed \cup {Absent}]_vars

\* A restore that is reported as not committed has put back what was there when the
\* user confirmed it, on every path nobody else wrote to since.  The design document of
\* the recovery promises this; the code restores the tree of the source commit instead,
\* which an external commit can have taken away from what is on disk.
RollbackRestoresConfirmed ==
    [][pc = "recovering" /\ reply' = [op |-> txn.op, result |-> "failed"] =>
          \A p \in txn.plan.paths \ edited' : live'[p] = txn.plan.seen[p]]_vars

\* No other session's turn holds the writer lease while a record is pending: the write
\* gate is there to keep new writers out until the record is resolved.
NoTurnWhilePending == lease = "turn" => pending = None

\* The durable facts leave recovery no decision: it must ask the user.
NeedsUser ==
    /\ pending # None
    /\ \/ ~CommitFactsValid(pending)
       \/ ~HeadIsSource(pending) /\ ~HeadIsPlanned(pending)
       \/ \E p \in pending.paths :
             \/ beside[p].linked \/ ~Explained(p, live[p])
             \/ HeadIsSource(pending) /\ beside[p] = Nothing /\ Classify(pending, p) = "unknown"
       \/ /\ HeadIsPlanned(pending)
          /\ \/ ~AllAre(pending, "target")
             \/ leaf.n # pending.leaf /\ ~MarkerIsExact(pending)

\* Whatever throws and wherever the process dies, once that stops the record is resolved,
\* unless the facts need the user or a turn keeps the writer lease (resolvePending, run
\* at start-up and by every gate).
EventuallyResolved == <>[](pending = None \/ NeedsUser \/ lease = "turn")

\* While a record is pending its operation's effects are not yet promised to anybody.
Atomic == INSTANCE AtomicRestore WITH
    open <- pending.op,
    chain <- restores \ {pending.op},
    conversation <- markers \ {pending.op}

\* The executor and recovery together implement the atomic restore: whatever crashes,
\* throws or interleaves, chain and conversation change together, at the removal of the
\* record.
ImplementsAtomicRestore == Atomic!Spec

=============================================================================
