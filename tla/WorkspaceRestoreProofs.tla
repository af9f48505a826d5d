----------------------- MODULE WorkspaceRestoreProofs -----------------------
(***************************************************************************)
(* Proofs about WorkspaceRestore, for every number of paths, every set of  *)
(* file states and every bound.                                            *)
(*                                                                         *)
(* The invariants of the checked runs are not inductive: they hold because *)
(* the writer lease serialises the executor, recovery and turns, because   *)
(* the executor's control state says which stores it has written, and      *)
(* because the head can tell a published operation from an unpublished     *)
(* one.  IInv states exactly that.  What is proved of the files rests on   *)
(* two more, SeenInv and FilesInv.                                         *)
(***************************************************************************)
EXTENDS WorkspaceRestore, TLAPS

Waiting == {"idle", "session", "lease"}

\* The writer lease: the executor holds it while it runs, recovery while it works,
\* unless it works for the executor under the executor's.
LeaseInv ==
    /\ pc # "idle" <=> lease = "restore"
    /\ lease = "recovery" <=> (rec.pc \notin Waiting /\ pc # "recovering")
    /\ pc = "recovering" => rec.pc \notin Waiting /\ rec.holds = "session"
    /\ pc \notin {"idle", "recovering"} => rec.pc \in {"idle", "session"}
    /\ rec.pc \in {"idle", "session"} => rec.holds = "nothing"
    /\ rec.pc = "lease" => rec.holds = "session"

\* Operation ids grow: everything recorded belongs to an operation already started.
OpsInv ==
    /\ \A op \in restores : op <= count["ops"]
    /\ pending.op <= count["ops"]
    /\ reply.op <= count["ops"]
    /\ reply.result = "failed" => reply.op # 0
    /\ pc # "idle" => txn.op = count["ops"] /\ reply.op < txn.op

\* What the executor has written so far.
ExecutorInv ==
    /\ pc \in {"verify", "publish"} =>
           pending = None /\ txn.op \notin restores /\ head.ver = txn.src
    /\ pc \in {"apply", "mark", "check", "clear"} => pending = MakePending(txn)
    /\ pc = "apply" => txn.op \notin restores
    /\ pc \in {"mark", "check", "clear"} => txn.op \in restores
    /\ pc \in {"check", "clear"} => txn.op \in markers
    /\ pc = "clear" => leaf.mark = txn.op
    /\ pc \in {"catch", "recovering"} =>
           \/ pending = MakePending(txn)
           \/ pending = None /\ txn.op \in restores \cap markers

\* What recovery has seen stays true while it works.
RecoveryInv ==
    /\ rec.pc \in {"rollback", "undo", "clearSource"} => pending # None /\ HeadIsSource(pending)
    /\ rec.pc \in {"complete", "append", "verify", "clearPlanned"} =>
           pending # None /\ HeadIsPlanned(pending)
    /\ rec.pc \in {"look", "mend"} =>
           pending # None /\ (HeadIsSource(pending) \/ HeadIsPlanned(pending))
    /\ rec.pc = "clearPlanned" => leaf.mark = pending.op

\* The head tells whether the pending operation was published.
HeadInv ==
    /\ head.op # 0 => head.op \in restores
    /\ leaf.mark # 0 => leaf.mark \in markers
    /\ pending # None =>
           head.ver >= pending.src /\ (pending.op \in restores => head.ver > pending.src)

Safe ==
    /\ MarkerAfterCommit /\ CommittedOrPending /\ ReplyTruthful
    /\ LeaseInv /\ OpsInv /\ ExecutorInv /\ RecoveryInv /\ HeadInv

IInv == TypeOK /\ Safe

-----------------------------------------------------------------------------
(* The data operators keep their types. *)

\* Restricting a tree to some paths gives a state for each of them.
LEMMA RestrictType ==
    ASSUME NEW t \in Tree, NEW S \in SUBSET Paths
    PROVE  Restrict(t, S) \in [S -> Bytes] /\ Restrict(t, S) \in Partial
BY DEF Restrict, Tree, Partial

\* A plan says, for each of its paths and for no other, what was seen and what is wanted.
LEMMA PlanType ==
    ASSUME NEW plan \in Plan
    PROVE  /\ plan.kind \in {"rewind", "redo"}
           /\ plan.mode \in {"normal", "force"}
           /\ plan.paths \in SUBSET Paths
           /\ plan.leaf \in Nat
           /\ plan.overlap \in SUBSET Paths
           /\ plan.seen \in [plan.paths -> Bytes] /\ plan.seen \in Partial
           /\ plan.target \in [plan.paths -> Bytes] /\ plan.target \in Partial
           /\ plan # None
BY DEF Plan, None

\* The result commit's tree is a tree: every target is on a path of the plan.
LEMMA PlannedTreeType ==
    ASSUME NEW plan \in Plan, NEW t \in Tree
    PROVE  PlannedTree(plan, t) \in Tree
BY PlanType DEF PlannedTree, Tree

\* The record the executor publishes is a well-formed one.
LEMMA MakePendingType ==
    ASSUME NEW t \in Transaction
    PROVE  /\ t.op \in Nat \ {0} /\ t.plan \in Plan /\ t.src \in Nat /\ t.srcTree \in Tree
           /\ t.todo \subseteq t.plan.paths
           /\ MakePending(t) \in PendingRecord
           /\ MakePending(t).op = t.op /\ MakePending(t).src = t.src
           /\ t # None
<1>1. t.op \in Nat \ {0} /\ t.plan \in Plan /\ t.src \in Nat /\ t.srcTree \in Tree
      /\ t.todo \subseteq t.plan.paths
  BY DEF Transaction
<1>2. PlannedTree(t.plan, t.srcTree) \in Tree
  BY <1>1, PlannedTreeType
<1>3. MakePending(t) \in PendingRecord
  BY <1>1, <1>2, PlanType DEF MakePending, PendingRecord
<1>4. MakePending(t).op = t.op /\ MakePending(t).src = t.src
  BY DEF MakePending
<1>5. t # None
  BY DEF None, Transaction
<1> QED BY <1>1, <1>3, <1>4, <1>5

\* A record is told from no record by its operation.
LEMMA PendingType ==
    ASSUME NEW r \in PendingRecord
    PROVE  /\ r.op \in Nat \ {0} /\ r.leaf \in Nat /\ r.src \in Nat
           /\ r.srcTree \in Tree /\ r.planned \in Tree /\ r.paths \in SUBSET Paths
           /\ r # None /\ None.op = 0
BY DEF PendingRecord, None

\* No states are a partial tree.
LEMMA NoStatesType == NoStates \in Partial
<1>1. NoStates \in [{} -> Bytes]
  BY DEF NoStates
<1> QED BY <1>1 DEF Partial

\* A marker is a leaf one entry further.
LEMMA MarkerType ==
    ASSUME NEW op \in Nat, NEW kind, NEW n \in Nat, NEW states \in Partial
    PROVE  /\ Marker(op, kind, n, states) \in [n : Nat, mark : Nat, redo : Partial]
           /\ Marker(op, kind, n, states).mark = op
BY NoStatesType DEF Marker

\* The marker recovery derives is one for the record's operation.
LEMMA DerivedMarkerType ==
    ASSUME NEW r \in PendingRecord
    PROVE  /\ DerivedMarker(r) \in [n : Nat, mark : Nat, redo : Partial]
           /\ DerivedMarker(r).mark = r.op
BY PendingType, RestrictType, MarkerType DEF DerivedMarker

\* Using up a bound counts it and leaves the others alone.
LEMMA UseType ==
    ASSUME NEW bound \in Budgets, NEW limit, count \in [Budgets -> Nat], Use(bound, limit)
    PROVE  /\ count' \in [Budgets -> Nat]
           /\ count'[bound] = count[bound] + 1
           /\ \A b \in Budgets \ {bound} : count'[b] = count[b]
BY DEF Use

\* A commit advances the head by one and keeps an outstanding plan a plan.
LEMMA CommitType ==
    ASSUME TypeOK, NEW tree \in Tree, NEW op \in Nat, Commit(tree, op)
    PROVE  /\ head' \in [ver : Nat, tree : Tree, op : Nat]
           /\ head'.ver = head.ver + 1 /\ head'.op = op
           /\ confirmed' = None \/ confirmed' \in Plan
<1>1. head' \in [ver : Nat, tree : Tree, op : Nat] /\ head'.ver = head.ver + 1 /\ head'.op = op
  BY DEF Commit, TypeOK
<1>2. CASE confirmed = None
  BY <1>1, <1>2 DEF Commit
<1>3. CASE confirmed # None
  <2>1. confirmed \in Plan
    BY <1>3 DEF TypeOK
  <2>2. confirmed' = [confirmed EXCEPT !.overlap = @ \cup Changed(head.tree, tree)]
    BY <1>3 DEF Commit
  <2>3. confirmed' \in Plan
    BY <2>1, <2>2 DEF Plan, Changed
  <2> QED BY <1>1, <2>3
<1> QED BY <1>2, <1>3

\* What synchronizeExternal does to the chain.
LEMMA SynchronizeType ==
    ASSUME TypeOK, SynchronizeExternal
    PROVE  /\ head' \in [ver : Nat, tree : Tree, op : Nat]
           /\ head' = head \/ (head'.ver = head.ver + 1 /\ head'.op = 0)
           /\ confirmed' = None \/ confirmed' \in Plan
<1>1. CASE live = head.tree
  BY <1>1 DEF SynchronizeExternal, TypeOK
<1>2. CASE live # head.tree
  BY <1>2, CommitType DEF SynchronizeExternal, TypeOK
<1> QED BY <1>1, <1>2

\* A preview freezes a well-formed plan.
LEMMA IssueType ==
    ASSUME TypeOK, NEW kind \in {"rewind", "redo"}, NEW mode \in {"normal", "force"},
           NEW S \in SUBSET Paths, NEW target \in [S -> Bytes], Issue(kind, mode, S, target)
    PROVE  confirmed' \in Plan
<1>1. Restrict(live, S) \in [S -> Bytes] /\ Restrict(live, S) \in Partial
  BY RestrictType DEF TypeOK
<1>2. target \in Partial
  BY DEF Partial
<1>3. leaf.n \in Nat
  BY DEF TypeOK
<1> QED BY <1>1, <1>2, <1>3 DEF Issue, Plan

\* Recovery's end: everything it held is given back, and the executor it worked for ends.
LEMMA FinishType ==
    ASSUME TypeOK, NEW result, Finish(result)
    PROVE  /\ rec' = Idle /\ lease' = "free"
           /\ pc = "recovering" =>
                 pc' = "idle" /\ txn' = None /\ reply' = [op |-> txn.op, result |-> Told(result)]
           /\ pc # "recovering" => UNCHANGED <<pc, txn, reply>>
           /\ IF pc' = "idle" THEN txn' = None ELSE txn' \in Transaction
           /\ reply' \in [op : Nat, result : {"none", "committed", "failed", "frozen"}]
<1>1. CASE pc = "recovering"
  <2>1. txn.op \in Nat
    BY <1>1, MakePendingType DEF TypeOK
  <2>2. Told(result) \in {"none", "committed", "failed", "frozen"}
    BY DEF Told
  <2> QED BY <1>1, <2>1, <2>2 DEF Finish, Answer
<1>2. CASE pc # "recovering"
  BY <1>2 DEF Finish, TypeOK
<1> QED BY <1>1, <1>2

\* Nothing beside a file is a way of being beside it.
LEMMA NothingType == Nothing \in Beside /\ Nothing.entry = Absent
BY BytesAssumption DEF Nothing, Beside

\* What one path is left with, and its fields.
LEMMA LeftType ==
    ASSUME NEW file \in Bytes, NEW entry \in Bytes \cup {Odd}, NEW prepared \in Bytes,
           NEW linked \in BOOLEAN
    PROVE  /\ Left(file, entry, prepared, linked).file = file
           /\ Left(file, entry, prepared, linked) \in [file : Bytes, beside : Beside]
           /\ Left(file, entry, prepared, linked).beside.entry = entry
BY DEF Left, Beside

\* A replacement cut short has touched nothing but the file it expected, or has moved aside
\* what it found; and it starts with nothing in the quarantine.
LEMMA ReplacingLeaves ==
    ASSUME live \in Tree, beside \in [Paths -> Beside], NEW p \in Paths, NEW from \in Bytes,
           NEW to \in Bytes, NEW left \in LeftByReplacing(p, from, to)
    PROVE  /\ left \in [file : Bytes, beside : Beside]
           /\ left.file # live[p] => live[p] = from \/ left.beside.entry = live[p]
           /\ left.beside.entry # beside[p].entry => beside[p].entry = Absent
<1>1. live[p] \in Bytes /\ beside[p] \in Beside /\ Absent \in Bytes
  BY BytesAssumption DEF Tree
<1>2. CASE beside[p] # Nothing
  <2>1. left = [file |-> live[p], beside |-> beside[p]]
    BY <1>2 DEF LeftByReplacing
  <2> QED BY <1>1, <2>1
<1>3. CASE beside[p] = Nothing
  <2>1. beside[p].entry = Absent
    BY <1>3, NothingType
  <2>2. \/ \E q \in {Absent, to} : left = Left(live[p], Absent, q, FALSE)
        \/ left = Left(live[p], Odd, Absent, FALSE)
        \/ \E q \in {Absent, to} : left = Left(Absent, live[p], q, FALSE)
        \/ \E q \in {Absent, to} : left = Left(live[p], live[p], q, TRUE)
        \/ live[p] = from /\ left = Left(to, from, to, to # Absent)
        \/ live[p] = from /\ \E e \in {Absent, Odd, from} : left = Left(to, e, Absent, FALSE)
    BY <1>3 DEF LeftByReplacing
  <2>a. Absent \in Bytes \cup {Odd} /\ live[p] \in Bytes \cup {Odd} /\ from \in Bytes \cup {Odd}
        /\ Odd \in Bytes \cup {Odd}
    BY <1>1
  <2>b. \A e \in {Absent, Odd, from} : e \in Bytes \cup {Odd}
    BY <2>a
  <2>c. \A q \in {Absent, to} : q \in Bytes
    BY <1>1
  <2>3. CASE \E q \in {Absent, to} : left = Left(live[p], Absent, q, FALSE)
    <3>0. PICK q \in {Absent, to} : left = Left(live[p], Absent, q, FALSE)
      BY <2>3
    <3>1. q \in Bytes
      BY <2>c
    <3>2. /\ Left(live[p], Absent, q, FALSE).file = live[p]
          /\ Left(live[p], Absent, q, FALSE) \in [file : Bytes, beside : Beside]
          /\ Left(live[p], Absent, q, FALSE).beside.entry = Absent
      BY <1>1, <3>1, SMT DEF Left, Beside
    <3> QED BY <2>1, <3>0, <3>2
  <2>4. CASE left = Left(live[p], Odd, Absent, FALSE)
    <3>1. left.file = live[p] /\ left \in [file : Bytes, beside : Beside]
      BY <1>1, <2>a, <2>4, LeftType, Zenon
    <3> QED BY <2>1, <3>1
  <2>5. CASE \/ \E q \in {Absent, to} : left = Left(Absent, live[p], q, FALSE)
             \/ \E q \in {Absent, to} : left = Left(live[p], live[p], q, TRUE)
    <3>0. PICK q \in {Absent, to} : \/ left = Left(Absent, live[p], q, FALSE)
                                   \/ left = Left(live[p], live[p], q, TRUE)
      BY <2>5
    <3>1. q \in Bytes
      BY <2>c
    <3>2. /\ Left(Absent, live[p], q, FALSE) \in [file : Bytes, beside : Beside]
          /\ Left(Absent, live[p], q, FALSE).beside.entry = live[p]
      <4>1. Absent \in Bytes /\ live[p] \in Bytes \cup {Odd}
        BY <1>1, <2>a
      <4> QED BY <3>1, <4>1, SMT DEF Left, Beside
    <3>3. /\ Left(live[p], live[p], q, TRUE) \in [file : Bytes, beside : Beside]
          /\ Left(live[p], live[p], q, TRUE).beside.entry = live[p]
      BY <1>1, <3>1, SMT DEF Left, Beside
    <3> QED BY <2>1, <3>0, <3>2, <3>3
  <2>6. CASE live[p] = from /\ left = Left(to, from, to, to # Absent)
    <3>1. (to # Absent) \in BOOLEAN
      OBVIOUS
    <3>2. left \in [file : Bytes, beside : Beside]
      BY <2>a, <2>6, <3>1, LeftType, Zenon
    <3> QED BY <2>1, <2>6, <3>2
  <2>7. CASE live[p] = from /\ \E e \in {Absent, Odd, from} : left = Left(to, e, Absent, FALSE)
    <3>0. PICK e \in {Absent, Odd, from} : left = Left(to, e, Absent, FALSE)
      BY <2>7
    <3>1. e \in Bytes \cup {Odd}
      BY <2>b
    <3>2. left \in [file : Bytes, beside : Beside]
      BY <1>1, <3>0, <3>1, LeftType, Zenon
    <3> QED BY <2>1, <2>7, <3>2
  <2> QED BY <2>2, <2>3, <2>4, <2>5, <2>6, <2>7
<1> QED BY <1>2, <1>3

\* Recovery puts a file back over nothing, over a state of the record, or over what was written
\* since it looked; and what it takes out of the quarantine is a state of the record.
LEMMA PutBackIsCommitted ==
    ASSUME NEW p \in Paths, Explained(p, rec.view)
    PROVE  /\ beside[p].entry \in {Absent, Desired(p), Alternate(p)}
           /\ PutsBack(p) => \/ rec.view = Alternate(p)
                             \/ rec.view = Absent /\ beside[p].entry # Absent
BY DEF Explained, PutsBack

\* The same of a reconciliation that is cut short.
LEMMA MendingLeaves ==
    ASSUME live \in Tree, beside \in [Paths -> Beside], NEW p \in Paths,
           Desired(p) \in Bytes, NEW left \in LeftByMending(p)
    PROVE  /\ left \in [file : Bytes, beside : Beside]
           /\ left.file # live[p] => \/ live[p] # rec.view
                                     \/ live[p] = Alternate(p)
                                     \/ live[p] = Absent /\ beside[p].entry # Absent
           /\ left.beside.entry # beside[p].entry =>
                  beside[p].entry \in {Absent, Desired(p), Alternate(p)}
<1>1. live[p] \in Bytes /\ beside[p] \in Beside /\ Absent \in Bytes
  BY BytesAssumption DEF Tree
<1>2. beside[p].entry \in Bytes \cup {Odd} /\ beside[p].prepared \in Bytes
  BY <1>1 DEF Beside
<1>3. CASE left = [file |-> live[p], beside |-> beside[p]]
  BY <1>1, <1>3
<1>4. CASE left # [file |-> live[p], beside |-> beside[p]]
  <2> DEFINE file == IF PutsBack(p) THEN Desired(p) ELSE live[p]
  <2>1. Explained(p, rec.view)
    BY <1>4 DEF LeftByMending
  <2>2. \/ \E q \in {file, Absent}, l \in BOOLEAN : left = Left(file, beside[p].entry, q, l)
        \/ PutsBack(p) /\ left = Left(Absent, beside[p].entry, beside[p].prepared, FALSE)
        \/ \E q \in {Absent, beside[p].prepared} : left = Left(file, Absent, q, FALSE)
        \/ left = Left(file, Odd, Absent, FALSE)
    BY <1>4 DEF LeftByMending
  <2>3. file \in Bytes /\ (file # live[p] => PutsBack(p))
    BY <1>1
  <2>4. /\ left \in [file : Bytes, beside : Beside]
        /\ left.file # live[p] => PutsBack(p)
    <3>1. CASE \E q \in {file, Absent}, l \in BOOLEAN : left = Left(file, beside[p].entry, q, l)
      <4>1. PICK q \in {file, Absent}, l \in BOOLEAN : left = Left(file, beside[p].entry, q, l)
        BY <3>1
      <4>2. q \in Bytes
        BY <1>1, <2>3
      <4> HIDE DEF file
      <4>3. /\ Left(file, beside[p].entry, q, l) \in [file : Bytes, beside : Beside]
            /\ Left(file, beside[p].entry, q, l).file = file
        <5>1. file \in Bytes /\ beside[p].entry \in Bytes \cup {Odd}
          BY <1>2, <2>3
        <5> QED BY <4>2, <5>1, SMT DEF Left, Beside
      <4> QED BY <2>3, <4>1, <4>3
    <3>2. CASE PutsBack(p) /\ left = Left(Absent, beside[p].entry, beside[p].prepared, FALSE)
      BY <1>1, <1>2, <3>2, LeftType
    <3>3. CASE \E q \in {Absent, beside[p].prepared} : left = Left(file, Absent, q, FALSE)
      <4>1. PICK q \in {Absent, beside[p].prepared} : left = Left(file, Absent, q, FALSE)
        BY <3>3
      <4>2. q \in Bytes /\ Absent \in Bytes \cup {Odd} /\ FALSE \in BOOLEAN
        BY <1>1, <1>2
      <4> QED BY <2>3, <4>1, <4>2, LeftType
    <3>4. CASE left = Left(file, Odd, Absent, FALSE)
      BY <1>1, <2>3, <3>4, LeftType
    <3> HIDE DEF file
    <3> QED BY <2>2, <3>1, <3>2, <3>3, <3>4
  <2> QED BY <2>1, <2>4, PutBackIsCommitted
<1> QED BY <1>3, <1>4

\* What recovery puts in place is a state of the record.
LEMMA DesiredType ==
    ASSUME TypeOK, pending # None, NEW p \in Paths
    PROVE  Desired(p) \in Bytes /\ Alternate(p) \in Bytes
BY PendingType DEF TypeOK, Desired, Alternate, Tree

\* The one path at which something was cut short.
LEMMA StopPath ==
    ASSUME TypeOK, Stop, rec.pc \in {"undo", "mend"} => pending # None
    PROVE  \/ UNCHANGED <<live, beside>>
           \/ \E p \in Paths : \E left \in [file : Bytes, beside : Beside] :
                 /\ Becomes(p, left)
                 /\ \/ /\ pc = "apply" /\ p \in txn.todo
                       /\ left \in LeftByReplacing(p, txn.plan.seen[p], txn.plan.target[p])
                    \/ /\ rec.pc = "undo"
                       /\ left \in LeftByReplacing(p, pending.planned[p], pending.srcTree[p])
                    \/ rec.pc = "mend" /\ left \in LeftByMending(p)
<1>t. /\ live \in Tree /\ beside \in [Paths -> Beside]
      /\ rec.todo \subseteq Paths
  BY DEF TypeOK
<1>1. CASE pc = "apply" /\ txn.todo # {}
  <2>1. txn \in Transaction
    BY <1>1 DEF TypeOK
  <2>2. PICK p \in First(txn.todo) :
           \E left \in LeftByReplacing(p, txn.plan.seen[p], txn.plan.target[p]) : Becomes(p, left)
    BY <1>1 DEF Stop
  <2>3. p \in txn.todo /\ p \in Paths /\ txn.plan.seen[p] \in Bytes /\ txn.plan.target[p] \in Bytes
    BY <2>1, <2>2, MakePendingType, PlanType DEF First
  <2>4. PICK left \in LeftByReplacing(p, txn.plan.seen[p], txn.plan.target[p]) : Becomes(p, left)
    BY <2>2
  <2>5. left \in [file : Bytes, beside : Beside]
    BY <1>t, <2>3, ReplacingLeaves
  <2> QED BY <1>1, <2>3, <2>4, <2>5
<1>2. CASE ~(pc = "apply" /\ txn.todo # {}) /\ rec.pc = "undo" /\ rec.todo # {}
  <2>1. pending \in PendingRecord
    BY <1>2 DEF TypeOK
  <2>2. PICK p \in Last(rec.todo) :
           \E left \in LeftByReplacing(p, pending.planned[p], pending.srcTree[p]) : Becomes(p, left)
    BY <1>2 DEF Stop
  <2>3. p \in Paths
    BY <1>t, <2>2 DEF Last
  <2>4. pending.planned[p] \in Bytes /\ pending.srcTree[p] \in Bytes
    BY <2>1, <2>3, PendingType DEF Tree
  <2>5. PICK left \in LeftByReplacing(p, pending.planned[p], pending.srcTree[p]) : Becomes(p, left)
    BY <2>2
  <2>6. left \in [file : Bytes, beside : Beside]
    BY <1>t, <2>3, <2>4, ReplacingLeaves
  <2> QED BY <1>2, <2>3, <2>5, <2>6
<1>3. CASE /\ ~(pc = "apply" /\ txn.todo # {}) /\ ~(rec.pc = "undo" /\ rec.todo # {})
           /\ rec.pc = "mend"
  <2>1. PICK p \in First(rec.todo) : \E left \in LeftByMending(p) : Becomes(p, left)
    BY <1>3 DEF Stop
  <2>2. p \in Paths
    BY <1>t, <2>1 DEF First
  <2>3. Desired(p) \in Bytes
    BY <1>3, <2>2, DesiredType
  <2>4. PICK left \in LeftByMending(p) : Becomes(p, left)
    BY <2>1
  <2>5. left \in [file : Bytes, beside : Beside]
    BY <1>t, <2>2, <2>3, <2>4, MendingLeaves
  <2> QED BY <1>3, <2>2, <2>4, <2>5
<1> QED BY <1>1, <1>2, <1>3 DEF Stop

\* Becoming what is left is a change of the one path.
LEMMA BecomesType ==
    ASSUME TypeOK, NEW p \in Paths, NEW left \in [file : Bytes, beside : Beside],
           Becomes(p, left)
    PROVE  /\ live' \in Tree /\ beside' \in [Paths -> Beside]
           /\ live'[p] = left.file /\ beside'[p] = left.beside
           /\ \A q \in Paths \ {p} : live'[q] = live[q] /\ beside'[q] = beside[q]
BY DEF Becomes, TypeOK, Tree

\* Stopping keeps the types of the files and of what is beside them.
LEMMA StopType ==
    ASSUME TypeOK, Stop, RecoveryInv
    PROVE  live' \in Tree /\ beside' \in [Paths -> Beside]
<1>1. rec.pc \in {"undo", "mend"} => pending # None
  BY DEF RecoveryInv
<1>2. CASE UNCHANGED <<live, beside>>
  BY <1>2 DEF TypeOK
<1> QED BY <1>1, <1>2, StopPath, BecomesType

-----------------------------------------------------------------------------
(* IInv is inductive. *)

\* Every step of the system keeps the types.
LEMMA TypeStep == IInv /\ [Next]_vars => TypeOK'
<1> SUFFICES ASSUME IInv, [Next]_vars PROVE TypeOK'
  OBVIOUS
<1>t. TypeOK
  BY DEF IInv
<1> DEFINE Rec == [pc : {"idle", "session", "lease", "facts", "look", "mend", "rollback", "undo",
                         "clearSource", "complete", "append", "verify", "clearPlanned"},
                   holds : {"nothing", "session"}, todo : SUBSET Paths, view : Bytes]
<1>r. rec \in Rec
  BY <1>t DEF TypeOK
<1>i. Idle \in Rec
  BY BytesAssumption DEF Idle
<1>u. ASSUME NEW p \in Paths, beside' = [beside EXCEPT ![p].linked = FALSE]
      PROVE  beside' \in [Paths -> Beside]
  <2>1. beside \in [Paths -> Beside] /\ beside[p] \in Beside
    BY <1>t DEF TypeOK
  <2>2. [beside[p] EXCEPT !.linked = FALSE] \in Beside
    BY <2>1 DEF Beside
  <2> QED BY <1>u, <2>1, <2>2
<1>1. ASSUME NEW p \in Paths, NEW b \in Bytes, ExternalEdit(p, b)
      PROVE  TypeOK'
  <2>1. beside' \in [Paths -> Beside]
    BY <1>u, <1>1 DEF ExternalEdit
  <2> QED BY <1>t, <1>1, <2>1, SMT DEF ExternalEdit, TypeOK, Use, Budgets, Tree
<1>2. CASE SessionAppend
  BY <1>t, <1>2, NoStatesType, SMT DEF SessionAppend, TypeOK, Use, Budgets
<1>3. CASE ToolGate
  BY <1>t, <1>3, SMT DEF ToolGate, TypeOK
<1>4. CASE TurnAcquire
  BY <1>t, <1>4, SynchronizeType, SMT DEF TurnAcquire, TypeOK, Use, Budgets
<1>5. ASSUME NEW p \in Paths, NEW b \in Bytes, ToolRun(p, b)
      PROVE  TypeOK'
  <2>1. beside' \in [Paths -> Beside]
    BY <1>u, <1>5 DEF ToolRun
  <2> QED BY <1>t, <1>5, <2>1, SMT DEF ToolRun, TypeOK, Use, Budgets, Tree
<1>6. CASE TurnEnd
  BY <1>t, <1>6, CommitType, SMT DEF TurnEnd, TypeOK, Tree
<1>7. CASE Crash
  <2>1. live' \in Tree /\ beside' \in [Paths -> Beside]
    BY <1>t, <1>7, StopType DEF Crash, IInv, Safe
  <2> QED BY <1>t, <1>7, <1>i, <2>1, SMT DEF Crash, TypeOK, Use, Budgets
<1>8. ASSUME NEW kind \in {"rewind", "redo"}, NEW S \in SUBSET Paths, NEW target \in [S -> Bytes],
               PreviewNormal(kind, S, target)
      PROVE  TypeOK'
  BY <1>t, <1>8, IssueType, SMT DEF PreviewNormal, TypeOK
<1>9. ASSUME NEW S \in SUBSET Paths, NEW target \in [S -> Bytes], PreviewForce(S, target)
      PROVE  TypeOK'
  BY <1>t, <1>9, IssueType, SMT DEF PreviewForce, TypeOK
<1>10. CASE BeginRestore
  <2> DEFINE plan == confirmed
             drift == IF plan.mode = "force" THEN Changed(head.tree, live) ELSE {}
             source == IF drift = {} THEN head
                       ELSE [ver |-> head.ver + 1, tree |-> live, op |-> 0]
  <2>1. plan \in Plan /\ confirmed' = None /\ head' = source
    BY <1>t, <1>10 DEF BeginRestore, TypeOK
  <2>2. source \in [ver : Nat, tree : Tree, op : Nat]
    BY <1>t DEF TypeOK
  <2>3. CASE lease' = "restore" /\ pc' = "verify" /\ Use("ops", MaxOps)
             /\ txn' = [op |-> count["ops"] + 1, plan |-> plan, src |-> source.ver,
                         srcTree |-> source.tree, todo |-> plan.paths]
    <3>1. "ops" \in Budgets
      BY DEF Budgets
    <3>2. count' \in [Budgets -> Nat] /\ count["ops"] + 1 \in Nat \ {0}
      BY <1>t, <2>3, <3>1, UseType DEF TypeOK
    <3>3. source.ver \in Nat /\ source.tree \in Tree
      BY <2>2
    <3>4. plan.paths \in SUBSET Paths
      BY <2>1, PlanType
    <3>5. txn' \in Transaction
      BY <2>1, <2>3, <3>2, <3>3, <3>4 DEF Transaction
    <3> HIDE DEF plan, source
    <3> QED BY <1>t, <1>10, <2>1, <2>2, <2>3, <3>2, <3>5 DEF BeginRestore, TypeOK
  <2>4. CASE UNCHANGED <<lease, pc, txn, count>>
    <3> HIDE DEF plan, source
    <3> QED BY <1>t, <1>10, <2>1, <2>2, <2>4 DEF BeginRestore, TypeOK
  <2> QED BY <1>10, <2>3, <2>4 DEF BeginRestore
<1>11. CASE VerifySource
  <2>1. txn \in Transaction /\ "faults" \in Budgets /\ UNCHANGED StoreVars
    BY <1>t, <1>11 DEF VerifySource, TypeOK, Budgets
  <2>2. count' \in [Budgets -> Nat]
    BY <1>t, <1>11, <2>1, UseType DEF VerifySource, TypeOK, Throws
  <2>3. txn.op \in Nat
    BY <2>1, MakePendingType
  <2>4. CASE Abandon
    BY <1>t, <1>11, <2>1, <2>2, <2>3, <2>4 DEF VerifySource, StoreVars, TypeOK, Abandon, Answer
  <2>5. CASE pc' = "publish" /\ UNCHANGED <<txn, lease, reply, count>>
    BY <1>t, <1>11, <2>1, <2>5 DEF VerifySource, StoreVars, TypeOK
  <2> QED BY <1>11, <2>4, <2>5 DEF VerifySource
<1>12. CASE PublishPending
  <2>1. beside' \in [Paths -> Beside]
    BY <1>t, <1>12, NothingType DEF PublishPending, TypeOK
  <2> QED BY <1>t, <1>12, <2>1, MakePendingType, SMT DEF PublishPending, TypeOK, Use, Budgets,
          Abandon, Answer, Throws, PublicationUncertain
<1>13. CASE ApplyPath
  <2>1. txn \in Transaction /\ "faults" \in Budgets
    BY <1>t, <1>13 DEF ApplyPath, TypeOK, Budgets
  <2>2. count' \in [Budgets -> Nat]
    BY <1>t, <1>13, <2>1, UseType DEF ApplyPath, TypeOK, Throws
  <2>3. PICK p \in First(txn.todo) :
           \/ /\ live' = [live EXCEPT ![p] = txn.plan.target[p]]
              /\ txn' = [txn EXCEPT !.todo = @ \ {p}]
              /\ UNCHANGED beside
           \/ (UNCHANGED <<live, beside>> \/ Stop) /\ UNCHANGED txn
    BY <1>13 DEF ApplyPath
  <2>4. p \in Paths /\ txn.plan.target[p] \in Bytes
    BY <2>1, <2>3, MakePendingType, PlanType DEF First
  <2>5. live' \in Tree /\ beside' \in [Paths -> Beside]
    BY <1>t, <2>3, <2>4, StopType DEF TypeOK, Tree, IInv, Safe
  <2>6. txn' \in Transaction
    BY <2>1, <2>3 DEF Transaction
  <2>7. pc' \in {"apply", "catch"}
    BY <1>13 DEF ApplyPath
  <2> QED BY <1>t, <1>13, <2>2, <2>5, <2>6, <2>7 DEF ApplyPath, TypeOK
<1>14. CASE PublishHead
  <2> DEFINE planned == PlannedTree(txn.plan, txn.srcTree)
  <2>1. txn \in Transaction /\ "faults" \in Budgets
    BY <1>t, <1>14 DEF PublishHead, TypeOK, Budgets
  <2>2. count' \in [Budgets -> Nat]
    BY <1>t, <1>14, <2>1, UseType DEF PublishHead, TypeOK, Throws
  <2>3. txn.op \in Nat \ {0} /\ planned \in Tree
    BY <2>1, MakePendingType, PlannedTreeType
  <2>4. CASE /\ Commit(planned, txn.op)
             /\ restores' = restores \cup {txn.op}
             /\ own' = [p \in Paths |-> IF p \in txn.plan.paths THEN planned[p] ELSE own[p]]
             /\ pc' \in {"mark", "catch"}
    <3>1. head' \in [ver : Nat, tree : Tree,
    op : Nat] /\ (confirmed' = None \/ confirmed' \in Plan)
      BY <1>t, <2>3, <2>4, CommitType
    <3>2. own' \in [Paths -> Bytes \cup {Foreign}]
      BY <1>t, <2>3, <2>4 DEF TypeOK, Tree
    <3>3. restores' \subseteq Nat \ {0}
      BY <1>t, <2>3, <2>4 DEF TypeOK
    <3> QED BY <1>t, <1>14, <2>2, <2>4, <3>1, <3>2, <3>3 DEF PublishHead, TypeOK
  <2>5. CASE pc' = "catch" /\ UNCHANGED <<head, confirmed, restores, own>>
    BY <1>t, <1>14, <2>2, <2>5 DEF PublishHead, TypeOK
  <2> QED BY <1>14, <2>4, <2>5 DEF PublishHead
<1>15. CASE AppendMarker
  BY <1>t, <1>15, MakePendingType, PlanType, MarkerType, SMT DEF AppendMarker, TypeOK, Use,
     Budgets, Throws
<1>16. CASE VerifyCommitted
  BY <1>t, <1>16, SMT DEF VerifyCommitted, TypeOK, Use, Budgets, Throws, StoreVars
<1>17. CASE ClearCommitted
  BY <1>t, <1>17, MakePendingType, SMT DEF ClearCommitted, TypeOK, Use, Budgets, Throws, Answer
<1>18. CASE Catch
  <2>1. [Idle EXCEPT !.pc = "facts", !.holds = "session"] \in Rec
    BY <1>i
  <2> QED BY <1>t, <2>1, <1>18, SMT DEF Catch, TypeOK, StoreVars
<1>19. CASE StartRecovery
  BY <1>t, <1>i, <1>19, SMT DEF StartRecovery, TypeOK, StoreVars
<1>20. CASE TakeSession
  <2>1. [Idle EXCEPT !.pc = "lease", !.holds = "session"] \in Rec
    BY <1>i
  <2> QED BY <1>t, <2>1, <1>20, SMT DEF TakeSession, TypeOK, StoreVars
<1>21. CASE TakeLease
  BY <1>t, <1>21, SMT DEF TakeLease, TypeOK, StoreVars
<1>22. CASE ReadFacts
  <2>1. CASE \E result : Finish(result)
    BY <1>t, <1>i, <1>22, <2>1, FinishType, SMT DEF ReadFacts, TypeOK, StoreVars
  <2>2. CASE /\ pending # None
             /\ rec' = [rec EXCEPT !.pc = "look", !.todo = pending.paths]
             /\ UNCHANGED <<lease, pc, txn, reply>>
    <3>1. pending.paths \in SUBSET Paths
      BY <1>t, <2>2, PendingType DEF TypeOK
    <3>2. rec' \in Rec
      BY <1>r, <2>2, <3>1
    <3> QED BY <1>t, <1>22, <2>2, <3>2, SMT DEF ReadFacts, TypeOK, StoreVars
  <2>3. CASE rec' = [rec EXCEPT !.pc = "session"] /\ lease' = "free" /\ UNCHANGED <<pc, txn, reply>>
    BY <1>t, <1>22, <2>3, SMT DEF ReadFacts, TypeOK, StoreVars
  <2> QED BY <1>22, <2>1, <2>2, <2>3 DEF ReadFacts
<1>33. CASE LookAtPath
  <2>1. UNCHANGED <<lease, pc, txn, reply>>
    BY <1>33 DEF LookAtPath, Goto
  <2>2. rec' \in Rec
    <3>1. CASE rec' = [rec EXCEPT !.pc = IF HeadIsSource(pending) THEN "rollback" ELSE "complete"]
      BY <1>r, <3>1
    <3>2. ASSUME NEW p \in First(rec.todo),
                 \/ rec' = [rec EXCEPT !.todo = @ \ {p}]
                 \/ rec' = [rec EXCEPT !.pc = "mend", !.view = live[p]]
          PROVE  rec' \in Rec
      <4>1. rec.todo \in SUBSET Paths
        BY <1>r
      <4>2. live[p] \in Bytes
        BY <1>t, <4>1 DEF First, TypeOK, Tree
      <4> QED BY <1>r, <3>2, <4>1, <4>2
    <3> QED BY <1>33, <3>1, <3>2 DEF LookAtPath, Goto
  <2>3. UNCHANGED <<live, beside, head, restores, own, leaf, markers, pending, confirmed, gate,
                    edited, count>>
    BY <1>33 DEF LookAtPath, StoreVars
  <2> HIDE DEF Rec
  <2>4. TypeOK' <=> rec' \in Rec
    <3> USE DEF Rec
    <3> QED BY <1>t, <2>1, <2>3 DEF TypeOK
  <2> QED BY <2>2, <2>4
<1>34. CASE MendPath
  <2>1. CASE Finish("throw") /\ UNCHANGED <<live, beside>>
    BY <1>t, <1>i, <1>34, <2>1, FinishType DEF MendPath, TypeOK
  <2>2. CASE \E p \in First(rec.todo) :
                /\ live' = IF PutsBack(p) THEN [live EXCEPT ![p] = Desired(p)] ELSE live
                /\ beside' = [beside EXCEPT ![p] = Nothing]
                /\ rec' = [rec EXCEPT !.pc = "look", !.todo = @ \ {p}, !.view = Absent]
                /\ UNCHANGED <<lease, pc, txn, reply>>
    <3>1. PICK p \in First(rec.todo) :
                /\ live' = IF PutsBack(p) THEN [live EXCEPT ![p] = Desired(p)] ELSE live
                /\ beside' = [beside EXCEPT ![p] = Nothing]
                /\ rec' = [rec EXCEPT !.pc = "look", !.todo = @ \ {p}, !.view = Absent]
      BY <2>2
    <3>2. pending # None
      BY <1>34 DEF MendPath, IInv, Safe, RecoveryInv
    <3>3. p \in Paths
      BY <1>t, <3>1 DEF First, TypeOK
    <3>4. Desired(p) \in Bytes
      BY <1>t, <3>2, <3>3, DesiredType
    <3>5. live' \in Tree /\ beside' \in [Paths -> Beside]
      BY <1>t, <3>1, <3>4, NothingType DEF TypeOK, Tree
    <3> QED BY <1>t, <1>34, <2>2, <3>1, <3>5, BytesAssumption DEF MendPath, TypeOK
  <2> QED BY <1>34, <2>1, <2>2 DEF MendPath
<1>23. CASE ClassifyForRollback
  <2>1. pending \in PendingRecord
    BY <1>t, <1>23 DEF ClassifyForRollback, IInv, Safe, RecoveryInv, TypeOK
  <2>2. ToUndo(pending) \subseteq Paths
    BY <2>1, PendingType DEF ToUndo
  <2>3. CASE Finish("needs-user")
    BY <1>t, <1>i, <1>23, <2>3, FinishType DEF ClassifyForRollback, TypeOK, StoreVars
  <2>4. CASE /\ rec' = [rec EXCEPT !.pc = "undo", !.todo = ToUndo(pending)]
             /\ UNCHANGED <<lease, pc, txn, reply>>
    <3>1. rec' \in Rec
      BY <1>r, <2>2, <2>4
    <3>2. UNCHANGED <<live, beside, head, restores, own, leaf, markers, pending, confirmed, gate,
                      edited, count>>
      BY <1>23 DEF ClassifyForRollback, StoreVars
    <3> HIDE DEF Rec
    <3>3. TypeOK' <=> rec' \in Rec
      <4> USE DEF Rec
      <4> QED BY <1>t, <2>4, <3>2 DEF TypeOK
    <3> QED BY <3>1, <3>3
  <2> QED BY <1>23, <2>3, <2>4 DEF ClassifyForRollback
<1>24. CASE UndoPath
  <2>1. pending \in PendingRecord
    BY <1>t, <1>24 DEF UndoPath, IInv, Safe, RecoveryInv, TypeOK
  <2>2. PICK p \in Last(rec.todo) :
           \/ /\ live' = [live EXCEPT ![p] = pending.srcTree[p]]
              /\ rec' = [rec EXCEPT !.todo = @ \ {p}]
              /\ UNCHANGED <<lease, pc, txn, reply>>
           \/ Finish("throw") /\ UNCHANGED live
    BY <1>24 DEF UndoPath
  <2>3. CASE Finish("throw") /\ UNCHANGED live
    BY <1>t, <1>i, <1>24, <2>3, FinishType DEF UndoPath, TypeOK
  <2>4. CASE /\ live' = [live EXCEPT ![p] = pending.srcTree[p]]
             /\ rec' = [rec EXCEPT !.todo = @ \ {p}]
             /\ UNCHANGED <<lease, pc, txn, reply>>
    <3>1. p \in Paths /\ pending.srcTree[p] \in Bytes
      BY <1>t, <2>1, <2>2, PendingType DEF TypeOK, Tree, Last
    <3>2. live' \in Tree
      BY <1>t, <2>4, <3>1 DEF TypeOK, Tree
    <3> QED BY <1>t, <1>24, <2>4, <3>2 DEF UndoPath, TypeOK
  <2> QED BY <2>2, <2>3, <2>4
<1>25. CASE VerifyUndone
  BY <1>t, <1>i, <1>25, FinishType, SMT DEF VerifyUndone, TypeOK, Goto, StoreVars
<1>26. CASE ClearUndone
  BY <1>t, <1>i, <1>26, FinishType, SMT DEF ClearUndone, TypeOK, Use, Budgets, Throws
<1>27. CASE ClassifyForCompletion
  BY <1>t, <1>i, <1>27, FinishType, SMT DEF ClassifyForCompletion, TypeOK, Goto, StoreVars
<1>28. CASE CompleteMarker
  <2>1. pending \in PendingRecord
    BY <1>t, <1>28 DEF CompleteMarker, IInv, Safe, RecoveryInv, TypeOK
  <2>2. CASE /\ leaf' = DerivedMarker(pending)
             /\ markers' = markers \cup {pending.op}
             /\ Goto("verify")
    <3>1. leaf' \in [n : Nat, mark : Nat, redo : Partial] /\ markers' \subseteq Nat \ {0}
      BY <1>t, <2>1, <2>2, DerivedMarkerType, PendingType DEF TypeOK
    <3> QED BY <1>t, <1>28, <2>2, <3>1 DEF CompleteMarker, TypeOK, Goto
  <2>3. CASE Finish("throw") /\ UNCHANGED <<leaf, markers>>
    BY <1>t, <1>i, <1>28, <2>3, FinishType DEF CompleteMarker, TypeOK
  <2> QED BY <1>28, <2>2, <2>3 DEF CompleteMarker
<1>29. CASE VerifyCompleted
  BY <1>t, <1>i, <1>29, FinishType, SMT DEF VerifyCompleted, TypeOK, Goto, StoreVars
<1>30. CASE ClearCompleted
  BY <1>t, <1>i, <1>30, FinishType, SMT DEF ClearCompleted, TypeOK, Use, Budgets, Throws
<1>31. CASE RecoveryThrows
  <2>1. live' \in Tree /\ beside' \in [Paths -> Beside]
    BY <1>t, <1>31, StopType DEF RecoveryThrows, IInv, Safe
  <2> QED BY <1>t, <1>i, <1>31, <2>1, FinishType, SMT DEF RecoveryThrows, TypeOK, Use, Budgets,
          Throws
<1>32. CASE UNCHANGED vars
  BY <1>t, <1>32 DEF vars, TypeOK
<1> QED
  BY <1>1, <1>2, <1>3, <1>4, <1>5, <1>6, <1>7, <1>8, <1>9, <1>10, <1>11,
     <1>12, <1>13, <1>14, <1>15, <1>16, <1>17, <1>18, <1>19, <1>20, <1>21, <1>22,
     <1>23, <1>24, <1>25, <1>26, <1>27, <1>28, <1>29, <1>30, <1>31, <1>32,
     <1>33, <1>34
     DEF Next, Environment, Preview, Executor, Recovery


\* A step that leaves the stores, the leases and the control state alone keeps what
\* relates them.
LEMMA QuietStep ==
    ASSUME Safe, count'["ops"] = count["ops"],
           UNCHANGED <<head, restores, leaf, markers, pending, lease, pc, txn, rec, reply>>
    PROVE  Safe'
BY DEF Safe, LeaseInv, OpsInv, ExecutorInv, RecoveryInv, HeadInv,
         MarkerAfterCommit, CommittedOrPending, ReplyTruthful,
       HeadIsSource, HeadIsPlanned, MakePending, PlannedTree

\* Recovery may end without a decision at any point: the record stays.
LEMMA FinishKeepsRecord ==
    ASSUME IInv, NEW result \in {"none", "throw", "needs-user"}, Finish(result),
           rec.pc \notin Waiting, count'["ops"] = count["ops"],
           UNCHANGED <<head, restores, leaf, markers, pending>>
    PROVE  Safe'
<1>1. TypeOK /\ Safe
  BY DEF IInv
<1>2. rec' = Idle /\ lease' = "free" /\ pc' = "idle"
  BY <1>1, FinishType DEF Safe, LeaseInv, Finish
<1>3. reply' = reply \/ (pc = "recovering" /\ reply' = [op |-> txn.op, result |-> "frozen"])
  BY <1>1, FinishType DEF Told
<1>4. reply'.op <= count["ops"] /\ ReplyTruthful' /\ (reply'.result = "failed" => reply'.op # 0)
  <2>1. CASE reply' = reply
    BY <1>1, <2>1 DEF Safe, OpsInv, ReplyTruthful
  <2>2. CASE pc = "recovering" /\ reply' = [op |-> txn.op, result |-> "frozen"]
    <3>1. txn.op = count["ops"] /\ count["ops"] \in Nat
      BY <1>1, <2>2 DEF Safe, OpsInv, TypeOK, Budgets
    <3> QED BY <2>2, <3>1 DEF ReplyTruthful
  <2> QED BY <1>3, <2>1, <2>2
<1>5. LeaseInv' /\ RecoveryInv' /\ ExecutorInv'
  BY <1>2 DEF Idle, LeaseInv, RecoveryInv, ExecutorInv, Waiting
<1>6. OpsInv' /\ HeadInv' /\ MarkerAfterCommit' /\ CommittedOrPending'
  BY <1>1, <1>2, <1>4 DEF Safe, OpsInv, HeadInv, MarkerAfterCommit, CommittedOrPending
<1> QED BY <1>4, <1>5, <1>6 DEF Safe


\* What recovery and the catch block know of the record they work on.
LEMMA RecordFacts ==
    ASSUME IInv, pending # None
    PROVE  /\ pending \in PendingRecord /\ pending.op \in Nat \ {0} /\ pending.src \in Nat
           /\ pc \in {"catch", "recovering"} => txn.op = pending.op
           /\ HeadIsPlanned(pending) => pending.op \in restores
           /\ HeadIsSource(pending) => pending.op \notin restores \cup markers
<1>1. TypeOK /\ Safe
  BY DEF IInv
<1>2. pending \in PendingRecord /\ pending.op \in Nat \ {0} /\ pending.src \in Nat
  BY <1>1, PendingType DEF TypeOK
<1>3. pc \in {"catch", "recovering"} => txn.op = pending.op
  <2>1. pc \in {"catch", "recovering"} => txn \in Transaction /\ pending = MakePending(txn)
    BY <1>1 DEF TypeOK, Safe, ExecutorInv
  <2> QED BY <2>1, MakePendingType
<1>4. HeadIsPlanned(pending) => pending.op \in restores
  BY <1>1, <1>2 DEF Safe, HeadInv, HeadIsPlanned
<1>5. HeadIsSource(pending) => pending.op \notin restores
  BY <1>1, <1>2 DEF Safe, HeadInv, HeadIsSource
<1>6. markers \subseteq restores
  BY <1>1 DEF Safe, MarkerAfterCommit
<1> QED BY <1>2, <1>3, <1>4, <1>5, <1>6

\* Recovery removes the record of an operation it has completed.
LEMMA FinishCompletes ==
    ASSUME IInv, NEW result \in {"committed", "throw"}, Finish(result),
           rec.pc = "clearPlanned", pending' = None, count'["ops"] = count["ops"],
           UNCHANGED <<head, restores, leaf, markers>>
    PROVE  Safe' /\ pending.op \in restores \cap markers
<1>1. TypeOK /\ Safe
  BY DEF IInv
<1>2. pending # None /\ HeadIsPlanned(pending) /\ leaf.mark = pending.op
  BY <1>1 DEF Safe, RecoveryInv
<1>3. pending.op \in restores \cap markers /\ pending.op \in Nat \ {0}
  BY <1>1, <1>2, RecordFacts DEF Safe, HeadInv
<1>4. rec' = Idle /\ lease' = "free" /\ pc' = "idle"
  BY <1>1, FinishType DEF Safe, LeaseInv, Finish, Waiting
<1>5. \/ reply' = reply
      \/ /\ pc = "recovering" /\ txn.op = pending.op
         /\ reply'.op = txn.op /\ reply'.result \in {"committed", "frozen"}
  BY <1>1, <1>2, RecordFacts, FinishType DEF Told
<1>6. ReplyTruthful' /\ reply'.op <= count["ops"] /\ (reply'.result = "failed" => reply'.op # 0)
  <2>1. CASE reply' = reply
    BY <1>1, <2>1 DEF Safe, OpsInv, ReplyTruthful, None
  <2>2. CASE reply' # reply
    BY <1>1, <1>3, <1>5, <2>2 DEF Safe, OpsInv, ReplyTruthful
  <2> QED BY <2>1, <2>2
<1>7. LeaseInv' /\ RecoveryInv' /\ ExecutorInv'
  BY <1>4 DEF Idle, LeaseInv, RecoveryInv, ExecutorInv, Waiting
<1>8. OpsInv'
  BY <1>1, <1>4, <1>6 DEF Safe, OpsInv, None, TypeOK, Budgets
<1>9. HeadInv' /\ MarkerAfterCommit' /\ CommittedOrPending'
  BY <1>1, <1>3 DEF Safe, HeadInv, MarkerAfterCommit, CommittedOrPending
<1> QED BY <1>3, <1>6, <1>7, <1>8, <1>9 DEF Safe

\* Recovery removes the record of an operation it has undone.
LEMMA FinishUndoes ==
    ASSUME IInv, NEW result \in {"not-committed", "throw"}, Finish(result),
           rec.pc = "clearSource", pending' = None, count'["ops"] = count["ops"],
           UNCHANGED <<head, restores, leaf, markers>>
    PROVE  Safe' /\ pending.op \notin restores \cup markers /\ head.ver = pending.src
<1>1. TypeOK /\ Safe
  BY DEF IInv
<1>2. pending # None /\ HeadIsSource(pending)
  BY <1>1 DEF Safe, RecoveryInv
<1>3. pending.op \notin restores \cup markers /\ pending.op \in Nat \ {0}
      /\ head.ver = pending.src
  BY <1>2, RecordFacts DEF HeadIsSource
<1>4. rec' = Idle /\ lease' = "free" /\ pc' = "idle"
  BY <1>1, FinishType DEF Safe, LeaseInv, Finish, Waiting
<1>5. \/ reply' = reply
      \/ /\ pc = "recovering" /\ txn.op = pending.op
         /\ reply'.op = txn.op /\ reply'.result \in {"failed", "frozen"}
  BY <1>1, <1>2, RecordFacts, FinishType DEF Told
<1>6. ReplyTruthful' /\ reply'.op <= count["ops"] /\ (reply'.result = "failed" => reply'.op # 0)
  <2>1. CASE reply' = reply
    BY <1>1, <2>1 DEF Safe, OpsInv, ReplyTruthful, None
  <2>2. CASE reply' # reply
    BY <1>1, <1>3, <1>5, <2>2 DEF Safe, OpsInv, ReplyTruthful, None
  <2> QED BY <2>1, <2>2
<1>7. LeaseInv' /\ RecoveryInv' /\ ExecutorInv'
  BY <1>4 DEF Idle, LeaseInv, RecoveryInv, ExecutorInv, Waiting
<1>8. OpsInv'
  BY <1>1, <1>4, <1>6 DEF Safe, OpsInv, None, TypeOK, Budgets
<1>9. HeadInv' /\ MarkerAfterCommit' /\ CommittedOrPending'
  BY <1>1, <1>3 DEF Safe, HeadInv, MarkerAfterCommit, CommittedOrPending
<1> QED BY <1>3, <1>6, <1>7, <1>8, <1>9 DEF Safe


\* The chain may grow by a turn's or an external commit while nobody restores or recovers.
LEMMA ChainGrows ==
    ASSUME TypeOK, Safe, lease \in {"free", "turn"}, lease' \in {"free", "turn"},
           head' = head \/ (head'.ver = head.ver + 1 /\ head'.op = 0),
           UNCHANGED <<restores, leaf, markers, pending, pc, txn, rec, reply>>,
           count'["ops"] = count["ops"]
    PROVE  Safe'
<1>1. pc = "idle" /\ rec.pc \in Waiting
  BY DEF Safe, LeaseInv
<1>2. pending # None => pending.src \in Nat
  BY PendingType DEF TypeOK
<1>3. LeaseInv' /\ OpsInv' /\ ExecutorInv' /\ RecoveryInv'
  BY <1>1 DEF Safe, LeaseInv, OpsInv, ExecutorInv, RecoveryInv, Waiting
<1>4. HeadInv' /\ MarkerAfterCommit' /\ CommittedOrPending' /\ ReplyTruthful'
  BY <1>2 DEF Safe, HeadInv, MarkerAfterCommit, CommittedOrPending, ReplyTruthful, TypeOK
<1> QED BY <1>3, <1>4 DEF Safe

\* The executor gives up before anything durable is written.
LEMMA AbandonKeeps ==
    ASSUME TypeOK, Safe, Abandon, txn.op \notin restores, txn.op \in Nat \ {0},
           pc \in {"verify", "publish"}, pending = None, txn.op = count["ops"],
           UNCHANGED <<head, restores, leaf, markers, pending, rec>>,
           count'["ops"] = count["ops"]
    PROVE  Safe'
<1>1. /\ pc' = "idle" /\ lease' = "free"
      /\ reply'.op = txn.op /\ reply'.result = "failed"
  BY DEF Abandon, Answer
<1>2. rec.pc \in {"idle", "session"} /\ txn.op \notin markers
  BY DEF Safe, LeaseInv, MarkerAfterCommit
<1>3. LeaseInv' /\ OpsInv' /\ ExecutorInv' /\ RecoveryInv'
  BY <1>1, <1>2 DEF Safe, LeaseInv, OpsInv, ExecutorInv, RecoveryInv, Waiting
<1>4. HeadInv' /\ MarkerAfterCommit' /\ CommittedOrPending' /\ ReplyTruthful'
  BY <1>1, <1>2 DEF Safe, HeadInv, MarkerAfterCommit, CommittedOrPending, ReplyTruthful, None
<1> QED BY <1>3, <1>4 DEF Safe

\* Recovery goes on working: what it has seen must hold where it goes.
LEMMA WorkingStep ==
    ASSUME TypeOK, Safe, rec.pc \notin Waiting, rec'.pc \notin Waiting, rec'.holds = rec.holds,
           rec'.pc \in {"rollback", "undo", "clearSource"} =>
               pending # None /\ HeadIsSource(pending),
           rec'.pc \in {"complete", "append", "verify", "clearPlanned"} =>
               pending # None /\ HeadIsPlanned(pending),
           rec'.pc \in {"look", "mend"} =>
               pending # None /\ (HeadIsSource(pending) \/ HeadIsPlanned(pending)),
           rec'.pc = "clearPlanned" => leaf.mark = pending.op,
           count'["ops"] = count["ops"],
           UNCHANGED <<head, restores, leaf, markers, pending, lease, pc, txn, reply>>
    PROVE  Safe'
<1>1. MakePending(txn)' = MakePending(txn)
  BY DEF MakePending, PlannedTree
<1>2. LeaseInv' /\ OpsInv' /\ ExecutorInv'
  BY <1>1 DEF Safe, LeaseInv, OpsInv, ExecutorInv, Waiting
<1>3. RecoveryInv'
  BY DEF RecoveryInv, HeadIsSource, HeadIsPlanned
<1>4. HeadInv' /\ MarkerAfterCommit' /\ CommittedOrPending' /\ ReplyTruthful'
  BY DEF Safe, HeadInv, MarkerAfterCommit, CommittedOrPending, ReplyTruthful
<1> QED BY <1>2, <1>3, <1>4 DEF Safe

\* The same for a step that only moves recovery's control state.
LEMMA GotoStep ==
    ASSUME TypeOK, Safe, NEW label \in {"rollback", "clearSource", "complete", "append", "verify",
                                        "clearPlanned"},
           Goto(label), rec.pc \notin Waiting,
           label \in {"rollback", "clearSource"} => pending # None /\ HeadIsSource(pending),
           label \in {"complete", "append", "verify", "clearPlanned"} =>
               pending # None /\ HeadIsPlanned(pending),
           label = "clearPlanned" => leaf.mark = pending.op,
           UNCHANGED <<head, restores, leaf, markers, pending, count>>
    PROVE  Safe'
<1>1. rec'.pc = label /\ rec'.holds = rec.holds /\ UNCHANGED <<lease, pc, txn, reply>>
  BY DEF Goto, TypeOK
<1>2. label \notin Waiting
  BY DEF Waiting
<1> QED BY <1>1, <1>2, WorkingStep


\* Every step of the system keeps what relates the stores, the leases and the control
\* state.
LEMMA SafeStep == IInv /\ [Next]_vars => Safe'
<1> SUFFICES ASSUME IInv, [Next]_vars PROVE Safe'
  OBVIOUS
<1>t. TypeOK /\ Safe /\ TypeOK'
  BY TypeStep DEF IInv
<1> USE DEF Budgets
<1>q. ASSUME count'["ops"] = count["ops"],
             UNCHANGED <<head, restores, leaf, markers, pending, lease, pc, txn, rec, reply>>
      PROVE  Safe'
  BY <1>t, <1>q, QuietStep
<1>1. ASSUME NEW p \in Paths, NEW b \in Bytes, ExternalEdit(p, b)
      PROVE  Safe'
  BY <1>t, <1>q, <1>1 DEF ExternalEdit, Use, TypeOK
<1>2. CASE SessionAppend
  <2>1. LeaseInv' /\ OpsInv' /\ ExecutorInv' /\ RecoveryInv'
    BY <1>t, <1>2 DEF SessionAppend, Use, SessionHeld, Waiting, HeadIsSource, HeadIsPlanned,
       None, MakePending, TypeOK, Safe, LeaseInv, OpsInv, ExecutorInv, RecoveryInv
  <2>2. HeadInv' /\ MarkerAfterCommit' /\ CommittedOrPending' /\ ReplyTruthful'
    BY <1>t, <1>2 DEF SessionAppend, NoStates, None, TypeOK, Safe, HeadInv, MarkerAfterCommit,
       CommittedOrPending, ReplyTruthful
  <2> QED BY <2>1, <2>2 DEF Safe
<1>3. CASE ToolGate
  BY <1>t, <1>q, <1>3 DEF ToolGate, TypeOK
<1>4. CASE TurnAcquire
  <2>1. head' = head \/ (head'.ver = head.ver + 1 /\ head'.op = 0)
    BY <1>t, <1>4, SynchronizeType DEF TurnAcquire
  <2> QED BY <1>t, <1>4, <2>1, ChainGrows DEF TurnAcquire, Use, TypeOK
<1>5. ASSUME NEW p \in Paths, NEW b \in Bytes, ToolRun(p, b)
      PROVE  Safe'
  BY <1>t, <1>q, <1>5 DEF ToolRun, Use, TypeOK
<1>6. CASE TurnEnd
  <2>1. head' = head \/ (head'.ver = head.ver + 1 /\ head'.op = 0)
    BY <1>6 DEF TurnEnd, Commit
  <2> QED BY <1>t, <1>6, <2>1, ChainGrows DEF TurnEnd
<1>7. CASE Crash
  <2>1. LeaseInv' /\ OpsInv' /\ ExecutorInv' /\ RecoveryInv'
    BY <1>t, <1>7 DEF Crash, Use, Waiting, Idle, None, TypeOK, Safe, LeaseInv, OpsInv,
       ExecutorInv, RecoveryInv
  <2>2. HeadInv' /\ MarkerAfterCommit' /\ CommittedOrPending' /\ ReplyTruthful'
    BY <1>t, <1>7 DEF Crash, NoStates, None, TypeOK, Safe, HeadInv, MarkerAfterCommit,
       CommittedOrPending, ReplyTruthful
  <2> QED BY <2>1, <2>2 DEF Safe
<1>8. ASSUME NEW kind \in {"rewind", "redo"}, NEW S \in SUBSET Paths, NEW target \in [S -> Bytes],
             PreviewNormal(kind, S, target)
      PROVE  Safe'
  BY <1>t, <1>q, <1>8 DEF PreviewNormal, TypeOK
<1>9. ASSUME NEW S \in SUBSET Paths, NEW target \in [S -> Bytes], PreviewForce(S, target)
      PROVE  Safe'
  <2>1. head' = head \/ (head'.ver = head.ver + 1 /\ head'.op = 0)
    BY <1>9 DEF PreviewForce
  <2> QED BY <1>t, <1>9, <2>1, ChainGrows DEF PreviewForce
<1>10. CASE BeginRestore
  <2> DEFINE plan == confirmed
             drift == IF plan.mode = "force" THEN Changed(head.tree, live) ELSE {}
             source == IF drift = {} THEN head
                       ELSE [ver |-> head.ver + 1, tree |-> live, op |-> 0]
  <2>a. /\ pending = None /\ pc = "idle" /\ lease = "free" /\ rec.holds # "session"
        /\ head' = source /\ head'.ver \in Nat /\ head'.op \in {0, head.op}
        /\ UNCHANGED <<restores, leaf, markers, pending, rec, reply>>
    BY <1>t, <1>10 DEF BeginRestore, SessionHeld, TypeOK
  <2>b. \/ /\ lease' = "restore" /\ pc' = "verify" /\ count'["ops"] = count["ops"] + 1
           /\ txn'.op = count'["ops"] /\ txn'.src = head'.ver
        \/ UNCHANGED <<lease, pc, txn, count>>
    BY <1>t, <1>10 DEF BeginRestore, TypeOK, Use
  <2>c. rec.pc \in {"idle", "session"}
    BY <1>t, <2>a DEF Safe, LeaseInv, Waiting, TypeOK
  <2> HIDE DEF plan, drift, source
  <2>1. LeaseInv'
    BY <1>t, <2>a, <2>b, <2>c DEF Safe, LeaseInv, TypeOK, Waiting
  <2>2. ExecutorInv' /\ RecoveryInv'
    BY <1>t, <2>a, <2>b, <2>c DEF Safe, OpsInv, ExecutorInv, RecoveryInv, TypeOK
  <2>3. OpsInv'
    BY <1>t, <2>a, <2>b DEF Safe, OpsInv, TypeOK, None
  <2>4. HeadInv' /\ MarkerAfterCommit' /\ CommittedOrPending' /\ ReplyTruthful'
    BY <1>t, <2>a DEF Safe, HeadInv, MarkerAfterCommit, CommittedOrPending, ReplyTruthful,
       TypeOK
  <2> QED BY <2>1, <2>2, <2>3, <2>4 DEF Safe
<1>11. CASE VerifySource
  <2>a. /\ pc = "verify" /\ pending = None /\ txn.op \notin restores
        /\ txn.op = count["ops"] /\ txn.op \in Nat \ {0} /\ txn \in Transaction
    BY <1>t, <1>11, MakePendingType DEF VerifySource, Safe, ExecutorInv, OpsInv, TypeOK
  <2>b. UNCHANGED <<head, restores, leaf, markers, pending,
  rec>> /\ count'["ops"] = count["ops"]
    BY <1>t, <1>11 DEF VerifySource, StoreVars, Throws, Use, TypeOK
  <2>1. CASE pc' = "publish" /\ UNCHANGED <<txn, lease, reply>>
    BY <1>t, <2>a, <2>b, <2>1 DEF Safe, LeaseInv, OpsInv, ExecutorInv, RecoveryInv, HeadInv,
       MarkerAfterCommit, CommittedOrPending, ReplyTruthful, HeadIsSource, HeadIsPlanned
  <2>2. CASE Abandon
    BY <1>t, <2>a, <2>b, <2>2, AbandonKeeps
  <2> QED BY <1>11, <2>1, <2>2 DEF VerifySource
<1>12. CASE PublishPending
  <2>a. /\ pc = "publish" /\ pending = None /\ txn.op \notin restores /\ head.ver = txn.src
        /\ txn.op = count["ops"] /\ txn.op \in Nat \ {0} /\ txn \in Transaction
        /\ reply.op < txn.op
    BY <1>t, <1>12, MakePendingType DEF PublishPending, Safe, ExecutorInv, OpsInv, TypeOK
  <2>b. UNCHANGED <<head, restores, leaf, markers, rec>> /\ count'["ops"] = count["ops"]
    BY <1>t, <1>12 DEF PublishPending, PublicationUncertain, Throws, Use, TypeOK
  <2>1. CASE /\ pending' = MakePending(txn) /\ pc' \in {"apply", "catch"}
             /\ UNCHANGED <<txn, lease, reply>>
    <3>1. pending'.op = txn.op /\ pending'.src = txn.src /\ MakePending(txn)' = MakePending(txn)
      BY <2>1, <2>a, MakePendingType DEF MakePending, PlannedTree
    <3>2. rec.pc \in {"idle", "session"}
      BY <1>t, <2>a DEF Safe, LeaseInv
    <3>3. LeaseInv' /\ OpsInv' /\ RecoveryInv' /\ ExecutorInv'
      BY <1>t, <2>a, <2>b, <2>1, <3>1, <3>2 DEF Safe, LeaseInv, OpsInv, RecoveryInv,
         ExecutorInv, TypeOK
    <3>4. HeadInv' /\ MarkerAfterCommit' /\ CommittedOrPending' /\ ReplyTruthful'
      BY <1>t, <2>a, <2>b, <2>1, <3>1 DEF Safe, HeadInv, MarkerAfterCommit, CommittedOrPending,
         ReplyTruthful, TypeOK, None
    <3> QED BY <3>3, <3>4 DEF Safe
  <2>2. CASE Abandon /\ UNCHANGED pending
    BY <1>t, <2>a, <2>b, <2>2, AbandonKeeps
  <2>3. CASE Abandon /\ pending' = MakePending(txn)
    <3>1. /\ pc' = "idle" /\ lease' = "free"
          /\ reply'.op = txn.op /\ reply'.result = "failed"
      BY <2>3 DEF Abandon, Answer
    <3>2. /\ pending'.op = txn.op /\ pending'.src = txn.src
          /\ txn.op \notin markers /\ rec.pc \in {"idle", "session"} /\ head.ver \in Nat
      BY <1>t, <2>3, <2>a, MakePendingType DEF Safe, LeaseInv, MarkerAfterCommit, TypeOK
    <3>3. LeaseInv' /\ OpsInv' /\ RecoveryInv' /\ ExecutorInv'
      BY <1>t, <2>a, <2>b, <3>1, <3>2 DEF Safe, LeaseInv, OpsInv, RecoveryInv, ExecutorInv,
         TypeOK, Waiting
    <3>4. HeadInv' /\ MarkerAfterCommit' /\ CommittedOrPending' /\ ReplyTruthful'
      BY <1>t, <2>a, <2>b, <3>1, <3>2 DEF Safe, HeadInv, MarkerAfterCommit, CommittedOrPending,
         ReplyTruthful, TypeOK, None
    <3> QED BY <3>3, <3>4 DEF Safe
  <2> QED BY <2>a, <1>12, <2>1, <2>2, <2>3 DEF PublishPending, PublicationUncertain
<1>13. CASE ApplyPath
  <2>a. /\ pc = "apply" /\ pc' \in {"apply", "catch"} /\ txn \in Transaction
        /\ pending = MakePending(txn) /\ txn.op \notin restores
        /\ UNCHANGED <<head, restores, leaf, markers, pending, lease, rec, reply>>
        /\ count'["ops"] = count["ops"]
    BY <1>t, <1>13 DEF ApplyPath, Safe, ExecutorInv, TypeOK, Throws, Use
  <2>b. \/ txn' = txn
        \/ \E S \in SUBSET Paths : txn' = [txn EXCEPT !.todo = S]
    <3>1. txn.todo \in SUBSET Paths
      BY <2>a, MakePendingType, PlanType
    <3>2. txn' = txn \/ \E p \in First(txn.todo) : txn' = [txn EXCEPT !.todo = @ \ {p}]
      BY <1>13 DEF ApplyPath
    <3> QED BY <3>1, <3>2
  <2>c. /\ txn'.op = txn.op /\ txn'.plan = txn.plan /\ txn'.src = txn.src
        /\ txn'.srcTree = txn.srcTree
    BY <2>a, <2>b DEF Transaction
  <2>d. MakePending(txn)' = MakePending(txn)
    BY <2>c DEF MakePending, PlannedTree
  <2>1. LeaseInv' /\ OpsInv' /\ ExecutorInv'
    BY <1>t, <2>a, <2>c, <2>d DEF Safe, LeaseInv, OpsInv, ExecutorInv
  <2>2. RecoveryInv' /\ HeadInv' /\ MarkerAfterCommit' /\ CommittedOrPending' /\ ReplyTruthful'
    BY <1>t, <2>a DEF Safe, RecoveryInv, HeadInv, MarkerAfterCommit, CommittedOrPending,
       ReplyTruthful, HeadIsSource, HeadIsPlanned
  <2> QED BY <2>1, <2>2 DEF Safe
<1>14. CASE PublishHead
  <2>a. /\ pc = "apply" /\ txn \in Transaction /\ txn.op \in Nat \ {0}
        /\ pending = MakePending(txn) /\ pending.op = txn.op /\ pending.src = txn.src
        /\ txn.op \notin restores /\ txn.op = count["ops"] /\ reply.op < txn.op
    BY <1>t, <1>14, MakePendingType DEF PublishHead, Safe, ExecutorInv, OpsInv, TypeOK
  <2>b. UNCHANGED <<leaf, markers, pending, lease, txn, rec,
  reply>> /\ count'["ops"] = count["ops"]
    BY <1>t, <1>14 DEF PublishHead, Throws, Use, TypeOK
  <2>c. MakePending(txn)' = MakePending(txn)
    BY <2>b DEF MakePending, PlannedTree
  <2>d. rec.pc \in {"idle", "session"}
    BY <1>t, <2>a DEF Safe, LeaseInv
  <2>1. CASE /\ head.ver = txn.src /\ head'.ver = head.ver + 1 /\ head'.op = txn.op
             /\ restores' = restores \cup {txn.op} /\ pc' \in {"mark", "catch"}
    <3>1. LeaseInv' /\ OpsInv' /\ ExecutorInv' /\ RecoveryInv'
      BY <1>t, <2>a, <2>b, <2>c, <2>d, <2>1 DEF Safe, LeaseInv, OpsInv, ExecutorInv,
         RecoveryInv, TypeOK
    <3>2. HeadInv' /\ MarkerAfterCommit' /\ CommittedOrPending' /\ ReplyTruthful'
      BY <1>t, <2>a, <2>b, <2>1 DEF Safe, HeadInv, MarkerAfterCommit, CommittedOrPending,
         ReplyTruthful, TypeOK
    <3> QED BY <3>1, <3>2 DEF Safe
  <2>2. CASE pc' = "catch" /\ UNCHANGED <<head, restores>>
    BY <1>t, <2>a, <2>b, <2>c, <2>d, <2>2 DEF Safe, LeaseInv, OpsInv, ExecutorInv, RecoveryInv,
       HeadInv, MarkerAfterCommit, CommittedOrPending, ReplyTruthful
  <2> QED BY <1>t, <1>14, <2>1, <2>2 DEF PublishHead, Commit
<1>15. CASE AppendMarker
  <2>a. /\ pc = "mark" /\ txn \in Transaction /\ txn.op \in Nat \ {0}
        /\ pending = MakePending(txn) /\ pending.op = txn.op /\ txn.op \in restores
        /\ reply.op < txn.op /\ leaf.n \in Nat
    BY <1>t, <1>15, MakePendingType DEF AppendMarker, Safe, ExecutorInv, OpsInv, TypeOK
  <2>b. /\ UNCHANGED <<head, restores, pending, lease, txn, rec, reply>>
        /\ count'["ops"] = count["ops"]
    BY <1>t, <1>15 DEF AppendMarker, Throws, Use, TypeOK
  <2>c. MakePending(txn)' = MakePending(txn)
    BY <2>b DEF MakePending, PlannedTree
  <2>d. rec.pc \in {"idle", "session"}
    BY <1>t, <2>a DEF Safe, LeaseInv
  <2>1. CASE /\ leaf'.mark = txn.op /\ markers' = markers \cup {txn.op}
             /\ pc' \in {"check", "catch"}
    <3>1. LeaseInv' /\ OpsInv' /\ ExecutorInv' /\ RecoveryInv'
      BY <1>t, <2>a, <2>b, <2>c, <2>d, <2>1 DEF Safe, LeaseInv, OpsInv, ExecutorInv, RecoveryInv
    <3>2. HeadInv' /\ MarkerAfterCommit' /\ CommittedOrPending' /\ ReplyTruthful'
      BY <1>t, <2>a, <2>b, <2>1 DEF Safe, HeadInv, MarkerAfterCommit, CommittedOrPending,
         ReplyTruthful, TypeOK
    <3> QED BY <3>1, <3>2 DEF Safe
  <2>2. CASE pc' = "catch" /\ UNCHANGED <<leaf, markers>>
    BY <1>t, <2>a, <2>b, <2>c, <2>d, <2>2 DEF Safe, LeaseInv, OpsInv, ExecutorInv, RecoveryInv,
       HeadInv, MarkerAfterCommit, CommittedOrPending, ReplyTruthful
  <2> QED BY <1>15, <2>1, <2>2 DEF AppendMarker, Marker
<1>16. CASE VerifyCommitted
  <2>a. /\ pc = "check" /\ pc' \in {"clear", "catch"} /\ (pc' = "clear" => leaf.mark = txn.op)
        /\ UNCHANGED <<head, restores, leaf, markers, pending, lease, txn, rec, reply>>
        /\ count'["ops"] = count["ops"]
    BY <1>t, <1>16 DEF VerifyCommitted, Committed, Marker, StoreVars, Throws, Use, TypeOK
  <2>b. MakePending(txn)' = MakePending(txn)
    BY <2>a DEF MakePending, PlannedTree
  <2>1. LeaseInv' /\ OpsInv' /\ ExecutorInv'
    BY <1>t, <2>a, <2>b DEF Safe, LeaseInv, OpsInv, ExecutorInv
  <2>2. RecoveryInv' /\ HeadInv' /\ MarkerAfterCommit' /\ CommittedOrPending' /\ ReplyTruthful'
    BY <1>t, <2>a DEF Safe, RecoveryInv, HeadInv, MarkerAfterCommit, CommittedOrPending,
       ReplyTruthful, HeadIsSource, HeadIsPlanned
  <2> QED BY <2>1, <2>2 DEF Safe
<1>17. CASE ClearCommitted
  <2>a. /\ pc = "clear" /\ txn \in Transaction /\ txn.op \in Nat \ {0}
        /\ pending = MakePending(txn) /\ pending.op = txn.op /\ txn.op \in restores \cap markers
        /\ txn.op = count["ops"] /\ reply.op < txn.op /\ leaf.mark = txn.op
        /\ rec.pc \in {"idle", "session"} /\ lease = "restore"
    BY <1>t, <1>17, MakePendingType DEF ClearCommitted, Safe, ExecutorInv, OpsInv, LeaseInv,
       TypeOK
  <2>b. UNCHANGED <<head, restores, leaf, markers, rec>> /\ count'["ops"] = count["ops"]
    BY <1>t, <1>17 DEF ClearCommitted, Throws, Use, TypeOK
  <2>1. CASE /\ pending' = None /\ pc' = "idle" /\ lease' = "free"
             /\ reply' = [op |-> txn.op, result |-> "committed"]
    <3>1. reply'.op = txn.op /\ reply'.result = "committed"
      BY <2>1
    <3>2. LeaseInv' /\ OpsInv' /\ ExecutorInv' /\ RecoveryInv'
      BY <1>t, <2>a, <2>b, <2>1, <3>1 DEF Safe, LeaseInv, OpsInv, ExecutorInv, RecoveryInv,
         TypeOK, None, Waiting
    <3>3. HeadInv' /\ MarkerAfterCommit' /\ CommittedOrPending' /\ ReplyTruthful'
      BY <1>t, <2>a, <2>b, <2>1, <3>1 DEF Safe, HeadInv, MarkerAfterCommit, CommittedOrPending,
         ReplyTruthful, TypeOK
    <3> QED BY <3>2, <3>3 DEF Safe
  <2>2. CASE pending' \in {pending, None} /\ pc' = "catch" /\ UNCHANGED <<txn, lease, reply>>
    <3>1. MakePending(txn)' = MakePending(txn)
      BY <2>2 DEF MakePending, PlannedTree
    <3>2. LeaseInv' /\ OpsInv' /\ ExecutorInv' /\ RecoveryInv'
      BY <1>t, <2>a, <2>b, <2>2, <3>1 DEF Safe, LeaseInv, OpsInv, ExecutorInv, RecoveryInv,
         TypeOK, None, Waiting
    <3>3. HeadInv' /\ MarkerAfterCommit' /\ CommittedOrPending'
      BY <1>t, <2>a, <2>b, <2>2 DEF Safe, HeadInv, MarkerAfterCommit, CommittedOrPending, TypeOK
    <3>4. ReplyTruthful'
      BY <1>t, <2>a, <2>b, <2>2 DEF Safe, OpsInv, ReplyTruthful, None
    <3> QED BY <3>2, <3>3, <3>4 DEF Safe
  <2> QED BY <1>17, <2>1, <2>2 DEF ClearCommitted, Answer
<1>18. CASE Catch
  <2>a. /\ UNCHANGED <<head, restores, leaf, markers, pending, txn, reply>>
        /\ count'["ops"] = count["ops"]
    BY <1>18 DEF Catch, StoreVars
  <2>b. MakePending(txn)' = MakePending(txn)
    BY <2>a DEF MakePending, PlannedTree
  <2>1. LeaseInv' /\ RecoveryInv'
    BY <1>t, <1>18, <2>a DEF Catch, TypeOK, Safe, LeaseInv, RecoveryInv, Waiting
  <2>2. ExecutorInv' /\ OpsInv'
    BY <1>t, <1>18, <2>a, <2>b DEF Catch, Safe, ExecutorInv, OpsInv
  <2>3. HeadInv' /\ MarkerAfterCommit' /\ CommittedOrPending' /\ ReplyTruthful'
    BY <1>t, <2>a DEF Safe, HeadInv, MarkerAfterCommit, CommittedOrPending, ReplyTruthful
  <2> QED BY <2>1, <2>2, <2>3 DEF Safe
<1>19. CASE StartRecovery
  <2>a. /\ UNCHANGED <<head, restores, leaf, markers, pending, txn, reply>>
        /\ count'["ops"] = count["ops"]
    BY <1>19 DEF StartRecovery, StoreVars
  <2>b. MakePending(txn)' = MakePending(txn)
    BY <2>a DEF MakePending, PlannedTree
  <2>1. LeaseInv' /\ RecoveryInv'
    BY <1>t, <1>19, <2>a DEF StartRecovery, TypeOK, Safe, LeaseInv, RecoveryInv, Waiting, Idle
  <2>2. ExecutorInv' /\ OpsInv'
    BY <1>t, <1>19, <2>a, <2>b DEF StartRecovery, Safe, ExecutorInv, OpsInv
  <2>3. HeadInv' /\ MarkerAfterCommit' /\ CommittedOrPending' /\ ReplyTruthful'
    BY <1>t, <2>a DEF Safe, HeadInv, MarkerAfterCommit, CommittedOrPending, ReplyTruthful
  <2> QED BY <2>1, <2>2, <2>3 DEF Safe
<1>20. CASE TakeSession
  <2>a. /\ UNCHANGED <<head, restores, leaf, markers, pending, txn, reply>>
        /\ count'["ops"] = count["ops"]
    BY <1>20 DEF TakeSession, StoreVars
  <2>b. MakePending(txn)' = MakePending(txn)
    BY <2>a DEF MakePending, PlannedTree
  <2>1. LeaseInv' /\ RecoveryInv'
    BY <1>t, <1>20, <2>a DEF TakeSession, TypeOK, Safe, LeaseInv, RecoveryInv, Waiting
  <2>2. ExecutorInv' /\ OpsInv'
    BY <1>t, <1>20, <2>a, <2>b DEF TakeSession, Safe, ExecutorInv, OpsInv
  <2>3. HeadInv' /\ MarkerAfterCommit' /\ CommittedOrPending' /\ ReplyTruthful'
    BY <1>t, <2>a DEF Safe, HeadInv, MarkerAfterCommit, CommittedOrPending, ReplyTruthful
  <2> QED BY <2>1, <2>2, <2>3 DEF Safe
<1>21. CASE TakeLease
  <2>a. /\ UNCHANGED <<head, restores, leaf, markers, pending, txn, reply>>
        /\ count'["ops"] = count["ops"]
    BY <1>21 DEF TakeLease, StoreVars
  <2>b. MakePending(txn)' = MakePending(txn)
    BY <2>a DEF MakePending, PlannedTree
  <2>1. LeaseInv' /\ RecoveryInv'
    BY <1>t, <1>21, <2>a DEF TakeLease, TypeOK, Safe, LeaseInv, RecoveryInv, Waiting
  <2>2. ExecutorInv' /\ OpsInv'
    BY <1>t, <1>21, <2>a, <2>b DEF TakeLease, Safe, ExecutorInv, OpsInv
  <2>3. HeadInv' /\ MarkerAfterCommit' /\ CommittedOrPending' /\ ReplyTruthful'
    BY <1>t, <2>a DEF Safe, HeadInv, MarkerAfterCommit, CommittedOrPending, ReplyTruthful
  <2> QED BY <2>1, <2>2, <2>3 DEF Safe
<1>22. CASE ReadFacts
  <2>a. /\ UNCHANGED <<head, restores, leaf, markers, pending, count>>
        /\ rec.pc = "facts" /\ rec.pc \notin Waiting
    BY <1>22 DEF ReadFacts, StoreVars, Waiting
  <2>1. CASE /\ pending # None /\ (HeadIsSource(pending) \/ HeadIsPlanned(pending))
             /\ rec' = [rec EXCEPT !.pc = "look", !.todo = pending.paths]
             /\ UNCHANGED <<lease, pc, txn, reply>>
    <3>1. rec'.pc = "look" /\ rec'.holds = rec.holds
      BY <1>t, <2>1 DEF TypeOK
    <3> QED BY <1>t, <2>a, <2>1, <3>1, WorkingStep DEF Waiting
  <2>2. CASE \E result \in {"none", "throw", "needs-user"} : Finish(result)
    BY <2>a, <2>2, FinishKeepsRecord
  <2>3. CASE /\ rec.holds # "session" /\ rec' = [rec EXCEPT !.pc = "session"]
             /\ lease' = "free" /\ UNCHANGED <<pc, txn, reply>>
    <3>1. MakePending(txn)' = MakePending(txn)
      BY <2>3 DEF MakePending, PlannedTree
    <3>2. pc = "idle" /\ rec'.pc = "session" /\ rec'.holds = "nothing"
      BY <1>t, <2>a, <2>3 DEF Safe, LeaseInv, TypeOK, Waiting
    <3>3. LeaseInv' /\ OpsInv' /\ ExecutorInv' /\ RecoveryInv'
      BY <1>t, <2>a, <2>3, <3>1, <3>2 DEF Safe, LeaseInv, OpsInv, ExecutorInv, RecoveryInv,
         Waiting
    <3>4. HeadInv' /\ MarkerAfterCommit' /\ CommittedOrPending' /\ ReplyTruthful'
      BY <1>t, <2>a, <2>3 DEF Safe, HeadInv, MarkerAfterCommit, CommittedOrPending,
         ReplyTruthful
    <3> QED BY <3>3, <3>4 DEF Safe
  <2> QED BY <1>22, <2>1, <2>2, <2>3 DEF ReadFacts
<1>33. CASE LookAtPath
  <2>a. /\ UNCHANGED <<head, restores, leaf, markers, pending, count>>
        /\ rec.pc = "look" /\ rec.pc \notin Waiting
        /\ pending # None /\ (HeadIsSource(pending) \/ HeadIsPlanned(pending))
    BY <1>t, <1>33 DEF LookAtPath, StoreVars, Waiting, Safe, RecoveryInv
  <2>1. CASE Goto(IF HeadIsSource(pending) THEN "rollback" ELSE "complete")
    <3>1. CASE HeadIsSource(pending)
      BY <1>t, <2>a, <2>1, <3>1, GotoStep
    <3>2. CASE ~HeadIsSource(pending)
      BY <1>t, <2>a, <2>1, <3>2, GotoStep
    <3> QED BY <3>1, <3>2
  <2>2. CASE rec'.pc \in {"look", "mend"} /\ rec'.holds = rec.holds /\ UNCHANGED <<lease, pc, txn, reply>>
    BY <1>t, <2>a, <2>2, WorkingStep DEF Waiting
  <2>3. \/ Goto(IF HeadIsSource(pending) THEN "rollback" ELSE "complete")
        \/ /\ UNCHANGED <<lease, pc, txn, reply>>
           /\ \E p \in First(rec.todo) :
                 \/ rec' = [rec EXCEPT !.todo = @ \ {p}]
                 \/ rec' = [rec EXCEPT !.pc = "mend", !.view = live[p]]
    BY <1>33 DEF LookAtPath
  <2> QED BY <1>t, <2>a, <2>1, <2>2, <2>3 DEF TypeOK
<1>34. CASE MendPath
  <2>a. /\ UNCHANGED <<head, restores, leaf, markers, pending, count>>
        /\ rec.pc = "mend" /\ rec.pc \notin Waiting
        /\ pending # None /\ (HeadIsSource(pending) \/ HeadIsPlanned(pending))
    BY <1>t, <1>34 DEF MendPath, Waiting, Safe, RecoveryInv
  <2>1. CASE Finish("throw")
    BY <2>a, <2>1, FinishKeepsRecord
  <2>2. CASE rec'.pc = "look" /\ rec'.holds = rec.holds /\ UNCHANGED <<lease, pc, txn, reply>>
    BY <1>t, <2>a, <2>2, WorkingStep DEF Waiting
  <2>3. \/ Finish("throw")
        \/ /\ UNCHANGED <<lease, pc, txn, reply>>
           /\ \E p \in First(rec.todo) :
                 rec' = [rec EXCEPT !.pc = "look", !.todo = @ \ {p}, !.view = Absent]
    BY <1>34 DEF MendPath
  <2> QED BY <1>t, <2>1, <2>2, <2>3 DEF TypeOK
<1>23. CASE ClassifyForRollback
  <2>a. /\ UNCHANGED <<head, restores, leaf, markers, pending, count>>
        /\ rec.pc = "rollback" /\ rec.pc \notin Waiting
    BY <1>23 DEF ClassifyForRollback, StoreVars, Waiting
  <2>1. CASE Finish("needs-user")
    BY <2>a, <2>1, FinishKeepsRecord
  <2>2. CASE rec'.pc = "undo" /\ rec'.holds = rec.holds /\ UNCHANGED <<lease, pc, txn, reply>>
    BY <1>t, <2>a, <2>2, WorkingStep DEF Safe, RecoveryInv, Waiting
  <2>3. CASE /\ rec' = [rec EXCEPT !.pc = "undo", !.todo = ToUndo(pending)]
             /\ UNCHANGED <<lease, pc, txn, reply>>
    <3>1. rec'.pc = "undo" /\ rec'.holds = rec.holds
      BY <1>t, <2>3 DEF TypeOK
    <3> QED BY <2>2, <2>3, <3>1
  <2> QED BY <1>23, <2>1, <2>3 DEF ClassifyForRollback
<1>24. CASE UndoPath
  <2>a. /\ UNCHANGED <<head, restores, leaf, markers, pending, count>>
        /\ rec.pc = "undo" /\ rec.pc \notin Waiting
    BY <1>24 DEF UndoPath, Waiting
  <2>1. CASE Finish("throw")
    BY <2>a, <2>1, FinishKeepsRecord
  <2>2. CASE rec'.pc = "undo" /\ rec'.holds = rec.holds /\ UNCHANGED <<lease, pc, txn, reply>>
    BY <1>t, <2>a, <2>2, WorkingStep DEF Safe, RecoveryInv, Waiting
  <2> QED BY <1>t, <1>24, <2>1, <2>2 DEF UndoPath, TypeOK
<1>25. CASE VerifyUndone
  <2>a. /\ UNCHANGED <<head, restores, leaf, markers, pending, count>>
        /\ rec.pc = "undo" /\ rec.pc \notin Waiting
    BY <1>25 DEF VerifyUndone, StoreVars, Waiting
  <2>1. CASE Finish("throw")
    BY <2>a, <2>1, FinishKeepsRecord
  <2>2. CASE Goto("clearSource")
    BY <1>t, <2>a, <2>2, GotoStep DEF Safe, RecoveryInv
  <2> QED BY <1>25, <2>1, <2>2 DEF VerifyUndone
<1>26. CASE ClearUndone
  <2>a. /\ UNCHANGED <<head, restores, leaf, markers>>
        /\ rec.pc = "clearSource" /\ rec.pc \notin Waiting
    BY <1>26 DEF ClearUndone, Waiting
  <2>b. count'["ops"] = count["ops"]
    BY <1>t, <1>26 DEF ClearUndone, Throws, Use, TypeOK
  <2>1. CASE pending' = None /\ \E result \in {"not-committed", "throw"} : Finish(result)
    BY <2>a, <2>b, <2>1, FinishUndoes
  <2>2. CASE UNCHANGED pending /\ Finish("throw")
    BY <2>a, <2>b, <2>2, FinishKeepsRecord
  <2> QED BY <1>26, <2>1, <2>2 DEF ClearUndone
<1>27. CASE ClassifyForCompletion
  <2>a. /\ UNCHANGED <<head, restores, leaf, markers, pending, count>>
        /\ rec.pc = "complete" /\ rec.pc \notin Waiting
    BY <1>27 DEF ClassifyForCompletion, StoreVars, Waiting
  <2>1. CASE Finish("needs-user")
    BY <2>a, <2>1, FinishKeepsRecord
  <2>2. CASE Goto("verify") \/ Goto("append")
    BY <1>t, <2>a, <2>2, GotoStep DEF Safe, RecoveryInv
  <2> QED BY <1>27, <2>1, <2>2 DEF ClassifyForCompletion
<1>28. CASE CompleteMarker
  <2>a. /\ UNCHANGED <<head, restores, pending, count>>
        /\ rec.pc = "append" /\ rec.pc \notin Waiting
        /\ pending # None /\ HeadIsPlanned(pending)
    BY <1>t, <1>28 DEF CompleteMarker, Waiting, Safe, RecoveryInv
  <2>1. CASE Finish("throw") /\ UNCHANGED <<leaf, markers>>
    BY <2>a, <2>1, FinishKeepsRecord
  <2>2. CASE /\ leaf' = DerivedMarker(pending) /\ markers' = markers \cup {pending.op}
             /\ Goto("verify")
    <3>1. /\ leaf'.mark = pending.op /\ pending.op \in restores /\ pending.op \in Nat \ {0}
          /\ pc \in {"catch", "recovering"} => txn.op = pending.op
          /\ pending \in PendingRecord
      BY <2>a, <2>2, RecordFacts, DerivedMarkerType
    <3>2. rec'.pc = "verify" /\ rec'.holds = rec.holds /\ UNCHANGED <<lease, pc, txn, reply>>
      BY <1>t, <2>2 DEF Goto, TypeOK
    <3>3. MakePending(txn)' = MakePending(txn)
      BY <3>2 DEF MakePending, PlannedTree
    <3>4. pc \in {"idle", "recovering"}
      BY <1>t, <2>a DEF Safe, LeaseInv
    <3>5. LeaseInv' /\ OpsInv' /\ ExecutorInv' /\ RecoveryInv'
      BY <1>t, <2>a, <2>2, <3>1, <3>2, <3>3, <3>4 DEF Safe, LeaseInv, OpsInv, ExecutorInv,
         RecoveryInv, HeadIsPlanned, Waiting
    <3>6. HeadInv' /\ MarkerAfterCommit' /\ CommittedOrPending' /\ ReplyTruthful'
      BY <1>t, <2>a, <2>2, <3>1, <3>2, RecordFacts DEF Safe, HeadInv, MarkerAfterCommit, CommittedOrPending,
         ReplyTruthful
    <3> QED BY <3>5, <3>6 DEF Safe
  <2> QED BY <1>28, <2>1, <2>2 DEF CompleteMarker
<1>29. CASE VerifyCompleted
  <2>a. /\ UNCHANGED <<head, restores, leaf, markers, pending, count>>
        /\ rec.pc = "verify" /\ rec.pc \notin Waiting
    BY <1>29 DEF VerifyCompleted, StoreVars, Waiting
  <2>1. CASE Finish("throw")
    BY <2>a, <2>1, FinishKeepsRecord
  <2>2. CASE MarkerIsExact(pending) /\ Goto("clearPlanned")
    <3>1. pending # None /\ leaf.mark = pending.op
      BY <1>t, <2>a, <2>2, RecordFacts, DerivedMarkerType DEF Safe, RecoveryInv, MarkerIsExact
    <3> QED BY <1>t, <2>a, <2>2, <3>1, GotoStep DEF Safe, RecoveryInv
  <2> QED BY <1>29, <2>1, <2>2 DEF VerifyCompleted
<1>30. CASE ClearCompleted
  <2>a. /\ UNCHANGED <<head, restores, leaf, markers>>
        /\ rec.pc = "clearPlanned" /\ rec.pc \notin Waiting
    BY <1>30 DEF ClearCompleted, Waiting
  <2>b. count'["ops"] = count["ops"]
    BY <1>t, <1>30 DEF ClearCompleted, Throws, Use, TypeOK
  <2>1. CASE pending' = None /\ \E result \in {"committed", "throw"} : Finish(result)
    BY <2>a, <2>b, <2>1, FinishCompletes
  <2>2. CASE UNCHANGED pending /\ Finish("throw")
    BY <2>a, <2>b, <2>2, FinishKeepsRecord
  <2> QED BY <1>30, <2>1, <2>2 DEF ClearCompleted
<1>31. CASE RecoveryThrows
  <2>a. UNCHANGED <<head, restores, leaf, markers, pending>> /\ rec.pc \notin Waiting
    BY <1>31 DEF RecoveryThrows, Waiting, StoreVars
  <2>b. count'["ops"] = count["ops"] /\ Finish("throw")
    BY <1>t, <1>31 DEF RecoveryThrows, Throws, Use, TypeOK
  <2> QED BY <2>a, <2>b, FinishKeepsRecord
<1>32. CASE UNCHANGED vars
  BY <1>q, <1>32 DEF vars
<1> QED
  BY <1>1, <1>2, <1>3, <1>4, <1>5, <1>6, <1>7, <1>8, <1>9, <1>10, <1>11,
     <1>12, <1>13, <1>14, <1>15, <1>16, <1>17, <1>18, <1>19, <1>20, <1>21, <1>22,
     <1>23, <1>24, <1>25, <1>26, <1>27, <1>28, <1>29, <1>30, <1>31, <1>32,
     <1>33, <1>34
     DEF Next, Environment, Preview, Executor, Recovery


\* The initial states: nothing is pending and nobody works.
LEMMA InitInv == Init => IInv
<1> SUFFICES ASSUME Init PROVE IInv
  OBVIOUS
<1>1. live \in Tree /\ head.ver = 0 /\ head.op = 0 /\ head \in [ver : Nat, tree : Tree, op : Nat]
  BY DEF Init
<1>2. leaf \in [n : Nat, mark : Nat, redo : Partial] /\ leaf.mark = 0
  BY NoStatesType DEF Init
<1>3. own \in [Paths -> Bytes \cup {Foreign}]
  BY DEF Init, Tree
<1>4. count \in [Budgets -> Nat] /\ count["ops"] = 0
  BY DEF Init, Budgets
<1>5. reply \in [op : Nat, result : {"none", "committed", "failed", "frozen"}]
      /\ reply.op = 0 /\ reply.result = "none"
  BY DEF Init
<1>6. rec \in [pc : {"idle", "session", "lease", "facts", "look", "mend", "rollback", "undo",
                     "clearSource", "complete", "append", "verify", "clearPlanned"},
               holds : {"nothing", "session"}, todo : SUBSET Paths, view : Bytes]
      /\ rec.pc = "idle" /\ rec.holds = "nothing"
  BY BytesAssumption DEF Init, Idle
<1>a. beside \in [Paths -> Beside]
  BY NothingType DEF Init
<1>7. TypeOK
  BY <1>1, <1>2, <1>3, <1>4, <1>5, <1>6, <1>a DEF Init, TypeOK
<1>8. LeaseInv /\ OpsInv /\ ExecutorInv /\ RecoveryInv /\ HeadInv
  BY <1>1, <1>2, <1>4, <1>5, <1>6 DEF Init, LeaseInv, OpsInv, ExecutorInv, RecoveryInv, HeadInv,
     None, Waiting
<1>9. MarkerAfterCommit /\ CommittedOrPending /\ ReplyTruthful
  BY <1>5 DEF Init, MarkerAfterCommit, CommittedOrPending, ReplyTruthful
<1> QED BY <1>7, <1>8, <1>9 DEF IInv, Safe

\* IInv is an invariant of the restore protocol: the strengthening every theorem below
\* rests on.
THEOREM Invariance == Spec => []IInv
<1>1. IInv /\ [Next]_vars => IInv'
  BY TypeStep, SafeStep DEF IInv
<1> QED BY InitInv, <1>1, PTL DEF Spec

\* Type correctness, and that the executor's locals exist exactly while it runs.
THEOREM TypeCorrect == Spec => []TypeOK
<1>1. IInv => TypeOK
  BY DEF IInv
<1> QED BY Invariance, <1>1, PTL

\* The conversation never gets the marker of a restore whose commit is not on the chain
\* (the order of publishPrepared and appendEntries, in the executor and in recovery).
THEOREM MarkersFollowCommits == Spec => []MarkerAfterCommit
<1>1. IInv => MarkerAfterCommit
  BY DEF IInv, Safe
<1> QED BY Invariance, <1>1, PTL

\* A restore whose commit is on the chain has its marker, or its record is still there.
THEOREM NoRestoreIsLost == Spec => []CommittedOrPending
<1>1. IInv => CommittedOrPending
  BY DEF IInv, Safe
<1> QED BY Invariance, <1>1, PTL

\* What executeUnderLease answers is true, then and for ever.
THEOREM RepliesAreTrue == Spec => []ReplyTruthful
<1>1. IInv => ReplyTruthful
  BY DEF IInv, Safe
<1> QED BY Invariance, <1>1, PTL

-----------------------------------------------------------------------------
(* Steps of the three stores *)

\* The only steps that write the record, the chain's restores or the markers.
LEMMA StoreSteps ==
    ASSUME [Next]_vars
    PROVE  \/ UNCHANGED <<pending, restores, markers>>
           \/ PublishPending \/ PublishHead \/ AppendMarker \/ ClearCommitted
           \/ CompleteMarker \/ ClearUndone \/ ClearCompleted
<1>1. CASE Environment
  BY <1>1 DEF Environment, ExternalEdit, SessionAppend, ToolGate, TurnAcquire, ToolRun,
     TurnEnd, Crash
<1>2. CASE Preview
  BY <1>2 DEF Preview, PreviewNormal, PreviewForce
<1>3. CASE BeginRestore
  BY <1>3 DEF BeginRestore
<1>4. CASE Executor
  BY <1>4 DEF Executor, VerifySource, ApplyPath, VerifyCommitted, Catch, StoreVars
<1>5. CASE StartRecovery \/ RecoveryThrows
  BY <1>5 DEF StartRecovery, RecoveryThrows, StoreVars
<1>6. CASE Recovery
  BY <1>6 DEF Recovery, TakeSession, TakeLease, ReadFacts, LookAtPath, MendPath,
     ClassifyForRollback, UndoPath, VerifyUndone, ClassifyForCompletion, VerifyCompleted, StoreVars
<1>7. CASE UNCHANGED vars
  BY <1>7 DEF vars
<1> QED BY <1>1, <1>2, <1>3, <1>4, <1>5, <1>6, <1>7 DEF Next

\* Each removal of the record decides its operation.
LEMMA RemovalDecides ==
    ASSUME IInv, [Next]_vars, pending # None, pending' = None
    PROVE  /\ UNCHANGED <<head, restores, markers, leaf>>
           /\ \/ pending.op \in restores \cap markers /\ leaf.mark = pending.op
              \/ pending.op \notin restores \cup markers /\ head.ver = pending.src
<1>1. TypeOK /\ Safe
  BY DEF IInv
<1>2. pc \in {"publish", "apply", "mark", "clear"} => txn \in Transaction
  BY <1>1 DEF TypeOK
<1>3. MakePending(txn) # None \/ txn \notin Transaction
  BY MakePendingType, PendingType
<1>4. CASE ClearCommitted
  <2>1. pending = MakePending(txn) /\ txn.op \in restores \cap markers /\ leaf.mark = txn.op
    BY <1>1, <1>4 DEF ClearCommitted, Safe, ExecutorInv
  <2>2. pending.op = txn.op
    BY <1>2, <1>4, <2>1, MakePendingType DEF ClearCommitted
  <2> QED BY <1>4, <2>1, <2>2 DEF ClearCommitted
<1>5. CASE ClearUndone
  <2>1. HeadIsSource(pending)
    BY <1>1, <1>5 DEF ClearUndone, Safe, RecoveryInv
  <2> QED BY <1>5, <2>1, RecordFacts DEF ClearUndone, HeadIsSource
<1>6. CASE ClearCompleted
  <2>1. HeadIsPlanned(pending) /\ leaf.mark = pending.op
    BY <1>1, <1>6 DEF ClearCompleted, Safe, RecoveryInv
  <2>2. pending.op \in restores \cap markers
    BY <1>1, <2>1, RecordFacts DEF Safe, HeadInv
  <2> QED BY <1>6, <2>1, <2>2 DEF ClearCompleted
<1>7. CASE PublishPending
  BY <1>2, <1>3, <1>7 DEF PublishPending
<1>8. CASE UNCHANGED pending
  BY <1>8
<1> QED BY <1>4, <1>5, <1>6, <1>7, <1>8, StoreSteps DEF PublishHead, AppendMarker, CompleteMarker

\* pending.json is removed only when the operation is whole or undone.
THEOREM RecordClearedOnlyWhenDecided == Spec => ClearedOnlyWhenDecided
<1>1. IInv /\ [Next]_vars =>
        [pending # None /\ pending' = None =>
            \/ pending.op \in restores' \cap markers' /\ leaf'.mark = pending.op
            \/ pending.op \notin restores' \cup markers' /\ head'.ver = pending.src]_vars
  BY RemovalDecides
<1> QED BY Invariance, <1>1, PTL DEF Spec, ClearedOnlyWhenDecided

-----------------------------------------------------------------------------
(* The refinement *)

\* Every step of the protocol is a step of the atomic restore, or none.
LEMMA AtomicStep ==
    ASSUME IInv, [Next]_vars
    PROVE  [Atomic!Next]_<<pending.op, restores \ {pending.op}, markers \ {pending.op}>>
<1>1. TypeOK /\ Safe /\ TypeOK'
  BY TypeStep DEF IInv
<1>2. 0 \notin restores /\ 0 \notin markers /\ markers \subseteq restores
  BY <1>1 DEF TypeOK, Safe, MarkerAfterCommit
<1>3. None.op = 0
  BY DEF None
<1>4. pc \in {"publish", "apply", "mark", "clear"} =>
         txn \in Transaction /\ txn.op \in Nat \ {0} /\ MakePending(txn).op = txn.op
  BY <1>1, MakePendingType DEF TypeOK
<1>5. CASE UNCHANGED <<pending, restores, markers>>
  BY <1>5
<1>6. CASE PublishPending /\ pending' # pending
  <2>1. pending = None /\ pending'.op = txn.op /\ txn.op \in Nat \ {0} /\ txn.op \notin restores
        /\ UNCHANGED <<restores, markers>>
    BY <1>1, <1>4, <1>6 DEF PublishPending, Safe, ExecutorInv
  <2>2. Atomic!Open
    BY <1>2, <1>3, <2>1 DEF Atomic!Open
  <2> QED BY <2>2 DEF Atomic!Next
<1>7. CASE (PublishHead \/ AppendMarker) /\ UNCHANGED pending
  <2>1. pending.op = txn.op
    BY <1>1, <1>4, <1>7 DEF PublishHead, AppendMarker, Safe, ExecutorInv
  <2>2. restores' \in {restores, restores \cup {txn.op}}
      /\ markers' \in {markers, markers \cup {txn.op}}
    BY <1>7 DEF PublishHead, AppendMarker
  <2> QED BY <1>7, <2>1, <2>2
<1>8. CASE CompleteMarker
  BY <1>8 DEF CompleteMarker
<1>9. CASE pending # None /\ pending' = None
  <2>1. UNCHANGED <<restores, markers>> /\ pending.op \in Nat \ {0}
    BY <1>9, RemovalDecides, RecordFacts
  <2>2. CASE pending.op \in restores \cap markers
    <3>1. Atomic!Commit
      BY <1>2, <1>3, <1>9, <2>1, <2>2 DEF Atomic!Commit
    <3> QED BY <3>1 DEF Atomic!Next
  <2>3. CASE pending.op \notin restores \cup markers
    <3>1. Atomic!Abort
      BY <1>2, <1>3, <1>9, <2>1, <2>3 DEF Atomic!Abort
    <3> QED BY <3>1 DEF Atomic!Next
  <2> QED BY <1>9, <2>2, <2>3, RemovalDecides
<1> QED
  BY <1>5, <1>6, <1>7, <1>8, <1>9, StoreSteps
     DEF PublishPending, PublishHead, AppendMarker, ClearCommitted, ClearUndone, ClearCompleted

\* The executor and recovery implement the atomic restore of AtomicRestore: chain and
\* conversation change together, when the record goes, or not at all.
THEOREM RestoreIsAtomic == Spec => ImplementsAtomicRestore
<1>1. Init => Atomic!Init
  BY DEF Init, Atomic!Init, None
<1>2. IInv /\ [Next]_vars =>
        [Atomic!Next]_<<pending.op, restores \ {pending.op}, markers \ {pending.op}>>
  BY AtomicStep
<1> QED BY Invariance, <1>1, <1>2, PTL DEF Spec, ImplementsAtomicRestore, Atomic!Spec

-----------------------------------------------------------------------------
(* The files *)

\* What a plan says was seen on its paths is in a commit: while a confirmation is
\* outstanding on every path that no commit has changed since, from the begin of the
\* transaction on all of them; for a forced plan, once verifySourceStates has passed.
SeenInv ==
    /\ pc # "idle" => confirmed = None
    /\ confirmed # None /\ confirmed.mode = "normal" =>
           \A p \in confirmed.paths \ confirmed.overlap : confirmed.seen[p] = own[p]
    /\ pc \in {"verify", "publish", "apply"} /\ txn.plan.mode = "normal" =>
           \A p \in txn.plan.paths : txn.plan.seen[p] = own[p]
    /\ pc \in {"publish", "apply"} /\ txn.plan.mode = "force" =>
           \A p \in txn.plan.paths : txn.plan.seen[p] = txn.srcTree[p]

\* What a verification has found in the files stays true, except where somebody else
\* writes, until the record is removed.
FilesInv ==
    /\ pc = "clear" => \A p \in txn.plan.paths \ edited : live[p] = txn.plan.target[p]
    /\ rec.pc = "clearSource" =>
           \A p \in pending.paths \ edited : live[p] = pending.srcTree[p]
    /\ rec.pc = "clearPlanned" =>
           \A p \in pending.paths \ edited : live[p] = pending.planned[p]

\* Every step keeps what is known of the plans.
LEMMA SeenStep == IInv /\ SeenInv /\ [Next]_vars => SeenInv'
<1> SUFFICES ASSUME IInv, SeenInv, [Next]_vars PROVE SeenInv'
  OBVIOUS
<1>t. TypeOK /\ Safe
  BY DEF IInv
<1>q. ASSUME UNCHANGED <<own, confirmed, pc, txn>>
      PROVE  SeenInv'
  BY <1>q DEF SeenInv
<1>l. ASSUME UNCHANGED <<own, confirmed>>, pc # "idle", pc' \notin {"verify", "publish", "apply"}
      PROVE  SeenInv'
  BY <1>l DEF SeenInv
<1>f. ASSUME NEW result, Finish(result), UNCHANGED <<own, confirmed>>
      PROVE  SeenInv'
  BY <1>q, <1>f DEF Finish, SeenInv
<1>1. CASE \/ \E p \in Paths, b \in Bytes : ExternalEdit(p, b) \/ ToolRun(p, b)
           \/ SessionAppend \/ ToolGate
  BY <1>q, <1>1 DEF ExternalEdit, ToolRun, SessionAppend, ToolGate
<1>2. CASE TurnAcquire
  <2>1. pc = "idle" /\ pc' = "idle" /\ UNCHANGED own
    BY <1>t, <1>2 DEF TurnAcquire, Safe, LeaseInv
  <2>2. CASE UNCHANGED confirmed
    BY <2>1, <2>2 DEF SeenInv
  <2>3. CASE Commit(live, 0)
    <3>1. confirmed' = IF confirmed = None THEN None
                  ELSE [confirmed EXCEPT !.overlap = @ \cup Changed(head.tree, live)]
      BY <2>3 DEF Commit
    <3>2. CASE confirmed = None
      BY <2>1, <3>1, <3>2 DEF SeenInv
    <3>3. CASE confirmed # None
      <4>1. confirmed \in Plan
        BY <1>t, <3>3 DEF TypeOK
      <4>2. /\ confirmed'.mode = confirmed.mode /\ confirmed'.paths = confirmed.paths
            /\ confirmed'.seen = confirmed.seen
            /\ confirmed'.overlap = confirmed.overlap \cup Changed(head.tree, live)
        BY <3>1, <3>3, <4>1 DEF Plan
      <4> QED BY <2>1, <3>3, <4>2 DEF SeenInv
    <3> QED BY <3>2, <3>3
  <2> QED BY <1>2, <2>2, <2>3 DEF TurnAcquire, SynchronizeExternal
<1>3. CASE TurnEnd
  <2>1. pc = "idle" /\ pc' = "idle"
    BY <1>t, <1>3 DEF TurnEnd, Safe, LeaseInv
  <2>2. CASE live = head.tree
    BY <1>3, <2>1, <2>2 DEF TurnEnd, SeenInv
  <2>3. CASE live # head.tree
    <3>1. /\ confirmed' = IF confirmed = None THEN None
                  ELSE [confirmed EXCEPT !.overlap = @ \cup Changed(head.tree, live)]
          /\ own' = [p \in Paths |-> IF live[p] # head.tree[p] THEN Foreign ELSE own[p]]
      BY <1>3, <2>3 DEF TurnEnd, Commit
    <3>2. CASE confirmed = None
      BY <2>1, <3>1, <3>2 DEF SeenInv
    <3>3. CASE confirmed # None
      <4>1. confirmed \in Plan
        BY <1>t, <3>3 DEF TypeOK
      <4>2. /\ confirmed'.mode = confirmed.mode /\ confirmed'.paths = confirmed.paths
            /\ confirmed'.seen = confirmed.seen
            /\ confirmed'.overlap = confirmed.overlap \cup Changed(head.tree, live)
        BY <3>1, <3>3, <4>1 DEF Plan
      <4>3. ASSUME NEW p \in confirmed.paths \ (confirmed.overlap \cup Changed(head.tree, live))
            PROVE  own'[p] = own[p]
        BY <3>1, <4>1, <4>3, PlanType DEF Changed
      <4> QED BY <2>1, <3>3, <4>2, <4>3 DEF SeenInv
    <3> QED BY <3>2, <3>3
  <2> QED BY <2>2, <2>3
<1>4. CASE Crash
  BY <1>4 DEF Crash, SeenInv
<1>5. CASE Preview
  <2>1. PICK S \in SUBSET Paths : \E target \in [S -> Bytes] :
            \/ \E kind \in {"rewind", "redo"} : PreviewNormal(kind, S, target)
            \/ PreviewForce(S, target)
    BY <1>5 DEF Preview
  <2>2. PICK target \in [S -> Bytes] :
            \/ \E kind \in {"rewind", "redo"} : PreviewNormal(kind, S, target)
            \/ PreviewForce(S, target)
    BY <2>1
  <2>3. ASSUME NEW kind \in {"rewind", "redo"}, PreviewNormal(kind, S, target)
        PROVE  SeenInv'
    <3>1. pc' = "idle" /\ UNCHANGED own /\ \A p \in S : live[p] = own[p]
      BY <2>3 DEF PreviewNormal, SessionHeld
    <3>2. confirmed'.paths = S /\ confirmed'.seen = [p \in S |-> live[p]]
      BY <2>3 DEF PreviewNormal, Issue, Restrict
    <3> QED BY <3>1, <3>2 DEF SeenInv
  <2>4. CASE PreviewForce(S, target)
    <3>1. pc' = "idle" /\ confirmed'.mode = "force"
      BY <2>4 DEF PreviewForce, SessionHeld, Issue
    <3> QED BY <3>1 DEF SeenInv
  <2> QED BY <2>2, <2>3, <2>4
<1>6. CASE BeginRestore
  <2>1. confirmed # None /\ confirmed' = None /\ UNCHANGED own /\ pc = "idle"
    BY <1>6 DEF BeginRestore, SessionHeld
  <2>2. CASE pc' = "idle"
    BY <2>1, <2>2 DEF SeenInv
  <2>3. CASE pc' # "idle"
    <3>1. /\ pc' = "verify" /\ txn'.plan = confirmed
          /\ confirmed.overlap \cap confirmed.paths = {}
      BY <1>6, <2>1, <2>3 DEF BeginRestore
    <3> QED BY <2>1, <3>1 DEF SeenInv
  <2> QED BY <2>2, <2>3
<1>7. CASE VerifySource
  <2>1. pc = "verify" /\ UNCHANGED <<own, confirmed>>
    BY <1>7 DEF VerifySource, StoreVars
  <2>2. CASE SourceUnchanged /\ pc' = "publish" /\ UNCHANGED txn
    BY <2>1, <2>2 DEF SourceUnchanged, SeenInv
  <2>3. CASE Abandon
    BY <1>l, <2>1, <2>3 DEF Abandon
  <2> QED BY <1>7, <2>2, <2>3 DEF VerifySource
<1>8. CASE PublishPending
  <2>1. pc = "publish" /\ UNCHANGED <<own, confirmed>>
    BY <1>8 DEF PublishPending
  <2>2. CASE pc' = "apply" /\ UNCHANGED txn
    BY <2>1, <2>2 DEF SeenInv
  <2>3. CASE pc' \in {"catch", "idle"}
    BY <1>l, <2>1, <2>3
  <2> QED BY <1>8, <2>2, <2>3 DEF PublishPending, PublicationUncertain, Abandon
<1>9. CASE ApplyPath
  <2>1. pc = "apply" /\ UNCHANGED <<own, confirmed>> /\ pc' \in {"apply", "catch"}
    BY <1>9 DEF ApplyPath
  <2>2. txn \in Transaction
    BY <1>t, <2>1 DEF TypeOK
  <2>4. txn' = txn \/ \E p \in First(txn.todo) : txn' = [txn EXCEPT !.todo = @ \ {p}]
    BY <1>9 DEF ApplyPath
  <2>3. txn'.plan = txn.plan /\ txn'.srcTree = txn.srcTree
    BY <2>2, <2>4 DEF Transaction
  <2> QED BY <2>1, <2>3 DEF SeenInv
<1>10. CASE PublishHead
  <2>1. pc = "apply" /\ pc' \in {"mark", "catch"} /\ confirmed = None
    BY <1>10 DEF PublishHead, SeenInv
  <2>2. confirmed' = None
    BY <1>10, <2>1 DEF PublishHead, Commit
  <2> QED BY <2>1, <2>2 DEF SeenInv
<1>11. CASE AppendMarker \/ VerifyCommitted \/ ClearCommitted \/ Catch
  <2>1. UNCHANGED <<own, confirmed>> /\ pc # "idle" /\ pc' \notin {"verify", "publish", "apply"}
    BY <1>11 DEF AppendMarker, VerifyCommitted, ClearCommitted, Catch, StoreVars
  <2> QED BY <1>l, <2>1
<1>12. CASE StartRecovery \/ TakeSession \/ TakeLease
  BY <1>q, <1>12 DEF StartRecovery, TakeSession, TakeLease, StoreVars
<1>15. CASE LookAtPath
  BY <1>q, <1>15 DEF LookAtPath, Goto, StoreVars
<1>16. CASE MendPath
  <2>1. /\ UNCHANGED <<own, confirmed>>
        /\ UNCHANGED <<pc, txn>> \/ Finish("throw")
    BY <1>16 DEF MendPath
  <2> QED BY <1>q, <1>f, <2>1
<1>13. CASE \/ ReadFacts \/ ClassifyForRollback \/ UndoPath \/ VerifyUndone \/ ClearUndone
            \/ ClassifyForCompletion \/ CompleteMarker \/ VerifyCompleted \/ ClearCompleted
            \/ RecoveryThrows
  <2>1. /\ UNCHANGED <<own, confirmed>>
        /\ UNCHANGED <<pc, txn>> \/ \E result \in {"none", "throw", "needs-user", "committed",
                                                  "not-committed"} : Finish(result)
    BY <1>13 DEF ReadFacts, ClassifyForRollback, UndoPath, VerifyUndone, ClearUndone,
       ClassifyForCompletion, CompleteMarker, VerifyCompleted, ClearCompleted, RecoveryThrows,
       StoreVars, Goto
  <2> QED BY <1>q, <1>f, <2>1
<1>14. CASE UNCHANGED vars
  BY <1>q, <1>14 DEF vars
<1> QED
  BY <1>1, <1>2, <1>3, <1>4, <1>5, <1>6, <1>7, <1>8, <1>9, <1>10, <1>11, <1>12, <1>13, <1>14,
     <1>15, <1>16
     DEF Next, Environment, Executor, Recovery

\* Every step keeps what a verification has found.
LEMMA FilesStep == IInv /\ FilesInv /\ [Next]_vars => FilesInv'
<1> SUFFICES ASSUME IInv, FilesInv, [Next]_vars PROVE FilesInv'
  OBVIOUS
<1>t. TypeOK /\ Safe
  BY DEF IInv
<1>p. pending # None => pending.paths \subseteq Paths
  BY <1>t, PendingType DEF TypeOK
<1>x. pc # "idle" => txn.plan.paths \subseteq Paths
  BY <1>t, MakePendingType, PlanType DEF TypeOK
<1>n. rec.pc \in {"clearSource", "clearPlanned"} => pending # None
  BY <1>t DEF Safe, RecoveryInv
<1>q. ASSUME UNCHANGED <<live, edited>>,
             pc' # "clear" \/ UNCHANGED <<pc, txn>>,
             rec'.pc \notin {"clearSource", "clearPlanned"} \/ UNCHANGED <<pending, rec>>
      PROVE  FilesInv'
  BY <1>q DEF FilesInv
<1>i. Idle.pc = "idle"
  BY DEF Idle
<1>1. ASSUME NEW p \in Paths, NEW b \in Bytes, ExternalEdit(p, b) \/ ToolRun(p, b)
      PROVE  FilesInv'
  <2>1. /\ live' = [live EXCEPT ![p] = b] /\ edited' = edited \cup {p}
        /\ UNCHANGED <<pc, txn, pending, rec>>
    BY <1>1 DEF ExternalEdit, ToolRun
  <2>2. \A q \in Paths \ edited' : live'[q] = live[q] /\ q \notin edited
    BY <1>t, <2>1 DEF TypeOK, Tree
  <2> QED BY <1>p, <1>x, <1>n, <2>1, <2>2 DEF FilesInv
<1>2. CASE SessionAppend \/ ToolGate \/ TurnAcquire \/ TurnEnd \/ Preview \/ UNCHANGED vars
  <2>1. UNCHANGED <<live, edited, pc, txn, pending, rec>>
    BY <1>2 DEF SessionAppend, ToolGate, TurnAcquire, TurnEnd, Preview, PreviewNormal,
       PreviewForce, vars
  <2> QED BY <1>q, <2>1
<1>w. ASSUME pc' # "clear", rec'.pc \notin {"clearSource", "clearPlanned"}
      PROVE  FilesInv'
  BY <1>w DEF FilesInv
<1>3. CASE Crash
  BY <1>i, <1>w, <1>3 DEF Crash
<1>4. CASE BeginRestore
  BY <1>q, <1>4 DEF BeginRestore
<1>5. CASE VerifySource \/ AppendMarker \/ Catch
  BY <1>q, <1>5 DEF VerifySource, AppendMarker, Catch, StoreVars, Abandon, Idle
<1>18. CASE ClearCommitted
  <2>1. UNCHANGED <<live, edited, rec>> /\ pc = "clear" /\ pc' \in {"idle", "catch"}
    BY <1>18 DEF ClearCommitted
  <2>2. rec.pc \in {"idle", "session"}
    BY <1>t, <2>1 DEF Safe, LeaseInv
  <2> QED BY <1>q, <2>1, <2>2
<1>6. CASE PublishHead
  BY <1>q, <1>6 DEF PublishHead
<1>7. CASE PublishPending
  <2>1. CASE pending # None
    BY <1>q, <1>7, <2>1 DEF PublishPending, Abandon
  <2>2. CASE pending = None
    <3>1. rec'.pc \notin {"clearSource", "clearPlanned"} /\ pc' # "clear"
      BY <1>n, <1>7, <2>2 DEF PublishPending, PublicationUncertain, Abandon
    <3> QED BY <3>1 DEF FilesInv
  <2> QED BY <2>1, <2>2
<1>8. CASE ApplyPath
  <2>1. pc = "apply" /\ pc' \in {"apply", "catch"} /\ UNCHANGED rec
    BY <1>8 DEF ApplyPath
  <2>2. rec.pc \in {"idle", "session"}
    BY <1>t, <2>1 DEF Safe, LeaseInv
  <2> QED BY <2>1, <2>2 DEF FilesInv
<1>9. CASE VerifyCommitted
  <2>1. UNCHANGED <<live, edited, txn, pending, rec>>
    BY <1>9 DEF VerifyCommitted, StoreVars
  <2>2. CASE Committed
    BY <2>1, <2>2 DEF Committed, FilesInv
  <2>3. CASE pc' = "catch"
    BY <1>q, <2>1, <2>3
  <2> QED BY <1>9, <2>2, <2>3 DEF VerifyCommitted
<1>10. CASE StartRecovery \/ TakeSession \/ TakeLease
  BY <1>t, <1>q, <1>10 DEF StartRecovery, TakeSession, TakeLease, StoreVars, Idle, TypeOK
<1>f. ASSUME NEW result, Finish(result), UNCHANGED <<live, edited>>
      PROVE  FilesInv'
  BY <1>i, <1>q, <1>f DEF Finish
<1>g. ASSUME NEW label, Goto(label), rec.pc \notin {"idle"}
      PROVE  rec'.pc = label /\ UNCHANGED <<pc, txn>>
  BY <1>t, <1>g DEF Goto, TypeOK
<1>11. CASE ReadFacts \/ LookAtPath
  <2>1. UNCHANGED <<live, edited>> /\ rec.pc \in {"facts", "look"}
    BY <1>11 DEF ReadFacts, LookAtPath, StoreVars
  <2>2. CASE \E result : Finish(result)
    BY <1>f, <2>1, <2>2
  <2>3. CASE rec'.pc \in {"look", "mend", "rollback", "complete", "session"} /\ UNCHANGED <<pc, txn>>
    BY <1>q, <2>1, <2>3
  <2>4. \/ \E result : Finish(result)
        \/ /\ UNCHANGED <<pc, txn>>
           /\ \/ rec' = [rec EXCEPT !.pc = "look", !.todo = pending.paths]
              \/ rec' = [rec EXCEPT !.pc = "session"]
              \/ Goto(IF HeadIsSource(pending) THEN "rollback" ELSE "complete")
              \/ rec.pc = "look" /\ \E p \in First(rec.todo) : rec' = [rec EXCEPT !.todo = @ \ {p}]
              \/ \E p \in First(rec.todo) : rec' = [rec EXCEPT !.pc = "mend", !.view = live[p]]
    BY <1>11 DEF ReadFacts, LookAtPath, Goto
  <2>5. ASSUME UNCHANGED <<pc, txn>>,
               \/ rec' = [rec EXCEPT !.pc = "look", !.todo = pending.paths]
               \/ rec' = [rec EXCEPT !.pc = "session"]
               \/ rec' = [rec EXCEPT !.pc = IF HeadIsSource(pending) THEN "rollback" ELSE "complete"]
               \/ rec.pc = "look" /\ \E p \in First(rec.todo) : rec' = [rec EXCEPT !.todo = @ \ {p}]
               \/ \E p \in First(rec.todo) : rec' = [rec EXCEPT !.pc = "mend", !.view = live[p]]
        PROVE  rec'.pc \in {"look", "mend", "rollback", "complete", "session"}
    BY <1>t, <2>5 DEF TypeOK
  <2> QED BY <2>2, <2>3, <2>4, <2>5 DEF Goto
<1>19. CASE MendPath
  <2>1. rec.pc = "mend" /\ pc \in {"idle", "recovering"}
    BY <1>t, <1>19 DEF MendPath, Safe, LeaseInv, Waiting
  <2>2. CASE Finish("throw")
    BY <1>i, <1>w, <2>1, <2>2 DEF Finish
  <2>3. CASE /\ UNCHANGED <<pc, txn>>
             /\ \E p \in First(rec.todo) :
                   rec' = [rec EXCEPT !.pc = "look", !.todo = @ \ {p}, !.view = Absent]
    <3>1. rec'.pc = "look"
      BY <1>t, <2>3 DEF TypeOK
    <3> QED BY <1>w, <2>1, <2>3, <3>1
  <2> QED BY <1>19, <2>2, <2>3 DEF MendPath
<1>12. CASE ClassifyForRollback
  <2>1. UNCHANGED <<live, edited>>
    BY <1>12 DEF ClassifyForRollback, StoreVars
  <2>2. CASE rec' = [rec EXCEPT !.pc = "undo", !.todo = ToUndo(pending)] /\ UNCHANGED <<pc, txn>>
    <3>1. rec'.pc = "undo"
      BY <1>t, <2>2 DEF TypeOK
    <3> QED BY <1>q, <2>1, <2>2, <3>1
  <2> QED BY <1>12, <1>f, <2>1, <2>2 DEF ClassifyForRollback
<1>13. CASE UndoPath
  <2>1. rec.pc = "undo" /\ pc \in {"idle", "recovering"} /\ UNCHANGED <<edited, pending>>
    BY <1>t, <1>13 DEF UndoPath, Safe, LeaseInv, Waiting
  <2>2. CASE UNCHANGED <<pc, txn>> /\ rec'.pc = "undo"
    BY <2>1, <2>2 DEF FilesInv
  <2>3. CASE Finish("throw") /\ UNCHANGED live
    BY <1>f, <2>1, <2>3
  <2>4. \/ \E p \in Last(rec.todo) : rec' = [rec EXCEPT !.todo = @ \ {p}] /\ UNCHANGED <<pc, txn>>
        \/ Finish("throw") /\ UNCHANGED live
    BY <1>13 DEF UndoPath
  <2>5. (\E p \in Last(rec.todo) : rec' = [rec EXCEPT !.todo = @ \ {p}]) => rec'.pc = "undo"
    BY <1>t, <2>1 DEF TypeOK
  <2> QED BY <2>2, <2>3, <2>4, <2>5
<1>14. CASE VerifyUndone
  <2>1. UNCHANGED <<live, edited, pending>> /\ rec.pc = "undo"
    BY <1>14 DEF VerifyUndone, StoreVars
  <2>2. CASE AllAre(pending, "before") /\ Goto("clearSource")
    <3>1. rec'.pc = "clearSource" /\ UNCHANGED <<pc, txn>>
      BY <1>g, <2>1, <2>2
    <3>2. \A p \in pending.paths : live[p] = pending.srcTree[p]
      BY <2>2 DEF AllAre, Classify
    <3> QED BY <2>1, <3>1, <3>2 DEF FilesInv
  <2>3. CASE Finish("throw")
    BY <1>f, <2>1, <2>3
  <2> QED BY <1>14, <2>2, <2>3 DEF VerifyUndone
<1>15. CASE ClassifyForCompletion \/ CompleteMarker
  <2>1. UNCHANGED <<live, edited>> /\ rec.pc # "idle"
    BY <1>15 DEF ClassifyForCompletion, CompleteMarker, StoreVars
  <2>2. CASE Goto("verify") \/ Goto("append")
    <3>1. rec'.pc \in {"verify", "append"} /\ UNCHANGED <<pc, txn>>
      BY <1>g, <2>1, <2>2
    <3> QED BY <1>q, <2>1, <3>1
  <2>3. CASE \E result : Finish(result)
    BY <1>f, <2>1, <2>3
  <2> QED BY <1>15, <2>2, <2>3 DEF ClassifyForCompletion, CompleteMarker
<1>16. CASE VerifyCompleted
  <2>1. UNCHANGED <<live, edited, pending>> /\ rec.pc = "verify"
    BY <1>16 DEF VerifyCompleted, StoreVars
  <2>2. CASE AllAre(pending, "target") /\ Goto("clearPlanned")
    <3>1. rec'.pc = "clearPlanned" /\ UNCHANGED <<pc, txn>>
      BY <1>g, <2>1, <2>2
    <3>2. \A p \in pending.paths : live[p] = pending.planned[p]
      BY <2>2 DEF AllAre, Classify
    <3> QED BY <2>1, <3>1, <3>2 DEF FilesInv
  <2>3. CASE Finish("throw")
    BY <1>f, <2>1, <2>3
  <2> QED BY <1>16, <2>2, <2>3 DEF VerifyCompleted
<1>17. CASE ClearUndone \/ ClearCompleted
  BY <1>f, <1>17 DEF ClearUndone, ClearCompleted
<1>20. CASE RecoveryThrows
  <2>1. Finish("throw") /\ rec.pc \notin Waiting
    BY <1>20 DEF RecoveryThrows, Waiting
  <2>2. pc \in {"idle", "recovering"}
    BY <1>t, <2>1 DEF Safe, LeaseInv, Waiting
  <2> QED BY <1>i, <1>w, <2>1, <2>2 DEF Finish
<1> QED
  BY <1>1, <1>2, <1>3, <1>4, <1>5, <1>6, <1>7, <1>8, <1>9, <1>10, <1>11, <1>12, <1>13, <1>14,
     <1>15, <1>16, <1>17, <1>18, <1>19, <1>20
     DEF Next, Environment, Executor, Recovery

\* What is known of the plans and of the files is so at every moment.
LEMMA FilesInvariance == Spec => [](IInv /\ SeenInv /\ FilesInv)
<1>1. Init => SeenInv /\ FilesInv
  BY DEF Init, SeenInv, FilesInv, Idle
<1>2. IInv /\ SeenInv /\ FilesInv /\ [Next]_vars => SeenInv' /\ FilesInv'
  BY SeenStep, FilesStep
<1> QED BY Invariance, <1>1, <1>2, PTL DEF Spec

\* A restore is never torn: when the record goes, every path of it that nobody else wrote
\* to since it was published is at its target if the commit is on the chain, and at the
\* source commit if it is not.  It rests on the last verification before each removal
\* (verifyCommittedState, verifyClassifications) and on the lease: between the two only
\* the user's editor writes.
THEOREM RestoreIsNotTorn == Spec => NoTornRestore
<1>1. ASSUME IInv, FilesInv, [Next]_vars, pending # None, pending' = None
      PROVE  \A p \in pending.paths \ edited' :
                 live'[p] = (IF pending.op \in restores' THEN pending.planned
                                                         ELSE pending.srcTree)[p]
  <2>t. TypeOK /\ Safe
    BY <1>1 DEF IInv
  <2>1. UNCHANGED restores
    BY <1>1, RemovalDecides
  <2>2. CASE ClearCommitted
    <3>1. UNCHANGED <<live, edited>> /\ pc = "clear" /\ pc # "idle"
      BY <2>2 DEF ClearCommitted
    <3>2. txn \in Transaction /\ pending = MakePending(txn) /\ txn.op \in restores
      BY <2>t, <3>1 DEF TypeOK, Safe, ExecutorInv
    <3>3. txn.plan.paths \subseteq Paths /\ pending.op = txn.op
      BY <3>2, MakePendingType, PlanType
    <3>4. /\ pending.paths = txn.plan.paths
          /\ \A p \in pending.paths : pending.planned[p] = txn.plan.target[p]
      BY <3>2, <3>3 DEF MakePending, PlannedTree
    <3>5. \A p \in txn.plan.paths \ edited : live[p] = txn.plan.target[p]
      BY <1>1, <3>1 DEF FilesInv
    <3> QED BY <2>1, <3>1, <3>2, <3>3, <3>4, <3>5
  <2>3. CASE ClearUndone
    <3>1. UNCHANGED <<live, edited>> /\ rec.pc = "clearSource"
      BY <2>3 DEF ClearUndone
    <3>2. pending.op \notin restores
      BY <1>1, <2>t, <3>1, RecordFacts DEF Safe, RecoveryInv
    <3> QED BY <1>1, <2>1, <3>1, <3>2 DEF FilesInv
  <2>4. CASE ClearCompleted
    <3>1. UNCHANGED <<live, edited>> /\ rec.pc = "clearPlanned"
      BY <2>4 DEF ClearCompleted
    <3>2. pending.op \in restores
      BY <1>1, <2>t, <3>1, RecordFacts DEF Safe, RecoveryInv
    <3> QED BY <1>1, <2>1, <3>1, <3>2 DEF FilesInv
  <2>5. ~PublishPending
    <3>1. pc = "publish" => txn \in Transaction
      BY <2>t DEF TypeOK
    <3>2. pc = "publish" => MakePending(txn) # None
      BY <3>1, MakePendingType, PendingType
    <3> QED BY <1>1, <3>2 DEF PublishPending
  <2> QED
    BY <1>1, <2>2, <2>3, <2>4, <2>5, StoreSteps DEF PublishHead, AppendMarker, CompleteMarker
<1>2. IInv /\ FilesInv /\ [Next]_vars =>
        [pending # None /\ pending' = None =>
            \A p \in pending.paths \ edited' :
                live'[p] = (IF pending.op \in restores' THEN pending.planned
                                                        ELSE pending.srcTree)[p]]_vars
  BY <1>1
<1> QED BY FilesInvariance, <1>2, PTL DEF Spec, NoTornRestore

\* What a step takes away from one path: the file, and what is in its quarantine.
Accounted(p) ==
    LET committed == {pending.srcTree[p], pending.planned[p], own[p]} IN
    /\ live'[p] # live[p] =>
          \/ live[p] \in committed
          \/ beside'[p].entry = live[p]
          \/ live[p] = Absent /\ beside[p].entry # Absent
          \/ rec.pc = "mend" /\ live[p] # rec.view
    /\ pending # None /\ beside'[p].entry # beside[p].entry =>
          beside[p].entry \in committed \cup {Absent}

\* The path being replaced holds what a commit holds if it holds what the plan saw there.
LEMMA SeenIsCommitted ==
    ASSUME IInv, SeenInv, pc = "apply", NEW p \in txn.todo
    PROVE  txn.plan.seen[p] \in {pending.srcTree[p], own[p]}
<1>1. TypeOK /\ Safe /\ pc # "idle"
  BY DEF IInv
<1>2. txn \in Transaction /\ pending = MakePending(txn)
  BY <1>1 DEF TypeOK, Safe, ExecutorInv
<1>3. txn.plan \in Plan /\ p \in txn.plan.paths /\ pending.srcTree = txn.srcTree
  BY <1>2, MakePendingType DEF MakePending
<1>4. txn.plan.mode \in {"normal", "force"}
  BY <1>3, PlanType
<1> QED BY <1>3, <1>4 DEF SeenInv

\* What recovery puts in place and what it replaces are the two states of the record.
LEMMA DesiredIsCommitted ==
    ASSUME NEW p
    PROVE  /\ Desired(p) \in {pending.srcTree[p], pending.planned[p]}
           /\ Alternate(p) \in {pending.srcTree[p], pending.planned[p]}
BY DEF Desired, Alternate

\* Whatever is cut short, wherever it is, takes nothing away that is not accounted for.
LEMMA StopIsAccounted ==
    ASSUME IInv, SeenInv, Stop, NEW p \in Paths
    PROVE  Accounted(p)
<1>t. TypeOK /\ Safe /\ live \in Tree /\ beside \in [Paths -> Beside]
  BY DEF IInv, TypeOK
<1>r. rec.pc \in {"undo", "mend"} => pending # None
  BY <1>t DEF Safe, RecoveryInv
<1>1. CASE UNCHANGED <<live, beside>>
  BY <1>1 DEF Accounted
<1>2. ASSUME NEW q \in Paths, NEW left \in [file : Bytes, beside : Beside], Becomes(q, left),
             \/ /\ pc = "apply" /\ q \in txn.todo
                /\ left \in LeftByReplacing(q, txn.plan.seen[q], txn.plan.target[q])
             \/ /\ rec.pc = "undo"
                /\ left \in LeftByReplacing(q, pending.planned[q], pending.srcTree[q])
             \/ rec.pc = "mend" /\ left \in LeftByMending(q)
      PROVE  Accounted(p)
  <2>1. /\ live'[q] = left.file /\ beside'[q] = left.beside
        /\ p # q => live'[p] = live[p] /\ beside'[p] = beside[p]
    BY <1>t, <1>2, BecomesType
  <2>2. CASE p # q
    BY <2>1, <2>2 DEF Accounted
  <2>3. CASE p = q
    <3>1. CASE /\ pc = "apply" /\ q \in txn.todo
               /\ left \in LeftByReplacing(q, txn.plan.seen[q], txn.plan.target[q])
      <4>1. txn \in Transaction
        BY <1>t, <3>1 DEF TypeOK
      <4>2. txn.plan.seen[q] \in Bytes /\ txn.plan.target[q] \in Bytes
        BY <3>1, <4>1, MakePendingType, PlanType
      <4>3. txn.plan.seen[q] \in {pending.srcTree[q], own[q]}
        BY <3>1, SeenIsCommitted
      <4>4. /\ left.file # live[q] => live[q] = txn.plan.seen[q] \/ left.beside.entry = live[q]
            /\ left.beside.entry # beside[q].entry => beside[q].entry = Absent
        BY <1>t, <3>1, <4>2, ReplacingLeaves
      <4> QED BY <2>1, <2>3, <4>3, <4>4 DEF Accounted
    <3>2. CASE /\ rec.pc = "undo"
               /\ left \in LeftByReplacing(q, pending.planned[q], pending.srcTree[q])
      <4>1. pending \in PendingRecord
        BY <1>r, <1>t, <3>2 DEF TypeOK
      <4>2. pending.planned[q] \in Bytes /\ pending.srcTree[q] \in Bytes
        BY <4>1, PendingType DEF Tree
      <4>3. /\ left.file # live[q] => live[q] = pending.planned[q] \/ left.beside.entry = live[q]
            /\ left.beside.entry # beside[q].entry => beside[q].entry = Absent
        BY <1>t, <3>2, <4>2, ReplacingLeaves
      <4> QED BY <2>1, <2>3, <4>3 DEF Accounted
    <3>3. CASE rec.pc = "mend" /\ left \in LeftByMending(q)
      <4>1. Desired(q) \in Bytes
        BY <1>r, <1>t, <3>3, DesiredType
      <4>2. /\ left.file # live[q] => \/ live[q] # rec.view
                                      \/ live[q] = Alternate(q)
                                      \/ live[q] = Absent /\ beside[q].entry # Absent
            /\ left.beside.entry # beside[q].entry =>
                  beside[q].entry \in {Absent, Desired(q), Alternate(q)}
        BY <1>t, <3>3, <4>1, MendingLeaves
      <4> QED BY <2>1, <2>3, <3>3, <4>2, DesiredIsCommitted DEF Accounted
    <3> QED BY <1>2, <3>1, <3>2, <3>3
  <2> QED BY <2>2, <2>3
<1> QED BY <1>1, <1>2, <1>r, <1>t, StopPath

\* Executor and recovery, interrupted or not, take away only what a commit or the quarantine
\* holds: the executor what the plan says was seen (applyCapturedPath's expected state),
\* recovery what the restore has put there or set aside, except that its reconciliation does
\* not notice what was written after it looked (reconcileArtifacts).
THEOREM OverwritesAreCommitted == Spec => OverwrittenBytesAreCommitted
<1>1. ASSUME IInv, SeenInv, Executor \/ Recovery \/ RecoveryThrows \/ Crash, NEW p \in Paths
      PROVE  Accounted(p)
  <2>t. TypeOK /\ Safe
    BY <1>1 DEF IInv
  <2>q. ASSUME UNCHANGED <<live, beside>>
        PROVE  Accounted(p)
    BY <2>q DEF Accounted
  <2>1. CASE ApplyPath
    <3>1. CASE Stop \/ UNCHANGED <<live, beside>>
      BY <1>1, <2>q, <3>1, StopIsAccounted
    <3>2. CASE \E q \in First(txn.todo) : /\ StillExpected(q)
                                          /\ live' = [live EXCEPT ![q] = txn.plan.target[q]]
                                          /\ UNCHANGED beside
      <4>1. PICK q \in First(txn.todo) : /\ StillExpected(q)
                                         /\ live' = [live EXCEPT ![q] = txn.plan.target[q]]
                                         /\ UNCHANGED beside
        BY <3>2
      <4>2. q \in txn.todo /\ pc = "apply"
        BY <2>1, <4>1 DEF First, ApplyPath
      <4>3. live[q] \in {pending.srcTree[q], own[q]}
        BY <1>1, <4>1, <4>2, SeenIsCommitted DEF StillExpected
      <4>4. live'[p] # live[p] => p = q
        BY <2>t, <4>1 DEF TypeOK, Tree
      <4> QED BY <4>1, <4>3, <4>4 DEF Accounted
    <3> QED BY <2>1, <3>1, <3>2 DEF ApplyPath
  <2>2. CASE UndoPath
    <3>1. CASE UNCHANGED live
      BY <2>2, <2>q, <3>1 DEF UndoPath
    <3>2. CASE live' # live
      <4>1. PICK q \in Last(rec.todo) : live[q] = pending.planned[q]
                                        /\ live' = [live EXCEPT ![q] = pending.srcTree[q]]
        BY <2>2, <3>2 DEF UndoPath
      <4>2. UNCHANGED beside
        BY <2>2 DEF UndoPath
      <4>3. live'[p] # live[p] => p = q
        BY <2>t, <4>1 DEF TypeOK, Tree
      <4> QED BY <4>1, <4>2, <4>3 DEF Accounted
    <3> QED BY <3>1, <3>2
  <2>3. CASE MendPath
    <3>1. CASE UNCHANGED <<live, beside>>
      BY <2>q, <3>1
    <3>2. CASE \E q \in First(rec.todo) :
                  /\ Explained(q, rec.view)
                  /\ live' = IF PutsBack(q) THEN [live EXCEPT ![q] = Desired(q)] ELSE live
                  /\ beside' = [beside EXCEPT ![q] = Nothing]
      <4>1. PICK q \in First(rec.todo) :
                  /\ Explained(q, rec.view)
                  /\ live' = IF PutsBack(q) THEN [live EXCEPT ![q] = Desired(q)] ELSE live
                  /\ beside' = [beside EXCEPT ![q] = Nothing]
        BY <3>2
      <4>2. q \in Paths /\ live \in Tree /\ beside \in [Paths -> Beside] /\ rec.pc = "mend"
        BY <2>t, <2>3, <4>1 DEF First, TypeOK, MendPath
      <4>3. CASE p # q
        <5>1. live'[p] = live[p] /\ beside'[p] = beside[p]
          BY <4>1, <4>2, <4>3 DEF Tree
        <5> QED BY <5>1 DEF Accounted
      <4>4. CASE p = q
        <5>1. live'[p] # live[p] => PutsBack(p)
          BY <4>1, <4>4
        <5>2. /\ beside[p].entry \in {Absent, Desired(p), Alternate(p)}
              /\ PutsBack(p) => \/ rec.view = Alternate(p)
                                \/ rec.view = Absent /\ beside[p].entry # Absent
          BY <4>1, <4>4, PutBackIsCommitted
        <5> QED BY <4>2, <5>1, <5>2, DesiredIsCommitted DEF Accounted
      <4> QED BY <4>3, <4>4
    <3> QED BY <2>3, <3>1, <3>2 DEF MendPath
  <2>4. CASE Crash \/ RecoveryThrows
    BY <1>1, <2>4, StopIsAccounted DEF Crash, RecoveryThrows
  <2>5. CASE PublishPending
    <3>1. UNCHANGED live /\ (pending # None => UNCHANGED beside)
      BY <2>5 DEF PublishPending
    <3> QED BY <3>1 DEF Accounted
  <2>6. CASE ~(ApplyPath \/ UndoPath \/ MendPath \/ Crash \/ RecoveryThrows \/ PublishPending)
    <3>1. UNCHANGED <<live, beside>>
      BY <1>1, <2>6
         DEF Executor, VerifySource, PublishHead, AppendMarker, VerifyCommitted,
             ClearCommitted, Catch, Recovery, TakeSession, TakeLease, ReadFacts, LookAtPath,
             ClassifyForRollback, VerifyUndone, ClearUndone, ClassifyForCompletion,
             CompleteMarker, VerifyCompleted, ClearCompleted, StoreVars
    <3> QED BY <2>q, <3>1
  <2> QED BY <2>1, <2>2, <2>3, <2>4, <2>5, <2>6
<1>2. IInv /\ SeenInv /\ [Next]_vars =>
        [Executor \/ Recovery \/ RecoveryThrows \/ Crash => \A p \in Paths : Accounted(p)]_vars
  BY <1>1
<1> QED BY FilesInvariance, <1>2, PTL DEF Spec, OverwrittenBytesAreCommitted, Accounted


=============================================================================
