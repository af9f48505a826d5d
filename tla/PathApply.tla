------------------------------ MODULE PathApply ------------------------------
(***************************************************************************)
(* How one file is replaced, the step WorkspaceRestore takes as atomic.    *)
(* applyCapturedPath starts a worker process that prepares the new bytes   *)
(* beside the file, moves the old file into a quarantine directory, checks *)
(* that it moved what it had looked at, and links the new bytes in.  Each  *)
(* of these is one system call here; the user's editor may replace the     *)
(* file between any two, and the worker may die between any two.           *)
(* Recovery then runs a second worker, reconcileArtifacts, that reads from *)
(* what it finds how far the first one came.                               *)
(*                                                                         *)
(* One path of one operation is modelled, in the rollback direction: a     *)
(* completion starts from a path applied without leftovers, which is       *)
(* SuccessIsClean.  Symbolic links, parent directories, and a writer that  *)
(* keeps a file open while it is moved are left out; an editor replaces    *)
(* the file by name, as a new inode.                                       *)
(***************************************************************************)
EXTENDS Naturals, Sequences, FiniteSets

CONSTANTS
    Bytes,        \* the contents (and mode) a file can have
    Absent,       \* no such name
    Partial,      \* a file whose bytes are not all written
    MaxEdits,     \* bound: the editor's writes
    MaxFaults,    \* bound: system calls of an apply that fail
    MaxDeaths     \* bound: workers that die

ASSUME StatesAssumption == Absent \notin Bytes /\ Partial \notin Bytes /\ Absent # Partial
ASSUME LimitsAssumption == MaxEdits \in Nat /\ MaxFaults \in Nat /\ MaxDeaths \in Nat

States == Bytes \cup {Absent}

VARIABLES
    pre, post,   \* the path in the source and in the result commit
    leaf,        \* the file itself
    prepared,    \* the prepared file beside it
    dir,         \* does the quarantine directory exist
    entry,       \* its one entry
    twin,        \* the name that is a second link to the file: "none", "prepared", "entry"
    from, to,    \* the running apply's expected and target state
    pc,
    script,      \* the system calls the worker has still to make
    view,        \* the file as recovery saw it before it started its worker
    touched,     \* has the editor written since the worker looked at the file
    slip,        \* history: the failure the worker's catch block does not make up for, or "none"
    kept,        \* the editor's bytes that are in no commit and not overwritten by itself
    count        \* how much of each bound is used

vars == <<pre, post, leaf, prepared, dir, entry, twin, from, to, pc, script, view, touched, slip,
          kept, count>>

Files == <<leaf, prepared, dir, entry, twin>>
Clean == prepared = Absent /\ ~dir /\ entry = Absent /\ twin = "none"

Limits == {"edits", "faults", "deaths"}
Use(limit, max) == count[limit] < max /\ count' = [count EXCEPT ![limit] = @ + 1]

Init ==
    /\ pre \in States /\ post \in States \ {pre}
    /\ leaf = pre
    /\ prepared = Absent /\ dir = FALSE /\ entry = Absent /\ twin = "none"
    /\ from = pre /\ to = post
    /\ pc = "ready" /\ script = <<>> /\ view = Absent /\ touched = FALSE
    /\ slip = "none"
    /\ kept = {}
    /\ count = [l \in Limits |-> 0]

\* The editor saves, or removes, the file.
Edit(b) ==
    /\ b # leaf
    /\ Use("edits", MaxEdits)
    /\ leaf' = b
    /\ twin' = "none"
    /\ touched' = TRUE
    /\ kept' = (kept \ {leaf}) \cup ({b} \ {Absent, pre, post})
    /\ UNCHANGED <<pre, post, prepared, dir, entry, from, to, pc, script, view, slip>>

-----------------------------------------------------------------------------
(* The worker's system calls *)

\* Mutant: the new bytes are renamed over whatever is there.
Possible_Overwrite(call) ==
    CASE call \in {"quarantine", "unlinkLeaf"} -> leaf # Absent
      [] call = "matches" -> ~touched
      [] OTHER -> TRUE

\* A call fails when its precondition does: open and mkdir are exclusive, link too.
Possible(call) ==
    CASE call = "create" -> prepared = Absent
      [] call = "mkdir" -> ~dir
      [] call \in {"quarantine", "unlinkLeaf"} -> leaf # Absent
      [] call = "matches" -> ~touched
      [] call \in {"missing", "link"} -> leaf = Absent
      [] OTHER -> TRUE

\* restoreQuarantine only links the entry back under a free name.
Relinks == entry # Absent /\ leaf = Absent

Effect(call) ==
    /\ prepared' = CASE call = "create" -> Partial
                     [] call = "fill" -> to
                     [] call \in {"unlinkPrepared", "drop", "discard"} ->
                            IF call = "discard" /\ twin = "prepared" THEN prepared ELSE Absent
                     [] OTHER -> prepared
    /\ leaf' = CASE call \in {"quarantine", "unlinkLeaf"} -> Absent
                 [] call = "link" -> prepared
                 [] call = "relink" /\ Relinks -> entry
                 [] call = "renameEntry" -> entry
                 [] OTHER -> leaf
    /\ entry' = CASE call = "quarantine" -> leaf
                  [] call \in {"unlinkEntry", "renameEntry"} -> Absent
                  [] OTHER -> entry
    /\ dir' = CASE call = "mkdir" -> TRUE
                [] call = "rmdir" \/ (call = "tidy" /\ entry = Absent) -> FALSE
                [] OTHER -> dir
    /\ twin' = CASE call = "link" -> "prepared"
                 [] call = "relink" /\ Relinks -> "entry"
                 [] call \in {"unlinkPrepared", "unlinkEntry", "unlinkLeaf", "renameEntry"} ->
                        "none"
                 [] OTHER -> twin

\* Mutant: the target is linked in before its bytes are there.
ApplyScript_LinkFirst ==
    (IF from = Absent THEN <<>> ELSE <<"mkdir", "quarantine", "identify", "matches">>)
    \o (IF to = Absent THEN <<"missing">>
        ELSE <<"create", "link", "fill", "sync", "unlinkPrepared">>)
    \o (IF from = Absent THEN <<>> ELSE <<"unlinkEntry", "rmdir">>)

\* To create, to remove, and to replace the file.
ApplyScript ==
    IF from = Absent THEN <<"create", "fill", "sync", "link", "unlinkPrepared">>
    ELSE IF to = Absent
    THEN <<"mkdir", "quarantine", "identify", "matches", "missing", "unlinkEntry", "rmdir">>
    ELSE <<"create", "fill", "sync", "mkdir", "quarantine", "identify", "matches", "link",
           "unlinkPrepared", "unlinkEntry", "rmdir">>

\* A call the worker has still to make.
Left(call) == \E i \in DOMAIN script : script[i] = call

Installed == to # Absent /\ ~Left("unlinkPrepared")

\* quarantineIdentity is set by an lstat of its own once the file is moved.
Identified == from # Absent /\ ~Left("identify")

\* Mutant: a failure only cleans up and puts nothing back.
PutBack_Never == <<>>

\* Unless the new file is in, the old one is put back, if the worker knows what it moved.
PutBack == IF Identified /\ ~Installed THEN <<"relink">> ELSE <<>>

\* The prepared file is dropped: by name and whether it works or not while it is being
\* prepared, by the catch block, if it is still the one that was made, afterwards.
DropPrepared ==
    IF to = Absent \/ Left("create") \/ Installed THEN <<>>
    ELSE IF Left("sync") THEN <<"drop">> ELSE <<"discard">>

\* The catch block; last the directory is removed if it is empty.
CleanUp ==
    PutBack \o DropPrepared \o (IF from # Absent /\ ~Left("mkdir") THEN <<"tidy">> ELSE <<>>)

-----------------------------------------------------------------------------
(* Applying *)

\* Preflight and the worker's first look.  A file with a second link is blocked.
Begin(expected, target) ==
    /\ from' = expected /\ to' = target
    /\ touched' = FALSE /\ slip' = "none"
    /\ IF leaf = expected /\ twin = "none"
       THEN pc' = "start"
       ELSE pc' = "failed"
    /\ UNCHANGED <<pre, post, Files, script, view, kept, count>>

StartApply == pc = "ready" /\ Begin(pre, post)

\* restoreSourcePaths: recovery applies the path back.
StartUndo == pc = "undo" /\ Begin(post, pre)

Spawn ==
    /\ pc = "start"
    /\ pc' = "apply" /\ script' = ApplyScript
    /\ UNCHANGED <<pre, post, Files, from, to, view, touched, slip, kept, count>>

Call ==
    /\ pc \in {"apply", "catch", "reconcile"}
    /\ script # <<>>
    /\ Possible(Head(script))
    /\ Effect(Head(script))
    /\ script' = IF Head(script) = "relink" /\ Relinks
                 THEN <<"unlinkEntry", "rmdir">> \o Tail(script)
                 ELSE Tail(script)
    /\ UNCHANGED <<pre, post, from, to, pc, view, touched, slip, kept, count>>

\* A call of the apply fails, by its precondition or by itself.  Without the lstat of what it
\* moved the worker does not put it back.
Fail ==
    /\ pc = "apply"
    /\ script # <<>>
    /\ \/ ~Possible(Head(script)) /\ UNCHANGED count
       \/ Use("faults", MaxFaults)
    /\ pc' = "catch"
    /\ script' = CleanUp
    /\ slip' = IF Head(script) = "identify" THEN "unidentified" ELSE slip
    /\ UNCHANGED <<pre, post, Files, from, to, view, touched, kept>>

\* prepareFile swallows the failure of its own unlink.
Swallow ==
    /\ pc = "catch"
    /\ script # <<>>
    /\ Head(script) = "drop"
    /\ Use("faults", MaxFaults)
    /\ script' = Tail(script)
    /\ slip' = "undropped"
    /\ UNCHANGED <<pre, post, Files, from, to, pc, view, touched, kept>>

\* verifyCapturedPath, once the worker is done: the file must be what was to be put there.
Verify ==
    /\ pc = "apply"
    /\ script = <<>>
    /\ pc' = IF leaf # to \/ twin # "none" THEN "failed"
             ELSE IF to = post THEN "applied" ELSE "rolledback"
    /\ UNCHANGED <<pre, post, Files, from, to, script, view, touched, slip, kept, count>>

GiveUp ==
    /\ pc = "catch"
    /\ script = <<>>
    /\ pc' = "failed"
    /\ UNCHANGED <<pre, post, Files, from, to, script, view, touched, slip, kept, count>>

\* The machine goes down, the worker is killed, or a call of its clean-up fails.
WorkerDies ==
    /\ pc \in {"apply", "catch", "reconcile"}
    /\ Use("deaths", MaxDeaths)
    /\ pc' = "dead"
    /\ script' = <<>>
    /\ UNCHANGED <<pre, post, Files, from, to, view, touched, slip, kept>>

-----------------------------------------------------------------------------
(* Recovery, in the rollback direction: desired is pre, the alternate is post. *)

\* The first recovery, or a retry; a file with a second link is "unknown", which skips the
\* reconciliation.
Inspect ==
    /\ pc \in {"applied", "failed", "dead", "frozen"}
    /\ view' = leaf
    /\ pc' = IF twin # "none" THEN "classify" ELSE "decide"
    /\ UNCHANGED <<pre, post, Files, from, to, script, touched, slip, kept, count>>

\* What the worker finds and cannot explain makes it throw without a write.
Unexplained ==
    \/ prepared \notin {Absent, pre, post}
    \/ dir /\ entry \notin {pre, post} \ {Absent}
    \/ leaf # view
    \/ leaf \notin {pre, post, Absent} /\ ~Clean
    \/ entry # Absent /\ entry = pre /\ leaf = pre
    \/ entry # Absent /\ entry = post /\ leaf # pre /\ ~(leaf = Absent /\ prepared = pre)
    \/ ~dir /\ prepared # Absent /\ leaf \notin {pre, post}

\* Mutant: the prepared file is only removed when nothing is quarantined.
ReconcileScript_EarlyReturn ==
    IF entry # Absent /\ entry = pre
    THEN (IF leaf # Absent THEN <<"unlinkLeaf">> ELSE <<>>) \o <<"renameEntry", "rmdir">>
    ELSE IF entry # Absent
    THEN (IF leaf = pre THEN <<>> ELSE <<"link", "unlinkPrepared">>) \o <<"unlinkEntry", "rmdir">>
    ELSE <<"unlinkPrepared">>

\* The source is put back from the quarantine, or from the prepared file where that is missing.
ReconcileScript ==
    IF entry = Absent THEN <<"unlinkPrepared">>
    ELSE IF entry = pre
    THEN IF leaf = Absent THEN <<"renameEntry", "rmdir", "unlinkPrepared">>
         ELSE <<"unlinkLeaf", "renameEntry", "rmdir", "unlinkPrepared">>
    ELSE IF leaf = pre THEN <<"unlinkEntry", "rmdir", "unlinkPrepared">>
         ELSE <<"link", "unlinkPrepared", "unlinkEntry", "rmdir", "unlinkPrepared">>

Decide ==
    /\ pc = "decide"
    /\ IF Unexplained
       THEN pc' = "frozen" /\ UNCHANGED script
       ELSE pc' = "reconcile" /\ script' = IF Clean THEN <<>> ELSE ReconcileScript
    /\ UNCHANGED <<pre, post, Files, from, to, view, touched, slip, kept, count>>

\* Recovery's worker finds a name taken that it saw free.
Refuse ==
    /\ pc = "reconcile"
    /\ script # <<>>
    /\ ~Possible(Head(script))
    /\ pc' = "frozen"
    /\ script' = <<>>
    /\ UNCHANGED <<pre, post, Files, from, to, view, touched, slip, kept, count>>

Reconciled ==
    /\ pc = "reconcile"
    /\ script = <<>>
    /\ pc' = "classify"
    /\ UNCHANGED <<pre, post, Files, from, to, script, view, touched, slip, kept, count>>

\* classifyPaths: at the source, at the target and to be undone, or unknown.
Classify ==
    /\ pc = "classify"
    /\ pc' = IF leaf \notin {pre, post} \/ twin # "none" THEN "frozen"
             ELSE IF leaf = pre THEN "rolledback" ELSE "undo"
    /\ UNCHANGED <<pre, post, Files, from, to, script, view, touched, slip, kept, count>>

Next ==
    \/ \E b \in States : Edit(b)
    \/ StartApply \/ StartUndo \/ Spawn \/ Call \/ Fail \/ Swallow \/ Verify \/ GiveUp \/ WorkerDies
    \/ Inspect \/ Decide \/ Refuse \/ Reconciled \/ Classify

Spec == Init /\ [][Next]_vars

-----------------------------------------------------------------------------
(* Properties *)

\* Type invariant; no name but the prepared file's ever shows half-written bytes, and the
\* quarantined entry is in its directory (prepareFile before link, mkdir before rename).
TypeOK ==
    /\ pre \in States /\ post \in States \ {pre}
    /\ leaf \in States /\ entry \in States /\ view \in States
    /\ prepared \in States \cup {Partial}
    /\ dir \in BOOLEAN /\ (entry # Absent => dir)
    /\ twin \in {"none", "prepared", "entry"}
    /\ twin = "prepared" => prepared = leaf
    /\ twin = "entry" => entry = leaf
    /\ from \in {pre, post} /\ to \in {pre, post} \ {from}
    /\ pc \in {"ready", "start", "apply", "catch", "applied", "failed", "dead", "decide",
               "reconcile", "classify", "undo", "rolledback", "frozen"}
    /\ touched \in BOOLEAN /\ slip \in {"none", "unidentified", "undropped"}
    /\ kept \subseteq Bytes
    /\ count \in [Limits -> Nat]

\* An apply, its failures and its clean-up never destroy bytes of the editor that are in no
\* commit: they stay the file, or the quarantined entry (the comparison after the rename,
\* the exclusive link, restoreQuarantine).
ApplyKeepsUserBytes ==
    [][kept \subseteq {leaf, entry} /\ pc \in {"apply", "catch"} =>
           kept' \subseteq {leaf', entry'}]_vars

\* Whatever recovery does, it does not destroy bytes of the editor that are in no commit.
\* The design document says it never overwrites on an overlap or an unknown state.  It does not
\* hold: a save between the reconciliation's look at the file and its rename is destroyed.
UserBytesSurvive == kept \subseteq {leaf, entry}

\* An apply that fails, with no editor at work, has undone itself and left nothing behind,
\* unless the new file was in place already (the catch block of the worker).  Two failures
\* it does not make up for: the prepared file stays when its own unlink fails too, and what was
\* moved stays in the quarantine, the only entry there, when the lstat after the move fails.
FailedApplyUndone ==
    pc = "failed" /\ count["edits"] = 0 =>
        \/ leaf = to
        \/ leaf = from /\ (Clean \/ (slip = "undropped" /\ ~dir /\ entry = Absent /\ twin = "none"))
        \/ slip = "unidentified" /\ leaf = Absent /\ entry = from /\ prepared = Absent

\* An apply that reports success leaves no prepared file, no quarantine and no second link;
\* nor does a recovery, however often workers died under it, if no editor was at work.  (One
\* who replaces a file with a second link while it is skipped as unknown leaves a stray.)
SuccessIsClean == pc = "applied" \/ (pc = "rolledback" /\ count["edits"] = 0) => Clean

\* With no editor at work, recovery always finds out what to do: it never has to leave the
\* path to the user.  The design document promises it of a crash before or after each
\* replacement, and at the boundaries of the quarantine rename and the install.
UndisturbedRecoveryDecides == pc = "frozen" => count["edits"] > 0

\* An install interrupted between the link and the removal of the prepared name is taken up
\* by the reconciliation, which has a case for the second link and a test for that case.  It does
\* not hold: recovery does not come to that case.
InterruptedInstallReconciled ==
    pc = "frozen" /\ count["edits"] = 0 => twin # "prepared"

=============================================================================
