--------------------------- MODULE PathApplyProofs ---------------------------
(***************************************************************************)
(* Proofs about PathApply, for all contents and every bound.               *)
(*                                                                         *)
(* What the files may be depends on how far the worker is.  Its script is  *)
(* always the rest of one of a few, so that the next call tells the stage; *)
(* StageInv says for each what is known of the names, whatever the editor  *)
(* does, and what more is known as long as it does nothing.                *)
(***************************************************************************)
EXTENDS PathApply, SequenceTheorems, TLAPS

\* The editor has done nothing yet.
Undisturbed == count["edits"] = 0

\* Nothing can be there that an earlier operation left.
Fresh == to = post \/ Undisturbed

\* The call that comes next, "end" when there is none.
Ahead == IF script = <<>> THEN "end" ELSE Head(script)

\* What may be left to do of an apply that creates, removes or replaces the file.
Creating ==
    {<<"create", "fill", "sync", "link", "unlinkPrepared">>,
     <<"fill", "sync", "link", "unlinkPrepared">>, <<"sync", "link", "unlinkPrepared">>,
     <<"link", "unlinkPrepared">>, <<"unlinkPrepared">>, <<>>}
Removing ==
    {<<"mkdir", "quarantine", "identify", "matches", "missing", "unlinkEntry", "rmdir">>,
     <<"quarantine", "identify", "matches", "missing", "unlinkEntry", "rmdir">>,
     <<"identify", "matches", "missing", "unlinkEntry", "rmdir">>,
     <<"matches", "missing", "unlinkEntry", "rmdir">>, <<"missing", "unlinkEntry", "rmdir">>,
     <<"unlinkEntry", "rmdir">>, <<"rmdir">>, <<>>}
Replacing ==
    {<<"create", "fill", "sync", "mkdir", "quarantine", "identify", "matches", "link", "unlinkPrepared", "unlinkEntry", "rmdir">>,
     <<"fill", "sync", "mkdir", "quarantine", "identify", "matches", "link", "unlinkPrepared", "unlinkEntry", "rmdir">>,
     <<"sync", "mkdir", "quarantine", "identify", "matches", "link", "unlinkPrepared", "unlinkEntry", "rmdir">>,
     <<"mkdir", "quarantine", "identify", "matches", "link", "unlinkPrepared", "unlinkEntry", "rmdir">>,
     <<"quarantine", "identify", "matches", "link", "unlinkPrepared", "unlinkEntry", "rmdir">>,
     <<"identify", "matches", "link", "unlinkPrepared", "unlinkEntry", "rmdir">>,
     <<"matches", "link", "unlinkPrepared", "unlinkEntry", "rmdir">>,
     <<"link", "unlinkPrepared", "unlinkEntry", "rmdir">>, <<"unlinkPrepared", "unlinkEntry", "rmdir">>,
     <<"unlinkEntry", "rmdir">>, <<"rmdir">>, <<>>}
ApplyRests == IF from = Absent THEN Creating ELSE IF to = Absent THEN Removing ELSE Replacing

\* Of the clean-up, and of the reconciliation.
CatchRests ==
    {<<"relink", "discard", "tidy">>, <<"relink", "tidy">>, <<"unlinkEntry", "rmdir", "discard", "tidy">>,
     <<"unlinkEntry", "rmdir", "tidy">>, <<"rmdir", "discard", "tidy">>, <<"rmdir", "tidy">>,
     <<"discard", "tidy">>, <<"tidy">>, <<"drop">>, <<"discard">>, <<>>}
NoTidy == {<<"drop">>, <<"discard">>, <<>>}
NoDiscard ==
    {<<"relink", "tidy">>, <<"unlinkEntry", "rmdir", "tidy">>, <<"rmdir", "tidy">>, <<"tidy">>, <<>>}
LastRemoval == <<"unlinkPrepared">>
ReconcileRests ==
    {<<"unlinkLeaf", "renameEntry", "rmdir", "unlinkPrepared">>, <<"renameEntry", "rmdir", "unlinkPrepared">>,
     <<"link", "unlinkPrepared", "unlinkEntry", "rmdir", "unlinkPrepared">>,
     <<"unlinkPrepared", "unlinkEntry", "rmdir", "unlinkPrepared">>,
     <<"unlinkEntry", "rmdir", "unlinkPrepared">>, <<"rmdir", "unlinkPrepared">>, LastRemoval, <<>>}

FilesInv ==
    /\ pre \in States /\ post \in States \ {pre}
    /\ leaf \in States /\ entry \in States /\ view \in States
    /\ prepared \in States \cup {Partial}
    /\ dir \in BOOLEAN /\ (entry # Absent => dir)
    /\ twin \in {"none", "prepared", "entry"}
    /\ twin = "prepared" => prepared = leaf
    /\ twin = "entry" => entry = leaf
    /\ twin # "none" => leaf # Absent
    /\ from \in {pre, post} /\ to \in {pre, post} \ {from}
    /\ pc \in {"ready", "start", "apply", "catch", "applied", "failed", "dead", "decide",
               "reconcile", "classify", "undo", "rolledback", "frozen"}
    /\ touched \in BOOLEAN /\ (Undisturbed => ~touched)
    /\ slip \in {"none", "unidentified", "undropped"}
    /\ kept \subseteq Bytes \ {pre, post}
    /\ count \in [Limits -> Nat]

Exchanging == {"create", "fill", "sync", "mkdir", "quarantine"}

\* A worker that applies: the second link is the prepared file's and only until its name is
\* removed; what was compared is what is quarantined; the directory is its own.
ApplyInv ==
    pc = "apply" =>
        /\ script \in ApplyRests
        /\ twin = "none" \/ (twin = "prepared" /\ Ahead = "unlinkPrepared")
        /\ Ahead \in {"sync", "mkdir", "quarantine", "identify", "matches", "link", "unlinkPrepared"} =>
               prepared = to \/ to = Absent
        /\ Ahead = "quarantine" => dir /\ entry = Absent
        /\ Ahead \in {"identify", "matches"} => dir /\ (~touched => entry = from)
        /\ Ahead \in {"missing", "link", "unlinkPrepared"} /\ from # Absent => dir /\ entry = from
        /\ Ahead = "unlinkEntry" => dir /\ entry = from
        /\ Ahead = "rmdir" => entry = Absent
        /\ Ahead \in Exchanging /\ ~touched => leaf = from

\* And it leaves only what it made.
TidyInv ==
    pc = "apply" /\ Fresh =>
        /\ Ahead \in {"create", "unlinkEntry", "rmdir", "end"} \/ to = Absent => prepared = Absent
        /\ Ahead \in {"create", "fill", "sync", "mkdir", "end"} \/ from = Absent => ~dir /\ entry = Absent

\* With no editor at work, the file is the old one, absent, or the new one.
UndisturbedInv ==
    pc = "apply" /\ Undisturbed =>
        /\ slip = "none"
        /\ Ahead \in {"identify", "matches", "missing", "link"} => leaf = Absent
        /\ Ahead \in {"unlinkPrepared", "unlinkEntry", "rmdir", "end"} => leaf = to

\* The clean-up: what it removes after it put the entry back is not the last copy.
CatchInv ==
    pc = "catch" =>
        /\ script \in CatchRests
        /\ twin = "entry" => Ahead = "unlinkEntry"
        /\ Ahead = "drop" => twin = "none"
        /\ Ahead = "rmdir" => entry = Absent
        /\ Ahead = "unlinkEntry" => (entry \in kept => entry = leaf)

\* With no editor at work it ends with the new file, or with the old one in its place, or, when
\* the worker does not know what it moved, in the quarantine.
Settled ==
    \/ leaf = to
    \/ leaf = from /\ entry = Absent /\ twin = "none" /\ slip # "unidentified"
    \/ slip = "unidentified" /\ leaf = Absent /\ entry = from
UndoneInv ==
    pc = "catch" /\ Undisturbed =>
        /\ Ahead = "relink" => /\ leaf = to \/ (leaf = Absent /\ entry = from)
                               /\ entry \in {from, Absent} /\ slip # "unidentified"
        /\ Ahead = "unlinkEntry" => leaf = from /\ slip # "unidentified"
        /\ Ahead = "rmdir" => leaf = from /\ twin = "none" /\ slip # "unidentified"
        /\ Ahead = "drop" => slip # "unidentified"
        /\ Ahead \in {"drop", "discard", "tidy", "end"} => Settled
        /\ script \in NoDiscard => prepared = Absent \/ (leaf = to /\ to # Absent) \/ slip = "undropped"
        /\ script \in NoTidy => ~dir \/ leaf = to \/ slip = "unidentified"

\* Recovery's worker.
ReconcileInv ==
    pc = "reconcile" =>
        /\ script \in ReconcileRests
        /\ twin = "none" \/ (twin = "prepared" /\ Ahead = "unlinkPrepared" /\ script # LastRemoval)
        /\ Ahead = "link" => prepared = pre /\ pre # Absent
        /\ Ahead = "rmdir" => entry = Absent
        /\ script = LastRemoval => ~dir /\ entry = Absent
        /\ Ahead = "end" => Clean

\* Between the workers.
BetweenInv ==
    /\ pc = "ready" => Clean /\ (Undisturbed => leaf = pre)
    /\ pc = "start" => twin = "none" /\ (~touched => leaf = from) /\ (Fresh => Clean)
    /\ pc = "applied" => Clean
    /\ pc = "failed" /\ Undisturbed =>
           \/ leaf = to
           \/ leaf = from /\ (Clean \/ (slip = "undropped" /\ ~dir /\ entry = Absent /\ twin = "none"))
           \/ slip = "unidentified" /\ leaf = Absent /\ entry = from /\ prepared = Absent
    /\ pc = "start" => slip = "none"
    /\ pc = "decide" => twin = "none"
    /\ pc = "classify" /\ Undisturbed => twin # "none" \/ Clean
    /\ pc = "undo" /\ Undisturbed => leaf = post /\ Clean
    /\ pc = "rolledback" /\ Undisturbed => Clean

IInv ==
    /\ FilesInv /\ BetweenInv
    /\ ApplyInv /\ TidyInv /\ UndisturbedInv /\ CatchInv /\ UndoneInv /\ ReconcileInv

-----------------------------------------------------------------------------
(* The scripts: which call follows which. *)

\* The call after one, in the scripts of an apply.
Following(call) ==
    CASE call = "create" -> "fill"
      [] call = "fill" -> "sync"
      [] call = "sync" -> IF from = Absent THEN "link" ELSE "mkdir"
      [] call = "mkdir" -> "quarantine"
      [] call = "quarantine" -> "identify"
      [] call = "identify" -> "matches"
      [] call = "matches" -> IF to = Absent THEN "missing" ELSE "link"
      [] call = "link" -> "unlinkPrepared"
      [] call = "unlinkPrepared" -> IF from = Absent THEN "end" ELSE "unlinkEntry"
      [] call = "missing" -> "unlinkEntry"
      [] call = "unlinkEntry" -> "rmdir"
      [] OTHER -> "end"

\* The next call has been made.
Taken == script' = Tail(script) /\ from' = from /\ to' = to

\* While a file is created: what is left of the script from each call on.
LEMMA CreatingGoes ==
    ASSUME script \in Creating, script # <<>>, from = Absent, to # Absent
    PROVE  /\ Ahead = Head(script) /\ Ahead \in {"create", "fill", "sync", "link", "unlinkPrepared"}
           /\ Taken => script' \in Creating /\ Ahead' = Following(Ahead)
           /\ Left("create") <=> Ahead \in {"create"}
           /\ Left("sync") <=> Ahead \in {"create", "fill", "sync"}
           /\ ~Left("mkdir")
           /\ ~Left("identify")
           /\ Left("unlinkPrepared") <=> Ahead \in {"create", "fill", "sync", "link", "unlinkPrepared"}
<1>1. CASE script = <<"create", "fill", "sync", "link", "unlinkPrepared">>
  <2>1. Ahead = "create" /\ Head(script) = "create"
    BY <1>1 DEF Ahead
  <2>2. Taken => script' = <<"fill", "sync", "link", "unlinkPrepared">>
    BY <1>1 DEF Taken
  <2>3. Taken => script' \in Creating /\ Ahead' = "fill"
    <3>1. Taken => script' \in Creating
      BY <2>2 DEF Creating
    <3>2. Taken => script' # <<>> /\ Head(script') = "fill"
      BY <2>2
    <3> QED BY <3>1, <3>2 DEF Ahead
  <2>4. Taken => Ahead' = Following(Ahead)
    BY <2>1, <2>3 DEF Following, Taken
  <2>5. Left("create")
    <3>1. 1 \in DOMAIN script /\ script[1] = "create"
      BY <1>1
    <3> QED BY <3>1 DEF Left
  <2>6. Left("sync")
    <3>1. 3 \in DOMAIN script /\ script[3] = "sync"
      BY <1>1
    <3> QED BY <3>1 DEF Left
  <2>7. ~Left("mkdir")
    BY <1>1 DEF Left
  <2>8. ~Left("identify")
    BY <1>1 DEF Left
  <2>9. Left("unlinkPrepared")
    <3>1. 5 \in DOMAIN script /\ script[5] = "unlinkPrepared"
      BY <1>1
    <3> QED BY <3>1 DEF Left
  <2> QED BY <2>1, <2>3, <2>4, <2>5, <2>6, <2>7, <2>8, <2>9
<1>2. CASE script = <<"fill", "sync", "link", "unlinkPrepared">>
  <2>1. Ahead = "fill" /\ Head(script) = "fill"
    BY <1>2 DEF Ahead
  <2>2. Taken => script' = <<"sync", "link", "unlinkPrepared">>
    BY <1>2 DEF Taken
  <2>3. Taken => script' \in Creating /\ Ahead' = "sync"
    <3>1. Taken => script' \in Creating
      BY <2>2 DEF Creating
    <3>2. Taken => script' # <<>> /\ Head(script') = "sync"
      BY <2>2
    <3> QED BY <3>1, <3>2 DEF Ahead
  <2>4. Taken => Ahead' = Following(Ahead)
    BY <2>1, <2>3 DEF Following, Taken
  <2>5. ~Left("create")
    BY <1>2 DEF Left
  <2>6. Left("sync")
    <3>1. 2 \in DOMAIN script /\ script[2] = "sync"
      BY <1>2
    <3> QED BY <3>1 DEF Left
  <2>7. ~Left("mkdir")
    BY <1>2 DEF Left
  <2>8. ~Left("identify")
    BY <1>2 DEF Left
  <2>9. Left("unlinkPrepared")
    <3>1. 4 \in DOMAIN script /\ script[4] = "unlinkPrepared"
      BY <1>2
    <3> QED BY <3>1 DEF Left
  <2> QED BY <2>1, <2>3, <2>4, <2>5, <2>6, <2>7, <2>8, <2>9
<1>3. CASE script = <<"sync", "link", "unlinkPrepared">>
  BY <1>3 DEF Taken, Creating, Ahead, Following, Left
<1>4. CASE script = <<"link", "unlinkPrepared">>
  BY <1>4 DEF Taken, Creating, Ahead, Following, Left
<1>5. CASE script = <<"unlinkPrepared">>
  BY <1>5 DEF Taken, Creating, Ahead, Following, Left
<1> QED BY <1>1, <1>2, <1>3, <1>4, <1>5 DEF Creating

\* While a file is removed.
LEMMA RemovingGoes ==
    ASSUME script \in Removing, script # <<>>, from # Absent, to = Absent
    PROVE  /\ Ahead = Head(script) /\ Ahead \in {"mkdir", "quarantine", "identify", "matches", "missing", "unlinkEntry", "rmdir"}
           /\ Taken => script' \in Removing /\ Ahead' = Following(Ahead)
           /\ ~Left("create")
           /\ ~Left("sync")
           /\ Left("mkdir") <=> Ahead \in {"mkdir"}
           /\ Left("identify") <=> Ahead \in {"mkdir", "quarantine", "identify"}
           /\ ~Left("unlinkPrepared")
<1>1. CASE script = <<"mkdir", "quarantine", "identify", "matches", "missing", "unlinkEntry", "rmdir">>
  <2>1. Ahead = "mkdir" /\ Head(script) = "mkdir"
    BY <1>1 DEF Ahead
  <2>2. Taken => script' = <<"quarantine", "identify", "matches", "missing", "unlinkEntry", "rmdir">>
    BY <1>1 DEF Taken
  <2>3. Taken => script' \in Removing /\ Ahead' = "quarantine"
    <3>1. Taken => script' \in Removing
      BY <2>2 DEF Removing
    <3>2. Taken => script' # <<>> /\ Head(script') = "quarantine"
      BY <2>2
    <3> QED BY <3>1, <3>2 DEF Ahead
  <2>4. Taken => Ahead' = Following(Ahead)
    BY <2>1, <2>3 DEF Following, Taken
  <2>5. ~Left("create")
    BY <1>1 DEF Left
  <2>6. ~Left("sync")
    BY <1>1 DEF Left
  <2>7. Left("mkdir")
    <3>1. 1 \in DOMAIN script /\ script[1] = "mkdir"
      BY <1>1
    <3> QED BY <3>1 DEF Left
  <2>8. Left("identify")
    <3>1. 3 \in DOMAIN script /\ script[3] = "identify"
      BY <1>1
    <3> QED BY <3>1 DEF Left
  <2>9. ~Left("unlinkPrepared")
    BY <1>1 DEF Left
  <2> QED BY <2>1, <2>3, <2>4, <2>5, <2>6, <2>7, <2>8, <2>9
<1>2. CASE script = <<"quarantine", "identify", "matches", "missing", "unlinkEntry", "rmdir">>
  <2>1. Ahead = "quarantine" /\ Head(script) = "quarantine"
    BY <1>2 DEF Ahead
  <2>2. Taken => script' = <<"identify", "matches", "missing", "unlinkEntry", "rmdir">>
    BY <1>2 DEF Taken
  <2>3. Taken => script' \in Removing /\ Ahead' = "identify"
    <3>1. Taken => script' \in Removing
      BY <2>2 DEF Removing
    <3>2. Taken => script' # <<>> /\ Head(script') = "identify"
      BY <2>2
    <3> QED BY <3>1, <3>2 DEF Ahead
  <2>4. Taken => Ahead' = Following(Ahead)
    BY <2>1, <2>3 DEF Following, Taken
  <2>5. ~Left("create")
    BY <1>2 DEF Left
  <2>6. ~Left("sync")
    BY <1>2 DEF Left
  <2>7. ~Left("mkdir")
    BY <1>2 DEF Left
  <2>8. Left("identify")
    <3>1. 2 \in DOMAIN script /\ script[2] = "identify"
      BY <1>2
    <3> QED BY <3>1 DEF Left
  <2>9. ~Left("unlinkPrepared")
    BY <1>2 DEF Left
  <2> QED BY <2>1, <2>3, <2>4, <2>5, <2>6, <2>7, <2>8, <2>9
<1>3. CASE script = <<"identify", "matches", "missing", "unlinkEntry", "rmdir">>
  <2>1. Ahead = "identify" /\ Head(script) = "identify"
    BY <1>3 DEF Ahead
  <2>2. Taken => script' = <<"matches", "missing", "unlinkEntry", "rmdir">>
    BY <1>3 DEF Taken
  <2>3. Taken => script' \in Removing /\ Ahead' = "matches"
    <3>1. Taken => script' \in Removing
      BY <2>2 DEF Removing
    <3>2. Taken => script' # <<>> /\ Head(script') = "matches"
      BY <2>2
    <3> QED BY <3>1, <3>2 DEF Ahead
  <2>4. Taken => Ahead' = Following(Ahead)
    BY <2>1, <2>3 DEF Following, Taken
  <2>5. ~Left("create")
    BY <1>3 DEF Left
  <2>6. ~Left("sync")
    BY <1>3 DEF Left
  <2>7. ~Left("mkdir")
    BY <1>3 DEF Left
  <2>8. Left("identify")
    <3>1. 1 \in DOMAIN script /\ script[1] = "identify"
      BY <1>3
    <3> QED BY <3>1 DEF Left
  <2>9. ~Left("unlinkPrepared")
    BY <1>3 DEF Left
  <2> QED BY <2>1, <2>3, <2>4, <2>5, <2>6, <2>7, <2>8, <2>9
<1>4. CASE script = <<"matches", "missing", "unlinkEntry", "rmdir">>
  <2>1. Ahead = "matches" /\ Head(script) = "matches"
    BY <1>4 DEF Ahead
  <2>2. Taken => script' = <<"missing", "unlinkEntry", "rmdir">>
    BY <1>4 DEF Taken
  <2>3. Taken => script' \in Removing /\ Ahead' = "missing"
    <3>1. Taken => script' \in Removing
      BY <2>2 DEF Removing
    <3>2. Taken => script' # <<>> /\ Head(script') = "missing"
      BY <2>2
    <3> QED BY <3>1, <3>2 DEF Ahead
  <2>4. Taken => Ahead' = Following(Ahead)
    BY <2>1, <2>3 DEF Following, Taken
  <2>5. ~Left("create")
    BY <1>4 DEF Left
  <2>6. ~Left("sync")
    BY <1>4 DEF Left
  <2>7. ~Left("mkdir")
    BY <1>4 DEF Left
  <2>8. ~Left("identify")
    BY <1>4 DEF Left
  <2>9. ~Left("unlinkPrepared")
    BY <1>4 DEF Left
  <2> QED BY <2>1, <2>3, <2>4, <2>5, <2>6, <2>7, <2>8, <2>9
<1>5. CASE script = <<"missing", "unlinkEntry", "rmdir">>
  BY <1>5 DEF Taken, Removing, Ahead, Following, Left
<1>6. CASE script = <<"unlinkEntry", "rmdir">>
  BY <1>6 DEF Taken, Removing, Ahead, Following, Left
<1>7. CASE script = <<"rmdir">>
  BY <1>7 DEF Taken, Removing, Ahead, Following, Left
<1> QED BY <1>1, <1>2, <1>3, <1>4, <1>5, <1>6, <1>7 DEF Removing

\* While a file is replaced.
LEMMA ReplacingGoes ==
    ASSUME script \in Replacing, script # <<>>, from # Absent, to # Absent
    PROVE  /\ Ahead = Head(script) /\ Ahead \in {"create", "fill", "sync", "mkdir", "quarantine", "identify", "matches", "link", "unlinkPrepared", "unlinkEntry", "rmdir"}
           /\ Taken => script' \in Replacing /\ Ahead' = Following(Ahead)
           /\ Left("create") <=> Ahead \in {"create"}
           /\ Left("sync") <=> Ahead \in {"create", "fill", "sync"}
           /\ Left("mkdir") <=> Ahead \in {"create", "fill", "sync", "mkdir"}
           /\ Left("identify") <=> Ahead \in {"create", "fill", "sync", "mkdir", "quarantine", "identify"}
           /\ Left("unlinkPrepared") <=> Ahead \in {"create", "fill", "sync", "mkdir", "quarantine", "identify", "matches", "link", "unlinkPrepared"}
<1>1. CASE script = <<"create", "fill", "sync", "mkdir", "quarantine", "identify", "matches", "link", "unlinkPrepared", "unlinkEntry", "rmdir">>
  <2>1. Ahead = "create" /\ Head(script) = "create"
    BY <1>1 DEF Ahead
  <2>2. Taken => script' = <<"fill", "sync", "mkdir", "quarantine", "identify", "matches", "link", "unlinkPrepared", "unlinkEntry", "rmdir">>
    BY <1>1 DEF Taken
  <2>3. Taken => script' \in Replacing /\ Ahead' = "fill"
    <3>1. Taken => script' \in Replacing
      BY <2>2 DEF Replacing
    <3>2. Taken => script' # <<>> /\ Head(script') = "fill"
      BY <2>2
    <3> QED BY <3>1, <3>2 DEF Ahead
  <2>4. Taken => Ahead' = Following(Ahead)
    BY <2>1, <2>3 DEF Following, Taken
  <2>5. Left("create")
    <3>1. 1 \in DOMAIN script /\ script[1] = "create"
      BY <1>1
    <3> QED BY <3>1 DEF Left
  <2>6. Left("sync")
    <3>1. 3 \in DOMAIN script /\ script[3] = "sync"
      BY <1>1
    <3> QED BY <3>1 DEF Left
  <2>7. Left("mkdir")
    <3>1. 4 \in DOMAIN script /\ script[4] = "mkdir"
      BY <1>1
    <3> QED BY <3>1 DEF Left
  <2>8. Left("identify")
    <3>1. 6 \in DOMAIN script /\ script[6] = "identify"
      BY <1>1
    <3> QED BY <3>1 DEF Left
  <2>9. Left("unlinkPrepared")
    <3>1. 9 \in DOMAIN script /\ script[9] = "unlinkPrepared"
      BY <1>1
    <3> QED BY <3>1 DEF Left
  <2> QED BY <2>1, <2>3, <2>4, <2>5, <2>6, <2>7, <2>8, <2>9
<1>2. CASE script = <<"fill", "sync", "mkdir", "quarantine", "identify", "matches", "link", "unlinkPrepared", "unlinkEntry", "rmdir">>
  <2>1. Ahead = "fill" /\ Head(script) = "fill"
    BY <1>2 DEF Ahead
  <2>2. Taken => script' = <<"sync", "mkdir", "quarantine", "identify", "matches", "link", "unlinkPrepared", "unlinkEntry", "rmdir">>
    BY <1>2 DEF Taken
  <2>3. Taken => script' \in Replacing /\ Ahead' = "sync"
    <3>1. Taken => script' \in Replacing
      BY <2>2 DEF Replacing
    <3>2. Taken => script' # <<>> /\ Head(script') = "sync"
      BY <2>2
    <3> QED BY <3>1, <3>2 DEF Ahead
  <2>4. Taken => Ahead' = Following(Ahead)
    BY <2>1, <2>3 DEF Following, Taken
  <2>5. ~Left("create")
    BY <1>2 DEF Left
  <2>6. Left("sync")
    <3>1. 2 \in DOMAIN script /\ script[2] = "sync"
      BY <1>2
    <3> QED BY <3>1 DEF Left
  <2>7. Left("mkdir")
    <3>1. 3 \in DOMAIN script /\ script[3] = "mkdir"
      BY <1>2
    <3> QED BY <3>1 DEF Left
  <2>8. Left("identify")
    <3>1. 5 \in DOMAIN script /\ script[5] = "identify"
      BY <1>2
    <3> QED BY <3>1 DEF Left
  <2>9. Left("unlinkPrepared")
    <3>1. 8 \in DOMAIN script /\ script[8] = "unlinkPrepared"
      BY <1>2
    <3> QED BY <3>1 DEF Left
  <2> QED BY <2>1, <2>3, <2>4, <2>5, <2>6, <2>7, <2>8, <2>9
<1>3. CASE script = <<"sync", "mkdir", "quarantine", "identify", "matches", "link", "unlinkPrepared", "unlinkEntry", "rmdir">>
  <2>1. Ahead = "sync" /\ Head(script) = "sync"
    BY <1>3 DEF Ahead
  <2>2. Taken => script' = <<"mkdir", "quarantine", "identify", "matches", "link", "unlinkPrepared", "unlinkEntry", "rmdir">>
    BY <1>3 DEF Taken
  <2>3. Taken => script' \in Replacing /\ Ahead' = "mkdir"
    <3>1. Taken => script' \in Replacing
      BY <2>2 DEF Replacing
    <3>2. Taken => script' # <<>> /\ Head(script') = "mkdir"
      BY <2>2
    <3> QED BY <3>1, <3>2 DEF Ahead
  <2>4. Taken => Ahead' = Following(Ahead)
    BY <2>1, <2>3 DEF Following, Taken
  <2>5. ~Left("create")
    BY <1>3 DEF Left
  <2>6. Left("sync")
    <3>1. 1 \in DOMAIN script /\ script[1] = "sync"
      BY <1>3
    <3> QED BY <3>1 DEF Left
  <2>7. Left("mkdir")
    <3>1. 2 \in DOMAIN script /\ script[2] = "mkdir"
      BY <1>3
    <3> QED BY <3>1 DEF Left
  <2>8. Left("identify")
    <3>1. 4 \in DOMAIN script /\ script[4] = "identify"
      BY <1>3
    <3> QED BY <3>1 DEF Left
  <2>9. Left("unlinkPrepared")
    <3>1. 7 \in DOMAIN script /\ script[7] = "unlinkPrepared"
      BY <1>3
    <3> QED BY <3>1 DEF Left
  <2> QED BY <2>1, <2>3, <2>4, <2>5, <2>6, <2>7, <2>8, <2>9
<1>4. CASE script = <<"mkdir", "quarantine", "identify", "matches", "link", "unlinkPrepared", "unlinkEntry", "rmdir">>
  <2>1. Ahead = "mkdir" /\ Head(script) = "mkdir"
    BY <1>4 DEF Ahead
  <2>2. Taken => script' = <<"quarantine", "identify", "matches", "link", "unlinkPrepared", "unlinkEntry", "rmdir">>
    BY <1>4 DEF Taken
  <2>3. Taken => script' \in Replacing /\ Ahead' = "quarantine"
    <3>1. Taken => script' \in Replacing
      BY <2>2 DEF Replacing
    <3>2. Taken => script' # <<>> /\ Head(script') = "quarantine"
      BY <2>2
    <3> QED BY <3>1, <3>2 DEF Ahead
  <2>4. Taken => Ahead' = Following(Ahead)
    BY <2>1, <2>3 DEF Following, Taken
  <2>5. ~Left("create")
    BY <1>4 DEF Left
  <2>6. ~Left("sync")
    BY <1>4 DEF Left
  <2>7. Left("mkdir")
    <3>1. 1 \in DOMAIN script /\ script[1] = "mkdir"
      BY <1>4
    <3> QED BY <3>1 DEF Left
  <2>8. Left("identify")
    <3>1. 3 \in DOMAIN script /\ script[3] = "identify"
      BY <1>4
    <3> QED BY <3>1 DEF Left
  <2>9. Left("unlinkPrepared")
    <3>1. 6 \in DOMAIN script /\ script[6] = "unlinkPrepared"
      BY <1>4
    <3> QED BY <3>1 DEF Left
  <2> QED BY <2>1, <2>3, <2>4, <2>5, <2>6, <2>7, <2>8, <2>9
<1>5. CASE script = <<"quarantine", "identify", "matches", "link", "unlinkPrepared", "unlinkEntry", "rmdir">>
  <2>1. Ahead = "quarantine" /\ Head(script) = "quarantine"
    BY <1>5 DEF Ahead
  <2>2. Taken => script' = <<"identify", "matches", "link", "unlinkPrepared", "unlinkEntry", "rmdir">>
    BY <1>5 DEF Taken
  <2>3. Taken => script' \in Replacing /\ Ahead' = "identify"
    <3>1. Taken => script' \in Replacing
      BY <2>2 DEF Replacing
    <3>2. Taken => script' # <<>> /\ Head(script') = "identify"
      BY <2>2
    <3> QED BY <3>1, <3>2 DEF Ahead
  <2>4. Taken => Ahead' = Following(Ahead)
    BY <2>1, <2>3 DEF Following, Taken
  <2>5. ~Left("create")
    BY <1>5 DEF Left
  <2>6. ~Left("sync")
    BY <1>5 DEF Left
  <2>7. ~Left("mkdir")
    BY <1>5 DEF Left
  <2>8. Left("identify")
    <3>1. 2 \in DOMAIN script /\ script[2] = "identify"
      BY <1>5
    <3> QED BY <3>1 DEF Left
  <2>9. Left("unlinkPrepared")
    <3>1. 5 \in DOMAIN script /\ script[5] = "unlinkPrepared"
      BY <1>5
    <3> QED BY <3>1 DEF Left
  <2> QED BY <2>1, <2>3, <2>4, <2>5, <2>6, <2>7, <2>8, <2>9
<1>6. CASE script = <<"identify", "matches", "link", "unlinkPrepared", "unlinkEntry", "rmdir">>
  <2>1. Ahead = "identify" /\ Head(script) = "identify"
    BY <1>6 DEF Ahead
  <2>2. Taken => script' = <<"matches", "link", "unlinkPrepared", "unlinkEntry", "rmdir">>
    BY <1>6 DEF Taken
  <2>3. Taken => script' \in Replacing /\ Ahead' = "matches"
    <3>1. Taken => script' \in Replacing
      BY <2>2 DEF Replacing
    <3>2. Taken => script' # <<>> /\ Head(script') = "matches"
      BY <2>2
    <3> QED BY <3>1, <3>2 DEF Ahead
  <2>4. Taken => Ahead' = Following(Ahead)
    BY <2>1, <2>3 DEF Following, Taken
  <2>5. ~Left("create")
    BY <1>6 DEF Left
  <2>6. ~Left("sync")
    BY <1>6 DEF Left
  <2>7. ~Left("mkdir")
    BY <1>6 DEF Left
  <2>8. Left("identify")
    <3>1. 1 \in DOMAIN script /\ script[1] = "identify"
      BY <1>6
    <3> QED BY <3>1 DEF Left
  <2>9. Left("unlinkPrepared")
    <3>1. 4 \in DOMAIN script /\ script[4] = "unlinkPrepared"
      BY <1>6
    <3> QED BY <3>1 DEF Left
  <2> QED BY <2>1, <2>3, <2>4, <2>5, <2>6, <2>7, <2>8, <2>9
<1>7. CASE script = <<"matches", "link", "unlinkPrepared", "unlinkEntry", "rmdir">>
  <2>1. Ahead = "matches" /\ Head(script) = "matches"
    BY <1>7 DEF Ahead
  <2>2. Taken => script' = <<"link", "unlinkPrepared", "unlinkEntry", "rmdir">>
    BY <1>7 DEF Taken
  <2>3. Taken => script' \in Replacing /\ Ahead' = "link"
    <3>1. Taken => script' \in Replacing
      BY <2>2 DEF Replacing
    <3>2. Taken => script' # <<>> /\ Head(script') = "link"
      BY <2>2
    <3> QED BY <3>1, <3>2 DEF Ahead
  <2>4. Taken => Ahead' = Following(Ahead)
    BY <2>1, <2>3 DEF Following, Taken
  <2>5. ~Left("create")
    BY <1>7 DEF Left
  <2>6. ~Left("sync")
    BY <1>7 DEF Left
  <2>7. ~Left("mkdir")
    BY <1>7 DEF Left
  <2>8. ~Left("identify")
    BY <1>7 DEF Left
  <2>9. Left("unlinkPrepared")
    <3>1. 3 \in DOMAIN script /\ script[3] = "unlinkPrepared"
      BY <1>7
    <3> QED BY <3>1 DEF Left
  <2> QED BY <2>1, <2>3, <2>4, <2>5, <2>6, <2>7, <2>8, <2>9
<1>8. CASE script = <<"link", "unlinkPrepared", "unlinkEntry", "rmdir">>
  <2>1. Ahead = "link" /\ Head(script) = "link"
    BY <1>8 DEF Ahead
  <2>2. Taken => script' = <<"unlinkPrepared", "unlinkEntry", "rmdir">>
    BY <1>8 DEF Taken
  <2>3. Taken => script' \in Replacing /\ Ahead' = "unlinkPrepared"
    <3>1. Taken => script' \in Replacing
      BY <2>2 DEF Replacing
    <3>2. Taken => script' # <<>> /\ Head(script') = "unlinkPrepared"
      BY <2>2
    <3> QED BY <3>1, <3>2 DEF Ahead
  <2>4. Taken => Ahead' = Following(Ahead)
    BY <2>1, <2>3 DEF Following, Taken
  <2>5. ~Left("create")
    BY <1>8 DEF Left
  <2>6. ~Left("sync")
    BY <1>8 DEF Left
  <2>7. ~Left("mkdir")
    BY <1>8 DEF Left
  <2>8. ~Left("identify")
    BY <1>8 DEF Left
  <2>9. Left("unlinkPrepared")
    <3>1. 2 \in DOMAIN script /\ script[2] = "unlinkPrepared"
      BY <1>8
    <3> QED BY <3>1 DEF Left
  <2> QED BY <2>1, <2>3, <2>4, <2>5, <2>6, <2>7, <2>8, <2>9
<1>9. CASE script = <<"unlinkPrepared", "unlinkEntry", "rmdir">>
  BY <1>9 DEF Taken, Replacing, Ahead, Following, Left
<1>10. CASE script = <<"unlinkEntry", "rmdir">>
  BY <1>10 DEF Taken, Replacing, Ahead, Following, Left
<1>11. CASE script = <<"rmdir">>
  BY <1>11 DEF Taken, Replacing, Ahead, Following, Left
<1> QED BY <1>1, <1>2, <1>3, <1>4, <1>5, <1>6, <1>7, <1>8, <1>9, <1>10, <1>11 DEF Replacing

\* The three together: what the next call tells of the operation, and what the catch block does
\* when it fails.
LEMMA ApplyGoes ==
    ASSUME script \in ApplyRests, script # <<>>, from # to
    PROVE  /\ Ahead = Head(script) /\ Ahead \in {"create", "fill", "sync", "mkdir", "quarantine", "identify", "matches", "link", "unlinkPrepared", "unlinkEntry", "rmdir", "missing"}
           /\ Ahead \in {"create", "fill", "sync", "link", "unlinkPrepared"} => to # Absent
           /\ Ahead \in {"mkdir", "quarantine", "identify", "matches", "unlinkEntry", "rmdir"} => from # Absent
           /\ Ahead = "missing" => to = Absent /\ from # Absent
           /\ Taken => script' \in ApplyRests' /\ Ahead' = Following(Ahead)
           /\ PutBack = IF \/ from = Absent \/ Ahead \in {"create", "fill", "sync", "mkdir", "quarantine", "identify"}
                           \/ (Ahead \in {"unlinkEntry", "rmdir"} /\ to # Absent)
                        THEN <<>> ELSE <<"relink">>
           /\ DropPrepared = IF to = Absent \/ Ahead \in {"create", "unlinkEntry", "rmdir"} THEN <<>>
                             ELSE IF Ahead \in {"fill", "sync"} THEN <<"drop">> ELSE <<"discard">>
           /\ Left("mkdir") <=> from # Absent /\ Ahead \in {"create", "fill", "sync", "mkdir"}
<1>1. CASE from = Absent
  BY <1>1, CreatingGoes DEF ApplyRests, Taken, PutBack, DropPrepared, Installed, Identified
<1>2. CASE from # Absent /\ to = Absent
  BY <1>2, RemovingGoes DEF ApplyRests, Taken, PutBack, DropPrepared, Installed, Identified
<1>3. CASE from # Absent /\ to # Absent
  BY <1>3, ReplacingGoes DEF ApplyRests, Taken, PutBack, DropPrepared, Installed, Identified
<1> QED BY <1>1, <1>2, <1>3

\* Two sequences of two.
LEMMA JoinTwo ==
    ASSUME NEW a, NEW c, NEW d, NEW e
    PROVE  <<a, c>> \o <<d, e>> = <<a, c, d, e>>
<1> DEFINE s == <<a, c>> \o <<d, e>>
           t == <<a, c, d, e>>
<1>1. s \in Seq({a, c, d, e}) /\ t \in Seq({a, c, d, e})
  OBVIOUS
<1>2. Len(s) = 4 /\ Len(t) = 4
  OBVIOUS
<1>3. \A i \in 1..4 : s[i] = t[i]
  OBVIOUS
<1> HIDE DEF s, t
<1>4. s = t
  BY <1>1, <1>2, <1>3, SeqEqual
<1> QED BY <1>4 DEF s, t

\* One of one and one of one.
LEMMA JoinSingles ==
    ASSUME NEW a, NEW d
    PROVE  <<a>> \o <<d>> = <<a, d>>
<1> DEFINE s == <<a>> \o <<d>>
           t == <<a, d>>
<1>1. s \in Seq({a, d}) /\ t \in Seq({a, d})
  OBVIOUS
<1>2. Len(s) = 2 /\ Len(t) = 2
  OBVIOUS
<1>3. s[1] = t[1] /\ s[2] = t[2]
  OBVIOUS
<1> HIDE DEF s, t
<1>4. s = t
  BY <1>1, <1>2, <1>3, SeqEqual
<1> QED BY <1>4 DEF s, t

\* One of two and one of one.
LEMMA JoinOne ==
    ASSUME NEW a, NEW c, NEW d
    PROVE  <<a, c>> \o <<d>> = <<a, c, d>>
<1> DEFINE s == <<a, c>> \o <<d>>
           t == <<a, c, d>>
<1>1. s \in Seq({a, c, d}) /\ t \in Seq({a, c, d})
  OBVIOUS
<1>2. Len(s) = 3 /\ Len(t) = 3
  OBVIOUS
<1>3. \A i \in 1..3 : s[i] = t[i]
  OBVIOUS
<1> HIDE DEF s, t
<1>4. s = t
  BY <1>1, <1>2, <1>3, SeqEqual
<1> QED BY <1>4 DEF s, t

\* The clean-up.
LEMMA CatchGoes ==
    ASSUME script \in CatchRests, script # <<>>
    PROVE  /\ Ahead = Head(script)
           /\ script' = Tail(script) => script' \in CatchRests
           /\ script' = Tail(script) =>
                \/ Ahead = "relink" /\ Ahead' \in {"discard", "tidy"}
                \/ Ahead = "unlinkEntry" /\ Ahead' = "rmdir"
                \/ Ahead = "rmdir" /\ Ahead' \in {"discard", "tidy"}
                \/ Ahead \in {"drop", "discard"} /\ Ahead' \in {"tidy", "end"}
                \/ Ahead = "tidy" /\ Ahead' = "end"
           /\ script' = Tail(script) => /\ script' \in NoTidy => script \in NoTidy \/ Ahead = "tidy"
                                        /\ script' \in NoDiscard =>
                                               script \in NoDiscard \/ Ahead \in {"drop", "discard"}
<1>1. CASE script = <<"relink", "discard", "tidy">>
  BY <1>1 DEF CatchRests, NoTidy, NoDiscard, Ahead
<1>2. CASE script = <<"relink", "tidy">>
  BY <1>2 DEF CatchRests, NoTidy, NoDiscard, Ahead
<1>3. CASE script = <<"unlinkEntry", "rmdir", "discard", "tidy">>
  BY <1>3 DEF CatchRests, NoTidy, NoDiscard, Ahead
<1>4. CASE script = <<"unlinkEntry", "rmdir", "tidy">>
  BY <1>4 DEF CatchRests, NoTidy, NoDiscard, Ahead
<1>5. CASE script = <<"rmdir", "discard", "tidy">>
  BY <1>5 DEF CatchRests, NoTidy, NoDiscard, Ahead
<1>6. CASE script = <<"rmdir", "tidy">>
  BY <1>6 DEF CatchRests, NoTidy, NoDiscard, Ahead
<1>7. CASE script = <<"discard", "tidy">>
  BY <1>7 DEF CatchRests, NoTidy, NoDiscard, Ahead
<1>8. CASE script = <<"tidy">>
  BY <1>8 DEF CatchRests, NoTidy, NoDiscard, Ahead
<1>9. CASE script = <<"drop">>
  BY <1>9 DEF CatchRests, NoTidy, NoDiscard, Ahead
<1>10. CASE script = <<"discard">>
  BY <1>10 DEF CatchRests, NoTidy, NoDiscard, Ahead
<1> QED BY <1>1, <1>2, <1>3, <1>4, <1>5, <1>6, <1>7, <1>8, <1>9, <1>10 DEF CatchRests

\* What is to be done once the file is back is none of the shorter rests.
LEMMA LongRests ==
    /\ <<"unlinkEntry", "rmdir", "discard", "tidy">> \notin NoTidy
    /\ <<"unlinkEntry", "rmdir", "discard", "tidy">> \notin NoDiscard
    /\ <<"unlinkEntry", "rmdir", "tidy">> \notin NoTidy
  BY DEF NoTidy, NoDiscard

\* A file put back adds the removal of its entry.
LEMMA CatchRelinks ==
    ASSUME script \in CatchRests, script # <<>>, Ahead = "relink",
           script' = <<"unlinkEntry", "rmdir">> \o Tail(script)
    PROVE  /\ script' \in CatchRests /\ Ahead' = "unlinkEntry"
           /\ script' \in NoDiscard => script \in NoDiscard
           /\ script' \notin NoTidy
<1>1. CASE script = <<"relink", "discard", "tidy">>
  <2>1. Tail(script) = <<"discard", "tidy">>
    BY <1>1
  <2>2. script' = <<"unlinkEntry", "rmdir", "discard", "tidy">>
    BY <2>1, JoinTwo
  <2>3. script' \in CatchRests /\ script' \notin NoDiscard /\ script' \notin NoTidy
    <3>1. script' \in CatchRests
      BY <2>2 DEF CatchRests
    <3> QED BY <2>2, <3>1, LongRests
  <2>4. script' # <<>> /\ Head(script') = "unlinkEntry"
    BY <2>2
  <2> QED BY <2>3, <2>4 DEF Ahead
<1>2. CASE script = <<"relink", "tidy">>
  <2>1. Tail(script) = <<"tidy">>
    BY <1>2
  <2>2. script' = <<"unlinkEntry", "rmdir", "tidy">>
    BY <2>1, JoinOne
  <2>3. script' \in CatchRests /\ script \in NoDiscard /\ script' \notin NoTidy
    <3>1. script' \in CatchRests
      BY <2>2 DEF CatchRests
    <3>2. script' \notin NoTidy
      BY <2>2, LongRests
    <3> QED BY <1>2, <3>1, <3>2 DEF NoDiscard
  <2>4. script' # <<>> /\ Head(script') = "unlinkEntry"
    BY <2>2
  <2> QED BY <2>3, <2>4 DEF Ahead
<1>3. script = <<"relink", "discard", "tidy">> \/ script = <<"relink", "tidy">>
  BY DEF CatchRests, Ahead
<1> QED BY <1>1, <1>2, <1>3

\* The reconciliation.
LEMMA ReconcileGoes ==
    ASSUME script \in ReconcileRests, script # <<>>
    PROVE  /\ Ahead = Head(script)
           /\ script = LastRemoval => Ahead = "unlinkPrepared"
           /\ script' = Tail(script) => script' \in ReconcileRests
           /\ script' = Tail(script) =>
                \/ Ahead = "unlinkLeaf" /\ Ahead' = "renameEntry" /\ script' # LastRemoval
                \/ Ahead = "renameEntry" /\ Ahead' = "rmdir" /\ script' # LastRemoval
                \/ Ahead = "link" /\ Ahead' = "unlinkPrepared" /\ script' # LastRemoval
                \/ /\ Ahead = "unlinkPrepared" /\ script # LastRemoval
                   /\ Ahead' = "unlinkEntry" /\ script' # LastRemoval
                \/ Ahead = "unlinkEntry" /\ Ahead' = "rmdir" /\ script' # LastRemoval
                \/ Ahead = "rmdir" /\ Ahead' = "unlinkPrepared" /\ script' = LastRemoval
                \/ script = LastRemoval /\ Ahead' = "end" /\ script' # LastRemoval
<1>1. CASE script = <<"unlinkLeaf", "renameEntry", "rmdir", "unlinkPrepared">>
  BY <1>1 DEF ReconcileRests, LastRemoval, Ahead
<1>2. CASE script = <<"renameEntry", "rmdir", "unlinkPrepared">>
  BY <1>2 DEF ReconcileRests, LastRemoval, Ahead
<1>3. CASE script = <<"link", "unlinkPrepared", "unlinkEntry", "rmdir", "unlinkPrepared">>
  BY <1>3 DEF ReconcileRests, LastRemoval, Ahead
<1>4. CASE script = <<"unlinkPrepared", "unlinkEntry", "rmdir", "unlinkPrepared">>
  BY <1>4 DEF ReconcileRests, LastRemoval, Ahead
<1>5. CASE script = <<"unlinkEntry", "rmdir", "unlinkPrepared">>
  BY <1>5 DEF ReconcileRests, LastRemoval, Ahead
<1>6. CASE script = <<"rmdir", "unlinkPrepared">>
  BY <1>6 DEF ReconcileRests, LastRemoval, Ahead
<1>7. CASE script = <<"unlinkPrepared">>
  BY <1>7 DEF ReconcileRests, LastRemoval, Ahead
<1> QED BY <1>1, <1>2, <1>3, <1>4, <1>5, <1>6, <1>7 DEF ReconcileRests, LastRemoval

-----------------------------------------------------------------------------
(* The editor, and the steps between two workers. *)

\* The editor writes: it ends what was known of the file, and its own bytes are new.
LEMMA EditStep ==
    ASSUME IInv, NEW c \in States, Edit(c)
    PROVE  IInv'
<1> USE DEF IInv
<1>1. FilesInv'
  <2>1. pre' = pre /\ post' = post /\ leaf' = c /\ entry' = entry /\ view' = view /\ prepared' = prepared
        /\ dir' = dir /\ twin' = "none" /\ from' = from /\ to' = to /\ pc' = pc /\ touched' = TRUE
        /\ slip' = slip
    BY DEF Edit
  <2>2. kept' \subseteq Bytes \ {pre, post}
    BY DEF Edit, FilesInv, States
  <2>3. count' \in [Limits -> Nat] /\ count'["edits"] # 0
    BY DEF Edit, FilesInv, Use, Limits
  <2> QED BY <2>1, <2>2, <2>3 DEF FilesInv, Undisturbed
<1>2. ~Undisturbed'
  BY DEF Edit, FilesInv, Use, Limits, Undisturbed
<1>3. Ahead' = Ahead /\ script' = script
  BY DEF Edit, Ahead
<1>4. BetweenInv'
  BY <1>2 DEF Edit, BetweenInv, Clean, Fresh
<1>5. ApplyInv'
  BY <1>3 DEF Edit, ApplyInv, ApplyRests
<1>6. TidyInv'
  BY <1>2, <1>3 DEF Edit, TidyInv, Fresh
<1>7. UndisturbedInv' /\ UndoneInv'
  BY <1>2 DEF UndisturbedInv, UndoneInv
<1>8. CatchInv'
  BY <1>3 DEF Edit, CatchInv, FilesInv
<1>9. ReconcileInv'
  BY <1>3 DEF Edit, ReconcileInv, Clean
<1> QED BY <1>1, <1>4, <1>5, <1>6, <1>7, <1>8, <1>9

\* A step that leaves names, bytes and bounds alone.
Frame ==
    /\ UNCHANGED <<pre, post, leaf, prepared, dir, entry, twin, kept>>
    /\ slip' \in {"none", "unidentified", "undropped"}
    /\ count' \in [Limits -> Nat] /\ count'["edits"] = count["edits"]

\* What remains to be shown of one.
LEMMA FrameStep ==
    ASSUME IInv, Frame, view' \in States, touched' = FALSE \/ touched' = touched,
           from' \in {pre, post}, to' \in {pre, post} \ {from'},
           pc' \in {"ready", "start", "apply", "catch", "applied", "failed", "dead", "decide",
                    "reconcile", "classify", "undo", "rolledback", "frozen"}
    PROVE  FilesInv' /\ (Undisturbed' <=> Undisturbed) /\ (Clean' <=> Clean)
<1>1. Undisturbed' <=> Undisturbed
  BY DEF Frame, Undisturbed
<1>2. Clean' <=> Clean
  BY DEF Frame, Clean
<1>3. touched' \in BOOLEAN /\ (Undisturbed' => ~touched')
  <2>1. touched \in BOOLEAN /\ (Undisturbed => ~touched)
    BY DEF IInv, FilesInv
  <2>2. CASE touched' = FALSE
    BY <2>2
  <2>3. CASE touched' = touched
    BY <1>1, <2>1, <2>3
  <2> QED BY <2>2, <2>3
<1>4. /\ pre' \in States /\ post' \in States \ {pre'}
      /\ leaf' \in States /\ entry' \in States /\ prepared' \in States \cup {Partial}
      /\ dir' \in BOOLEAN /\ (entry' # Absent => dir')
      /\ twin' \in {"none", "prepared", "entry"}
      /\ twin' = "prepared" => prepared' = leaf'
      /\ twin' = "entry" => entry' = leaf'
      /\ twin' # "none" => leaf' # Absent
      /\ kept' \subseteq Bytes \ {pre', post'}
      /\ slip' \in {"none", "unidentified", "undropped"}
      /\ pre' = pre /\ post' = post
  BY DEF IInv, FilesInv, Frame
<1>5. count' \in [Limits -> Nat]
  BY DEF Frame
<1>6. FilesInv'
  BY <1>3, <1>4, <1>5 DEF FilesInv
<1> QED BY <1>1, <1>2, <1>6

\* A new apply looks at the file first.
LEMMA BeginStep ==
    ASSUME IInv, NEW e \in {pre, post}, NEW t \in {pre, post} \ {e}, Begin(e, t),
           (t = post \/ Undisturbed => Clean) /\ (Undisturbed => leaf = e)
    PROVE  IInv'
<1>1. Frame /\ touched' = FALSE /\ slip' = "none" /\ from' = e /\ to' = t /\ view' = view /\ script' = script
  BY DEF Begin, Files, IInv, FilesInv, Frame
<1>2. \/ pc' = "start" /\ leaf = e /\ twin = "none"
      \/ pc' = "failed" /\ ~Undisturbed
  BY DEF Begin, Clean
<1>3. FilesInv' /\ (Undisturbed' <=> Undisturbed) /\ (Clean' <=> Clean)
  <2>1. view \in States
    BY DEF IInv, FilesInv
  <2> QED BY <1>1, <1>2, <2>1, FrameStep
<1>4. BetweenInv'
  BY <1>1, <1>2, <1>3 DEF BetweenInv, Frame, Fresh
<1> QED BY <1>2, <1>3, <1>4 DEF IInv, ApplyInv, TidyInv, UndisturbedInv, CatchInv, UndoneInv, ReconcileInv

\* The first apply, and recovery's.
LEMMA StartStep ==
    ASSUME IInv, StartApply \/ StartUndo
    PROVE  IInv'
<1>1. pre \in {pre, post} /\ post \in {pre, post} \ {pre} /\ pre \in {pre, post} \ {post}
  BY DEF IInv, FilesInv
<1>2. CASE StartApply
  BY <1>1, <1>2, BeginStep DEF StartApply, IInv, BetweenInv
<1>3. CASE StartUndo
  BY <1>1, <1>3, BeginStep DEF StartUndo, IInv, BetweenInv
<1> QED BY <1>2, <1>3

\* The worker starts.
LEMMA SpawnStep ==
    ASSUME IInv, Spawn
    PROVE  IInv'
<1>1. Frame /\ touched' = touched /\ from' = from /\ to' = to /\ view' = view /\ script' = ApplyScript
      /\ slip' = slip /\ pc = "start" /\ pc' = "apply"
  BY DEF Spawn, Files, IInv, FilesInv, Frame
<1>2. FilesInv' /\ (Undisturbed' <=> Undisturbed) /\ (Clean' <=> Clean)
  BY <1>1, FrameStep DEF IInv, FilesInv
<1>3. from # to
  BY DEF IInv, FilesInv
<1>4. /\ script' \in ApplyRests'
      /\ Ahead' = IF to = Absent THEN "mkdir" ELSE "create"
  <2>1. CASE from = Absent
    BY <1>1, <1>3, <2>1 DEF ApplyScript, ApplyRests, Creating, Ahead
  <2>2. CASE from # Absent /\ to = Absent
    BY <1>1, <1>3, <2>2 DEF ApplyScript, ApplyRests, Removing, Ahead
  <2>3. CASE from # Absent /\ to # Absent
    BY <1>1, <1>3, <2>3 DEF ApplyScript, ApplyRests, Replacing, Ahead
  <2> QED BY <2>1, <2>2, <2>3
<1>5. ApplyInv'
  BY <1>1, <1>4 DEF ApplyInv, Frame, IInv, BetweenInv
<1>6. TidyInv'
  BY <1>1, <1>2, <1>4 DEF TidyInv, Frame, IInv, BetweenInv, Fresh, Clean
<1>7. UndisturbedInv'
  BY <1>1, <1>4 DEF UndisturbedInv, IInv, BetweenInv
<1> QED BY <1>1, <1>2, <1>4, <1>5, <1>6, <1>7 DEF IInv, BetweenInv, CatchInv, UndoneInv, ReconcileInv

\* The clean-up, from the call that failed.
LEMMA CleanUpIs ==
    ASSUME script \in ApplyRests, script # <<>>, from # to
    PROVE  /\ Ahead = "create" \/ (Ahead = "mkdir" /\ to = Absent) => CleanUp = <<>>
           /\ Ahead \in {"fill", "sync"} => CleanUp = <<"drop">>
           /\ to # Absent /\ (Ahead = "mkdir" \/ (from = Absent /\ Ahead \in {"link", "unlinkPrepared"})) =>
                  CleanUp = <<"discard">>
           /\ Ahead \in {"quarantine", "identify"} =>
                  CleanUp = IF to = Absent THEN <<"tidy">> ELSE <<"discard", "tidy">>
           /\ from # Absent /\ to # Absent /\ Ahead \in {"matches", "link", "unlinkPrepared"} =>
                  CleanUp = <<"relink", "discard", "tidy">>
           /\ to = Absent /\ Ahead \in {"matches", "missing", "unlinkEntry", "rmdir"} =>
                  CleanUp = <<"relink", "tidy">>
           /\ to # Absent /\ Ahead \in {"unlinkEntry", "rmdir"} => CleanUp = <<"tidy">>
<1> DEFINE Tidying == IF from # Absent /\ ~Left("mkdir") THEN <<"tidy">> ELSE <<>>
<1>1. CleanUp = (PutBack \o DropPrepared) \o Tidying
  BY DEF CleanUp
<1>2. Tidying = IF from = Absent \/ Ahead \in {"create", "fill", "sync", "mkdir"} THEN <<>> ELSE <<"tidy">>
  BY ApplyGoes
<1> HIDE DEF Tidying
<1>3. /\ <<>> \o <<>> = <<>> /\ <<>> \o <<"drop">> = <<"drop">> /\ <<>> \o <<"discard">> = <<"discard">>
      /\ <<"drop">> \o <<>> = <<"drop">> /\ <<"discard">> \o <<>> = <<"discard">> /\ <<"relink">> \o <<>> = <<"relink">>
      /\ <<>> \o <<"tidy">> = <<"tidy">> /\ <<"discard">> \o <<"tidy">> = <<"discard", "tidy">>
      /\ <<"relink">> \o <<"tidy">> = <<"relink", "tidy">> /\ <<"relink">> \o <<"discard">> = <<"relink", "discard">>
      /\ <<"relink", "discard">> \o <<"tidy">> = <<"relink", "discard", "tidy">>
  <2>1. /\ <<>> \o <<>> = <<>> /\ <<>> \o <<"drop">> = <<"drop">> /\ <<>> \o <<"discard">> = <<"discard">>
        /\ <<"drop">> \o <<>> = <<"drop">> /\ <<"discard">> \o <<>> = <<"discard">>
        /\ <<"relink">> \o <<>> = <<"relink">> /\ <<>> \o <<"tidy">> = <<"tidy">>
    OBVIOUS
  <2>2. /\ <<"discard">> \o <<"tidy">> = <<"discard", "tidy">> /\ <<"relink">> \o <<"tidy">> = <<"relink", "tidy">>
        /\ <<"relink">> \o <<"discard">> = <<"relink", "discard">>
    BY JoinSingles
  <2> QED BY <2>1, <2>2, JoinOne
<1>4. CASE Ahead = "create" \/ (Ahead = "mkdir" /\ to = Absent)
  <2>1. PutBack = <<>> /\ DropPrepared = <<>> /\ Tidying = <<>>
    BY <1>2, <1>4, ApplyGoes
  <2> QED BY <1>1, <1>3, <1>4, <2>1
<1>5. CASE Ahead \in {"fill", "sync"}
  <2>1. PutBack = <<>> /\ DropPrepared = <<"drop">> /\ Tidying = <<>>
    BY <1>2, <1>5, ApplyGoes
  <2> QED BY <1>1, <1>3, <1>5, <2>1
<1>6. CASE to # Absent /\ (Ahead = "mkdir" \/ (from = Absent /\ Ahead \in {"link", "unlinkPrepared"}))
  <2>1. PutBack = <<>> /\ DropPrepared = <<"discard">> /\ Tidying = <<>>
    BY <1>2, <1>6, ApplyGoes
  <2> QED BY <1>1, <1>3, <1>6, <2>1
<1>7. CASE Ahead \in {"quarantine", "identify"}
  <2>1. PutBack = <<>> /\ DropPrepared = (IF to = Absent THEN <<>> ELSE <<"discard">>) /\ Tidying = <<"tidy">>
    BY <1>2, <1>7, ApplyGoes
  <2> QED BY <1>1, <1>3, <1>7, <2>1
<1>8. CASE from # Absent /\ to # Absent /\ Ahead \in {"matches", "link", "unlinkPrepared"}
  <2>1. PutBack = <<"relink">> /\ DropPrepared = <<"discard">> /\ Tidying = <<"tidy">>
    BY <1>2, <1>8, ApplyGoes
  <2> QED BY <1>1, <1>3, <1>8, <2>1
<1>9. CASE to = Absent /\ Ahead \in {"matches", "missing", "unlinkEntry", "rmdir"}
  <2>1. PutBack = <<"relink">> /\ DropPrepared = <<>> /\ Tidying = <<"tidy">>
    BY <1>2, <1>9, ApplyGoes
  <2> QED BY <1>1, <1>3, <1>9, <2>1
<1>10. CASE to # Absent /\ Ahead \in {"unlinkEntry", "rmdir"}
  <2>1. PutBack = <<>> /\ DropPrepared = <<>> /\ Tidying = <<"tidy">>
    BY <1>2, <1>10, ApplyGoes
  <2> QED BY <1>1, <1>3, <1>10, <2>1
<1> QED BY <1>4, <1>5, <1>6, <1>7, <1>8, <1>9, <1>10

\* A call fails: from what was done, the clean-up knows what to put back.
LEMMA FailStep ==
    ASSUME IInv, Fail
    PROVE  IInv'
<1>1. Frame /\ touched' = touched /\ from' = from /\ to' = to /\ view' = view /\ script' = CleanUp
      /\ slip' = (IF Head(script) = "identify" THEN "unidentified" ELSE slip)
      /\ pc = "apply" /\ pc' = "catch" /\ script # <<>>
  BY DEF Fail, Use, Files, IInv, FilesInv, Frame, Limits
<1>2. FilesInv' /\ (Undisturbed' <=> Undisturbed) /\ (Clean' <=> Clean)
  BY <1>1, FrameStep DEF IInv, FilesInv
<1>3. from # to /\ script \in ApplyRests
  BY <1>1 DEF IInv, FilesInv, ApplyInv
<1>4. Undisturbed => ~touched /\ Fresh /\ slip = "none"
  BY <1>1 DEF IInv, FilesInv, Fresh, UndisturbedInv
<1>5. /\ Ahead = Head(script) /\ Ahead \in {"create", "fill", "sync", "mkdir", "quarantine", "identify", "matches",
                                         "link", "unlinkPrepared", "unlinkEntry", "rmdir", "missing"}
      /\ Ahead \in {"create", "fill", "sync", "link", "unlinkPrepared"} => to # Absent
      /\ Ahead \in {"mkdir", "quarantine", "identify", "matches", "unlinkEntry", "rmdir"} => from # Absent
      /\ Ahead = "missing" => to = Absent /\ from # Absent
  BY <1>1, <1>3, ApplyGoes
<1>6. SUFFICES CatchInv' /\ UndoneInv'
  BY <1>1, <1>2 DEF IInv, BetweenInv, ApplyInv, TidyInv, UndisturbedInv, ReconcileInv
<1>7. ApplyInv /\ TidyInv /\ UndisturbedInv /\ FilesInv
  BY DEF IInv
<1>8. ASSUME script' \in CatchRests, Ahead' \in {"relink", "drop", "discard", "tidy", "end"},
             Ahead' = "drop" => Ahead \in {"fill", "sync"},
             Undisturbed => /\ Ahead' = "relink" => /\ leaf = to \/ (leaf = Absent /\ entry = from)
                                                    /\ entry \in {from, Absent} /\ Ahead # "identify"
                            /\ Ahead' # "relink" => \/ leaf = to
                                                    \/ leaf = from /\ entry = Absent /\ twin = "none" /\ Ahead # "identify"
                                                    \/ Ahead = "identify" /\ leaf = Absent /\ entry = from
                            /\ script' \in NoDiscard => prepared = Absent \/ (leaf = to /\ to # Absent)
                            /\ script' \in NoTidy => ~dir \/ leaf = to
      PROVE  CatchInv' /\ UndoneInv'
  <2>1. CatchInv'
    BY <1>1, <1>7, <1>8 DEF CatchInv, ApplyInv, Frame
  <2>2. Undisturbed => slip' = IF Ahead = "identify" THEN "unidentified" ELSE "none"
    BY <1>1, <1>4, <1>5
  <2>3. NoDiscard' = NoDiscard /\ NoTidy' = NoTidy
    BY DEF NoDiscard, NoTidy
  <2>4. UndoneInv'
    BY <1>1, <1>2, <1>8, <2>2, <2>3 DEF UndoneInv, Settled, Frame
  <2> QED BY <2>1, <2>4
<1>9. CASE Ahead = "create" \/ (Ahead = "mkdir" /\ to = Absent)
  <2>1. script' = <<>> /\ Ahead' = "end"
    BY <1>1, <1>3, <1>9, CleanUpIs DEF Ahead
  <2>2. script' \in CatchRests
    BY <2>1 DEF CatchRests
  <2>3. Undisturbed => leaf = from /\ entry = Absent /\ twin = "none" /\ prepared = Absent /\ ~dir
    BY <1>1, <1>4, <1>7, <1>9 DEF ApplyInv, TidyInv, FilesInv, Exchanging
  <2> QED BY <1>8, <1>9, <2>1, <2>2, <2>3
<1>10. CASE Ahead \in {"fill", "sync"}
  <2>1. script' = <<"drop">> /\ Ahead' = "drop"
    BY <1>1, <1>3, <1>10, CleanUpIs DEF Ahead
  <2>2. script' \in CatchRests /\ script' \notin NoDiscard
    BY <2>1 DEF CatchRests, NoDiscard
  <2>3. Undisturbed => leaf = from /\ entry = Absent /\ twin = "none" /\ ~dir
    BY <1>1, <1>4, <1>7, <1>10 DEF ApplyInv, TidyInv, FilesInv, Exchanging
  <2> QED BY <1>8, <1>10, <2>1, <2>2, <2>3
<1>11. CASE to # Absent /\ (Ahead = "mkdir" \/ (from = Absent /\ Ahead \in {"link", "unlinkPrepared"}))
  <2>1. script' = <<"discard">> /\ Ahead' = "discard"
    BY <1>1, <1>3, <1>11, CleanUpIs DEF Ahead
  <2>2. script' \in CatchRests /\ script' \notin NoDiscard
    BY <2>1 DEF CatchRests, NoDiscard
  <2>3. Undisturbed => leaf = to \/ (leaf = from /\ entry = Absent /\ twin = "none" /\ ~dir)
    BY <1>1, <1>4, <1>7, <1>11 DEF ApplyInv, TidyInv, UndisturbedInv, FilesInv, Exchanging
  <2> QED BY <1>8, <1>11, <2>1, <2>2, <2>3
<1>12. CASE Ahead \in {"quarantine", "identify"}
  <2>1. script' = (IF to = Absent THEN <<"tidy">> ELSE <<"discard", "tidy">>)
    BY <1>1, <1>3, <1>12, CleanUpIs
  <2>2. /\ script' \in CatchRests /\ script' \notin NoTidy /\ (script' \in NoDiscard => to = Absent)
        /\ Ahead' = IF to = Absent THEN "tidy" ELSE "discard"
    BY <2>1 DEF CatchRests, NoDiscard, NoTidy, Ahead
  <2>3. to = Absent /\ Undisturbed => prepared = Absent
    BY <1>1, <1>4, <1>7 DEF TidyInv
  <2>4. Ahead = "quarantine" /\ Undisturbed => leaf = from /\ entry = Absent /\ twin = "none"
    BY <1>1, <1>4, <1>7 DEF ApplyInv, Exchanging
  <2>5. Ahead = "identify" /\ Undisturbed => leaf = Absent /\ entry = from
    BY <1>1, <1>4, <1>7 DEF ApplyInv, UndisturbedInv
  <2> QED BY <1>8, <1>12, <2>2, <2>3, <2>4, <2>5
<1>13. CASE from # Absent /\ to # Absent /\ Ahead \in {"matches", "link", "unlinkPrepared"}
  <2>1. script' = <<"relink", "discard", "tidy">> /\ Ahead' = "relink"
    BY <1>1, <1>3, <1>13, CleanUpIs DEF Ahead
  <2>2. script' \in CatchRests /\ script' \notin NoDiscard /\ script' \notin NoTidy
    BY <2>1 DEF CatchRests, NoDiscard, NoTidy
  <2>3. Undisturbed => entry = from /\ leaf \in {to, Absent}
    BY <1>1, <1>4, <1>7, <1>13 DEF ApplyInv, UndisturbedInv
  <2> QED BY <1>8, <1>13, <2>1, <2>2, <2>3
<1>14. CASE to = Absent /\ Ahead \in {"matches", "missing", "unlinkEntry", "rmdir"}
  <2>1. script' = <<"relink", "tidy">> /\ Ahead' = "relink"
    BY <1>1, <1>3, <1>14, CleanUpIs DEF Ahead
  <2>2. script' \in CatchRests /\ script' \notin NoTidy
    BY <2>1 DEF CatchRests, NoTidy
  <2>3. Undisturbed => leaf = to /\ prepared = Absent /\ entry \in {from, Absent}
    BY <1>1, <1>4, <1>5, <1>7, <1>14 DEF ApplyInv, TidyInv, UndisturbedInv
  <2> QED BY <1>8, <1>14, <2>1, <2>2, <2>3
<1>15. CASE to # Absent /\ Ahead \in {"unlinkEntry", "rmdir"}
  <2>1. script' = <<"tidy">> /\ Ahead' = "tidy"
    BY <1>1, <1>3, <1>15, CleanUpIs DEF Ahead
  <2>2. script' \in CatchRests
    BY <2>1 DEF CatchRests
  <2>3. Undisturbed => leaf = to
    BY <1>1, <1>7, <1>15 DEF UndisturbedInv
  <2> QED BY <1>8, <1>15, <2>1, <2>2, <2>3
<1> QED BY <1>5, <1>9, <1>10, <1>11, <1>12, <1>13, <1>14, <1>15

\* The unlink of a half-made file fails, and nobody is told.
LEMMA SwallowStep ==
    ASSUME IInv, Swallow
    PROVE  IInv'
<1>1. Frame /\ touched' = touched /\ from' = from /\ to' = to /\ view' = view /\ script' = Tail(script)
      /\ slip' = "undropped" /\ pc = "catch" /\ pc' = "catch" /\ script # <<>> /\ Head(script) = "drop"
  BY DEF Swallow, Use, Files, IInv, FilesInv, Frame, Limits
<1>2. FilesInv' /\ (Undisturbed' <=> Undisturbed) /\ (Clean' <=> Clean)
  BY <1>1, FrameStep DEF IInv, FilesInv
<1>3. script \in CatchRests /\ Ahead = "drop"
  BY <1>1 DEF IInv, CatchInv, Ahead
<1>4. script = <<"drop">>
  BY <1>1, <1>3 DEF CatchRests
<1>5. script' = <<>> /\ Ahead' = "end" /\ script \in NoTidy
  BY <1>1, <1>4 DEF Ahead, NoTidy
<1>6. CatchInv'
  BY <1>1, <1>3, <1>5 DEF IInv, CatchInv, CatchRests, Frame
<1>7. UndoneInv'
  <2> SUFFICES ASSUME Undisturbed PROVE UndoneInv'
    BY <1>1, <1>2 DEF UndoneInv
  <2>1. leaf = to \/ (leaf = from /\ entry = Absent /\ twin = "none" /\ ~dir)
    BY <1>1, <1>3, <1>5 DEF IInv, UndoneInv, Settled
  <2> QED BY <1>1, <1>2, <1>5, <2>1 DEF UndoneInv, Settled, Frame
<1> QED BY <1>1, <1>2, <1>6, <1>7 DEF IInv, BetweenInv, ApplyInv, TidyInv, UndisturbedInv, ReconcileInv

\* The worker is done: what it leaves was to be left.
LEMMA VerifyStep ==
    ASSUME IInv, Verify
    PROVE  IInv'
<1>1. Frame /\ touched' = touched /\ from' = from /\ to' = to /\ view' = view /\ script' = script
      /\ pc = "apply" /\ script = <<>>
  BY DEF Verify, Files, IInv, FilesInv, Frame
<1>2. \/ pc' = "failed" /\ (leaf # to \/ twin # "none")
      \/ pc' = "applied" /\ to = post
      \/ pc' = "rolledback"
  BY DEF Verify
<1>3. FilesInv' /\ (Undisturbed' <=> Undisturbed) /\ (Clean' <=> Clean)
  BY <1>1, <1>2, FrameStep DEF IInv, FilesInv
<1>4. Ahead = "end"
  BY <1>1 DEF Ahead
<1>5. Fresh => Clean
  BY <1>1, <1>4 DEF IInv, ApplyInv, TidyInv, Clean
<1>6. Undisturbed => leaf = to /\ twin = "none"
  BY <1>1, <1>4 DEF IInv, ApplyInv, UndisturbedInv
<1>7. BetweenInv'
  BY <1>1, <1>2, <1>3, <1>5, <1>6 DEF BetweenInv, Fresh
<1> QED BY <1>2, <1>3, <1>7 DEF IInv, ApplyInv, TidyInv, UndisturbedInv, CatchInv, UndoneInv, ReconcileInv

\* The clean-up is done.
LEMMA GiveUpStep ==
    ASSUME IInv, GiveUp
    PROVE  IInv'
<1>1. Frame /\ touched' = touched /\ from' = from /\ to' = to /\ view' = view /\ slip' = slip
      /\ pc = "catch" /\ script = <<>> /\ pc' = "failed"
  BY DEF GiveUp, Files, IInv, FilesInv, Frame
<1>2. FilesInv' /\ (Undisturbed' <=> Undisturbed) /\ (Clean' <=> Clean)
  BY <1>1, FrameStep DEF IInv, FilesInv
<1>3. Ahead = "end"
  BY <1>1 DEF Ahead
<1>4. script \in NoTidy /\ script \in NoDiscard
  BY <1>1 DEF NoTidy, NoDiscard
<1>5. Undisturbed => /\ Settled
                     /\ prepared = Absent \/ leaf = to \/ slip = "undropped"
                     /\ ~dir \/ leaf = to \/ slip = "unidentified"
  BY <1>1, <1>3, <1>4 DEF IInv, UndoneInv
<1>6. BetweenInv'
  BY <1>1, <1>2, <1>5 DEF BetweenInv, Frame, Settled, Clean
<1> QED BY <1>1, <1>2, <1>6 DEF IInv, ApplyInv, TidyInv, UndisturbedInv, CatchInv, UndoneInv, ReconcileInv

\* A worker dies, recovery's gives up, or recovery finds the path unknown: nothing is claimed of what is left.
LEMMA LeftStep ==
    ASSUME IInv, WorkerDies \/ Refuse
    PROVE  IInv'
<1>1. Frame /\ touched' = touched /\ from' = from /\ to' = to /\ view' = view /\ pc' \in {"dead", "frozen"}
  BY DEF WorkerDies, Refuse, Use, Files, IInv, FilesInv, Frame, Limits
<1>2. FilesInv'
  BY <1>1, FrameStep DEF IInv, FilesInv
<1> QED BY <1>1, <1>2 DEF IInv, BetweenInv, ApplyInv, TidyInv, UndisturbedInv, CatchInv, UndoneInv, ReconcileInv

-----------------------------------------------------------------------------
(* Recovery *)

\* Recovery looks at the file; one with a second link it skips.
LEMMA InspectStep ==
    ASSUME IInv, Inspect
    PROVE  IInv'
<1>1. Frame /\ touched' = touched /\ from' = from /\ to' = to /\ view' = leaf
      /\ \/ pc' = "classify" /\ twin # "none"
         \/ pc' = "decide" /\ twin = "none"
  BY DEF Inspect, Files, IInv, FilesInv, Frame
<1>2. FilesInv'
  BY <1>1, FrameStep DEF IInv, FilesInv
<1>3. BetweenInv'
  BY <1>1 DEF BetweenInv, Frame
<1> QED BY <1>1, <1>2, <1>3 DEF IInv, ApplyInv, TidyInv, UndisturbedInv, CatchInv, UndoneInv, ReconcileInv

\* What recovery's worker decides on, from what it finds.
LEMMA DecideStep ==
    ASSUME IInv, Decide
    PROVE  IInv'
<1>1. Frame /\ touched' = touched /\ from' = from /\ to' = to /\ view' = view /\ pc = "decide"
      /\ \/ pc' = "frozen"
         \/ ~Unexplained /\ pc' = "reconcile" /\ script' = IF Clean THEN <<>> ELSE ReconcileScript
  BY DEF Decide, Files, IInv, FilesInv, Frame
<1>2. FilesInv' /\ (Undisturbed' <=> Undisturbed) /\ (Clean' <=> Clean)
  BY <1>1, FrameStep DEF IInv, FilesInv
<1>3. twin = "none"
  BY <1>1 DEF IInv, BetweenInv
<1>4. ReconcileInv'
  <2>1. SUFFICES ASSUME ~Unexplained, pc' = "reconcile", script' = IF Clean THEN <<>> ELSE ReconcileScript
                 PROVE  ReconcileInv'
    BY <1>1 DEF ReconcileInv
  <2>2. CASE Clean
    <3>1. script' = <<>> /\ Ahead' = "end" /\ script' # LastRemoval
      BY <2>1, <2>2 DEF Ahead, LastRemoval
    <3>2. script' \in ReconcileRests
      BY <3>1 DEF ReconcileRests
    <3> QED BY <1>1, <1>2, <1>3, <2>2, <3>1, <3>2 DEF ReconcileInv, Frame
  <2>3. CASE ~Clean /\ entry = Absent
    <3>1. script' = LastRemoval /\ Ahead' = "unlinkPrepared"
      BY <2>1, <2>3 DEF ReconcileScript, Ahead, LastRemoval
    <3>2. ~dir
      BY <2>1, <2>3 DEF Unexplained, IInv, FilesInv
    <3>3. script' \in ReconcileRests
      BY <3>1 DEF ReconcileRests
    <3> QED BY <1>1, <1>3, <2>3, <3>1, <3>2, <3>3 DEF ReconcileInv, Frame
  <2>4. CASE entry # Absent
    <3>1. /\ script' \in ReconcileRests /\ script' # LastRemoval
          /\ Ahead' \in {"renameEntry", "unlinkLeaf", "unlinkEntry", "link"}
          /\ Ahead' = "link" => entry # pre /\ leaf # pre
      BY <2>1, <2>4 DEF Clean, ReconcileScript, ReconcileRests, LastRemoval, Ahead
    <3>2. Ahead' = "link" => prepared = pre /\ pre # Absent
      <4>1. dir /\ entry \in {pre, post}
        BY <2>1, <2>4 DEF Unexplained, IInv, FilesInv
      <4> QED BY <2>1, <2>4, <3>1, <4>1 DEF Unexplained
    <3> QED BY <1>1, <1>3, <3>1, <3>2 DEF ReconcileInv, Frame
  <2> QED BY <2>2, <2>3, <2>4
<1>5. BetweenInv'
  BY <1>1 DEF BetweenInv
<1> QED BY <1>1, <1>2, <1>4, <1>5 DEF IInv, ApplyInv, TidyInv, UndisturbedInv, CatchInv, UndoneInv

\* Its worker is done.
LEMMA ReconciledStep ==
    ASSUME IInv, Reconciled
    PROVE  IInv'
<1>1. Frame /\ touched' = touched /\ from' = from /\ to' = to /\ view' = view
      /\ pc = "reconcile" /\ script = <<>> /\ pc' = "classify"
  BY DEF Reconciled, Files, IInv, FilesInv, Frame
<1>2. FilesInv' /\ (Clean' <=> Clean)
  BY <1>1, FrameStep DEF IInv, FilesInv
<1>3. Clean
  BY <1>1 DEF IInv, ReconcileInv, Ahead
<1>4. BetweenInv'
  BY <1>1, <1>2, <1>3 DEF BetweenInv
<1> QED BY <1>1, <1>2, <1>4 DEF IInv, ApplyInv, TidyInv, UndisturbedInv, CatchInv, UndoneInv, ReconcileInv

\* The path is at its source, at its target, or unknown.
LEMMA ClassifyStep ==
    ASSUME IInv, Classify
    PROVE  IInv'
<1>1. Frame /\ touched' = touched /\ from' = from /\ to' = to /\ view' = view /\ pc = "classify"
      /\ \/ pc' = "frozen"
         \/ pc' = "rolledback" /\ twin = "none"
         \/ pc' = "undo" /\ twin = "none" /\ leaf = post
  BY DEF Classify, Files, IInv, FilesInv, Frame
<1>2. FilesInv' /\ (Undisturbed' <=> Undisturbed) /\ (Clean' <=> Clean)
  BY <1>1, FrameStep DEF IInv, FilesInv
<1>3. Undisturbed /\ twin = "none" => Clean
  BY <1>1 DEF IInv, BetweenInv
<1>4. BetweenInv'
  BY <1>1, <1>2, <1>3 DEF BetweenInv, Frame
<1> QED BY <1>1, <1>2, <1>4 DEF IInv, ApplyInv, TidyInv, UndisturbedInv, CatchInv, UndoneInv, ReconcileInv

-----------------------------------------------------------------------------
(* The system calls *)

\* What no call of a worker changes.
Worker ==
    /\ UNCHANGED <<pre, post, from, to, pc, view, touched, slip, kept, count>>
    /\ (Undisturbed' <=> Undisturbed) /\ (Fresh' <=> Fresh)

\* What remains to be shown of one.
LEMMA CallFrame ==
    ASSUME IInv, Worker, leaf' \in States, entry' \in States, prepared' \in States \cup {Partial},
           dir' \in BOOLEAN, entry' # Absent => dir', twin' \in {"none", "prepared", "entry"},
           twin' = "prepared" => prepared' = leaf', twin' = "entry" => entry' = leaf',
           twin' # "none" => leaf' # Absent
    PROVE  FilesInv' /\ (pc \in {"apply", "catch", "reconcile"} => BetweenInv')
<1>1. pre' \in States /\ post' \in States \ {pre'} /\ view' \in States
      /\ from' \in {pre', post'} /\ to' \in {pre', post'} \ {from'}
      /\ pc' \in {"ready", "start", "apply", "catch", "applied", "failed", "dead", "decide",
                  "reconcile", "classify", "undo", "rolledback", "frozen"}
      /\ kept' \subseteq Bytes \ {pre', post'}
      /\ slip' \in {"none", "unidentified", "undropped"}
      /\ count' \in [Limits -> Nat]
  BY DEF IInv, FilesInv, Worker
<1>2. touched' \in BOOLEAN /\ (Undisturbed' => ~touched')
  <2>1. touched \in BOOLEAN /\ (Undisturbed => ~touched)
    BY DEF IInv, FilesInv
  <2>2. touched' = touched /\ (Undisturbed' <=> Undisturbed)
    BY DEF Worker
  <2> QED BY <2>1, <2>2
<1>3. FilesInv'
  BY <1>1, <1>2 DEF FilesInv
<1>4. pc \in {"apply", "catch", "reconcile"} => BetweenInv'
  BY DEF Worker, BetweenInv
<1> QED BY <1>3, <1>4

\* A call of the apply.
LEMMA ApplyCallStep ==
    ASSUME IInv, Call, pc = "apply"
    PROVE  IInv'
<1>1. Worker /\ script # <<>> /\ Possible(Head(script)) /\ Effect(Head(script))
  BY DEF Call, Worker, Undisturbed, Fresh
<1>2. from # to /\ from \in States /\ to \in States /\ Absent \in States /\ Partial \notin States
  BY StatesAssumption DEF IInv, FilesInv, States
<1>3. /\ Ahead = Head(script)
      /\ Ahead \in {"create", "fill", "sync", "mkdir", "quarantine", "identify", "matches", "link",
                    "unlinkPrepared", "unlinkEntry", "rmdir", "missing"}
      /\ Ahead \in {"create", "fill", "sync", "link", "unlinkPrepared"} => to # Absent
      /\ Ahead \in {"mkdir", "quarantine", "identify", "matches", "unlinkEntry", "rmdir"} => from # Absent
      /\ Ahead = "missing" => to = Absent /\ from # Absent
      /\ Taken => script' \in ApplyRests' /\ Ahead' = Following(Ahead)
  BY <1>1, <1>2, ApplyGoes DEF IInv, ApplyInv
<1>4. Taken
  BY <1>3 DEF Call, Taken
<1>5. script' \in ApplyRests' /\ Ahead' = Following(Ahead)
  BY <1>3, <1>4
<1>6. FilesInv /\ ApplyInv /\ TidyInv /\ UndisturbedInv
  BY DEF IInv
<1>7. Undisturbed => ~touched /\ Fresh
  BY <1>6 DEF FilesInv, Fresh
<1>8. SUFFICES FilesInv' /\ ApplyInv' /\ TidyInv' /\ UndisturbedInv'
  <2>1. pc' = "apply"
    BY <1>1 DEF Worker
  <2> QED BY <2>1 DEF IInv, BetweenInv, CatchInv, UndoneInv, ReconcileInv
<1>9. CASE Ahead = "create"
  <2>1. leaf' = leaf /\ entry' = entry /\ dir' = dir /\ twin' = twin /\ prepared' = Partial /\ prepared = Absent
    BY <1>1, <1>3, <1>9 DEF Effect, Possible
  <2>2. FilesInv'
    BY <1>1, <1>6, <1>9, <2>1, CallFrame DEF FilesInv, ApplyInv
  <2>3. Ahead' = "fill"
    BY <1>5, <1>9 DEF Following
  <2> QED BY <1>1, <1>3, <1>5, <1>6, <1>9, <2>1, <2>2, <2>3 DEF ApplyInv, TidyInv, UndisturbedInv, Worker, Exchanging
<1>10. CASE Ahead = "fill"
  <2>1. leaf' = leaf /\ entry' = entry /\ dir' = dir /\ twin' = twin /\ prepared' = to
    BY <1>1, <1>3, <1>10 DEF Effect
  <2>2. FilesInv'
    BY <1>1, <1>2, <1>6, <1>10, <2>1, CallFrame DEF FilesInv, ApplyInv
  <2>3. Ahead' = "sync"
    BY <1>5, <1>10 DEF Following
  <2> QED BY <1>1, <1>3, <1>5, <1>6, <1>7, <1>10, <2>1, <2>2, <2>3 DEF ApplyInv, TidyInv, UndisturbedInv, Worker, Exchanging
<1>11. CASE Ahead = "mkdir"
  <2>1. leaf' = leaf /\ entry' = entry /\ dir' = TRUE /\ twin' = twin /\ prepared' = prepared /\ ~dir
    BY <1>1, <1>3, <1>11 DEF Effect, Possible
  <2>2. FilesInv'
    BY <1>1, <1>2, <1>6, <1>11, <2>1, CallFrame DEF FilesInv
  <2>3. Ahead' = "quarantine" /\ entry = Absent
    BY <1>5, <1>6, <1>11, <2>1 DEF Following, FilesInv
  <2> QED BY <1>1, <1>3, <1>5, <1>6, <1>11, <2>1, <2>2, <2>3 DEF ApplyInv, TidyInv, UndisturbedInv, Worker, Exchanging
<1>12. CASE Ahead = "quarantine"
  <2>1. leaf' = Absent /\ entry' = leaf /\ dir' = dir /\ twin' = twin /\ prepared' = prepared /\ leaf # Absent
    BY <1>1, <1>3, <1>12 DEF Effect, Possible
  <2>2. FilesInv'
    BY <1>1, <1>2, <1>6, <1>12, <2>1, CallFrame DEF FilesInv, ApplyInv
  <2>3. Ahead' = "identify"
    BY <1>5, <1>12 DEF Following
  <2> QED BY <1>1, <1>3, <1>5, <1>6, <1>12, <2>1, <2>2, <2>3 DEF ApplyInv, TidyInv, UndisturbedInv, Worker, Exchanging
<1>13. CASE Ahead = "matches"
  <2>1. leaf' = leaf /\ entry' = entry /\ dir' = dir /\ twin' = twin /\ prepared' = prepared /\ ~touched
    BY <1>1, <1>3, <1>13 DEF Effect, Possible
  <2>2. FilesInv'
    BY <1>1, <1>2, <1>6, <1>13, <2>1, CallFrame DEF FilesInv
  <2>3. Ahead' = IF to = Absent THEN "missing" ELSE "link"
    BY <1>5, <1>13 DEF Following
  <2> QED BY <1>1, <1>3, <1>5, <1>6, <1>13, <2>1, <2>2, <2>3 DEF ApplyInv, TidyInv, UndisturbedInv, Worker, Exchanging
<1>14. CASE Ahead = "missing"
  <2>1. leaf' = leaf /\ entry' = entry /\ dir' = dir /\ twin' = twin /\ prepared' = prepared /\ leaf = Absent
    BY <1>1, <1>3, <1>14 DEF Effect, Possible
  <2>2. FilesInv'
    BY <1>1, <1>2, <1>6, <1>14, <2>1, CallFrame DEF FilesInv
  <2>3. Ahead' = "unlinkEntry"
    BY <1>5, <1>14 DEF Following
  <2> QED BY <1>1, <1>3, <1>5, <1>6, <1>14, <2>1, <2>2, <2>3 DEF ApplyInv, TidyInv, UndisturbedInv, Worker, Exchanging
<1>15. CASE Ahead = "link"
  <2>1. leaf' = prepared /\ entry' = entry /\ dir' = dir /\ twin' = "prepared" /\ prepared' = prepared /\ leaf = Absent
    BY <1>1, <1>3, <1>15 DEF Effect, Possible
  <2>2. prepared = to
    BY <1>3, <1>6, <1>15 DEF ApplyInv
  <2>3. FilesInv'
    BY <1>1, <1>2, <1>3, <1>6, <1>15, <2>1, <2>2, CallFrame DEF FilesInv
  <2>4. Ahead' = "unlinkPrepared"
    BY <1>5, <1>15 DEF Following
  <2> QED BY <1>1, <1>3, <1>5, <1>6, <1>15, <2>1, <2>2, <2>3, <2>4 DEF ApplyInv, TidyInv, UndisturbedInv, Worker, Exchanging
<1>16. CASE Ahead = "unlinkPrepared"
  <2>1. leaf' = leaf /\ entry' = entry /\ dir' = dir /\ twin' = "none" /\ prepared' = Absent
    BY <1>1, <1>3, <1>16 DEF Effect
  <2>2. FilesInv'
    BY <1>1, <1>2, <1>6, <1>16, <2>1, CallFrame DEF FilesInv
  <2>3. Ahead' = IF from = Absent THEN "end" ELSE "unlinkEntry"
    BY <1>5, <1>16 DEF Following
  <2> QED BY <1>1, <1>3, <1>5, <1>6, <1>16, <2>1, <2>2, <2>3 DEF ApplyInv, TidyInv, UndisturbedInv, Worker, Exchanging
<1>17. CASE Ahead = "unlinkEntry"
  <2>1. leaf' = leaf /\ entry' = Absent /\ dir' = dir /\ twin' = "none" /\ prepared' = prepared
    BY <1>1, <1>3, <1>17 DEF Effect
  <2>2. FilesInv'
    BY <1>1, <1>2, <1>6, <1>17, <2>1, CallFrame DEF FilesInv
  <2>3. Ahead' = "rmdir"
    BY <1>5, <1>17 DEF Following
  <2> QED BY <1>1, <1>3, <1>5, <1>6, <1>17, <2>1, <2>2, <2>3 DEF ApplyInv, TidyInv, UndisturbedInv, Worker, Exchanging
<1>18. CASE Ahead = "rmdir"
  <2>1. leaf' = leaf /\ entry' = entry /\ dir' = FALSE /\ twin' = twin /\ prepared' = prepared
    BY <1>1, <1>3, <1>18 DEF Effect
  <2>2. FilesInv'
    BY <1>1, <1>2, <1>6, <1>18, <2>1, CallFrame DEF FilesInv, ApplyInv
  <2>3. Ahead' = "end"
    BY <1>5, <1>18 DEF Following
  <2> QED BY <1>1, <1>3, <1>5, <1>6, <1>18, <2>1, <2>2, <2>3 DEF ApplyInv, TidyInv, UndisturbedInv, Worker, Exchanging
<1>19. CASE Ahead = "sync"
  <2>1. leaf' = leaf /\ entry' = entry /\ dir' = dir /\ twin' = twin /\ prepared' = prepared
    BY <1>1, <1>3, <1>19 DEF Effect
  <2>2. FilesInv'
    BY <1>1, <1>6, <1>19, <2>1, CallFrame DEF FilesInv, ApplyInv
  <2>3. Ahead' = IF from = Absent THEN "link" ELSE "mkdir"
    BY <1>5, <1>19 DEF Following
  <2> QED BY <1>1, <1>3, <1>5, <1>6, <1>7, <1>19, <2>1, <2>2, <2>3 DEF ApplyInv, TidyInv, UndisturbedInv, Worker, Exchanging
<1>20. CASE Ahead = "identify"
  <2>1. leaf' = leaf /\ entry' = entry /\ dir' = dir /\ twin' = twin /\ prepared' = prepared
    BY <1>1, <1>3, <1>20 DEF Effect
  <2>2. FilesInv'
    BY <1>1, <1>2, <1>6, <1>20, <2>1, CallFrame DEF FilesInv
  <2>3. Ahead' = "matches"
    BY <1>5, <1>20 DEF Following
  <2> QED BY <1>1, <1>3, <1>5, <1>6, <1>20, <2>1, <2>2, <2>3 DEF ApplyInv, TidyInv, UndisturbedInv, Worker, Exchanging
<1> QED BY <1>3, <1>9, <1>10, <1>11, <1>12, <1>13, <1>14, <1>15, <1>16, <1>17, <1>18, <1>19, <1>20

\* A call of the clean-up.
LEMMA CatchCallStep ==
    ASSUME IInv, Call, pc = "catch"
    PROVE  IInv'
<1>1. Worker /\ script # <<>> /\ Effect(Head(script))
  BY DEF Call, Worker, Undisturbed, Fresh
<1>2. Absent \in States /\ Partial \notin States
  BY StatesAssumption DEF States
<1>3. FilesInv /\ CatchInv /\ UndoneInv /\ script \in CatchRests
  BY DEF IInv, CatchInv
<1>4. Ahead = Head(script)
  BY <1>1, <1>3, CatchGoes
<1>5. SUFFICES FilesInv' /\ CatchInv' /\ UndoneInv'
  <2>1. pc' = "catch"
    BY <1>1 DEF Worker
  <2>2. FilesInv' => BetweenInv'
    BY <2>1 DEF BetweenInv
  <2> QED BY <2>1, <2>2 DEF IInv, ApplyInv, TidyInv, UndisturbedInv, ReconcileInv
<1> DEFINE LessLeft == /\ script' \in NoTidy => script \in NoTidy \/ Ahead = "tidy"
                       /\ script' \in NoDiscard => script \in NoDiscard \/ Ahead \in {"drop", "discard"}
<1>20. NoDiscard' = NoDiscard /\ NoTidy' = NoTidy
  BY DEF NoDiscard, NoTidy
<1>21. slip' = slip /\ to' = to /\ from' = from /\ (Undisturbed' <=> Undisturbed) /\ pc' = pc /\ kept' = kept
  BY <1>1 DEF Worker
<1>6. CASE Ahead = "relink" /\ Relinks
  <2>1. leaf' = entry /\ entry' = entry /\ dir' = dir /\ twin' = "entry" /\ prepared' = prepared
    BY <1>1, <1>4, <1>6 DEF Effect
  <2>2. script' = <<"unlinkEntry", "rmdir">> \o Tail(script)
    BY <1>4, <1>6 DEF Call
  <2>3. /\ script' \in CatchRests /\ Ahead' = "unlinkEntry" /\ script' \notin NoTidy
        /\ script' \in NoDiscard => script \in NoDiscard
    BY <1>1, <1>3, <1>6, <2>2, CatchRelinks
  <2>4. FilesInv'
    BY <1>1, <1>3, <1>6, <2>1, CallFrame DEF FilesInv, Relinks
  <2>5. CatchInv'
    BY <1>3, <1>21, <2>1, <2>3 DEF CatchInv
  <2>6. Undisturbed /\ pc = "catch" => leaf' = from /\ slip # "unidentified"
    BY <1>3, <1>6, <2>1 DEF UndoneInv, Relinks
  <2>7. Undisturbed /\ pc = "catch" /\ script' \in NoDiscard => prepared' = Absent \/ slip = "undropped"
    BY <1>3, <1>6, <2>1, <2>3 DEF UndoneInv, Relinks
  <2>8. UndoneInv'
    BY <1>20, <1>21, <2>3, <2>6, <2>7 DEF UndoneInv
  <2> QED BY <2>4, <2>5, <2>8
<1>7. CASE ~(Ahead = "relink" /\ Relinks)
  <2>1. script' = Tail(script)
    BY <1>4, <1>7 DEF Call
  <2>9. script # <<>>
    BY <1>1
  <2>10. LessLeft
    BY <1>3, <2>1, <2>9, CatchGoes
  <2> HIDE DEF LessLeft
  <2>2. /\ script' \in CatchRests
        /\ \/ Ahead = "relink" /\ Ahead' \in {"discard", "tidy"}
           \/ Ahead = "unlinkEntry" /\ Ahead' = "rmdir"
           \/ Ahead = "rmdir" /\ Ahead' \in {"discard", "tidy"}
           \/ Ahead \in {"drop", "discard"} /\ Ahead' \in {"tidy", "end"}
           \/ Ahead = "tidy" /\ Ahead' = "end"
    BY <1>1, <1>3, <2>1, CatchGoes
  <2>3. CASE Ahead = "relink"
    <3>1. UNCHANGED <<leaf, entry, dir, twin, prepared>> /\ ~Relinks
      BY <1>1, <1>4, <1>7, <2>3 DEF Effect
    <3>2. FilesInv'
      BY <1>1, <1>3, <3>1, CallFrame DEF FilesInv
    <3>3. Ahead' \in {"discard", "tidy"}
      BY <2>2, <2>3
    <3>4. CatchInv'
      BY <1>3, <1>21, <2>2, <2>3, <3>1, <3>3 DEF CatchInv
    <3>5. Undisturbed /\ pc = "catch" => Settled
      BY <1>3, <2>3, <3>1 DEF FilesInv, UndoneInv, Relinks, Settled, CatchInv
    <3>6. UndoneInv'
      BY <1>3, <1>20, <1>21, <2>2, <2>10, <2>3, <3>1, <3>3, <3>5 DEF LessLeft, UndoneInv, Settled
    <3> QED BY <3>2, <3>4, <3>6
  <2>4. CASE Ahead = "unlinkEntry"
    <3>1. UNCHANGED <<leaf, dir, prepared>> /\ entry' = Absent /\ twin' = "none"
      BY <1>1, <1>4, <2>4 DEF Effect
    <3>2. FilesInv'
      BY <1>1, <1>2, <1>3, <3>1, CallFrame DEF FilesInv
    <3>3. Ahead' = "rmdir"
      BY <2>2, <2>4
    <3>4. CatchInv'
      BY <1>3, <1>21, <2>2, <2>4, <3>1, <3>3 DEF CatchInv
    <3>5. UndoneInv'
      BY <1>3, <1>20, <1>21, <2>2, <2>10, <2>4, <3>1, <3>3 DEF LessLeft, UndoneInv
    <3> QED BY <3>2, <3>4, <3>5
  <2>5. CASE Ahead = "rmdir"
    <3>1. UNCHANGED <<leaf, entry, twin, prepared>> /\ dir' = FALSE
      BY <1>1, <1>4, <2>5 DEF Effect
    <3>2. FilesInv'
      BY <1>1, <1>3, <2>5, <3>1, CallFrame DEF FilesInv, CatchInv
    <3>3. Ahead' \in {"discard", "tidy"}
      BY <2>2, <2>5
    <3>4. CatchInv'
      BY <1>3, <1>21, <2>2, <2>5, <3>1, <3>3 DEF CatchInv
    <3>5. Undisturbed /\ pc = "catch" => leaf' = from /\ entry' = Absent /\ twin' = "none" /\ slip # "unidentified"
      BY <1>3, <2>5, <3>1 DEF UndoneInv, CatchInv
    <3>6. UndoneInv'
      BY <1>3, <1>20, <1>21, <2>2, <2>10, <2>5, <3>1, <3>3, <3>5 DEF LessLeft, UndoneInv, Settled
    <3> QED BY <3>2, <3>4, <3>6
  <2>6. CASE Ahead \in {"drop", "discard"}
    <3>1. /\ UNCHANGED <<leaf, entry, dir, twin>>
          /\ (prepared' = Absent /\ twin # "prepared") \/ (prepared' = prepared /\ twin = "prepared")
      <4>1. Ahead = "drop" => twin = "none"
        BY <1>1, <1>3 DEF CatchInv
      <4> QED BY <1>1, <1>4, <2>6, <4>1 DEF Effect
    <3>2. FilesInv'
      BY <1>1, <1>2, <1>3, <2>6, <3>1, CallFrame DEF FilesInv, CatchInv
    <3>3. Ahead' \in {"tidy", "end"}
      BY <2>2, <2>6
    <3>4. CatchInv'
      BY <1>3, <1>21, <2>2, <2>6, <3>1, <3>3 DEF CatchInv
    <3>5. Undisturbed /\ pc = "catch" => /\ Settled /\ Settled'
                                         /\ prepared' = Absent \/ (leaf' = to /\ to # Absent)
      BY <1>3, <1>21, <2>6, <3>1 DEF FilesInv, UndoneInv, Settled
    <3>6. UndoneInv'
      BY <1>3, <1>20, <1>21, <2>2, <2>10, <2>6, <3>1, <3>3, <3>5 DEF LessLeft, UndoneInv
    <3> QED BY <3>2, <3>4, <3>6
  <2>7. CASE Ahead = "tidy"
    <3>1. UNCHANGED <<leaf, entry, prepared, twin>> /\ dir' = IF entry = Absent THEN FALSE ELSE dir
      BY <1>1, <1>4, <2>7 DEF Effect
    <3>2. FilesInv'
      BY <1>1, <1>3, <3>1, CallFrame DEF FilesInv
    <3>3. Ahead' = "end"
      BY <2>2, <2>7
    <3>4. CatchInv'
      BY <1>3, <1>21, <2>2, <2>7, <3>1, <3>3 DEF CatchInv
    <3>5. UndoneInv'
      BY <1>3, <1>20, <1>21, <2>2, <2>10, <2>7, <3>1, <3>3 DEF LessLeft, UndoneInv, Settled
    <3> QED BY <3>2, <3>4, <3>5
  <2> QED BY <2>2, <2>3, <2>4, <2>5, <2>6, <2>7
<1> QED BY <1>6, <1>7

\* A call of the reconciliation.
LEMMA ReconcileCallStep ==
    ASSUME IInv, Call, pc = "reconcile"
    PROVE  IInv'
<1>1. Worker /\ script # <<>> /\ Possible(Head(script)) /\ Effect(Head(script))
  BY DEF Call, Worker, Undisturbed, Fresh
<1>2. Absent \in States /\ Partial \notin States
  BY StatesAssumption DEF States
<1>3. FilesInv /\ ReconcileInv /\ script \in ReconcileRests
  BY DEF IInv, ReconcileInv
<1>4. Ahead = Head(script) /\ (script = LastRemoval => Ahead = "unlinkPrepared")
  BY <1>1, <1>3, ReconcileGoes
<1>5. Ahead # "relink"
  BY <1>1, <1>3, <1>4, ReconcileGoes DEF ReconcileRests, LastRemoval
<1>6. script' = Tail(script)
  BY <1>4, <1>5 DEF Call
<1>7. script' \in ReconcileRests
  BY <1>1, <1>3, <1>6, ReconcileGoes
<1>8. \/ Ahead = "unlinkLeaf" /\ Ahead' = "renameEntry" /\ script' # LastRemoval
      \/ Ahead = "renameEntry" /\ Ahead' = "rmdir" /\ script' # LastRemoval
      \/ Ahead = "link" /\ Ahead' = "unlinkPrepared" /\ script' # LastRemoval
      \/ /\ Ahead = "unlinkPrepared" /\ script # LastRemoval
         /\ Ahead' = "unlinkEntry" /\ script' # LastRemoval
      \/ Ahead = "unlinkEntry" /\ Ahead' = "rmdir" /\ script' # LastRemoval
      \/ Ahead = "rmdir" /\ Ahead' = "unlinkPrepared" /\ script' = LastRemoval
      \/ script = LastRemoval /\ Ahead' = "end" /\ script' # LastRemoval
  BY <1>1, <1>3, <1>6, ReconcileGoes
<1>9. LastRemoval' = LastRemoval
  BY DEF LastRemoval
<1>10. SUFFICES FilesInv' /\ ReconcileInv'
  <2>1. pc' = "reconcile"
    BY <1>1 DEF Worker
  <2> QED BY <2>1 DEF IInv, BetweenInv, ApplyInv, TidyInv, UndisturbedInv, CatchInv, UndoneInv
<1>11. CASE Ahead = "unlinkLeaf"
  <2>1. UNCHANGED <<entry, dir, prepared>> /\ leaf' = Absent /\ twin' = "none"
    BY <1>1, <1>4, <1>11 DEF Effect
  <2>2. FilesInv'
    BY <1>1, <1>2, <1>3, <2>1, CallFrame DEF FilesInv
  <2> QED BY <1>1, <1>3, <1>4, <1>7, <1>8, <1>9, <1>11, <2>1, <2>2 DEF ReconcileInv, Worker
<1>12. CASE Ahead = "renameEntry"
  <2>1. UNCHANGED <<dir, prepared>> /\ leaf' = entry /\ entry' = Absent /\ twin' = "none"
    BY <1>1, <1>4, <1>12 DEF Effect
  <2>2. FilesInv'
    BY <1>1, <1>2, <1>3, <2>1, CallFrame DEF FilesInv
  <2> QED BY <1>1, <1>3, <1>4, <1>7, <1>8, <1>9, <1>12, <2>1, <2>2 DEF ReconcileInv, Worker
<1>13. CASE Ahead = "link"
  <2>1. UNCHANGED <<entry, dir, prepared>> /\ leaf' = prepared /\ twin' = "prepared"
    BY <1>1, <1>4, <1>13 DEF Effect
  <2>2. FilesInv'
    BY <1>1, <1>3, <1>13, <2>1, CallFrame DEF FilesInv, ReconcileInv
  <2> QED BY <1>1, <1>3, <1>4, <1>7, <1>8, <1>9, <1>13, <2>1, <2>2 DEF ReconcileInv, Worker
<1>14. CASE Ahead = "unlinkPrepared" /\ script # LastRemoval
  <2>1. UNCHANGED <<leaf, entry, dir>> /\ prepared' = Absent /\ twin' = "none"
    BY <1>1, <1>4, <1>14 DEF Effect
  <2>2. FilesInv'
    BY <1>1, <1>2, <1>3, <2>1, CallFrame DEF FilesInv
  <2> QED BY <1>1, <1>3, <1>4, <1>7, <1>8, <1>9, <1>14, <2>1, <2>2 DEF ReconcileInv, Worker
<1>15. CASE Ahead = "unlinkEntry"
  <2>1. UNCHANGED <<leaf, prepared, dir>> /\ entry' = Absent /\ twin' = "none"
    BY <1>1, <1>4, <1>15 DEF Effect
  <2>2. FilesInv'
    BY <1>1, <1>2, <1>3, <2>1, CallFrame DEF FilesInv
  <2> QED BY <1>1, <1>3, <1>4, <1>7, <1>8, <1>9, <1>15, <2>1, <2>2 DEF ReconcileInv, Worker
<1>16. CASE Ahead = "rmdir"
  <2>1. UNCHANGED <<leaf, entry, prepared, twin>> /\ dir' = FALSE
    BY <1>1, <1>4, <1>16 DEF Effect
  <2>2. FilesInv'
    BY <1>1, <1>3, <1>16, <2>1, CallFrame DEF FilesInv, ReconcileInv
  <2> QED BY <1>1, <1>3, <1>4, <1>7, <1>8, <1>9, <1>16, <2>1, <2>2 DEF ReconcileInv, Worker
<1>17. CASE script = LastRemoval
  <2>1. UNCHANGED <<leaf, entry, dir>> /\ prepared' = Absent /\ twin' = "none"
    BY <1>1, <1>4, <1>17 DEF Effect
  <2>2. FilesInv'
    BY <1>1, <1>2, <1>3, <2>1, CallFrame DEF FilesInv
  <2>3. ~dir /\ entry = Absent
    BY <1>1, <1>3, <1>17, pc = "reconcile" DEF ReconcileInv
  <2>4. Ahead' = "end" /\ script' # LastRemoval
    BY <1>4, <1>8, <1>17
  <2> QED BY <1>1, <1>7, <1>9, <2>1, <2>2, <2>3, <2>4 DEF ReconcileInv, Worker, Clean
<1> QED BY <1>8, <1>11, <1>12, <1>13, <1>14, <1>15, <1>16, <1>17

\* Any call of a worker.
LEMMA CallStep ==
    ASSUME IInv, Call
    PROVE  IInv'
BY ApplyCallStep, CatchCallStep, ReconcileCallStep DEF Call

-----------------------------------------------------------------------------
(* The invariant *)

\* It holds before the first step.
LEMMA InvInit == Init => IInv
<1> SUFFICES ASSUME Init PROVE IInv
  OBVIOUS
<1>1. count \in [Limits -> Nat] /\ Undisturbed /\ kept = {}
  BY DEF Init, Undisturbed, Limits
<1>2. FilesInv
  BY <1>1 DEF Init, FilesInv, States
<1>3. BetweenInv
  BY DEF Init, BetweenInv, Clean
<1> QED BY <1>2, <1>3 DEF Init, IInv, ApplyInv, TidyInv, UndisturbedInv, CatchInv, UndoneInv, ReconcileInv

\* And no step breaks it.
LEMMA InvStep == IInv /\ [Next]_vars => IInv'
<1> SUFFICES ASSUME IInv, [Next]_vars PROVE IInv'
  OBVIOUS
<1>1. CASE \E c \in States : Edit(c)
  BY <1>1, EditStep
<1>2. CASE StartApply \/ StartUndo
  BY <1>2, StartStep
<1>3. CASE Spawn
  BY <1>3, SpawnStep
<1>4. CASE Call
  BY <1>4, CallStep
<1>5. CASE Fail \/ Swallow
  BY <1>5, FailStep, SwallowStep
<1>6. CASE Verify
  BY <1>6, VerifyStep
<1>7. CASE GiveUp
  BY <1>7, GiveUpStep
<1>8. CASE WorkerDies \/ Refuse
  BY <1>8, LeftStep
<1>9. CASE Inspect
  BY <1>9, InspectStep
<1>10. CASE Decide
  BY <1>10, DecideStep
<1>11. CASE Reconciled
  BY <1>11, ReconciledStep
<1>12. CASE Classify
  BY <1>12, ClassifyStep
<1>13. CASE UNCHANGED vars
  BY <1>13 DEF vars, Files, IInv, FilesInv, BetweenInv, ApplyInv, TidyInv, UndisturbedInv, CatchInv, UndoneInv,
     ReconcileInv, Undisturbed, Fresh, Clean, Ahead, ApplyRests, Settled
<1> QED BY <1>1, <1>2, <1>3, <1>4, <1>5, <1>6, <1>7, <1>8, <1>9, <1>10, <1>11, <1>12, <1>13 DEF Next

\* The inductive invariant.
LEMMA Invariance == Spec => []IInv
<1>1. Init => IInv
  BY InvInit
<1>2. IInv /\ [Next]_vars => IInv'
  BY InvStep
<1> QED BY <1>1, <1>2, PTL DEF Spec

-----------------------------------------------------------------------------
(* The theorems *)

\* Types, and what the names may show: no name but the prepared file's has half-written bytes,
\* and the quarantined entry is in its directory.
THEOREM TypeCorrect == Spec => []TypeOK
<1>1. IInv => TypeOK
  BY DEF IInv, FilesInv, TypeOK
<1> QED BY <1>1, Invariance, PTL

\* The catch block: an apply that fails undisturbed has undone itself, or the new file is in.
THEOREM FailureUndoes == Spec => []FailedApplyUndone
<1>1. IInv => FailedApplyUndone
  BY DEF IInv, BetweenInv, FailedApplyUndone, Undisturbed
<1> QED BY <1>1, Invariance, PTL

\* The end of the worker and of recovery: who reports success leaves nothing behind.
THEOREM SuccessLeavesNothing == Spec => []SuccessIsClean
<1>1. IInv => SuccessIsClean
  BY DEF IInv, BetweenInv, SuccessIsClean, Undisturbed
<1> QED BY <1>1, Invariance, PTL

\* A name is freed by a call of an apply only after its bytes are under the other, or known.
LEMMA CallKeeps ==
    ASSUME IInv, Call, pc \in {"apply", "catch"}, kept \subseteq {leaf, entry}
    PROVE  kept' \subseteq {leaf', entry'}
<1>1. script # <<>> /\ Possible(Head(script)) /\ Effect(Head(script)) /\ kept' = kept
  BY DEF Call
<1>2. kept \cap {pre, post, Absent} = {} /\ from \in {pre, post} /\ from # to
  BY StatesAssumption DEF IInv, FilesInv
<1>3. CASE pc = "apply"
  <2>1. Ahead = Head(script)
        /\ Ahead \in {"create", "fill", "sync", "mkdir", "quarantine", "identify", "matches", "link",
                      "unlinkPrepared", "unlinkEntry", "rmdir", "missing"}
    BY <1>1, <1>2, <1>3, ApplyGoes DEF IInv, ApplyInv
  <2>2. CASE Ahead = "quarantine"
    <3>1. entry' = leaf /\ entry = Absent
      BY <1>1, <1>3, <2>1, <2>2 DEF Effect, IInv, ApplyInv
    <3> QED BY <1>1, <1>2, <3>1
  <2>3. CASE Ahead = "link"
    <3>1. entry' = entry /\ leaf = Absent
      BY <1>1, <2>1, <2>3 DEF Effect, Possible
    <3> QED BY <1>1, <1>2, <3>1
  <2>4. CASE Ahead = "unlinkEntry"
    <3>1. leaf' = leaf /\ entry = from
      BY <1>1, <1>3, <2>1, <2>4 DEF Effect, IInv, ApplyInv
    <3> QED BY <1>1, <1>2, <3>1
  <2>5. CASE Ahead \in {"create", "fill", "sync", "mkdir", "identify", "matches", "unlinkPrepared", "rmdir", "missing"}
    <3>1. leaf' = leaf /\ entry' = entry
      BY <1>1, <2>1, <2>5 DEF Effect
    <3> QED BY <1>1, <3>1
  <2> QED BY <2>1, <2>2, <2>3, <2>4, <2>5
<1>4. CASE pc = "catch"
  <2>1. Ahead = Head(script) /\ Ahead \in {"relink", "unlinkEntry", "rmdir", "drop", "discard", "tidy"}
    BY <1>1, <1>4, CatchGoes DEF IInv, CatchInv, CatchRests
  <2>2. CASE Ahead = "relink"
    <3>1. entry' = entry /\ (leaf' = leaf \/ leaf = Absent)
      BY <1>1, <2>1, <2>2 DEF Effect, Relinks
    <3> QED BY <1>1, <1>2, <3>1
  <2>3. CASE Ahead = "unlinkEntry"
    <3>1. leaf' = leaf /\ (entry \in kept => entry = leaf)
      BY <1>1, <1>4, <2>1, <2>3 DEF Effect, IInv, CatchInv
    <3> QED BY <1>1, <3>1
  <2>4. CASE Ahead \in {"rmdir", "drop", "discard", "tidy"}
    <3>1. leaf' = leaf /\ entry' = entry
      BY <1>1, <2>1, <2>4 DEF Effect
    <3> QED BY <1>1, <3>1
  <2> QED BY <2>1, <2>2, <2>3, <2>4
<1> QED BY <1>3, <1>4

\* The worker's comparison, its exclusive calls and its clean-up: an apply never destroys the
\* last copy of bytes the editor wrote.
THEOREM ApplyDestroysNothing == Spec => ApplyKeepsUserBytes
<1>1. IInv /\ [Next]_vars =>
        (kept \subseteq {leaf, entry} /\ pc \in {"apply", "catch"} => kept' \subseteq {leaf', entry'})
  <2> SUFFICES ASSUME IInv, [Next]_vars, kept \subseteq {leaf, entry}, pc \in {"apply", "catch"}
               PROVE  kept' \subseteq {leaf', entry'}
    OBVIOUS
  <2>1. CASE \E c \in States : Edit(c)
    <3>1. PICK c \in States : Edit(c)
      BY <2>1
    <3> QED BY <3>1 DEF Edit
  <2>2. CASE Call
    BY <2>2, CallKeeps
  <2>3. CASE kept' = kept /\ leaf' = leaf /\ entry' = entry
    BY <2>3
  <2>4. \/ \E c \in States : Edit(c)
        \/ Call
        \/ kept' = kept /\ leaf' = leaf /\ entry' = entry
    BY DEF Next, vars, Files, StartApply, StartUndo, Begin, Spawn, Fail, Swallow, Verify, GiveUp, WorkerDies,
       Inspect, Decide, Refuse, Reconciled, Classify
  <2> QED BY <2>1, <2>2, <2>3, <2>4
<1>2. IInv /\ [Next]_vars =>
        [kept \subseteq {leaf, entry} /\ pc \in {"apply", "catch"} => kept' \subseteq {leaf', entry'}]_vars
  BY <1>1
<1> QED BY <1>2, Invariance, PTL DEF Spec, ApplyKeepsUserBytes

=============================================================================
