------------------------------ MODULE TurnLedger ------------------------------
(***************************************************************************)
(* What the history of a workspace promises about the turns of its agent   *)
(* sessions.  Turns have the workspace to themselves, one after the other  *)
(* and each once.  What a turn leaves is in one commit of its own, or goes *)
(* into a commit that is no turn's.  Nothing is taken out of the history   *)
(* or the reports.  A turn is reported once, after it is over, and         *)
(* reported as available only with all it wrote and nothing else.          *)
(***************************************************************************)
EXTENDS Naturals, Sequences

CONSTANT Sessions

VARIABLES
    writer,    \* the turn that has the workspace to itself, at most one
    loose,     \* turns with writes that are in no commit
    history,   \* commits: by whom, and whose writes they hold
    reports    \* what was reported of turns, by session

vars == <<writer, loose, history, reports>>

Init == writer = {} /\ loose = {} /\ history = <<>> /\ reports = [s \in Sessions |-> <<>>]

Reported(turn) == \E i \in DOMAIN reports[turn[1]] : reports[turn[1]][i].turn = turn[2]
HasWritten(turn) == turn \in loose \/ \E i \in DOMAIN history : turn \in history[i].from

\* A commit takes in all that is in none.
Commit(by) ==
    /\ history' = IF loose = {} THEN history ELSE Append(history, [by |-> by, from |-> loose])
    /\ loose' = {}

Nobody == <<"external", 0>>

\* A turn begins with nothing left over from before.
Begin == \E turn \in writer' :
    /\ writer = {} /\ writer' = {turn}
    /\ ~Reported(turn) /\ ~HasWritten(turn)
    /\ Commit(Nobody)
    /\ UNCHANGED reports

Write == \E turn \in writer : loose' = loose \cup {turn} /\ UNCHANGED <<writer, history, reports>>

\* It ends with a commit of what it wrote, which is all there is to commit ...
Capture == \E turn \in writer :
    /\ loose \subseteq {turn}
    /\ Commit(turn)
    /\ writer' = {}
    /\ UNCHANGED reports

\* ... or without one.
End == writer # {} /\ writer' = {} /\ UNCHANGED <<loose, history, reports>>

CleanUp == writer = {} /\ Commit(Nobody) /\ UNCHANGED <<writer, reports>>

\* All that the turn wrote is between the two commits that the report names, and nothing else is.
Whole(turn, before, after) ==
    /\ turn \notin loose
    /\ \A i \in DOMAIN history : turn \in history[i].from => before < i /\ i <= after
    /\ after <= Len(history)
    /\ \A i \in DOMAIN history : before < i /\ i <= after =>
           history[i].by = turn /\ history[i].from \subseteq {turn}

Report == \E s \in Sessions :
    LET report == reports'[s][Len(reports'[s])]
        turn == <<s, report.turn>>
    IN  /\ Len(reports'[s]) = Len(reports[s]) + 1
        /\ reports' = [reports EXCEPT ![s] = Append(@, report)]
        /\ turn \notin writer /\ ~Reported(turn)
        /\ report.status = "available" => Whole(turn, report.before, report.after)
        /\ UNCHANGED <<writer, loose, history>>

Next == Begin \/ Write \/ Capture \/ End \/ CleanUp \/ Report

Spec == Init /\ [][Next]_vars

=============================================================================
