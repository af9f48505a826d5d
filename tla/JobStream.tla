------------------------------ MODULE JobStream ------------------------------
(***************************************************************************)
(* The output of a remote job on its way into the terminal's file.         *)
(*                                                                         *)
(* The job manager, a process beside the job, reads the pty into a ring    *)
(* buffer (CirBuf) in one goroutine (the writer below), sends what is in   *)
(* it from another (the sender), and forgets a byte when it is             *)
(* acknowledged (StreamManager).  The main server's Reader acknowledges    *)
(* what it receives, an output loop per stream moves it into a cached      *)
(* file, and after a lost connection restartStreaming asks the manager     *)
(* where to go on, from the length of the file and the gaps it knows of.   *)
(*                                                                         *)
(* A byte is its position in the job's output.  Packets and                *)
(* acknowledgements of one connection arrive in any order, or are lost     *)
(* with it.  Steps that hold sm.lock are one action; CirBuf has a lock of  *)
(* its own, so that the writer runs between them.  The error code and the  *)
(* exit status of the job, the Cancel acknowledgement (its stream is not   *)
(* the current one any more), and failing writes to the file are left out; *)
(* a loop reads its reader's buffer whole, where the code takes 4096 bytes *)
(* at a time, and ClientConnected's calls on the ring, each under its own  *)
(* lock but all under sm.lock, are two steps.                              *)
(***************************************************************************)
EXTENDS Integers, Sequences, FiniteSets, SequencesExt

CONSTANTS
    MaxBytes,      \* bound: bytes the job writes
    RingSize,      \* CirBufSize
    Cwnd,          \* CwndSize
    ReadWindow,    \* DefaultStreamRwnd
    PacketSize,    \* MaxPacketSize
    MaxStreams,    \* bound: streams, one more than reconnections
    MaxTimeouts,   \* bound: calls that time out on a live connection
    MaxCrashes     \* bound: crashes of the main server

ASSUME SizesAssumption ==
    /\ {RingSize, Cwnd, ReadWindow, PacketSize, MaxStreams} \subseteq Nat \ {0}
    /\ {MaxBytes, MaxTimeouts, MaxCrashes} \subseteq Nat

VARIABLES
    ring,       \* CirBuf: bytes ever written, bytes held, mode, effective window
    writer,     \* readLoop: bytes read and not yet in the ring, waiting for room, signal due
    mgr,        \* StreamManager
    asleep,     \* senderLoop waits on drainCond
    prep,       \* a PrepareConnect between two of its steps
    link,       \* is there a connection to the job manager
    net, acks,  \* what is under way on it
    readers,    \* by stream
    loops,      \* output loops, by stream: where they stand and what they hold
    current,    \* jobStreamIds
    restart,    \* restartStreaming
    file, gap,  \* the job's output file and its MetaKey_TotalGap
    saved,      \* what of both is in the database
    done,       \* job.StreamDone
    late, stale,\* history: a loop appended after a restart had looked at the file; a start was told
                \* that is not in the ring
    count       \* how much of each bound is used

managerVars == <<ring, writer, mgr, asleep, prep>>
clientVars == <<readers, loops, current, restart, file, gap, saved, done>>
vars == <<managerVars, link, net, acks, clientVars, late, stale, count>>

Streams == 1..MaxStreams
Limits == {"timeouts", "crashes"}
Use(limit, max) == count[limit] < max /\ count' = [count EXCEPT ![limit] = @ + 1]

Least(a, b) == IF a < b THEN a ELSE b
Most(a, b) == IF a > b THEN a ELSE b

NewReader(seq) ==
    [next |-> seq, buf |-> <<>>, ooo |-> {}, ended |-> "no", closed |-> FALSE]

\* StartJob has connected the first stream and started its loop.
Init ==
    /\ ring = [total |-> 0, held |-> 0, sync |-> TRUE, win |-> Least(RingSize, Least(Cwnd, ReadWindow))]
    /\ writer = [chunk |-> 0, waiting |-> FALSE, signal |-> FALSE]
    /\ mgr = [conn |-> TRUE, id |-> 1, alive |-> TRUE, rwnd |-> ReadWindow, sent |-> 0, acked |-> <<0, 0>>,
              ended |-> "no", endSent |-> FALSE, endAcked |-> FALSE]
    /\ asleep = FALSE
    /\ prep = [stage |-> "none", id |-> 1, seq |-> 0, head |-> 0, alive |-> FALSE]
    /\ link = TRUE /\ net = {} /\ acks = {}
    /\ readers = [s \in Streams |-> NewReader(0)]
    /\ loops = [s \in Streams |-> [at |-> IF s = 1 THEN "read" ELSE "none", held |-> <<>>]]
    /\ current = 1
    /\ restart = [stage |-> "idle", seq |-> 0, reply |-> -1]
    /\ file = <<>> /\ gap = 0 /\ saved = [file |-> <<>>, gap |-> 0]
    /\ done = FALSE /\ late = FALSE /\ stale = FALSE
    /\ count = [l \in Limits |-> 0]

-----------------------------------------------------------------------------
(* CirBuf *)

RingHead(r) == r.total - r.held

\* SetEffectiveWindow: async mode drops the oldest bytes, sync mode keeps them.
Windowed(r, sync, w) ==
    LET win == Least(w, RingSize)
    IN  [r EXCEPT !.sync = sync, !.win = win,
                  !.held = IF ~sync THEN Least(@, win) ELSE @]

\* A blocked writer is woken when its room may have grown, or nothing blocks any more.
StillWaits(r, sync, w) ==
    writer.waiting /\ ~(r.sync /\ (Least(w, RingSize) > r.win \/ ~sync))

-----------------------------------------------------------------------------
(* The job manager's goroutines *)

\* What does not fit is kept; with no room at all the writer waits for some.
Fitting(n) == IF ring.sync THEN Least(n, Most(ring.win - ring.held, 0)) ELSE n

\* A read of the pty, or the rest of one, and one WriteAvailable: async mode takes all of
\* it and drops the oldest bytes.
WriteRing(n) ==
    /\ ~writer.waiting /\ ~writer.signal
    /\ IF writer.chunk > 0 THEN n = writer.chunk ELSE mgr.ended = "no" /\ ring.total + n <= MaxBytes
    /\ ring' = [ring EXCEPT !.total = @ + Fitting(n), !.held = Least(@ + Fitting(n), Most(ring.win, @))]
    /\ writer' = [chunk |-> n - Fitting(n), waiting |-> Fitting(n) = 0, signal |-> Fitting(n) > 0]
    /\ UNCHANGED <<mgr, asleep, prep, link, net, acks, clientVars, late, stale, count>>

\* The writer takes sm.lock to wake the sender.
SignalSender ==
    /\ writer.signal
    /\ prep.stage # "set"
    /\ writer' = [writer EXCEPT !.signal = FALSE]
    /\ asleep' = FALSE
    /\ UNCHANGED <<ring, mgr, prep, link, net, acks, clientVars, late, stale, count>>

\* handleEOF and handleError: what a pty gives when the job is gone depends on the system.
EndPty(kind) ==
    /\ writer.chunk = 0 /\ ~writer.signal /\ mgr.ended = "no"
    /\ prep.stage # "set"
    /\ mgr' = [mgr EXCEPT !.ended = kind]
    /\ asleep' = FALSE
    /\ UNCHANGED <<ring, writer, prep, link, net, acks, clientVars, late, stale, count>>

\* Mutant: what is under way is not taken off the window.
SendRoom_Whole == Least(mgr.rwnd, Cwnd)

SendRoom == Least(mgr.rwnd, Cwnd) - mgr.sent

\* Mutant: the end is sent as soon as it is known, ahead of what is still in the ring.
HasTerminal_AtOnce == mgr.ended # "no" /\ ~mgr.endSent

HasTerminal == ring.held = 0 /\ mgr.ended # "no" /\ ~mgr.endSent
HasData == ring.held > mgr.sent /\ SendRoom > 0

Packet(n, end) ==
    LET seq == RingHead(ring) + mgr.sent
    IN  [id |-> mgr.id, seq |-> seq, data |-> [i \in 1..n |-> seq + i - 1], end |-> end]

\* A packet to a connection that is gone disappears without an error.
Send(packet) == net' = IF mgr.alive THEN net \cup {packet} ELSE net

PacketBytes == Least(Least(SendRoom, PacketSize), ring.held - mgr.sent)

\* One round of senderLoop.
Sender ==
    /\ ~asleep /\ ~mgr.endAcked
    /\ prep.stage # "set"
    /\ IF ~mgr.conn \/ ~(HasTerminal \/ HasData)
       THEN asleep' = TRUE /\ UNCHANGED <<net, mgr>>
       ELSE /\ UNCHANGED asleep
            /\ IF HasTerminal
               THEN /\ Send(Packet(0, mgr.ended))
                    /\ mgr' = [mgr EXCEPT !.endSent = TRUE]
               ELSE /\ Send(Packet(PacketBytes, "no"))
                    /\ mgr' = [mgr EXCEPT !.sent = @ + PacketBytes]
    /\ UNCHANGED <<ring, writer, prep, link, acks, clientVars, late, stale, count>>

\* Mutant: an acknowledgement overtaken by a later one is applied.
Newer_Always(ack) == TRUE

\* Stale acknowledgements are told by the pair of position and window.
Newer(ack) ==
    \/ ack.seq > mgr.acked[1]
    \/ ack.seq = mgr.acked[1] /\ ack.rwnd > mgr.acked[2]

\* Mutant: what was acknowledged still counts as under way.
UnderWayAfter_Kept(n) == mgr.sent

UnderWayAfter(n) == mgr.sent - n

\* Mutant: only bytes, and not a larger window, wake the sender.
Wakes_BytesOnly(n, ack) == n > 0

Wakes(n, ack) == n > 0 \/ ack.rwnd > mgr.rwnd

\* Acknowledged bytes leave the ring and the window is the reader's.
Acknowledge(ack) ==
    LET n == ack.seq - RingHead(ring)
        r == [ring EXCEPT !.held = @ - n]
        w == Least(Cwnd, ack.rwnd)
    IN  /\ mgr' = [mgr EXCEPT !.acked = <<ack.seq, ack.rwnd>>, !.sent = UnderWayAfter(n), !.rwnd = ack.rwnd]
        /\ ring' = Windowed(r, TRUE, w)
        /\ writer' = [writer EXCEPT !.waiting = n = 0 /\ StillWaits(r, TRUE, w)]
        /\ asleep' = (asleep /\ ~Wakes(n, ack))

RecvAck(ack) ==
    /\ prep.stage # "set"
    /\ acks' = acks \ {ack}
    /\ IF ~mgr.conn \/ ack.id # mgr.id
       THEN UNCHANGED <<ring, writer, mgr, asleep>>
       ELSE IF ack.fin
       THEN mgr' = [mgr EXCEPT !.endAcked = TRUE] /\ asleep' = FALSE /\ UNCHANGED <<ring, writer>>
       ELSE IF ~Newer(ack)
       THEN UNCHANGED <<ring, writer, mgr, asleep>>
       ELSE IF ack.seq < RingHead(ring) \/ ack.seq - RingHead(ring) > mgr.sent
       THEN /\ mgr' = [mgr EXCEPT !.acked = <<ack.seq, ack.rwnd>>]
            /\ UNCHANGED <<ring, writer, asleep>>
       ELSE Acknowledge(ack)
    /\ UNCHANGED <<prep, link, net, clientVars, late, stale, count>>

-----------------------------------------------------------------------------
(* The main server's reader and output loop *)

Room(r) == Most(ReadWindow - Len(r.buf), 0)
AckOf(s, r, fin) == [id |-> s, seq |-> r.next, rwnd |-> Room(r), fin |-> fin]
\* Only the broker of the manager's present connection knows a stream to acknowledge.
SendAck(ack) == acks' = IF mgr.alive /\ ack.id = mgr.id THEN acks \cup {ack} ELSE acks

Take(r, p) ==
    [r EXCEPT !.buf = @ \o p.data, !.next = @ + Len(p.data), !.ended = p.end]

\* What a reader becomes packet by packet.
Taking(r, list) ==
    LET after[n \in 0..Len(list)] == IF n = 0 THEN r ELSE Take(after[n - 1], list[n])
    IN  after

\* oooPackets, sorted.
InSequence(packets) ==
    CHOOSE list \in SetToSeqs(packets) : \A i, j \in DOMAIN list : i < j => list[i].seq < list[j].seq

\* recvDataOrderedLocked, then the packets that were waiting for it, up to the first gap; the end
\* of the stream clears them.
Absorb(r, p) ==
    LET list == InSequence(r.ooo)
        after == Taking(Take(r, p), list)
        Follow(n) == \A i \in 1..n : after[i - 1].ended = "no" /\ list[i].seq = after[i - 1].next
        consumed == CHOOSE n \in 0..Len(list) : Follow(n) /\ (n = Len(list) \/ ~Follow(n + 1))
        rest == SubSeq(list, consumed + 1, Len(list))
    IN  [after[consumed] EXCEPT !.ooo = IF after[consumed].ended = "no" THEN ToSet(rest) ELSE {}]

\* addOOOPacketLocked: a position is kept once.
KeepEarly(r, p) == IF \E q \in r.ooo : q.seq = p.seq THEN r ELSE [r EXCEPT !.ooo = @ \cup {p}]

\* Mutant: a packet that comes too early is taken at once.
Early_Never(r, p) == FALSE

Early(r, p) == p.seq > r.next

RecvData(p) ==
    LET r == readers[p.id]
        r2 == IF p.end = "err" THEN [r EXCEPT !.ended = "err"] ELSE Absorb(r, p)
    IN  /\ net' = net \ {p}
        /\ IF r.closed \/ r.ended # "no" \/ (p.end # "err" /\ p.seq < r.next)
           THEN UNCHANGED <<readers, acks>>
           ELSE IF p.end # "err" /\ Early(r, p)
           THEN readers' = [readers EXCEPT ![p.id] = KeepEarly(r, p)] /\ UNCHANGED acks
           ELSE /\ readers' = [readers EXCEPT ![p.id] = r2]
                /\ SendAck(AckOf(p.id, r2, r2.ended # "no"))
        /\ UNCHANGED <<managerVars, link, loops, current, restart, file, gap, saved, done, late, stale, count>>

\* A closed reader takes nothing and gives nothing.
ClosedReader == [NewReader(0) EXCEPT !.closed = TRUE]
CloseReader(s) == readers' = [readers EXCEPT ![s] = ClosedReader]

\* Reader.Read, and the test for a later stream: bytes read by a superseded loop are dropped.
LoopRead(s) ==
    LET r == readers[s]
        r2 == [r EXCEPT !.buf = <<>>]
    IN  /\ loops[s].at = "read"
        /\ r.buf # <<>> \/ r.ended # "no"
        /\ IF r.ended # "err" /\ r.buf # <<>>
           THEN /\ readers' = [readers EXCEPT ![s] = IF current = s THEN r2 ELSE ClosedReader]
                /\ SendAck(AckOf(s, r2, FALSE))
                /\ loops' = [loops EXCEPT ![s] = IF current = s THEN [at |-> "append", held |-> r.buf]
                                                 ELSE [at |-> "none", held |-> <<>>]]
                /\ UNCHANGED done
           ELSE /\ CloseReader(s)
                /\ loops' = [loops EXCEPT ![s].at = "none"]
                /\ done' = (done \/ current = s)
                /\ UNCHANGED acks
        /\ UNCHANGED <<managerVars, link, net, current, restart, file, gap, saved, late, stale, count>>

\* handleAppendJobFile; a restart may have looked at the file since, whether the loop is
\* superseded already (a test made before) or not yet (its id is set after its look).
LoopAppend(s) ==
    /\ loops[s].at = "append"
    /\ file' = file \o loops[s].held
    /\ loops' = [loops EXCEPT ![s] = [at |-> "read", held |-> <<>>]]
    /\ late' = (late \/ current # s \/ restart.stage = "set")
    /\ UNCHANGED <<managerVars, link, net, acks, readers, current, restart, gap, saved, done, stale, count>>

\* The file cache writes length, contents and metadata in one transaction; of interest
\* only while a crash is to come.
FlushFile ==
    /\ count["crashes"] < MaxCrashes
    /\ saved # [file |-> file, gap |-> gap]
    /\ saved' = [file |-> file, gap |-> gap]
    /\ UNCHANGED <<managerVars, link, net, acks, readers, loops, current, restart, file, gap, done, late, stale, count>>

-----------------------------------------------------------------------------
(* Losing the connection and restartStreaming *)

\* The job manager does not notice: handleJobDomainSocketClient returns as soon as its
\* goroutines run, and its deferred disconnectFromStreamHelper with it.
Lose == link' = FALSE /\ net' = {} /\ acks' = {} /\ mgr' = [mgr EXCEPT !.alive = FALSE]
        /\ prep' = [prep EXCEPT !.alive = FALSE]

Drop ==
    /\ link
    /\ Lose
    /\ UNCHANGED <<ring, writer, asleep, clientVars, late, stale, count>>

Crash ==
    /\ Use("crashes", MaxCrashes)
    /\ Lose
    /\ readers' = [s \in Streams |-> ClosedReader]
    /\ loops' = [s \in Streams |-> [at |-> "none", held |-> <<>>]]
    /\ restart' = [stage |-> "idle", seq |-> 0, reply |-> -1]
    /\ file' = saved.file /\ gap' = saved.gap
    /\ UNCHANGED <<ring, writer, asleep, current, saved, done, late, stale>>

Reconnect ==
    /\ ~link /\ restart.stage = "idle" /\ current < MaxStreams
    /\ link' = TRUE
    /\ restart' = [restart EXCEPT !.stage = "stat"]
    /\ UNCHANGED <<managerVars, net, acks, readers, loops, current, file, gap, saved, done, late, stale, count>>

\* How far the client has come: the length of the file and what is known to be missing.
NextSeq == Len(file) + gap

\* WFS.Stat.  Until the new stream is set the loop of the present one goes on appending.
StatFile ==
    /\ restart.stage = "stat"
    /\ restart' = [stage |-> "set", seq |-> NextSeq, reply |-> -1]
    /\ UNCHANGED <<managerVars, link, net, acks, readers, loops, current, file, gap, saved, done, late, stale, count>>

\* CreateStreamReaderWithSeq, jobStreamIds.Set.
SetStream ==
    /\ restart.stage = "set"
    /\ current' = current + 1
    /\ readers' = [readers EXCEPT ![current + 1] = NewReader(restart.seq)]
    /\ restart' = [restart EXCEPT !.stage = "prepare"]
    /\ UNCHANGED <<managerVars, link, net, acks, loops, file, gap, saved, done, late, stale, count>>

\* Mutant: the gap is counted from the start of the output.
GapFound_FromStart == restart.reply

\* What the manager has not any more, of what the file has not yet.
GapFound == Most(restart.reply - restart.seq, 0)

Ended == -2
Refused == -3
Reply(value) == restart' = IF prep.alive THEN [restart EXCEPT !.reply = value] ELSE restart

\* PrepareConnect under jm.lock: a manager that still serves a stream disconnects it.
PrepareDisconnect ==
    /\ link /\ restart.stage = "prepare" /\ prep.stage = "none"
    /\ IF mgr.endAcked
       THEN /\ restart' = [restart EXCEPT !.stage = "asked", !.reply = Ended]
            /\ UNCHANGED <<ring, writer, mgr, asleep, prep>>
       ELSE /\ restart' = [restart EXCEPT !.stage = "asked"]
            /\ prep' = [stage |-> "head", id |-> current, seq |-> restart.seq, head |-> 0, alive |-> TRUE]
            /\ IF mgr.conn
               THEN /\ mgr' = [mgr EXCEPT !.conn = FALSE, !.alive = FALSE, !.sent = 0, !.acked = <<0, 0>>,
                                          !.endSent = FALSE]
                    /\ ring' = Windowed(ring, FALSE, RingSize)
                    /\ writer' = [writer EXCEPT !.waiting = StillWaits(ring, FALSE, RingSize)]
                    /\ asleep' = FALSE
               ELSE UNCHANGED <<ring, writer, mgr, asleep>>
    /\ UNCHANGED <<link, net, acks, readers, loops, current, file, gap, saved, done, late, stale, count>>

\* ClientConnected takes sm.lock, reads the head, drops what the client has, or refuses.
PrepareHead ==
    /\ prep.stage = "head"
    /\ IF mgr.endAcked \/ prep.seq > ring.total
       THEN /\ prep' = [prep EXCEPT !.stage = "none"]
            /\ Reply(Refused)
            /\ UNCHANGED <<ring, writer>>
       ELSE /\ prep' = [prep EXCEPT !.stage = "set", !.head = Most(prep.seq, RingHead(ring))]
            /\ ring' = [ring EXCEPT !.held = ring.total - Most(prep.seq, RingHead(ring))]
            /\ writer' = [writer EXCEPT !.waiting = @ /\ prep.seq <= RingHead(ring)]
            /\ UNCHANGED restart
    /\ UNCHANGED <<mgr, asleep, link, net, acks, readers, loops, current, file, gap, saved, done, late, stale, count>>

\* The rest of ClientConnected, with the window corked; the client is told where to start.
PrepareSet ==
    /\ prep.stage = "set"
    /\ prep' = [prep EXCEPT !.stage = "none"]
    /\ mgr' = [mgr EXCEPT !.conn = TRUE, !.id = prep.id, !.alive = prep.alive, !.rwnd = 0, !.sent = 0]
    /\ ring' = Windowed(ring, TRUE, 0)
    /\ asleep' = FALSE
    /\ Reply(prep.head)
    /\ stale' = (stale \/ prep.head < RingHead(ring))
    /\ UNCHANGED <<writer, link, net, acks, readers, loops, current, file, gap, saved, done, late, count>>

\* The reply of PrepareConnect.
Prepared ==
    /\ restart.stage = "asked" /\ restart.reply # -1
    /\ IF restart.reply \in {Ended, Refused}
       THEN /\ CloseReader(current)
            /\ restart' = [restart EXCEPT !.stage = "idle", !.reply = -1]
            /\ done' = (done \/ restart.reply = Ended)
            /\ UNCHANGED gap
       ELSE /\ gap' = gap + GapFound
            /\ readers' = [readers EXCEPT ![current].next = Most(@, restart.reply)]
            /\ restart' = [restart EXCEPT !.stage = "start", !.reply = -1]
            /\ UNCHANGED done
    /\ UNCHANGED <<managerVars, link, net, acks, loops, current, file, saved, late, stale, count>>

\* StartStream uncorks the window.
StartStream ==
    /\ link /\ restart.stage = "start" /\ mgr.conn
    /\ restart' = [restart EXCEPT !.stage = "started"]
    /\ mgr' = [mgr EXCEPT !.rwnd = ReadWindow]
    /\ ring' = Windowed(ring, TRUE, Least(Cwnd, ReadWindow))
    /\ writer' = [writer EXCEPT !.waiting = StillWaits(ring, TRUE, Least(Cwnd, ReadWindow))]
    /\ asleep' = FALSE
    /\ UNCHANGED <<prep, link, net, acks, readers, loops, current, file, gap, saved, done, late, stale, count>>

Started ==
    /\ link /\ restart.stage = "started"
    /\ loops' = [loops EXCEPT ![current] = [at |-> "read", held |-> <<>>]]
    /\ restart' = [restart EXCEPT !.stage = "idle"]
    /\ UNCHANGED <<managerVars, link, net, acks, readers, current, file, gap, saved, done, late, stale, count>>

\* A call fails with its connection, or times out: the reader is closed, nobody retries.
GiveUp ==
    /\ restart.stage \in {"prepare", "asked", "start", "started"}
    /\ \/ ~link /\ UNCHANGED count
       \/ Use("timeouts", MaxTimeouts)
    /\ CloseReader(current)
    /\ restart' = [restart EXCEPT !.stage = "idle", !.reply = -1]
    /\ UNCHANGED <<managerVars, link, net, acks, loops, current, file, gap, saved, done, late, stale>>

-----------------------------------------------------------------------------
Writer == (\E n \in 1..PacketSize : WriteRing(n)) \/ SignalSender \/ (\E k \in {"eof", "err"} : EndPty(k))
PumpGoesOn == (writer.chunk > 0 /\ \E n \in 1..PacketSize : WriteRing(n)) \/ SignalSender
Deliver == \E p \in net : RecvData(p)
DeliverAck == \E ack \in acks : RecvAck(ack)
Loop(s) == LoopRead(s) \/ LoopAppend(s)
Prepare == PrepareHead \/ PrepareSet
Restart == StatFile \/ SetStream \/ PrepareDisconnect \/ Prepared \/ StartStream \/ Started

Next ==
    \/ Writer \/ Sender \/ Deliver \/ DeliverAck
    \/ \E s \in Streams : Loop(s)
    \/ FlushFile \/ Drop \/ Crash \/ Reconnect \/ Prepare \/ Restart \/ GiveUp

Spec == Init /\ [][Next]_vars

\* Goroutines run when they can.  The job need not write, connections need not return.
FairSpec ==
    /\ Spec
    /\ WF_vars(PumpGoesOn) /\ WF_vars(Sender) /\ WF_vars(Deliver) /\ WF_vars(DeliverAck)
    /\ \A s \in Streams : WF_vars(Loop(s))
    /\ WF_vars(Prepare) /\ WF_vars(Restart)

-----------------------------------------------------------------------------
(* Properties *)

\* Type invariant; the ring holds no more than it has and the sender counts no more as
\* under way than the ring holds.
StreamTypeOK ==
    /\ ring \in [total : 0..MaxBytes, held : 0..RingSize, sync : BOOLEAN, win : 0..RingSize]
    /\ ring.held <= ring.total
    /\ writer \in [chunk : 0..PacketSize, waiting : BOOLEAN, signal : BOOLEAN]
    /\ mgr.sent \in 0..ring.held
    /\ mgr.rwnd \in 0..ReadWindow
    /\ current \in Streams /\ mgr.id \in 1..current
    /\ \A s \in Streams : readers[s].next \in Nat /\ (late \/ readers[s].next <= ring.total)
    /\ gap \in Nat /\ file \in Seq(0..MaxBytes - 1)

\* What an output loop appends goes on where the file and its recorded gaps end; bytes are
\* skipped only when a connection is made, and what a crash takes off is the unflushed end.
\* (A loop that appends after a restart has looked at the file is the exception, see late.)
Output == INSTANCE ByteStream WITH out <- file, pos <- Len(file) + gap, lost <- gap, total <- ring.total
ImplementsByteStream == Output!Init /\ [][late' \/ Output!Next]_(Output!vars)

\* The client's count is exact: the file, its gaps, what the loop holds and what the reader
\* buffers make up the reader's position, so that the next restart asks for the right byte.
\* (The exception is again a loop that appends between the look at the file and its use.)
CountsAgree ==
    ~late /\ loops[current].at # "none" =>
        Len(file) + gap + Len(loops[current].held) + Len(readers[current].buf) = readers[current].next

\* What a reader holds, as stretches of positions: its buffer and the packets that came early.
Pieces(r) ==
    {[from |-> p.seq, to |-> p.seq + Len(p.data)] : p \in {q \in r.ooo : q.data # <<>>}}
        \cup IF r.buf = <<>> THEN {} ELSE {[from |-> r.next - Len(r.buf), to |-> r.next]}

\* The reader never has to hold more than the window it offered, whatever order packets and
\* acknowledgements arrive in: all it holds lies within one window, and no byte of it twice.
ReaderWithinWindow ==
    \A s \in Streams : \A x, y \in Pieces(readers[s]) :
        /\ x.to - y.from <= ReadWindow
        /\ x = y \/ x.to <= y.from \/ y.to <= x.from

\* Nobody sleeps on work: a writer waits only while there is no room, and a sender with
\* something to send waits only for a signal that is due.
NobodySleepsOnWork ==
    /\ writer.waiting => ring.sync /\ ring.held >= ring.win
    /\ asleep /\ mgr.conn /\ ~mgr.endAcked /\ (HasTerminal \/ HasData) => writer.signal

\* While the connection holds and an output loop reads it, the file catches up with the job,
\* but for the end of a stream that ends in an error and a start that was told wrongly.
Healthy == link /\ mgr.alive /\ mgr.id = current /\ loops[current].at # "none"
CaughtUp == Len(file) + gap = ring.total
OutputArrives == Healthy ~> CaughtUp \/ ~Healthy \/ mgr.ended = "err" \/ stale \/ late

\* An output loop that reads the EOF and reports the stream done has all the job's output in
\* the file or counted as a gap: the terminal event is sent only when everything before it was
\* acknowledged.  (A restart that is told the stream has ended does not know.)
EofMeansAll ==
    [][~done /\ done' /\ restart.reply # Ended /\ mgr.ended = "eof" /\ ~late => CaughtUp]_vars

\* A manager that has lost its client does not hold up the job: it goes to disconnected
\* mode, where the ring drops its oldest bytes.  It does not hold, see Lose.
LostClientReleasesJob == ~link ~> link \/ ~writer.waiting

=============================================================================
