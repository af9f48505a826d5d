------------------------ MODULE JobStreamWindowProofs ------------------------
(***************************************************************************)
(* Proof about JobStream, for all sizes and bounds: a reader never holds   *)
(* more than the window it offered.                                        *)
(*                                                                         *)
(* The ring and the reader agree on a stretch of ReadWindow positions only *)
(* through acknowledgements, and those arrive in any order.  The invariant *)
(* says of each stream that everything under way or held early is beyond   *)
(* what the reader has taken and within a window of what it has passed on, *)
(* of the manager that what it still may send is too, and of every         *)
(* acknowledgement under way that it promises no more.  A start that was   *)
(* told wrongly leaves a reader that waits for a byte that never comes:    *)
(* all it gets is beyond the byte it waits for.                            *)
(***************************************************************************)
EXTENDS JobStreamProofs

\* Where what a reader has not passed on begins, and where a packet ends.
Start(r) == r.next - Len(r.buf)
End(p) == p.seq + Len(p.data)

\* The bytes of a stream that its reader has not taken: under way, or come early.
UnderWay(n, s) == {p \in n : p.id = s /\ p.data # <<>>}
Data(n, r, s) == UnderWay(n, s) \cup {p \in r.ooo : p.data # <<>>}

\* No byte twice, and all within a window.
Spread(D) ==
    \A p, q \in D : End(p) <= q.seq + ReadWindow /\ (p = q \/ End(p) <= q.seq \/ End(q) <= p.seq)

\* Bytes a reader will take, and bytes of which it misses the one before.
Ahead(D, r) == \A p \in D : r.next <= p.seq /\ End(p) <= Start(r) + ReadWindow
Beyond(D, r) == r.buf = <<>> /\ \A p \in D : r.next < p.seq

Fits(n, r, s) ==
    IF r.closed THEN r.buf = <<>> /\ r.ooo = {}
    ELSE /\ Spread(Data(n, r, s)) /\ Len(r.buf) <= ReadWindow
         /\ Ahead(Data(n, r, s), r) \/ Beyond(Data(n, r, s), r)
         /\ UnderWay(n, s) \cap r.ooo = {}

FitInv == \A s \in Streams : Fits(net, readers[s], s)

\* Nothing is under way on a stream the manager does not know yet.
KnownInv ==
    \A s \in Streams : s > mgr.id => Data(net, readers[s], s) = {} /\ \A a \in acks : a.id # s

\* An acknowledgement promises no more than there is room for.
Promises(a, r) == a.seq <= r.next /\ a.seq + a.rwnd <= Start(r) + ReadWindow
AckInv ==
    \A s \in Streams : ~readers[s].closed => \A a \in acks : a.id = s /\ ~a.fin => Promises(a, readers[s])

\* What the manager has sent, and what it still may, is what the reader has room for; or the
\* reader waits for a byte that is not in the ring any more.
Serves(D, r, head, sent, rwnd) ==
    /\ r.next <= head + sent /\ \A p \in D : End(p) <= head + sent
    /\ IF head <= r.next THEN Ahead(D, r) /\ head + rwnd <= Start(r) + ReadWindow
       ELSE r.buf = <<>> /\ \A p \in D : head <= p.seq

ServedInv ==
    \A s \in Streams : s = mgr.id /\ mgr.conn /\ ~readers[s].closed =>
        Serves(Data(net, readers[s], s), readers[s], RingHead(ring), mgr.sent, mgr.rwnd)

\* A preparation is of a stream later than the manager's; that of a reader still open is the
\* one the restart waits for, and the start it is told is not beyond the ring's head.
PrepInv ==
    /\ prep.stage # "none" =>
           /\ prep.id > mgr.id
           /\ prep.alive => prep.id = current
           /\ ~readers[prep.id].closed => /\ prep.id = current /\ restart.stage = "asked"
                                          /\ restart.reply = -1 /\ prep.seq = restart.seq
    /\ prep.stage = "set" => prep.head <= RingHead(ring) /\ prep.seq <= prep.head
    /\ restart.stage = "asked" /\ restart.reply \in Nat =>
           mgr.id = current /\ mgr.conn /\ restart.reply <= RingHead(ring)
    /\ restart.stage = "start" => mgr.id = current /\ readers[current].buf = <<>>

WindowInv == FitInv /\ KnownInv /\ AckInv /\ ServedInv /\ PrepInv

\* What is said of a stream is said of less of it, and of a reader that has passed on more.
LEMMA LessSpread ==
    ASSUME NEW D, NEW D2, D2 \subseteq D, Spread(D)
    PROVE  Spread(D2)
BY DEF Spread

LEMMA LessFits ==
    ASSUME NEW n, NEW r, NEW s, NEW n2, NEW r2, Fits(n, r, s), ~r.closed, ~r2.closed,
           r2.next = r.next, r2.buf = r.buf, Data(n2, r2, s) \subseteq Data(n, r, s),
           UnderWay(n2, s) \cap r2.ooo = {}
    PROVE  /\ Fits(n2, r2, s)
           /\ \A head, sent, rwnd : Serves(Data(n, r, s), r, head, sent, rwnd) =>
                                        Serves(Data(n2, r2, s), r2, head, sent, rwnd)
<1>1. /\ Spread(Data(n, r, s)) /\ Len(r.buf) <= ReadWindow
      /\ Ahead(Data(n, r, s), r) \/ Beyond(Data(n, r, s), r)
  BY DEF Fits
<1>2. Start(r2) = Start(r)
  BY DEF Start
<1>3. Spread(Data(n2, r2, s))
  BY <1>1, LessSpread
<1>4. Ahead(Data(n2, r2, s), r2) \/ Beyond(Data(n2, r2, s), r2)
  BY <1>1, <1>2 DEF Ahead, Beyond
<1>5. Fits(n2, r2, s)
  BY <1>1, <1>3, <1>4 DEF Fits
<1>6. ASSUME NEW head, NEW sent, NEW rwnd, Serves(Data(n, r, s), r, head, sent, rwnd)
      PROVE  Serves(Data(n2, r2, s), r2, head, sent, rwnd)
  BY <1>2, <1>6 DEF Serves, Ahead
<1> QED BY <1>5, <1>6

\* The numbers of a reader and of a packet.
LEMMA ReaderNumbers ==
    ASSUME IInv, NEW s \in Streams
    PROVE  /\ readers[s] \in AReader /\ readers[s].next \in Nat /\ readers[s].buf \in Seq(Byte)
           /\ Len(readers[s].buf) \in Nat /\ Len(readers[s].buf) <= readers[s].next
           /\ Start(readers[s]) \in Nat /\ readers[s].closed \in BOOLEAN
           /\ Start(readers[s]) + Len(readers[s].buf) = readers[s].next
<1>1. readers[s] \in AReader /\ Len(readers[s].buf) <= readers[s].next
  BY DEF IInv, ReadersInv, ReaderTrue
<1>2. readers[s].next \in Nat /\ readers[s].buf \in Seq(Byte) /\ readers[s].closed \in BOOLEAN
  BY <1>1 DEF AReader
<1>3. Len(readers[s].buf) \in Nat
  BY <1>2, LenProperties
<1> QED BY <1>1, <1>2, <1>3 DEF Start

LEMMA DataNumbers ==
    ASSUME IInv, NEW s \in Streams, NEW p \in Data(net, readers[s], s)
    PROVE  /\ PacketTrue(p, ring.total, mgr.ended) /\ p.id = s /\ p.data # <<>> /\ p.end = "no"
           /\ p.seq \in Nat /\ Len(p.data) \in Nat \ {0} /\ End(p) \in Nat /\ p.seq < End(p)
<1>1. PacketTrue(p, ring.total, mgr.ended) /\ p.id = s /\ p.data # <<>>
  BY DEF IInv, NetInv, ReadersInv, ReaderTrue, Data, UnderWay
<1>2. p \in APacket /\ p.end = "no"
  BY <1>1 DEF PacketTrue
<1>3. p.seq \in Nat /\ p.data \in Seq(Byte)
  BY <1>2 DEF APacket
<1>4. Len(p.data) \in Nat /\ Len(p.data) # 0
  BY <1>1, <1>3, LenProperties, EmptySeq
<1> QED BY <1>1, <1>2, <1>3, <1>4 DEF End

\* A step that only takes away leaves every stream as it is.
LEMMA LessKeeps ==
    ASSUME FitInv, AckInv, \A s \in Streams : UnderWay(net', s) \subseteq UnderWay(net, s), acks' \subseteq acks,
           \A s \in Streams : readers'[s] = readers[s] \/ readers'[s] = ClosedReader
    PROVE  /\ FitInv' /\ AckInv'
           /\ \A s \in Streams :
                  /\ Data(net', readers'[s], s) \subseteq Data(net, readers[s], s)
                  /\ ~readers'[s].closed => readers'[s] = readers[s]
           /\ KnownInv /\ mgr.id \in Nat /\ mgr'.id \in Nat /\ mgr.id <= mgr'.id => KnownInv'
<1>1. ClosedReader.closed /\ ClosedReader.buf = <<>> /\ ClosedReader.ooo = {}
  BY DEF ClosedReader, NewReader
<1>2. ASSUME NEW s \in Streams
      PROVE  /\ Data(net', readers'[s], s) \subseteq Data(net, readers[s], s)
             /\ UnderWay(net', s) \subseteq UnderWay(net, s)
             /\ ~readers'[s].closed => readers'[s] = readers[s]
  BY <1>1 DEF Data, UnderWay
<1>3. ASSUME NEW s \in Streams PROVE Fits(net', readers'[s], s)
  <2>1. CASE readers'[s] = ClosedReader
    BY <1>1, <2>1 DEF Fits
  <2>2. CASE readers'[s] = readers[s]
    <3>1. Fits(net, readers[s], s)
      BY DEF FitInv
    <3>2. CASE readers[s].closed
      BY <2>2, <3>1, <3>2 DEF Fits
    <3>3. CASE ~readers[s].closed
      <4>1. UnderWay(net', s) \cap readers[s].ooo = {}
        BY <1>2, <3>1, <3>3 DEF Fits
      <4>2. Data(net', readers[s], s) \subseteq Data(net, readers[s], s)
        BY <1>2, <2>2
      <4> QED BY <2>2, <3>1, <3>3, <4>1, <4>2, LessFits
    <3> QED BY <3>2, <3>3
  <2> QED BY <2>1, <2>2
<1>4. FitInv'
  BY <1>3 DEF FitInv
<1>5. AckInv'
  BY <1>2 DEF AckInv
<1>6. ASSUME KnownInv, mgr.id \in Nat, mgr'.id \in Nat, mgr.id <= mgr'.id PROVE KnownInv'
  <2>1. \A s \in Streams : s > mgr'.id => s > mgr.id
    BY <1>6 DEF Streams
  <2> QED BY <1>2, <1>6, <2>1 DEF KnownInv
<1> QED BY <1>2, <1>4, <1>5, <1>6

\* So does one that leaves the manager's window where it is, or takes the stream from it.
LEMMA ServedKeeps ==
    ASSUME ServedInv, mgr'.id = mgr.id,
           mgr'.conn => /\ mgr.conn /\ RingHead(ring') = RingHead(ring)
                        /\ mgr'.sent = mgr.sent /\ mgr'.rwnd = mgr.rwnd,
           \A s \in Streams : /\ Data(net', readers'[s], s) \subseteq Data(net, readers[s], s)
                              /\ ~readers'[s].closed => readers'[s] = readers[s]
    PROVE  ServedInv'
<1> SUFFICES ASSUME NEW s \in Streams, s = mgr'.id, mgr'.conn, ~readers'[s].closed
             PROVE  Serves(Data(net', readers'[s], s), readers'[s], RingHead(ring'), mgr'.sent, mgr'.rwnd)
  BY DEF ServedInv
<1>1. Serves(Data(net, readers[s], s), readers[s], RingHead(ring), mgr.sent, mgr.rwnd)
  BY DEF ServedInv
<1>2. Serves(Data(net', readers'[s], s), readers[s], RingHead(ring), mgr.sent, mgr.rwnd)
  BY <1>1 DEF Serves, Ahead
<1> QED BY <1>2

\* Where the ring begins.
LEMMA HeadNumbers ==
    ASSUME IInv
    PROVE  /\ RingHead(ring) \in Nat /\ RingHead(ring) + ring.held = ring.total
           /\ ring.held \in Nat /\ ring.total \in Nat /\ mgr.sent \in Nat /\ mgr.sent <= ring.held
           /\ mgr.rwnd \in Nat /\ mgr.rwnd <= ReadWindow /\ ReadWindow \in Nat /\ ReadWindow # 0
           /\ mgr.id \in Streams /\ mgr.id \in Nat /\ current \in Streams /\ current \in Nat
           /\ prep.id \in Streams /\ prep.id \in Nat /\ mgr.id <= current /\ prep.id <= current
<1>1. /\ ring.held \in 0..RingSize /\ ring.total \in 0..MaxBytes /\ ring.held <= ring.total
      /\ mgr.sent \in 0..ring.held /\ mgr.rwnd \in 0..ReadWindow /\ ReadWindow \in Nat
      /\ RingSize \in Nat /\ MaxBytes \in Nat
      /\ mgr.id \in Streams /\ current \in Streams /\ prep.id \in Streams
  BY Fields
<1>2. mgr.id <= current /\ prep.id <= current
  BY DEF IInv, MgrInv
<1>3. mgr.id \in Nat /\ current \in Nat /\ prep.id \in Nat
  BY <1>1 DEF Streams
<1>4. ReadWindow # 0
  BY SizesAssumption
<1> QED BY <1>1, <1>2, <1>3, <1>4 DEF RingHead

LEMMA NextHead ==
    ASSUME IInv'
    PROVE  RingHead(ring') \in Nat
<1>1. ring' \in ARing /\ ring'.held <= ring'.total
  BY DEF IInv, RingInv
<1>2. MaxBytes \in Nat /\ RingSize \in Nat
  BY SizesAssumption
<1>3. ring'.total \in 0..MaxBytes /\ ring'.held \in 0..RingSize
  BY <1>1 DEF ARing
<1> QED BY <1>1, <1>2, <1>3 DEF RingHead

\* A step that is none of the restart's leaves the preparation as it is.
LEMMA PrepStays ==
    ASSUME IInv, IInv', PrepInv, UNCHANGED <<restart, current>>, mgr'.id = mgr.id, mgr'.conn = mgr.conn,
           prep' = prep \/ prep' = [prep EXCEPT !.alive = FALSE],
           RingHead(ring') >= RingHead(ring),
           \A s \in Streams : readers'[s].closed = readers[s].closed \/ readers'[s].closed,
           readers'[current].buf = readers[current].buf \/ readers'[current].buf = <<>>
    PROVE  PrepInv'
<1>1. /\ RingHead(ring) \in Nat /\ RingHead(ring') \in Nat /\ prep \in APreparation
      /\ prep.id \in Streams /\ prep.head \in Nat
  BY HeadNumbers, NextHead, Fields
<1>2. /\ prep'.stage = prep.stage /\ prep'.id = prep.id /\ prep'.head = prep.head /\ prep'.seq = prep.seq
      /\ prep'.alive => prep.alive
  BY <1>1 DEF APreparation
<1>3. prep.stage # "none" /\ ~readers'[prep.id].closed => ~readers[prep.id].closed
  BY <1>1
<1>4. prep.stage = "set" => prep.head <= RingHead(ring')
  BY <1>1 DEF PrepInv
<1>5. restart.stage = "asked" /\ restart.reply \in Nat => restart.reply <= RingHead(ring')
  BY <1>1 DEF PrepInv
<1>6. restart.stage = "start" => readers'[current].buf = <<>>
  BY DEF PrepInv
<1> QED BY <1>3, <1>4, <1>5, <1>6, <1>2 DEF PrepInv

\* So does one that waits for no answer and has closed the reader in preparation.
LEMMA PrepEnds ==
    ASSUME IInv, IInv', PrepInv, restart'.stage \notin {"asked", "start"}, mgr'.id = mgr.id,
           prep' = prep \/ prep' = [prep EXCEPT !.alive = FALSE], current' = current \/ ~prep.alive,
           RingHead(ring') >= RingHead(ring),
           prep.stage # "none" => readers'[prep.id].closed
    PROVE  PrepInv'
<1>1. RingHead(ring) \in Nat /\ RingHead(ring') \in Nat /\ prep \in APreparation /\ prep.head \in Nat
  BY HeadNumbers, NextHead, Fields
<1>2. /\ prep'.stage = prep.stage /\ prep'.id = prep.id /\ prep'.head = prep.head /\ prep'.seq = prep.seq
      /\ prep'.alive => prep.alive
  BY <1>1 DEF APreparation
<1>3. prep.stage = "set" => prep.head <= RingHead(ring')
  BY <1>1 DEF PrepInv
<1> QED BY <1>2, <1>3 DEF PrepInv

\* Nor does a step do anything to the window that sends and takes nothing and leaves the ring's
\* head, or has no client.
LEMMA WindowStays ==
    ASSUME IInv, WindowInv, \A s \in Streams : UnderWay(net', s) \subseteq UnderWay(net, s), acks' \subseteq acks,
           \A s \in Streams : readers'[s] = readers[s] \/ readers'[s] = ClosedReader, mgr'.id = mgr.id,
           mgr'.conn => /\ mgr.conn /\ RingHead(ring') = RingHead(ring)
                        /\ mgr'.sent = mgr.sent /\ mgr'.rwnd = mgr.rwnd
    PROVE  FitInv' /\ AckInv' /\ KnownInv' /\ ServedInv'
<1>1. FitInv' /\ AckInv' /\ KnownInv'
      /\ \A s \in Streams : /\ Data(net', readers'[s], s) \subseteq Data(net, readers[s], s)
                            /\ ~readers'[s].closed => readers'[s] = readers[s]
  <2>1. mgr.id \in Nat /\ mgr'.id \in Nat /\ mgr.id <= mgr'.id
    BY HeadNumbers
  <2> QED BY <2>1, LessKeeps DEF WindowInv
<1>2. ServedInv'
  BY <1>1, ServedKeeps DEF WindowInv
<1> QED BY <1>1, <1>2

LEMMA PlainKeeps ==
    ASSUME IInv, IInv', WindowInv,
           \A s \in Streams : UnderWay(net', s) \subseteq UnderWay(net, s), acks' \subseteq acks,
           \A s \in Streams : readers'[s] = readers[s] \/ readers'[s] = ClosedReader,
           mgr'.id = mgr.id, mgr'.conn = mgr.conn, mgr'.sent = mgr.sent, mgr'.rwnd = mgr.rwnd,
           UNCHANGED <<restart, current>>, prep' = prep \/ prep' = [prep EXCEPT !.alive = FALSE],
           RingHead(ring') = RingHead(ring) \/ (~mgr.conn /\ RingHead(ring') >= RingHead(ring))
    PROVE  WindowInv'
<1>1. FitInv' /\ AckInv' /\ KnownInv' /\ ServedInv'
  BY WindowStays
<1>2. PrepInv'
  <2>1. RingHead(ring) \in Nat /\ current \in Streams
    BY HeadNumbers
  <2>2. ClosedReader.closed /\ ClosedReader.buf = <<>>
    BY DEF ClosedReader, NewReader
  <2>3. \A s \in Streams : readers'[s].closed = readers[s].closed \/ readers'[s].closed
    BY <2>2
  <2>4. readers'[current].buf = readers[current].buf \/ readers'[current].buf = <<>>
    BY <2>1, <2>2
  <2>5. RingHead(ring') >= RingHead(ring)
    BY <2>1
  <2> QED BY <2>3, <2>4, <2>5, PrepStays DEF WindowInv
<1> QED BY <1>1, <1>2 DEF WindowInv

\* The writer, the file, and the end of the job: sync mode keeps the ring's head, async mode
\* raises it, but only without a client.
LEMMA WriteRingFits ==
    ASSUME IInv, IInv', WindowInv, NEW n \in 1..PacketSize, WriteRing(n)
    PROVE  WindowInv'
<1>1. /\ ring \in ARing /\ ring.total \in 0..MaxBytes /\ ring.held \in 0..RingSize /\ ring.win \in 0..RingSize
      /\ RingSize \in Nat /\ MaxBytes \in Nat /\ PacketSize \in Nat /\ ring.sync \in BOOLEAN
  BY Fields
<1>2. PICK f \in Nat : f = Fitting(n) /\ (ring.sync => f = Least(n, Most(ring.win - ring.held, 0)))
  BY <1>1 DEF Fitting, Least, Most
<1>3. PICK h \in Nat : /\ h = Least(ring.held + f, Most(ring.win, ring.held)) /\ h <= ring.held + f
                       /\ ring.sync => h = ring.held + f
  BY <1>1, <1>2 DEF Least, Most
<1>4. ring' = [ring EXCEPT !.total = ring.total + f, !.held = h]
  BY <1>2, <1>3 DEF WriteRing
<1>5. ring'.total = ring.total + f /\ ring'.held = h
  BY <1>1, <1>4 DEF ARing
<1>6. RingHead(ring') >= RingHead(ring) /\ (ring.sync => RingHead(ring') = RingHead(ring))
  BY <1>1, <1>3, <1>5 DEF RingHead
<1>7. ~ring.sync => ~mgr.conn
  BY DEF IInv, MgrInv
<1>8. UNCHANGED <<mgr, prep, net, acks, readers, restart, current>>
  BY DEF WriteRing, clientVars
<1> QED BY <1>6, <1>7, <1>8, PlainKeeps

LEMMA OthersFit ==
    ASSUME IInv, IInv', WindowInv,
           \/ SignalSender \/ (\E k \in {"eof", "err"} : EndPty(k)) \/ (\E s \in Streams : LoopAppend(s))
           \/ FlushFile \/ UNCHANGED vars
    PROVE  WindowInv'
<1>1. UNCHANGED <<ring, prep, net, acks, readers, restart, current>>
  BY DEF SignalSender, EndPty, LoopAppend, FlushFile, managerVars, clientVars, vars
<1>2. UNCHANGED mgr \/ \E k \in {"eof", "err"} : mgr' = [mgr EXCEPT !.ended = k]
  BY DEF SignalSender, EndPty, LoopAppend, FlushFile, managerVars, clientVars, vars
<1>3. mgr \in AManager
  BY Fields
<1>4. mgr'.id = mgr.id /\ mgr'.conn = mgr.conn /\ mgr'.sent = mgr.sent /\ mgr'.rwnd = mgr.rwnd
  BY <1>2, <1>3 DEF AManager
<1> QED BY <1>1, <1>4, PlainKeeps

\* What the sender sends is within the reader's window, and follows all that it sent before.
LEMMA SendsFit ==
    ASSUME NEW r, NEW n, NEW s, NEW n2, NEW p, NEW head \in Nat, NEW sent \in Nat, NEW rwnd \in Nat, NEW k \in Nat,
           ~r.closed, Fits(n, r, s), Serves(Data(n, r, s), r, head, sent, rwnd),
           r.next \in Nat, Start(r) \in Nat, Start(r) <= r.next, ReadWindow \in Nat,
           \A q \in Data(n, r, s) : q.seq \in Nat /\ End(q) \in Nat,
           p.seq = head + sent, End(p) = p.seq + k, k # 0, sent + k <= rwnd, rwnd <= ReadWindow,
           UnderWay(n2, s) \subseteq UnderWay(n, s) \cup {p}
    PROVE  Fits(n2, r, s) /\ Serves(Data(n2, r, s), r, head, sent + k, rwnd)
<1> DEFINE D == Data(n, r, s)
           D2 == Data(n2, r, s)
<1>1. D2 \subseteq D \cup {p}
  BY DEF Data
<1>2. /\ Spread(D) /\ Len(r.buf) <= ReadWindow /\ (Ahead(D, r) \/ Beyond(D, r))
      /\ UnderWay(n, s) \cap r.ooo = {}
  BY DEF Fits
<1>3. /\ r.next <= head + sent /\ \A q \in D : End(q) <= head + sent
      /\ IF head <= r.next THEN Ahead(D, r) /\ head + rwnd <= Start(r) + ReadWindow
         ELSE r.buf = <<>> /\ \A q \in D : head <= q.seq
  BY DEF Serves
<1>4. p \notin r.ooo \/ p.data = <<>>
  <2> SUFFICES ASSUME p \in D PROVE FALSE
    BY DEF Data
  <2> QED BY <1>3
<1>5. \A q \in D : q.seq \in Nat /\ End(q) \in Nat
  OBVIOUS
<1>6. ASSUME NEW e \in Nat, e = head + sent
      PROVE  /\ p.seq = e /\ End(p) = e + k /\ e + k <= head + rwnd /\ head <= e /\ head + rwnd <= head + ReadWindow
             /\ r.next <= e /\ \A q \in D : End(q) <= e
  BY <1>3, <1>6
<1> HIDE DEF D, D2
<1>7. PICK e \in Nat : e = head + sent
  OBVIOUS
<1>8. PICK a \in Nat : a = r.next
  OBVIOUS
<1>9. PICK b \in Nat : b = Start(r)
  OBVIOUS
<1>10. \A q \in D : e + k <= q.seq + ReadWindow
  <2> SUFFICES ASSUME NEW q \in D PROVE e + k <= q.seq + ReadWindow
    OBVIOUS
  <2>1. q.seq \in Nat /\ e + k <= head + rwnd
    BY <1>5, <1>6, <1>7
  <2>2. CASE head <= a
    <3>1. a <= q.seq /\ head + rwnd <= b + ReadWindow /\ b <= a
      BY <1>3, <1>8, <1>9, <2>2 DEF Ahead
    <3> QED BY <2>1, <3>1
  <2>3. CASE ~(head <= a)
    <3>1. head <= q.seq
      BY <1>3, <1>8, <2>3
    <3> QED BY <2>1, <3>1
  <2> QED BY <2>2, <2>3
<1>11. Spread(D \cup {p})
  <2> SUFFICES ASSUME NEW x \in D \cup {p}, NEW y \in D \cup {p}
               PROVE  End(x) <= y.seq + ReadWindow /\ (x = y \/ End(x) <= y.seq \/ End(y) <= x.seq)
    BY DEF Spread
  <2>1. p.seq = e /\ End(p) = e + k /\ k <= ReadWindow /\ \A q \in D : End(q) <= e
    BY <1>6, <1>7
  <2>2. CASE x \in D /\ y \in D
    BY <1>2, <2>2 DEF Spread
  <2>3. CASE x = p /\ y \in D
    BY <1>10, <2>1, <2>3
  <2>4. CASE x \in D /\ y = p
    <3>1. End(x) \in Nat /\ End(x) <= e
      BY <1>5, <2>1, <2>4
    <3> QED BY <2>1, <2>4, <3>1
  <2>5. CASE x = p /\ y = p
    BY <2>1, <2>5
  <2> QED BY <2>2, <2>3, <2>4, <2>5
<1>12. Spread(D2)
  BY <1>1, <1>11, LessSpread
<1>13. CASE head <= a
  <2>1. Ahead(D, r) /\ head + rwnd <= b + ReadWindow /\ a <= e /\ e + k <= head + rwnd
    BY <1>3, <1>6, <1>7, <1>8, <1>9, <1>13
  <2>2. a <= p.seq /\ End(p) <= b + ReadWindow
    BY <1>6, <1>7, <2>1
  <2>3. Ahead(D2, r)
    BY <1>1, <1>8, <1>9, <2>1, <2>2 DEF Ahead
  <2>4. a <= head + (sent + k) /\ \A q \in D2 : End(q) <= head + (sent + k)
    <3>1. head + (sent + k) = e + k
      BY <1>7
    <3>2. \A q \in D : End(q) <= e + k
      BY <1>5, <1>6, <1>7
    <3> QED BY <1>1, <1>6, <1>7, <2>1, <3>1, <3>2
  <2>5. Fits(n2, r, s)
    BY <1>2, <1>4, <1>12, <2>3 DEF Fits, D2, UnderWay
  <2> QED BY <1>8, <1>9, <1>13, <2>1, <2>3, <2>4, <2>5 DEF Serves, D2
<1>14. CASE ~(head <= a)
  <2>1. r.buf = <<>> /\ (\A q \in D : head <= q.seq) /\ head <= e /\ a < head
    BY <1>3, <1>6, <1>7, <1>8, <1>14
  <2>2. \A q \in D2 : head <= q.seq /\ a < q.seq
    <3>1. \A q \in D : head <= q.seq /\ a < q.seq
      BY <1>5, <2>1
    <3>2. head <= p.seq /\ a < p.seq
      BY <1>6, <1>7, <2>1
    <3> QED BY <1>1, <3>1, <3>2
  <2>3. Beyond(D2, r)
    BY <1>8, <2>1, <2>2 DEF Beyond
  <2>4. a <= head + (sent + k) /\ \A q \in D2 : End(q) <= head + (sent + k)
    <3>1. head + (sent + k) = e + k
      BY <1>7
    <3>2. \A q \in D : End(q) <= e + k
      BY <1>5, <1>6, <1>7
    <3> QED BY <1>1, <1>6, <1>7, <2>1, <3>1, <3>2
  <2>5. Fits(n2, r, s)
    BY <1>2, <1>4, <1>12, <2>3 DEF Fits, D2, UnderWay
  <2> QED BY <1>8, <1>14, <2>1, <2>2, <2>4, <2>5 DEF Serves, D2
<1> QED BY <1>13, <1>14

LEMMA SenderFits ==
    ASSUME IInv, IInv', WindowInv, Sender
    PROVE  WindowInv'
<1>1. UNCHANGED <<ring, prep, acks, readers, restart, current>>
  BY DEF Sender, clientVars
<1>2. mgr \in AManager
  BY Fields
<1>3. CASE ~(mgr.conn /\ ~HasTerminal /\ HasData)
  <2>1. \/ UNCHANGED <<net, mgr>>
        \/ Send(Packet(0, mgr.ended)) /\ mgr' = [mgr EXCEPT !.endSent = TRUE]
    BY <1>3 DEF Sender
  <2>2. mgr'.id = mgr.id /\ mgr'.conn = mgr.conn /\ mgr'.sent = mgr.sent /\ mgr'.rwnd = mgr.rwnd
    BY <1>2, <2>1 DEF AManager
  <2>3. Packet(0, mgr.ended).data = <<>>
    BY DEF Packet
  <2>4. \A s \in Streams : UnderWay(net', s) \subseteq UnderWay(net, s)
    BY <2>1, <2>3 DEF Send, UnderWay
  <2> QED BY <1>1, <2>2, <2>4, PlainKeeps
<1>4. CASE mgr.conn /\ ~HasTerminal /\ HasData
  <2> DEFINE m == mgr.id
             k == PacketBytes
             p == Packet(k, "no")
             h == RingHead(ring)
             r == readers[m]
  <2>1. mgr' = [mgr EXCEPT !.sent = mgr.sent + k] /\ Send(p)
    BY <1>4 DEF Sender
  <2>2. k \in Nat \ {0} /\ mgr.sent + k <= mgr.rwnd
    <3>1. /\ mgr.sent \in Nat /\ mgr.rwnd \in Nat /\ ring.held \in Nat
          /\ {Cwnd, PacketSize} \subseteq Nat \ {0}
      BY HeadNumbers, SizesAssumption
    <3> QED BY <1>4, <3>1 DEF PacketBytes, HasData, SendRoom, Least
  <2>3. p.id = m /\ p.seq = h + mgr.sent /\ End(p) = p.seq + k
    <3>1. p.id = m /\ p.seq = h + mgr.sent
      BY DEF Packet
    <3>2. p.data = [i \in 1..k |-> h + mgr.sent + i - 1] 
      BY DEF Packet
    <3>3. Len(p.data) = k
      <4> HIDE DEF k, p, h
      <4> QED BY <2>2, <3>2
    <3> QED BY <3>1, <3>3 DEF End
  <2> HIDE DEF k, p
  <2>4. mgr' \in AManager /\ mgr'.id = m /\ mgr'.conn = mgr.conn /\ mgr'.sent = mgr.sent + k /\ mgr'.rwnd = mgr.rwnd
    <3>1. mgr' \in AManager
      BY DEF IInv, MgrInv
    <3> QED BY <1>2, <2>1, <3>1 DEF AManager
  <2>5. net' \subseteq net \cup {p}
    BY <2>1 DEF Send
  <2>6. \A s \in Streams : s # m => UnderWay(net', s) \subseteq UnderWay(net, s)
    BY <2>3, <2>5 DEF UnderWay
  <2>7. UnderWay(net', m) \subseteq UnderWay(net, m) \cup {p}
    BY <2>5 DEF UnderWay
  <2>8. m \in Streams /\ m \in Nat
    BY HeadNumbers
  <2>9. ~r.closed => Fits(net', r, m) /\ Serves(Data(net', r, m), r, h, mgr.sent + k, mgr.rwnd)
    <3> SUFFICES ASSUME ~r.closed
                 PROVE  Fits(net', r, m) /\ Serves(Data(net', r, m), r, h, mgr.sent + k, mgr.rwnd)
      OBVIOUS
    <3>1. Fits(net, r, m) /\ Serves(Data(net, r, m), r, h, mgr.sent, mgr.rwnd)
      BY <1>4, <2>8 DEF WindowInv, FitInv, ServedInv
    <3>2. r.next \in Nat /\ Start(r) \in Nat /\ Start(r) <= r.next
      <4>1. PICK x \in Nat : x = Start(r)
        BY <2>8, ReaderNumbers
      <4>2. PICK y \in Nat : y = r.next
        BY <2>8, ReaderNumbers
      <4>3. PICK z \in Nat : z = Len(r.buf)
        BY <2>8, ReaderNumbers
      <4>4. x + z = y
        BY <2>8, <4>1, <4>2, <4>3, ReaderNumbers
      <4> QED BY <4>1, <4>2, <4>4
    <3>3. \A q \in Data(net, r, m) : q.seq \in Nat /\ End(q) \in Nat
      BY <2>8, DataNumbers
    <3>4. h \in Nat /\ mgr.sent \in Nat /\ mgr.rwnd \in Nat /\ mgr.rwnd <= ReadWindow /\ ReadWindow \in Nat
      BY HeadNumbers
    <3> HIDE DEF m, h, r
    <3> QED BY <2>2, <2>3, <2>7, <3>1, <3>2, <3>3, <3>4, SendsFit
  <2>10. FitInv'
    <3> SUFFICES ASSUME NEW s \in Streams PROVE Fits(net', readers[s], s)
      BY <1>1 DEF FitInv
    <3>1. Fits(net, readers[s], s)
      BY DEF WindowInv, FitInv
    <3>2. CASE readers[s].closed
      BY <3>1, <3>2 DEF Fits
    <3>3. CASE s = m /\ ~readers[s].closed
      BY <2>9, <3>3
    <3>4. CASE s # m /\ ~readers[s].closed
      <4>1. UnderWay(net', s) \subseteq UnderWay(net, s)
        BY <2>6, <3>4
      <4>2. Data(net', readers[s], s) \subseteq Data(net, readers[s], s)
        BY <4>1 DEF Data
      <4>3. UnderWay(net', s) \cap readers[s].ooo = {}
        BY <3>1, <3>4, <4>1 DEF Fits
      <4> QED BY <3>1, <3>4, <4>2, <4>3, LessFits
    <3> QED BY <3>2, <3>3, <3>4
  <2>11. AckInv'
    BY <1>1 DEF WindowInv, AckInv
  <2>12. KnownInv'
    <3> SUFFICES ASSUME NEW s \in Streams, s > m
                 PROVE  Data(net', readers[s], s) = {} /\ \A a \in acks : a.id # s
      BY <1>1, <2>4 DEF KnownInv
    <3>1. s # m
      BY <2>8 DEF Streams
    <3>2. Data(net, readers[s], s) = {} /\ \A a \in acks : a.id # s
      BY DEF WindowInv, KnownInv
    <3> QED BY <2>6, <3>1, <3>2 DEF Data
  <2>13. ServedInv'
    BY <1>1, <2>4, <2>8, <2>9 DEF ServedInv
  <2>14. PrepInv'
    <3>1. RingHead(ring') >= RingHead(ring)
      BY <1>1, HeadNumbers
    <3> QED BY <1>1, <2>4, <3>1, PrepStays DEF WindowInv
  <2> QED BY <2>10, <2>11, <2>12, <2>13, <2>14 DEF WindowInv
<1> QED BY <1>3, <1>4

\* An acknowledgement moves the ring's head and the window together, to what the reader promised.
LEMMA AckServes ==
    ASSUME NEW D, NEW r, NEW head \in Nat, NEW sent \in Nat, NEW rwnd \in Nat, NEW a,
           Serves(D, r, head, sent, rwnd), Promises(a, r), a.seq \in Nat, a.rwnd \in Nat,
           r.next \in Nat, head <= a.seq
    PROVE  Serves(D, r, a.seq, sent - (a.seq - head), a.rwnd)
<1>1. a.seq + (sent - (a.seq - head)) = head + sent
  OBVIOUS
<1>2. head <= r.next /\ a.seq <= r.next
  BY DEF Promises
<1> QED BY <1>1, <1>2 DEF Serves, Promises

LEMMA RecvAckFits ==
    ASSUME IInv, IInv', WindowInv, NEW ack \in acks, RecvAck(ack)
    PROVE  WindowInv'
<1>1. UNCHANGED <<prep, net, readers, restart, current>> /\ acks' \subseteq acks
  BY DEF RecvAck, clientVars
<1>2. mgr \in AManager
  BY Fields
<1>3. CASE UNCHANGED ring /\ \/ UNCHANGED mgr \/ mgr' = [mgr EXCEPT !.endAcked = TRUE]
                             \/ mgr' = [mgr EXCEPT !.acked = <<ack.seq, ack.rwnd>>]
  <2>1. mgr'.id = mgr.id /\ mgr'.conn = mgr.conn /\ mgr'.sent = mgr.sent /\ mgr'.rwnd = mgr.rwnd
    BY <1>2, <1>3 DEF AManager
  <2> QED BY <1>1, <1>3, <2>1, PlainKeeps
<1>4. CASE /\ mgr.conn /\ ack.id = mgr.id /\ ~ack.fin
           /\ ~(ack.seq < RingHead(ring) \/ ack.seq - RingHead(ring) > mgr.sent) /\ Acknowledge(ack)
  <2> DEFINE h == RingHead(ring)
             n == ack.seq - h
             r == [ring EXCEPT !.held = ring.held - n]
             w == Least(Cwnd, ack.rwnd)
             m == mgr.id
  <2>1. ack.seq \in Nat /\ ack.rwnd \in 0..ReadWindow /\ ack.rwnd \in Nat
    BY HeadNumbers DEF IInv, NetInv
  <2>2. h \in Nat /\ n \in 0..mgr.sent /\ n \in 0..ring.held /\ h <= ack.seq
    BY <1>4, <2>1, HeadNumbers
  <2>3. /\ mgr' = [mgr EXCEPT !.acked = <<ack.seq, ack.rwnd>>, !.sent = mgr.sent - n, !.rwnd = ack.rwnd]
        /\ ring' = Windowed(r, TRUE, w)
    BY <1>4 DEF Acknowledge, UnderWayAfter
  <2>4. r \in ARing /\ r.total = ring.total /\ r.held = ring.held - n /\ w \in Nat
    <3>1. ring.held - n \in 0..RingSize
      BY <2>2, Fields
    <3>2. w \in Nat
      BY <2>1, Fields DEF Least
    <3> QED BY <3>1, <3>2, Fields DEF ARing
  <2> HIDE DEF r, w
  <2>5. RingHead(ring') = ack.seq
    <3>1. ring'.total = ring.total /\ ring'.held = ring.held - n
      BY <2>3, <2>4, WindowedIs
    <3>2. h = ring.total - ring.held /\ ring.total \in Nat /\ ring.held \in Nat
      BY HeadNumbers DEF RingHead
    <3> QED BY <2>1, <2>2, <3>1, <3>2 DEF RingHead
  <2>6. mgr'.id = m /\ mgr'.conn = mgr.conn /\ mgr'.sent = mgr.sent - n /\ mgr'.rwnd = ack.rwnd
    BY <1>2, <2>3 DEF AManager
  <2>7. m \in Streams /\ m \in Nat
    BY HeadNumbers
  <2>8. FitInv' /\ AckInv' /\ KnownInv'
    BY <1>1, <2>6, <2>7, LessKeeps DEF WindowInv
  <2>9. ServedInv'
    <3> SUFFICES ASSUME ~readers[m].closed
                 PROVE  Serves(Data(net, readers[m], m), readers[m], ack.seq, mgr.sent - n, ack.rwnd)
      BY <1>1, <2>5, <2>6 DEF ServedInv
    <3>1. Serves(Data(net, readers[m], m), readers[m], h, mgr.sent, mgr.rwnd)
      BY <1>4, <2>7 DEF WindowInv, ServedInv
    <3>2. Promises(ack, readers[m])
      BY <1>4, <2>7 DEF WindowInv, AckInv
    <3>3. readers[m].next \in Nat /\ mgr.sent \in Nat /\ mgr.rwnd \in Nat
      BY <2>7, ReaderNumbers, HeadNumbers
    <3> HIDE DEF h, m
    <3> QED BY <2>1, <2>2, <3>1, <3>2, <3>3, AckServes
  <2>10. PrepInv'
    <3>1. RingHead(ring') >= RingHead(ring)
      BY <2>2, <2>5
    <3> QED BY <1>1, <2>6, <3>1, PrepStays DEF WindowInv
  <2> QED BY <2>8, <2>9, <2>10 DEF WindowInv
<1> QED BY <1>3, <1>4 DEF RecvAck

\* A packet that is next, with what was waiting for it, ends where one of the packets does, and
\* leaves no byte behind it.
LEMMA AbsorbReach ==
    ASSUME NEW r, NEW s \in Streams, NEW total \in Nat, NEW ended, ReaderTrue(r, s, total, ended),
           r.ended = "no", NEW p, PacketTrue(p, total, ended), p.seq = r.next, p \notin r.ooo,
           NEW D, p \in D, {q \in r.ooo : q.data # <<>>} \subseteq D, Spread(D),
           \A q \in D : q.seq \in Nat /\ End(q) \in Nat /\ q.seq < End(q) /\ r.next <= q.seq
    PROVE  LET t == Absorb(r, p)
           IN  /\ \E q \in D : t.next = End(q)
               /\ \A q \in D : q # p /\ (q \in t.ooo \/ q \notin r.ooo) => t.next <= q.seq
<1> DEFINE list == InSequence(r.ooo)
           after == Taking(Take(r, p), list)
           L == Len(list)
           Follow(n) == \A i \in 1..n : after[i - 1].ended = "no" /\ list[i].seq = after[i - 1].next
           Good(n) == /\ ReaderTrue(after[n], s, total, ended)
                      /\ \E q \in D : after[n].next = End(q)
                      /\ \A q \in D : q # p /\ (\A i \in 1..n : q # list[i]) => after[n].next <= q.seq
<1>1. list \in Seq(r.ooo) /\ L \in Nat /\ \A i, j \in 1..L : i < j => list[i].seq < list[j].seq
  BY AbsorbIs
<1>2. \A q \in r.ooo : PacketTrue(q, total, ended)
  BY DEF ReaderTrue
<1>3. after[0] = Take(r, p) /\ \A n \in 1..L : after[n] = Take(after[n - 1], list[n])
  BY AbsorbIs
<1>4. \A n \in 1..L : list[n] \in r.ooo
  BY <1>1
<1>5. PICK c \in 0..L :
        /\ Follow(c)
        /\ Absorb(r, p) = [after[c] EXCEPT !.ooo = IF after[c].ended = "no"
                                                   THEN ToSet(SubSeq(list, c + 1, L)) ELSE {}]
  BY AbsorbIs
<1>6. \A q, v \in D : q = v \/ End(q) <= v.seq \/ End(v) <= q.seq
  BY DEF Spread
<1> HIDE DEF list, after, L
<1>7. Good(0)
  <2>1. PICK t : t = Take(r, p)
    OBVIOUS
  <2>2. ReaderTrue(t, s, total, ended) /\ t.next = r.next + Len(p.data)
    BY <2>1, TakeTrue
  <2>3. t.next = End(p)
    BY <2>2 DEF End
  <2>4. ASSUME NEW q \in D, q # p PROVE End(p) <= q.seq
    <3>1. End(p) <= q.seq \/ End(q) <= p.seq
      BY <1>6, <2>4
    <3>2. q.seq \in Nat /\ End(q) \in Nat /\ q.seq < End(q) /\ p.seq <= q.seq /\ p.seq \in Nat
      OBVIOUS
    <3> QED BY <3>1, <3>2
  <2> QED BY <1>3, <2>1, <2>2, <2>3, <2>4
<1>8. ASSUME NEW n \in 1..L, Good(n - 1), after[n - 1].ended = "no", list[n].seq = after[n - 1].next
      PROVE  Good(n)
  <2>1. PICK u : u = after[n - 1]
    OBVIOUS
  <2>2. PICK v : v = list[n]
    OBVIOUS
  <2>3. ReaderTrue(u, s, total, ended) /\ u.ended = "no" /\ v.seq = u.next
    BY <1>8, <2>1, <2>2
  <2>4. v \in r.ooo /\ PacketTrue(v, total, ended)
    BY <1>2, <1>4, <2>2
  <2>5. PICK t : t = Take(u, v)
    OBVIOUS
  <2>6. ReaderTrue(t, s, total, ended) /\ t.next = u.next + Len(v.data)
    BY <2>3, <2>4, <2>5, TakeTrue
  <2>7. after[n] = t
    BY <1>3, <2>1, <2>2, <2>5
  <2>8. u.next \in Nat
    BY <2>3 DEF ReaderTrue, AReader
  <2>9. \A q \in D : q # p /\ (\A i \in 1..n : q # list[i]) => u.next <= q.seq /\ q # v
    <3>1. \A i \in 1..(n - 1) : i \in 1..n
      BY <1>1
    <3>2. n \in 1..n
      BY <1>1
    <3> QED BY <1>8, <2>1, <2>2, <3>1, <3>2
  <2>10. CASE v.data = <<>>
    <3>1. t.next = u.next
      BY <2>6, <2>8, <2>10
    <3>2. \E q \in D : u.next = End(q)
      BY <1>8, <2>1
    <3> QED BY <2>6, <2>7, <2>9, <3>1, <3>2
  <2>11. CASE v.data # <<>>
    <3>1. v \in D
      BY <2>4, <2>11
    <3>2. t.next = End(v)
      BY <2>3, <2>6 DEF End
    <3>3. ASSUME NEW q \in D, q # p, \A i \in 1..n : q # list[i] PROVE End(v) <= q.seq
      <4>1. u.next <= q.seq /\ q # v
        BY <2>9, <3>3
      <4>2. End(v) <= q.seq \/ End(q) <= v.seq
        BY <1>6, <3>1, <4>1
      <4>3. q.seq \in Nat /\ End(q) \in Nat /\ q.seq < End(q)
        OBVIOUS
      <4> QED BY <2>3, <2>8, <4>1, <4>2, <4>3
    <3> QED BY <2>6, <2>7, <3>1, <3>2, <3>3
  <2> QED BY <2>10, <2>11
<1> HIDE DEF Good
<1>9. Good(c)
  <2> DEFINE B == {n \in 0..c : ~Good(n)}
  <2> SUFFICES ASSUME ~Good(c) PROVE FALSE
    OBVIOUS
  <2>1. c \in Nat
    BY <1>1, <1>5
  <2>2. B # {} /\ B \subseteq Nat
    BY <2>1
  <2> HIDE DEF B
  <2>3. PICK m \in B : \A j \in B : m <= j
    BY <2>2, LeastElement
  <2>4. m \in 0..c /\ ~Good(m)
    BY <2>3 DEF B
  <2>5. m # 0
    BY <1>7, <2>4
  <2>6. m \in 1..L /\ m \in 1..c /\ m - 1 \in 0..c /\ m - 1 \notin B
    BY <1>1, <1>5, <2>3, <2>4, <2>5
  <2>7. Good(m - 1)
    BY <2>6 DEF B
  <2>8. after[m - 1].ended = "no" /\ list[m].seq = after[m - 1].next
    BY <1>5, <2>6
  <2> QED BY <1>8, <2>4, <2>6, <2>7, <2>8
<1> DEFINE rest == SubSeq(list, c + 1, L)
<1>10. \A q \in ToSet(rest) : \A i \in 1..c : q # list[i]
  <2>1. c + 1 \in Int /\ L \in Int /\ c \in Nat /\ c <= L
    BY <1>1, <1>5
  <2>2. \A i \in (c + 1)..L : list[i] \in r.ooo
    BY <1>1, <1>4, <2>1
  <2>3. rest \in Seq(r.ooo) /\ \A i \in 1..Len(rest) : rest[i] = list[(c + 1) + i - 1] /\ (c + 1) + i - 1 \in (c + 1)..L
    <3>1. rest \in Seq(r.ooo)
      BY <2>1, <2>2, SubSeqProperties
    <3>2. Len(rest) = IF c + 1 <= L THEN L - (c + 1) + 1 ELSE 0
      BY <2>1
    <3>3. \A i \in 1..(L - (c + 1) + 1) : rest[i] = list[(c + 1) + i - 1]
      BY <2>1
    <3> HIDE DEF rest
    <3>4. \A i \in 1..Len(rest) : i \in 1..(L - (c + 1) + 1) /\ (c + 1) + i - 1 \in (c + 1)..L
      BY <2>1, <3>2
    <3> QED BY <3>1, <3>3, <3>4
  <2> HIDE DEF rest
  <2>7. ToSet(rest) = {rest[j] : j \in 1..Len(rest)}
    BY <2>3 DEF ToSet
  <2> SUFFICES ASSUME NEW j \in 1..Len(rest), NEW i \in 1..c PROVE rest[j] # list[i]
    BY <2>7
  <2>4. PICK k \in (c + 1)..L : rest[j] = list[k]
    BY <2>3
  <2>5. k \in 1..L /\ i \in 1..L /\ i < k
    BY <2>1
  <2>6. list[i].seq < list[k].seq /\ list[i].seq \in Nat
    <3>1. PacketTrue(list[i], total, ended)
      BY <1>2, <1>4, <2>5
    <3> QED BY <1>1, <2>5, <3>1 DEF PacketTrue, APacket
  <2> QED BY <2>4, <2>6
<1>11. \A q \in r.ooo \cup D : q \notin r.ooo => \A i \in 1..c : q # list[i]
  <2>1. \A i \in 1..c : i \in 1..L
    BY <1>1, <1>5
  <2> QED BY <1>4, <2>1
<1>12. PICK u : u = after[c]
  OBVIOUS
<1>13. PICK X : X = IF u.ended = "no" THEN ToSet(rest) ELSE {}
  OBVIOUS
<1>14. PICK t : t = Absorb(r, p)
  OBVIOUS
<1>15. t = [u EXCEPT !.ooo = X]
  BY <1>5, <1>12, <1>13, <1>14
<1>16. u \in AReader /\ (\E q \in D : u.next = End(q))
       /\ \A q \in D : q # p /\ (\A i \in 1..c : q # list[i]) => u.next <= q.seq
  BY <1>9, <1>12 DEF Good, ReaderTrue
<1>17. t.next = u.next /\ t.ooo = X
  BY <1>15, <1>16 DEF AReader
<1>18. \A q \in t.ooo : \A i \in 1..c : q # list[i]
  BY <1>10, <1>13, <1>17
<1> QED BY <1>11, <1>14, <1>16, <1>17, <1>18

\* A reader that moves on, or is closed, while the manager stays where it is.
LEMMA ReaderMovesFits ==
    ASSUME IInv, IInv', WindowInv, NEW s \in Streams, NEW r2, ~readers[s].closed,
           readers' = [readers EXCEPT ![s] = r2], UNCHANGED <<ring, mgr, prep, restart, current>>,
           \A x \in Streams : UnderWay(net', x) \subseteq UnderWay(net, x),
           Data(net', r2, s) \subseteq Data(net, readers[s], s), Fits(net', r2, s),
           r2.closed \/ \A head, sent, rwnd \in Nat :
                            Serves(Data(net, readers[s], s), readers[s], head, sent, rwnd) =>
                                Serves(Data(net', r2, s), r2, head, sent, rwnd),
           r2.closed \/ \A a \in acks : Promises(a, readers[s]) => Promises(a, r2),
           NEW a2, \/ acks' = acks
                   \/ /\ acks' = acks \cup {a2} /\ a2.id = s /\ s = mgr.id
                      /\ r2.closed \/ a2.fin \/ Promises(a2, r2),
           restart.stage = "start" /\ s = current => r2.buf = <<>>
    PROVE  WindowInv'
<1>1. readers \in [Streams -> AReader] /\ mgr.id \in Streams /\ mgr.id \in Nat /\ current \in Streams /\ prep.id \in Streams
  BY HeadNumbers DEF IInv, ReadersInv
<1>2. readers'[s] = r2 /\ \A x \in Streams : x # s => readers'[x] = readers[x]
  BY <1>1
<1>3. ASSUME NEW x \in Streams PROVE Data(net', readers'[x], x) \subseteq Data(net, readers[x], x)
  BY <1>2 DEF Data
<1>4. FitInv'
  <2> SUFFICES ASSUME NEW x \in Streams PROVE Fits(net', readers'[x], x)
    BY DEF FitInv
  <2>1. CASE x = s
    BY <1>2, <2>1
  <2>2. CASE x # s /\ readers[x].closed
    BY <1>2, <2>2 DEF WindowInv, FitInv, Fits
  <2>3. CASE x # s /\ ~readers[x].closed
    <3>1. Fits(net, readers[x], x) /\ readers'[x] = readers[x]
      BY <1>2, <2>3 DEF WindowInv, FitInv
    <3>2. UnderWay(net', x) \cap readers[x].ooo = {}
      BY <2>3, <3>1 DEF Fits
    <3>3. Data(net', readers[x], x) \subseteq Data(net, readers[x], x)
      BY <1>3, <3>1
    <3>4. Fits(net', readers[x], x)
      BY <2>3, <3>1, <3>2, <3>3, LessFits
    <3> QED BY <3>1, <3>4
  <2> QED BY <2>1, <2>2, <2>3
<1>5. AckInv'
  <2> SUFFICES ASSUME NEW x \in Streams, ~readers'[x].closed, NEW a, a \in acks', a.id = x, ~a.fin
               PROVE  Promises(a, readers'[x])
    BY DEF AckInv
  <2>1. CASE a \in acks
    <3>1. ~readers[x].closed => Promises(a, readers[x])
      BY <2>1 DEF WindowInv, AckInv
    <3> QED BY <1>2, <2>1, <3>1
  <2>2. CASE a \notin acks
    BY <1>2, <2>2
  <2> QED BY <2>1, <2>2
<1>6. KnownInv'
  <2> SUFFICES ASSUME NEW x \in Streams, x > mgr.id
               PROVE  Data(net', readers'[x], x) = {} /\ \A a \in acks' : a.id # x
    BY DEF KnownInv
  <2>1. Data(net, readers[x], x) = {} /\ \A a \in acks : a.id # x
    BY DEF WindowInv, KnownInv
  <2>2. x # mgr.id
    BY <1>1 DEF Streams
  <2> QED BY <1>3, <2>1, <2>2
<1>7. ServedInv'
  <2> SUFFICES ASSUME NEW x \in Streams, x = mgr.id, mgr.conn, ~readers'[x].closed
               PROVE  Serves(Data(net', readers'[x], x), readers'[x], RingHead(ring), mgr.sent, mgr.rwnd)
    BY DEF ServedInv
  <2>1. ~readers[x].closed => Serves(Data(net, readers[x], x), readers[x], RingHead(ring), mgr.sent, mgr.rwnd)
    BY DEF WindowInv, ServedInv
  <2>2. CASE x = s
    <3>1. RingHead(ring) \in Nat /\ mgr.sent \in Nat /\ mgr.rwnd \in Nat
      BY HeadNumbers
    <3> QED BY <1>2, <2>1, <2>2, <3>1
  <2>3. CASE x # s
    <3>1. readers'[x] = readers[x]
      BY <1>2, <2>3
    <3> QED BY <1>3, <2>1, <3>1 DEF Serves, Ahead
  <2> QED BY <2>2, <2>3
<1>8. PrepInv'
  <2>1. prep.stage # "none" /\ ~readers'[prep.id].closed => ~readers[prep.id].closed
    BY <1>1, <1>2
  <2>2. restart.stage = "start" => readers'[current].buf = <<>>
    BY <1>1, <1>2 DEF WindowInv, PrepInv
  <2> QED BY <2>1, <2>2 DEF WindowInv, PrepInv
<1> QED BY <1>4, <1>5, <1>6, <1>7, <1>8 DEF WindowInv

\* A reader that has taken a packet, from one that has not: all the window is where it was.
TakenFrom(n, n2, r, t, s) ==
    /\ ~t.closed /\ Data(n2, t, s) \subseteq Data(n, r, s) /\ Fits(n2, t, s)
    /\ \A head, sent, rwnd \in Nat : Serves(Data(n, r, s), r, head, sent, rwnd) =>
                                          Serves(Data(n2, t, s), t, head, sent, rwnd)
    /\ t.next \in Nat /\ r.next <= t.next /\ Start(t) = Start(r)

\* A packet of data that is next is ahead, and so is all that is left when it is taken.
LEMMA DataTaken ==
    ASSUME NEW n, NEW r, NEW s \in Streams, NEW total \in Nat, NEW ended, ReaderTrue(r, s, total, ended),
           r.ended = "no", ~r.closed, Fits(n, r, s), NEW p \in UnderWay(n, s), PacketTrue(p, total, ended),
           p.seq = r.next,
           \A q \in Data(n, r, s) : q.seq \in Nat /\ End(q) \in Nat /\ q.seq < End(q)
    PROVE  TakenFrom(n, n \ {p}, r, Absorb(r, p), s)
<1> DEFINE D == Data(n, r, s)
           n2 == n \ {p}
<1>1. PICK t : t = Absorb(r, p)
  OBVIOUS
<1>2. /\ Spread(D) /\ Len(r.buf) <= ReadWindow /\ (Ahead(D, r) \/ Beyond(D, r))
      /\ UnderWay(n, s) \cap r.ooo = {}
  BY DEF Fits
<1>3. p \in D /\ p \notin r.ooo /\ {q \in r.ooo : q.data # <<>>} \subseteq D
  BY <1>2 DEF Data
<1>4. \A q \in D : q.seq \in Nat /\ End(q) \in Nat /\ q.seq < End(q)
  OBVIOUS
<1>5. D = UnderWay(n, s) \cup {q \in r.ooo : q.data # <<>>}
  BY DEF Data
<1> HIDE DEF D
<1>6. r.next \in Nat /\ Ahead(D, r)
  <2>1. p.seq \in Nat
    BY <1>3, <1>4
  <2> QED BY <1>2, <1>3, <2>1 DEF Beyond
<1>7. \A q \in D : r.next <= q.seq /\ End(q) <= Start(r) + ReadWindow
  BY <1>6 DEF Ahead
<1>8. /\ \E q \in D : t.next = End(q)
      /\ \A q \in D : q # p /\ (q \in t.ooo \/ q \notin r.ooo) => t.next <= q.seq
  BY <1>1, <1>2, <1>3, <1>4, <1>7, AbsorbReach
<1>9. /\ ReaderTrue(t, s, total, ended) /\ Start(t) = Start(r)
      /\ t.ooo \subseteq r.ooo /\ t.closed = r.closed
  BY <1>1, AbsorbTrue DEF Start
<1>10. Data(n2, t, s) \subseteq D /\ \A q \in Data(n2, t, s) : q # p /\ (q \in t.ooo \/ q \notin r.ooo)
  <2>1. \A q \in UnderWay(n2, s) : q \in UnderWay(n, s) /\ q # p
    BY DEF UnderWay
  <2> QED BY <1>2, <1>3, <1>5, <1>9, <2>1 DEF Data
<1>11. PICK e \in D : t.next = End(e)
  BY <1>8
<1>12. t.next \in Nat /\ r.next <= t.next /\ t.next <= Start(r) + ReadWindow /\ r.next < t.next
  BY <1>4, <1>6, <1>7, <1>11
<1>13. Ahead(Data(n2, t, s), t)
  BY <1>7, <1>8, <1>9, <1>10 DEF Ahead
<1>14. Len(t.buf) <= ReadWindow
  <2>1. t.buf \in Seq(Byte)
    BY <1>9 DEF ReaderTrue, AReader
  <2>2. PICK l \in Nat : l = Len(t.buf)
    BY <2>1, LenProperties
  <2>3. t.next <= (t.next - l) + ReadWindow
    BY <1>9, <1>12, <2>2 DEF Start
  <2>4. ReadWindow \in Nat
    BY SizesAssumption
  <2> QED BY <1>12, <2>2, <2>3, <2>4
<1>15. Fits(n2, t, s)
  <2>1. Spread(Data(n2, t, s))
    BY <1>2, <1>10, LessSpread
  <2>2. UnderWay(n2, s) \cap t.ooo = {}
    BY <1>2, <1>9 DEF UnderWay
  <2> QED BY <1>9, <1>13, <1>14, <2>1, <2>2 DEF Fits
<1>16. ASSUME NEW head \in Nat, NEW sent \in Nat, NEW rwnd \in Nat, Serves(D, r, head, sent, rwnd)
       PROVE  Serves(Data(n2, t, s), t, head, sent, rwnd)
  <2>1. t.next <= head + sent /\ \A q \in Data(n2, t, s) : End(q) <= head + sent
    BY <1>10, <1>11, <1>16 DEF Serves
  <2>2. head <= r.next
    <3>1. ~(head <= r.next) => head <= p.seq
      BY <1>3, <1>16 DEF Serves
    <3> QED BY <3>1
  <2>3. head <= t.next
    BY <1>6, <1>12, <2>2
  <2>4. head + rwnd <= Start(t) + ReadWindow
    BY <1>9, <1>16, <2>2 DEF Serves
  <2> QED BY <1>13, <2>1, <2>3, <2>4 DEF Serves
<1> QED BY <1>1, <1>9, <1>10, <1>12, <1>15, <1>16 DEF TakenFrom, D

\* An end takes nothing.
LEMMA EndTaken ==
    ASSUME NEW n, NEW r, NEW s, NEW p, NEW t, ~r.closed, Fits(n, r, s), r.next \in Nat,
           t.next = r.next, t.buf = r.buf, t.closed = r.closed, t.ooo \subseteq r.ooo
    PROVE  TakenFrom(n, n \ {p}, r, t, s)
<1>1. /\ UnderWay(n \ {p}, s) \subseteq UnderWay(n, s) /\ Data(n \ {p}, t, s) \subseteq Data(n, r, s)
      /\ UnderWay(n, s) \cap r.ooo = {}
  BY DEF UnderWay, Data, Fits
<1>2. UnderWay(n \ {p}, s) \cap t.ooo = {}
  BY <1>1
<1>3. /\ Fits(n \ {p}, t, s)
      /\ \A head, sent, rwnd : Serves(Data(n, r, s), r, head, sent, rwnd) =>
                                    Serves(Data(n \ {p}, t, s), t, head, sent, rwnd)
  BY <1>1, <1>2, LessFits
<1>4. Start(t) = Start(r)
  BY DEF Start
<1> QED BY <1>1, <1>3, <1>4 DEF TakenFrom

\* Whatever a packet is, and what was waiting for it.
LEMMA PacketTaken ==
    ASSUME IInv, WindowInv, NEW p \in net, ~readers[p.id].closed, readers[p.id].ended = "no",
           p.end # "err" => p.seq = readers[p.id].next
    PROVE  LET r == readers[p.id]
               t == IF p.end = "err" THEN [r EXCEPT !.ended = "err"] ELSE Absorb(r, p)
           IN  /\ TakenFrom(net, net \ {p}, r, t, p.id)
               /\ p.end # "no" => t.buf = r.buf /\ t.ended # "no"
<1> DEFINE r == readers[p.id]
           t == IF p.end = "err" THEN [r EXCEPT !.ended = "err"] ELSE Absorb(r, p)
<1>1. PacketTrue(p, ring.total, mgr.ended) /\ p.id \in Streams /\ ring.total \in Nat
  <2>1. PacketTrue(p, ring.total, mgr.ended)
    BY DEF IInv, NetInv
  <2>2. p.id \in Streams
    <3> HIDE DEF r, t
    <3> QED BY <2>1, Zenon DEF PacketTrue, APacket
  <2>3. ring.total \in Nat
    BY HeadNumbers
  <2> QED BY <2>1, <2>2, <2>3
<1>2. ReaderTrue(r, p.id, ring.total, mgr.ended) /\ r \in AReader /\ r.next \in Nat
  BY <1>1 DEF IInv, ReadersInv, ReaderTrue, AReader
<1>3. Fits(net, r, p.id) /\ ~r.closed /\ r.ended = "no"
  BY <1>1 DEF WindowInv, FitInv
<1>4. CASE p.end = "err"
  <2>1. PICK u : u = [r EXCEPT !.ended = "err"]
    OBVIOUS
  <2>2. u.next = r.next /\ u.buf = r.buf /\ u.ooo = r.ooo /\ u.closed = r.closed /\ u.ended = "err"
    BY <1>2, <2>1 DEF AReader
  <2>3. TakenFrom(net, net \ {p}, r, u, p.id)
    <3> HIDE DEF r
    <3> QED BY <1>2, <1>3, <2>2, EndTaken
  <2>4. t = u
    BY <1>4, <2>1
  <2> QED BY <2>2, <2>3, <2>4
<1>5. CASE p.end = "eof"
  <2>1. PICK u : u = Absorb(r, p)
    OBVIOUS
  <2>2. u.next = r.next /\ u.buf = r.buf /\ u.ooo \subseteq r.ooo /\ u.closed = r.closed /\ u.ended # "no"
    <3>1. p.seq = r.next
      BY <1>5
    <3> HIDE DEF r
    <3> QED BY <1>1, <1>2, <1>3, <1>5, <2>1, <3>1, AbsorbTrue
  <2>3. TakenFrom(net, net \ {p}, r, u, p.id)
    <3> HIDE DEF r
    <3> QED BY <1>2, <1>3, <2>2, EndTaken
  <2>4. t = u
    BY <1>5, <2>1
  <2> QED BY <2>2, <2>3, <2>4
<1>6. CASE p.end = "no"
  <2>1. p \in UnderWay(net, p.id) /\ p.seq = r.next
    BY <1>1, <1>6 DEF PacketTrue, UnderWay
  <2>2. \A q \in Data(net, r, p.id) : q.seq \in Nat /\ End(q) \in Nat /\ q.seq < End(q)
    BY <1>1, DataNumbers
  <2>3. TakenFrom(net, net \ {p}, r, Absorb(r, p), p.id)
    <3> HIDE DEF r
    <3> QED BY <1>1, <1>2, <1>3, <2>1, <2>2, DataTaken
  <2>4. t = Absorb(r, p)
    BY <1>6
  <2> QED BY <1>6, <2>3, <2>4
<1>7. p.end \in Ends
  BY <1>1 DEF PacketTrue, APacket
<1> QED BY <1>4, <1>5, <1>6, <1>7 DEF Ends

LEMMA RecvDataFits ==
    ASSUME IInv, IInv', WindowInv, NEW p \in net, RecvData(p)
    PROVE  WindowInv'
<1> DEFINE s == p.id
           r == readers[s]
           t == IF p.end = "err" THEN [r EXCEPT !.ended = "err"] ELSE Absorb(r, p)
<1>1. UNCHANGED <<ring, mgr, prep, restart, current>> /\ net' = net \ {p}
  BY DEF RecvData, managerVars
<1>2. \A x \in Streams : UnderWay(net', x) \subseteq UnderWay(net, x)
  BY <1>1 DEF UnderWay
<1>3. PacketTrue(p, ring.total, mgr.ended) /\ s \in Streams
  <2>1. PacketTrue(p, ring.total, mgr.ended)
    BY DEF IInv, NetInv
  <2> QED BY <2>1 DEF PacketTrue, APacket
<1>4. ReaderTrue(r, s, ring.total, mgr.ended) /\ r.next \in Nat /\ r.closed \in BOOLEAN
  BY <1>3 DEF IInv, ReadersInv, ReaderTrue, AReader
<1>5. restart.stage = "start" /\ s = current => p.end # "no" /\ r.buf = <<>>
  BY DEF WindowInv, PrepInv, IInv, QuietInv
<1>6. Fits(net, r, s)
  BY <1>3 DEF WindowInv, FitInv
<1>7. CASE UNCHANGED <<readers, acks>>
  BY <1>1, <1>2, <1>7, PlainKeeps
<1>8. CASE /\ ~r.closed /\ p.end # "err"
           /\ readers' = [readers EXCEPT ![s] = KeepEarly(r, p)] /\ UNCHANGED acks
  <2>1. PICK u : u = KeepEarly(r, p)
    OBVIOUS
  <2>2. u.buf = r.buf /\ u.next = r.next /\ u.ooo \subseteq r.ooo \cup {p} /\ u.closed = r.closed
    <3> HIDE DEF r, s
    <3>1. p.id = s
      BY DEF s
    <3> QED BY <1>3, <1>4, <1>8, <2>1, <3>1, KeepEarlyTrue
  <2>3. Data(net', u, s) \subseteq Data(net, r, s)
    BY <1>1, <2>2 DEF Data, UnderWay
  <2>4. UnderWay(net', s) \cap u.ooo = {}
    BY <1>1, <1>6, <1>8, <2>2 DEF Fits, UnderWay
  <2>5. /\ Fits(net', u, s)
        /\ \A head, sent, rwnd : Serves(Data(net, r, s), r, head, sent, rwnd) =>
                                      Serves(Data(net', u, s), u, head, sent, rwnd)
    <3> HIDE DEF r, s
    <3> QED BY <1>6, <1>8, <2>2, <2>3, <2>4, LessFits
  <2>6. \A a : Promises(a, r) => Promises(a, u)
    BY <2>2 DEF Promises, Start
  <2> QED BY <1>1, <1>2, <1>3, <1>5, <1>8, <2>1, <2>2, <2>3, <2>5, <2>6, ReaderMovesFits
<1>9. CASE /\ ~r.closed /\ r.ended = "no" /\ (p.end # "err" => p.seq = r.next)
           /\ readers' = [readers EXCEPT ![s] = t] /\ SendAck(AckOf(s, t, t.ended # "no"))
  <2>1. PICK u : u = t
    OBVIOUS
  <2>2. PICK a2 : a2 = AckOf(s, u, u.ended # "no")
    OBVIOUS
  <2>3. TakenFrom(net, net', r, u, s) /\ (p.end # "no" => u.buf = r.buf /\ u.ended # "no")
    BY <1>1, <1>9, <2>1, PacketTaken
  <2>4. readers' = [readers EXCEPT ![s] = u] /\ SendAck(a2)
    BY <1>9, <2>1, <2>2
  <2> HIDE DEF t
  <2>5. /\ ~u.closed /\ Data(net', u, s) \subseteq Data(net, r, s) /\ Fits(net', u, s)
        /\ \A head, sent, rwnd \in Nat : Serves(Data(net, r, s), r, head, sent, rwnd) =>
                                              Serves(Data(net', u, s), u, head, sent, rwnd)
        /\ u.next \in Nat /\ r.next <= u.next /\ Start(u) = Start(r)
    BY <2>3 DEF TakenFrom
  <2>6. \A a \in acks : Promises(a, r) => Promises(a, u)
    <3>1. \A a \in acks : a.seq \in Nat
      BY DEF IInv, NetInv
    <3> QED BY <1>4, <2>5, <3>1 DEF Promises
  <2>7. Promises(a2, u)
    <3>1. Len(u.buf) <= ReadWindow
      BY <2>5 DEF Fits
    <3>2. readers'[s] = u
      BY <1>3, <2>4 DEF IInv, ReadersInv
    <3>3. u \in AReader
      BY <1>3, <3>2 DEF IInv, ReadersInv
    <3>4. PICK l \in Nat : l = Len(u.buf)
      BY <3>3, LenProperties DEF AReader
    <3>5. a2.seq = u.next /\ a2.rwnd = Most(ReadWindow - l, 0)
      BY <2>2, <3>4 DEF AckOf, Room
    <3>6. ReadWindow \in Nat
      BY SizesAssumption
    <3>7. a2.rwnd = ReadWindow - l
      <4>1. l <= ReadWindow
        BY <3>1, <3>4
      <4>2. Most(ReadWindow - l, 0) = ReadWindow - l
        BY <3>6, <4>1 DEF Most
      <4> QED BY <3>5, <4>2
    <3> QED BY <2>5, <3>4, <3>5, <3>6, <3>7 DEF Promises, Start
  <2>8. acks' = acks \/ (acks' = acks \cup {a2} /\ a2.id = s /\ s = mgr.id)
    BY <2>2, <2>4 DEF SendAck, AckOf
  <2>9. restart.stage = "start" /\ s = current => u.buf = <<>>
    BY <1>5, <2>3
  <2> HIDE DEF s, r
  <2>10. ~readers[s].closed
    BY <1>9 DEF r
  <2> QED BY <1>1, <1>2, <1>3, <2>4, <2>5, <2>6, <2>7, <2>8, <2>9, <2>10, ReaderMovesFits DEF r
<1>10. ~Early(r, p) /\ ~(p.end # "err" /\ p.seq < r.next) /\ p.end # "err" => p.seq = r.next
  <2>1. p.seq \in Nat
    BY <1>3 DEF PacketTrue, APacket
  <2> QED BY <1>4, <2>1 DEF Early
<1> QED BY <1>7, <1>8, <1>9, <1>10 DEF RecvData

\* What the loop takes makes room, and the acknowledgement says how much.
LEMMA LoopReadFits ==
    ASSUME IInv, IInv', WindowInv, NEW s \in Streams, LoopRead(s)
    PROVE  WindowInv'
<1> DEFINE r == readers[s]
           r2 == [r EXCEPT !.buf = <<>>]
           a2 == AckOf(s, r2, FALSE)
<1>1. UNCHANGED <<ring, mgr, prep, net, restart, current>> /\ loops[s].at = "read"
  BY DEF LoopRead, managerVars
<1>2. \A x \in Streams : UnderWay(net', x) \subseteq UnderWay(net, x)
  BY <1>1
<1>3. CASE CloseReader(s) /\ UNCHANGED acks
  <2>1. \A x \in Streams : readers'[x] = readers[x] \/ readers'[x] = ClosedReader
    BY <1>3 DEF CloseReader, IInv, ReadersInv
  <2> QED BY <1>1, <1>2, <1>3, <2>1, PlainKeeps
<1>4. CASE r.buf # <<>> /\ readers' = [readers EXCEPT ![s] = IF current = s THEN r2 ELSE ClosedReader] /\ SendAck(a2)
  <2>1. Fits(net, r, s) /\ ~r.closed
    BY <1>4 DEF WindowInv, FitInv, Fits
  <2>2. acks' = acks \/ (acks' = acks \cup {a2} /\ a2.id = s /\ s = mgr.id)
    BY <1>4 DEF SendAck, AckOf
  <2>3. /\ r \in AReader /\ r.next \in Nat /\ Start(r) \in Nat /\ Start(r) <= r.next /\ ReadWindow \in Nat
        /\ Len(<<>>) = 0
    <3>1. PICK a \in Nat : a = Start(r)
      BY ReaderNumbers
    <3>2. PICK b \in Nat : b = Len(r.buf)
      BY ReaderNumbers
    <3>3. PICK c \in Nat : c = r.next
      BY ReaderNumbers
    <3>4. a + b = c
      BY <3>1, <3>2, <3>3, ReaderNumbers
    <3> QED BY <3>1, <3>3, <3>4, ReaderNumbers, SizesAssumption
  <2>4. CASE current # s
    <3>1. ClosedReader.closed /\ ClosedReader.ooo = {} /\ ClosedReader.buf = <<>>
      BY DEF ClosedReader, NewReader
    <3>2. Fits(net', ClosedReader, s) /\ Data(net', ClosedReader, s) \subseteq Data(net, r, s)
      BY <1>1, <3>1 DEF Fits, Data
    <3>3. readers' = [readers EXCEPT ![s] = ClosedReader]
      BY <1>4, <2>4
    <3> HIDE DEF a2
    <3> QED BY <1>1, <1>2, <2>1, <2>2, <2>4, <3>1, <3>2, <3>3, ReaderMovesFits
  <2>5. CASE current = s
    <3>1. PICK u : u = r2
      OBVIOUS
    <3>2. u.next = r.next /\ u.buf = <<>> /\ u.ooo = r.ooo /\ u.closed = r.closed
      BY <2>3, <3>1 DEF AReader
    <3>3. Start(u) = r.next
      BY <2>3, <3>2 DEF Start
    <3>4. Data(net', u, s) = Data(net, r, s)
      BY <1>1, <3>2 DEF Data
    <3> DEFINE D == Data(net, r, s)
    <3>5. \A q \in D : q.seq \in Nat /\ End(q) \in Nat
      BY DataNumbers
    <3>6. Spread(D) /\ (Ahead(D, r) \/ Beyond(D, r)) /\ UnderWay(net', s) \cap u.ooo = {}
      BY <1>1, <2>1, <3>2 DEF Fits
    <3> HIDE DEF D
    <3>7. Ahead(D, r) => Ahead(D, u)
      <4> SUFFICES ASSUME Ahead(D, r), NEW q \in D PROVE End(q) <= r.next + ReadWindow /\ r.next <= q.seq
        BY <3>2, <3>3 DEF Ahead
      <4> QED BY <2>3, <3>5 DEF Ahead
    <3>8. Beyond(D, r) => Beyond(D, u)
      BY <3>2 DEF Beyond
    <3>9. Fits(net', u, s)
      <4>1. Len(u.buf) <= ReadWindow
        BY <2>3, <3>2
      <4> QED BY <2>1, <3>2, <3>4, <3>6, <3>7, <3>8, <4>1 DEF Fits, D
    <3>10. \A head, sent, rwnd \in Nat : Serves(D, r, head, sent, rwnd) => Serves(D, u, head, sent, rwnd)
      <4> SUFFICES ASSUME NEW head \in Nat, NEW sent \in Nat, NEW rwnd \in Nat, Serves(D, r, head, sent, rwnd)
                   PROVE  Serves(D, u, head, sent, rwnd)
        OBVIOUS
      <4>1. head <= r.next => head + rwnd <= r.next + ReadWindow
        BY <2>3 DEF Serves
      <4> QED BY <3>2, <3>3, <3>7, <4>1 DEF Serves
    <3>11. \A a \in acks : Promises(a, r) => Promises(a, u)
      <4>1. \A a \in acks : a.seq \in Nat /\ a.rwnd \in 0..ReadWindow
        BY DEF IInv, NetInv
      <4> QED BY <2>3, <3>2, <3>3, <4>1 DEF Promises
    <3>12. Promises(a2, u)
      <4>1. a2.seq = r.next /\ a2.rwnd = ReadWindow
        <5>1. a2 = AckOf(s, u, FALSE)
          BY <3>1
        <5>2. Room(u) = ReadWindow
          BY <2>3, <3>2 DEF Room, Most
        <5> QED BY <3>2, <5>1, <5>2 DEF AckOf
      <4> HIDE DEF a2, r
      <4> QED BY <2>3, <3>2, <3>3, <4>1 DEF Promises
    <3>13. readers' = [readers EXCEPT ![s] = u]
      BY <1>4, <2>5, <3>1
    <3>14. /\ Data(net', u, s) \subseteq Data(net, r, s)
           /\ \A head, sent, rwnd \in Nat : Serves(Data(net, r, s), r, head, sent, rwnd) =>
                                                 Serves(Data(net', u, s), u, head, sent, rwnd)
      BY <3>4, <3>10 DEF D
    <3> HIDE DEF r, a2
    <3>15. ~readers[s].closed
      BY <2>1 DEF r
    <3> QED BY <1>1, <1>2, <2>2, <3>2, <3>9, <3>11, <3>12, <3>13, <3>14, <3>15, ReaderMovesFits DEF r
  <2> QED BY <2>4, <2>5
<1> QED BY <1>3, <1>4 DEF LoopRead

\* A lost connection takes what is under way, a crash the readers too.
LEMMA DropFits ==
    ASSUME IInv, IInv', WindowInv, Drop
    PROVE  WindowInv'
<1>1. /\ UNCHANGED <<ring, readers, restart, current>> /\ net' = {} /\ acks' = {}
      /\ mgr' = [mgr EXCEPT !.alive = FALSE] /\ prep' = [prep EXCEPT !.alive = FALSE]
  BY DEF Drop, Lose, clientVars
<1>2. mgr'.id = mgr.id /\ mgr'.conn = mgr.conn /\ mgr'.sent = mgr.sent /\ mgr'.rwnd = mgr.rwnd
  BY <1>1, Fields DEF AManager
<1>3. \A s \in Streams : UnderWay(net', s) \subseteq UnderWay(net, s)
  BY <1>1 DEF UnderWay
<1> QED BY <1>1, <1>2, <1>3, PlainKeeps

\* The steps of a restart that has no answer to wait for.
LEMMA RestartEndsFits ==
    ASSUME IInv, IInv', WindowInv, Crash \/ Reconnect \/ GiveUp \/ Started
    PROVE  WindowInv'
<1>1. UNCHANGED <<ring, current>> /\ restart'.stage \notin {"asked", "start"}
  <2>1. restart \in ARestart
    BY DEF IInv, RestartInv
  <2>2. UNCHANGED <<ring, current>>
    BY DEF Crash, Reconnect, GiveUp, Started, managerVars
  <2>3. \/ restart' = [stage |-> "idle", seq |-> 0, reply |-> -1]
        \/ restart' = [restart EXCEPT !.stage = "stat"]
        \/ restart' = [restart EXCEPT !.stage = "idle", !.reply = -1]
        \/ restart' = [restart EXCEPT !.stage = "idle"]
    BY DEF Crash, Reconnect, GiveUp, Started
  <2>4. restart'.stage \in {"idle", "stat"}
    <3>1. CASE restart' = [stage |-> "idle", seq |-> 0, reply |-> -1]
      BY <3>1
    <3>2. CASE restart' # [stage |-> "idle", seq |-> 0, reply |-> -1]
      <4>1. restart'.stage = "idle" \/ restart'.stage = "stat"
        BY <2>1, <2>3, <3>2 DEF ARestart
      <4> QED BY <4>1
    <3> QED BY <3>1, <3>2
  <2> QED BY <2>2, <2>4
<1>2. /\ net' \subseteq net /\ acks' \subseteq acks
      /\ prep' = prep \/ prep' = [prep EXCEPT !.alive = FALSE]
      /\ mgr' = mgr \/ mgr' = [mgr EXCEPT !.alive = FALSE]
  BY DEF Crash, Lose, Reconnect, GiveUp, Started, managerVars
<1>3. mgr'.id = mgr.id /\ mgr'.conn = mgr.conn /\ mgr'.sent = mgr.sent /\ mgr'.rwnd = mgr.rwnd
  BY <1>2, Fields DEF AManager
<1>4. readers \in [Streams -> AReader] /\ current \in Streams /\ prep.id \in Streams
  BY HeadNumbers DEF IInv, ReadersInv
<1>5. ClosedReader.closed
  BY DEF ClosedReader, NewReader
<1>6. \A s \in Streams : readers'[s] = readers[s] \/ readers'[s] = ClosedReader
  BY <1>4 DEF Crash, Reconnect, GiveUp, Started, CloseReader
<1>7. prep.stage # "none" => readers'[prep.id].closed
  <2> SUFFICES ASSUME prep.stage # "none" PROVE readers'[prep.id].closed
    OBVIOUS
  <2>1. ~readers[prep.id].closed => prep.id = current /\ restart.stage = "asked"
    BY DEF WindowInv, PrepInv
  <2>2. CASE Crash
    BY <1>4, <1>5, <2>2 DEF Crash
  <2>3. CASE Reconnect \/ Started
    BY <2>1, <2>3 DEF Reconnect, Started
  <2>4. CASE GiveUp
    BY <1>4, <1>5, <2>1, <2>4 DEF GiveUp, CloseReader
  <2> QED BY <2>2, <2>3, <2>4
<1>8. \A s \in Streams : UnderWay(net', s) \subseteq UnderWay(net, s)
  BY <1>2 DEF UnderWay
<1>9. FitInv' /\ AckInv' /\ KnownInv' /\ ServedInv'
  BY <1>1, <1>2, <1>3, <1>6, <1>8, WindowStays
<1>10. PrepInv'
  <2>1. RingHead(ring') >= RingHead(ring)
    BY <1>1, HeadNumbers
  <2> QED BY <1>1, <1>2, <1>3, <1>7, <2>1, PrepEnds DEF WindowInv
<1> QED BY <1>9, <1>10 DEF WindowInv

\* The manager lets go of its stream, and drops what the client has.
LEMMA PrepareDisconnectFits ==
    ASSUME IInv, IInv', WindowInv, PrepareDisconnect
    PROVE  WindowInv'
<1>1. UNCHANGED <<net, acks, readers, current>> /\ restart.stage = "prepare" /\ prep.stage = "none"
  BY DEF PrepareDisconnect
<1>2. mgr.id < current /\ restart.reply = -1 /\ restart \in ARestart
  BY <1>1 DEF IInv, RestartInv
<1>3. FitInv' /\ AckInv' /\ KnownInv' /\ ServedInv'
  <2>1. /\ mgr'.id = mgr.id
        /\ mgr'.conn => mgr.conn /\ mgr' = mgr /\ ring' = ring
    BY Fields DEF PrepareDisconnect, AManager
  <2> QED BY <1>1, <2>1, WindowStays
<1>4. mgr'.id = mgr.id
  BY Fields DEF PrepareDisconnect, AManager
<1>5. PrepInv'
  <2>1. CASE restart' = [restart EXCEPT !.stage = "asked", !.reply = Ended] /\ UNCHANGED prep
    <3>1. restart'.stage = "asked" /\ restart'.reply \notin Nat
      BY <1>2, <2>1 DEF ARestart, Ended
    <3> QED BY <1>1, <2>1, <3>1 DEF PrepInv
  <2>2. CASE /\ restart' = [restart EXCEPT !.stage = "asked"]
             /\ prep' = [stage |-> "head", id |-> current, seq |-> restart.seq, head |-> 0, alive |-> TRUE]
    <3>1. restart'.stage = "asked" /\ restart'.reply = -1 /\ restart'.seq = restart.seq
      BY <1>2, <2>2 DEF ARestart
    <3>2. current > mgr.id
      BY <1>2, HeadNumbers
    <3> QED BY <1>1, <1>4, <2>2, <3>1, <3>2 DEF PrepInv
  <2> QED BY <2>1, <2>2 DEF PrepareDisconnect
<1> QED BY <1>3, <1>5 DEF WindowInv

LEMMA PrepareHeadFits ==
    ASSUME IInv, IInv', WindowInv, PrepareHead
    PROVE  WindowInv'
<1>1. UNCHANGED <<mgr, net, acks, readers, current>> /\ prep.stage = "head"
  BY DEF PrepareHead
<1>2. ~mgr.conn /\ prep \in APreparation /\ restart \in ARestart
  BY <1>1, Fields DEF IInv, MgrInv, RestartInv
<1>3. FitInv' /\ AckInv' /\ KnownInv' /\ ServedInv'
  BY <1>1, <1>2, WindowStays
<1>4. PrepInv'
  <2>1. CASE prep' = [prep EXCEPT !.stage = "none"] /\ Reply(Refused)
    <3>1. prep'.stage = "none"
      BY <1>2, <2>1 DEF APreparation
    <3>2. /\ restart'.stage = restart.stage
          /\ restart'.reply \in Nat => restart'.reply = restart.reply
      BY <1>2, <2>1 DEF Reply, Refused, ARestart
    <3> QED BY <1>1, <1>2, <3>1, <3>2 DEF WindowInv, PrepInv
  <2>2. CASE /\ prep' = [prep EXCEPT !.stage = "set", !.head = Most(prep.seq, RingHead(ring))]
             /\ ring' = [ring EXCEPT !.held = ring.total - Most(prep.seq, RingHead(ring))]
             /\ UNCHANGED restart
    <3>1. PICK h \in Nat : h = Most(prep.seq, RingHead(ring)) /\ prep.seq <= h
      BY HeadNumbers, Fields DEF Most
    <3>2. /\ prep'.stage = "set" /\ prep'.head = h /\ prep'.seq = prep.seq /\ prep'.id = prep.id
          /\ prep'.alive = prep.alive
      BY <1>2, <2>2, <3>1 DEF APreparation
    <3>3. RingHead(ring') = h
      <4>1. ring'.total = ring.total /\ ring'.held = ring.total - h /\ ring.total \in Nat
        BY <2>2, <3>1, Fields, HeadNumbers DEF ARing
      <4> QED BY <3>1, <4>1 DEF RingHead
    <3> QED BY <1>1, <1>2, <2>2, <3>1, <3>2, <3>3 DEF WindowInv, PrepInv
  <2> QED BY <2>1, <2>2 DEF PrepareHead
<1> QED BY <1>3, <1>4 DEF WindowInv

\* The look at the file.
LEMMA StatFileFits ==
    ASSUME IInv, IInv', WindowInv, StatFile
    PROVE  WindowInv'
<1>1. /\ UNCHANGED <<ring, mgr, prep, net, acks, current, readers>> /\ restart.stage = "stat"
      /\ restart'.stage = "set"
  BY DEF StatFile, managerVars
<1>2. FitInv' /\ KnownInv' /\ AckInv' /\ ServedInv'
  BY <1>1 DEF WindowInv, FitInv, KnownInv, AckInv, ServedInv, RingHead
<1>3. PrepInv'
  BY <1>1 DEF WindowInv, PrepInv, RingHead
<1> QED BY <1>2, <1>3 DEF WindowInv

\* A new stream, of which the manager has not heard.
LEMMA SetStreamFits ==
    ASSUME IInv, IInv', WindowInv, SetStream
    PROVE  WindowInv'
<1> DEFINE seq == restart.seq
<1>1. /\ UNCHANGED <<ring, mgr, prep, net, acks>> /\ current' = current + 1 /\ restart.stage = "set"
      /\ readers' = [readers EXCEPT ![current + 1] = NewReader(seq)]
      /\ restart'.stage = "prepare"
  BY DEF SetStream, managerVars, IInv, RestartInv, ARestart
<1> HIDE DEF seq
<1>2. /\ mgr.id \in Nat /\ current \in Nat /\ prep.id \in Streams /\ prep.id \in Nat
      /\ mgr.id <= current /\ prep.id <= current
  BY HeadNumbers
<1>3. /\ current + 1 \in Streams /\ ~prep.alive /\ readers \in [Streams -> AReader]
      /\ current + 1 > mgr.id
  <2>1. current' \in Streams
    BY DEF IInv, MgrInv
  <2> QED BY <1>1, <1>2, <2>1 DEF IInv, NetInv, ReadersInv
<1>4. PICK r : r = NewReader(seq) /\ r.buf = <<>> /\ r.ooo = {} /\ ~r.closed
  <2>1. NewReader(seq).buf = <<>> /\ NewReader(seq).ooo = {} /\ ~NewReader(seq).closed
    BY DEF NewReader
  <2> QED BY <2>1
<1>5. readers'[current + 1] = r /\ \A s \in Streams : s # current + 1 => readers'[s] = readers[s]
  BY <1>1, <1>3, <1>4
<1>6. Data(net, readers[current + 1], current + 1) = {} /\ \A a \in acks : a.id # current + 1
  BY <1>3 DEF WindowInv, KnownInv
<1>7. Data(net, r, current + 1) = {} /\ UnderWay(net, current + 1) = {}
  BY <1>4, <1>6 DEF Data
<1>8. FitInv'
  <2> SUFFICES ASSUME NEW s \in Streams PROVE Fits(net, readers'[s], s)
    BY <1>1 DEF FitInv
  <2>1. CASE s = current + 1
    <3>1. Len(r.buf) <= ReadWindow
      <4>1. ReadWindow \in Nat /\ Len(<<>>) = 0
        BY HeadNumbers
      <4> QED BY <1>4, <4>1
    <3> QED BY <1>4, <1>5, <1>7, <2>1, <3>1 DEF Fits, Spread, Beyond
  <2>2. CASE s # current + 1
    BY <1>5, <2>2 DEF WindowInv, FitInv
  <2> QED BY <2>1, <2>2
<1>9. KnownInv'
  BY <1>1, <1>5, <1>6, <1>7 DEF WindowInv, KnownInv
<1>10. AckInv'
  BY <1>1, <1>5, <1>6 DEF WindowInv, AckInv
<1>11. ServedInv'
  <2>1. mgr.id # current + 1
    BY <1>2
  <2> QED BY <1>1, <1>5, <2>1 DEF WindowInv, ServedInv
<1>12. PrepInv'
  <2>1. prep.stage # "none" => readers'[prep.id].closed
    <3>1. prep.id # current + 1
      BY <1>2
    <3> QED BY <1>1, <1>2, <1>5, <3>1 DEF WindowInv, PrepInv
  <2>2. RingHead(ring') >= RingHead(ring)
    BY <1>1, HeadNumbers
  <2>3. restart'.stage \notin {"asked", "start"}
    BY <1>1
  <2> QED BY <1>1, <1>3, <2>1, <2>2, <2>3, PrepEnds DEF WindowInv
<1> QED BY <1>8, <1>9, <1>10, <1>11, <1>12 DEF WindowInv

\* The window that the manager is told is closed to begin with.
LEMMA PrepareSetFits ==
    ASSUME IInv, IInv', WindowInv, PrepareSet
    PROVE  WindowInv'
<1>1. /\ UNCHANGED <<net, acks, readers, current>> /\ prep.stage = "set"
      /\ prep' = [prep EXCEPT !.stage = "none"] /\ ring' = Windowed(ring, TRUE, 0) /\ Reply(prep.head)
  BY DEF PrepareSet
<1>2. /\ prep \in APreparation /\ restart \in ARestart /\ mgr \in AManager /\ ring \in ARing
      /\ ~mgr.conn /\ prep.id \in Streams /\ prep.id > mgr.id
      /\ prep.alive => prep.id = current
      /\ prep.head <= RingHead(ring) /\ prep.seq <= prep.head /\ prep.head \in Nat /\ prep.seq \in Nat
  BY <1>1, Fields DEF IInv, MgrInv, RestartInv, WindowInv, PrepInv
<1>3. /\ mgr'.conn /\ mgr'.id = prep.id /\ mgr'.sent = 0 /\ mgr'.rwnd = 0 /\ prep'.stage = "none"
  BY <1>1, <1>2 DEF PrepareSet, AManager, APreparation
<1>4. RingHead(ring') = RingHead(ring)
  <2>1. 0 \in Nat /\ TRUE \in BOOLEAN
    OBVIOUS
  <2>2. ring'.total = ring.total /\ ring'.held = ring.held
    BY <1>1, <1>2, <2>1, WindowedIs
  <2> QED BY <2>2 DEF RingHead
<1>5. /\ mgr.id \in Nat /\ prep.id \in Nat /\ current \in Nat /\ mgr.id <= current /\ RingHead(ring) \in Nat
      /\ prep.id <= current
      /\ ReadWindow \in Nat
  BY HeadNumbers
<1>6. FitInv' /\ AckInv' /\ KnownInv'
  <2>1. mgr.id \in Nat /\ mgr'.id \in Nat /\ mgr.id <= mgr'.id
    BY <1>2, <1>3, <1>5
  <2>2. \A s \in Streams : UnderWay(net', s) \subseteq UnderWay(net, s)
    BY <1>1
  <2> QED BY <1>1, <2>1, <2>2, LessKeeps DEF WindowInv
<1>7. ServedInv'
  <2> SUFFICES ASSUME ~readers[prep.id].closed
               PROVE  Serves(Data(net, readers[prep.id], prep.id), readers[prep.id], RingHead(ring), 0, 0)
    BY <1>1, <1>3, <1>4 DEF ServedInv
  <2>1. prep.id = current /\ restart.stage = "asked" /\ prep.seq = restart.seq
    BY <1>1 DEF WindowInv, PrepInv
  <2>2. readers[prep.id].buf = <<>> /\ readers[prep.id].next = prep.seq
    BY <2>1 DEF IInv, RestartInv
  <2>3. Data(net, readers[prep.id], prep.id) = {}
    BY <1>2 DEF WindowInv, KnownInv
  <2>4. Start(readers[prep.id]) = prep.seq
    BY <1>2, <2>2 DEF Start
  <2>5. prep.seq <= RingHead(ring)
    BY <1>2, <1>5
  <2> QED BY <1>2, <1>5, <2>2, <2>3, <2>4, <2>5 DEF Serves, Ahead
<1>8. PrepInv'
  <2>1. restart'.stage = restart.stage
    BY <1>1, <1>2 DEF Reply, ARestart
  <2>2. restart.stage # "start"
    BY <1>2, <1>5 DEF WindowInv, PrepInv
  <2>3. ASSUME restart.stage = "asked", restart'.reply \in Nat
        PROVE  prep.id = current /\ restart'.reply <= RingHead(ring)
    <3>1. prep.alive
      BY <1>1, <1>2, <2>3 DEF Reply, WindowInv, PrepInv
    <3>2. restart'.reply = prep.head
      BY <1>1, <1>2, <3>1 DEF Reply, ARestart
    <3> QED BY <1>2, <3>1, <3>2
  <2> QED BY <1>1, <1>3, <1>4, <2>1, <2>2, <2>3 DEF PrepInv
<1> QED BY <1>6, <1>7, <1>8 DEF WindowInv

\* The reply of PrepareConnect: the reader is closed, or moved to the start it was told, with
\* nothing of its stream under way yet.
LEMMA PreparedFits ==
    ASSUME IInv, IInv', WindowInv, Prepared
    PROVE  WindowInv'
<1>1. /\ UNCHANGED <<ring, mgr, prep, net, acks, current>> /\ restart.stage = "asked" /\ restart.reply # -1
  BY DEF Prepared, managerVars
<1>2. /\ restart \in ARestart /\ readers \in [Streams -> AReader] /\ current \in Streams
      /\ restart.reply \in Nat \cup {-1, Ended, Refused}
  BY Fields DEF IInv, RestartInv, ReadersInv
<1>3. CASE restart.reply \in {Ended, Refused}
  <2>1. /\ readers' = [readers EXCEPT ![current] = ClosedReader]
        /\ restart' = [restart EXCEPT !.stage = "idle", !.reply = -1]
    BY <1>3 DEF Prepared, CloseReader
  <2>2. ClosedReader.closed /\ restart'.stage = "idle"
    BY <1>2, <2>1 DEF ClosedReader, NewReader, ARestart
  <2>3. readers'[current] = ClosedReader /\ \A s \in Streams : s # current => readers'[s] = readers[s]
    BY <1>2, <2>1
  <2>4. FitInv' /\ AckInv' /\ KnownInv' /\ ServedInv'
    <3>1. \A s \in Streams : UnderWay(net', s) \subseteq UnderWay(net, s)
      BY <1>1
    <3>2. \A s \in Streams : readers'[s] = readers[s] \/ readers'[s] = ClosedReader
      BY <2>3
    <3> QED BY <1>1, <3>1, <3>2, WindowStays
  <2>5. PrepInv'
    <3>1. prep.stage # "none" => readers'[prep.id].closed
      <4>1. prep.id \in Streams
        BY HeadNumbers
      <4> QED BY <2>2, <2>3, <4>1 DEF WindowInv, PrepInv
    <3>2. RingHead(ring') >= RingHead(ring)
      BY <1>1, HeadNumbers
    <3> QED BY <1>1, <2>2, <3>1, <3>2, PrepEnds DEF WindowInv
  <2> QED BY <2>4, <2>5 DEF WindowInv
<1>4. CASE restart.reply \notin {Ended, Refused}
  <2>1. /\ readers' = [readers EXCEPT ![current].next = Most(@, restart.reply)]
        /\ restart' = [restart EXCEPT !.stage = "start", !.reply = -1] /\ restart.reply \in Nat
    BY <1>1, <1>2, <1>4 DEF Prepared
  <2>2. restart'.stage = "start"
    BY <1>2, <2>1 DEF ARestart
  <2>3. /\ mgr.id = current /\ mgr.conn /\ restart.reply <= RingHead(ring) /\ mgr.rwnd = 0
        /\ prep.stage = "none" /\ RingHead(ring) \in Nat /\ mgr.sent \in Nat /\ ReadWindow \in Nat
    BY <1>1, <2>1, HeadNumbers, Fields DEF IInv, MgrInv, QuietInv, WindowInv, PrepInv
  <2>4. PICK r \in AReader : r = readers[current] /\ r.buf = <<>> /\ r.next \in Nat
    <3>1. readers[current].buf = <<>>
      BY <1>1 DEF IInv, RestartInv
    <3> QED BY <1>2, <3>1 DEF AReader
  <2>5. PICK m \in Nat : m = Most(r.next, restart.reply) /\ (m = r.next \/ m = restart.reply)
    BY <2>1, <2>4 DEF Most
  <2>6. PICK r2 : r2 = readers'[current] /\ r2.next = m /\ r2.buf = <<>> /\ r2.ooo = r.ooo /\ r2.closed = r.closed
    <3>1. readers'[current] = [r EXCEPT !.next = m]
      BY <1>2, <2>1, <2>4, <2>5
    <3> QED BY <2>4, <3>1 DEF AReader
  <2>7. \A s \in Streams : s # current => readers'[s] = readers[s]
    BY <1>2, <2>1
  <2>8. Data(net, r, current) = {}
    <3> SUFFICES ASSUME NEW p \in Data(net, readers[current], current) PROVE FALSE
      BY <2>4
    <3>1. p.end = "no" /\ p.id = current
      BY <1>2, DataNumbers
    <3>2. p \in net \/ p \in readers[current].ooo
      BY DEF Data, UnderWay
    <3> QED BY <1>1, <3>1, <3>2 DEF IInv, QuietInv
  <2>9. Data(net, r2, current) = {} /\ UnderWay(net, current) = {}
    BY <2>6, <2>8 DEF Data
  <2>10. Start(r2) = m
    <3>1. Len(<<>>) = 0
      OBVIOUS
    <3> QED BY <2>5, <2>6, <3>1 DEF Start
  <2>11. FitInv'
    <3>1. Fits(net, r, current)
      BY <1>2, <2>4 DEF WindowInv, FitInv
    <3>2. Len(r2.buf) <= ReadWindow
      <4>1. Len(<<>>) = 0
        OBVIOUS
      <4> QED BY <2>3, <2>6, <4>1
    <3>3. Fits(net, r2, current)
      BY <2>6, <2>9, <3>1, <3>2 DEF Fits, Spread, Beyond
    <3> QED BY <1>1, <2>6, <2>7, <3>3 DEF WindowInv, FitInv
  <2>12. KnownInv'
    <3>1. current \in Nat /\ ~(current > current)
      BY HeadNumbers
    <3> QED BY <1>1, <2>3, <2>7, <3>1 DEF WindowInv, KnownInv
  <2>13. AckInv'
    <3>1. \A a \in acks : a.id = current => a.fin
      BY <1>1 DEF IInv, QuietInv
    <3> QED BY <1>1, <2>7, <3>1 DEF WindowInv, AckInv
  <2>14. ServedInv'
    <3> SUFFICES ASSUME ~r2.closed
                 PROVE  Serves(Data(net, r2, current), r2, RingHead(ring), mgr.sent, mgr.rwnd)
      BY <1>1, <2>3, <2>6 DEF ServedInv
    <3>1. r.next <= RingHead(ring) + mgr.sent
      BY <1>2, <2>3, <2>4, <2>6 DEF WindowInv, ServedInv, Serves
    <3>2. m <= RingHead(ring) + mgr.sent
      BY <2>1, <2>3, <2>4, <2>5, <3>1
    <3>3. RingHead(ring) <= m => RingHead(ring) + 0 <= m + ReadWindow
      BY <2>3, <2>5
    <3> QED BY <2>3, <2>6, <2>9, <2>10, <3>2, <3>3 DEF Serves, Ahead
  <2>15. PrepInv'
    BY <1>1, <2>2, <2>3, <2>6 DEF PrepInv
  <2> QED BY <2>11, <2>12, <2>13, <2>14, <2>15 DEF WindowInv
<1> QED BY <1>3, <1>4

\* The window is opened for a reader that holds nothing.
LEMMA StartStreamFits ==
    ASSUME IInv, IInv', WindowInv, StartStream
    PROVE  WindowInv'
<1>1. /\ UNCHANGED <<prep, net, acks, readers, current>> /\ restart.stage = "start" /\ mgr.conn
      /\ mgr' = [mgr EXCEPT !.rwnd = ReadWindow] /\ restart' = [restart EXCEPT !.stage = "started"]
      /\ ring' = Windowed(ring, TRUE, Least(Cwnd, ReadWindow))
  BY DEF StartStream
<1>2. mgr.id = current /\ readers[current].buf = <<>>
  BY <1>1 DEF WindowInv, PrepInv
<1>3. /\ mgr \in AManager /\ ring \in ARing /\ restart \in ARestart /\ Cwnd \in Nat /\ ReadWindow \in Nat
      /\ current \in Streams /\ RingHead(ring) \in Nat
  BY Fields, HeadNumbers DEF IInv, RestartInv
<1>4. /\ mgr'.conn /\ mgr'.id = mgr.id /\ mgr'.sent = mgr.sent /\ mgr'.rwnd = ReadWindow
      /\ restart'.stage = "started"
  BY <1>1, <1>3 DEF AManager, ARestart
<1>5. RingHead(ring') = RingHead(ring)
  <2>1. PICK w \in Nat : w = Least(Cwnd, ReadWindow)
    BY <1>3 DEF Least
  <2>2. TRUE \in BOOLEAN
    OBVIOUS
  <2>3. ring'.total = ring.total /\ ring'.held = ring.held
    BY <1>1, <1>3, <2>1, <2>2, WindowedIs
  <2> QED BY <2>3 DEF RingHead
<1>6. FitInv' /\ AckInv' /\ KnownInv'
  BY <1>1, <1>4 DEF WindowInv, FitInv, AckInv, KnownInv
<1>7. ServedInv'
  <2> SUFFICES ASSUME ~readers[current].closed
               PROVE  Serves(Data(net, readers[current], current), readers[current], RingHead(ring),
                             mgr.sent, ReadWindow)
    BY <1>1, <1>2, <1>4, <1>5 DEF ServedInv
  <2>1. Serves(Data(net, readers[current], current), readers[current], RingHead(ring), mgr.sent, mgr.rwnd)
    BY <1>1, <1>2, <1>3 DEF WindowInv, ServedInv
  <2>2. PICK n \in Nat : n = readers[current].next /\ Start(readers[current]) = n
    <3>1. readers[current].next \in Nat
      BY <1>3, ReaderNumbers
    <3>2. Len(<<>>) = 0
      OBVIOUS
    <3> QED BY <1>2, <3>1, <3>2 DEF Start
  <2>3. RingHead(ring) <= n => RingHead(ring) + ReadWindow <= n + ReadWindow
    BY <1>3, <2>2
  <2> QED BY <2>1, <2>2, <2>3 DEF Serves
<1>8. PrepInv'
  <2>1. prep.stage = "none"
    BY <1>1 DEF IInv, MgrInv
  <2> QED BY <1>1, <1>4, <2>1 DEF PrepInv
<1> QED BY <1>6, <1>7, <1>8 DEF WindowInv

\* At first nothing is under way, and the manager may send what one window takes.
LEMMA InitFits ==
    ASSUME Init
    PROVE  WindowInv
<1>1. ReadWindow \in Nat /\ MaxStreams \in Nat /\ 1 \in Streams
  BY SizesAssumption DEF Streams
<1>2. PICK r : r = NewReader(0) /\ r.next = 0 /\ r.buf = <<>> /\ r.ooo = {} /\ ~r.closed
  <2>1. /\ NewReader(0).next = 0 /\ NewReader(0).buf = <<>> /\ NewReader(0).ooo = {}
        /\ ~NewReader(0).closed
    BY DEF NewReader
  <2> QED BY <2>1
<1>3. /\ net = {} /\ acks = {} /\ \A s \in Streams : readers[s] = r
      /\ mgr.id = 1 /\ mgr.sent = 0 /\ mgr.rwnd = ReadWindow /\ RingHead(ring) = 0
      /\ prep.stage = "none" /\ restart.stage = "idle"
  BY <1>2 DEF Init, RingHead
<1>4. /\ \A s \in Streams : Data(net, readers[s], s) = {} /\ UnderWay(net, s) = {}
      /\ Start(r) = 0 /\ Len(r.buf) = 0
  <2>1. Len(<<>>) = 0
    OBVIOUS
  <2> QED BY <1>2, <1>3, <2>1 DEF Data, UnderWay, Start
<1>5. FitInv
  <2>1. Len(r.buf) <= ReadWindow
    BY <1>1, <1>4
  <2> QED BY <1>2, <1>3, <1>4, <2>1 DEF FitInv, Fits, Spread, Beyond
<1>6. KnownInv /\ AckInv
  BY <1>3, <1>4 DEF KnownInv, AckInv
<1>7. ServedInv
  <2>1. 0 <= 0 + 0 /\ 0 + ReadWindow <= 0 + ReadWindow
    BY <1>1
  <2> QED BY <1>2, <1>3, <1>4, <2>1 DEF ServedInv, Serves, Ahead
<1>8. PrepInv
  BY <1>3 DEF PrepInv
<1> QED BY <1>5, <1>6, <1>7, <1>8 DEF WindowInv

LEMMA NextFits ==
    ASSUME IInv, IInv', WindowInv, [Next]_vars
    PROVE  WindowInv'
<1>1. CASE Writer \/ FlushFile \/ UNCHANGED vars
  BY <1>1, WriteRingFits, OthersFit DEF Writer
<1>2. CASE Sender
  BY <1>2, SenderFits
<1>3. CASE Deliver
  BY <1>3, RecvDataFits DEF Deliver
<1>4. CASE DeliverAck
  BY <1>4, RecvAckFits DEF DeliverAck
<1>5. CASE \E s \in Streams : Loop(s)
  BY <1>5, LoopReadFits, OthersFit DEF Loop
<1>6. CASE Drop \/ Crash \/ Reconnect \/ GiveUp
  BY <1>6, DropFits, RestartEndsFits
<1>7. CASE Prepare
  BY <1>7, PrepareHeadFits, PrepareSetFits DEF Prepare
<1>8. CASE Restart
  BY <1>8, StatFileFits, SetStreamFits, PrepareDisconnectFits, PreparedFits, StartStreamFits, RestartEndsFits DEF Restart
<1> QED BY <1>1, <1>2, <1>3, <1>4, <1>5, <1>6, <1>7, <1>8 DEF Next

\* WindowInv is inductive once the invariant of JobStreamProofs is known: packets, the reader, the
\* acknowledgements under way and the manager's window agree at every moment on one window.
THEOREM WindowInvariance == Spec => []WindowInv
<1>1. Init => WindowInv
  BY InitFits
<1>2. IInv /\ IInv' /\ WindowInv /\ [Next]_vars => WindowInv'
  BY NextFits
<1> QED BY <1>1, <1>2, Invariance, PTL DEF Spec

\* A stretch that a reader holds is its buffer, or a packet that came early.
LEMMA PieceIs ==
    ASSUME IInv, NEW s \in Streams, NEW x \in Pieces(readers[s])
    PROVE  LET r == readers[s]
           IN  \/ \E p \in Data(net, r, s) : x.from = p.seq /\ x.to = End(p) /\ x = [from |-> p.seq, to |-> End(p)]
               \/ r.buf # <<>> /\ x = [from |-> Start(r), to |-> r.next] /\ x.from = Start(r) /\ x.to = r.next
<1> DEFINE r == readers[s]
<1>1. CASE \E p \in {q \in r.ooo : q.data # <<>>} : x = [from |-> p.seq, to |-> p.seq + Len(p.data)]
  <2>1. PICK p \in Data(net, r, s) : x = [from |-> p.seq, to |-> End(p)]
    BY <1>1 DEF Data, End
  <2>2. x.from = p.seq /\ x.to = End(p)
    BY <2>1
  <2> QED BY <2>1, <2>2
<1>2. CASE r.buf # <<>> /\ x = [from |-> r.next - Len(r.buf), to |-> r.next]
  BY <1>2 DEF Start
<1> QED BY <1>1, <1>2 DEF Pieces

\* ReaderWithinWindow: what a reader buffers and what came early lies within one window, and no byte
\* of it twice, in whatever order packets and acknowledgements of a connection arrive, and whatever
\* restarts, crashes and lost connections came before.
THEOREM WindowKept == Spec => []ReaderWithinWindow
<1>1. IInv /\ WindowInv => ReaderWithinWindow
  <2> SUFFICES ASSUME IInv, WindowInv, NEW s \in Streams, NEW x \in Pieces(readers[s]), NEW y \in Pieces(readers[s])
               PROVE  /\ x.to - y.from <= ReadWindow
                      /\ x = y \/ x.to <= y.from \/ y.to <= x.from
    BY DEF ReaderWithinWindow
  <2> DEFINE r == readers[s]
             D == Data(net, r, s)
  <2>1. ~r.closed /\ Spread(D) /\ Len(r.buf) <= ReadWindow /\ (r.buf # <<>> => Ahead(D, r))
    <3>1. r.closed => Pieces(r) = {}
      BY DEF WindowInv, FitInv, Fits, Pieces
    <3> QED BY <3>1 DEF WindowInv, FitInv, Fits, Beyond
  <2>2. /\ r.next \in Nat /\ Start(r) \in Nat /\ Len(r.buf) \in Nat /\ ReadWindow \in Nat
        /\ Start(r) + Len(r.buf) = r.next
    BY ReaderNumbers, HeadNumbers
  <2>3. \A p \in D : p.seq \in Nat /\ End(p) \in Nat /\ p.seq < End(p)
    BY DataNumbers
  <2>4. CASE r.buf # <<>> /\ x = [from |-> Start(r), to |-> r.next] /\ x.from = Start(r) /\ x.to = r.next
    <3>1. CASE \E q \in D : y.from = q.seq /\ y.to = End(q)
      <4>1. PICK q \in D : y.from = q.seq /\ y.to = End(q)
        BY <3>1
      <4>2. r.next <= q.seq
        BY <2>1, <2>4 DEF Ahead
      <4> HIDE DEF D, r
      <4> QED BY <2>2, <2>3, <2>4, <4>1, <4>2
    <3>2. CASE y = [from |-> Start(r), to |-> r.next] /\ y.from = Start(r)
      <4> HIDE DEF D, r
      <4> QED BY <2>1, <2>2, <2>4, <3>2
    <3> QED BY <3>1, <3>2, PieceIs
  <2>5. CASE \E p \in D : x.from = p.seq /\ x.to = End(p) /\ x = [from |-> p.seq, to |-> End(p)]
    <3>1. PICK p \in D : x.from = p.seq /\ x.to = End(p) /\ x = [from |-> p.seq, to |-> End(p)]
      BY <2>5
    <3>2. CASE \E q \in D : y.from = q.seq /\ y.to = End(q) /\ y = [from |-> q.seq, to |-> End(q)]
      <4>1. PICK q \in D : y.from = q.seq /\ y.to = End(q) /\ y = [from |-> q.seq, to |-> End(q)]
        BY <3>2
      <4>2. End(p) <= q.seq + ReadWindow /\ (p = q \/ End(p) <= q.seq \/ End(q) <= p.seq)
        BY <2>1 DEF Spread
      <4>3. p \in D /\ q \in D
        OBVIOUS
      <4> HIDE DEF D, r
      <4> QED BY <2>2, <2>3, <3>1, <4>1, <4>2, <4>3
    <3>3. CASE r.buf # <<>> /\ y.from = Start(r) /\ y.to = r.next
      <4>1. r.next <= p.seq /\ End(p) <= Start(r) + ReadWindow
        BY <2>1, <3>3 DEF Ahead
      <4>2. p \in D
        OBVIOUS
      <4> HIDE DEF D, r
      <4> QED BY <2>2, <2>3, <3>1, <3>3, <4>1, <4>2
    <3> QED BY <3>2, <3>3, PieceIs
  <2> QED BY <2>4, <2>5, PieceIs
<1> QED BY <1>1, Invariance, WindowInvariance, PTL

=============================================================================
