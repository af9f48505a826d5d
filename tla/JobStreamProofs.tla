--------------------------- MODULE JobStreamProofs ---------------------------
(***************************************************************************)
(* Proofs about JobStream, for all sizes and bounds: its types, the counts *)
(* of the client, that nobody sleeps on work, that an EOF means all, and   *)
(* that the file is an output of ByteStream.                               *)
(*                                                                         *)
(* The inductive invariant has a part for each place a byte can be in, so  *)
(* that a byte keeps its position from the ring to the file, and a part    *)
(* for a stream in preparation, on which nothing but an end can be under   *)
(* way.                                                                    *)
(***************************************************************************)
EXTENDS JobStream, QueueLemmas

Byte == 0..(MaxBytes - 1)
Ends == {"no", "eof", "err"}
APacket == [id : Streams, seq : Nat, data : Seq(Byte), end : Ends]
ARing == [total : 0..MaxBytes, held : 0..RingSize, sync : BOOLEAN, win : 0..RingSize]
AManager == [conn : BOOLEAN, id : Streams, alive : BOOLEAN, rwnd : 0..ReadWindow, sent : 0..RingSize,
             acked : Nat \X (0..ReadWindow), ended : Ends, endSent : BOOLEAN, endAcked : BOOLEAN]
APreparation == [stage : {"none", "head", "set"}, id : Streams, seq : Nat, head : Nat, alive : BOOLEAN]
Restarting == {"prepare", "asked", "start", "started"}
ARestart == [stage : Restarting \cup {"idle", "stat", "set"}, seq : Nat, reply : Nat \cup {-1, Ended, Refused}]
AReader == [next : Nat, buf : Seq(Byte), ooo : SUBSET APacket, ended : Ends, closed : BOOLEAN]

\* The bytes of a sequence are those from a position on.
From(q, pos) == \A i \in 1..Len(q) : q[i] = pos + i - 1

\* What a packet says is true of the job: its bytes are those of its place, and an end is at the end.
PacketTrue(p, total, ended) ==
    /\ p \in APacket
    /\ From(p.data, p.seq) /\ p.seq + Len(p.data) <= total
    /\ p.end = "no" => p.data # <<>>
    /\ p.end # "no" => p.data = <<>> /\ ended = p.end /\ p.seq = total

\* The same of a reader's buffer, of what came early, and of an end it saw.
ReaderTrue(r, s, total, ended) ==
    /\ r \in AReader
    /\ Len(r.buf) <= r.next /\ From(r.buf, r.next - Len(r.buf))
    /\ IsFiniteSet(r.ooo)
    /\ \A p \in r.ooo : PacketTrue(p, total, ended) /\ p.id = s /\ p.end # "err"
    /\ \A p, q \in r.ooo : p.seq = q.seq => p = q
    /\ r.ended # "no" => ended = r.ended
    /\ r.ended = "eof" => r.next = total

\* The ring and who fills it.
RingInv ==
    /\ ring \in ARing
    /\ ring.held <= ring.total
    /\ writer \in [chunk : 0..PacketSize, waiting : BOOLEAN, signal : BOOLEAN]
    /\ ring.total + writer.chunk <= MaxBytes
    /\ writer.waiting => ring.sync /\ ring.held >= ring.win
    /\ mgr.ended # "no" => writer.chunk = 0

\* The stream manager: with no client it sends nothing, and while it prepares for one it has none.
MgrInv ==
    /\ mgr \in AManager /\ mgr.sent <= ring.held /\ asleep \in BOOLEAN
    /\ ~mgr.conn => mgr.sent = 0
    /\ ~ring.sync => ~mgr.conn
    /\ prep \in APreparation
    /\ prep.stage # "none" => ~mgr.conn
    /\ prep.stage = "set" => prep.head <= ring.total
    /\ current \in Streams /\ mgr.id <= current /\ prep.id <= current

\* The sender sleeps only when there is nothing to send, or it is about to be woken.
SleepInv == asleep /\ mgr.conn /\ ~mgr.endAcked /\ (HasTerminal \/ HasData) => writer.signal

\* What is under way, and that it is lost with the connection.
NetInv ==
    /\ \A p \in net : PacketTrue(p, ring.total, mgr.ended)
    /\ \A a \in acks : a.seq \in Nat /\ a.rwnd \in 0..ReadWindow
    /\ ~link \/ restart.stage \in {"stat", "set", "prepare"} =>
           net = {} /\ acks = {} /\ ~mgr.alive /\ ~prep.alive

ReadersInv ==
    /\ readers \in [Streams -> AReader]
    /\ \A s \in Streams : ReaderTrue(readers[s], s, ring.total, mgr.ended)
    /\ ~late => \A s \in Streams : readers[s].next <= ring.total

LoopsInv ==
    /\ loops \in [Streams -> [at : {"none", "read", "append"}, held : Seq(Byte)]]
    /\ \A s \in Streams : /\ loops[s].at = "append" <=> loops[s].held # <<>>
                          /\ s > current => loops[s].at = "none"

FileInv ==
    /\ file \in Seq(Byte) /\ gap \in Nat
    /\ saved \in [file : Seq(Byte), gap : Nat] /\ saved.gap <= gap
    /\ IsPrefix(saved.file, file)
    /\ ~late => NextSeq <= ring.total

\* A restart: its loop has not begun, and until it is answered its reader stands where the file does.
RestartInv ==
    /\ restart \in ARestart
    /\ restart.stage \in {"stat", "set"} => current < MaxStreams
    /\ restart.stage = "set" => restart.reply = -1 /\ (late \/ restart.seq = NextSeq)
    /\ restart.stage \in Restarting => loops[current].at = "none"
    /\ restart.stage = "prepare" => restart.reply = -1 /\ mgr.id < current /\ prep.id < current
    /\ restart.stage = "asked" /\ restart.reply \in Nat => restart.reply <= ring.total
    /\ restart.stage \in {"prepare", "asked"} =>
           /\ readers[current].buf = <<>> /\ readers[current].next = restart.seq
           /\ late \/ restart.seq = NextSeq

\* A stream that is not started has nothing under way but an end.
QuietInv ==
    restart.stage \in {"prepare", "asked", "start"} =>
        /\ mgr.conn /\ mgr.id = current => mgr.rwnd = 0
        /\ \A p \in net : p.id = current => p.end # "no"
        /\ \A p \in readers[current].ooo : p.end # "no"
        /\ \A a \in acks : a.id = current => a.fin

\* What the client has counted is where its reader stands.
CountInv ==
    \/ late
    \/ loops[current].at = "none" /\ restart.stage \notin Restarting
    \/ /\ NextSeq + Len(loops[current].held) + Len(readers[current].buf) = readers[current].next
       /\ From(loops[current].held, NextSeq)

IInv ==
    /\ RingInv /\ MgrInv /\ SleepInv /\ NetInv /\ ReadersInv
    /\ LoopsInv /\ FileInv /\ RestartInv /\ QuietInv /\ CountInv

\* Taking is what it says: each reader is the one before with one packet more.
LEMMA TakingIs ==
    ASSUME NEW T, NEW list \in Seq(T), NEW r
    PROVE  LET f == Taking(r, list)
           IN  f[0] = r /\ \A n \in 1..Len(list) : f[n] = Take(f[n - 1], list[n])
<1> DEFINE Solves(f, k) == f = [n \in 0..k |-> IF n = 0 THEN r ELSE Take(f[n - 1], list[n])]
           Fails == {k \in Nat : ~\E f : Solves(f, k)}
<1>1. \A k \in Nat : \E f : Solves(f, k)
  <2> SUFFICES ASSUME Fails # {} PROVE FALSE
    OBVIOUS
  <2>1. PICK k \in Fails : \A j \in Fails : k <= j
    <3>1. Fails \subseteq Nat
      OBVIOUS
    <3> HIDE DEF Fails
    <3> QED BY <3>1, LeastElement
  <2>2. CASE k = 0
    <3>1. Solves([n \in 0..0 |-> r], 0)
      OBVIOUS
    <3> QED BY <2>1, <2>2, <3>1
  <2>3. CASE k # 0
    <3>1. k \in Nat /\ k - 1 \in Nat /\ ~(k <= k - 1)
      BY <2>3
    <3>2. PICK g : Solves(g, k - 1)
      BY <2>1, <3>1
    <3> DEFINE f == [n \in 0..k |-> IF n = k THEN Take(g[k - 1], list[k]) ELSE g[n]]
    <3>3. g[0] = r /\ \A n \in 1..(k - 1) : g[n] = Take(g[n - 1], list[n])
      BY <3>1, <3>2
    <3>4. \A n \in 0..k : f[n] = IF n = 0 THEN r ELSE Take(f[n - 1], list[n])
      <4> SUFFICES ASSUME NEW n \in 0..k
                   PROVE  f[n] = IF n = 0 THEN r ELSE Take(f[n - 1], list[n])
        OBVIOUS
      <4>1. CASE n = 0
        BY <2>3, <3>1, <3>3, <4>1
      <4>2. CASE n = k
        <5>1. n - 1 \in 0..k /\ n - 1 # k /\ f[n - 1] = g[n - 1]
          BY <2>3, <3>1, <4>2
        <5> QED BY <2>3, <4>2, <5>1
      <4>3. CASE n # 0 /\ n # k
        <5>1. n - 1 \in 0..k /\ n - 1 # k /\ f[n - 1] = g[n - 1] /\ n \in 1..(k - 1) /\ f[n] = g[n]
          BY <3>1, <4>3
        <5> QED BY <4>3, <5>1, <3>3
      <4> QED BY <4>1, <4>2, <4>3
    <3>5. Solves(f, k)
      <4>1. f = [n \in 0..k |-> f[n]]
        OBVIOUS
      <4> HIDE DEF f
      <4> QED BY <3>4, <4>1
    <3> QED BY <2>1, <3>5
  <2> QED BY <2>2, <2>3
<1> DEFINE L == Len(list)
           t == CHOOSE f : f = [n \in 0..L |-> IF n = 0 THEN r ELSE Take(f[n - 1], list[n])]
<1>2. L \in Nat
  BY LenProperties
<1>3. Taking(r, list) = t
  BY DEF Taking
<1>4. t = [n \in 0..L |-> IF n = 0 THEN r ELSE Take(t[n - 1], list[n])]
  <2>1. \E f : f = [n \in 0..L |-> IF n = 0 THEN r ELSE Take(f[n - 1], list[n])]
    BY <1>1, <1>2
  <2> QED BY <2>1
<1> HIDE DEF t, L
<1>5. t[0] = r /\ \A n \in 1..L : t[n] = Take(t[n - 1], list[n])
  <2>1. 0 \in 0..L /\ \A n \in 1..L : n \in 0..L /\ n # 0
    BY <1>2
  <2> QED BY <1>4, <2>1
<1> QED BY <1>3, <1>5 DEF L

\* One sequence of bytes after another that goes on where it ends.
LEMMA GoesOn ==
    ASSUME NEW q \in Seq(Byte), NEW t \in Seq(Byte), NEW pos \in Int, From(q, pos), From(t, pos + Len(q))
    PROVE  /\ q \o t \in Seq(Byte) /\ Len(q \o t) = Len(q) + Len(t) /\ From(q \o t, pos)
           /\ Len(q) \in Nat /\ Len(t) \in Nat
<1> DEFINE r == q \o t
<1>1. /\ r \in Seq(Byte) /\ Len(r) = Len(q) + Len(t) /\ Len(q) \in Nat /\ Len(t) \in Nat
      /\ \A i \in 1..(Len(q) + Len(t)) : r[i] = IF i <= Len(q) THEN q[i] ELSE t[i - Len(q)]
  BY ConcatProperties, LenProperties
<1> HIDE DEF r
<1>2. ASSUME NEW i \in 1..Len(r) PROVE r[i] = pos + i - 1
  <2>1. CASE i <= Len(q)
    BY <2>1, <1>1 DEF From
  <2>2. CASE ~(i <= Len(q))
    <3>1. i - Len(q) \in 1..Len(t)
      BY <2>2, <1>1
    <3>2. r[i] = t[i - Len(q)]
      BY <2>2, <1>1
    <3>3. t[i - Len(q)] = (pos + Len(q)) + (i - Len(q)) - 1
      BY <3>1 DEF From
    <3> QED BY <3>2, <3>3, <1>1
  <2> QED BY <2>1, <2>2
<1> QED BY <1>1, <1>2 DEF r, From

\* recvDataOrderedLocked keeps a reader true, and its window and its count where they are.
LEMMA TakeTrue ==
    ASSUME NEW r, NEW s \in Streams, NEW total \in Nat, NEW ended, ReaderTrue(r, s, total, ended),
           r.ended = "no", NEW p, PacketTrue(p, total, ended), p.seq = r.next
    PROVE  LET t == Take(r, p)
           IN  /\ ReaderTrue(t, s, total, ended)
               /\ t.next - Len(t.buf) = r.next - Len(r.buf) /\ t.next <= total
               /\ t.next = r.next + Len(p.data)
               /\ t.ooo = r.ooo /\ t.closed = r.closed /\ t.ended = p.end
               /\ p.end # "no" => t.buf = r.buf /\ t.next = r.next
<1> DEFINE t == Take(r, p)
<1>1. /\ r \in AReader /\ Len(r.buf) <= r.next /\ From(r.buf, r.next - Len(r.buf))
      /\ p \in APacket /\ From(p.data, p.seq) /\ p.seq + Len(p.data) <= total
      /\ p.end # "no" => p.data = <<>> /\ ended = p.end /\ p.seq = total
  BY DEF ReaderTrue, PacketTrue
<1>2. /\ r.next \in Nat /\ r.buf \in Seq(Byte) /\ r.ooo \in SUBSET APacket /\ r.closed \in BOOLEAN
      /\ p.seq \in Nat /\ p.data \in Seq(Byte) /\ p.end \in Ends
      /\ Len(r.buf) \in Nat /\ Len(p.data) \in Nat
  BY <1>1, LenProperties DEF AReader, APacket
<1>3. t = [r EXCEPT !.buf = r.buf \o p.data, !.next = r.next + Len(p.data), !.ended = p.end]
  BY DEF Take
<1>4. /\ t.buf = r.buf \o p.data /\ t.next = r.next + Len(p.data) /\ t.ended = p.end
      /\ t.ooo = r.ooo /\ t.closed = r.closed
  BY <1>1, <1>3 DEF AReader
<1>5. /\ r.buf \o p.data \in Seq(Byte) /\ Len(r.buf \o p.data) = Len(r.buf) + Len(p.data)
      /\ From(r.buf \o p.data, r.next - Len(r.buf))
  <2>1. r.next - Len(r.buf) \in Int /\ (r.next - Len(r.buf)) + Len(r.buf) = p.seq
    BY <1>2
  <2> QED BY <1>1, <1>2, <2>1, GoesOn
<1>6. t \in AReader
  <2>1. r.buf \o p.data \in Seq(Byte) /\ r.next + Len(p.data) \in Nat
    BY <1>2, <1>5
  <2> QED BY <1>1, <1>2, <1>3, <2>1 DEF AReader
<1> HIDE DEF t
<1>7. t.next - Len(t.buf) = r.next - Len(r.buf) /\ t.next <= total /\ Len(t.buf) <= t.next
  <2>1. /\ Len(t.buf) = Len(r.buf) + Len(p.data) /\ t.next = r.next + Len(p.data)
        /\ r.next \in Nat /\ Len(r.buf) \in Nat /\ Len(p.data) \in Nat
        /\ r.next + Len(p.data) <= total /\ Len(r.buf) <= r.next
    BY <1>1, <1>2, <1>4, <1>5
  <2>2. \A n, b, d \in Nat : (n + d) - (b + d) = n - b /\ (b <= n => b + d <= n + d)
    OBVIOUS
  <2>3. PICK n \in Nat : n = r.next
    BY <2>1
  <2>4. PICK b \in Nat : b = Len(r.buf)
    BY <2>1
  <2>5. PICK d \in Nat : d = Len(p.data)
    BY <2>1
  <2>6. (n + d) - (b + d) = n - b /\ b + d <= n + d
    BY ZenonT(60), <2>1, <2>2, <2>3, <2>4, <2>5
  <2> QED BY <2>1, <2>3, <2>4, <2>5, <2>6
<1>8. From(t.buf, t.next - Len(t.buf))
  BY <1>4, <1>5, <1>7
<1>9. t.ended # "no" => /\ ended = t.ended /\ t.next = total /\ t.next = r.next /\ t.buf = r.buf
  <2> SUFFICES ASSUME p.end # "no" PROVE ended = p.end /\ t.next = total /\ t.next = r.next /\ t.buf = r.buf
    BY <1>4
  <2>1. Len(p.data) = 0 /\ p.data = <<>>
    BY <1>1
  <2>2. r.buf \o <<>> = r.buf
    BY <1>2, ConcatEmptySeq
  <2> QED BY <1>1, <1>2, <1>4, <2>1, <2>2
<1>10. ReaderTrue(t, s, total, ended)
  <2>1. /\ IsFiniteSet(t.ooo)
        /\ \A q \in t.ooo : PacketTrue(q, total, ended) /\ q.id = s /\ q.end # "err"
        /\ \A q, v \in t.ooo : q.seq = v.seq => q = v
    BY <1>4 DEF ReaderTrue
  <2> QED BY <1>6, <1>7, <1>8, <1>9, <2>1 DEF ReaderTrue
<1> QED BY <1>4, <1>7, <1>9, <1>10 DEF t

\* The packets that came early, sorted.
LEMMA InSequenceIs ==
    ASSUME NEW S, IsFiniteSet(S), S \subseteq APacket, \A p, q \in S : p.seq = q.seq => p = q
    PROVE  LET list == InSequence(S)
           IN  list \in Seq(S) /\ \A i, j \in 1..Len(list) : i < j => list[i].seq < list[j].seq
<1> DEFINE n == Cardinality(S)
           R == {e \in S \X S : e[1].seq < e[2].seq}
<1>1. \A p \in S : p.seq \in Nat
  BY DEF APacket
<1>2. n \in Nat
  BY FS_CardinalityType
<1>3. \A p, q \in S : <<p, q>> \in R <=> p.seq < q.seq
  OBVIOUS
<1> HIDE DEF R, n
<1>4. PICK f \in [1..n -> S] : \A i, j \in 1..n : i < j => <<f[i], f[j]>> \in R
  <2>1. \A p \in S : <<p, p>> \notin R
    BY <1>1, <1>3
  <2>2. \A p, q, v \in S : <<p, q>> \in R /\ <<q, v>> \in R => <<p, v>> \in R
    BY <1>1, <1>3
  <2>3. \A p, q \in S : p # q => <<p, q>> \in R \/ <<q, p>> \in R
    BY <1>1, <1>3
  <2> QED BY <2>1, <2>2, <2>3, Enumeration DEF n
<1>5. \A i, j \in 1..n : i < j => f[i].seq < f[j].seq
  BY <1>3, <1>4
<1>6. f \in SetToSeqs(S)
  <2>1. \A i, j \in 1..n : i # j => f[i] # f[j]
    <3> SUFFICES ASSUME NEW i \in 1..n, NEW j \in 1..n, i # j PROVE f[i] # f[j]
      OBVIOUS
    <3>1. f[i].seq \in Nat /\ f[j].seq \in Nat
      BY <1>1, <1>4
    <3>2. i < j \/ j < i
      OBVIOUS
    <3> QED BY <3>1, <3>2, <1>5
  <2> QED BY <1>4, <2>1 DEF SetToSeqs, n
<1>7. DOMAIN f = 1..n
  BY <1>4
<1>8. PICK list : /\ list = InSequence(S) /\ list \in SetToSeqs(S)
                  /\ \A i, j \in DOMAIN list : i < j => list[i].seq < list[j].seq
  BY <1>5, <1>6, <1>7 DEF InSequence
<1>9. list \in [1..n -> S]
  BY <1>8 DEF SetToSeqs, n
<1>10. list \in Seq(S) /\ DOMAIN list = 1..Len(list)
  BY <1>2, <1>9
<1> QED BY <1>8, <1>10

\* A reader that keeps fewer of the packets that came early is as true.
LEMMA KeepTrue ==
    ASSUME NEW r, NEW s \in Streams, NEW total, NEW ended, ReaderTrue(r, s, total, ended),
           NEW X, X \subseteq r.ooo
    PROVE  LET t == [r EXCEPT !.ooo = X]
           IN  /\ ReaderTrue(t, s, total, ended)
               /\ t.buf = r.buf /\ t.next = r.next /\ t.ooo = X /\ t.closed = r.closed /\ t.ended = r.ended
<1> DEFINE t == [r EXCEPT !.ooo = X]
<1>1. r \in AReader /\ IsFiniteSet(r.ooo)
  BY DEF ReaderTrue
<1>2. t \in AReader /\ t.buf = r.buf /\ t.next = r.next /\ t.ooo = X /\ t.closed = r.closed /\ t.ended = r.ended
  BY <1>1 DEF AReader
<1>3. IsFiniteSet(X)
  BY <1>1, FS_Subset
<1> HIDE DEF t
<1>4. ReaderTrue(t, s, total, ended)
  BY <1>2, <1>3 DEF ReaderTrue
<1> QED BY <1>2, <1>4 DEF t

\* Which of the packets that waited a packet takes with it: the first ones, each the next of the one before.
LEMMA AbsorbIs ==
    ASSUME NEW r, NEW s, NEW total, NEW ended, ReaderTrue(r, s, total, ended), NEW p
    PROVE  LET list == InSequence(r.ooo)
               after == Taking(Take(r, p), list)
               L == Len(list)
           IN  /\ list \in Seq(r.ooo) /\ L \in Nat
               /\ \A i, j \in 1..L : i < j => list[i].seq < list[j].seq
               /\ after[0] = Take(r, p) /\ \A n \in 1..L : after[n] = Take(after[n - 1], list[n])
               /\ \E c \in 0..L :
                      /\ \A i \in 1..c : after[i - 1].ended = "no" /\ list[i].seq = after[i - 1].next
                      /\ Absorb(r, p) = [after[c] EXCEPT !.ooo = IF after[c].ended = "no"
                                                                 THEN ToSet(SubSeq(list, c + 1, L)) ELSE {}]
<1> DEFINE list == InSequence(r.ooo)
           after == Taking(Take(r, p), list)
           L == Len(list)
           Follow(n) == \A i \in 1..n : after[i - 1].ended = "no" /\ list[i].seq = after[i - 1].next
           Ready(n) == Follow(n) /\ (n = L \/ ~Follow(n + 1))
           c == CHOOSE n \in 0..L : Ready(n)
           rest == SubSeq(list, c + 1, L)
<1>1. list \in Seq(r.ooo) /\ L \in Nat /\ \A i, j \in 1..L : i < j => list[i].seq < list[j].seq
  <2>1. /\ IsFiniteSet(r.ooo) /\ r.ooo \subseteq APacket
        /\ \A q, v \in r.ooo : q.seq = v.seq => q = v
    BY DEF ReaderTrue, AReader
  <2> QED BY <2>1, InSequenceIs, LenProperties
<1>3. after[0] = Take(r, p) /\ \A n \in 1..L : after[n] = Take(after[n - 1], list[n])
  <2> HIDE DEF list
  <2>1. list \in Seq(r.ooo)
    BY <1>1
  <2> QED BY <2>1, TakingIs
<1>5. Absorb(r, p) = [after[c] EXCEPT !.ooo = IF after[c].ended = "no" THEN ToSet(rest) ELSE {}]
  BY DEF Absorb
<1> HIDE DEF list, after, L
<1>6. c \in 0..L /\ Follow(c)
  <2>1. \E n \in 0..L : Ready(n)
    <3>1. CASE Follow(L)
      <4> HIDE DEF Follow
      <4>1. L \in 0..L /\ Ready(L)
        BY <1>1, <3>1
      <4> QED BY <4>1
    <3>2. CASE ~Follow(L)
      <4> DEFINE D == {n \in 0..L : ~Follow(n)}
      <4>1. D # {} /\ D \subseteq Nat
        BY <1>1, <3>2
      <4> HIDE DEF D
      <4>2. PICK m \in D : \A j \in D : m <= j
        BY <4>1, LeastElement
      <4>3. m \in 0..L /\ ~Follow(m)
        BY <4>2 DEF D
      <4>4. m # 0
        BY <4>3
      <4>5. m - 1 \in 0..L /\ m - 1 \notin D /\ m - 1 + 1 = m
        BY <1>1, <4>2, <4>3, <4>4
      <4>6. Follow(m - 1)
        <5> HIDE DEF Follow
        <5> QED BY <4>5 DEF D
      <4> HIDE DEF Follow
      <4>7. Ready(m - 1)
        BY <4>3, <4>5, <4>6
      <4> QED BY <4>5, <4>7
    <3> QED BY <3>1, <3>2
  <2> HIDE DEF Ready
  <2>2. c \in 0..L /\ Ready(c)
    BY <2>1
  <2> QED BY <2>2 DEF Ready
<1> HIDE DEF c
<1> QED BY <1>1, <1>3, <1>5, <1>6 DEF list, after, L

\* A packet that is next, with what was waiting for it, keeps a reader true, and where it counts from.
LEMMA AbsorbTrue ==
    ASSUME NEW r, NEW s \in Streams, NEW total \in Nat, NEW ended, ReaderTrue(r, s, total, ended),
           r.ended = "no", NEW p, PacketTrue(p, total, ended), p.seq = r.next
    PROVE  LET t == Absorb(r, p)
           IN  /\ ReaderTrue(t, s, total, ended)
               /\ t.next - Len(t.buf) = r.next - Len(r.buf) /\ t.next <= total
               /\ t.ooo \subseteq r.ooo /\ t.closed = r.closed
               /\ p.end # "no" => t.buf = r.buf /\ t.next = r.next /\ t.ended # "no"
<1> DEFINE list == InSequence(r.ooo)
           after == Taking(Take(r, p), list)
           L == Len(list)
           Follow(n) == \A i \in 1..n : after[i - 1].ended = "no" /\ list[i].seq = after[i - 1].next
           Good(n) == /\ ReaderTrue(after[n], s, total, ended)
                      /\ after[n].next - Len(after[n].buf) = r.next - Len(r.buf) /\ after[n].next <= total
                      /\ after[n].ooo = r.ooo /\ after[n].closed = r.closed
<1>1. list \in Seq(r.ooo) /\ L \in Nat
  BY AbsorbIs
<1>2. \A q \in r.ooo : PacketTrue(q, total, ended)
  BY DEF ReaderTrue
<1>3. after[0] = Take(r, p) /\ \A n \in 1..L : after[n] = Take(after[n - 1], list[n])
  BY AbsorbIs
<1>4. \A n \in 1..L : list[n] \in r.ooo
  BY <1>1
<1>5. PICK c \in 0..L :
        /\ Follow(c)
        /\ Absorb(r, p) = [after[c] EXCEPT !.ooo = IF after[c].ended = "no"
                                                   THEN ToSet(SubSeq(list, c + 1, L)) ELSE {}]
  BY AbsorbIs
<1> HIDE DEF list, after, L
<1> DEFINE rest == SubSeq(list, c + 1, L)
<1>6. c \in 0..L /\ Follow(c)
  BY <1>5
<1>7. Good(0)
  <2>1. /\ ReaderTrue(Take(r, p), s, total, ended)
        /\ Take(r, p).next - Len(Take(r, p).buf) = r.next - Len(r.buf) /\ Take(r, p).next <= total
        /\ Take(r, p).ooo = r.ooo /\ Take(r, p).closed = r.closed
    BY TakeTrue
  <2> QED BY <1>3, <2>1
<1>8. ASSUME NEW n \in 1..L, Good(n - 1), after[n - 1].ended = "no", list[n].seq = after[n - 1].next
      PROVE  Good(n)
  <2>1. PICK u : u = after[n - 1]
    OBVIOUS
  <2>2. PICK q : q = list[n]
    OBVIOUS
  <2>3. /\ ReaderTrue(u, s, total, ended) /\ u.ended = "no" /\ q.seq = u.next
        /\ u.next - Len(u.buf) = r.next - Len(r.buf) /\ u.ooo = r.ooo /\ u.closed = r.closed
    BY <1>8, <2>1, <2>2
  <2>4. q \in r.ooo /\ PacketTrue(q, total, ended)
    BY <1>2, <1>4, <2>2
  <2>5. PICK t : t = Take(u, q)
    OBVIOUS
  <2>6. /\ ReaderTrue(t, s, total, ended)
        /\ t.next - Len(t.buf) = u.next - Len(u.buf) /\ t.next <= total
        /\ t.ooo = u.ooo /\ t.closed = u.closed
    BY <2>3, <2>4, <2>5, TakeTrue
  <2>7. after[n] = t
    BY <1>3, <2>1, <2>2, <2>5
  <2> QED BY <2>3, <2>6, <2>7
<1> HIDE DEF Good
<1>9. Good(c)
  <2> DEFINE D == {n \in 0..c : ~Good(n)}
  <2> SUFFICES ASSUME ~Good(c) PROVE FALSE
    OBVIOUS
  <2>1. c \in Nat
    BY <1>1, <1>6
  <2>2. D # {} /\ D \subseteq Nat
    BY <2>1
  <2> HIDE DEF D
  <2>3. PICK m \in D : \A j \in D : m <= j
    BY <2>2, LeastElement
  <2>4. m \in 0..c /\ ~Good(m)
    BY <2>3 DEF D
  <2>5. m # 0
    BY <1>7, <2>4
  <2>6. m \in 1..L /\ m \in 1..c /\ m - 1 \in 0..c /\ m - 1 \notin D
    BY <1>1, <1>6, <2>3, <2>4, <2>5
  <2>7. Good(m - 1)
    BY <2>6 DEF D
  <2>8. after[m - 1].ended = "no" /\ list[m].seq = after[m - 1].next
    BY <1>6, <2>6
  <2> QED BY <1>8, <2>4, <2>6, <2>7, <2>8
<1>10. ToSet(rest) \subseteq r.ooo
  <2>1. \A i \in (c + 1)..L : list[i] \in r.ooo
    BY <1>1, <1>4, <1>6
  <2>2. c + 1 \in Int /\ L \in Int
    BY <1>1, <1>6
  <2>3. rest \in Seq(r.ooo)
    BY <2>1, <2>2, SubSeqProperties
  <2> HIDE DEF rest
  <2> QED BY <2>3 DEF ToSet
<1> DEFINE X == IF after[c].ended = "no" THEN ToSet(rest) ELSE {}
<1>11. PICK u : u = after[c]
  OBVIOUS
<1>12. PICK t : t = Absorb(r, p)
  OBVIOUS
<1>13. X \subseteq r.ooo
  BY <1>10
<1> HIDE DEF X
<1>14. /\ ReaderTrue(u, s, total, ended)
       /\ u.next - Len(u.buf) = r.next - Len(r.buf) /\ u.next <= total
       /\ u.ooo = r.ooo /\ u.closed = r.closed
  BY <1>9, <1>11 DEF Good
<1>15. t = [u EXCEPT !.ooo = X]
  BY <1>5, <1>11, <1>12 DEF X
<1>16. p.end # "no" => u.buf = r.buf /\ u.next = r.next /\ u.ended # "no"
  <2> SUFFICES ASSUME p.end # "no" PROVE u.buf = r.buf /\ u.next = r.next /\ u.ended # "no"
    OBVIOUS
  <2>1. PICK v : v = Take(r, p)
    OBVIOUS
  <2>2. v.buf = r.buf /\ v.next = r.next /\ v.ended = p.end
    BY <2>1, TakeTrue
  <2>3. c = 0
    <3> SUFFICES ASSUME c # 0 PROVE FALSE
      OBVIOUS
    <3>1. 1 \in 1..c /\ 1 - 1 = 0
      BY <1>1, <1>6
    <3>2. after[0].ended = "no"
      BY <1>6, <3>1
    <3> QED BY <1>3, <2>1, <2>2, <3>2
  <2> QED BY <1>3, <1>11, <2>1, <2>2, <2>3
<1>17. /\ ReaderTrue(t, s, total, ended)
       /\ t.buf = u.buf /\ t.next = u.next /\ t.ooo = X /\ t.closed = u.closed /\ t.ended = u.ended
  <2>1. ReaderTrue(u, s, total, ended) /\ X \subseteq u.ooo
    BY <1>13, <1>14
  <2> QED BY <2>1, <1>15, KeepTrue
<1> QED BY <1>12, <1>13, <1>14, <1>16, <1>17

\* A packet that comes early is kept once.
LEMMA KeepEarlyTrue ==
    ASSUME NEW r, NEW s \in Streams, NEW total, NEW ended, ReaderTrue(r, s, total, ended),
           NEW p, PacketTrue(p, total, ended), p.id = s, p.end # "err"
    PROVE  LET t == KeepEarly(r, p)
           IN  /\ ReaderTrue(t, s, total, ended)
               /\ t.buf = r.buf /\ t.next = r.next /\ t.ooo \subseteq r.ooo \cup {p} /\ t.closed = r.closed
<1>1. CASE \E q \in r.ooo : q.seq = p.seq
  BY <1>1 DEF KeepEarly
<1>2. CASE ~\E q \in r.ooo : q.seq = p.seq
  <2> DEFINE t == [r EXCEPT !.ooo = r.ooo \cup {p}]
  <2>1. KeepEarly(r, p) = t
    BY <1>2 DEF KeepEarly
  <2>2. r \in AReader /\ p \in APacket /\ IsFiniteSet(r.ooo)
    BY DEF ReaderTrue, PacketTrue
  <2>3. /\ t \in AReader /\ t.buf = r.buf /\ t.next = r.next /\ t.ooo = r.ooo \cup {p}
        /\ t.closed = r.closed /\ t.ended = r.ended
    BY <2>2 DEF AReader
  <2>4. IsFiniteSet(r.ooo \cup {p})
    BY <2>2, FS_AddElement
  <2> HIDE DEF t
  <2>5. ReaderTrue(t, s, total, ended)
    BY <1>2, <2>3, <2>4 DEF ReaderTrue
  <2> QED BY <2>1, <2>3, <2>5
<1> QED BY <1>1, <1>2

\* A reader with nothing in it says nothing.
LEMMA NewReaderTrue ==
    ASSUME NEW s \in Streams, NEW total, NEW ended, NEW seq \in Nat
    PROVE  /\ ReaderTrue(NewReader(seq), s, total, ended)
           /\ NewReader(seq).next = seq /\ NewReader(seq).buf = <<>> /\ NewReader(seq).ooo = {}
           /\ ReaderTrue(ClosedReader, s, total, ended)
           /\ ClosedReader.next = 0 /\ ClosedReader.buf = <<>> /\ ClosedReader.ooo = {}
<1>1. /\ Len(<<>>) = 0 /\ <<>> \in Seq(Byte) /\ IsFiniteSet({}) /\ seq - 0 = seq /\ 0 <= seq
      /\ \A q : From(<<>>, q)
  BY FS_EmptySet DEF From
<1> DEFINE n == NewReader(seq)
           c == ClosedReader
<1>2. /\ n \in AReader /\ n.next = seq /\ n.buf = <<>> /\ n.ooo = {} /\ n.ended = "no"
      /\ c \in AReader /\ c.next = 0 /\ c.buf = <<>> /\ c.ooo = {} /\ c.ended = "no"
  BY <1>1 DEF NewReader, ClosedReader, AReader, Ends
<1> HIDE DEF n, c
<1>3. ReaderTrue(n, s, total, ended) /\ ReaderTrue(c, s, total, ended)
  BY <1>1, <1>2 DEF ReaderTrue
<1> QED BY <1>2, <1>3 DEF n, c

\* The job may have written more, as long as it has not ended.
Goes(total, ended, total2, ended2) ==
    /\ total \in Nat /\ total2 \in Nat /\ total <= total2
    /\ ended # "no" => ended2 = ended /\ total2 = total

\* What was true of the job stays true.
LEMMA PacketStaysTrue ==
    ASSUME NEW p, NEW total, NEW ended, NEW total2, NEW ended2, Goes(total, ended, total2, ended2),
           PacketTrue(p, total, ended)
    PROVE  PacketTrue(p, total2, ended2)
<1>1. p \in APacket /\ p.seq + Len(p.data) <= total /\ From(p.data, p.seq)
  BY DEF PacketTrue
<1>2. p.seq \in Nat /\ Len(p.data) \in Nat
  BY <1>1, LenProperties DEF APacket
<1>3. PICK n \in Nat : n = p.seq + Len(p.data)
  BY <1>2
<1>4. n <= total2
  BY <1>1, <1>3 DEF Goes
<1> QED BY <1>1, <1>3, <1>4 DEF PacketTrue, Goes

LEMMA ReaderStaysTrue ==
    ASSUME NEW r, NEW s, NEW total, NEW ended, NEW total2, NEW ended2, Goes(total, ended, total2, ended2),
           ReaderTrue(r, s, total, ended)
    PROVE  ReaderTrue(r, s, total2, ended2)
<1>1. \A p \in r.ooo : PacketTrue(p, total2, ended2) /\ p.id = s /\ p.end # "err"
  BY PacketStaysTrue DEF ReaderTrue
<1>2. /\ r.ended # "no" => ended2 = r.ended
      /\ r.ended = "eof" => r.next = total2
  BY DEF ReaderTrue, Goes
<1> QED BY <1>1, <1>2 DEF ReaderTrue

\* The ring with another mode and window.
LEMMA WindowedIs ==
    ASSUME NEW r \in ARing, NEW sync \in BOOLEAN, NEW w \in Nat
    PROVE  LET t == Windowed(r, sync, w)
           IN  /\ t \in ARing /\ t.total = r.total /\ t.sync = sync /\ t.win = Least(w, RingSize)
               /\ t.held = IF sync THEN r.held ELSE Least(r.held, t.win)
<1>1. RingSize \in Nat
  BY SizesAssumption
<1>2. PICK u \in Nat : u = Least(w, RingSize) /\ u <= RingSize
  BY <1>1 DEF Least
<1>3. r.held \in 0..RingSize /\ r.total \in 0..MaxBytes
  BY DEF ARing
<1>4. PICK h \in 0..RingSize : h = IF sync THEN r.held ELSE Least(r.held, u)
  BY <1>1, <1>2, <1>3 DEF Least
<1> DEFINE t == Windowed(r, sync, w)
<1>5. t = [r EXCEPT !.sync = sync, !.win = u, !.held = h]
  <2>1. (IF ~sync THEN Least(r.held, u) ELSE r.held) = h
    BY <1>4
  <2> QED BY <1>2, <2>1 DEF Windowed
<1>6. u \in 0..RingSize
  BY <1>1, <1>2
<1> HIDE DEF t
<1>7. t \in ARing /\ t.total = r.total /\ t.sync = sync /\ t.win = u /\ t.held = h
  BY <1>4, <1>5, <1>6 DEF ARing
<1> QED BY <1>2, <1>4, <1>7 DEF t

\* The types of the parts.
LEMMA Fields ==
    ASSUME IInv
    PROVE  /\ {RingSize, Cwnd, ReadWindow, PacketSize, MaxStreams, MaxBytes} \subseteq Nat
           /\ ring \in ARing /\ ring.total \in 0..MaxBytes /\ ring.held \in 0..RingSize
           /\ ring.win \in 0..RingSize /\ ring.sync \in BOOLEAN /\ ring.held <= ring.total
           /\ writer.chunk \in 0..PacketSize /\ writer.waiting \in BOOLEAN /\ writer.signal \in BOOLEAN
           /\ mgr \in AManager /\ mgr.conn \in BOOLEAN /\ mgr.id \in Streams /\ mgr.alive \in BOOLEAN
           /\ mgr.rwnd \in 0..ReadWindow /\ mgr.sent \in 0..RingSize /\ mgr.sent \in 0..ring.held
           /\ mgr.ended \in Ends /\ mgr.endSent \in BOOLEAN /\ mgr.endAcked \in BOOLEAN
           /\ prep \in APreparation /\ prep.stage \in {"none", "head", "set"} /\ prep.id \in Streams
           /\ prep.seq \in Nat /\ prep.head \in Nat /\ prep.alive \in BOOLEAN
           /\ restart.stage \in Restarting \cup {"idle", "stat", "set"} /\ restart.seq \in Nat
           /\ restart.reply \in Nat \cup {-1, Ended, Refused} /\ current \in Streams /\ current \in Nat
<1>1. /\ {RingSize, Cwnd, ReadWindow, PacketSize, MaxStreams, MaxBytes} \subseteq Nat
      /\ ring \in ARing /\ ring.held <= ring.total
      /\ writer \in [chunk : 0..PacketSize, waiting : BOOLEAN, signal : BOOLEAN]
      /\ mgr \in AManager /\ mgr.sent <= ring.held /\ prep \in APreparation
      /\ restart \in ARestart /\ current \in Streams
  BY SizesAssumption DEF IInv, RingInv, MgrInv, RestartInv
<1>2. /\ ring.total \in 0..MaxBytes /\ ring.held \in 0..RingSize
      /\ ring.win \in 0..RingSize /\ ring.sync \in BOOLEAN
      /\ writer.chunk \in 0..PacketSize /\ writer.waiting \in BOOLEAN /\ writer.signal \in BOOLEAN
  BY <1>1 DEF ARing
<1>3. /\ mgr.conn \in BOOLEAN /\ mgr.id \in Streams /\ mgr.alive \in BOOLEAN
      /\ mgr.rwnd \in 0..ReadWindow /\ mgr.sent \in 0..RingSize
      /\ mgr.ended \in Ends /\ mgr.endSent \in BOOLEAN /\ mgr.endAcked \in BOOLEAN
  BY <1>1 DEF AManager
<1>4. mgr.sent \in 0..ring.held
  BY <1>1, <1>2, <1>3
<1>5. /\ prep.stage \in {"none", "head", "set"} /\ prep.id \in Streams
      /\ prep.seq \in Nat /\ prep.head \in Nat /\ prep.alive \in BOOLEAN
      /\ restart.stage \in Restarting \cup {"idle", "stat", "set"} /\ restart.seq \in Nat
      /\ restart.reply \in Nat \cup {-1, Ended, Refused}
  BY <1>1 DEF APreparation, ARestart
<1>6. current \in Nat
  BY <1>1 DEF Streams
<1> QED BY <1>1, <1>2, <1>3, <1>4, <1>5, <1>6

\* The job writes, or ends: what is said of it elsewhere stays true.
LEMMA JobGoesOn ==
    ASSUME Goes(ring.total, mgr.ended, ring'.total, mgr'.ended), ring.total \in Nat, ring'.total \in Nat,
           IInv, mgr'.alive = mgr.alive, mgr'.conn = mgr.conn, mgr'.id = mgr.id, mgr'.rwnd = mgr.rwnd,
           UNCHANGED <<prep, link, net, acks, clientVars, late>>
    PROVE  NetInv' /\ ReadersInv' /\ LoopsInv' /\ FileInv' /\ RestartInv' /\ QuietInv' /\ CountInv'
<1> USE DEF clientVars
<1>1. ring.total <= ring'.total
  BY DEF Goes
<1>2. NetInv'
  <2>1. \A p \in net : PacketTrue(p, ring'.total, mgr'.ended)
    BY PacketStaysTrue DEF IInv, NetInv
  <2> QED BY <2>1 DEF IInv, NetInv
<1>3. ReadersInv'
  <2>1. \A s \in Streams : ReaderTrue(readers[s], s, ring'.total, mgr'.ended)
    BY ReaderStaysTrue DEF IInv, ReadersInv
  <2>2. \A s \in Streams : readers[s].next \in Nat
    BY DEF IInv, ReadersInv, AReader
  <2> QED BY <1>1, <2>1, <2>2 DEF IInv, ReadersInv
<1>4. LoopsInv' /\ QuietInv'
  BY DEF IInv, LoopsInv, QuietInv
<1>5. CountInv'
  BY DEF IInv, CountInv, NextSeq
<1>6. FileInv'
  <2>1. NextSeq \in Nat
    BY LenProperties DEF IInv, FileInv, NextSeq
  <2>2. NextSeq' = NextSeq
    BY DEF NextSeq
  <2>3. ~late' => NextSeq' <= ring'.total
    BY <1>1, <2>1, <2>2 DEF IInv, FileInv
  <2> QED BY <2>3 DEF IInv, FileInv
<1>7. RestartInv'
  <2>1. restart.stage = "asked" /\ restart.reply \in Nat => restart.reply <= ring'.total
    BY <1>1 DEF IInv, RestartInv
  <2> QED BY <2>1 DEF IInv, RestartInv, NextSeq
<1> QED BY <1>2, <1>3, <1>4, <1>5, <1>6, <1>7

LEMMA WriteRingKeeps ==
    ASSUME IInv, NEW n \in 1..PacketSize, WriteRing(n)
    PROVE  IInv'
<1> DEFINE f == Fitting(n)
<1>1. /\ ring \in ARing /\ ring.held <= ring.total /\ ring.total + writer.chunk <= MaxBytes
      /\ writer \in [chunk : 0..PacketSize, waiting : BOOLEAN, signal : BOOLEAN]
      /\ mgr.ended # "no" => writer.chunk = 0
  BY DEF IInv, RingInv
<1>2. /\ ring.total \in 0..MaxBytes /\ ring.held \in 0..RingSize /\ ring.win \in 0..RingSize
      /\ writer.chunk \in 0..PacketSize /\ RingSize \in Nat /\ MaxBytes \in Nat /\ PacketSize \in Nat
  BY <1>1, SizesAssumption DEF ARing
<1>3. f \in 0..n /\ (f = 0 => ring.sync /\ ring.win <= ring.held) /\ ring.total + n <= MaxBytes /\ mgr.ended = "no"
  BY <1>1, <1>2 DEF WriteRing, Fitting, Least, Most
<1>4. PICK h \in 0..RingSize : /\ h = Least(ring.held + f, Most(ring.win, ring.held))
                               /\ ring.held <= h /\ h <= ring.total + f
                               /\ f = 0 => h = ring.held
                               /\ h = 0 /\ f # 0 => ~ring.sync
  <2>1. ring.sync /\ f # 0 => ring.win > ring.held
    BY <1>2 DEF Fitting, Least, Most
  <2> HIDE DEF f
  <2> QED BY <1>1, <1>2, <1>3, <2>1 DEF Least, Most
<1>5. /\ ring' = [ring EXCEPT !.total = ring.total + f, !.held = h]
      /\ writer' = [chunk |-> n - f, waiting |-> f = 0, signal |-> f > 0]
      /\ UNCHANGED <<mgr, asleep, prep, link, net, acks, clientVars, late>>
      /\ ~writer.signal
  BY <1>4 DEF WriteRing
<1> HIDE DEF f
<1>6. /\ ring' \in ARing /\ ring'.total = ring.total + f /\ ring'.held = h
      /\ ring'.sync = ring.sync /\ ring'.win = ring.win
  <2>1. ring.total + f \in 0..MaxBytes
    BY <1>2, <1>3
  <2> QED BY <1>1, <1>4, <1>5, <2>1 DEF ARing
<1>7. RingInv'
  <2>1. writer' \in [chunk : 0..PacketSize, waiting : BOOLEAN, signal : BOOLEAN]
    BY <1>2, <1>3, <1>5
  <2>2. ring'.total + writer'.chunk <= MaxBytes
    BY <1>2, <1>3, <1>5, <1>6
  <2>3. writer'.waiting => ring'.sync /\ ring'.held >= ring'.win
    BY <1>2, <1>3, <1>4, <1>5, <1>6
  <2> QED BY <1>3, <1>4, <1>5, <1>6, <2>1, <2>2, <2>3 DEF RingInv
<1>8. MgrInv'
  <2>1. mgr.sent <= h
    BY <1>2, <1>4, Fields
  <2>2. prep.stage = "set" => prep.head <= ring.total + f
    <3>1. prep.stage = "set" => prep.head <= ring.total
      BY DEF IInv, MgrInv
    <3> QED BY <1>2, <1>3, <3>1, Fields
  <2> QED BY <1>5, <1>6, <2>1, <2>2 DEF IInv, MgrInv, clientVars
<1>9. SleepInv'
  <2> SUFFICES ASSUME asleep, mgr.conn, ~mgr.endAcked, f = 0, HasTerminal' \/ HasData'
               PROVE  FALSE
    <3>1. writer'.signal \/ f = 0
      <4> SUFFICES ASSUME f # 0 PROVE writer'.signal
        OBVIOUS
      <4>1. (f > 0) = TRUE
        BY <1>3
      <4>2. writer' = [chunk |-> n - f, waiting |-> f = 0, signal |-> TRUE]
        BY <1>5, <4>1
      <4> QED BY <4>2
    <3> QED BY <1>5, <3>1 DEF SleepInv
  <2>1. HasTerminal \/ HasData
    BY <1>4, <1>5, <1>6 DEF HasTerminal, HasData, SendRoom
  <2> QED BY <1>5, <2>1 DEF IInv, SleepInv
<1>10. NetInv' /\ ReadersInv' /\ LoopsInv' /\ FileInv' /\ RestartInv' /\ QuietInv' /\ CountInv'
  <2>1. Goes(ring.total, mgr.ended, ring'.total, mgr'.ended) /\ ring.total \in Nat /\ ring'.total \in Nat
    BY <1>2, <1>3, <1>5, <1>6 DEF Goes
  <2> QED BY <1>5, <2>1, JobGoesOn
<1> QED BY <1>7, <1>8, <1>9, <1>10 DEF IInv

LEMMA SignalSenderKeeps ==
    ASSUME IInv, SignalSender
    PROVE  IInv'
<1>1. /\ writer' = [writer EXCEPT !.signal = FALSE] /\ asleep' = FALSE
      /\ UNCHANGED <<ring, mgr, prep, link, net, acks, clientVars, late>>
  BY DEF SignalSender
<1>2. RingInv'
  BY <1>1 DEF IInv, RingInv
<1>3. MgrInv' /\ SleepInv'
  BY <1>1 DEF IInv, MgrInv, SleepInv, clientVars
<1>4. Goes(ring.total, mgr.ended, ring'.total, mgr'.ended) /\ ring.total \in Nat /\ ring'.total \in Nat
  BY <1>1 DEF IInv, RingInv, ARing, Goes
<1> QED BY <1>1, <1>2, <1>3, <1>4, JobGoesOn DEF IInv

LEMMA EndPtyKeeps ==
    ASSUME IInv, NEW kind \in {"eof", "err"}, EndPty(kind)
    PROVE  IInv'
<1>1. /\ writer.chunk = 0 /\ mgr.ended = "no"
      /\ mgr' = [mgr EXCEPT !.ended = kind] /\ asleep' = FALSE
      /\ UNCHANGED <<ring, writer, prep, link, net, acks, clientVars, late>>
  BY DEF EndPty
<1>2. /\ mgr'.conn = mgr.conn /\ mgr'.alive = mgr.alive /\ mgr'.rwnd = mgr.rwnd /\ mgr'.sent = mgr.sent
      /\ mgr'.endSent = mgr.endSent /\ mgr'.endAcked = mgr.endAcked /\ mgr'.id = mgr.id
      /\ mgr' \in AManager
  BY <1>1, Fields DEF Ends, AManager
<1>3. RingInv'
  BY <1>1 DEF IInv, RingInv
<1>4. MgrInv' /\ SleepInv'
  BY <1>1, <1>2 DEF IInv, MgrInv, SleepInv, clientVars
<1>5. Goes(ring.total, mgr.ended, ring'.total, mgr'.ended) /\ ring.total \in Nat /\ ring'.total \in Nat
  BY <1>1 DEF IInv, RingInv, ARing, Goes
<1> QED BY <1>1, <1>2, <1>3, <1>4, <1>5, JobGoesOn DEF IInv

\* A packet carries what comes next in the ring, and an end goes at the end.
LEMMA PacketIs ==
    ASSUME IInv, NEW n \in Nat, NEW end \in Ends, mgr.sent + n <= ring.held,
           end = "no" => n # 0, end # "no" => n = 0 /\ ring.held = 0 /\ mgr.ended = end
    PROVE  LET p == Packet(n, end)
           IN  PacketTrue(p, ring.total, mgr.ended) /\ p.id = mgr.id /\ p.end = end
<1> DEFINE seq == RingHead(ring) + mgr.sent
           data == [i \in 1..n |-> seq + i - 1]
           p == [id |-> mgr.id, seq |-> seq, data |-> data, end |-> end]
<1>1. /\ ring.total \in 0..MaxBytes /\ ring.held \in 0..RingSize /\ ring.held <= ring.total
      /\ mgr.sent \in 0..ring.held /\ MaxBytes \in Nat /\ RingSize \in Nat
      /\ mgr.id \in Streams
  BY Fields
<1>3. seq \in Nat /\ seq + n <= ring.total /\ (end # "no" => seq = ring.total) /\ seq + n <= MaxBytes
  BY <1>1 DEF RingHead
<1>4. Packet(n, end) = p
  BY DEF Packet
<1> HIDE DEF seq
<1>5. data \in Seq(Byte) /\ Len(data) = n /\ \A i \in 1..n : data[i] = seq + i - 1
  <2>1. \A i \in 1..n : seq + i - 1 \in Byte
    BY <1>1, <1>3 DEF Byte
  <2> QED BY <2>1
<1>6. n = 0 <=> data = <<>>
  BY <1>5, EmptySeq
<1> HIDE DEF data
<1>7. From(data, seq)
  BY <1>5 DEF From
<1>8. PacketTrue(p, ring.total, mgr.ended)
  BY <1>1, <1>3, <1>5, <1>6, <1>7 DEF PacketTrue, APacket
<1> QED BY <1>4, <1>8

\* A packet more is under way.
LEMMA SentKeepsRest ==
    ASSUME IInv, NEW p, PacketTrue(p, ring.total, mgr.ended), p.id = mgr.id, Send(p), mgr.conn,
           p.end = "no" => mgr.rwnd # 0,
           mgr'.alive = mgr.alive, mgr'.conn = mgr.conn, mgr'.id = mgr.id, mgr'.rwnd = mgr.rwnd,
           mgr'.ended = mgr.ended, UNCHANGED <<ring, writer, prep, link, acks, clientVars, late>>
    PROVE  /\ RingInv' /\ NetInv' /\ ReadersInv' /\ LoopsInv' /\ FileInv' /\ RestartInv' /\ QuietInv'
           /\ CountInv'
<1> USE DEF clientVars
<1>1. net' \subseteq net \cup {p} /\ (~mgr.alive => net' = net)
  BY DEF Send
<1>2. RingInv' /\ ReadersInv' /\ LoopsInv'
  BY DEF IInv, RingInv, ReadersInv, LoopsInv
<1>3. FileInv' /\ RestartInv' /\ CountInv'
  BY DEF IInv, FileInv, RestartInv, CountInv, NextSeq
<1>4. NetInv'
  BY <1>1 DEF IInv, NetInv
<1>5. QuietInv'
  <2> SUFFICES ASSUME restart.stage \in {"prepare", "asked", "start"} PROVE QuietInv'
    BY DEF QuietInv
  <2>1. p.id = current => p.end # "no"
    BY DEF IInv, QuietInv
  <2> QED BY <1>1, <2>1 DEF IInv, QuietInv
<1> QED BY <1>2, <1>3, <1>4, <1>5

LEMMA SenderKeeps ==
    ASSUME IInv, Sender
    PROVE  IInv'
<1> USE DEF clientVars
<1>1. ~asleep /\ UNCHANGED <<ring, writer, prep, link, acks, clientVars, late>>
  BY DEF Sender
<1>2. /\ ring.total \in 0..MaxBytes /\ ring.held \in 0..RingSize /\ ring.held <= ring.total
      /\ mgr.sent \in 0..ring.held /\ MaxBytes \in Nat /\ RingSize \in Nat
      /\ mgr.rwnd \in 0..ReadWindow /\ {Cwnd, PacketSize, ReadWindow} \subseteq Nat \ {0} /\ mgr.ended \in Ends
  BY SizesAssumption, Fields
<1>3. CASE ~mgr.conn \/ ~(HasTerminal \/ HasData)
  <2>1. asleep' = TRUE /\ UNCHANGED <<net, mgr>>
    BY <1>3 DEF Sender
  <2>2. RingInv' /\ NetInv' /\ ReadersInv' /\ LoopsInv' /\ QuietInv'
    BY <1>1, <2>1 DEF IInv, RingInv, NetInv, ReadersInv, LoopsInv, QuietInv
  <2>3. FileInv' /\ RestartInv' /\ CountInv'
    BY <1>1, <2>1 DEF IInv, FileInv, RestartInv, CountInv, NextSeq
  <2>4. MgrInv'
    BY <1>1, <2>1 DEF IInv, MgrInv
  <2>5. SleepInv'
    BY <1>1, <1>3, <2>1 DEF SleepInv, HasTerminal, HasData, SendRoom
  <2> QED BY <2>2, <2>3, <2>4, <2>5 DEF IInv
<1>4. CASE mgr.conn /\ HasTerminal
  <2>1. /\ asleep' = asleep /\ mgr' = [mgr EXCEPT !.endSent = TRUE] /\ Send(Packet(0, mgr.ended))
        /\ ring.held = 0 /\ mgr.ended # "no"
    BY <1>4 DEF Sender, HasTerminal
  <2>2. PICK p : p = Packet(0, mgr.ended)
    OBVIOUS
  <2>3. PacketTrue(p, ring.total, mgr.ended) /\ p.id = mgr.id /\ p.end # "no"
    <3>1. 0 \in Nat /\ mgr.sent + 0 <= ring.held /\ mgr.ended \in Ends
      BY <1>2
    <3>2. PacketTrue(p, ring.total, mgr.ended) /\ p.id = mgr.id /\ p.end = mgr.ended
      BY <2>1, <2>2, <3>1, PacketIs
    <3> QED BY <2>1, <3>2
  <2>4. /\ mgr'.conn = mgr.conn /\ mgr'.alive = mgr.alive /\ mgr'.rwnd = mgr.rwnd /\ mgr'.sent = mgr.sent
        /\ mgr'.endAcked = mgr.endAcked /\ mgr'.id = mgr.id
        /\ mgr'.ended = mgr.ended /\ mgr' \in AManager
    BY <2>1, Fields DEF AManager
  <2>5. Send(p)
    BY <2>1, <2>2
  <2>6. MgrInv' /\ SleepInv'
    BY <1>1, <2>1, <2>4 DEF IInv, MgrInv, SleepInv
  <2> QED BY <1>1, <1>4, <2>3, <2>4, <2>5, <2>6, SentKeepsRest DEF IInv
<1>5. CASE mgr.conn /\ ~HasTerminal /\ HasData
  <2> DEFINE n == PacketBytes
  <2>1. asleep' = asleep /\ mgr' = [mgr EXCEPT !.sent = mgr.sent + n] /\ Send(Packet(n, "no"))
    BY <1>5 DEF Sender
  <2>2. n \in Nat \ {0} /\ mgr.sent + n <= ring.held /\ mgr.rwnd # 0
    BY <1>2, <1>5 DEF PacketBytes, HasData, SendRoom, Least
  <2> HIDE DEF n
  <2>3. PICK p : p = Packet(n, "no")
    OBVIOUS
  <2>4. PacketTrue(p, ring.total, mgr.ended) /\ p.id = mgr.id
    BY <1>2, <2>2, <2>3, PacketIs DEF Ends
  <2>5. /\ mgr'.conn = mgr.conn /\ mgr'.alive = mgr.alive /\ mgr'.rwnd = mgr.rwnd /\ mgr'.sent = mgr.sent + n
        /\ mgr'.endSent = mgr.endSent /\ mgr'.endAcked = mgr.endAcked /\ mgr'.id = mgr.id
        /\ mgr'.ended = mgr.ended /\ mgr' \in AManager
    <3>1. mgr.sent + n \in 0..RingSize
      BY <1>2, <2>2
    <3> QED BY <2>1, <3>1, Fields DEF AManager
  <2>6. Send(p)
    BY <2>1, <2>3
  <2>7. SleepInv'
    BY <1>1, <2>1 DEF SleepInv
  <2>8. mgr'.sent <= ring'.held
    BY <1>1, <1>2, <2>2, <2>5
  <2>9. MgrInv'
    BY <1>1, <1>5, <2>1, <2>5, <2>8 DEF IInv, MgrInv
  <2> QED BY <1>1, <1>5, <2>2, <2>4, <2>5, <2>6, <2>7, <2>9, SentKeepsRest DEF IInv
<1> QED BY <1>3, <1>4, <1>5

\* An acknowledgement that is handled changes nothing of the rest, and opens no window of a
\* stream that is not started.
LEMMA AckKeepsRest ==
    ASSUME IInv, acks' \subseteq acks, ring'.total = ring.total, mgr'.alive = mgr.alive, mgr'.conn = mgr.conn,
           mgr'.id = mgr.id, mgr'.ended = mgr.ended, UNCHANGED <<prep, link, net, clientVars, late>>,
           restart.stage \in {"prepare", "asked", "start"} /\ mgr.conn /\ mgr.id = current =>
               mgr'.rwnd = mgr.rwnd
    PROVE  NetInv' /\ ReadersInv' /\ LoopsInv' /\ FileInv' /\ RestartInv' /\ QuietInv' /\ CountInv'
<1> USE DEF clientVars
<1>1. NetInv' /\ ReadersInv' /\ LoopsInv'
  BY DEF IInv, NetInv, ReadersInv, LoopsInv
<1>2. FileInv' /\ RestartInv' /\ CountInv'
  BY DEF IInv, FileInv, RestartInv, CountInv, NextSeq
<1>3. QuietInv'
  <2> SUFFICES ASSUME restart.stage \in {"prepare", "asked", "start"} PROVE QuietInv'
    BY DEF QuietInv
  <2> QED BY DEF IInv, QuietInv
<1> QED BY <1>1, <1>2, <1>3

LEMMA AcknowledgeKeeps ==
    ASSUME IInv, NEW ack, ack.seq \in Nat, ack.rwnd \in 0..ReadWindow, Acknowledge(ack), mgr.conn,
           ack.seq >= RingHead(ring), ack.seq - RingHead(ring) <= mgr.sent, UNCHANGED <<prep, current>>
    PROVE  /\ RingInv' /\ MgrInv' /\ SleepInv' /\ ring'.total = ring.total
           /\ mgr'.alive = mgr.alive /\ mgr'.conn = mgr.conn /\ mgr'.id = mgr.id /\ mgr'.ended = mgr.ended
<1> DEFINE n == ack.seq - RingHead(ring)
           r == [ring EXCEPT !.held = ring.held - n]
           w == Least(Cwnd, ack.rwnd)
           win == Least(w, RingSize)
<1>1. n \in 0..mgr.sent /\ n \in 0..ring.held
  BY Fields DEF RingHead
<1>2. w \in Nat /\ win \in 0..RingSize
  BY Fields DEF Least
<1>3. /\ mgr' = [mgr EXCEPT !.acked = <<ack.seq, ack.rwnd>>, !.sent = mgr.sent - n, !.rwnd = ack.rwnd]
      /\ ring' = Windowed(r, TRUE, w)
      /\ writer' = [writer EXCEPT !.waiting = n = 0 /\ StillWaits(r, TRUE, w)]
      /\ asleep' = (asleep /\ ~Wakes(n, ack))
  BY DEF Acknowledge, UnderWayAfter
<1>4. n = 0 /\ StillWaits(r, TRUE, w) => writer.waiting /\ ~(r.sync /\ win > r.win)
  BY DEF StillWaits
<1>5. ~Wakes(n, ack) => n = 0 /\ ack.rwnd <= mgr.rwnd
  BY <1>1, Fields DEF Wakes
<1> HIDE DEF n, w
<1>6. /\ r \in ARing /\ r.total = ring.total /\ r.held = ring.held - n /\ r.sync = ring.sync
      /\ r.win = ring.win
  <2>1. ring.held - n \in 0..RingSize
    BY <1>1, Fields
  <2> QED BY <2>1, Fields DEF ARing
<1> HIDE DEF r
<1>7. /\ ring' \in ARing /\ ring'.total = ring.total /\ ring'.sync = TRUE /\ ring'.win = win
      /\ ring'.held = ring.held - n
  BY <1>2, <1>3, <1>6, WindowedIs
<1> HIDE DEF win
<1>8. /\ mgr' \in AManager /\ mgr'.alive = mgr.alive /\ mgr'.conn = mgr.conn /\ mgr'.id = mgr.id
      /\ mgr'.ended = mgr.ended /\ mgr'.sent = mgr.sent - n /\ mgr'.rwnd = ack.rwnd
      /\ mgr'.endSent = mgr.endSent /\ mgr'.endAcked = mgr.endAcked
  <2>1. mgr.sent - n \in 0..RingSize
    BY <1>1, Fields
  <2> QED BY <1>3, <2>1, Fields DEF AManager
<1>9. PICK wt \in BOOLEAN : wt = (n = 0 /\ StillWaits(r, TRUE, w))
  OBVIOUS
<1>10. /\ writer' \in [chunk : 0..PacketSize, waiting : BOOLEAN, signal : BOOLEAN]
       /\ writer'.chunk = writer.chunk /\ writer'.signal = writer.signal /\ writer'.waiting = wt
  <2>1. writer \in [chunk : 0..PacketSize, waiting : BOOLEAN, signal : BOOLEAN]
    BY DEF IInv, RingInv
  <2>2. writer' = [writer EXCEPT !.waiting = wt]
    BY <1>3, <1>9
  <2> QED BY <2>1, <2>2
<1>11. RingInv'
  <2>1. ring'.held <= ring'.total
    BY <1>1, <1>7, Fields
  <2>2. ring'.total + writer'.chunk <= MaxBytes /\ (mgr'.ended # "no" => writer'.chunk = 0)
    BY <1>7, <1>8, <1>10 DEF IInv, RingInv
  <2>3. wt => n = 0 /\ writer.waiting /\ ~(ring.sync /\ win > ring.win)
    BY <1>4, <1>6, <1>9
  <2>4. wt => ring'.held >= win
    <3>1. wt => ring.sync /\ ring.held >= ring.win
      BY <2>3 DEF IInv, RingInv
    <3> QED BY <1>2, <1>7, <2>3, <3>1, Fields
  <2> QED BY <1>7, <1>10, <2>1, <2>2, <2>4 DEF RingInv
<1>12. MgrInv'
  <2>1. mgr'.sent <= ring'.held
    BY <1>1, <1>7, <1>8, Fields
  <2>2. asleep' \in BOOLEAN
    BY <1>3 DEF IInv, MgrInv
  <2>3. mgr'.conn /\ ring'.sync
    BY <1>7, <1>8
  <2> QED BY <1>7, <1>8, <2>1, <2>2, <2>3 DEF IInv, MgrInv
<1>13. SleepInv'
  <2> SUFFICES ASSUME asleep', ~mgr'.endAcked, HasTerminal' \/ HasData' PROVE writer'.signal
    BY DEF SleepInv
  <2>1. asleep /\ n = 0 /\ ack.rwnd <= mgr.rwnd
    BY <1>3, <1>5
  <2>2. ring'.held = ring.held /\ mgr'.sent = mgr.sent
    BY <1>7, <1>8, <2>1, Fields
  <2>3. HasData' => HasData
    BY <1>8, <2>1, <2>2, Fields DEF HasData, SendRoom, Least
  <2>4. HasTerminal' => HasTerminal
    BY <1>8, <2>2 DEF HasTerminal
  <2> QED BY <1>8, <1>10, <2>1, <2>3, <2>4 DEF IInv, SleepInv
<1> QED BY <1>7, <1>8, <1>11, <1>12, <1>13

LEMMA RecvAckKeeps ==
    ASSUME IInv, NEW ack \in acks, RecvAck(ack)
    PROVE  IInv'
<1>1. UNCHANGED <<prep, link, net, clientVars, late>> /\ acks' \subseteq acks
  BY DEF RecvAck
<1>2. ack.seq \in Nat /\ ack.rwnd \in 0..ReadWindow
  BY DEF IInv, NetInv
<1>3. CASE UNCHANGED <<ring, writer, mgr, asleep>>
  <2>1. RingInv' /\ MgrInv' /\ SleepInv'
    BY <1>1, <1>3 DEF IInv, RingInv, MgrInv, SleepInv, HasTerminal, HasData, SendRoom, clientVars
  <2> QED BY <1>1, <1>3, <2>1, AckKeepsRest DEF IInv
<1>4. CASE mgr' = [mgr EXCEPT !.endAcked = TRUE] /\ asleep' = FALSE /\ UNCHANGED <<ring, writer>>
  <2>1. /\ mgr' \in AManager /\ mgr'.alive = mgr.alive /\ mgr'.conn = mgr.conn /\ mgr'.id = mgr.id
        /\ mgr'.ended = mgr.ended /\ mgr'.sent = mgr.sent /\ mgr'.rwnd = mgr.rwnd
    BY <1>4, Fields DEF AManager
  <2>2. RingInv' /\ MgrInv' /\ SleepInv'
    BY <1>1, <1>4, <2>1 DEF IInv, RingInv, MgrInv, SleepInv, clientVars
  <2> QED BY <1>1, <1>4, <2>1, <2>2, AckKeepsRest DEF IInv
<1>5. CASE mgr' = [mgr EXCEPT !.acked = <<ack.seq, ack.rwnd>>] /\ UNCHANGED <<ring, writer, asleep>>
  <2>1. /\ mgr' \in AManager /\ mgr'.alive = mgr.alive /\ mgr'.conn = mgr.conn /\ mgr'.id = mgr.id
        /\ mgr'.ended = mgr.ended /\ mgr'.sent = mgr.sent /\ mgr'.rwnd = mgr.rwnd
        /\ mgr'.endSent = mgr.endSent /\ mgr'.endAcked = mgr.endAcked
    BY <1>2, <1>5, Fields DEF AManager
  <2>2. RingInv' /\ MgrInv' /\ SleepInv'
    BY <1>1, <1>5, <2>1
       DEF IInv, RingInv, MgrInv, SleepInv, HasTerminal, HasData, SendRoom, clientVars
  <2> QED BY <1>1, <1>5, <2>1, <2>2, AckKeepsRest DEF IInv
<1>6. CASE /\ Acknowledge(ack) /\ mgr.conn /\ ack.id = mgr.id /\ ~ack.fin
           /\ ~(ack.seq < RingHead(ring) \/ ack.seq - RingHead(ring) > mgr.sent)
  <2>1. ack.seq >= RingHead(ring) /\ ack.seq - RingHead(ring) <= mgr.sent
    BY <1>2, <1>6, Fields DEF RingHead
  <2>2. UNCHANGED <<prep, current>>
    BY <1>1 DEF clientVars
  <2>3. /\ RingInv' /\ MgrInv' /\ SleepInv' /\ ring'.total = ring.total
        /\ mgr'.alive = mgr.alive /\ mgr'.conn = mgr.conn /\ mgr'.id = mgr.id /\ mgr'.ended = mgr.ended
    BY <1>2, <1>6, <2>1, <2>2, AcknowledgeKeeps
  <2>4. restart.stage \in {"prepare", "asked", "start"} => mgr.id # current
    BY <1>6 DEF IInv, QuietInv
  <2> QED BY <1>1, <2>3, <2>4, AckKeepsRest DEF IInv
<1> QED BY <1>3, <1>4, <1>5, <1>6 DEF RecvAck

\* What one reader becomes: its counts stay, and while its stream is not started nothing comes into it.
ReaderMoves(s, t) ==
    /\ ReaderTrue(t, s, ring.total, mgr.ended)
    /\ t.next - Len(t.buf) = readers[s].next - Len(readers[s].buf)
    /\ ~late => t.next <= ring.total
    /\ s = current /\ restart.stage \in {"prepare", "asked", "start"} =>
           t.buf = readers[s].buf /\ t.next = readers[s].next /\ \A q \in t.ooo : q.end # "no"

LEMMA ReaderMovesKeeps ==
    ASSUME IInv, NEW s \in Streams, NEW t, ReaderMoves(s, t), readers' = [readers EXCEPT ![s] = t],
           UNCHANGED <<managerVars, loops, current, restart, file, gap, saved, late>>
    PROVE  /\ RingInv' /\ MgrInv' /\ SleepInv' /\ ReadersInv' /\ LoopsInv' /\ FileInv' /\ RestartInv' /\ CountInv'
           /\ restart.stage \in {"prepare", "asked", "start"} => \A q \in readers'[current].ooo : q.end # "no"
<1> USE DEF managerVars
<1>1. RingInv' /\ MgrInv' /\ SleepInv' /\ LoopsInv' /\ FileInv'
  BY DEF IInv, RingInv, MgrInv, SleepInv, LoopsInv, FileInv, HasTerminal, HasData, SendRoom, NextSeq
<1>2. readers \in [Streams -> AReader] /\ t \in AReader
  BY DEF IInv, ReadersInv, ReaderMoves, ReaderTrue
<1>3. readers' \in [Streams -> AReader] /\ readers'[s] = t /\ \A v \in Streams : v # s => readers'[v] = readers[v]
  BY <1>2
<1>4. ReadersInv'
  <2>1. \A v \in Streams : ReaderTrue(readers'[v], v, ring.total, mgr.ended)
    BY <1>3 DEF IInv, ReadersInv, ReaderMoves
  <2>2. ~late => \A v \in Streams : readers'[v].next <= ring.total
    BY <1>3 DEF IInv, ReadersInv, ReaderMoves
  <2> QED BY <1>3, <2>1, <2>2 DEF ReadersInv
<1>5. RestartInv'
  <2>1. current \in Streams
    BY DEF IInv, MgrInv
  <2>2. restart.stage \in {"prepare", "asked"} =>
            readers'[current].buf = readers[current].buf /\ readers'[current].next = readers[current].next
    BY <1>3, <2>1 DEF ReaderMoves
  <2> QED BY <2>2 DEF IInv, RestartInv, NextSeq
<1>6. CountInv'
  <2>1. current \in Streams
    BY DEF IInv, MgrInv
  <2>2. readers'[current].next - Len(readers'[current].buf) = readers[current].next - Len(readers[current].buf)
    BY <1>3, <2>1 DEF ReaderMoves
  <2>3. /\ NextSeq \in Nat /\ Len(loops[current].held) \in Nat
        /\ readers[current].next \in Nat /\ Len(readers[current].buf) \in Nat
        /\ readers'[current].next \in Nat /\ Len(readers'[current].buf) \in Nat
    <3>1. readers[current] \in AReader /\ readers'[current] \in AReader
      BY <1>2, <1>3, <2>1
    <3>2. /\ readers[current].next \in Nat /\ readers[current].buf \in Seq(Byte)
          /\ readers'[current].next \in Nat /\ readers'[current].buf \in Seq(Byte)
      BY <3>1 DEF AReader
    <3>3. file \in Seq(Byte) /\ gap \in Nat /\ loops[current].held \in Seq(Byte)
      BY <2>1 DEF IInv, FileInv, LoopsInv
    <3> QED BY <3>2, <3>3, LenProperties DEF NextSeq
  <2>4. PICK a \in Nat : a = NextSeq
    BY <2>3
  <2>5. PICK h \in Nat : h = Len(loops[current].held)
    BY <2>3
  <2>6. PICK x \in Nat : x = readers[current].next
    BY <2>3
  <2>7. PICK b \in Nat : b = Len(readers[current].buf)
    BY <2>3
  <2>8. PICK y \in Nat : y = readers'[current].next
    BY <2>3
  <2>9. PICK e \in Nat : e = Len(readers'[current].buf)
    BY <2>3
  <2>10. y - e = x - b
    BY <2>2, <2>6, <2>7, <2>8, <2>9
  <2>11. a + h + b = x => a + h + e = y
    BY <2>10
  <2>12. NextSeq + Len(loops[current].held) + Len(readers[current].buf) = readers[current].next =>
             NextSeq + Len(loops[current].held) + Len(readers'[current].buf) = readers'[current].next
    BY <2>4, <2>5, <2>6, <2>7, <2>8, <2>9, <2>11
  <2>13. NextSeq' = NextSeq
    BY DEF NextSeq
  <2> QED BY <2>12, <2>13 DEF IInv, CountInv
<1>7. restart.stage \in {"prepare", "asked", "start"} => \A q \in readers'[current].ooo : q.end # "no"
  <2>1. current \in Streams
    BY DEF IInv, MgrInv
  <2> QED BY <1>3, <2>1 DEF IInv, QuietInv, ReaderMoves
<1> QED BY <1>1, <1>4, <1>5, <1>6, <1>7

\* What a reader becomes with a packet it takes.
LEMMA TakesTrue ==
    ASSUME IInv, NEW p \in net, readers[p.id].ended = "no", p.end # "err" => p.seq = readers[p.id].next
    PROVE  LET r == readers[p.id]
               t == IF p.end = "err" THEN [r EXCEPT !.ended = "err"] ELSE Absorb(r, p)
           IN  /\ ReaderMoves(p.id, t) /\ t.next \in Nat /\ Room(t) \in 0..ReadWindow
               /\ p.end # "no" => t.ended # "no"
<1> DEFINE r == readers[p.id]
           t == IF p.end = "err" THEN [r EXCEPT !.ended = "err"] ELSE Absorb(r, p)
<1>1. PacketTrue(p, ring.total, mgr.ended) /\ p.id \in Streams /\ p.end \in Ends
  <2>1. PacketTrue(p, ring.total, mgr.ended)
    BY DEF IInv, NetInv
  <2> QED BY <2>1 DEF PacketTrue, APacket
<1>2. ReaderTrue(r, p.id, ring.total, mgr.ended) /\ (~late => r.next <= ring.total)
  BY <1>1 DEF IInv, ReadersInv
<1>3. p.id = current /\ restart.stage \in {"prepare", "asked", "start"} =>
          p.end # "no" /\ \A q \in r.ooo : q.end # "no"
  BY DEF IInv, QuietInv
<1>4. /\ ReaderTrue(t, p.id, ring.total, mgr.ended)
      /\ t.next - Len(t.buf) = r.next - Len(r.buf) /\ (~late => t.next <= ring.total)
      /\ t.ooo \subseteq r.ooo /\ (p.end # "no" => t.buf = r.buf /\ t.next = r.next /\ t.ended # "no")
  <2>1. CASE p.end = "err"
    <3>1. PICK u : u = [r EXCEPT !.ended = "err"]
      OBVIOUS
    <3>2. r \in AReader /\ mgr.ended = "err"
      BY <1>1, <1>2, <2>1 DEF ReaderTrue, PacketTrue
    <3>3. /\ u \in AReader /\ u.next = r.next /\ u.buf = r.buf /\ u.ooo = r.ooo /\ u.closed = r.closed
          /\ u.ended = "err"
      BY <3>1, <3>2 DEF AReader, Ends
    <3>4. ReaderTrue(u, p.id, ring.total, mgr.ended)
      BY <1>2, <3>2, <3>3 DEF ReaderTrue
    <3>5. t = u
      BY <2>1, <3>1
    <3> QED BY <1>2, <3>3, <3>4, <3>5
  <2>2. CASE p.end # "err"
    <3>1. PICK u : u = Absorb(r, p)
      OBVIOUS
    <3>2. ring.total \in Nat
      BY Fields
    <3>3. /\ ReaderTrue(u, p.id, ring.total, mgr.ended)
          /\ u.next - Len(u.buf) = r.next - Len(r.buf) /\ u.next <= ring.total /\ u.ooo \subseteq r.ooo
          /\ p.end # "no" => u.buf = r.buf /\ u.next = r.next /\ u.ended # "no"
      <4> HIDE DEF t
      <4> QED BY <1>1, <1>2, <2>2, <3>1, <3>2, AbsorbTrue
    <3>4. t = u
      BY <2>2, <3>1
    <3> QED BY <3>3, <3>4
  <2> QED BY <2>1, <2>2
<1> HIDE DEF t
<1>5. ReaderMoves(p.id, t)
  BY <1>3, <1>4 DEF ReaderMoves
<1>6. t.next \in Nat /\ Room(t) \in 0..ReadWindow
  <2>1. t \in AReader
    BY <1>4 DEF ReaderTrue
  <2>2. t.next \in Nat /\ t.buf \in Seq(Byte)
    BY <2>1 DEF AReader
  <2>3. PICK n \in Nat : n = Len(t.buf)
    BY <2>2, LenProperties
  <2>4. ReadWindow \in Nat
    BY Fields
  <2>5. Most(ReadWindow - n, 0) \in 0..ReadWindow
    BY <2>4 DEF Most
  <2> QED BY <2>2, <2>3, <2>5 DEF Room
<1> QED BY <1>4, <1>5, <1>6 DEF t

\* A packet less, and an acknowledgement more, which is final while the stream is not started.
LEMMA WireKeeps ==
    ASSUME IInv, net' \subseteq net, NEW ack, acks' \subseteq acks \cup {ack},
           ack.seq \in Nat, ack.rwnd \in 0..ReadWindow, acks' # acks => mgr.alive,
           restart.stage \in {"prepare", "asked", "start"} /\ ack.id = current => acks' = acks \/ ack.fin,
           restart.stage \in {"prepare", "asked", "start"} => \A q \in readers'[current].ooo : q.end # "no",
           UNCHANGED <<managerVars, link, current, restart>>
    PROVE  NetInv' /\ QuietInv'
<1> USE DEF managerVars
<1>1. NetInv'
  BY DEF IInv, NetInv
<1>2. QuietInv'
  BY DEF IInv, QuietInv
<1> QED BY <1>1, <1>2

LEMMA RecvDataKeeps ==
    ASSUME IInv, NEW p \in net, RecvData(p)
    PROVE  IInv'
<1> DEFINE r == readers[p.id]
           t == IF p.end = "err" THEN [r EXCEPT !.ended = "err"] ELSE Absorb(r, p)
           ack == AckOf(p.id, t, t.ended # "no")
           none == [seq |-> 0, rwnd |-> 0, id |-> 0, fin |-> TRUE]
<1>1. net' = net \ {p} /\ UNCHANGED <<managerVars, link, loops, current, restart, file, gap, saved, late>>
  BY DEF RecvData
<1>2. PacketTrue(p, ring.total, mgr.ended) /\ p.id \in Streams /\ p.seq \in Nat
  <2>1. PacketTrue(p, ring.total, mgr.ended)
    BY DEF IInv, NetInv
  <2> QED BY <2>1 DEF PacketTrue, APacket
<1>3. ReaderTrue(r, p.id, ring.total, mgr.ended) /\ (~late => r.next <= ring.total) /\ r.next \in Nat
      /\ readers \in [Streams -> AReader]
  <2>1. readers \in [Streams -> AReader] /\ ReaderTrue(r, p.id, ring.total, mgr.ended)
        /\ (~late => r.next <= ring.total)
    BY <1>2 DEF IInv, ReadersInv
  <2> QED BY <1>2, <2>1 DEF AReader
<1>4. /\ none.seq \in Nat /\ none.rwnd \in 0..ReadWindow /\ none.fin
  BY Fields
<1>5. CASE UNCHANGED <<readers, acks>>
  <2>1. ReaderMoves(p.id, r) /\ readers' = [readers EXCEPT ![p.id] = r]
    BY <1>2, <1>3, <1>5 DEF ReaderMoves, IInv, QuietInv
  <2>2. /\ RingInv' /\ MgrInv' /\ SleepInv' /\ ReadersInv' /\ LoopsInv' /\ FileInv' /\ RestartInv' /\ CountInv'
        /\ restart.stage \in {"prepare", "asked", "start"} => \A q \in readers'[current].ooo : q.end # "no"
    BY <1>1, <1>2, <2>1, ReaderMovesKeeps
  <2> HIDE DEF none
  <2>3. NetInv' /\ QuietInv'
    BY <1>1, <1>4, <1>5, <2>2, WireKeeps
  <2> QED BY <2>2, <2>3 DEF IInv
<1>6. CASE /\ readers' = [readers EXCEPT ![p.id] = KeepEarly(r, p)] /\ UNCHANGED acks
           /\ p.end # "err"
  <2>1. PICK u : u = KeepEarly(r, p)
    OBVIOUS
  <2>2. ReaderTrue(u, p.id, ring.total, mgr.ended) /\ u.buf = r.buf /\ u.next = r.next /\ u.ooo \subseteq r.ooo \cup {p}
    BY <1>2, <1>3, <1>6, <2>1, KeepEarlyTrue
  <2>3. ReaderMoves(p.id, u) /\ readers' = [readers EXCEPT ![p.id] = u]
    BY <1>3, <1>6, <2>1, <2>2 DEF ReaderMoves, IInv, QuietInv
  <2>4. /\ RingInv' /\ MgrInv' /\ SleepInv' /\ ReadersInv' /\ LoopsInv' /\ FileInv' /\ RestartInv' /\ CountInv'
        /\ restart.stage \in {"prepare", "asked", "start"} => \A q \in readers'[current].ooo : q.end # "no"
    BY <1>1, <1>2, <2>3, ReaderMovesKeeps
  <2> HIDE DEF none
  <2>5. NetInv' /\ QuietInv'
    BY <1>1, <1>4, <1>6, <2>4, WireKeeps
  <2> QED BY <2>4, <2>5 DEF IInv
<1>7. CASE /\ readers' = [readers EXCEPT ![p.id] = t] /\ SendAck(ack)
           /\ r.ended = "no" /\ (p.end # "err" => p.seq = r.next)
  <2>1. PICK u : u = t
    OBVIOUS
  <2>2. /\ ReaderMoves(p.id, u) /\ u.next \in Nat /\ Room(u) \in 0..ReadWindow
        /\ p.end # "no" => u.ended # "no"
    BY <1>7, <2>1, TakesTrue
  <2>3. readers' = [readers EXCEPT ![p.id] = u]
    BY <1>7, <2>1
  <2>4. /\ RingInv' /\ MgrInv' /\ SleepInv' /\ ReadersInv' /\ LoopsInv' /\ FileInv' /\ RestartInv' /\ CountInv'
        /\ restart.stage \in {"prepare", "asked", "start"} => \A q \in readers'[current].ooo : q.end # "no"
    BY <1>1, <1>2, <2>2, <2>3, ReaderMovesKeeps
  <2>5. PICK a : a = ack
    OBVIOUS
  <2>6. a.seq = u.next /\ a.rwnd = Room(u) /\ a.id = p.id /\ a.fin = (u.ended # "no")
    BY <2>1, <2>5 DEF AckOf
  <2>7. acks' \subseteq acks \cup {a} /\ (acks' # acks => mgr.alive)
    BY <1>7, <2>5 DEF SendAck
  <2>8. restart.stage \in {"prepare", "asked", "start"} /\ a.id = current => p.end # "no"
    BY <2>6 DEF IInv, QuietInv
  <2>9. restart.stage \in {"prepare", "asked", "start"} /\ a.id = current => acks' = acks \/ a.fin
    BY <2>2, <2>6, <2>8
  <2> HIDE DEF t, ack
  <2>10. a.seq \in Nat /\ a.rwnd \in 0..ReadWindow /\ net' \subseteq net
    BY <1>1, <2>2, <2>6
  <2>11. NetInv' /\ QuietInv'
    BY <1>1, <2>4, <2>7, <2>9, <2>10, WireKeeps
  <2> QED BY <2>4, <2>11 DEF IInv
<1>8. UNCHANGED <<readers, acks>> \/ ~(r.closed \/ r.ended # "no" \/ (p.end # "err" /\ p.seq < r.next))
  BY DEF RecvData
<1>9. ~(r.closed \/ r.ended # "no" \/ (p.end # "err" /\ p.seq < r.next)) =>
          IF p.end # "err" /\ Early(r, p)
          THEN readers' = [readers EXCEPT ![p.id] = KeepEarly(r, p)] /\ UNCHANGED acks
          ELSE readers' = [readers EXCEPT ![p.id] = t] /\ SendAck(ack)
  BY DEF RecvData
<1>10. ~(p.end # "err" /\ Early(r, p)) /\ ~(p.end # "err" /\ p.seq < r.next) =>
           (p.end # "err" => p.seq = r.next)
  BY <1>2, <1>3 DEF Early
<1> HIDE DEF t, ack
<1> QED BY <1>5, <1>6, <1>7, <1>8, <1>9, <1>10

\* What a file was stays its beginning when it grows.
LEMMA PrefixStays ==
    ASSUME NEW q \in Seq(Byte), NEW f \in Seq(Byte), NEW t \in Seq(Byte)
    PROVE  IsPrefix(f, f) /\ (IsPrefix(q, f) => IsPrefix(q, f \o t) /\ Len(q) <= Len(f))
<1>1. IsPrefix(f, f)
  BY LenProperties DEF IsPrefix
<1>2. ASSUME IsPrefix(q, f) PROVE IsPrefix(q, f \o t) /\ Len(q) <= Len(f)
  <2> DEFINE g == f \o t
             m == Len(q)
  <2>1. g \in Seq(Byte) /\ Len(g) = Len(f) + Len(t) /\ Len(f) \in Nat /\ Len(t) \in Nat /\ m \in Nat
        /\ \A i \in 1..(Len(f) + Len(t)) : g[i] = IF i <= Len(f) THEN f[i] ELSE t[i - Len(f)]
    BY ConcatProperties, LenProperties
  <2>2. m <= Len(f) /\ SubSeq(q, 1, m) = SubSeq(f, 1, m)
    BY <1>2 DEF IsPrefix
  <2> HIDE DEF g, m
  <2>3. m <= Len(g)
    BY <2>1, <2>2
  <2>4. \A i \in 1..m : f[i] \in Byte /\ g[i] = f[i]
    BY <2>1, <2>2
  <2>5. /\ SubSeq(f, 1, m) \in Seq(Byte) /\ Len(SubSeq(f, 1, m)) = m
        /\ \A i \in 1..m : SubSeq(f, 1, m)[i] = f[i]
    <3>1. 1 \in Int /\ m \in Int /\ (1 <= m => m - 1 + 1 = m) /\ (~(1 <= m) => m = 0)
          /\ \A i \in 1..m : i \in 1..(m - 1 + 1) /\ 1 + i - 1 = i
      BY <2>1
    <3> QED BY <2>4, <3>1, SubSeqProperties
  <2>6. /\ SubSeq(g, 1, m) \in Seq(Byte) /\ Len(SubSeq(g, 1, m)) = m
        /\ \A i \in 1..m : SubSeq(g, 1, m)[i] = g[i]
    <3>1. 1 \in Int /\ m \in Int /\ (1 <= m => m - 1 + 1 = m) /\ (~(1 <= m) => m = 0)
          /\ \A i \in 1..m : i \in 1..(m - 1 + 1) /\ 1 + i - 1 = i
      BY <2>1
    <3>2. \A i \in 1..m : g[i] \in Byte
      BY <2>4
    <3> QED BY <3>1, <3>2, SubSeqProperties
  <2>7. SubSeq(f, 1, m) = SubSeq(g, 1, m)
    BY <2>4, <2>5, <2>6, SeqEqual
  <2>8. SubSeq(q, 1, m) = SubSeq(g, 1, m)
    BY <2>2, <2>7
  <2> QED BY <2>2, <2>3, <2>8 DEF IsPrefix, g, m
<1> QED BY <1>1, <1>2

\* The manager's side does not change.
LEMMA ManagerStays ==
    ASSUME IInv, UNCHANGED managerVars, current' \in Streams, current <= current'
    PROVE  RingInv' /\ MgrInv' /\ SleepInv'
<1> USE DEF managerVars
<1>1. RingInv' /\ SleepInv'
  BY DEF IInv, RingInv, SleepInv, HasTerminal, HasData, SendRoom
<1>2. mgr.id \in Nat /\ prep.id \in Nat /\ current \in Nat /\ current' \in Nat
  BY Fields DEF Streams
<1>3. mgr.id <= current' /\ prep.id <= current'
  BY <1>2 DEF IInv, MgrInv
<1>4. MgrInv'
  BY <1>3 DEF IInv, MgrInv
<1> QED BY <1>1, <1>4

\* Another reader in the place of one.
LEMMA ReaderSet ==
    ASSUME IInv, NEW s \in Streams, NEW t, ReaderTrue(t, s, ring.total, mgr.ended),
           ~late' => ~late /\ t.next <= ring.total,
           readers' = [readers EXCEPT ![s] = t], ring' = ring, mgr'.ended = mgr.ended
    PROVE  ReadersInv' /\ readers'[s] = t /\ \A v \in Streams : v # s => readers'[v] = readers[v]
<1>1. readers \in [Streams -> AReader] /\ t \in AReader
  BY DEF IInv, ReadersInv, ReaderTrue
<1>2. readers' \in [Streams -> AReader] /\ readers'[s] = t /\ \A v \in Streams : v # s => readers'[v] = readers[v]
  BY <1>1
<1>3. \A v \in Streams : ReaderTrue(readers'[v], v, ring.total, mgr.ended)
  BY <1>2 DEF IInv, ReadersInv
<1>4. ~late' => \A v \in Streams : readers'[v].next <= ring.total
  BY <1>2 DEF IInv, ReadersInv
<1> QED BY <1>2, <1>3, <1>4 DEF ReadersInv

\* A loop takes what its reader has; one that a later stream has replaced drops it.
LEMMA LoopTakes ==
    ASSUME IInv, NEW s \in Streams, loops[s].at = "read", readers[s].buf # <<>>,
           LET r2 == [readers[s] EXCEPT !.buf = <<>>]
           IN  /\ readers' = [readers EXCEPT ![s] = IF current = s THEN r2 ELSE ClosedReader]
               /\ SendAck(AckOf(s, r2, FALSE))
               /\ loops' = [loops EXCEPT ![s] = IF current = s THEN [at |-> "append", held |-> readers[s].buf]
                                                ELSE [at |-> "none", held |-> <<>>]],
           UNCHANGED <<managerVars, link, net, current, restart, file, gap, saved, late>>
    PROVE  IInv'
<1> USE DEF managerVars
<1> DEFINE r == readers[s]
           r2 == [r EXCEPT !.buf = <<>>]
           t == IF current = s THEN r2 ELSE ClosedReader
           l == IF current = s THEN [at |-> "append", held |-> r.buf] ELSE [at |-> "none", held |-> <<>>]
           ack == AckOf(s, r2, FALSE)
<1>1. RingInv' /\ MgrInv' /\ SleepInv'
  <2>1. current' \in Streams /\ current <= current'
    BY Fields
  <2> QED BY <2>1, ManagerStays
<1>2. ReaderTrue(r, s, ring.total, mgr.ended) /\ (~late => r.next <= ring.total) /\ r \in AReader
      /\ r.next \in Nat /\ r.buf \in Seq(Byte)
  <2>1. ReaderTrue(r, s, ring.total, mgr.ended) /\ (~late => r.next <= ring.total)
    BY DEF IInv, ReadersInv
  <2> QED BY <2>1 DEF ReaderTrue, AReader
<1>3. ReaderTrue(r2, s, ring.total, mgr.ended) /\ r2.next = r.next /\ r2.buf = <<>> /\ r2.ooo = r.ooo
  <2>1. /\ r2 \in AReader /\ r2.next = r.next /\ r2.buf = <<>> /\ r2.ooo = r.ooo /\ r2.ended = r.ended
        /\ r2.closed = r.closed
    <3>1. <<>> \in Seq(Byte)
      OBVIOUS
    <3> HIDE DEF r
    <3> QED BY <1>2, <3>1 DEF AReader
  <2>2. Len(<<>>) = 0 /\ \A q : From(<<>>, q)
    BY DEF From
  <2> HIDE DEF r2
  <2> QED BY <1>2, <2>1, <2>2 DEF ReaderTrue
<1>4. /\ ReaderTrue(t, s, ring.total, mgr.ended) /\ (~late' => ~late /\ t.next <= ring.total)
      /\ s = current => t.next = r.next /\ t.buf = <<>> /\ t.ooo = r.ooo
  <2>1. ReaderTrue(ClosedReader, s, ring.total, mgr.ended) /\ ClosedReader.next = 0 /\ 0 \in Nat
    BY NewReaderTrue
  <2>2. 0 <= ring.total
    BY Fields
  <2> HIDE DEF r2, r
  <2> QED BY <1>2, <1>3, <2>1, <2>2
<1>5. /\ ReadersInv' /\ readers'[s] = t
      /\ \A v \in Streams : v # s => readers'[v] = readers[v]
  <2> HIDE DEF t
  <2>1. readers' = [readers EXCEPT ![s] = t]
    BY DEF t
  <2> QED BY <1>4, <2>1, ReaderSet
<1>6. /\ l \in [at : {"none", "read", "append"}, held : Seq(Byte)]
      /\ l.at = "append" <=> l.held # <<>>
      /\ s = current => l.at = "append" /\ l.held = r.buf
  <2>1. r.buf # <<>> /\ <<>> \in Seq(Byte)
    OBVIOUS
  <2> HIDE DEF r
  <2> QED BY <1>2, <2>1
<1>7. loops' = [loops EXCEPT ![s] = l] /\ loops \in [Streams -> [at : {"none", "read", "append"}, held : Seq(Byte)]]
  BY DEF IInv, LoopsInv
<1>8. /\ loops' \in [Streams -> [at : {"none", "read", "append"}, held : Seq(Byte)]]
      /\ loops'[s] = l /\ \A v \in Streams : v # s => loops'[v] = loops[v]
  <2> HIDE DEF l
  <2> QED BY <1>6, <1>7
<1>9. s <= current /\ (s = current => restart.stage \notin Restarting)
  <2>1. ~(s > current)
    BY DEF IInv, LoopsInv
  <2>2. s \in Nat /\ current \in Nat
    BY Fields DEF Streams
  <2> QED BY <2>1, <2>2 DEF IInv, RestartInv
<1>10. ack.seq \in Nat /\ ack.rwnd \in 0..ReadWindow /\ ack.id = s
  <2>1. PICK u : u = r2
    OBVIOUS
  <2>2. Room(u) \in 0..ReadWindow /\ u.next \in Nat
    <3>1. ReadWindow \in Nat /\ Len(<<>>) = 0 /\ u.buf = <<>> /\ u.next = r.next
      BY <1>3, <2>1, Fields
    <3>2. Room(u) = Most(ReadWindow - 0, 0)
      BY <3>1 DEF Room
    <3> QED BY <1>2, <3>1, <3>2 DEF Most
  <2> HIDE DEF r2
  <2> QED BY <2>1, <2>2 DEF AckOf
<1>11. acks' \subseteq acks \cup {ack} /\ (acks' # acks => mgr.alive)
  <2>1. SendAck(ack)
    OBVIOUS
  <2> HIDE DEF ack
  <2> QED BY <2>1 DEF SendAck
<1> HIDE DEF r2, t, l, ack
<1>12. NetInv' /\ QuietInv'
  <2>1. restart.stage \in {"prepare", "asked", "start"} => s # current
    BY <1>9 DEF Restarting
  <2>2. current \in Streams
    BY Fields
  <2>3. restart.stage \in {"prepare", "asked", "start"} => \A q \in readers'[current].ooo : q.end # "no"
    BY <1>5, <2>1, <2>2 DEF IInv, QuietInv
  <2> QED BY <1>10, <1>11, <2>1, <2>3, WireKeeps
<1>13. LoopsInv'
  <2> SUFFICES ASSUME NEW v \in Streams
               PROVE  (loops'[v].at = "append" <=> loops'[v].held # <<>>) /\ (v > current => loops'[v].at = "none")
    BY <1>8 DEF LoopsInv
  <2>1. CASE v = s
    <3>1. ~(v > current)
      BY <1>9, <2>1, Fields DEF Streams
    <3> QED BY <1>6, <1>8, <2>1, <3>1
  <2>2. CASE v # s
    BY <1>8, <2>2 DEF IInv, LoopsInv
  <2> QED BY <2>1, <2>2
<1>14. FileInv'
  BY DEF IInv, FileInv, NextSeq
<1>15. RestartInv'
  <2>1. restart.stage \in Restarting => loops'[current] = loops[current] /\ readers'[current] = readers[current]
    BY <1>5, <1>8, <1>9, Fields
  <2> QED BY <2>1 DEF IInv, RestartInv, NextSeq, Restarting
<1>16. CountInv'
  <2>1. CASE s = current
    <3> SUFFICES ASSUME ~late PROVE CountInv'
      BY DEF CountInv
    <3>1. NextSeq + Len(loops[current].held) + Len(readers[current].buf) = readers[current].next
      BY <2>1 DEF IInv, CountInv
    <3>2. loops[current].held = <<>>
      BY <2>1, Fields DEF IInv, LoopsInv
    <3>3. NextSeq \in Nat /\ Len(r.buf) \in Nat /\ Len(<<>>) = 0
      BY <1>2, LenProperties DEF IInv, FileInv, NextSeq
    <3>4. r.next - Len(r.buf) = NextSeq /\ NextSeq + Len(r.buf) + 0 = r.next
      BY <1>2, <2>1, <3>1, <3>2, <3>3
    <3>5. From(r.buf, NextSeq)
      BY <1>2, <3>4 DEF ReaderTrue
    <3>6. NextSeq' = NextSeq /\ loops'[current].held = r.buf /\ readers'[current].buf = <<>> /\ readers'[current].next = r.next
      BY <1>4, <1>5, <1>6, <1>8, <2>1 DEF NextSeq
    <3> HIDE DEF r
    <3> QED BY <3>3, <3>4, <3>5, <3>6 DEF CountInv
  <2>2. CASE s # current
    <3>1. loops'[current] = loops[current] /\ readers'[current] = readers[current]
      BY <1>5, <1>8, <2>2, Fields
    <3> QED BY <3>1 DEF IInv, CountInv, NextSeq
  <2> QED BY <2>1, <2>2
<1> QED BY <1>1, <1>5, <1>12, <1>13, <1>14, <1>15, <1>16 DEF IInv

\* A loop that reads the end stops, and its reader is closed.
LEMMA LoopStops ==
    ASSUME IInv, NEW s \in Streams, loops[s].at = "read", CloseReader(s),
           loops' = [loops EXCEPT ![s].at = "none"],
           UNCHANGED <<managerVars, link, net, acks, current, restart, file, gap, saved, late>>
    PROVE  IInv'
<1> USE DEF managerVars
<1>1. RingInv' /\ MgrInv' /\ SleepInv'
  <2>1. current' \in Streams /\ current <= current'
    BY Fields
  <2> QED BY <2>1, ManagerStays
<1>2. /\ ReaderTrue(ClosedReader, s, ring.total, mgr.ended) /\ ClosedReader.next = 0
      /\ ClosedReader.ooo = {}
  <2>1. 0 \in Nat
    OBVIOUS
  <2> QED BY <2>1, NewReaderTrue
<1>3. /\ ReadersInv' /\ readers'[s] = ClosedReader
      /\ \A v \in Streams : v # s => readers'[v] = readers[v]
  <2>1. 0 <= ring.total
    BY Fields
  <2> QED BY <1>2, <2>1, ReaderSet DEF CloseReader
<1>4. /\ loops' \in [Streams -> [at : {"none", "read", "append"}, held : Seq(Byte)]]
      /\ loops'[s].at = "none" /\ loops'[s].held = loops[s].held
      /\ \A v \in Streams : v # s => loops'[v] = loops[v]
  BY DEF IInv, LoopsInv
<1>5. s = current => restart.stage \notin Restarting
  BY DEF IInv, RestartInv
<1>6. NetInv' /\ FileInv'
  BY DEF IInv, NetInv, FileInv, NextSeq
<1>7. QuietInv'
  BY <1>3, <1>5, Fields DEF IInv, QuietInv, Restarting
<1>8. LoopsInv'
  <2> SUFFICES ASSUME NEW v \in Streams
               PROVE  (loops'[v].at = "append" <=> loops'[v].held # <<>>) /\ (v > current => loops'[v].at = "none")
    BY <1>4 DEF LoopsInv
  <2> QED BY <1>4 DEF IInv, LoopsInv
<1>9. RestartInv'
  <2>1. restart.stage \in Restarting => loops'[current] = loops[current] /\ readers'[current] = readers[current]
    BY <1>3, <1>4, <1>5, Fields
  <2> QED BY <2>1 DEF IInv, RestartInv, NextSeq, Restarting
<1>10. CountInv'
  <2>1. CASE s = current
    BY <1>4, <1>5, <2>1 DEF CountInv
  <2>2. CASE s # current
    <3>1. loops'[current] = loops[current] /\ readers'[current] = readers[current]
      BY <1>3, <1>4, <2>2, Fields
    <3> QED BY <3>1 DEF IInv, CountInv, NextSeq
  <2> QED BY <2>1, <2>2
<1> QED BY <1>1, <1>3, <1>6, <1>7, <1>8, <1>9, <1>10 DEF IInv

LEMMA LoopReadKeeps ==
    ASSUME IInv, NEW s \in Streams, LoopRead(s)
    PROVE  IInv'
<1>1. CASE readers[s].ended # "err" /\ readers[s].buf # <<>>
  BY <1>1, LoopTakes DEF LoopRead
<1>2. CASE ~(readers[s].ended # "err" /\ readers[s].buf # <<>>)
  BY <1>2, LoopStops DEF LoopRead
<1> QED BY <1>1, <1>2

LEMMA LoopAppendKeeps ==
    ASSUME IInv, NEW s \in Streams, LoopAppend(s)
    PROVE  IInv'
<1> USE DEF managerVars
<1> DEFINE h == loops[s].held
<1>1. /\ loops[s].at = "append" /\ file' = file \o h
      /\ loops' = [loops EXCEPT ![s] = [at |-> "read", held |-> <<>>]]
      /\ late' = (late \/ current # s \/ restart.stage = "set")
      /\ UNCHANGED <<managerVars, link, net, acks, readers, current, restart, gap, saved>>
  BY DEF LoopAppend
<1>2. RingInv' /\ MgrInv' /\ SleepInv'
  <2>1. current' \in Streams /\ current <= current'
    BY <1>1, Fields
  <2> QED BY <1>1, <2>1, ManagerStays
<1>3. /\ h \in Seq(Byte) /\ <<>> \in Seq(Byte)
      /\ loops \in [Streams -> [at : {"none", "read", "append"}, held : Seq(Byte)]]
  BY DEF IInv, LoopsInv
<1>4. /\ loops' \in [Streams -> [at : {"none", "read", "append"}, held : Seq(Byte)]]
      /\ loops'[s].at = "read" /\ loops'[s].held = <<>>
      /\ \A v \in Streams : v # s => loops'[v] = loops[v]
  BY <1>1, <1>3
<1>5. s <= current /\ (s = current => restart.stage \notin Restarting)
  <2>1. ~(s > current)
    BY <1>1 DEF IInv, LoopsInv
  <2>2. s \in Nat /\ current \in Nat
    BY Fields DEF Streams
  <2> QED BY <1>1, <2>1, <2>2 DEF IInv, RestartInv
<1>6. /\ file' \in Seq(Byte) /\ NextSeq' = NextSeq + Len(h) /\ NextSeq \in Nat /\ Len(h) \in Nat
      /\ IsPrefix(saved.file, file')
  <2>1. file \in Seq(Byte) /\ gap \in Nat /\ saved.file \in Seq(Byte) /\ IsPrefix(saved.file, file)
    BY DEF IInv, FileInv
  <2>2. file' \in Seq(Byte) /\ Len(file') = Len(file) + Len(h) /\ Len(file) \in Nat /\ Len(h) \in Nat
    BY <1>1, <1>3, <2>1, ConcatProperties, LenProperties
  <2>3. NextSeq' = Len(file') + gap /\ NextSeq = Len(file) + gap
    BY <1>1 DEF NextSeq
  <2>4. IsPrefix(saved.file, file')
    BY <1>1, <1>3, <2>1, PrefixStays
  <2>5. PICK a \in Nat : a = Len(file)
    BY <2>2
  <2>6. PICK n \in Nat : n = Len(h)
    BY <2>2
  <2>7. NextSeq' = (a + n) + gap /\ NextSeq = a + gap
    BY <2>2, <2>3, <2>5, <2>6
  <2>8. NextSeq' = NextSeq + n /\ NextSeq \in Nat
    BY <2>1, <2>7
  <2> HIDE DEF h
  <2> QED BY <2>2, <2>4, <2>6, <2>8
<1> HIDE DEF h
<1>7. NetInv' /\ QuietInv'
  BY <1>1 DEF IInv, NetInv, QuietInv
<1>8. ReadersInv'
  BY <1>1 DEF IInv, ReadersInv
<1>9. LoopsInv'
  <2> SUFFICES ASSUME NEW v \in Streams
               PROVE  (loops'[v].at = "append" <=> loops'[v].held # <<>>) /\ (v > current => loops'[v].at = "none")
    BY <1>1, <1>4 DEF LoopsInv
  <2>1. CASE v = s
    <3>1. ~(v > current)
      BY <1>5, <2>1, Fields DEF Streams
    <3> QED BY <1>4, <2>1, <3>1
  <2>2. CASE v # s
    BY <1>4, <2>2 DEF IInv, LoopsInv
  <2> QED BY <2>1, <2>2
<1>10. ~late' => /\ NextSeq' + 0 + Len(readers[current].buf) = readers[current].next
                 /\ NextSeq' <= ring.total
  <2> SUFFICES ASSUME ~late, s = current
               PROVE  /\ NextSeq' + 0 + Len(readers[current].buf) = readers[current].next
                      /\ NextSeq' <= ring.total
    BY <1>1
  <2>1. NextSeq + Len(h) + Len(readers[current].buf) = readers[current].next
    BY <1>1 DEF IInv, CountInv, h
  <2>2. readers[current] \in AReader /\ readers[current].next <= ring.total
    BY DEF IInv, ReadersInv
  <2>3. Len(readers[current].buf) \in Nat /\ readers[current].next \in Nat
    BY <2>2, LenProperties DEF AReader
  <2>4. PICK b \in Nat : b = Len(readers[current].buf)
    BY <2>3
  <2>5. PICK n \in Nat : n = Len(h)
    BY <1>6
  <2>6. ring.total \in Nat
    BY Fields
  <2>7. PICK x \in Nat : x = NextSeq
    BY <1>6
  <2>8. PICK y \in Nat : y = readers[current].next
    BY <2>3
  <2>9. x + n + b = y /\ y <= ring.total /\ NextSeq' = x + n
    BY <1>6, <2>1, <2>2, <2>4, <2>5, <2>7, <2>8
  <2>10. (x + n) + 0 + b = y /\ x + n <= ring.total
    BY <2>6, <2>9
  <2> QED BY <2>4, <2>8, <2>9, <2>10
<1>11. FileInv'
  <2>1. ~late' => NextSeq' <= ring'.total
    BY <1>1, <1>10
  <2> QED BY <1>1, <1>6, <2>1 DEF IInv, FileInv
<1>12. RestartInv'
  <2>1. restart.stage \in Restarting => late' /\ loops'[current] = loops[current]
    BY <1>1, <1>4, <1>5, Fields
  <2> QED BY <1>1, <2>1 DEF IInv, RestartInv, Restarting
<1>13. CountInv'
  <2> SUFFICES ASSUME ~late', s = current PROVE CountInv'
    BY <1>1 DEF CountInv
  <2>1. loops'[current].held = <<>> /\ Len(<<>>) = 0 /\ From(<<>>, NextSeq')
    BY <1>4 DEF From
  <2> QED BY <1>1, <1>10, <2>1 DEF CountInv
<1> QED BY <1>2, <1>7, <1>8, <1>9, <1>11, <1>12, <1>13 DEF IInv

LEMMA FlushFileKeeps ==
    ASSUME IInv, FlushFile
    PROVE  IInv'
<1>1. /\ saved' = [file |-> file, gap |-> gap]
      /\ UNCHANGED <<managerVars, link, net, acks, readers, loops, current, restart, file, gap, late>>
  BY DEF FlushFile
<1>2. RingInv' /\ MgrInv' /\ SleepInv'
  <2>1. current' \in Streams /\ current <= current'
    BY <1>1, Fields
  <2> QED BY <1>1, <2>1, ManagerStays
<1>3. NetInv' /\ ReadersInv' /\ LoopsInv' /\ QuietInv'
  BY <1>1 DEF IInv, NetInv, ReadersInv, LoopsInv, QuietInv, managerVars
<1>4. RestartInv' /\ CountInv'
  BY <1>1 DEF IInv, RestartInv, CountInv, NextSeq, managerVars
<1>5. FileInv'
  <2>1. file \in Seq(Byte) /\ gap \in Nat /\ IsPrefix(file, file)
    BY PrefixStays DEF IInv, FileInv
  <2>2. saved'.file = file /\ saved'.gap = gap /\ saved' \in [file : Seq(Byte), gap : Nat] /\ gap <= gap
    BY <1>1, <2>1
  <2> QED BY <1>1, <2>1, <2>2 DEF IInv, FileInv, NextSeq, managerVars
<1> QED BY <1>2, <1>3, <1>4, <1>5 DEF IInv

\* The connection goes, with all that is under way.
LEMMA LoseKeeps ==
    ASSUME IInv, Lose, UNCHANGED <<ring, writer, asleep, current>>
    PROVE  /\ RingInv' /\ MgrInv' /\ SleepInv' /\ NetInv'
           /\ mgr'.conn = mgr.conn /\ mgr'.id = mgr.id /\ mgr'.rwnd = mgr.rwnd /\ mgr'.ended = mgr.ended
           /\ prep'.id = prep.id
<1>1. /\ mgr' = [mgr EXCEPT !.alive = FALSE] /\ prep' = [prep EXCEPT !.alive = FALSE]
      /\ net' = {} /\ acks' = {}
  BY DEF Lose
<1>2. /\ mgr' \in AManager /\ mgr'.alive = FALSE /\ mgr'.conn = mgr.conn /\ mgr'.id = mgr.id
      /\ mgr'.ended = mgr.ended /\ mgr'.sent = mgr.sent /\ mgr'.rwnd = mgr.rwnd
      /\ mgr'.endSent = mgr.endSent /\ mgr'.endAcked = mgr.endAcked
  BY <1>1, Fields DEF AManager
<1>3. /\ prep' \in APreparation /\ prep'.alive = FALSE /\ prep'.stage = prep.stage
      /\ prep'.head = prep.head /\ prep'.id = prep.id
  BY <1>1, Fields DEF APreparation
<1>4. RingInv' /\ SleepInv'
  BY <1>2 DEF IInv, RingInv, SleepInv, HasTerminal, HasData, SendRoom
<1>5. MgrInv'
  BY <1>2, <1>3 DEF IInv, MgrInv
<1>6. NetInv'
  BY <1>1, <1>2, <1>3 DEF NetInv
<1> QED BY <1>2, <1>3, <1>4, <1>5, <1>6

LEMMA DropKeeps ==
    ASSUME IInv, Drop
    PROVE  IInv'
<1>1. Lose /\ UNCHANGED <<ring, writer, asleep, clientVars, late>>
  BY DEF Drop
<1>2. /\ RingInv' /\ MgrInv' /\ SleepInv' /\ NetInv'
      /\ mgr'.conn = mgr.conn /\ mgr'.id = mgr.id /\ mgr'.rwnd = mgr.rwnd /\ mgr'.ended = mgr.ended
      /\ prep'.id = prep.id
  BY <1>1, LoseKeeps DEF clientVars
<1>3. net' = {} /\ acks' = {}
  BY <1>1 DEF Lose
<1>4. ReadersInv' /\ LoopsInv' /\ QuietInv'
  BY <1>1, <1>2, <1>3 DEF IInv, ReadersInv, LoopsInv, QuietInv, clientVars
<1>5. FileInv' /\ RestartInv' /\ CountInv'
  BY <1>1, <1>2 DEF IInv, FileInv, RestartInv, CountInv, NextSeq, clientVars
<1> QED BY <1>2, <1>4, <1>5 DEF IInv

LEMMA CrashKeeps ==
    ASSUME IInv, Crash
    PROVE  IInv'
<1>1. /\ Lose
      /\ readers' = [s \in Streams |-> ClosedReader]
      /\ loops' = [s \in Streams |-> [at |-> "none", held |-> <<>>]]
      /\ restart' = [stage |-> "idle", seq |-> 0, reply |-> -1]
      /\ file' = saved.file /\ gap' = saved.gap
      /\ UNCHANGED <<ring, writer, asleep, current, saved, late>>
  BY DEF Crash
<1>2. RingInv' /\ MgrInv' /\ SleepInv' /\ NetInv' /\ mgr'.ended = mgr.ended
  BY <1>1, LoseKeeps
<1>3. /\ \A s \in Streams : ReaderTrue(ClosedReader, s, ring.total, mgr.ended)
      /\ ClosedReader.next <= ring.total /\ ClosedReader \in AReader
  <2>1. current \in Streams /\ 0 <= ring.total /\ 0 \in Nat
    BY Fields
  <2>2. /\ \A s \in Streams : ReaderTrue(ClosedReader, s, ring.total, mgr.ended)
        /\ ClosedReader.next = 0
    BY <2>1, NewReaderTrue
  <2> QED BY <2>1, <2>2 DEF ReaderTrue
<1>4. ReadersInv'
  BY <1>1, <1>2, <1>3 DEF ReadersInv
<1>5. LoopsInv'
  BY <1>1 DEF LoopsInv
<1>6. /\ restart' \in ARestart /\ restart'.stage = "idle"
  BY <1>1 DEF ARestart
<1>7. RestartInv' /\ QuietInv' /\ CountInv'
  <2>1. loops'[current'].at = "none"
    BY <1>1, Fields
  <2>2. restart'.stage \notin Restarting \cup {"stat", "set", "prepare", "asked", "start"}
    BY <1>6 DEF Restarting
  <2> QED BY <1>6, <2>1, <2>2 DEF RestartInv, QuietInv, CountInv
<1>8. FileInv'
  <2>1. /\ file \in Seq(Byte) /\ gap \in Nat /\ saved.file \in Seq(Byte) /\ saved.gap \in Nat
        /\ saved.gap <= gap /\ saved \in [file : Seq(Byte), gap : Nat] /\ IsPrefix(saved.file, file)
    BY DEF IInv, FileInv
  <2>2. IsPrefix(saved.file, saved.file) /\ Len(saved.file) <= Len(file)
    BY <2>1, PrefixStays
  <2>3. Len(saved.file) + saved.gap <= Len(file) + gap
    <3>1. PICK a \in Nat : a = Len(saved.file)
      BY <2>1, LenProperties
    <3>2. PICK c \in Nat : c = Len(file)
      BY <2>1, LenProperties
    <3> QED BY <2>1, <2>2, <3>1, <3>2
  <2>4. ~late' => NextSeq' <= ring'.total
    <3>1. NextSeq' = Len(saved.file) + saved.gap /\ NextSeq = Len(file) + gap
      BY <1>1 DEF NextSeq
    <3>2. NextSeq \in Nat /\ NextSeq' \in Nat /\ ring.total \in Nat
      <4>1. Len(saved.file) \in Nat /\ Len(file) \in Nat
        BY <2>1, LenProperties
      <4>2. Len(saved.file) + saved.gap \in Nat /\ Len(file) + gap \in Nat
        BY <2>1, <4>1
      <4>3. ring.total \in Nat
        BY Fields
      <4> QED BY <3>1, <4>2, <4>3
    <3>3. ~late => NextSeq <= ring.total
      BY DEF IInv, FileInv
    <3>4. NextSeq' <= NextSeq
      BY <2>3, <3>1
    <3> QED BY <1>1, <3>2, <3>3, <3>4
  <2> QED BY <1>1, <2>1, <2>2, <2>4 DEF FileInv
<1> QED BY <1>2, <1>4, <1>5, <1>7, <1>8 DEF IInv

LEMMA ReconnectKeeps ==
    ASSUME IInv, Reconnect
    PROVE  IInv'
<1>1. /\ ~link /\ restart.stage = "idle" /\ current < MaxStreams
      /\ restart' = [restart EXCEPT !.stage = "stat"]
      /\ UNCHANGED <<managerVars, net, acks, readers, loops, current, file, gap, saved, late>>
  BY DEF Reconnect
<1>2. RingInv' /\ MgrInv' /\ SleepInv'
  <2>1. current' \in Streams /\ current <= current'
    BY <1>1, Fields
  <2> QED BY <1>1, <2>1, ManagerStays
<1>3. restart' \in ARestart /\ restart'.stage = "stat"
  BY <1>1 DEF IInv, RestartInv, ARestart
<1>4. restart'.stage \notin Restarting \cup {"prepare", "asked", "start"} /\ restart.stage \notin Restarting
  BY <1>1, <1>3 DEF Restarting
<1>5. NetInv' /\ ReadersInv' /\ LoopsInv' /\ FileInv'
  BY <1>1 DEF IInv, NetInv, ReadersInv, LoopsInv, FileInv, NextSeq, managerVars
<1>6. QuietInv' /\ RestartInv'
  BY <1>1, <1>3, <1>4 DEF QuietInv, RestartInv
<1>7. CountInv'
  BY <1>1, <1>4 DEF IInv, CountInv, NextSeq
<1> QED BY <1>2, <1>5, <1>6, <1>7 DEF IInv

LEMMA StatFileKeeps ==
    ASSUME IInv, StatFile
    PROVE  IInv'
<1>1. /\ restart.stage = "stat" /\ restart' = [stage |-> "set", seq |-> NextSeq, reply |-> -1]
      /\ UNCHANGED <<managerVars, link, net, acks, readers, loops, current, file, gap, saved, late>>
  BY DEF StatFile
<1>2. RingInv' /\ MgrInv' /\ SleepInv'
  <2>1. current' \in Streams /\ current <= current'
    BY <1>1, Fields
  <2> QED BY <1>1, <2>1, ManagerStays
<1>3. NextSeq \in Nat /\ NextSeq' = NextSeq
  BY <1>1, LenProperties DEF IInv, FileInv, NextSeq
<1>4. /\ restart' \in ARestart /\ restart'.stage = "set" /\ restart'.seq = NextSeq /\ restart'.reply = -1
  BY <1>1, <1>3 DEF ARestart
<1>5. restart'.stage \notin Restarting \cup {"stat", "prepare", "asked", "start"} /\ restart.stage \notin Restarting
  BY <1>1, <1>4 DEF Restarting
<1>6. NetInv' /\ ReadersInv' /\ LoopsInv' /\ FileInv'
  BY <1>1 DEF IInv, NetInv, ReadersInv, LoopsInv, FileInv, NextSeq, managerVars
<1>7. QuietInv' /\ RestartInv'
  BY <1>1, <1>3, <1>4, <1>5 DEF IInv, QuietInv, RestartInv
<1>8. CountInv'
  BY <1>1, <1>5 DEF IInv, CountInv, NextSeq
<1> QED BY <1>2, <1>6, <1>7, <1>8 DEF IInv

LEMMA SetStreamKeeps ==
    ASSUME IInv, SetStream
    PROVE  IInv'
<1> DEFINE seq == restart.seq
<1>1. /\ restart.stage = "set" /\ current' = current + 1
      /\ readers' = [readers EXCEPT ![current + 1] = NewReader(seq)]
      /\ restart' = [restart EXCEPT !.stage = "prepare"]
      /\ UNCHANGED <<managerVars, link, net, acks, loops, file, gap, saved, late>>
  BY DEF SetStream
<1>2. current \in Nat /\ current < MaxStreams /\ current' \in Streams /\ current <= current' /\ current < current'
  <2>1. current \in 1..MaxStreams /\ MaxStreams \in Nat /\ current < MaxStreams
    BY <1>1, Fields DEF Streams, IInv, RestartInv
  <2> QED BY <1>1, <2>1 DEF Streams
<1>3. RingInv' /\ MgrInv' /\ SleepInv'
  BY <1>1, <1>2, ManagerStays
<1>4. /\ seq \in Nat /\ NextSeq \in Nat /\ NextSeq' = NextSeq
      /\ late \/ (seq = NextSeq /\ NextSeq <= ring.total)
  <2>1. seq \in Nat /\ (late \/ seq = NextSeq)
    BY <1>1, Fields DEF IInv, RestartInv
  <2>2. NextSeq \in Nat /\ NextSeq' = NextSeq
    BY <1>1, LenProperties DEF IInv, FileInv, NextSeq
  <2>3. late \/ NextSeq <= ring.total
    BY DEF IInv, FileInv
  <2> QED BY <2>1, <2>2, <2>3
<1>5. PICK t : t = NewReader(seq)
  OBVIOUS
<1> HIDE DEF seq
<1>6. ReaderTrue(t, current', ring.total, mgr.ended) /\ t.next = seq /\ t.buf = <<>> /\ t.ooo = {}
  BY <1>2, <1>4, <1>5, NewReaderTrue
<1>7. ReadersInv' /\ readers'[current'] = t
  <2>1. ~late' => ~late /\ t.next <= ring.total
    BY <1>1, <1>4, <1>6
  <2> QED BY <1>1, <1>2, <1>5, <1>6, <2>1, ReaderSet DEF managerVars
<1>8. net = {} /\ acks = {} /\ ~mgr.alive /\ ~prep.alive
  BY <1>1 DEF IInv, NetInv
<1>9. NetInv'
  BY <1>1, <1>8 DEF NetInv, managerVars
<1>10. LoopsInv' /\ loops'[current'].at = "none" /\ loops'[current'].held = <<>>
  <2>1. \A s \in Streams : s > current' => s > current
    BY <1>2 DEF Streams
  <2>2. current' > current
    BY <1>2
  <2> QED BY <1>1, <1>2, <2>1, <2>2 DEF IInv, LoopsInv
<1>11. FileInv'
  BY <1>1, <1>4 DEF IInv, FileInv, managerVars
<1>12. /\ restart' \in ARestart /\ restart'.stage = "prepare" /\ restart'.seq = seq
       /\ restart'.reply = -1
  BY <1>1 DEF ARestart, Restarting, IInv, RestartInv, seq
<1>13. mgr.id < current' /\ prep.id < current'
  <2>1. mgr.id \in Nat /\ prep.id \in Nat /\ mgr.id <= current /\ prep.id <= current
    BY Fields DEF IInv, MgrInv, Streams
  <2>2. current' \in Nat
    BY <1>2 DEF Streams
  <2> QED BY <1>2, <2>1, <2>2
<1>14. RestartInv'
  BY <1>1, <1>4, <1>6, <1>7, <1>10, <1>12, <1>13 DEF RestartInv, managerVars
<1>15. QuietInv'
  <2>1. mgr'.id # current'
    BY <1>1, <1>2, <1>13, Fields DEF managerVars, Streams
  <2> QED BY <1>1, <1>6, <1>7, <1>8, <2>1 DEF QuietInv
<1>16. CountInv'
  <2>1. Len(<<>>) = 0 /\ From(<<>>, NextSeq) /\ NextSeq + 0 + 0 = NextSeq
    BY <1>4 DEF From
  <2>2. late' = late /\ Len(t.buf) = 0
    BY <1>1, <1>6, <2>1
  <2>3. late \/ seq = NextSeq
    BY <1>4
  <2> QED BY <1>4, <1>6, <1>7, <1>10, <2>1, <2>2, <2>3 DEF CountInv
<1> QED BY <1>3, <1>7, <1>9, <1>10, <1>11, <1>14, <1>15, <1>16 DEF IInv

\* A manager that is asked to prepare disconnects the stream it serves.
LEMMA DisconnectKeeps ==
    ASSUME IInv, UNCHANGED current, prep' \in APreparation, prep'.stage = "head", prep'.id = current,
           IF mgr.conn
           THEN /\ mgr' = [mgr EXCEPT !.conn = FALSE, !.alive = FALSE, !.sent = 0, !.acked = <<0, 0>>,
                                      !.endSent = FALSE]
                /\ ring' = Windowed(ring, FALSE, RingSize)
                /\ writer' = [writer EXCEPT !.waiting = StillWaits(ring, FALSE, RingSize)]
                /\ asleep' = FALSE
           ELSE UNCHANGED <<ring, writer, mgr, asleep>>
    PROVE  /\ RingInv' /\ MgrInv' /\ SleepInv'
           /\ ring'.total = ring.total /\ ~mgr'.conn /\ mgr'.ended = mgr.ended
<1>1. CASE ~mgr.conn
  <2>1. UNCHANGED <<ring, writer, mgr, asleep>>
    BY <1>1
  <2>2. current \in Streams /\ current <= current
    BY Fields
  <2>3. RingInv' /\ SleepInv'
    BY <2>1 DEF IInv, RingInv, SleepInv, HasTerminal, HasData, SendRoom
  <2>4. MgrInv'
    BY <1>1, <2>1, <2>2 DEF IInv, MgrInv
  <2> QED BY <1>1, <2>1, <2>3, <2>4
<1>2. CASE mgr.conn
  <2>1. /\ mgr' = [mgr EXCEPT !.conn = FALSE, !.alive = FALSE, !.sent = 0, !.acked = <<0, 0>>,
                              !.endSent = FALSE]
        /\ ring' = Windowed(ring, FALSE, RingSize)
        /\ writer' = [writer EXCEPT !.waiting = StillWaits(ring, FALSE, RingSize)]
        /\ asleep' = FALSE
    BY <1>2
  <2>2. /\ mgr' \in AManager /\ mgr'.conn = FALSE /\ mgr'.sent = 0 /\ mgr'.id = mgr.id /\ mgr'.ended = mgr.ended
    <3>1. <<0, 0>> \in Nat \X (0..ReadWindow) /\ 0 \in 0..RingSize
      BY Fields
    <3> QED BY <2>1, <3>1, Fields DEF AManager
  <2>3. /\ ring' \in ARing /\ ring'.total = ring.total /\ ring'.sync = FALSE
        /\ ring'.held = Least(ring.held, ring'.win) /\ ring'.win = Least(RingSize, RingSize)
    <3>1. RingSize \in Nat /\ ring \in ARing /\ FALSE \in BOOLEAN
      BY Fields
    <3> QED BY <2>1, <3>1, WindowedIs
  <2>4. ring'.held \in Nat /\ ring'.held <= ring'.total
    BY <2>3, Fields DEF ARing, Least
  <2>5. StillWaits(ring, FALSE, RingSize) = FALSE
    BY DEF StillWaits, IInv, RingInv
  <2>6. /\ writer' \in [chunk : 0..PacketSize, waiting : BOOLEAN, signal : BOOLEAN]
        /\ writer'.chunk = writer.chunk /\ writer'.waiting = FALSE
    <3>1. writer \in [chunk : 0..PacketSize, waiting : BOOLEAN, signal : BOOLEAN]
      BY DEF IInv, RingInv
    <3> QED BY <2>1, <2>5, <3>1
  <2>7. RingInv'
    BY <2>2, <2>3, <2>4, <2>6 DEF IInv, RingInv
  <2>8. MgrInv'
    <3>1. mgr'.sent <= ring'.held /\ current <= current
      BY <2>2, <2>4, Fields
    <3> QED BY <2>1, <2>2, <3>1 DEF IInv, MgrInv
  <2>9. SleepInv'
    BY <2>1 DEF SleepInv
  <2> QED BY <2>2, <2>3, <2>7, <2>8, <2>9
<1> QED BY <1>1, <1>2

LEMMA PrepareDisconnectKeeps ==
    ASSUME IInv, PrepareDisconnect
    PROVE  IInv'
<1>1. /\ link /\ restart.stage = "prepare" /\ prep.stage = "none"
      /\ UNCHANGED <<link, net, acks, readers, loops, current, file, gap, saved, late>>
  BY DEF PrepareDisconnect
<1>2. /\ net = {} /\ acks = {} /\ restart.reply = -1 /\ mgr.id < current
  BY <1>1 DEF IInv, NetInv, RestartInv
<1>3. restart \in ARestart
  BY DEF IInv, RestartInv
\* What an answered or an asked request leaves of the client's part.
<1>4. ASSUME restart' \in ARestart, restart'.stage = "asked", restart'.seq = restart.seq,
             restart'.reply \notin Nat, ring'.total = ring.total, mgr'.ended = mgr.ended,
             mgr'.conn => mgr'.id # current
      PROVE  NetInv' /\ ReadersInv' /\ LoopsInv' /\ FileInv' /\ RestartInv' /\ QuietInv' /\ CountInv'
  <2>1. NetInv' /\ ReadersInv' /\ LoopsInv' /\ FileInv'
    BY <1>1, <1>2, <1>4 DEF IInv, NetInv, ReadersInv, LoopsInv, FileInv, NextSeq
  <2>2. RestartInv'
    BY <1>1, <1>4 DEF IInv, RestartInv, NextSeq, Restarting
  <2>3. QuietInv'
    BY <1>1, <1>2, <1>4 DEF IInv, QuietInv
  <2>4. CountInv'
    BY <1>1, <1>4 DEF IInv, CountInv, NextSeq, Restarting
  <2> QED BY <2>1, <2>2, <2>3, <2>4
<1>5. CASE mgr.endAcked
  <2>1. restart' = [restart EXCEPT !.stage = "asked", !.reply = Ended] /\ UNCHANGED <<ring, writer, mgr, asleep, prep>>
    BY <1>5 DEF PrepareDisconnect
  <2>2. restart' \in ARestart /\ restart'.stage = "asked" /\ restart'.seq = restart.seq /\ restart'.reply \notin Nat
    <3>1. restart'.stage = "asked" /\ restart'.seq = restart.seq /\ restart'.reply = Ended /\ restart' \in ARestart
      BY <1>3, <2>1 DEF ARestart, Restarting
    <3> QED BY <3>1 DEF Ended
  <2>3. RingInv' /\ MgrInv' /\ SleepInv'
    <3>1. current' \in Streams /\ current <= current'
      BY <1>1, Fields
    <3> QED BY <2>1, <3>1, ManagerStays DEF managerVars
  <2>4. mgr'.conn => mgr'.id # current
    BY <1>2, <2>1, Fields DEF Streams
  <2> QED BY <1>4, <2>1, <2>2, <2>3, <2>4 DEF IInv
<1>6. CASE ~mgr.endAcked
  <2>1. /\ restart' = [restart EXCEPT !.stage = "asked"]
        /\ prep' = [stage |-> "head", id |-> current, seq |-> restart.seq, head |-> 0, alive |-> TRUE]
        /\ IF mgr.conn
           THEN /\ mgr' = [mgr EXCEPT !.conn = FALSE, !.alive = FALSE, !.sent = 0, !.acked = <<0, 0>>,
                                      !.endSent = FALSE]
                /\ ring' = Windowed(ring, FALSE, RingSize)
                /\ writer' = [writer EXCEPT !.waiting = StillWaits(ring, FALSE, RingSize)]
                /\ asleep' = FALSE
           ELSE UNCHANGED <<ring, writer, mgr, asleep>>
    BY <1>6 DEF PrepareDisconnect
  <2>2. restart' \in ARestart /\ restart'.stage = "asked" /\ restart'.seq = restart.seq /\ restart'.reply \notin Nat
    BY <1>2, <1>3, <2>1 DEF ARestart, Restarting
  <2>3. prep' \in APreparation /\ prep'.stage = "head" /\ prep'.id = current
    BY <2>1, Fields DEF APreparation
  <2>4. /\ RingInv' /\ MgrInv' /\ SleepInv'
        /\ ring'.total = ring.total /\ ~mgr'.conn /\ mgr'.ended = mgr.ended
    BY <1>1, <2>1, <2>3, DisconnectKeeps
  <2> QED BY <1>4, <2>2, <2>4 DEF IInv
<1> QED BY <1>5, <1>6

\* An answer to a request, of which the client does not hear when the connection is gone.
LEMMA ReplyKeeps ==
    ASSUME IInv, NEW value \in Nat \cup {Refused}, value \in Nat => value <= ring.total, Reply(value),
           ring'.total = ring.total, mgr'.ended = mgr.ended, mgr'.id \in {mgr.id, prep.id},
           mgr'.alive => mgr.alive \/ prep.alive, prep'.alive = prep.alive, prep'.id = prep.id,
           mgr'.conn => mgr'.rwnd = 0,
           UNCHANGED <<link, net, acks, readers, loops, current, file, gap, saved, late>>
    PROVE  NetInv' /\ ReadersInv' /\ LoopsInv' /\ FileInv' /\ RestartInv' /\ QuietInv' /\ CountInv'
<1>1. /\ restart' \in ARestart /\ restart'.stage = restart.stage /\ restart'.seq = restart.seq
      /\ restart'.reply \in {restart.reply, value}
      /\ restart.stage \in {"set", "prepare"} => restart'.reply = restart.reply
  <2>1. restart \in ARestart
    BY DEF IInv, RestartInv
  <2>2. restart.stage \in {"set", "prepare"} => ~prep.alive
    BY DEF IInv, NetInv
  <2>3. restart' = restart \/ restart' = [restart EXCEPT !.reply = value]
    BY DEF Reply
  <2>4. restart.stage \in {"set", "prepare"} => restart' = restart
    BY <2>2 DEF Reply
  <2> QED BY <2>1, <2>3, <2>4 DEF ARestart
<1>2. NetInv' /\ ReadersInv' /\ LoopsInv' /\ FileInv'
  BY <1>1 DEF IInv, NetInv, ReadersInv, LoopsInv, FileInv, NextSeq
<1>3. RestartInv'
  <2>1. restart'.stage = "asked" /\ restart'.reply \in Nat => restart'.reply <= ring'.total
    BY <1>1, Fields DEF IInv, RestartInv
  <2> QED BY <1>1, <2>1 DEF IInv, RestartInv, NextSeq
<1>4. QuietInv'
  BY <1>1 DEF IInv, QuietInv
<1>5. CountInv'
  BY <1>1 DEF IInv, CountInv, NextSeq
<1> QED BY <1>2, <1>3, <1>4, <1>5

LEMMA PrepareHeadKeeps ==
    ASSUME IInv, PrepareHead
    PROVE  IInv'
<1>1. /\ prep.stage = "head" /\ ~mgr.conn
      /\ UNCHANGED <<mgr, asleep, link, net, acks, readers, loops, current, file, gap, saved, late>>
  BY DEF PrepareHead, IInv, MgrInv
<1>2. CASE mgr.endAcked \/ prep.seq > ring.total
  <2>1. prep' = [prep EXCEPT !.stage = "none"] /\ Reply(Refused) /\ UNCHANGED <<ring, writer>>
    BY <1>2 DEF PrepareHead
  <2>2. prep' \in APreparation /\ prep'.stage = "none" /\ prep'.alive = prep.alive /\ prep'.id = prep.id
    BY <2>1, Fields DEF APreparation
  <2>3. RingInv' /\ MgrInv' /\ SleepInv'
    BY <1>1, <2>1, <2>2 DEF IInv, RingInv, MgrInv, SleepInv, HasTerminal, HasData, SendRoom
  <2>4. Refused \in Nat \cup {Refused} /\ Refused \notin Nat
    BY DEF Refused
  <2>5. NetInv' /\ ReadersInv' /\ LoopsInv' /\ FileInv' /\ RestartInv' /\ QuietInv' /\ CountInv'
    BY <1>1, <2>1, <2>2, <2>4, ReplyKeeps
  <2> QED BY <2>3, <2>5 DEF IInv
<1>3. CASE ~(mgr.endAcked \/ prep.seq > ring.total)
  <2> DEFINE head == Most(prep.seq, RingHead(ring))
  <2>1. /\ prep' = [prep EXCEPT !.stage = "set", !.head = head]
        /\ ring' = [ring EXCEPT !.held = ring.total - head]
        /\ writer' = [writer EXCEPT !.waiting = writer.waiting /\ prep.seq <= RingHead(ring)]
        /\ UNCHANGED restart
    BY <1>3 DEF PrepareHead
  <2>2. /\ head \in Nat /\ head <= ring.total /\ ring.total - head \in 0..ring.held
        /\ prep.seq <= RingHead(ring) => ring.total - head = ring.held
    BY <1>3, Fields DEF RingHead, Most
  <2> HIDE DEF head
  <2>3. /\ prep' \in APreparation /\ prep'.stage = "set" /\ prep'.head = head
        /\ prep'.alive = prep.alive /\ prep'.id = prep.id
    BY <2>1, <2>2, Fields DEF APreparation
  <2>4. /\ ring' \in ARing /\ ring'.total = ring.total /\ ring'.held = ring.total - head
        /\ ring'.sync = ring.sync /\ ring'.win = ring.win
    <3>1. ring.total - head \in 0..RingSize
      BY <2>2, Fields
    <3> QED BY <2>1, <3>1, Fields DEF ARing
  <2>5. PICK w \in BOOLEAN : w = (writer.waiting /\ prep.seq <= RingHead(ring))
    OBVIOUS
  <2>6. /\ writer' \in [chunk : 0..PacketSize, waiting : BOOLEAN, signal : BOOLEAN]
        /\ writer'.chunk = writer.chunk /\ writer'.waiting = w
    <3>1. writer \in [chunk : 0..PacketSize, waiting : BOOLEAN, signal : BOOLEAN]
      BY DEF IInv, RingInv
    <3>2. writer' = [writer EXCEPT !.waiting = w]
      BY <2>1, <2>5
    <3> QED BY <3>1, <3>2
  <2>7. RingInv'
    <3>1. w => writer.waiting /\ prep.seq <= RingHead(ring)
      BY <2>5
    <3>2. w => ring'.sync /\ ring'.held >= ring'.win
      BY <2>2, <2>4, <3>1 DEF IInv, RingInv
    <3>3. ring'.held <= ring'.total
      BY <2>2, <2>4, Fields
    <3> QED BY <1>1, <2>4, <2>6, <3>2, <3>3 DEF IInv, RingInv
  <2>8. MgrInv'
    <3>1. mgr.sent = 0 /\ ring'.held \in Nat
      BY <1>1, <2>4, Fields DEF IInv, MgrInv, ARing
    <3>2. mgr'.sent <= ring'.held
      BY <1>1, <3>1
    <3> QED BY <1>1, <2>2, <2>3, <2>4, <3>2 DEF IInv, MgrInv
  <2>9. SleepInv'
    BY <1>1 DEF SleepInv
  <2>10. NetInv' /\ ReadersInv' /\ LoopsInv' /\ FileInv'
    BY <1>1, <2>1, <2>3, <2>4 DEF IInv, NetInv, ReadersInv, LoopsInv, FileInv, NextSeq
  <2>11. RestartInv' /\ QuietInv' /\ CountInv'
    BY <1>1, <2>1, <2>3, <2>4 DEF IInv, RestartInv, QuietInv, CountInv, NextSeq
  <2> QED BY <2>7, <2>8, <2>9, <2>10, <2>11 DEF IInv
<1> QED BY <1>2, <1>3

LEMMA PrepareSetKeeps ==
    ASSUME IInv, PrepareSet
    PROVE  IInv'
<1>1. /\ prep.stage = "set" /\ ~mgr.conn /\ prep.head <= ring.total
      /\ prep' = [prep EXCEPT !.stage = "none"]
      /\ mgr' = [mgr EXCEPT !.conn = TRUE, !.id = prep.id, !.alive = prep.alive, !.rwnd = 0, !.sent = 0]
      /\ ring' = Windowed(ring, TRUE, 0)
      /\ asleep' = FALSE /\ Reply(prep.head)
      /\ UNCHANGED <<writer, link, net, acks, readers, loops, current, file, gap, saved, late>>
  BY DEF PrepareSet, IInv, MgrInv
<1>2. /\ mgr' \in AManager /\ mgr'.conn = TRUE /\ mgr'.id = prep.id /\ mgr'.alive = prep.alive
      /\ mgr'.rwnd = 0 /\ mgr'.sent = 0 /\ mgr'.ended = mgr.ended
  <2>1. 0 \in 0..ReadWindow /\ 0 \in 0..RingSize
    BY Fields
  <2> QED BY <1>1, <2>1, Fields DEF AManager
<1>3. prep' \in APreparation /\ prep'.stage = "none" /\ prep'.alive = prep.alive /\ prep'.id = prep.id
  BY <1>1, Fields DEF APreparation
<1>4. /\ ring' \in ARing /\ ring'.total = ring.total /\ ring'.sync = TRUE /\ ring'.win = 0 /\ ring'.held = ring.held
  <2>1. ring \in ARing /\ 0 \in Nat /\ TRUE \in BOOLEAN /\ Least(0, RingSize) = 0
    BY Fields DEF Least
  <2> QED BY <1>1, <2>1, WindowedIs
<1>5. RingInv'
  <2>1. ring'.held >= ring'.win
    BY <1>4, Fields
  <2> QED BY <1>1, <1>2, <1>4, <2>1 DEF IInv, RingInv
<1>6. MgrInv'
  <2>1. mgr'.sent <= ring'.held
    BY <1>2, <1>4, Fields
  <2> QED BY <1>1, <1>2, <1>3, <1>4, <2>1 DEF IInv, MgrInv
<1>7. SleepInv'
  BY <1>1 DEF SleepInv
<1>8. NetInv' /\ ReadersInv' /\ LoopsInv' /\ FileInv' /\ RestartInv' /\ QuietInv' /\ CountInv'
  <2>1. prep.head \in Nat \cup {Refused}
    BY Fields
  <2> QED BY <1>1, <1>2, <1>3, <1>4, <2>1, ReplyKeeps
<1> QED BY <1>5, <1>6, <1>7, <1>8 DEF IInv

\* A restart that is over leaves a reader that is closed.
LEMMA RestartOver ==
    ASSUME IInv, restart.stage \in Restarting, CloseReader(current),
           restart' = [restart EXCEPT !.stage = "idle", !.reply = -1],
           UNCHANGED <<managerVars, link, net, acks, loops, current, file, gap, saved, late>>
    PROVE  IInv'
<1>1. RingInv' /\ MgrInv' /\ SleepInv'
  <2>1. current' \in Streams /\ current <= current'
    BY Fields
  <2> QED BY <2>1, ManagerStays
<1>2. restart' \in ARestart /\ restart'.stage = "idle"
  BY DEF IInv, RestartInv, ARestart
<1>3. current \in Streams /\ 0 \in Nat /\ 0 <= ring.total
  BY Fields
<1>4. ReaderTrue(ClosedReader, current, ring.total, mgr.ended) /\ ClosedReader.next = 0
  BY <1>3, NewReaderTrue
<1>5. ReadersInv'
  BY <1>3, <1>4, ReaderSet DEF CloseReader, managerVars
<1>6. loops[current].at = "none"
  BY DEF IInv, RestartInv
<1>7. restart'.stage \notin Restarting \cup {"stat", "set", "prepare", "asked", "start"}
  BY <1>2 DEF Restarting
<1>8. NetInv' /\ LoopsInv' /\ FileInv'
  BY <1>7 DEF IInv, NetInv, LoopsInv, FileInv, NextSeq, managerVars
<1>9. RestartInv' /\ QuietInv' /\ CountInv'
  BY <1>2, <1>6, <1>7 DEF RestartInv, QuietInv, CountInv
<1> QED BY <1>1, <1>5, <1>8, <1>9 DEF IInv

LEMMA GiveUpKeeps ==
    ASSUME IInv, GiveUp
    PROVE  IInv'
BY RestartOver DEF GiveUp, Restarting

\* The client learns where the manager goes on, and counts what it has missed.
LEMMA GoOnKeeps ==
    ASSUME IInv, restart.stage = "asked", restart.reply \in Nat,
           gap' = gap + GapFound,
           readers' = [readers EXCEPT ![current].next = Most(@, restart.reply)],
           restart' = [restart EXCEPT !.stage = "start", !.reply = -1],
           UNCHANGED <<managerVars, link, net, acks, loops, current, file, saved, late>>
    PROVE  IInv'
<1> DEFINE r == readers[current]
           t == [r EXCEPT !.next = Most(r.next, restart.reply)]
<1>1. RingInv' /\ MgrInv' /\ SleepInv'
  <2>1. current' \in Streams /\ current <= current'
    BY Fields
  <2> QED BY <2>1, ManagerStays
<1>2. current \in Streams /\ ring.total \in Nat /\ restart.seq \in Nat /\ restart.reply <= ring.total
  BY Fields DEF IInv, RestartInv
<1>3. /\ r.buf = <<>> /\ r.next = restart.seq /\ (late \/ restart.seq = NextSeq)
      /\ loops[current].at = "none"
  BY DEF IInv, RestartInv, Restarting
<1>4. loops[current].held = <<>>
  BY <1>2, <1>3 DEF IInv, LoopsInv
<1>5. ReaderTrue(r, current, ring.total, mgr.ended) /\ r \in AReader /\ r.next \in Nat
  <2>1. ReaderTrue(r, current, ring.total, mgr.ended)
    BY <1>2 DEF IInv, ReadersInv
  <2> QED BY <2>1 DEF ReaderTrue, AReader
<1>6. PICK m \in Nat : /\ m = Most(restart.seq, restart.reply)
                       /\ GapFound = m - restart.seq /\ m >= restart.seq
                       /\ restart.seq <= ring.total => m <= ring.total
  BY <1>2 DEF GapFound, Most
<1>7. /\ t \in AReader /\ t.next = m /\ t.buf = r.buf /\ t.ooo = r.ooo /\ t.ended = r.ended
      /\ t.closed = r.closed
  <2>1. t = [r EXCEPT !.next = m]
    BY <1>3, <1>6
  <2> HIDE DEF t, r
  <2> QED BY <1>5, <2>1 DEF AReader
<1>8. readers' = [readers EXCEPT ![current] = t]
  OBVIOUS
<1> HIDE DEF t
<1>9. ReaderTrue(t, current, ring.total, mgr.ended)
  <2>1. Len(t.buf) = 0 /\ From(t.buf, t.next - Len(t.buf)) /\ Len(t.buf) <= t.next
    BY <1>3, <1>7 DEF From
  <2>2. t.ended = "eof" => t.next = ring.total
    <3>1. r.ended = "eof" => restart.seq = ring.total
      BY <1>3, <1>5 DEF ReaderTrue
    <3>2. restart.seq = ring.total => m = ring.total
      BY <1>2, <1>6 DEF Most
    <3> QED BY <1>7, <3>1, <3>2
  <2>3. /\ IsFiniteSet(t.ooo)
        /\ \A p \in t.ooo : PacketTrue(p, ring.total, mgr.ended) /\ p.id = current /\ p.end # "err"
        /\ \A p, q \in t.ooo : p.seq = q.seq => p = q
        /\ t.ended # "no" => mgr.ended = t.ended
    BY <1>5, <1>7 DEF ReaderTrue
  <2> QED BY <1>7, <2>1, <2>2, <2>3 DEF ReaderTrue
<1>10. file \in Seq(Byte) /\ gap \in Nat /\ (~late => NextSeq <= ring.total) /\ Len(file) \in Nat
  BY LenProperties DEF IInv, FileInv
<1>11. gap' \in Nat /\ gap <= gap' /\ NextSeq' = NextSeq + (m - restart.seq) /\ NextSeq \in Nat
  <2>1. NextSeq' = Len(file) + gap' /\ NextSeq = Len(file) + gap
    BY DEF NextSeq
  <2>2. PICK a \in Nat : a = Len(file)
    BY <1>10
  <2>3. NextSeq' = a + gap' /\ NextSeq = a + gap /\ gap' = gap + (m - restart.seq)
    BY <1>6, <2>1, <2>2
  <2> QED BY <1>2, <1>6, <1>10, <2>3
<1>12. ~late => NextSeq' = m /\ m <= ring.total
  <2> SUFFICES ASSUME ~late PROVE NextSeq' = m /\ m <= ring.total
    OBVIOUS
  <2>1. restart.seq = NextSeq /\ restart.seq <= ring.total
    BY <1>3, <1>10
  <2> QED BY <1>2, <1>6, <1>11, <2>1
<1>13. ReadersInv' /\ readers'[current] = t
  <2>1. ~late' => ~late /\ t.next <= ring.total
    BY <1>7, <1>12
  <2> QED BY <1>2, <1>8, <1>9, <2>1, ReaderSet DEF managerVars
<1>14. /\ restart' \in ARestart /\ restart'.stage = "start" /\ restart'.reply = -1
       /\ restart'.stage \in Restarting
  BY DEF IInv, RestartInv, ARestart, Restarting
<1>15. FileInv'
  <2>1. saved.gap <= gap'
    <3>1. saved.gap \in Nat /\ saved.gap <= gap
      BY DEF IInv, FileInv
    <3> QED BY <1>10, <1>11, <3>1
  <2>2. ~late' => NextSeq' <= ring'.total
    BY <1>12 DEF managerVars
  <2> QED BY <1>11, <2>1, <2>2 DEF IInv, FileInv
<1>16. NetInv' /\ LoopsInv'
  BY <1>14 DEF IInv, NetInv, LoopsInv, managerVars
<1>17. RestartInv'
  BY <1>3, <1>14 DEF RestartInv
<1>18. QuietInv'
  <2>1. \A q \in readers'[current].ooo : q.end # "no"
    BY <1>7, <1>13 DEF IInv, QuietInv
  <2> QED BY <2>1 DEF IInv, QuietInv, managerVars
<1>19. CountInv'
  <2> SUFFICES ASSUME ~late PROVE CountInv'
    BY DEF CountInv
  <2>1. Len(<<>>) = 0 /\ From(<<>>, NextSeq') /\ m + 0 + 0 = m
    BY DEF From
  <2> QED BY <1>3, <1>4, <1>7, <1>12, <1>13, <2>1 DEF CountInv
<1> QED BY <1>1, <1>13, <1>15, <1>16, <1>17, <1>18, <1>19 DEF IInv

LEMMA PreparedKeeps ==
    ASSUME IInv, Prepared
    PROVE  IInv'
<1>1. restart.stage = "asked" /\ restart.reply # -1 /\ restart.stage \in Restarting
  BY DEF Prepared, Restarting
<1>2. CASE restart.reply \in {Ended, Refused}
  BY <1>1, <1>2, RestartOver DEF Prepared
<1>3. CASE restart.reply \notin {Ended, Refused}
  <2>1. restart.reply \in Nat
    BY <1>1, <1>3, Fields
  <2> QED BY <1>1, <1>3, <2>1, GoOnKeeps DEF Prepared
<1> QED BY <1>2, <1>3

LEMMA StartStreamKeeps ==
    ASSUME IInv, StartStream
    PROVE  IInv'
<1> DEFINE w == Least(Cwnd, ReadWindow)
<1>1. /\ link /\ restart.stage = "start" /\ mgr.conn
      /\ restart' = [restart EXCEPT !.stage = "started"]
      /\ mgr' = [mgr EXCEPT !.rwnd = ReadWindow]
      /\ ring' = Windowed(ring, TRUE, w)
      /\ writer' = [writer EXCEPT !.waiting = StillWaits(ring, TRUE, w)]
      /\ asleep' = FALSE
      /\ UNCHANGED <<prep, link, net, acks, readers, loops, current, file, gap, saved, late>>
  BY DEF StartStream
<1>2. w \in Nat
  BY Fields DEF Least
<1>3. StillWaits(ring, TRUE, w) => writer.waiting /\ ~(ring.sync /\ Least(w, RingSize) > ring.win)
  BY DEF StillWaits
<1> HIDE DEF w
<1>4. /\ ring' \in ARing /\ ring'.total = ring.total /\ ring'.sync = TRUE /\ ring'.win = Least(w, RingSize)
      /\ ring'.held = ring.held
  <2>1. ring \in ARing /\ TRUE \in BOOLEAN
    BY Fields
  <2> QED BY <1>1, <1>2, <2>1, WindowedIs
<1>5. /\ mgr' \in AManager /\ mgr'.conn = mgr.conn /\ mgr'.id = mgr.id /\ mgr'.alive = mgr.alive
      /\ mgr'.sent = mgr.sent /\ mgr'.ended = mgr.ended
  <2>1. ReadWindow \in 0..ReadWindow
    BY Fields
  <2> QED BY <1>1, <2>1, Fields DEF AManager
<1>6. PICK wt \in BOOLEAN : wt = StillWaits(ring, TRUE, w)
  BY DEF StillWaits
<1>7. /\ writer' \in [chunk : 0..PacketSize, waiting : BOOLEAN, signal : BOOLEAN]
      /\ writer'.chunk = writer.chunk /\ writer'.waiting = wt
  <2>1. writer \in [chunk : 0..PacketSize, waiting : BOOLEAN, signal : BOOLEAN]
    BY DEF IInv, RingInv
  <2>2. writer' = [writer EXCEPT !.waiting = wt]
    BY <1>1, <1>6
  <2> QED BY <2>1, <2>2
<1>8. RingInv'
  <2>1. wt => ring.sync /\ ring.held >= ring.win /\ ~(Least(w, RingSize) > ring.win)
    BY <1>3, <1>6 DEF IInv, RingInv
  <2>2. ring'.win \in 0..RingSize
    BY <1>4 DEF ARing
  <2>3. wt => ring'.held >= ring'.win
    BY <1>4, <2>1, <2>2, Fields
  <2> QED BY <1>4, <1>5, <1>7, <2>3 DEF IInv, RingInv
<1>9. MgrInv'
  BY <1>1, <1>4, <1>5 DEF IInv, MgrInv
<1>10. SleepInv'
  BY <1>1 DEF SleepInv
<1>11. restart' \in ARestart /\ restart'.stage = "started" /\ restart'.stage \in Restarting
  BY <1>1 DEF IInv, RestartInv, ARestart, Restarting
<1>12. NetInv' /\ ReadersInv' /\ LoopsInv' /\ FileInv'
  BY <1>1, <1>4, <1>5, <1>11 DEF IInv, NetInv, ReadersInv, LoopsInv, FileInv, NextSeq
<1>13. loops[current].at = "none"
  BY <1>1 DEF IInv, RestartInv, Restarting
<1>14. RestartInv' /\ QuietInv'
  BY <1>1, <1>11, <1>13 DEF RestartInv, QuietInv
<1>15. CountInv'
  BY <1>1, <1>11 DEF IInv, CountInv, NextSeq, Restarting
<1> QED BY <1>8, <1>9, <1>10, <1>12, <1>14, <1>15 DEF IInv

LEMMA StartedKeeps ==
    ASSUME IInv, Started
    PROVE  IInv'
<1>1. /\ restart.stage = "started"
      /\ loops' = [loops EXCEPT ![current] = [at |-> "read", held |-> <<>>]]
      /\ restart' = [restart EXCEPT !.stage = "idle"]
      /\ UNCHANGED <<managerVars, link, net, acks, readers, current, file, gap, saved, late>>
  BY DEF Started
<1>2. RingInv' /\ MgrInv' /\ SleepInv'
  <2>1. current' \in Streams /\ current <= current'
    BY <1>1, Fields
  <2> QED BY <1>1, <2>1, ManagerStays
<1>3. current \in Streams /\ current \in Nat
  BY Fields
<1>4. loops[current].at = "none" /\ loops[current].held = <<>>
  BY <1>1, <1>3 DEF IInv, RestartInv, LoopsInv, Restarting
<1>5. /\ loops' \in [Streams -> [at : {"none", "read", "append"}, held : Seq(Byte)]]
      /\ loops'[current].at = "read" /\ loops'[current].held = <<>>
      /\ \A v \in Streams : v # current => loops'[v] = loops[v]
  <2>1. <<>> \in Seq(Byte)
    OBVIOUS
  <2> QED BY <1>1, <1>3, <2>1 DEF IInv, LoopsInv
<1>6. restart' \in ARestart /\ restart'.stage = "idle"
  BY <1>1 DEF IInv, RestartInv, ARestart
<1>7. restart'.stage \notin Restarting \cup {"stat", "set", "prepare", "asked", "start"}
  BY <1>6 DEF Restarting
<1>8. NetInv' /\ ReadersInv' /\ FileInv'
  BY <1>1, <1>7 DEF IInv, NetInv, ReadersInv, FileInv, NextSeq, managerVars
<1>9. LoopsInv'
  <2> SUFFICES ASSUME NEW v \in Streams
               PROVE  (loops'[v].at = "append" <=> loops'[v].held # <<>>) /\ (v > current => loops'[v].at = "none")
    BY <1>1, <1>5 DEF LoopsInv
  <2>1. ~(current > current)
    BY <1>3
  <2> QED BY <1>5, <2>1 DEF IInv, LoopsInv
<1>10. RestartInv' /\ QuietInv'
  BY <1>6, <1>7 DEF RestartInv, QuietInv
<1>11. CountInv'
  BY <1>1, <1>4, <1>5 DEF IInv, CountInv, NextSeq, Restarting
<1> QED BY <1>2, <1>8, <1>9, <1>10, <1>11 DEF IInv

LEMMA InitHolds ==
    ASSUME Init
    PROVE  IInv
<1>1. /\ {RingSize, Cwnd, ReadWindow, PacketSize, MaxStreams} \subseteq Nat \ {0} /\ MaxBytes \in Nat
      /\ <<>> \in Seq(Byte) /\ Len(<<>>) = 0 /\ 1 \in Streams /\ 0 \in Nat
  BY SizesAssumption DEF Streams
<1>2. PICK w \in 0..RingSize : w = Least(RingSize, Least(Cwnd, ReadWindow))
  BY <1>1 DEF Least
<1>3. /\ ring = [total |-> 0, held |-> 0, sync |-> TRUE, win |-> w]
      /\ writer = [chunk |-> 0, waiting |-> FALSE, signal |-> FALSE]
      /\ mgr = [conn |-> TRUE, id |-> 1, alive |-> TRUE, rwnd |-> ReadWindow, sent |-> 0, acked |-> <<0, 0>>,
                ended |-> "no", endSent |-> FALSE, endAcked |-> FALSE]
      /\ asleep = FALSE
      /\ prep = [stage |-> "none", id |-> 1, seq |-> 0, head |-> 0, alive |-> FALSE]
      /\ link = TRUE /\ net = {} /\ acks = {}
      /\ readers = [s \in Streams |-> NewReader(0)]
      /\ loops = [s \in Streams |-> [at |-> IF s = 1 THEN "read" ELSE "none", held |-> <<>>]]
      /\ current = 1
      /\ restart = [stage |-> "idle", seq |-> 0, reply |-> -1]
      /\ file = <<>> /\ gap = 0 /\ saved = [file |-> <<>>, gap |-> 0]
      /\ late = FALSE
  BY <1>2 DEF Init
<1>4. RingInv
  BY <1>1, <1>3 DEF RingInv, ARing
<1>5. MgrInv
  <2>1. mgr \in AManager
    <3>1. <<0, 0>> \in Nat \X (0..ReadWindow) /\ ReadWindow \in 0..ReadWindow /\ 0 \in 0..RingSize
      BY <1>1
    <3> QED BY <1>1, <1>3, <3>1 DEF AManager, Ends
  <2>2. prep \in APreparation
    BY <1>1, <1>3 DEF APreparation
  <2>3. /\ mgr.conn = TRUE /\ mgr.sent = 0 /\ mgr.id = 1 /\ ring.held = 0 /\ ring.sync = TRUE
        /\ prep.stage = "none" /\ prep.id = 1 /\ asleep = FALSE /\ current = 1
    BY <1>3
  <2>4. asleep \in BOOLEAN /\ current \in Streams
    BY <1>1, <2>3
  <2> QED BY <2>1, <2>2, <2>3, <2>4 DEF MgrInv
<1>6. SleepInv
  BY <1>3 DEF SleepInv
<1>7. restart \in ARestart /\ restart.stage = "idle"
  BY <1>1, <1>3 DEF ARestart
<1>8. restart.stage \notin Restarting \cup {"stat", "set", "prepare", "asked", "start"}
  BY <1>7 DEF Restarting
<1>9. NetInv
  BY <1>3, <1>8 DEF NetInv
<1>10. PICK r : r = NewReader(0)
  OBVIOUS
<1>11. /\ \A s \in Streams : ReaderTrue(r, s, ring.total, mgr.ended)
       /\ r.next = 0 /\ r.buf = <<>>
  BY <1>1, <1>10, NewReaderTrue
<1>12. r \in AReader
  BY <1>1, <1>11 DEF ReaderTrue
<1>13. ReadersInv
  <2>1. \A s \in Streams : readers[s] = r
    BY <1>3, <1>10
  <2>2. 0 <= ring.total
    BY <1>3
  <2>3. readers = [s \in Streams |-> r]
    BY <1>3, <1>10
  <2> QED BY <1>11, <1>12, <2>1, <2>2, <2>3 DEF ReadersInv
<1>14. LoopsInv
  <2>1. \A s \in Streams : s > current => s # 1
    BY <1>3 DEF Streams
  <2> QED BY <1>1, <1>3, <2>1 DEF LoopsInv
<1>15. FileInv
  <2>1. IsPrefix(<<>>, <<>>) /\ NextSeq = 0
    <3>1. IsPrefix(<<>>, <<>>)
      BY <1>1, PrefixStays
    <3> QED BY <1>1, <1>3, <3>1 DEF NextSeq
  <2> QED BY <1>1, <1>3, <2>1 DEF FileInv
<1>16. RestartInv /\ QuietInv
  BY <1>7, <1>8 DEF RestartInv, QuietInv
<1>17. CountInv
  <2>1. From(<<>>, NextSeq) /\ NextSeq = 0
    BY <1>1, <1>3 DEF From, NextSeq
  <2>2. readers[current] = r /\ loops[current].held = <<>>
    BY <1>1, <1>3, <1>10
  <2> QED BY <1>1, <1>11, <2>1, <2>2 DEF CountInv
<1> QED BY <1>4, <1>5, <1>6, <1>9, <1>13, <1>14, <1>15, <1>16, <1>17 DEF IInv

\* Every step keeps the invariant.
LEMMA NextKeeps ==
    ASSUME IInv, [Next]_vars
    PROVE  IInv'
<1>1. CASE Writer
  BY <1>1, WriteRingKeeps, SignalSenderKeeps, EndPtyKeeps DEF Writer
<1>2. CASE Sender
  BY <1>2, SenderKeeps
<1>3. CASE Deliver
  BY <1>3, RecvDataKeeps DEF Deliver
<1>4. CASE DeliverAck
  BY <1>4, RecvAckKeeps DEF DeliverAck
<1>5. CASE \E s \in Streams : Loop(s)
  BY <1>5, LoopReadKeeps, LoopAppendKeeps DEF Loop
<1>6. CASE FlushFile \/ Drop \/ Crash \/ Reconnect
  BY <1>6, FlushFileKeeps, DropKeeps, CrashKeeps, ReconnectKeeps
<1>7. CASE Prepare \/ GiveUp
  BY <1>7, PrepareHeadKeeps, PrepareSetKeeps, GiveUpKeeps DEF Prepare
<1>8. CASE Restart
  BY <1>8, StatFileKeeps, SetStreamKeeps, PrepareDisconnectKeeps, PreparedKeeps, StartStreamKeeps, StartedKeeps DEF Restart
<1>9. CASE UNCHANGED vars
  <2>1. current' \in Streams /\ current <= current'
    BY <1>9, Fields DEF vars, clientVars
  <2>2. RingInv' /\ MgrInv' /\ SleepInv'
    BY <1>9, <2>1, ManagerStays DEF vars
  <2>3. NetInv' /\ ReadersInv' /\ LoopsInv' /\ FileInv'
    BY <1>9 DEF IInv, NetInv, ReadersInv, LoopsInv, FileInv, NextSeq, vars, managerVars, clientVars
  <2>4. RestartInv' /\ QuietInv' /\ CountInv'
    BY <1>9 DEF IInv, RestartInv, QuietInv, CountInv, NextSeq, vars, managerVars, clientVars
  <2> QED BY <2>2, <2>3, <2>4 DEF IInv
<1> QED BY <1>1, <1>2, <1>3, <1>4, <1>5, <1>6, <1>7, <1>8, <1>9 DEF Next

\* The inductive invariant holds throughout.
THEOREM Invariance == Spec => []IInv
<1>1. Init => IInv
  BY InitHolds
<1>2. IInv /\ [Next]_vars => IInv'
  BY NextKeeps
<1> QED BY <1>1, <1>2, PTL DEF Spec

\* StreamTypeOK: every field has its type, the ring holds no more than its size and no more than was
\* written, and the sender counts no more as under way than the ring holds.
THEOREM TypeCorrect == Spec => []StreamTypeOK
<1>1. IInv => StreamTypeOK
  <2> SUFFICES ASSUME IInv PROVE StreamTypeOK
    OBVIOUS
  <2>1. mgr.id \in 1..current
    <3>1. mgr.id <= current
      BY DEF IInv, MgrInv
    <3> QED BY <3>1, Fields DEF Streams
  <2>2. \A s \in Streams : readers[s].next \in Nat /\ (late \/ readers[s].next <= ring.total)
    BY DEF IInv, ReadersInv, AReader
  <2>3. /\ ring \in ARing /\ ring.held <= ring.total
        /\ writer \in [chunk : 0..PacketSize, waiting : BOOLEAN, signal : BOOLEAN]
    BY DEF IInv, RingInv
  <2>4. gap \in Nat /\ file \in Seq(Byte)
    BY DEF IInv, FileInv
  <2> QED BY <2>1, <2>2, <2>3, <2>4, Fields DEF StreamTypeOK, ARing, Byte
<1> QED BY <1>1, Invariance, PTL

\* CountsAgree: the file, its recorded gap, what the loop holds and what the reader buffers make up
\* the reader's position, so that the next restart asks for the right byte.
THEOREM ClientCountIsExact == Spec => []CountsAgree
<1>1. IInv => CountsAgree
  BY DEF IInv, CountInv, CountsAgree, NextSeq
<1> QED BY <1>1, Invariance, PTL

\* NobodySleepsOnWork: the writer waits only while the ring has no room, and the sender sleeps on
\* something to send only while a signal is due, whatever locks the two use.
THEOREM NoLostWakeup == Spec => []NobodySleepsOnWork
<1>1. IInv => NobodySleepsOnWork
  BY DEF IInv, RingInv, SleepInv, NobodySleepsOnWork
<1> QED BY <1>1, Invariance, PTL

\* An output loop stops without an error only where the stream ends.
LEMMA LoopEndsAtEnd ==
    ASSUME IInv, NEW s \in Streams, LoopRead(s), ~done, done', mgr.ended = "eof", ~late
    PROVE  NextSeq = ring.total
<1> DEFINE r == readers[s]
<1>1. s = current /\ loops[s].at = "read" /\ (r.buf # <<>> \/ r.ended # "no") /\ ~(r.ended # "err" /\ r.buf # <<>>)
  BY DEF LoopRead
<1>2. ReaderTrue(r, s, ring.total, mgr.ended) /\ r \in AReader
  BY DEF IInv, ReadersInv
<1>3. r.ended \in Ends /\ (r.ended # "no" => r.ended = "eof")
  BY <1>2 DEF ReaderTrue, AReader
<1>4. r.buf = <<>> /\ r.next = ring.total
  BY <1>1, <1>2, <1>3 DEF ReaderTrue, Ends
<1>5. loops[current].held = <<>> /\ Len(<<>>) = 0
  BY <1>1 DEF IInv, LoopsInv
<1>6. NextSeq + Len(loops[current].held) + Len(readers[current].buf) = readers[current].next
  BY <1>1 DEF IInv, CountInv
<1>7. NextSeq \in Nat
  BY LenProperties DEF IInv, FileInv, NextSeq
<1>8. NextSeq + 0 + 0 = ring.total
  BY <1>1, <1>4, <1>5, <1>6
<1> QED BY <1>7, <1>8

\* EofMeansAll: when an output loop reports the stream of a job that ended well as done, all its
\* output is in the file or counted as missing.
THEOREM EofComesLast == Spec => EofMeansAll
<1> DEFINE Told == ~done /\ done' /\ restart.reply # Ended /\ mgr.ended = "eof" /\ ~late
<1>1. IInv /\ [Next]_vars => [Told => CaughtUp]_vars
  <2> SUFFICES ASSUME IInv, Next, Told PROVE CaughtUp
    OBVIOUS
  <2>1. CASE \E s \in Streams : LoopRead(s)
    <3>1. NextSeq = ring.total
      BY <2>1, LoopEndsAtEnd
    <3> QED BY <3>1 DEF CaughtUp, NextSeq
  <2>2. CASE Prepared
    BY <2>2 DEF Prepared
  <2>3. CASE Writer \/ Sender \/ Deliver \/ DeliverAck
    BY <2>3 DEF Writer, WriteRing, SignalSender, EndPty, Sender, Deliver, RecvData, DeliverAck, RecvAck, clientVars
  <2>4. CASE \E s \in Streams : LoopAppend(s)
    BY <2>4 DEF LoopAppend
  <2>5. CASE FlushFile \/ Drop \/ Crash \/ Reconnect \/ Prepare \/ GiveUp
    BY <2>5 DEF FlushFile, Drop, Crash, Reconnect, Prepare, PrepareHead, PrepareSet, GiveUp, clientVars
  <2>6. CASE StatFile \/ SetStream \/ PrepareDisconnect \/ StartStream \/ Started
    BY <2>6 DEF StatFile, SetStream, PrepareDisconnect, StartStream, Started
  <2> QED BY <2>1, <2>2, <2>3, <2>4, <2>5, <2>6 DEF Next, Loop, Restart
<1> QED BY <1>1, Invariance, PTL DEF Spec, EofMeansAll

\* An output loop appends the bytes that come next.
LEMMA AppendDelivers ==
    ASSUME IInv, NEW s \in Streams, LoopAppend(s), ~late'
    PROVE  Output!Deliver
<1> DEFINE h == loops[s].held
           pos == NextSeq
           n == Len(h)
           b == Len(readers[current].buf)
           bytes == [i \in 1..n |-> pos + i - 1]
<1>1. /\ s = current /\ ~late /\ loops[s].at = "append" /\ file' = file \o h
      /\ UNCHANGED <<ring, readers, gap>>
  BY DEF LoopAppend, managerVars
<1>2. /\ h \in Seq(Byte) /\ h # <<>> /\ file \in Seq(Byte) /\ gap \in Nat
  BY <1>1 DEF IInv, LoopsInv, FileInv
<1>3. pos + n + b = readers[current].next /\ From(h, pos)
  BY <1>1 DEF IInv, CountInv
<1>4. readers[current].next <= ring.total /\ readers[current] \in AReader
  BY <1>1 DEF IInv, ReadersInv
<1>5. n \in Nat /\ n # 0 /\ b \in Nat /\ pos \in Nat /\ ring.total \in Nat
  <2>1. readers[current].buf \in Seq(Byte)
    BY <1>4 DEF AReader
  <2>2. Len(file) \in Nat
    BY <1>2, LenProperties
  <2> QED BY SMTT(30), <1>2, <2>1, <2>2, LenProperties, EmptySeq, Fields DEF NextSeq
<1>6. n \in 1..(ring.total - pos)
  <2>1. PICK x \in Nat : x = readers[current].next
    BY <1>4 DEF AReader
  <2> HIDE DEF n, pos, b
  <2>2. pos + n + b = x /\ x <= ring.total
    BY <1>3, <1>4, <2>1
  <2> QED BY <1>5, <2>2
<1>7. h = bytes
  <2>1. \A i \in 1..n : h[i] = pos + i - 1 /\ h[i] \in Byte
    BY <1>2, <1>3 DEF From
  <2>2. bytes \in Seq(Byte) /\ Len(bytes) = n
    <3>1. \A i \in 1..n : pos + i - 1 \in Byte
      BY <2>1
    <3>2. n \in Nat
      BY <1>5
    <3> HIDE DEF n, pos
    <3> QED BY <3>1, <3>2
  <2>3. \A i \in 1..n : bytes[i] = pos + i - 1
    OBVIOUS
  <2> HIDE DEF bytes
  <2> QED BY <1>2, <2>1, <2>2, <2>3, SeqEqual
<1>8. Len(file') + gap' = pos + n
  <2>1. Len(file') = Len(file) + n /\ Len(file) \in Nat
    BY <1>1, <1>2, ConcatProperties, LenProperties
  <2>2. PICK a \in Nat : a = Len(file)
    BY <2>1
  <2>3. pos = a + gap /\ Len(file') = a + n
    BY <2>1, <2>2 DEF NextSeq
  <2> HIDE DEF pos, n
  <2> QED BY <1>1, <1>2, <1>5, <2>3
<1>9. file' = file \o [i \in 1..n |-> (Len(file) + gap) + i - 1]
  BY <1>1, <1>7 DEF NextSeq
<1> HIDE DEF h
<1>10. n \in 1..(ring.total - (Len(file) + gap)) /\ Len(file') + gap' = (Len(file) + gap) + n
  BY <1>6, <1>8 DEF NextSeq
<1> HIDE DEF n
<1> QED BY <1>1, <1>9, <1>10 DEF Output!Deliver

\* Nothing but the writer changes how much was written.
LEMMA RingTotalStays ==
    ASSUME IInv, DeliverAck \/ PrepareDisconnect \/ Prepare \/ StartStream
    PROVE  ring'.total = ring.total
<1>1. \A r \in ARing : \A sync \in BOOLEAN : \A w \in Nat : Windowed(r, sync, w).total = r.total
  BY WindowedIs
<1>2. ring \in ARing /\ RingSize \in Nat
  BY Fields
<1>3. CASE DeliverAck
  <2>1. PICK ack \in acks : RecvAck(ack)
    BY <1>3 DEF DeliverAck
  <2>2. ack.seq \in Nat /\ ack.rwnd \in 0..ReadWindow
    BY DEF IInv, NetInv
  <2>3. CASE /\ Acknowledge(ack) /\ mgr.conn
             /\ ~(ack.seq < RingHead(ring) \/ ack.seq - RingHead(ring) > mgr.sent)
    <3>1. ack.seq >= RingHead(ring) /\ ack.seq - RingHead(ring) <= mgr.sent
      BY <2>2, <2>3, Fields DEF RingHead
    <3>2. UNCHANGED <<prep, current>>
      BY <2>1 DEF RecvAck, clientVars
    <3> QED BY <2>2, <2>3, <3>1, <3>2, AcknowledgeKeeps
  <2>4. CASE UNCHANGED ring
    BY <2>4
  <2> QED BY <2>1, <2>3, <2>4 DEF RecvAck
<1>4. CASE PrepareDisconnect
  <2>1. UNCHANGED ring \/ ring' = Windowed(ring, FALSE, RingSize)
    BY <1>4 DEF PrepareDisconnect
  <2> QED BY <1>1, <1>2, <2>1
<1>5. CASE Prepare
  <2>1. \/ UNCHANGED ring
        \/ ring' = [ring EXCEPT !.held = ring.total - Most(prep.seq, RingHead(ring))]
        \/ ring' = Windowed(ring, TRUE, 0)
    BY <1>5 DEF Prepare, PrepareHead, PrepareSet
  <2>2. ring' = [ring EXCEPT !.held = ring.total - Most(prep.seq, RingHead(ring))] => ring'.total = ring.total
    BY <1>2 DEF ARing
  <2> QED BY <1>1, <1>2, <2>1, <2>2
<1>6. CASE StartStream
  <2>1. ring' = Windowed(ring, TRUE, Least(Cwnd, ReadWindow))
    BY <1>6 DEF StartStream
  <2>2. Least(Cwnd, ReadWindow) \in Nat
    BY Fields DEF Least
  <2> QED BY <1>1, <1>2, <2>1, <2>2
<1> QED BY <1>3, <1>4, <1>5, <1>6

\* Every step of the stream is a step of the output, or none of it.
LEMMA StepImplements ==
    ASSUME IInv, IInv', [Next]_vars
    PROVE  [late' \/ Output!Next]_(Output!vars)
<1>1. ASSUME UNCHANGED <<file, gap, ring>> PROVE UNCHANGED Output!vars
  BY <1>1 DEF Output!vars
<1>2. CASE \E n \in 1..PacketSize : WriteRing(n)
  <2>1. PICK n \in 1..PacketSize : WriteRing(n)
    BY <1>2
  <2>2. /\ ring' = [ring EXCEPT !.total = ring.total + Fitting(n),
                               !.held = Least(ring.held + Fitting(n), Most(ring.win, ring.held))]
        /\ UNCHANGED <<file, gap>>
    BY <2>1 DEF WriteRing, clientVars
  <2>3. Fitting(n) \in Nat
    BY <2>1, Fields DEF Fitting, Least, Most
  <2>4. PICK f \in Nat : f = Fitting(n)
    BY <2>3
  <2>5. ring'.total = ring.total + f
    BY <2>2, <2>4, Fields DEF ARing
  <2>6. CASE f = 0
    <3>1. ring'.total = ring.total
      BY <2>5, <2>6, Fields
    <3> QED BY <2>2, <3>1 DEF Output!vars
  <2>7. CASE f # 0
    <3>1. ring'.total > ring.total
      BY <2>5, <2>7, Fields
    <3> QED BY <2>2, <3>1 DEF Output!Next, Output!Write
  <2> QED BY <2>6, <2>7
<1>3. CASE \E s \in Streams : LoopAppend(s)
  BY <1>3, AppendDelivers DEF Output!Next
<1>4. CASE Crash
  <2>1. file' = saved.file /\ gap' = saved.gap /\ UNCHANGED ring
    BY <1>4 DEF Crash
  <2>2. IsPrefix(file', file) /\ gap' <= gap
    BY <2>1 DEF IInv, FileInv
  <2> QED BY <2>1, <2>2 DEF Output!Next, Output!TakeBack, Output!IsPrefix, IsPrefix
<1>5. CASE Prepared
  <2>1. UNCHANGED <<ring, file>> /\ (gap' = gap \/ (gap' = gap + GapFound /\ restart.stage = "asked" /\ restart.reply \in Nat))
    <3>1. restart.reply \notin {Ended, Refused} /\ restart.reply # -1 => restart.reply \in Nat
      BY Fields
    <3> QED BY <1>5, <3>1 DEF Prepared, managerVars
  <2>2. CASE gap' = gap
    BY <2>1, <2>2 DEF Output!vars
  <2>3. CASE gap' # gap
    <3>1. gap \in Nat /\ gap' \in Nat /\ Len(file) \in Nat
      BY LenProperties DEF IInv, FileInv
    <3>2. GapFound \in Nat
      BY <2>1, <2>3, Fields DEF GapFound, Most
    <3>3. gap' > gap
      BY <2>1, <2>3, <3>1, <3>2
    <3>4. ~late' => NextSeq' <= ring'.total
      BY DEF IInv, FileInv
    <3>5. PICK a \in Nat : a = Len(file)
      BY <3>1
    <3>6. NextSeq' = a + gap' /\ Len(file') = a
      BY <2>1, <3>5 DEF NextSeq
    <3>7. ~late' => a + gap' \in ((a + gap) + 1)..ring.total /\ gap' = gap + ((a + gap') - (a + gap))
      <4> SUFFICES ASSUME ~late'
                   PROVE  a + gap' \in ((a + gap) + 1)..ring.total /\ gap' = gap + ((a + gap') - (a + gap))
        OBVIOUS
      <4>1. a + gap' <= ring.total /\ ring.total \in Nat
        BY <2>1, <3>4, <3>6, Fields
      <4> QED BY SMTT(30), <3>1, <3>3, <3>5, <4>1
    <3> QED BY <2>1, <3>5, <3>6, <3>7 DEF Output!Next, Output!Skip
  <2> QED BY <2>2, <2>3
<1>6. CASE Sender \/ Deliver \/ SignalSender \/ FlushFile \/ Drop \/ Reconnect \/ GiveUp \/ StatFile \/ SetStream
        \/ Started
  <2>1. UNCHANGED <<file, gap, ring>>
    BY <1>6 DEF Sender, Deliver, RecvData, SignalSender, FlushFile, Drop, Reconnect, GiveUp, StatFile, SetStream, Started,
                managerVars, clientVars
  <2> QED BY <1>1, <2>1
<1>7. CASE (\E k \in {"eof", "err"} : EndPty(k)) \/ \E s \in Streams : LoopRead(s)
  <2>1. UNCHANGED <<file, gap, ring>>
    BY <1>7 DEF EndPty, LoopRead, managerVars, clientVars
  <2> QED BY <1>1, <2>1
<1>8. CASE DeliverAck \/ PrepareDisconnect \/ Prepare \/ StartStream
  <2>1. UNCHANGED <<file, gap>>
    BY <1>8 DEF DeliverAck, RecvAck, PrepareDisconnect, Prepare, PrepareHead, PrepareSet, StartStream, clientVars
  <2>2. ring'.total = ring.total
    BY <1>8, RingTotalStays
  <2> QED BY <2>1, <2>2 DEF Output!vars
<1>9. CASE UNCHANGED vars
  <2>1. UNCHANGED <<file, gap, ring>>
    BY <1>9 DEF vars, managerVars, clientVars
  <2> QED BY <1>1, <2>1
<1> QED BY <1>2, <1>3, <1>4, <1>5, <1>6, <1>7, <1>8, <1>9 DEF Next, Writer, Loop, Restart

\* ImplementsByteStream: an output of ByteStream is what the file is, but for a loop that appends
\* after a later stream has begun: it grows by the job's next bytes, each once, skips only bytes it
\* counts, and a crash takes it back to an earlier state.
THEOREM FileIsOutput == Spec => ImplementsByteStream
<1>1. Init => Output!Init
  <2> SUFFICES ASSUME Init PROVE Output!Init
    OBVIOUS
  <2>1. file = <<>> /\ gap = 0 /\ ring.total = 0 /\ Len(<<>>) + 0 = 0
    BY DEF Init
  <2> QED BY <2>1 DEF Output!Init
<1>2. IInv /\ IInv' /\ [Next]_vars => [late' \/ Output!Next]_(Output!vars)
  BY StepImplements
<1> QED BY <1>1, <1>2, Invariance, PTL DEF Spec, ImplementsByteStream

=============================================================================
