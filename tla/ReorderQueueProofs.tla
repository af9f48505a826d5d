-------------------------- MODULE ReorderQueueProofs --------------------------
(***************************************************************************)
(* Proofs about ReorderQueue, for all sessions and every bound.            *)
(*                                                                         *)
(* A call of QueueItem does several things under the lock: it may write    *)
(* out the buffer, start a session, hand on an item, and the run behind    *)
(* it.  Core says what is right of the queue between any two of these, so  *)
(* that the method's effect is put together from lemmas about its parts.   *)
(***************************************************************************)
EXTENDS ReorderQueue, QueueLemmas

\* Age and Before, for a given order of sessions.
AgeIn(ord, s) == IF Contains(ord, s) THEN CHOOSE i \in DOMAIN ord : ord[i] = s ELSE 0
BeforeIn(ord, x, y) ==
    \/ AgeIn(ord, x.session) < AgeIn(ord, y.session)
    \/ AgeIn(ord, x.session) = AgeIn(ord, y.session) /\ x.seq < y.seq
    \/ AgeIn(ord, x.session) = AgeIn(ord, y.session) /\ x.seq = y.seq /\ x.at < y.at

\* The same place in the same session.
Repeats(x, y) == x.session = y.session /\ x.seq = y.seq

\* InOrderUnlessLate, of a sequence.
InOrder(q, ord, late) ==
    \A i, j \in 1..Len(q) :
        i < j /\ BeforeIn(ord, q[j], q[i]) =>
            q[j] \in late \/ q[i] \in late \/ \E k \in 1..(j - 1) : Repeats(q[k], q[j])

\* Items are told apart by their arrival, and their sessions are known.
AcceptedInv(ord, acc) ==
    /\ acc \subseteq Item
    /\ \A x, y \in acc : x.at = y.at => x = y
    /\ \A x \in acc : x.session = NoSession \/ Contains(ord, x.session)

\* What is held is of the present session, and its turn is not over, unless it repeats a number.
HeldInv(ord, nxt, buf, em) ==
    \A x \in buf :
        /\ Contains(ord, x.session) /\ x.session = Last(ord)
        /\ x.seq >= nxt \/ \E e \in ToSet(em) : Repeats(e, x)

\* What was handed on in its turn is not after what is still to come.
HandedInv(ord, nxt, em, late) ==
    \A e \in ToSet(em) \ late :
        Contains(ord, e.session) /\ (e.session = Last(ord) => e.seq < nxt)

Core(ord, nxt, buf, em, late, acc) ==
    /\ ord \in Seq(Sessions \ {NoSession}) /\ Once(ord) /\ nxt \in Nat \ {0}
    /\ em \in Seq(Item) /\ Once(em) /\ IsFiniteSet(buf)
    /\ acc = ToSet(em) \cup buf /\ ToSet(em) \cap buf = {} /\ late \subseteq acc
    /\ AcceptedInv(ord, acc)
    /\ HeldInv(ord, nxt, buf, em)
    /\ HandedInv(ord, nxt, em, late)
    /\ InOrder(em, ord, late)

\* The rest: the channel, the timers, the arrivals.
Around ==
    /\ taken \in 0..Len(emitted) /\ arrived \in 0..MaxItems /\ closed \in BOOLEAN
    /\ timer \in 0..arrived /\ callbacks \subseteq 1..arrived
    /\ \A x \in accepted : x.at <= arrived
    /\ Cardinality(accepted) - taken <= Capacity

IInv == Core(order, next, buffer, emitted, behind, accepted) /\ Around

\* The age of a session is its place in the order, and 0 if it has none.
LEMMA AgeIs ==
    ASSUME NEW T, NEW ord \in Seq(T), NEW s
    PROVE  /\ AgeIn(ord, s) \in 0..Len(ord)
           /\ Contains(ord, s) => AgeIn(ord, s) \in 1..Len(ord) /\ ord[AgeIn(ord, s)] = s
           /\ ~Contains(ord, s) => AgeIn(ord, s) = 0
<1>1. DOMAIN ord = 1..Len(ord) /\ Len(ord) \in Nat
  BY LenProperties
<1> QED BY <1>1 DEF AgeIn, Contains

\* The last session is the oldest in number, and the only one of that age.
LEMMA LastIsOldest ==
    ASSUME NEW T, NEW ord \in Seq(T), Once(ord), NEW s
    PROVE  /\ Contains(ord, s) /\ s = Last(ord) => AgeIn(ord, s) = Len(ord)
           /\ Contains(ord, s) /\ AgeIn(ord, s) = Len(ord) => s = Last(ord)
<1>1. DOMAIN ord = 1..Len(ord) /\ Len(ord) \in Nat
  BY LenProperties
<1>2. /\ Contains(ord, s) => AgeIn(ord, s) \in 1..Len(ord) /\ ord[AgeIn(ord, s)] = s
  BY AgeIs
<1>3. Contains(ord, s) => Len(ord) \in 1..Len(ord)
  BY <1>1 DEF Contains
<1> QED BY <1>1, <1>2, <1>3 DEF Once, Last

\* A new session changes no age but its own.
LEMMA NewAge ==
    ASSUME NEW T, NEW ord \in Seq(T), Once(ord), NEW s \in T, ~Contains(ord, s)
    PROVE  LET o == Append(ord, s)
           IN  /\ o \in Seq(T) /\ Once(o) /\ Contains(o, s) /\ Last(o) = s
               /\ \A r : r # s => /\ Contains(o, r) <=> Contains(ord, r)
                                  /\ AgeIn(o, r) = AgeIn(ord, r)
<1> DEFINE o == Append(ord, s)
<1>1. /\ o \in Seq(T) /\ Len(o) = Len(ord) + 1 /\ Len(ord) \in Nat
      /\ \A i \in 1..Len(ord) : o[i] = ord[i]
      /\ o[Len(ord) + 1] = s
      /\ DOMAIN o = 1..Len(o) /\ DOMAIN ord = 1..Len(ord)
  BY LenProperties
<1> HIDE DEF o
<1>2. Once(o)
  BY <1>1 DEF Once, Contains
<1>3. Contains(o, s) /\ Last(o) = s
  BY <1>1 DEF Contains, Last
<1>4. ASSUME NEW r, r # s
      PROVE  (Contains(o, r) <=> Contains(ord, r)) /\ AgeIn(o, r) = AgeIn(ord, r)
  <2>1. Contains(o, r) <=> Contains(ord, r)
    BY <1>1, <1>4 DEF Contains
  <2>2. CASE Contains(ord, r)
    <3>1. AgeIn(ord, r) \in 1..Len(ord) /\ ord[AgeIn(ord, r)] = r
      BY <2>2, AgeIs
    <3>2. AgeIn(o, r) \in 1..Len(o) /\ o[AgeIn(o, r)] = r
      BY <2>1, <2>2, <1>1, AgeIs
    <3>3. o[AgeIn(ord, r)] = r /\ AgeIn(ord, r) \in 1..Len(o)
      BY <3>1, <1>1
    <3>4. \A i, j \in 1..Len(o) : o[i] = o[j] => i = j
      BY <1>1, <1>2 DEF Once
    <3> QED BY <2>1, <3>2, <3>3, <3>4
  <2>3. CASE ~Contains(ord, r)
    BY <2>1, <2>3 DEF AgeIn
  <2> QED BY <2>1, <2>2, <2>3
<1> QED BY <1>1, <1>2, <1>3, <1>4 DEF o

\* cmpSessionSeq is a strict order of items, and tells items apart that came one after the other.
LEMMA BeforeOrders ==
    ASSUME NEW T, NEW ord \in Seq(T), NEW x \in Item, NEW y \in Item, NEW z \in Item
    PROVE  /\ ~BeforeIn(ord, x, x)
           /\ BeforeIn(ord, x, y) /\ BeforeIn(ord, y, z) => BeforeIn(ord, x, z)
           /\ x.at # y.at => BeforeIn(ord, x, y) \/ BeforeIn(ord, y, x)
           /\ ~(BeforeIn(ord, x, y) /\ BeforeIn(ord, y, x))
<1>1. \A s : AgeIn(ord, s) \in Nat
  BY AgeIs
<1>2. \A v \in Item : v.seq \in Nat /\ v.at \in Nat
  BY QueueAssumption DEF Item
<1> DEFINE age(v) == AgeIn(ord, v.session)
<1>3. /\ age(x) \in Nat /\ age(y) \in Nat /\ age(z) \in Nat
      /\ x.seq \in Nat /\ y.seq \in Nat /\ z.seq \in Nat
      /\ x.at \in Nat /\ y.at \in Nat /\ z.at \in Nat
  BY <1>1, <1>2
<1> QED BY <1>3 DEF BeforeIn

\* sortBuffer lists the buffer, all of it, each item once, in order.
LEMMA SortedIs ==
    ASSUME NEW T, order \in Seq(T), NEW items, IsFiniteSet(items), items \subseteq Item,
           \A x, y \in items : x.at = y.at => x = y
    PROVE  LET s == Sorted(items)
           IN  /\ s \in Seq(items) /\ Len(s) = Cardinality(items) /\ Once(s)
               /\ ToSet(s) = items
               /\ \A i, j \in 1..Len(s) : i < j => BeforeIn(order, s[i], s[j])
<1> DEFINE n == Cardinality(items)
           R == {p \in items \X items : BeforeIn(order, p[1], p[2])}
           All == [1..n -> items]
<1>1. \A x, y : Before(x, y) <=> BeforeIn(order, x, y)
  BY DEF Before, BeforeIn, Age, AgeIn
<1>2. n \in Nat
  BY FS_CardinalityType
<1>3. \A x, y \in items : <<x, y>> \in R <=> BeforeIn(order, x, y)
  OBVIOUS
<1>4. /\ \A x \in items : ~BeforeIn(order, x, x)
      /\ \A x, y, z \in items : BeforeIn(order, x, y) /\ BeforeIn(order, y, z) => BeforeIn(order, x, z)
      /\ \A x, y \in items : x # y => BeforeIn(order, x, y) \/ BeforeIn(order, y, x)
  <2>1. \A x, y, z \in Item :
           /\ ~BeforeIn(order, x, x)
           /\ BeforeIn(order, x, y) /\ BeforeIn(order, y, z) => BeforeIn(order, x, z)
           /\ x.at # y.at => BeforeIn(order, x, y) \/ BeforeIn(order, y, x)
    BY BeforeOrders
  <2> QED BY <2>1
<1> HIDE DEF R, n
<1>5. PICK f \in All : \A i, j \in 1..n : i < j => <<f[i], f[j]>> \in R
  BY <1>3, <1>4, Enumeration DEF n
<1>6. \A i, j \in 1..n : i # j => f[i] # f[j]
  <2> SUFFICES ASSUME NEW i \in 1..n, NEW j \in 1..n, i # j PROVE f[i] # f[j]
    OBVIOUS
  <2>1. f[i] \in items /\ f[j] \in items
    BY <1>5
  <2>2. i < j \/ j < i
    OBVIOUS
  <2>3. <<f[i], f[j]>> \in R \/ <<f[j], f[i]>> \in R
    BY <1>5, <2>2
  <2> QED BY <2>1, <2>3, <1>3, <1>4
<1>7. f \in SetToSeqs(items) /\ \A i, j \in DOMAIN f : i < j => Before(f[i], f[j])
  <2>1. DOMAIN f = 1..n /\ f \in [1..n -> items]
    BY <1>5
  <2>2. f \in SetToSeqs(items)
    BY <2>1, <1>6 DEF SetToSeqs, n
  <2>3. ASSUME NEW i \in 1..n, NEW j \in 1..n, i < j PROVE Before(f[i], f[j])
    <3>1. f[i] \in items /\ f[j] \in items /\ <<f[i], f[j]>> \in R
      BY <1>5, <2>3
    <3> QED BY <3>1, <1>1, <1>3
  <2> QED BY <2>1, <2>2, <2>3
<1> DEFINE s == Sorted(items)
<1>8. s \in SetToSeqs(items) /\ \A i, j \in DOMAIN s : i < j => Before(s[i], s[j])
  BY <1>7 DEF Sorted
<1> HIDE DEF s
<1>9. s \in [1..n -> items] /\ \A i, j \in 1..n : i # j => s[i] # s[j]
  BY <1>8 DEF SetToSeqs, n
<1>10. s \in Seq(items) /\ Len(s) = n /\ DOMAIN s = 1..n
  BY <1>2, <1>9
<1>11. ToSet(s) = items
  <2>1. s \in Injection(1..n, items)
    BY <1>9 DEF Injection, IsInjective
  <2>2. IsFiniteSet(1..n) /\ Cardinality(1..n) = n
    BY <1>2, FS_Interval
  <2>3. s \in Surjection(1..n, items)
    BY <2>1, <2>2, FS_Injection DEF n
  <2> QED BY <2>3, <1>9, <1>10 DEF Surjection, ToSet
<1>12. \A i, j \in 1..Len(s) : i < j => BeforeIn(order, s[i], s[j])
  BY <1>1, <1>8, <1>10
<1>13. Once(s)
  BY <1>9, <1>10 DEF Once
<1> QED BY <1>10, <1>11, <1>12, <1>13 DEF s, n

\* The first of what is sorted, and what stays behind it.
LEMMA PrefixOf ==
    ASSUME NEW T, order \in Seq(T), NEW items, IsFiniteSet(items), items \subseteq Item,
           \A x, y \in items : x.at = y.at => x = y,
           NEW n \in 0..Len(Sorted(items))
    PROVE  LET s == Sorted(items)
               t == SubSeq(s, 1, n)
           IN  /\ t \in Seq(items) /\ Len(t) = n /\ Once(t)
               /\ \A i \in 1..n : t[i] = s[i]
               /\ \A i, j \in 1..n : i < j => BeforeIn(order, t[i], t[j])
               /\ \A x \in ToSet(t), y \in items \ ToSet(t) : BeforeIn(order, x, y)
<1> DEFINE s == Sorted(items)
           t == SubSeq(s, 1, n)
<1>1. /\ s \in Seq(items) /\ Once(s) /\ ToSet(s) = items
      /\ \A i, j \in 1..Len(s) : i < j => BeforeIn(order, s[i], s[j])
  BY SortedIs
<1>0. n \in 0..Len(s)
  OBVIOUS
<1> HIDE DEF s
<1>2. DOMAIN s = 1..Len(s) /\ Len(s) \in Nat
  BY <1>1, LenProperties
<1>3. n \in Nat /\ n <= Len(s)
  BY <1>0, <1>2
<1>4. t \in Seq(items) /\ Len(t) = n /\ \A i \in 1..n : t[i] = s[i]
  <2>1. \A i \in 1..n : s[i] \in items
    BY <1>1, <1>2, <1>3
  <2> QED BY <2>1, <1>3, SubSeqProperties
<1> HIDE DEF t
<1>5. DOMAIN t = 1..n
  BY <1>4, LenProperties
<1>6. Once(t)
  BY <1>1, <1>2, <1>3, <1>4, <1>5 DEF Once
<1>7. \A i, j \in 1..n : i < j => BeforeIn(order, t[i], t[j])
  BY <1>1, <1>3, <1>4
<1>8. ASSUME NEW x \in ToSet(t), NEW y \in items \ ToSet(t)
      PROVE  BeforeIn(order, x, y)
  <2>1. PICK i \in 1..n : x = s[i]
    BY <1>4, <1>5 DEF ToSet
  <2>2. PICK j \in 1..Len(s) : y = s[j]
    BY <1>1, <1>2 DEF ToSet
  <2>3. ~(j <= n)
    BY <2>2, <1>4, <1>5 DEF ToSet
  <2> QED BY <2>1, <2>2, <2>3, <1>1, <1>3
<1> QED BY <1>4, <1>6, <1>7, <1>8 DEF s, t

\* A sequence that holds nothing twice is as long as the set of what it holds.
LEMMA OnceCounts ==
    ASSUME NEW T, NEW q \in Seq(T), Once(q)
    PROVE  IsFiniteSet(ToSet(q)) /\ Cardinality(ToSet(q)) = Len(q)
<1>1. DOMAIN q = 1..Len(q) /\ Len(q) \in Nat
  BY LenProperties
<1>2. q \in Bijection(1..Len(q), ToSet(q))
  <2>1. q \in [1..Len(q) -> ToSet(q)]
    BY <1>1 DEF ToSet
  <2>2. IsInjective(q)
    BY <1>1 DEF Once, IsInjective
  <2>3. \A t \in ToSet(q) : \E i \in 1..Len(q) : q[i] = t
    BY <1>1 DEF ToSet
  <2> QED BY <2>1, <2>2, <2>3 DEF Bijection, Injection, Surjection
<1>3. ExistsBijection(1..Len(q), ToSet(q))
  BY <1>2 DEF ExistsBijection
<1>4. IsFiniteSet(ToSet(q))
  BY <1>1, <1>3, FS_NatBijection
<1> QED BY <1>1, <1>3, <1>4, FS_CountingElements

\* One sequence after another that shares nothing with it.
LEMMA JoinedOnce ==
    ASSUME NEW T, NEW q \in Seq(T), NEW t \in Seq(T), Once(q), Once(t), ToSet(q) \cap ToSet(t) = {}
    PROVE  LET r == q \o t
           IN  /\ r \in Seq(T) /\ Once(r) /\ ToSet(r) = ToSet(q) \cup ToSet(t)
               /\ Len(r) = Len(q) + Len(t) /\ Len(q) \in Nat /\ Len(t) \in Nat
               /\ \A i \in 1..Len(r) :
                     \/ i \in 1..Len(q) /\ r[i] = q[i]
                     \/ i > Len(q) /\ i - Len(q) \in 1..Len(t) /\ r[i] = t[i - Len(q)]
<1> DEFINE r == q \o t
<1>1. /\ r \in Seq(T) /\ Len(r) = Len(q) + Len(t)
      /\ \A i \in 1..(Len(q) + Len(t)) : r[i] = IF i <= Len(q) THEN q[i] ELSE t[i - Len(q)]
  BY ConcatProperties
<1>2. DOMAIN q = 1..Len(q) /\ DOMAIN t = 1..Len(t) /\ Len(q) \in Nat /\ Len(t) \in Nat
  BY LenProperties
<1> HIDE DEF r
<1>3. DOMAIN r = 1..Len(r)
  BY <1>1, LenProperties
<1>4. \A i \in 1..Len(r) :
         \/ i \in 1..Len(q) /\ r[i] = q[i]
         \/ i > Len(q) /\ i - Len(q) \in 1..Len(t) /\ r[i] = t[i - Len(q)]
  BY <1>1, <1>2
<1>5. Once(r)
  <2> SUFFICES ASSUME NEW i \in 1..Len(r), NEW j \in 1..Len(r), r[i] = r[j]
               PROVE  i = j
    BY <1>3 DEF Once
  <2>0. \A m, n : m \in DOMAIN q /\ n \in DOMAIN t => q[m] # t[n]
    BY DEF ToSet
  <2>1. CASE i \in 1..Len(q) /\ r[i] = q[i] /\ j \in 1..Len(q) /\ r[j] = q[j]
    BY <2>1, <1>2 DEF Once
  <2>2. CASE /\ i > Len(q) /\ i - Len(q) \in 1..Len(t) /\ r[i] = t[i - Len(q)]
             /\ j > Len(q) /\ j - Len(q) \in 1..Len(t) /\ r[j] = t[j - Len(q)]
    <3>1. i - Len(q) = j - Len(q)
      BY <2>2, <1>2 DEF Once
    <3> QED BY <3>1, <1>2
  <2> QED BY <1>2, <1>4, <2>0, <2>1, <2>2
<1>6. \A x \in ToSet(r) : x \in ToSet(q) \cup ToSet(t)
  BY <1>2, <1>3, <1>4 DEF ToSet
<1>7. \A x \in ToSet(q) : x \in ToSet(r)
  BY <1>1, <1>2, <1>3 DEF ToSet
<1>8. \A x \in ToSet(t) : x \in ToSet(r)
  <2> SUFFICES ASSUME NEW i \in 1..Len(t) PROVE t[i] \in ToSet(r)
    BY <1>2 DEF ToSet
  <2>1. i + Len(q) \in 1..(Len(q) + Len(t)) /\ ~(i + Len(q) <= Len(q)) /\ (i + Len(q)) - Len(q) = i
    BY <1>2
  <2>2. r[i + Len(q)] = t[i]
    BY <1>1, <2>1
  <2> QED BY <1>1, <1>3, <2>1, <2>2 DEF ToSet
<1> QED BY <1>1, <1>2, <1>4, <1>5, <1>6, <1>7, <1>8 DEF r

\* Handing on items that are held, in order, from the front: what is left repeats one of them or
\* has its turn at the new number or later.
LEMMA HandOn ==
    ASSUME NEW ord, NEW nxt, NEW buf, NEW em, NEW late, NEW acc,
           Core(ord, nxt, buf, em, late, acc),
           NEW t \in Seq(buf), Once(t),
           \A i, j \in 1..Len(t) : i < j => BeforeIn(ord, t[i], t[j]),
           NEW m \in Nat, m >= nxt,
           \A x \in ToSet(t) : x.seq < m,
           \A x \in buf \ ToSet(t) : x.seq >= nxt =>
               x.seq >= m \/ \E e \in ToSet(t) : Repeats(e, x)
    PROVE  Core(ord, m, buf \ ToSet(t), em \o t, late, acc)
<1> DEFINE r == em \o t
           rest == buf \ ToSet(t)
<1>1. /\ ord \in Seq(Sessions \ {NoSession}) /\ Once(ord) /\ nxt \in Nat \ {0}
      /\ em \in Seq(Item) /\ Once(em) /\ IsFiniteSet(buf)
      /\ acc = ToSet(em) \cup buf /\ ToSet(em) \cap buf = {} /\ late \subseteq acc
      /\ AcceptedInv(ord, acc) /\ HeldInv(ord, nxt, buf, em)
      /\ HandedInv(ord, nxt, em, late) /\ InOrder(em, ord, late)
  BY DEF Core
<1>2. /\ ToSet(t) \subseteq buf /\ DOMAIN t = 1..Len(t) /\ Len(t) \in Nat
      /\ DOMAIN em = 1..Len(em) /\ Len(em) \in Nat
  BY <1>1, LenProperties DEF ToSet
<1>3. acc \subseteq Item /\ buf \subseteq Item
  BY <1>1 DEF AcceptedInv
<1>4. t \in Seq(Item)
  <2>1. \A i \in 1..Len(t) : t[i] \in Item
    BY <1>2, <1>3 DEF ToSet
  <2> QED BY <1>2, <2>1, SeqDef
<1>5. /\ r \in Seq(Item) /\ Once(r) /\ ToSet(r) = ToSet(em) \cup ToSet(t)
      /\ Len(r) = Len(em) + Len(t)
      /\ \A i \in 1..Len(r) :
            \/ i \in 1..Len(em) /\ r[i] = em[i]
            \/ i > Len(em) /\ i - Len(em) \in 1..Len(t) /\ r[i] = t[i - Len(em)]
      /\ \A i \in 1..Len(em) : r[i] = em[i]
  <2>1. ToSet(em) \cap ToSet(t) = {}
    BY <1>1, <1>2
  <2>2. \A i \in 1..Len(em) : (em \o t)[i] = em[i]
    BY <1>1, <1>2, <1>4, ConcatProperties
  <2> QED BY <1>1, <1>4, <2>1, <2>2, JoinedOnce
<1> HIDE DEF r
<1>6. IsFiniteSet(rest)
  BY <1>1, FS_Difference
<1>7. acc = ToSet(r) \cup rest /\ ToSet(r) \cap rest = {}
  BY <1>1, <1>2, <1>5
<1>8. HeldInv(ord, m, rest, r)
  <2> SUFFICES ASSUME NEW x \in rest
               PROVE  /\ Contains(ord, x.session) /\ x.session = Last(ord)
                      /\ x.seq >= m \/ \E e \in ToSet(r) : Repeats(e, x)
    BY DEF HeldInv
  <2>1. /\ Contains(ord, x.session) /\ x.session = Last(ord)
        /\ x.seq >= nxt \/ \E e \in ToSet(em) : Repeats(e, x)
    BY <1>1 DEF HeldInv
  <2>2. CASE x.seq >= nxt
    <3>1. x.seq >= m \/ \E e \in ToSet(t) : Repeats(e, x)
      BY <2>2
    <3> QED BY <2>1, <3>1, <1>5
  <2>3. CASE \E e \in ToSet(em) : Repeats(e, x)
    BY <2>1, <2>3, <1>5
  <2> QED BY <2>1, <2>2, <2>3
<1>9. HandedInv(ord, m, r, late)
  <2> SUFFICES ASSUME NEW e \in ToSet(r) \ late
               PROVE  Contains(ord, e.session) /\ (e.session = Last(ord) => e.seq < m)
    BY DEF HandedInv
  <2>0. e \in Item /\ e.seq \in Nat
    BY <1>1, <1>2, <1>3, <1>5, QueueAssumption DEF Item
  <2>1. CASE e \in ToSet(em)
    BY <2>0, <2>1, <1>1 DEF HandedInv
  <2>2. CASE e \in ToSet(t)
    BY <2>2, <1>1, <1>2 DEF HeldInv
  <2> QED BY <2>1, <2>2, <1>5
<1>10. InOrder(r, ord, late)
  <2> SUFFICES ASSUME NEW i \in 1..Len(r), NEW j \in 1..Len(r), i < j, BeforeIn(ord, r[j], r[i]),
                      r[j] \notin late, r[i] \notin late
               PROVE  \E k \in 1..(j - 1) : Repeats(r[k], r[j])
    BY DEF InOrder
  <2>1. CASE j \in 1..Len(em)
    <3>1. i \in 1..Len(em) /\ r[i] = em[i] /\ r[j] = em[j]
      BY <2>1, <1>2, <1>5
    <3>2. PICK k \in 1..(j - 1) : Repeats(em[k], em[j])
      BY <2>1, <3>1, <1>1 DEF InOrder
    <3>3. k \in 1..Len(em)
      BY <2>1, <1>2
    <3> QED BY <3>1, <3>2, <3>3, <1>5
  <2>2. CASE j > Len(em) /\ i > Len(em)
    <3>1. /\ i - Len(em) \in 1..Len(t) /\ r[i] = t[i - Len(em)]
          /\ j - Len(em) \in 1..Len(t) /\ r[j] = t[j - Len(em)]
      BY <2>2, <1>2, <1>5
    <3>2. BeforeIn(ord, r[i], r[j])
      <4>1. i - Len(em) < j - Len(em)
        BY <1>2
      <4> QED BY <3>1, <4>1
    <3>3. r[i] \in Item /\ r[j] \in Item
      BY <3>1, <1>2, <1>3 DEF ToSet
    <3> QED BY <3>2, <3>3, <1>1, BeforeOrders
  <2>3. CASE j > Len(em) /\ i \in 1..Len(em)
    <3>1. j - Len(em) \in 1..Len(t) /\ r[j] = t[j - Len(em)] /\ r[i] = em[i]
      BY <2>3, <1>2, <1>5
    <3>2. r[j] \in buf /\ r[i] \in ToSet(em)
      BY <2>3, <3>1, <1>2 DEF ToSet
    <3>3. CASE \E e \in ToSet(em) : Repeats(e, r[j])
      <4>1. PICK k \in 1..Len(em) : Repeats(em[k], r[j])
        BY <3>3, <1>2 DEF ToSet
      <4>2. k \in 1..(j - 1) /\ r[k] = em[k]
        BY <2>3, <1>2, <1>5
      <4> QED BY <4>1, <4>2
    <3>4. CASE r[j].seq >= nxt
      <4>1. /\ Contains(ord, r[j].session) /\ r[j].session = Last(ord)
            /\ Contains(ord, r[i].session) /\ (r[i].session = Last(ord) => r[i].seq < nxt)
        BY <3>2, <1>1 DEF HeldInv, HandedInv
      <4>2. AgeIn(ord, r[j].session) = Len(ord) /\ AgeIn(ord, r[i].session) \in 0..Len(ord) /\ Len(ord) \in Nat
        BY <4>1, <1>1, AgeIs, LastIsOldest, LenProperties
      <4>3. AgeIn(ord, r[i].session) = Len(ord) => r[i].session = Last(ord)
        BY <4>1, <1>1, LastIsOldest
      <4>4. r[i].seq \in Nat /\ r[j].seq \in Nat
        <5>1. \A v \in Item : v.seq \in Nat
          BY QueueAssumption DEF Item
        <5>2. r[i] \in Item /\ r[j] \in Item
          BY <3>2, <1>1, <1>3
        <5> QED BY <5>1, <5>2
      <4>5. \/ AgeIn(ord, r[j].session) < AgeIn(ord, r[i].session)
            \/ AgeIn(ord, r[j].session) = AgeIn(ord, r[i].session) /\ r[j].seq <= r[i].seq
        BY <4>4 DEF BeforeIn
      <4>6. nxt \in Nat
        BY <1>1
      <4> QED BY <3>4, <4>1, <4>2, <4>3, <4>4, <4>5, <4>6
    <3> QED BY <3>2, <3>3, <3>4, <1>1 DEF HeldInv
  <2> QED BY <2>1, <2>2, <2>3, <1>2
<1>11. m \in Nat \ {0}
  BY <1>1
<1> QED BY <1>1, <1>5, <1>6, <1>7, <1>8, <1>9, <1>10, <1>11 DEF Core, r

\* A session that nobody saw, after the last one's buffer was written out.
LEMMA StartSession ==
    ASSUME NEW ord, NEW nxt, NEW em, NEW late, NEW acc, Core(ord, nxt, {}, em, late, acc),
           NEW s \in Sessions \ {NoSession}, ~Contains(ord, s)
    PROVE  Core(Append(ord, s), 1, {}, em, late, acc)
<1> DEFINE o == Append(ord, s)
<1>1. /\ ord \in Seq(Sessions \ {NoSession}) /\ Once(ord) /\ nxt \in Nat \ {0}
      /\ em \in Seq(Item) /\ Once(em) /\ IsFiniteSet({})
      /\ acc = ToSet(em) \cup {} /\ ToSet(em) \cap {} = {} /\ late \subseteq acc
      /\ AcceptedInv(ord, acc) /\ HandedInv(ord, nxt, em, late) /\ InOrder(em, ord, late)
  BY DEF Core
<1>2. /\ o \in Seq(Sessions \ {NoSession}) /\ Once(o) /\ Contains(o, s) /\ Last(o) = s
      /\ \A r : r # s => /\ Contains(o, r) <=> Contains(ord, r)
                         /\ AgeIn(o, r) = AgeIn(ord, r)
  BY <1>1, NewAge
<1> HIDE DEF o
<1>3. \A x \in acc : x.session # s /\ x \in Item
  BY <1>1 DEF AcceptedInv
<1>4. AcceptedInv(o, acc)
  BY <1>1, <1>2, <1>3 DEF AcceptedInv
<1>5. HeldInv(o, 1, {}, em)
  BY DEF HeldInv
<1>6. HandedInv(o, 1, em, late)
  BY <1>1, <1>2, <1>3 DEF HandedInv
<1>7. InOrder(em, o, late)
  <2>1. \A i \in 1..Len(em) : em[i] \in acc
    BY <1>1, LenProperties DEF ToSet
  <2>2. \A x, y \in acc : BeforeIn(o, x, y) <=> BeforeIn(ord, x, y)
    BY <1>2, <1>3 DEF BeforeIn
  <2> QED BY <1>1, <2>1, <2>2 DEF InOrder
<1> QED BY <1>1, <1>2, <1>4, <1>5, <1>6, <1>7 DEF Core, o

\* An item of the present session whose turn has not come is held.
LEMMA Hold ==
    ASSUME NEW ord, NEW nxt, NEW buf, NEW em, NEW late, NEW acc,
           Core(ord, nxt, buf, em, late, acc),
           NEW x \in Item, \A y \in acc : y.at # x.at,
           Contains(ord, x.session), x.session = Last(ord), x.seq >= nxt
    PROVE  Core(ord, nxt, buf \cup {x}, em, late, acc \cup {x})
<1>1. /\ ord \in Seq(Sessions \ {NoSession}) /\ Once(ord) /\ nxt \in Nat \ {0}
      /\ em \in Seq(Item) /\ Once(em) /\ IsFiniteSet(buf)
      /\ acc = ToSet(em) \cup buf /\ ToSet(em) \cap buf = {} /\ late \subseteq acc
      /\ AcceptedInv(ord, acc) /\ HeldInv(ord, nxt, buf, em)
      /\ HandedInv(ord, nxt, em, late) /\ InOrder(em, ord, late)
  BY DEF Core
<1>2. IsFiniteSet(buf \cup {x})
  BY <1>1, FS_AddElement
<1>3. x \notin acc
  OBVIOUS
<1>4. AcceptedInv(ord, acc \cup {x})
  BY <1>1 DEF AcceptedInv
<1>5. HeldInv(ord, nxt, buf \cup {x}, em)
  BY <1>1 DEF HeldInv
<1>6. /\ acc \cup {x} = ToSet(em) \cup (buf \cup {x}) /\ ToSet(em) \cap (buf \cup {x}) = {}
      /\ late \subseteq acc \cup {x}
  BY <1>1, <1>3
<1> QED BY <1>1, <1>2, <1>4, <1>5, <1>6 DEF Core

\* An item that is not held back goes straight on.
LEMMA GoPast ==
    ASSUME NEW ord, NEW nxt, NEW buf, NEW em, NEW late, NEW acc,
           Core(ord, nxt, buf, em, late, acc),
           NEW x \in Item, \A y \in acc : y.at # x.at,
           x.session = NoSession \/ Contains(ord, x.session)
    PROVE  Core(ord, nxt, buf, em \o <<x>>, late \cup {x}, acc \cup {x})
<1> DEFINE t == <<x>>
           r == em \o t
<1>1. /\ ord \in Seq(Sessions \ {NoSession}) /\ Once(ord) /\ nxt \in Nat \ {0}
      /\ em \in Seq(Item) /\ Once(em) /\ IsFiniteSet(buf)
      /\ acc = ToSet(em) \cup buf /\ ToSet(em) \cap buf = {} /\ late \subseteq acc
      /\ AcceptedInv(ord, acc) /\ HeldInv(ord, nxt, buf, em)
      /\ HandedInv(ord, nxt, em, late) /\ InOrder(em, ord, late)
  BY DEF Core
<1>2. t \in Seq(Item) /\ Len(t) = 1 /\ t[1] = x /\ DOMAIN t = 1..1
  OBVIOUS
<1> HIDE DEF t
<1>3. Once(t) /\ ToSet(t) = {x}
  BY <1>2 DEF Once, ToSet
<1>4. x \notin acc
  OBVIOUS
<1>5. /\ r \in Seq(Item) /\ Once(r) /\ ToSet(r) = ToSet(em) \cup {x}
      /\ Len(r) = Len(em) + 1 /\ Len(em) \in Nat
      /\ \A i \in 1..Len(r) :
            \/ i \in 1..Len(em) /\ r[i] = em[i]
            \/ i > Len(em) /\ i - Len(em) \in 1..1 /\ r[i] = t[i - Len(em)]
      /\ \A i \in 1..Len(em) : r[i] = em[i]
  <2>1. ToSet(em) \cap ToSet(t) = {}
    BY <1>1, <1>3, <1>4
  <2>2. \A i \in 1..Len(em) : (em \o t)[i] = em[i]
    BY <1>1, <1>2, ConcatProperties, LenProperties
  <2>3. /\ r \in Seq(Item) /\ Once(r) /\ ToSet(r) = ToSet(em) \cup ToSet(t)
        /\ Len(r) = Len(em) + Len(t) /\ Len(em) \in Nat
        /\ \A i \in 1..Len(r) :
              \/ i \in 1..Len(em) /\ r[i] = em[i]
              \/ i > Len(em) /\ i - Len(em) \in 1..Len(t) /\ r[i] = t[i - Len(em)]
    <3>1. em \in Seq(Item) /\ t \in Seq(Item) /\ Once(em) /\ Once(t)
      BY <1>1, <1>2, <1>3
    <3> QED BY <3>1, <2>1, JoinedOnce
  <2> HIDE DEF r
  <2> QED BY <1>2, <1>3, <2>2, <2>3 DEF r
<1> HIDE DEF r
<1>6. \A i \in 1..Len(r) : i \in 1..Len(em) \/ r[i] = x
  BY <1>2, <1>5
<1>7. AcceptedInv(ord, acc \cup {x})
  BY <1>1 DEF AcceptedInv
<1>8. HeldInv(ord, nxt, buf, r)
  BY <1>1, <1>5 DEF HeldInv
<1>9. HandedInv(ord, nxt, r, late \cup {x})
  BY <1>1, <1>5 DEF HandedInv
<1>10. InOrder(r, ord, late \cup {x})
  <2> SUFFICES ASSUME NEW i \in 1..Len(r), NEW j \in 1..Len(r), i < j, BeforeIn(ord, r[j], r[i]),
                      r[j] \notin late \cup {x}, r[i] \notin late \cup {x}
               PROVE  \E k \in 1..(j - 1) : Repeats(r[k], r[j])
    BY DEF InOrder
  <2>1. i \in 1..Len(em) /\ r[i] = em[i] /\ j \in 1..Len(em) /\ r[j] = em[j]
    BY <1>5, <1>6
  <2>2. PICK k \in 1..(j - 1) : Repeats(em[k], em[j])
    BY <2>1, <1>1 DEF InOrder
  <2>3. k \in 1..Len(em)
    BY <2>1, <1>5
  <2> QED BY <2>1, <2>2, <2>3, <1>5
<1>11. /\ acc \cup {x} = ToSet(r) \cup buf /\ ToSet(r) \cap buf = {}
       /\ late \cup {x} \subseteq acc \cup {x}
  BY <1>1, <1>4, <1>5
<1> QED BY <1>1, <1>5, <1>7, <1>8, <1>9, <1>10, <1>11 DEF Core, r, t

\* What was accepted is what was handed on and what is held.
LEMMA AcceptedCount ==
    ASSUME NEW ord, NEW nxt, NEW buf, NEW em, NEW late, NEW acc,
           Core(ord, nxt, buf, em, late, acc)
    PROVE  /\ IsFiniteSet(acc) /\ Cardinality(acc) = Len(em) + Cardinality(buf)
           /\ Cardinality(buf) \in Nat /\ Len(em) \in Nat
           /\ Len(em) = Cardinality(ToSet(em))
<1>1. /\ em \in Seq(Item) /\ Once(em) /\ IsFiniteSet(buf)
      /\ acc = ToSet(em) \cup buf /\ ToSet(em) \cap buf = {}
  BY DEF Core
<1>2. IsFiniteSet(ToSet(em)) /\ Cardinality(ToSet(em)) = Len(em)
  BY <1>1, OnceCounts
<1>3. Cardinality(buf) \in Nat /\ Len(em) \in Nat
  BY <1>1, FS_CardinalityType, LenProperties
<1>4. Cardinality(ToSet(em) \cap buf) = 0
  BY <1>1, FS_EmptySet
<1>5. /\ IsFiniteSet(ToSet(em) \cup buf)
      /\ Cardinality(ToSet(em) \cup buf) =
           Cardinality(ToSet(em)) + Cardinality(buf) - Cardinality(ToSet(em) \cap buf)
  BY <1>1, <1>2, FS_Union
<1> QED BY <1>1, <1>2, <1>3, <1>4, <1>5

\* What was held and waited for is handed on with the number it has, and is the next no more.
LEMMA HandOnNext ==
    ASSUME NEW ord, NEW nxt, NEW buf, NEW em, NEW late, NEW acc,
           Core(ord, nxt, buf, em, late, acc),
           NEW x \in Item, \A y \in acc : y.at # x.at,
           Contains(ord, x.session), x.session = Last(ord), x.seq = nxt
    PROVE  Core(ord, nxt + 1, buf, em \o <<x>>, late, acc \cup {x})
<1> DEFINE t == <<x>>
           held == buf \cup {x}
<1>1. nxt \in Nat \ {0} /\ acc \subseteq Item /\ x \notin buf /\ buf \subseteq acc
  BY DEF Core, AcceptedInv
<1>2. Core(ord, nxt, held, em, late, acc \cup {x})
  BY <1>1, Hold
<1>3. t \in Seq(held) /\ Len(t) = 1 /\ t[1] = x /\ DOMAIN t = 1..1
  OBVIOUS
<1>4. held \ {x} = buf /\ held \subseteq Item
  BY <1>1
<1> HIDE DEF t, held
<1>5. Once(t) /\ ToSet(t) = {x}
  BY <1>3 DEF Once, ToSet
<1>6. \A i, j \in 1..Len(t) : i < j => BeforeIn(ord, t[i], t[j])
  BY <1>3
<1>7. \A v \in Item : v.seq \in Nat
  BY QueueAssumption DEF Item
<1>8. /\ nxt + 1 \in Nat /\ nxt + 1 >= nxt
      /\ \A y \in ToSet(t) : y.seq < nxt + 1
  BY <1>1, <1>5
<1>9. ASSUME NEW y \in held \ ToSet(t), y.seq >= nxt
      PROVE  y.seq >= nxt + 1 \/ \E e \in ToSet(t) : Repeats(e, y)
  <2>1. CASE y.seq = nxt
    <3>1. y.session = Last(ord)
      BY <1>2 DEF Core, HeldInv
    <3> QED BY <2>1, <3>1, <1>5 DEF Repeats
  <2>2. CASE y.seq # nxt
    <3>1. y.seq \in Nat
      BY <1>4, <1>7
    <3> QED BY <2>2, <3>1, <1>1, <1>9
  <2> QED BY <2>1, <2>2
<1>10. Core(ord, nxt + 1, held \ ToSet(t), em \o t, late, acc \cup {x})
  BY <1>2, <1>3, <1>5, <1>6, <1>8, <1>9, HandOn
<1> QED BY <1>4, <1>5, <1>10 DEF t

\* Handing on the front of the sorted buffer: all that is left is after it.
LEMMA HandOnFront ==
    ASSUME NEW nxt, NEW buf, NEW em, NEW late, NEW acc, Core(order, nxt, buf, em, late, acc),
           NEW n \in 0..Len(Sorted(buf)), NEW m \in Nat, m >= nxt,
           \A i \in 1..n : Sorted(buf)[i].seq < m,
           m = nxt \/ \E i \in 1..n : m = Sorted(buf)[i].seq + 1
    PROVE  LET t == SubSeq(Sorted(buf), 1, n)
           IN  Core(order, m, buf \ ToSet(t), em \o t, late, acc)
<1> DEFINE s == Sorted(buf)
           t == SubSeq(s, 1, n)
<1>1. /\ order \in Seq(Sessions \ {NoSession}) /\ Once(order) /\ nxt \in Nat \ {0}
      /\ IsFiniteSet(buf) /\ acc \subseteq Item /\ buf \subseteq acc
      /\ \A x, y \in acc : x.at = y.at => x = y
      /\ HeldInv(order, nxt, buf, em)
  BY DEF Core, AcceptedInv
<1>2. /\ t \in Seq(buf) /\ Len(t) = n /\ Once(t)
      /\ \A i \in 1..n : t[i] = s[i]
      /\ \A i, j \in 1..n : i < j => BeforeIn(order, t[i], t[j])
      /\ \A x \in ToSet(t), y \in buf \ ToSet(t) : BeforeIn(order, x, y)
  BY <1>1, PrefixOf
<1>3. /\ \A i \in 1..n : s[i].seq < m
      /\ m = nxt \/ \E i \in 1..n : m = s[i].seq + 1
  OBVIOUS
<1> HIDE DEF s, t
<1>4. DOMAIN t = 1..n
  BY <1>2, LenProperties
<1>5. \A x \in ToSet(t) : x.seq < m
  BY <1>2, <1>3, <1>4 DEF ToSet
<1>6. ASSUME NEW x \in buf \ ToSet(t), x.seq >= nxt
      PROVE  x.seq >= m \/ \E e \in ToSet(t) : Repeats(e, x)
  <2>1. CASE m = nxt
    BY <2>1, <1>6
  <2>2. CASE \E i \in 1..n : m = s[i].seq + 1
    <3>1. PICK e \in ToSet(t) : m = e.seq + 1
      BY <2>2, <1>2, <1>4 DEF ToSet
    <3>2. e \in buf
      BY <1>2, <1>4 DEF ToSet
    <3>3. /\ Contains(order, e.session) /\ e.session = Last(order)
          /\ Contains(order, x.session) /\ x.session = Last(order)
      BY <3>2, <1>1 DEF HeldInv
    <3>4. BeforeIn(order, e, x)
      BY <1>2
    <3>5. AgeIn(order, e.session) \in Nat
      BY <1>1, AgeIs
    <3>6. \A v \in Item : v.seq \in Nat
      BY QueueAssumption DEF Item
    <3>7. e.seq \in Nat /\ x.seq \in Nat
      BY <3>2, <3>6, <1>1
    <3>8. e.seq <= x.seq
      BY <3>3, <3>4, <3>5, <3>7 DEF BeforeIn
    <3> QED BY <3>1, <3>3, <3>7, <3>8 DEF Repeats
  <2> QED BY <2>1, <2>2, <1>3
<1>7. Core(order, m, buf \ ToSet(t), em \o t, late, acc)
  BY <1>2, <1>5, <1>6, HandOn
<1> QED BY <1>7 DEF s, t

\* processBuffer hands on the items that follow each other, and goes on with the number after.
LEMMA HandOnRun ==
    ASSUME NEW nxt, NEW buf, NEW em, NEW late, NEW acc, Core(order, nxt, buf, em, late, acc)
    PROVE  LET run == Run(buf, nxt)
           IN  /\ Core(order, nxt + Len(run), buf \ ToSet(run), em \o run, late, acc)
               /\ run \in Seq(Item)
<1> DEFINE s == Sorted(buf)
           InTurn(n) == \A i \in 1..n : s[i].seq = nxt + i - 1 /\ s[i].session = Last(order)
           Ends == {n \in 0..Len(s) : InTurn(n) /\ (n = Len(s) \/ ~InTurn(n + 1))}
           Breaks == {n \in 0..Len(s) : n = Len(s) \/ ~InTurn(n + 1)}
           n == CHOOSE k \in 0..Len(s) : InTurn(k) /\ (k = Len(s) \/ ~InTurn(k + 1))
           run == SubSeq(s, 1, n)
<1>0. Run(buf, nxt) = run
  BY DEF Run
<1>1. /\ order \in Seq(Sessions \ {NoSession}) /\ Once(order) /\ nxt \in Nat \ {0}
      /\ IsFiniteSet(buf) /\ acc \subseteq Item /\ buf \subseteq acc
      /\ \A x, y \in acc : x.at = y.at => x = y
  BY DEF Core, AcceptedInv
<1>2. s \in Seq(buf) /\ Len(s) \in Nat
  BY <1>1, SortedIs, LenProperties
<1> HIDE DEF s
<1>3. \E k \in 0..Len(s) : InTurn(k) /\ (k = Len(s) \/ ~InTurn(k + 1))
  <2>1. Breaks \subseteq Nat /\ Len(s) \in Breaks
    BY <1>2
  <2>2. PICK k \in Breaks : \A j \in Breaks : k <= j
    BY <2>1, LeastElement
  <2>3. k \in 0..Len(s) /\ (k = Len(s) \/ ~InTurn(k + 1))
    OBVIOUS
  <2>4. InTurn(k)
    <3>1. CASE k = 0
      BY <3>1
    <3>2. CASE k # 0
      <4>1. k - 1 \in 0..Len(s) /\ ~(k <= k - 1) /\ (k - 1) + 1 = k
        BY <3>2, <2>3, <1>2
      <4>2. k - 1 \notin Breaks
        BY <4>1, <2>2
      <4> QED BY <4>1, <4>2
    <3> QED BY <3>1, <3>2
  <2> QED BY <2>3, <2>4
<1>4. n \in 0..Len(s) /\ InTurn(n)
  BY <1>3
<1> HIDE DEF n
<1>5. /\ nxt + n \in Nat /\ nxt + n >= nxt
      /\ \A i \in 1..n : s[i].seq < nxt + n
      /\ nxt + n = nxt \/ \E i \in 1..n : nxt + n = s[i].seq + 1
  <2>1. n \in Nat /\ nxt \in Nat
    BY <1>1, <1>2, <1>4
  <2>2. \A i \in 1..n : s[i].seq = nxt + i - 1
    BY <1>4
  <2>3. CASE n = 0
    BY <2>1, <2>3
  <2>4. CASE n # 0
    <3>1. n \in 1..n /\ s[n].seq = nxt + n - 1
      BY <2>1, <2>2, <2>4
    <3>2. nxt + n = s[n].seq + 1
      BY <2>1, <3>1
    <3> QED BY <2>1, <2>2, <3>1, <3>2
  <2> QED BY <2>3, <2>4
<1>6. Core(order, nxt + n, buf \ ToSet(run), em \o run, late, acc)
  <2>1. n \in 0..Len(Sorted(buf)) /\ \A i \in 1..n : Sorted(buf)[i].seq < nxt + n
    BY <1>4, <1>5 DEF s
  <2>2. nxt + n = nxt \/ \E i \in 1..n : nxt + n = Sorted(buf)[i].seq + 1
    BY <1>5 DEF s
  <2> QED BY <1>5, <2>1, <2>2, HandOnFront DEF s
<1>7. Len(run) = n /\ run \in Seq(Item)
  <2>1. \A i \in 1..n : s[i] \in Item
    BY <1>1, <1>2, <1>4, LenProperties
  <2> QED BY <2>1, <1>2, <1>4, SubSeqProperties
<1> QED BY <1>0, <1>6, <1>7

\* With nothing held there is nothing to hand on.
LEMMA EmptyRun ==
    ASSUME NEW T, order \in Seq(T), NEW m
    PROVE  Run({}, m) = <<>>
<1>1. Sorted({}) \in Seq({}) /\ Len(Sorted({})) = 0
  <2>1. IsFiniteSet({}) /\ Cardinality({}) = 0
    BY FS_EmptySet
  <2> QED BY <2>1, SortedIs
<1> DEFINE s == Sorted({})
           n == CHOOSE k \in 0..Len(s) :
                    (\A i \in 1..k : s[i].seq = m + i - 1 /\ s[i].session = Last(order))
                    /\ (k = Len(s) \/ ~(\A i \in 1..(k + 1) : s[i].seq = m + i - 1 /\ s[i].session = Last(order)))
<1>2. Run({}, m) = SubSeq(s, 1, n)
  BY DEF Run
<1> HIDE DEF s
<1>3. n = 0
  <2>1. \A i \in 1..0 : s[i].seq = m + i - 1 /\ s[i].session = Last(order)
    OBVIOUS
  <2>2. 0 \in 0..Len(s) /\ 0 = Len(s)
    BY <1>1 DEF s
  <2> QED BY <2>1, <2>2
<1> HIDE DEF n
<1> QED BY <1>2, <1>3, SubSeqEmpty

\* ensureSessionTs: a session nobody saw starts after the buffer of the last one is written out.
LEMMA Started ==
    ASSUME IInv, NEW item \in Item
    PROVE  LET flushed == IF NewSession(item.session) THEN Flushed(buffer) ELSE <<>>
           IN  /\ Core(Current(item), NextOf(item), BufferOf(item), emitted \o flushed, behind, accepted)
               /\ item.session = NoSession \/ Contains(Current(item), item.session)
               /\ NewSession(item.session) => BufferOf(item) = {}
<1>1. Core(order, next, buffer, emitted, behind, accepted)
  BY DEF IInv
<1>2. /\ order \in Seq(Sessions \ {NoSession}) /\ Once(order) /\ next \in Nat \ {0}
      /\ emitted \in Seq(Item) /\ IsFiniteSet(buffer) /\ accepted \subseteq Item /\ buffer \subseteq accepted
      /\ \A x, y \in accepted : x.at = y.at => x = y
  BY <1>1 DEF Core, AcceptedInv
<1>3. CASE NewSession(item.session)
  <2> DEFINE s == Sorted(buffer)
             most == CHOOSE m \in Nat : m >= next /\ m > MaxSeq
  <2>1. /\ s \in Seq(buffer) /\ Once(s) /\ ToSet(s) = buffer
        /\ \A i, j \in 1..Len(s) : i < j => BeforeIn(order, s[i], s[j])
    BY <1>2, SortedIs
  <2>2. PICK m \in Nat : m >= next /\ m > MaxSeq
    <3>1. next + MaxSeq + 1 \in Nat /\ next + MaxSeq + 1 >= next /\ next + MaxSeq + 1 > MaxSeq
      BY <1>2, QueueAssumption
    <3> QED BY <3>1
  <2>3. \A x \in Item : x.seq < m
    BY <2>2, QueueAssumption DEF Item
  <2>4. \A x \in ToSet(s) : x.seq < m
    BY <2>1, <2>3, <1>2
  <2>5. \A x \in buffer \ ToSet(s) : FALSE
    BY <2>1
  <2> HIDE DEF s
  <2>6. Core(order, m, buffer \ ToSet(s), emitted \o s, behind, accepted)
    BY <1>1, <2>1, <2>2, <2>4, <2>5, HandOn
  <2>7. buffer \ ToSet(s) = {}
    BY <2>1
  <2>8. item.session \in Sessions \ {NoSession} /\ ~Contains(order, item.session)
    BY <1>3 DEF NewSession, Item
  <2>9. Core(Append(order, item.session), 1, {}, emitted \o s, behind, accepted)
    BY <2>6, <2>7, <2>8, StartSession
  <2>10. Contains(Append(order, item.session), item.session)
    BY <2>8, <1>2, NewAge
  <2> QED BY <1>3, <2>9, <2>10 DEF Current, NextOf, BufferOf, Flushed, s
<1>4. CASE ~NewSession(item.session)
  <2>1. emitted \o <<>> = emitted
    BY <1>2, ConcatEmptySeq
  <2> QED BY <1>1, <1>4, <2>1 DEF Current, NextOf, BufferOf, NewSession
<1> QED BY <1>3, <1>4

\* The arrivals, the channel and the timers after an input was taken.
LEMMA RoomLeft ==
    ASSUME IInv, ~Full, arrived < MaxItems, NEW item \in Item, item.at = arrived + 1,
           accepted' = accepted \cup {item}, arrived' = arrived + 1, UNCHANGED <<taken, closed>>,
           Core(order, next, buffer, emitted, behind, accepted)',
           \E q \in Seq(Item) : Len(emitted') = Len(emitted) + Len(q),
           timer' \in 0..arrived', callbacks' \subseteq 1..arrived'
    PROVE  IInv'
<1>1. /\ Cardinality(accepted) = Len(emitted) + Cardinality(buffer) /\ IsFiniteSet(accepted)
      /\ Cardinality(buffer) \in Nat /\ Len(emitted) \in Nat
  BY AcceptedCount DEF IInv
<1>2. Cardinality(accepted') <= Cardinality(accepted) + 1 /\ Cardinality(accepted') \in Nat
  <2>1. Cardinality(accepted \cup {item}) = IF item \in accepted THEN Cardinality(accepted) ELSE Cardinality(accepted) + 1
    BY <1>1, FS_AddElement
  <2> QED BY <1>1, <2>1
<1>3. taken \in 0..Len(emitted) /\ arrived \in 0..MaxItems /\ \A x \in accepted : x.at <= arrived
  BY DEF IInv, Around
<1>4. Cardinality(accepted') - taken' <= Capacity
  BY <1>1, <1>2, <1>3, QueueAssumption DEF Full
<1>5. taken' \in 0..Len(emitted') /\ arrived' \in 0..MaxItems /\ closed' \in BOOLEAN
  <2>1. PICK q \in Seq(Item) : Len(emitted') = Len(emitted) + Len(q)
    OBVIOUS
  <2>2. Len(q) \in Nat
    BY <2>1, LenProperties
  <2>3. Len(emitted') \in Nat /\ Len(emitted) <= Len(emitted')
    BY <1>1, <2>1, <2>2
  <2>4. closed' \in BOOLEAN
    BY DEF IInv, Around
  <2> QED BY <1>1, <1>3, <2>3, <2>4, QueueAssumption
<1>6. \A x \in accepted' : x.at <= arrived'
  <2>1. \A x \in Item : x.at \in Nat
    BY DEF Item
  <2>2. accepted \subseteq Item
    BY DEF IInv, Core, AcceptedInv
  <2> QED BY <1>3, <2>1, <2>2
<1> QED BY <1>4, <1>5, <1>6 DEF IInv, Around

\* QueueItem
LEMMA QueueItemStep ==
    ASSUME IInv, NEW s \in Sessions, NEW n \in 0..MaxSeq, QueueItem(s, n)
    PROVE  IInv'
<1> DEFINE item == [session |-> s, seq |-> n, at |-> arrived + 1]
           flushed == IF NewSession(s) THEN Flushed(buffer) ELSE <<>>
           rest == BufferOf(item)
           run == Run(rest, NextOf(item) + 1)
           em == emitted \o flushed
<1>1. arrived < MaxItems /\ arrived' = arrived + 1 /\ UNCHANGED <<taken, closed>>
  BY DEF QueueItem
<1>2. /\ arrived \in 0..MaxItems /\ taken \in 0..Len(emitted)
      /\ timer \in 0..arrived /\ callbacks \subseteq 1..arrived
      /\ \A x \in accepted : x.at <= arrived
      /\ Core(order, next, buffer, emitted, behind, accepted)
  BY DEF IInv, Around
<1>3. item \in Item /\ item.session = s /\ item.seq = n /\ item.at = arrived + 1
  BY <1>1, <1>2, QueueAssumption DEF Item
<1>4. CASE Refuse
  <2>1. UNCHANGED <<order, next, buffer, timer, callbacks, emitted, accepted, behind>>
    BY <1>4 DEF QueueItem
  <2>2. arrived + 1 \in 0..MaxItems /\ timer \in 0..(arrived + 1) /\ callbacks \subseteq 1..(arrived + 1)
    BY <1>1, <1>2, QueueAssumption
  <2>3. \A x \in accepted : x.at <= arrived + 1
    <3>1. \A x \in Item : x.at \in Nat
      BY DEF Item
    <3>2. accepted \subseteq Item
      BY <1>2 DEF Core, AcceptedInv
    <3> QED BY <1>2, <3>1, <3>2
  <2> QED BY <1>1, <2>1, <2>2, <2>3 DEF IInv, Around
<1>5. CASE ~Refuse
  <2>1. ~Full
    BY <1>5 DEF Refuse
  <2>2. /\ Core(Current(item), NextOf(item), rest, em, behind, accepted)
        /\ s = NoSession \/ Contains(Current(item), s)
        /\ NewSession(s) => rest = {}
    BY <1>3, Started
  <2>3. \A y \in accepted : y.at # item.at
    <3>1. \A x \in Item : x.at \in Nat
      BY DEF Item
    <3>2. accepted \subseteq Item
      BY <1>2 DEF Core, AcceptedInv
    <3> QED BY <1>2, <1>3, <3>1, <3>2
  <2>4. accepted' = accepted \cup {item} /\ order' = Current(item)
    BY <1>5 DEF QueueItem
  <2>5. em \in Seq(Item) /\ flushed \in Seq(Item) /\ Len(em) = Len(emitted) + Len(flushed)
    <3>1. emitted \in Seq(Item) /\ IsFiniteSet(buffer) /\ buffer \subseteq Item /\ order \in Seq(Sessions \ {NoSession})
      BY <1>2 DEF Core, AcceptedInv
    <3>2. \A x, y \in buffer : x.at = y.at => x = y
      BY <1>2 DEF Core, AcceptedInv
    <3>3. Flushed(buffer) \in Seq(buffer)
      BY <3>1, <3>2, SortedIs DEF Flushed
    <3>4. Flushed(buffer) \in Seq(Item)
      BY <3>1, <3>3
    <3>5. flushed \in Seq(Item)
      BY <3>4
    <3> HIDE DEF flushed
    <3> QED BY <3>1, <3>5, ConcatProperties
  <2>6. /\ Core(order, next, buffer, emitted, behind, accepted)'
        /\ \E q \in Seq(Item) : Len(emitted') = Len(emitted) + Len(q)
        /\ timer' \in 0..arrived' /\ callbacks' \subseteq 1..arrived'
    <3>0. /\ 0..arrived \subseteq 0..(arrived + 1) /\ 1..arrived \subseteq 1..(arrived + 1)
          /\ arrived + 1 \in 1..(arrived + 1) /\ 0 \in 0..(arrived + 1)
          /\ 1..(arrived + 1) \subseteq 0..(arrived + 1)
      BY <1>2
    <3>1. ASSUME NEW stop \in BOOLEAN, StopTimer(stop)
          PROVE  timer' \in 0..arrived' /\ callbacks' \subseteq 1..arrived'
      BY <1>1, <1>2, <3>0, <3>1 DEF StopTimer
    <3> HIDE DEF flushed, rest, run, em, item
    <3>2. ASSUME NEW x \in Item
          PROVE  <<x>> \in Seq(Item) /\ Len(<<x>>) = 1
      OBVIOUS
    <3>3. CASE Bypasses(item)
      <4>1. /\ emitted' = em \o <<item>> /\ behind' = behind \cup {item}
            /\ next' = NextOf(item) /\ buffer' = rest /\ StopTimer(flushed # <<>>)
        BY <1>5, <3>3 DEF QueueItem, flushed, rest, em, item
      <4>2. Core(Current(item), NextOf(item), rest, em \o <<item>>, behind \cup {item}, accepted \cup {item})
        BY <1>3, <2>2, <2>3, GoPast
      <4>3. \E q \in Seq(Item) : Len(emitted') = Len(emitted) + Len(q)
        <5>1. flushed \o <<item>> \in Seq(Item) /\ Len(flushed \o <<item>>) = Len(flushed) + 1
          BY <1>3, <2>5, <3>2, ConcatProperties
        <5>2. Len(em \o <<item>>) = Len(em) + 1
          BY <1>3, <2>5, <3>2, ConcatProperties
        <5>3. Len(emitted) \in Nat /\ Len(flushed) \in Nat
          BY <1>2, <2>5, LenProperties DEF Core
        <5> DEFINE q == flushed \o <<item>>
        <5>4. q \in Seq(Item) /\ Len(q) = Len(flushed) + 1
          BY <5>1
        <5>5. Len(emitted') = (Len(emitted) + Len(flushed)) + 1
          BY <2>5, <4>1, <5>2
        <5> HIDE DEF q
        <5>6. Len(emitted') = Len(emitted) + Len(q)
          BY <5>3, <5>4, <5>5
        <5> QED BY <5>4, <5>6
      <4> QED BY <2>4, <3>1, <4>1, <4>2, <4>3
    <3>4. CASE ~Bypasses(item)
      <4>1. /\ s # NoSession /\ s = Last(Current(item)) /\ ~(n < NextOf(item))
            /\ Contains(Current(item), s) /\ NextOf(item) \in Nat \ {0}
        BY <1>3, <2>2, <3>4 DEF Bypasses, Core
      <4>2. CASE n = NextOf(item)
        <5>1. /\ emitted' = em \o <<item>> \o run /\ behind' = behind
              /\ next' = NextOf(item) + 1 + Len(run) /\ buffer' = rest \ ToSet(run)
              /\ StopTimer(flushed # <<>>)
          BY <1>5, <3>4, <4>2 DEF QueueItem, flushed, rest, run, em, item
        <5>2. Core(Current(item), NextOf(item) + 1, rest, em \o <<item>>, behind, accepted \cup {item})
          BY <1>3, <2>2, <2>3, <4>1, <4>2, HandOnNext
        <5>3. /\ Core(Current(item), NextOf(item) + 1 + Len(run), rest \ ToSet(run), em \o <<item>> \o run,
                      behind, accepted \cup {item})
              /\ run \in Seq(Item)
          <6>1. CASE NewSession(s)
            <7>1. order \in Seq(Sessions \ {NoSession})
              BY <1>2 DEF Core
            <7>2. rest = {} /\ run = <<>>
              BY <2>2, <6>1, <7>1, EmptyRun DEF run
            <7>3. em \o <<item>> \in Seq(Item)
              BY <5>2 DEF Core
            <7>4. (em \o <<item>>) \o <<>> = em \o <<item>> /\ Len(<<>>) = 0 /\ <<>> \in Seq(Item)
              BY <7>3, ConcatEmptySeq
            <7>5. NextOf(item) + 1 + 0 = NextOf(item) + 1 /\ rest \ ToSet(<<>>) = rest
              BY <4>1, <7>2
            <7> QED BY <5>2, <7>2, <7>4, <7>5
          <6>2. CASE ~NewSession(s)
            <7>1. Current(item) = order
              BY <6>2, <1>3 DEF Current
            <7>2. Core(order, NextOf(item) + 1 + Len(run), rest \ ToSet(run), (em \o <<item>>) \o run,
                       behind, accepted \cup {item})
              BY <5>2, <7>1, HandOnRun DEF run
            <7>3. run \in Seq(Item)
              BY <5>2, <7>1, HandOnRun DEF run
            <7> QED BY <7>1, <7>2, <7>3
          <6> QED BY <6>1, <6>2
        <5>4. \E q \in Seq(Item) : Len(emitted') = Len(emitted) + Len(q)
          <6>1. flushed \o <<item>> \in Seq(Item) /\ Len(flushed \o <<item>>) = Len(flushed) + 1
            BY <1>3, <2>5, <3>2, ConcatProperties
          <6>2. em \o <<item>> \in Seq(Item) /\ Len(em \o <<item>>) = Len(em) + 1
            BY <1>3, <2>5, <3>2, ConcatProperties
          <6>3. /\ flushed \o <<item>> \o run \in Seq(Item)
                /\ Len(flushed \o <<item>> \o run) = Len(flushed) + 1 + Len(run)
            BY <5>3, <6>1, ConcatProperties
          <6>4. Len(em \o <<item>> \o run) = Len(em) + 1 + Len(run)
            BY <5>3, <6>2, ConcatProperties
          <6>5. Len(emitted) \in Nat /\ Len(flushed) \in Nat /\ Len(run) \in Nat
            BY <1>2, <2>5, <5>3, LenProperties DEF Core
          <6> DEFINE q == flushed \o <<item>> \o run
          <6>6. q \in Seq(Item) /\ Len(q) = Len(flushed) + 1 + Len(run)
            BY <6>3
          <6>7. Len(emitted') = (Len(emitted) + Len(flushed)) + 1 + Len(run)
            BY <2>5, <5>1, <6>4
          <6> HIDE DEF q
          <6>8. Len(emitted') = Len(emitted) + Len(q)
            BY <6>5, <6>6, <6>7
          <6> QED BY <6>6, <6>8
        <5> QED BY <2>4, <3>1, <5>1, <5>3, <5>4
      <4>3. CASE n # NextOf(item)
        <5>1. /\ emitted' = em /\ behind' = behind
              /\ next' = NextOf(item) /\ buffer' = rest \cup {item}
              /\ \/ /\ timer' = item.at
                    /\ \E gone \in {{}, {timer}} : callbacks' = (callbacks \ gone) \cup {item.at}
                 \/ UNCHANGED <<timer, callbacks>>
          BY <1>5, <3>4, <4>3 DEF QueueItem, flushed, rest, em, item
        <5>2. item.seq >= NextOf(item)
          BY <1>3, <4>1
        <5>3. Core(Current(item), NextOf(item), rest \cup {item}, em, behind, accepted \cup {item})
          BY <1>3, <2>2, <2>3, <4>1, <5>2, Hold
        <5>4. timer' \in 0..arrived' /\ callbacks' \subseteq 1..arrived'
          BY <1>1, <1>2, <1>3, <3>0, <5>1
        <5> QED BY <2>4, <2>5, <5>1, <5>3, <5>4
      <4> QED BY <4>2, <4>3
    <3> QED BY <3>3, <3>4
  <2> HIDE DEF item
  <2> QED BY <1>1, <1>3, <2>1, <2>4, <2>6, RoomLeft
<1> QED BY <1>4, <1>5

\* The number that is next after a timeout: after the last of those that were waited for.
LEMMA NextAfterIs ==
    ASSUME next \in Nat \ {0}, NEW t \in Seq(Item), \A x \in ToSet(t) : x.session = Last(order)
    PROVE  /\ NextAfter(t) \in Nat /\ NextAfter(t) >= next
           /\ \A x \in ToSet(t) : x.seq < NextAfter(t)
           /\ NextAfter(t) = next \/ \E x \in ToSet(t) : NextAfter(t) = x.seq + 1
<1> DEFINE seqs == {x.seq + 1 : x \in {y \in ToSet(t) : y.session = Last(order)}} \cup {next}
           m == NextAfter(t)
<1>1. \A x \in ToSet(t) : x \in Item
  BY LenProperties DEF ToSet
<1>2. \A x \in Item : x.seq \in 0..MaxSeq /\ MaxSeq \in Nat
  BY QueueAssumption DEF Item
<1>3. /\ \A k \in seqs : k = next \/ \E x \in ToSet(t) : k = x.seq + 1
      /\ next \in seqs /\ \A x \in ToSet(t) : x.seq + 1 \in seqs
  OBVIOUS
<1>4. m = CHOOSE k \in seqs : \A j \in seqs : j <= k
  BY DEF NextAfter
<1> HIDE DEF seqs, m
<1>5. seqs \subseteq Nat /\ \A k \in seqs : k <= next + MaxSeq + 1
  <2> SUFFICES ASSUME NEW k \in seqs PROVE k \in Nat /\ k <= next + MaxSeq + 1
    OBVIOUS
  <2>0. MaxSeq \in Nat
    BY QueueAssumption
  <2>1. CASE k = next
    BY <2>0, <2>1
  <2>2. CASE \E x \in ToSet(t) : k = x.seq + 1
    BY <2>0, <2>2, <1>1, <1>2
  <2> QED BY <2>1, <2>2, <1>3
<1>6. next + MaxSeq + 1 \in Nat
  BY QueueAssumption
<1>7. m \in seqs /\ \A k \in seqs : k <= m
  <2>1. \E k \in seqs : \A j \in seqs : j <= k
    BY <1>3, <1>5, <1>6, GreatestElement
  <2> QED BY <1>4, <2>1
<1>8. \A x \in ToSet(t) : x.seq < m
  <2> SUFFICES ASSUME NEW x \in ToSet(t) PROVE x.seq < m
    OBVIOUS
  <2>1. x.seq + 1 <= m /\ x.seq \in Nat /\ m \in Nat
    BY <1>1, <1>2, <1>3, <1>5, <1>7
  <2> QED BY <2>1
<1> QED BY <1>3, <1>5, <1>7, <1>8 DEF m

\* The item the next timer is for is one that arrived.
LEMMA RearmedIs ==
    ASSUME NEW rest, rest \subseteq Item, NEW a \in Nat, \A x \in rest : x.at <= a
    PROVE  Rearmed(rest) \in 0..a
<1>1. CASE rest = {}
  BY <1>1 DEF Rearmed
<1>2. CASE rest # {}
  <2> DEFINE S == {x.at : x \in rest}
  <2>1. \A x \in rest : x.at \in Nat
    BY DEF Item
  <2>2. S \subseteq Nat /\ S # {}
    BY <1>2, <2>1
  <2>3. PICK k \in S : \A j \in S : k <= j
    BY <2>2, LeastElement
  <2>4. \E x \in rest : \A y \in rest : x.at <= y.at
    BY <2>3
  <2>5. PICK x \in rest : Rearmed(rest) = x.at
    BY <1>2, <2>4 DEF Rearmed
  <2> QED BY <2>1, <2>5
<1> QED BY <1>1, <1>2

\* onTimeout
LEMMA OnTimeoutStep ==
    ASSUME IInv, NEW c \in callbacks, OnTimeout(c)
    PROVE  IInv'
<1>1. UNCHANGED <<order, taken, closed, arrived, accepted, behind>>
  BY DEF OnTimeout
<1>2. /\ arrived \in 0..MaxItems /\ taken \in 0..Len(emitted)
      /\ timer \in 0..arrived /\ callbacks \subseteq 1..arrived
      /\ \A x \in accepted : x.at <= arrived
      /\ Core(order, next, buffer, emitted, behind, accepted)
  BY DEF IInv, Around
<1>3. CASE closed
  <2>1. callbacks' = callbacks \ {c} /\ UNCHANGED <<timer, buffer, emitted, next>>
    BY <1>3 DEF OnTimeout
  <2> QED BY <1>1, <2>1 DEF IInv, Around
<1>4. CASE ~closed
  <2> DEFINE s == Sorted(buffer)
             old(u) == {i \in DOMAIN s : s[i].at <= u}
             out(u) == IF old(u) = {} THEN <<>> ELSE SubSeq(s, 1, CHOOSE i \in old(u) : \A j \in old(u) : j <= i)
  <2>1. PICK u \in c..arrived :
            /\ emitted' = emitted \o out(u)
            /\ next' = NextAfter(out(u))
            /\ buffer' = buffer \ ToSet(out(u))
            /\ timer' = Rearmed(buffer \ ToSet(out(u)))
            /\ callbacks' = (callbacks \ {c}) \cup ({Rearmed(buffer \ ToSet(out(u)))} \ {0})
    BY <1>4 DEF OnTimeout
  <2>2. /\ order \in Seq(Sessions \ {NoSession}) /\ next \in Nat \ {0} /\ emitted \in Seq(Item)
        /\ IsFiniteSet(buffer) /\ accepted \subseteq Item /\ buffer \subseteq accepted
        /\ \A x, y \in accepted : x.at = y.at => x = y
        /\ \A x \in buffer : x.session = Last(order)
    BY <1>2 DEF Core, AcceptedInv, HeldInv
  <2>3. s \in Seq(buffer) /\ Len(s) \in Nat /\ DOMAIN s = 1..Len(s)
    BY <2>2, SortedIs, LenProperties
  <2> HIDE DEF s
  <2>4. \E n \in 0..Len(s) : out(u) = SubSeq(s, 1, n)
    <3>1. CASE old(u) = {}
      <4>1. out(u) = SubSeq(s, 1, 0) /\ 0 \in 0..Len(s)
        BY <2>3, <3>1, SubSeqEmpty
      <4> QED BY <4>1
    <3>2. CASE old(u) # {}
      <4>1. old(u) \subseteq 1..Len(s)
        BY <2>3
      <4> HIDE DEF old
      <4>2. \E i \in old(u) : \A j \in old(u) : j <= i
        <5>1. old(u) \subseteq Nat /\ \A i \in old(u) : i <= Len(s)
          BY <2>3, <4>1
        <5> QED BY <2>3, <3>2, <5>1, GreatestElement
      <4> DEFINE n == CHOOSE i \in old(u) : \A j \in old(u) : j <= i
      <4>3. n \in 0..Len(s) /\ out(u) = SubSeq(s, 1, n)
        BY <2>3, <3>2, <4>1, <4>2
      <4> QED BY <4>3
    <3> QED BY <3>1, <3>2
  <2> HIDE DEF out
  <2>5. PICK n \in 0..Len(s) : out(u) = SubSeq(s, 1, n)
    BY <2>4
  <2> DEFINE t == out(u)
             rest == buffer \ ToSet(t)
  <2>6. /\ t \in Seq(buffer) /\ Len(t) = n /\ DOMAIN t = 1..n
        /\ \A i \in 1..n : t[i] = s[i]
    <3>1. /\ SubSeq(s, 1, n) \in Seq(buffer) /\ Len(SubSeq(s, 1, n)) = n
          /\ \A i \in 1..n : SubSeq(s, 1, n)[i] = s[i]
      <4>1. n \in 0..Len(Sorted(buffer))
        BY DEF s
      <4> QED BY <2>2, <4>1, PrefixOf DEF s
    <3> QED BY <2>5, <3>1, LenProperties
  <2> HIDE DEF t
  <2>7. t \in Seq(Item) /\ \A x \in ToSet(t) : x \in buffer
    <3>1. \A x \in ToSet(t) : x \in buffer
      BY <2>6 DEF ToSet
    <3> QED BY <2>2, <2>6, <3>1
  <2>8. /\ NextAfter(t) \in Nat /\ NextAfter(t) >= next
        /\ \A x \in ToSet(t) : x.seq < NextAfter(t)
        /\ NextAfter(t) = next \/ \E x \in ToSet(t) : NextAfter(t) = x.seq + 1
    BY <2>2, <2>7, NextAfterIs
  <2>9. Core(order, NextAfter(t), rest, emitted \o t, behind, accepted)
    <3>1. \A i \in 1..n : s[i].seq < NextAfter(t)
      BY <2>6, <2>8 DEF ToSet
    <3>2. NextAfter(t) = next \/ \E i \in 1..n : NextAfter(t) = s[i].seq + 1
      BY <2>6, <2>8 DEF ToSet
    <3>3. t = SubSeq(s, 1, n)
      BY <2>5 DEF t
    <3>4. NextAfter(t) \in Nat /\ NextAfter(t) >= next
      BY <2>8
    <3>5. n \in 0..Len(s)
      OBVIOUS
    <3> QED BY <1>2, <3>1, <3>2, <3>3, <3>4, <3>5, HandOnFront DEF s
  <2>10. Core(order, next, buffer, emitted, behind, accepted)'
    BY <1>1, <2>1, <2>9 DEF t
  <2>11. Rearmed(rest) \in 0..arrived
    <3>1. rest \subseteq Item /\ \A x \in rest : x.at <= arrived
      BY <1>2, <2>2
    <3> QED BY <1>2, <3>1, RearmedIs
  <2>12. timer' \in 0..arrived' /\ callbacks' \subseteq 1..arrived'
    <3>1. Rearmed(rest) # 0 => Rearmed(rest) \in 1..arrived
      BY <1>2, <2>11
    <3> QED BY <1>1, <1>2, <2>1, <2>11, <3>1 DEF t
  <2>13. taken' \in 0..Len(emitted')
    <3>1. Len(emitted \o t) = Len(emitted) + Len(t) /\ Len(emitted) \in Nat /\ Len(t) \in Nat
      BY <2>2, <2>7, ConcatProperties, LenProperties
    <3>2. emitted' = emitted \o t /\ taken' = taken
      BY <1>1, <2>1 DEF t
    <3> QED BY <1>2, <3>1, <3>2
  <2>14. arrived' \in 0..MaxItems /\ closed' \in BOOLEAN /\ (\A x \in accepted : x.at <= arrived)'
         /\ Cardinality(accepted') - taken' <= Capacity
    BY <1>1 DEF IInv, Around
  <2> QED BY <2>10, <2>12, <2>13, <2>14 DEF IInv, Around
<1> QED BY <1>3, <1>4

-----------------------------------------------------------------------------
(* Theorems *)

LEMMA InitHolds ==
    ASSUME QInit
    PROVE  IInv
<1>1. <<>> \in Seq(Sessions \ {NoSession}) /\ <<>> \in Seq(Item) /\ Len(<<>>) = 0 /\ ToSet(<<>>) = {} /\ Once(<<>>)
  BY DEF ToSet, Once
<1>2. IsFiniteSet({}) /\ Cardinality({}) = 0
  BY FS_EmptySet
<1>3. InOrder(<<>>, <<>>, {})
  BY <1>1 DEF InOrder
<1>4. Core(order, next, buffer, emitted, behind, accepted)
  <2>1. AcceptedInv(<<>>, {}) /\ HeldInv(<<>>, 1, {}, <<>>) /\ HandedInv(<<>>, 1, <<>>, {})
    BY <1>1 DEF AcceptedInv, HeldInv, HandedInv
  <2> QED BY <1>1, <1>2, <1>3, <2>1 DEF Core, QInit
<1>5. Around
  <2>1. /\ emitted = <<>> /\ taken = 0 /\ arrived = 0 /\ closed = FALSE
        /\ timer = 0 /\ callbacks = {} /\ accepted = {}
    BY DEF QInit
  <2>2. Cardinality(accepted) = 0 /\ Len(emitted) = 0
    BY <1>1, <1>2, <2>1
  <2>3. Cardinality(accepted) - taken <= Capacity /\ arrived \in 0..MaxItems /\ taken \in 0..Len(emitted)
    BY <2>1, <2>2, QueueAssumption
  <2> QED BY <2>1, <2>3 DEF Around
<1> QED BY <1>4, <1>5 DEF IInv

LEMMA NextKeeps ==
    ASSUME IInv, [QNext]_qvars
    PROVE  IInv'
<1>1. CASE \E s \in Sessions, n \in 0..MaxSeq : (s = NoSession) = (n = 0) /\ QueueItem(s, n)
  BY <1>1, QueueItemStep
<1>2. CASE Timeouts
  BY <1>2, OnTimeoutStep DEF Timeouts
<1>3. CASE TakeInput
  <2>1. /\ UNCHANGED <<order, next, buffer, timer, callbacks, emitted, closed, arrived, accepted, behind>>
        /\ taken' = taken + 1 /\ taken < Len(emitted)
    BY <1>3 DEF TakeInput
  <2>2. /\ taken \in 0..Len(emitted) /\ Cardinality(accepted) - taken <= Capacity
        /\ Core(order, next, buffer, emitted, behind, accepted)
    BY DEF IInv, Around
  <2>3. Cardinality(accepted) \in Nat /\ Len(emitted) \in Nat
    BY <2>2, AcceptedCount, FS_CardinalityType
  <2>4. taken + 1 \in 0..Len(emitted) /\ Cardinality(accepted) - (taken + 1) <= Capacity
    BY <2>1, <2>2, <2>3, QueueAssumption
  <2> QED BY <2>1, <2>4 DEF IInv, Around
<1>4. CASE CloseQueue
  <2>1. /\ UNCHANGED <<order, next, buffer, emitted, taken, arrived, accepted, behind>>
        /\ closed' = TRUE /\ timer' = 0 /\ callbacks' \subseteq callbacks
    BY <1>4 DEF CloseQueue
  <2>2. arrived \in 0..MaxItems /\ callbacks \subseteq 1..arrived
    BY DEF IInv, Around
  <2>3. 0 \in 0..arrived /\ callbacks' \subseteq 1..arrived
    BY <2>1, <2>2, QueueAssumption
  <2> QED BY <2>1, <2>3 DEF IInv, Around
<1>5. CASE UNCHANGED qvars
  BY <1>5 DEF qvars, IInv, Around
<1> QED BY <1>1, <1>2, <1>3, <1>4, <1>5 DEF QNext

\* The inductive invariant holds throughout.
THEOREM Invariance == QSpec => []IInv
<1>1. QInit => IInv
  BY InitHolds
<1>2. IInv /\ [QNext]_qvars => IInv'
  BY NextKeeps
<1> QED BY <1>1, <1>2, PTL DEF QSpec

\* QTypeOK: every field has its type, and timers are for items that arrived.
THEOREM TypeCorrect == QSpec => []QTypeOK
<1>1. IInv => QTypeOK
  <2> SUFFICES ASSUME IInv PROVE QTypeOK
    OBVIOUS
  <2>1. /\ order \in Seq(Sessions \ {NoSession}) /\ next \in Nat \ {0}
        /\ buffer \subseteq Item /\ accepted \subseteq Item /\ behind \subseteq accepted
        /\ emitted \in Seq(Item)
    BY DEF IInv, Core, AcceptedInv
  <2> QED BY <2>1 DEF IInv, Around, QTypeOK
<1> QED BY <1>1, Invariance, PTL

\* NeverBlocks: what is held and what waits in the channel never exceed the channel's capacity, so
\* that no method blocks on it with the lock held, however much it writes out at once.
THEOREM NoWriterBlocks == QSpec => []NeverBlocks
<1>1. IInv => NeverBlocks
  <2> SUFFICES ASSUME IInv PROVE NeverBlocks
    OBVIOUS
  <2>1. /\ Cardinality(accepted) = Len(emitted) + Cardinality(buffer)
        /\ Cardinality(buffer) \in Nat /\ Len(emitted) \in Nat
    BY AcceptedCount DEF IInv
  <2>2. taken \in 0..Len(emitted) /\ Cardinality(accepted) - taken <= Capacity
    BY DEF IInv, Around
  <2> QED BY <2>1, <2>2, QueueAssumption DEF NeverBlocks
<1> QED BY <1>1, Invariance, PTL

\* ExactlyOnce: an input the queue accepted is held or was handed on, not both, and not twice.
THEOREM NothingLostOrDoubled == QSpec => []ExactlyOnce
<1>1. IInv => ExactlyOnce
  <2> SUFFICES ASSUME IInv PROVE ExactlyOnce
    OBVIOUS
  <2>1. Len(emitted) = Cardinality(ToSet(emitted))
    BY AcceptedCount DEF IInv
  <2> QED BY <2>1 DEF IInv, Core, ExactlyOnce
<1> QED BY <1>1, Invariance, PTL

\* InOrderUnlessLate: however inputs arrive and time out, what was handed on before its turn by
\* another is one that came after its turn, was never held back, or repeats a number.
THEOREM HandedOnInOrder == QSpec => []InOrderUnlessLate
<1>1. IInv => InOrderUnlessLate
  <2> SUFFICES ASSUME IInv PROVE InOrderUnlessLate
    OBVIOUS
  <2>1. emitted \in Seq(Item) /\ InOrder(emitted, order, behind)
    BY DEF IInv, Core
  <2>2. DOMAIN emitted = 1..Len(emitted)
    BY <2>1, LenProperties
  <2>3. \A x, y : Before(x, y) <=> BeforeIn(order, x, y)
    BY DEF Before, BeforeIn, Age, AgeIn
  <2> QED BY <2>1, <2>2, <2>3 DEF InOrder, InOrderUnlessLate, Repeats
<1> QED BY <1>1, Invariance, PTL

=============================================================================
