----------------------------- MODULE QueueLemmas -----------------------------
(***************************************************************************)
(* What the proofs need to know about queues: taking an element out of a   *)
(* sequence that holds it once (RemoveFirst of the community modules),     *)
(* listing a finite set in order, and the least and the greatest number of *)
(* a set, from which induction follows.                                    *)
(***************************************************************************)
EXTENDS SequencesExt, Integers, SequenceTheorems, FiniteSetTheorems, TLAPS

\* Nothing is in the sequence twice.
Once(q) == \A i, j \in DOMAIN q : q[i] = q[j] => i = j

Smaller == {p \in Nat \X Nat : p[1] < p[2]}

\* Every set of natural numbers that has an element has a least one.
LEMMA LeastElement ==
    ASSUME NEW S, S \subseteq Nat, S # {}
    PROVE  \E x \in S : \A y \in S : x <= y
<1>1. IsWellFoundedOn(Smaller, Nat)
  BY NatLessThanWellFounded DEF OpToRel, Smaller
<1>2. PICK x \in S : \A y \in S : ~(<<y, x>> \in Smaller)
  BY <1>1, WFMin
<1>3. \A y \in S : x <= y
  <2> SUFFICES ASSUME NEW y \in S, ~(x <= y)
               PROVE  FALSE
    OBVIOUS
  <2>1. x \in Nat /\ y \in Nat
    OBVIOUS
  <2>2. <<y, x>> \in Smaller
    BY <2>1 DEF Smaller
  <2> QED BY <1>2, <2>2
<1> QED BY <1>3

\* A bounded set of natural numbers that has an element has a greatest one.
LEMMA GreatestElement ==
    ASSUME NEW S, S \subseteq Nat, S # {}, NEW n \in Nat, \A x \in S : x <= n
    PROVE  \E x \in S : \A y \in S : y <= x
<1> DEFINE Bounds == {u \in Nat : \A y \in S : y <= u}
<1>1. Bounds \subseteq Nat /\ n \in Bounds
  OBVIOUS
<1>2. PICK u \in Bounds : \A v \in Bounds : u <= v
  BY <1>1, LeastElement
<1>3. u \in S
  <2> SUFFICES ASSUME u \notin S PROVE FALSE
    OBVIOUS
  <2>1. \A y \in S : y < u
    OBVIOUS
  <2>2. PICK y \in S : y < u
    BY <2>1
  <2>3. u - 1 \in Nat /\ \A z \in S : z <= u - 1
    BY <2>1, <2>2
  <2> QED BY <1>2, <2>3
<1> QED BY <1>2, <1>3

\* The members of a finite set can be listed along any strict total order, and a list without
\* repetition of as many of its members as it has is a list of all of them.
LEMMA Enumeration ==
    ASSUME NEW S, IsFiniteSet(S), NEW R,
           \A x \in S : <<x, x>> \notin R,
           \A x, y, z \in S : <<x, y>> \in R /\ <<y, z>> \in R => <<x, z>> \in R,
           \A x, y \in S : x # y => <<x, y>> \in R \/ <<y, x>> \in R
    PROVE  \E f \in [1..Cardinality(S) -> S] :
               \A i, j \in 1..Cardinality(S) : i < j => <<f[i], f[j]>> \in R
<1> DEFINE n == Cardinality(S)
           down(x) == {y \in S : y = x \/ <<y, x>> \in R}
           rank == [x \in S |-> Cardinality(down(x))]
<1>1. n \in Nat
  BY FS_CardinalityType
<1>2. \A x \in S : IsFiniteSet(down(x)) /\ Cardinality(down(x)) \in 1..n
  <2> SUFFICES ASSUME NEW x \in S
               PROVE  IsFiniteSet(down(x)) /\ Cardinality(down(x)) \in 1..n
    OBVIOUS
  <2>1. down(x) \in SUBSET S /\ down(x) # {}
    OBVIOUS
  <2> HIDE DEF down
  <2>2. IsFiniteSet(down(x)) /\ Cardinality(down(x)) <= n
    BY <2>1, FS_Subset
  <2>3. Cardinality(down(x)) \in Nat /\ Cardinality(down(x)) # 0
    BY <2>1, <2>2, FS_CardinalityType, FS_EmptySet
  <2> QED BY <1>1, <2>2, <2>3
<1>3. \A x, y \in S : <<x, y>> \in R => rank[x] < rank[y]
  <2> SUFFICES ASSUME NEW x \in S, NEW y \in S, <<x, y>> \in R
               PROVE  Cardinality(down(x)) < Cardinality(down(y))
    OBVIOUS
  <2>1. down(x) \in SUBSET down(y) /\ y \in down(y) /\ y \notin down(x)
    OBVIOUS
  <2> HIDE DEF down
  <2>2. Cardinality(down(x)) <= Cardinality(down(y)) /\ Cardinality(down(x)) # Cardinality(down(y))
    BY <2>1, <1>2, FS_Subset
  <2> QED BY <2>2, <1>1, <1>2
<1>4. rank \in [S -> 1..n]
  BY <1>2
<1> HIDE DEF rank, n
<1>5. rank \in Injection(S, 1..n)
  <2>1. \A x, y \in S : x # y => rank[x] # rank[y]
    <3> SUFFICES ASSUME NEW x \in S, NEW y \in S, x # y PROVE rank[x] # rank[y]
      OBVIOUS
    <3>1. rank[x] \in Nat /\ rank[y] \in Nat
      BY <1>4
    <3>2. <<x, y>> \in R \/ <<y, x>> \in R
      OBVIOUS
    <3>3. rank[x] < rank[y] \/ rank[y] < rank[x]
      BY <1>3, <3>2
    <3> QED BY <3>1, <3>3
  <2> QED BY <1>4, <2>1 DEF Injection, IsInjective
<1>6. rank \in Surjection(S, 1..n)
  <2>1. IsFiniteSet(1..n) /\ Cardinality(1..n) = n
    BY <1>1, FS_Interval
  <2> QED BY <1>5, <2>1, FS_Injection DEF n
<1>7. \A i \in 1..n : \E x \in S : rank[x] = i
  BY <1>6 DEF Surjection
<1> DEFINE f == [i \in 1..n |-> CHOOSE x \in S : rank[x] = i]
<1>8. \A i \in 1..n : f[i] \in S /\ rank[f[i]] = i
  BY <1>7
<1>9. f \in [1..n -> S]
  BY <1>8
<1> HIDE DEF f
<1>10. ASSUME NEW i \in 1..n, NEW j \in 1..n, i < j
       PROVE  <<f[i], f[j]>> \in R
  <2>1. f[i] \in S /\ f[j] \in S /\ rank[f[i]] = i /\ rank[f[j]] = j
    BY <1>8
  <2>2. f[i] # f[j]
    BY <2>1, <1>10
  <2>3. <<f[j], f[i]>> \notin R
    <3>1. ~(j < i) 
      BY <1>10
    <3> QED BY <2>1, <3>1, <1>3
  <2> QED BY <2>1, <2>2, <2>3
<1> QED BY <1>9, <1>10 DEF n

\* SelectInSeq finds the place of an element.
LEMMA PlaceOf ==
    ASSUME NEW S, NEW q \in Seq(S), NEW e, NEW k \in 1..Len(q), q[k] = e
    PROVE  LET i == SelectInSeq(q, LAMBDA v : v = e) IN i \in 1..Len(q) /\ q[i] = e
<1> DEFINE I == {i \in 1..Len(q) : q[i] = e}
<1>1. I # {} /\ I \subseteq Nat
  OBVIOUS
<1>2. \E x \in I : \A y \in I : x <= y
  BY <1>1, LeastElement
<1>3. Min(I) \in I
  BY <1>2 DEF Min
<1>4. SelectInSeq(q, LAMBDA v : v = e) = Min(I)
  BY <1>1 DEF SelectInSeq
<1> QED BY <1>3, <1>4

\* A sequence without its i-th element.
LEMMA RemoveAtShape ==
    ASSUME NEW S, NEW q \in Seq(S), NEW i \in 1..Len(q)
    PROVE  /\ RemoveAt(q, i) \in Seq(S)
           /\ Len(RemoveAt(q, i)) = Len(q) - 1
           /\ \A j \in 1..(Len(q) - 1) : RemoveAt(q, i)[j] = IF j < i THEN q[j] ELSE q[j + 1]
<1>1. /\ SubSeq(q, 1, i - 1) \in Seq(S) /\ Len(SubSeq(q, 1, i - 1)) = i - 1
      /\ \A j \in 1..(i - 1) : SubSeq(q, 1, i - 1)[j] = q[j]
  BY SubSeqProperties
<1>2. /\ SubSeq(q, i + 1, Len(q)) \in Seq(S) /\ Len(SubSeq(q, i + 1, Len(q))) = Len(q) - i
      /\ \A j \in 1..(Len(q) - i) : SubSeq(q, i + 1, Len(q))[j] = q[i + j]
  BY SubSeqProperties
<1>3. /\ RemoveAt(q, i) \in Seq(S) /\ Len(RemoveAt(q, i)) = (i - 1) + (Len(q) - i)
      /\ \A j \in 1..((i - 1) + (Len(q) - i)) : RemoveAt(q, i)[j] =
            IF j <= i - 1 THEN SubSeq(q, 1, i - 1)[j] ELSE SubSeq(q, i + 1, Len(q))[j - (i - 1)]
  <2> DEFINE u == SubSeq(q, 1, i - 1)
             v == SubSeq(q, i + 1, Len(q))
  <2>1. u \in Seq(S) /\ v \in Seq(S) /\ Len(u) = i - 1 /\ Len(v) = Len(q) - i
    BY <1>1, <1>2
  <2>2. RemoveAt(q, i) = u \o v
    BY DEF RemoveAt
  <2> HIDE DEF u, v
  <2>3. /\ u \o v \in Seq(S) /\ Len(u \o v) = Len(u) + Len(v)
        /\ \A j \in 1..(Len(u) + Len(v)) : (u \o v)[j] = IF j <= Len(u) THEN u[j] ELSE v[j - Len(u)]
    BY <2>1, ConcatProperties
  <2> QED BY <2>1, <2>2, <2>3 DEF u, v
<1>4. ASSUME NEW j \in 1..(Len(q) - 1)
      PROVE  RemoveAt(q, i)[j] = IF j < i THEN q[j] ELSE q[j + 1]
  <2>1. CASE j < i
    BY <2>1, <1>1, <1>3
  <2>2. CASE ~(j < i)
    <3>1. j - (i - 1) \in 1..(Len(q) - i) /\ i + (j - (i - 1)) = j + 1
      BY <2>2
    <3> QED BY <3>1, <2>2, <1>2, <1>3
  <2> QED BY <2>1, <2>2
<1> QED BY <1>3, <1>4

\* Taking an element that is there once out of a queue takes that element and no other, and
\* leaves the order of the rest, so that the first stays the first.
LEMMA RemoveOnce ==
    ASSUME NEW S, NEW q \in Seq(S), NEW e, Once(q)
    PROVE  LET r == RemoveFirst(q, e)
           IN  /\ r \in Seq(S) /\ Once(r)
               /\ ToSet(r) = ToSet(q) \ {e}
               /\ q # <<>> /\ q[1] # e => r # <<>> /\ r[1] = q[1]
               /\ e \notin ToSet(q) => r = q
<1> DEFINE r == RemoveFirst(q, e)
<1>1. CASE \E k \in 1..Len(q) : q[k] = e
  <2> DEFINE i == SelectInSeq(q, LAMBDA v : v = e)
  <2>1. i \in 1..Len(q) /\ q[i] = e
    BY <1>1, PlaceOf
  <2>2. r = RemoveAt(q, i)
    BY <1>1 DEF RemoveFirst
  <2> HIDE DEF i
  <2>3. /\ r \in Seq(S) /\ Len(r) = Len(q) - 1
        /\ \A j \in 1..(Len(q) - 1) : r[j] = IF j < i THEN q[j] ELSE q[j + 1]
    BY <2>1, <2>2, RemoveAtShape
  <2> HIDE DEF r
  <2>4. Once(r)
    <3> SUFFICES ASSUME NEW j \in 1..(Len(q) - 1), NEW k \in 1..(Len(q) - 1), r[j] = r[k]
                 PROVE  j = k
      BY <2>3 DEF Once
    <3> DEFINE at(n) == IF n < i THEN n ELSE n + 1
    <3>1. /\ at(j) \in 1..Len(q) /\ r[j] = q[at(j)]
          /\ at(k) \in 1..Len(q) /\ r[k] = q[at(k)]
      BY <2>1, <2>3
    <3>0. \A m, n \in 1..Len(q) : q[m] = q[n] => m = n
      BY DEF Once
    <3>2. at(j) = at(k)
      <4> HIDE DEF at
      <4> QED BY <3>0, <3>1
    <3> QED BY <3>2, <2>1
  <2>5. \A j \in 1..Len(q) : q[j] # e => q[j] \in ToSet(r)
    <3> SUFFICES ASSUME NEW j \in 1..Len(q), q[j] # e
                 PROVE  \E k \in DOMAIN r : r[k] = q[j]
      BY DEF ToSet
    <3>1. CASE j < i
      BY <3>1, <2>1, <2>3
    <3>2. CASE j > i
      <4>1. j - 1 \in 1..(Len(q) - 1) /\ ~(j - 1 < i) /\ (j - 1) + 1 = j
        BY <3>2, <2>1
      <4>2. r[j - 1] = q[(j - 1) + 1]
        BY <4>1, <2>3
      <4> QED BY <4>1, <4>2, <2>3
    <3> QED BY <3>1, <3>2, <2>1
  <2>6. \A k \in 1..Len(r) : r[k] \in ToSet(q) /\ r[k] # e
    BY <2>1, <2>3 DEF Once, ToSet
  <2>7. ToSet(r) = ToSet(q) \ {e}
    BY <2>5, <2>6, <2>3 DEF ToSet
  <2>8. q # <<>> /\ q[1] # e => r # <<>> /\ r[1] = q[1]
    BY <2>1, <2>3
  <2>9. e \in ToSet(q)
    BY <1>1 DEF ToSet
  <2> QED BY <2>3, <2>4, <2>7, <2>8, <2>9 DEF r
<1>2. CASE ~\E k \in 1..Len(q) : q[k] = e
  <2>1. r = q
    BY <1>2 DEF RemoveFirst
  <2> QED BY <1>2, <2>1 DEF ToSet
<1> QED BY <1>1, <1>2

\* Who joins a queue he is not in stands at its end.
LEMMA JoinOnce ==
    ASSUME NEW S, NEW q \in Seq(S), NEW e \in S, Once(q), e \notin ToSet(q)
    PROVE  LET r == Append(q, e)
           IN  /\ r \in Seq(S) /\ Once(r)
               /\ ToSet(r) = ToSet(q) \cup {e}
               /\ q # <<>> => r[1] = q[1]
<1> DEFINE r == Append(q, e)
<1>1. /\ r \in Seq(S) /\ Len(r) = Len(q) + 1
      /\ \A i \in 1..Len(q) : r[i] = q[i]
      /\ r[Len(q) + 1] = e
  OBVIOUS
<1> HIDE DEF r
<1>2. Once(r)
  BY <1>1 DEF Once, ToSet
<1>3. ToSet(r) = ToSet(q) \cup {e}
  <2>1. \A x \in ToSet(r) : x \in ToSet(q) \cup {e}
    BY <1>1 DEF ToSet
  <2>2. \A x \in ToSet(q) \cup {e} : x \in ToSet(r)
    BY <1>1 DEF ToSet
  <2> QED BY <2>1, <2>2
<1> QED BY <1>1, <1>2, <1>3 DEF r

\* Taking the first of a queue leaves the others.
LEMMA TakeOnce ==
    ASSUME NEW S, NEW q \in Seq(S), q # <<>>, Once(q)
    PROVE  /\ Head(q) \in S /\ Head(q) \in ToSet(q)
           /\ Tail(q) \in Seq(S) /\ Once(Tail(q))
           /\ ToSet(Tail(q)) = ToSet(q) \ {Head(q)}
<1> DEFINE r == Tail(q)
<1>1. /\ Head(q) = q[1] /\ Head(q) \in S /\ r \in Seq(S) /\ Len(r) = Len(q) - 1 /\ Len(q) \in Nat \ {0}
      /\ \A i \in 1..Len(r) : r[i] = q[i + 1]
  BY HeadTailProperties, EmptySeq
<1>2. DOMAIN r = 1..(Len(q) - 1) /\ DOMAIN q = 1..Len(q)
  BY <1>1, LenProperties
<1> HIDE DEF r
<1>3. Once(r)
  BY <1>1, <1>2 DEF Once
<1>4. Head(q) \in ToSet(q)
  BY <1>1, <1>2 DEF ToSet
<1>5. \A x \in ToSet(r) : x \in ToSet(q) /\ x # Head(q)
  <2> SUFFICES ASSUME NEW i \in DOMAIN r PROVE r[i] \in ToSet(q) /\ r[i] # Head(q)
    BY DEF ToSet
  <2>1. i + 1 \in DOMAIN q /\ 1 \in DOMAIN q /\ i + 1 # 1 /\ r[i] = q[i + 1]
    BY <1>1, <1>2
  <2>2. \A m, n \in DOMAIN q : q[m] = q[n] => m = n
    BY DEF Once
  <2> QED BY <1>1, <2>1, <2>2 DEF ToSet
<1>6. \A x \in ToSet(q) : x # Head(q) => x \in ToSet(r)
  <2> SUFFICES ASSUME NEW i \in DOMAIN q, q[i] # Head(q) PROVE q[i] \in ToSet(r)
    BY DEF ToSet
  <2>1. i - 1 \in DOMAIN r /\ (i - 1) + 1 = i
    BY <1>1, <1>2
  <2>2. r[i - 1] = q[i]
    BY <1>1, <1>2, <2>1
  <2> QED BY <2>1, <2>2 DEF ToSet
<1> QED BY <1>1, <1>3, <1>4, <1>5, <1>6 DEF r

\* Who is put before a queue he is not in stands at its head.
LEMMA PutOnce ==
    ASSUME NEW S, NEW q \in Seq(S), NEW e \in S, Once(q), e \notin ToSet(q)
    PROVE  LET r == <<e>> \o q
           IN  /\ r \in Seq(S) /\ Once(r)
               /\ ToSet(r) = ToSet(q) \cup {e}
<1> DEFINE r == <<e>> \o q
<1>0. <<e>> \in Seq(S) /\ Len(<<e>>) = 1 /\ <<e>>[1] = e /\ Len(q) \in Nat
  BY LenProperties
<1>1. /\ r \in Seq(S) /\ Len(r) = 1 + Len(q)
      /\ \A i \in 1..(1 + Len(q)) : r[i] = IF i <= 1 THEN <<e>>[i] ELSE q[i - 1]
  BY <1>0, ConcatProperties
<1>2. DOMAIN r = 1..(1 + Len(q)) /\ DOMAIN q = 1..Len(q)
  BY <1>1, LenProperties
<1>3. r[1] = e /\ \A i \in DOMAIN r : i # 1 => i - 1 \in DOMAIN q /\ r[i] = q[i - 1]
  BY <1>0, <1>1, <1>2
<1>4. \A i \in DOMAIN q : i + 1 \in DOMAIN r /\ r[i + 1] = q[i]
  BY <1>0, <1>1, <1>2
<1> HIDE DEF r
<1>5. \A i \in DOMAIN r : i # 1 => r[i] \in ToSet(q)
  BY <1>3 DEF ToSet
<1>6. Once(r)
  <2> SUFFICES ASSUME NEW i \in DOMAIN r, NEW j \in DOMAIN r, r[i] = r[j] PROVE i = j
    BY DEF Once
  <2>1. CASE i = 1 \/ j = 1
    BY <2>1, <1>3, <1>5
  <2>2. CASE i # 1 /\ j # 1
    <3>1. i - 1 = j - 1
      BY <2>2, <1>3 DEF Once
    <3> QED BY <3>1, <1>2
  <2> QED BY <2>1, <2>2
<1>7. \A x \in ToSet(r) : x \in ToSet(q) \cup {e}
  BY <1>3, <1>5 DEF ToSet
<1>8. \A x \in ToSet(q) \cup {e} : x \in ToSet(r)
  <2>1. 1 \in DOMAIN r
    BY <1>0, <1>2
  <2> QED BY <2>1, <1>3, <1>4 DEF ToSet
<1> QED BY <1>1, <1>6, <1>7, <1>8 DEF r

=============================================================================
