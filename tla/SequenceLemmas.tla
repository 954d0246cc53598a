--------------------------- MODULE SequenceLemmas ---------------------------
(***************************************************************************)
(* What the proofs need to know about the operators on sequences that the  *)
(* queues and wait-lists are made of (std::list's insert, erase, pop_front *)
(* and push_back), and about sets of naturals.                             *)
(***************************************************************************)
EXTENDS Integers, SequencesExt, FiniteSetTheorems, SequenceTheorems, TLAPS

\* RemoveAt erases one position and keeps the others in order.
LEMMA RemoveAtProperties ==
  ASSUME NEW S, NEW q \in Seq(S), NEW i \in 1..Len(q)
  PROVE  /\ RemoveAt(q, i) \in Seq(S)
         /\ Len(RemoveAt(q, i)) = Len(q) - 1
         /\ \A j \in 1..(Len(q) - 1) :
              RemoveAt(q, i)[j] = IF j < i THEN q[j] ELSE q[j + 1]
<1> DEFINE a == SubSeq(q, 1, i - 1)
           b == SubSeq(q, i + 1, Len(q))
<1>1. a \in Seq(S) /\ Len(a) = i - 1 /\ \A j \in 1..(i - 1) : a[j] = q[j]
  BY SubSeqProperties
<1>2. b \in Seq(S) /\ Len(b) = Len(q) - i /\ \A j \in 1..(Len(q) - i) : b[j] = q[i + j]
  BY SubSeqProperties
<1> HIDE DEF a, b
<1>3. /\ a \o b \in Seq(S)
      /\ Len(a \o b) = Len(a) + Len(b)
      /\ \A j \in 1..(Len(a) + Len(b)) :
           (a \o b)[j] = IF j <= Len(a) THEN a[j] ELSE b[j - Len(a)]
  BY <1>1, <1>2, ConcatProperties
<1>4. RemoveAt(q, i) = a \o b
  BY DEF RemoveAt, a, b
<1>5. ASSUME NEW j \in 1..(Len(q) - 1)
      PROVE  RemoveAt(q, i)[j] = IF j < i THEN q[j] ELSE q[j + 1]
  <2>1. CASE j < i
    BY <2>1, <1>1, <1>2, <1>3, <1>4
  <2>2. CASE j >= i
    <3>1. j - (i - 1) \in 1..(Len(q) - i) /\ i + (j - (i - 1)) = j + 1
      BY <2>2
    <3>2. (a \o b)[j] = b[j - (i - 1)]
      BY <2>2, <1>1, <1>2, <1>3, SMTT(30)
    <3>3. b[j - (i - 1)] = q[j + 1]
      BY <3>1, <1>2
    <3>4. ~(j < i)
      BY <2>2
    <3> QED BY <3>2, <3>3, <3>4, <1>4
  <2> QED BY <2>1, <2>2
<1>6. Len(a) + Len(b) = Len(q) - 1
  BY <1>1, <1>2
<1> QED BY <1>3, <1>4, <1>5, <1>6

\* InsertAt inserts at one position and keeps the others in order.
LEMMA InsertAtProperties ==
  ASSUME NEW S, NEW q \in Seq(S), NEW i \in 1..(Len(q) + 1), NEW e \in S
  PROVE  /\ InsertAt(q, i, e) \in Seq(S)
         /\ Len(InsertAt(q, i, e)) = Len(q) + 1
         /\ \A j \in 1..(Len(q) + 1) :
              InsertAt(q, i, e)[j] = IF j < i THEN q[j] ELSE IF j = i THEN e ELSE q[j - 1]
<1> DEFINE a == SubSeq(q, 1, i - 1)
           b == SubSeq(q, i, Len(q))
           c == a \o <<e>>
<1>1. a \in Seq(S) /\ Len(a) = i - 1 /\ \A j \in 1..(i - 1) : a[j] = q[j]
  BY SubSeqProperties
<1>2. b \in Seq(S) /\ Len(b) = Len(q) - i + 1 /\ \A j \in 1..(Len(q) - i + 1) : b[j] = q[i + j - 1]
  BY SubSeqProperties
<1>3. <<e>> \in Seq(S) /\ Len(<<e>>) = 1 /\ <<e>>[1] = e
  OBVIOUS
<1> HIDE DEF a, b
<1>4. c \in Seq(S) /\ Len(c) = i /\ \A j \in 1..i : c[j] = IF j < i THEN q[j] ELSE e
  BY <1>1, <1>3, ConcatProperties
<1> HIDE DEF c
<1>5. /\ c \o b \in Seq(S)
      /\ Len(c \o b) = Len(c) + Len(b)
      /\ \A j \in 1..(Len(c) + Len(b)) :
           (c \o b)[j] = IF j <= Len(c) THEN c[j] ELSE b[j - Len(c)]
  BY <1>2, <1>4, ConcatProperties
<1>6. InsertAt(q, i, e) = c \o b
  BY DEF InsertAt, a, b, c
<1> QED BY <1>2, <1>4, <1>5, <1>6

\* Removing position i of a sequence without duplicates removes that element only.
LEMMA RemoveAtMembers ==
  ASSUME NEW S, NEW q \in Seq(S), NEW i \in 1..Len(q), IsInjective(q)
  PROVE  /\ IsInjective(RemoveAt(q, i))
         /\ \A y : Contains(RemoveAt(q, i), y) <=> Contains(q, y) /\ y # q[i]
<1> DEFINE r == RemoveAt(q, i)
<1>1. /\ r \in Seq(S) /\ Len(r) = Len(q) - 1
      /\ \A j \in 1..(Len(q) - 1) : r[j] = IF j < i THEN q[j] ELSE q[j + 1]
  BY RemoveAtProperties
<1> HIDE DEF r
<1>2. DOMAIN q = 1..Len(q) /\ DOMAIN r = 1..Len(r) /\ Len(q) \in Nat
  BY <1>1
<1>3. \A a, b \in 1..Len(q) : q[a] = q[b] => a = b
  BY <1>2 DEF IsInjective
<1>4. \A a, b \in 1..Len(r) : r[a] = r[b] => a = b
  <2> SUFFICES ASSUME NEW a \in 1..Len(r), NEW b \in 1..Len(r), r[a] = r[b] PROVE a = b
    OBVIOUS
  <2> DEFINE A == IF a < i THEN a ELSE a + 1
             B == IF b < i THEN b ELSE b + 1
  <2>1. A \in 1..Len(q) /\ B \in 1..Len(q)
    BY <1>1, <1>2
  <2>2. r[a] = q[A] /\ r[b] = q[B]
    BY <1>1, <1>2
  <2>3. A = B
    BY <1>3, <2>1, <2>2
  <2> QED BY <2>3
<1>5. ASSUME NEW y, Contains(r, y) PROVE Contains(q, y) /\ y # q[i]
  <2>1. PICK a \in 1..Len(r) : r[a] = y
    BY <1>5 DEF Contains
  <2> DEFINE A == IF a < i THEN a ELSE a + 1
  <2>2. A \in 1..Len(q) /\ A # i /\ r[a] = q[A]
    BY <1>1, <1>2
  <2> QED BY <1>3, <2>1, <2>2 DEF Contains
<1>6. ASSUME NEW y, Contains(q, y), y # q[i] PROVE Contains(r, y)
  <2>1. PICK a \in 1..Len(q) : q[a] = y
    BY <1>6 DEF Contains
  <2> DEFINE A == IF a < i THEN a ELSE a - 1
  <2>2. A \in 1..Len(r) /\ r[A] = q[a]
    BY <1>1, <1>2, <1>6, <2>1
  <2> QED BY <2>1, <2>2 DEF Contains
<1>7. IsInjective(r)
  BY <1>2, <1>4 DEF IsInjective
<1> QED BY <1>5, <1>6, <1>7 DEF r

\* Inserting an element that is not in the sequence adds that element only.
LEMMA InsertAtMembers ==
  ASSUME NEW S, NEW q \in Seq(S), NEW i \in 1..(Len(q) + 1), NEW e \in S,
         IsInjective(q), ~Contains(q, e)
  PROVE  /\ IsInjective(InsertAt(q, i, e))
         /\ \A y : Contains(InsertAt(q, i, e), y) <=> Contains(q, y) \/ y = e
<1> DEFINE r == InsertAt(q, i, e)
<1>1. /\ r \in Seq(S) /\ Len(r) = Len(q) + 1
      /\ \A j \in 1..(Len(q) + 1) : r[j] = IF j < i THEN q[j] ELSE IF j = i THEN e ELSE q[j - 1]
  BY InsertAtProperties
<1> HIDE DEF r
<1>2. DOMAIN q = 1..Len(q) /\ DOMAIN r = 1..Len(r) /\ Len(q) \in Nat
  BY <1>1
<1>3. /\ \A a, b \in 1..Len(q) : q[a] = q[b] => a = b
      /\ \A a \in 1..Len(q) : q[a] # e
  BY <1>2 DEF IsInjective, Contains
<1>4. ASSUME NEW a \in 1..Len(r)
      PROVE  \/ a = i /\ r[a] = e
             \/ a < i /\ a \in 1..Len(q) /\ r[a] = q[a]
             \/ a > i /\ a - 1 \in 1..Len(q) /\ r[a] = q[a - 1]
  <2>1. r[a] = IF a < i THEN q[a] ELSE IF a = i THEN e ELSE q[a - 1]
    BY <1>1
  <2>2. a < i => a \in 1..Len(q)
    BY <1>1, <1>2
  <2>3. a > i => a - 1 \in 1..Len(q)
    BY <1>1, <1>2
  <2>4. a < i \/ a = i \/ a > i
    BY <1>1, <1>2
  <2> QED BY <2>1, <2>2, <2>3, <2>4
<1>5. \A a, b \in 1..Len(r) : r[a] = r[b] => a = b
  <2> SUFFICES ASSUME NEW a \in 1..Len(r), NEW b \in 1..Len(r), r[a] = r[b] PROVE a = b
    OBVIOUS
  <2>0. \A x \in 1..Len(r) : x # i => r[x] # e
    BY <1>3, <1>4
  <2>1. CASE a = i
    BY <1>4, <2>0, <2>1
  <2>2. CASE b = i
    BY <1>4, <2>0, <2>2
  <2>3. CASE a < i /\ b < i
    BY <1>3, <1>4, <2>3
  <2>4. CASE a > i /\ b > i
    <3>1. a - 1 = b - 1
      BY <1>3, <1>4, <2>4
    <3> QED BY <3>1
  <2>5. CASE a < i /\ b > i
    <3>1. a = b - 1
      BY <1>3, <1>4, <2>5
    <3> QED BY <2>5, <3>1
  <2>6. CASE a > i /\ b < i
    <3>1. a - 1 = b
      BY <1>3, <1>4, <2>6
    <3> QED BY <2>6, <3>1
  <2> QED BY <2>1, <2>2, <2>3, <2>4, <2>5, <2>6
<1>6. ASSUME NEW y, Contains(r, y) PROVE Contains(q, y) \/ y = e
  <2>1. PICK a \in 1..Len(r) : r[a] = y
    BY <1>6 DEF Contains
  <2>2. CASE a = i
    BY <1>4, <2>1, <2>2
  <2>3. CASE a # i
    <3>1. \E b \in 1..Len(q) : q[b] = y
      BY <1>4, <2>1, <2>3
    <3> QED BY <3>1 DEF Contains
  <2> QED BY <2>2, <2>3
<1>7. ASSUME NEW y, Contains(q, y) PROVE Contains(r, y)
  <2>1. PICK a \in 1..Len(q) : q[a] = y
    BY <1>7 DEF Contains
  <2> DEFINE A == IF a < i THEN a ELSE a + 1
  <2>2. A \in 1..Len(r) /\ r[A] = q[a]
    BY <1>1, <1>2
  <2> QED BY <2>1, <2>2 DEF Contains
<1>8. Contains(r, e)
  <2>1. i \in 1..Len(r) /\ r[i] = e
    BY <1>1
  <2> QED BY <2>1 DEF Contains
<1>9. IsInjective(r)
  BY <1>2, <1>5 DEF IsInjective
<1> QED BY <1>6, <1>7, <1>8, <1>9 DEF r

\* RemoveFirst takes an element off a sequence without duplicates, if it is there.
LEMMA RemoveFirstMembers ==
  ASSUME NEW S, NEW q \in Seq(S), NEW e, IsInjective(q)
  PROVE  /\ RemoveFirst(q, e) \in Seq(S)
         /\ IsInjective(RemoveFirst(q, e))
         /\ \A y : Contains(RemoveFirst(q, e), y) <=> Contains(q, y) /\ y # e
<1> DEFINE I == {i \in 1..Len(q) : q[i] = e}
<1>1. CASE ~\E i \in 1..Len(q) : q[i] = e
  BY <1>1 DEF RemoveFirst, Contains
<1>2. CASE \E i \in 1..Len(q) : q[i] = e
  <2>1. PICK i \in 1..Len(q) : q[i] = e
    BY <1>2
  <2>2. I = {i}
    BY <2>1 DEF IsInjective
  <2>3. SelectInSeq(q, LAMBDA v : v = e) = i
    BY <2>2 DEF SelectInSeq, Min
  <2>4. RemoveFirst(q, e) = RemoveAt(q, i)
    BY <1>2, <2>3 DEF RemoveFirst
  <2> QED BY <2>1, <2>4, RemoveAtProperties, RemoveAtMembers
<1> QED BY <1>1, <1>2

\* Append adds a new element at the end and leaves the others where they are.
LEMMA AppendMembers ==
  ASSUME NEW S, NEW q \in Seq(S), NEW e \in S
  PROVE  /\ Append(q, e) \in Seq(S) /\ Len(Append(q, e)) = Len(q) + 1
         /\ \A i \in 1..Len(q) : Append(q, e)[i] = q[i]
         /\ Append(q, e)[Len(q) + 1] = e
         /\ \A y : Contains(Append(q, e), y) <=> Contains(q, y) \/ y = e
         /\ IsInjective(q) /\ ~Contains(q, e) => IsInjective(Append(q, e))
<1> DEFINE r == Append(q, e)
<1>1. /\ r \in Seq(S) /\ Len(r) = Len(q) + 1 /\ Len(q) \in Nat
      /\ \A i \in 1..Len(q) : r[i] = q[i]
      /\ r[Len(q) + 1] = e
  BY AppendProperties
<1> HIDE DEF r
<1>2. \A i \in 1..Len(r) : i \in 1..Len(q) \/ i = Len(q) + 1
  BY <1>1
<1>3. \A y : Contains(r, y) <=> Contains(q, y) \/ y = e
  BY <1>1, <1>2 DEF Contains
<1>4. ASSUME IsInjective(q), ~Contains(q, e) PROVE IsInjective(r)
  BY <1>1, <1>2, <1>4 DEF IsInjective, Contains
<1> QED BY <1>1, <1>3, <1>4 DEF r

\* Tail drops the first element of a sequence without duplicates.
LEMMA TailMembers ==
  ASSUME NEW S, NEW q \in Seq(S), q # <<>>, IsInjective(q)
  PROVE  /\ Tail(q) \in Seq(S) /\ IsInjective(Tail(q))
         /\ Len(Tail(q)) = Len(q) - 1 /\ Head(q) = q[1] /\ Contains(q, Head(q))
         /\ \A i \in 1..Len(Tail(q)) : Tail(q)[i] = q[i + 1]
         /\ \A y : Contains(Tail(q), y) <=> Contains(q, y) /\ y # Head(q)
<1> DEFINE r == Tail(q)
<1>1. /\ r \in Seq(S) /\ Len(r) = Len(q) - 1 /\ Len(q) \in Nat /\ 1 \in 1..Len(q)
      /\ Head(q) = q[1]
      /\ \A i \in 1..Len(r) : r[i] = q[i + 1] /\ i + 1 \in 1..Len(q)
  BY HeadTailProperties, EmptySeq
<1> HIDE DEF r
<1>2. \A i \in 1..Len(q) : i # 1 => i - 1 \in 1..Len(r) /\ r[i - 1] = q[i]
  BY <1>1
<1>3. \A i, j \in 1..Len(q) : q[i] = q[j] => i = j
  BY DEF IsInjective
<1>4. \A y : Contains(r, y) <=> Contains(q, y) /\ y # Head(q)
  <2>1. ASSUME NEW y, Contains(r, y) PROVE Contains(q, y) /\ y # Head(q)
    BY <1>1, <1>3, <2>1 DEF Contains
  <2>2. ASSUME NEW y, Contains(q, y), y # Head(q) PROVE Contains(r, y)
    BY <1>1, <1>2, <2>2 DEF Contains
  <2> QED BY <2>1, <2>2
<1>5. IsInjective(r)
  BY <1>1, <1>3 DEF IsInjective
<1>6. Contains(q, Head(q))
  BY <1>1 DEF Contains
<1> QED BY <1>1, <1>4, <1>5, <1>6 DEF r

\* A non-empty set of naturals has a least element.
LEMMA LeastNatural ==
  ASSUME NEW T \in SUBSET Nat, T # {}
  PROVE  \E x \in T : \A y \in T : x <= y
<1>1. PICK x \in T : \A y \in T : ~(<<y, x>> \in OpToRel(<, Nat))
  BY NatLessThanWellFounded, WFMin
<1>2. \A y \in T : ~(y < x)
  BY <1>1 DEF OpToRel
<1> QED BY <1>2

\* A non-empty finite set of naturals has a greatest element.
LEMMA GreatestNatural ==
  ASSUME NEW T \in SUBSET Nat, T # {}, IsFiniteSet(T)
  PROVE  \E x \in T : \A y \in T : y <= x
<1> SUFFICES ASSUME \A x \in T : \E y \in T : x < y
             PROVE  FALSE
  OBVIOUS
\* Among the parts of T without a greatest element take one with as few elements as possible.
<1> DEFINE Bad == {X \in SUBSET T : X # {} /\ \A x \in X : \E y \in X : x < y}
           Sizes == {Cardinality(X) : X \in Bad}
<1>1. T \in Bad
  OBVIOUS
<1>2. \A X \in Bad : IsFiniteSet(X) /\ Cardinality(X) \in Nat
  BY FS_Subset, FS_CardinalityType
<1>3. PICK n \in Sizes : \A m \in Sizes : n <= m
  <2>1. Sizes \in SUBSET Nat /\ Sizes # {}
    BY <1>1, <1>2
  <2> HIDE DEF Sizes
  <2> QED BY <2>1, LeastNatural
<1>4. PICK X \in Bad : n = Cardinality(X)
  OBVIOUS
<1>5. PICK x \in X : TRUE
  OBVIOUS
<1>6. Cardinality(X \ {x}) = n - 1
  BY <1>2, <1>4, <1>5, FS_RemoveElement
<1>7. X \ {x} \in Bad
  <2>1. X \ {x} # {}
    <3>1. PICK y \in X : x < y
      BY <1>5
    <3>2. y # x
      BY <1>5, <3>1
    <3> QED BY <3>2
  <2>2. ASSUME NEW a \in X \ {x} PROVE \E y \in X \ {x} : a < y
    <3>1. PICK y \in X : a < y
      OBVIOUS
    <3>2. PICK z \in X : y < z
      OBVIOUS
    <3> QED BY <3>1, <3>2
  <2> QED BY <2>1, <2>2
<1>8. n <= n - 1
  BY <1>3, <1>6, <1>7
<1> QED BY <1>2, <1>4, <1>8
=============================================================================
