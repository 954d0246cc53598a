------------------------- MODULE SyncChannelProofs --------------------------
(***************************************************************************)
(* Proofs about SyncChannel, for every system of processes and channels    *)
(* and whatever may happen in it.                                          *)
(***************************************************************************)
EXTENDS SyncChannel, SequenceLemmas

(***************************************************************************)
(* Sequences: the end of a stack, and what is left of a list.              *)
(***************************************************************************)
LEMMA FrontAndLast ==
  ASSUME NEW S, NEW q \in Seq(S), q # <<>>
  PROVE  /\ Front(q) \in Seq(S) /\ Len(Front(q)) = Len(q) - 1 /\ Len(q) \in Nat \ {0}
         /\ \A i \in 1..(Len(q) - 1) : Front(q)[i] = q[i]
         /\ Last(q) \in S /\ Last(q) = q[Len(q)]
<1>1. Len(q) \in Nat \ {0}
  BY EmptySeq
<1>2. \A i \in 1..(Len(q) - 1) : q[i] \in S
  BY <1>1
<1>3. /\ SubSeq(q, 1, Len(q) - 1) \in Seq(S)
      /\ Len(SubSeq(q, 1, Len(q) - 1)) = IF 1 <= Len(q) - 1 THEN Len(q) - 1 - 1 + 1 ELSE 0
      /\ \A i \in 1..(Len(q) - 1 - 1 + 1) : SubSeq(q, 1, Len(q) - 1)[i] = q[1 + i - 1]
  BY <1>1, <1>2, SubSeqProperties
<1>4. Last(q) = q[Len(q)] /\ q[Len(q)] \in S
  BY <1>1 DEF Last
<1>5. Front(q) = SubSeq(q, 1, Len(q) - 1)
  BY DEF Front
<1>6. PICK l \in Nat : l = Len(q) - 1 /\ l + 1 = Len(q)
  BY <1>1
<1>7. Front(q) \in Seq(S) /\ Len(Front(q)) = l /\ \A i \in 1..l : Front(q)[i] = q[i]
  BY <1>1, <1>3, <1>5, <1>6
<1> QED BY <1>1, <1>4, <1>6, <1>7

LEMMA FrontType ==
  ASSUME NEW S, NEW q \in Seq(S)
  PROVE  Front(q) \in Seq(S)
<1>1. CASE q = <<>>
  <2>1. SubSeq(q, 1, Len(q) - 1) = <<>>
    BY <1>1, SubSeqEmpty
  <2> QED BY <2>1 DEF Front
<1>2. CASE q # <<>>
  BY <1>2, FrontAndLast
<1> QED BY <1>1, <1>2

\* How many members of |I| are no greater than |i|.
Rank(I, i) == Cardinality({j \in I : j <= i})

LEMMA RankGrows ==
  ASSUME NEW I \in SUBSET Nat, IsFiniteSet(I), NEW i \in I, NEW j \in I, i < j
  PROVE  Rank(I, i) < Rank(I, j)
<1> DEFINE A == {x \in I : x <= i}
           B == {x \in I : x <= j}
<1>1. IsFiniteSet(B) /\ Cardinality(B) \in Nat
  <2>1. B \in SUBSET I
    OBVIOUS
  <2> QED BY <2>1, FS_Subset, FS_CardinalityType
<1>2. A \in SUBSET B /\ j \in B /\ j \notin A
  <2>1. i \in Nat /\ j \in Nat /\ \A x \in I : x \in Nat
    OBVIOUS
  <2>2. \A x \in I : x <= i => x <= j
    BY <2>1
  <2>3. j <= j /\ ~(j <= i)
    BY <2>1
  <2> QED BY <2>2, <2>3
<1>3. Cardinality(A) \in Nat
  BY <1>1, <1>2, FS_Subset, FS_CardinalityType
<1> HIDE DEF A, B
<1>4. Cardinality(A) <= Cardinality(B) /\ Cardinality(A) # Cardinality(B)
  BY <1>1, <1>2, FS_Subset
<1> QED BY <1>1, <1>3, <1>4 DEF Rank, A, B

LEMMA RankInRange ==
  ASSUME NEW I \in SUBSET Nat, IsFiniteSet(I), NEW i \in I
  PROVE  Rank(I, i) \in 1..Cardinality(I)
<1> DEFINE A == {x \in I : x <= i}
<1>1. A \in SUBSET I /\ A # {}
  OBVIOUS
<1>2. IsFiniteSet(A) /\ Cardinality(A) \in Nat /\ Cardinality(I) \in Nat
  BY <1>1, FS_Subset, FS_CardinalityType
<1>3. Cardinality(A) <= Cardinality(I) /\ Cardinality(A) # 0
  BY <1>1, <1>2, FS_Subset, FS_EmptySet
<1> QED BY <1>2, <1>3 DEF Rank

\* Each number up to the size of |I| is the rank of a member.
LEMMA RankedBySomeone ==
  ASSUME NEW I \in SUBSET Nat, IsFiniteSet(I), NEW k \in 1..Cardinality(I)
  PROVE  \E i \in I : Rank(I, i) = k
<1>1. Cardinality(I) \in Nat
  BY FS_CardinalityType
<1> DEFINE High == {i \in I : k <= Rank(I, i)}
<1>2. High # {}
  <2>1. I # {}
    BY <1>1, FS_EmptySet
  <2>2. PICK m \in I : \A i \in I : i <= m
    BY <2>1, GreatestNatural
  <2>3. {j \in I : j <= m} = I
    BY <2>2
  <2>4. Rank(I, m) = Cardinality(I)
    BY <2>3 DEF Rank
  <2> QED BY <2>4, <1>1
<1>3. PICK i \in High : \A j \in High : i <= j
  <2>1. High \in SUBSET Nat
    OBVIOUS
  <2> HIDE DEF High
  <2> QED BY <1>2, <2>1, LeastNatural
<1>4. Rank(I, i) \in Nat /\ k <= Rank(I, i)
  BY <1>1, <1>3, RankInRange
<1> SUFFICES ASSUME k < Rank(I, i) PROVE FALSE
  BY <1>3, <1>4
<1> DEFINE B == {j \in I : j <= i}
           A == B \ {i}
<1>5. IsFiniteSet(B) /\ i \in B
  <2>1. B \in SUBSET I
    OBVIOUS
  <2> QED BY <2>1, <1>3, FS_Subset
<1>6. IsFiniteSet(A) /\ Cardinality(A) = Cardinality(B) - 1
  BY <1>5, FS_RemoveElement
<1>7. Cardinality(B) = Rank(I, i)
  BY DEF Rank
<1>8. A \in SUBSET Nat /\ A # {}
  <2>1. Cardinality(A) # 0
    BY <1>4, <1>6, <1>7
  <2> QED BY <2>1, <1>6, FS_EmptySet
<1>9. PICK m \in A : \A j \in A : j <= m
  <2> HIDE DEF A
  <2> QED BY <1>6, <1>8, GreatestNatural
<1>10. {j \in I : j <= m} = A
  <2>1. m < i /\ m \in I /\ i \in Nat /\ m \in Nat /\ \A x \in I : x \in Nat
    BY <1>3
  <2>2. \A j \in I : j < i => j <= m
    BY <1>9, <2>1
  <2>3. \A j \in I : j <= m => j <= i /\ j # i
    BY <2>1
  <2>4. \A j \in I : j \in A <=> j <= i /\ j # i
    OBVIOUS
  <2> HIDE DEF A
  <2>5. \A j \in I : j \in A <=> j <= m
    BY <2>1, <2>2, <2>3, <2>4
  <2>6. A \subseteq I
    BY DEF A
  <2> QED BY <2>5, <2>6
<1>11. Rank(I, m) = Rank(I, i) - 1
  BY <1>10, <1>6, <1>7 DEF Rank
<1>12. m \in High /\ m < i
  BY <1>11, <1>4, <1>3
<1> QED BY <1>12, <1>3

\* What is left are the elements at the positions that stay, in their order.
LEMMA OnlyProperties ==
  ASSUME NEW S, NEW q \in Seq(S), NEW I \in SUBSET (1..Len(q))
  PROVE  /\ Only(q, I) \in Seq(S) /\ Len(Only(q, I)) = Cardinality(I)
         /\ \E f :
              /\ \A k \in 1..Cardinality(I) : f[k] \in I /\ Only(q, I)[k] = q[f[k]]
              /\ \A k, l \in 1..Cardinality(I) : k < l => f[k] < f[l]
              /\ \A i \in I : \E k \in 1..Cardinality(I) : f[k] = i
<1>1. Len(q) \in Nat
  BY LenProperties
<1>2. I \in SUBSET Nat /\ IsFiniteSet(I)
  <2>1. IsFiniteSet(1..Len(q))
    BY <1>1, FS_Interval
  <2>2. 1..Len(q) \subseteq Nat
    BY <1>1
  <2> QED BY <2>1, <2>2, FS_Subset
<1>3. Cardinality(I) \in Nat
  BY <1>2, FS_CardinalityType
<1> DEFINE f == [k \in 1..Cardinality(I) |-> CHOOSE i \in I : Rank(I, i) = k]
<1>4. \A k \in 1..Cardinality(I) : f[k] \in I /\ Rank(I, f[k]) = k
  BY <1>2, RankedBySomeone
<1>5. Only(q, I) = [k \in 1..Cardinality(I) |-> q[f[k]]]
  BY DEF Only, Rank
<1> HIDE DEF f
<1>6. \A k \in 1..Cardinality(I) : q[f[k]] \in S
  <2>1. \A i \in I : i \in 1..Len(q)
    OBVIOUS
  <2>2. \A i \in 1..Len(q) : q[i] \in S
    BY <1>1
  <2> QED BY <2>1, <2>2, <1>4
<1>7. Only(q, I) \in Seq(S) /\ Len(Only(q, I)) = Cardinality(I)
  BY <1>3, <1>5, <1>6
<1>8. ASSUME NEW k \in 1..Cardinality(I), NEW l \in 1..Cardinality(I), k < l
      PROVE  f[k] < f[l]
  <2>1. f[k] \in Nat /\ f[l] \in Nat /\ f[k] # f[l]
    <3>1. k # l
      BY <1>3, <1>8
    <3>2. Rank(I, f[k]) = k /\ Rank(I, f[l]) = l
      BY <1>4
    <3>3. f[k] # f[l]
      BY ONLY <3>1, <3>2
    <3> QED BY <3>3, <1>2, <1>4
  <2>2. ~(f[l] < f[k])
    <3>1. f[l] < f[k] => Rank(I, f[l]) < Rank(I, f[k])
      BY <1>2, <1>4, RankGrows
    <3> QED BY <3>1, <1>4, <1>8
  <2> QED BY <2>1, <2>2
<1>9. ASSUME NEW i \in I PROVE \E k \in 1..Cardinality(I) : f[k] = i
  <2>1. Rank(I, i) \in 1..Cardinality(I)
    BY <1>2, RankInRange
  <2>2. PICK k \in 1..Cardinality(I) : k = Rank(I, i)
    BY <2>1
  <2>3. f[k] \in I /\ Rank(I, f[k]) = Rank(I, i)
    BY <2>2, <1>4
  <2>4. ~(f[k] < i) /\ ~(i < f[k])
    <3>1. f[k] < i => Rank(I, f[k]) < Rank(I, i)
      BY <2>3, <1>2, RankGrows
    <3>2. i < f[k] => Rank(I, i) < Rank(I, f[k])
      BY <2>3, <1>2, RankGrows
    <3>3. Rank(I, i) \in Nat
      BY <2>1, <1>3
    <3> QED BY <3>1, <3>2, <3>3, <2>3
  <2>5. f[k] = i
    <3>1. f[k] \in Nat /\ i \in Nat
      BY <1>2, <2>3
    <3> QED BY <3>1, <2>4
  <2> QED BY <2>5
<1>10. \A k \in 1..Cardinality(I) : f[k] \in I /\ Only(q, I)[k] = q[f[k]]
  BY <1>4, <1>5
<1>11. /\ \A k \in 1..Cardinality(I) : f[k] \in I /\ Only(q, I)[k] = q[f[k]]
       /\ \A k, l \in 1..Cardinality(I) : k < l => f[k] < f[l]
       /\ \A i \in I : \E k \in 1..Cardinality(I) : f[k] = i
  BY <1>8, <1>9, <1>10
<1> QED BY <1>7, <1>11

(***************************************************************************)
(* Which members of a set a sequence has, and whether it has one only.     *)
(***************************************************************************)
Has(s, X) == \E i \in 1..Len(s) : s[i] \in X
Once(s, X) == \A i, j \in 1..Len(s) : s[i] \in X /\ s[j] \in X => i = j

LEMMA HasAppend ==
  ASSUME NEW S, NEW s \in Seq(S), NEW e \in S, NEW t, t = Append(s, e)
  PROVE  /\ \A X : Has(t, X) <=> Has(s, X) \/ e \in X
         /\ \A X : Once(s, X) /\ (e \in X => ~Has(s, X)) => Once(t, X)
<1>1. Len(t) = Len(s) + 1 /\ Len(s) \in Nat /\ t[Len(s) + 1] = e /\ \A i \in 1..Len(s) : t[i] = s[i]
  BY AppendProperties
<1>2. /\ \A i \in 1..Len(s) : t[i] = s[i] /\ i \in 1..Len(t)
      /\ \A i \in 1..Len(t) : i \in 1..Len(s) \/ i = Len(s) + 1
      /\ Len(s) + 1 \in 1..Len(t)
  BY <1>1
<1>3. ASSUME NEW X PROVE Has(t, X) <=> Has(s, X) \/ e \in X
  BY <1>1, <1>2 DEF Has
<1>4. ASSUME NEW X, Once(s, X), e \in X => ~Has(s, X) PROVE Once(t, X)
  <2>1. SUFFICES ASSUME NEW i \in 1..Len(t), NEW j \in 1..Len(t), t[i] \in X, t[j] \in X PROVE i = j
    BY DEF Once
  <2>2. CASE i \in 1..Len(s) /\ j \in 1..Len(s)
    BY <2>1, <2>2, <1>2, <1>4 DEF Once
  <2>3. CASE i = Len(s) + 1 \/ j = Len(s) + 1
    <3>1. CASE e \in X
      <4>1. \A k \in 1..Len(s) : t[k] \notin X
        BY <3>1, <1>2, <1>4 DEF Has
      <4> QED BY <4>1, <2>1, <1>2
    <3>2. CASE e \notin X
      BY <3>2, <2>1, <2>3, <1>1
    <3> QED BY <3>1, <3>2
  <2> QED BY <2>2, <2>3, <1>2
<1> QED BY <1>3, <1>4

LEMMA HasTail ==
  ASSUME NEW S, NEW s \in Seq(S), s # <<>>, NEW t, t = Tail(s)
  PROVE  /\ \A X : Has(s, X) <=> Has(t, X) \/ Head(s) \in X
         /\ \A X : Once(s, X) => Once(t, X) /\ (Head(s) \in X => ~Has(t, X))
<1>1. Len(t) = Len(s) - 1 /\ Len(s) \in Nat \ {0} /\ Head(s) = s[1] /\ \A i \in 1..Len(t) : t[i] = s[i + 1]
  BY HeadTailProperties, EmptySeq
<1>2. /\ \A i \in 1..Len(t) : t[i] = s[i + 1] /\ i + 1 \in 1..Len(s) /\ i + 1 # 1
      /\ \A i \in 1..Len(s) : i = 1 \/ (i - 1 \in 1..Len(t) /\ t[i - 1] = s[i])
      /\ 1 \in 1..Len(s)
  BY <1>1
<1>3. ASSUME NEW X PROVE Has(s, X) <=> Has(t, X) \/ Head(s) \in X
  BY <1>1, <1>2 DEF Has
<1>4. ASSUME NEW X, Once(s, X) PROVE Once(t, X) /\ (Head(s) \in X => ~Has(t, X))
  <2>1. \A i, j \in 1..Len(t) : t[i] \in X /\ t[j] \in X => i + 1 = j + 1
    BY <1>2, <1>4 DEF Once
  <2>2. Once(t, X)
    BY <2>1, <1>1 DEF Once
  <2>3. Head(s) \in X => \A i \in 1..Len(t) : t[i] \notin X
    BY <1>1, <1>2, <1>4 DEF Once
  <2> QED BY <2>2, <2>3 DEF Has
<1> QED BY <1>3, <1>4

LEMMA HasConcat ==
  ASSUME NEW S, NEW a \in Seq(S), NEW b \in Seq(S), NEW t, t = a \o b
  PROVE  /\ \A X : Has(t, X) <=> Has(a, X) \/ Has(b, X)
         /\ \A X : Once(a, X) /\ Once(b, X) /\ ~(Has(a, X) /\ Has(b, X)) => Once(t, X)
<1>1. /\ Len(t) = Len(a) + Len(b) /\ Len(a) \in Nat /\ Len(b) \in Nat
      /\ \A i \in 1..(Len(a) + Len(b)) : t[i] = IF i <= Len(a) THEN a[i] ELSE b[i - Len(a)]
  BY ConcatProperties
<1>2. /\ \A i \in 1..Len(a) : i \in 1..Len(t) /\ t[i] = a[i]
      /\ \A i \in 1..Len(b) : i + Len(a) \in 1..Len(t) /\ t[i + Len(a)] = b[i]
      /\ \A i \in 1..Len(t) : i \in 1..Len(a) \/ (i - Len(a) \in 1..Len(b) /\ t[i] = b[i - Len(a)])
  BY <1>1
<1>3. ASSUME NEW X PROVE Has(t, X) <=> Has(a, X) \/ Has(b, X)
  BY <1>2 DEF Has
<1>4. ASSUME NEW X, Once(a, X), Once(b, X), ~(Has(a, X) /\ Has(b, X)) PROVE Once(t, X)
  <2>1. SUFFICES ASSUME NEW i \in 1..Len(t), NEW j \in 1..Len(t), t[i] \in X, t[j] \in X PROVE i = j
    BY DEF Once
  <2>2. CASE i \in 1..Len(a) /\ j \in 1..Len(a)
    BY <2>1, <2>2, <1>2, <1>4 DEF Once
  <2>3. CASE i \notin 1..Len(a) /\ j \notin 1..Len(a)
    <3>1. i - Len(a) = j - Len(a)
      BY <2>1, <2>3, <1>2, <1>4 DEF Once
    <3> QED BY <3>1, <1>1
  <2>4. CASE i \in 1..Len(a) /\ j \notin 1..Len(a)
    BY <2>1, <2>4, <1>2, <1>4 DEF Has
  <2>5. CASE i \notin 1..Len(a) /\ j \in 1..Len(a)
    BY <2>1, <2>5, <1>2, <1>4 DEF Has
  <2> QED BY <2>2, <2>3, <2>4, <2>5
<1> QED BY <1>3, <1>4

LEMMA HasOnly ==
  ASSUME NEW S, NEW s \in Seq(S), NEW I \in SUBSET (1..Len(s)), NEW t, t = Only(s, I)
  PROVE  /\ \A X : Has(t, X) <=> \E i \in I : s[i] \in X
         /\ \A X : Once(s, X) => Once(t, X)
<1>1. Len(t) = Cardinality(I) /\ t \in Seq(S)
  BY OnlyProperties
<1>0. PICK f : /\ \A k \in 1..Cardinality(I) : f[k] \in I /\ Only(s, I)[k] = s[f[k]]
               /\ \A k, l \in 1..Cardinality(I) : k < l => f[k] < f[l]
               /\ \A i \in I : \E k \in 1..Cardinality(I) : f[k] = i
  <2>1. /\ Only(s, I) \in Seq(S) /\ Len(Only(s, I)) = Cardinality(I)
        /\ \E f : /\ \A k \in 1..Cardinality(I) : f[k] \in I /\ Only(s, I)[k] = s[f[k]]
                  /\ \A k, l \in 1..Cardinality(I) : k < l => f[k] < f[l]
                  /\ \A i \in I : \E k \in 1..Cardinality(I) : f[k] = i
    BY ONLY OnlyProperties
  <2> QED BY <2>1
<1>2. /\ \A k \in 1..Len(t) : f[k] \in I /\ t[k] = s[f[k]]
      /\ \A k, l \in 1..Len(t) : k < l => f[k] < f[l]
      /\ \A i \in I : \E k \in 1..Len(t) : f[k] = i
  BY <1>0, <1>1
<1>3. ASSUME NEW X PROVE Has(t, X) <=> \E i \in I : s[i] \in X
  <2>1. Has(t, X) => \E i \in I : s[i] \in X
    BY <1>2 DEF Has
  <2>2. ASSUME NEW i \in I, s[i] \in X PROVE Has(t, X)
    <3>1. PICK k \in 1..Len(t) : f[k] = i
      BY <1>2
    <3>2. t[k] = s[f[k]]
      BY <1>2
    <3> QED BY <3>1, <3>2, <2>2 DEF Has
  <2> QED BY <2>1, <2>2
<1>4. ASSUME NEW k \in 1..Len(t), NEW l \in 1..Len(t), f[k] = f[l] PROVE k = l
  <2>1. f[k] \in Nat /\ k \in Nat /\ l \in Nat
    <3>1. Len(s) \in Nat /\ Len(t) \in Nat
      BY <1>1, LenProperties
    <3>2. I \subseteq Nat
      <4>1. 1..Len(s) \subseteq Nat
        BY <3>1
      <4> QED BY <4>1
    <3>3. f[k] \in I /\ f[l] \in I
      BY <1>2
    <3>4. k \in Nat /\ l \in Nat
      BY <3>1
    <3> QED BY ONLY <3>2, <3>3, <3>4
  <2>2. ~(k < l)
    <3>1. k < l => f[k] < f[l]
      BY <1>2
    <3> QED BY <3>1, <2>1, <1>4
  <2>3. ~(l < k)
    <3>1. l < k => f[l] < f[k]
      BY <1>2
    <3> QED BY <3>1, <2>1, <1>4
  <2> QED BY <2>1, <2>2, <2>3
<1>5. ASSUME NEW X, Once(s, X) PROVE Once(t, X)
  <2>1. SUFFICES ASSUME NEW k \in 1..Len(t), NEW l \in 1..Len(t), t[k] \in X, t[l] \in X PROVE k = l
    BY DEF Once
  <2>2. f[k] \in 1..Len(s) /\ f[l] \in 1..Len(s) /\ s[f[k]] \in X /\ s[f[l]] \in X
    BY <1>2, <2>1
  <2>3. f[k] = f[l]
    BY <2>2, <1>5 DEF Once
  <2> QED BY <2>3, <1>4
<1> QED BY <1>3, <1>5

LEMMA HasNone ==
  \A X : ~Has(<<>>, X) /\ Once(<<>>, X)
BY DEF Has, Once

(***************************************************************************)
(* Types: what a process keeps is about its own ends of its channels, and  *)
(* what a context writes are its own requests and answers.                 *)
(***************************************************************************)
RequestTo(p) == {r \in Request : At(r)[1] = p}

FrameOf(p) ==
  [k : {"send"}, ctx : ContextsOf(p), n : Nat \ {0}, pump : BOOLEAN]
    \cup [k : {"dispatch"}, ctx : ContextsOf(p), delayed : Seq(RequestTo(p))]
    \cup [k : {"handler"}, req : RequestTo(p)]
    \cup [k : {"loop"}, ctx : ContextsOf(p), n : Nat \ {0}, quit : BOOLEAN]

TaskOf(p) == [k : {"task", "watch"}, ctx : ContextsOf(p)] \cup [k : {"done"}, ctx : ContextsOf(p), n : Nat \ {0}]

Message == [reply : BOOLEAN, req : Request, ok : BOOLEAN]

\* An answer is given where the request arrived, and a good one was given by a handler.
MessageFrom(c) ==
  {m \in Message : IF m.reply THEN At(m.req) = c /\ (m.ok => m.req \in answered) ELSE m.req.ctx = c}

IpcTaskOf(p) ==
  {t \in [k : {"send"}, ctx : ContextsOf(p), m : Message] : t.m \in MessageFrom(t.ctx)}
    \cup [k : {"replies"}] \cup [k : {"closed", "shutdown"}, ctx : ContextsOf(p)]

ReplyTo(p) ==
  {x \in [ctx : ContextsOf(p), m : Message] : x.m.reply /\ x.m \in MessageFrom(Peer(x.ctx))}

Awaited == [n : Nat \ {0}, done : BOOLEAN, result : BOOLEAN]

StackType == DOMAIN stack = Procs /\ \A p \in Procs : stack[p] \in Seq(FrameOf(p))
TasksType == DOMAIN tasks = Procs /\ \A p \in Procs : tasks[p] \in Seq(TaskOf(p))
QueueType == DOMAIN queue = Procs /\ \A p \in Procs : queue[p] \in Seq(RequestTo(p))
ArmedType == DOMAIN armed = Procs /\ \A p \in Procs : armed[p] \in Seq(ContextsOf(p))
FlagsType == taskPending \in [Procs -> BOOLEAN] /\ event \in [Procs -> BOOLEAN] /\ shut \in [Procs -> BOOLEAN]
WatchType ==
  /\ DOMAIN doneWatch = Procs
  /\ \A p \in Procs :
       doneWatch[p] \in {None} \cup [on : {TRUE}, ctx : ContextsOf(p), n : Nat \ {0}, posted : BOOLEAN]
PendType == DOMAIN pend = Contexts /\ \A c \in Contexts : pend[c] \in Seq(Awaited)
RepliesType == DOMAIN replies = Procs /\ \A p \in Procs : replies[p] \in Seq(ReplyTo(p))
IpcType == DOMAIN ipc = Procs /\ \A p \in Procs : ipc[p] \in Seq(IpcTaskOf(p))
SignalType ==
  /\ DOMAIN signalling = Procs
  /\ \A p \in Procs : signalling[p] \in {None} \cup [on : {TRUE}, ctx : ContextsOf(p), post : BOOLEAN]
TimersType == timers \subseteq [ctx : Contexts, n : Nat]
WireType == DOMAIN wire = Contexts /\ \A c \in Contexts : wire[c] \in Seq(MessageFrom(c))
ConnType == conn \in [Contexts -> {"open", "error", "closed"}]
SetsType ==
  /\ owed \subseteq Request /\ cleared \subseteq Contexts /\ answered \subseteq Request /\ dead \subseteq Procs
  /\ scenario \in Scenarios
SentType == sent \in [Procs -> Nat] /\ \A p \in Procs : sent[p] <= MaxSends[p]

Types ==
  /\ StackType /\ TasksType /\ QueueType /\ ArmedType /\ FlagsType /\ WatchType /\ PendType
  /\ RepliesType /\ IpcType /\ SignalType /\ TimersType /\ WireType /\ ConnType /\ SetsType /\ SentType

-----------------------------------------------------------------------------
(***************************************************************************)
(* Processes and their contexts.                                           *)
(***************************************************************************)
LEMMA Pairs ==
  ASSUME scenario \in Scenarios, NEW c \in Contexts
  PROVE  /\ c[1] \in Procs /\ c[2] \in Procs /\ c[1] # c[2] /\ c \in ContextsOf(c[1])
         /\ Peer(c) \in Contexts /\ Peer(Peer(c)) = c /\ Peer(c)[1] = c[2] /\ Peer(c)[2] = c[1]
BY ChannelAssumption DEF Contexts, Procs, Peer, ContextsOf

LEMMA SameScenario ==
  ASSUME scenario' = scenario
  PROVE  /\ Procs' = Procs /\ Contexts' = Contexts /\ Restricted' = Restricted /\ MaxSends' = MaxSends
         /\ Features' = Features /\ Request' = Request /\ Message' = Message
         /\ \A p : ContextsOf(p)' = ContextsOf(p) /\ RequestTo(p)' = RequestTo(p)
         /\ \A p : FrameOf(p)' = FrameOf(p) /\ TaskOf(p)' = TaskOf(p)
<1>1. Procs' = Procs /\ Contexts' = Contexts /\ Restricted' = Restricted /\ MaxSends' = MaxSends /\ Features' = Features
  BY DEF Procs, Contexts, Restricted, MaxSends, Features
<1>2. Request' = Request
  BY <1>1 DEF Request
<1>3. Message' = Message
  BY <1>2 DEF Message
<1>4. \A p : ContextsOf(p)' = ContextsOf(p) /\ RequestTo(p)' = RequestTo(p)
  BY <1>1, <1>2 DEF ContextsOf, RequestTo
<1>5. \A p : FrameOf(p)' = FrameOf(p) /\ TaskOf(p)' = TaskOf(p)
  BY <1>4 DEF FrameOf, TaskOf
<1> QED BY <1>1, <1>2, <1>3, <1>4, <1>5

\* An answer that was given stays given.
LEMMA MoreAnswers ==
  ASSUME scenario' = scenario, answered \subseteq answered'
  PROVE  /\ \A c : MessageFrom(c) \subseteq MessageFrom(c)'
         /\ \A p : IpcTaskOf(p) \subseteq IpcTaskOf(p)' /\ ReplyTo(p) \subseteq ReplyTo(p)'
<1>1. \A c : MessageFrom(c) \subseteq MessageFrom(c)'
  BY SameScenario DEF MessageFrom
<1>2. ASSUME NEW p PROVE IpcTaskOf(p) \subseteq IpcTaskOf(p)'
  BY <1>1, SameScenario DEF IpcTaskOf
<1>3. ASSUME NEW p PROVE ReplyTo(p) \subseteq ReplyTo(p)'
  BY <1>1, SameScenario DEF ReplyTo
<1> QED BY <1>1, <1>2, <1>3

\* A process that only changes one thread's list keeps the types of all.
LEMMA OneStack ==
  ASSUME StackType, scenario' = scenario, NEW p \in Procs, NEW s \in Seq(FrameOf(p)),
         stack' = [stack EXCEPT ![p] = s]
  PROVE  StackType'
BY SameScenario DEF StackType

LEMMA OneTasks ==
  ASSUME TasksType, scenario' = scenario, NEW p \in Procs, NEW s \in Seq(TaskOf(p)),
         tasks' = [tasks EXCEPT ![p] = s]
  PROVE  TasksType'
BY SameScenario DEF TasksType

LEMMA OneQueue ==
  ASSUME QueueType, scenario' = scenario, NEW p \in Procs, NEW s \in Seq(RequestTo(p)),
         queue' = [queue EXCEPT ![p] = s]
  PROVE  QueueType'
BY SameScenario DEF QueueType

LEMMA OneArmed ==
  ASSUME ArmedType, scenario' = scenario, NEW p \in Procs, NEW s \in Seq(ContextsOf(p)),
         armed' = [armed EXCEPT ![p] = s]
  PROVE  ArmedType'
BY SameScenario DEF ArmedType

LEMMA OnePend ==
  ASSUME PendType, scenario' = scenario, NEW c \in Contexts, NEW s \in Seq(Awaited),
         pend' = [pend EXCEPT ![c] = s]
  PROVE  PendType'
BY SameScenario DEF PendType, Awaited

LEMMA OneIpc ==
  ASSUME IpcType, scenario' = scenario, answered \subseteq answered', NEW p \in Procs,
         NEW s \in Seq(IpcTaskOf(p)'), ipc' = [ipc EXCEPT ![p] = s]
  PROVE  IpcType'
<1>1. DOMAIN ipc' = Procs' /\ Procs' = Procs
  BY SameScenario DEF IpcType
<1>2. ASSUME NEW q \in Procs PROVE ipc'[q] \in Seq(IpcTaskOf(q)')
  <2>1. CASE q = p
    BY <2>1 DEF IpcType
  <2>2. CASE q # p
    <3>1. ipc'[q] \in Seq(IpcTaskOf(q))
      BY <2>2 DEF IpcType
    <3> QED BY <3>1, MoreAnswers, SeqMonotonic
  <2> QED BY <2>1, <2>2
<1> QED BY <1>1, <1>2 DEF IpcType

LEMMA OneReplies ==
  ASSUME RepliesType, scenario' = scenario, answered' = answered, NEW p \in Procs,
         NEW s \in Seq(ReplyTo(p)), replies' = [replies EXCEPT ![p] = s]
  PROVE  RepliesType'
<1>1. \A q : ReplyTo(q)' = ReplyTo(q)
  BY SameScenario DEF ReplyTo, MessageFrom
<1> QED BY <1>1, SameScenario DEF RepliesType

LEMMA OneWire ==
  ASSUME WireType, scenario' = scenario, answered' = answered, NEW c \in Contexts,
         NEW s \in Seq(MessageFrom(c)), wire' = [wire EXCEPT ![c] = s]
  PROVE  WireType'
<1>1. \A d : MessageFrom(d)' = MessageFrom(d)
  BY SameScenario DEF MessageFrom
<1> QED BY <1>1, SameScenario DEF WireType

\* What does not change keeps its type.
LEMMA TypesStay ==
  ASSUME Types, scenario' = scenario, answered \subseteq answered'
  PROVE  /\ (UNCHANGED stack) => StackType'
         /\ (UNCHANGED tasks) => TasksType'
         /\ (UNCHANGED queue) => QueueType'
         /\ (UNCHANGED armed) => ArmedType'
         /\ (UNCHANGED <<taskPending, event, shut>>) => FlagsType'
         /\ (UNCHANGED doneWatch) => WatchType'
         /\ (UNCHANGED pend) => PendType'
         /\ (UNCHANGED replies) => RepliesType'
         /\ (UNCHANGED ipc) => IpcType'
         /\ (UNCHANGED signalling) => SignalType'
         /\ (UNCHANGED timers) => TimersType'
         /\ (UNCHANGED wire) => WireType'
         /\ (UNCHANGED conn) => ConnType'
         /\ (UNCHANGED sent) => SentType'
<1>1. (UNCHANGED stack) => StackType'
  BY SameScenario DEF Types, StackType
<1>2. (UNCHANGED tasks) => TasksType'
  BY SameScenario DEF Types, TasksType
<1>3. (UNCHANGED queue) => QueueType'
  BY SameScenario DEF Types, QueueType
<1>4. (UNCHANGED armed) => ArmedType'
  BY SameScenario DEF Types, ArmedType
<1>5. (UNCHANGED <<taskPending, event, shut>>) => FlagsType'
  BY SameScenario DEF Types, FlagsType
<1>6. (UNCHANGED doneWatch) => WatchType'
  BY SameScenario DEF Types, WatchType, None
<1>7. (UNCHANGED pend) => PendType'
  BY SameScenario DEF Types, PendType, Awaited
<1>8. ASSUME UNCHANGED replies PROVE RepliesType'
  <2>1. DOMAIN replies = Procs /\ \A x \in Procs : replies[x] \in Seq(ReplyTo(x)')
    BY MoreAnswers, SeqMonotonic DEF Types, RepliesType
  <2> QED BY <2>1, <1>8, SameScenario DEF RepliesType
<1>9. ASSUME UNCHANGED ipc PROVE IpcType'
  <2>1. DOMAIN ipc = Procs /\ \A x \in Procs : ipc[x] \in Seq(IpcTaskOf(x)')
    BY MoreAnswers, SeqMonotonic DEF Types, IpcType
  <2> QED BY <2>1, <1>9, SameScenario DEF IpcType
<1>10. (UNCHANGED signalling) => SignalType'
  BY SameScenario DEF Types, SignalType, None
<1>11. (UNCHANGED timers) => TimersType'
  BY SameScenario DEF Types, TimersType
<1>12. ASSUME UNCHANGED wire PROVE WireType'
  <2>1. DOMAIN wire = Contexts /\ \A x \in Contexts : wire[x] \in Seq(MessageFrom(x)')
    BY MoreAnswers, SeqMonotonic DEF Types, WireType
  <2> QED BY <2>1, <1>12, SameScenario DEF WireType
<1>13. (UNCHANGED conn) => ConnType'
  BY SameScenario DEF Types, ConnType
<1>14. (UNCHANGED sent) => SentType'
  BY SameScenario DEF Types, SentType
<1> QED BY <1>1, <1>2, <1>3, <1>4, <1>5, <1>6, <1>7, <1>8, <1>9, <1>10, <1>11, <1>12, <1>13, <1>14

\* What SignalDone does to the sends that await an answer.
Signalled(c, ns, ok) ==
  /\ DOMAIN pend' = DOMAIN pend
  /\ \A d \in Contexts :
       /\ Len(pend'[d]) = Len(pend[d])
       /\ \A i \in 1..Len(pend[d]) :
            /\ pend'[d][i].n = pend[d][i].n
            /\ pend'[d][i].done <=> pend[d][i].done \/ (d = c /\ pend[d][i].n \in ns)
            /\ pend'[d][i].result <=> pend[d][i].result \/ (d = c /\ pend[d][i].n \in ns /\ ok)

LEMMA SignalDoneSignals ==
  ASSUME PendType, scenario' = scenario, NEW c \in Contexts, NEW ns, NEW ok \in BOOLEAN, NEW ts,
         SignalDone(c, ns, ok, ts)
  PROVE  PendType' /\ Signalled(c, ns, ok)
<1> DEFINE new(x) == [x EXCEPT !.done = TRUE, !.result = @ \/ ok]
<1>1. pend[c] \in Seq(Awaited) /\ DOMAIN pend[c] = 1..Len(pend[c]) /\ Len(pend[c]) \in Nat
  BY DEF PendType
<1>2. \A i \in 1..Len(pend[c]) : pend[c][i] \in Awaited
  BY <1>1
<1>3. ASSUME NEW x \in Awaited
      PROVE  new(x) \in Awaited /\ new(x).n = x.n /\ new(x).done /\ (new(x).result <=> x.result \/ ok)
  <2>1. PICK b \in BOOLEAN : b = (x.result \/ ok)
    BY DEF Awaited
  <2>2. PICK y : y = [x EXCEPT !.done = TRUE, !.result = b]
    OBVIOUS
  <2>3. y \in Awaited /\ y.n = x.n /\ y.done /\ y.result = b
    BY <2>2 DEF Awaited
  <2>4. new(x) = y
    BY ONLY <2>1, <2>2, Zenon
  <2> HIDE DEF new
  <2> QED BY <2>1, <2>3, <2>4
<1> DEFINE s == [i \in 1..Len(pend[c]) |-> IF pend[c][i].n \in ns THEN new(pend[c][i]) ELSE pend[c][i]]
<1>4. pend' = [pend EXCEPT ![c] = s]
  <2>1. pend' = [pend EXCEPT ![c] = [i \in DOMAIN pend[c] |->
                    IF pend[c][i].n \in ns
                      THEN [pend[c][i] EXCEPT !.done = TRUE, !.result = @ \/ ok] ELSE pend[c][i]]]
    BY DEF SignalDone
  <2>2. s = [i \in DOMAIN pend[c] |->
                    IF pend[c][i].n \in ns
                      THEN [pend[c][i] EXCEPT !.done = TRUE, !.result = @ \/ ok] ELSE pend[c][i]]
    BY <1>1
  <2> QED BY <2>1, <2>2
<1> HIDE DEF new
<1>5. /\ s \in Seq(Awaited) /\ Len(s) = Len(pend[c])
      /\ \A i \in 1..Len(pend[c]) : s[i] = IF pend[c][i].n \in ns THEN new(pend[c][i]) ELSE pend[c][i]
  <2>1. \A i \in 1..Len(pend[c]) : (IF pend[c][i].n \in ns THEN new(pend[c][i]) ELSE pend[c][i]) \in Awaited
    BY <1>2, <1>3
  <2> QED BY <2>1, <1>1
<1> HIDE DEF s
<1>6. PendType'
  BY <1>4, <1>5, OnePend
<1>7. DOMAIN pend' = DOMAIN pend /\ DOMAIN pend = Contexts
  BY <1>4 DEF PendType
<1>8. pend'[c] = s /\ \A d \in Contexts : d # c => pend'[d] = pend[d]
  BY <1>4, <1>7
<1>9. ASSUME NEW i \in 1..Len(pend[c])
      PROVE  /\ s[i].n = pend[c][i].n
             /\ s[i].done <=> pend[c][i].done \/ pend[c][i].n \in ns
             /\ s[i].result <=> pend[c][i].result \/ (pend[c][i].n \in ns /\ ok)
  <2>1. CASE pend[c][i].n \in ns
    <3>1. s[i] = new(pend[c][i]) /\ pend[c][i] \in Awaited
      BY <2>1, <1>2, <1>5
    <3>2. s[i].n = pend[c][i].n /\ s[i].done /\ (s[i].result <=> pend[c][i].result \/ ok)
      <4>1. PICK x \in Awaited : x = pend[c][i]
        BY <3>1
      <4>2. s[i] = new(x)
        BY ONLY <3>1, <4>1
      <4>3. new(x).n = x.n /\ new(x).done /\ (new(x).result <=> x.result \/ ok)
        BY <1>3
      <4> QED BY ONLY <4>1, <4>2, <4>3
    <3> QED BY <2>1, <3>2
  <2>2. CASE pend[c][i].n \notin ns
    BY <2>2, <1>5
  <2> QED BY <2>1, <2>2
<1>10. ASSUME NEW d \in Contexts
       PROVE  /\ Len(pend'[d]) = Len(pend[d])
              /\ \A i \in 1..Len(pend[d]) :
                   /\ pend'[d][i].n = pend[d][i].n
                   /\ pend'[d][i].done <=> pend[d][i].done \/ (d = c /\ pend[d][i].n \in ns)
                   /\ pend'[d][i].result <=> pend[d][i].result \/ (d = c /\ pend[d][i].n \in ns /\ ok)
  BY <1>5, <1>8, <1>9
<1> QED BY <1>6, <1>7, <1>10 DEF Signalled

\* A watcher whose callback is posted.
LEMMA SignalDoneWatches ==
  ASSUME TasksType, WatchType, scenario \in Scenarios, scenario' = scenario,
         NEW c \in Contexts, NEW ns, NEW ok, NEW ts \in Seq(TaskOf(c[1])),
         SignalDone(c, ns, ok, ts)
  PROVE  TasksType' /\ WatchType'
<1> DEFINE p == c[1]
           w == doneWatch[p]
           fires == w.on /\ w.ctx = c /\ ~w.posted /\ w.n \in ns /\ Undone(c, w.n)
<1>1. p \in Procs /\ c \in ContextsOf(p)
  BY Pairs
<1>2. w \in {None} \cup [on : {TRUE}, ctx : ContextsOf(p), n : Nat \ {0}, posted : BOOLEAN]
  BY <1>1 DEF WatchType
<1>3. /\ doneWatch' = IF fires THEN [doneWatch EXCEPT ![p].posted = TRUE] ELSE doneWatch
      /\ tasks' = [tasks EXCEPT ![p] =
                     IF fires THEN Append(ts, [k |-> "done", ctx |-> c, n |-> w.n]) ELSE ts]
  BY DEF SignalDone
<1>4. CASE fires
  <2>1. w \in [on : {TRUE}, ctx : ContextsOf(p), n : Nat \ {0}, posted : BOOLEAN]
    <3>1. w # None
      BY <1>4 DEF None
    <3> QED BY <1>2, <3>1
  <2>2. doneWatch' = [doneWatch EXCEPT ![p].posted = TRUE]
    BY <1>3, <1>4
  <2>3. WatchType'
    BY <2>1, <2>2, <1>1, SameScenario DEF WatchType, None
  <2>4. [k |-> "done", ctx |-> c, n |-> w.n] \in TaskOf(p)
    BY <2>1, <1>1 DEF TaskOf
  <2>5. PICK s : s = Append(ts, [k |-> "done", ctx |-> c, n |-> w.n])
    OBVIOUS
  <2>6. s \in Seq(TaskOf(p)) /\ tasks' = [tasks EXCEPT ![p] = s]
    BY <1>3, <1>4, <2>4, <2>5
  <2> QED BY <2>3, <2>6, <1>1, OneTasks
<1>5. CASE ~fires
  <2>1. doneWatch' = doneWatch /\ tasks' = [tasks EXCEPT ![p] = ts]
    BY <1>3, <1>5
  <2>2. WatchType'
    BY <2>1, SameScenario DEF WatchType, None
  <2> QED BY <2>1, <2>2, <1>1, OneTasks
<1> QED BY <1>4, <1>5

LEMMA StartWatchingDoneWatches ==
  ASSUME TasksType, WatchType, scenario' = scenario,
         NEW p \in Procs, NEW c \in ContextsOf(p), NEW n \in Nat \ {0}, NEW ts \in Seq(TaskOf(p)),
         StartWatchingDone(p, c, n, ts)
  PROVE  TasksType' /\ WatchType'
<1> DEFINE set == ~Undone(c, n)
<1>1. PICK w : w = [on |-> TRUE, ctx |-> c, n |-> n, posted |-> set]
  OBVIOUS
<1>2. doneWatch' = [doneWatch EXCEPT ![p] = w]
  BY <1>1 DEF StartWatchingDone
<1>3. w \in [on : {TRUE}, ctx : ContextsOf(p), n : Nat \ {0}, posted : BOOLEAN]
  BY <1>1
<1>4. WatchType'
  BY <1>2, <1>3, SameScenario DEF WatchType, None
<1>5. PICK s : s = IF set THEN Append(ts, [k |-> "done", ctx |-> c, n |-> n]) ELSE ts
  OBVIOUS
<1>6. tasks' = [tasks EXCEPT ![p] = s]
  BY <1>5 DEF StartWatchingDone
<1>7. [k |-> "done", ctx |-> c, n |-> n] \in TaskOf(p)
  BY DEF TaskOf
<1>8. s \in Seq(TaskOf(p))
  BY <1>5, <1>7
<1> QED BY <1>4, <1>6, <1>8, OneTasks

LEMMA StackGrows ==
  ASSUME StackType, scenario' = scenario, NEW p \in Procs, NEW f \in FrameOf(p), Calls(p, f)
  PROVE  StackType'
<1>1. PICK s : s = Append(stack[p], f)
  OBVIOUS
<1>2. s \in Seq(FrameOf(p))
  BY <1>1 DEF StackType
<1>3. stack' = [stack EXCEPT ![p] = s]
  BY <1>1 DEF Calls
<1> QED BY <1>2, <1>3, OneStack

LEMMA StackShrinks ==
  ASSUME StackType, scenario' = scenario, NEW p \in Procs, stack[p] # <<>>, stack' = [stack EXCEPT ![p] = Front(@)]
  PROVE  StackType'
<1>1. PICK s : s = Front(stack[p])
  OBVIOUS
<1>2. s \in Seq(FrameOf(p))
  BY <1>1, FrontAndLast DEF StackType
<1>3. stack' = [stack EXCEPT ![p] = s]
  BY <1>1
<1> QED BY <1>2, <1>3, OneStack

LEMMA StackTurns ==
  ASSUME StackType, scenario' = scenario, NEW p \in Procs, stack[p] # <<>>, NEW f \in FrameOf(p), Replaces(p, f)
  PROVE  StackType'
<1>1. PICK t : t = Front(stack[p])
  OBVIOUS
<1>2. t \in Seq(FrameOf(p))
  BY <1>1, FrontAndLast DEF StackType
<1>3. PICK s : s = Append(t, f)
  OBVIOUS
<1>4. s \in Seq(FrameOf(p))
  BY <1>2, <1>3
<1>5. stack' = [stack EXCEPT ![p] = s]
  BY <1>1, <1>3 DEF Replaces
<1> QED BY <1>4, <1>5, OneStack

LEMMA TasksShrink ==
  ASSUME TasksType, scenario' = scenario, NEW p \in Procs, tasks[p] # <<>>, tasks' = [tasks EXCEPT ![p] = Tail(@)]
  PROVE  TasksType' /\ Head(tasks[p]) \in TaskOf(p)
<1>1. PICK s : s = Tail(tasks[p])
  OBVIOUS
<1>2. s \in Seq(TaskOf(p)) /\ Head(tasks[p]) \in TaskOf(p)
  BY <1>1 DEF TasksType
<1>3. tasks' = [tasks EXCEPT ![p] = s]
  BY <1>1
<1> QED BY <1>2, <1>3, OneTasks

LEMMA IpcGrows ==
  ASSUME IpcType, scenario' = scenario, answered \subseteq answered', NEW p \in Procs, NEW t \in IpcTaskOf(p)', IpcPosts(p, t)
  PROVE  IpcType'
<1>1. PICK s : s = Append(ipc[p], t)
  OBVIOUS
<1>2. ipc[p] \in Seq(IpcTaskOf(p)')
  BY MoreAnswers, SeqMonotonic DEF IpcType
<1>3. s \in Seq(IpcTaskOf(p)')
  BY <1>1, <1>2
<1>4. ipc' = [ipc EXCEPT ![p] = s]
  BY <1>1 DEF IpcPosts
<1> QED BY <1>3, <1>4, OneIpc

LEMMA IpcShrinks ==
  ASSUME IpcType, scenario' = scenario, answered' = answered, NEW p \in Procs, ipc[p] # <<>>, IpcTakes(p)
  PROVE  IpcType' /\ Head(ipc[p]) \in IpcTaskOf(p)
<1>1. PICK s : s = Tail(ipc[p])
  OBVIOUS
<1>2. s \in Seq(IpcTaskOf(p)) /\ Head(ipc[p]) \in IpcTaskOf(p)
  BY <1>1 DEF IpcType
<1>3. s \in Seq(IpcTaskOf(p)')
  BY <1>2, MoreAnswers, SeqMonotonic
<1>4. ipc' = [ipc EXCEPT ![p] = s]
  BY <1>1 DEF IpcTakes
<1> QED BY <1>2, <1>3, <1>4, OneIpc

\* The kinds of the tasks and of the frames.
LEMMA Kinds ==
  ASSUME NEW p
  PROVE  /\ \A t \in IpcTaskOf(p) : t.k = "send" => t.ctx \in ContextsOf(p) /\ t.m \in MessageFrom(t.ctx)
         /\ \A t \in IpcTaskOf(p) : t.k \in {"closed", "shutdown"} => t.ctx \in ContextsOf(p)
         /\ \A t \in IpcTaskOf(p) : t.k \in {"send", "replies", "closed", "shutdown"}
         /\ \A t \in TaskOf(p) : t.k \in {"task", "watch", "done"} /\ t.ctx \in ContextsOf(p)
         /\ \A t \in TaskOf(p) : t.k = "done" => t.n \in Nat \ {0}
         /\ \A f \in FrameOf(p) : f.k \in {"send", "dispatch", "handler", "loop"}
         /\ \A f \in FrameOf(p) : f.k # "handler" => f.ctx \in ContextsOf(p)
         /\ \A f \in FrameOf(p) : f.k = "handler" => f.req \in RequestTo(p)
         /\ \A f \in FrameOf(p) : f.k \in {"send", "loop"} => f.n \in Nat \ {0}
         /\ \A f \in FrameOf(p) : f.k = "dispatch" => f.delayed \in Seq(RequestTo(p))
BY DEF IpcTaskOf, TaskOf, FrameOf

LEMMA TopFrame ==
  ASSUME StackType, NEW p \in Procs, stack[p] # <<>>
  PROVE  Top(p) \in FrameOf(p)
BY FrontAndLast DEF StackType, Top

LEMMA DispatchFrame ==
  ASSUME NEW p, NEW c \in ContextsOf(p)
  PROVE  [k |-> "dispatch", ctx |-> c, delayed |-> <<>>] \in FrameOf(p)
<1>1. <<>> \in Seq(RequestTo(p))
  OBVIOUS
<1> QED BY <1>1 DEF FrameOf

(***************************************************************************)
(* The types, action by action: the listener thread.                       *)
(***************************************************************************)
LEMMA SendTypes ==
  ASSUME Types, scenario' = scenario, NEW c \in Contexts, NEW pump \in BOOLEAN, NEW timed \in BOOLEAN,
         Send(c, pump, timed)
  PROVE  Types'
<1> DEFINE p == c[1]
<1>1. p \in Procs /\ c \in ContextsOf(p)
  BY Pairs DEF Types, SetsType
<1>2. PICK n : n = sent[p] + 1
  OBVIOUS
<1>3. n \in Nat \ {0} /\ n <= MaxSends[p] /\ sent' = [sent EXCEPT ![p] = n] /\ SentType
  BY <1>1, <1>2 DEF Send, Types, SentType
<1>4. answered' = answered /\ owed' = owed /\ cleared' = cleared /\ dead' = dead
  BY DEF Send, faultVars
<1>5. SentType'
  BY <1>1, <1>3, SameScenario DEF SentType
<1>6. StackType'
  <2>1. PICK f \in FrameOf(p) : f = [k |-> "send", ctx |-> c, n |-> n, pump |-> pump]
    BY <1>1, <1>3 DEF FrameOf
  <2>2. PICK g \in FrameOf(p) : g = [k |-> "dispatch", ctx |-> c, delayed |-> <<>>]
    BY <1>1, DispatchFrame
  <2>3. PICK t : t = <<f, g>>
    OBVIOUS
  <2>4. PICK s : s = stack[p] \o t
    OBVIOUS
  <2>5. t \in Seq(FrameOf(p)) /\ stack[p] \in Seq(FrameOf(p))
    BY <1>1, <2>3 DEF Types, StackType
  <2>6. s \in Seq(FrameOf(p))
    BY <2>4, <2>5
  <2>7. stack' = [stack EXCEPT ![p] = stack[p] \o <<[k |-> "send", ctx |-> c, n |-> sent[p] + 1, pump |-> pump],
                                                   [k |-> "dispatch", ctx |-> c, delayed |-> <<>>]>>]
    BY DEF Send
  <2>8. stack' = [stack EXCEPT ![p] = s]
    BY ONLY <1>2, <2>1, <2>2, <2>3, <2>4, <2>7
  <2> QED BY <1>1, <2>6, <2>8, OneStack DEF Types
<1>7. PendType'
  <2>1. PICK x \in Awaited : x = [n |-> n, done |-> FALSE, result |-> FALSE]
    BY <1>3 DEF Awaited
  <2>2. PICK s : s = Append(pend[c], x)
    OBVIOUS
  <2>3. s \in Seq(Awaited)
    BY <2>2 DEF Types, PendType
  <2>4. pend' = [pend EXCEPT ![c] = s]
    BY <1>2, <2>1, <2>2 DEF Send
  <2> QED BY <2>3, <2>4, OnePend DEF Types
<1>8. IpcType'
  <2>1. PICK m \in Message : m = [reply |-> FALSE, req |-> [ctx |-> c, n |-> n], ok |-> TRUE]
    BY <1>3 DEF Message, Request
  <2>2. m \in MessageFrom(c)
    BY <2>1 DEF MessageFrom
  <2>3. PICK t : t = [k |-> "send", ctx |-> c, m |-> m]
    OBVIOUS
  <2>4. t \in IpcTaskOf(p)
    BY <1>1, <2>2, <2>3 DEF IpcTaskOf
  <2>5. t \in IpcTaskOf(p)'
    BY <2>4, <1>4, MoreAnswers
  <2>6. IpcPosts(p, t)
    BY <1>2, <2>1, <2>3 DEF Send
  <2> QED BY <1>1, <1>4, <2>5, <2>6, IpcGrows DEF Types
<1>9. TimersType'
  <2>1. TimersType /\ [ctx |-> c, n |-> n] \in [ctx : Contexts, n : Nat]
    BY <1>3 DEF Types
  <2>2. timers' \subseteq timers \cup {[ctx |-> c, n |-> n]}
    BY <1>2 DEF Send
  <2> QED BY <2>1, <2>2, SameScenario DEF TimersType
<1>10. SetsType'
  BY <1>4, SameScenario DEF Types, SetsType
<1>11. /\ UNCHANGED <<tasks, queue, armed, doneWatch, replies, signalling, wire, conn>>
       /\ UNCHANGED <<taskPending, event, shut>>
  BY DEF Send, queueVars, faultVars
<1> QED BY <1>4, <1>5, <1>6, <1>7, <1>8, <1>9, <1>10, <1>11, TypesStay DEF Types

LEMMA DispatchMessagesTypes ==
  ASSUME Types, scenario' = scenario, NEW p \in Procs, DispatchMessages(p)
  PROVE  Types'
<1>1. PICK f \in FrameOf(p) : f = Top(p) /\ f.k = "dispatch" /\ stack[p] # <<>>
  BY TopFrame DEF DispatchMessages, TopIs, Types
<1>2. f.ctx \in ContextsOf(p) /\ f.delayed \in Seq(RequestTo(p)) /\ queue[p] \in Seq(RequestTo(p))
  BY <1>1, Kinds DEF Types, QueueType
<1>3. StackType' /\ QueueType'
  <2>1. CASE queue[p] = <<>>
    <3>1. queue' = [queue EXCEPT ![p] = f.delayed] /\ stack' = [stack EXCEPT ![p] = Front(@)]
      BY <2>1, <1>1 DEF DispatchMessages
    <3> QED BY <3>1, <1>1, <1>2, StackShrinks, OneQueue DEF Types
  <2>2. CASE queue[p] # <<>>
    <3>1. PICK r \in RequestTo(p) : r = Head(queue[p])
      BY <1>2, <2>2
    <3>2. PICK s : s = Tail(queue[p])
      OBVIOUS
    <3>21. s \in Seq(RequestTo(p))
      BY <1>2, <2>2, <3>2
    <3>3. queue' = [queue EXCEPT ![p] = s]
      BY <2>2, <3>2 DEF DispatchMessages
    <3>4. \/ Replaces(p, [f EXCEPT !.delayed = Append(@, r)])
          \/ stack' = stack
          \/ Calls(p, [k |-> "handler", req |-> r])
      BY <2>2, <1>1, <3>1 DEF DispatchMessages
    <3>5. [f EXCEPT !.delayed = Append(@, r)] \in FrameOf(p)
      <4>1. PICK d : d = Append(f.delayed, r)
        OBVIOUS
      <4>11. d \in Seq(RequestTo(p))
        BY <1>2, <4>1
      <4>2. f \in [k : {"dispatch"}, ctx : ContextsOf(p), delayed : Seq(RequestTo(p))]
        BY <1>1 DEF FrameOf
      <4>3. [f EXCEPT !.delayed = d] \in [k : {"dispatch"}, ctx : ContextsOf(p), delayed : Seq(RequestTo(p))]
        BY <4>11, <4>2
      <4> QED BY <4>1, <4>3 DEF FrameOf
    <3>6. [k |-> "handler", req |-> r] \in FrameOf(p)
      BY DEF FrameOf
    <3>7. StackType'
      <4>1. Replaces(p, [f EXCEPT !.delayed = Append(@, r)]) => StackType'
        <5>1. PICK g \in FrameOf(p) : g = [f EXCEPT !.delayed = Append(@, r)]
          BY <3>5
        <5> QED BY <5>1, <1>1, StackTurns DEF Types
      <4>2. stack' = stack => StackType'
        BY SameScenario DEF Types, StackType
      <4>3. Calls(p, [k |-> "handler", req |-> r]) => StackType'
        BY <3>6, StackGrows DEF Types
      <4> QED BY <3>4, <4>1, <4>2, <4>3
    <3> QED BY <3>21, <3>3, <3>7, OneQueue DEF Types
  <2> QED BY <2>1, <2>2
<1>4. /\ UNCHANGED <<tasks, taskPending, event, armed, doneWatch, pend, replies, ipc, signalling, timers, wire, conn>>
      /\ UNCHANGED <<cleared, owed, sent, answered>> /\ UNCHANGED <<shut, dead>>
  BY DEF DispatchMessages, ipcVars, faultVars
<1>5. SetsType'
  BY <1>4, SameScenario DEF Types, SetsType
<1> QED BY <1>3, <1>4, <1>5, TypesStay DEF Types

LEMMA ReplyTypes ==
  ASSUME Types, scenario' = scenario, NEW r \in Request, NEW ok \in BOOLEAN, Reply(r, ok)
  PROVE  IpcType' /\ answered \subseteq answered' /\ answered' \subseteq Request
<1>1. At(r) \in Contexts /\ At(r)[1] \in Procs /\ At(r) \in ContextsOf(At(r)[1])
  <2>1. r.ctx \in Contexts /\ scenario \in Scenarios
    BY DEF Request, Types, SetsType
  <2>2. At(r) \in Contexts
    BY <2>1, Pairs DEF At
  <2> QED BY <2>1, <2>2, Pairs
<1>2. CASE At(r) \in cleared
  <2>1. UNCHANGED ipc /\ answered' = answered
    BY <1>2 DEF Reply
  <2> QED BY <2>1, TypesStay DEF Types, SetsType
<1>3. CASE At(r) \notin cleared
  <2>1. PICK m \in Message : m = [reply |-> TRUE, req |-> r, ok |-> ok]
    BY DEF Message
  <2>2. PICK t : t = [k |-> "send", ctx |-> At(r), m |-> m]
    OBVIOUS
  <2>3. IpcPosts(At(r)[1], t) /\ answered' = IF ok THEN answered \cup {r} ELSE answered
    BY <1>3, <2>1, <2>2 DEF Reply
  <2>4. answered \subseteq answered' /\ answered' \subseteq Request /\ (ok => r \in answered')
    BY <2>3 DEF Types, SetsType
  <2>5. m \in MessageFrom(At(r))'
    BY <2>1, <2>4, SameScenario DEF MessageFrom
  <2>6. t \in IpcTaskOf(At(r)[1])'
    BY <1>1, <2>2, <2>5, SameScenario DEF IpcTaskOf
  <2> QED BY <1>1, <2>3, <2>4, <2>6, IpcGrows DEF Types
<1> QED BY <1>2, <1>3

LEMMA HandlerReturnsTypes ==
  ASSUME Types, scenario' = scenario, NEW p \in Procs, NEW defer \in BOOLEAN, NEW error \in BOOLEAN,
         HandlerReturns(p, defer, error)
  PROVE  Types' /\ answered \subseteq answered'
<1>1. stack[p] # <<>> /\ Top(p).k = "handler" /\ stack' = [stack EXCEPT ![p] = Front(@)]
  BY DEF HandlerReturns, TopIs
<1>2. PICK r \in Request : r = Top(p).req
  BY <1>1, TopFrame, Kinds DEF Types, RequestTo
<1>3. StackType'
  BY <1>1, StackShrinks DEF Types
<1>4. \/ owed' = owed \cup {r} /\ UNCHANGED <<ipc, answered>>
      \/ Reply(r, ~error) /\ UNCHANGED owed
  BY <1>2 DEF HandlerReturns
<1>5. IpcType' /\ answered \subseteq answered' /\ answered' \subseteq Request /\ owed' \subseteq Request
  <2>1. CASE owed' = owed \cup {r} /\ UNCHANGED <<ipc, answered>>
    BY <2>1, TypesStay DEF Types, SetsType
  <2>2. CASE Reply(r, ~error) /\ UNCHANGED owed
    <3>1. PICK ok \in BOOLEAN : ok = ~error
      OBVIOUS
    <3>2. Reply(r, ok)
      BY <3>1, <2>2
    <3> QED BY <2>2, <3>2, ReplyTypes DEF Types, SetsType
  <2> QED BY <1>4, <2>1, <2>2
<1>6. /\ UNCHANGED <<tasks, queue, taskPending, event, armed, doneWatch, pend, replies, signalling, timers, wire, conn>>
      /\ UNCHANGED <<cleared, sent, shut, dead>>
  BY DEF HandlerReturns, queueVars, faultVars
<1>7. SetsType'
  BY <1>5, <1>6, SameScenario DEF Types, SetsType
<1> QED BY <1>3, <1>5, <1>6, <1>7, TypesStay DEF Types

LEMMA ReplyLaterTypes ==
  ASSUME Types, scenario' = scenario, NEW r \in owed, ReplyLater(r)
  PROVE  Types' /\ answered \subseteq answered'
<1>1. r \in Request /\ Reply(r, TRUE) /\ owed' = owed \ {r}
  BY DEF Types, SetsType, ReplyLater
<1>2. IpcType' /\ answered \subseteq answered' /\ answered' \subseteq Request
  BY <1>1, ReplyTypes
<1>3. /\ UNCHANGED <<stack, tasks, queue, taskPending, event, armed, doneWatch, pend, replies, signalling, timers, wire, conn>>
      /\ UNCHANGED <<cleared, sent, shut, dead>>
  BY DEF ReplyLater, queueVars, faultVars
<1>4. SetsType'
  BY <1>1, <1>2, <1>3, SameScenario DEF Types, SetsType
<1> QED BY <1>2, <1>3, <1>4, TypesStay DEF Types

LEMMA WaitDispatchEventTypes ==
  ASSUME Types, scenario' = scenario, NEW p \in Procs, WaitDispatchEvent(p)
  PROVE  Types'
<1>1. PICK f \in FrameOf(p) : f = Top(p) /\ f.k = "send"
  BY TopFrame DEF WaitDispatchEvent, TopIs, Types
<1>2. PICK g : g = [k |-> "dispatch", ctx |-> f.ctx, delayed |-> <<>>]
  OBVIOUS
<1>3. g \in FrameOf(p) /\ Calls(p, g)
  BY <1>1, <1>2, Kinds, DispatchFrame DEF WaitDispatchEvent
<1>4. StackType'
  BY <1>3, StackGrows DEF Types
<1>5. FlagsType'
  BY SameScenario DEF WaitDispatchEvent, faultVars, Types, FlagsType
<1>6. /\ UNCHANGED <<tasks, queue, armed, doneWatch, pend, replies, ipc, signalling, timers, wire, conn>>
      /\ UNCHANGED <<cleared, owed, sent, answered>> /\ UNCHANGED <<shut, dead>>
  BY DEF WaitDispatchEvent, ipcVars, faultVars
<1>7. SetsType'
  BY <1>6, SameScenario DEF Types, SetsType
<1> QED BY <1>4, <1>5, <1>6, <1>7, TypesStay DEF Types

LEMMA PopTypes ==
  ASSUME Types, scenario' = scenario, answered' = answered, NEW c \in Contexts, Pop(c)
  PROVE  PendType' /\ IpcType'
<1>1. PICK s : s = Front(pend[c])
  OBVIOUS
<1>2. s \in Seq(Awaited)
  BY <1>1, FrontType DEF Types, PendType
<1>3. pend' = [pend EXCEPT ![c] = s]
  BY <1>1 DEF Pop
<1>4. PendType'
  BY <1>2, <1>3, OnePend DEF Types
<1>5. c[1] \in Procs
  BY Pairs DEF Types, SetsType
<1>6. PICK t : t = [k |-> "replies"]
  OBVIOUS
<1>7. t \in IpcTaskOf(c[1])' /\ IpcPosts(c[1], t)
  BY <1>6 DEF IpcTaskOf, Pop
<1> QED BY <1>4, <1>5, <1>7, IpcGrows DEF Types

LEMMA WaitDoneEventTypes ==
  ASSUME Types, scenario' = scenario, NEW p \in Procs, WaitDoneEvent(p)
  PROVE  Types'
<1>1. PICK f \in FrameOf(p) : f = Top(p) /\ f.k = "send" /\ stack[p] # <<>>
  BY TopFrame DEF WaitDoneEvent, TopIs, Types
<1>2. f.ctx \in Contexts /\ Pop(f.ctx) /\ stack' = [stack EXCEPT ![p] = Front(@)]
  BY <1>1, Kinds DEF WaitDoneEvent, ContextsOf
<1>3. StackType'
  BY <1>1, <1>2, StackShrinks DEF Types
<1>4. /\ UNCHANGED <<tasks, queue, taskPending, event, armed, doneWatch, replies, signalling, timers, wire, conn>>
      /\ UNCHANGED <<cleared, owed, sent, answered>> /\ UNCHANGED <<shut, dead>>
  BY DEF WaitDoneEvent, queueVars, faultVars
<1>5. PendType' /\ IpcType'
  BY <1>1, <1>2, <1>4, PopTypes
<1>6. SetsType'
  BY <1>4, SameScenario DEF Types, SetsType
<1> QED BY <1>3, <1>4, <1>5, <1>6, TypesStay DEF Types

LEMMA NestedMessageLoopTypes ==
  ASSUME Types, scenario' = scenario, NEW p \in Procs, NestedMessageLoop(p)
  PROVE  Types'
<1>1. PICK f \in FrameOf(p) : f = Top(p) /\ f.k = "send"
  BY TopFrame DEF NestedMessageLoop, TopIs, Types
<1>2. f.ctx \in ContextsOf(p) /\ f.n \in Nat \ {0}
  BY <1>1, Kinds
<1>3. PICK g : g = [k |-> "loop", ctx |-> f.ctx, n |-> f.n, quit |-> FALSE]
  OBVIOUS
<1>4. g \in FrameOf(p) /\ Calls(p, g)
  BY <1>1, <1>2, <1>3 DEF NestedMessageLoop, FrameOf
<1>5. PICK ts : ts = StopWatchingDone(p)
  OBVIOUS
<1>6. ts \in Seq(TaskOf(p))
  <2>1. tasks[p] \in Seq(TaskOf(p)) /\ DOMAIN tasks[p] = 1..Len(tasks[p])
    BY DEF Types, TasksType
  <2>2. {i \in DOMAIN tasks[p] : tasks[p][i].k # "done"} \in SUBSET (1..Len(tasks[p]))
    BY <2>1
  <2> QED BY <1>5, <2>1, <2>2, OnlyProperties DEF StopWatchingDone
<1>7. StartWatchingDone(p, f.ctx, f.n, ts)
  BY <1>1, <1>5 DEF NestedMessageLoop
<1>8. TasksType' /\ WatchType'
  BY <1>2, <1>6, <1>7, StartWatchingDoneWatches DEF Types
<1>9. StackType'
  BY <1>4, StackGrows DEF Types
<1>10. /\ UNCHANGED <<queue, taskPending, event, armed, pend, replies, ipc, signalling, timers, wire, conn>>
       /\ UNCHANGED <<cleared, owed, sent, answered>> /\ UNCHANGED <<shut, dead>>
  BY DEF NestedMessageLoop, queueVars, ipcVars, faultVars
<1>11. SetsType'
  BY <1>10, SameScenario DEF Types, SetsType
<1> QED BY <1>8, <1>9, <1>10, <1>11, TypesStay DEF Types

LEMMA LeaveNestedMessageLoopTypes ==
  ASSUME Types, scenario' = scenario, NEW p \in Procs, LeaveNestedMessageLoop(p)
  PROVE  Types'
<1>1. PICK f \in FrameOf(p) : f = Top(p) /\ f.k = "loop"
  BY TopFrame DEF LeaveNestedMessageLoop, TopIs, Types
<1>2. f.ctx \in Contexts /\ Pop(f.ctx)
  BY <1>1, Kinds DEF LeaveNestedMessageLoop, ContextsOf
<1>3. PICK below : below = Front(Front(stack[p]))
  OBVIOUS
<1>4. below \in Seq(FrameOf(p))
  <2>1. stack[p] \in Seq(FrameOf(p))
    BY DEF Types, StackType
  <2>2. PICK s : s = Front(stack[p])
    OBVIOUS
  <2>3. s \in Seq(FrameOf(p)) /\ below = Front(s)
    BY <1>3, <2>1, <2>2, FrontType
  <2> QED BY <2>3, FrontType
<1>5. stack' = [stack EXCEPT ![p] = below]
  BY <1>3 DEF LeaveNestedMessageLoop
<1>6. StackType'
  BY <1>4, <1>5, OneStack DEF Types
<1>7. /\ UNCHANGED <<queue, taskPending, event, armed, replies, signalling, timers, wire, conn>>
      /\ UNCHANGED <<cleared, owed, sent, answered>> /\ UNCHANGED <<shut, dead>>
  BY DEF LeaveNestedMessageLoop, queueVars, faultVars
<1>8. PendType' /\ IpcType'
  BY <1>2, <1>7, PopTypes
<1>9. TasksType' /\ WatchType'
  <2>1. CASE Loops(p, below) = {}
    <3>1. doneWatch' = [doneWatch EXCEPT ![p] = None] /\ tasks' = tasks
      BY <1>3, <2>1 DEF LeaveNestedMessageLoop
    <3>2. TasksType'
      BY <3>1, SameScenario DEF Types, TasksType
    <3> QED BY <3>1, <3>2, SameScenario DEF Types, WatchType, None
  <2>2. CASE Loops(p, below) # {}
    <3>1. PICK i : i = Max(Loops(p, below))
      OBVIOUS
    <3>2. i \in Loops(p, below)
      <4>1. Loops(p, below) \in SUBSET Nat /\ Loops(p, below) \in SUBSET (1..Len(below))
        BY <1>4 DEF Loops
      <4>2. IsFiniteSet(Loops(p, below))
        BY <4>1, <1>4, FS_Interval, FS_Subset
      <4>3. \E x \in Loops(p, below) : \A y \in Loops(p, below) : y <= x
        BY <2>2, <4>1, <4>2, GreatestNatural
      <4>4. \E x \in Loops(p, below) : \A y \in Loops(p, below) : x >= y
        BY <4>1, <4>3
      <4> QED BY <3>1, <4>4 DEF Max
    <3>3. PICK g \in FrameOf(p) : g = below[i] /\ g.k = "loop"
      BY <1>4, <3>2 DEF Loops
    <3>4. g.ctx \in ContextsOf(p) /\ g.n \in Nat \ {0}
      BY <3>3, Kinds
    <3>5. StartWatchingDone(p, g.ctx, g.n, tasks[p])
      BY <1>3, <2>2, <3>1, <3>3 DEF LeaveNestedMessageLoop
    <3> QED BY <3>4, <3>5, StartWatchingDoneWatches DEF Types, TasksType
  <2> QED BY <2>1, <2>2
<1>10. SetsType'
  BY <1>7, SameScenario DEF Types, SetsType
<1> QED BY <1>6, <1>7, <1>8, <1>9, <1>10, TypesStay DEF Types

LEMMA DispatchMessagesTaskTypes ==
  ASSUME Types, scenario' = scenario, NEW p \in Procs, DispatchMessagesTask(p)
  PROVE  Types'
<1>1. TasksType' /\ Head(tasks[p]) \in TaskOf(p)
  BY TasksShrink DEF DispatchMessagesTask, NextTask, Types
<1>2. PICK g : g = [k |-> "dispatch", ctx |-> Head(tasks[p]).ctx, delayed |-> <<>>]
  OBVIOUS
<1>3. g \in FrameOf(p) /\ Calls(p, g)
  BY <1>1, <1>2, Kinds, DispatchFrame DEF DispatchMessagesTask
<1>4. StackType'
  BY <1>3, StackGrows DEF Types
<1>5. FlagsType'
  BY SameScenario DEF DispatchMessagesTask, faultVars, Types, FlagsType
<1>6. /\ UNCHANGED <<queue, armed, doneWatch, pend, replies, ipc, signalling, timers, wire, conn>>
      /\ UNCHANGED <<cleared, owed, sent, answered>> /\ UNCHANGED <<shut, dead>>
  BY DEF DispatchMessagesTask, ipcVars, faultVars
<1>7. SetsType'
  BY <1>6, SameScenario DEF Types, SetsType
<1> QED BY <1>1, <1>4, <1>5, <1>6, <1>7, TypesStay DEF Types

LEMMA OnDispatchEventSignaledTypes ==
  ASSUME Types, scenario' = scenario, NEW p \in Procs, OnDispatchEventSignaled(p)
  PROVE  Types'
<1>1. TasksType' /\ Head(tasks[p]) \in TaskOf(p)
  BY TasksShrink DEF OnDispatchEventSignaled, NextTask, Types
<1>2. PICK c \in ContextsOf(p) : c = Head(tasks[p]).ctx
  BY <1>1, Kinds
<1>3. PICK g : g = [k |-> "dispatch", ctx |-> c, delayed |-> <<>>]
  OBVIOUS
<1>4. g \in FrameOf(p) /\ Calls(p, g)
  BY <1>2, <1>3, DispatchFrame DEF OnDispatchEventSignaled
<1>5. StackType'
  BY <1>4, StackGrows DEF Types
<1>6. FlagsType'
  BY SameScenario DEF OnDispatchEventSignaled, faultVars, Types, FlagsType
<1>7. ArmedType'
  <2>1. PICK s : s = Append(armed[p], c)
    OBVIOUS
  <2>2. s \in Seq(ContextsOf(p))
    BY <2>1 DEF Types, ArmedType
  <2>3. armed' = [armed EXCEPT ![p] = s]
    BY <1>2, <2>1 DEF OnDispatchEventSignaled
  <2> QED BY <2>2, <2>3, OneArmed DEF Types
<1>8. /\ UNCHANGED <<queue, doneWatch, pend, replies, ipc, signalling, timers, wire, conn>>
      /\ UNCHANGED <<cleared, owed, sent, answered>> /\ UNCHANGED <<shut, dead>>
  BY DEF OnDispatchEventSignaled, ipcVars, faultVars
<1>9. SetsType'
  BY <1>8, SameScenario DEF Types, SetsType
<1> QED BY <1>1, <1>5, <1>6, <1>7, <1>8, <1>9, TypesStay DEF Types

LEMMA OnSendDoneSignaledTypes ==
  ASSUME Types, scenario' = scenario, NEW p \in Procs, OnSendDoneSignaled(p)
  PROVE  Types'
<1>1. TasksType'
  BY TasksShrink DEF OnSendDoneSignaled, NextTask, Types
<1>2. WatchType'
  BY SameScenario DEF OnSendDoneSignaled, Types, WatchType, None
<1>3. StackType'
  <2>1. CASE stack[p] = <<>>
    BY <2>1, SameScenario DEF OnSendDoneSignaled, Types, StackType
  <2>2. CASE stack[p] # <<>>
    <3>1. PICK f \in FrameOf(p) : f = Top(p) /\ f.k = "loop"
      BY <2>2, TopFrame DEF OnSendDoneSignaled, NextTask, InLoop, Types
    <3>2. f \in [k : {"loop"}, ctx : ContextsOf(p), n : Nat \ {0}, quit : BOOLEAN]
      BY <3>1 DEF FrameOf
    <3>3. PICK g : g = [f EXCEPT !.quit = TRUE]
      OBVIOUS
    <3>4. g \in FrameOf(p)
      BY <3>2, <3>3 DEF FrameOf
    <3>5. Replaces(p, g)
      BY <2>2, <3>1, <3>3 DEF OnSendDoneSignaled
    <3> QED BY <2>2, <3>4, <3>5, StackTurns DEF Types
  <2> QED BY <2>1, <2>2
<1>4. /\ UNCHANGED <<queue, taskPending, event, armed, pend, replies, ipc, signalling, timers, wire, conn>>
      /\ UNCHANGED <<cleared, owed, sent, answered>> /\ UNCHANGED <<shut, dead>>
  BY DEF OnSendDoneSignaled, queueVars, ipcVars, faultVars
<1>5. SetsType'
  BY <1>4, SameScenario DEF Types, SetsType
<1> QED BY <1>1, <1>2, <1>3, <1>4, <1>5, TypesStay DEF Types

\* The tasks once the dispatch watcher of |c| does not watch any more.
OtherTasks(c) ==
  Only(tasks[c[1]], {i \in DOMAIN tasks[c[1]] : ~(tasks[c[1]][i].k = "watch" /\ tasks[c[1]][i].ctx = c)})

LEMMA DeleteChannelTypes ==
  ASSUME Types, scenario' = scenario, NEW c \in Contexts, DeleteChannel(c)
  PROVE  Types'
<1> DEFINE p == c[1]
<1>1. p \in Procs /\ c \in ContextsOf(p) /\ scenario \in Scenarios
  BY Pairs DEF Types, SetsType
<1>2. /\ tasks[p] \in Seq(TaskOf(p)) /\ DOMAIN tasks[p] = 1..Len(tasks[p])
      /\ armed[p] \in Seq(ContextsOf(p)) /\ DOMAIN armed[p] = 1..Len(armed[p])
      /\ queue[p] \in Seq(RequestTo(p)) /\ DOMAIN queue[p] = 1..Len(queue[p])
  BY <1>1 DEF Types, TasksType, ArmedType, QueueType
<1>3. PICK ts : ts = OtherTasks(c)
  OBVIOUS
<1>4. ts \in Seq(TaskOf(p))
  <2>1. {i \in DOMAIN tasks[p] : ~(tasks[p][i].k = "watch" /\ tasks[p][i].ctx = c)} \in SUBSET (1..Len(tasks[p]))
    BY <1>2
  <2> QED BY <1>2, <1>3, <2>1, OnlyProperties DEF OtherTasks
<1>5. SignalDone(c, Pending(c), FALSE, ts)
  BY <1>3 DEF DeleteChannel, OtherTasks
<1>6. PendType' /\ TasksType' /\ WatchType'
  BY <1>1, <1>4, <1>5, SignalDoneSignals, SignalDoneWatches DEF Types
<1>7. ArmedType'
  <2>1. PICK s : s = Only(armed[p], {i \in DOMAIN armed[p] : armed[p][i] # c})
    OBVIOUS
  <2>2. {i \in DOMAIN armed[p] : armed[p][i] # c} \in SUBSET (1..Len(armed[p]))
    BY <1>2
  <2>3. s \in Seq(ContextsOf(p))
    BY <1>2, <2>1, <2>2, OnlyProperties
  <2>4. armed' = [armed EXCEPT ![p] = s]
    BY <2>1 DEF DeleteChannel
  <2> QED BY <1>1, <2>3, <2>4, OneArmed DEF Types
<1>8. QueueType'
  <2>1. PICK s : s = Only(queue[p], {i \in DOMAIN queue[p] : At(queue[p][i]) # c})
    OBVIOUS
  <2>2. {i \in DOMAIN queue[p] : At(queue[p][i]) # c} \in SUBSET (1..Len(queue[p]))
    BY <1>2
  <2>3. s \in Seq(RequestTo(p))
    BY <1>2, <2>1, <2>2, OnlyProperties
  <2>4. queue' = [queue EXCEPT ![p] = s]
    BY <2>1 DEF DeleteChannel
  <2> QED BY <1>1, <2>3, <2>4, OneQueue DEF Types
<1>9. /\ UNCHANGED <<stack, taskPending, event, replies, signalling, timers, wire, conn>>
      /\ UNCHANGED <<owed, sent, answered>> /\ UNCHANGED <<shut, dead>>
  BY DEF DeleteChannel, faultVars
<1>10. IpcType'
  <2>1. PICK t : t = [k |-> "closed", ctx |-> c]
    OBVIOUS
  <2>2. t \in IpcTaskOf(p)' /\ IpcPosts(p, t)
    BY <1>1, <2>1, SameScenario DEF IpcTaskOf, DeleteChannel
  <2> QED BY <1>1, <1>9, <2>2, IpcGrows DEF Types
<1>11. SetsType'
  BY <1>9, SameScenario DEF DeleteChannel, Types, SetsType
<1> QED BY <1>6, <1>7, <1>8, <1>9, <1>10, <1>11, TypesStay DEF Types

(***************************************************************************)
(* The types, action by action: the IPC thread.                            *)
(***************************************************************************)
\* Reading the pipe: the message is the peer's.
LEMMA ReadsTypes ==
  ASSUME Types, scenario' = scenario, answered' = answered, NEW c \in Contexts, wire[Peer(c)] # <<>>, Reads(c)
  PROVE  WireType' /\ Head(wire[Peer(c)]) \in MessageFrom(Peer(c))
<1>1. Peer(c) \in Contexts
  BY Pairs DEF Types, SetsType
<1>2. PICK s : s = Tail(wire[Peer(c)])
  OBVIOUS
<1>3. s \in Seq(MessageFrom(Peer(c))) /\ Head(wire[Peer(c)]) \in MessageFrom(Peer(c))
  BY <1>1, <1>2 DEF Types, WireType
<1>4. wire' = [wire EXCEPT ![Peer(c)] = s]
  BY <1>2 DEF Reads
<1> QED BY <1>1, <1>3, <1>4, OneWire DEF Types

\* A reply that TryToUnblockListener takes is the answer to the send it signals.
LEMMA ReplyToSend ==
  ASSUME Types, NEW c \in Contexts, NEW m \in MessageFrom(Peer(c)), m.reply
  PROVE  m.req.ctx = c /\ m.req \in Request /\ m.ok \in BOOLEAN /\ (m.ok => m.req \in answered)
<1>1. Peer(Peer(c)) = c /\ At(m.req) = Peer(c) /\ m.req \in Request /\ m.ok \in BOOLEAN /\ (m.ok => m.req \in answered)
  BY Pairs DEF Types, SetsType, MessageFrom, Message
<1>2. m.req.ctx \in Contexts
  BY <1>1 DEF Request
<1>3. Peer(m.req.ctx) = Peer(c) /\ Peer(Peer(m.req.ctx)) = m.req.ctx
  BY <1>1, <1>2, Pairs DEF Types, SetsType, At
<1> QED BY <1>1, <1>3

LEMMA UnblockTypes ==
  ASSUME Types, scenario' = scenario, NEW c \in Contexts, NEW m \in MessageFrom(Peer(c)), m.reply,
         TryToUnblockListener(c, m)
  PROVE  PendType' /\ TasksType' /\ WatchType' /\ Signalled(c, {Last(pend[c]).n}, m.ok)
<1>1. c[1] \in Procs /\ scenario \in Scenarios
  BY Pairs DEF Types, SetsType
<1>2. m.ok \in BOOLEAN
  BY ReplyToSend
<1>3. tasks[c[1]] \in Seq(TaskOf(c[1]))
  BY <1>1 DEF Types, TasksType
<1>4. PICK ns : ns = {Last(pend[c]).n}
  OBVIOUS
<1>5. SignalDone(c, ns, m.ok, tasks[c[1]])
  BY <1>4 DEF TryToUnblockListener
<1> QED BY <1>1, <1>2, <1>3, <1>4, <1>5, SignalDoneSignals, SignalDoneWatches DEF Types

LEMMA CancelTypes ==
  ASSUME Types, scenario' = scenario, NEW c \in Contexts, CancelPendingSends(c)
  PROVE  PendType' /\ TasksType' /\ WatchType' /\ Signalled(c, Pending(c), FALSE)
<1>1. c[1] \in Procs /\ scenario \in Scenarios
  BY Pairs DEF Types, SetsType
<1>2. tasks[c[1]] \in Seq(TaskOf(c[1]))
  BY <1>1 DEF Types, TasksType
<1>3. SignalDone(c, Pending(c), FALSE, tasks[c[1]])
  BY DEF CancelPendingSends
<1> QED BY <1>1, <1>2, <1>3, SignalDoneSignals, SignalDoneWatches DEF Types

LEMMA FirstWanted ==
  ASSUME RepliesType, NEW p \in Procs, Wanted(p) # {}
  PROVE  /\ Min(Wanted(p)) \in Wanted(p) /\ Min(Wanted(p)) \in 1..Len(replies[p])
         /\ \A j \in Wanted(p) : Min(Wanted(p)) <= j
<1>1. Wanted(p) \in SUBSET (1..Len(replies[p])) /\ Wanted(p) \in SUBSET Nat
  BY DEF Wanted, RepliesType
<1>2. \E x \in Wanted(p) : \A y \in Wanted(p) : x <= y
  BY <1>1, LeastNatural
<1>3. Min(Wanted(p)) \in Wanted(p) /\ \A y \in Wanted(p) : Min(Wanted(p)) <= y
  BY <1>2 DEF Min
<1> QED BY <1>1, <1>3

LEMMA ReceiveReplyTypes ==
  ASSUME Types, scenario' = scenario, NEW c \in Contexts, ReceiveReply(c)
  PROVE  Types'
<1> DEFINE p == c[1]
<1>1. p \in Procs /\ c \in ContextsOf(p) /\ Peer(Peer(c)) = c
  BY Pairs DEF Types, SetsType
<1>2. /\ UNCHANGED <<stack, queue, taskPending, event, armed, ipc, signalling, timers, conn>>
      /\ UNCHANGED <<cleared, owed, sent, answered>> /\ UNCHANGED <<shut, dead>>
  BY DEF ReceiveReply, listenerVars, queueVars, faultVars
<1>3. WireType' /\ Head(wire[Peer(c)]) \in MessageFrom(Peer(c))
  BY <1>2, ReadsTypes DEF ReceiveReply, CanRead
<1>4. PICK m \in MessageFrom(Peer(c)) : m = Head(wire[Peer(c)]) /\ m.reply
  BY <1>3 DEF ReceiveReply, CanRead
<1>5. CASE IsMessageReplyTo(c, m)
  <2>1. TryToUnblockListener(c, m) /\ UNCHANGED replies
    BY <1>4, <1>5 DEF ReceiveReply
  <2>2. PendType' /\ TasksType' /\ WatchType'
    BY <1>4, <2>1, UnblockTypes
  <2>3. SetsType'
    BY <1>2, SameScenario DEF Types, SetsType
  <2> QED BY <1>2, <1>3, <2>1, <2>2, <2>3, TypesStay DEF Types
<1>6. CASE ~IsMessageReplyTo(c, m)
  <2>1. PICK x : x = [ctx |-> c, m |-> m]
    OBVIOUS
  <2>2. x \in ReplyTo(p)
    BY <1>1, <1>4, <2>1 DEF ReplyTo, MessageFrom
  <2>3. PICK s : s = Append(replies[p], x)
    OBVIOUS
  <2>4. s \in Seq(ReplyTo(p))
    BY <1>1, <2>2, <2>3 DEF Types, RepliesType
  <2>5. replies' = [replies EXCEPT ![p] = s] /\ UNCHANGED <<pend, doneWatch, tasks>>
    BY <1>4, <1>6, <2>1, <2>3 DEF ReceiveReply
  <2>6. RepliesType'
    BY <1>1, <1>2, <2>4, <2>5, OneReplies DEF Types
  <2>7. SetsType'
    BY <1>2, SameScenario DEF Types, SetsType
  <2> QED BY <1>2, <1>3, <2>5, <2>6, <2>7, TypesStay DEF Types
<1> QED BY <1>5, <1>6

LEMMA QueueMessageTypes ==
  ASSUME Types, scenario' = scenario, NEW c \in Contexts, QueueMessage(c)
  PROVE  Types'
<1> DEFINE p == c[1]
<1>1. p \in Procs /\ c \in ContextsOf(p) /\ Peer(Peer(c)) = c
  BY Pairs DEF Types, SetsType
<1>2. /\ UNCHANGED <<stack, tasks, event, armed, doneWatch, pend, replies, ipc, timers, conn>>
      /\ UNCHANGED <<cleared, owed, sent, answered>> /\ UNCHANGED <<shut, dead>>
  BY DEF QueueMessage, listenerVars, faultVars
<1>3. WireType' /\ Head(wire[Peer(c)]) \in MessageFrom(Peer(c))
  BY <1>2, ReadsTypes DEF QueueMessage, CanRead
<1>4. PICK r : r = Head(wire[Peer(c)]).req
  OBVIOUS
<1>5. r \in RequestTo(p)
  <2>1. r \in Request /\ r.ctx = Peer(c)
    BY <1>3, <1>4 DEF QueueMessage, CanRead, MessageFrom, Message
  <2>2. At(r)[1] = p
    BY <1>1, <2>1 DEF At
  <2> QED BY <2>1, <2>2 DEF RequestTo
<1>6. PICK s : s = Append(queue[p], r)
  OBVIOUS
<1>7. s \in Seq(RequestTo(p)) /\ queue' = [queue EXCEPT ![p] = s]
  BY <1>1, <1>4, <1>5, <1>6 DEF QueueMessage, Types, QueueType
<1>8. QueueType'
  BY <1>1, <1>7, OneQueue DEF Types
<1>9. FlagsType'
  BY <1>2, SameScenario DEF QueueMessage, Types, FlagsType
<1>10. SignalType'
  <2>1. PICK x : x = [on |-> TRUE, ctx |-> c, post |-> ~taskPending[p]]
    OBVIOUS
  <2>2. x \in [on : {TRUE}, ctx : ContextsOf(p), post : BOOLEAN]
    BY <1>1, <2>1
  <2>3. signalling' = [signalling EXCEPT ![p] = x]
    BY <2>1 DEF QueueMessage
  <2> QED BY <1>1, <2>2, <2>3, SameScenario DEF Types, SignalType, None
<1>11. SetsType'
  BY <1>2, SameScenario DEF Types, SetsType
<1> QED BY <1>2, <1>3, <1>8, <1>9, <1>10, <1>11, TypesStay DEF Types

LEMMA SignalDispatchTypes ==
  ASSUME Types, scenario' = scenario, NEW p \in Procs, SignalDispatch(p)
  PROVE  Types'
<1>1. signalling[p] \in [on : {TRUE}, ctx : ContextsOf(p), post : BOOLEAN]
  <2>1. signalling[p] # None
    BY DEF SignalDispatch, None
  <2> QED BY <2>1 DEF Types, SignalType
<1>2. /\ UNCHANGED <<stack, queue, doneWatch, pend, replies, ipc, timers, wire, conn>>
      /\ UNCHANGED <<cleared, owed, sent, answered>> /\ UNCHANGED <<shut, dead>>
  BY DEF SignalDispatch, listenerVars, faultVars
<1>3. FlagsType'
  BY <1>2, SameScenario DEF SignalDispatch, Types, FlagsType
<1>4. SignalType'
  BY SameScenario DEF SignalDispatch, Types, SignalType, None
<1>5. ArmedType'
  <2>1. PICK s : s = IF event[p] THEN armed[p] ELSE <<>>
    OBVIOUS
  <2>2. s \in Seq(ContextsOf(p))
    BY <2>1 DEF Types, ArmedType
  <2>3. armed' = [armed EXCEPT ![p] = s]
    BY <2>1 DEF SignalDispatch
  <2> QED BY <2>2, <2>3, OneArmed DEF Types
<1>6. WatchTasks(p) \in Seq(TaskOf(p))
  <2>1. CASE event[p]
    BY <2>1 DEF WatchTasks
  <2>2. CASE ~event[p]
    <3>1. armed[p] \in Seq(ContextsOf(p)) /\ DOMAIN armed[p] = 1..Len(armed[p]) /\ Len(armed[p]) \in Nat
      BY DEF Types, ArmedType
    <3>2. \A i \in 1..Len(armed[p]) : [k |-> "watch", ctx |-> armed[p][i]] \in TaskOf(p)
      BY <3>1 DEF TaskOf
    <3>3. [i \in 1..Len(armed[p]) |-> [k |-> "watch", ctx |-> armed[p][i]]] \in Seq(TaskOf(p))
      BY <3>1, <3>2
    <3> QED BY <2>2, <3>1, <3>3 DEF WatchTasks
  <2> QED BY <2>1, <2>2
<1>7. TasksType'
  <2>1. PICK a : a = tasks[p] \o WatchTasks(p)
    OBVIOUS
  <2>2. PICK b : b = IF signalling[p].post THEN <<[k |-> "task", ctx |-> signalling[p].ctx]>> ELSE <<>>
    OBVIOUS
  <2>3. PICK s : s = a \o b
    OBVIOUS
  <2>4. a \in Seq(TaskOf(p))
    BY <1>6, <2>1 DEF Types, TasksType
  <2>5. [k |-> "task", ctx |-> signalling[p].ctx] \in TaskOf(p)
    BY <1>1 DEF TaskOf
  <2>6. b \in Seq(TaskOf(p))
    BY <2>2, <2>5
  <2>7. s \in Seq(TaskOf(p))
    BY <2>3, <2>4, <2>6
  <2>8. tasks' = [tasks EXCEPT ![p] = s]
    BY <2>1, <2>2, <2>3 DEF SignalDispatch
  <2> QED BY <2>7, <2>8, OneTasks DEF Types
<1>8. SetsType'
  BY <1>2, SameScenario DEF Types, SetsType
<1>9. UNCHANGED taskPending
  BY DEF SignalDispatch
<1> QED BY <1>2, <1>3, <1>4, <1>5, <1>7, <1>8, <1>9, TypesStay DEF Types

\* A step of the IPC thread that changes no more than sends, their watcher and the list of tasks.
LEMMA IpcStepTypes ==
  ASSUME Types, scenario' = scenario, PendType', TasksType', WatchType', IpcType', WireType', RepliesType',
         TimersType', ConnType',
         UNCHANGED <<listenerVars, queueVars, signalling, faultVars, answered>>
  PROVE  Types'
<1>1. UNCHANGED <<stack, queue, armed, signalling, sent>> /\ UNCHANGED <<taskPending, event, shut>> /\ UNCHANGED answered
  BY DEF listenerVars, queueVars, faultVars
<1>2. SetsType'
  BY SameScenario DEF Types, SetsType, listenerVars, faultVars
<1> QED BY <1>1, <1>2, TypesStay DEF Types

LEMMA OnSendMessageTypes ==
  ASSUME Types, scenario' = scenario, NEW p \in Procs, OnSendMessage(p)
  PROVE  Types'
<1>1. UNCHANGED <<listenerVars, queueVars, replies, signalling, timers, conn, faultVars, answered>>
  BY DEF OnSendMessage
<1>2. IpcType' /\ Head(ipc[p]) \in IpcTaskOf(p)
  BY <1>1, IpcShrinks DEF OnSendMessage, NextIpc, Types
<1>3. PICK t \in IpcTaskOf(p) : t = Head(ipc[p]) /\ t.k = "send"
  BY <1>2 DEF OnSendMessage, NextIpc
<1>4. t.ctx \in Contexts /\ t.m \in MessageFrom(t.ctx)
  BY <1>3, Kinds DEF ContextsOf
<1>5. RepliesType' /\ TimersType' /\ ConnType'
  BY <1>1, TypesStay
<1>6. CASE wire' = [wire EXCEPT ![t.ctx] = Append(@, t.m)] /\ UNCHANGED <<pend, doneWatch, tasks>>
  <2>1. PICK s : s = Append(wire[t.ctx], t.m)
    OBVIOUS
  <2>2. s \in Seq(MessageFrom(t.ctx))
    BY <1>4, <2>1 DEF Types, WireType
  <2>3. wire' = [wire EXCEPT ![t.ctx] = s]
    BY <1>6, <2>1
  <2>4. WireType'
    BY <1>1, <1>4, <2>2, <2>3, OneWire DEF Types
  <2>5. PendType' /\ TasksType' /\ WatchType'
    BY <1>1, <1>6, TypesStay
  <2> QED BY <1>1, <1>2, <1>5, <2>4, <2>5, IpcStepTypes
<1>7. CASE CancelPendingSends(t.ctx) /\ UNCHANGED wire
  <2>1. PendType' /\ TasksType' /\ WatchType'
    BY <1>4, <1>7, CancelTypes
  <2>2. WireType'
    BY <1>1, <1>7, TypesStay
  <2> QED BY <1>1, <1>2, <1>5, <2>1, <2>2, IpcStepTypes
<1> QED BY <1>3, <1>6, <1>7 DEF OnSendMessage

LEMMA DispatchRepliesTypes ==
  ASSUME Types, scenario' = scenario, NEW p \in Procs, DispatchReplies(p)
  PROVE  Types'
<1>1. UNCHANGED <<listenerVars, queueVars, signalling, timers, wire, conn, faultVars, answered>>
  BY DEF DispatchReplies
<1>2. IpcType' /\ WireType' /\ TimersType' /\ ConnType'
  BY <1>1, IpcShrinks, TypesStay DEF DispatchReplies, NextIpc, Types
<1>3. CASE Wanted(p) = {}
  <2>1. UNCHANGED <<replies, pend, doneWatch, tasks>>
    BY <1>3 DEF DispatchReplies
  <2>2. PendType' /\ TasksType' /\ WatchType' /\ RepliesType'
    BY <1>1, <2>1, TypesStay
  <2> QED BY <1>1, <1>2, <2>2, IpcStepTypes
<1>4. CASE Wanted(p) # {}
  <2>1. PICK i : i = Min(Wanted(p))
    OBVIOUS
  <2>2. i \in Wanted(p) /\ i \in 1..Len(replies[p])
    BY <1>4, <2>1, FirstWanted DEF Types
  <2>3. replies[p] \in Seq(ReplyTo(p))
    BY DEF Types, RepliesType
  <2>4. PICK x \in ReplyTo(p) : x = replies[p][i]
    BY <2>2, <2>3
  <2>5. x.ctx \in Contexts /\ x.m \in MessageFrom(Peer(x.ctx)) /\ x.m.reply
    BY DEF ReplyTo, ContextsOf
  <2>6. TryToUnblockListener(x.ctx, x.m) /\ replies' = [replies EXCEPT ![p] = RemoveAt(replies[p], i)]
    BY <1>4, <2>1, <2>4 DEF DispatchReplies
  <2>7. PendType' /\ TasksType' /\ WatchType'
    BY <2>5, <2>6, UnblockTypes
  <2>8. RepliesType'
    <3>1. PICK s : s = RemoveAt(replies[p], i)
      OBVIOUS
    <3>2. s \in Seq(ReplyTo(p)) /\ replies' = [replies EXCEPT ![p] = s]
      BY <2>2, <2>3, <2>6, <3>1, RemoveAtProperties
    <3> QED BY <1>1, <3>2, OneReplies DEF Types
  <2> QED BY <1>1, <1>2, <2>7, <2>8, IpcStepTypes
<1> QED BY <1>3, <1>4

LEMMA OnSendTimeoutTypes ==
  ASSUME Types, scenario' = scenario, NEW t \in timers, OnSendTimeout(t)
  PROVE  Types'
<1>1. UNCHANGED <<listenerVars, queueVars, replies, ipc, signalling, wire, conn, faultVars, answered>>
  BY DEF OnSendTimeout
<1>2. t.ctx \in Contexts /\ t.ctx[1] \in Procs /\ scenario \in Scenarios
  <2>1. t.ctx \in Contexts /\ scenario \in Scenarios
    BY DEF Types, TimersType, SetsType
  <2> QED BY <2>1, Pairs
<1>3. tasks[t.ctx[1]] \in Seq(TaskOf(t.ctx[1]))
  BY <1>2 DEF Types, TasksType
<1>4. PICK ns : ns = {t.n}
  OBVIOUS
<1>5. SignalDone(t.ctx, ns, FALSE, tasks[t.ctx[1]])
  BY <1>4 DEF OnSendTimeout
<1>6. PendType' /\ TasksType' /\ WatchType'
  BY <1>2, <1>3, <1>5, SignalDoneSignals, SignalDoneWatches DEF Types
<1>7. TimersType'
  BY SameScenario DEF OnSendTimeout, Types, TimersType
<1>8. IpcType' /\ WireType' /\ RepliesType' /\ ConnType'
  BY <1>1, TypesStay
<1> QED BY <1>1, <1>6, <1>7, <1>8, IpcStepTypes

LEMMA OnChannelErrorTypes ==
  ASSUME Types, scenario' = scenario, NEW c \in Contexts, OnChannelError(c)
  PROVE  Types'
<1>1. UNCHANGED <<listenerVars, queueVars, replies, ipc, signalling, timers, wire, faultVars, answered>>
  BY DEF OnChannelError
<1>2. PendType' /\ TasksType' /\ WatchType'
  BY CancelTypes DEF OnChannelError
<1>3. ConnType'
  BY SameScenario DEF OnChannelError, Types, ConnType
<1>4. IpcType' /\ WireType' /\ RepliesType' /\ TimersType'
  BY <1>1, TypesStay
<1> QED BY <1>1, <1>2, <1>3, <1>4, IpcStepTypes

LEMMA OnChannelClosedTypes ==
  ASSUME Types, scenario' = scenario, NEW p \in Procs, OnChannelClosed(p)
  PROVE  Types'
<1>1. UNCHANGED <<listenerVars, queueVars, replies, signalling, timers, wire, faultVars, answered>>
  BY DEF OnChannelClosed
<1>2. IpcType' /\ Head(ipc[p]) \in IpcTaskOf(p)
  BY <1>1, IpcShrinks DEF OnChannelClosed, NextIpc, Types
<1>3. PICK c \in ContextsOf(p) : c = Head(ipc[p]).ctx
  BY <1>2, Kinds DEF OnChannelClosed, NextIpc
<1>4. c \in Contexts /\ CancelPendingSends(c) /\ conn' = [conn EXCEPT ![c] = "closed"]
  BY <1>3 DEF OnChannelClosed, ContextsOf
<1>5. PendType' /\ TasksType' /\ WatchType'
  BY <1>4, CancelTypes
<1>6. ConnType'
  BY <1>4, SameScenario DEF Types, ConnType
<1>7. WireType' /\ RepliesType' /\ TimersType'
  BY <1>1, TypesStay
<1> QED BY <1>1, <1>2, <1>5, <1>6, <1>7, IpcStepTypes

LEMMA OnShutdownSignaledTypes ==
  ASSUME Types, scenario' = scenario, NEW p \in Procs, OnShutdownSignaled(p)
  PROVE  Types'
<1>1. UNCHANGED <<listenerVars, queueVars, replies, signalling, timers, wire, conn, faultVars, answered>>
  BY DEF OnShutdownSignaled
<1>2. IpcType' /\ Head(ipc[p]) \in IpcTaskOf(p)
  BY <1>1, IpcShrinks DEF OnShutdownSignaled, NextIpc, Types
<1>3. PICK c \in ContextsOf(p) : c = Head(ipc[p]).ctx
  BY <1>2, Kinds DEF OnShutdownSignaled, NextIpc
<1>4. c \in Contexts /\ (CancelPendingSends(c) \/ UNCHANGED <<pend, doneWatch, tasks>>)
  BY <1>3 DEF OnShutdownSignaled, ContextsOf
<1>5. PendType' /\ TasksType' /\ WatchType'
  BY <1>1, <1>4, CancelTypes, TypesStay
<1>6. WireType' /\ RepliesType' /\ TimersType' /\ ConnType'
  BY <1>1, TypesStay
<1> QED BY <1>1, <1>2, <1>5, <1>6, IpcStepTypes

(***************************************************************************)
(* The types: what happens to a whole process.                             *)
(***************************************************************************)
\* The contexts of a process can be listed.
LEMMA Listed ==
  ASSUME scenario \in Scenarios, NEW p, NEW C \in SUBSET ContextsOf(p)
  PROVE  SetToSeq(C) \in Seq(ContextsOf(p)) /\ IsInjective(SetToSeq(C)) /\ ToSet(SetToSeq(C)) = C
<1>1. IsFiniteSet(Contexts)
  BY ChannelAssumption DEF Contexts
<1>2. C \in SUBSET Contexts
  BY DEF ContextsOf
<1>3. IsFiniteSet(C)
  BY <1>1, <1>2, FS_Subset
<1> DEFINE n == Cardinality(C)
<1>4. n \in Nat
  BY <1>3, FS_CardinalityType
<1>5. \E f \in [1..n -> C] : IsInjective(f)
  <2>1. ExistsBijection(1..n, C)
    BY <1>3, FS_CardinalityType
  <2>2. PICK f \in Bijection(1..n, C) : TRUE
    BY <2>1 DEF ExistsBijection
  <2> QED BY <2>2 DEF Bijection, Injection
<1>6. SetToSeq(C) \in [1..n -> C] /\ IsInjective(SetToSeq(C))
  BY <1>5 DEF SetToSeq
<1>7. PICK s : s = SetToSeq(C)
  OBVIOUS
<1>8. s \in Injection(1..n, C)
  BY <1>6, <1>7 DEF Injection
<1>9. s \in Surjection(1..n, C)
  <2>1. IsFiniteSet(1..n) /\ Cardinality(1..n) = n
    BY <1>4, FS_Interval
  <2> QED BY <1>3, <1>8, <2>1, FS_Injection
<1>10. s \in [1..n -> C] /\ \A x \in C : \E i \in 1..n : s[i] = x
  BY <1>8, <1>9 DEF Surjection, Injection
<1>11. s \in Seq(ContextsOf(p)) /\ ToSet(s) = C
  BY <1>4, <1>10 DEF ToSet
<1> QED BY <1>6, <1>7, <1>11

LEMMA ShutdownTypes ==
  ASSUME Types, scenario' = scenario, NEW p \in Procs, Shutdown(p)
  PROVE  Types'
<1>1. PICK open : open = SetToSeq({c \in ContextsOf(p) : conn[c] = "open"})
  OBVIOUS
<1>2. open \in Seq(ContextsOf(p))
  <2>1. {c \in ContextsOf(p) : conn[c] = "open"} \in SUBSET ContextsOf(p) /\ scenario \in Scenarios
    BY DEF Types, SetsType
  <2> QED BY <1>1, <2>1, Listed
<1>3. PICK ts : ts = [i \in DOMAIN open |-> [k |-> "shutdown", ctx |-> open[i]]]
  OBVIOUS
<1>4. ts \in Seq(IpcTaskOf(p))
  <2>1. DOMAIN open = 1..Len(open) /\ Len(open) \in Nat
    BY <1>2
  <2>2. \A i \in 1..Len(open) : [k |-> "shutdown", ctx |-> open[i]] \in IpcTaskOf(p)
    BY <1>2 DEF IpcTaskOf
  <2>3. [i \in 1..Len(open) |-> [k |-> "shutdown", ctx |-> open[i]]] \in Seq(IpcTaskOf(p))
    BY <2>1, <2>2
  <2> QED BY <1>3, <2>1, <2>3
<1>5. PICK s : s = ipc[p] \o ts
  OBVIOUS
<1>6. /\ UNCHANGED <<stack, tasks, queue, taskPending, event, armed, doneWatch, pend, replies, signalling, timers, wire, conn>>
      /\ UNCHANGED <<cleared, owed, sent, answered>> /\ UNCHANGED dead
  BY DEF Shutdown, listenerVars, queueVars
<1>7. IpcType'
  <2>1. s \in Seq(IpcTaskOf(p))
    BY <1>4, <1>5 DEF Types, IpcType
  <2>2. s \in Seq(IpcTaskOf(p)')
    BY <1>6, <2>1, MoreAnswers, SeqMonotonic
  <2>3. ipc' = [ipc EXCEPT ![p] = s]
    BY <1>1, <1>3, <1>5 DEF Shutdown
  <2> QED BY <1>6, <2>2, <2>3, OneIpc DEF Types
<1>8. FlagsType'
  BY <1>6, SameScenario DEF Shutdown, Types, FlagsType
<1>9. SetsType'
  BY <1>6, SameScenario DEF Types, SetsType
<1> QED BY <1>6, <1>7, <1>8, <1>9, TypesStay DEF Types

LEMMA DieTypes ==
  ASSUME Types, scenario' = scenario, NEW p \in Procs, Die(p)
  PROVE  Types'
<1>1. /\ UNCHANGED <<armed, wire, sent, answered, cleared>>
      /\ UNCHANGED <<taskPending, event, shut>>
  BY DEF Die
<1>2. \A S : <<>> \in Seq(S)
  OBVIOUS
<1>3. StackType'
  BY <1>2, OneStack DEF Die, Types
<1>4. TasksType'
  BY <1>2, OneTasks DEF Die, Types
<1>5. QueueType'
  BY <1>2, OneQueue DEF Die, Types
<1>6. IpcType'
  BY <1>1, <1>2, OneIpc DEF Die, Types
<1>7. RepliesType'
  BY <1>1, <1>2, OneReplies DEF Die, Types
<1>8. SignalType'
  BY SameScenario DEF Die, Types, SignalType, None
<1>9. WatchType'
  BY SameScenario DEF Die, Types, WatchType, None
<1>10. ConnType'
  BY SameScenario DEF Die, Types, ConnType
<1>11. PendType'
  <2>1. pend' = [c \in Contexts |-> IF c[1] = p THEN <<>> ELSE pend[c]]
    BY DEF Die
  <2>2. \A c \in Contexts : (IF c[1] = p THEN <<>> ELSE pend[c]) \in Seq(Awaited)
    BY DEF Types, PendType
  <2>3. DOMAIN pend' = Contexts /\ \A c \in Contexts : pend'[c] \in Seq(Awaited)
    BY <2>1, <2>2
  <2> QED BY <2>3, SameScenario DEF PendType, Awaited
<1>12. TimersType'
  BY SameScenario DEF Die, Types, TimersType
<1>13. SetsType'
  BY <1>1, SameScenario DEF Die, Types, SetsType
<1> QED BY <1>1, <1>3, <1>4, <1>5, <1>6, <1>7, <1>8, <1>9, <1>10, <1>11, <1>12, <1>13, TypesStay DEF Types

LEMMA InitTypes ==
  ASSUME Init
  PROVE  Types
<1>1. scenario \in Scenarios
  BY DEF Init
<1>2. \A S : <<>> \in Seq(S)
  OBVIOUS
<1>3. StackType /\ TasksType /\ QueueType /\ RepliesType /\ IpcType
  BY <1>2 DEF Init, StackType, TasksType, QueueType, RepliesType, IpcType
<1>4. PendType /\ WireType
  BY <1>2 DEF Init, PendType, WireType
<1>5. FlagsType /\ WatchType /\ SignalType /\ TimersType /\ ConnType
  BY DEF Init, FlagsType, WatchType, SignalType, TimersType, ConnType
<1>6. SetsType
  BY DEF Init, SetsType
<1>7. SentType
  <2>1. MaxSends \in [Procs -> Nat]
    BY <1>1, ChannelAssumption DEF MaxSends, Procs
  <2> QED BY <2>1 DEF Init, SentType
<1>8. ArmedType
  BY <1>1, Listed DEF Init, ArmedType
<1> QED BY <1>3, <1>4, <1>5, <1>6, <1>7, <1>8 DEF Types

(***************************************************************************)
(* A Send succeeds only if the peer answered it.                           *)
(***************************************************************************)
\* Signalling keeps the results honest when the answer it signals with is.
LEMMA SignalledResults ==
  ASSUME Types, ResultIsThePeers, scenario' = scenario, answered \subseteq answered', PendType',
         NEW c \in Contexts, NEW ns, NEW ok, Signalled(c, ns, ok),
         \A n \in ns : ok => [ctx |-> c, n |-> n] \in answered
  PROVE  ResultIsThePeers'
<1> SUFFICES ASSUME NEW d \in Contexts, NEW i \in 1..Len(pend[d]), pend'[d][i].result
             PROVE  pend'[d][i].done /\ [ctx |-> d, n |-> pend'[d][i].n] \in answered'
  <2>1. \A d \in Contexts : DOMAIN pend'[d] = 1..Len(pend[d])
    BY SameScenario DEF PendType, Signalled
  <2> QED BY <2>1, SameScenario DEF ResultIsThePeers
<1>1. DOMAIN pend[d] = 1..Len(pend[d])
  BY DEF Types, PendType
<1>2. /\ pend'[d][i].n = pend[d][i].n
      /\ pend'[d][i].done <=> pend[d][i].done \/ (d = c /\ pend[d][i].n \in ns)
      /\ pend[d][i].result \/ (d = c /\ pend[d][i].n \in ns /\ ok)
  BY DEF Signalled
<1>3. CASE pend[d][i].result
  BY <1>1, <1>2, <1>3 DEF ResultIsThePeers
<1>4. CASE d = c /\ pend[d][i].n \in ns /\ ok
  BY <1>2, <1>4
<1> QED BY <1>2, <1>3, <1>4

LEMMA ResultsStay ==
  ASSUME Types, ResultIsThePeers, scenario' = scenario, answered \subseteq answered', UNCHANGED pend
  PROVE  ResultIsThePeers'
BY SameScenario DEF ResultIsThePeers

LEMMA CancelResults ==
  ASSUME Types, ResultIsThePeers, scenario' = scenario, answered \subseteq answered',
         NEW c \in Contexts, CancelPendingSends(c)
  PROVE  ResultIsThePeers'
<1>1. PendType' /\ Signalled(c, Pending(c), FALSE)
  BY CancelTypes
<1>2. PICK ns : ns = Pending(c)
  OBVIOUS
<1> QED BY <1>1, <1>2, SignalledResults

LEMMA PopResults ==
  ASSUME Types, ResultIsThePeers, scenario' = scenario, answered' = answered, NEW c \in Contexts, Pop(c)
  PROVE  ResultIsThePeers'
<1>1. pend[c] \in Seq(Awaited) /\ pend' = [pend EXCEPT ![c] = Front(pend[c])]
  BY DEF Types, PendType, Pop
<1>2. CASE pend[c] = <<>>
  <2>1. Front(pend[c]) = <<>>
    BY <1>2, SubSeqEmpty DEF Front
  <2>2. \A d \in Contexts : pend'[d] = pend[d]
    BY <1>1, <1>2, <2>1 DEF Types, PendType
  <2> QED BY <2>2, SameScenario DEF ResultIsThePeers
<1>3. CASE pend[c] # <<>>
  <2>1. PICK s : s = Front(pend[c])
    OBVIOUS
  <2>2. /\ s \in Seq(Awaited) /\ Len(s) = Len(pend[c]) - 1 /\ Len(pend[c]) \in Nat
        /\ \A i \in 1..(Len(pend[c]) - 1) : s[i] = pend[c][i]
    BY <1>1, <1>3, <2>1, FrontAndLast
  <2>3. \A i \in DOMAIN s : i \in DOMAIN pend[c] /\ s[i] = pend[c][i]
    BY <1>1, <2>2
  <2>4. \A d \in Contexts : pend'[d] = IF d = c THEN s ELSE pend[d]
    BY <1>1, <2>1 DEF Types, PendType
  <2> QED BY <2>3, <2>4, SameScenario DEF ResultIsThePeers
<1> QED BY <1>2, <1>3

LEMMA UnblockResults ==
  ASSUME Types, ResultIsThePeers, scenario' = scenario, answered' = answered, NEW c \in Contexts,
         NEW m \in MessageFrom(Peer(c)), m.reply, IsMessageReplyTo(c, m), TryToUnblockListener(c, m)
  PROVE  ResultIsThePeers'
<1>1. PendType' /\ Signalled(c, {Last(pend[c]).n}, m.ok)
  BY UnblockTypes
<1>2. m.req.ctx = c /\ m.req \in Request /\ (m.ok => m.req \in answered) /\ Last(pend[c]).n = m.req.n
  BY ReplyToSend DEF IsMessageReplyTo
<1>3. m.req = [ctx |-> c, n |-> Last(pend[c]).n]
  BY <1>2 DEF Request
<1>4. PICK ns : ns = {Last(pend[c]).n}
  OBVIOUS
<1>5. \A n \in ns : m.ok => [ctx |-> c, n |-> n] \in answered
  BY <1>2, <1>3, <1>4
<1> QED BY <1>1, <1>4, <1>5, SignalledResults

LEMMA SendResults ==
  ASSUME Types, ResultIsThePeers, scenario' = scenario, NEW c \in Contexts, NEW pump, NEW timed, Send(c, pump, timed)
  PROVE  ResultIsThePeers'
<1>1. PICK x : x = [n |-> sent[c[1]] + 1, done |-> FALSE, result |-> FALSE]
  OBVIOUS
<1>2. PICK s : s = Append(pend[c], x)
  OBVIOUS
<1>3. pend' = [pend EXCEPT ![c] = s] /\ answered' = answered
  BY <1>1, <1>2 DEF Send
<1>4. \A d \in Contexts : pend'[d] = IF d = c THEN s ELSE pend[d]
  BY <1>3 DEF Types, PendType
<1>5. pend[c] \in Seq(Awaited) /\ x.result = FALSE
  BY <1>1 DEF Types, PendType
<1>6. \A i \in DOMAIN s : (i \in DOMAIN pend[c] /\ s[i] = pend[c][i]) \/ s[i] = x
  BY <1>2, <1>5
<1> QED BY <1>3, <1>4, <1>5, <1>6, SameScenario DEF ResultIsThePeers

LEMMA DieResults ==
  ASSUME Types, ResultIsThePeers, scenario' = scenario, NEW p \in Procs, Die(p)
  PROVE  ResultIsThePeers'
<1>1. answered' = answered /\ \A c \in Contexts : pend'[c] = <<>> \/ pend'[c] = pend[c]
  BY DEF Die
<1> QED BY <1>1, SameScenario DEF ResultIsThePeers

\* Every step keeps the types and the honesty of the results.
LEMMA StepKeepsTypes ==
  ASSUME Types, ResultIsThePeers, Next
  PROVE  Types' /\ ResultIsThePeers'
<1>1. scenario' = scenario
  BY DEF Next
<1>2. ASSUME NEW p \in Procs, ListenerGoesOn(p)
      PROVE  Types' /\ ResultIsThePeers'
  <2>1. CASE DispatchMessages(p)
    BY <1>1, <2>1, DispatchMessagesTypes, ResultsStay DEF DispatchMessages
  <2>2. CASE WaitDispatchEvent(p)
    BY <1>1, <2>2, WaitDispatchEventTypes, ResultsStay DEF WaitDispatchEvent
  <2>3. CASE WaitDoneEvent(p)
    <3>1. Top(p).ctx \in Contexts /\ Pop(Top(p).ctx) /\ answered' = answered
      BY <2>3, TopFrame, Kinds DEF WaitDoneEvent, TopIs, ContextsOf, Types
    <3> QED BY <1>1, <2>3, <3>1, WaitDoneEventTypes, PopResults
  <2>4. CASE NestedMessageLoop(p)
    BY <1>1, <2>4, NestedMessageLoopTypes, ResultsStay DEF NestedMessageLoop
  <2>5. CASE LeaveNestedMessageLoop(p)
    <3>1. Top(p).ctx \in Contexts /\ Pop(Top(p).ctx) /\ answered' = answered
      BY <2>5, TopFrame, Kinds DEF LeaveNestedMessageLoop, TopIs, ContextsOf, Types
    <3> QED BY <1>1, <2>5, <3>1, LeaveNestedMessageLoopTypes, PopResults
  <2>6. CASE DispatchMessagesTask(p)
    BY <1>1, <2>6, DispatchMessagesTaskTypes, ResultsStay DEF DispatchMessagesTask
  <2>7. CASE OnDispatchEventSignaled(p)
    BY <1>1, <2>7, OnDispatchEventSignaledTypes, ResultsStay DEF OnDispatchEventSignaled
  <2>8. CASE OnSendDoneSignaled(p)
    BY <1>1, <2>8, OnSendDoneSignaledTypes, ResultsStay DEF OnSendDoneSignaled
  <2> QED BY <1>2, <2>1, <2>2, <2>3, <2>4, <2>5, <2>6, <2>7, <2>8 DEF ListenerGoesOn
<1>3. ASSUME NEW p \in Procs, IpcGoesOn(p)
      PROVE  Types' /\ ResultIsThePeers'
  <2>1. CASE SignalDispatch(p)
    BY <1>1, <2>1, SignalDispatchTypes, ResultsStay DEF SignalDispatch
  <2>2. CASE OnSendMessage(p)
    <3>1. answered' = answered /\ (UNCHANGED pend \/ CancelPendingSends(Head(ipc[p]).ctx))
      BY <2>2 DEF OnSendMessage
    <3>2. Head(ipc[p]).ctx \in Contexts
      BY <2>2, Kinds DEF OnSendMessage, NextIpc, Types, IpcType, ContextsOf
    <3> QED BY <1>1, <2>2, <3>1, <3>2, OnSendMessageTypes, ResultsStay, CancelResults
  <2>3. CASE DispatchReplies(p)
    <3>1. answered' = answered
      BY <2>3 DEF DispatchReplies
    <3>2. CASE Wanted(p) = {}
      BY <1>1, <2>3, <3>1, <3>2, DispatchRepliesTypes, ResultsStay DEF DispatchReplies
    <3>3. CASE Wanted(p) # {}
      <4>1. PICK i \in 1..Len(replies[p]) : i = Min(Wanted(p)) /\ i \in Wanted(p)
        BY <3>3, FirstWanted DEF Types
      <4>2. PICK x \in ReplyTo(p) : x = replies[p][i]
        BY DEF Types, RepliesType
      <4>3. x.ctx \in Contexts /\ x.m \in MessageFrom(Peer(x.ctx)) /\ x.m.reply
        BY DEF ReplyTo, ContextsOf
      <4>4. TryToUnblockListener(x.ctx, x.m) /\ IsMessageReplyTo(x.ctx, x.m)
        BY <2>3, <3>3, <4>1, <4>2 DEF DispatchReplies, Wanted
      <4> QED BY <1>1, <2>3, <3>1, <4>3, <4>4, DispatchRepliesTypes, UnblockResults
    <3> QED BY <3>2, <3>3
  <2>4. CASE OnChannelClosed(p)
    <3>1. answered' = answered /\ CancelPendingSends(Head(ipc[p]).ctx)
      BY <2>4 DEF OnChannelClosed
    <3>2. Head(ipc[p]).ctx \in Contexts
      BY <2>4, Kinds DEF OnChannelClosed, NextIpc, Types, IpcType, ContextsOf
    <3> QED BY <1>1, <2>4, <3>1, <3>2, OnChannelClosedTypes, CancelResults
  <2>5. CASE OnShutdownSignaled(p)
    <3>1. answered' = answered /\ (UNCHANGED pend \/ CancelPendingSends(Head(ipc[p]).ctx))
      BY <2>5 DEF OnShutdownSignaled
    <3>2. Head(ipc[p]).ctx \in Contexts
      BY <2>5, Kinds DEF OnShutdownSignaled, NextIpc, Types, IpcType, ContextsOf
    <3> QED BY <1>1, <2>5, <3>1, <3>2, OnShutdownSignaledTypes, ResultsStay, CancelResults
  <2> QED BY <1>3, <2>1, <2>2, <2>3, <2>4, <2>5 DEF IpcGoesOn
<1>4. ASSUME NEW p \in Procs, NEW defer \in BOOLEAN, NEW error \in BOOLEAN, HandlerReturns(p, defer, error)
      PROVE  Types' /\ ResultIsThePeers'
  BY <1>1, <1>4, HandlerReturnsTypes, ResultsStay DEF HandlerReturns
<1>5. ASSUME NEW c \in Contexts, ReceiveReply(c)
      PROVE  Types' /\ ResultIsThePeers'
  <2>1. answered' = answered
    BY <1>5 DEF ReceiveReply
  <2>2. PICK m : m = Head(wire[Peer(c)])
    OBVIOUS
  <2>3. m \in MessageFrom(Peer(c)) /\ m.reply
    BY <1>1, <1>5, <2>1, <2>2, ReadsTypes DEF ReceiveReply, CanRead
  <2>4. CASE IsMessageReplyTo(c, m)
    BY <1>1, <1>5, <2>1, <2>2, <2>3, <2>4, ReceiveReplyTypes, UnblockResults DEF ReceiveReply
  <2>5. CASE ~IsMessageReplyTo(c, m)
    BY <1>1, <1>5, <2>1, <2>2, <2>5, ReceiveReplyTypes, ResultsStay DEF ReceiveReply
  <2> QED BY <2>4, <2>5
<1>6. ASSUME NEW c \in Contexts, QueueMessage(c)
      PROVE  Types' /\ ResultIsThePeers'
  BY <1>1, <1>6, QueueMessageTypes, ResultsStay DEF QueueMessage
<1>7. ASSUME NEW c \in Contexts, OnChannelError(c)
      PROVE  Types' /\ ResultIsThePeers'
  BY <1>1, <1>7, OnChannelErrorTypes, CancelResults DEF OnChannelError
<1>8. ASSUME NEW c \in Contexts, NEW pump \in BOOLEAN, NEW timed \in BOOLEAN, Send(c, pump, timed)
      PROVE  Types' /\ ResultIsThePeers'
  BY <1>1, <1>8, SendTypes, SendResults
<1>9. ASSUME NEW r \in owed, ReplyLater(r)
      PROVE  Types' /\ ResultIsThePeers'
  BY <1>1, <1>9, ReplyLaterTypes, ResultsStay DEF ReplyLater
<1>10. ASSUME NEW t \in timers, OnSendTimeout(t)
       PROVE  Types' /\ ResultIsThePeers'
  <2>1. t.ctx \in Contexts /\ PendType
    BY DEF Types, TimersType
  <2>2. PICK ns : ns = {t.n}
    OBVIOUS
  <2>3. SignalDone(t.ctx, ns, FALSE, tasks[t.ctx[1]]) /\ answered' = answered
    BY <1>10, <2>2 DEF OnSendTimeout
  <2>4. PendType' /\ Signalled(t.ctx, ns, FALSE)
    BY <1>1, <2>1, <2>3, SignalDoneSignals
  <2> QED BY <1>1, <1>10, <2>1, <2>3, <2>4, OnSendTimeoutTypes, SignalledResults
<1>11. ASSUME NEW c \in Contexts, DeleteChannel(c)
       PROVE  Types' /\ ResultIsThePeers'
  <2>1. PICK ts : ts = OtherTasks(c)
    OBVIOUS
  <2>2. PICK ns : ns = Pending(c)
    OBVIOUS
  <2>3. SignalDone(c, ns, FALSE, ts) /\ answered' = answered
    BY <1>11, <2>1, <2>2 DEF DeleteChannel, OtherTasks
  <2>4. PendType' /\ Signalled(c, ns, FALSE)
    BY <1>1, <2>3, SignalDoneSignals DEF Types
  <2> QED BY <1>1, <1>11, <2>3, <2>4, DeleteChannelTypes, SignalledResults
<1>12. ASSUME NEW p \in Procs, Shutdown(p)
       PROVE  Types' /\ ResultIsThePeers'
  BY <1>1, <1>12, ShutdownTypes, ResultsStay DEF Shutdown
<1>13. ASSUME NEW p \in Procs, Die(p)
       PROVE  Types' /\ ResultIsThePeers'
  BY <1>1, <1>13, DieTypes, DieResults
<1>14. CASE Progress
  BY <1>2, <1>3, <1>4, <1>5, <1>6, <1>7, <1>14 DEF Progress
<1>15. CASE Choice
  <2>1. ASSUME NEW feature PROVE May(feature) \subseteq BOOLEAN /\ (feature \in Features) \in BOOLEAN
    <3>1. (feature \in Features) \in BOOLEAN
      OBVIOUS
    <3>2. May(feature) \subseteq BOOLEAN
      BY <3>1, Zenon DEF May
    <3> QED BY <3>1, <3>2
  <2> QED BY <1>4, <1>8, <1>9, <1>10, <1>11, <1>12, <1>13, <1>15, <2>1 DEF Choice
<1> QED BY <1>14, <1>15 DEF Next

LEMMA StutterKeepsTypes ==
  ASSUME Types, ResultIsThePeers, UNCHANGED vars
  PROVE  Types' /\ ResultIsThePeers'
<1>1. /\ UNCHANGED <<stack, tasks, queue, armed, doneWatch, pend, replies, ipc, signalling, timers, wire, conn, sent>>
      /\ UNCHANGED <<taskPending, event, shut>> /\ UNCHANGED <<cleared, owed, dead, answered, scenario>>
  BY DEF vars
<1>2. SetsType'
  BY <1>1, SameScenario DEF Types, SetsType
<1>3. ResultIsThePeers'
  BY <1>1, ResultsStay
<1> QED BY <1>1, <1>2, <1>3, TypesStay DEF Types

LEMMA InitResults ==
  ASSUME Init
  PROVE  ResultIsThePeers
BY DEF Init, ResultIsThePeers

\* Whatever the processes send to each other, however their loops nest, and whichever of
\* them time out, close channels, shut down or die: what a thread keeps is about its own
\* ends of its channels, and what a pipe carries are its writer's own requests and answers.
THEOREM ThreadsKeepTheirOwn == Spec => []Types
<1>1. Init => Types /\ ResultIsThePeers
  BY InitTypes, InitResults
<1>2. Types /\ ResultIsThePeers /\ [Next]_vars => Types' /\ ResultIsThePeers'
  BY StepKeepsTypes, StutterKeepsTypes
<1> QED BY <1>1, <1>2, PTL DEF Spec

\* A Send returns true only when the peer has answered this very message with success,
\* neither because of a time-out or a cancellation nor because of a late answer to another.
THEOREM SendSucceedsWhenAnswered == Spec => []ResultIsThePeers
<1>1. Init => Types /\ ResultIsThePeers
  BY InitTypes, InitResults
<1>2. Types /\ ResultIsThePeers /\ [Next]_vars => Types' /\ ResultIsThePeers'
  BY StepKeepsTypes, StutterKeepsTypes
<1> QED BY <1>1, <1>2, PTL DEF Spec

(***************************************************************************)
(* The calls of a listener thread.                                         *)
(***************************************************************************)
\* What a frame stands on.
StandsOn(f, g) ==
  CASE f.k = "send" -> g.k \in {"handler", "loop"}
    [] f.k = "dispatch" -> g.k = "loop" \/ (g.k = "send" /\ g.ctx = f.ctx)
    [] f.k = "handler" -> g.k = "dispatch"
    [] f.k = "loop" -> g.k = "send" /\ g.ctx = f.ctx /\ g.n = f.n

\* A stack of calls of a process that has sent |m| messages.
GoodStack(s, m) ==
  /\ s # <<>> => s[1].k \in {"send", "dispatch"}
  /\ \A i \in 1..(Len(s) - 1) : StandsOn(s[i + 1], s[i])
  /\ \A i \in 1..Len(s) : s[i].k = "loop" /\ s[i].quit => i = Len(s)
  /\ \A i \in 1..Len(s) : s[i].k = "send" => s[i].n <= m
  /\ \A i, j \in 1..Len(s) : s[i].k = "send" /\ s[j].k = "send" /\ i < j => s[i].n < s[j].n

IsSend(f, c, n) == f.k = "send" /\ f.ctx = c /\ f.n = n
SendsIn(s, c, n) == \E i \in 1..Len(s) : IsSend(s[i], c, n)
Awaits(q, n) == \E i \in 1..Len(q) : q[i].n = n
Increasing(q) == \A i, j \in 1..Len(q) : i < j => q[i].n < q[j].n

\* The sends of a context are the ones that await an answer.
Nesting ==
  /\ \A p \in Procs : GoodStack(stack[p], sent[p])
  /\ \A c \in Contexts :
       /\ Increasing(pend[c])
       /\ \A n \in Nat : Awaits(pend[c], n) <=> SendsIn(stack[c[1]], c, n)

LEMMA Pushed ==
  ASSUME NEW p, NEW s \in Seq(FrameOf(p)), NEW f \in FrameOf(p), NEW t, t = Append(s, f),
         NEW m \in Nat, NEW n \in Nat, GoodStack(s, m), m <= n,
         s = <<>> => f.k \in {"send", "dispatch"},
         s # <<>> => StandsOn(f, Last(s)) /\ ~(Last(s).k = "loop" /\ Last(s).quit),
         f.k = "send" => m < f.n /\ f.n <= n
  PROVE  GoodStack(t, n)
<1>1. /\ t \in Seq(FrameOf(p)) /\ Len(t) = Len(s) + 1 /\ Len(s) \in Nat /\ t[Len(s) + 1] = f
      /\ \A i \in 1..Len(s) : t[i] = s[i]
  BY AppendProperties
<1>2. \A i \in 1..Len(s) : s[i].k = "send" => s[i].n \in Nat
  BY Kinds
<1>3. t[1].k \in {"send", "dispatch"}
  <2>1. CASE s = <<>>
    BY <2>1, <1>1
  <2>2. CASE s # <<>>
    <3>1. 1 \in 1..Len(s)
      BY <2>2, EmptySeq
    <3> QED BY <3>1, <2>2, <1>1 DEF GoodStack
  <2> QED BY <2>1, <2>2
<1>4. ASSUME NEW i \in 1..Len(s) PROVE StandsOn(t[i + 1], t[i])
  <2>1. CASE i = Len(s)
    <3>1. s # <<>> /\ Last(s) = s[Len(s)]
      BY <1>1 DEF Last
    <3>2. t[i + 1] = f /\ t[i] = Last(s)
      BY <3>1, <2>1, <1>1
    <3> QED BY <3>1, <3>2
  <2>2. CASE i # Len(s)
    <3>1. i \in 1..(Len(s) - 1) /\ t[i] = s[i] /\ t[i + 1] = s[i + 1]
      BY <2>2, <1>1
    <3>2. StandsOn(s[i + 1], s[i])
      BY <3>1 DEF GoodStack
    <3> QED BY <3>1, <3>2
  <2> QED BY <2>1, <2>2
<1>5. ASSUME NEW i \in 1..Len(s) PROVE ~(t[i].k = "loop" /\ t[i].quit)
  <2>1. s # <<>> /\ Last(s) = s[Len(s)]
    BY <1>1 DEF Last
  <2>2. t[i] = s[i] /\ (s[i].k = "loop" /\ s[i].quit => i = Len(s))
    BY <1>1 DEF GoodStack
  <2> QED BY <2>1, <2>2
<1>6. \A i \in 1..Len(t) : t[i].k = "send" => t[i].n <= n
  <2>1. ASSUME NEW i \in 1..Len(s), t[i].k = "send" PROVE t[i].n <= n
    <3>1. t[i] = s[i] /\ s[i].n \in Nat /\ s[i].n <= m
      BY <2>1, <1>1, <1>2 DEF GoodStack
    <3> QED BY <3>1
  <2> QED BY <2>1, <1>1
<1>7. ASSUME NEW i \in 1..Len(t), NEW j \in 1..Len(t), t[i].k = "send", t[j].k = "send", i < j
      PROVE  t[i].n < t[j].n
  <2>1. i \in 1..Len(s) /\ t[i] = s[i] /\ s[i].n \in Nat /\ s[i].n <= m
    BY <1>1, <1>2, <1>7 DEF GoodStack
  <2>2. CASE j \in 1..Len(s)
    BY <2>1, <2>2, <1>1, <1>7 DEF GoodStack
  <2>3. CASE j = Len(s) + 1
    <3>1. f.n \in Nat /\ m < f.n /\ t[j] = f
      BY <2>3, <1>1, <1>7, Kinds
    <3> QED BY <2>1, <3>1
  <2> QED BY <2>2, <2>3, <1>1
<1>8. \A i \in 1..(Len(t) - 1) : StandsOn(t[i + 1], t[i])
  BY <1>1, <1>4
<1>9. \A i \in 1..Len(t) : t[i].k = "loop" /\ t[i].quit => i = Len(t)
  BY <1>1, <1>5
<1> QED BY <1>3, <1>6, <1>7, <1>8, <1>9 DEF GoodStack

LEMMA Popped ==
  ASSUME NEW p, NEW s \in Seq(FrameOf(p)), s # <<>>, NEW t, t = Front(s), NEW m, GoodStack(s, m)
  PROVE  GoodStack(t, m)
<1>1. /\ t \in Seq(FrameOf(p)) /\ Len(t) = Len(s) - 1 /\ Len(s) \in Nat \ {0}
      /\ \A i \in 1..(Len(s) - 1) : t[i] = s[i]
  BY FrontAndLast
<1>2. \A i \in 1..Len(t) : i \in 1..Len(s) /\ t[i] = s[i] /\ i # Len(s)
  BY <1>1
<1>3. t # <<>> => t[1].k \in {"send", "dispatch"}
  <2>1. t # <<>> => 1 \in 1..Len(t)
    BY <1>1, EmptySeq
  <2> QED BY <2>1, <1>2 DEF GoodStack
<1>4. \A i \in 1..(Len(t) - 1) : StandsOn(t[i + 1], t[i])
  <2>1. ASSUME NEW i \in 1..(Len(t) - 1) PROVE StandsOn(t[i + 1], t[i])
    <3>1. i \in 1..(Len(s) - 1) /\ i \in 1..Len(t) /\ i + 1 \in 1..Len(t)
      BY <1>1
    <3>2. StandsOn(s[i + 1], s[i])
      BY <3>1 DEF GoodStack
    <3> QED BY <3>1, <3>2, <1>2
  <2> QED BY <2>1
<1>5. \A i \in 1..Len(t) : t[i].k = "loop" /\ t[i].quit => i = Len(t)
  BY <1>2 DEF GoodStack
<1>6. \A i \in 1..Len(t) : t[i].k = "send" => t[i].n <= m
  BY <1>2 DEF GoodStack
<1>7. \A i, j \in 1..Len(t) : t[i].k = "send" /\ t[j].k = "send" /\ i < j => t[i].n < t[j].n
  BY <1>2 DEF GoodStack
<1> QED BY <1>3, <1>4, <1>5, <1>6, <1>7 DEF GoodStack

\* The innermost frame changes, and keeps its kind, its context and its number.
LEMMA Turned ==
  ASSUME NEW p, NEW s \in Seq(FrameOf(p)), s # <<>>, NEW f \in FrameOf(p), NEW t, t = Append(Front(s), f),
         NEW m \in Nat, GoodStack(s, m),
         f.k = Last(s).k, f.k \in {"dispatch", "loop"}, f.ctx = Last(s).ctx, f.k = "loop" => f.n = Last(s).n
  PROVE  GoodStack(t, m)
<1>1. PICK u : u = Front(s)
  OBVIOUS
<1>2. /\ u \in Seq(FrameOf(p)) /\ Len(u) = Len(s) - 1 /\ Len(s) \in Nat \ {0}
      /\ \A i \in 1..(Len(s) - 1) : u[i] = s[i]
      /\ Last(s) = s[Len(s)]
  BY <1>1, FrontAndLast
<1>3. GoodStack(u, m)
  BY <1>1, Popped
<1>6. f.k # "send" /\ m <= m /\ t = Append(u, f)
  BY <1>1
<1>4. CASE u = <<>>
  <2>1. Len(s) = 1
    BY <1>2, <1>4
  <2>2. f.k \in {"send", "dispatch"}
    BY <2>1, <1>2 DEF GoodStack
  <2> QED BY <1>2, <1>3, <1>4, <1>6, <2>2, Pushed
<1>5. CASE u # <<>>
  <2>1. Len(u) \in 1..(Len(s) - 1) /\ Len(u) + 1 = Len(s) /\ Last(u) = u[Len(u)] /\ u[Len(u)] = s[Len(u)]
    BY <1>2, <1>5, EmptySeq DEF Last
  <2>2. StandsOn(Last(s), Last(u))
    BY <1>2, <2>1 DEF GoodStack
  <2>3. StandsOn(f, Last(u))
    BY <2>2 DEF StandsOn
  <2>4. ~(Last(u).k = "loop" /\ Last(u).quit)
    BY <1>2, <2>1 DEF GoodStack
  <2> QED BY <1>2, <1>3, <1>5, <1>6, <2>3, <2>4, Pushed
<1> QED BY <1>4, <1>5

(***************************************************************************)
(* The sends on a stack.                                                   *)
(***************************************************************************)
LEMMA PushedSends ==
  ASSUME NEW p, NEW s \in Seq(FrameOf(p)), NEW f \in FrameOf(p), NEW t, t = Append(s, f), NEW c, NEW n
  PROVE  SendsIn(t, c, n) <=> SendsIn(s, c, n) \/ IsSend(f, c, n)
<1>1. /\ Len(t) = Len(s) + 1 /\ Len(s) \in Nat /\ t[Len(s) + 1] = f
      /\ \A i \in 1..Len(s) : t[i] = s[i] /\ i \in 1..Len(t)
      /\ \A i \in 1..Len(t) : i \in 1..Len(s) \/ i = Len(s) + 1
  <2>1. Len(t) = Len(s) + 1 /\ Len(s) \in Nat /\ t[Len(s) + 1] = f /\ \A i \in 1..Len(s) : t[i] = s[i]
    BY AppendProperties
  <2> QED BY <2>1
<1>2. Len(s) + 1 \in 1..Len(t)
  BY <1>1
<1>3. SendsIn(t, c, n) => SendsIn(s, c, n) \/ IsSend(f, c, n)
  BY <1>1 DEF SendsIn
<1>4. SendsIn(s, c, n) => SendsIn(t, c, n)
  BY <1>1 DEF SendsIn
<1>5. IsSend(f, c, n) => SendsIn(t, c, n)
  BY <1>1, <1>2 DEF SendsIn
<1> QED BY <1>3, <1>4, <1>5

LEMMA PoppedSends ==
  ASSUME NEW p, NEW s \in Seq(FrameOf(p)), s # <<>>, NEW t, t = Front(s), NEW c, NEW n
  PROVE  SendsIn(s, c, n) <=> SendsIn(t, c, n) \/ IsSend(Last(s), c, n)
<1>1. /\ Len(t) = Len(s) - 1 /\ Len(s) \in Nat \ {0} /\ Last(s) = s[Len(s)]
      /\ \A i \in 1..(Len(s) - 1) : t[i] = s[i]
  BY FrontAndLast
<1>2. /\ \A i \in 1..Len(t) : t[i] = s[i] /\ i \in 1..Len(s)
      /\ \A i \in 1..Len(s) : i \in 1..Len(t) \/ i = Len(s)
      /\ Len(s) \in 1..Len(s)
  BY <1>1
<1> QED BY <1>1, <1>2 DEF SendsIn

LEMMA TurnedSends ==
  ASSUME NEW p, NEW s \in Seq(FrameOf(p)), s # <<>>, NEW f \in FrameOf(p), NEW t, t = Append(Front(s), f),
         Last(s).k # "send", f.k # "send", NEW c, NEW n
  PROVE  SendsIn(t, c, n) <=> SendsIn(s, c, n)
<1>1. PICK u : u = Front(s)
  OBVIOUS
<1>2. u \in Seq(FrameOf(p)) /\ (SendsIn(s, c, n) <=> SendsIn(u, c, n) \/ IsSend(Last(s), c, n))
  BY <1>1, FrontType, PoppedSends
<1>3. SendsIn(t, c, n) <=> SendsIn(u, c, n) \/ IsSend(f, c, n)
  BY <1>1, <1>2, PushedSends
<1> QED BY <1>2, <1>3 DEF IsSend

\* The innermost send of the stack is the innermost one of its context.
LEMMA InnermostSend ==
  ASSUME NEW p, NEW s \in Seq(FrameOf(p)), s # <<>>, NEW m, GoodStack(s, m), Last(s).k = "send",
         NEW c, c = Last(s).ctx, NEW q \in Seq(Awaited), Increasing(q),
         \A n \in Nat : Awaits(q, n) <=> SendsIn(s, c, n)
  PROVE  q # <<>> /\ Last(q).n = Last(s).n
<1>1. Len(s) \in Nat \ {0} /\ Last(s) = s[Len(s)] /\ Last(s) \in FrameOf(p)
  BY FrontAndLast
<1>2. PICK n \in Nat : n = Last(s).n
  BY <1>1, Kinds
<1>3. SendsIn(s, c, n)
  <2>1. IsSend(s[Len(s)], c, n) /\ Len(s) \in 1..Len(s)
    BY <1>1, <1>2 DEF IsSend
  <2> QED BY <2>1 DEF SendsIn
<1>4. PICK i \in 1..Len(q) : q[i].n = n
  BY <1>3 DEF Awaits
<1>5. q # <<>>
  BY <1>4
<1>6. Len(q) \in Nat \ {0} /\ Last(q) = q[Len(q)] /\ Last(q) \in Awaited
  BY <1>5, FrontAndLast
<1>7. PICK l \in Nat : l = Last(q).n
  BY <1>6 DEF Awaited
<1>8. Awaits(q, l)
  BY <1>6, <1>7 DEF Awaits
<1>9. PICK j \in 1..Len(s) : IsSend(s[j], c, l)
  BY <1>8 DEF SendsIn
<1>10. l <= n
  <2>1. CASE j = Len(s)
    BY <2>1, <1>1, <1>2, <1>9 DEF IsSend
  <2>2. CASE j # Len(s)
    <3>1. j < Len(s) /\ Len(s) \in 1..Len(s)
      BY <2>2, <1>1, <1>9
    <3>2. s[j].n < s[Len(s)].n
      BY <3>1, <1>1, <1>9 DEF GoodStack, IsSend
    <3> QED BY <3>2, <1>1, <1>2, <1>9 DEF IsSend
  <2> QED BY <2>1, <2>2
<1>11. n <= l
  <2>1. CASE i = Len(q)
    BY <2>1, <1>4, <1>6, <1>7
  <2>2. CASE i # Len(q)
    <3>1. i < Len(q) /\ Len(q) \in 1..Len(q)
      BY <2>2, <1>4, <1>6
    <3>2. q[i].n < q[Len(q)].n
      BY <3>1 DEF Increasing
    <3> QED BY <3>2, <1>4, <1>6, <1>7
  <2> QED BY <2>1, <2>2
<1> QED BY <1>2, <1>5, <1>7, <1>10, <1>11

\* What is awaited after the innermost send is popped.
LEMMA PoppedAwaits ==
  ASSUME NEW q \in Seq(Awaited), q # <<>>, Increasing(q), NEW r, r = Front(q)
  PROVE  Increasing(r) /\ \A n \in Nat : Awaits(r, n) <=> Awaits(q, n) /\ n # Last(q).n
<1>1. /\ Len(r) = Len(q) - 1 /\ Len(q) \in Nat \ {0} /\ Last(q) = q[Len(q)]
      /\ \A i \in 1..(Len(q) - 1) : r[i] = q[i]
  BY FrontAndLast
<1>2. /\ \A i \in 1..Len(r) : r[i] = q[i] /\ i \in 1..Len(q) /\ i < Len(q)
      /\ \A i \in 1..Len(q) : i \in 1..Len(r) \/ i = Len(q)
      /\ Len(q) \in 1..Len(q)
  BY <1>1
<1>3. Increasing(r)
  BY <1>2 DEF Increasing
<1>4. \A i \in 1..Len(q) : q[i].n \in Nat
  <2>1. \A i \in 1..Len(q) : q[i] \in Awaited
    OBVIOUS
  <2> QED BY <2>1 DEF Awaited
<1>5. \A i \in 1..Len(r) : r[i].n # Last(q).n
  <2>1. ASSUME NEW i \in 1..Len(r) PROVE r[i].n # Last(q).n
    <3>1. q[i].n < q[Len(q)].n /\ q[i].n \in Nat /\ q[Len(q)].n \in Nat
      BY <1>2, <1>4 DEF Increasing
    <3> QED BY <3>1, <1>1, <1>2
  <2> QED BY <2>1
<1>6. ASSUME NEW n \in Nat PROVE Awaits(r, n) <=> Awaits(q, n) /\ n # Last(q).n
  <2>1. Awaits(r, n) => Awaits(q, n) /\ n # Last(q).n
    BY <1>2, <1>5 DEF Awaits
  <2>2. Awaits(q, n) /\ n # Last(q).n => Awaits(r, n)
    BY <1>1, <1>2 DEF Awaits
  <2> QED BY <2>1, <2>2
<1> QED BY <1>3, <1>6

\* A send is pushed on both.
LEMMA PushedAwaits ==
  ASSUME NEW q \in Seq(Awaited), NEW x \in Awaited, NEW r, r = Append(q, x), Increasing(q),
         \A n \in Nat : Awaits(q, n) => n < x.n
  PROVE  Increasing(r) /\ \A n \in Nat : Awaits(r, n) <=> Awaits(q, n) \/ n = x.n
<1>1. Len(r) = Len(q) + 1 /\ Len(q) \in Nat /\ r[Len(q) + 1] = x /\ \A i \in 1..Len(q) : r[i] = q[i]
  BY AppendProperties
<1>2. /\ \A i \in 1..Len(q) : r[i] = q[i] /\ i \in 1..Len(r)
      /\ \A i \in 1..Len(r) : i \in 1..Len(q) \/ i = Len(q) + 1
      /\ Len(q) + 1 \in 1..Len(r)
  BY <1>1
<1>3. \A i \in 1..Len(q) : q[i].n < x.n
  <2>1. \A i \in 1..Len(q) : q[i] \in Awaited
    OBVIOUS
  <2>2. \A i \in 1..Len(q) : q[i].n \in Nat /\ Awaits(q, q[i].n)
    BY <2>1 DEF Awaited, Awaits
  <2> QED BY <2>2
<1>4. ASSUME NEW i \in 1..Len(r), NEW j \in 1..Len(r), i < j PROVE r[i].n < r[j].n
  <2>1. i \in 1..Len(q)
    BY <1>1, <1>4
  <2>2. CASE j \in 1..Len(q)
    BY <2>1, <2>2, <1>2, <1>4 DEF Increasing
  <2>3. CASE j = Len(q) + 1
    BY <2>1, <2>3, <1>1, <1>3
  <2> QED BY <2>2, <2>3, <1>2
<1>5. \A n \in Nat : Awaits(r, n) <=> Awaits(q, n) \/ n = x.n
  BY <1>1, <1>2 DEF Awaits
<1> QED BY <1>4, <1>5 DEF Increasing

(***************************************************************************)
(* How the steps keep the sends nested.                                    *)
(***************************************************************************)
\* The stacks stay, and so do the sends that await an answer.
LEMMA NestingStays ==
  ASSUME Nesting, scenario' = scenario, UNCHANGED <<stack, sent>>,
         \A c \in Contexts :
           Len(pend'[c]) = Len(pend[c]) /\ \A i \in 1..Len(pend[c]) : pend'[c][i].n = pend[c][i].n
  PROVE  Nesting'
<1>1. \A p \in Procs : GoodStack(stack'[p], sent'[p])
  BY DEF Nesting
<1>2. ASSUME NEW c \in Contexts
      PROVE  Increasing(pend'[c]) /\ \A n \in Nat : Awaits(pend'[c], n) <=> SendsIn(stack'[c[1]], c, n)
  <2>1. Increasing(pend[c]) /\ \A n \in Nat : Awaits(pend[c], n) <=> SendsIn(stack[c[1]], c, n)
    BY DEF Nesting
  <2>2. Increasing(pend'[c])
    BY <2>1 DEF Increasing
  <2>3. \A n \in Nat : Awaits(pend'[c], n) <=> Awaits(pend[c], n)
    BY DEF Awaits
  <2> QED BY <2>1, <2>2, <2>3
<1> QED BY <1>1, <1>2, SameScenario DEF Nesting

\* A frame that is no send comes, goes or changes.
LEMMA NestingTurns ==
  ASSUME Types, Nesting, scenario' = scenario, NEW p \in Procs, NEW t, stack' = [stack EXCEPT ![p] = t],
         UNCHANGED <<pend, sent>>, GoodStack(t, sent[p]),
         \A c, n : SendsIn(t, c, n) <=> SendsIn(stack[p], c, n)
  PROVE  Nesting'
<1>1. \A q \in Procs : stack'[q] = IF q = p THEN t ELSE stack[q]
  BY DEF Types, StackType
<1>2. \A q \in Procs : GoodStack(stack'[q], sent'[q])
  BY <1>1 DEF Nesting
<1>3. ASSUME NEW c \in Contexts
      PROVE  Increasing(pend'[c]) /\ \A n \in Nat : Awaits(pend'[c], n) <=> SendsIn(stack'[c[1]], c, n)
  <2>1. Increasing(pend[c]) /\ \A n \in Nat : Awaits(pend[c], n) <=> SendsIn(stack[c[1]], c, n)
    BY DEF Nesting
  <2>2. c[1] \in Procs
    BY Pairs DEF Types, SetsType
  <2>3. \A n : SendsIn(stack'[c[1]], c, n) <=> SendsIn(stack[c[1]], c, n)
    BY <1>1, <2>2
  <2> QED BY <2>1, <2>3
<1> QED BY <1>2, <1>3, SameScenario DEF Nesting

\* The innermost send returns: |u| is the stack with the send at its end.
LEMMA NestingPops ==
  ASSUME Types, Nesting, scenario' = scenario, NEW p \in Procs, NEW u \in Seq(FrameOf(p)), u # <<>>,
         Last(u).k = "send", GoodStack(u, sent[p]), \A c, n : SendsIn(u, c, n) <=> SendsIn(stack[p], c, n),
         NEW d, d = Last(u).ctx,
         NEW t, t = Front(u), stack' = [stack EXCEPT ![p] = t],
         NEW q, q = Front(pend[d]), pend' = [pend EXCEPT ![d] = q], UNCHANGED sent
  PROVE  Nesting' /\ pend[d] # <<>> /\ Last(pend[d]).n = Last(u).n
<1>1. d \in Contexts /\ d[1] = p /\ Last(u).n \in Nat
  BY FrontAndLast, Kinds DEF ContextsOf
<1>2. pend[d] \in Seq(Awaited) /\ Increasing(pend[d]) /\ \A n \in Nat : Awaits(pend[d], n) <=> SendsIn(u, d, n)
  BY <1>1 DEF Nesting, Types, PendType
<1>3. pend[d] # <<>> /\ Last(pend[d]).n = Last(u).n
  BY <1>2, InnermostSend
<1>4. Increasing(q) /\ \A n \in Nat : Awaits(q, n) <=> Awaits(pend[d], n) /\ n # Last(pend[d]).n
  BY <1>2, <1>3, PoppedAwaits
<1>5. GoodStack(t, sent[p])
  BY Popped
<1>6. \A r \in Procs : stack'[r] = IF r = p THEN t ELSE stack[r]
  BY DEF Types, StackType
<1>7. \A c \in Contexts : pend'[c] = IF c = d THEN q ELSE pend[c]
  BY DEF Types, PendType
<1>8. \A c, n : SendsIn(stack[p], c, n) <=> SendsIn(t, c, n) \/ IsSend(Last(u), c, n)
  BY PoppedSends
<1>9. ~SendsIn(t, d, Last(u).n)
  <2>1. SUFFICES ASSUME NEW i \in 1..Len(t), IsSend(t[i], d, Last(u).n) PROVE FALSE
    BY DEF SendsIn
  <2>2. /\ i \in 1..Len(u) /\ Len(u) \in 1..Len(u) /\ i < Len(u)
        /\ t[i] = u[i] /\ Last(u) = u[Len(u)]
    <3>1. /\ Len(t) = Len(u) - 1 /\ Len(u) \in Nat \ {0} /\ Last(u) = u[Len(u)]
          /\ \A j \in 1..(Len(u) - 1) : t[j] = u[j]
      BY FrontAndLast
    <3>2. i \in 1..(Len(u) - 1)
      BY <3>1
    <3> QED BY <3>1, <3>2
  <2>3. u[i].n < u[Len(u)].n
    BY <2>1, <2>2 DEF GoodStack, IsSend
  <2> QED BY <2>1, <2>2, <2>3, <1>1 DEF IsSend
<1>10. ASSUME NEW c \in Contexts
       PROVE  Increasing(pend'[c]) /\ \A n \in Nat : Awaits(pend'[c], n) <=> SendsIn(stack'[c[1]], c, n)
  <2>1. Increasing(pend[c]) /\ \A n \in Nat : Awaits(pend[c], n) <=> SendsIn(stack[c[1]], c, n)
    BY DEF Nesting
  <2>2. c[1] \in Procs
    BY Pairs DEF Types, SetsType
  <2>3. CASE c = d
    <3>1. pend'[c] = q /\ stack'[c[1]] = t
      BY <2>3, <1>1, <1>6, <1>7
    <3>2. \A n \in Nat : Awaits(q, n) <=> SendsIn(t, c, n)
      BY <2>1, <2>3, <1>1, <1>3, <1>4, <1>8, <1>9 DEF IsSend
    <3> QED BY <3>1, <3>2, <1>4
  <2>4. CASE c # d
    <3>1. pend'[c] = pend[c]
      BY <2>4, <1>7
    <3>2. \A n \in Nat : SendsIn(stack'[c[1]], c, n) <=> SendsIn(stack[c[1]], c, n)
      BY <2>2, <2>4, <1>6, <1>8 DEF IsSend
    <3> QED BY <2>1, <3>1, <3>2
  <2> QED BY <2>3, <2>4
<1>11. \A r \in Procs : GoodStack(stack'[r], sent'[r])
  BY <1>5, <1>6 DEF Nesting
<1>12. Nesting'
  BY <1>10, <1>11, SameScenario DEF Nesting
<1> QED BY <1>3, <1>12

\* A new send.
LEMMA NestingSends ==
  ASSUME Types, Nesting, scenario' = scenario, NEW c \in Contexts, NEW pump \in BOOLEAN, NEW timed,
         Send(c, pump, timed)
  PROVE  Nesting'
<1>1. PICK p \in Procs : p = c[1] /\ c \in ContextsOf(p)
  BY Pairs DEF Types, SetsType
<1>2. PICK n \in Nat \ {0} : n = sent[p] + 1 /\ sent[p] < n /\ sent[p] \in Nat
  BY <1>1 DEF Types, SentType
<1>3. PICK f \in FrameOf(p) : f = [k |-> "send", ctx |-> c, n |-> n, pump |-> pump]
  BY <1>1 DEF FrameOf
<1>4. PICK g \in FrameOf(p) : g = [k |-> "dispatch", ctx |-> c, delayed |-> <<>>]
  BY <1>1, DispatchFrame
<1>5. PICK u : u = Append(stack[p], f)
  OBVIOUS
<1>6. PICK t : t = Append(u, g)
  OBVIOUS
<1>7. stack[p] \in Seq(FrameOf(p)) /\ u \in Seq(FrameOf(p)) /\ u # <<>> /\ Last(u) = f
  <2>1. stack[p] \in Seq(FrameOf(p))
    BY DEF Types, StackType
  <2>2. u \in Seq(FrameOf(p)) /\ Len(u) = Len(stack[p]) + 1 /\ u[Len(stack[p]) + 1] = f
    BY <2>1, <1>5, AppendProperties
  <2> QED BY <2>1, <2>2, EmptySeq DEF Last
<1>8. stack' = [stack EXCEPT ![p] = t]
  <2>1. stack' = [stack EXCEPT ![p] = stack[p] \o <<f, g>>]
    BY <1>1, <1>2, <1>3, <1>4 DEF Send
  <2>2. stack[p] \o <<f, g>> = t
    BY <1>5, <1>6, <1>7
  <2> QED BY <2>1, <2>2
<1>9. sent' = [sent EXCEPT ![p] = n] /\ pend' = [pend EXCEPT ![c] = Append(@, [n |-> n, done |-> FALSE, result |-> FALSE])]
  BY <1>1, <1>2 DEF Send
<1>10. GoodStack(stack[p], sent[p])
  BY DEF Nesting
<1>11. GoodStack(u, n)
  <2>1. stack[p] # <<>> => Last(stack[p]).k \in {"handler", "loop"} /\ ~(Last(stack[p]).k = "loop" /\ Last(stack[p]).quit)
    BY <1>1 DEF Send, Running, InLoop, TopIs, Top
  <2>2. f.k = "send" /\ f.n = n /\ n <= n /\ sent[p] <= n
    BY <1>2, <1>3
  <2>3. stack[p] # <<>> => StandsOn(f, Last(stack[p])) /\ ~(Last(stack[p]).k = "loop" /\ Last(stack[p]).quit)
    BY <2>1, <2>2 DEF StandsOn
  <2>4. f.k = "send" => sent[p] < f.n /\ f.n <= n
    BY <1>2, <2>2
  <2>5. stack[p] = <<>> => f.k \in {"send", "dispatch"}
    BY <2>2
  <2>6. sent[p] <= n
    BY <2>2
  <2>7. n \in Nat /\ sent[p] \in Nat /\ f \in FrameOf(p)
    BY <1>2
  <2> QED BY ONLY <1>5, <1>7, <1>10, <2>3, <2>4, <2>5, <2>6, <2>7, Pushed
<1>12. GoodStack(t, n)
  <2>1. g.k = "dispatch" /\ f.k = "send" /\ g.ctx = f.ctx /\ n <= n
    BY <1>2, <1>3, <1>4
  <2>2. StandsOn(g, Last(u)) /\ Last(u).k # "loop"
    BY <2>1, <1>7 DEF StandsOn
  <2>3. u # <<>> => StandsOn(g, Last(u)) /\ ~(Last(u).k = "loop" /\ Last(u).quit)
    BY <2>2
  <2>4. g.k = "send" => n < g.n /\ g.n <= n
    BY <2>1
  <2>5. u = <<>> => g.k \in {"send", "dispatch"}
    BY <2>1
  <2>6. n <= n
    BY <2>1
  <2>7. n \in Nat /\ g \in FrameOf(p)
    BY <1>2
  <2> QED BY ONLY <1>6, <1>7, <1>11, <2>3, <2>4, <2>5, <2>6, <2>7, Pushed
<1>13. \A d, m : SendsIn(t, d, m) <=> SendsIn(stack[p], d, m) \/ (d = c /\ m = n)
  <2>1. \A d, m : ~IsSend(g, d, m) /\ (IsSend(f, d, m) <=> d = c /\ m = n)
    BY <1>3, <1>4 DEF IsSend
  <2>2. \A d, m : SendsIn(u, d, m) <=> SendsIn(stack[p], d, m) \/ IsSend(f, d, m)
    BY <1>5, <1>7, PushedSends
  <2>3. \A d, m : SendsIn(t, d, m) <=> SendsIn(u, d, m) \/ IsSend(g, d, m)
    BY <1>6, <1>7, PushedSends
  <2> QED BY <2>1, <2>2, <2>3
<1>14. PICK x \in Awaited : x = [n |-> n, done |-> FALSE, result |-> FALSE]
  BY DEF Awaited
<1>15. PICK q : q = Append(pend[c], x)
  OBVIOUS
<1>16. Increasing(pend[c]) /\ \A m \in Nat : Awaits(pend[c], m) <=> SendsIn(stack[p], c, m)
  BY <1>1 DEF Nesting
<1>17. \A m \in Nat : Awaits(pend[c], m) => m < n
  <2>1. ASSUME NEW m \in Nat, SendsIn(stack[p], c, m) PROVE m < n
    <3>1. PICK i \in 1..Len(stack[p]) : IsSend(stack[p][i], c, m)
      BY <2>1 DEF SendsIn
    <3>2. m <= sent[p]
      BY <3>1, <1>10 DEF GoodStack, IsSend
    <3> QED BY <3>2, <1>2
  <2> QED BY <2>1, <1>16
<1>18. Increasing(q) /\ \A m \in Nat : Awaits(q, m) <=> Awaits(pend[c], m) \/ m = n
  <2>1. pend[c] \in Seq(Awaited) /\ x.n = n
    BY <1>14 DEF Types, PendType
  <2> QED BY <2>1, <1>15, <1>16, <1>17, PushedAwaits
<1>19. \A d \in Contexts : pend'[d] = IF d = c THEN q ELSE pend[d]
  BY <1>9, <1>14, <1>15 DEF Types, PendType
<1>20. \A r \in Procs : stack'[r] = (IF r = p THEN t ELSE stack[r]) /\ sent'[r] = (IF r = p THEN n ELSE sent[r])
  BY <1>8, <1>9 DEF Types, StackType, SentType
<1>21. ASSUME NEW d \in Contexts
       PROVE  Increasing(pend'[d]) /\ \A m \in Nat : Awaits(pend'[d], m) <=> SendsIn(stack'[d[1]], d, m)
  <2>1. d[1] \in Procs /\ Increasing(pend[d]) /\ \A m \in Nat : Awaits(pend[d], m) <=> SendsIn(stack[d[1]], d, m)
    BY Pairs DEF Types, SetsType, Nesting
  <2>2. CASE d = c
    BY <2>2, <1>1, <1>13, <1>16, <1>18, <1>19, <1>20
  <2>3. CASE d # c
    BY <2>1, <2>3, <1>13, <1>19, <1>20
  <2> QED BY <2>2, <2>3
<1>22. \A r \in Procs : GoodStack(stack'[r], sent'[r])
  BY <1>12, <1>20 DEF Nesting
<1> QED BY <1>21, <1>22, SameScenario DEF Nesting

LEMMA NestingDies ==
  ASSUME Types, Nesting, scenario' = scenario, NEW p \in Procs, Die(p)
  PROVE  Nesting'
<1>1. /\ \A q \in Procs : stack'[q] = (IF q = p THEN <<>> ELSE stack[q]) /\ sent'[q] = sent[q]
      /\ \A c \in Contexts : pend'[c] = IF c[1] = p THEN <<>> ELSE pend[c]
  BY DEF Die, Types, StackType
<1>2. GoodStack(<<>>, sent[p]) /\ Increasing(<<>>) /\ \A c, n : ~Awaits(<<>>, n) /\ ~SendsIn(<<>>, c, n)
  BY DEF GoodStack, Increasing, Awaits, SendsIn
<1>3. \A q \in Procs : GoodStack(stack'[q], sent'[q])
  BY <1>1, <1>2 DEF Nesting
<1>4. ASSUME NEW c \in Contexts
      PROVE  Increasing(pend'[c]) /\ \A n \in Nat : Awaits(pend'[c], n) <=> SendsIn(stack'[c[1]], c, n)
  <2>1. c[1] \in Procs /\ Increasing(pend[c]) /\ \A n \in Nat : Awaits(pend[c], n) <=> SendsIn(stack[c[1]], c, n)
    BY Pairs DEF Types, SetsType, Nesting
  <2> QED BY <2>1, <1>1, <1>2
<1> QED BY <1>3, <1>4, SameScenario DEF Nesting

-----------------------------------------------------------------------------
(***************************************************************************)
(* The watcher of the innermost nested loop: it watches until it has       *)
(* called back, and its callback is posted when the loop's send is done.   *)
(***************************************************************************)
Innermost(s, i) == s[i].k = "loop" /\ \A j \in 1..Len(s) : j > i => s[j].k # "loop"

LoopWatched(s, w) ==
  \/ ~w.on /\ \A i \in 1..Len(s) : s[i].k # "loop"
  \/ \E i \in 1..Len(s) :
       /\ Innermost(s, i) /\ (w.on <=> ~s[i].quit)
       /\ w.on => w.ctx = s[i].ctx /\ w.n = s[i].n

DoneOf(p) == {t \in TaskOf(p) : t.k = "done"}

\* |D| is the set of callbacks.
CalledBack(D, w, ts) ==
  /\ Has(ts, D) <=> w.on /\ w.posted
  /\ Once(ts, D)
  /\ \A x \in D : Has(ts, {x}) => x.ctx = w.ctx /\ x.n = w.n

UndoneIn(q, n) == \E i \in 1..Len(q) : q[i].n = n /\ ~q[i].done

GoodWatch(D, s, w, ts, pd) ==
  /\ LoopWatched(s, w)
  /\ w.on => (w.posted <=> ~UndoneIn(pd[w.ctx], w.n))
  /\ CalledBack(D, w, ts)

LoopsWatched == \A p \in Procs : GoodWatch(DoneOf(p), stack[p], doneWatch[p], tasks[p], pend)

LEMMA LoopsPushed ==
  ASSUME NEW p, NEW s \in Seq(FrameOf(p)), NEW f \in FrameOf(p), f.k # "loop", NEW t, t = Append(s, f), NEW w,
         LoopWatched(s, w)
  PROVE  LoopWatched(t, w)
<1>1. Len(t) = Len(s) + 1 /\ Len(s) \in Nat /\ t[Len(s) + 1] = f /\ \A i \in 1..Len(s) : t[i] = s[i]
  BY AppendProperties
<1>2. /\ \A i \in 1..Len(s) : t[i] = s[i] /\ i \in 1..Len(t)
      /\ \A i \in 1..Len(t) : i \in 1..Len(s) \/ (i = Len(s) + 1 /\ t[i] = f)
  BY <1>1
<1>3. \A i \in 1..Len(s) : Innermost(s, i) => Innermost(t, i)
  BY <1>2 DEF Innermost
<1>4. (\A i \in 1..Len(s) : s[i].k # "loop") => \A i \in 1..Len(t) : t[i].k # "loop"
  BY <1>2
<1> QED BY <1>2, <1>3, <1>4 DEF LoopWatched

LEMMA LoopsPopped ==
  ASSUME NEW p, NEW s \in Seq(FrameOf(p)), s # <<>>, Last(s).k # "loop", NEW t, t = Front(s), NEW w,
         LoopWatched(s, w)
  PROVE  LoopWatched(t, w)
<1>1. Len(t) = Len(s) - 1 /\ Len(s) \in Nat \ {0} /\ Last(s) = s[Len(s)] /\ \A i \in 1..(Len(s) - 1) : t[i] = s[i]
  BY FrontAndLast
<1>2. /\ \A i \in 1..Len(t) : t[i] = s[i] /\ i \in 1..Len(s)
      /\ \A i \in 1..Len(s) : i \in 1..Len(t) \/ s[i].k # "loop"
  BY <1>1
<1>3. \A i \in 1..Len(s) : Innermost(s, i) => i \in 1..Len(t) /\ Innermost(t, i)
  BY <1>2 DEF Innermost
<1>4. (\A i \in 1..Len(s) : s[i].k # "loop") => \A i \in 1..Len(t) : t[i].k # "loop"
  BY <1>2
<1>5. CASE ~w.on /\ \A i \in 1..Len(s) : s[i].k # "loop"
  BY <1>4, <1>5 DEF LoopWatched
<1>6. CASE \E i \in 1..Len(s) : /\ Innermost(s, i) /\ (w.on <=> ~s[i].quit)
                                /\ w.on => w.ctx = s[i].ctx /\ w.n = s[i].n
  BY <1>2, <1>3, <1>6 DEF LoopWatched
<1> QED BY <1>5, <1>6 DEF LoopWatched

LEMMA LoopsTurned ==
  ASSUME NEW p, NEW s \in Seq(FrameOf(p)), s # <<>>, Last(s).k # "loop", NEW f \in FrameOf(p), f.k # "loop",
         NEW t, t = Append(Front(s), f), NEW w, LoopWatched(s, w)
  PROVE  LoopWatched(t, w)
<1>1. PICK u : u = Front(s)
  OBVIOUS
<1>2. u \in Seq(FrameOf(p)) /\ t = Append(u, f)
  BY <1>1, FrontType
<1>3. LoopWatched(u, w)
  BY <1>1, LoopsPopped
<1> QED BY <1>2, <1>3, LoopsPushed

\* A loop at the end of the stack is the innermost one.
LEMMA LoopOnTop ==
  ASSUME NEW p, NEW s \in Seq(FrameOf(p)), s # <<>>, Last(s).k = "loop", NEW w
  PROVE  LoopWatched(s, w) <=>
           /\ w.on <=> ~Last(s).quit
           /\ w.on => w.ctx = Last(s).ctx /\ w.n = Last(s).n
<1>1. Len(s) \in Nat \ {0} /\ Last(s) = s[Len(s)]
  BY FrontAndLast
<1>2. Len(s) \in 1..Len(s) /\ Innermost(s, Len(s))
  BY <1>1 DEF Innermost
<1>3. \A i \in 1..Len(s) : Innermost(s, i) => i = Len(s)
  <2>1. \A i \in 1..Len(s) : i = Len(s) \/ Len(s) > i
    BY <1>1
  <2> QED BY <1>1, <1>2, <2>1 DEF Innermost
<1>4. ~\A i \in 1..Len(s) : s[i].k # "loop"
  BY <1>1, <1>2
<1> QED BY <1>1, <1>2, <1>3, <1>4 DEF LoopWatched

\* The send of a loop is on the stack, below the loop.
LEMMA LoopNumber ==
  ASSUME NEW p, NEW s \in Seq(FrameOf(p)), NEW m, GoodStack(s, m), NEW i \in 1..Len(s), s[i].k = "loop"
  PROVE  s # <<>> /\ s[i].n \in Nat /\ s[i].n <= m /\ (Last(s).k = "send" => s[i].n < Last(s).n)
<1>2. s # <<>> /\ Len(s) \in Nat \ {0} /\ Last(s) = s[Len(s)] /\ i \in Nat
  <2>1. s # <<>>
    OBVIOUS
  <2>2. Len(s) \in Nat \ {0} /\ Last(s) = s[Len(s)]
    BY <2>1, FrontAndLast
  <2> QED BY <2>1, <2>2
<1>3. i # 1
  BY <1>2 DEF GoodStack
<1>4. PICK j \in 1..(Len(s) - 1) : i = j + 1
  BY <1>2, <1>3
<1>5. s[j].k = "send" /\ s[j].n = s[i].n /\ j \in 1..Len(s) /\ j < Len(s)
  <2>1. StandsOn(s[i], s[j])
    BY <1>4 DEF GoodStack
  <2>2. s[j].k = "send" /\ s[j].n = s[i].n
    BY <2>1 DEF StandsOn
  <2>3. j \in 1..Len(s) /\ j < Len(s)
    BY <1>2
  <2> QED BY <2>2, <2>3
<1>6. s[i].n \in Nat
  <2>1. s[i] \in FrameOf(p)
    OBVIOUS
  <2> QED BY <2>1, Kinds
<1>7. s[i].n <= m
  BY <1>5 DEF GoodStack
<1>8. Last(s).k = "send" => s[i].n < Last(s).n
  <2>1. Len(s) \in 1..Len(s)
    BY <1>2
  <2> QED BY <1>2, <1>5, <2>1 DEF GoodStack
<1> QED BY <1>2, <1>6, <1>7, <1>8

LEMMA LoopBelow ==
  ASSUME NEW p, NEW s \in Seq(FrameOf(p)), NEW m, GoodStack(s, m), NEW w, LoopWatched(s, w), w.on
  PROVE  s # <<>> /\ w.n \in Nat /\ w.n <= m /\ (Last(s).k = "send" => w.n < Last(s).n)
<1>1. PICK i \in 1..Len(s) : s[i].k = "loop" /\ w.ctx = s[i].ctx /\ w.n = s[i].n
  BY DEF LoopWatched, Innermost
<1> QED BY <1>1, LoopNumber

\* A loop is the one of the send it stands on.
LEMMA LoopStands ==
  ASSUME NEW p, NEW s \in Seq(FrameOf(p)), s # <<>>, NEW m, GoodStack(s, m), Last(s).k = "loop", NEW u, u = Front(s)
  PROVE  /\ u \in Seq(FrameOf(p)) /\ u # <<>> /\ GoodStack(u, m)
         /\ Last(u).k = "send" /\ Last(u).ctx = Last(s).ctx /\ Last(u).n = Last(s).n
         /\ \A c, n : SendsIn(u, c, n) <=> SendsIn(s, c, n)
<1>1. /\ u \in Seq(FrameOf(p)) /\ Len(u) = Len(s) - 1 /\ Len(s) \in Nat \ {0} /\ Last(s) = s[Len(s)]
      /\ \A i \in 1..(Len(s) - 1) : u[i] = s[i]
  BY FrontAndLast
<1>2. Len(s) # 1
  BY <1>1 DEF GoodStack
<1>3. PICK j \in 1..(Len(s) - 1) : j = Len(u) /\ j + 1 = Len(s)
  BY <1>1, <1>2
<1>4. u # <<>> /\ Last(u) = s[j]
  BY <1>1, <1>3 DEF Last
<1>5. StandsOn(s[Len(s)], s[j])
  BY <1>3 DEF GoodStack
<1>6. Last(u).k = "send" /\ Last(u).ctx = Last(s).ctx /\ Last(u).n = Last(s).n
  BY <1>1, <1>4, <1>5 DEF StandsOn
<1>7. \A c, n : ~IsSend(Last(s), c, n)
  BY DEF IsSend
<1>8. \A c, n : SendsIn(s, c, n) <=> SendsIn(u, c, n) \/ IsSend(Last(s), c, n)
  BY PoppedSends
<1>9. GoodStack(u, m)
  BY Popped
<1> QED BY <1>1, <1>4, <1>6, <1>7, <1>8, <1>9

(***************************************************************************)
(* The callbacks of a loop's watcher.                                      *)
(***************************************************************************)
LEMMA CallsStay ==
  ASSUME NEW D, NEW w, NEW ts, CalledBack(D, w, ts), NEW t,
         \A X \in SUBSET D : Has(t, X) <=> Has(ts, X), Once(t, D)
  PROVE  CalledBack(D, w, t)
<1>1. (Has(t, D) <=> Has(ts, D)) /\ \A x \in D : Has(t, {x}) <=> Has(ts, {x})
  OBVIOUS
<1> QED BY <1>1 DEF CalledBack

LEMMA NotCalled ==
  ASSUME NEW D, NEW ts, ~Has(ts, D), NEW w, ~(w.on /\ w.posted)
  PROVE  CalledBack(D, w, ts)
<1>1. Once(ts, D) /\ \A x \in D : ~Has(ts, {x})
  BY DEF Has, Once
<1> QED BY <1>1 DEF CalledBack

LEMMA CallPosted ==
  ASSUME NEW D, NEW S, NEW ts \in Seq(S), ~Has(ts, D), NEW x \in S, x \in D, NEW t, t = Append(ts, x),
         NEW w, w.on, w.posted, x.ctx = w.ctx, x.n = w.n
  PROVE  CalledBack(D, w, t)
<1>1. Once(ts, D) /\ \A y \in D : ~Has(ts, {y})
  BY DEF Has, Once
<1>2. /\ \A X : Has(t, X) <=> Has(ts, X) \/ x \in X
      /\ \A X : Once(ts, X) /\ (x \in X => ~Has(ts, X)) => Once(t, X)
  BY HasAppend
<1>3. Has(t, D) /\ Once(t, D) /\ (\A y \in D : Has(t, {y}) <=> x \in {y})
  BY <1>1, <1>2
<1>4. \A y \in D : Has(t, {y}) => y = x
  BY <1>3
<1> QED BY <1>3, <1>4 DEF CalledBack

LEMMA DoneStays ==
  ASSUME scenario' = scenario
  PROVE  \A p : DoneOf(p)' = DoneOf(p)
BY SameScenario DEF DoneOf

LEMMA WatchKinds ==
  ASSUME WatchType, NEW p \in Procs, doneWatch[p].on
  PROVE  /\ doneWatch[p] \in [on : {TRUE}, ctx : ContextsOf(p), n : Nat \ {0}, posted : BOOLEAN]
         /\ doneWatch[p].ctx \in Contexts /\ doneWatch[p].ctx[1] = p
<1>1. PICK w : w = doneWatch[p]
  OBVIOUS
<1>2. w # None
  BY <1>1 DEF None
<1>3. w \in [on : {TRUE}, ctx : ContextsOf(p), n : Nat \ {0}, posted : BOOLEAN]
  BY <1>1, <1>2 DEF WatchType
<1>4. w.ctx \in ContextsOf(p)
  BY <1>3
<1> QED BY <1>1, <1>3, <1>4 DEF ContextsOf

\* One process moves, and the sends of its contexts.
LEMMA OneWatched ==
  ASSUME Types, LoopsWatched, scenario' = scenario, NEW p \in Procs,
         \A q \in Procs : q # p => stack'[q] = stack[q] /\ doneWatch'[q] = doneWatch[q] /\ tasks'[q] = tasks[q],
         \A c \in Contexts : c[1] # p => pend'[c] = pend[c],
         GoodWatch(DoneOf(p), stack'[p], doneWatch'[p], tasks'[p], pend')
  PROVE  LoopsWatched'
<1>1. ASSUME NEW q \in Procs PROVE GoodWatch(DoneOf(q), stack'[q], doneWatch'[q], tasks'[q], pend')
  <2>1. CASE q = p
    BY <2>1
  <2>2. CASE q # p
    <3>1. GoodWatch(DoneOf(q), stack[q], doneWatch[q], tasks[q], pend)
      BY DEF LoopsWatched
    <3>2. doneWatch[q].on => doneWatch[q].ctx \in Contexts /\ doneWatch[q].ctx[1] # p
      BY <2>2, WatchKinds DEF Types
    <3>3. doneWatch[q].on => pend'[doneWatch[q].ctx] = pend[doneWatch[q].ctx]
      BY <3>2
    <3> QED BY <2>2, <3>1, <3>3 DEF GoodWatch
  <2> QED BY <2>1, <2>2
<1> QED BY <1>1, DoneStays, SameScenario DEF LoopsWatched

\* The sends |ns| are signalled.
LEMMA UndoneSignalled ==
  ASSUME Types, NEW c \in Contexts, NEW ns, NEW ok, Signalled(c, ns, ok), NEW d \in Contexts, NEW n
  PROVE  UndoneIn(pend'[d], n) <=> UndoneIn(pend[d], n) /\ ~(d = c /\ n \in ns)
<1>1. /\ Len(pend'[d]) = Len(pend[d])
      /\ \A i \in 1..Len(pend[d]) :
           /\ pend'[d][i].n = pend[d][i].n
           /\ pend'[d][i].done <=> pend[d][i].done \/ (d = c /\ pend[d][i].n \in ns)
  BY DEF Signalled
<1> QED BY <1>1 DEF UndoneIn

LEMMA SignalledNests ==
  ASSUME Nesting, scenario' = scenario, UNCHANGED <<stack, sent>>,
         NEW c \in Contexts, NEW ns, NEW ok, Signalled(c, ns, ok)
  PROVE  Nesting'
<1>1. \A d \in Contexts :
        Len(pend'[d]) = Len(pend[d]) /\ \A i \in 1..Len(pend[d]) : pend'[d][i].n = pend[d][i].n
  BY DEF Signalled
<1> QED BY <1>1, NestingStays

LEMMA SignalledWatches ==
  ASSUME Types, LoopsWatched, scenario' = scenario, UNCHANGED stack,
         NEW c \in Contexts, NEW ns, NEW ok \in BOOLEAN, NEW ts \in Seq(TaskOf(c[1])),
         SignalDone(c, ns, ok, ts),
         \A X \in SUBSET DoneOf(c[1]) : Has(ts, X) <=> Has(tasks[c[1]], X),
         Once(ts, DoneOf(c[1]))
  PROVE  LoopsWatched'
<1>1. PICK p \in Procs : p = c[1] /\ c \in ContextsOf(p)
  BY Pairs DEF Types, SetsType
<1>2. Signalled(c, ns, ok) /\ DOMAIN pend' = DOMAIN pend
  BY SignalDoneSignals DEF Types, Signalled
<1>3. PICK w : w = doneWatch[p]
  OBVIOUS
<1>4. w \in {None} \cup [on : {TRUE}, ctx : ContextsOf(p), n : Nat \ {0}, posted : BOOLEAN]
  BY <1>1, <1>3 DEF Types, WatchType
<1>5. LoopWatched(stack[p], w) /\ (w.on => (w.posted <=> ~UndoneIn(pend[w.ctx], w.n))) /\ CalledBack(DoneOf(p), w, tasks[p])
  BY <1>3 DEF LoopsWatched, GoodWatch
<1>6. \A q \in Procs : q # p => doneWatch'[q] = doneWatch[q] /\ tasks'[q] = tasks[q]
  BY <1>1 DEF SignalDone, Types, TasksType, WatchType
<1>7. \A d \in Contexts : d[1] # p => pend'[d] = pend[d]
  BY <1>1 DEF SignalDone, Types, PendType
<1>8. CalledBack(DoneOf(p), w, ts)
  BY <1>1, <1>5, CallsStay
<1>9. w.on => w.ctx \in Contexts
  BY <1>3, WatchKinds DEF Types
<1>10. \A n : Undone(c, n) <=> UndoneIn(pend[c], n)
  <2>1. DOMAIN pend[c] = 1..Len(pend[c])
    BY DEF Types, PendType
  <2> QED BY <2>1 DEF Undone, UndoneIn
<1>11. CASE w.on /\ w.ctx = c /\ ~w.posted /\ w.n \in ns /\ Undone(c, w.n)
  <2>1. PICK v : v = [w EXCEPT !.posted = TRUE]
    OBVIOUS
  <2>2. v.on /\ v.posted /\ v.ctx = w.ctx /\ v.n = w.n
    BY <2>1, <1>4, <1>11 DEF None
  <2>3. doneWatch'[p] = v
    BY <2>1, <1>1, <1>3, <1>11 DEF SignalDone, Types, WatchType
  <2>4. PICK x : x = [k |-> "done", ctx |-> c, n |-> w.n]
    OBVIOUS
  <2>5. tasks'[p] = Append(ts, x)
    BY <2>4, <1>1, <1>3, <1>11 DEF SignalDone, Types, TasksType
  <2>6. x \in TaskOf(p) /\ x.k = "done" /\ x.ctx = w.ctx /\ x.n = w.n
    <3>1. w.n \in Nat \ {0}
      <4>1. w \in [on : {TRUE}, ctx : ContextsOf(p), n : Nat \ {0}, posted : BOOLEAN]
        BY <1>3, <1>11, WatchKinds DEF Types
      <4> QED BY <4>1
    <3>2. x \in [k : {"done"}, ctx : ContextsOf(p), n : Nat \ {0}]
      BY <2>4, <3>1, <1>1
    <3> QED BY <2>4, <3>2, <1>11 DEF TaskOf
  <2>7. ~Has(ts, DoneOf(p))
    BY <1>8, <1>11 DEF CalledBack
  <2>8. CalledBack(DoneOf(p), v, tasks'[p])
    <3>1. x \in DoneOf(p)
      BY <2>6 DEF DoneOf
    <3>2. ts \in Seq(TaskOf(p))
      BY <1>1
    <3> QED BY <2>2, <2>5, <2>6, <2>7, <3>1, <3>2, CallPosted
  <2>9. ~UndoneIn(pend'[v.ctx], v.n)
    BY <1>2, <1>11, <2>2, UndoneSignalled
  <2>10. LoopWatched(stack'[p], v)
    BY <1>5, <1>11, <2>2 DEF LoopWatched
  <2>11. GoodWatch(DoneOf(p), stack'[p], doneWatch'[p], tasks'[p], pend')
    BY <2>2, <2>3, <2>8, <2>9, <2>10 DEF GoodWatch
  <2> QED BY <2>11, <1>6, <1>7, OneWatched
<1>12. CASE ~(w.on /\ w.ctx = c /\ ~w.posted /\ w.n \in ns /\ Undone(c, w.n))
  <2>1. doneWatch'[p] = w
    BY <1>1, <1>3, <1>12 DEF SignalDone
  <2>2. tasks'[p] = ts
    BY <1>1, <1>3, <1>12 DEF SignalDone, Types, TasksType
  <2>3. ASSUME w.on PROVE w.posted <=> ~UndoneIn(pend'[w.ctx], w.n)
    BY <2>3, <1>2, <1>5, <1>9, <1>10, <1>12, UndoneSignalled
  <2>4. GoodWatch(DoneOf(p), stack'[p], doneWatch'[p], tasks'[p], pend')
    BY <2>1, <2>2, <2>3, <1>5, <1>8 DEF GoodWatch
  <2> QED BY <2>4, <1>6, <1>7, OneWatched
<1> QED BY <1>11, <1>12

(***************************************************************************)
(* The loops, action by action.                                            *)
(***************************************************************************)
LoopsMatch == Nesting /\ LoopsWatched

LEMMA LoopsStay ==
  ASSUME Types, LoopsMatch, scenario' = scenario, UNCHANGED <<stack, sent, pend, doneWatch, tasks>>
  PROVE  LoopsMatch'
<1>1. Nesting'
  BY NestingStays DEF LoopsMatch
<1>2. \A p \in Procs : GoodWatch(DoneOf(p), stack'[p], doneWatch'[p], tasks'[p], pend')
  BY DEF LoopsMatch, LoopsWatched
<1> QED BY <1>1, <1>2, DoneStays, SameScenario DEF LoopsMatch, LoopsWatched

\* The stack and the tasks of a process change, and its watcher does not.
LEMMA WatchTurns ==
  ASSUME Types, LoopsWatched, scenario' = scenario, NEW p \in Procs, NEW t, stack' = [stack EXCEPT ![p] = t],
         UNCHANGED <<doneWatch, pend>>, LoopWatched(t, doneWatch[p]),
         \A q \in Procs : q # p => tasks'[q] = tasks[q], CalledBack(DoneOf(p), doneWatch[p], tasks'[p])
  PROVE  LoopsWatched'
<1>1. \A q \in Procs : stack'[q] = IF q = p THEN t ELSE stack[q]
  BY DEF Types, StackType
<1>2. GoodWatch(DoneOf(p), stack[p], doneWatch[p], tasks[p], pend)
  BY DEF LoopsWatched
<1>3. GoodWatch(DoneOf(p), stack'[p], doneWatch'[p], tasks'[p], pend')
  BY <1>1, <1>2 DEF GoodWatch
<1> QED BY <1>1, <1>3, OneWatched

LEMMA TailCalled ==
  ASSUME NEW p, NEW ts \in Seq(TaskOf(p)), ts # <<>>, Head(ts).k # "done", NEW t, t = Tail(ts),
         NEW w, CalledBack(DoneOf(p), w, ts)
  PROVE  CalledBack(DoneOf(p), w, t)
<1>1. /\ \A X : Has(ts, X) <=> Has(t, X) \/ Head(ts) \in X
      /\ \A X : Once(ts, X) => Once(t, X) /\ (Head(ts) \in X => ~Has(t, X))
  BY HasTail
<1>2. \A X \in SUBSET DoneOf(p) : Head(ts) \notin X
  BY DEF DoneOf
<1>3. \A X \in SUBSET DoneOf(p) : Has(t, X) <=> Has(ts, X)
  BY <1>1, <1>2
<1>4. Once(t, DoneOf(p))
  BY <1>1 DEF CalledBack
<1> QED BY <1>3, <1>4, CallsStay

\* A loop over the queue is entered, from a task or from a blocked send.
LEMMA DispatchStarts ==
  ASSUME Types, LoopsMatch, scenario' = scenario, NEW p \in Procs, NEW c \in ContextsOf(p),
         Calls(p, [k |-> "dispatch", ctx |-> c, delayed |-> <<>>]), UNCHANGED <<sent, doneWatch, pend>>,
         InLoop(p) \/ (TopIs(p, "send") /\ Top(p).ctx = c),
         \A q \in Procs : q # p => tasks'[q] = tasks[q], CalledBack(DoneOf(p), doneWatch[p], tasks'[p])
  PROVE  LoopsMatch'
<1>1. PICK f \in FrameOf(p) : f = [k |-> "dispatch", ctx |-> c, delayed |-> <<>>]
  BY DispatchFrame
<1>2. PICK s \in Seq(FrameOf(p)) : s = stack[p]
  BY DEF Types, StackType
<1>3. PICK t : t = Append(s, f)
  OBVIOUS
<1>4. stack' = [stack EXCEPT ![p] = t]
  BY <1>1, <1>2, <1>3 DEF Calls
<1>5. GoodStack(s, sent[p]) /\ LoopWatched(s, doneWatch[p]) /\ sent[p] \in Nat
  BY <1>2 DEF LoopsMatch, Nesting, LoopsWatched, GoodWatch, Types, SentType
<1>6. f.k = "dispatch" /\ f.ctx = c
  BY <1>1
<1>7. s # <<>> => StandsOn(f, Last(s)) /\ ~(Last(s).k = "loop" /\ Last(s).quit)
  <2>1. s # <<>> => (Last(s).k = "loop" /\ ~Last(s).quit) \/ (Last(s).k = "send" /\ Last(s).ctx = c)
    BY <1>2 DEF InLoop, TopIs, Top
  <2> QED BY <2>1, <1>6 DEF StandsOn
<1>8. GoodStack(t, sent[p])
  <2>1. s = <<>> => f.k \in {"send", "dispatch"}
    BY <1>6
  <2>2. f.k = "send" => sent[p] < f.n /\ f.n <= sent[p]
    BY <1>6
  <2>3. sent[p] <= sent[p]
    BY <1>5
  <2> QED BY <1>3, <1>5, <1>7, <2>1, <2>2, <2>3, Pushed
<1>9. \A d, n : SendsIn(t, d, n) <=> SendsIn(stack[p], d, n)
  <2>1. \A d, n : ~IsSend(f, d, n)
    BY <1>6 DEF IsSend
  <2>2. \A d, n : SendsIn(t, d, n) <=> SendsIn(s, d, n) \/ IsSend(f, d, n)
    BY <1>3, PushedSends
  <2> QED BY <1>2, <2>1, <2>2
<1>10. Nesting'
  BY <1>4, <1>8, <1>9, NestingTurns DEF LoopsMatch
<1>11. LoopWatched(t, doneWatch[p])
  BY <1>3, <1>5, <1>6, LoopsPushed
<1> QED BY <1>4, <1>10, <1>11, WatchTurns DEF LoopsMatch

LEMMA WaitDispatchEventLoops ==
  ASSUME Types, LoopsMatch, scenario' = scenario, NEW p \in Procs, WaitDispatchEvent(p)
  PROVE  LoopsMatch'
<1>1. PICK c \in ContextsOf(p) : c = Top(p).ctx
  BY TopFrame, Kinds DEF WaitDispatchEvent, TopIs, Types
<1>2. /\ Calls(p, [k |-> "dispatch", ctx |-> c, delayed |-> <<>>]) /\ UNCHANGED <<sent, doneWatch, pend, tasks>>
      /\ TopIs(p, "send") /\ Top(p).ctx = c
  BY <1>1 DEF WaitDispatchEvent
<1>3. CalledBack(DoneOf(p), doneWatch[p], tasks'[p])
  BY <1>2 DEF LoopsMatch, LoopsWatched, GoodWatch
<1> QED BY <1>2, <1>3, DispatchStarts

\* A task that starts a loop over the queue.
LEMMA TaskLoops ==
  ASSUME Types, LoopsMatch, scenario' = scenario, NEW p \in Procs,
         InLoop(p), tasks[p] # <<>>, Head(tasks[p]).k # "done",
         Calls(p, [k |-> "dispatch", ctx |-> Head(tasks[p]).ctx, delayed |-> <<>>]),
         tasks' = [tasks EXCEPT ![p] = Tail(@)], UNCHANGED <<sent, doneWatch, pend>>
  PROVE  LoopsMatch'
<1>1. tasks[p] \in Seq(TaskOf(p)) /\ Head(tasks[p]) \in TaskOf(p)
  BY DEF Types, TasksType
<1>2. Head(tasks[p]).ctx \in ContextsOf(p)
  BY <1>1, Kinds
<1>3. tasks'[p] = Tail(tasks[p]) /\ \A q \in Procs : q # p => tasks'[q] = tasks[q]
  BY DEF Types, TasksType
<1>4. CalledBack(DoneOf(p), doneWatch[p], tasks'[p])
  <2>1. CalledBack(DoneOf(p), doneWatch[p], tasks[p])
    BY DEF LoopsMatch, LoopsWatched, GoodWatch
  <2> QED BY <1>1, <1>3, <2>1, TailCalled
<1> QED BY <1>2, <1>3, <1>4, DispatchStarts

LEMMA DispatchMessagesLoops ==
  ASSUME Types, LoopsMatch, scenario' = scenario, NEW p \in Procs, DispatchMessages(p)
  PROVE  LoopsMatch'
<1>1. PICK s \in Seq(FrameOf(p)) : s = stack[p]
  BY DEF Types, StackType
<1>2. s # <<>> /\ Last(s) = Top(p) /\ Last(s).k = "dispatch" /\ Last(s) \in FrameOf(p)
  BY <1>1, TopFrame DEF DispatchMessages, TopIs, Top, Types
<1>3. UNCHANGED <<sent, doneWatch, pend, tasks>>
  BY DEF DispatchMessages
<1>4. /\ GoodStack(s, sent[p]) /\ LoopWatched(s, doneWatch[p]) /\ sent[p] \in Nat
      /\ CalledBack(DoneOf(p), doneWatch[p], tasks'[p])
  BY <1>1, <1>3 DEF LoopsMatch, Nesting, LoopsWatched, GoodWatch, Types, SentType
<1>5. CASE queue[p] = <<>>
  <2>1. PICK t : t = Front(s)
    OBVIOUS
  <2>2. stack' = [stack EXCEPT ![p] = t]
    BY <1>1, <1>5, <2>1 DEF DispatchMessages
  <2>3. GoodStack(t, sent[p])
    BY <1>2, <1>4, <2>1, Popped
  <2>4. \A d, n : SendsIn(t, d, n) <=> SendsIn(stack[p], d, n)
    BY <1>1, <1>2, <2>1, PoppedSends DEF IsSend
  <2>5. LoopWatched(t, doneWatch[p])
    BY <1>2, <1>4, <2>1, LoopsPopped
  <2> QED BY <1>3, <1>4, <2>2, <2>3, <2>4, <2>5, NestingTurns, WatchTurns DEF LoopsMatch
<1>6. CASE queue[p] # <<>>
  <2>1. PICK r \in RequestTo(p) : r = Head(queue[p])
    BY <1>6 DEF Types, QueueType
  <2>2. CASE At(r) \in Restricted /\ At(r) # Top(p).ctx
    <3>1. PICK f : f = [Last(s) EXCEPT !.delayed = Append(@, r)]
      OBVIOUS
    <3>2. f \in FrameOf(p) /\ f.k = "dispatch" /\ f.ctx = Last(s).ctx
      <4>1. Last(s) \in [k : {"dispatch"}, ctx : ContextsOf(p), delayed : Seq(RequestTo(p))]
        BY <1>2 DEF FrameOf
      <4>2. PICK d : d = Append(Last(s).delayed, r)
        OBVIOUS
      <4>3. d \in Seq(RequestTo(p))
        BY <4>1, <4>2
      <4>4. f = [Last(s) EXCEPT !.delayed = d]
        BY <3>1, <4>2
      <4>5. f \in [k : {"dispatch"}, ctx : ContextsOf(p), delayed : Seq(RequestTo(p))] /\ f.ctx = Last(s).ctx
        BY <4>1, <4>3, <4>4
      <4> QED BY <4>5 DEF FrameOf
    <3>3. PICK t : t = Append(Front(s), f)
      OBVIOUS
    <3>4. stack' = [stack EXCEPT ![p] = t]
      BY <1>1, <1>2, <1>6, <2>1, <2>2, <3>1, <3>3 DEF DispatchMessages, Replaces
    <3>5. GoodStack(t, sent[p])
      <4>1. f.k = Last(s).k /\ f.k \in {"dispatch", "loop"} /\ (f.k = "loop" => f.n = Last(s).n)
        BY <1>2, <3>2
      <4> QED BY <1>2, <1>4, <3>2, <3>3, <4>1, Turned
    <3>6. \A d, n : SendsIn(t, d, n) <=> SendsIn(stack[p], d, n)
      <4>1. Last(s).k # "send" /\ f.k # "send"
        BY <1>2, <3>2
      <4> QED BY <1>1, <1>2, <3>2, <3>3, <4>1, TurnedSends
    <3>7. LoopWatched(t, doneWatch[p])
      <4>1. Last(s).k # "loop" /\ f.k # "loop"
        BY <1>2, <3>2
      <4> QED BY <1>2, <1>4, <3>2, <3>3, <4>1, LoopsTurned
    <3> QED BY <1>3, <1>4, <3>4, <3>5, <3>6, <3>7, NestingTurns, WatchTurns DEF LoopsMatch
  <2>3. CASE ~(At(r) \in Restricted /\ At(r) # Top(p).ctx) /\ At(r) \in cleared
    <3>1. stack' = stack
      BY <1>6, <2>1, <2>3 DEF DispatchMessages
    <3> QED BY <1>3, <3>1, LoopsStay
  <2>4. CASE ~(At(r) \in Restricted /\ At(r) # Top(p).ctx) /\ At(r) \notin cleared
    <3>1. PICK f \in FrameOf(p) : f = [k |-> "handler", req |-> r]
      BY DEF FrameOf
    <3>2. PICK t : t = Append(s, f)
      OBVIOUS
    <3>3. stack' = [stack EXCEPT ![p] = t]
      BY <1>1, <1>6, <2>1, <2>4, <3>1, <3>2 DEF DispatchMessages, Calls
    <3>4. f.k = "handler"
      BY <3>1
    <3>5. StandsOn(f, Last(s)) /\ ~(Last(s).k = "loop" /\ Last(s).quit)
      BY <1>2, <3>4 DEF StandsOn
    <3>6. GoodStack(t, sent[p])
      <4>1. f.k = "send" => sent[p] < f.n /\ f.n <= sent[p]
        BY <3>4
      <4>2. sent[p] <= sent[p]
        BY <1>4
      <4> QED BY <1>2, <1>4, <3>2, <3>5, <4>1, <4>2, Pushed
    <3>7. \A d, n : SendsIn(t, d, n) <=> SendsIn(stack[p], d, n)
      <4>1. \A d, n : ~IsSend(f, d, n)
        BY <3>4 DEF IsSend
      <4>2. \A d, n : SendsIn(t, d, n) <=> SendsIn(s, d, n) \/ IsSend(f, d, n)
        BY <3>2, PushedSends
      <4> QED BY <1>1, <4>1, <4>2
    <3>8. LoopWatched(t, doneWatch[p])
      BY <1>4, <3>2, <3>4, LoopsPushed
    <3> QED BY <1>3, <1>4, <3>3, <3>6, <3>7, <3>8, NestingTurns, WatchTurns DEF LoopsMatch
  <2> QED BY <2>2, <2>3, <2>4
<1> QED BY <1>5, <1>6

LEMMA HandlerReturnsLoops ==
  ASSUME Types, LoopsMatch, scenario' = scenario, NEW p \in Procs, NEW defer, NEW error,
         HandlerReturns(p, defer, error)
  PROVE  LoopsMatch'
<1>1. PICK s \in Seq(FrameOf(p)) : s = stack[p]
  BY DEF Types, StackType
<1>2. s # <<>> /\ Last(s).k = "handler"
  BY <1>1 DEF HandlerReturns, TopIs, Top
<1>3. PICK t : t = Front(s)
  OBVIOUS
<1>4. stack' = [stack EXCEPT ![p] = t] /\ UNCHANGED <<sent, doneWatch, pend, tasks>>
  BY <1>1, <1>3 DEF HandlerReturns
<1>5. /\ GoodStack(s, sent[p]) /\ LoopWatched(s, doneWatch[p])
      /\ CalledBack(DoneOf(p), doneWatch[p], tasks'[p])
  BY <1>1, <1>4 DEF LoopsMatch, Nesting, LoopsWatched, GoodWatch
<1>6. GoodStack(t, sent[p])
  BY <1>2, <1>3, <1>5, Popped
<1>7. \A d, n : SendsIn(t, d, n) <=> SendsIn(stack[p], d, n)
  BY <1>1, <1>2, <1>3, PoppedSends DEF IsSend
<1>8. LoopWatched(t, doneWatch[p])
  BY <1>2, <1>3, <1>5, LoopsPopped
<1> QED BY <1>4, <1>5, <1>6, <1>7, <1>8, NestingTurns, WatchTurns DEF LoopsMatch

LEMMA UndonePushed ==
  ASSUME NEW q \in Seq(Awaited), NEW x \in Awaited, NEW r, r = Append(q, x), NEW n, n # x.n
  PROVE  UndoneIn(r, n) <=> UndoneIn(q, n)
<1>1. Len(r) = Len(q) + 1 /\ Len(q) \in Nat /\ r[Len(q) + 1] = x /\ \A i \in 1..Len(q) : r[i] = q[i]
  BY AppendProperties
<1>2. /\ \A i \in 1..Len(q) : r[i] = q[i] /\ i \in 1..Len(r)
      /\ \A i \in 1..Len(r) : i \in 1..Len(q) \/ r[i] = x
  BY <1>1
<1> QED BY <1>2 DEF UndoneIn

LEMMA UndonePopped ==
  ASSUME NEW q \in Seq(Awaited), q # <<>>, NEW r, r = Front(q), NEW n, n # Last(q).n
  PROVE  UndoneIn(r, n) <=> UndoneIn(q, n)
<1>1. /\ Len(r) = Len(q) - 1 /\ Len(q) \in Nat \ {0} /\ Last(q) = q[Len(q)]
      /\ \A i \in 1..(Len(q) - 1) : r[i] = q[i]
  BY FrontAndLast
<1>2. /\ \A i \in 1..Len(r) : r[i] = q[i] /\ i \in 1..Len(q)
      /\ \A i \in 1..Len(q) : i \in 1..Len(r) \/ q[i] = Last(q)
  BY <1>1
<1> QED BY <1>2 DEF UndoneIn

LEMMA SendLoops ==
  ASSUME Types, LoopsMatch, scenario' = scenario, NEW c \in Contexts, NEW pump \in BOOLEAN, NEW timed,
         Send(c, pump, timed)
  PROVE  LoopsMatch'
<1>1. PICK p \in Procs : p = c[1] /\ c \in ContextsOf(p)
  BY Pairs DEF Types, SetsType
<1>2. PICK n \in Nat \ {0} : n = sent[p] + 1 /\ sent[p] < n /\ sent[p] \in Nat
  BY <1>1 DEF Types, SentType
<1>3. PICK f \in FrameOf(p) : f = [k |-> "send", ctx |-> c, n |-> n, pump |-> pump]
  BY <1>1 DEF FrameOf
<1>4. PICK g \in FrameOf(p) : g = [k |-> "dispatch", ctx |-> c, delayed |-> <<>>]
  BY <1>1, DispatchFrame
<1>5. PICK s \in Seq(FrameOf(p)) : s = stack[p]
  BY DEF Types, StackType
<1>6. PICK u : u = Append(s, f)
  OBVIOUS
<1>7. u \in Seq(FrameOf(p))
  BY <1>6, AppendProperties
<1>8. PICK t : t = Append(u, g)
  OBVIOUS
<1>9. stack' = [stack EXCEPT ![p] = t]
  <2>1. stack' = [stack EXCEPT ![p] = stack[p] \o <<f, g>>]
    BY <1>1, <1>2, <1>3, <1>4 DEF Send
  <2>2. stack[p] \o <<f, g>> = t
    BY <1>5, <1>6, <1>7, <1>8
  <2> QED BY <2>1, <2>2
<1>10. PICK x \in Awaited : x = [n |-> n, done |-> FALSE, result |-> FALSE]
  BY DEF Awaited
<1>11. \A d \in Contexts : pend'[d] = IF d = c THEN Append(pend[c], x) ELSE pend[d]
  BY <1>1, <1>2, <1>10 DEF Send, Types, PendType
<1>12. tasks' = tasks /\ doneWatch' = doneWatch
  BY DEF Send
<1>13. GoodStack(s, sent[p]) /\ GoodWatch(DoneOf(p), s, doneWatch[p], tasks[p], pend)
  BY <1>5 DEF LoopsMatch, Nesting, LoopsWatched
<1>14. LoopWatched(t, doneWatch[p])
  <2>1. LoopWatched(s, doneWatch[p]) /\ f.k # "loop" /\ g.k # "loop"
    BY <1>3, <1>4, <1>13 DEF GoodWatch
  <2>2. LoopWatched(u, doneWatch[p])
    BY <1>6, <2>1, LoopsPushed
  <2> QED BY <1>7, <1>8, <2>1, <2>2, LoopsPushed
<1>15. ASSUME doneWatch[p].on
       PROVE  UndoneIn(pend'[doneWatch[p].ctx], doneWatch[p].n) <=> UndoneIn(pend[doneWatch[p].ctx], doneWatch[p].n)
  <2>1. doneWatch[p].n # x.n
    <3>1. doneWatch[p].n \in Nat /\ doneWatch[p].n <= sent[p]
      BY <1>13, <1>15, LoopBelow DEF GoodWatch
    <3> QED BY <3>1, <1>2, <1>10
  <2>2. doneWatch[p].ctx \in Contexts
    BY <1>15, WatchKinds DEF Types
  <2>3. pend[c] \in Seq(Awaited)
    BY DEF Types, PendType
  <2>4. CASE doneWatch[p].ctx = c
    <3>1. PICK r : r = Append(pend[c], x)
      OBVIOUS
    <3>2. \A m : m # x.n => (UndoneIn(r, m) <=> UndoneIn(pend[c], m))
      BY <2>3, <3>1, UndonePushed
    <3> QED BY <1>11, <2>1, <2>4, <3>1, <3>2
  <2>5. CASE doneWatch[p].ctx # c
    BY <1>11, <2>2, <2>5
  <2> QED BY <2>4, <2>5
<1>16. \A q \in Procs : stack'[q] = IF q = p THEN t ELSE stack[q]
  BY <1>9 DEF Types, StackType
<1>17. GoodWatch(DoneOf(p), stack'[p], doneWatch'[p], tasks'[p], pend')
  BY <1>12, <1>13, <1>14, <1>15, <1>16 DEF GoodWatch
<1>18. LoopsWatched'
  BY <1>1, <1>11, <1>12, <1>16, <1>17, OneWatched DEF LoopsMatch
<1> QED BY <1>18, NestingSends DEF LoopsMatch

\* The innermost send of a context is forgotten.
LEMMA UndoneAfterPop ==
  ASSUME Types, NEW d \in Contexts, pend[d] # <<>>, pend' = [pend EXCEPT ![d] = Front(pend[d])],
         NEW c \in Contexts, NEW n, n # Last(pend[d]).n
  PROVE  UndoneIn(pend'[c], n) <=> UndoneIn(pend[c], n)
<1>1. pend'[c] = IF c = d THEN Front(pend[d]) ELSE pend[c]
  BY DEF Types, PendType
<1>2. pend[d] \in Seq(Awaited)
  BY DEF Types, PendType
<1>3. UndoneIn(Front(pend[d]), n) <=> UndoneIn(pend[d], n)
  BY <1>2, UndonePopped
<1> QED BY <1>1, <1>3

LEMMA WaitDoneEventLoops ==
  ASSUME Types, LoopsMatch, scenario' = scenario, NEW p \in Procs, WaitDoneEvent(p)
  PROVE  LoopsMatch'
<1>1. PICK s \in Seq(FrameOf(p)) : s = stack[p]
  BY DEF Types, StackType
<1>2. s # <<>> /\ Last(s) = Top(p) /\ Last(s).k = "send" /\ Last(s) \in FrameOf(p)
  BY <1>1, TopFrame DEF WaitDoneEvent, TopIs, Top, Types
<1>3. PICK d \in Contexts : d = Last(s).ctx /\ d[1] = p
  BY <1>2, Kinds DEF ContextsOf
<1>4. PICK t : t = Front(s)
  OBVIOUS
<1>5. PICK q : q = Front(pend[d])
  OBVIOUS
<1>6. /\ stack' = [stack EXCEPT ![p] = t] /\ pend' = [pend EXCEPT ![d] = q]
      /\ UNCHANGED <<sent, doneWatch, tasks>>
  BY <1>1, <1>2, <1>3, <1>4, <1>5 DEF WaitDoneEvent, Pop
<1>7. GoodStack(s, sent[p]) /\ GoodWatch(DoneOf(p), s, doneWatch[p], tasks[p], pend)
  BY <1>1 DEF LoopsMatch, Nesting, LoopsWatched
<1>8. Nesting' /\ pend[d] # <<>> /\ Last(pend[d]).n = Last(s).n
  <2>1. \A c, n : SendsIn(s, c, n) <=> SendsIn(stack[p], c, n)
    BY <1>1
  <2>2. GoodStack(s, sent[p]) /\ Nesting /\ Types /\ scenario' = scenario /\ UNCHANGED sent
    BY <1>6, <1>7 DEF LoopsMatch
  <2>3. s \in Seq(FrameOf(p)) /\ p \in Procs
    OBVIOUS
  <2> QED BY ONLY <1>2, <1>3, <1>4, <1>5, <1>6, <2>1, <2>2, <2>3, NestingPops, ZenonT(60)
<1>9. LoopWatched(t, doneWatch[p])
  BY <1>2, <1>4, <1>7, LoopsPopped DEF GoodWatch
<1>10. ASSUME doneWatch[p].on
       PROVE  UndoneIn(pend'[doneWatch[p].ctx], doneWatch[p].n) <=> UndoneIn(pend[doneWatch[p].ctx], doneWatch[p].n)
  <2>1. doneWatch[p].n # Last(s).n
    <3>1. doneWatch[p].n \in Nat /\ doneWatch[p].n < Last(s).n
      BY <1>2, <1>7, <1>10, LoopBelow DEF GoodWatch
    <3>2. Last(s).n \in Nat
      BY <1>2, Kinds
    <3> QED BY <3>1, <3>2
  <2>2. doneWatch[p].ctx \in Contexts
    BY <1>10, WatchKinds DEF Types
  <2> QED BY <1>5, <1>6, <1>8, <2>1, <2>2, UndoneAfterPop
<1>11. \A r \in Procs : stack'[r] = IF r = p THEN t ELSE stack[r]
  BY <1>6 DEF Types, StackType
<1>12. GoodWatch(DoneOf(p), stack'[p], doneWatch'[p], tasks'[p], pend')
  BY <1>6, <1>7, <1>9, <1>10, <1>11 DEF GoodWatch
<1>13. \A c \in Contexts : c[1] # p => pend'[c] = pend[c]
  BY <1>3, <1>6 DEF Types, PendType
<1>14. \A r \in Procs : r # p => stack'[r] = stack[r] /\ doneWatch'[r] = doneWatch[r] /\ tasks'[r] = tasks[r]
  BY <1>6, <1>11
<1>15. LoopsWatched'
  BY <1>12, <1>13, <1>14, OneWatched DEF LoopsMatch
<1> QED BY <1>8, <1>15 DEF LoopsMatch

\* A loop's watcher starts to watch, and no callback is posted before.
LEMMA StartWatched ==
  ASSUME Types, NEW p \in Procs, NEW c \in ContextsOf(p), NEW n \in Nat \ {0}, NEW ts \in Seq(TaskOf(p)),
         ~Has(ts, DoneOf(p)), StartWatchingDone(p, c, n, ts)
  PROVE  /\ doneWatch'[p].on /\ doneWatch'[p].ctx = c /\ doneWatch'[p].n = n
         /\ doneWatch'[p].posted <=> ~UndoneIn(pend[c], n)
         /\ CalledBack(DoneOf(p), doneWatch'[p], tasks'[p])
         /\ \A q \in Procs : q # p => doneWatch'[q] = doneWatch[q] /\ tasks'[q] = tasks[q]
<1>1. PICK w : w = [on |-> TRUE, ctx |-> c, n |-> n, posted |-> ~Undone(c, n)]
  OBVIOUS
<1>2. doneWatch' = [doneWatch EXCEPT ![p] = w]
  BY <1>1 DEF StartWatchingDone
<1>3. doneWatch'[p] = w /\ \A q \in Procs : q # p => doneWatch'[q] = doneWatch[q]
  BY <1>2 DEF Types, WatchType
<1>4. PICK x : x = [k |-> "done", ctx |-> c, n |-> n]
  OBVIOUS
<1>5. PICK s : s = IF ~Undone(c, n) THEN Append(ts, x) ELSE ts
  OBVIOUS
<1>6. tasks' = [tasks EXCEPT ![p] = s]
  BY <1>4, <1>5 DEF StartWatchingDone
<1>7. tasks'[p] = s /\ \A q \in Procs : q # p => tasks'[q] = tasks[q]
  BY <1>6 DEF Types, TasksType
<1>8. Undone(c, n) <=> UndoneIn(pend[c], n)
  <2>1. c \in Contexts
    BY DEF ContextsOf
  <2>2. DOMAIN pend[c] = 1..Len(pend[c])
    BY <2>1 DEF Types, PendType
  <2> QED BY <2>2 DEF Undone, UndoneIn
<1>9. w.on /\ w.ctx = c /\ w.n = n /\ (w.posted <=> ~UndoneIn(pend[c], n))
  BY <1>1, <1>8
<1>10. x \in TaskOf(p) /\ x \in DoneOf(p) /\ x.ctx = c /\ x.n = n
  BY <1>4 DEF TaskOf, DoneOf
<1>11. CalledBack(DoneOf(p), w, s)
  <2>1. CASE Undone(c, n)
    BY <1>5, <1>8, <1>9, <2>1, NotCalled
  <2>2. CASE ~Undone(c, n)
    <3>1. s = Append(ts, x) /\ w.posted
      BY <1>5, <1>8, <1>9, <2>2
    <3> QED BY <1>9, <1>10, <3>1, CallPosted
  <2> QED BY <2>1, <2>2
<1> QED BY <1>3, <1>7, <1>9, <1>11

LEMMA NestedMessageLoopLoops ==
  ASSUME Types, LoopsMatch, scenario' = scenario, NEW p \in Procs, NestedMessageLoop(p)
  PROVE  LoopsMatch'
<1>1. PICK s \in Seq(FrameOf(p)) : s = stack[p]
  BY DEF Types, StackType
<1>2. s # <<>> /\ Last(s) = Top(p) /\ Last(s).k = "send" /\ Last(s) \in FrameOf(p)
  BY <1>1, TopFrame DEF NestedMessageLoop, TopIs, Top, Types
<1>3. PICK c \in ContextsOf(p) : c = Last(s).ctx
  BY <1>2, Kinds
<1>4. PICK n \in Nat \ {0} : n = Last(s).n
  BY <1>2, Kinds
<1>5. PICK g \in FrameOf(p) : g = [k |-> "loop", ctx |-> c, n |-> n, quit |-> FALSE]
  BY DEF FrameOf
<1>6. PICK t : t = Append(s, g)
  OBVIOUS
<1>7. PICK ts : ts = StopWatchingDone(p)
  OBVIOUS
<1>8. /\ stack' = [stack EXCEPT ![p] = t] /\ StartWatchingDone(p, c, n, ts)
      /\ sent' = sent /\ pend' = pend
  BY <1>1, <1>2, <1>3, <1>4, <1>5, <1>6, <1>7 DEF NestedMessageLoop, Calls
<1>9. tasks[p] \in Seq(TaskOf(p))
  BY DEF Types, TasksType
<1>10. ts \in Seq(TaskOf(p)) /\ ~Has(ts, DoneOf(p))
  <2>1. PICK I : I = {i \in DOMAIN tasks[p] : tasks[p][i].k # "done"}
    OBVIOUS
  <2>2. I \in SUBSET (1..Len(tasks[p])) /\ ts = Only(tasks[p], I)
    BY <1>7, <1>9, <2>1 DEF StopWatchingDone
  <2>3. ts \in Seq(TaskOf(p))
    BY <1>9, <2>2, OnlyProperties
  <2>4. Has(ts, DoneOf(p)) <=> \E i \in I : tasks[p][i] \in DoneOf(p)
    BY <1>9, <2>2, HasOnly
  <2> QED BY <2>1, <2>3, <2>4 DEF DoneOf
<1>11. /\ doneWatch'[p].on /\ doneWatch'[p].ctx = c /\ doneWatch'[p].n = n
       /\ doneWatch'[p].posted <=> ~UndoneIn(pend[c], n)
       /\ CalledBack(DoneOf(p), doneWatch'[p], tasks'[p])
       /\ \A q \in Procs : q # p => doneWatch'[q] = doneWatch[q] /\ tasks'[q] = tasks[q]
  BY <1>8, <1>10, StartWatched
<1>12. g.k = "loop" /\ g.ctx = c /\ g.n = n /\ ~g.quit
  BY <1>5
<1>13. GoodStack(s, sent[p]) /\ sent[p] \in Nat
  BY <1>1 DEF LoopsMatch, Nesting, Types, SentType
<1>14. GoodStack(t, sent[p])
  <2>1. StandsOn(g, Last(s)) /\ ~(Last(s).k = "loop" /\ Last(s).quit)
    BY <1>2, <1>3, <1>4, <1>12 DEF StandsOn
  <2>2. g.k = "send" => sent[p] < g.n /\ g.n <= sent[p]
    BY <1>12
  <2>3. sent[p] <= sent[p]
    BY <1>13
  <2> QED BY <1>2, <1>6, <1>13, <2>1, <2>2, <2>3, Pushed
<1>15. \A d, m : SendsIn(t, d, m) <=> SendsIn(stack[p], d, m)
  <2>1. \A d, m : ~IsSend(g, d, m)
    BY <1>12 DEF IsSend
  <2>2. \A d, m : SendsIn(t, d, m) <=> SendsIn(s, d, m) \/ IsSend(g, d, m)
    BY <1>6, PushedSends
  <2> QED BY <1>1, <2>1, <2>2
<1>16. Nesting'
  BY <1>8, <1>14, <1>15, NestingTurns DEF LoopsMatch
<1>17. LoopWatched(t, doneWatch'[p])
  <2>1. t \in Seq(FrameOf(p)) /\ t # <<>> /\ Last(t) = g
    <3>1. t \in Seq(FrameOf(p)) /\ Len(t) = Len(s) + 1 /\ t[Len(s) + 1] = g /\ Len(s) \in Nat
      BY <1>6, AppendProperties
    <3> QED BY <3>1, EmptySeq DEF Last
  <2> QED BY <1>11, <1>12, <2>1, LoopOnTop
<1>18. \A q \in Procs : stack'[q] = IF q = p THEN t ELSE stack[q]
  BY <1>8 DEF Types, StackType
<1>19. GoodWatch(DoneOf(p), stack'[p], doneWatch'[p], tasks'[p], pend')
  BY <1>8, <1>11, <1>17, <1>18 DEF GoodWatch
<1>20. LoopsWatched'
  BY <1>8, <1>11, <1>18, <1>19, OneWatched DEF LoopsMatch
<1> QED BY <1>16, <1>20 DEF LoopsMatch

LEMMA LeaveNestedMessageLoopLoops ==
  ASSUME Types, LoopsMatch, scenario' = scenario, NEW p \in Procs, LeaveNestedMessageLoop(p)
  PROVE  LoopsMatch'
<1>1. PICK s \in Seq(FrameOf(p)) : s = stack[p]
  BY DEF Types, StackType
<1>2. s # <<>> /\ Last(s) = Top(p) /\ Last(s).k = "loop" /\ Last(s).quit /\ Last(s) \in FrameOf(p)
  BY <1>1, TopFrame DEF LeaveNestedMessageLoop, TopIs, Top, Types
<1>3. PICK u : u = Front(s)
  OBVIOUS
<1>4. PICK t : t = Front(u)
  OBVIOUS
<1>5. GoodStack(s, sent[p]) /\ GoodWatch(DoneOf(p), s, doneWatch[p], tasks[p], pend)
  BY <1>1 DEF LoopsMatch, Nesting, LoopsWatched
<1>6. /\ u \in Seq(FrameOf(p)) /\ u # <<>> /\ GoodStack(u, sent[p])
      /\ Last(u).k = "send" /\ Last(u).ctx = Last(s).ctx /\ Last(u).n = Last(s).n
      /\ \A c, n : SendsIn(u, c, n) <=> SendsIn(s, c, n)
  BY <1>2, <1>3, <1>5, LoopStands
<1>7. PICK d \in Contexts : d = Last(s).ctx /\ d[1] = p
  BY <1>2, Kinds DEF ContextsOf
<1>8. PICK q : q = Front(pend[d])
  OBVIOUS
<1>9. t \in Seq(FrameOf(p))
  BY <1>4, <1>6, FrontType
<1>10. stack' = [stack EXCEPT ![p] = t] /\ pend' = [pend EXCEPT ![d] = q] /\ sent' = sent
  BY <1>1, <1>2, <1>3, <1>4, <1>7, <1>8 DEF LeaveNestedMessageLoop, Pop
<1>11. Nesting' /\ pend[d] # <<>> /\ Last(pend[d]).n = Last(u).n
  <2>1. \A c, n : SendsIn(u, c, n) <=> SendsIn(stack[p], c, n)
    BY <1>1, <1>6
  <2>2. Nesting /\ Types /\ scenario' = scenario /\ UNCHANGED sent /\ p \in Procs /\ d = Last(u).ctx
    BY <1>6, <1>7, <1>10 DEF LoopsMatch
  <2> QED BY ONLY <1>4, <1>6, <1>8, <1>10, <2>1, <2>2, NestingPops, ZenonT(60)
<1>12. ~doneWatch[p].on /\ ~Has(tasks[p], DoneOf(p))
  <2>1. LoopWatched(s, doneWatch[p])
    BY <1>5 DEF GoodWatch
  <2>2. ~doneWatch[p].on
    BY <1>2, <2>1, LoopOnTop
  <2> QED BY <1>5, <2>2 DEF GoodWatch, CalledBack
<1>13. \A r \in Procs : stack'[r] = IF r = p THEN t ELSE stack[r]
  BY <1>10 DEF Types, StackType
<1>14. \A c \in Contexts : c[1] # p => pend'[c] = pend[c]
  BY <1>7, <1>10 DEF Types, PendType
<1>15. CASE Loops(p, t) = {}
  <2>1. doneWatch' = [doneWatch EXCEPT ![p] = None] /\ tasks' = tasks
    BY <1>1, <1>3, <1>4, <1>15 DEF LeaveNestedMessageLoop
  <2>2. doneWatch'[p] = None /\ \A r \in Procs : r # p => doneWatch'[r] = doneWatch[r]
    BY <2>1 DEF Types, WatchType
  <2>3. ~None.on
    BY DEF None
  <2>4. \A i \in 1..Len(t) : t[i].k # "loop"
    BY <1>9, <1>15 DEF Loops
  <2>5. LoopWatched(t, None)
    BY <2>3, <2>4 DEF LoopWatched
  <2>6. CalledBack(DoneOf(p), None, tasks[p])
    BY <1>12, <2>3, NotCalled
  <2>7. GoodWatch(DoneOf(p), stack'[p], doneWatch'[p], tasks'[p], pend')
    BY <1>13, <2>1, <2>2, <2>3, <2>5, <2>6 DEF GoodWatch
  <2>8. \A r \in Procs : r # p => stack'[r] = stack[r] /\ doneWatch'[r] = doneWatch[r] /\ tasks'[r] = tasks[r]
    BY <1>13, <2>1, <2>2
  <2> QED BY <1>11, <1>14, <2>7, <2>8, OneWatched DEF LoopsMatch
<1>16. CASE Loops(p, t) # {}
  <2>1. PICK i : i = Max(Loops(p, t))
    OBVIOUS
  <2>2. i \in 1..Len(t) /\ t[i].k = "loop" /\ \A j \in 1..Len(t) : t[j].k = "loop" => j <= i
    <3>1. Loops(p, t) \in SUBSET Nat /\ Loops(p, t) \in SUBSET (1..Len(t))
      BY <1>9 DEF Loops
    <3>2. IsFiniteSet(Loops(p, t))
      BY <3>1, <1>9, FS_Interval, FS_Subset
    <3>3. \E x \in Loops(p, t) : \A y \in Loops(p, t) : y <= x
      BY <1>16, <3>1, <3>2, GreatestNatural
    <3>4. \E x \in Loops(p, t) : \A y \in Loops(p, t) : x >= y
      BY <3>1, <3>3
    <3>5. i \in Loops(p, t) /\ \A y \in Loops(p, t) : i >= y
      BY <2>1, <3>4 DEF Max
    <3>6. \A y \in Loops(p, t) : y <= i
      BY <3>1, <3>5
    <3>7. \A j \in 1..Len(t) : t[j].k = "loop" <=> j \in Loops(p, t)
      BY <1>9 DEF Loops
    <3> QED BY <3>1, <3>5, <3>6, <3>7
  <2>3. PICK g \in FrameOf(p) : g = t[i] /\ g.k = "loop"
    BY <1>9, <2>2
  <2>4. g.ctx \in ContextsOf(p) /\ g.n \in Nat \ {0} /\ g.ctx \in Contexts
    BY <2>3, Kinds DEF ContextsOf
  <2>5. StartWatchingDone(p, g.ctx, g.n, tasks[p])
    BY <1>1, <1>3, <1>4, <1>16, <2>1, <2>3 DEF LeaveNestedMessageLoop
  <2>6. tasks[p] \in Seq(TaskOf(p))
    BY DEF Types, TasksType
  <2>7. /\ doneWatch'[p].on /\ doneWatch'[p].ctx = g.ctx /\ doneWatch'[p].n = g.n
        /\ doneWatch'[p].posted <=> ~UndoneIn(pend[g.ctx], g.n)
        /\ CalledBack(DoneOf(p), doneWatch'[p], tasks'[p])
        /\ \A r \in Procs : r # p => doneWatch'[r] = doneWatch[r] /\ tasks'[r] = tasks[r]
    BY <1>12, <2>4, <2>5, <2>6, StartWatched
  <2>8. /\ Len(t) = Len(u) - 1 /\ Len(u) = Len(s) - 1 /\ Len(s) \in Nat
        /\ \A j \in 1..(Len(s) - 1) : u[j] = s[j]
        /\ \A j \in 1..(Len(u) - 1) : t[j] = u[j]
    BY <1>2, <1>3, <1>4, <1>6, FrontAndLast
  <2>9. i \in 1..Len(u) /\ i \in 1..Len(s) /\ i # Len(s) /\ u[i] = g /\ s[i] = g
    BY <2>2, <2>3, <2>8
  <2>10. ~g.quit
    BY <1>5, <2>3, <2>9 DEF GoodStack
  <2>11. g.n # Last(pend[d]).n
    <3>1. g.n < Last(u).n
      BY <1>6, <2>3, <2>9, LoopNumber
    <3>2. g.n \in Nat /\ Last(u).n \in Nat
      <4>1. Last(u) \in FrameOf(p)
        BY <1>6, FrontAndLast
      <4> QED BY <1>6, <2>4, <4>1, Kinds
    <3> QED BY <1>11, <3>1, <3>2
  <2>12. UndoneIn(pend'[g.ctx], g.n) <=> UndoneIn(pend[g.ctx], g.n)
    BY <1>8, <1>10, <1>11, <2>4, <2>11, UndoneAfterPop
  <2>13. Innermost(t, i)
    <3>1. \A j \in 1..Len(t) : j > i => ~(j <= i)
      BY <2>2, <2>8
    <3> QED BY <2>2, <3>1 DEF Innermost
  <2>14. LoopWatched(t, doneWatch'[p])
    BY <2>2, <2>3, <2>7, <2>10, <2>13 DEF LoopWatched
  <2>15. GoodWatch(DoneOf(p), stack'[p], doneWatch'[p], tasks'[p], pend')
    BY <1>13, <2>7, <2>12, <2>14 DEF GoodWatch
  <2> QED BY <1>11, <1>13, <1>14, <2>7, <2>15, OneWatched DEF LoopsMatch
<1> QED BY <1>15, <1>16

LEMMA OnSendDoneSignaledLoops ==
  ASSUME Types, LoopsMatch, scenario' = scenario, NEW p \in Procs, OnSendDoneSignaled(p)
  PROVE  LoopsMatch'
<1>1. PICK s \in Seq(FrameOf(p)) : s = stack[p]
  BY DEF Types, StackType
<1>2. GoodStack(s, sent[p]) /\ GoodWatch(DoneOf(p), s, doneWatch[p], tasks[p], pend) /\ sent[p] \in Nat
  BY <1>1 DEF LoopsMatch, Nesting, LoopsWatched, Types, SentType
<1>3. PICK ts \in Seq(TaskOf(p)) : ts = tasks[p]
  BY DEF Types, TasksType
<1>4. ts # <<>> /\ Head(ts) \in DoneOf(p) /\ InLoop(p)
  <2>1. ts # <<>> /\ Head(ts).k = "done" /\ InLoop(p)
    BY <1>3 DEF OnSendDoneSignaled, NextTask
  <2>2. Head(ts) \in TaskOf(p)
    BY <2>1
  <2> QED BY <2>1, <2>2 DEF DoneOf
<1>5. PICK v : v = Tail(ts)
  OBVIOUS
<1>6. Has(ts, DoneOf(p)) /\ ~Has(v, DoneOf(p))
  <2>1. Once(ts, DoneOf(p))
    BY <1>2, <1>3 DEF GoodWatch, CalledBack
  <2>2. /\ \A X : Has(ts, X) <=> Has(v, X) \/ Head(ts) \in X
        /\ \A X : Once(ts, X) => Once(v, X) /\ (Head(ts) \in X => ~Has(v, X))
    BY <1>4, <1>5, HasTail
  <2> QED BY <1>4, <2>1, <2>2
<1>7. LoopWatched(s, doneWatch[p]) /\ doneWatch[p].on
  BY <1>2, <1>3, <1>6 DEF GoodWatch, CalledBack
<1>8. s # <<>>
  BY <1>2, <1>7, LoopBelow
<1>9. Last(s) = Top(p) /\ Last(s).k = "loop" /\ Last(s) \in FrameOf(p)
  BY <1>1, <1>4, <1>8, TopFrame DEF InLoop, Top, Types
<1>10. PICK f : f = [Last(s) EXCEPT !.quit = TRUE]
  OBVIOUS
<1>11. f \in FrameOf(p) /\ f.k = "loop" /\ f.ctx = Last(s).ctx /\ f.n = Last(s).n /\ f.quit
  <2>1. Last(s) \in [k : {"loop"}, ctx : ContextsOf(p), n : Nat \ {0}, quit : BOOLEAN]
    BY <1>9 DEF FrameOf
  <2>2. f \in [k : {"loop"}, ctx : ContextsOf(p), n : Nat \ {0}, quit : BOOLEAN]
    BY <1>10, <2>1
  <2>3. f.k = "loop" /\ f.ctx = Last(s).ctx /\ f.n = Last(s).n /\ f.quit
    BY <1>10, <2>1
  <2> QED BY <2>2, <2>3 DEF FrameOf
<1>12. PICK t : t = Append(Front(s), f)
  OBVIOUS
<1>13. stack' = [stack EXCEPT ![p] = t]
  BY <1>1, <1>8, <1>9, <1>10, <1>12 DEF OnSendDoneSignaled, Replaces
<1>14. doneWatch' = [doneWatch EXCEPT ![p] = None] /\ tasks' = [tasks EXCEPT ![p] = v] /\ sent' = sent /\ pend' = pend
  BY <1>3, <1>5 DEF OnSendDoneSignaled
<1>15. GoodStack(t, sent[p])
  <2>1. f.k = Last(s).k /\ f.k \in {"dispatch", "loop"} /\ f.ctx = Last(s).ctx /\ (f.k = "loop" => f.n = Last(s).n)
    BY <1>9, <1>11
  <2> QED BY <1>2, <1>8, <1>11, <1>12, <2>1, Turned
<1>16. \A d, n : SendsIn(t, d, n) <=> SendsIn(stack[p], d, n)
  <2>1. Last(s).k # "send" /\ f.k # "send"
    BY <1>9, <1>11
  <2> QED BY <1>1, <1>8, <1>11, <1>12, <2>1, TurnedSends
<1>17. Nesting'
  BY <1>13, <1>14, <1>15, <1>16, NestingTurns DEF LoopsMatch
<1>18. ~None.on
  BY DEF None
<1>19. LoopWatched(t, None)
  <2>1. PICK u : u = Front(s)
    OBVIOUS
  <2>2. u \in Seq(FrameOf(p)) /\ t = Append(u, f)
    BY <1>12, <2>1, FrontType
  <2>3. t \in Seq(FrameOf(p)) /\ t # <<>> /\ Last(t) = f
    <3>1. t \in Seq(FrameOf(p)) /\ Len(t) = Len(u) + 1 /\ t[Len(u) + 1] = f /\ Len(u) \in Nat
      BY <1>11, <2>2, AppendProperties
    <3> QED BY <3>1, EmptySeq DEF Last
  <2> QED BY <1>11, <1>18, <2>3, LoopOnTop
<1>20. CalledBack(DoneOf(p), None, v)
  BY <1>6, <1>18, NotCalled
<1>21. /\ \A q \in Procs : stack'[q] = (IF q = p THEN t ELSE stack[q]) /\ tasks'[q] = (IF q = p THEN v ELSE tasks[q])
       /\ \A q \in Procs : doneWatch'[q] = IF q = p THEN None ELSE doneWatch[q]
  BY <1>13, <1>14 DEF Types, StackType, TasksType, WatchType
<1>22. GoodWatch(DoneOf(p), stack'[p], doneWatch'[p], tasks'[p], pend')
  BY <1>18, <1>19, <1>20, <1>21 DEF GoodWatch
<1>23. LoopsWatched'
  BY <1>14, <1>21, <1>22, OneWatched DEF LoopsMatch
<1> QED BY <1>17, <1>23 DEF LoopsMatch

\* Sends are signalled, and the tasks stay otherwise.
LEMMA SignalLoops ==
  ASSUME Types, LoopsMatch, scenario' = scenario, UNCHANGED <<stack, sent>>,
         NEW c \in Contexts, NEW ns, NEW ok \in BOOLEAN, SignalDone(c, ns, ok, tasks[c[1]])
  PROVE  LoopsMatch'
<1>1. c[1] \in Procs
  BY Pairs DEF Types, SetsType
<1>2. PICK ts \in Seq(TaskOf(c[1])) : ts = tasks[c[1]]
  BY <1>1 DEF Types, TasksType
<1>3. SignalDone(c, ns, ok, ts)
  BY <1>2
<1>4. Signalled(c, ns, ok)
  BY <1>3, SignalDoneSignals DEF Types
<1>5. Nesting'
  BY <1>4, SignalledNests DEF LoopsMatch
<1>6. Once(ts, DoneOf(c[1]))
  BY <1>1, <1>2 DEF LoopsMatch, LoopsWatched, GoodWatch, CalledBack
<1>7. \A X \in SUBSET DoneOf(c[1]) : Has(ts, X) <=> Has(tasks[c[1]], X)
  BY <1>2
<1>8. LoopsWatched'
  BY <1>3, <1>6, <1>7, SignalledWatches DEF LoopsMatch
<1> QED BY <1>5, <1>8 DEF LoopsMatch

LEMMA CancelLoops ==
  ASSUME Types, LoopsMatch, scenario' = scenario, UNCHANGED <<stack, sent>>,
         NEW c \in Contexts, CancelPendingSends(c)
  PROVE  LoopsMatch'
<1>1. SignalDone(c, Pending(c), FALSE, tasks[c[1]]) /\ FALSE \in BOOLEAN
  BY DEF CancelPendingSends
<1> QED BY <1>1, SignalLoops

LEMMA UnblockLoops ==
  ASSUME Types, LoopsMatch, scenario' = scenario, UNCHANGED <<stack, sent>>,
         NEW c \in Contexts, NEW m \in MessageFrom(Peer(c)), m.reply, TryToUnblockListener(c, m)
  PROVE  LoopsMatch'
<1>1. m.ok \in BOOLEAN
  BY ReplyToSend
<1>2. SignalDone(c, {Last(pend[c]).n}, m.ok, tasks[c[1]])
  BY DEF TryToUnblockListener
<1> QED BY <1>1, <1>2, SignalLoops

LEMMA ReceiveReplyLoops ==
  ASSUME Types, LoopsMatch, scenario' = scenario, NEW c \in Contexts, ReceiveReply(c)
  PROVE  LoopsMatch'
<1>1. answered' = answered /\ UNCHANGED <<stack, sent>>
  BY DEF ReceiveReply, listenerVars
<1>2. PICK m : m = Head(wire[Peer(c)])
  OBVIOUS
<1>3. m \in MessageFrom(Peer(c)) /\ m.reply
  BY <1>1, <1>2, ReadsTypes DEF ReceiveReply, CanRead
<1>4. CASE IsMessageReplyTo(c, m)
  <2>1. TryToUnblockListener(c, m)
    BY <1>2, <1>4 DEF ReceiveReply
  <2> QED BY <1>1, <1>3, <2>1, UnblockLoops
<1>5. CASE ~IsMessageReplyTo(c, m)
  <2>1. UNCHANGED <<stack, sent, pend, doneWatch, tasks>>
    BY <1>1, <1>2, <1>5 DEF ReceiveReply
  <2> QED BY <2>1, LoopsStay
<1> QED BY <1>4, <1>5

LEMMA OnSendMessageLoops ==
  ASSUME Types, LoopsMatch, scenario' = scenario, NEW p \in Procs,
         OnSendMessage(p) \/ OnShutdownSignaled(p) \/ OnChannelClosed(p)
  PROVE  LoopsMatch'
<1>1. UNCHANGED <<stack, sent>>
  BY DEF OnSendMessage, OnShutdownSignaled, OnChannelClosed, listenerVars
<1>2. UNCHANGED <<pend, doneWatch, tasks>> \/ CancelPendingSends(Head(ipc[p]).ctx)
  BY DEF OnSendMessage, OnShutdownSignaled, OnChannelClosed
<1>3. Head(ipc[p]).ctx \in Contexts
  BY Kinds DEF OnSendMessage, OnShutdownSignaled, OnChannelClosed, NextIpc, Types, IpcType, ContextsOf
<1>4. CASE UNCHANGED <<pend, doneWatch, tasks>>
  BY <1>1, <1>4, LoopsStay
<1>5. CASE CancelPendingSends(Head(ipc[p]).ctx)
  BY <1>1, <1>3, <1>5, CancelLoops
<1> QED BY <1>2, <1>4, <1>5

LEMMA DispatchRepliesLoops ==
  ASSUME Types, LoopsMatch, scenario' = scenario, NEW p \in Procs, DispatchReplies(p)
  PROVE  LoopsMatch'
<1>1. UNCHANGED <<stack, sent>>
  BY DEF DispatchReplies, listenerVars
<1>2. CASE Wanted(p) = {}
  BY <1>1, <1>2, LoopsStay DEF DispatchReplies
<1>3. CASE Wanted(p) # {}
  <2>1. PICK i \in 1..Len(replies[p]) : i = Min(Wanted(p)) /\ i \in Wanted(p)
    BY <1>3, FirstWanted DEF Types
  <2>2. PICK x \in ReplyTo(p) : x = replies[p][i]
    BY DEF Types, RepliesType
  <2>3. x.ctx \in Contexts /\ x.m \in MessageFrom(Peer(x.ctx)) /\ x.m.reply
    BY DEF ReplyTo, ContextsOf
  <2>4. TryToUnblockListener(x.ctx, x.m)
    BY <1>3, <2>1, <2>2 DEF DispatchReplies
  <2> QED BY <1>1, <2>3, <2>4, UnblockLoops
<1> QED BY <1>2, <1>3

LEMMA DeleteChannelLoops ==
  ASSUME Types, LoopsMatch, scenario' = scenario, NEW c \in Contexts, DeleteChannel(c)
  PROVE  LoopsMatch'
<1>1. PICK p \in Procs : p = c[1]
  BY Pairs DEF Types, SetsType
<1>2. tasks[p] \in Seq(TaskOf(p))
  BY DEF Types, TasksType
<1>3. PICK I : I = {i \in DOMAIN tasks[p] : ~(tasks[p][i].k = "watch" /\ tasks[p][i].ctx = c)}
  OBVIOUS
<1>4. PICK ts : ts = Only(tasks[p], I)
  OBVIOUS
<1>5. I \in SUBSET (1..Len(tasks[p]))
  BY <1>2, <1>3
<1>6. ts \in Seq(TaskOf(p))
  BY <1>2, <1>4, <1>5, OnlyProperties
<1>7. /\ \A X : Has(ts, X) <=> \E i \in I : tasks[p][i] \in X
      /\ \A X : Once(tasks[p], X) => Once(ts, X)
  BY <1>2, <1>4, <1>5, HasOnly
<1>8. \A X \in SUBSET DoneOf(p) : Has(ts, X) <=> Has(tasks[p], X)
  <2>1. \A i \in 1..Len(tasks[p]) : tasks[p][i] \in DoneOf(p) => i \in I
    BY <1>2, <1>3 DEF DoneOf
  <2> QED BY <1>5, <1>7, <2>1 DEF Has
<1>9. Once(ts, DoneOf(p))
  BY <1>7 DEF LoopsMatch, LoopsWatched, GoodWatch, CalledBack
<1>10. PICK ns : ns = Pending(c)
  OBVIOUS
<1>11. SignalDone(c, ns, FALSE, ts) /\ UNCHANGED <<stack, sent>>
  BY <1>1, <1>3, <1>4, <1>10 DEF DeleteChannel
<1>12. Signalled(c, ns, FALSE)
  BY <1>11, SignalDoneSignals DEF Types
<1>13. Nesting'
  BY <1>11, <1>12, SignalledNests DEF LoopsMatch
<1>14. LoopsWatched'
  <2>1. ts \in Seq(TaskOf(c[1])) /\ (\A X \in SUBSET DoneOf(c[1]) : Has(ts, X) <=> Has(tasks[c[1]], X))
        /\ Once(ts, DoneOf(c[1])) /\ FALSE \in BOOLEAN /\ stack' = stack /\ LoopsWatched
    BY <1>1, <1>6, <1>8, <1>9, <1>11 DEF LoopsMatch
  <2> QED BY <1>11, <2>1, SignalledWatches
<1> QED BY <1>13, <1>14 DEF LoopsMatch

LEMMA OnSendTimeoutLoops ==
  ASSUME Types, LoopsMatch, scenario' = scenario, NEW t \in timers, OnSendTimeout(t)
  PROVE  LoopsMatch'
<1>1. t.ctx \in Contexts /\ FALSE \in BOOLEAN
  BY DEF Types, TimersType
<1>2. SignalDone(t.ctx, {t.n}, FALSE, tasks[t.ctx[1]]) /\ UNCHANGED <<stack, sent>>
  BY DEF OnSendTimeout, listenerVars
<1> QED BY <1>1, <1>2, SignalLoops

\* The callbacks of the dispatch watchers.
LEMMA WatchersCalled ==
  ASSUME ArmedType, NEW p \in Procs, NEW a, a = WatchTasks(p)
  PROVE  /\ a \in Seq(TaskOf(p))
         /\ event[p] => a = <<>>
         /\ ~event[p] => Len(a) = Len(armed[p]) /\ \A i \in 1..Len(armed[p]) : a[i] = [k |-> "watch", ctx |-> armed[p][i]]
         /\ \A i \in 1..Len(a) : a[i].k = "watch"
<1>1. armed[p] \in Seq(ContextsOf(p)) /\ DOMAIN armed[p] = 1..Len(armed[p]) /\ Len(armed[p]) \in Nat
  BY DEF ArmedType
<1>2. CASE event[p]
  BY <1>2 DEF WatchTasks
<1>3. CASE ~event[p]
  <2>1. \A i \in 1..Len(armed[p]) : [k |-> "watch", ctx |-> armed[p][i]] \in TaskOf(p)
    BY <1>1 DEF TaskOf
  <2>2. a = [i \in 1..Len(armed[p]) |-> [k |-> "watch", ctx |-> armed[p][i]]]
    BY <1>1, <1>3 DEF WatchTasks
  <2>3. a \in Seq(TaskOf(p)) /\ Len(a) = Len(armed[p])
    BY <1>1, <2>1, <2>2
  <2> QED BY <1>3, <2>2, <2>3
<1> QED BY <1>2, <1>3

\* Callbacks of the dispatch watchers and a task are posted.
LEMMA SignalDispatchLoops ==
  ASSUME Types, LoopsMatch, scenario' = scenario, NEW p \in Procs, SignalDispatch(p)
  PROVE  LoopsMatch'
<1>1. UNCHANGED <<stack, sent, pend, doneWatch>>
  BY DEF SignalDispatch, listenerVars
<1>2. PICK ts \in Seq(TaskOf(p)) : ts = tasks[p]
  BY DEF Types, TasksType
<1>3. PICK a : a = WatchTasks(p)
  OBVIOUS
<1>4. PICK b : b = IF signalling[p].post THEN <<[k |-> "task", ctx |-> signalling[p].ctx]>> ELSE <<>>
  OBVIOUS
<1>5. PICK u : u = ts \o a
  OBVIOUS
<1>6. PICK v : v = u \o b
  OBVIOUS
<1>7. a \in Seq(TaskOf(p)) /\ ~Has(a, DoneOf(p))
  <2>1. a \in Seq(TaskOf(p)) /\ \A i \in 1..Len(a) : a[i].k = "watch"
    BY <1>3, WatchersCalled DEF Types
  <2> QED BY <2>1 DEF Has, DoneOf
<1>8. b \in Seq(TaskOf(p)) /\ ~Has(b, DoneOf(p))
  <2>1. CASE signalling[p].post
    <3>1. PICK x : x = [k |-> "task", ctx |-> signalling[p].ctx]
      OBVIOUS
    <3>2. signalling[p].ctx \in ContextsOf(p)
      <4>1. signalling[p] # None
        BY DEF SignalDispatch, None
      <4>2. signalling[p] \in [on : {TRUE}, ctx : ContextsOf(p), post : BOOLEAN]
        BY <4>1 DEF Types, SignalType
      <4> QED BY <4>2
    <3>3. x \in TaskOf(p) /\ x.k = "task"
      BY <3>1, <3>2 DEF TaskOf
    <3>4. b = <<x>> /\ Len(b) = 1 /\ b[1] = x
      BY <1>4, <2>1, <3>1
    <3> QED BY <3>3, <3>4 DEF Has, DoneOf
  <2>2. CASE ~signalling[p].post
    BY <1>4, <2>2, HasNone
  <2> QED BY <2>1, <2>2
<1>9. u \in Seq(TaskOf(p))
  BY <1>5, <1>7, ConcatProperties
<1>10. /\ \A X : Has(u, X) <=> Has(ts, X) \/ Has(a, X)
       /\ \A X : Once(ts, X) /\ Once(a, X) /\ ~(Has(ts, X) /\ Has(a, X)) => Once(u, X)
  BY <1>5, <1>7, HasConcat
<1>11. /\ \A X : Has(v, X) <=> Has(u, X) \/ Has(b, X)
       /\ \A X : Once(u, X) /\ Once(b, X) /\ ~(Has(u, X) /\ Has(b, X)) => Once(v, X)
  BY <1>6, <1>8, <1>9, HasConcat
<1>12. \A X \in SUBSET DoneOf(p) : ~Has(a, X) /\ ~Has(b, X)
  BY <1>7, <1>8 DEF Has
<1>13. \A X \in SUBSET DoneOf(p) : Has(v, X) <=> Has(ts, X)
  BY <1>10, <1>11, <1>12
<1>14. CalledBack(DoneOf(p), doneWatch[p], ts)
  BY <1>2 DEF LoopsMatch, LoopsWatched, GoodWatch
<1>15. Once(v, DoneOf(p))
  <2>1. Once(a, DoneOf(p)) /\ Once(b, DoneOf(p)) /\ Once(ts, DoneOf(p))
    BY <1>7, <1>8, <1>14 DEF Has, Once, CalledBack
  <2> QED BY <1>7, <1>8, <1>10, <1>11, <2>1
<1>16. CalledBack(DoneOf(p), doneWatch[p], v)
  BY <1>13, <1>14, <1>15, CallsStay
<1>17. tasks' = [tasks EXCEPT ![p] = v]
  BY <1>2, <1>3, <1>4, <1>5, <1>6 DEF SignalDispatch
<1>18. tasks'[p] = v /\ \A q \in Procs : q # p => tasks'[q] = tasks[q]
  BY <1>17 DEF Types, TasksType
<1>19. GoodWatch(DoneOf(p), stack'[p], doneWatch'[p], tasks'[p], pend')
  BY <1>1, <1>16, <1>18 DEF LoopsMatch, LoopsWatched, GoodWatch
<1>20. LoopsWatched'
  BY <1>1, <1>18, <1>19, OneWatched DEF LoopsMatch
<1> QED BY <1>1, <1>20, NestingStays DEF LoopsMatch

LEMMA DieLoops ==
  ASSUME Types, LoopsMatch, scenario' = scenario, NEW p \in Procs, Die(p)
  PROVE  LoopsMatch'
<1>1. /\ \A q \in Procs : stack'[q] = (IF q = p THEN <<>> ELSE stack[q]) /\ tasks'[q] = (IF q = p THEN <<>> ELSE tasks[q])
      /\ \A q \in Procs : doneWatch'[q] = IF q = p THEN None ELSE doneWatch[q]
      /\ \A c \in Contexts : c[1] # p => pend'[c] = pend[c]
  BY DEF Die, Types, StackType, TasksType, WatchType
<1>2. ~None.on /\ LoopWatched(<<>>, None)
  BY DEF None, LoopWatched
<1>3. ~Has(<<>>, DoneOf(p))
  BY HasNone
<1>4. CalledBack(DoneOf(p), None, <<>>)
  BY <1>2, <1>3, NotCalled
<1>5. GoodWatch(DoneOf(p), stack'[p], doneWatch'[p], tasks'[p], pend')
  BY <1>1, <1>2, <1>4 DEF GoodWatch
<1>6. LoopsWatched'
  BY <1>1, <1>5, OneWatched DEF LoopsMatch
<1> QED BY <1>6, NestingDies DEF LoopsMatch

LEMMA InitLoops ==
  ASSUME Init, Types
  PROVE  LoopsMatch
<1>1. /\ \A p \in Procs : stack[p] = <<>> /\ tasks[p] = <<>> /\ doneWatch[p] = None
      /\ \A c \in Contexts : pend[c] = <<>>
  BY DEF Init
<1>2. GoodStack(<<>>, 0) /\ Increasing(<<>>) /\ \A c, n : ~Awaits(<<>>, n) /\ ~SendsIn(<<>>, c, n)
  BY DEF GoodStack, Increasing, Awaits, SendsIn
<1>3. \A p \in Procs : GoodStack(stack[p], sent[p])
  BY <1>1 DEF GoodStack
<1>4. \A c \in Contexts : Increasing(pend[c]) /\ \A n \in Nat : Awaits(pend[c], n) <=> SendsIn(stack[c[1]], c, n)
  BY <1>1, <1>2, Pairs DEF Types, SetsType
<1>5. ~None.on /\ LoopWatched(<<>>, None)
  BY DEF None, LoopWatched
<1>6. ASSUME NEW p \in Procs PROVE GoodWatch(DoneOf(p), stack[p], doneWatch[p], tasks[p], pend)
  <2>1. ~Has(<<>>, DoneOf(p))
    BY HasNone
  <2>2. CalledBack(DoneOf(p), None, <<>>)
    BY <1>5, <2>1, NotCalled
  <2> QED BY <1>1, <1>5, <2>2 DEF GoodWatch
<1> QED BY <1>3, <1>4, <1>6 DEF LoopsMatch, Nesting, LoopsWatched

LEMMA StepKeepsLoops ==
  ASSUME Types, LoopsMatch, Next
  PROVE  LoopsMatch'
<1>1. scenario' = scenario
  BY DEF Next
<1>2. ASSUME NEW p \in Procs, ListenerGoesOn(p) PROVE LoopsMatch'
  <2>1. CASE DispatchMessagesTask(p)
    BY <1>1, <2>1, TaskLoops DEF DispatchMessagesTask, NextTask
  <2>2. CASE OnDispatchEventSignaled(p)
    BY <1>1, <2>2, TaskLoops DEF OnDispatchEventSignaled, NextTask
  <2> QED BY <1>1, <1>2, <2>1, <2>2, DispatchMessagesLoops, WaitDispatchEventLoops, WaitDoneEventLoops,
             NestedMessageLoopLoops, LeaveNestedMessageLoopLoops, OnSendDoneSignaledLoops DEF ListenerGoesOn
<1>3. ASSUME NEW p \in Procs, IpcGoesOn(p) PROVE LoopsMatch'
  BY <1>1, <1>3, SignalDispatchLoops, OnSendMessageLoops, DispatchRepliesLoops DEF IpcGoesOn
<1>4. ASSUME NEW p \in Procs, NEW defer, NEW error, HandlerReturns(p, defer, error) PROVE LoopsMatch'
  BY <1>1, <1>4, HandlerReturnsLoops
<1>5. ASSUME NEW c \in Contexts, QueueMessage(c) PROVE LoopsMatch'
  BY <1>1, <1>5, LoopsStay DEF QueueMessage, listenerVars
<1>6. ASSUME NEW c \in Contexts, OnChannelError(c) PROVE LoopsMatch'
  <2>1. UNCHANGED <<stack, sent>> /\ CancelPendingSends(c)
    BY <1>6 DEF OnChannelError, listenerVars
  <2> QED BY <1>1, <2>1, CancelLoops
<1>7. ASSUME NEW r \in owed, ReplyLater(r) PROVE LoopsMatch'
  BY <1>1, <1>7, LoopsStay DEF ReplyLater
<1>8. ASSUME NEW p \in Procs, Shutdown(p) PROVE LoopsMatch'
  BY <1>1, <1>8, LoopsStay DEF Shutdown, listenerVars
<1>9. CASE Progress
  BY <1>1, <1>2, <1>3, <1>4, <1>5, <1>6, <1>9, ReceiveReplyLoops DEF Progress
<1>10. CASE Choice
  <2>1. ("pump" \in Features) \in BOOLEAN
    OBVIOUS
  <2> QED BY <1>1, <1>4, <1>7, <1>8, <1>10, <2>1, SendLoops, OnSendTimeoutLoops, DeleteChannelLoops, DieLoops DEF Choice
<1> QED BY <1>9, <1>10 DEF Next

LEMMA StutterKeepsLoops ==
  ASSUME Types, LoopsMatch, UNCHANGED vars
  PROVE  LoopsMatch'
<1>1. UNCHANGED <<stack, sent, pend, doneWatch, tasks>> /\ scenario' = scenario
  BY DEF vars
<1> QED BY <1>1, LoopsStay

(***************************************************************************)
(* What follows: the sends of a context nest, and the loops are left.      *)
(***************************************************************************)
\* An increasing sequence of numbers is determined by its members.
Rises(q) == \A i, j \in 1..Len(q) : i < j => q[i] < q[j]

LEMMA RisingRanks ==
  ASSUME NEW q \in Seq(Nat), Rises(q), NEW S, S = {q[i] : i \in 1..Len(q)}
  PROVE  /\ IsFiniteSet(S) /\ S \in SUBSET Nat /\ Cardinality(S) = Len(q)
         /\ \A i \in 1..Len(q) : Rank(S, q[i]) = i
<1>1. Len(q) \in Nat /\ \A i \in 1..Len(q) : q[i] \in Nat
  OBVIOUS
<1>2. \A i, j \in 1..Len(q) : (q[i] <= q[j] <=> i <= j) /\ (q[i] = q[j] => i = j)
  BY <1>1 DEF Rises
<1>3. S \in SUBSET Nat
  BY <1>1
<1>4. ASSUME NEW k \in 0..Len(q), NEW T, T = {q[i] : i \in 1..k}
      PROVE  IsFiniteSet(T) /\ Cardinality(T) = k
  <2>0. k \in Nat /\ k <= Len(q)
    BY <1>1
  <2>1. IsFiniteSet(1..k) /\ Cardinality(1..k) = k
    <3>1. IsFiniteSet(1..k) /\ Cardinality(1..k) = IF 1 > k THEN 0 ELSE k - 1 + 1
      BY <2>0, FS_Interval
    <3> QED BY <2>0, <3>1
  <2>2. PICK f : f = [i \in 1..k |-> q[i]]
    OBVIOUS
  <2>3. 1..k \subseteq 1..Len(q)
    BY <1>1, <2>0
  <2>4. f \in Bijection(1..k, T)
    <3>1. f \in [1..k -> T] /\ DOMAIN f = 1..k /\ \A y \in T : \E i \in 1..k : f[i] = y
      BY <1>4, <2>2
    <3>2. \A i, j \in 1..k : f[i] = f[j] => i = j
      <4>1. \A i, j \in 1..k : i \in 1..Len(q) /\ j \in 1..Len(q) /\ f[i] = q[i] /\ f[j] = q[j]
        BY <2>2, <2>3
      <4> QED BY <1>2, <4>1
    <3> QED BY <3>1, <3>2 DEF Bijection, Injection, Surjection, IsInjective
  <2> QED BY <2>1, <2>4, FS_Bijection DEF ExistsBijection
<1>5. IsFiniteSet(S) /\ Cardinality(S) = Len(q)
  <2>1. Len(q) \in 0..Len(q)
    BY <1>1
  <2> QED BY <1>4, <2>1
<1>6. ASSUME NEW i \in 1..Len(q) PROVE Rank(S, q[i]) = i
  <2>1. i \in 0..Len(q)
    BY <1>1
  <2>2. {x \in S : x <= q[i]} = {q[j] : j \in 1..i}
    <3>1. \A j \in 1..i : j \in 1..Len(q) /\ q[j] \in S /\ q[j] <= q[i]
      BY <1>1, <1>2
    <3>2. \A j \in 1..Len(q) : q[j] <= q[i] => j \in 1..i
      BY <1>1, <1>2
    <3> QED BY <3>1, <3>2
  <2> QED BY <1>4, <2>1, <2>2 DEF Rank
<1> QED BY <1>3, <1>5, <1>6

LEMMA SameMembersSameSequence ==
  ASSUME NEW q \in Seq(Nat), Rises(q), NEW r \in Seq(Nat), Rises(r),
         \A n \in Nat : (\E i \in 1..Len(q) : q[i] = n) <=> (\E i \in 1..Len(r) : r[i] = n)
  PROVE  Len(q) = Len(r) /\ \A i \in 1..Len(q) : q[i] = r[i]
<1>1. PICK S : S = {q[i] : i \in 1..Len(q)}
  OBVIOUS
<1>2. S = {r[i] : i \in 1..Len(r)}
  <2>1. (\A i \in 1..Len(q) : q[i] \in Nat) /\ (\A i \in 1..Len(r) : r[i] \in Nat)
    OBVIOUS
  <2> QED BY <1>1, <2>1
<1>3. /\ IsFiniteSet(S) /\ S \in SUBSET Nat /\ Cardinality(S) = Len(q) /\ Cardinality(S) = Len(r)
      /\ \A i \in 1..Len(q) : Rank(S, q[i]) = i
      /\ \A i \in 1..Len(r) : Rank(S, r[i]) = i
  BY <1>1, <1>2, RisingRanks
<1>4. ASSUME NEW i \in 1..Len(q) PROVE q[i] = r[i]
  <2>1. Rank(S, q[i]) = i /\ Rank(S, r[i]) = i /\ i \in Nat
    BY <1>3
  <2>2. q[i] \in S /\ r[i] \in S /\ q[i] \in Nat /\ r[i] \in Nat
    BY <1>1, <1>2, <1>3
  <2>3. q[i] < r[i] => Rank(S, q[i]) < Rank(S, r[i])
    BY <1>3, <2>2, RankGrows
  <2>4. r[i] < q[i] => Rank(S, r[i]) < Rank(S, q[i])
    BY <1>3, <2>2, RankGrows
  <2> QED BY <2>1, <2>2, <2>3, <2>4
<1> QED BY <1>3, <1>4

\* The numbers of the sends that await an answer.
LEMMA NumbersAwaited ==
  ASSUME NEW q \in Seq(Awaited), Increasing(q), NEW b, b = [i \in 1..Len(q) |-> q[i].n]
  PROVE  b \in Seq(Nat) /\ Len(b) = Len(q) /\ Rises(b) /\ \A i \in 1..Len(q) : b[i] = q[i].n
<1>1. Len(q) \in Nat /\ \A i \in 1..Len(q) : q[i].n \in Nat
  <2>1. \A i \in 1..Len(q) : q[i] \in Awaited
    OBVIOUS
  <2> QED BY <2>1 DEF Awaited
<1>2. b \in Seq(Nat) /\ Len(b) = Len(q) /\ \A i \in 1..Len(q) : b[i] = q[i].n
  BY <1>1
<1> QED BY <1>2 DEF Rises, Increasing

LEMMA SendsMatchAwaited ==
  ASSUME Types, Nesting, NEW c \in Contexts
  PROVE  Len(SendsOf(c)) = Len(pend[c]) /\ \A i \in 1..Len(pend[c]) : SendsOf(c)[i].n = pend[c][i].n
<1>1. PICK p \in Procs : p = c[1]
  BY Pairs DEF Types, SetsType
<1>2. PICK s \in Seq(FrameOf(p)) : s = stack[p]
  BY DEF Types, StackType
<1>3. PICK I : I = {i \in DOMAIN s : s[i].k = "send" /\ s[i].ctx = c}
  OBVIOUS
<1>4. I \in SUBSET (1..Len(s))
  BY <1>3
<1>5. PICK o : o = Only(s, I)
  OBVIOUS
<1>6. SendsOf(c) = o
  BY <1>1, <1>2, <1>3, <1>5 DEF SendsOf
<1>7. o \in Seq(FrameOf(p)) /\ Len(o) = Cardinality(I)
  BY <1>4, <1>5, OnlyProperties
<1>8. PICK f : /\ \A k \in 1..Len(o) : f[k] \in I /\ o[k] = s[f[k]]
               /\ \A k, l \in 1..Len(o) : k < l => f[k] < f[l]
               /\ \A i \in I : \E k \in 1..Len(o) : f[k] = i
  <2>1. /\ Only(s, I) \in Seq(FrameOf(p)) /\ Len(Only(s, I)) = Cardinality(I)
        /\ \E f : /\ \A k \in 1..Cardinality(I) : f[k] \in I /\ Only(s, I)[k] = s[f[k]]
                  /\ \A k, l \in 1..Cardinality(I) : k < l => f[k] < f[l]
                  /\ \A i \in I : \E k \in 1..Cardinality(I) : f[k] = i
    BY ONLY <1>4, OnlyProperties
  <2> QED BY <1>5, <1>7, <2>1
<1>9. \A i \in I : i \in 1..Len(s) /\ s[i].k = "send" /\ s[i].ctx = c /\ s[i].n \in Nat
  <2>1. \A i \in 1..Len(s) : s[i] \in FrameOf(p)
    OBVIOUS
  <2> QED BY <1>3, <1>4, <2>1, Kinds
<1>10. GoodStack(s, sent[p]) /\ Increasing(pend[c]) /\ \A n \in Nat : Awaits(pend[c], n) <=> SendsIn(s, c, n)
  BY <1>1, <1>2 DEF Nesting
<1>11. PICK a : a = [k \in 1..Len(o) |-> o[k].n]
  OBVIOUS
<1>12. a \in Seq(Nat) /\ Len(a) = Len(o) /\ \A k \in 1..Len(o) : a[k] = o[k].n
  <2>1. Len(o) \in Nat /\ \A k \in 1..Len(o) : o[k].n \in Nat
    BY <1>7, <1>8, <1>9
  <2> QED BY <1>11, <2>1
<1>13. Rises(a)
  <2>1. ASSUME NEW k \in 1..Len(a), NEW l \in 1..Len(a), k < l PROVE a[k] < a[l]
    <3>1. f[k] \in I /\ f[l] \in I /\ f[k] < f[l] /\ o[k] = s[f[k]] /\ o[l] = s[f[l]]
      BY <1>8, <1>12, <2>1
    <3>2. s[f[k]].n < s[f[l]].n
      BY <1>9, <1>10, <3>1 DEF GoodStack
    <3> QED BY <1>12, <2>1, <3>1, <3>2
  <2> QED BY <2>1 DEF Rises
<1>14. pend[c] \in Seq(Awaited)
  BY DEF Types, PendType
<1>15. PICK b : b = [i \in 1..Len(pend[c]) |-> pend[c][i].n]
  OBVIOUS
<1>16. b \in Seq(Nat) /\ Len(b) = Len(pend[c]) /\ Rises(b) /\ \A i \in 1..Len(pend[c]) : b[i] = pend[c][i].n
  BY <1>10, <1>14, <1>15, NumbersAwaited
<1>17. ASSUME NEW n \in Nat
       PROVE  (\E k \in 1..Len(a) : a[k] = n) <=> (\E i \in 1..Len(b) : b[i] = n)
  <2>1. (\E i \in 1..Len(b) : b[i] = n) <=> Awaits(pend[c], n)
    BY <1>16 DEF Awaits
  <2>2. (\E k \in 1..Len(a) : a[k] = n) => SendsIn(s, c, n)
    <3>1. ASSUME NEW k \in 1..Len(a), a[k] = n PROVE SendsIn(s, c, n)
      <4>1. f[k] \in I /\ s[f[k]].n = n
        BY <1>8, <1>12, <3>1
      <4> QED BY <4>1, <1>9 DEF SendsIn, IsSend
    <3> QED BY <3>1
  <2>3. SendsIn(s, c, n) => \E k \in 1..Len(a) : a[k] = n
    <3>1. ASSUME NEW i \in 1..Len(s), IsSend(s[i], c, n) PROVE \E k \in 1..Len(a) : a[k] = n
      <4>1. i \in I
        BY <1>2, <1>3, <3>1 DEF IsSend
      <4>2. PICK k \in 1..Len(o) : f[k] = i
        BY <4>1, <1>8
      <4>3. a[k] = n
        BY <4>2, <1>8, <1>12, <3>1 DEF IsSend
      <4> QED BY <4>3, <1>12
    <3> QED BY <3>1 DEF SendsIn
  <2> QED BY <1>10, <2>1, <2>2, <2>3
<1>18. Len(a) = Len(b) /\ \A k \in 1..Len(a) : a[k] = b[k]
  BY <1>12, <1>13, <1>16, <1>17, SameMembersSameSequence
<1> QED BY <1>6, <1>12, <1>16, <1>18

LEMMA SendsAreNested ==
  ASSUME Types, LoopsMatch
  PROVE  SendsNest
<1>1. \A c \in Contexts : DOMAIN pend[c] = 1..Len(pend[c])
  BY DEF Types, PendType
<1> QED BY <1>1, SendsMatchAwaited DEF LoopsMatch, SendsNest

LEMMA OwnLoopIsQuit ==
  ASSUME Types, LoopsMatch
  PROVE  QuitsOwnLoop
<1>1. SUFFICES ASSUME NEW p \in Procs, NextTask(p, "done"), NEW t, t = Head(tasks[p])
               PROVE  /\ stack[p] # <<>> /\ Top(p).ctx = t.ctx /\ Top(p).n = t.n
                      /\ Last(pend[t.ctx]).n = t.n /\ Last(pend[t.ctx]).done
  BY DEF QuitsOwnLoop
<1>2. PICK s \in Seq(FrameOf(p)) : s = stack[p]
  BY DEF Types, StackType
<1>3. PICK w : w = doneWatch[p]
  OBVIOUS
<1>4. GoodStack(s, sent[p]) /\ GoodWatch(DoneOf(p), s, w, tasks[p], pend)
  BY <1>2, <1>3 DEF LoopsMatch, Nesting, LoopsWatched
<1>5. t \in DoneOf(p) /\ Has(tasks[p], {t}) /\ Has(tasks[p], DoneOf(p))
  <2>1. tasks[p] \in Seq(TaskOf(p)) /\ tasks[p] # <<>> /\ t.k = "done"
    BY <1>1 DEF NextTask, Types, TasksType
  <2>2. t \in TaskOf(p) /\ Len(tasks[p]) \in Nat \ {0} /\ tasks[p][1] = t
    BY <1>1, <2>1, EmptySeq
  <2>3. t \in DoneOf(p) /\ 1 \in 1..Len(tasks[p]) /\ tasks[p][1] \in {t}
    BY <2>1, <2>2 DEF DoneOf
  <2> QED BY <2>2, <2>3 DEF Has
<1>6. w.on /\ w.posted /\ t.ctx = w.ctx /\ t.n = w.n
  BY <1>4, <1>5 DEF GoodWatch, CalledBack
<1>7. s # <<>> /\ LoopWatched(s, w)
  BY <1>4, <1>6, LoopBelow DEF GoodWatch
<1>8. Last(s) = Top(p) /\ Last(s).k = "loop" /\ Last(s) \in FrameOf(p)
  BY <1>1, <1>2, <1>7, TopFrame DEF NextTask, InLoop, Top, Types
<1>9. Top(p).ctx = t.ctx /\ Top(p).n = t.n
  BY <1>6, <1>7, <1>8, LoopOnTop
<1>10. PICK u : u = Front(s)
  OBVIOUS
<1>11. /\ u \in Seq(FrameOf(p)) /\ u # <<>> /\ GoodStack(u, sent[p])
       /\ Last(u).k = "send" /\ Last(u).ctx = Last(s).ctx /\ Last(u).n = Last(s).n
       /\ \A c, n : SendsIn(u, c, n) <=> SendsIn(s, c, n)
  BY <1>4, <1>7, <1>8, <1>10, LoopStands
<1>12. PICK d \in Contexts : d = t.ctx /\ d[1] = p
  BY <1>8, <1>9, Kinds DEF ContextsOf
<1>13. Increasing(pend[d]) /\ (\A n \in Nat : Awaits(pend[d], n) <=> SendsIn(u, d, n)) /\ pend[d] \in Seq(Awaited)
  BY <1>2, <1>11, <1>12 DEF LoopsMatch, Nesting, Types, PendType
<1>14. pend[d] # <<>> /\ Last(pend[d]).n = t.n
  <2>1. d = Last(u).ctx /\ Last(u).n = t.n
    BY <1>8, <1>9, <1>11, <1>12
  <2> QED BY <1>11, <1>13, <2>1, InnermostSend
<1>15. Last(pend[d]).done
  <2>1. ~UndoneIn(pend[d], t.n)
    BY <1>4, <1>6, <1>12 DEF GoodWatch
  <2>2. Len(pend[d]) \in Nat \ {0} /\ Last(pend[d]) = pend[d][Len(pend[d])]
    BY <1>13, <1>14, FrontAndLast
  <2>3. Len(pend[d]) \in 1..Len(pend[d])
    BY <2>2
  <2> QED BY <1>14, <2>1, <2>2, <2>3 DEF UndoneIn
<1> QED BY <1>2, <1>7, <1>9, <1>12, <1>14, <1>15

LEMMA LoopIsLeft ==
  ASSUME Types, LoopsMatch
  PROVE  NestedLoopIsLeft
<1>1. SUFFICES ASSUME NEW p \in Procs, TopIs(p, "loop"), ~Top(p).quit, ~Undone(Top(p).ctx, Top(p).n)
               PROVE  \E i \in DOMAIN tasks[p] : tasks[p][i].k = "done" /\ tasks[p][i].n = Top(p).n
  BY DEF NestedLoopIsLeft
<1>2. PICK s \in Seq(FrameOf(p)) : s = stack[p]
  BY DEF Types, StackType
<1>3. PICK w : w = doneWatch[p]
  OBVIOUS
<1>4. GoodWatch(DoneOf(p), s, w, tasks[p], pend)
  BY <1>2, <1>3 DEF LoopsMatch, LoopsWatched
<1>5. s # <<>> /\ Last(s) = Top(p) /\ Last(s).k = "loop" /\ ~Last(s).quit
  BY <1>1, <1>2 DEF TopIs, Top
<1>6. w.on /\ w.ctx = Last(s).ctx /\ w.n = Last(s).n
  BY <1>4, <1>5, LoopOnTop DEF GoodWatch
<1>7. w.ctx \in Contexts
  BY <1>3, <1>6, WatchKinds DEF Types
<1>8. ~UndoneIn(pend[w.ctx], w.n)
  <2>1. DOMAIN pend[w.ctx] = 1..Len(pend[w.ctx])
    BY <1>7 DEF Types, PendType
  <2> QED BY <1>1, <1>5, <1>6, <2>1 DEF Undone, UndoneIn
<1>9. Has(tasks[p], DoneOf(p))
  BY <1>4, <1>6, <1>8 DEF GoodWatch, CalledBack
<1>10. PICK i \in 1..Len(tasks[p]) : tasks[p][i] \in DoneOf(p)
  BY <1>9 DEF Has
<1>11. Has(tasks[p], {tasks[p][i]})
  BY <1>10 DEF Has
<1>12. tasks[p][i].n = w.n /\ tasks[p][i].k = "done"
  BY <1>4, <1>10, <1>11 DEF GoodWatch, CalledBack, DoneOf
<1>13. i \in DOMAIN tasks[p]
  BY <1>10 DEF Types, TasksType
<1> QED BY <1>5, <1>6, <1>12, <1>13

\* For any processes that send to each other from their handlers: the sends a context waits
\* for are the Send calls on the stack, in their order, so that each call returns its own
\* result; a watcher quits the loop of its own send and no other, and a loop whose send is
\* done is left.
THEOREM LoopsAreTheirSends == Spec => []LoopsInv
<1>1. Init => Types /\ ResultIsThePeers /\ LoopsMatch
  BY InitTypes, InitResults, InitLoops
<1>2. Types /\ ResultIsThePeers /\ LoopsMatch /\ [Next]_vars => Types' /\ ResultIsThePeers' /\ LoopsMatch'
  BY StepKeepsTypes, StutterKeepsTypes, StepKeepsLoops, StutterKeepsLoops
<1>3. Types /\ LoopsMatch => LoopsInv
  BY SendsAreNested, OwnLoopIsQuit, LoopIsLeft DEF LoopsInv
<1> QED BY <1>1, <1>2, <1>3, PTL DEF Spec

-----------------------------------------------------------------------------
(***************************************************************************)
(* The end of a channel: what cancels its sends is done or on its way.     *)
(***************************************************************************)
\* A task of one of the kinds is posted for the context.
Notes(is, ks, c) == \E i \in 1..Len(is) : is[i].k \in ks /\ is[i].ctx = c
AllDone(q) == \A i \in 1..Len(q) : q[i].done

\* The next write on a channel that is not open cancels its sends; so does the callback
\* of the shutdown event for one that is open.
CancelledAt(is, sh, cn, q, c) ==
  /\ cn # "open" /\ ~Notes(is, {"send", "closed"}, c) => AllDone(q)
  /\ cn = "open" /\ sh /\ ~Notes(is, {"shutdown"}, c) => AllDone(q)

Cancelled == \A c \in Contexts : CancelledAt(ipc[c[1]], shut[c[1]], conn[c], pend[c], c)

LEMMA NotesHad ==
  ASSUME NEW S, NEW is \in Seq(S), NEW ks, NEW c
  PROVE  Notes(is, ks, c) <=> Has(is, {t \in S : t.k \in ks /\ t.ctx = c})
<1>1. \A i \in 1..Len(is) : is[i] \in S
  OBVIOUS
<1> QED BY <1>1 DEF Notes, Has

LEMMA NotesAppend ==
  ASSUME NEW S, NEW is \in Seq(S), NEW t \in S, NEW js, js = Append(is, t), NEW ks, NEW c
  PROVE  Notes(js, ks, c) <=> Notes(is, ks, c) \/ (t.k \in ks /\ t.ctx = c)
<1>1. PICK X : X = {u \in S : u.k \in ks /\ u.ctx = c}
  OBVIOUS
<1>2. js \in Seq(S)
  BY AppendProperties
<1>3. (Notes(is, ks, c) <=> Has(is, X)) /\ (Notes(js, ks, c) <=> Has(js, X))
  <2>1. Notes(is, ks, c) <=> Has(is, {u \in S : u.k \in ks /\ u.ctx = c})
    BY NotesHad
  <2>2. Notes(js, ks, c) <=> Has(js, {u \in S : u.k \in ks /\ u.ctx = c})
    BY ONLY <1>2, NotesHad
  <2> QED BY <1>1, <2>1, <2>2
<1>4. Has(js, X) <=> Has(is, X) \/ t \in X
  BY HasAppend
<1> QED BY <1>1, <1>3, <1>4

LEMMA NotesTail ==
  ASSUME NEW S, NEW is \in Seq(S), is # <<>>, NEW js, js = Tail(is), NEW ks, NEW c
  PROVE  Notes(is, ks, c) <=> Notes(js, ks, c) \/ (Head(is).k \in ks /\ Head(is).ctx = c)
<1>1. PICK X : X = {u \in S : u.k \in ks /\ u.ctx = c}
  OBVIOUS
<1>2. js \in Seq(S) /\ Head(is) \in S
  BY HeadTailProperties
<1>3. (Notes(is, ks, c) <=> Has(is, X)) /\ (Notes(js, ks, c) <=> Has(js, X))
  <2>1. Notes(is, ks, c) <=> Has(is, {u \in S : u.k \in ks /\ u.ctx = c})
    BY NotesHad
  <2>2. Notes(js, ks, c) <=> Has(js, {u \in S : u.k \in ks /\ u.ctx = c})
    BY ONLY <1>2, NotesHad
  <2> QED BY <1>1, <2>1, <2>2
<1>4. Has(is, X) <=> Has(js, X) \/ Head(is) \in X
  BY HasTail
<1> QED BY <1>1, <1>2, <1>3, <1>4

\* A task that is posted adds to the notes.
LEMMA PostedNotes ==
  ASSUME IpcType, NEW p \in Procs, NEW t, IpcPosts(p, t)
  PROVE  /\ \A ks, c : \A q \in Procs : Notes(ipc[q], ks, c) => Notes(ipc'[q], ks, c)
         /\ \A ks : t.k \in ks => Notes(ipc'[p], ks, t.ctx)
<1>1. PICK S : S = IpcTaskOf(p) \cup {t}
  OBVIOUS
<1>2. ipc[p] \in Seq(S) /\ t \in S
  <2>1. ipc[p] \in Seq(IpcTaskOf(p)) /\ IpcTaskOf(p) \subseteq S
    BY <1>1 DEF IpcType
  <2> QED BY <1>1, <2>1, SeqMonotonic
<1>3. PICK js : js = Append(ipc[p], t)
  OBVIOUS
<1>4. ipc'[p] = js /\ \A q \in Procs : q # p => ipc'[q] = ipc[q]
  BY <1>3 DEF IpcPosts, IpcType
<1>5. \A ks, c : Notes(js, ks, c) <=> Notes(ipc[p], ks, c) \/ (t.k \in ks /\ t.ctx = c)
  BY <1>2, <1>3, NotesAppend
<1> QED BY <1>4, <1>5

\* A task that is taken was the only one lost.
LEMMA TakenNotes ==
  ASSUME IpcType, NEW p \in Procs, ipc[p] # <<>>, IpcTakes(p)
  PROVE  \A ks, c : \A q \in Procs :
           Notes(ipc[q], ks, c) => Notes(ipc'[q], ks, c) \/ (q = p /\ Head(ipc[p]).k \in ks /\ Head(ipc[p]).ctx = c)
<1>1. PICK js : js = Tail(ipc[p])
  OBVIOUS
<1>2. ipc'[p] = js /\ \A q \in Procs : q # p => ipc'[q] = ipc[q]
  BY <1>1 DEF IpcTakes, IpcType
<1>3. \A ks, c : Notes(ipc[p], ks, c) <=> Notes(js, ks, c) \/ (Head(ipc[p]).k \in ks /\ Head(ipc[p]).ctx = c)
  BY <1>1, NotesTail DEF IpcType
<1> QED BY <1>2, <1>3

LEMMA SignalledDone ==
  ASSUME PendType, NEW c \in Contexts, NEW ns, NEW ok, Signalled(c, ns, ok)
  PROVE  /\ \A d \in Contexts : AllDone(pend[d]) => AllDone(pend'[d])
         /\ Pending(c) \subseteq ns => AllDone(pend'[c])
<1>1. ASSUME NEW d \in Contexts, AllDone(pend[d]) PROVE AllDone(pend'[d])
  BY <1>1 DEF Signalled, AllDone
<1>2. ASSUME Pending(c) \subseteq ns PROVE AllDone(pend'[c])
  <2>1. \A i \in 1..Len(pend[c]) : pend[c][i].n \in ns
    BY <1>2 DEF Pending, PendType
  <2> QED BY <2>1 DEF Signalled, AllDone
<1> QED BY <1>1, <1>2

LEMMA CancelledDone ==
  ASSUME Types, scenario' = scenario, NEW c \in Contexts, CancelPendingSends(c)
  PROVE  AllDone(pend'[c]) /\ \A d \in Contexts : AllDone(pend[d]) => AllDone(pend'[d])
<1>1. PICK ns : ns = Pending(c)
  OBVIOUS
<1>2. Signalled(c, ns, FALSE)
  BY <1>1, CancelTypes
<1> QED BY <1>1, <1>2, SignalledDone DEF Types

\* What a step may do to a channel.
LEMMA CancelledStays ==
  ASSUME Cancelled, scenario' = scenario,
         \A c \in Contexts :
           \/ AllDone(pend'[c])
           \/ /\ AllDone(pend[c]) => AllDone(pend'[c])
              /\ conn'[c] = conn[c] /\ shut'[c[1]] = shut[c[1]]
              /\ conn[c] # "open" /\ Notes(ipc[c[1]], {"send", "closed"}, c) => Notes(ipc'[c[1]], {"send", "closed"}, c)
              /\ conn[c] = "open" /\ Notes(ipc[c[1]], {"shutdown"}, c) => Notes(ipc'[c[1]], {"shutdown"}, c)
  PROVE  Cancelled'
<1>1. SUFFICES ASSUME NEW c \in Contexts PROVE CancelledAt(ipc'[c[1]], shut'[c[1]], conn'[c], pend'[c], c)
  BY SameScenario DEF Cancelled
<1>2. CancelledAt(ipc[c[1]], shut[c[1]], conn[c], pend[c], c)
  BY DEF Cancelled
<1> QED BY <1>2 DEF CancelledAt

\* The steps that lose no task of the IPC thread.
LEMMA CancelledGoesOn ==
  ASSUME Types, Cancelled, scenario' = scenario, UNCHANGED <<conn, shut>>,
         \A c \in Contexts : AllDone(pend[c]) => AllDone(pend'[c]),
         \A ks, c : \A p \in Procs : Notes(ipc[p], ks, c) => Notes(ipc'[p], ks, c)
  PROVE  Cancelled'
<1>1. \A c \in Contexts : c[1] \in Procs
  BY Pairs DEF Types, SetsType
<1> QED BY <1>1, CancelledStays

LEMMA PopCancelled ==
  ASSUME Types, Cancelled, scenario' = scenario, UNCHANGED <<conn, shut>>, NEW c \in Contexts, Pop(c)
  PROVE  Cancelled'
<1>1. PICK t : t = [k |-> "replies"]
  OBVIOUS
<1>2. IpcPosts(c[1], t) /\ c[1] \in Procs
  BY <1>1, Pairs DEF Pop, Types, SetsType
<1>3. \A ks, d : \A p \in Procs : Notes(ipc[p], ks, d) => Notes(ipc'[p], ks, d)
  BY <1>2, PostedNotes DEF Types
<1>4. \A d \in Contexts : AllDone(pend[d]) => AllDone(pend'[d])
  <2>1. PICK q : q = Front(pend[c])
    OBVIOUS
  <2>2. pend[c] \in Seq(Awaited)
    BY DEF Types, PendType
  <2>3. AllDone(pend[c]) => AllDone(q)
    <3>1. CASE pend[c] = <<>>
      <4>1. SubSeq(pend[c], 1, Len(pend[c]) - 1) = <<>>
        BY <3>1, SubSeqEmpty
      <4>2. q = <<>>
        BY <2>1, <4>1 DEF Front
      <4> QED BY <4>2 DEF AllDone
    <3>2. CASE pend[c] # <<>>
      <4>1. /\ Len(q) = Len(pend[c]) - 1 /\ Len(pend[c]) \in Nat \ {0}
            /\ \A i \in 1..(Len(pend[c]) - 1) : q[i] = pend[c][i]
        BY <2>1, <2>2, <3>2, FrontAndLast
      <4>2. \A i \in 1..Len(q) : i \in 1..Len(pend[c]) /\ q[i] = pend[c][i]
        BY <4>1
      <4> QED BY <4>2 DEF AllDone
    <3> QED BY <3>1, <3>2
  <2>4. pend'[c] = q /\ \A d \in Contexts : d # c => pend'[d] = pend[d]
    BY <2>1 DEF Pop, Types, PendType
  <2> QED BY <2>3, <2>4
<1> QED BY <1>3, <1>4, CancelledGoesOn

LEMMA SendCancelled ==
  ASSUME Types, Cancelled, scenario' = scenario, NEW c \in Contexts, NEW pump, NEW timed, Send(c, pump, timed)
  PROVE  Cancelled'
<1>1. PICK n : n = sent[c[1]] + 1
  OBVIOUS
<1>2. PICK t : t = [k |-> "send", ctx |-> c, m |-> [reply |-> FALSE, req |-> [ctx |-> c, n |-> n], ok |-> TRUE]]
  OBVIOUS
<1>3. IpcPosts(c[1], t) /\ ~shut[c[1]] /\ UNCHANGED <<conn, shut>>
  BY <1>1, <1>2 DEF Send, faultVars
<1>4. c[1] \in Procs /\ \A d \in Contexts : d[1] \in Procs
  BY Pairs DEF Types, SetsType
<1>5. /\ \A ks, d : \A q \in Procs : Notes(ipc[q], ks, d) => Notes(ipc'[q], ks, d)
      /\ \A ks : t.k \in ks => Notes(ipc'[c[1]], ks, t.ctx)
  BY <1>3, <1>4, PostedNotes DEF Types
<1>6. Notes(ipc'[c[1]], {"send", "closed"}, c)
  BY <1>2, <1>5
<1>7. \A d \in Contexts : d # c => pend'[d] = pend[d]
  BY DEF Send, Types, PendType
<1>8. SUFFICES ASSUME NEW d \in Contexts PROVE CancelledAt(ipc'[d[1]], shut'[d[1]], conn'[d], pend'[d], d)
  BY SameScenario DEF Cancelled
<1>9. CancelledAt(ipc[d[1]], shut[d[1]], conn[d], pend[d], d)
  BY DEF Cancelled
<1>10. CASE d = c
  BY <1>3, <1>6, <1>10 DEF CancelledAt
<1>11. CASE d # c
  <2>1. \A ks : Notes(ipc[d[1]], ks, d) => Notes(ipc'[d[1]], ks, d)
    BY <1>4, <1>5
  <2> QED BY <1>3, <1>7, <1>9, <1>11, <2>1 DEF CancelledAt
<1> QED BY <1>10, <1>11

\* The steps that leave the tasks of the IPC thread, the sends and the channels alone.
LEMMA CancelledRests ==
  ASSUME Types, Cancelled, scenario' = scenario, UNCHANGED <<pend, ipc, conn, shut>>
  PROVE  Cancelled'
BY CancelledGoesOn

\* Sends are signalled, and a task may be posted.
LEMMA SignalCancelled ==
  ASSUME Types, Cancelled, scenario' = scenario, UNCHANGED <<conn, shut>>,
         NEW c \in Contexts, NEW ns, NEW ok, Signalled(c, ns, ok),
         \A ks, d : \A p \in Procs : Notes(ipc[p], ks, d) => Notes(ipc'[p], ks, d)
  PROVE  Cancelled'
<1>1. \A d \in Contexts : AllDone(pend[d]) => AllDone(pend'[d])
  BY SignalledDone DEF Types
<1> QED BY <1>1, CancelledGoesOn

LEMMA ReplyCancelled ==
  ASSUME Types, Cancelled, scenario' = scenario, NEW r \in Request, NEW ok, Reply(r, ok),
         UNCHANGED <<pend, conn, shut>>
  PROVE  Cancelled'
<1>1. CASE At(r) \in cleared
  <2>1. UNCHANGED ipc
    BY <1>1 DEF Reply
  <2> QED BY <2>1, CancelledRests
<1>2. CASE At(r) \notin cleared
  <2>1. PICK t : t = [k |-> "send", ctx |-> At(r), m |-> [reply |-> TRUE, req |-> r, ok |-> ok]]
    OBVIOUS
  <2>2. IpcPosts(At(r)[1], t)
    BY <1>2, <2>1 DEF Reply
  <2>3. At(r)[1] \in Procs
    <3>1. r.ctx \in Contexts
      BY DEF Request
    <3> QED BY <3>1, Pairs DEF Types, SetsType, At
  <2>4. \A ks, d : \A p \in Procs : Notes(ipc[p], ks, d) => Notes(ipc'[p], ks, d)
    BY <2>2, <2>3, PostedNotes DEF Types
  <2> QED BY <2>4, CancelledGoesOn
<1> QED BY <1>1, <1>2

LEMMA HandlerReturnsCancelled ==
  ASSUME Types, Cancelled, scenario' = scenario, NEW p \in Procs, NEW defer, NEW error,
         HandlerReturns(p, defer, error)
  PROVE  Cancelled'
<1>1. UNCHANGED <<pend, conn, shut>> /\ (UNCHANGED ipc \/ Reply(Top(p).req, ~error))
  BY DEF HandlerReturns, faultVars
<1>2. Top(p).req \in Request
  BY TopFrame, Kinds DEF HandlerReturns, TopIs, Types, RequestTo
<1> QED BY <1>1, <1>2, CancelledRests, ReplyCancelled

LEMMA ReceiveReplyCancelled ==
  ASSUME Types, Cancelled, scenario' = scenario, NEW c \in Contexts, ReceiveReply(c)
  PROVE  Cancelled'
<1>1. UNCHANGED <<ipc, conn, shut, answered>>
  BY DEF ReceiveReply, faultVars
<1>2. PICK m : m = Head(wire[Peer(c)])
  OBVIOUS
<1>3. m \in MessageFrom(Peer(c)) /\ m.reply
  BY <1>1, <1>2, ReadsTypes DEF ReceiveReply, CanRead
<1>4. UNCHANGED pend \/ TryToUnblockListener(c, m)
  BY <1>2 DEF ReceiveReply
<1>5. TryToUnblockListener(c, m) => Signalled(c, {Last(pend[c]).n}, m.ok)
  BY <1>3, UnblockTypes
<1> QED BY <1>1, <1>4, <1>5, CancelledRests, SignalCancelled

LEMMA DispatchRepliesCancelled ==
  ASSUME Types, Cancelled, scenario' = scenario, NEW p \in Procs, DispatchReplies(p)
  PROVE  Cancelled'
<1>1. UNCHANGED <<conn, shut>>
  BY DEF DispatchReplies, faultVars
<1>2. \A ks, c : \A q \in Procs :
        Notes(ipc[q], ks, c) => Notes(ipc'[q], ks, c) \/ (q = p /\ Head(ipc[p]).k \in ks /\ Head(ipc[p]).ctx = c)
  BY TakenNotes DEF DispatchReplies, NextIpc, Types
<1>3. Head(ipc[p]).k = "replies"
  BY DEF DispatchReplies, NextIpc
<1>4. \A d \in Contexts : AllDone(pend[d]) => AllDone(pend'[d])
  <2>1. CASE Wanted(p) = {}
    BY <2>1 DEF DispatchReplies
  <2>2. CASE Wanted(p) # {}
    <3>1. PICK i \in 1..Len(replies[p]) : i = Min(Wanted(p))
      BY <2>2, FirstWanted DEF Types
    <3>2. PICK x \in ReplyTo(p) : x = replies[p][i]
      BY DEF Types, RepliesType
    <3>3. x.ctx \in Contexts /\ x.m \in MessageFrom(Peer(x.ctx)) /\ x.m.reply
      BY DEF ReplyTo, ContextsOf
    <3>4. TryToUnblockListener(x.ctx, x.m)
      BY <2>2, <3>1, <3>2 DEF DispatchReplies
    <3>5. Signalled(x.ctx, {Last(pend[x.ctx]).n}, x.m.ok)
      BY <3>3, <3>4, UnblockTypes
    <3> QED BY <3>3, <3>5, SignalledDone DEF Types
  <2> QED BY <2>1, <2>2
<1>5. \A c \in Contexts : c[1] \in Procs
  BY Pairs DEF Types, SetsType
<1>6. ASSUME NEW c \in Contexts, NEW ks, ks \in {{"send", "closed"}, {"shutdown"}}, Notes(ipc[c[1]], ks, c)
      PROVE  Notes(ipc'[c[1]], ks, c)
  BY <1>2, <1>3, <1>5, <1>6
<1> QED BY <1>1, <1>4, <1>6, CancelledStays

LEMMA OnSendMessageCancelled ==
  ASSUME Types, Cancelled, scenario' = scenario, NEW p \in Procs, OnSendMessage(p)
  PROVE  Cancelled'
<1>1. UNCHANGED <<conn, shut>>
  BY DEF OnSendMessage, faultVars
<1>2. \A ks, c : \A q \in Procs :
        Notes(ipc[q], ks, c) => Notes(ipc'[q], ks, c) \/ (q = p /\ Head(ipc[p]).k \in ks /\ Head(ipc[p]).ctx = c)
  BY TakenNotes DEF OnSendMessage, NextIpc, Types
<1>3. PICK t \in IpcTaskOf(p) : t = Head(ipc[p]) /\ t.k = "send"
  BY DEF OnSendMessage, NextIpc, Types, IpcType
<1>4. t.ctx \in Contexts
  BY <1>3, Kinds DEF ContextsOf
<1>5. \/ conn[t.ctx] = "open" /\ UNCHANGED pend
      \/ CancelPendingSends(t.ctx)
  BY <1>3 DEF OnSendMessage
<1>6. CancelPendingSends(t.ctx) => AllDone(pend'[t.ctx]) /\ \A d \in Contexts : AllDone(pend[d]) => AllDone(pend'[d])
  BY <1>4, CancelledDone
<1>7. \A c \in Contexts : c[1] \in Procs
  BY Pairs DEF Types, SetsType
<1>8. ASSUME NEW c \in Contexts
      PROVE  \/ AllDone(pend'[c])
             \/ /\ AllDone(pend[c]) => AllDone(pend'[c])
                /\ conn'[c] = conn[c] /\ shut'[c[1]] = shut[c[1]]
                /\ conn[c] # "open" /\ Notes(ipc[c[1]], {"send", "closed"}, c) => Notes(ipc'[c[1]], {"send", "closed"}, c)
                /\ conn[c] = "open" /\ Notes(ipc[c[1]], {"shutdown"}, c) => Notes(ipc'[c[1]], {"shutdown"}, c)
  <2>1. Notes(ipc[c[1]], {"shutdown"}, c) => Notes(ipc'[c[1]], {"shutdown"}, c)
    BY <1>2, <1>3, <1>7
  <2>2. c # t.ctx /\ Notes(ipc[c[1]], {"send", "closed"}, c) => Notes(ipc'[c[1]], {"send", "closed"}, c)
    BY <1>2, <1>3, <1>7
  <2>3. AllDone(pend[c]) => AllDone(pend'[c])
    BY <1>5, <1>6
  <2>4. c = t.ctx => conn[c] = "open" \/ AllDone(pend'[c])
    BY <1>5, <1>6
  <2> QED BY <1>1, <2>1, <2>2, <2>3, <2>4
<1> QED BY <1>8, CancelledStays

LEMMA OnChannelClosedCancelled ==
  ASSUME Types, Cancelled, scenario' = scenario, NEW p \in Procs, OnChannelClosed(p)
  PROVE  Cancelled'
<1>1. UNCHANGED shut
  BY DEF OnChannelClosed, faultVars
<1>2. \A ks, c : \A q \in Procs :
        Notes(ipc[q], ks, c) => Notes(ipc'[q], ks, c) \/ (q = p /\ Head(ipc[p]).k \in ks /\ Head(ipc[p]).ctx = c)
  BY TakenNotes DEF OnChannelClosed, NextIpc, Types
<1>3. PICK d \in Contexts : d = Head(ipc[p]).ctx
  BY Kinds DEF OnChannelClosed, NextIpc, Types, IpcType, ContextsOf
<1>4. CancelPendingSends(d) /\ \A c \in Contexts : c # d => conn'[c] = conn[c]
  BY <1>3 DEF OnChannelClosed, Types, ConnType
<1>5. AllDone(pend'[d]) /\ \A c \in Contexts : AllDone(pend[c]) => AllDone(pend'[c])
  BY <1>4, CancelledDone
<1>6. \A c \in Contexts : c[1] \in Procs
  BY Pairs DEF Types, SetsType
<1>7. ASSUME NEW c \in Contexts, c # d, NEW ks, Notes(ipc[c[1]], ks, c) PROVE Notes(ipc'[c[1]], ks, c)
  BY <1>2, <1>3, <1>6, <1>7
<1> QED BY <1>1, <1>4, <1>5, <1>7, CancelledStays

LEMMA OnShutdownSignaledCancelled ==
  ASSUME Types, Cancelled, scenario' = scenario, NEW p \in Procs, OnShutdownSignaled(p)
  PROVE  Cancelled'
<1>1. UNCHANGED <<conn, shut>>
  BY DEF OnShutdownSignaled, faultVars
<1>2. \A ks, c : \A q \in Procs :
        Notes(ipc[q], ks, c) => Notes(ipc'[q], ks, c) \/ (q = p /\ Head(ipc[p]).k \in ks /\ Head(ipc[p]).ctx = c)
  BY TakenNotes DEF OnShutdownSignaled, NextIpc, Types
<1>3. PICK d \in Contexts : d = Head(ipc[p]).ctx /\ Head(ipc[p]).k = "shutdown"
  BY Kinds DEF OnShutdownSignaled, NextIpc, Types, IpcType, ContextsOf
<1>4. CancelPendingSends(d) \/ (conn[d] # "open" /\ UNCHANGED pend)
  BY <1>3 DEF OnShutdownSignaled
<1>5. CancelPendingSends(d) => AllDone(pend'[d]) /\ \A c \in Contexts : AllDone(pend[c]) => AllDone(pend'[c])
  BY CancelledDone
<1>6. \A c \in Contexts : c[1] \in Procs
  BY Pairs DEF Types, SetsType
<1>7. ASSUME NEW c \in Contexts, NEW ks, c # d \/ "shutdown" \notin ks, Notes(ipc[c[1]], ks, c)
      PROVE  Notes(ipc'[c[1]], ks, c)
  BY <1>2, <1>3, <1>6, <1>7
<1>8. \A c \in Contexts : Notes(ipc[c[1]], {"send", "closed"}, c) => Notes(ipc'[c[1]], {"send", "closed"}, c)
  BY <1>7
<1>9. \A c \in Contexts : c # d /\ Notes(ipc[c[1]], {"shutdown"}, c) => Notes(ipc'[c[1]], {"shutdown"}, c)
  BY <1>7
<1>10. \A c \in Contexts : AllDone(pend[c]) => AllDone(pend'[c])
  BY <1>4, <1>5
<1>11. AllDone(pend'[d]) \/ conn[d] # "open"
  BY <1>4, <1>5
<1> QED BY <1>1, <1>8, <1>9, <1>10, <1>11, CancelledStays

LEMMA OnChannelErrorCancelled ==
  ASSUME Types, Cancelled, scenario' = scenario, NEW c \in Contexts, OnChannelError(c)
  PROVE  Cancelled'
<1>1. UNCHANGED <<ipc, shut>> /\ CancelPendingSends(c) /\ \A d \in Contexts : d # c => conn'[d] = conn[d]
  BY DEF OnChannelError, faultVars, Types, ConnType
<1>2. AllDone(pend'[c]) /\ \A d \in Contexts : AllDone(pend[d]) => AllDone(pend'[d])
  BY <1>1, CancelledDone
<1> QED BY <1>1, <1>2, CancelledStays

LEMMA OnSendTimeoutCancelled ==
  ASSUME Types, Cancelled, scenario' = scenario, NEW t \in timers, OnSendTimeout(t)
  PROVE  Cancelled'
<1>1. t.ctx \in Contexts
  BY DEF Types, TimersType
<1>2. PICK ns : ns = {t.n}
  OBVIOUS
<1>3. SignalDone(t.ctx, ns, FALSE, tasks[t.ctx[1]]) /\ UNCHANGED <<ipc, conn, shut>>
  BY <1>2 DEF OnSendTimeout, faultVars
<1>4. Signalled(t.ctx, ns, FALSE)
  BY <1>1, <1>3, SignalDoneSignals DEF Types
<1> QED BY <1>1, <1>3, <1>4, SignalCancelled

LEMMA DeleteChannelCancelled ==
  ASSUME Types, Cancelled, scenario' = scenario, NEW c \in Contexts, DeleteChannel(c)
  PROVE  Cancelled'
<1>1. PICK ts : ts = OtherTasks(c)
  OBVIOUS
<1>2. PICK ns : ns = Pending(c)
  OBVIOUS
<1>3. PICK t : t = [k |-> "closed", ctx |-> c]
  OBVIOUS
<1>4. SignalDone(c, ns, FALSE, ts) /\ IpcPosts(c[1], t) /\ UNCHANGED <<conn, shut>>
  BY <1>1, <1>2, <1>3 DEF DeleteChannel, OtherTasks, faultVars
<1>5. Signalled(c, ns, FALSE)
  BY <1>4, SignalDoneSignals DEF Types
<1>6. c[1] \in Procs
  BY Pairs DEF Types, SetsType
<1>7. \A ks, d : \A p \in Procs : Notes(ipc[p], ks, d) => Notes(ipc'[p], ks, d)
  BY <1>4, <1>6, PostedNotes DEF Types
<1> QED BY <1>4, <1>5, <1>7, SignalCancelled

\* The shutdown is posted for every channel that is open.
LEMMA ShutdownCancelled ==
  ASSUME Types, Cancelled, scenario' = scenario, NEW p \in Procs, Shutdown(p)
  PROVE  Cancelled'
<1>1. PICK C : C = {c \in ContextsOf(p) : conn[c] = "open"}
  OBVIOUS
<1>2. PICK open : open = SetToSeq(C)
  OBVIOUS
<1>3. open \in Seq(ContextsOf(p)) /\ ToSet(open) = C
  <2>1. C \in SUBSET ContextsOf(p) /\ scenario \in Scenarios
    BY <1>1 DEF Types, SetsType
  <2> QED BY <1>2, <2>1, Listed
<1>4. PICK ts : ts = [i \in DOMAIN open |-> [k |-> "shutdown", ctx |-> open[i]]]
  OBVIOUS
<1>5. ts \in Seq(IpcTaskOf(p)) /\ Len(ts) = Len(open) /\ \A i \in 1..Len(open) : ts[i] = [k |-> "shutdown", ctx |-> open[i]]
  <2>1. DOMAIN open = 1..Len(open) /\ Len(open) \in Nat
    BY <1>3
  <2>2. \A i \in 1..Len(open) : [k |-> "shutdown", ctx |-> open[i]] \in IpcTaskOf(p)
    BY <1>3 DEF IpcTaskOf
  <2>3. [i \in 1..Len(open) |-> [k |-> "shutdown", ctx |-> open[i]]] \in Seq(IpcTaskOf(p))
    BY <2>1, <2>2
  <2> QED BY <1>4, <2>1, <2>3
<1>6. PICK js : js = ipc[p] \o ts
  OBVIOUS
<1>7. /\ UNCHANGED <<pend, conn>> /\ ipc'[p] = js
      /\ \A q \in Procs : q # p => ipc'[q] = ipc[q] /\ shut'[q] = shut[q]
  BY <1>1, <1>2, <1>4, <1>6 DEF Shutdown, Types, IpcType, FlagsType
<1>8. ipc[p] \in Seq(IpcTaskOf(p)) /\ js \in Seq(IpcTaskOf(p))
  BY <1>5, <1>6 DEF Types, IpcType
<1>9. \A ks, c : Notes(js, ks, c) <=> Notes(ipc[p], ks, c) \/ Notes(ts, ks, c)
  <2>1. SUFFICES ASSUME NEW ks, NEW c PROVE Notes(js, ks, c) <=> Notes(ipc[p], ks, c) \/ Notes(ts, ks, c)
    OBVIOUS
  <2>2. PICK X : X = {u \in IpcTaskOf(p) : u.k \in ks /\ u.ctx = c}
    OBVIOUS
  <2>3. Notes(js, ks, c) <=> Has(js, X)
    BY ONLY <1>8, <2>2, NotesHad
  <2>4. Notes(ipc[p], ks, c) <=> Has(ipc[p], X)
    BY ONLY <1>8, <2>2, NotesHad
  <2>5. Notes(ts, ks, c) <=> Has(ts, X)
    BY ONLY <1>5, <2>2, NotesHad
  <2>6. Has(js, X) <=> Has(ipc[p], X) \/ Has(ts, X)
    BY <1>5, <1>6, <1>8, HasConcat
  <2> QED BY <2>3, <2>4, <2>5, <2>6
<1>10. \A c \in C : Notes(ts, {"shutdown"}, c)
  <2>1. SUFFICES ASSUME NEW c \in C PROVE Notes(ts, {"shutdown"}, c)
    OBVIOUS
  <2>2. PICK i \in 1..Len(open) : open[i] = c
    BY <1>3 DEF ToSet
  <2>3. ts[i] = [k |-> "shutdown", ctx |-> c] /\ i \in 1..Len(ts)
    BY <1>5, <2>2
  <2>4. ts[i].k = "shutdown" /\ ts[i].ctx = c
    BY <2>3
  <2> QED BY <2>3, <2>4 DEF Notes
<1>11. SUFFICES ASSUME NEW c \in Contexts PROVE CancelledAt(ipc'[c[1]], shut'[c[1]], conn'[c], pend'[c], c)
  BY SameScenario DEF Cancelled
<1>12. CancelledAt(ipc[c[1]], shut[c[1]], conn[c], pend[c], c) /\ c[1] \in Procs
  BY Pairs DEF Cancelled, Types, SetsType
<1>13. CASE c[1] = p
  <2>1. conn[c] = "open" => c \in C
    BY <1>1, <1>13 DEF ContextsOf
  <2> QED BY <1>7, <1>9, <1>10, <1>12, <1>13, <2>1 DEF CancelledAt
<1>14. CASE c[1] # p
  BY <1>7, <1>12, <1>14 DEF CancelledAt
<1> QED BY <1>13, <1>14

LEMMA DieCancelled ==
  ASSUME Types, Cancelled, scenario' = scenario, NEW p \in Procs, Die(p)
  PROVE  Cancelled'
<1>1. /\ \A q \in Procs : q # p => ipc'[q] = ipc[q]
      /\ \A c \in Contexts : IF c[1] = p THEN pend'[c] = <<>> ELSE pend'[c] = pend[c] /\ conn'[c] = conn[c]
      /\ shut' = shut
  BY DEF Die, Types, IpcType
<1>2. AllDone(<<>>) /\ \A c \in Contexts : c[1] \in Procs
  BY Pairs DEF AllDone, Types, SetsType
<1> QED BY <1>1, <1>2, CancelledStays

LEMMA StepKeepsCancelled ==
  ASSUME Types, Cancelled, Next
  PROVE  Cancelled'
<1>1. scenario' = scenario
  BY DEF Next
<1>2. ASSUME NEW p \in Procs, ListenerGoesOn(p) PROVE Cancelled'
  <2>1. CASE WaitDoneEvent(p)
    <3>1. Top(p).ctx \in Contexts /\ Pop(Top(p).ctx) /\ UNCHANGED <<conn, shut>>
      BY <2>1, TopFrame, Kinds DEF WaitDoneEvent, TopIs, ContextsOf, Types, faultVars
    <3> QED BY <1>1, <3>1, PopCancelled
  <2>2. CASE LeaveNestedMessageLoop(p)
    <3>1. Top(p).ctx \in Contexts /\ Pop(Top(p).ctx) /\ UNCHANGED <<conn, shut>>
      BY <2>2, TopFrame, Kinds DEF LeaveNestedMessageLoop, TopIs, ContextsOf, Types, faultVars
    <3> QED BY <1>1, <3>1, PopCancelled
  <2>3. CASE ~WaitDoneEvent(p) /\ ~LeaveNestedMessageLoop(p)
    <3>1. UNCHANGED <<pend, ipc, conn, shut>>
      BY <1>2, <2>3 DEF ListenerGoesOn, DispatchMessages, WaitDispatchEvent, NestedMessageLoop, DispatchMessagesTask,
                        OnDispatchEventSignaled, OnSendDoneSignaled, ipcVars, faultVars
    <3> QED BY <1>1, <3>1, CancelledRests
  <2> QED BY <2>1, <2>2, <2>3
<1>3. ASSUME NEW p \in Procs, IpcGoesOn(p) PROVE Cancelled'
  <2>1. SignalDispatch(p) => UNCHANGED <<pend, ipc, conn, shut>>
    BY DEF SignalDispatch, faultVars
  <2> QED BY <1>1, <1>3, <2>1, CancelledRests, OnSendMessageCancelled, DispatchRepliesCancelled,
             OnChannelClosedCancelled, OnShutdownSignaledCancelled DEF IpcGoesOn
<1>4. ASSUME NEW p \in Procs, NEW defer, NEW error, HandlerReturns(p, defer, error) PROVE Cancelled'
  BY <1>1, <1>4, HandlerReturnsCancelled
<1>5. ASSUME NEW c \in Contexts, QueueMessage(c) PROVE Cancelled'
  BY <1>1, <1>5, CancelledRests DEF QueueMessage, faultVars
<1>6. ASSUME NEW r \in owed, ReplyLater(r) PROVE Cancelled'
  <2>1. r \in Request /\ Reply(r, TRUE) /\ UNCHANGED <<pend, conn, shut>>
    BY <1>6 DEF ReplyLater, faultVars, Types, SetsType
  <2> QED BY <1>1, <2>1, ReplyCancelled
<1>7. CASE Progress
  BY <1>1, <1>2, <1>3, <1>4, <1>5, <1>7, ReceiveReplyCancelled, OnChannelErrorCancelled DEF Progress
<1>8. CASE Choice
  BY <1>1, <1>4, <1>6, <1>8, SendCancelled, OnSendTimeoutCancelled, DeleteChannelCancelled, ShutdownCancelled,
     DieCancelled DEF Choice
<1> QED BY <1>7, <1>8 DEF Next

LEMMA InitCancelled ==
  ASSUME Init
  PROVE  Cancelled
<1>1. \A c \in Contexts : pend[c] = <<>>
  BY DEF Init
<1>2. AllDone(<<>>)
  BY DEF AllDone
<1> QED BY <1>1, <1>2 DEF Cancelled, CancelledAt

LEMMA DeadChannelsBlockNobody ==
  ASSUME Types, Cancelled
  PROVE  DeadChannelBlocksNobody
<1>1. SUFFICES ASSUME NEW c \in Contexts, shut[c[1]] \/ conn[c] # "open",
                      ~\E i \in DOMAIN ipc[c[1]] : ipc[c[1]][i].k # "replies" /\ ipc[c[1]][i].ctx = c
               PROVE  \A i \in DOMAIN pend[c] : pend[c][i].done
  BY DEF DeadChannelBlocksNobody
<1>2. c[1] \in Procs
  BY Pairs DEF Types, SetsType
<1>3. DOMAIN ipc[c[1]] = 1..Len(ipc[c[1]]) /\ DOMAIN pend[c] = 1..Len(pend[c])
  BY <1>2 DEF Types, IpcType, PendType
<1>4. \A ks : "replies" \notin ks => ~Notes(ipc[c[1]], ks, c)
  BY <1>1, <1>3 DEF Notes
<1>5. ~Notes(ipc[c[1]], {"send", "closed"}, c) /\ ~Notes(ipc[c[1]], {"shutdown"}, c)
  BY <1>4
<1>6. AllDone(pend[c])
  BY <1>1, <1>5 DEF Cancelled, CancelledAt
<1> QED BY <1>3, <1>6 DEF AllDone

-----------------------------------------------------------------------------
(***************************************************************************)
(* The dispatch event: a message that came is not slept through.           *)
(***************************************************************************)
\* A listener in a Send of the context dispatches the message.
Ready(r, c) == At(r) \notin Restricted \/ At(r) = c

\* A loop over the queue holds back only what it must not dispatch.
HeldBack(s) ==
  \A i \in 1..Len(s) : s[i].k = "dispatch" => \A j \in 1..Len(s[i].delayed) : ~Ready(s[i].delayed[j], s[i].ctx)

\* A thread with the calls |s| and the queue |q| that waits finds the event set.
WokenAt(s, q, e) ==
  s # <<>> /\ Last(s).k = "send" /\ (\E i \in 1..Len(q) : Ready(q[i], Last(s).ctx)) => e

Woken == \A p \in Procs : HeldBack(stack[p]) /\ WokenAt(stack[p], queue[p], event[p] \/ signalling[p].on)

LEMMA HeldPushed ==
  ASSUME NEW p, NEW s \in Seq(FrameOf(p)), HeldBack(s), NEW f \in FrameOf(p), NEW t, t = Append(s, f),
         f.k = "dispatch" => \A j \in 1..Len(f.delayed) : ~Ready(f.delayed[j], f.ctx)
  PROVE  HeldBack(t) /\ t \in Seq(FrameOf(p)) /\ t # <<>> /\ Last(t) = f
<1>1. /\ t \in Seq(FrameOf(p)) /\ Len(t) = Len(s) + 1 /\ Len(s) \in Nat /\ t[Len(s) + 1] = f
      /\ \A i \in 1..Len(s) : t[i] = s[i]
  BY AppendProperties
<1>2. \A i \in 1..Len(t) : i = Len(s) + 1 \/ (i \in 1..Len(s) /\ t[i] = s[i])
  BY <1>1
<1>3. t # <<>> /\ Last(t) = f
  BY <1>1, EmptySeq DEF Last
<1>4. HeldBack(t)
  BY <1>1, <1>2 DEF HeldBack
<1> QED BY <1>1, <1>3, <1>4

LEMMA HeldPopped ==
  ASSUME NEW p, NEW s \in Seq(FrameOf(p)), s # <<>>, HeldBack(s), NEW t, t = Front(s)
  PROVE  HeldBack(t)
<1>1. Len(t) = Len(s) - 1 /\ Len(s) \in Nat \ {0} /\ \A i \in 1..(Len(s) - 1) : t[i] = s[i]
  BY FrontAndLast
<1>2. \A i \in 1..Len(t) : t[i] = s[i] /\ i \in 1..Len(s)
  BY <1>1
<1> QED BY <1>2 DEF HeldBack

\* What the innermost call returns to.
LEMMA StoodOn ==
  ASSUME NEW p, NEW s \in Seq(FrameOf(p)), s # <<>>, NEW m, GoodStack(s, m), NEW t, t = Front(s), t # <<>>
  PROVE  StandsOn(Last(s), Last(t))
<1>1. /\ t \in Seq(FrameOf(p)) /\ Len(t) = Len(s) - 1 /\ Len(s) \in Nat \ {0} /\ Last(s) = s[Len(s)]
      /\ \A i \in 1..(Len(s) - 1) : t[i] = s[i]
  BY FrontAndLast
<1>2. Len(t) \in Nat \ {0} /\ Last(t) = t[Len(t)]
  BY <1>1, FrontAndLast
<1>3. PICK i \in 1..(Len(s) - 1) : i = Len(t) /\ i + 1 = Len(s)
  BY <1>1, <1>2
<1>4. Last(t) = s[i]
  BY <1>1, <1>2, <1>3
<1> QED BY <1>1, <1>3, <1>4 DEF GoodStack

LEMMA OneWoken ==
  ASSUME Woken, scenario' = scenario, NEW p \in Procs, HeldBack(stack'[p]),
         WokenAt(stack'[p], queue'[p], event'[p] \/ signalling'[p].on),
         \A q \in Procs : q # p => /\ stack'[q] = stack[q] /\ queue'[q] = queue[q]
                                   /\ event'[q] = event[q] /\ signalling'[q].on = signalling[q].on
  PROVE  Woken'
<1>1. Restricted' = Restricted /\ Procs' = Procs
  BY SameScenario
<1>2. \A q \in Procs : HeldBack(stack'[q]) /\ WokenAt(stack'[q], queue'[q], event'[q] \/ signalling'[q].on)
  BY DEF Woken
<1> QED BY <1>1, <1>2 DEF Woken, HeldBack, WokenAt, Ready, At

LEMMA WokenStays ==
  ASSUME Woken, scenario' = scenario, UNCHANGED <<stack, queue, event, signalling>>
  PROVE  Woken'
<1>1. Restricted' = Restricted /\ Procs' = Procs
  BY SameScenario
<1> QED BY <1>1 DEF Woken, HeldBack, WokenAt, Ready, At

\* The innermost call is not a Send that waits.
LEMMA NotWaiting ==
  ASSUME NEW s, s # <<>> => Last(s).k # "send", NEW q, NEW e
  PROVE  WokenAt(s, q, e)
BY DEF WokenAt

LEMMA SendWoken ==
  ASSUME Types, Woken, scenario' = scenario, NEW c \in Contexts, NEW pump \in BOOLEAN, NEW timed, Send(c, pump, timed)
  PROVE  Woken'
<1>1. PICK p \in Procs : p = c[1] /\ c \in ContextsOf(p)
  BY Pairs DEF Types, SetsType
<1>2. PICK n \in Nat \ {0} : n = sent[p] + 1
  BY <1>1 DEF Types, SentType
<1>3. PICK f \in FrameOf(p) : f = [k |-> "send", ctx |-> c, n |-> n, pump |-> pump]
  BY <1>1 DEF FrameOf
<1>4. PICK g \in FrameOf(p) : g = [k |-> "dispatch", ctx |-> c, delayed |-> <<>>]
  BY <1>1, DispatchFrame
<1>5. PICK s \in Seq(FrameOf(p)) : s = stack[p]
  BY DEF Types, StackType
<1>6. PICK u : u = Append(s, f)
  OBVIOUS
<1>7. f.k # "dispatch" /\ g.k = "dispatch" /\ Len(g.delayed) = 0
  BY <1>3, <1>4
<1>8. HeldBack(s)
  BY <1>5 DEF Woken
<1>9. HeldBack(u) /\ u \in Seq(FrameOf(p))
  BY <1>6, <1>7, <1>8, HeldPushed
<1>10. PICK t : t = Append(u, g)
  OBVIOUS
<1>11. HeldBack(t) /\ t # <<>> /\ Last(t) = g
  <2>1. \A j \in 1..Len(g.delayed) : ~Ready(g.delayed[j], g.ctx)
    BY <1>7
  <2> QED BY <1>9, <1>10, <2>1, HeldPushed
<1>12. stack' = [stack EXCEPT ![p] = t]
  <2>1. stack' = [stack EXCEPT ![p] = stack[p] \o <<f, g>>]
    BY <1>1, <1>2, <1>3, <1>4 DEF Send
  <2>2. stack[p] \o <<f, g>> = t
    <3>1. u \in Seq(FrameOf(p))
      BY <1>9
    <3> QED BY <1>5, <1>6, <1>10, <3>1
  <2> QED BY <2>1, <2>2
<1>13. UNCHANGED <<queue, event, signalling>>
  BY DEF Send, queueVars
<1>14. stack'[p] = t /\ \A q \in Procs : q # p => stack'[q] = stack[q]
  BY <1>12 DEF Types, StackType
<1>15. WokenAt(t, queue'[p], event'[p] \/ signalling'[p].on)
  BY <1>7, <1>11, NotWaiting
<1> QED BY <1>11, <1>13, <1>14, <1>15, OneWoken

\* A loop over the queue starts.
LEMMA DispatchWoken ==
  ASSUME Types, Woken, scenario' = scenario, NEW p \in Procs, NEW c \in ContextsOf(p),
         Calls(p, [k |-> "dispatch", ctx |-> c, delayed |-> <<>>]), UNCHANGED <<queue, signalling>>,
         \A q \in Procs : q # p => event'[q] = event[q]
  PROVE  Woken'
<1>1. PICK f \in FrameOf(p) : f = [k |-> "dispatch", ctx |-> c, delayed |-> <<>>]
  BY DispatchFrame
<1>8. PICK s \in Seq(FrameOf(p)) : s = stack[p]
  BY DEF Types, StackType
<1>2. PICK t : t = Append(s, f)
  OBVIOUS
<1>3. stack'[p] = t /\ \A q \in Procs : q # p => stack'[q] = stack[q]
  BY <1>1, <1>2, <1>8 DEF Calls, Types, StackType
<1>4. f.k = "dispatch" /\ \A j \in 1..Len(f.delayed) : ~Ready(f.delayed[j], f.ctx)
  <2>1. f.k = "dispatch" /\ Len(f.delayed) = 0
    BY <1>1
  <2> QED BY <2>1
<1>5. HeldBack(s)
  BY <1>8 DEF Woken
<1>6. HeldBack(t) /\ t # <<>> /\ Last(t) = f
  BY <1>2, <1>4, <1>5, HeldPushed
<1>7. WokenAt(t, queue'[p], event'[p] \/ signalling'[p].on)
  BY <1>4, <1>6, NotWaiting
<1> QED BY <1>3, <1>6, <1>7, OneWoken

LEMMA WaitDispatchEventWoken ==
  ASSUME Types, Woken, scenario' = scenario, NEW p \in Procs, WaitDispatchEvent(p)
  PROVE  Woken'
<1>1. PICK c \in ContextsOf(p) : c = Top(p).ctx
  BY TopFrame, Kinds DEF WaitDispatchEvent, TopIs, Types
<1>2. /\ Calls(p, [k |-> "dispatch", ctx |-> c, delayed |-> <<>>]) /\ UNCHANGED <<queue, signalling>>
      /\ event' = [event EXCEPT ![p] = FALSE]
  BY <1>1 DEF WaitDispatchEvent, ipcVars
<1>3. \A q \in Procs : q # p => event'[q] = event[q]
  BY <1>2 DEF Types, FlagsType
<1> QED BY <1>2, <1>3, DispatchWoken

LEMMA TaskWoken ==
  ASSUME Types, Woken, scenario' = scenario, NEW p \in Procs, DispatchMessagesTask(p) \/ OnDispatchEventSignaled(p)
  PROVE  Woken'
<1>1. PICK c \in ContextsOf(p) : c = Head(tasks[p]).ctx
  <2>1. tasks[p] \in Seq(TaskOf(p)) /\ tasks[p] # <<>>
    BY DEF DispatchMessagesTask, OnDispatchEventSignaled, NextTask, Types, TasksType
  <2> QED BY <2>1, Kinds
<1>2. /\ Calls(p, [k |-> "dispatch", ctx |-> c, delayed |-> <<>>]) /\ UNCHANGED <<queue, signalling>>
      /\ UNCHANGED event \/ event' = [event EXCEPT ![p] = FALSE]
  BY <1>1 DEF DispatchMessagesTask, OnDispatchEventSignaled, ipcVars
<1>3. \A q \in Procs : q # p => event'[q] = event[q]
  BY <1>2 DEF Types, FlagsType
<1> QED BY <1>2, <1>3, DispatchWoken

\* The innermost call returns to one that does not wait.
LEMMA ReturnWoken ==
  ASSUME Types, Woken, scenario' = scenario, NEW p \in Procs, NEW t \in Seq(FrameOf(p)),
         stack' = [stack EXCEPT ![p] = t], HeldBack(t), t # <<>> => Last(t).k # "send",
         UNCHANGED <<queue, event, signalling>>
  PROVE  Woken'
<1>1. stack'[p] = t /\ \A q \in Procs : q # p => stack'[q] = stack[q]
  BY DEF Types, StackType
<1>2. WokenAt(t, queue'[p], event'[p] \/ signalling'[p].on)
  BY NotWaiting
<1> QED BY <1>1, <1>2, OneWoken

LEMMA WaitDoneEventWoken ==
  ASSUME Types, LoopsMatch, Woken, scenario' = scenario, NEW p \in Procs, WaitDoneEvent(p)
  PROVE  Woken'
<1>1. PICK s \in Seq(FrameOf(p)) : s = stack[p]
  BY DEF Types, StackType
<1>2. s # <<>> /\ Last(s).k = "send" /\ GoodStack(s, sent[p]) /\ HeldBack(s)
  BY <1>1 DEF WaitDoneEvent, TopIs, Top, LoopsMatch, Nesting, Woken
<1>3. PICK t : t = Front(s)
  OBVIOUS
<1>4. t \in Seq(FrameOf(p)) /\ HeldBack(t)
  BY <1>2, <1>3, FrontType, HeldPopped
<1>5. t # <<>> => Last(t).k # "send"
  BY <1>2, <1>3, StoodOn DEF StandsOn
<1>6. stack' = [stack EXCEPT ![p] = t] /\ UNCHANGED <<queue, event, signalling>>
  BY <1>1, <1>3 DEF WaitDoneEvent, queueVars
<1> QED BY <1>4, <1>5, <1>6, ReturnWoken

LEMMA HandlerReturnsWoken ==
  ASSUME Types, LoopsMatch, Woken, scenario' = scenario, NEW p \in Procs, NEW defer, NEW error,
         HandlerReturns(p, defer, error)
  PROVE  Woken'
<1>1. PICK s \in Seq(FrameOf(p)) : s = stack[p]
  BY DEF Types, StackType
<1>2. s # <<>> /\ Last(s).k = "handler" /\ GoodStack(s, sent[p]) /\ HeldBack(s)
  BY <1>1 DEF HandlerReturns, TopIs, Top, LoopsMatch, Nesting, Woken
<1>3. PICK t : t = Front(s)
  OBVIOUS
<1>4. t \in Seq(FrameOf(p)) /\ HeldBack(t)
  BY <1>2, <1>3, FrontType, HeldPopped
<1>5. t # <<>> => Last(t).k # "send"
  BY <1>2, <1>3, StoodOn DEF StandsOn
<1>6. stack' = [stack EXCEPT ![p] = t] /\ UNCHANGED <<queue, event, signalling>>
  BY <1>1, <1>3 DEF HandlerReturns, queueVars
<1> QED BY <1>4, <1>5, <1>6, ReturnWoken

LEMMA LeaveNestedMessageLoopWoken ==
  ASSUME Types, LoopsMatch, Woken, scenario' = scenario, NEW p \in Procs, LeaveNestedMessageLoop(p)
  PROVE  Woken'
<1>1. PICK s \in Seq(FrameOf(p)) : s = stack[p]
  BY DEF Types, StackType
<1>2. s # <<>> /\ Last(s).k = "loop" /\ GoodStack(s, sent[p]) /\ HeldBack(s)
  BY <1>1 DEF LeaveNestedMessageLoop, TopIs, Top, LoopsMatch, Nesting, Woken
<1>3. PICK u : u = Front(s)
  OBVIOUS
<1>4. u \in Seq(FrameOf(p)) /\ u # <<>> /\ GoodStack(u, sent[p]) /\ Last(u).k = "send"
  BY <1>2, <1>3, LoopStands
<1>5. PICK t : t = Front(u)
  OBVIOUS
<1>6. HeldBack(u)
  BY <1>2, <1>3, HeldPopped
<1>7. t \in Seq(FrameOf(p)) /\ HeldBack(t)
  BY <1>4, <1>5, <1>6, FrontType, HeldPopped
<1>8. t # <<>> => Last(t).k # "send"
  BY <1>4, <1>5, StoodOn DEF StandsOn
<1>9. stack' = [stack EXCEPT ![p] = t] /\ UNCHANGED <<queue, event, signalling>>
  BY <1>1, <1>3, <1>5 DEF LeaveNestedMessageLoop, queueVars
<1> QED BY <1>7, <1>8, <1>9, ReturnWoken

LEMMA NestedMessageLoopWoken ==
  ASSUME Types, Woken, scenario' = scenario, NEW p \in Procs, NestedMessageLoop(p)
  PROVE  Woken'
<1>1. PICK x \in FrameOf(p) : x = Top(p) /\ x.k = "send"
  BY TopFrame DEF NestedMessageLoop, TopIs, Types
<1>2. PICK f \in FrameOf(p) : f = [k |-> "loop", ctx |-> x.ctx, n |-> x.n, quit |-> FALSE]
  BY <1>1, Kinds DEF FrameOf
<1>7. PICK s \in Seq(FrameOf(p)) : s = stack[p]
  BY DEF Types, StackType
<1>3. PICK t : t = Append(s, f)
  OBVIOUS
<1>4. f.k = "loop" /\ HeldBack(s) /\ (f.k = "dispatch" => \A j \in 1..Len(f.delayed) : ~Ready(f.delayed[j], f.ctx))
  BY <1>2, <1>7 DEF Woken
<1>5. HeldBack(t) /\ t \in Seq(FrameOf(p)) /\ t # <<>> /\ Last(t) = f
  BY <1>3, <1>4, HeldPushed
<1>6. stack' = [stack EXCEPT ![p] = t] /\ UNCHANGED <<queue, event, signalling>>
  BY <1>1, <1>2, <1>3, <1>7 DEF NestedMessageLoop, Calls, queueVars, ipcVars
<1> QED BY <1>4, <1>5, <1>6, ReturnWoken

LEMMA OnSendDoneSignaledWoken ==
  ASSUME Types, Woken, scenario' = scenario, NEW p \in Procs, OnSendDoneSignaled(p)
  PROVE  Woken'
<1>1. UNCHANGED <<queue, event, signalling>>
  BY DEF OnSendDoneSignaled, queueVars, ipcVars
<1>2. CASE stack[p] = <<>>
  <2>1. UNCHANGED stack
    BY <1>2 DEF OnSendDoneSignaled
  <2> QED BY <1>1, <2>1, WokenStays
<1>3. CASE stack[p] # <<>>
  <2>1. PICK s \in Seq(FrameOf(p)) : s = stack[p]
    BY DEF Types, StackType
  <2>2. s # <<>> /\ Last(s) = Top(p) /\ Last(s).k = "loop" /\ Last(s) \in FrameOf(p) /\ HeldBack(s)
    BY <1>3, <2>1, TopFrame DEF OnSendDoneSignaled, NextTask, InLoop, Top, Types, Woken
  <2>3. PICK f : f = [Last(s) EXCEPT !.quit = TRUE]
    OBVIOUS
  <2>4. f \in FrameOf(p) /\ f.k = "loop"
    <3>1. Last(s) \in [k : {"loop"}, ctx : ContextsOf(p), n : Nat \ {0}, quit : BOOLEAN]
      BY <2>2 DEF FrameOf
    <3>2. f \in [k : {"loop"}, ctx : ContextsOf(p), n : Nat \ {0}, quit : BOOLEAN]
      BY <2>3, <3>1
    <3> QED BY <3>2 DEF FrameOf
  <2>5. PICK u : u = Front(s)
    OBVIOUS
  <2>6. u \in Seq(FrameOf(p)) /\ HeldBack(u)
    BY <2>2, <2>5, FrontType, HeldPopped
  <2>7. PICK t : t = Append(u, f)
    OBVIOUS
  <2>8. HeldBack(t) /\ t \in Seq(FrameOf(p)) /\ t # <<>> /\ Last(t) = f
    <3>1. f.k = "dispatch" => \A j \in 1..Len(f.delayed) : ~Ready(f.delayed[j], f.ctx)
      BY <2>4
    <3> QED BY <2>4, <2>6, <2>7, <3>1, HeldPushed
  <2>9. stack' = [stack EXCEPT ![p] = t]
    BY <1>3, <2>1, <2>2, <2>3, <2>5, <2>7 DEF OnSendDoneSignaled, Replaces
  <2> QED BY <1>1, <2>4, <2>8, <2>9, ReturnWoken
<1> QED BY <1>2, <1>3

\* One turn of the loop over the queue: it goes on, or it puts back what it held back.
LEMMA DispatchMessagesWoken ==
  ASSUME Types, LoopsMatch, Woken, scenario' = scenario, NEW p \in Procs, DispatchMessages(p)
  PROVE  Woken'
<1>1. PICK s \in Seq(FrameOf(p)) : s = stack[p]
  BY DEF Types, StackType
<1>2. /\ s # <<>> /\ Last(s) = Top(p) /\ Last(s).k = "dispatch" /\ Last(s) \in FrameOf(p)
      /\ HeldBack(s) /\ GoodStack(s, sent[p])
  BY <1>1, TopFrame DEF DispatchMessages, TopIs, Top, Types, Woken, LoopsMatch, Nesting
<1>3. PICK u : u = Front(s)
  OBVIOUS
<1>4. u \in Seq(FrameOf(p)) /\ HeldBack(u)
  BY <1>2, <1>3, FrontType, HeldPopped
<1>5. Last(s).delayed \in Seq(RequestTo(p)) /\ \A j \in 1..Len(Last(s).delayed) : ~Ready(Last(s).delayed[j], Last(s).ctx)
  <2>1. Len(s) \in 1..Len(s) /\ Last(s) = s[Len(s)]
    <3>1. Len(s) \in Nat \ {0} /\ Last(s) = s[Len(s)]
      BY <1>2, FrontAndLast
    <3> QED BY <3>1
  <2>2. \A j \in 1..Len(s[Len(s)].delayed) : ~Ready(s[Len(s)].delayed[j], s[Len(s)].ctx)
    BY <1>2, <2>1 DEF HeldBack
  <2> QED BY <1>2, <2>1, <2>2, Kinds
<1>6. UNCHANGED <<event, signalling>> /\ \A q \in Procs : q # p => stack'[q] = stack[q] /\ queue'[q] = queue[q]
  <2>1. UNCHANGED <<event, signalling>>
    BY DEF DispatchMessages, ipcVars
  <2>2. ASSUME NEW q \in Procs, q # p PROVE stack'[q] = stack[q] /\ queue'[q] = queue[q]
    <3>1. CASE queue[p] = <<>>
      BY <2>2, <3>1 DEF DispatchMessages, Types, StackType, QueueType
    <3>2. CASE queue[p] # <<>>
      BY <2>2, <3>2 DEF DispatchMessages, Replaces, Calls, Types, StackType, QueueType
    <3> QED BY <3>1, <3>2
  <2> QED BY <2>1, <2>2
<1>7. CASE queue[p] = <<>>
  <2>1. stack'[p] = u /\ queue'[p] = Last(s).delayed
    BY <1>1, <1>2, <1>3, <1>7 DEF DispatchMessages, Types, StackType, QueueType
  <2>2. ASSUME u # <<>>, Last(u).k = "send" PROVE \A j \in 1..Len(Last(s).delayed) : ~Ready(Last(s).delayed[j], Last(u).ctx)
    <3>1. StandsOn(Last(s), Last(u))
      BY <1>2, <1>3, <2>2, StoodOn
    <3>2. Last(u).ctx = Last(s).ctx
      BY <1>2, <2>2, <3>1 DEF StandsOn
    <3> QED BY <1>5, <3>2
  <2>3. WokenAt(u, Last(s).delayed, event'[p] \/ signalling'[p].on)
    BY <2>2 DEF WokenAt
  <2> QED BY <1>4, <1>6, <2>1, <2>3, OneWoken
<1>8. CASE queue[p] # <<>>
  <2>1. PICK r \in RequestTo(p) : r = Head(queue[p])
    BY <1>8 DEF Types, QueueType
  <2>2. SUFFICES HeldBack(stack'[p]) /\ stack'[p] # <<>> /\ Last(stack'[p]).k # "send"
    <3>1. WokenAt(stack'[p], queue'[p], event'[p] \/ signalling'[p].on)
      BY <2>2, NotWaiting
    <3> QED BY <1>6, <2>2, <3>1, OneWoken
  <2>3. CASE At(r) \in Restricted /\ At(r) # Top(p).ctx
    <3>1. PICK d : d = Append(Last(s).delayed, r)
      OBVIOUS
    <3>2. /\ d \in Seq(RequestTo(p)) /\ Len(d) = Len(Last(s).delayed) + 1 /\ Len(Last(s).delayed) \in Nat
          /\ d[Len(Last(s).delayed) + 1] = r /\ \A j \in 1..Len(Last(s).delayed) : d[j] = Last(s).delayed[j]
      BY <1>5, <3>1, AppendProperties
    <3>3. PICK f : f = [Last(s) EXCEPT !.delayed = d]
      OBVIOUS
    <3>4. f \in FrameOf(p) /\ f.k = "dispatch" /\ f.ctx = Last(s).ctx /\ f.delayed = d
      <4>1. Last(s) \in [k : {"dispatch"}, ctx : ContextsOf(p), delayed : Seq(RequestTo(p))]
        BY <1>2 DEF FrameOf
      <4>2. f \in [k : {"dispatch"}, ctx : ContextsOf(p), delayed : Seq(RequestTo(p))] /\ f.ctx = Last(s).ctx /\ f.delayed = d
        BY <3>2, <3>3, <4>1
      <4> QED BY <4>2 DEF FrameOf
    <3>5. \A j \in 1..Len(d) : ~Ready(d[j], f.ctx)
      <4>1. ~Ready(r, Last(s).ctx)
        BY <1>2, <2>3 DEF Ready
      <4>2. \A j \in 1..Len(d) : j = Len(Last(s).delayed) + 1 \/ j \in 1..Len(Last(s).delayed)
        BY <3>2
      <4> QED BY <1>5, <3>2, <3>4, <4>1, <4>2
    <3>6. PICK t : t = Append(u, f)
      OBVIOUS
    <3>7. HeldBack(t) /\ t # <<>> /\ Last(t) = f
      <4>1. f.k = "dispatch" => \A j \in 1..Len(f.delayed) : ~Ready(f.delayed[j], f.ctx)
        BY <3>4, <3>5
      <4> QED BY <1>4, <3>4, <3>6, <4>1, HeldPushed
    <3>8. stack'[p] = t
      <4>1. Replaces(p, [Top(p) EXCEPT !.delayed = Append(@, r)])
        BY <1>8, <2>1, <2>3 DEF DispatchMessages
      <4>2. [Top(p) EXCEPT !.delayed = Append(@, r)] = f
        BY <1>2, <3>1, <3>3
      <4> QED BY <1>1, <1>3, <3>6, <4>1, <4>2 DEF Replaces, Types, StackType
    <3> QED BY <3>4, <3>7, <3>8
  <2>4. CASE ~(At(r) \in Restricted /\ At(r) # Top(p).ctx) /\ At(r) \in cleared
    <3>1. stack' = stack
      BY <1>8, <2>1, <2>4 DEF DispatchMessages
    <3> QED BY <1>1, <1>2, <3>1
  <2>5. CASE ~(At(r) \in Restricted /\ At(r) # Top(p).ctx) /\ At(r) \notin cleared
    <3>1. PICK f \in FrameOf(p) : f = [k |-> "handler", req |-> r]
      BY DEF FrameOf
    <3>2. PICK t : t = Append(s, f)
      OBVIOUS
    <3>3. stack'[p] = t
      BY <1>1, <1>8, <2>1, <2>5, <3>1, <3>2 DEF DispatchMessages, Calls, Types, StackType
    <3>4. f.k = "handler" /\ (f.k = "dispatch" => \A j \in 1..Len(f.delayed) : ~Ready(f.delayed[j], f.ctx))
      BY <3>1
    <3>5. HeldBack(t) /\ t # <<>> /\ Last(t) = f
      BY <1>2, <3>2, <3>4, HeldPushed
    <3> QED BY <3>3, <3>4, <3>5
  <2> QED BY <2>3, <2>4, <2>5
<1> QED BY <1>7, <1>8

LEMMA DeleteChannelWoken ==
  ASSUME Types, Woken, scenario' = scenario, NEW c \in Contexts, DeleteChannel(c)
  PROVE  Woken'
<1>1. PICK p \in Procs : p = c[1]
  BY Pairs DEF Types, SetsType
<1>2. PICK q \in Seq(RequestTo(p)) : q = queue[p]
  BY DEF Types, QueueType
<1>3. PICK I : I = {i \in DOMAIN q : At(q[i]) # c}
  OBVIOUS
<1>4. PICK r : r = Only(q, I)
  OBVIOUS
<1>5. /\ UNCHANGED <<stack, event, signalling>> /\ queue'[p] = r
      /\ \A o \in Procs : o # p => queue'[o] = queue[o]
  <2>1. queue' = [queue EXCEPT ![p] = r]
    BY <1>1, <1>2, <1>3, <1>4 DEF DeleteChannel
  <2> QED BY <2>1 DEF DeleteChannel, Types, QueueType
<1>6. ASSUME NEW d, \E j \in 1..Len(r) : Ready(r[j], d) PROVE \E i \in 1..Len(q) : Ready(q[i], d)
  <2>1. I \in SUBSET (1..Len(q))
    BY <1>3
  <2>2. PICK X : X = {x \in RequestTo(p) : Ready(x, d)}
    OBVIOUS
  <2>3. Has(r, X) <=> \E i \in I : q[i] \in X
    BY <1>4, <2>1, HasOnly
  <2>4. r \in Seq(RequestTo(p))
    BY <1>4, <2>1, OnlyProperties
  <2>5. Has(r, X)
    BY <1>6, <2>2, <2>4 DEF Has
  <2> QED BY <2>1, <2>2, <2>3, <2>5
<1>7. HeldBack(stack'[p]) /\ WokenAt(stack'[p], queue'[p], event'[p] \/ signalling'[p].on)
  <2>1. HeldBack(stack[p]) /\ WokenAt(stack[p], q, event[p] \/ signalling[p].on)
    BY <1>2 DEF Woken
  <2> QED BY <1>5, <1>6, <2>1 DEF WokenAt
<1> QED BY <1>5, <1>7, OneWoken

\* QueueMessage queues a message before it sets the event, and is seen to be at it.
LEMMA QueueMessageWoken ==
  ASSUME Types, Woken, scenario' = scenario, NEW c \in Contexts, QueueMessage(c)
  PROVE  Woken'
<1>1. PICK p \in Procs : p = c[1]
  BY Pairs DEF Types, SetsType
<1>2. UNCHANGED <<stack, event>> /\ signalling'[p].on
  BY <1>1 DEF QueueMessage, listenerVars, Types, SignalType
<1>3. \A q \in Procs : q # p => queue'[q] = queue[q] /\ signalling'[q] = signalling[q]
  BY <1>1 DEF QueueMessage, Types, QueueType, SignalType
<1>4. HeldBack(stack'[p]) /\ WokenAt(stack'[p], queue'[p], event'[p] \/ signalling'[p].on)
  BY <1>2 DEF Woken, WokenAt
<1> QED BY <1>2, <1>3, <1>4, OneWoken

LEMMA SignalDispatchWoken ==
  ASSUME Types, Woken, scenario' = scenario, NEW p \in Procs, SignalDispatch(p)
  PROVE  Woken'
<1>1. UNCHANGED <<stack, queue>> /\ event'[p]
  BY DEF SignalDispatch, listenerVars, Types, FlagsType
<1>2. \A q \in Procs : q # p => event'[q] = event[q] /\ signalling'[q] = signalling[q]
  BY DEF SignalDispatch, Types, FlagsType, SignalType
<1>3. HeldBack(stack'[p]) /\ WokenAt(stack'[p], queue'[p], event'[p] \/ signalling'[p].on)
  BY <1>1 DEF Woken, WokenAt
<1> QED BY <1>1, <1>2, <1>3, OneWoken

LEMMA DieWoken ==
  ASSUME Types, Woken, scenario' = scenario, NEW p \in Procs, Die(p)
  PROVE  Woken'
<1>1. stack'[p] = <<>> /\ UNCHANGED event
  BY DEF Die, Types, StackType
<1>2. \A q \in Procs : q # p => stack'[q] = stack[q] /\ queue'[q] = queue[q] /\ signalling'[q] = signalling[q]
  BY DEF Die, Types, StackType, QueueType, SignalType
<1>3. HeldBack(<<>>) /\ \A q, e : WokenAt(<<>>, q, e)
  BY DEF HeldBack, WokenAt
<1>4. HeldBack(stack'[p]) /\ WokenAt(stack'[p], queue'[p], event'[p] \/ signalling'[p].on)
  BY <1>1, <1>3
<1> QED BY <1>1, <1>2, <1>4, OneWoken

LEMMA InitWoken ==
  ASSUME Init
  PROVE  Woken
<1>1. \A p \in Procs : stack[p] = <<>>
  BY DEF Init
<1>2. HeldBack(<<>>) /\ \A q, e : WokenAt(<<>>, q, e)
  BY DEF HeldBack, WokenAt
<1> QED BY <1>1, <1>2 DEF Woken

LEMMA StepKeepsWoken ==
  ASSUME Types, LoopsMatch, Woken, Next
  PROVE  Woken'
<1>1. scenario' = scenario
  BY DEF Next
<1>2. ASSUME NEW p \in Procs, ListenerGoesOn(p) PROVE Woken'
  BY <1>1, <1>2, DispatchMessagesWoken, WaitDispatchEventWoken, WaitDoneEventWoken, NestedMessageLoopWoken,
     LeaveNestedMessageLoopWoken, TaskWoken, OnSendDoneSignaledWoken DEF ListenerGoesOn
<1>3. ASSUME NEW p \in Procs, IpcGoesOn(p) PROVE Woken'
  <2>1. ~SignalDispatch(p) => UNCHANGED <<stack, queue, event, signalling>>
    BY <1>3 DEF IpcGoesOn, OnSendMessage, DispatchReplies, OnChannelClosed, OnShutdownSignaled, listenerVars, queueVars
  <2> QED BY <1>1, <2>1, SignalDispatchWoken, WokenStays
<1>4. ASSUME NEW p \in Procs, NEW defer, NEW error, HandlerReturns(p, defer, error) PROVE Woken'
  BY <1>1, <1>4, HandlerReturnsWoken
<1>5. ASSUME NEW c \in Contexts, ReceiveReply(c) \/ OnChannelError(c) PROVE Woken'
  <2>1. UNCHANGED <<stack, queue, event, signalling>>
    BY <1>5 DEF ReceiveReply, OnChannelError, listenerVars, queueVars
  <2> QED BY <1>1, <2>1, WokenStays
<1>6. ASSUME NEW r \in owed, ReplyLater(r) PROVE Woken'
  <2>1. UNCHANGED <<stack, queue, event, signalling>>
    BY <1>6 DEF ReplyLater, queueVars
  <2> QED BY <1>1, <2>1, WokenStays
<1>7. ASSUME NEW t \in timers, OnSendTimeout(t) PROVE Woken'
  <2>1. UNCHANGED <<stack, queue, event, signalling>>
    BY <1>7 DEF OnSendTimeout, listenerVars, queueVars
  <2> QED BY <1>1, <2>1, WokenStays
<1>8. ASSUME NEW p \in Procs, Shutdown(p) PROVE Woken'
  <2>1. UNCHANGED <<stack, queue, event, signalling>>
    BY <1>8 DEF Shutdown, listenerVars, queueVars
  <2> QED BY <1>1, <2>1, WokenStays
<1>9. CASE Progress
  BY <1>1, <1>2, <1>3, <1>4, <1>5, <1>9, QueueMessageWoken DEF Progress
<1>10. CASE Choice
  <2>1. ("pump" \in Features) \in BOOLEAN
    OBVIOUS
  <2> QED BY <1>1, <1>4, <1>6, <1>7, <1>8, <1>10, <2>1, SendWoken, DeleteChannelWoken, DieWoken DEF Choice
<1> QED BY <1>9, <1>10 DEF Next

LEMMA StutterKeepsWoken ==
  ASSUME Types, Cancelled, Woken, UNCHANGED vars
  PROVE  Cancelled' /\ Woken'
<1>1. UNCHANGED <<stack, queue, event, signalling>> /\ scenario' = scenario
  BY DEF vars
<1>2. UNCHANGED <<pend, ipc, conn, shut>>
  BY DEF vars
<1>3. Woken'
  BY <1>1, WokenStays
<1>4. Cancelled'
  BY <1>1, <1>2, CancelledRests
<1> QED BY <1>3, <1>4

LEMMA BlockedListenersAreWoken ==
  ASSUME Types, Woken
  PROVE  BlockedListenerIsWoken
<1>1. SUFFICES ASSUME NEW p \in Procs, TopIs(p, "send"), NEW r \in ToSet(queue[p]),
                      At(r) \notin Restricted \/ At(r) = Top(p).ctx
               PROVE  event[p] \/ signalling[p].on
  BY DEF BlockedListenerIsWoken
<1>2. PICK i \in 1..Len(queue[p]) : queue[p][i] = r
  <2>1. DOMAIN queue[p] = 1..Len(queue[p])
    BY DEF Types, QueueType
  <2> QED BY <1>1, <2>1 DEF ToSet
<1>3. stack[p] # <<>> /\ Last(stack[p]) = Top(p) /\ Top(p).k = "send"
  BY <1>1 DEF TopIs, Top
<1>4. Ready(queue[p][i], Top(p).ctx)
  BY <1>1, <1>2 DEF Ready
<1> QED BY <1>3, <1>4 DEF Woken, WokenAt

\* For any processes that send to each other: a listener that is blocked in a Send finds
\* the event set when there is a message it may dispatch, so that two processes do not wait
\* for each other's listeners; and once a channel is broken or closed, or the process shuts
\* down, no Send waits on, except while its cancellation is on its way.
THEOREM ListenersAreWoken == Spec => []ListenerIsWoken
<1>1. Init => Types /\ ResultIsThePeers /\ LoopsMatch /\ Cancelled /\ Woken
  BY InitTypes, InitResults, InitLoops, InitCancelled, InitWoken
<1>2. Types /\ ResultIsThePeers /\ LoopsMatch /\ Cancelled /\ Woken /\ [Next]_vars
        => Types' /\ ResultIsThePeers' /\ LoopsMatch' /\ Cancelled' /\ Woken'
  BY StepKeepsTypes, StutterKeepsTypes, StepKeepsLoops, StutterKeepsLoops, StepKeepsCancelled, StepKeepsWoken,
     StutterKeepsWoken
<1>3. Types /\ Cancelled /\ Woken => ListenerIsWoken
  BY BlockedListenersAreWoken, DeadChannelsBlockNobody DEF ListenerIsWoken
<1> QED BY <1>1, <1>2, <1>3, PTL DEF Spec

\* The two together, as the run checks them: each call of a listener thread waits for its
\* own result, and the thread does not sleep through what it waits for.
THEOREM ListenersGoOn == Spec => []ListenerInv
<1>1. LoopsInv /\ ListenerIsWoken => ListenerInv
  BY DEF ListenerInv
<1> QED BY <1>1, LoopsAreTheirSends, ListenersAreWoken, PTL
=============================================================================
