-------------------------- MODULE MessageLoopProofs --------------------------
(***************************************************************************)
(* Proofs about MessageLoop, for every set of loops, delays and bounds.    *)
(*                                                                         *)
(* Tasks move between queues, so the lemmas on queues say what each move   *)
(* does to the identifiers in them and to their order; those on the stack  *)
(* say what becomes of it when a frame is pushed, popped or changed.       *)
(***************************************************************************)
EXTENDS MessageLoop, SequenceLemmas, FiniteSetTheorems, TLAPS

-----------------------------------------------------------------------------
(***************************************************************************)
(* Queues of tasks.                                                        *)
(***************************************************************************)
\* The tasks of two queues, one behind the other.
LEMMA IdsConcat ==
  ASSUME NEW p \in Seq(Task), NEW q \in Seq(Task)
  PROVE  /\ p \o q \in Seq(Task) /\ Len(p \o q) = Len(p) + Len(q)
         /\ Ids(p \o q) = Ids(p) \cup Ids(q)
<1>1. /\ p \o q \in Seq(Task) /\ Len(p \o q) = Len(p) + Len(q) /\ Len(p) \in Nat /\ Len(q) \in Nat
      /\ \A i \in 1..(Len(p) + Len(q)) : (p \o q)[i] = IF i <= Len(p) THEN p[i] ELSE q[i - Len(p)]
      /\ DOMAIN (p \o q) = 1..(Len(p) + Len(q)) /\ DOMAIN p = 1..Len(p) /\ DOMAIN q = 1..Len(q)
  OBVIOUS
<1> DEFINE r == p \o q
<1>2. /\ DOMAIN r = 1..(Len(p) + Len(q)) /\ Len(p) \in Nat /\ Len(q) \in Nat
      /\ \A i \in 1..(Len(p) + Len(q)) : r[i] = IF i <= Len(p) THEN p[i] ELSE q[i - Len(p)]
  BY <1>1
<1> HIDE DEF r
<1>3. ASSUME NEW x \in Ids(r) PROVE x \in Ids(p) \cup Ids(q)
  <2>1. PICK i \in 1..(Len(p) + Len(q)) : x = r[i].id
    BY <1>2, <1>3 DEF Ids
  <2>2. CASE i <= Len(p)
    BY <2>1, <2>2, <1>1, <1>2 DEF Ids
  <2>3. CASE i > Len(p)
    <3>1. i - Len(p) \in DOMAIN q /\ r[i] = q[i - Len(p)]
      BY <2>3, <1>1, <1>2
    <3> QED BY <3>1, <2>1 DEF Ids
  <2> QED BY <2>2, <2>3, <1>2
<1>4. ASSUME NEW x \in Ids(p) PROVE x \in Ids(r)
  <2>1. PICK i \in 1..Len(p) : x = p[i].id
    BY <1>1, <1>4 DEF Ids
  <2>2. i \in DOMAIN r /\ r[i] = p[i]
    BY <1>2
  <2> QED BY <2>1, <2>2 DEF Ids
<1>5. ASSUME NEW x \in Ids(q) PROVE x \in Ids(r)
  <2>1. PICK i \in 1..Len(q) : x = q[i].id
    BY <1>1, <1>5 DEF Ids
  <2>2. Len(p) + i \in DOMAIN r /\ r[Len(p) + i] = q[i]
    BY <1>2
  <2> QED BY <2>1, <2>2 DEF Ids
<1> QED BY <1>1, <1>3, <1>4, <1>5 DEF r

\* The numbers of a task.
LEMMA TaskNumbers ==
  ASSUME NEW t \in Task
  PROVE  t.id \in Nat /\ t.at \in Nat
<1>1. MaxPosts \in Nat
  BY LoopAssumption
<1> QED BY <1>1 DEF Task

\* The four queues of the loop together.
LEMMA FourQueues ==
  ASSUME NEW a \in Seq(Task), NEW b \in Seq(Task), NEW c \in Seq(Task), NEW d \in Seq(Task)
  PROVE  /\ Len(a \o b \o c \o d) = Len(a) + Len(b) + Len(c) + Len(d)
         /\ Ids(a \o b \o c \o d) = Ids(a) \cup Ids(b) \cup Ids(c) \cup Ids(d)
<1>1. /\ a \o b \in Seq(Task) /\ Len(a \o b) = Len(a) + Len(b) /\ Ids(a \o b) = Ids(a) \cup Ids(b)
  BY IdsConcat
<1>2. /\ (a \o b) \o c \in Seq(Task) /\ Len((a \o b) \o c) = Len(a \o b) + Len(c)
      /\ Ids((a \o b) \o c) = Ids(a \o b) \cup Ids(c)
  BY <1>1, IdsConcat
<1>3. /\ Len(((a \o b) \o c) \o d) = Len((a \o b) \o c) + Len(d)
      /\ Ids(((a \o b) \o c) \o d) = Ids((a \o b) \o c) \cup Ids(d)
  BY <1>2, IdsConcat
<1> QED BY <1>1, <1>2, <1>3

\* A task goes to the end of a queue.
LEMMA IdsAppend ==
  ASSUME NEW q \in Seq(Task), NEW t \in Task
  PROVE  /\ Append(q, t) \in Seq(Task) /\ Len(Append(q, t)) = Len(q) + 1 /\ Len(q) \in Nat
         /\ Ids(Append(q, t)) = Ids(q) \cup {t.id}
         /\ \A i \in 1..Len(q) : Append(q, t)[i] = q[i]
         /\ Append(q, t)[Len(q) + 1] = t
<1> DEFINE r == Append(q, t)
<1>1. /\ r \in Seq(Task) /\ Len(r) = Len(q) + 1 /\ Len(q) \in Nat /\ DOMAIN r = 1..(Len(q) + 1)
      /\ DOMAIN q = 1..Len(q) /\ r[Len(q) + 1] = t /\ \A i \in 1..Len(q) : r[i] = q[i]
  OBVIOUS
<1> HIDE DEF r
<1>2. Ids(r) = Ids(q) \cup {t.id}
  <2>1. \A x \in Ids(r) : x \in Ids(q) \cup {t.id}
    BY <1>1 DEF Ids
  <2>2. t.id \in Ids(r)
    BY <1>1 DEF Ids
  <2>3. \A x \in Ids(q) : x \in Ids(r)
    BY <1>1 DEF Ids
  <2> QED BY <2>1, <2>2, <2>3
<1> QED BY <1>1, <1>2 DEF r

\* The first task leaves a queue.
LEMMA IdsTail ==
  ASSUME NEW q \in Seq(Task), q # <<>>
  PROVE  /\ Tail(q) \in Seq(Task) /\ Len(Tail(q)) = Len(q) - 1 /\ Len(q) \in Nat \ {0}
         /\ Head(q) = q[1] /\ Head(q) \in Task
         /\ Ids(q) = Ids(Tail(q)) \cup {Head(q).id}
         /\ \A i \in 1..(Len(q) - 1) : Tail(q)[i] = q[i + 1]
<1> DEFINE r == Tail(q)
<1>1. /\ r \in Seq(Task) /\ Len(r) = Len(q) - 1 /\ Len(q) \in Nat \ {0} /\ DOMAIN r = 1..(Len(q) - 1)
      /\ DOMAIN q = 1..Len(q) /\ Head(q) = q[1] /\ q[1] \in Task /\ \A i \in 1..(Len(q) - 1) : r[i] = q[i + 1]
  OBVIOUS
<1> HIDE DEF r
<1>2. Ids(q) = Ids(r) \cup {q[1].id}
  <2>1. ASSUME NEW x \in Ids(q) PROVE x \in Ids(r) \cup {q[1].id}
    <3>1. PICK i \in 1..Len(q) : x = q[i].id
      BY <1>1, <2>1 DEF Ids
    <3>2. CASE i = 1
      BY <3>1, <3>2
    <3>3. CASE i # 1
      <4>1. i - 1 \in DOMAIN r /\ r[i - 1] = q[i]
        BY <3>3, <1>1
      <4> QED BY <4>1, <3>1 DEF Ids
    <3> QED BY <3>2, <3>3
  <2>2. ASSUME NEW x \in Ids(r) PROVE x \in Ids(q)
    <3>1. PICK i \in 1..(Len(q) - 1) : x = r[i].id
      BY <1>1, <2>2 DEF Ids
    <3>2. i + 1 \in DOMAIN q /\ r[i] = q[i + 1]
      BY <1>1
    <3> QED BY <3>1, <3>2 DEF Ids
  <2>3. q[1].id \in Ids(q)
    BY <1>1 DEF Ids
  <2> QED BY <2>1, <2>2, <2>3
<1> QED BY <1>1, <1>2 DEF r

\* A task is put into the middle of a queue.
LEMMA IdsInsert ==
  ASSUME NEW q \in Seq(Task), NEW k \in 1..(Len(q) + 1), NEW t \in Task
  PROVE  Ids(InsertAt(q, k, t)) = Ids(q) \cup {t.id}
<1>0. PICK r : r = InsertAt(q, k, t)
  OBVIOUS
<1>1. /\ r \in Seq(Task) /\ Len(r) = Len(q) + 1
      /\ \A j \in 1..(Len(q) + 1) : r[j] = IF j < k THEN q[j] ELSE IF j = k THEN t ELSE q[j - 1]
  <2>1. /\ InsertAt(q, k, t) \in Seq(Task) /\ Len(InsertAt(q, k, t)) = Len(q) + 1
        /\ \A j \in 1..(Len(q) + 1) :
             InsertAt(q, k, t)[j] = IF j < k THEN q[j] ELSE IF j = k THEN t ELSE q[j - 1]
    BY InsertAtProperties
  <2> QED BY <1>0, <2>1
<1>2. Len(q) \in Nat /\ DOMAIN r = 1..(Len(q) + 1) /\ DOMAIN q = 1..Len(q)
  BY <1>1
<1>3. ASSUME NEW x \in Ids(r) PROVE x \in Ids(q) \cup {t.id}
  <2>1. PICK j \in 1..(Len(q) + 1) : x = r[j].id
    BY <1>2, <1>3 DEF Ids
  <2>2. CASE j < k
    <3>1. j \in DOMAIN q /\ r[j] = q[j]
      BY <2>2, <1>1, <1>2
    <3> QED BY <3>1, <2>1 DEF Ids
  <2>3. CASE j = k
    BY <2>1, <2>3, <1>1
  <2>4. CASE j > k
    <3>1. j - 1 \in DOMAIN q /\ r[j] = q[j - 1]
      BY <2>4, <1>1, <1>2
    <3> QED BY <3>1, <2>1 DEF Ids
  <2> QED BY <2>2, <2>3, <2>4, <1>2
<1>4. ASSUME NEW x \in Ids(q) PROVE x \in Ids(r)
  <2>1. PICK j \in 1..Len(q) : x = q[j].id
    BY <1>2, <1>4 DEF Ids
  <2>2. CASE j < k
    <3>1. j \in DOMAIN r /\ r[j] = q[j]
      BY <2>2, <1>1, <1>2
    <3> QED BY <3>1, <2>1 DEF Ids
  <2>3. CASE j >= k
    <3>1. j + 1 \in DOMAIN r /\ r[j + 1] = q[j]
      BY <2>3, <1>1, <1>2
    <3> QED BY <3>1, <2>1 DEF Ids
  <2> QED BY <2>2, <2>3, <1>2
<1>5. t.id \in Ids(r)
  <2>1. k \in DOMAIN r /\ r[k] = t
    BY <1>1, <1>2
  <2> QED BY <2>1 DEF Ids
<1> QED BY <1>0, <1>3, <1>4, <1>5

\* A queue without its first task keeps its order.
LEMMA IncreasingTail ==
  ASSUME NEW q \in Seq(Task), q # <<>>, Increasing(q)
  PROVE  Increasing(Tail(q)) /\ \A x \in Ids(Tail(q)) : Head(q).id < x
<1>1. /\ Tail(q) \in Seq(Task) /\ Len(Tail(q)) = Len(q) - 1 /\ Len(q) \in Nat \ {0} /\ Head(q) = q[1]
      /\ \A i \in 1..(Len(q) - 1) : Tail(q)[i] = q[i + 1]
  BY IdsTail
<1>2. PICK r : r = Tail(q)
  OBVIOUS
<1>3. DOMAIN r = 1..(Len(q) - 1) /\ DOMAIN q = 1..Len(q)
  BY <1>1, <1>2
<1>4. Increasing(r)
  <2> SUFFICES ASSUME NEW i \in DOMAIN r, NEW j \in DOMAIN r, i < j PROVE r[i].id < r[j].id
    BY DEF Increasing
  <2>1. r[i] = q[i + 1] /\ r[j] = q[j + 1] /\ i + 1 \in DOMAIN q /\ j + 1 \in DOMAIN q /\ i + 1 < j + 1
    BY <1>1, <1>2, <1>3
  <2> QED BY <2>1 DEF Increasing
<1>5. ASSUME NEW x \in Ids(r) PROVE q[1].id < x
  <2>1. PICK i \in DOMAIN r : x = r[i].id
    BY <1>5 DEF Ids
  <2>2. r[i] = q[i + 1] /\ 1 \in DOMAIN q /\ i + 1 \in DOMAIN q /\ 1 < i + 1
    BY <1>1, <1>2, <1>3
  <2> QED BY <2>1, <2>2 DEF Increasing
<1> QED BY <1>1, <1>2, <1>4, <1>5

\* A queue stays increasing with a task of a greater number at its end.
LEMMA IncreasingAppend ==
  ASSUME NEW q \in Seq(Task), NEW t \in Task, Increasing(q), \A x \in Ids(q) : x < t.id
  PROVE  Increasing(Append(q, t))
<1>1. PICK r : r = Append(q, t)
  OBVIOUS
<1>2. /\ DOMAIN r = 1..(Len(q) + 1) /\ DOMAIN q = 1..Len(q) /\ Len(q) \in Nat
      /\ \A i \in 1..Len(q) : r[i] = q[i]
      /\ r[Len(q) + 1] = t
  BY <1>1
<1> SUFFICES ASSUME NEW i \in DOMAIN r, NEW j \in DOMAIN r, i < j PROVE r[i].id < r[j].id
  BY <1>1 DEF Increasing
<1>3. i \in DOMAIN q /\ r[i] = q[i] /\ q[i].id \in Ids(q)
  BY <1>2 DEF Ids
<1>4. CASE j = Len(q) + 1
  BY <1>2, <1>3, <1>4
<1>5. CASE j # Len(q) + 1
  <2>1. j \in DOMAIN q /\ r[j] = q[j]
    BY <1>2, <1>5
  <2> QED BY <1>3, <2>1 DEF Increasing
<1> QED BY <1>4, <1>5

\* The delayed tasks without the first one.
LEMMA SortedTail ==
  ASSUME NEW q \in Seq(Task), q # <<>>, SortedByTime(q)
  PROVE  SortedByTime(Tail(q))
<1>1. PICK r : r = Tail(q)
  OBVIOUS
<1>2. /\ Len(q) \in Nat \ {0} /\ DOMAIN r = 1..(Len(q) - 1) /\ DOMAIN q = 1..Len(q)
      /\ \A i \in 1..(Len(q) - 1) : r[i] = q[i + 1]
  <2>1. /\ Tail(q) \in Seq(Task) /\ Len(Tail(q)) = Len(q) - 1 /\ Len(q) \in Nat \ {0}
        /\ \A i \in 1..(Len(q) - 1) : Tail(q)[i] = q[i + 1]
    BY IdsTail
  <2> QED BY <1>1, <2>1
<1>3. ASSUME NEW i \in DOMAIN r
      PROVE  /\ r[i].at # 0
             /\ \A j \in DOMAIN r : i < j => r[i].at < r[j].at \/ (r[i].at = r[j].at /\ r[i].id < r[j].id)
  <2>1. i + 1 \in DOMAIN q /\ r[i] = q[i + 1]
    BY <1>2
  <2>2. ASSUME NEW j \in DOMAIN r, i < j PROVE j + 1 \in DOMAIN q /\ r[j] = q[j + 1] /\ i + 1 < j + 1
    BY <1>2, <2>2
  <2> QED BY <2>1, <2>2 DEF SortedByTime
<1> QED BY <1>1, <1>3 DEF SortedByTime

\* A task is put among the delayed ones by its time, behind those that are due at the
\* same time, all of which were posted before.
LEMMA DelayedInsert ==
  ASSUME delayed \in Seq(Task), SortedByTime(delayed),
         NEW t \in Task, t.at # 0, \A x \in Ids(delayed) : x < t.id
  PROVE  /\ AddToDelayedWorkQueue(t) \in Seq(Task)
         /\ Len(AddToDelayedWorkQueue(t)) = Len(delayed) + 1
         /\ Ids(AddToDelayedWorkQueue(t)) = Ids(delayed) \cup {t.id}
         /\ SortedByTime(AddToDelayedWorkQueue(t))
<1>0. PICK q : q = delayed
  OBVIOUS
<1>1. /\ q \in Seq(Task) /\ Len(q) \in Nat /\ DOMAIN q = 1..Len(q) /\ SortedByTime(q)
      /\ \A i \in 1..Len(q) : q[i] \in Task /\ q[i].at \in Nat /\ q[i].id < t.id
      /\ t.at \in Nat
  <2>1. q \in Seq(Task) /\ Len(q) \in Nat /\ DOMAIN q = 1..Len(q) /\ SortedByTime(q)
    BY <1>0
  <2>2. ASSUME NEW i \in 1..Len(q) PROVE q[i] \in Task /\ q[i].at \in Nat /\ q[i].id < t.id
    <3>1. q[i] \in Task /\ q[i].id \in Ids(q)
      BY <2>1 DEF Ids
    <3> QED BY <3>1, <1>0 DEF Task
  <2> QED BY <2>1, <2>2 DEF Task
<1>2. PICK later : later = {i \in DOMAIN q : q[i].at > t.at}
  OBVIOUS
<1>3. PICK k : k = IF later = {} THEN Len(q) + 1 ELSE Min(later)
  OBVIOUS
<1>4. /\ k \in 1..(Len(q) + 1)
      /\ \A i \in 1..Len(q) : i < k => q[i].at <= t.at
      /\ \A i \in 1..Len(q) : k <= i => t.at < q[i].at
  <2>1. CASE later = {}
    BY <1>1, <1>2, <1>3, <2>1
  <2>2. CASE later # {}
    <3>1. later \in SUBSET Nat
      BY <1>1, <1>2
    <3>2. \E x \in later : \A y \in later : x <= y
      BY <3>1, <2>2, LeastNatural
    <3>3. k \in later /\ \A y \in later : k <= y
      BY <3>2, <2>2, <1>3 DEF Min
    <3>4. k \in 1..Len(q) /\ q[k].at > t.at
      BY <3>3, <1>2, <1>1
    <3>5. ASSUME NEW i \in 1..Len(q), i < k PROVE q[i].at <= t.at
      <4>1. i \notin later
        BY <3>3, <3>4, <3>5
      <4> QED BY <4>1, <1>1, <1>2
    <3>6. ASSUME NEW i \in 1..Len(q), k <= i PROVE t.at < q[i].at
      <4>1. q[k].at <= q[i].at
        BY <3>4, <3>6, <1>1 DEF SortedByTime
      <4> QED BY <4>1, <3>4, <1>1
    <3> QED BY <3>4, <3>5, <3>6, <1>1
  <2> QED BY <2>1, <2>2
<1>5. AddToDelayedWorkQueue(t) = InsertAt(q, k, t)
  BY <1>0, <1>2, <1>3 DEF AddToDelayedWorkQueue
<1>6. PICK r : r = InsertAt(q, k, t)
  OBVIOUS
<1>7. /\ r \in Seq(Task) /\ Len(r) = Len(q) + 1 /\ Ids(r) = Ids(q) \cup {t.id}
      /\ DOMAIN r = 1..(Len(q) + 1)
      /\ \A j \in 1..(Len(q) + 1) : r[j] = IF j < k THEN q[j] ELSE IF j = k THEN t ELSE q[j - 1]
  <2>1. /\ r \in Seq(Task) /\ Len(r) = Len(q) + 1
        /\ \A j \in 1..(Len(q) + 1) : r[j] = IF j < k THEN q[j] ELSE IF j = k THEN t ELSE q[j - 1]
    <3>1. q \in Seq(Task) /\ k \in 1..(Len(q) + 1) /\ t \in Task
      BY <1>1, <1>4
    <3>2. /\ InsertAt(q, k, t) \in Seq(Task) /\ Len(InsertAt(q, k, t)) = Len(q) + 1
          /\ \A j \in 1..(Len(q) + 1) :
               InsertAt(q, k, t)[j] = IF j < k THEN q[j] ELSE IF j = k THEN t ELSE q[j - 1]
      BY <3>1, InsertAtProperties
    <3> QED BY <3>2, <1>6
  <2>2. Ids(r) = Ids(q) \cup {t.id}
    BY <1>1, <1>4, <1>6, IdsInsert
  <2> QED BY <2>1, <2>2
<1>8. ASSUME NEW i \in 1..(Len(q) + 1)
      PROVE  /\ r[i].at # 0
             /\ \A j \in 1..(Len(q) + 1) : i < j =>
                  r[i].at < r[j].at \/ (r[i].at = r[j].at /\ r[i].id < r[j].id)
  <2>1. r[i].at # 0
    <3>1. CASE i < k
      <4>1. i \in 1..Len(q) /\ r[i] = q[i]
        BY <3>1, <1>4, <1>7, <1>1
      <4> QED BY <4>1, <1>1 DEF SortedByTime
    <3>2. CASE i = k
      BY <3>2, <1>7
    <3>3. CASE i > k
      <4>1. i - 1 \in 1..Len(q) /\ r[i] = q[i - 1]
        BY <3>3, <1>4, <1>7, <1>1
      <4> QED BY <4>1, <1>1 DEF SortedByTime
    <3> QED BY <3>1, <3>2, <3>3, <1>1, <1>4
  <2>2. ASSUME NEW j \in 1..(Len(q) + 1), i < j
        PROVE  r[i].at < r[j].at \/ (r[i].at = r[j].at /\ r[i].id < r[j].id)
    <3>1. CASE j < k
      <4>1. i \in 1..Len(q) /\ j \in 1..Len(q) /\ r[i] = q[i] /\ r[j] = q[j]
        BY <2>2, <3>1, <1>4, <1>7, <1>1
      <4> QED BY <4>1, <2>2, <1>1 DEF SortedByTime
    <3>2. CASE j = k
      <4>1. i \in 1..Len(q) /\ r[i] = q[i] /\ r[j] = t
        BY <2>2, <3>2, <1>4, <1>7, <1>1
      <4> QED BY <4>1, <2>2, <3>2, <1>4, <1>1
    <3>3. CASE j > k /\ i < k
      <4>1. i \in 1..Len(q) /\ r[i] = q[i] /\ j - 1 \in 1..Len(q) /\ r[j] = q[j - 1] /\ k <= j - 1
        BY <2>2, <3>3, <1>4, <1>7, <1>1
      <4> QED BY <4>1, <3>3, <1>4, <1>1
    <3>4. CASE j > k /\ i = k
      <4>1. r[i] = t /\ j - 1 \in 1..Len(q) /\ r[j] = q[j - 1] /\ k <= j - 1
        BY <2>2, <3>4, <1>4, <1>7, <1>1
      <4> QED BY <4>1, <1>4
    <3>5. CASE j > k /\ i > k
      <4>1. /\ i - 1 \in 1..Len(q) /\ r[i] = q[i - 1] /\ j - 1 \in 1..Len(q) /\ r[j] = q[j - 1]
            /\ i - 1 < j - 1
        BY <2>2, <3>5, <1>4, <1>7, <1>1
      <4>2. PICK a \in DOMAIN q : a = i - 1
        BY <4>1, <1>1
      <4>3. PICK b \in DOMAIN q : b = j - 1
        BY <4>1, <1>1
      <4>4. a < b /\ r[i] = q[a] /\ r[j] = q[b]
        BY <4>1, <4>2, <4>3
      <4> QED BY <4>4, <1>1 DEF SortedByTime
    <3> QED BY <3>1, <3>2, <3>3, <3>4, <3>5, <1>1, <1>4
  <2> QED BY <2>1, <2>2
<1>9. SortedByTime(r)
  BY <1>7, <1>8 DEF SortedByTime
<1> QED BY <1>0, <1>5, <1>6, <1>7, <1>9

-----------------------------------------------------------------------------
(***************************************************************************)
(* What the moves of tasks keep.                                           *)
(***************************************************************************)
\* The queues, the tasks that were run and how many were posted, when every task is in
\* one place and the queues are in order.
QueuesOK(a, b, c, d, r, n) ==
  /\ a \in Seq(Task) /\ b \in Seq(Task) /\ c \in Seq(Task) /\ d \in Seq(Task)
  /\ r \in Seq(1..MaxPosts) /\ n \in 0..MaxPosts
  /\ Len(a) + Len(b) + Len(c) + Len(d) + Len(r) = n
  /\ Ids(a) \cup Ids(b) \cup Ids(c) \cup Ids(d) \cup ToSet(r) = 1..n
  /\ Increasing(a) /\ Increasing(b) /\ Earlier(b, a) /\ Earlier(c, a) /\ Earlier(c, b)
  /\ SortedByTime(c)

TasksOK == QueuesOK(incoming, work, delayed, deferred, ran, posted)

\* That is what the invariants say of the queues.
LEMMA QueuesMeaning ==
  TypeOK => (TasksOK <=> TasksConserved /\ QueuesInOrder)
<1> SUFFICES ASSUME TypeOK PROVE TasksOK <=> TasksConserved /\ QueuesInOrder
  OBVIOUS
<1>1. /\ incoming \in Seq(Task) /\ work \in Seq(Task) /\ delayed \in Seq(Task) /\ deferred \in Seq(Task)
      /\ ran \in Seq(1..MaxPosts) /\ posted \in 0..MaxPosts
  BY DEF TypeOK
<1>2. /\ Len(InQueues) = Len(incoming) + Len(work) + Len(delayed) + Len(deferred)
      /\ Ids(InQueues) = Ids(incoming) \cup Ids(work) \cup Ids(delayed) \cup Ids(deferred)
  BY <1>1, FourQueues DEF InQueues
<1> QED BY <1>1, <1>2 DEF TasksOK, QueuesOK, TasksConserved, QueuesInOrder

\* The tasks that were run, with one more.
LEMMA RanAppend ==
  ASSUME NEW r \in Seq(1..MaxPosts), NEW x \in 1..MaxPosts
  PROVE  /\ Append(r, x) \in Seq(1..MaxPosts) /\ Len(Append(r, x)) = Len(r) + 1 /\ Len(r) \in Nat
         /\ ToSet(Append(r, x)) = ToSet(r) \cup {x}
<1>1. PICK s : s = Append(r, x)
  OBVIOUS
<1>2. /\ s \in Seq(1..MaxPosts) /\ Len(s) = Len(r) + 1 /\ Len(r) \in Nat /\ DOMAIN r = 1..Len(r)
      /\ DOMAIN s = 1..(Len(r) + 1) /\ s[Len(r) + 1] = x /\ \A i \in 1..Len(r) : s[i] = r[i]
  BY <1>1
<1>3. \A y \in ToSet(s) : y \in ToSet(r) \cup {x}
  BY <1>2 DEF ToSet
<1>4. x \in ToSet(s) /\ \A y \in ToSet(r) : y \in ToSet(s)
  BY <1>2 DEF ToSet
<1> QED BY <1>1, <1>2, <1>3, <1>4

\* An empty queue is in order with every other.
LEMMA EmptyQueue ==
  /\ <<>> \in Seq(Task) /\ Len(<<>>) = 0 /\ Ids(<<>>) = {} /\ Increasing(<<>>)
  /\ \A q : Earlier(q, <<>>) /\ Earlier(<<>>, q)
<1>1. Ids(<<>>) = {}
  BY DEF Ids
<1> QED BY <1>1 DEF Increasing, Earlier

\* A task is posted.
LEMMA MovePosted ==
  ASSUME NEW a, NEW b, NEW c, NEW d, NEW r, NEW n, QueuesOK(a, b, c, d, r, n),
         NEW t \in Task, t.id = n + 1
  PROVE  QueuesOK(Append(a, t), b, c, d, r, n + 1)
<1>0. MaxPosts \in Nat
  BY LoopAssumption
<1>1. /\ a \in Seq(Task) /\ b \in Seq(Task) /\ c \in Seq(Task) /\ d \in Seq(Task)
      /\ r \in Seq(1..MaxPosts) /\ n \in 0..MaxPosts /\ n \in Nat
      /\ Len(a) + Len(b) + Len(c) + Len(d) + Len(r) = n
      /\ Ids(a) \cup Ids(b) \cup Ids(c) \cup Ids(d) \cup ToSet(r) = 1..n
      /\ Increasing(a) /\ Increasing(b) /\ Earlier(b, a) /\ Earlier(c, a) /\ Earlier(c, b)
      /\ SortedByTime(c)
  BY <1>0 DEF QueuesOK
<1>2. t.id \in 1..MaxPosts
  BY DEF Task
<1>3. /\ Append(a, t) \in Seq(Task) /\ Len(Append(a, t)) = Len(a) + 1
      /\ Ids(Append(a, t)) = Ids(a) \cup {t.id}
  BY <1>1, IdsAppend
<1>4. n + 1 \in 0..MaxPosts /\ 1..(n + 1) = (1..n) \cup {n + 1}
  BY <1>0, <1>1, <1>2
<1>5. Len(Append(a, t)) + Len(b) + Len(c) + Len(d) + Len(r) = n + 1
  <2>1. /\ Len(a) \in Nat /\ Len(b) \in Nat /\ Len(c) \in Nat /\ Len(d) \in Nat /\ Len(r) \in Nat
        /\ Len(a) + Len(b) + Len(c) + Len(d) + Len(r) = n
    BY <1>1
  <2>2. Len(Append(a, t)) = Len(a) + 1
    BY <1>3
  <2> QED BY <2>1, <2>2
<1>6. Ids(Append(a, t)) \cup Ids(b) \cup Ids(c) \cup Ids(d) \cup ToSet(r) = 1..(n + 1)
  BY <1>1, <1>3, <1>4
<1>7. /\ \A x \in Ids(a) : x < t.id
      /\ \A x \in Ids(b) : x < t.id
      /\ \A x \in Ids(c) : x < t.id
  BY <1>1
<1>8. Increasing(Append(a, t))
  BY <1>1, <1>7, IncreasingAppend
<1>9. Earlier(b, Append(a, t)) /\ Earlier(c, Append(a, t))
  BY <1>1, <1>3, <1>7 DEF Earlier
<1> QED BY <1>1, <1>3, <1>4, <1>5, <1>6, <1>8, <1>9 DEF QueuesOK

\* The incoming queue becomes the work queue.
LEMMA MoveReload ==
  ASSUME NEW a, NEW b, NEW c, NEW d, NEW r, NEW n, QueuesOK(a, b, c, d, r, n), b = <<>>
  PROVE  QueuesOK(<<>>, a, c, d, r, n)
<1>1. Len(a) + Len(<<>>) + Len(c) + Len(d) + Len(r) = Len(<<>>) + Len(a) + Len(c) + Len(d) + Len(r)
  BY EmptyQueue DEF QueuesOK
<1> QED BY <1>1, EmptyQueue DEF QueuesOK

\* A delayed task goes on to the queue of its kind.
LEMMA MoveToDelayed ==
  ASSUME NEW a, NEW b, NEW d, NEW r, NEW n, QueuesOK(a, b, delayed, d, r, n), b # <<>>, Head(b).at # 0
  PROVE  QueuesOK(a, Tail(b), AddToDelayedWorkQueue(Head(b)), d, r, n)
<1>1. PICK c : c = AddToDelayedWorkQueue(Head(b))
  OBVIOUS
<1>2. /\ a \in Seq(Task) /\ b \in Seq(Task) /\ delayed \in Seq(Task) /\ d \in Seq(Task)
      /\ r \in Seq(1..MaxPosts) /\ n \in 0..MaxPosts
      /\ Len(a) + Len(b) + Len(delayed) + Len(d) + Len(r) = n
      /\ Ids(a) \cup Ids(b) \cup Ids(delayed) \cup Ids(d) \cup ToSet(r) = 1..n
      /\ Increasing(a) /\ Increasing(b) /\ Earlier(b, a) /\ Earlier(delayed, a) /\ Earlier(delayed, b)
      /\ SortedByTime(delayed)
  BY DEF QueuesOK
<1>3. /\ Tail(b) \in Seq(Task) /\ Len(Tail(b)) = Len(b) - 1 /\ Head(b) \in Task
      /\ Ids(b) = Ids(Tail(b)) \cup {Head(b).id}
  BY <1>2, IdsTail
<1>4. Increasing(Tail(b)) /\ \A x \in Ids(Tail(b)) : Head(b).id < x
  BY <1>2, IncreasingTail
<1>5. \A x \in Ids(delayed) : x < Head(b).id
  BY <1>2, <1>3 DEF Earlier
<1>6. /\ c \in Seq(Task) /\ Len(c) = Len(delayed) + 1 /\ Ids(c) = Ids(delayed) \cup {Head(b).id}
      /\ SortedByTime(c)
  BY <1>1, <1>2, <1>3, <1>5, DelayedInsert
<1>7. Len(a) + Len(Tail(b)) + Len(c) + Len(d) + Len(r) = n
  <2>1. /\ Len(a) \in Nat /\ Len(b) \in Nat /\ Len(delayed) \in Nat /\ Len(d) \in Nat /\ Len(r) \in Nat
        /\ Len(a) + Len(b) + Len(delayed) + Len(d) + Len(r) = n
    BY <1>2
  <2>2. Len(Tail(b)) = Len(b) - 1 /\ Len(c) = Len(delayed) + 1
    BY <1>3, <1>6
  <2> QED BY <2>1, <2>2
<1>8. Ids(a) \cup Ids(Tail(b)) \cup Ids(c) \cup Ids(d) \cup ToSet(r) = 1..n
  BY <1>2, <1>3, <1>6
<1>9. Earlier(Tail(b), a) /\ Earlier(c, a) /\ Earlier(c, Tail(b))
  BY <1>2, <1>3, <1>4, <1>6 DEF Earlier
<1> QED BY <1>1, <1>2, <1>3, <1>4, <1>6, <1>7, <1>8, <1>9 DEF QueuesOK

\* The first task of the work queue leaves it, to be run or deferred.
LEMMA MoveFromWork ==
  ASSUME NEW a, NEW b, NEW c, NEW d, NEW r, NEW n, QueuesOK(a, b, c, d, r, n), b # <<>>
  PROVE  /\ QueuesOK(a, Tail(b), c, d, Append(r, Head(b).id), n)
         /\ QueuesOK(a, Tail(b), c, Append(d, Head(b)), r, n)
<1>1. /\ a \in Seq(Task) /\ b \in Seq(Task) /\ c \in Seq(Task) /\ d \in Seq(Task)
      /\ r \in Seq(1..MaxPosts) /\ n \in 0..MaxPosts
      /\ Len(a) + Len(b) + Len(c) + Len(d) + Len(r) = n
      /\ Ids(a) \cup Ids(b) \cup Ids(c) \cup Ids(d) \cup ToSet(r) = 1..n
      /\ Increasing(a) /\ Increasing(b) /\ Earlier(b, a) /\ Earlier(c, a) /\ Earlier(c, b)
      /\ SortedByTime(c)
  BY DEF QueuesOK
<1>2. /\ Tail(b) \in Seq(Task) /\ Len(Tail(b)) = Len(b) - 1 /\ Head(b) \in Task
      /\ Ids(b) = Ids(Tail(b)) \cup {Head(b).id}
  BY <1>1, IdsTail
<1>3. Increasing(Tail(b)) /\ Earlier(Tail(b), a) /\ Earlier(c, Tail(b))
  BY <1>1, <1>2, IncreasingTail DEF Earlier
<1>4. /\ Len(a) \in Nat /\ Len(b) \in Nat /\ Len(c) \in Nat /\ Len(d) \in Nat /\ Len(r) \in Nat
      /\ Len(a) + Len(b) + Len(c) + Len(d) + Len(r) = n
  BY <1>1
<1>5. QueuesOK(a, Tail(b), c, d, Append(r, Head(b).id), n)
  <2>1. /\ Append(r, Head(b).id) \in Seq(1..MaxPosts) /\ Len(Append(r, Head(b).id)) = Len(r) + 1
        /\ ToSet(Append(r, Head(b).id)) = ToSet(r) \cup {Head(b).id}
    <3>1. Head(b).id \in 1..MaxPosts
      BY <1>2 DEF Task
    <3> QED BY <3>1, <1>1, RanAppend
  <2>2. Len(a) + Len(Tail(b)) + Len(c) + Len(d) + Len(Append(r, Head(b).id)) = n
    <3>1. Len(Tail(b)) = Len(b) - 1 /\ Len(Append(r, Head(b).id)) = Len(r) + 1
      BY <2>1, <1>2
    <3> QED BY <3>1, <1>4
  <2>3. Ids(a) \cup Ids(Tail(b)) \cup Ids(c) \cup Ids(d) \cup ToSet(Append(r, Head(b).id)) = 1..n
    BY <2>1, <1>1, <1>2
  <2> QED BY <2>1, <2>2, <2>3, <1>1, <1>2, <1>3 DEF QueuesOK
<1>6. QueuesOK(a, Tail(b), c, Append(d, Head(b)), r, n)
  <2>1. /\ Append(d, Head(b)) \in Seq(Task) /\ Len(Append(d, Head(b))) = Len(d) + 1
        /\ Ids(Append(d, Head(b))) = Ids(d) \cup {Head(b).id}
    BY <1>1, <1>2, IdsAppend
  <2>2. Len(a) + Len(Tail(b)) + Len(c) + Len(Append(d, Head(b))) + Len(r) = n
    <3>1. Len(Tail(b)) = Len(b) - 1 /\ Len(Append(d, Head(b))) = Len(d) + 1
      BY <2>1, <1>2
    <3> QED BY <3>1, <1>4
  <2>3. Ids(a) \cup Ids(Tail(b)) \cup Ids(c) \cup Ids(Append(d, Head(b))) \cup ToSet(r) = 1..n
    BY <2>1, <1>1, <1>2
  <2> QED BY <2>1, <2>2, <2>3, <1>1, <1>2, <1>3 DEF QueuesOK
<1> QED BY <1>5, <1>6

\* The first delayed task is due, and is run or deferred.
LEMMA MoveFromDelayed ==
  ASSUME NEW a, NEW b, NEW c, NEW d, NEW r, NEW n, QueuesOK(a, b, c, d, r, n), c # <<>>
  PROVE  /\ QueuesOK(a, b, Tail(c), d, Append(r, Head(c).id), n)
         /\ QueuesOK(a, b, Tail(c), Append(d, Head(c)), r, n)
<1>1. /\ a \in Seq(Task) /\ b \in Seq(Task) /\ c \in Seq(Task) /\ d \in Seq(Task)
      /\ r \in Seq(1..MaxPosts) /\ n \in 0..MaxPosts
      /\ Len(a) + Len(b) + Len(c) + Len(d) + Len(r) = n
      /\ Ids(a) \cup Ids(b) \cup Ids(c) \cup Ids(d) \cup ToSet(r) = 1..n
      /\ Increasing(a) /\ Increasing(b) /\ Earlier(b, a) /\ Earlier(c, a) /\ Earlier(c, b)
      /\ SortedByTime(c)
  BY DEF QueuesOK
<1>2. /\ Tail(c) \in Seq(Task) /\ Len(Tail(c)) = Len(c) - 1 /\ Head(c) \in Task
      /\ Ids(c) = Ids(Tail(c)) \cup {Head(c).id}
  BY <1>1, IdsTail
<1>3. SortedByTime(Tail(c)) /\ Earlier(Tail(c), a) /\ Earlier(Tail(c), b)
  BY <1>1, <1>2, SortedTail DEF Earlier
<1>4. /\ Len(a) \in Nat /\ Len(b) \in Nat /\ Len(c) \in Nat /\ Len(d) \in Nat /\ Len(r) \in Nat
      /\ Len(a) + Len(b) + Len(c) + Len(d) + Len(r) = n
  BY <1>1
<1>5. QueuesOK(a, b, Tail(c), d, Append(r, Head(c).id), n)
  <2>1. /\ Append(r, Head(c).id) \in Seq(1..MaxPosts) /\ Len(Append(r, Head(c).id)) = Len(r) + 1
        /\ ToSet(Append(r, Head(c).id)) = ToSet(r) \cup {Head(c).id}
    <3>1. Head(c).id \in 1..MaxPosts
      BY <1>2 DEF Task
    <3> QED BY <3>1, <1>1, RanAppend
  <2>2. Len(a) + Len(b) + Len(Tail(c)) + Len(d) + Len(Append(r, Head(c).id)) = n
    <3>1. Len(Tail(c)) = Len(c) - 1 /\ Len(Append(r, Head(c).id)) = Len(r) + 1
      BY <2>1, <1>2
    <3> QED BY <3>1, <1>4
  <2>3. Ids(a) \cup Ids(b) \cup Ids(Tail(c)) \cup Ids(d) \cup ToSet(Append(r, Head(c).id)) = 1..n
    BY <2>1, <1>1, <1>2
  <2> QED BY <2>1, <2>2, <2>3, <1>1, <1>2, <1>3 DEF QueuesOK
<1>6. QueuesOK(a, b, Tail(c), Append(d, Head(c)), r, n)
  <2>1. /\ Append(d, Head(c)) \in Seq(Task) /\ Len(Append(d, Head(c))) = Len(d) + 1
        /\ Ids(Append(d, Head(c))) = Ids(d) \cup {Head(c).id}
    BY <1>1, <1>2, IdsAppend
  <2>2. Len(a) + Len(b) + Len(Tail(c)) + Len(Append(d, Head(c))) + Len(r) = n
    <3>1. Len(Tail(c)) = Len(c) - 1 /\ Len(Append(d, Head(c))) = Len(d) + 1
      BY <2>1, <1>2
    <3> QED BY <3>1, <1>4
  <2>3. Ids(a) \cup Ids(b) \cup Ids(Tail(c)) \cup Ids(Append(d, Head(c))) \cup ToSet(r) = 1..n
    BY <2>1, <1>1, <1>2
  <2> QED BY <2>1, <2>2, <2>3, <1>1, <1>2, <1>3 DEF QueuesOK
<1> QED BY <1>5, <1>6

\* The first deferred task is run.
LEMMA MoveFromDeferred ==
  ASSUME NEW a, NEW b, NEW c, NEW d, NEW r, NEW n, QueuesOK(a, b, c, d, r, n), d # <<>>
  PROVE  QueuesOK(a, b, c, Tail(d), Append(r, Head(d).id), n)
<1>1. /\ a \in Seq(Task) /\ b \in Seq(Task) /\ c \in Seq(Task) /\ d \in Seq(Task)
      /\ r \in Seq(1..MaxPosts) /\ n \in 0..MaxPosts
      /\ Len(a) + Len(b) + Len(c) + Len(d) + Len(r) = n
      /\ Ids(a) \cup Ids(b) \cup Ids(c) \cup Ids(d) \cup ToSet(r) = 1..n
  BY DEF QueuesOK
<1>2. /\ Tail(d) \in Seq(Task) /\ Len(Tail(d)) = Len(d) - 1 /\ Head(d) \in Task
      /\ Ids(d) = Ids(Tail(d)) \cup {Head(d).id}
  BY <1>1, IdsTail
<1>3. /\ Append(r, Head(d).id) \in Seq(1..MaxPosts) /\ Len(Append(r, Head(d).id)) = Len(r) + 1
      /\ ToSet(Append(r, Head(d).id)) = ToSet(r) \cup {Head(d).id}
  <2>1. Head(d).id \in 1..MaxPosts
    BY <1>2 DEF Task
  <2> QED BY <2>1, <1>1, RanAppend
<1>4. /\ Len(a) \in Nat /\ Len(b) \in Nat /\ Len(c) \in Nat /\ Len(d) \in Nat /\ Len(r) \in Nat
      /\ Len(a) + Len(b) + Len(c) + Len(d) + Len(r) = n
  BY <1>1
<1>5. Len(a) + Len(b) + Len(c) + Len(Tail(d)) + Len(Append(r, Head(d).id)) = n
  <2>1. Len(Tail(d)) = Len(d) - 1 /\ Len(Append(r, Head(d).id)) = Len(r) + 1
    BY <1>2, <1>3
  <2> QED BY <2>1, <1>4
<1>6. Ids(a) \cup Ids(b) \cup Ids(c) \cup Ids(Tail(d)) \cup ToSet(Append(r, Head(d).id)) = 1..n
  BY <1>1, <1>2, <1>3
<1> QED BY <1>1, <1>2, <1>3, <1>5, <1>6 DEF QueuesOK

-----------------------------------------------------------------------------
(***************************************************************************)
(* The call stack.  s is a stack, n how many tasks were posted, p the kind *)
(* of the pump and k its keep_running_.                                    *)
(***************************************************************************)
\* Runs and the tasks they call alternate; a task that may not nest is the outermost one.
Shape(s) ==
  /\ s \in Seq(Frame)
  /\ s # <<>> => s[1].k = "run" /\ s[1].ok
  /\ \A i \in 2..Len(s) : s[i].k # "task" => s[i - 1].k = "task"
  /\ \A i \in 2..Len(s) : s[i].k = "task" => s[i - 1].k = "run" /\ s[i - 1].ok
  /\ \A i \in 1..Len(s) : s[i].k = "task" /\ ~s[i].t.nestable => i = 2

\* What a run says of itself.
RunGood(f, n, p) ==
  /\ f.owes \subseteq 1..n
  /\ ~f.ok => f.owes = {}
  /\ f.pc = "idle" \/ (f.pc = "sleep" /\ p = "default") => ~f.did

RunsGood(s, n, p) == \A i \in 1..Len(s) : s[i].k = "run" => RunGood(s[i], n, p)

\* Only the innermost run ends for being idle, and its pump knows.
EndsLast(s, p, k) ==
  \A i \in 1..Len(s) : s[i].k = "run" /\ s[i].idle =>
    i = Len(s) /\ s[i].pc = "idle" /\ (IF p = "qt" THEN s[i].stop ELSE ~k)

NoneEnds(s) == \A i \in 1..Len(s) : s[i].k = "run" => ~s[i].idle

StackGood(s, n, p, k) == Shape(s) /\ RunsGood(s, n, p) /\ EndsLast(s, p, k)

\* A frame is of one of three kinds.
LEMMA FrameKinds ==
  ASSUME NEW f \in Frame
  PROVE  /\ f.k \in {"run", "task", "native"}
         /\ f.k = "run" => f \in RunFrame
         /\ f.k = "task" => f \in TaskFrame
         /\ f.k = "native" => f = Native
BY DEF Frame, RunFrame, TaskFrame, Native

\* The parts of a stack.
LEMMA StackParts ==
  ASSUME NEW s \in Seq(Frame), s # <<>>
  PROVE  /\ Len(s) \in Nat \ {0} /\ DOMAIN s = 1..Len(s) /\ \A i \in 1..Len(s) : s[i] \in Frame
         /\ Last(s) = s[Len(s)]
         /\ Front(s) \in Seq(Frame) /\ Len(Front(s)) = Len(s) - 1
         /\ \A i \in 1..(Len(s) - 1) : Front(s)[i] = s[i]
<1>1. Len(s) \in Nat \ {0} /\ DOMAIN s = 1..Len(s) /\ \A i \in 1..Len(s) : s[i] \in Frame
  OBVIOUS
<1>2. PICK r : r = SubSeq(s, 1, Len(s) - 1)
  OBVIOUS
<1>3. r \in Seq(Frame) /\ Len(r) = Len(s) - 1 /\ \A i \in 1..(Len(s) - 1) : r[i] = s[i]
  BY <1>1, <1>2
<1> QED BY <1>1, <1>2, <1>3 DEF Last, Front

\* A frame is pushed.
LEMMA PushParts ==
  ASSUME NEW s \in Seq(Frame), NEW f \in Frame
  PROVE  /\ Append(s, f) \in Seq(Frame) /\ Len(Append(s, f)) = Len(s) + 1 /\ Len(s) \in Nat
         /\ Append(s, f) # <<>>
         /\ \A i \in 1..Len(s) : Append(s, f)[i] = s[i]
         /\ Append(s, f)[Len(s) + 1] = f /\ Last(Append(s, f)) = f
<1>1. PICK r : r = Append(s, f)
  OBVIOUS
<1>2. /\ r \in Seq(Frame) /\ Len(r) = Len(s) + 1 /\ Len(s) \in Nat /\ r # <<>>
      /\ \A i \in 1..Len(s) : r[i] = s[i]
      /\ r[Len(s) + 1] = f
  BY <1>1
<1> QED BY <1>1, <1>2 DEF Last

\* The top of the stack is replaced.
LEMMA ReplaceParts ==
  ASSUME NEW s \in Seq(Frame), s # <<>>, NEW f \in Frame
  PROVE  /\ Append(Front(s), f) = [s EXCEPT ![Len(s)] = f]
         /\ Append(Front(s), f) \in Seq(Frame) /\ Len(Append(Front(s), f)) = Len(s)
         /\ Append(Front(s), f) # <<>> /\ Last(Append(Front(s), f)) = f
<1>1. PICK q : q = Front(s)
  OBVIOUS
<1>2. /\ Len(s) \in Nat \ {0} /\ DOMAIN s = 1..Len(s)
      /\ q \in Seq(Frame) /\ Len(q) = Len(s) - 1 /\ \A i \in 1..(Len(s) - 1) : q[i] = s[i]
  BY <1>1, StackParts
<1>3. PICK r : r = Append(q, f)
  OBVIOUS
<1>4. /\ r \in Seq(Frame) /\ Len(r) = Len(s) /\ r # <<>>
      /\ \A i \in 1..(Len(s) - 1) : r[i] = s[i]
      /\ r[Len(s)] = f
  <2>1. /\ r \in Seq(Frame) /\ Len(r) = Len(q) + 1 /\ r # <<>>
        /\ \A i \in 1..Len(q) : r[i] = q[i]
        /\ r[Len(q) + 1] = f
    BY <1>2, <1>3, PushParts
  <2>2. Len(q) + 1 = Len(s)
    BY <1>2
  <2> QED BY <1>2, <2>1, <2>2
<1>5. PICK e : e = [s EXCEPT ![Len(s)] = f]
  OBVIOUS
<1>6. /\ e \in Seq(Frame) /\ Len(e) = Len(s)
      /\ \A i \in 1..Len(s) : e[i] = IF i = Len(s) THEN f ELSE s[i]
  BY <1>2, <1>5
<1>7. ASSUME NEW i \in 1..Len(s) PROVE r[i] = e[i]
  <2>1. CASE i = Len(s)
    BY <1>4, <1>6, <2>1
  <2>2. CASE i # Len(s)
    <3>1. i \in 1..(Len(s) - 1)
      <4>1. Len(s) \in Nat
        BY <1>2
      <4> QED BY <4>1, <2>2
    <3> QED BY <1>4, <1>6, <2>2, <3>1
  <2> QED BY <2>1, <2>2
<1>8. r = e
  BY <1>4, <1>6, <1>7, SeqEqual
<1> QED BY <1>1, <1>3, <1>4, <1>5, <1>8 DEF Last

\* A run of the stack is changed, but not the tasks it allows.
LEMMA ShapeChanged ==
  ASSUME NEW s, Shape(s), NEW i \in 1..Len(s), s[i].k = "run",
         NEW f \in RunFrame, f.ok = s[i].ok
  PROVE  /\ Shape([s EXCEPT ![i] = f]) /\ Len([s EXCEPT ![i] = f]) = Len(s)
         /\ \A j \in 1..Len(s) : [s EXCEPT ![i] = f][j] = IF j = i THEN f ELSE s[j]
<1>1. /\ s \in Seq(Frame) /\ Len(s) \in Nat /\ s[1].k = "run" /\ s[1].ok /\ f \in Frame /\ f.k = "run"
      /\ \A j \in 2..Len(s) : s[j].k # "task" => s[j - 1].k = "task"
      /\ \A j \in 2..Len(s) : s[j].k = "task" => s[j - 1].k = "run" /\ s[j - 1].ok
      /\ \A j \in 1..Len(s) : s[j].k = "task" /\ ~s[j].t.nestable => j = 2
  <2>1. s # <<>>
    BY DEF Shape
  <2>2. f.k = "run" /\ f \in Frame
    BY DEF RunFrame, Frame
  <2> QED BY <2>1, <2>2 DEF Shape
<1>2. PICK r : r = [s EXCEPT ![i] = f]
  OBVIOUS
<1>3. /\ r \in Seq(Frame) /\ Len(r) = Len(s)
      /\ \A j \in 1..Len(s) : r[j] = IF j = i THEN f ELSE s[j]
  BY <1>1, <1>2
<1>4. \A j \in 1..Len(s) : r[j].k = s[j].k
  BY <1>1, <1>3
<1>5. \A j \in 1..Len(s) : r[j].k = "run" => r[j].ok = s[j].ok
  BY <1>1, <1>3
<1>6. \A j \in 1..Len(s) : r[j].k = "task" => r[j] = s[j]
  BY <1>1, <1>3
<1>7. \A j \in 2..Len(s) : r[j].k # "task" => r[j - 1].k = "task"
  BY <1>1, <1>4
<1>8. ASSUME NEW j \in 2..Len(s), r[j].k = "task" PROVE r[j - 1].k = "run" /\ r[j - 1].ok
  <2>1. j - 1 \in 1..Len(s) /\ s[j - 1].k = "run" /\ s[j - 1].ok
    BY <1>1, <1>4, <1>8
  <2> QED BY <2>1, <1>4, <1>5
<1>9. \A j \in 1..Len(s) : r[j].k = "task" /\ ~r[j].t.nestable => j = 2
  BY <1>1, <1>4, <1>6
<1>10. r # <<>> => r[1].k = "run" /\ r[1].ok
  BY <1>1, <1>3, <1>4
<1> QED BY <1>2, <1>3, <1>7, <1>8, <1>9, <1>10 DEF Shape

\* The innermost run calls a task.
LEMMA ShapeTaskPushed ==
  ASSUME NEW s, Shape(s), s # <<>>, Last(s).k = "run", Last(s).ok,
         NEW f \in TaskFrame, f.t.nestable \/ Len(s) = 1
  PROVE  Shape(Append(s, f))
<1>1. /\ s \in Seq(Frame) /\ Len(s) \in Nat \ {0} /\ s[1].k = "run" /\ s[1].ok /\ f \in Frame /\ f.k = "task"
      /\ s[Len(s)].k = "run" /\ s[Len(s)].ok
      /\ \A j \in 2..Len(s) : s[j].k # "task" => s[j - 1].k = "task"
      /\ \A j \in 2..Len(s) : s[j].k = "task" => s[j - 1].k = "run" /\ s[j - 1].ok
      /\ \A j \in 1..Len(s) : s[j].k = "task" /\ ~s[j].t.nestable => j = 2
  <2>1. f.k = "task" /\ f \in Frame
    BY DEF TaskFrame, Frame
  <2> QED BY <2>1, StackParts DEF Shape
<1>2. PICK r : r = Append(s, f)
  OBVIOUS
<1>3. /\ r \in Seq(Frame) /\ Len(r) = Len(s) + 1 /\ r # <<>>
      /\ \A j \in 1..Len(s) : r[j] = s[j]
      /\ r[Len(s) + 1] = f
  BY <1>1, <1>2, PushParts
<1>4. ASSUME NEW j \in 2..Len(r)
      PROVE  /\ r[j].k # "task" => r[j - 1].k = "task"
             /\ r[j].k = "task" => r[j - 1].k = "run" /\ r[j - 1].ok
  <2>1. j - 1 \in 1..Len(s) /\ r[j - 1] = s[j - 1]
    BY <1>1, <1>3
  <2>2. CASE j = Len(s) + 1
    BY <1>1, <1>3, <2>1, <2>2
  <2>3. CASE j # Len(s) + 1
    <3>1. j \in 2..Len(s) /\ r[j] = s[j]
      BY <1>1, <1>3, <2>3
    <3> QED BY <3>1, <2>1, <1>1
  <2> QED BY <2>2, <2>3
<1>5. ASSUME NEW j \in 1..Len(r), r[j].k = "task", ~r[j].t.nestable PROVE j = 2
  <2>1. CASE j = Len(s) + 1
    BY <1>3, <1>5, <2>1
  <2>2. CASE j # Len(s) + 1
    <3>1. j \in 1..Len(s) /\ r[j] = s[j]
      BY <1>1, <1>3, <2>2
    <3> QED BY <3>1, <1>1, <1>5
  <2> QED BY <2>1, <2>2
<1>6. r[1].k = "run" /\ r[1].ok
  BY <1>1, <1>3
<1> QED BY <1>2, <1>3, <1>4, <1>5, <1>6 DEF Shape

\* A task starts a run, or a loop of Qt.
LEMMA ShapeLoopPushed ==
  ASSUME NEW s, Shape(s), s # <<>>, Last(s).k = "task", NEW f \in Frame, f.k # "task"
  PROVE  Shape(Append(s, f))
<1>1. /\ s \in Seq(Frame) /\ Len(s) \in Nat \ {0} /\ s[1].k = "run" /\ s[1].ok /\ s[Len(s)].k = "task"
      /\ \A j \in 2..Len(s) : s[j].k # "task" => s[j - 1].k = "task"
      /\ \A j \in 2..Len(s) : s[j].k = "task" => s[j - 1].k = "run" /\ s[j - 1].ok
      /\ \A j \in 1..Len(s) : s[j].k = "task" /\ ~s[j].t.nestable => j = 2
  BY StackParts DEF Shape
<1>2. PICK r : r = Append(s, f)
  OBVIOUS
<1>3. /\ r \in Seq(Frame) /\ Len(r) = Len(s) + 1 /\ r # <<>>
      /\ \A j \in 1..Len(s) : r[j] = s[j]
      /\ r[Len(s) + 1] = f
  BY <1>1, <1>2, PushParts
<1>4. ASSUME NEW j \in 2..Len(r)
      PROVE  /\ r[j].k # "task" => r[j - 1].k = "task"
             /\ r[j].k = "task" => r[j - 1].k = "run" /\ r[j - 1].ok
  <2>1. j - 1 \in 1..Len(s) /\ r[j - 1] = s[j - 1]
    BY <1>1, <1>3
  <2>2. CASE j = Len(s) + 1
    BY <1>1, <1>3, <2>1, <2>2
  <2>3. CASE j # Len(s) + 1
    <3>1. j \in 2..Len(s) /\ r[j] = s[j]
      BY <1>1, <1>3, <2>3
    <3> QED BY <3>1, <2>1, <1>1
  <2> QED BY <2>2, <2>3
<1>5. ASSUME NEW j \in 1..Len(r), r[j].k = "task", ~r[j].t.nestable PROVE j = 2
  <2>1. j # Len(s) + 1
    BY <1>3, <1>5
  <2> QED BY <1>1, <1>3, <1>5, <2>1
<1>6. r[1].k = "run" /\ r[1].ok
  BY <1>1, <1>3
<1> QED BY <1>2, <1>3, <1>4, <1>5, <1>6 DEF Shape

\* The innermost frame is left.
LEMMA ShapePopped ==
  ASSUME NEW s, Shape(s), s # <<>>
  PROVE  Shape(Front(s))
<1>1. /\ s \in Seq(Frame) /\ Len(s) \in Nat \ {0} /\ s[1].k = "run" /\ s[1].ok
      /\ \A j \in 2..Len(s) : s[j].k # "task" => s[j - 1].k = "task"
      /\ \A j \in 2..Len(s) : s[j].k = "task" => s[j - 1].k = "run" /\ s[j - 1].ok
      /\ \A j \in 1..Len(s) : s[j].k = "task" /\ ~s[j].t.nestable => j = 2
  BY StackParts DEF Shape
<1>2. PICK r : r = Front(s)
  OBVIOUS
<1>3. r \in Seq(Frame) /\ Len(r) = Len(s) - 1 /\ \A i \in 1..(Len(s) - 1) : r[i] = s[i]
  BY <1>1, <1>2, StackParts
<1>4. \A j \in 2..Len(r) : j \in 2..Len(s) /\ r[j] = s[j] /\ r[j - 1] = s[j - 1]
  BY <1>1, <1>3
<1>5. \A j \in 1..Len(r) : j \in 1..Len(s) /\ r[j] = s[j]
  BY <1>1, <1>3
<1>6. r # <<>> => r[1].k = "run" /\ r[1].ok
  BY <1>1, <1>3, <1>5
<1> QED BY <1>1, <1>2, <1>3, <1>4, <1>5, <1>6 DEF Shape

\* How many runs there are.
LEMMA DepthOne ==
  ASSUME NEW s, Shape(s), s # <<>>
  PROVE  /\ Len(s) = 1 => Depth(s) = 1
         /\ Last(s).k = "run" /\ Depth(s) = 1 => Len(s) = 1
<1>1. /\ Len(s) \in Nat \ {0} /\ DOMAIN s = 1..Len(s) /\ s[1].k = "run" /\ s[1].ok /\ Last(s) = s[Len(s)]
  BY StackParts DEF Shape
<1>2. PICK R : R = {i \in DOMAIN s : s[i].k = "run"}
  OBVIOUS
<1>3. Depth(s) = Cardinality(R)
  BY <1>2 DEF Depth
<1>4. IsFiniteSet(R)
  <2>1. IsFiniteSet(1..Len(s)) /\ R \subseteq 1..Len(s)
    BY <1>1, <1>2, FS_Interval
  <2> QED BY <2>1, FS_Subset
<1>5. ASSUME Len(s) = 1 PROVE Depth(s) = 1
  <2>1. R = {1}
    BY <1>1, <1>2, <1>5
  <2> QED BY <2>1, <1>3, FS_Singleton
<1>6. ASSUME Last(s).k = "run", Depth(s) = 1 PROVE Len(s) = 1
  <2>1. \E x : R = {x}
    BY <1>3, <1>4, <1>6, FS_Singleton
  <2>2. 1 \in R /\ Len(s) \in R
    BY <1>1, <1>2, <1>6
  <2> QED BY <2>1, <2>2
<1> QED BY <1>5, <1>6

\* A task that may not nest is under one run only.
LEMMA NonNestableUnderOne ==
  ASSUME Shape(stack)
  PROVE  NonNestableOutermost
<1> SUFFICES ASSUME NEW i \in DOMAIN stack, stack[i].k = "task", ~stack[i].t.nestable
             PROVE  Depth(SubSeq(stack, 1, i)) = 1
  BY DEF NonNestableOutermost
<1>1. stack \in Seq(Frame) /\ i = 2 /\ stack # <<>> /\ stack[1].k = "run" /\ Len(stack) \in Nat /\ 2 <= Len(stack)
  <2>1. stack \in Seq(Frame) /\ Len(stack) \in Nat /\ DOMAIN stack = 1..Len(stack)
    BY DEF Shape
  <2>2. i \in 1..Len(stack) /\ stack # <<>>
    BY <2>1
  <2>3. i = 2 /\ stack[1].k = "run"
    BY <2>2 DEF Shape
  <2> QED BY <2>1, <2>2, <2>3
<1>2. PICK s : s = SubSeq(stack, 1, 2)
  OBVIOUS
<1>3. s \in Seq(Frame) /\ Len(s) = 2 /\ DOMAIN s = 1..2 /\ s[1] = stack[1] /\ s[2] = stack[2]
  BY <1>1, <1>2
<1>4. {j \in DOMAIN s : s[j].k = "run"} = {1}
  BY <1>1, <1>3
<1>5. Depth(s) = 1
  BY <1>4, FS_Singleton DEF Depth
<1> QED BY <1>1, <1>2, <1>5

\* The run that has called the innermost task.
LEMMA InnermostBelow ==
  ASSUME NEW s, Shape(s), s # <<>>, Last(s).k = "task"
  PROVE  /\ Innermost(s) = Len(s) - 1 /\ Len(s) - 1 \in 1..Len(s) /\ Len(s) >= 2
         /\ s[Len(s) - 1].k = "run" /\ s[Len(s) - 1] \in RunFrame /\ s[Len(s) - 1].ok
<1>1. /\ Len(s) \in Nat \ {0} /\ DOMAIN s = 1..Len(s) /\ s[1].k = "run" /\ s[1].ok /\ s[Len(s)].k = "task"
      /\ \A i \in 1..Len(s) : s[i] \in Frame
  BY StackParts DEF Shape
<1>2. Len(s) # 1
  BY <1>1
<1>3. Len(s) - 1 \in 1..Len(s) /\ Len(s) \in 2..Len(s)
  BY <1>1, <1>2
<1>4. s[Len(s) - 1].k = "run" /\ s[Len(s) - 1].ok
  BY <1>1, <1>3 DEF Shape
<1>5. s[Len(s) - 1] \in RunFrame
  BY <1>1, <1>3, <1>4, FrameKinds
<1>6. ASSUME NEW i \in DOMAIN s
      PROVE  (s[i].k = "run" /\ \A j \in DOMAIN s : s[j].k = "run" => j <= i) <=> i = Len(s) - 1
  <2>1. s[i].k = "run" => i # Len(s)
    BY <1>1
  <2>2. i # Len(s) => i <= Len(s) - 1
    BY <1>1
  <2>3. \A j \in DOMAIN s : s[j].k = "run" => j <= Len(s) - 1
    BY <1>1
  <2> QED BY <2>1, <2>2, <2>3, <1>1, <1>3, <1>4
<1>7. Innermost(s) = Len(s) - 1
  BY <1>1, <1>3, <1>6 DEF Innermost
<1> QED BY <1>3, <1>4, <1>5, <1>7

-----------------------------------------------------------------------------
(***************************************************************************)
(* What happens to a good stack.                                           *)
(***************************************************************************)
\* The innermost run, if it does not end for being idle, is the only one that might have.
LEMMA NobodyEnds ==
  ASSUME NEW s, NEW n, NEW p, NEW k, StackGood(s, n, p, k), s # <<>>,
         Last(s).k = "run" => ~Last(s).idle
  PROVE  NoneEnds(s)
<1>1. Last(s) = s[Len(s)]
  BY DEF Last
<1> QED BY <1>1 DEF StackGood, EndsLast, NoneEnds

\* Where no run ends, the flags of the pump do not matter.
LEMMA NoneEndsGood ==
  ASSUME NEW s, NEW p, NEW k, NoneEnds(s)
  PROVE  EndsLast(s, p, k)
BY DEF NoneEnds, EndsLast

\* A run is changed that goes on.
LEMMA GoodChanged ==
  ASSUME NEW s, NEW n, NEW p, NEW k, NEW m, StackGood(s, n, p, k), NoneEnds(s),
         NEW i \in 1..Len(s), s[i].k = "run",
         NEW f \in RunFrame, f.ok = s[i].ok, RunGood(f, n, p), ~f.idle
  PROVE  StackGood([s EXCEPT ![i] = f], n, p, m)
<1>1. PICK r : r = [s EXCEPT ![i] = f]
  OBVIOUS
<1>2. /\ Shape(r) /\ Len(r) = Len(s)
      /\ \A j \in 1..Len(s) : r[j] = IF j = i THEN f ELSE s[j]
  <2>1. Shape(s)
    BY DEF StackGood
  <2>2. /\ Shape([s EXCEPT ![i] = f]) /\ Len([s EXCEPT ![i] = f]) = Len(s)
        /\ \A j \in 1..Len(s) : [s EXCEPT ![i] = f][j] = IF j = i THEN f ELSE s[j]
    BY <2>1, ShapeChanged
  <2> QED BY <1>1, <2>2
<1>3. RunsGood(r, n, p)
  BY <1>2 DEF StackGood, RunsGood
<1>4. NoneEnds(r)
  BY <1>2 DEF NoneEnds
<1> QED BY <1>1, <1>2, <1>3, <1>4, NoneEndsGood DEF StackGood

\* The innermost run goes on.
LEMMA GoodReplaced ==
  ASSUME NEW s, NEW n, NEW p, NEW k, NEW m, StackGood(s, n, p, k), s # <<>>, NoneEnds(s),
         Last(s).k = "run",
         NEW f \in RunFrame, f.ok = Last(s).ok, RunGood(f, n, p), ~f.idle
  PROVE  StackGood(Append(Front(s), f), n, p, m) /\ NoneEnds(Append(Front(s), f))
<1>1. s \in Seq(Frame) /\ Len(s) \in 1..Len(s) /\ s[Len(s)].k = "run" /\ f.ok = s[Len(s)].ok /\ f \in Frame
  <2>1. s \in Seq(Frame) /\ f \in Frame
    BY DEF StackGood, Shape, Frame
  <2>2. Len(s) \in Nat \ {0} /\ Last(s) = s[Len(s)]
    BY <2>1, StackParts
  <2> QED BY <2>1, <2>2
<1>2. Append(Front(s), f) = [s EXCEPT ![Len(s)] = f]
  BY <1>1, ReplaceParts
<1>3. StackGood([s EXCEPT ![Len(s)] = f], n, p, m)
  BY <1>1, GoodChanged
<1>4. NoneEnds([s EXCEPT ![Len(s)] = f])
  BY <1>1, ShapeChanged DEF StackGood, NoneEnds
<1> QED BY <1>2, <1>3, <1>4

\* The innermost run calls a task.
LEMMA GoodTaskPushed ==
  ASSUME NEW s, NEW n, NEW p, NEW k, NEW m, StackGood(s, n, p, k), s # <<>>, NoneEnds(s),
         Last(s).k = "run", Last(s).ok,
         NEW f \in TaskFrame, f.t.nestable \/ Len(s) = 1
  PROVE  StackGood(Append(s, f), n, p, m)
<1>1. s \in Seq(Frame) /\ f \in Frame /\ f.k = "task"
  BY DEF StackGood, Shape, Frame, TaskFrame
<1>2. PICK r : r = Append(s, f)
  OBVIOUS
<1>3. /\ Len(r) = Len(s) + 1 /\ Len(s) \in Nat
      /\ \A i \in 1..Len(s) : r[i] = s[i]
      /\ r[Len(s) + 1].k # "run"
  BY <1>1, <1>2, PushParts
<1>4. \A i \in 1..Len(r) : r[i].k = "run" => i \in 1..Len(s) /\ r[i] = s[i]
  BY <1>3
<1>5. Shape(r)
  BY <1>2, ShapeTaskPushed DEF StackGood
<1>6. RunsGood(r, n, p)
  BY <1>4 DEF StackGood, RunsGood
<1>7. NoneEnds(r)
  BY <1>4 DEF NoneEnds
<1> QED BY <1>2, <1>5, <1>6, <1>7, NoneEndsGood DEF StackGood

\* A task starts a run or a loop of Qt.
LEMMA GoodLoopPushed ==
  ASSUME NEW s, NEW n, NEW p, NEW k, StackGood(s, n, p, k), s # <<>>, Last(s).k = "task",
         NEW f \in Frame, f.k # "task", f.k = "run" => RunGood(f, n, p) /\ ~f.idle
  PROVE  StackGood(Append(s, f), n, p, k)
<1>1. s \in Seq(Frame) /\ NoneEnds(s)
  BY NobodyEnds DEF StackGood, Shape
<1>2. PICK r : r = Append(s, f)
  OBVIOUS
<1>3. /\ Len(r) = Len(s) + 1 /\ Len(s) \in Nat
      /\ \A i \in 1..Len(s) : r[i] = s[i]
      /\ r[Len(s) + 1] = f
  BY <1>1, <1>2, PushParts
<1>4. ASSUME NEW i \in 1..Len(r)
      PROVE  (i \in 1..Len(s) /\ r[i] = s[i]) \/ (i = Len(s) + 1 /\ r[i] = f)
  <2>1. i \in 1..Len(s) \/ i = Len(s) + 1
    BY <1>3
  <2> QED BY <2>1, <1>3
<1>5. Shape(r)
  BY <1>2, ShapeLoopPushed DEF StackGood
<1>6. RunsGood(r, n, p)
  BY <1>4 DEF StackGood, RunsGood
<1>7. NoneEnds(r)
  BY <1>1, <1>4 DEF NoneEnds
<1> QED BY <1>2, <1>5, <1>6, <1>7, NoneEndsGood DEF StackGood

\* The innermost frame is left.
LEMMA GoodPopped ==
  ASSUME NEW s, NEW n, NEW p, NEW k, NEW m, StackGood(s, n, p, k), s # <<>>
  PROVE  StackGood(Front(s), n, p, m) /\ NoneEnds(Front(s))
<1>1. s \in Seq(Frame) /\ Len(s) \in Nat \ {0}
  BY StackParts DEF StackGood, Shape
<1>2. PICK r : r = Front(s)
  OBVIOUS
<1>3. Len(r) = Len(s) - 1 /\ \A i \in 1..(Len(s) - 1) : r[i] = s[i]
  BY <1>1, <1>2, StackParts
<1>4. \A i \in 1..Len(r) : i \in 1..Len(s) /\ i # Len(s) /\ r[i] = s[i]
  BY <1>1, <1>3
<1>5. Shape(r)
  BY <1>2, ShapePopped DEF StackGood
<1>6. RunsGood(r, n, p)
  BY <1>4 DEF StackGood, RunsGood
<1>7. NoneEnds(r)
  BY <1>4 DEF StackGood, EndsLast, NoneEnds
<1> QED BY <1>2, <1>5, <1>6, <1>7, NoneEndsGood DEF StackGood

-----------------------------------------------------------------------------
(***************************************************************************)
(* The inductive invariant.                                                *)
(***************************************************************************)
Types ==
  /\ loop \in Loops /\ allowed \in BOOLEAN /\ keep \in BOOLEAN /\ event \in BOOLEAN
  /\ toSignal \in Nat /\ now \in Nat /\ recent \in 0..now /\ wakeAt \in Nat /\ timer \in Nat

StackOK == StackGood(stack, posted, Pump, keep)

IInv == Types /\ TasksOK /\ StackOK /\ AllowedByTop /\ NothingWasLeft

\* The flags and the place of a run change.
LEMMA RunChanged ==
  ASSUME NEW f \in RunFrame, NEW pc \in {"sleep", "work", "delayed", "idle"}, NEW did \in BOOLEAN
  PROVE  /\ [f EXCEPT !.pc = pc, !.did = did] \in RunFrame
         /\ [f EXCEPT !.pc = pc, !.did = did].k = "run"
         /\ [f EXCEPT !.pc = pc, !.did = did].pc = pc
         /\ [f EXCEPT !.pc = pc, !.did = did].did = did
         /\ [f EXCEPT !.pc = pc, !.did = did].ok = f.ok
         /\ [f EXCEPT !.pc = pc, !.did = did].owes = f.owes
         /\ [f EXCEPT !.pc = pc, !.did = did].idle = f.idle
BY DEF RunFrame

\* Only its place changes.
LEMMA RunMoved ==
  ASSUME NEW f \in RunFrame, NEW pc \in {"sleep", "work", "delayed", "idle"}
  PROVE  /\ [f EXCEPT !.pc = pc] \in RunFrame
         /\ [f EXCEPT !.pc = pc].k = "run"
         /\ [f EXCEPT !.pc = pc].pc = pc
         /\ [f EXCEPT !.pc = pc].did = f.did
         /\ [f EXCEPT !.pc = pc].ok = f.ok
         /\ [f EXCEPT !.pc = pc].owes = f.owes
         /\ [f EXCEPT !.pc = pc].idle = f.idle
BY DEF RunFrame

\* Where a run goes after DoDelayedWork.
LEMMA AfterDelayedParts ==
  ASSUME NEW f \in RunFrame
  PROVE  /\ AfterDelayed(f) \in RunFrame /\ AfterDelayed(f).k = "run"
         /\ AfterDelayed(f).pc = IF ~f.did THEN "idle" ELSE IF Pump = "qt" THEN "sleep" ELSE "work"
         /\ AfterDelayed(f).did <=> f.did /\ Pump = "qt"
         /\ AfterDelayed(f).ok = f.ok /\ AfterDelayed(f).owes = f.owes /\ AfterDelayed(f).idle = f.idle
<1>1. PICK pc \in {"sleep", "work", "delayed", "idle"} :
        pc = IF ~f.did THEN "idle" ELSE IF Pump = "qt" THEN "sleep" ELSE "work"
  OBVIOUS
<1>2. PICK did \in BOOLEAN : did = (f.did /\ Pump = "qt")
  BY DEF RunFrame
<1>3. AfterDelayed(f) = [f EXCEPT !.pc = pc, !.did = did]
  BY <1>1, <1>2 DEF AfterDelayed
<1>4. PICK g : g = [f EXCEPT !.pc = pc, !.did = did]
  OBVIOUS
<1>5. /\ g \in RunFrame /\ g.k = "run" /\ g.pc = pc /\ g.did = did /\ g.ok = f.ok /\ g.owes = f.owes
      /\ g.idle = f.idle
  BY <1>4 DEF RunFrame
<1> QED BY <1>1, <1>2, <1>3, <1>4, <1>5

\* Where a run goes after DoIdleWork.
LEMMA AfterIdleParts ==
  ASSUME NEW f \in RunFrame, NEW did \in BOOLEAN
  PROVE  /\ AfterIdle(f, did) \in RunFrame /\ AfterIdle(f, did).k = "run"
         /\ AfterIdle(f, did).pc = IF did /\ Pump = "default" THEN "work" ELSE "sleep"
         /\ AfterIdle(f, did).did = did
         /\ AfterIdle(f, did).ok = f.ok /\ AfterIdle(f, did).owes = f.owes /\ AfterIdle(f, did).idle = f.idle
<1>1. PICK pc \in {"sleep", "work", "delayed", "idle"} : pc = IF did /\ Pump = "default" THEN "work" ELSE "sleep"
  OBVIOUS
<1>2. AfterIdle(f, did) = [f EXCEPT !.pc = pc, !.did = did]
  BY <1>1 DEF AfterIdle
<1>3. PICK g : g = [f EXCEPT !.pc = pc, !.did = did]
  OBVIOUS
<1>4. /\ g \in RunFrame /\ g.k = "run" /\ g.pc = pc /\ g.did = did /\ g.ok = f.ok /\ g.owes = f.owes
      /\ g.idle = f.idle
  BY <1>3 DEF RunFrame
<1> QED BY <1>1, <1>2, <1>3, <1>4

\* The innermost frame.
LEMMA TopFacts ==
  ASSUME IInv, stack # <<>>
  PROVE  /\ stack \in Seq(Frame) /\ Len(stack) \in Nat \ {0} /\ Top = stack[Len(stack)]
         /\ Len(stack) \in 1..Len(stack) /\ DOMAIN stack = 1..Len(stack)
         /\ Shape(stack) /\ Top \in Frame
         /\ Top.k = "run" => Top \in RunFrame /\ RunGood(Top, posted, Pump) /\ Top.ok = allowed
         /\ Top.k = "task" => Top \in TaskFrame /\ ~allowed
         /\ Top.k = "native" => ~allowed
<1>1. stack \in Seq(Frame) /\ Shape(stack)
  BY DEF IInv, StackOK, StackGood, Shape
<1>2. /\ Len(stack) \in Nat \ {0} /\ Top = stack[Len(stack)] /\ DOMAIN stack = 1..Len(stack)
      /\ Top \in Frame /\ Len(stack) \in 1..Len(stack)
  BY <1>1, StackParts DEF Top
<1>3. Top.k = "run" => Top \in RunFrame /\ RunGood(Top, posted, Pump) /\ Top.ok = allowed
  <2>1. Top.k = "run" => RunGood(Top, posted, Pump)
    BY <1>2 DEF IInv, StackOK, StackGood, RunsGood
  <2>2. Top.k = "run" => Top.ok = allowed
    BY DEF IInv, AllowedByTop, TopIs
  <2> QED BY <2>1, <2>2, <1>2, FrameKinds
<1>4. Top.k = "task" => Top \in TaskFrame /\ ~allowed
  BY <1>2, FrameKinds DEF IInv, AllowedByTop, TopIs
<1>5. Top.k = "native" => ~allowed
  BY DEF IInv, AllowedByTop, TopIs
<1> QED BY <1>1, <1>2, <1>3, <1>4, <1>5

\* A run that goes on does not end for being idle.
LEMMA AtFacts ==
  ASSUME IInv, NEW pc, At(pc)
  PROVE  /\ stack # <<>> /\ TopIs("run") /\ Top = Last(stack) /\ Top.k = "run" /\ Top.pc = pc
         /\ Top \in RunFrame /\ RunGood(Top, posted, Pump) /\ Top.ok = allowed
         /\ ~Top.idle /\ NoneEnds(stack) /\ StackGood(stack, posted, Pump, keep)
<1>1. /\ stack # <<>> /\ TopIs("run") /\ Top = Last(stack) /\ Top.k = "run" /\ Top.pc = pc
      /\ Stopping(Top) => Pump = "qt" /\ pc = "work"
  BY DEF At, TopIs, Top
<1>2. /\ Top \in RunFrame /\ RunGood(Top, posted, Pump) /\ Top.ok = allowed
      /\ Len(stack) \in 1..Len(stack) /\ Top = stack[Len(stack)]
  BY <1>1, TopFacts
<1>3. StackGood(stack, posted, Pump, keep)
  BY DEF IInv, StackOK
<1>4. ~Top.idle
  <2> SUFFICES ASSUME Top.idle PROVE FALSE
    OBVIOUS
  <2>1. Top.pc = "idle" /\ (IF Pump = "qt" THEN Top.stop ELSE ~keep)
    BY <1>1, <1>2, <1>3 DEF StackGood, EndsLast
  <2>2. Stopping(Top)
    BY <2>1 DEF Stopping
  <2> QED BY <2>1, <2>2, <1>1
<1>5. NoneEnds(stack)
  BY <1>1, <1>3, <1>4, NobodyEnds
<1> QED BY <1>1, <1>2, <1>3, <1>4, <1>5

\* A task at the head of a queue is called by the innermost run.
LEMMA RunTaskGood ==
  ASSUME IInv, NEW pc, At(pc), allowed,
         NEW t \in Task, NEW from \in {"work", "delayed", "idle", "timeout"},
         t.nestable \/ Depth(stack) = 1,
         RunTask(t, from), UNCHANGED <<posted, loop>>
  PROVE  StackOK' /\ AllowedByTop' /\ NothingWasLeft' /\ ran' = Append(ran, t.id)
         /\ Len(stack') > Len(stack) /\ allowed' \in BOOLEAN
<1>1. /\ stack # <<>> /\ Last(stack).k = "run" /\ Last(stack).ok /\ NoneEnds(stack)
      /\ StackGood(stack, posted, Pump, keep) /\ stack \in Seq(Frame)
  BY AtFacts, TopFacts
<1>2. PICK f : f = RunningTask(t, from)
  OBVIOUS
<1>3. f \in TaskFrame /\ f.k = "task" /\ f.t = t /\ f \in Frame
  BY <1>2 DEF RunningTask, TaskFrame, Frame
<1>4. stack' = Append(stack, f) /\ allowed' = FALSE /\ ran' = Append(ran, t.id)
  BY <1>2 DEF RunTask
<1>5. t.nestable \/ Len(stack) = 1
  BY <1>1, DepthOne DEF StackGood
<1>6. StackGood(Append(stack, f), posted, Pump, keep')
  BY <1>1, <1>3, <1>5, GoodTaskPushed
<1>7. StackOK'
  BY <1>4, <1>6 DEF StackOK, Pump
<1>8. /\ stack' # <<>> /\ Last(stack') = f /\ Len(stack') > Len(stack)
  BY <1>1, <1>3, <1>4, PushParts
<1>9. AllowedByTop' /\ NothingWasLeft'
  BY <1>3, <1>4, <1>8 DEF AllowedByTop, NothingWasLeft, FoundNothing, TopIs, Top
<1> QED BY <1>4, <1>7, <1>8, <1>9

\* The innermost run goes on in another place.
LEMMA ReplaceGood ==
  ASSUME IInv, NEW pc, At(pc), NEW f \in RunFrame, f.k = "run",
         f.ok = Top.ok, RunGood(f, posted, Pump), ~f.idle,
         stack' = With(f), UNCHANGED <<allowed, posted, loop>>
  PROVE  /\ StackOK' /\ AllowedByTop' /\ stack' # <<>> /\ Top' = f
         /\ Depth(stack') = 1 => Depth(stack) = 1
<1>1. /\ stack # <<>> /\ Last(stack).k = "run" /\ NoneEnds(stack) /\ Top = Last(stack) /\ Top.ok = allowed
      /\ StackGood(stack, posted, Pump, keep) /\ stack \in Seq(Frame) /\ f \in Frame
  BY AtFacts, TopFacts DEF Frame
<1>2. StackGood(Append(Front(stack), f), posted, Pump, keep')
  BY <1>1, GoodReplaced
<1>3. /\ stack' = Append(Front(stack), f) /\ stack' # <<>> /\ Last(stack') = f /\ Len(stack') = Len(stack)
  BY <1>1, ReplaceParts DEF With
<1>4. StackOK'
  BY <1>2, <1>3 DEF StackOK, Pump
<1>5. AllowedByTop'
  BY <1>1, <1>3 DEF AllowedByTop, TopIs, Top
<1>6. Depth(stack') = 1 => Depth(stack) = 1
  <2>1. Shape(stack') /\ Shape(stack)
    BY <1>1, <1>2, <1>3 DEF StackGood
  <2>2. Depth(stack') = 1 => Len(stack') = 1
    BY <1>3, <2>1, DepthOne
  <2> QED BY <1>1, <1>3, <2>1, <2>2, DepthOne
<1> QED BY <1>3, <1>4, <1>5, <1>6 DEF Top

-----------------------------------------------------------------------------
(***************************************************************************)
(* Each action keeps the invariant.  First those that leave the stack      *)
(* alone: tasks are posted, time passes.                                   *)
(***************************************************************************)
\* The stack does not change while tasks are posted.
LEMMA SameStack ==
  ASSUME IInv, UNCHANGED <<stack, allowed, keep, loop>>, posted' \in Nat, posted' >= posted
  PROVE  /\ StackOK' /\ AllowedByTop' /\ (FoundNothing' <=> FoundNothing)
         /\ Top' = Top /\ Depth(stack') = Depth(stack)
<1>1. StackGood(stack, posted, Pump, keep) /\ posted \in Nat
  BY DEF IInv, StackOK, TasksOK, QueuesOK
<1>2. 1..posted \subseteq 1..posted'
  BY <1>1
<1>3. RunsGood(stack, posted', Pump)
  BY <1>1, <1>2 DEF StackGood, RunsGood, RunGood
<1>4. StackGood(stack, posted', Pump, keep)
  BY <1>1, <1>3 DEF StackGood
<1>5. StackOK'
  BY <1>4 DEF StackOK, Pump
<1>6. AllowedByTop' /\ (FoundNothing' <=> FoundNothing) /\ Top' = Top
  BY DEF IInv, AllowedByTop, FoundNothing, TopIs, Top
<1> QED BY <1>5, <1>6

\* A task is posted, and whoever finds the queue empty wakes the thread.
LEMMA PendsKeeps ==
  ASSUME IInv, NEW delay \in Delays, NEW nestable \in BOOLEAN, Pends(delay, nestable),
         UNCHANGED <<work, delayed, deferred, allowed, clocks, stack, keep, now, ran, loop>>,
         event' \in BOOLEAN, toSignal' \in Nat,
         incoming = <<>> \/ event \/ toSignal > 0 => event' \/ toSignal' > 0
  PROVE  IInv'
<1>1. PICK t : t = [id |-> posted + 1, nestable |-> nestable, at |-> IF delay > 0 THEN now + delay ELSE 0]
  OBVIOUS
<1>2. /\ incoming' = Append(incoming, t) /\ posted' = posted + 1 /\ posted < MaxPosts
      /\ t.id = posted + 1
  BY <1>1 DEF Pends
<1>3. QueuesOK(incoming, work, delayed, deferred, ran, posted) /\ posted \in Nat
  BY DEF IInv, TasksOK, QueuesOK
<1>4. t \in Task
  <2>1. delay \in Nat /\ now \in Nat /\ MaxPosts \in Nat
    BY LoopAssumption DEF IInv, Types
  <2>2. posted + 1 \in 1..MaxPosts
    BY <2>1, <1>2, <1>3
  <2> QED BY <2>1, <2>2, <1>1 DEF Task
<1>5. TasksOK'
  <2>1. QueuesOK(Append(incoming, t), work, delayed, deferred, ran, posted + 1)
    BY <1>2, <1>3, <1>4, MovePosted
  <2> QED BY <2>1, <1>2 DEF TasksOK
<1>6. /\ StackOK' /\ AllowedByTop' /\ (FoundNothing' <=> FoundNothing)
      /\ Top' = Top /\ Depth(stack') = Depth(stack)
  BY <1>2, <1>3, SameStack
<1>7. Types'
  BY DEF IInv, Types, clocks
<1>8. NothingWasLeft'
  <2> SUFFICES ASSUME FoundNothing'
               PROVE  /\ work' = <<>>
                      /\ incoming' # <<>> => event' \/ toSignal' > 0
                      /\ Top'.owes \cap Ids(incoming') = {}
                      /\ (Top'.pc = "sleep" \/ Top'.idle) /\ Depth(stack') = 1 => deferred' = <<>>
                      /\ Pump' = "default" /\ Top'.pc # "delayed" /\ delayed' # <<>> => wakeAt' = Head(delayed').at
    BY DEF NothingWasLeft, Ids, Depth, Pump
  <2>1. FoundNothing /\ NothingWasLeft
    BY <1>6 DEF IInv
  <2>2. Top.owes \subseteq 1..posted
    <3>1. stack # <<>> /\ Top.k = "run"
      BY <2>1 DEF FoundNothing, TopIs
    <3> QED BY <3>1, TopFacts DEF RunGood
  <2>3. Ids(incoming') = Ids(incoming) \cup {posted + 1}
    <3>1. incoming \in Seq(Task)
      BY <1>3 DEF QueuesOK
    <3> QED BY <3>1, <1>2, <1>4, IdsAppend
  <2>4. Top.owes \cap Ids(incoming') = {}
    <3>1. posted + 1 \notin 1..posted
      BY <1>3
    <3> QED BY <3>1, <2>1, <2>2, <2>3 DEF NothingWasLeft
  <2>5. event' \/ toSignal' > 0
    BY <2>1 DEF NothingWasLeft
  <2> QED BY <2>1, <2>4, <2>5, <1>6 DEF NothingWasLeft, Pump, clocks
<1> QED BY <1>5, <1>6, <1>7, <1>8 DEF IInv

\* PostTask, from another thread.
LEMMA PostTaskKeeps ==
  ASSUME IInv, NEW delay \in Delays, NEW nestable \in BOOLEAN, PostTask(delay, nestable), UNCHANGED loop
  PROVE  IInv'
<1>1. toSignal \in Nat /\ event \in BOOLEAN
  BY DEF IInv, Types
<1>2. event' = event /\ toSignal' = IF incoming = <<>> THEN toSignal + 1 ELSE toSignal
  BY DEF PostTask
<1>3. event' \in BOOLEAN
  BY <1>1, <1>2
<1>4. toSignal' \in Nat /\ (incoming = <<>> => toSignal' > 0) /\ (toSignal > 0 => toSignal' > 0)
  BY <1>1, <1>2
<1>5. incoming = <<>> \/ event \/ toSignal > 0 => event' \/ toSignal' > 0
  BY <1>2, <1>4
<1>6. /\ Pends(delay, nestable)
      /\ UNCHANGED <<work, delayed, deferred, allowed, clocks, stack, keep, now, ran, loop>>
  BY DEF PostTask
<1> QED BY <1>3, <1>4, <1>5, <1>6, PendsKeeps

\* PostTask, from a task of the thread itself.
LEMMA PostTaskHereKeeps ==
  ASSUME IInv, NEW delay \in Delays, NEW nestable \in BOOLEAN, PostTaskHere(delay, nestable), UNCHANGED loop
  PROVE  IInv'
<1>1. toSignal \in Nat /\ event \in BOOLEAN
  BY DEF IInv, Types
<1>2. event' = (event \/ incoming = <<>>) /\ toSignal' = toSignal
  BY DEF PostTaskHere
<1>3. event' \in BOOLEAN /\ toSignal' \in Nat
  BY <1>1, <1>2
<1>4. incoming = <<>> \/ event \/ toSignal > 0 => event' \/ toSignal' > 0
  BY <1>2
<1>5. /\ Pends(delay, nestable)
      /\ UNCHANGED <<work, delayed, deferred, allowed, clocks, stack, keep, now, ran, loop>>
  BY DEF PostTaskHere
<1> QED BY <1>3, <1>4, <1>5, PendsKeeps

\* A thread that has posted a task wakes this one.
LEMMA ScheduleWorkKeeps ==
  ASSUME IInv, ScheduleWork, UNCHANGED loop
  PROVE  IInv'
<1>1. posted' = posted /\ posted \in Nat
  BY DEF IInv, TasksOK, QueuesOK, ScheduleWork
<1>2. /\ StackOK' /\ AllowedByTop' /\ (FoundNothing' <=> FoundNothing)
      /\ Top' = Top /\ Depth(stack') = Depth(stack)
  BY <1>1, SameStack DEF ScheduleWork
<1>3. Types' /\ TasksOK'
  BY DEF ScheduleWork, IInv, Types, TasksOK, queues, clocks
<1>4. NothingWasLeft'
  BY <1>2 DEF ScheduleWork, IInv, NothingWasLeft, queues, clocks, Pump
<1> QED BY <1>2, <1>3, <1>4 DEF IInv

\* Time passes.
LEMMA TickKeeps ==
  ASSUME IInv, Tick, UNCHANGED loop
  PROVE  IInv'
<1>1. posted' = posted /\ posted \in Nat
  BY DEF IInv, TasksOK, QueuesOK, Tick
<1>2. /\ StackOK' /\ AllowedByTop' /\ (FoundNothing' <=> FoundNothing)
      /\ Top' = Top /\ Depth(stack') = Depth(stack)
  BY <1>1, SameStack DEF Tick
<1>3. Types' /\ TasksOK'
  BY DEF Tick, IInv, Types, TasksOK, queues, clocks
<1>4. NothingWasLeft'
  BY <1>2 DEF Tick, IInv, NothingWasLeft, queues, clocks, Pump
<1> QED BY <1>2, <1>3, <1>4 DEF IInv

\* The loop of a menu takes the wake-up.
LEMMA NativeWakesUpKeeps ==
  ASSUME IInv, NativeWakesUp, UNCHANGED loop
  PROVE  IInv'
<1>1. posted' = posted /\ posted \in Nat
  BY DEF IInv, TasksOK, QueuesOK, NativeWakesUp
<1>2. StackOK' /\ AllowedByTop' /\ (FoundNothing' <=> FoundNothing)
  BY <1>1, SameStack DEF NativeWakesUp
<1>3. Types' /\ TasksOK'
  BY DEF NativeWakesUp, IInv, Types, TasksOK, queues, clocks
<1>4. NothingWasLeft'
  BY <1>2 DEF NativeWakesUp, NothingWasLeft, FoundNothing, TopIs
<1> QED BY <1>2, <1>3, <1>4 DEF IInv

-----------------------------------------------------------------------------
(***************************************************************************)
(* A round of a run: DoWork.                                               *)
(***************************************************************************)
\* The incoming tasks are fetched.
LEMMA ReloadWorkQueueKeeps ==
  ASSUME IInv, ReloadWorkQueue, UNCHANGED loop
  PROVE  IInv'
<1>1. posted' = posted /\ posted \in Nat
  BY DEF IInv, TasksOK, QueuesOK, ReloadWorkQueue
<1>2. StackOK' /\ AllowedByTop' /\ (FoundNothing' <=> FoundNothing)
  BY <1>1, SameStack DEF ReloadWorkQueue
<1>3. Types'
  BY DEF ReloadWorkQueue, IInv, Types, clocks
<1>4. TasksOK'
  <2>1. QueuesOK(<<>>, incoming, delayed, deferred, ran, posted)
    BY MoveReload DEF IInv, TasksOK, ReloadWorkQueue
  <2> QED BY <2>1 DEF TasksOK, ReloadWorkQueue
<1>5. NothingWasLeft'
  BY <1>2 DEF ReloadWorkQueue, NothingWasLeft, FoundNothing, At
<1> QED BY <1>2, <1>3, <1>4, <1>5 DEF IInv

\* The greater of two times.
LEMMA MaxOfTwo ==
  ASSUME NEW a \in Nat, NEW b \in Nat
  PROVE  Max({a, b}) \in Nat /\ a <= Max({a, b}) /\ b <= Max({a, b}) /\ Max({a, b}) \in {a, b}
<1>1. \E x \in {a, b} : \A y \in {a, b} : x >= y
  <2>1. CASE a >= b
    BY <2>1
  <2>2. CASE b >= a
    BY <2>2
  <2> QED BY <2>1, <2>2
<1>2. Max({a, b}) \in {a, b} /\ \A y \in {a, b} : Max({a, b}) >= y
  BY <1>1 DEF Max
<1> QED BY <1>2

\* A task with a delay goes to the delayed ones.
LEMMA DoWorkDelayedTaskKeeps ==
  ASSUME IInv, DoWorkDelayedTask, UNCHANGED loop
  PROVE  IInv'
<1>1. posted' = posted /\ posted \in Nat
  BY DEF IInv, TasksOK, QueuesOK, DoWorkDelayedTask
<1>2. StackOK' /\ AllowedByTop' /\ (FoundNothing' <=> FoundNothing)
  BY <1>1, SameStack DEF DoWorkDelayedTask
<1>3. TasksOK'
  <2>1. QueuesOK(incoming, Tail(work), AddToDelayedWorkQueue(Head(work)), deferred, ran, posted)
    BY MoveToDelayed DEF IInv, TasksOK, DoWorkDelayedTask
  <2> QED BY <2>1 DEF TasksOK, DoWorkDelayedTask
<1>4. wakeAt' \in Nat /\ timer' \in Nat
  <2>1. work \in Seq(Task) /\ work # <<>>
    BY DEF IInv, TasksOK, QueuesOK, DoWorkDelayedTask
  <2>2. Head(work).at \in Nat
    BY <2>1, IdsTail DEF Task
  <2>3. wakeAt \in Nat /\ timer \in Nat /\ now \in Nat
    BY DEF IInv, Types
  <2>4. Max({Head(work).at, now}) \in Nat
    BY <2>2, <2>3, MaxOfTwo
  <2>5. CASE ScheduleDelayedWork(Head(work).at)
    BY <2>2, <2>3, <2>4, <2>5 DEF ScheduleDelayedWork
  <2>6. CASE UNCHANGED <<wakeAt, timer>>
    BY <2>3, <2>6
  <2> QED BY <2>5, <2>6 DEF DoWorkDelayedTask
<1>5. Types'
  BY <1>4 DEF DoWorkDelayedTask, IInv, Types
<1>6. NothingWasLeft'
  BY <1>2 DEF DoWorkDelayedTask, NothingWasLeft, FoundNothing, At
<1> QED BY <1>2, <1>3, <1>5, <1>6 DEF IInv

\* A task without a delay is run, or deferred.
LEMMA DoWorkTaskKeeps ==
  ASSUME IInv, DoWorkTask, UNCHANGED loop
  PROVE  IInv'
<1>1. /\ At("work") /\ allowed /\ work # <<>> /\ work' = Tail(work)
      /\ DeferOrRunPendingTask(Head(work), "work", stack)
      /\ UNCHANGED <<incoming, delayed, clocks, keep, event, toSignal, now, posted>>
  BY DEF DoWorkTask
<1>2. /\ QueuesOK(incoming, work, delayed, deferred, ran, posted) /\ posted \in Nat
      /\ work \in Seq(Task)
  BY DEF IInv, TasksOK, QueuesOK
<1>3. /\ QueuesOK(incoming, Tail(work), delayed, deferred, Append(ran, Head(work).id), posted)
      /\ QueuesOK(incoming, Tail(work), delayed, Append(deferred, Head(work)), ran, posted)
  BY <1>1, <1>2, MoveFromWork
<1>4. Head(work) \in Task
  BY <1>1, <1>2, IdsTail
<1>5. CASE /\ Head(work).nestable \/ Depth(stack) = 1
           /\ RunTask(Head(work), "work") /\ UNCHANGED deferred
  <2>1. StackOK' /\ AllowedByTop' /\ NothingWasLeft' /\ ran' = Append(ran, Head(work).id) /\ allowed' \in BOOLEAN
    BY <1>1, <1>4, <1>5, RunTaskGood
  <2>2. TasksOK'
    BY <1>1, <1>3, <1>5, <2>1 DEF TasksOK
  <2>3. Types'
    BY <1>1, <2>1 DEF IInv, Types, clocks
  <2> QED BY <2>1, <2>2, <2>3 DEF IInv
<1>6. CASE /\ deferred' = Append(deferred, Head(work))
           /\ stack' = stack /\ UNCHANGED <<allowed, ran>>
  <2>1. StackOK' /\ AllowedByTop' /\ (FoundNothing' <=> FoundNothing)
    BY <1>1, <1>2, <1>6, SameStack
  <2>2. TasksOK'
    BY <1>1, <1>3, <1>6 DEF TasksOK
  <2>3. Types'
    BY <1>1, <1>6 DEF IInv, Types, clocks
  <2>4. NothingWasLeft'
    BY <1>1, <2>1 DEF NothingWasLeft, FoundNothing, At
  <2> QED BY <2>1, <2>2, <2>3, <2>4 DEF IInv
<1> QED BY <1>1, <1>5, <1>6 DEF DeferOrRunPendingTask

\* There was no work.
LEMMA DoWorkNothingKeeps ==
  ASSUME IInv, DoWorkNothing, UNCHANGED loop
  PROVE  IInv'
<1>1. /\ At("work") /\ (allowed => work = <<>> /\ incoming = <<>>)
      /\ stack' = With([Top EXCEPT !.pc = "delayed"])
      /\ UNCHANGED <<queues, allowed, clocks, keep, event, toSignal, now, posted, ran>>
  BY DEF DoWorkNothing
<1>2. /\ Top \in RunFrame /\ RunGood(Top, posted, Pump) /\ ~Top.idle
  BY <1>1, AtFacts
<1>3. PICK f : f = [Top EXCEPT !.pc = "delayed"]
  OBVIOUS
<1>4. /\ f \in RunFrame /\ f.k = "run" /\ f.pc = "delayed" /\ f.ok = Top.ok /\ f.owes = Top.owes /\ ~f.idle
  BY <1>2, <1>3, RunMoved
<1>5. RunGood(f, posted, Pump)
  BY <1>2, <1>4 DEF RunGood
<1>6. StackOK' /\ AllowedByTop' /\ Top' = f
  BY <1>1, <1>3, <1>4, <1>5, ReplaceGood
<1>7. Types' /\ TasksOK'
  BY <1>1 DEF IInv, Types, TasksOK, queues, clocks
<1>8. NothingWasLeft'
  <2> SUFFICES ASSUME FoundNothing'
               PROVE  /\ work' = <<>> /\ incoming' = <<>>
                      /\ Top'.pc = "delayed" /\ ~Top'.idle
    BY EmptyQueue DEF NothingWasLeft
  <2> QED BY <1>1, <1>4, <1>6 DEF FoundNothing, queues
<1> QED BY <1>6, <1>7, <1>8 DEF IInv

-----------------------------------------------------------------------------
(***************************************************************************)
(* DoDelayedWork, in its place or because the timer of Qt has fired.       *)
(***************************************************************************)
\* The first delayed task begins, or the stack is |s| and the pump knows when to come back.
LEMMA DelayedWorkKeeps ==
  ASSUME IInv, NEW s, NEW from \in {"delayed", "timeout"}, NEW pc, At(pc) \/ TopIs("native"),
         DoDelayedWork(s, from), UNCHANGED <<incoming, work, posted, loop>>
  PROVE  /\ TasksOK' /\ recent' \in 0..now /\ wakeAt' \in Nat /\ allowed' \in BOOLEAN
         /\ \/ StackOK' /\ AllowedByTop' /\ NothingWasLeft' /\ Len(stack') > Len(stack)
            \/ /\ stack' = s /\ allowed' = allowed
               /\ allowed /\ delayed' # <<>> => wakeAt' = Head(delayed').at
<1>1. /\ QueuesOK(incoming, work, delayed, deferred, ran, posted) /\ delayed \in Seq(Task)
      /\ recent \in 0..now /\ wakeAt \in Nat /\ now \in Nat /\ allowed \in BOOLEAN
  BY DEF IInv, TasksOK, QueuesOK, Types
<1>2. CASE /\ ~allowed \/ delayed = <<>>
           /\ recent' = 0 /\ wakeAt' = 0
           /\ stack' = s
           /\ UNCHANGED <<delayed, deferred, allowed, ran>>
  BY <1>1, <1>2 DEF TasksOK
<1>3. CASE /\ allowed /\ delayed # <<>>
           /\ recent' = IF Head(delayed).at > recent THEN now ELSE recent
           /\ Head(delayed).at > recent' /\ wakeAt' = Head(delayed).at /\ stack' = s
           /\ UNCHANGED <<delayed, deferred, allowed, ran>>
  <2>1. Head(delayed).at \in Nat
    BY <1>1, <1>3, IdsTail DEF Task
  <2> QED BY <1>1, <1>3, <2>1 DEF TasksOK
<1>4. CASE /\ allowed /\ delayed # <<>>
           /\ recent' = IF Head(delayed).at > recent THEN now ELSE recent
           /\ Head(delayed).at <= recent'
           /\ delayed' = Tail(delayed)
           /\ wakeAt' = IF Tail(delayed) # <<>> THEN delayed[2].at ELSE wakeAt
           /\ DeferOrRunPendingTask(Head(delayed), from, s)
  <2>1. /\ QueuesOK(incoming, work, Tail(delayed), deferred, Append(ran, Head(delayed).id), posted)
        /\ QueuesOK(incoming, work, Tail(delayed), Append(deferred, Head(delayed)), ran, posted)
    BY <1>1, <1>4, MoveFromDelayed
  <2>2. Head(delayed) \in Task /\ Tail(delayed) \in Seq(Task)
    BY <1>1, <1>4, IdsTail
  <2>3. Tail(delayed) # <<>> => delayed[2] \in Task /\ Head(Tail(delayed)) = delayed[2]
    <3>1. /\ Len(Tail(delayed)) = Len(delayed) - 1 /\ Len(delayed) \in Nat \ {0}
          /\ \A i \in 1..(Len(delayed) - 1) : Tail(delayed)[i] = delayed[i + 1]
      BY <1>1, <1>4, IdsTail
    <3> SUFFICES ASSUME Tail(delayed) # <<>> PROVE delayed[2] \in Task /\ Head(Tail(delayed)) = delayed[2]
      OBVIOUS
    <3>2. Len(Tail(delayed)) \in Nat \ {0} /\ Head(Tail(delayed)) = Tail(delayed)[1]
      BY <2>2, IdsTail
    <3>3. 2 \in 1..Len(delayed) /\ 1 \in 1..(Len(delayed) - 1)
      BY <3>1, <3>2
    <3>4. Tail(delayed)[1] = delayed[2]
      BY <3>1, <3>3
    <3> QED BY <1>1, <3>2, <3>3, <3>4
  <2>4. recent' \in 0..now /\ wakeAt' \in Nat
    <3>1. Tail(delayed) # <<>> => delayed[2].at \in Nat
      BY <2>3 DEF Task
    <3> QED BY <1>1, <1>4, <3>1
  <2>5. At(pc)
    BY <1>4 DEF IInv, AllowedByTop
  <2>6. CASE /\ Head(delayed).nestable \/ Depth(stack) = 1
             /\ RunTask(Head(delayed), from) /\ UNCHANGED deferred
    <3>1. /\ StackOK' /\ AllowedByTop' /\ NothingWasLeft' /\ ran' = Append(ran, Head(delayed).id)
          /\ Len(stack') > Len(stack) /\ allowed' \in BOOLEAN
      BY <1>4, <2>2, <2>5, <2>6, RunTaskGood
    <3>2. TasksOK'
      BY <1>4, <2>1, <2>6, <3>1 DEF TasksOK
    <3> QED BY <2>4, <3>1, <3>2
  <2>7. CASE /\ deferred' = Append(deferred, Head(delayed))
             /\ stack' = s /\ UNCHANGED <<allowed, ran>>
    <3>1. TasksOK'
      BY <1>4, <2>1, <2>7 DEF TasksOK
    <3>2. delayed' # <<>> => wakeAt' = Head(delayed').at
      BY <1>4, <2>3
    <3> QED BY <1>1, <2>4, <2>7, <3>1, <3>2
  <2> QED BY <1>4, <2>6, <2>7 DEF DeferOrRunPendingTask
<1> QED BY <1>2, <1>3, <1>4 DEF DoDelayedWork

\* DoDelayedWork in its place.
LEMMA DoDelayedWorkStepKeeps ==
  ASSUME IInv, DoDelayedWorkStep, UNCHANGED loop
  PROVE  IInv'
<1>1. /\ At("delayed") /\ DoDelayedWork(With(AfterDelayed(Top)), "delayed")
      /\ UNCHANGED <<incoming, work, timer, keep, event, toSignal, now, posted>>
  BY DEF DoDelayedWorkStep
<1>2. /\ TasksOK' /\ recent' \in 0..now /\ wakeAt' \in Nat /\ allowed' \in BOOLEAN
      /\ \/ StackOK' /\ AllowedByTop' /\ NothingWasLeft'
         \/ /\ stack' = With(AfterDelayed(Top)) /\ allowed' = allowed
            /\ allowed /\ delayed' # <<>> => wakeAt' = Head(delayed').at
  BY <1>1, DelayedWorkKeeps
<1>3. Types'
  BY <1>1, <1>2 DEF IInv, Types
<1>4. CASE /\ stack' = With(AfterDelayed(Top)) /\ allowed' = allowed
           /\ allowed /\ delayed' # <<>> => wakeAt' = Head(delayed').at
  <2>1. /\ Top \in RunFrame /\ RunGood(Top, posted, Pump) /\ ~Top.idle /\ TopIs("run") /\ Top.pc = "delayed"
    BY <1>1, AtFacts
  <2>2. PICK f : f = AfterDelayed(Top)
    OBVIOUS
  <2>3. Top.did \in BOOLEAN
    BY <2>1 DEF RunFrame
  <2>4. /\ f \in RunFrame /\ f.k = "run" /\ f.ok = Top.ok /\ f.owes = Top.owes /\ ~f.idle
        /\ f.pc = IF ~Top.did THEN "idle" ELSE IF Pump = "qt" THEN "sleep" ELSE "work"
        /\ f.did <=> Top.did /\ Pump = "qt"
    BY <2>1, <2>2, AfterDelayedParts
  <2>5. RunGood(f, posted, Pump)
    BY <2>1, <2>3, <2>4 DEF RunGood
  <2>6. StackOK' /\ AllowedByTop' /\ Top' = f
    BY <1>1, <1>4, <2>2, <2>4, <2>5, ReplaceGood
  <2>7. NothingWasLeft'
    <3> SUFFICES ASSUME FoundNothing'
                 PROVE  /\ work' = <<>>
                        /\ incoming' # <<>> => event' \/ toSignal' > 0
                        /\ Top'.owes \cap Ids(incoming') = {}
                        /\ Top'.pc = "idle" /\ ~Top'.idle
                        /\ delayed' # <<>> => wakeAt' = Head(delayed').at
      BY DEF NothingWasLeft, Ids
    <3>1. allowed /\ ~f.did /\ f.pc # "work"
      BY <1>4, <2>6 DEF FoundNothing
    <3>2. ~Top.did /\ f.pc = "idle"
      BY <2>3, <2>4, <3>1
    <3>3. FoundNothing
      BY <2>1, <3>1, <3>2 DEF FoundNothing
    <3>4. /\ work = <<>> /\ (incoming # <<>> => event \/ toSignal > 0)
          /\ Top.owes \cap Ids(incoming) = {}
      BY <3>3 DEF IInv, NothingWasLeft
    <3> QED BY <1>1, <1>4, <2>4, <2>6, <3>1, <3>2, <3>4
  <2> QED BY <1>2, <1>3, <2>6, <2>7 DEF IInv
<1> QED BY <1>2, <1>3, <1>4 DEF IInv

\* When the timer is to fire next.
LEMMA RestartIsTime ==
  ASSUME NEW at \in Nat, now \in Nat
  PROVE  Restart(at) \in Nat
BY MaxOfTwo DEF Restart

\* The timer of the Qt pump fires.
LEMMA HandleTimeoutKeeps ==
  ASSUME IInv, HandleTimeout, UNCHANGED loop
  PROVE  IInv'
<1>1. PICK s : s = IF TopIs("native") THEN stack ELSE With([Top EXCEPT !.pc = "work", !.did = TRUE])
  OBVIOUS
<1>2. /\ At("sleep") \/ TopIs("native")
      /\ DoDelayedWork(s, "timeout")
      /\ timer' = IF Len(stack') > Len(stack) THEN 0 ELSE Restart(wakeAt')
      /\ UNCHANGED <<incoming, work, keep, event, toSignal, now, posted>>
  BY <1>1 DEF HandleTimeout
<1>3. /\ TasksOK' /\ recent' \in 0..now /\ wakeAt' \in Nat /\ allowed' \in BOOLEAN
      /\ \/ StackOK' /\ AllowedByTop' /\ NothingWasLeft'
         \/ stack' = s /\ allowed' = allowed
  BY <1>2, DelayedWorkKeeps
<1>4. timer' \in Nat
  <2>1. now \in Nat
    BY DEF IInv, Types
  <2>2. Restart(wakeAt') \in Nat
    BY <1>3, <2>1, RestartIsTime
  <2> QED BY <1>2, <2>2
<1>5. Types'
  BY <1>2, <1>3, <1>4 DEF IInv, Types
<1>6. CASE stack' = s /\ allowed' = allowed /\ TopIs("native")
  <2>1. posted' = posted /\ posted \in Nat /\ stack' = stack
    BY <1>1, <1>2, <1>6 DEF IInv, TasksOK, QueuesOK
  <2>2. StackOK' /\ AllowedByTop' /\ (FoundNothing' <=> FoundNothing)
    BY <1>2, <1>6, <2>1, SameStack
  <2>3. NothingWasLeft'
    BY <1>6, <2>2 DEF NothingWasLeft, FoundNothing, TopIs
  <2> QED BY <1>3, <1>5, <2>2, <2>3 DEF IInv
<1>7. CASE stack' = s /\ allowed' = allowed /\ ~TopIs("native")
  <2>1. At("sleep")
    BY <1>2, <1>7
  <2>2. /\ Top \in RunFrame /\ RunGood(Top, posted, Pump) /\ ~Top.idle
    BY <2>1, AtFacts
  <2>3. PICK f : f = [Top EXCEPT !.pc = "work", !.did = TRUE]
    OBVIOUS
  <2>4. /\ f \in RunFrame /\ f.k = "run" /\ f.ok = Top.ok /\ f.owes = Top.owes /\ ~f.idle
        /\ f.pc = "work" /\ f.did
    BY <2>2, <2>3, RunChanged
  <2>5. RunGood(f, posted, Pump)
    BY <2>2, <2>4 DEF RunGood
  <2>6. StackOK' /\ AllowedByTop' /\ Top' = f
    BY <1>1, <1>2, <1>7, <2>1, <2>3, <2>4, <2>5, ReplaceGood
  <2>7. NothingWasLeft'
    BY <2>4, <2>6 DEF NothingWasLeft, FoundNothing
  <2> QED BY <1>3, <1>5, <2>6, <2>7 DEF IInv
<1> QED BY <1>3, <1>5, <1>6, <1>7 DEF IInv

-----------------------------------------------------------------------------
(***************************************************************************)
(* DoIdleWork, and waiting for work.                                       *)
(***************************************************************************)
\* The outermost run may call tasks.
LEMMA OutermostAllowed ==
  ASSUME IInv, NEW pc, At(pc), Depth(stack) = 1
  PROVE  allowed
<1>1. Shape(stack) /\ stack # <<>> /\ Last(stack).k = "run" /\ Top.ok = allowed /\ Top = stack[Len(stack)]
  BY AtFacts, TopFacts
<1>2. Len(stack) = 1
  BY <1>1, DepthOne
<1> QED BY <1>1, <1>2 DEF Shape

\* The innermost run ends for being idle.
LEMMA GoodEnds ==
  ASSUME NEW s, NEW n, NEW p, NEW k, NEW m, StackGood(s, n, p, k), s # <<>>, NoneEnds(s),
         Last(s).k = "run",
         NEW f \in RunFrame, f.ok = Last(s).ok, RunGood(f, n, p),
         f.pc = "idle", IF p = "qt" THEN f.stop ELSE ~m
  PROVE  StackGood([s EXCEPT ![Len(s)] = f], n, p, m)
<1>1. s \in Seq(Frame) /\ Shape(s) /\ Len(s) \in 1..Len(s) /\ s[Len(s)].k = "run" /\ f.ok = s[Len(s)].ok
  <2>1. s \in Seq(Frame) /\ Shape(s)
    BY DEF StackGood, Shape
  <2>2. Len(s) \in Nat \ {0} /\ Last(s) = s[Len(s)]
    BY <2>1, StackParts
  <2> QED BY <2>1, <2>2
<1>2. PICK r : r = [s EXCEPT ![Len(s)] = f]
  OBVIOUS
<1>3. /\ Shape(r) /\ Len(r) = Len(s)
      /\ \A j \in 1..Len(s) : r[j] = IF j = Len(s) THEN f ELSE s[j]
  <2>1. /\ Shape([s EXCEPT ![Len(s)] = f]) /\ Len([s EXCEPT ![Len(s)] = f]) = Len(s)
        /\ \A j \in 1..Len(s) : [s EXCEPT ![Len(s)] = f][j] = IF j = Len(s) THEN f ELSE s[j]
    BY <1>1, ShapeChanged
  <2> QED BY <1>2, <2>1
<1>4. RunsGood(r, n, p)
  BY <1>3 DEF StackGood, RunsGood
<1>5. EndsLast(r, p, m)
  BY <1>3 DEF NoneEnds, EndsLast
<1> QED BY <1>2, <1>3, <1>4, <1>5 DEF StackGood

\* A deferred task is run; or the run ends, as it was told to; or it will sleep.
LEMMA DoIdleWorkKeeps ==
  ASSUME IInv, DoIdleWork, UNCHANGED loop
  PROVE  IInv'
<1>1. /\ At("idle")
      /\ UNCHANGED <<incoming, work, delayed, clocks, event, toSignal, now, posted, loop>>
  BY DEF DoIdleWork
<1>2. /\ stack # <<>> /\ Top = Last(stack) /\ Top.k = "run" /\ Top.pc = "idle" /\ TopIs("run")
      /\ Top \in RunFrame /\ RunGood(Top, posted, Pump) /\ Top.ok = allowed
      /\ ~Top.idle /\ NoneEnds(stack) /\ StackGood(stack, posted, Pump, keep) /\ stack \in Seq(Frame)
  BY <1>1, AtFacts, TopFacts
<1>3. ~Top.did
  BY <1>2 DEF RunGood
<1>4. allowed => FoundNothing
  BY <1>2, <1>3 DEF FoundNothing
<1>5. /\ QueuesOK(incoming, work, delayed, deferred, ran, posted) /\ deferred \in Seq(Task)
      /\ keep \in BOOLEAN /\ allowed \in BOOLEAN
  BY DEF IInv, TasksOK, QueuesOK, Types
<1>6. CASE /\ Depth(stack) = 1 /\ deferred # <<>>
           /\ deferred' = Tail(deferred)
           /\ RunTask(Head(deferred), "idle")
           /\ UNCHANGED keep
  <2>1. Head(deferred) \in Task
    BY <1>5, <1>6, IdsTail
  <2>2. allowed
    BY <1>1, <1>6, OutermostAllowed
  <2>3. /\ StackOK' /\ AllowedByTop' /\ NothingWasLeft' /\ ran' = Append(ran, Head(deferred).id)
        /\ allowed' \in BOOLEAN
    BY <1>1, <1>6, <2>1, <2>2, RunTaskGood
  <2>4. QueuesOK(incoming, work, delayed, Tail(deferred), Append(ran, Head(deferred).id), posted)
    BY <1>5, <1>6, MoveFromDeferred
  <2>5. TasksOK'
    BY <1>1, <1>6, <2>3, <2>4 DEF TasksOK
  <2>6. Types'
    BY <1>1, <1>6, <2>3 DEF IInv, Types, clocks
  <2> QED BY <2>3, <2>5, <2>6 DEF IInv
<1>7. CASE /\ Depth(stack) # 1 \/ deferred = <<>>
           /\ Quits(Len(stack), [Top EXCEPT !.idle = TRUE])
           /\ UNCHANGED <<deferred, allowed, ran>>
  <2>1. PICK f : f = [[Top EXCEPT !.idle = TRUE] EXCEPT !.stop = (Pump = "qt")]
    OBVIOUS
  <2>2. /\ f \in RunFrame /\ f.k = "run" /\ f.pc = "idle" /\ f.did = Top.did /\ f.ok = Top.ok
        /\ f.owes = Top.owes /\ f.stop = (Pump = "qt")
    BY <1>2, <2>1 DEF RunFrame
  <2>3. stack' = [stack EXCEPT ![Len(stack)] = f] /\ keep' = (Pump = "qt")
    BY <1>7, <2>1 DEF Quits
  <2>4. RunGood(f, posted, Pump)
    BY <1>2, <2>2 DEF RunGood
  <2>5. StackGood([stack EXCEPT ![Len(stack)] = f], posted, Pump, keep')
    BY <1>2, <2>2, <2>3, <2>4, GoodEnds
  <2>6. StackOK'
    BY <1>1, <2>3, <2>5 DEF StackOK, Pump
  <2>7. stack' # <<>> /\ Top' = f /\ Len(stack') = Len(stack)
    <3>1. f \in Frame
      BY <2>2 DEF Frame
    <3>2. /\ Append(Front(stack), f) = [stack EXCEPT ![Len(stack)] = f]
          /\ Append(Front(stack), f) # <<>> /\ Last(Append(Front(stack), f)) = f
          /\ Len(Append(Front(stack), f)) = Len(stack)
      BY <1>2, <3>1, ReplaceParts
    <3> QED BY <2>3, <3>2 DEF Top
  <2>8. AllowedByTop'
    BY <1>2, <1>7, <2>2, <2>7 DEF AllowedByTop, TopIs
  <2>9. Depth(stack') = 1 => deferred' = <<>>
    <3>1. Shape(stack) /\ Shape(stack')
      BY <1>2, <2>3, <2>5 DEF StackGood
    <3>2. Depth(stack') = 1 => Len(stack') = 1
      BY <2>2, <2>7, <3>1, DepthOne DEF Top
    <3> QED BY <1>2, <1>7, <2>7, <3>1, <3>2, DepthOne
  <2>10. NothingWasLeft'
    <3> SUFFICES ASSUME FoundNothing'
                 PROVE  /\ work' = <<>>
                        /\ incoming' # <<>> => event' \/ toSignal' > 0
                        /\ Top'.owes \cap Ids(incoming') = {}
                        /\ Depth(stack') = 1 => deferred' = <<>>
                        /\ Pump' = "default" /\ delayed' # <<>> => wakeAt' = Head(delayed').at
      BY DEF NothingWasLeft, Ids, Depth, Pump
    <3>1. FoundNothing
      BY <1>4, <1>7 DEF FoundNothing
    <3>2. /\ work = <<>> /\ (incoming # <<>> => event \/ toSignal > 0)
          /\ Top.owes \cap Ids(incoming) = {}
          /\ Pump = "default" /\ delayed # <<>> => wakeAt = Head(delayed).at
      BY <1>2, <3>1 DEF IInv, NothingWasLeft
    <3> QED BY <1>1, <2>2, <2>7, <2>9, <3>2 DEF clocks, Pump
  <2>11. Types' /\ TasksOK'
    BY <1>1, <1>7, <2>3 DEF IInv, Types, TasksOK, clocks
  <2> QED BY <2>6, <2>8, <2>10, <2>11 DEF IInv
<1>8. CASE /\ Depth(stack) # 1 \/ deferred = <<>>
           /\ stack' = With(AfterIdle(Top, FALSE)) /\ UNCHANGED keep
           /\ UNCHANGED <<deferred, allowed, ran>>
  <2>1. PICK f : f = AfterIdle(Top, FALSE)
    OBVIOUS
  <2>2. /\ f \in RunFrame /\ f.k = "run" /\ f.pc = "sleep" /\ f.did = FALSE /\ f.ok = Top.ok
        /\ f.owes = Top.owes /\ ~f.idle
    BY <1>2, <2>1, AfterIdleParts
  <2>3. RunGood(f, posted, Pump)
    BY <1>2, <2>2 DEF RunGood
  <2>4. StackOK' /\ AllowedByTop' /\ Top' = f /\ (Depth(stack') = 1 => Depth(stack) = 1)
    BY <1>1, <1>8, <2>1, <2>2, <2>3, ReplaceGood
  <2>5. NothingWasLeft'
    <3> SUFFICES ASSUME FoundNothing'
                 PROVE  /\ work' = <<>>
                        /\ incoming' # <<>> => event' \/ toSignal' > 0
                        /\ Top'.owes \cap Ids(incoming') = {}
                        /\ Depth(stack') = 1 => deferred' = <<>>
                        /\ Pump' = "default" /\ delayed' # <<>> => wakeAt' = Head(delayed').at
      BY DEF NothingWasLeft, Ids, Depth, Pump
    <3>1. FoundNothing
      BY <1>4, <1>8 DEF FoundNothing
    <3>2. /\ work = <<>> /\ (incoming # <<>> => event \/ toSignal > 0)
          /\ Top.owes \cap Ids(incoming) = {}
          /\ Pump = "default" /\ delayed # <<>> => wakeAt = Head(delayed).at
      BY <1>2, <3>1 DEF IInv, NothingWasLeft
    <3> QED BY <1>1, <1>8, <2>2, <2>4, <3>2 DEF clocks, Pump
  <2>6. Types' /\ TasksOK'
    BY <1>1, <1>8 DEF IInv, Types, TasksOK, clocks
  <2> QED BY <2>4, <2>5, <2>6 DEF IInv
<1> QED BY <1>6, <1>7, <1>8 DEF DoIdleWork

\* The default pump wakes up.
LEMMA WaitForWorkKeeps ==
  ASSUME IInv, WaitForWork, UNCHANGED loop
  PROVE  IInv'
<1>1. /\ At("sleep") /\ stack' = With([Top EXCEPT !.pc = "work", !.did = FALSE])
      /\ UNCHANGED <<queues, allowed, recent, timer, keep, toSignal, now, posted, ran, loop>>
  BY DEF WaitForWork
<1>2. Top \in RunFrame /\ RunGood(Top, posted, Pump) /\ ~Top.idle
  BY <1>1, AtFacts
<1>3. PICK f : f = [Top EXCEPT !.pc = "work", !.did = FALSE]
  OBVIOUS
<1>4. /\ f \in RunFrame /\ f.k = "run" /\ f.ok = Top.ok /\ f.owes = Top.owes /\ ~f.idle
      /\ f.pc = "work"
  BY <1>2, <1>3, RunChanged
<1>5. RunGood(f, posted, Pump)
  BY <1>2, <1>4 DEF RunGood
<1>6. StackOK' /\ AllowedByTop' /\ Top' = f
  BY <1>1, <1>3, <1>4, <1>5, ReplaceGood
<1>7. NothingWasLeft'
  BY <1>4, <1>6 DEF NothingWasLeft, FoundNothing
<1>8. event' \in BOOLEAN /\ wakeAt' \in Nat
  <2>1. event \in BOOLEAN /\ wakeAt \in Nat
    BY DEF IInv, Types
  <2>2. event' \in BOOLEAN
    BY <2>1 DEF WaitForWork
  <2>3. wakeAt' = 0 \/ wakeAt' = wakeAt
    BY DEF WaitForWork
  <2> QED BY <2>1, <2>2, <2>3
<1>9. Types' /\ TasksOK'
  BY <1>1, <1>8 DEF IInv, Types, TasksOK, queues
<1> QED BY <1>6, <1>7, <1>9 DEF IInv

\* The Qt pump handles the events there are.
LEMMA ProcessEventsKeeps ==
  ASSUME IInv, ProcessEvents, UNCHANGED loop
  PROVE  IInv'
<1>1. PICK more \in BOOLEAN : stack' = With([Top EXCEPT !.pc = "work", !.did = more])
  BY DEF ProcessEvents, IInv, Types
<1>2. /\ At("sleep") /\ event' = FALSE
      /\ UNCHANGED <<queues, allowed, clocks, keep, toSignal, now, posted, ran, loop>>
  BY DEF ProcessEvents
<1>3. Top \in RunFrame /\ RunGood(Top, posted, Pump) /\ ~Top.idle
  BY <1>2, AtFacts
<1>4. PICK f : f = [Top EXCEPT !.pc = "work", !.did = more]
  OBVIOUS
<1>5. /\ f \in RunFrame /\ f.k = "run" /\ f.ok = Top.ok /\ f.owes = Top.owes /\ ~f.idle
      /\ f.pc = "work"
  BY <1>3, <1>4 DEF RunFrame
<1>6. RunGood(f, posted, Pump)
  BY <1>3, <1>5 DEF RunGood
<1>7. StackOK' /\ AllowedByTop' /\ Top' = f
  BY <1>1, <1>2, <1>4, <1>5, <1>6, ReplaceGood
<1>8. NothingWasLeft'
  BY <1>5, <1>7 DEF NothingWasLeft, FoundNothing
<1>9. Types' /\ TasksOK'
  BY <1>2 DEF IInv, Types, TasksOK, queues, clocks
<1> QED BY <1>7, <1>8, <1>9 DEF IInv

-----------------------------------------------------------------------------
(***************************************************************************)
(* What a task does.                                                       *)
(***************************************************************************)
\* A task runs the loop, or one of Qt.
LEMMA NestsKeeps ==
  ASSUME IInv, TopIs("task"), NEW f \in Frame, f.k # "task",
         f.k = "run" => RunGood(f, posted, Pump) /\ ~f.idle /\ f.did /\ f.ok = allowed',
         f.k # "run" => ~allowed',
         stack' = Append(stack, f), allowed' \in BOOLEAN, event' \in BOOLEAN,
         UNCHANGED <<queues, clocks, keep, toSignal, now, posted, ran, loop>>
  PROVE  IInv'
<1>1. stack # <<>> /\ Last(stack).k = "task" /\ StackGood(stack, posted, Pump, keep) /\ stack \in Seq(Frame)
  BY TopFacts DEF TopIs, Top, IInv, StackOK
<1>2. StackGood(Append(stack, f), posted, Pump, keep)
  BY <1>1, GoodLoopPushed
<1>3. StackOK'
  BY <1>2 DEF StackOK, Pump
<1>4. stack' # <<>> /\ Top' = f
  BY <1>1, PushParts DEF Top
<1>5. AllowedByTop'
  BY <1>4, FrameKinds DEF AllowedByTop, TopIs
<1>6. NothingWasLeft'
  BY <1>4 DEF NothingWasLeft, FoundNothing, TopIs
<1>7. Types' /\ TasksOK'
  BY DEF IInv, Types, TasksOK, queues, clocks
<1> QED BY <1>3, <1>5, <1>6, <1>7 DEF IInv

\* A task runs the loop.
LEMMA RunNestedKeeps ==
  ASSUME IInv, NEW quit \in BOOLEAN, NEW ok \in BOOLEAN, RunNested(quit, ok), UNCHANGED loop
  PROVE  IInv'
<1>1. /\ TopIs("task") /\ stack' = Append(stack, Run(quit, ok))
      /\ allowed' = (allowed \/ ok) /\ event' = (event \/ (ok /\ ~allowed))
      /\ UNCHANGED <<queues, clocks, keep, toSignal, now, posted, ran, loop>>
  BY DEF RunNested, MayNest
<1>2. ~allowed /\ event \in BOOLEAN
  BY <1>1, TopFacts DEF IInv, Types, TopIs
<1>3. PICK f : f = Run(quit, ok)
  OBVIOUS
<1>4. /\ f \in RunFrame /\ f.k = "run" /\ f.ok = ok /\ f.owes = {} /\ ~f.idle /\ f.did
      /\ f.pc = IF Pump = "qt" THEN "sleep" ELSE "work"
  BY <1>3 DEF Run, RunFrame
<1>5. RunGood(f, posted, Pump)
  BY <1>4 DEF RunGood
<1>6. f \in Frame /\ allowed' = f.ok /\ allowed' \in BOOLEAN /\ event' \in BOOLEAN
  BY <1>1, <1>2, <1>4 DEF Frame
<1> QED BY <1>1, <1>3, <1>4, <1>5, <1>6, NestsKeeps

\* A task opens a menu or a dialog.
LEMMA EnterNativeKeeps ==
  ASSUME IInv, EnterNative, UNCHANGED loop
  PROVE  IInv'
<1>1. /\ TopIs("task") /\ stack' = Append(stack, Native)
      /\ UNCHANGED <<queues, allowed, clocks, keep, event, toSignal, now, posted, ran, loop>>
  BY DEF EnterNative, MayNest
<1>2. ~allowed /\ event \in BOOLEAN /\ allowed \in BOOLEAN
  BY <1>1, TopFacts DEF IInv, Types, TopIs
<1>3. Native \in Frame /\ Native.k = "native"
  BY DEF Frame, Native
<1> QED BY <1>1, <1>2, <1>3, NestsKeeps

\* A run or a loop of Qt returns to the task that started it.
LEMMA ReturnsKeeps ==
  ASSUME IInv, stack # <<>>, Top.k # "task", stack' = Front(stack),
         allowed' \in BOOLEAN, keep' \in BOOLEAN, Len(stack) > 1 => ~allowed',
         UNCHANGED <<queues, clocks, event, toSignal, now, posted, ran, loop>>
  PROVE  IInv'
<1>1. StackGood(stack, posted, Pump, keep)
  BY DEF IInv, StackOK
<1>2. StackGood(Front(stack), posted, Pump, keep')
  BY <1>1, GoodPopped
<1>3. StackOK'
  BY <1>2 DEF StackOK, Pump
<1>4. stack' # <<>> => Top'.k = "task" /\ Len(stack) > 1
  <2>1. /\ stack \in Seq(Frame) /\ Len(stack) \in Nat \ {0} /\ Top = stack[Len(stack)] /\ Shape(stack)
    BY TopFacts
  <2>2. /\ stack' \in Seq(Frame) /\ Len(stack') = Len(stack) - 1
        /\ \A i \in 1..(Len(stack) - 1) : stack'[i] = stack[i]
    BY <2>1, StackParts
  <2> SUFFICES ASSUME stack' # <<>> PROVE Top'.k = "task" /\ Len(stack) > 1
    OBVIOUS
  <2>3. Len(stack') \in Nat \ {0} /\ Top' = stack'[Len(stack')]
    BY <2>2, StackParts DEF Top
  <2>4. Len(stack) \in 2..Len(stack) /\ Len(stack) - 1 \in 1..(Len(stack) - 1)
    BY <2>1, <2>2, <2>3
  <2>5. stack[Len(stack) - 1].k = "task"
    BY <2>1, <2>4 DEF Shape
  <2>6. Top' = stack[Len(stack) - 1]
    BY <2>2, <2>3, <2>4
  <2> QED BY <2>4, <2>5, <2>6
<1>5. AllowedByTop'
  BY <1>4 DEF AllowedByTop, TopIs
<1>6. NothingWasLeft'
  BY <1>4 DEF NothingWasLeft, FoundNothing, TopIs
<1>7. Types' /\ TasksOK'
  BY DEF IInv, Types, TasksOK, queues, clocks
<1> QED BY <1>3, <1>5, <1>6, <1>7 DEF IInv

\* The menu or the dialog is closed.
LEMMA LeaveNativeKeeps ==
  ASSUME IInv, LeaveNative, UNCHANGED loop
  PROVE  IInv'
<1>1. /\ stack # <<>> /\ Top.k = "native" /\ stack' = Front(stack)
      /\ UNCHANGED <<queues, allowed, clocks, keep, event, toSignal, now, posted, ran, loop>>
  BY DEF LeaveNative, TopIs
<1>2. ~allowed /\ allowed \in BOOLEAN /\ keep \in BOOLEAN
  BY <1>1, TopFacts DEF IInv, Types
<1> QED BY <1>1, <1>2, ReturnsKeeps

\* A run returns.
LEMMA LeaveRunKeeps ==
  ASSUME IInv, LeaveRun, UNCHANGED loop
  PROVE  IInv'
<1>1. /\ stack # <<>> /\ Top.k = "run" /\ stack' = Front(stack) /\ keep' = TRUE
      /\ allowed' = (allowed /\ Depth(stack) = 1)
      /\ UNCHANGED <<queues, clocks, event, toSignal, now, posted, ran, loop>>
  BY DEF LeaveRun, TopIs
<1>2. Len(stack) > 1 => Depth(stack) # 1
  <2>1. Shape(stack) /\ stack # <<>> /\ Last(stack).k = "run" /\ Len(stack) \in Nat
    BY <1>1, TopFacts DEF Top
  <2>2. Depth(stack) = 1 => Len(stack) = 1
    BY <2>1, DepthOne
  <2>3. Len(stack) \in Nat
    BY <2>1
  <2> QED BY <2>2, <2>3
<1>3. allowed' \in BOOLEAN /\ (Len(stack) > 1 => ~allowed')
  BY <1>1, <1>2 DEF IInv, Types
<1> QED BY <1>1, <1>3, ReturnsKeeps

\* A task returns to its run.
LEMMA FinishTaskKeeps ==
  ASSUME IInv, FinishTask, UNCHANGED loop
  PROVE  IInv'
<1>1. PICK s : s = Front(stack)
  OBVIOUS
<1>2. PICK f : f = Last(s)
  OBVIOUS
<1>3. PICK from : from = Top.from
  OBVIOUS
<1>4. PICK g : g = CASE from = "work" -> [f EXCEPT !.pc = "delayed", !.did = TRUE]
                     [] from = "delayed" -> AfterDelayed([f EXCEPT !.did = TRUE])
                     [] from = "idle" -> AfterIdle(f, TRUE)
                     [] from = "timeout" -> [f EXCEPT !.pc = "work", !.did = TRUE]
  OBVIOUS
<1>5. /\ TopIs("task") /\ allowed' = TRUE /\ stack' = Append(Front(s), g)
      /\ timer' = IF from = "timeout" THEN Restart(wakeAt) ELSE timer
      /\ UNCHANGED <<queues, recent, wakeAt, keep, event, toSignal, now, posted, ran, loop>>
  BY <1>1, <1>2, <1>3, <1>4 DEF FinishTask
<1>6. /\ stack # <<>> /\ Top.k = "task" /\ from \in {"work", "delayed", "idle", "timeout"}
      /\ StackGood(stack, posted, Pump, keep) /\ Shape(stack) /\ stack \in Seq(Frame) /\ Last(stack).k = "task"
  BY <1>3, <1>5, TopFacts DEF TopIs, TaskFrame, IInv, StackOK, Top
<1>7. StackGood(s, posted, Pump, keep) /\ NoneEnds(s)
  BY <1>1, <1>6, GoodPopped
<1>8. /\ s # <<>> /\ f.k = "run" /\ f \in RunFrame /\ f.ok /\ RunGood(f, posted, Pump) /\ ~f.idle
  <2>1. /\ Len(stack) - 1 \in 1..Len(stack) /\ Len(stack) >= 2 /\ stack[Len(stack) - 1].k = "run"
        /\ stack[Len(stack) - 1] \in RunFrame /\ stack[Len(stack) - 1].ok
    BY <1>6, InnermostBelow
  <2>2. /\ s \in Seq(Frame) /\ Len(s) = Len(stack) - 1 /\ Len(stack) \in Nat
        /\ \A i \in 1..(Len(stack) - 1) : s[i] = stack[i]
    BY <1>1, <1>6, StackParts
  <2>3. s # <<>> /\ Len(s) \in 1..Len(s) /\ Len(stack) - 1 \in 1..(Len(stack) - 1)
    BY <2>1, <2>2
  <2>4. f = stack[Len(stack) - 1] /\ f = s[Len(s)]
    BY <1>2, <2>2, <2>3 DEF Last
  <2>5. RunGood(f, posted, Pump) /\ ~f.idle
    BY <1>7, <2>1, <2>3, <2>4 DEF StackGood, RunsGood, NoneEnds
  <2> QED BY <2>1, <2>3, <2>4, <2>5
<1>9. /\ g \in RunFrame /\ g.k = "run" /\ g.ok = f.ok /\ g.owes = f.owes /\ ~g.idle
      /\ g.pc = "work" \/ (g.did /\ g.pc = "delayed") \/ (g.did /\ g.pc = "sleep" /\ Pump = "qt")
  <2>0. loop.pump \in {"default", "qt"}
    BY LoopAssumption DEF IInv, Types
  <2>1. CASE from = "work"
    BY <1>4, <1>8, <2>1, RunChanged
  <2>2. CASE from = "delayed"
    <3>1. PICK h : h = [f EXCEPT !.did = TRUE]
      OBVIOUS
    <3>2. h \in RunFrame /\ h.did = TRUE /\ h.ok = f.ok /\ h.owes = f.owes /\ h.idle = f.idle
      BY <1>8, <3>1 DEF RunFrame
    <3>3. g = AfterDelayed(h)
      BY <1>4, <2>2, <3>1
    <3>4. /\ g \in RunFrame /\ g.k = "run" /\ g.ok = h.ok /\ g.owes = h.owes /\ g.idle = h.idle
          /\ g.pc = IF Pump = "qt" THEN "sleep" ELSE "work"
          /\ g.did <=> Pump = "qt"
      BY <3>2, <3>3, AfterDelayedParts
    <3> QED BY <1>8, <3>2, <3>4
  <2>3. CASE from = "idle"
    <3>1. g = AfterIdle(f, TRUE)
      BY <1>4, <2>3
    <3>2. /\ g \in RunFrame /\ g.k = "run" /\ g.did = TRUE /\ g.ok = f.ok /\ g.owes = f.owes /\ g.idle = f.idle
          /\ g.pc = IF Pump = "default" THEN "work" ELSE "sleep"
      BY <1>8, <3>1, AfterIdleParts
    <3> QED BY <1>8, <2>0, <3>2 DEF Pump
  <2>4. CASE from = "timeout"
    BY <1>4, <1>8, <2>4, RunChanged
  <2> QED BY <1>6, <2>1, <2>2, <2>3, <2>4
<1>10. RunGood(g, posted, Pump)
  BY <1>8, <1>9 DEF RunGood
<1>11. StackGood(Append(Front(s), g), posted, Pump, keep)
  BY <1>2, <1>7, <1>8, <1>9, <1>10, GoodReplaced
<1>12. StackOK'
  BY <1>5, <1>11 DEF StackOK, Pump
<1>13. stack' # <<>> /\ Top' = g
  <2>1. s \in Seq(Frame) /\ g \in Frame
    BY <1>7, <1>9 DEF StackGood, Shape, Frame
  <2> QED BY <1>5, <1>8, <2>1, ReplaceParts DEF Top
<1>14. AllowedByTop'
  BY <1>5, <1>8, <1>9, <1>13 DEF AllowedByTop, TopIs
<1>15. NothingWasLeft'
  BY <1>9, <1>13 DEF NothingWasLeft, FoundNothing
<1>16. Types' /\ TasksOK'
  <2>1. timer' \in Nat
    BY <1>5, RestartIsTime DEF IInv, Types
  <2> QED BY <1>5, <2>1 DEF IInv, Types, TasksOK, queues
<1> QED BY <1>12, <1>14, <1>15, <1>16 DEF IInv

\* The flags change of the run that has called the task.
LEMMA CallerChanged ==
  ASSUME IInv, TopIs("task"), NEW f \in RunFrame, f.ok = stack[Innermost(stack)].ok,
         f.pc = stack[Innermost(stack)].pc, f.did = stack[Innermost(stack)].did,
         f.idle = stack[Innermost(stack)].idle, f.owes \subseteq 1..posted,
         stack' = [stack EXCEPT ![Innermost(stack)] = f], keep' \in BOOLEAN,
         UNCHANGED <<queues, allowed, clocks, event, toSignal, now, posted, ran, loop>>
  PROVE  IInv'
<1>1. /\ stack # <<>> /\ Top.k = "task" /\ StackGood(stack, posted, Pump, keep) /\ Shape(stack)
      /\ stack \in Seq(Frame) /\ Len(stack) \in 1..Len(stack) /\ Top = stack[Len(stack)] /\ Last(stack).k = "task"
      /\ ~allowed
  BY TopFacts DEF TopIs, IInv, StackOK, Top
<1>2. PICK i : i = Innermost(stack)
  OBVIOUS
<1>3. i = Len(stack) - 1 /\ i \in 1..Len(stack) /\ stack[i].k = "run" /\ stack[i].ok /\ i # Len(stack)
  <2>1. i = Len(stack) - 1 /\ i \in 1..Len(stack) /\ stack[i].k = "run" /\ stack[i].ok
    BY <1>1, <1>2, InnermostBelow
  <2>2. Len(stack) \in Nat
    BY <1>1
  <2> QED BY <2>1, <2>2
<1>4. NoneEnds(stack)
  BY <1>1, NobodyEnds
<1>5. RunGood(f, posted, Pump) /\ ~f.idle
  BY <1>1, <1>2, <1>3, <1>4 DEF StackGood, RunsGood, RunGood, NoneEnds
<1>6. StackGood([stack EXCEPT ![i] = f], posted, Pump, keep')
  BY <1>1, <1>2, <1>3, <1>4, <1>5, GoodChanged
<1>7. StackOK'
  BY <1>2, <1>6 DEF StackOK, Pump
<1>8. stack' # <<>> /\ Top'.k = "task"
  <2>1. /\ Shape([stack EXCEPT ![i] = f]) /\ Len([stack EXCEPT ![i] = f]) = Len(stack)
        /\ \A j \in 1..Len(stack) : [stack EXCEPT ![i] = f][j] = IF j = i THEN f ELSE stack[j]
    BY <1>1, <1>2, <1>3, ShapeChanged
  <2>2. Len(stack') = Len(stack) /\ stack'[Len(stack)] = stack[Len(stack)]
    BY <1>1, <1>2, <1>3, <2>1
  <2>3. stack' # <<>>
    BY <1>1, <2>2
  <2> QED BY <1>1, <2>2, <2>3 DEF Top, Last
<1>9. AllowedByTop' /\ NothingWasLeft'
  BY <1>1, <1>8 DEF AllowedByTop, NothingWasLeft, FoundNothing, TopIs
<1>10. Types' /\ TasksOK'
  BY DEF IInv, Types, TasksOK, queues, clocks
<1> QED BY <1>7, <1>9, <1>10 DEF IInv

\* What could run was posted.
LEMMA RunnablePosted ==
  ASSUME IInv
  PROVE  Runnable \subseteq 1..posted
<1>1. PICK q : q = incoming \o work \o (IF Depth(stack) = 1 THEN deferred ELSE <<>>)
  OBVIOUS
<1>2. /\ incoming \in Seq(Task) /\ work \in Seq(Task) /\ deferred \in Seq(Task)
      /\ Ids(incoming) \subseteq 1..posted /\ Ids(work) \subseteq 1..posted /\ Ids(deferred) \subseteq 1..posted
  BY DEF IInv, TasksOK, QueuesOK
<1>3. Ids(q) \subseteq 1..posted
  <2>1. incoming \o work \in Seq(Task) /\ Ids(incoming \o work) \subseteq 1..posted
    BY <1>2, IdsConcat
  <2>2. PICK d \in Seq(Task) : d = (IF Depth(stack) = 1 THEN deferred ELSE <<>>) /\ Ids(d) \subseteq 1..posted
    BY <1>2, EmptyQueue
  <2>3. Ids((incoming \o work) \o d) = Ids(incoming \o work) \cup Ids(d)
    BY <2>1, IdsConcat
  <2> QED BY <1>1, <2>1, <2>2, <2>3
<1>4. Runnable \subseteq Ids(q)
  BY <1>1 DEF Runnable, Ids
<1> QED BY <1>3, <1>4

\* Quit: the run ends when it is idle.
LEMMA QuitKeeps ==
  ASSUME IInv, Quit, UNCHANGED loop
  PROVE  IInv'
<1>1. PICK f : f = [stack[Innermost(stack)] EXCEPT !.quit = TRUE, !.owes = Runnable]
  OBVIOUS
<1>2. TopIs("task") /\ stack' = [stack EXCEPT ![Innermost(stack)] = f]
  BY <1>1 DEF Quit
<1>3. stack[Innermost(stack)] \in RunFrame /\ Runnable \in SUBSET (1..MaxPosts) /\ Runnable \subseteq 1..posted
  <2>1. stack[Innermost(stack)] \in RunFrame
    BY <1>2, TopFacts, InnermostBelow DEF TopIs, Top
  <2>2. posted \in 0..MaxPosts /\ MaxPosts \in Nat
    BY LoopAssumption DEF IInv, TasksOK, QueuesOK
  <2>3. 1..posted \subseteq 1..MaxPosts
    BY <2>2
  <2> QED BY <2>1, <2>3, RunnablePosted
<1>4. PICK h \in RunFrame : h = stack[Innermost(stack)]
  BY <1>3
<1>5. PICK r \in SUBSET (1..MaxPosts) : r = Runnable
  BY <1>3
<1>6. f = [h EXCEPT !.quit = TRUE, !.owes = r]
  BY <1>1, <1>4, <1>5
<1>7. f \in RunFrame /\ f.ok = h.ok /\ f.pc = h.pc /\ f.did = h.did /\ f.idle = h.idle /\ f.owes = r
  BY <1>6 DEF RunFrame
<1>8. keep' \in BOOLEAN
  BY DEF Quit, IInv, Types
<1> QED BY <1>2, <1>3, <1>4, <1>5, <1>7, <1>8, CallerChanged DEF Quit

\* QuitNow: the pump is told to quit the run.
LEMMA QuitNowKeeps ==
  ASSUME IInv, QuitNow, UNCHANGED loop
  PROVE  IInv'
<1>1. PICK f : f = [stack[Innermost(stack)] EXCEPT !.stop = (Pump = "qt")]
  OBVIOUS
<1>2. TopIs("task") /\ stack' = [stack EXCEPT ![Innermost(stack)] = f] /\ keep' = (Pump = "qt")
  BY <1>1 DEF QuitNow, Quits
<1>3. /\ stack[Innermost(stack)] \in RunFrame /\ stack[Innermost(stack)].k = "run"
      /\ Innermost(stack) \in 1..Len(stack)
  BY <1>2, TopFacts, InnermostBelow DEF TopIs, Top
<1>4. RunGood(stack[Innermost(stack)], posted, Pump)
  BY <1>3 DEF IInv, StackOK, StackGood, RunsGood
<1>5. PICK h \in RunFrame : h = stack[Innermost(stack)]
  BY <1>3
<1>6. f \in RunFrame /\ f.ok = h.ok /\ f.pc = h.pc /\ f.did = h.did /\ f.idle = h.idle /\ f.owes = h.owes
  BY <1>1, <1>5 DEF RunFrame
<1>7. f.owes \subseteq 1..posted
  BY <1>4, <1>5, <1>6 DEF RunGood
<1>8. keep' \in BOOLEAN
  BY <1>2
<1> QED BY <1>2, <1>5, <1>6, <1>7, <1>8, CallerChanged DEF QuitNow

-----------------------------------------------------------------------------
(***************************************************************************)
(* The invariant.                                                          *)
(***************************************************************************)
\* Every state the program starts in.
LEMMA InitOK ==
  Init => IInv
<1> SUFFICES ASSUME Init PROVE IInv
  OBVIOUS
<1>1. PICK f : f = Run(FALSE, TRUE)
  OBVIOUS
<1>2. /\ f \in RunFrame /\ f.k = "run" /\ f.ok /\ f.owes = {} /\ ~f.idle /\ f.did
      /\ f.pc = IF Pump = "qt" THEN "sleep" ELSE "work"
  BY <1>1 DEF Run, RunFrame
<1>3. stack = <<f>> /\ f \in Frame
  BY <1>1, <1>2 DEF Init, Frame
<1>4. /\ stack \in Seq(Frame) /\ Len(stack) = 1 /\ stack[1] = f /\ stack # <<>> /\ Top = f
  BY <1>3 DEF Top, Last
<1>5. Shape(stack)
  BY <1>2, <1>4 DEF Shape
<1>6. RunsGood(stack, posted, Pump)
  BY <1>2, <1>4 DEF RunsGood, RunGood
<1>7. EndsLast(stack, Pump, keep)
  BY <1>2, <1>4 DEF EndsLast
<1>8. StackOK
  BY <1>5, <1>6, <1>7 DEF StackOK, StackGood
<1>9. Types
  <2>1. /\ loop \in Loops /\ allowed = TRUE /\ keep = TRUE /\ event = FALSE
        /\ toSignal = 0 /\ now = 1 /\ recent = 0 /\ wakeAt = 0 /\ timer = 0
    BY DEF Init
  <2>2. recent \in 0..now /\ now \in Nat /\ toSignal \in Nat /\ wakeAt \in Nat /\ timer \in Nat
    BY <2>1
  <2> QED BY <2>1, <2>2 DEF Types
<1>10. TasksOK
  <2>1. MaxPosts \in Nat
    BY LoopAssumption
  <2>2. ToSet(<<>>) = {} /\ 1..0 = {}
    BY DEF ToSet
  <2>3. SortedByTime(<<>>)
    BY DEF SortedByTime
  <2>4. <<>> \in Seq(1..MaxPosts) /\ 0 \in 0..MaxPosts
    BY <2>1
  <2> QED BY <2>2, <2>3, <2>4, EmptyQueue DEF Init, TasksOK, QueuesOK
<1>11. AllowedByTop /\ NothingWasLeft
  BY <1>2, <1>4 DEF Init, AllowedByTop, NothingWasLeft, FoundNothing, TopIs
<1> QED BY <1>8, <1>9, <1>10, <1>11 DEF IInv

\* Nothing happens.
LEMMA StutterKeeps ==
  ASSUME IInv, UNCHANGED vars
  PROVE  IInv'
<1>1. posted' = posted /\ posted \in Nat
  BY DEF IInv, TasksOK, QueuesOK, vars
<1>2. /\ StackOK' /\ AllowedByTop' /\ (FoundNothing' <=> FoundNothing)
      /\ Top' = Top /\ Depth(stack') = Depth(stack)
  BY <1>1, SameStack DEF vars
<1>3. Types' /\ TasksOK'
  BY DEF vars, IInv, Types, TasksOK, queues, clocks
<1>4. NothingWasLeft'
  BY <1>2 DEF vars, IInv, NothingWasLeft, queues, clocks, Pump
<1> QED BY <1>2, <1>3, <1>4 DEF IInv

\* The invariant holds in every state.
LEMMA InductiveInvariant ==
  Spec => []IInv
<1>1. IInv /\ [Next]_vars => IInv'
  <2> SUFFICES ASSUME IInv, [Next]_vars PROVE IInv'
    OBVIOUS
  <2>1. ASSUME UNCHANGED loop, NEW delay \in Delays, NEW nestable \in Nestables,
               PostTask(delay, nestable) \/ PostTaskHere(delay, nestable)
        PROVE  IInv'
    <3>1. nestable \in BOOLEAN
      BY DEF Nestables
    <3> QED BY <2>1, <3>1, PostTaskKeeps, PostTaskHereKeeps
  <2>2. CASE UNCHANGED loop /\ (ScheduleWork \/ Tick)
    BY <2>2, ScheduleWorkKeeps, TickKeeps
  <2>3. CASE UNCHANGED loop /\ LoopGoesOn
    BY <2>3, ReloadWorkQueueKeeps, DoWorkDelayedTaskKeeps, DoWorkTaskKeeps, DoWorkNothingKeeps,
       DoDelayedWorkStepKeeps, DoIdleWorkKeeps, WaitForWorkKeeps, ProcessEventsKeeps,
       HandleTimeoutKeeps, LeaveRunKeeps
       DEF LoopGoesOn
  <2>4. CASE UNCHANGED loop /\ FinishTask
    BY <2>4, FinishTaskKeeps
  <2>5. CASE UNCHANGED loop /\ (RunNested(FALSE, TRUE) \/ \E ok \in BOOLEAN : RunNested(TRUE, ok))
    BY <2>5, RunNestedKeeps
  <2>6. CASE UNCHANGED loop /\ (EnterNative \/ LeaveNative \/ NativeWakesUp)
    BY <2>6, EnterNativeKeeps, LeaveNativeKeeps, NativeWakesUpKeeps
  <2>7. CASE UNCHANGED loop /\ (Quit \/ QuitNow)
    BY <2>7, QuitKeeps, QuitNowKeeps
  <2>8. CASE UNCHANGED vars
    BY <2>8, StutterKeeps
  <2> QED BY <2>1, <2>2, <2>3, <2>4, <2>5, <2>6, <2>7, <2>8 DEF Next, Step
<1> QED BY <1>1, InitOK, PTL DEF Spec

\* A run that ends for being idle has nothing left of what it owed.
LEMMA NothingOwed ==
  ASSUME IInv
  PROVE  QuitRunsPending
<1> SUFFICES ASSUME TopIs("run"), Top.idle PROVE Top.owes \cap Runnable = {}
  BY DEF QuitRunsPending
<1>1. /\ stack # <<>> /\ Top.k = "run" /\ RunGood(Top, posted, Pump) /\ Top.ok = allowed
      /\ Len(stack) \in 1..Len(stack) /\ Top = stack[Len(stack)]
  BY TopFacts DEF TopIs
<1>2. Top.pc = "idle" /\ ~Top.did
  BY <1>1 DEF IInv, StackOK, StackGood, EndsLast, RunGood
<1>3. CASE ~allowed
  BY <1>1, <1>3 DEF RunGood
<1>4. CASE allowed
  <2>1. /\ work = <<>> /\ Top.owes \cap Ids(incoming) = {} /\ (Depth(stack) = 1 => deferred = <<>>)
    BY <1>2, <1>4 DEF IInv, NothingWasLeft, FoundNothing
  <2>2. PICK q : q = incoming \o work \o (IF Depth(stack) = 1 THEN deferred ELSE <<>>)
    OBVIOUS
  <2>3. q = incoming
    <3>1. incoming \in Seq(Task)
      BY DEF IInv, TasksOK, QueuesOK
    <3>2. q = incoming \o <<>> \o <<>>
      BY <2>1, <2>2
    <3> QED BY <3>1, <3>2
  <2>4. Runnable \subseteq Ids(incoming)
    BY <2>2, <2>3 DEF Runnable, Ids
  <2> QED BY <2>1, <2>4
<1> QED BY <1>1, <1>3, <1>4 DEF IInv, Types

\* Every task is in one place, the queues are in order, runs and tasks alternate on the stack,
\* no task overlaps another or nests where it may not, and a run that ends after Quit has
\* run what was pending.
THEOREM TasksKeepTheirPlace == Spec => []LoopInv
<1>1. IInv => LoopInv
  <2> SUFFICES ASSUME IInv PROVE LoopInv
    OBVIOUS
  <2>1. Shape(stack) /\ RunsGood(stack, posted, Pump) /\ EndsLast(stack, Pump, keep) /\ DOMAIN stack = 1..Len(stack)
    BY DEF IInv, StackOK, StackGood, Shape
  <2>2. TypeOK
    BY <2>1 DEF IInv, Types, TasksOK, QueuesOK, TypeOK, Shape
  <2>3. TasksConserved /\ QueuesInOrder
    BY <2>2, QueuesMeaning DEF IInv
  <2>4. RunsAreCalled /\ TasksDoNotOverlap
    BY <2>1 DEF Shape, RunsAreCalled, TasksDoNotOverlap
  <2>5. NonNestableOutermost
    BY <2>1, NonNestableUnderOne
  <2>6. RunsAgree
    BY <2>1 DEF RunsAgree, RunOK, RunsGood, RunGood, EndsLast, Stopping
  <2> QED BY <2>2, <2>3, <2>4, <2>5, <2>6, NothingOwed DEF LoopInv, IInv
<1> QED BY <1>1, InductiveInvariant, PTL

\* While the thread sleeps and may run tasks, none is left that would not wake it, and the
\* default pump wakes for the first delayed one.
THEOREM SleepsOnlyWithoutWork == Spec => []WakesForWork
<1>1. IInv => WakesForWork
  <2> SUFFICES ASSUME IInv PROVE WakesForWork
    OBVIOUS
  <2>1. Pump \in {"default", "qt"}
    BY LoopAssumption DEF IInv, Types, Pump
  <2>2. ASSUME Asleep, allowed PROVE FoundNothing /\ Top.pc = "sleep"
    <3>1. At("sleep") /\ (Pump = "qt" => ~Top.did)
      BY <2>2 DEF Asleep
    <3>2. TopIs("run") /\ Top.pc = "sleep" /\ RunGood(Top, posted, Pump)
      BY <3>1, AtFacts
    <3> QED BY <2>1, <2>2, <3>1, <3>2 DEF RunGood, FoundNothing
  <2>3. NoMissedWakeup
    BY <2>2 DEF NoMissedWakeup, IInv, NothingWasLeft
  <2>4. DelayedWorkIsScheduled
    <3> SUFFICES ASSUME Pump = "default", Asleep, allowed, delayed # <<>>
                 PROVE  wakeAt # 0 /\ wakeAt <= Max({Head(delayed).at, now})
      BY DEF DelayedWorkIsScheduled, WakesForDelayedWork
    <3>1. wakeAt = Head(delayed).at
      BY <2>2 DEF IInv, NothingWasLeft
    <3>2. delayed \in Seq(Task) /\ SortedByTime(delayed) /\ now \in Nat
      BY DEF IInv, TasksOK, QueuesOK, Types
    <3>3. Head(delayed).at # 0 /\ Head(delayed).at \in Nat
      <4>1. Len(delayed) \in Nat \ {0} /\ Head(delayed) = delayed[1] /\ Head(delayed) \in Task
        BY <3>2, IdsTail
      <4>2. 1 \in DOMAIN delayed
        BY <3>2, <4>1
      <4> QED BY <3>2, <4>1, <4>2 DEF SortedByTime, Task
    <3> QED BY <3>1, <3>2, <3>3, MaxOfTwo
  <2> QED BY <2>3, <2>4 DEF WakesForWork, IInv
<1> QED BY <1>1, InductiveInvariant, PTL

-----------------------------------------------------------------------------
(***************************************************************************)
(* Tasks run in turn.                                                      *)
(***************************************************************************)
\* No task begins.
LEMMA NoTaskStarts ==
  ASSUME IInv, ran' = ran
  PROVE  InOrder
<1>1. Len(ran) \in Nat
  BY DEF IInv, TasksOK, QueuesOK
<1>2. ~(Len(ran') > Len(ran))
  BY <1>1
<1> QED BY <1>2 DEF InOrder

\* A task begins that no other one should have preceded.
LEMMA TaskStarts ==
  ASSUME IInv, stack # <<>>, NEW t \in Task, NEW from \in {"work", "delayed", "idle", "timeout"}, RunTask(t, from),
         \A q \in {incoming, work, delayed} : \A i \in DOMAIN q :
           ~(q[i].id < t.id /\ (q[i].at = 0 <=> t.at = 0) /\ q[i].at <= t.at)
  PROVE  InOrder
<1>1. PICK f : f = RunningTask(t, from)
  OBVIOUS
<1>2. f \in Frame /\ f.t = t
  BY <1>1 DEF RunningTask, TaskFrame, Frame
<1>3. stack \in Seq(Frame) /\ stack' = Append(stack, f)
  BY <1>1, TopFacts DEF RunTask
<1>4. Last(stack').t = t
  BY <1>2, <1>3, PushParts
<1> QED BY <1>4 DEF InOrder

\* The first task of the work queue is the one posted first of those without a delay.
LEMMA WorkInTurn ==
  ASSUME IInv, DoWorkTask
  PROVE  InOrder
<1>1. /\ At("work") /\ work # <<>> /\ Head(work).at = 0
      /\ DeferOrRunPendingTask(Head(work), "work", stack)
  BY DEF DoWorkTask
<1>2. /\ incoming \in Seq(Task) /\ work \in Seq(Task) /\ delayed \in Seq(Task)
      /\ Increasing(work) /\ Earlier(work, incoming) /\ SortedByTime(delayed)
  BY DEF IInv, TasksOK, QueuesOK
<1>3. PICK t \in Task : t = Head(work)
  BY <1>1, <1>2, IdsTail
<1>4. /\ Len(work) \in Nat \ {0} /\ t = work[1] /\ DOMAIN work = 1..Len(work) /\ t.id \in Ids(work)
      /\ t.id \in Nat
  <2>1. Len(work) \in Nat \ {0} /\ t = work[1] /\ DOMAIN work = 1..Len(work)
    BY <1>1, <1>2, <1>3, IdsTail
  <2> QED BY <2>1, TaskNumbers DEF Ids
<1>5. ASSUME NEW i \in DOMAIN incoming PROVE ~(incoming[i].id < t.id)
  <2>1. incoming[i].id \in Ids(incoming) /\ incoming[i].id \in Nat
    BY <1>2, TaskNumbers DEF Ids
  <2> QED BY <1>2, <1>4, <2>1 DEF Earlier
<1>6. ASSUME NEW i \in DOMAIN work PROVE ~(work[i].id < t.id)
  <2>1. work[i].id \in Nat
    BY <1>2, TaskNumbers
  <2>2. 1 \in DOMAIN work /\ (i = 1 \/ 1 < i)
    BY <1>4
  <2> QED BY <1>2, <1>4, <2>1, <2>2 DEF Increasing
<1>7. ASSUME NEW i \in DOMAIN delayed PROVE delayed[i].at # 0
  BY <1>2, <1>7 DEF SortedByTime
<1>8. CASE RunTask(t, "work")
  BY <1>1, <1>3, <1>5, <1>6, <1>7, <1>8, TaskStarts DEF At, TopIs
<1>9. CASE UNCHANGED ran
  BY <1>9, NoTaskStarts
<1> QED BY <1>1, <1>3, <1>8, <1>9 DEF DeferOrRunPendingTask

\* The first delayed task is the one due first.
LEMMA DelayedInTurn ==
  ASSUME IInv, NEW s, NEW from \in {"delayed", "timeout"}, DoDelayedWork(s, from), stack # <<>>
  PROVE  InOrder
<1>1. /\ incoming \in Seq(Task) /\ work \in Seq(Task) /\ delayed \in Seq(Task)
      /\ Earlier(delayed, incoming) /\ Earlier(delayed, work) /\ SortedByTime(delayed)
  BY DEF IInv, TasksOK, QueuesOK
<1>2. CASE UNCHANGED ran
  BY <1>2, NoTaskStarts
<1>3. CASE delayed # <<>> /\ RunTask(Head(delayed), from)
  <2>1. PICK t \in Task : t = Head(delayed)
    BY <1>1, <1>3, IdsTail
  <2>2. /\ Len(delayed) \in Nat \ {0} /\ t = delayed[1] /\ DOMAIN delayed = 1..Len(delayed)
        /\ t.id \in Ids(delayed) /\ t.id \in Nat /\ t.at \in Nat
    <3>1. Len(delayed) \in Nat \ {0} /\ t = delayed[1] /\ DOMAIN delayed = 1..Len(delayed)
      BY <1>1, <1>3, <2>1, IdsTail
    <3> QED BY <3>1, TaskNumbers DEF Ids
  <2>3. ASSUME NEW i \in DOMAIN incoming PROVE ~(incoming[i].id < t.id)
    <3>1. incoming[i].id \in Ids(incoming) /\ incoming[i].id \in Nat
      BY <1>1, TaskNumbers DEF Ids
    <3> QED BY <1>1, <2>2, <3>1 DEF Earlier
  <2>4. ASSUME NEW i \in DOMAIN work PROVE ~(work[i].id < t.id)
    <3>1. work[i].id \in Ids(work) /\ work[i].id \in Nat
      BY <1>1, TaskNumbers DEF Ids
    <3> QED BY <1>1, <2>2, <3>1 DEF Earlier
  <2>5. ASSUME NEW i \in DOMAIN delayed PROVE ~(delayed[i].id < t.id /\ delayed[i].at <= t.at)
    <3>1. /\ delayed[i].id \in Nat /\ delayed[i].at \in Nat /\ 1 \in DOMAIN delayed
          /\ i = 1 \/ 1 < i
      BY <1>1, <2>2, TaskNumbers
    <3>2. CASE i = 1
      BY <2>2, <3>1, <3>2
    <3>3. CASE 1 < i
      <4>1. t.at < delayed[i].at \/ (t.at = delayed[i].at /\ t.id < delayed[i].id)
        BY <1>1, <2>2, <3>1, <3>3 DEF SortedByTime
      <4> QED BY <2>2, <3>1, <4>1
    <3> QED BY <3>1, <3>2, <3>3
  <2> QED BY <1>3, <2>1, <2>3, <2>4, <2>5, TaskStarts
<1> QED BY <1>2, <1>3 DEF DoDelayedWork, DeferOrRunPendingTask

\* A deferred task begins when the loop is idle.
LEMMA IdleInTurn ==
  ASSUME IInv, DoIdleWork
  PROVE  InOrder
<1>1. CASE UNCHANGED ran
  BY <1>1, NoTaskStarts
<1>2. CASE RunTask(Head(deferred), "idle")
  <2>1. PICK f : f = RunningTask(Head(deferred), "idle")
    OBVIOUS
  <2>2. stack' = Append(stack, f) /\ f.from = "idle" /\ stack \in Seq(Frame)
    BY <1>2, <2>1 DEF RunTask, RunningTask, IInv, StackOK, StackGood, Shape
  <2>3. Last(stack') = f
    <3>1. Len(stack') = Len(stack) + 1 /\ Len(stack) \in Nat /\ stack'[Len(stack) + 1] = f
      BY <2>2
    <3> QED BY <3>1 DEF Last
  <2> QED BY <2>2, <2>3 DEF InOrder
<1> QED BY <1>1, <1>2 DEF DoIdleWork

\* A run that was told to quit takes no step, unless the stack stays as it is or the run returns.
LEMMA StopsAtQuit ==
  ASSUME IInv, Pump = "default",
         (\E pc : At(pc)) \/ TopIs("task") \/ TopIs("native") \/ stack' = stack \/ (stack # <<>> /\ stack' = Front(stack))
  PROVE  ~WorksAfterQuit
<1> SUFFICES ASSUME NEW i \in DOMAIN stack, i = Len(stack), stack[i].k = "run", Stopping(stack[i]), Len(stack') > i
             PROVE  FALSE
  BY DEF WorksAfterQuit
<1>1. stack \in Seq(Frame) /\ Len(stack) \in Nat /\ stack # <<>>
  BY DEF IInv, StackOK, StackGood, Shape
<1>2. Top = stack[i]
  BY DEF Top, Last
<1>3. ~TopIs("task") /\ ~TopIs("native")
  BY <1>2 DEF TopIs
<1>4. \A pc : ~At(pc)
  BY <1>2 DEF At
<1>5. stack' # stack
  BY <1>1
<1>6. stack' # Front(stack)
  <2>1. Len(Front(stack)) = Len(stack) - 1
    BY <1>1, StackParts
  <2> QED BY <1>1, <2>1
<1> QED BY <1>3, <1>4, <1>5, <1>6

\* A task begins only when none is left that was posted earlier, is due no later and may run
\* as well; and the default pump calls none once it was told to quit.
THEOREM TasksRunInTurn == Spec => RunsInTurn
<1>1. IInv /\ [Next]_vars => [InOrder /\ (Pump = "default" => ~WorksAfterQuit)]_vars
  <2> SUFFICES ASSUME IInv, Step PROVE InOrder /\ (Pump = "default" => ~WorksAfterQuit)
    BY DEF Next
  <2>1. ASSUME NEW delay \in Delays, NEW nestable \in Nestables,
               PostTask(delay, nestable) \/ PostTaskHere(delay, nestable)
        PROVE  ran' = ran /\ stack' = stack
    BY <2>1 DEF PostTask, PostTaskHere
  <2>2. CASE ScheduleWork \/ Tick \/ ReloadWorkQueue \/ DoWorkDelayedTask \/ NativeWakesUp
    <3>1. ran' = ran /\ stack' = stack
      BY <2>2 DEF ScheduleWork, Tick, ReloadWorkQueue, DoWorkDelayedTask, NativeWakesUp
    <3> QED BY <3>1, NoTaskStarts, StopsAtQuit
  <2>3. CASE DoWorkTask
    <3>1. \E pc : At(pc)
      BY <2>3 DEF DoWorkTask
    <3> QED BY <2>3, <3>1, WorkInTurn, StopsAtQuit
  <2>4. CASE DoDelayedWorkStep
    <3>1. At("delayed") /\ DoDelayedWork(With(AfterDelayed(Top)), "delayed") /\ stack # <<>>
      BY <2>4 DEF DoDelayedWorkStep, At, TopIs
    <3> QED BY <3>1, DelayedInTurn, StopsAtQuit
  <2>5. CASE HandleTimeout
    <3>1. PICK s : s = IF TopIs("native") THEN stack ELSE With([Top EXCEPT !.pc = "work", !.did = TRUE])
      OBVIOUS
    <3>2. DoDelayedWork(s, "timeout") /\ (At("sleep") \/ TopIs("native")) /\ stack # <<>>
      BY <2>5, <3>1 DEF HandleTimeout, At, TopIs
    <3> QED BY <3>2, DelayedInTurn, StopsAtQuit
  <2>6. CASE DoIdleWork
    <3>1. \E pc : At(pc)
      BY <2>6 DEF DoIdleWork
    <3> QED BY <2>6, <3>1, IdleInTurn, StopsAtQuit
  <2>7. CASE DoWorkNothing \/ WaitForWork \/ ProcessEvents
    <3>1. ran' = ran /\ \E pc : At(pc)
      BY <2>7 DEF DoWorkNothing, WaitForWork, ProcessEvents
    <3> QED BY <3>1, NoTaskStarts, StopsAtQuit
  <2>8. CASE LeaveRun
    <3>1. ran' = ran /\ stack # <<>> /\ stack' = Front(stack)
      BY <2>8 DEF LeaveRun, TopIs
    <3> QED BY <3>1, NoTaskStarts, StopsAtQuit
  <2>9. CASE FinishTask \/ RunNested(FALSE, TRUE) \/ (\E ok \in BOOLEAN : RunNested(TRUE, ok)) \/ EnterNative
    <3>1. ran' = ran /\ TopIs("task")
      BY <2>9 DEF FinishTask, RunNested, EnterNative, MayNest
    <3> QED BY <3>1, NoTaskStarts, StopsAtQuit
  <2>10. CASE LeaveNative \/ Quit \/ QuitNow
    <3>1. ran' = ran /\ (TopIs("task") \/ TopIs("native"))
      BY <2>10 DEF LeaveNative, Quit, QuitNow
    <3> QED BY <3>1, NoTaskStarts, StopsAtQuit
  <2>11. CASE \E delay \in Delays, nestable \in Nestables : PostTask(delay, nestable) \/ PostTaskHere(delay, nestable)
    <3>1. ran' = ran /\ stack' = stack
      BY <2>1, <2>11
    <3> QED BY <3>1, NoTaskStarts, StopsAtQuit
  <2> QED BY <2>2, <2>3, <2>4, <2>5, <2>6, <2>7, <2>8, <2>9, <2>10, <2>11 DEF Step, LoopGoesOn
<1> QED BY <1>1, InductiveInvariant, PTL DEF Spec, RunsInTurn
=============================================================================
