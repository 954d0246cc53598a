--------------------------- MODULE SocketPoolOrder --------------------------
(***************************************************************************)
(* Steps of the socket pool: requests are served in their order, and a     *)
(* socket stays with the client it was handed to, for every set of groups, *)
(* handles and sockets.                                                    *)
(***************************************************************************)
EXTENDS SocketPoolProofs

\* In the queue of group g handle x is ahead of handle y.
Ahead(s, g, x, y) ==
  \E i, j \in 1..Len(s.pending[g]) : i < j /\ x = s.pending[g][i] /\ y = s.pending[g][j]

\* Requests leave the queues, the others keep their order, and only a request that
\* leaves with everything ahead of it gets an answer.
InTurn(s, t) ==
  /\ \A g \in Groups : \A x : Contains(t.pending[g], x) => Contains(s.pending[g], x)
  /\ \A g \in Groups : \A x, y : Ahead(t, g, x, y) => Ahead(s, g, x, y)
  /\ \A g \in Groups : \A x, y :
       Ahead(s, g, x, y) /\ Contains(t.pending[g], x) /\ Contains(t.pending[g], y) => Ahead(t, g, x, y)
  /\ \A y \in Handles : t.callback[y] # s.callback[y] =>
       \E g \in Groups : /\ Contains(s.pending[g], y) /\ ~Contains(t.pending[g], y)
                         /\ \A x : Ahead(s, g, x, y) => ~Contains(t.pending[g], x)

\* Who has a socket keeps it.
KeepsHeld(s, t) == \A x \in Holders(s) : t.hsocket[x] = s.hsocket[x]

Fair(s, t) == InTurn(s, t) /\ KeepsHeld(s, t)

\* Every queue is ordered by priority.
Sorted(s) == \A g \in Groups : \A x, y : Ahead(s, g, x, y) => Priority[x] <= Priority[y]

-----------------------------------------------------------------------------
(***************************************************************************)
(* Steps that are fair, one after the other.                               *)
(***************************************************************************)
\* Two fair steps are fair together.
LEMMA FairTrans ==
  ASSUME NEW s, NEW t, NEW u, Fair(s, t), Fair(t, u)
  PROVE  Fair(s, u)
<1>1. InTurn(s, t) /\ InTurn(t, u)
  BY DEF Fair
<1>2. \A g \in Groups : \A x : Contains(u.pending[g], x) => Contains(s.pending[g], x)
  BY <1>1 DEF InTurn
<1>3. \A g \in Groups : \A x, y : Ahead(u, g, x, y) => Ahead(s, g, x, y)
  BY <1>1 DEF InTurn
<1>4. \A g \in Groups : \A x, y :
        Ahead(s, g, x, y) /\ Contains(u.pending[g], x) /\ Contains(u.pending[g], y) => Ahead(u, g, x, y)
  BY <1>1 DEF InTurn
<1>5. ASSUME NEW y \in Handles, u.callback[y] # s.callback[y]
      PROVE  \E g \in Groups : /\ Contains(s.pending[g], y) /\ ~Contains(u.pending[g], y)
                               /\ \A x : Ahead(s, g, x, y) => ~Contains(u.pending[g], x)
  <2>1. CASE t.callback[y] # s.callback[y]
    <3>1. PICK g \in Groups : /\ Contains(s.pending[g], y) /\ ~Contains(t.pending[g], y)
                              /\ \A x : Ahead(s, g, x, y) => ~Contains(t.pending[g], x)
      BY <1>1, <2>1 DEF InTurn
    <3>2. \A x : Contains(u.pending[g], x) => Contains(t.pending[g], x)
      BY <1>1 DEF InTurn
    <3> QED BY <3>1, <3>2
  <2>2. CASE u.callback[y] # t.callback[y]
    <3>1. PICK g \in Groups : /\ Contains(t.pending[g], y) /\ ~Contains(u.pending[g], y)
                              /\ \A x : Ahead(t, g, x, y) => ~Contains(u.pending[g], x)
      BY <1>1, <2>2 DEF InTurn
    <3>2. \A x : Contains(u.pending[g], x) => Contains(t.pending[g], x)
      BY <1>1 DEF InTurn
    <3>3. Contains(s.pending[g], y)
      BY <1>1, <3>1 DEF InTurn
    <3>4. \A x : Ahead(s, g, x, y) /\ Contains(t.pending[g], x) => Ahead(t, g, x, y)
      BY <1>1, <3>1 DEF InTurn
    <3> QED BY <3>1, <3>2, <3>3, <3>4
  <2> QED BY <1>5, <2>1, <2>2
<1>6. InTurn(s, u)
  BY <1>2, <1>3, <1>4, <1>5 DEF InTurn
<1>7. KeepsHeld(s, u)
  BY DEF Fair, KeepsHeld, Holders
<1> QED BY <1>6, <1>7 DEF Fair

\* A fair step keeps the queues ordered.
LEMMA FairSorted ==
  ASSUME NEW s, NEW t, InTurn(s, t), Sorted(s)
  PROVE  Sorted(t)
BY DEF InTurn, Sorted

\* A step that neither touches a queue nor an answer.
LEMMA QuietInTurn ==
  ASSUME NEW s, NEW t, t.pending = s.pending, t.callback = s.callback
  PROVE  InTurn(s, t)
<1>1. \A g, x, y : Ahead(t, g, x, y) <=> Ahead(s, g, x, y)
  BY DEF Ahead
<1> QED BY <1>1 DEF InTurn

\* A step that leaves the requests alone and hands a socket only to a handle without one.
LEMMA RequestFair ==
  ASSUME NEW s, NEW t, NEW h, SameRequests(s, t, h), h \in Handles => s.hsocket[h] = NoSocket
  PROVE  Fair(s, t)
<1>1. InTurn(s, t)
  BY QuietInTurn DEF SameRequests
<1>2. KeepsHeld(s, t)
  BY DEF SameRequests, KeepsHeld, Holders
<1> QED BY <1>1, <1>2 DEF Fair

\* Request i leaves the queue of group g; it may be answered when it was the first.
Leaves(s, t, g, i) ==
  /\ i \in 1..Len(s.pending[g])
  /\ t.pending = [s.pending EXCEPT ![g] = RemoveAt(s.pending[g], i)]
  /\ \A y \in Handles : t.callback[y] # s.callback[y] => i = 1 /\ y = s.pending[g][1]

\* A request that leaves its queue does so in turn.
LEMMA LeavingInTurn ==
  ASSUME NEW s \in PoolState, NEW t \in PoolState, NEW g \in Groups, NEW i, Leaves(s, t, g, i),
         IsInjective(s.pending[g])
  PROVE  InTurn(s, t)
<1> DEFINE q == s.pending[g]
           r == RemoveAt(q, i)
<1> USE DEF Leaves
<1>1. q \in Seq(Handles) /\ i \in 1..Len(q) /\ Len(q) \in Nat
  BY Fields
<1>2. /\ r \in Seq(Handles) /\ Len(r) = Len(q) - 1
      /\ \A j \in 1..(Len(q) - 1) : r[j] = IF j < i THEN q[j] ELSE q[j + 1]
  BY <1>1, RemoveAtProperties
<1>3. t.pending[g] = r /\ \A x \in Groups : x # g => t.pending[x] = s.pending[x]
  BY Fields
<1>4. \A x : Contains(r, x) <=> Contains(q, x) /\ x # q[i]
  BY <1>1, RemoveAtMembers
<1>5. \A a, b \in 1..Len(q) : q[a] = q[b] => a = b
  BY <1>1 DEF IsInjective
<1> HIDE DEF r, q
<1>6. ASSUME NEW x, NEW y
      PROVE  Ahead(t, g, x, y) <=> Ahead(s, g, x, y) /\ x # q[i] /\ y # q[i]
  <2>1. ASSUME Ahead(t, g, x, y) PROVE Ahead(s, g, x, y) /\ x # q[i] /\ y # q[i]
    <3>1. PICK a, b \in 1..Len(r) : a < b /\ x = r[a] /\ y = r[b]
      BY <1>3, <2>1 DEF Ahead
    <3> DEFINE c == IF a < i THEN a ELSE a + 1
               d == IF b < i THEN b ELSE b + 1
    <3>2. c \in 1..Len(q) /\ d \in 1..Len(q) /\ c < d /\ c # i /\ d # i
      BY <1>1, <1>2, <3>1
    <3>3. x = q[c] /\ y = q[d]
      BY <1>1, <1>2, <3>1
    <3> QED BY <1>1, <1>5, <3>2, <3>3 DEF Ahead, q
  <2>2. ASSUME Ahead(s, g, x, y), x # q[i], y # q[i] PROVE Ahead(t, g, x, y)
    <3>1. PICK a, b \in 1..Len(q) : a < b /\ x = q[a] /\ y = q[b]
      BY <2>2 DEF Ahead, q
    <3>2. a # i /\ b # i
      BY <2>2, <3>1
    <3> DEFINE c == IF a < i THEN a ELSE a - 1
               d == IF b < i THEN b ELSE b - 1
    <3>3. c \in 1..(Len(q) - 1) /\ d \in 1..(Len(q) - 1) /\ c < d
      BY <1>1, <3>1, <3>2
    <3>4. ASSUME NEW e \in 1..Len(q), e # i
          PROVE  q[e] = r[IF e < i THEN e ELSE e - 1]
      <4>1. CASE e < i
        BY <1>1, <1>2, <4>1
      <4>2. CASE e > i
        <5>1. e - 1 \in 1..(Len(q) - 1) /\ ~(e - 1 < i) /\ (e - 1) + 1 = e /\ ~(e < i)
          BY <1>1, <4>2
        <5> QED BY <1>2, <5>1
      <4> QED BY <1>1, <3>4, <4>1, <4>2
    <3>5. x = r[c] /\ y = r[d]
      BY <3>1, <3>2, <3>4
    <3> HIDE DEF c, d
    <3> QED BY <1>2, <1>3, <3>3, <3>5 DEF Ahead
  <2> QED BY <2>1, <2>2
<1>7. \A z \in Groups : z # g => \A x, y : Ahead(t, z, x, y) <=> Ahead(s, z, x, y)
  BY <1>3 DEF Ahead
<1>8. \A z \in Groups : \A x : Contains(t.pending[z], x) => Contains(s.pending[z], x)
  BY <1>3, <1>4 DEF q
<1>9. \A z \in Groups : \A x, y : Ahead(t, z, x, y) => Ahead(s, z, x, y)
  BY <1>6, <1>7
<1>10. \A z \in Groups : \A x, y :
        Ahead(s, z, x, y) /\ Contains(t.pending[z], x) /\ Contains(t.pending[z], y) => Ahead(t, z, x, y)
  BY <1>3, <1>4, <1>6, <1>7
<1>11. ASSUME NEW y \in Handles, t.callback[y] # s.callback[y]
       PROVE  \E z \in Groups : /\ Contains(s.pending[z], y) /\ ~Contains(t.pending[z], y)
                                /\ \A x : Ahead(s, z, x, y) => ~Contains(t.pending[z], x)
  <2>1. i = 1 /\ y = q[1]
    BY <1>11 DEF q
  <2>2. Contains(q, y) /\ ~Contains(r, y)
    BY <1>1, <1>4, <2>1 DEF Contains
  <2>3. \A x : ~Ahead(s, g, x, y)
    BY <1>1, <1>5, <2>1 DEF Ahead, q
  <2> QED BY <1>3, <2>2, <2>3 DEF q
<1> QED BY <1>8, <1>9, <1>10, <1>11 DEF InTurn

-----------------------------------------------------------------------------
(***************************************************************************)
(* The operations of the pool are fair.                                    *)
(***************************************************************************)
\* The first request of a queue gets its answer.
LEMMA AnswerFair ==
  ASSUME NEW s \in PoolState, NEW t \in PoolState, NEW g \in Groups, s.pending[g] # <<>>,
         IsInjective(s.pending[g]), NEW rv,
         t.pending = [s.pending EXCEPT ![g] = RemoveAt(s.pending[g], 1)],
         t.callback = [s.callback EXCEPT ![Head(s.pending[g])] = rv], KeepsHeld(s, t)
  PROVE  Fair(s, t)
<1> DEFINE q == s.pending[g]
<1>1. q \in Seq(Handles) /\ q # <<>>
  BY Fields
<1>2. 1 \in 1..Len(q) /\ Head(q) = q[1]
  BY <1>1
<1>3. \A y \in Handles : t.callback[y] # s.callback[y] => y = s.pending[g][1]
  BY <1>2, Fields
<1>4. Leaves(s, t, g, 1)
  BY <1>2, <1>3 DEF Leaves
<1>5. InTurn(s, t)
  BY <1>4, LeavingInTurn
<1> QED BY <1>5 DEF Fair

\* A step that touches no queue, no answer and no socket of a handle.
LEMMA QuietFair ==
  ASSUME NEW s, NEW t, t.pending = s.pending, t.callback = s.callback, t.hsocket = s.hsocket
  PROVE  Fair(s, t)
BY QuietInTurn DEF Fair, KeepsHeld

\* ProcessPendingRequest is fair: it answers the first request of the queue.
LEMMA ProcessPendingRequestFair ==
  ASSUME NEW s, NEW X \in SUBSET Handles, Serving(s, X), NEW g \in Groups,
         s.pending[g] # <<>>, NEW t \in ProcessPendingRequest(s, g)
  PROVE  Fair(s, t)
<1> DEFINE h == Head(s.pending[g])
<1>0. s \in PoolState /\ IsInjective(s.pending[g])
  BY DEF Serving, Good
<1>1. QueuedAt(s, g, 1, h)
  BY <1>0, Fields DEF QueuedAt
<1>2. h \in Handles /\ s.hsocket[h] = NoSocket
  BY <1>1, HeadOfQueue
<1>3. PICK r \in RequestSocketInternal(s, g, h) :
        t = IF r.rv = "PENDING" THEN r.st
            ELSE InvokeUserCallbackLater(
                   RemoveGroupIfEmpty(RemoveRequestFromQueue(r.st, g, 1), g), h, r.rv)
  BY DEF ProcessPendingRequest
<1>4. t \in PoolState
  BY ProcessPendingRequestGood DEF Serving, Good
<1> DEFINE a == r.st
<1>5. a \in PoolState /\ SameRequests(s, a, h)
  BY <1>0, <1>2, RequestSocketInternalEffect DEF RequestEffect, RequestOutcomes
<1>6. Fair(s, a)
  BY <1>2, <1>5, RequestFair
<1>7. CASE r.rv = "PENDING"
  BY <1>3, <1>6, <1>7
<1>8. CASE r.rv # "PENDING"
  <2> DEFINE u == RemoveRequestFromQueue(a, g, 1)
             v == RemoveGroupIfEmpty(u, g)
  <2>1. a.pending = s.pending /\ a.callback = s.callback
    BY <1>5 DEF SameRequests
  <2>2. h = Head(a.pending[g])
    BY <2>1
  <2> HIDE DEF h, a
  <2>3. /\ u.pending = [a.pending EXCEPT ![g] = RemoveAt(a.pending[g], 1)]
        /\ u.callback = a.callback /\ u.hsocket = a.hsocket
    BY <1>5 DEF RemoveRequestFromQueue, PoolState
  <2>4. u \in PoolState
    BY <1>1, <1>5, <2>1, RemoveRequestFromQueueType DEF QueuedAt
  <2> HIDE DEF u
  <2>5. v \in PoolState /\ v.pending = u.pending /\ v.callback = u.callback /\ v.hsocket = u.hsocket
    BY <2>4, RemoveGroupIfEmptyType, ElementaryFrames, ElementarySockets DEF SameRequests
  <2>6. t = InvokeUserCallbackLater(v, h, r.rv)
    BY <1>3, <1>8 DEF a, u
  <2> HIDE DEF v
  <2>7. /\ t.pending = v.pending /\ t.callback = [v.callback EXCEPT ![h] = r.rv]
        /\ t.hsocket = v.hsocket
    BY <2>5, <2>6 DEF InvokeUserCallbackLater, PoolState
  <2>8. KeepsHeld(a, t)
    BY <2>3, <2>5, <2>7 DEF KeepsHeld
  <2>9. a.pending[g] # <<>> /\ IsInjective(a.pending[g]) /\ a \in PoolState
    BY <1>0, <1>5, <2>1
  <2>10. /\ t.pending = [a.pending EXCEPT ![g] = RemoveAt(a.pending[g], 1)]
         /\ t.callback = [a.callback EXCEPT ![Head(a.pending[g])] = r.rv]
    BY <2>2, <2>3, <2>5, <2>7
  <2>11. Fair(a, t)
    BY <1>4, <2>8, <2>9, <2>10, AnswerFair
  <2> QED BY <1>6, <2>11, FairTrans DEF a
<1> QED BY <1>7, <1>8

\* OnAvailableSocketSlot is fair.
LEMMA OnAvailableSocketSlotFair ==
  ASSUME NEW s, NEW X \in SUBSET Handles, Serving(s, X), NEW g \in Groups,
         NEW t \in OnAvailableSocketSlot(s, g)
  PROVE  Fair(s, t)
<1>0. s \in PoolState
  BY DEF Serving, Good
<1>1. t = RemoveGroup(s, g) \/ (s.pending[g] # <<>> /\ t \in ProcessPendingRequest(s, g)) \/ t = s
  BY DEF OnAvailableSocketSlot
<1>2. CASE t = RemoveGroup(s, g) \/ t = s
  <2>1. t.pending = s.pending /\ t.callback = s.callback /\ t.hsocket = s.hsocket
    BY <1>0, <1>2 DEF RemoveGroup, PoolState
  <2> QED BY <2>1, QuietFair
<1> QED BY <1>1, <1>2, ProcessPendingRequestFair

\* CheckForStalledSocketGroups is fair.
LEMMA CheckForStalledSocketGroupsFair ==
  ASSUME NEW s, NEW X \in SUBSET Handles, Serving(s, X),
         NEW t \in CheckForStalledSocketGroups(s)
  PROVE  Fair(s, t)
<1>0. s \in PoolState /\ Good(s, X) /\ Books(s)
  BY DEF Serving, Good
<1>1. TopStalledGroups(s) \subseteq Groups
  BY <1>0, Fields DEF TopStalledGroups
<1>2. \/ t = s
      \/ \E g \in TopStalledGroups(s) : t \in OnAvailableSocketSlot(s, g)
      \/ \E g \in TopStalledGroups(s) :
           \E u \in CloseOneIdleSocketExceptInGroup(s, NoGroup) : t \in OnAvailableSocketSlot(u, g)
  BY DEF CheckForStalledSocketGroups, CloseOneIdleSocket
<1>3. \A u \in CloseOneIdleSocketExceptInGroup(s, NoGroup) : Serving(u, X) /\ Fair(s, u)
  <2> TAKE u \in CloseOneIdleSocketExceptInGroup(s, NoGroup)
  <2>1. u \in PoolState /\ SameRequests(s, u, NoHandle) /\ u.hsocket = s.hsocket /\ Books(u)
    BY <1>0, CloseOneIdleSocketEffect, CloseOneIdleSocketBooks
  <2>2. Serving(u, X)
    BY <1>0, <2>1, GoodFrame
  <2>3. Fair(s, u)
    BY <2>1, QuietFair DEF SameRequests
  <2> QED BY <2>2, <2>3
<1>4. Fair(s, s)
  BY QuietFair
<1>5. CASE \E g \in TopStalledGroups(s) :
             \E u \in CloseOneIdleSocketExceptInGroup(s, NoGroup) : t \in OnAvailableSocketSlot(u, g)
  BY <1>1, <1>3, <1>5, OnAvailableSocketSlotFair, FairTrans
<1> QED BY <1>1, <1>2, <1>4, <1>5, OnAvailableSocketSlotFair

\* OnAvailableThenCheckStalled is fair.
LEMMA OnAvailableThenCheckStalledFair ==
  ASSUME NEW s, NEW X \in SUBSET Handles, Serving(s, X), NEW g \in Groups,
         NEW t \in OnAvailableThenCheckStalled(s, g)
  PROVE  Fair(s, t)
<1>1. PICK u \in OnAvailableSocketSlot(s, g) : t \in CheckForStalledSocketGroups(u)
  BY DEF OnAvailableThenCheckStalled
<1>2. Serving(u, X) /\ Fair(s, u)
  BY OnAvailableSocketSlotGood, OnAvailableSocketSlotFair
<1>3. Fair(u, t)
  BY <1>1, <1>2, CheckForStalledSocketGroupsFair
<1> QED BY <1>2, <1>3, FairTrans

\* ReleaseSocket is fair to everybody but the handle that has let go.
LEMMA ReleaseSocketFair ==
  ASSUME NEW s, Good(s, {}), NEW h \in Handles, NEW b, LetsGo(s, h, b), NEW id, NEW connected,
         NEW t \in ReleaseSocket(b, s.hgroup[h], s.hsocket[h], id, connected)
  PROVE  Fair(b, t)
<1> DEFINE g == s.hgroup[h]
           k == s.hsocket[h]
           d == Released(b, g)
           e == [d EXCEPT !.stale = d.stale \ {k}]
           a == AddIdleSocket(d, g, k)
<1>1. t \in OnAvailableThenCheckStalled(a, g) \/ t \in CheckForStalledSocketGroups(e)
  BY DEF ReleaseSocket, Released
<1> HIDE DEF g, k, d, e
<1>2. g \in Groups /\ Serving(d, {h}) /\ Serving(a, {h}) /\ {h} \in SUBSET Handles
  BY ReleasedServing DEF g, k, d
<1>3. d \in PoolState /\ b \in PoolState
  BY <1>2 DEF Serving, Good, LetsGo
<1>4. Serving(e, {h})
  <2>1. d.stale \ {k} \in SUBSET Sockets
    BY <1>3, Fields
  <2>2. e \in PoolState
    BY <1>3, <2>1, SetStale DEF e
  <2>3. SameBooks(d, e) /\ e.pending = d.pending /\ e.callback = d.callback /\ e.hinit = d.hinit
    BY <1>3 DEF SameBooks, PoolState, e
  <2> QED BY <1>2, <2>2, <2>3, GoodSame
<1>5. Fair(b, d)
  <2>1. d.pending = b.pending /\ d.callback = b.callback /\ d.hsocket = b.hsocket
    BY <1>3 DEF Released, PoolState, d
  <2> QED BY <2>1, QuietFair
<1>6. Fair(b, e)
  <2>1. e.pending = d.pending /\ e.callback = d.callback /\ e.hsocket = d.hsocket
    BY <1>3 DEF PoolState, e
  <2> QED BY <1>5, <2>1, QuietFair, FairTrans
<1>7. Fair(b, a)
  <2>1. a.pending = d.pending /\ a.callback = d.callback /\ a.hsocket = d.hsocket
    BY <1>3 DEF AddIdleSocket, PoolState
  <2> QED BY <1>5, <2>1, QuietFair, FairTrans
<1> HIDE DEF a
<1>8. CASE t \in OnAvailableThenCheckStalled(a, g)
  BY <1>2, <1>7, <1>8, OnAvailableThenCheckStalledFair, FairTrans
<1>9. CASE t \in CheckForStalledSocketGroups(e)
  BY <1>2, <1>4, <1>6, <1>9, CheckForStalledSocketGroupsFair, FairTrans
<1> QED BY <1>1, <1>8, <1>9

\* CancelPendingRequest is fair to the others.
LEMMA CancelPendingRequestFair ==
  ASSUME NEW s, Good(s, {}), NEW h \in Handles, Queued(s, h),
         NEW t \in CancelPendingRequest(s, s.hgroup[h], h)
  PROVE  Fair(s, t)
<1> DEFINE g == s.hgroup[h]
           i == CHOOSE j \in 1..Len(s.pending[g]) : s.pending[g][j] = h
           u == RemoveRequestFromQueue(s, g, i)
<1>0. RequestOK(s, h) /\ s \in PoolState
  BY DEF Good
<1>1. g \in Groups /\ Contains(s.pending[g], h)
  BY <1>0 DEF Queued, RequestOK
<1>2. i \in 1..Len(s.pending[g]) /\ s.pending[g][i] = h
  BY <1>1 DEF Contains
<1>3. t = u \/ \E k \in u.jobs[g] : t \in CheckForStalledSocketGroups(RemoveConnectJob(u, g, k))
  BY <1>1 DEF CancelPendingRequest
<1> HIDE DEF g, i
<1>4. OnlyIn(s, g, h) /\ Unqueued(s, g, i, h, u)
  BY <1>0, <1>2 DEF RequestOK, OnlyIn, Unqueued, QueuedAt, g
<1>5. /\ u.pending = [s.pending EXCEPT ![g] = RemoveAt(s.pending[g], i)]
      /\ u.callback = s.callback /\ u.hsocket = s.hsocket
  BY <1>0 DEF RemoveRequestFromQueue, PoolState
<1> HIDE DEF u
<1>6. Good(u, {} \cup {h}) /\ ~Queued(u, h) /\ OnlyQueues(s, u)
  BY <1>1, <1>4, RemoveRequestGood
<1>7. {} \cup {h} = {h} /\ {h} \in SUBSET Handles
  OBVIOUS
<1>8. Serving(u, {h}) /\ u \in PoolState
  BY <1>0, <1>6, <1>7 DEF Serving, NoRequest, OnlyQueues, Good, RequestOK
<1>9. Fair(s, u)
  <2>1. IsInjective(s.pending[g])
    BY <1>1 DEF Good
  <2>2. Leaves(s, u, g, i)
    BY <1>2, <1>5 DEF Leaves
  <2>3. InTurn(s, u)
    BY <1>0, <1>1, <1>8, <2>1, <2>2, LeavingInTurn
  <2> QED BY <1>5, <2>3 DEF Fair, KeepsHeld
<1>10. ASSUME NEW k \in u.jobs[g]
       PROVE  /\ Serving(RemoveConnectJob(u, g, k), {h})
              /\ Fair(u, RemoveConnectJob(u, g, k))
  <2>1. /\ Serving(RemoveConnectJob(u, g, k), {h})
        /\ SameRequests(u, RemoveConnectJob(u, g, k), NoHandle)
        /\ RemoveConnectJob(u, g, k).hsocket = u.hsocket
    BY <1>1, <1>8, RemoveConnectJobServing
  <2> QED BY <2>1, QuietFair DEF SameRequests
<1>11. ASSUME NEW k \in u.jobs[g], t \in CheckForStalledSocketGroups(RemoveConnectJob(u, g, k))
       PROVE  Fair(s, t)
  <2> DEFINE w == RemoveConnectJob(u, g, k)
  <2>1. Serving(w, {h}) /\ Fair(u, w) /\ t \in CheckForStalledSocketGroups(w)
    BY <1>10, <1>11
  <2> HIDE DEF w
  <2>2. Fair(w, t)
    BY <1>7, <2>1, CheckForStalledSocketGroupsFair
  <2>3. Fair(s, w)
    BY <1>9, <2>1, FairTrans
  <2> QED BY <2>2, <2>3, FairTrans
<1> QED BY <1>3, <1>9, <1>11

\* b is s but for the answer and the socket of handle h, which is in no queue.
Detached(s, h, b) ==
  /\ b.pending = s.pending
  /\ \A y \in Handles : y # h \/ Queued(s, h) =>
       b.callback[y] = s.callback[y] /\ b.hsocket[y] = s.hsocket[y]

\* CancelRequest is fair to the others.
LEMMA CancelRequestFair ==
  ASSUME NEW s, Good(s, {}), NEW h \in Handles, Waiting(s, h),
         NEW t \in CancelRequest(s, s.hgroup[h], h)
  PROVE  \E b : Detached(s, h, b) /\ Fair(b, t)
<1> DEFINE g == s.hgroup[h]
           a == [s EXCEPT !.callback[h] = NoResult]
           b == [a EXCEPT !.hsocket[h] = NoSocket]
<1>0. RequestOK(s, h) /\ s \in PoolState
  BY DEF Good
<1>1. b \in PoolState
  <2>1. a \in PoolState
    BY <1>0, Fields, SetCallback
  <2> QED BY <2>1, Fields, SetHSocket
<1>2. /\ b.idle = s.idle /\ b.jobs = s.jobs /\ b.active = s.active /\ b.idleCount = s.idleCount
      /\ b.connecting = s.connecting /\ b.handedOut = s.handedOut
      /\ b.pending = s.pending /\ b.hgroup = s.hgroup /\ b.hinit = s.hinit
      /\ b.hsocket = [s.hsocket EXCEPT ![h] = NoSocket]
      /\ b.callback = [s.callback EXCEPT ![h] = NoResult]
  BY <1>0 DEF PoolState
<1>3. \/ s.callback[h] = NoResult /\ t \in CancelPendingRequest(s, g, h)
      \/ s.callback[h] # NoResult /\ s.hsocket[h] = NoSocket /\ t = b
      \/ /\ s.callback[h] # NoResult /\ s.hsocket[h] # NoSocket
         /\ \E c \in BOOLEAN : t \in ReleaseSocket(b, g, s.hsocket[h], s.hpoolId[h], c)
  BY DEF CancelRequest
<1> HIDE DEF g, a, b
<1>4. CASE s.callback[h] = NoResult /\ t \in CancelPendingRequest(s, g, h)
  <2>1. Queued(s, h)
    BY <1>0, <1>4 DEF RequestOK
  <2>2. Fair(s, t)
    BY <1>4, <2>1, CancelPendingRequestFair DEF g
  <2>3. Detached(s, h, s)
    BY DEF Detached
  <2> QED BY <2>2, <2>3
<1>5. s.callback[h] # NoResult => ~Queued(s, h) /\ Detached(s, h, b)
  <2>1. s.callback[h] # NoResult => ~Queued(s, h)
    BY <1>0 DEF RequestOK
  <2>2. \A y \in Handles \ {h} : b.callback[y] = s.callback[y] /\ b.hsocket[y] = s.hsocket[y]
    BY <1>0, <1>2, Fields
  <2> QED BY <1>2, <2>1, <2>2 DEF Detached
<1>6. CASE s.callback[h] # NoResult /\ s.hsocket[h] = NoSocket /\ t = b
  BY <1>5, <1>6, QuietFair
<1>7. CASE /\ s.callback[h] # NoResult /\ s.hsocket[h] # NoSocket
           /\ \E c \in BOOLEAN : t \in ReleaseSocket(b, g, s.hsocket[h], s.hpoolId[h], c)
  <2>1. b.callback[h] = NoResult /\ \A y \in Handles \ {h} : b.callback[y] = s.callback[y]
    BY <1>0, <1>2, Fields
  <2>2. LetsGo(s, h, b)
    BY <1>1, <1>2, <1>5, <1>7, <2>1 DEF Waiting, LetsGo
  <2>3. Fair(b, t)
    BY <1>7, <2>2, ReleaseSocketFair DEF g
  <2> QED BY <1>5, <1>7, <2>3
<1> QED BY <1>3, <1>4, <1>6, <1>7

\* OnConnectJobComplete is fair: the socket or the error goes to the first request.
LEMMA OnConnectJobCompleteFair ==
  ASSUME NEW s, Good(s, {}), NEW g \in Groups, NEW k \in s.jobs[g], NEW result,
         NEW t \in OnConnectJobComplete(s, g, k, result)
  PROVE  Fair(s, t)
<1>0. s \in PoolState /\ Serving(s, {}) /\ {} \in SUBSET Handles
  BY DEF Good, Serving
<1>1. CASE s.pending[g] = <<>>
  <2> DEFINE b == RemoveConnectJob(s, g, k)
             a == AddIdleSocket(b, g, k)
  <2>1. Serving(b, {}) /\ k \in FreeSockets(b) /\ b \in PoolState
    BY <1>0, RemoveConnectJobServing, RemoveConnectJobType
  <2>2. Fair(s, b)
    BY <1>0, RemoveConnectJobServing, QuietFair DEF SameRequests
  <2>3. t \in OnAvailableThenCheckStalled(IF result = "OK" THEN a ELSE b, g)
    BY <1>1 DEF OnConnectJobComplete
  <2> HIDE DEF b
  <2>4. Serving(a, {})
    BY <2>1, AddIdleSocketServing
  <2>5. Fair(b, a)
    <3>1. a.pending = b.pending /\ a.callback = b.callback /\ a.hsocket = b.hsocket
      BY <2>1 DEF AddIdleSocket, PoolState
    <3> QED BY <3>1, QuietFair
  <2> HIDE DEF a
  <2>6. Fair(s, a)
    BY <2>2, <2>5, FairTrans
  <2>7. CASE result = "OK"
    BY <1>0, <2>3, <2>4, <2>6, <2>7, OnAvailableThenCheckStalledFair, FairTrans
  <2>8. CASE result # "OK"
    BY <1>0, <2>1, <2>2, <2>3, <2>8, OnAvailableThenCheckStalledFair, FairTrans
  <2> QED BY <2>7, <2>8
<1>2. CASE s.pending[g] # <<>>
  <2> DEFINE h == Head(s.pending[g])
             u == RemoveRequestFromQueue(s, g, 1)
             b == RemoveConnectJob(u, g, k)
             c == HandOutSocket(b, g, h, k)
             e == InvokeUserCallbackLater(b, h, "ERR")
  <2>1. QueuedAt(s, g, 1, h) /\ Unqueued(s, g, 1, h, u)
    BY <1>0, <1>2, Fields DEF QueuedAt, Unqueued
  <2>2. /\ h \in Handles /\ s.hgroup[h] = g /\ ~s.hinit[h]
        /\ s.hsocket[h] = NoSocket /\ s.callback[h] = NoResult
        /\ OnlyIn(s, g, h)
    BY <1>0, <2>1, HeadOfQueue
  <2>3. \/ \E rv \in {"OK", "ERR"} : t = InvokeUserCallbackLater(c, h, rv)
        \/ t \in OnAvailableThenCheckStalled(e, g)
    BY <1>2 DEF OnConnectJobComplete
  <2>4. /\ u.pending = [s.pending EXCEPT ![g] = RemoveAt(s.pending[g], 1)]
        /\ u.callback = s.callback /\ u.hsocket = s.hsocket
    BY <1>0 DEF RemoveRequestFromQueue, PoolState
  <2> HIDE DEF u
  <2>5. Good(u, {} \cup {h}) /\ ~Queued(u, h) /\ OnlyQueues(s, u)
    BY <2>1, <2>2, RemoveRequestGood
  <2>6. Serving(u, {h}) /\ k \in u.jobs[g]
    <3>1. {} \cup {h} = {h}
      OBVIOUS
    <3> QED BY <2>2, <2>5, <3>1 DEF Serving, NoRequest, OnlyQueues
  <2>7. /\ Serving(b, {h}) /\ k \in FreeSockets(b)
        /\ SameRequests(u, b, NoHandle) /\ b.hsocket = u.hsocket
    BY <2>6, RemoveConnectJobServing
  <2> HIDE DEF b
  <2>8. /\ b \in PoolState /\ Good(b, {h}) /\ ~Queued(b, h)
        /\ b.hgroup[h] = g /\ ~b.hinit[h] /\ b.hsocket[h] = NoSocket
        /\ b.pending = u.pending /\ b.callback = u.callback
    BY <2>2, <2>5, <2>7 DEF Serving, Good, NoRequest, SameRequests, OnlyQueues
  <2>9. IsInjective(s.pending[g])
    BY DEF Good
  <2>10. ASSUME NEW rv \in {"OK", "ERR"}, t = InvokeUserCallbackLater(c, h, rv) PROVE Fair(s, t)
    <3>1. t \in PoolState
      BY OnConnectJobCompleteGood DEF Good
    <3>2. k \in Sockets
      BY <2>7 DEF FreeSockets
    <3>3. c \in PoolState /\ SameRequests(b, c, h)
      BY <2>2, <2>8, <3>2, HandOutSocketType, ElementaryFrames
    <3> HIDE DEF c
    <3>4. t.pending = c.pending /\ t.hsocket = c.hsocket /\ t.callback = [c.callback EXCEPT ![h] = rv]
      BY <2>10, <3>3 DEF InvokeUserCallbackLater, PoolState
    <3>5. /\ t.pending = [s.pending EXCEPT ![g] = RemoveAt(s.pending[g], 1)]
          /\ t.callback = [s.callback EXCEPT ![Head(s.pending[g])] = rv]
      BY <2>4, <2>8, <3>3, <3>4 DEF SameRequests
    <3>6. KeepsHeld(s, t)
      BY <2>2, <2>4, <2>7, <3>3, <3>4 DEF SameRequests, KeepsHeld, Holders
    <3> QED BY <1>0, <1>2, <2>9, <3>1, <3>5, <3>6, AnswerFair
  <2>11. Serving(e, {}) /\ e \in PoolState
    <3>1. Good(b, {} \cup {h})
      <4>1. {h} = {} \cup {h}
        OBVIOUS
      <4> QED BY <2>8, <4>1
    <3>2. "ERR" \in Results /\ g # NoGroup
      BY PoolAssumption DEF Results
    <3>3. Good(e, {})
      BY <2>2, <2>8, <3>1, <3>2, AnswerGood
    <3> QED BY <3>3 DEF Serving, Good
  <2>12. Fair(s, e)
    <3>1. e.pending = b.pending /\ e.hsocket = b.hsocket /\ e.callback = [b.callback EXCEPT ![h] = "ERR"]
      BY <2>8 DEF InvokeUserCallbackLater, PoolState
    <3>2. /\ e.pending = [s.pending EXCEPT ![g] = RemoveAt(s.pending[g], 1)]
          /\ e.callback = [s.callback EXCEPT ![Head(s.pending[g])] = "ERR"]
      BY <2>4, <2>8, <3>1
    <3>3. KeepsHeld(s, e)
      BY <2>4, <2>7, <3>1 DEF KeepsHeld
    <3> HIDE DEF e, h
    <3> QED BY <1>0, <1>2, <2>9, <2>11, <3>2, <3>3, AnswerFair
  <2> HIDE DEF c, e
  <2>13. t \in OnAvailableThenCheckStalled(e, g) => Fair(s, t)
    BY <1>0, <2>11, <2>12, OnAvailableThenCheckStalledFair, FairTrans
  <2> QED BY <2>3, <2>10, <2>13
<1> QED BY <1>1, <1>2
-----------------------------------------------------------------------------
(***************************************************************************)
(* The steps of the pool.                                                  *)
(***************************************************************************)
\* What ServedInOrder says of a step.
ServesInOrder(s, t) ==
  \A g \in Groups :
    LET q == s.pending[g]
        r == t.pending[g]
    IN  /\ \A i, j \in 1..Len(q) :
             i < j /\ t.callback[q[j]] \in {"OK", "ERR"} => ~Contains(r, q[i])
        /\ \A i, j \in 1..Len(r) :
             i < j /\ ~Contains(q, r[i]) => Priority[r[i]] < Priority[r[j]]

\* What HeldSocketStays says of a step.
LeavesSockets(s, t) ==
  \A h \in Holders(s) :
    t.hsocket[h] # s.hsocket[h] => t.hsocket[h] = NoSocket /\ t.hgroup[h] = NoGroup

StepOK(s, t) == ServesInOrder(s, t) /\ LeavesSockets(s, t) /\ Sorted(t)

\* A step is right when it is fair after a handle has let go of what it had.
LEMMA FairStep ==
  ASSUME NEW s, Good(s, {}), Sorted(s), NEW h, NEW b, Detached(s, h, b), NEW t, Fair(b, t),
         h \in Holders(s) /\ b.hsocket[h] # s.hsocket[h] => t.hsocket[h] = NoSocket /\ t.hgroup[h] = NoGroup
  PROVE  StepOK(s, t)
<1>0. s \in PoolState /\ InTurn(b, t) /\ b.pending = s.pending
  BY DEF Good, Fair, Detached
<1>1. \A g, x, y : Ahead(b, g, x, y) <=> Ahead(s, g, x, y)
  BY <1>0 DEF Ahead
<1>2. ServesInOrder(s, t)
  <2> SUFFICES ASSUME NEW g \in Groups
               PROVE  /\ \A i, j \in 1..Len(s.pending[g]) :
                           i < j /\ t.callback[s.pending[g][j]] \in {"OK", "ERR"}
                             => ~Contains(t.pending[g], s.pending[g][i])
                      /\ \A i, j \in 1..Len(t.pending[g]) :
                           i < j /\ ~Contains(s.pending[g], t.pending[g][i])
                             => Priority[t.pending[g][i]] < Priority[t.pending[g][j]]
    BY DEF ServesInOrder
  <2>1. ASSUME NEW i \in 1..Len(s.pending[g]), NEW j \in 1..Len(s.pending[g]), i < j,
               t.callback[s.pending[g][j]] \in {"OK", "ERR"}
        PROVE  ~Contains(t.pending[g], s.pending[g][i])
    <3> DEFINE x == s.pending[g][i]
               y == s.pending[g][j]
    <3>1. y \in Handles /\ Contains(s.pending[g], y)
      BY <1>0, Fields DEF Contains
    <3>2. Ahead(b, g, x, y)
      <4>1. Ahead(s, g, x, y)
        BY <2>1 DEF Ahead
      <4> HIDE DEF x, y
      <4> QED BY <1>1, <4>1
    <3>3. t.callback[y] # NoResult
      BY <2>1, PoolAssumption
    <3> HIDE DEF x, y
    <3>4. RequestOK(s, y) /\ Queued(s, y)
      BY <3>1 DEF Good, Queued
    <3>5. s.callback[y] = NoResult /\ b.callback[y] = s.callback[y]
      BY <3>1, <3>4 DEF RequestOK, Detached
    <3>6. PICK z \in Groups : /\ Contains(b.pending[z], y)
                              /\ \A v : Ahead(b, z, v, y) => ~Contains(t.pending[z], v)
      BY <1>0, <3>1, <3>3, <3>5 DEF InTurn
    <3>7. z = g
      BY <1>0, <3>1, <3>4, <3>6 DEF RequestOK
    <3> QED BY <3>2, <3>6, <3>7 DEF x
  <2>2. ASSUME NEW i \in 1..Len(t.pending[g])
        PROVE  Contains(s.pending[g], t.pending[g][i])
    <3>1. Contains(t.pending[g], t.pending[g][i])
      BY DEF Contains
    <3> QED BY <1>0, <3>1 DEF InTurn
  <2> QED BY <2>1, <2>2
<1>3. LeavesSockets(s, t)
  BY DEF LeavesSockets, Detached, Fair, KeepsHeld, Holders
<1>4. Sorted(t)
  <2>1. Sorted(b)
    BY <1>1 DEF Sorted
  <2> QED BY <1>0, <2>1, FairSorted
<1> QED BY <1>2, <1>3, <1>4 DEF StepOK

\* The case that nobody lets go.
LEMMA FairStepAlone ==
  ASSUME NEW s, Good(s, {}), Sorted(s), NEW t, Fair(s, t)
  PROVE  StepOK(s, t)
<1>1. Detached(s, NoHandle, s)
  BY DEF Detached
<1> QED BY <1>1, FairStep

\* A new request queues up behind every one that is at least as urgent.
LEMMA InsertRequestStep ==
  ASSUME NEW s, Good(s, {}), Sorted(s), NEW h \in Handles, NEW g \in Groups,
         NEW a, Serving(a, {h}), a.pending = s.pending, a.callback = s.callback, KeepsHeld(s, a)
  PROVE  StepOK(s, InsertRequestIntoQueue(a, g, h))
<1> DEFINE t == InsertRequestIntoQueue(a, g, h)
           q == s.pending[g]
           p == InsertPosition(q, h)
           r == InsertAt(q, p, h)
<1>0. s \in PoolState /\ a \in PoolState /\ q \in Seq(Handles) /\ Len(q) \in Nat
  BY Fields DEF Good, Serving
<1>1. /\ t.pending = [s.pending EXCEPT ![g] = r]
      /\ t.callback = s.callback /\ t.hsocket = a.hsocket
  BY <1>0 DEF InsertRequestIntoQueue, PoolState
<1>2. /\ p \in 1..(Len(q) + 1)
      /\ \A j \in 1..(p - 1) : Priority[h] >= Priority[q[j]]
      /\ p <= Len(q) => Priority[h] < Priority[q[p]]
  BY <1>0, InsertPositionProperties
<1> HIDE DEF p, q
<1>3. /\ Len(r) = Len(q) + 1
      /\ \A j \in 1..(Len(q) + 1) : r[j] = IF j < p THEN q[j] ELSE IF j = p THEN h ELSE q[j - 1]
  BY <1>0, <1>2, InsertAtProperties
<1> HIDE DEF t, r
<1>4. t.pending[g] = r /\ \A z \in Groups : z # g => t.pending[z] = s.pending[z]
  BY <1>0, <1>1, Fields
<1>5. \A j \in 1..Len(q) : q[j] \in Handles
  BY <1>0
<1>6. \A i, j \in 1..Len(q) : i <= j => Priority[q[i]] <= Priority[q[j]]
  <2>1. \A i, j \in 1..Len(q) : i < j => Priority[q[i]] <= Priority[q[j]]
    BY DEF Sorted, Ahead, q
  <2>2. \A i \in 1..Len(q) : Priority[q[i]] <= Priority[q[i]]
    BY <1>5, PoolAssumption
  <2>3. \A i, j \in 1..Len(q) : i <= j => i = j \/ i < j
    BY <1>0
  <2> QED BY <2>1, <2>2, <2>3
<1>7. ASSUME NEW j \in 1..Len(r), p < j PROVE r[j] \in Handles /\ Priority[h] < Priority[r[j]]
  <2>1. r[j] = q[j - 1] /\ j - 1 \in 1..Len(q) /\ p \in 1..Len(q) /\ p <= j - 1 /\ p <= Len(q)
    BY <1>0, <1>2, <1>3, <1>7
  <2>2. Priority[h] < Priority[q[p]] /\ Priority[q[p]] <= Priority[q[j - 1]]
    BY <1>2, <1>6, <2>1
  <2>3. /\ Priority[h] \in Nat /\ Priority[q[p]] \in Nat /\ Priority[q[j - 1]] \in Nat
        /\ q[j - 1] \in Handles
    BY <1>5, <2>1, PoolAssumption
  <2> QED BY <2>1, <2>2, <2>3
<1>8. ASSUME NEW i \in 1..Len(r), i # p
      PROVE  \E k \in 1..Len(q) : r[i] = q[k] /\ k = IF i < p THEN i ELSE i - 1
  <2>1. (IF i < p THEN i ELSE i - 1) \in 1..Len(q)
    BY <1>0, <1>2, <1>3, <1>8
  <2>2. r[i] = IF i < p THEN q[i] ELSE q[i - 1]
    BY <1>3, <1>8
  <2> QED BY <2>1, <2>2
<1>9. ServesInOrder(s, t)
  <2>1. ASSUME NEW z \in Groups, NEW j \in 1..Len(s.pending[z])
        PROVE  t.callback[s.pending[z][j]] \notin {"OK", "ERR"}
    <3>1. s.pending[z][j] \in Handles /\ Contains(s.pending[z], s.pending[z][j])
      BY <1>0, Fields DEF Contains
    <3>2. s.callback[s.pending[z][j]] = NoResult
      BY <3>1 DEF Good, RequestOK, Queued
    <3> QED BY <1>1, <3>2, PoolAssumption
  <2>2. ASSUME NEW z \in Groups, NEW i \in 1..Len(t.pending[z]), NEW j \in 1..Len(t.pending[z]),
               i < j, ~Contains(s.pending[z], t.pending[z][i])
        PROVE  Priority[t.pending[z][i]] < Priority[t.pending[z][j]]
    <3>1. z = g
      BY <1>4, <2>2 DEF Contains
    <3>2. i \in 1..Len(r) /\ j \in 1..Len(r) /\ ~Contains(q, r[i])
      BY <1>4, <2>2, <3>1 DEF q
    <3>3. i = p
      BY <1>8, <3>2 DEF Contains
    <3>4. r[i] = h
      BY <1>2, <1>3, <3>3
    <3> QED BY <1>4, <1>7, <2>2, <3>1, <3>2, <3>3, <3>4
  <2> QED BY <2>1, <2>2 DEF ServesInOrder
<1>10. LeavesSockets(s, t)
  BY <1>1 DEF LeavesSockets, KeepsHeld
<1>11. Sorted(t)
  <2> SUFFICES ASSUME NEW z \in Groups, NEW x, NEW y, Ahead(t, z, x, y)
               PROVE  Priority[x] <= Priority[y]
    BY DEF Sorted
  <2>1. CASE z # g
    <3>1. Ahead(s, z, x, y)
      BY <1>4, <2>1 DEF Ahead
    <3> QED BY <3>1 DEF Sorted
  <2>2. CASE z = g
    <3>1. PICK i, j \in 1..Len(r) : i < j /\ x = r[i] /\ y = r[j]
      BY <1>4, <2>2 DEF Ahead
    <3>2. CASE i = p
      <4>1. r[i] = h
        BY <1>2, <1>3, <3>2
      <4>2. Priority[r[j]] \in Nat /\ Priority[h] \in Nat /\ Priority[h] < Priority[r[j]]
        BY <1>7, <3>1, <3>2, PoolAssumption
      <4> QED BY <3>1, <4>1, <4>2
    <3>3. CASE j = p
      <4>1. r[j] = h /\ r[i] = q[i] /\ i \in 1..(p - 1) /\ i \in 1..Len(q)
        BY <1>0, <1>2, <1>3, <3>1, <3>3
      <4>2. Priority[h] >= Priority[q[i]] /\ Priority[h] \in Nat /\ Priority[q[i]] \in Nat
        BY <1>2, <1>5, <4>1, PoolAssumption
      <4> QED BY <3>1, <4>1, <4>2
    <3>4. CASE i # p /\ j # p
      <4>1. PICK k \in 1..Len(q) : r[i] = q[k] /\ k = IF i < p THEN i ELSE i - 1
        BY <1>8, <3>1, <3>4
      <4>2. PICK l \in 1..Len(q) : r[j] = q[l] /\ l = IF j < p THEN j ELSE j - 1
        BY <1>8, <3>1, <3>4
      <4>3. k <= l
        BY <1>2, <3>1, <3>4, <4>1, <4>2
      <4> QED BY <1>6, <3>1, <4>1, <4>2, <4>3
    <3> QED BY <3>2, <3>3, <3>4
  <2> QED BY <2>1, <2>2
<1> QED BY <1>9, <1>10, <1>11 DEF StepOK, t

\* Clearing a handle touches no queue, no answer and no socket.
LEMMA ClearHandleFair ==
  ASSUME NEW b, NEW h \in Handles, NEW t, Serving(t, {h}), Fair(b, t)
  PROVE  LET u == ClearHandle(t, h)
         IN  u.hgroup[h] = NoGroup /\ u.hsocket[h] = NoSocket /\ Fair(b, u)
<1> DEFINE u == ClearHandle(t, h)
<1>0. t \in PoolState /\ t.hsocket[h] = NoSocket
  BY DEF Serving, Good, NoRequest
<1>1. /\ u.pending = t.pending /\ u.callback = t.callback /\ u.hsocket = t.hsocket
      /\ u.hgroup = [t.hgroup EXCEPT ![h] = NoGroup]
  BY <1>0 DEF ClearHandle, PoolState
<1> HIDE DEF u
<1>2. u.hgroup[h] = NoGroup
  BY <1>0, <1>1, Fields
<1>3. Fair(b, u)
  BY <1>1, QuietFair, FairTrans
<1> QED BY <1>0, <1>1, <1>2, <1>3 DEF u

\* RequestSocket.
LEMMA RequestSocketStep ==
  ASSUME Inv, Sorted(pool), NEW h \in Handles, NEW g \in Groups, RequestSocket(h, g)
  PROVE  StepOK(pool, pool')
<1> DEFINE s == [pool EXCEPT !.hgroup[h] = g]
<1>0. pool \in PoolState /\ Good(pool, {}) /\ pool.hgroup[h] = NoGroup
  BY DEF Inv, Good, RequestSocket
<1>1. s.hsocket = pool.hsocket /\ s.pending = pool.pending /\ s.callback = pool.callback
  BY <1>0 DEF PoolState
<1>2. Serving(s, {h})
  BY <1>0, RequestingServing
<1>3. PICK r \in RequestSocketInternal(s, g, h) :
        pool' = IF r.rv = "PENDING" THEN InsertRequestIntoQueue(r.st, g, h)
                                    ELSE HandleInitCompletion(r.st, h)
  BY DEF RequestSocket
<1> HIDE DEF s
<1>4. s \in PoolState /\ NoRequest(s, h)
  BY <1>2 DEF Serving, Good
<1>5. RequestEffect(s, r, h) /\ Books(r.st)
  BY <1>0, <1>2, <1>4, RequestSocketInternalEffect, RequestSocketInternalBooks, RequestingServing
     DEF Serving, Good, NoRequest, s
<1> DEFINE a == r.st
<1>6. /\ a \in PoolState /\ SameRequests(s, a, h)
      /\ r.rv = "PENDING" => a.hsocket[h] = NoSocket
  BY <1>4, <1>5 DEF RequestEffect, RequestOutcomes, NoRequest
<1> HIDE DEF a
<1>7. Fair(pool, a)
  <2>1. Fair(s, a)
    BY <1>4, <1>6, RequestFair DEF NoRequest
  <2>2. Fair(pool, s)
    BY <1>1, QuietFair
  <2> QED BY <2>1, <2>2, FairTrans
<1>8. CASE r.rv = "PENDING"
  <2>1. Good(a, {h})
    <3>1. Good(a, {h} \cup {h})
      BY <1>2, <1>5, <1>6, GoodFrame DEF Serving, a
    <3>2. {h} \cup {h} = {h}
      OBVIOUS
    <3> QED BY <3>1, <3>2
  <2>2. Serving(a, {h})
    BY <1>4, <1>6, <1>8, <2>1 DEF Serving, NoRequest, Queued, SameRequests
  <2>3. a.pending = pool.pending /\ a.callback = pool.callback
    BY <1>1, <1>6 DEF SameRequests
  <2>4. pool' = InsertRequestIntoQueue(a, g, h)
    BY <1>3, <1>8 DEF a
  <2> QED BY <1>0, <1>7, <2>2, <2>3, <2>4, InsertRequestStep DEF Fair
<1>9. CASE r.rv # "PENDING"
  <2>1. pool' = HandleInitCompletion(a, h)
    BY <1>3, <1>9 DEF a
  <2>2. pool'.pending = a.pending /\ pool'.callback = a.callback /\ pool'.hsocket = a.hsocket
    BY <1>6, <2>1 DEF HandleInitCompletion, ClearHandle, PoolState
  <2>3. Fair(pool, pool')
    BY <1>7, <2>2, QuietFair, FairTrans
  <2> QED BY <1>0, <2>3, FairStepAlone
<1> QED BY <1>8, <1>9

\* RequestSockets.
LEMMA RequestSocketsStep ==
  ASSUME Inv, Sorted(pool), NEW g \in Groups, RequestSockets(g)
  PROVE  StepOK(pool, pool')
<1>0. pool \in PoolState /\ Good(pool, {})
  BY DEF Inv, Good
<1>1. PICK r \in RequestSocketInternal(pool, g, NoHandle) : pool' = RemoveGroupIfEmpty(r.st, g)
  BY DEF RequestSockets
<1>2. r.st \in PoolState /\ SameRequests(pool, r.st, NoHandle)
  BY <1>0, RequestSocketInternalEffect DEF RequestEffect, RequestOutcomes
<1>3. Fair(pool, r.st)
  BY <1>2, RequestFair, PoolAssumption
<1>4. /\ pool'.pending = r.st.pending /\ pool'.callback = r.st.callback
      /\ pool'.hsocket = r.st.hsocket
  BY <1>1, <1>2 DEF RemoveGroupIfEmpty, RemoveGroup, PoolState
<1>5. Fair(pool, pool')
  BY <1>3, <1>4, QuietFair, FairTrans
<1> QED BY <1>0, <1>5, FairStepAlone

\* ResetInitialized: the handle lets go of its socket.
LEMMA ResetInitializedStep ==
  ASSUME Inv, Sorted(pool), NEW h \in Handles, NEW connected \in BOOLEAN,
         ResetInitialized(h, connected)
  PROVE  StepOK(pool, pool')
<1> DEFINE b == [pool EXCEPT !.hsocket[h] = NoSocket]
<1>0. pool \in PoolState /\ Good(pool, {}) /\ RequestOK(pool, h)
  BY DEF Inv, Good
<1>1. LetsGo(pool, h, b)
  BY LettingGo DEF ResetInitialized
<1>2. ~Queued(pool, h)
  BY <1>0 DEF RequestOK, Waiting, ResetInitialized
<1>3. /\ b.pending = pool.pending /\ b.callback = pool.callback
      /\ b.hsocket = [pool.hsocket EXCEPT ![h] = NoSocket]
  BY <1>0 DEF PoolState
<1>4. PICK t \in ReleaseSocket(b, pool.hgroup[h], pool.hsocket[h], pool.hpoolId[h], connected) :
        pool' = ClearHandle(t, h)
  BY DEF ResetInitialized
<1> HIDE DEF b
<1>5. Detached(pool, h, b)
  BY <1>0, <1>2, <1>3, Fields DEF Detached
<1>6. Serving(t, {h}) /\ Fair(b, t)
  BY <1>0, <1>1, <1>4, ReleaseSocketGood, ReleaseSocketFair
<1>7. pool'.hgroup[h] = NoGroup /\ pool'.hsocket[h] = NoSocket /\ Fair(b, pool')
  BY <1>4, <1>6, ClearHandleFair
<1> QED BY <1>0, <1>5, <1>7, FairStep

\* ResetPending: the handle lets go of its request and of what it may have got.
LEMMA ResetPendingStep ==
  ASSUME Inv, Sorted(pool), NEW h \in Handles, ResetPending(h)
  PROVE  StepOK(pool, pool')
<1>0. Good(pool, {}) /\ Waiting(pool, h)
  BY DEF Inv, ResetPending, Waiting
<1>1. PICK t \in CancelRequest(pool, pool.hgroup[h], h) : pool' = ClearHandle(t, h)
  BY DEF ResetPending
<1>2. Serving(t, {h})
  BY <1>0, CancelRequestGood
<1>3. PICK b : Detached(pool, h, b) /\ Fair(b, t)
  BY <1>0, CancelRequestFair
<1>4. pool'.hgroup[h] = NoGroup /\ pool'.hsocket[h] = NoSocket /\ Fair(b, pool')
  BY <1>1, <1>2, <1>3, ClearHandleFair
<1> QED BY <1>0, <1>3, <1>4, FairStep

\* InvokeUserCallback: the answer is delivered.
LEMMA InvokeUserCallbackStep ==
  ASSUME Inv, Sorted(pool), NEW h \in Handles, InvokeUserCallback(h)
  PROVE  StepOK(pool, pool')
<1> DEFINE s == [pool EXCEPT !.callback[h] = NoResult]
<1>0. pool \in PoolState /\ Good(pool, {}) /\ RequestOK(pool, h) /\ pool.callback[h] # NoResult
  BY DEF Inv, Good, InvokeUserCallback
<1>1. s \in PoolState
  BY <1>0, Fields, SetCallback
<1>2. /\ s.callback = [pool.callback EXCEPT ![h] = NoResult]
      /\ s.pending = pool.pending /\ s.hsocket = pool.hsocket
  BY <1>0 DEF PoolState
<1>3. pool' = HandleInitCompletion(s, h)
  BY DEF InvokeUserCallback
<1> HIDE DEF s
<1>4. Detached(pool, h, s)
  BY <1>0, <1>2, Fields DEF Detached, RequestOK
<1>5. pool'.pending = s.pending /\ pool'.callback = s.callback /\ pool'.hsocket = s.hsocket
  BY <1>1, <1>3 DEF HandleInitCompletion, ClearHandle, PoolState
<1>6. Fair(s, pool')
  BY <1>5, QuietFair
<1> QED BY <1>0, <1>2, <1>4, <1>6, FairStep

\* OnBackupSocketTimerFired.
LEMMA OnBackupSocketTimerFiredStep ==
  ASSUME Inv, Sorted(pool), NEW g \in Groups, OnBackupSocketTimerFired(g)
  PROVE  StepOK(pool, pool')
<1>0. pool \in PoolState /\ Good(pool, {})
  BY DEF Inv, Good
<1> SUFFICES Fair(pool, pool')
  BY <1>0, FairStepAlone
<1>1. \/ pool' = [pool EXCEPT !.backup[g] = FALSE]
      \/ \E k \in FreeSockets(pool) : pool' = [AddConnectJob(pool, g, k) EXCEPT !.backup[g] = FALSE]
      \/ \E k \in FreeSockets(pool), rv \in ConnectResults :
           \E t \in OnConnectJobComplete(AddConnectJob(pool, g, k), g, k, rv) :
             pool' = [t EXCEPT !.backup[g] = FALSE]
  BY DEF OnBackupSocketTimerFired
<1>2. ASSUME NEW t, Good(t, {}), Fair(pool, t), pool' = [t EXCEPT !.backup[g] = FALSE]
      PROVE  Fair(pool, pool')
  <2>1. pool'.pending = t.pending /\ pool'.callback = t.callback /\ pool'.hsocket = t.hsocket
    BY <1>2 DEF Good, PoolState
  <2> QED BY <1>2, <2>1, QuietFair, FairTrans
<1>3. ASSUME NEW k \in FreeSockets(pool)
      PROVE  /\ Good(AddConnectJob(pool, g, k), {}) /\ k \in AddConnectJob(pool, g, k).jobs[g]
             /\ Fair(pool, AddConnectJob(pool, g, k))
  <2> DEFINE u == AddConnectJob(pool, g, k)
  <2>1. u.pending = pool.pending /\ u.callback = pool.callback /\ u.hsocket = pool.hsocket
    BY <1>0 DEF AddConnectJob, PoolState
  <2> QED BY <2>1, AddConnectJobGood, QuietFair
<1>4. Fair(pool, pool)
  BY QuietFair
<1>5. CASE \E k \in FreeSockets(pool), rv \in ConnectResults :
             \E t \in OnConnectJobComplete(AddConnectJob(pool, g, k), g, k, rv) :
               pool' = [t EXCEPT !.backup[g] = FALSE]
  <2>1. PICK k \in FreeSockets(pool), rv \in ConnectResults :
          \E t \in OnConnectJobComplete(AddConnectJob(pool, g, k), g, k, rv) :
            pool' = [t EXCEPT !.backup[g] = FALSE]
    BY <1>5
  <2>2. PICK t \in OnConnectJobComplete(AddConnectJob(pool, g, k), g, k, rv) :
          pool' = [t EXCEPT !.backup[g] = FALSE]
    BY <2>1
  <2>3. Good(t, {})
    BY <1>3, OnConnectJobCompleteGood
  <2>4. Fair(AddConnectJob(pool, g, k), t)
    BY <1>3, OnConnectJobCompleteFair
  <2>5. Fair(pool, t)
    BY <1>3, <2>4, FairTrans
  <2> QED BY <1>2, <2>2, <2>3, <2>5
<1>6. CASE pool' = [pool EXCEPT !.backup[g] = FALSE]
  BY <1>0, <1>2, <1>4, <1>6
<1>7. CASE \E k \in FreeSockets(pool) : pool' = [AddConnectJob(pool, g, k) EXCEPT !.backup[g] = FALSE]
  BY <1>2, <1>3, <1>7
<1> QED BY <1>1, <1>5, <1>6, <1>7

\* CleanupIdleSockets.
LEMMA CleanupIdleSocketsStep ==
  ASSUME Inv, Sorted(pool), NEW dead \in SUBSET Sockets, CleanupIdleSockets(dead)
  PROVE  StepOK(pool, pool')
<1>0. pool \in PoolState /\ Good(pool, {})
  BY DEF Inv, Good
<1>1. /\ pool'.pending = pool.pending /\ pool'.callback = pool.callback
      /\ pool'.hsocket = pool.hsocket
  BY <1>0 DEF CleanupIdleSockets, PoolState
<1> QED BY <1>0, <1>1, QuietFair, FairStepAlone

\* Flush: every queue is emptied, and nobody in one is answered with a socket.
LEMMA FlushStep ==
  ASSUME Inv, Flush
  PROVE  StepOK(pool, pool')
<1>0. pool \in PoolState
  BY DEF Inv, Good
<1>1. /\ pool'.pending = [g \in Groups |-> <<>>] /\ pool'.hsocket = pool.hsocket
      /\ pool'.callback = [h \in Handles |-> IF \E g \in Groups : Contains(pool.pending[g], h)
                                             THEN "ABORTED" ELSE pool.callback[h]]
  BY <1>0 DEF Flush, PoolState
<1>2. \A g \in Groups : pool'.pending[g] = <<>> /\ \A x : ~Contains(pool'.pending[g], x)
  BY <1>1 DEF Contains
<1>3. ServesInOrder(pool, pool')
  BY <1>2 DEF ServesInOrder
<1>4. LeavesSockets(pool, pool')
  BY <1>1 DEF LeavesSockets
<1>5. Sorted(pool')
  BY <1>2 DEF Sorted, Ahead
<1> QED BY <1>3, <1>4, <1>5 DEF StepOK

-----------------------------------------------------------------------------
(***************************************************************************)
(* The theorems.                                                           *)
(***************************************************************************)
\* Every step of the pool is right when the queues are in order before it.
LEMMA EveryStepOK ==
  ASSUME Inv, Sorted(pool), [Next]_pool
  PROVE  StepOK(pool, pool')
<1>1. ASSUME NEW h \in Handles, NEW g \in Groups, RequestSocket(h, g) PROVE StepOK(pool, pool')
  BY <1>1, RequestSocketStep
<1>2. ASSUME NEW g \in Groups, RequestSockets(g) PROVE StepOK(pool, pool')
  BY <1>2, RequestSocketsStep
<1>3. ASSUME NEW h \in Handles, NEW connected \in BOOLEAN, ResetInitialized(h, connected)
      PROVE  StepOK(pool, pool')
  BY <1>3, ResetInitializedStep
<1>4. ASSUME NEW h \in Handles, ResetPending(h) PROVE StepOK(pool, pool')
  BY <1>4, ResetPendingStep
<1>5. ASSUME NEW g \in Groups, NEW k \in Sockets, ConnectJobDone(g, k) PROVE StepOK(pool, pool')
  BY <1>5, OnConnectJobCompleteFair, FairStepAlone DEF ConnectJobDone, Inv
<1>6. ASSUME NEW h \in Handles, InvokeUserCallback(h) PROVE StepOK(pool, pool')
  BY <1>6, InvokeUserCallbackStep
<1>7. ASSUME NEW g \in Groups, OnBackupSocketTimerFired(g) PROVE StepOK(pool, pool')
  BY <1>7, OnBackupSocketTimerFiredStep
<1>8. ASSUME NEW dead \in SUBSET Sockets, CleanupIdleSockets(dead) PROVE StepOK(pool, pool')
  BY <1>8, CleanupIdleSocketsStep
<1>9. CASE Flush
  BY <1>9, FlushStep
<1>10. CASE UNCHANGED pool
  BY <1>10, QuietFair, FairStepAlone DEF Inv
<1> QED BY <1>1, <1>2, <1>3, <1>4, <1>5, <1>6, <1>7, <1>8, <1>9, <1>10 DEF Next

QueuesSorted == Sorted(pool)

\* Every queue is always in the order of its requests' priorities: InsertRequestIntoQueue
\* is the only way in, and all that happens to a queue besides is that requests leave it.
THEOREM QueuesStaySorted == Spec => []QueuesSorted
<1>1. Init => QueuesSorted
  BY DEF Init, EmptyPool, QueuesSorted, Sorted, Ahead
<1>2. Inv /\ QueuesSorted /\ [Next]_pool => QueuesSorted'
  <2>1. Inv /\ Sorted(pool) /\ [Next]_pool => Sorted(pool')
    BY EveryStepOK DEF StepOK
  <2> QED BY <2>1 DEF QueuesSorted
<1> QED BY <1>1, <1>2, PoolInvariant, PTL DEF Spec

\* Requests of a group are answered in the order of the queue, and a new request never
\* overtakes one that is at least as urgent, whatever the answer comes from: an idle or
\* a released socket, a slot that becomes free, a ConnectJob or an error.
THEOREM RequestsServedInOrder == Spec => ServedInOrder
<1>1. Inv /\ QueuesSorted /\ [Next]_pool =>
        [\A g \in Groups :
           LET q == pool.pending[g]
               r == pool'.pending[g]
           IN  /\ \A i, j \in 1..Len(q) :
                    i < j /\ pool'.callback[q[j]] \in {"OK", "ERR"} => ~Contains(r, q[i])
               /\ \A i, j \in 1..Len(r) :
                    i < j /\ ~Contains(q, r[i]) => Priority[r[i]] < Priority[r[j]]]_pool
  BY EveryStepOK DEF StepOK, ServesInOrder, QueuesSorted
<1> QED BY <1>1, PoolInvariant, QueuesStaySorted, PTL DEF Spec, ServedInOrder

\* A client that has a socket keeps that socket until its own Reset: no answer, timer,
\* cleanup or Flush takes it away or puts another one in its place.
THEOREM HeldSocketsStay == Spec => HeldSocketStays
<1>1. Inv /\ QueuesSorted /\ [Next]_pool =>
        [\A h \in Holders(pool) :
           pool'.hsocket[h] # pool.hsocket[h] =>
             pool'.hsocket[h] = NoSocket /\ pool'.hgroup[h] = NoGroup]_pool
  BY EveryStepOK DEF StepOK, LeavesSockets, QueuesSorted
<1> QED BY <1>1, PoolInvariant, QueuesStaySorted, PTL DEF Spec, HeldSocketStays
=============================================================================
