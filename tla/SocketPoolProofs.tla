-------------------------- MODULE SocketPoolProofs --------------------------
(***************************************************************************)
(* Type correctness and safety of the socket pool, for every set of        *)
(* groups, handles and sockets and for all limits.  The lemmas on queues   *)
(* and on the single operations, each of which takes a well-formed pool to *)
(* well-formed pools, are used by the safety proofs as well.               *)
(***************************************************************************)
EXTENDS SocketPool, SequenceLemmas

-----------------------------------------------------------------------------
(***************************************************************************)
(* Queues.                                                                 *)
(***************************************************************************)
\* The loop of InsertRequestIntoQueue stops at a position of the queue or at its end.
LEMMA InsertPositionProperties ==
  ASSUME NEW q \in Seq(Handles), NEW h \in Handles
  PROVE  LET i == InsertPosition(q, h)
         IN  /\ i \in 1..(Len(q) + 1)
             /\ \A j \in 1..(i - 1) : Priority[h] >= Priority[q[j]]
             /\ i <= Len(q) => Priority[h] < Priority[q[i]]
<1> DEFINE T == {i \in 1..(Len(q) + 1) : i = Len(q) + 1 \/ Priority[h] < Priority[q[i]]}
<1>1. T \in SUBSET Nat /\ T # {}
  <2>1. Len(q) \in Nat
    OBVIOUS
  <2>2. Len(q) + 1 \in T
    BY <2>1
  <2>3. T \subseteq Nat
    BY <2>1
  <2> QED BY <2>2, <2>3
<1>2. PICK i \in T : \A y \in T : i <= y
  <2> HIDE DEF T
  <2> QED BY <1>1, LeastNatural
<1>3. \A j \in 1..(i - 1) : j \in 1..Len(q) /\ q[j] \in Handles /\ j \notin T
  BY <1>2
<1>4. \A j \in 1..(i - 1) : Priority[h] \in Nat /\ Priority[q[j]] \in Nat /\ Priority[h] >= Priority[q[j]]
  BY <1>3, PoolAssumption
<1>5. i <= Len(q) => Priority[h] < Priority[q[i]]
  BY <1>2
<1>6. \E x \in 1..(Len(q) + 1) :
        /\ \A j \in 1..(x - 1) : Priority[h] >= Priority[q[j]]
        /\ x <= Len(q) => Priority[h] < Priority[q[x]]
  BY <1>2, <1>4, <1>5
<1> QED BY <1>6 DEF InsertPosition
-----------------------------------------------------------------------------
(***************************************************************************)
(* One field at a time.                                                    *)
(***************************************************************************)
\* The types of the fields of a pool.
LEMMA Fields ==
  ASSUME NEW s \in PoolState
  PROVE  /\ s.groups \subseteq Groups
         /\ s.idle \in [Groups -> SUBSET Sockets]
         /\ s.jobs \in [Groups -> SUBSET Sockets]
         /\ s.pending \in [Groups -> Seq(Handles)]
         /\ s.active \in [Groups -> Int]
         /\ s.backup \in [Groups -> BOOLEAN]
         /\ s.unusedPre \subseteq Sockets
         /\ s.idleCount \in Int /\ s.connecting \in Int /\ s.handedOut \in Int
         /\ s.generation \in Nat
         /\ s.callback \in [Handles -> Results \cup {NoResult}]
         /\ s.hgroup \in [Handles -> Groups \cup {NoGroup}]
         /\ s.hinit \in [Handles -> BOOLEAN]
         /\ s.hsocket \in [Handles -> Sockets \cup {NoSocket}]
         /\ s.hpoolId \in [Handles -> Nat \cup {-1}]
         /\ s.stale \subseteq Sockets
BY DEF PoolState

\* Replacing a field by a value of its type keeps the pool well formed.
LEMMA SetGroups ==
  ASSUME NEW s \in PoolState, NEW x \in SUBSET Groups
  PROVE  [s EXCEPT !.groups = x] \in PoolState
BY DEF PoolState

\* The same for idle_sockets_.
LEMMA SetIdle ==
  ASSUME NEW s \in PoolState, NEW x \in [Groups -> SUBSET Sockets]
  PROVE  [s EXCEPT !.idle = x] \in PoolState
BY DEF PoolState

\* The same for jobs_.
LEMMA SetJobs ==
  ASSUME NEW s \in PoolState, NEW x \in [Groups -> SUBSET Sockets]
  PROVE  [s EXCEPT !.jobs = x] \in PoolState
BY DEF PoolState

\* The same for pending_requests_.
LEMMA SetPending ==
  ASSUME NEW s \in PoolState, NEW x \in [Groups -> Seq(Handles)]
  PROVE  [s EXCEPT !.pending = x] \in PoolState
BY DEF PoolState

\* The same for active_socket_count_.
LEMMA SetActive ==
  ASSUME NEW s \in PoolState, NEW x \in [Groups -> Int]
  PROVE  [s EXCEPT !.active = x] \in PoolState
BY DEF PoolState

\* The same for the backup timer (method_factory_).
LEMMA SetBackup ==
  ASSUME NEW s \in PoolState, NEW x \in [Groups -> BOOLEAN]
  PROVE  [s EXCEPT !.backup = x] \in PoolState
BY DEF PoolState

\* The same for the set of unused preconnect jobs.
LEMMA SetUnusedPre ==
  ASSUME NEW s \in PoolState, NEW x \in SUBSET Sockets
  PROVE  [s EXCEPT !.unusedPre = x] \in PoolState
BY DEF PoolState

\* The same for idle_socket_count_.
LEMMA SetIdleCount ==
  ASSUME NEW s \in PoolState, NEW x \in Int
  PROVE  [s EXCEPT !.idleCount = x] \in PoolState
BY DEF PoolState

\* The same for connecting_socket_count_.
LEMMA SetConnecting ==
  ASSUME NEW s \in PoolState, NEW x \in Int
  PROVE  [s EXCEPT !.connecting = x] \in PoolState
BY DEF PoolState

\* The same for handed_out_socket_count_.
LEMMA SetHandedOut ==
  ASSUME NEW s \in PoolState, NEW x \in Int
  PROVE  [s EXCEPT !.handedOut = x] \in PoolState
BY DEF PoolState

\* The same for pool_generation_number_.
LEMMA SetGeneration ==
  ASSUME NEW s \in PoolState, NEW x \in Nat
  PROVE  [s EXCEPT !.generation = x] \in PoolState
BY DEF PoolState

\* The same for pending_callback_map_.
LEMMA SetCallback ==
  ASSUME NEW s \in PoolState, NEW x \in [Handles -> Results \cup {NoResult}]
  PROVE  [s EXCEPT !.callback = x] \in PoolState
BY DEF PoolState

\* The same for the handles' group_name_.
LEMMA SetHGroup ==
  ASSUME NEW s \in PoolState, NEW x \in [Handles -> Groups \cup {NoGroup}]
  PROVE  [s EXCEPT !.hgroup = x] \in PoolState
BY DEF PoolState

\* The same for the handles' is_initialized_.
LEMMA SetHInit ==
  ASSUME NEW s \in PoolState, NEW x \in [Handles -> BOOLEAN]
  PROVE  [s EXCEPT !.hinit = x] \in PoolState
BY DEF PoolState

\* The same for the handles' socket_.
LEMMA SetHSocket ==
  ASSUME NEW s \in PoolState, NEW x \in [Handles -> Sockets \cup {NoSocket}]
  PROVE  [s EXCEPT !.hsocket = x] \in PoolState
BY DEF PoolState

\* The same for the handles' pool_id_.
LEMMA SetHPoolId ==
  ASSUME NEW s \in PoolState, NEW x \in [Handles -> Nat \cup {-1}]
  PROVE  [s EXCEPT !.hpoolId = x] \in PoolState
BY DEF PoolState

\* The same for the history of flushed sockets.
LEMMA SetStale ==
  ASSUME NEW s \in PoolState, NEW x \in SUBSET Sockets
  PROVE  [s EXCEPT !.stale = x] \in PoolState
BY DEF PoolState

-----------------------------------------------------------------------------
(***************************************************************************)
(* Elementary operations.                                                  *)
(***************************************************************************)
LEMMA EmptyPoolType == EmptyPool \in PoolState
BY PoolAssumption DEF EmptyPool, PoolState, Results

\* GetOrCreateGroup takes a well-formed pool to well-formed pools.
LEMMA GetOrCreateGroupType ==
  ASSUME NEW s \in PoolState, NEW g \in Groups
  PROVE  GetOrCreateGroup(s, g) \in PoolState
BY DEF GetOrCreateGroup, PoolState

\* RemoveGroup takes a well-formed pool to well-formed pools.
LEMMA RemoveGroupType ==
  ASSUME NEW s \in PoolState, NEW g \in Groups
  PROVE  RemoveGroup(s, g) \in PoolState
BY DEF RemoveGroup, PoolState

\* RemoveGroupIfEmpty takes a well-formed pool to well-formed pools.
LEMMA RemoveGroupIfEmptyType ==
  ASSUME NEW s \in PoolState, NEW g \in Groups
  PROVE  RemoveGroupIfEmpty(s, g) \in PoolState
BY RemoveGroupType DEF RemoveGroupIfEmpty

\* InsertRequestIntoQueue takes a well-formed pool to well-formed pools.
LEMMA InsertRequestIntoQueueType ==
  ASSUME NEW s \in PoolState, NEW g \in Groups, NEW h \in Handles
  PROVE  InsertRequestIntoQueue(s, g, h) \in PoolState
<1> DEFINE q == InsertAt(s.pending[g], InsertPosition(s.pending[g], h), h)
<1>1. q \in Seq(Handles)
  BY Fields, InsertPositionProperties, InsertAtProperties
<1> HIDE DEF q
<1>2. [s EXCEPT !.pending[g] = q] \in PoolState
  BY <1>1, Fields, SetPending
<1> QED BY <1>2 DEF InsertRequestIntoQueue, q

\* RemoveRequestFromQueue takes a well-formed pool to well-formed pools.
LEMMA RemoveRequestFromQueueType ==
  ASSUME NEW s \in PoolState, NEW g \in Groups, NEW i \in 1..Len(s.pending[g])
  PROVE  RemoveRequestFromQueue(s, g, i) \in PoolState
<1> DEFINE q == RemoveAt(s.pending[g], i)
           b == s.backup[g] /\ q # <<>>
           t == [s EXCEPT !.pending[g] = q]
<1>1. q \in Seq(Handles) /\ b \in BOOLEAN
  BY Fields, RemoveAtProperties
<1> HIDE DEF q, b
<1>2. t \in PoolState
  BY <1>1, Fields, SetPending
<1> HIDE DEF t
<1>3. [t EXCEPT !.backup[g] = b] \in PoolState
  BY <1>1, <1>2, Fields, SetBackup
<1> QED BY <1>3 DEF RemoveRequestFromQueue, t, q, b

\* RemoveConnectJob takes a well-formed pool to well-formed pools.
LEMMA RemoveConnectJobType ==
  ASSUME NEW s \in PoolState, NEW g \in Groups, NEW k
  PROVE  RemoveConnectJob(s, g, k) \in PoolState
<1> DEFINE js == s.jobs[g] \ {k}
           b  == s.backup[g] /\ js # {}
           t1 == [s EXCEPT !.connecting = s.connecting - 1]
           t2 == [t1 EXCEPT !.jobs[g] = js]
           t3 == [t2 EXCEPT !.unusedPre = s.unusedPre \ {k}]
           t4 == [t3 EXCEPT !.backup[g] = b]
<1>1. /\ js \in SUBSET Sockets /\ b \in BOOLEAN
      /\ s.connecting - 1 \in Int /\ s.unusedPre \ {k} \in SUBSET Sockets
  BY Fields
<1> HIDE DEF js, b
<1>2. t1 \in PoolState
  BY <1>1, SetConnecting
<1> HIDE DEF t1
<1>3. t2 \in PoolState
  BY <1>1, <1>2, Fields, SetJobs
<1> HIDE DEF t2
<1>4. t3 \in PoolState
  BY <1>1, <1>3, SetUnusedPre
<1> HIDE DEF t3
<1>5. t4 \in PoolState
  BY <1>1, <1>4, Fields, SetBackup
<1> QED BY <1>5 DEF RemoveConnectJob, t1, t2, t3, js, b

\* AddConnectJob takes a well-formed pool to well-formed pools.
LEMMA AddConnectJobType ==
  ASSUME NEW s \in PoolState, NEW g \in Groups, NEW k \in Sockets
  PROVE  AddConnectJob(s, g, k) \in PoolState
<1> DEFINE t == [s EXCEPT !.connecting = s.connecting + 1]
<1>1. t \in PoolState
  <2>1. s.connecting + 1 \in Int
    BY Fields
  <2> QED BY <2>1, SetConnecting
<1>2. s.jobs[g] \cup {k} \in SUBSET Sockets
  BY Fields
<1> HIDE DEF t
<1>3. [t EXCEPT !.jobs[g] = s.jobs[g] \cup {k}] \in PoolState
  BY <1>1, <1>2, Fields, SetJobs
<1> QED BY <1>3 DEF AddConnectJob, t

\* HandOutSocket takes a well-formed pool to well-formed pools.
LEMMA HandOutSocketType ==
  ASSUME NEW s \in PoolState, NEW g \in Groups, NEW h \in Handles, NEW k \in Sockets
  PROVE  HandOutSocket(s, g, h, k) \in PoolState
<1> DEFINE t1 == [s EXCEPT !.hsocket[h] = k]
           t2 == [t1 EXCEPT !.hpoolId[h] = s.generation]
           t3 == [t2 EXCEPT !.handedOut = s.handedOut + 1]
           t4 == [t3 EXCEPT !.active[g] = s.active[g] + 1]
<1>1. s.handedOut + 1 \in Int /\ s.active[g] + 1 \in Int /\ s.generation \in Nat
  BY Fields
<1>2. t1 \in PoolState
  BY Fields, SetHSocket
<1> HIDE DEF t1
<1>3. t2 \in PoolState
  BY <1>1, <1>2, Fields, SetHPoolId
<1> HIDE DEF t2
<1>4. t3 \in PoolState
  BY <1>1, <1>3, SetHandedOut
<1> HIDE DEF t3
<1>5. t4 \in PoolState
  BY <1>1, <1>4, Fields, SetActive
<1> QED BY <1>5 DEF HandOutSocket, t1, t2, t3

\* AddIdleSocket takes a well-formed pool to well-formed pools.
LEMMA AddIdleSocketType ==
  ASSUME NEW s \in PoolState, NEW g \in Groups, NEW k \in Sockets
  PROVE  AddIdleSocket(s, g, k) \in PoolState
<1> DEFINE t == [s EXCEPT !.idle[g] = s.idle[g] \cup {k}]
<1>1. t \in PoolState
  <2>1. [s.idle EXCEPT ![g] = s.idle[g] \cup {k}] \in [Groups -> SUBSET Sockets]
    BY Fields
  <2> QED BY <2>1, SetIdle
<1>2. s.idleCount + 1 \in Int
  BY Fields
<1> HIDE DEF t
<1>3. [t EXCEPT !.idleCount = s.idleCount + 1] \in PoolState
  BY <1>1, <1>2, SetIdleCount
<1> QED BY <1>3 DEF AddIdleSocket, t

\* RemoveIdleSocket takes a well-formed pool to well-formed pools.
LEMMA RemoveIdleSocketType ==
  ASSUME NEW s \in PoolState, NEW g \in Groups, NEW k
  PROVE  RemoveIdleSocket(s, g, k) \in PoolState
<1> DEFINE t == [s EXCEPT !.idle[g] = s.idle[g] \ {k}]
<1>1. t \in PoolState
  <2>1. [s.idle EXCEPT ![g] = s.idle[g] \ {k}] \in [Groups -> SUBSET Sockets]
    BY Fields
  <2> QED BY <2>1, SetIdle
<1>2. s.idleCount - 1 \in Int
  BY Fields
<1> HIDE DEF t
<1>3. [t EXCEPT !.idleCount = s.idleCount - 1] \in PoolState
  BY <1>1, <1>2, SetIdleCount
<1> QED BY <1>3 DEF RemoveIdleSocket, t

\* InvokeUserCallbackLater takes a well-formed pool to well-formed pools.
LEMMA InvokeUserCallbackLaterType ==
  ASSUME NEW s \in PoolState, NEW h \in Handles, NEW rv \in Results
  PROVE  InvokeUserCallbackLater(s, h, rv) \in PoolState
BY Fields, SetCallback DEF InvokeUserCallbackLater

\* ClearHandle takes a well-formed pool to well-formed pools.
LEMMA ClearHandleType ==
  ASSUME NEW s \in PoolState, NEW h \in Handles
  PROVE  ClearHandle(s, h) \in PoolState
<1> DEFINE t1 == [s EXCEPT !.hinit[h] = FALSE]
           t2 == [t1 EXCEPT !.hgroup[h] = NoGroup]
<1>1. t1 \in PoolState
  BY Fields, SetHInit
<1> HIDE DEF t1
<1>2. t2 \in PoolState
  BY <1>1, Fields, SetHGroup
<1> HIDE DEF t2
<1>3. [t2 EXCEPT !.hpoolId[h] = -1] \in PoolState
  BY <1>2, Fields, SetHPoolId
<1> QED BY <1>3 DEF ClearHandle, t1, t2

\* HandleInitCompletion takes a well-formed pool to well-formed pools.
LEMMA HandleInitCompletionType ==
  ASSUME NEW s \in PoolState, NEW h \in Handles
  PROVE  HandleInitCompletion(s, h) \in PoolState
BY ClearHandleType, Fields, SetHInit DEF HandleInitCompletion

-----------------------------------------------------------------------------
(***************************************************************************)
(* Requesting a socket: what may come out, and what it leaves alone.       *)
(***************************************************************************)
\* What a request may return to its caller.
RequestOutcomes == [st : PoolState, rv : {"OK", "PENDING", "ERR"}]

\* Between s and t no request was added, removed or answered, and no handle
\* other than h changed.
SameRequests(s, t, h) ==
  /\ t.pending = s.pending
  /\ t.callback = s.callback
  /\ t.hgroup = s.hgroup
  /\ t.hinit = s.hinit
  /\ t.generation = s.generation
  /\ t.stale = s.stale
  /\ \A x \in Handles \ {h} : t.hsocket[x] = s.hsocket[x] /\ t.hpoolId[x] = s.hpoolId[x]

\* What RequestSocketInternal for h may do to a pool s.
RequestEffect(s, r, h) ==
  /\ r \in RequestOutcomes
  /\ SameRequests(s, r.st, h)
  /\ h \in Handles => /\ r.rv = "PENDING" => r.st.hsocket[h] = s.hsocket[h]
                      /\ r.rv = "OK" => r.st.hsocket[h] # NoSocket

\* Two steps that leave a handle's request alone leave it alone together.
LEMMA SameRequestsTrans ==
  ASSUME NEW s, NEW t, NEW u, NEW h, SameRequests(s, t, h), SameRequests(t, u, h)
  PROVE  SameRequests(s, u, h)
BY DEF SameRequests

\* The single writes to groups, jobs, idle sockets and timers leave the
\* request of a handle as it is.
LEMMA ElementaryFrames ==
  ASSUME NEW s \in PoolState, NEW g \in Groups, NEW h, NEW k
  PROVE  /\ SameRequests(s, GetOrCreateGroup(s, g), h)
         /\ SameRequests(s, RemoveGroupIfEmpty(s, g), h)
         /\ SameRequests(s, StartBackupSocketTimer(s, g), h)
         /\ SameRequests(s, AddConnectJob(s, g, k), h)
         /\ SameRequests(s, AddIdleSocket(s, g, k), h)
         /\ SameRequests(s, RemoveIdleSocket(s, g, k), h)
         /\ h \in Handles => SameRequests(s, HandOutSocket(s, g, h, k), h)
<1>1. SameRequests(s, GetOrCreateGroup(s, g), h)
  BY DEF SameRequests, GetOrCreateGroup, PoolState
<1>2. SameRequests(s, RemoveGroupIfEmpty(s, g), h)
  BY DEF SameRequests, RemoveGroupIfEmpty, RemoveGroup, PoolState
<1>3. SameRequests(s, StartBackupSocketTimer(s, g), h)
  BY DEF SameRequests, StartBackupSocketTimer, PoolState
<1>4. SameRequests(s, AddConnectJob(s, g, k), h)
  BY DEF SameRequests, AddConnectJob, PoolState
<1>5. SameRequests(s, AddIdleSocket(s, g, k), h)
  BY DEF SameRequests, AddIdleSocket, PoolState
<1>6. SameRequests(s, RemoveIdleSocket(s, g, k), h)
  BY DEF SameRequests, RemoveIdleSocket, PoolState
<1>7. h \in Handles => SameRequests(s, HandOutSocket(s, g, h, k), h)
  BY DEF SameRequests, HandOutSocket, PoolState
<1> QED BY <1>1, <1>2, <1>3, <1>4, <1>5, <1>6, <1>7

\* The operations that do not hand out a socket leave the sockets of all handles alone.
LEMMA ElementarySockets ==
  ASSUME NEW s \in PoolState, NEW g \in Groups, NEW k
  PROVE  /\ GetOrCreateGroup(s, g).hsocket = s.hsocket
         /\ RemoveGroupIfEmpty(s, g).hsocket = s.hsocket
         /\ StartBackupSocketTimer(s, g).hsocket = s.hsocket
         /\ AddConnectJob(s, g, k).hsocket = s.hsocket
         /\ AddIdleSocket(s, g, k).hsocket = s.hsocket
         /\ RemoveIdleSocket(s, g, k).hsocket = s.hsocket
<1>1. GetOrCreateGroup(s, g).hsocket = s.hsocket
  BY DEF GetOrCreateGroup, PoolState
<1>2. RemoveGroupIfEmpty(s, g).hsocket = s.hsocket
  BY DEF RemoveGroupIfEmpty, RemoveGroup, PoolState
<1>3. StartBackupSocketTimer(s, g).hsocket = s.hsocket
  BY DEF StartBackupSocketTimer, PoolState
<1>4. AddConnectJob(s, g, k).hsocket = s.hsocket
  BY DEF AddConnectJob, PoolState
<1>5. AddIdleSocket(s, g, k).hsocket = s.hsocket
  BY DEF AddIdleSocket, PoolState
<1>6. RemoveIdleSocket(s, g, k).hsocket = s.hsocket
  BY DEF RemoveIdleSocket, PoolState
<1> QED BY <1>1, <1>2, <1>3, <1>4, <1>5, <1>6

\* HandOutSocket binds the handle to the socket.
LEMMA HandOutSocketGives ==
  ASSUME NEW s \in PoolState, NEW g \in Groups, NEW h \in Handles, NEW k \in Sockets
  PROVE  HandOutSocket(s, g, h, k).hsocket[h] = k
BY DEF HandOutSocket, PoolState

\* CloseOneIdleSocketExceptInGroup leaves requests and handles alone.
LEMMA CloseOneIdleSocketEffect ==
  ASSUME NEW s \in PoolState, NEW x, NEW h, NEW t \in CloseOneIdleSocketExceptInGroup(s, x)
  PROVE  t \in PoolState /\ SameRequests(s, t, h) /\ t.hsocket = s.hsocket
<1>1. \E g \in Groups : \E k \in s.idle[g] :
        t = RemoveGroupIfEmpty(RemoveIdleSocket(s, g, k), g)
  BY DEF CloseOneIdleSocketExceptInGroup
<1>2. ASSUME NEW g \in Groups, NEW k
      PROVE  LET u == RemoveGroupIfEmpty(RemoveIdleSocket(s, g, k), g)
             IN  u \in PoolState /\ SameRequests(s, u, h) /\ u.hsocket = s.hsocket
  <2> DEFINE v == RemoveIdleSocket(s, g, k)
  <2>1. v \in PoolState /\ SameRequests(s, v, h) /\ v.hsocket = s.hsocket
    BY RemoveIdleSocketType, ElementaryFrames, ElementarySockets
  <2> HIDE DEF v
  <2>2. /\ RemoveGroupIfEmpty(v, g) \in PoolState
        /\ SameRequests(v, RemoveGroupIfEmpty(v, g), h)
        /\ RemoveGroupIfEmpty(v, g).hsocket = v.hsocket
    BY <2>1, RemoveGroupIfEmptyType, ElementaryFrames, ElementarySockets
  <2>3. SameRequests(s, RemoveGroupIfEmpty(v, g), h)
    BY <2>1, <2>2, SameRequestsTrans
  <2> QED BY <2>1, <2>2, <2>3 DEF v
<1> QED BY <1>1, <1>2

\* Deleting the idle sockets that turn out to be dead.
DropIdle(s, g, dead) == [s EXCEPT !.idle[g] = @ \ dead, !.idleCount = @ - Cardinality(dead)]

\* Closing idle sockets of a group leaves requests and handles alone.
LEMMA DropIdleEffect ==
  ASSUME NEW s \in PoolState, NEW g \in Groups, NEW dead \in SUBSET s.idle[g], NEW h
  PROVE  LET t == DropIdle(s, g, dead)
         IN  t \in PoolState /\ SameRequests(s, t, h) /\ t.hsocket = s.hsocket
<1> DEFINE n == Cardinality(dead)
           t == [s EXCEPT !.idle[g] = s.idle[g] \ dead]
           u == [t EXCEPT !.idleCount = s.idleCount - n]
<1>1. [s.idle EXCEPT ![g] = s.idle[g] \ dead] \in [Groups -> SUBSET Sockets]
  BY Fields
<1>2. t \in PoolState
  BY <1>1, SetIdle
<1>3. dead \in SUBSET Sockets
  BY Fields
<1>4. n \in Nat
  BY <1>3, PoolAssumption, FS_Subset, FS_CardinalityType
<1> HIDE DEF n
<1>5. s.idleCount - n \in Int
  BY <1>4, Fields
<1>6. SameRequests(s, t, h) /\ t.hsocket = s.hsocket
  BY DEF SameRequests, PoolState
<1> HIDE DEF t
<1>7. u \in PoolState
  BY <1>2, <1>5, SetIdleCount
<1>8. SameRequests(t, u, h) /\ u.hsocket = t.hsocket
  BY <1>2 DEF SameRequests, PoolState
<1>9. SameRequests(s, u, h) /\ u.hsocket = s.hsocket
  BY <1>6, <1>8, SameRequestsTrans
<1> QED BY <1>7, <1>9 DEF DropIdle, t, n

\* AssignIdleSocketToGroup says OK exactly when the handle got an idle socket.
LEMMA AssignIdleSocketToGroupEffect ==
  ASSUME NEW s \in PoolState, NEW g \in Groups, NEW h \in Handles,
         NEW r \in AssignIdleSocketToGroup(s, g, h)
  PROVE  /\ r \in [st : PoolState, rv : {"OK", "NONE"}]
         /\ SameRequests(s, r.st, h)
         /\ r.rv = "NONE" => r.st.hsocket = s.hsocket
         /\ r.rv = "OK" => r.st.hsocket[h] # NoSocket
<1>1. PICK dead \in SUBSET s.idle[g] :
        r \in IF DropIdle(s, g, dead).idle[g] = {}
              THEN {Outcome(DropIdle(s, g, dead), "NONE")}
              ELSE {Outcome(HandOutSocket(RemoveIdleSocket(DropIdle(s, g, dead), g, k), g, h, k), "OK")
                      : k \in DropIdle(s, g, dead).idle[g]}
  BY DEF AssignIdleSocketToGroup, DropIdle
<1> DEFINE t == DropIdle(s, g, dead)
<1>2. t \in PoolState /\ SameRequests(s, t, h) /\ t.hsocket = s.hsocket
  BY DropIdleEffect
<1> HIDE DEF t
<1>3. CASE r = Outcome(t, "NONE")
  BY <1>2, <1>3 DEF Outcome
<1>4. ASSUME NEW k \in t.idle[g],
             r = Outcome(HandOutSocket(RemoveIdleSocket(t, g, k), g, h, k), "OK")
      PROVE  /\ r \in [st : PoolState, rv : {"OK", "NONE"}]
             /\ SameRequests(s, r.st, h)
             /\ r.rv = "OK" /\ r.st.hsocket[h] # NoSocket
  <2> DEFINE u == RemoveIdleSocket(t, g, k)
             v == HandOutSocket(u, g, h, k)
  <2>1. k \in Sockets /\ k # NoSocket
    BY <1>2, Fields, PoolAssumption
  <2>2. u \in PoolState /\ SameRequests(t, u, h)
    BY <1>2, <2>1, RemoveIdleSocketType, ElementaryFrames
  <2> HIDE DEF u
  <2>3. v \in PoolState /\ SameRequests(u, v, h) /\ v.hsocket[h] = k
    BY <2>1, <2>2, HandOutSocketType, ElementaryFrames, HandOutSocketGives
  <2> HIDE DEF v
  <2>4. SameRequests(s, v, h)
    BY <1>2, <2>2, <2>3, SameRequestsTrans
  <2>5. r = Outcome(v, "OK")
    BY <1>4 DEF u, v
  <2> QED BY <2>1, <2>3, <2>4, <2>5 DEF Outcome
<1>5. r = Outcome(t, "NONE")
      \/ \E k \in t.idle[g] : r = Outcome(HandOutSocket(RemoveIdleSocket(t, g, k), g, h, k), "OK")
  BY <1>1 DEF t
<1> QED BY <1>3, <1>4, <1>5

\* StartBackupSocketTimer takes a well-formed pool to well-formed pools.
LEMMA StartBackupSocketTimerType ==
  ASSUME NEW s \in PoolState, NEW g \in Groups
  PROVE  StartBackupSocketTimer(s, g) \in PoolState
BY Fields, SetBackup DEF StartBackupSocketTimer

\* Adding a job to connect later answers no request.
LEMMA ConnectPendingEffect ==
  ASSUME NEW s \in PoolState, NEW g \in Groups, NEW h, NEW k \in Sockets
  PROVE  RequestEffect(s, ConnectPending(s, g, h, k), h)
<1> DEFINE t == IF BackupJobsEnabled /\ IsEmpty(s, g) /\ ~s.backup[g] /\ h # NoHandle
                THEN StartBackupSocketTimer(s, g) ELSE s
           u == AddConnectJob(t, g, k)
           v == IF h = NoHandle THEN [u EXCEPT !.unusedPre = @ \cup {k}] ELSE u
<1>1. t \in PoolState /\ SameRequests(s, t, h) /\ t.hsocket = s.hsocket
  <2>1. SameRequests(s, s, h)
    BY DEF SameRequests
  <2> QED BY <2>1, StartBackupSocketTimerType, ElementaryFrames, ElementarySockets
<1> HIDE DEF t
<1>2. u \in PoolState /\ SameRequests(t, u, h) /\ u.hsocket = t.hsocket
  BY <1>1, AddConnectJobType, ElementaryFrames, ElementarySockets
<1> HIDE DEF u
<1>3. u.unusedPre \cup {k} \in SUBSET Sockets
  BY <1>2, Fields
<1>4. v \in PoolState
  BY <1>2, <1>3, SetUnusedPre
<1>5. SameRequests(u, v, h) /\ v.hsocket = u.hsocket
  BY <1>2 DEF SameRequests, PoolState
<1> HIDE DEF v
<1>6. SameRequests(s, v, h) /\ v.hsocket = s.hsocket
  BY <1>1, <1>2, <1>5, SameRequestsTrans
<1>7. RequestEffect(s, Outcome(v, "PENDING"), h)
  BY <1>4, <1>6 DEF Outcome, RequestOutcomes, RequestEffect
<1> QED BY <1>7 DEF ConnectPending, t, u, v

\* A new ConnectJob ends in a socket for the handle, in a job, or in an error.
LEMMA ConnectNewSocketEffect ==
  ASSUME NEW s \in PoolState, NEW g \in Groups, NEW h \in Handles \cup {NoHandle},
         NEW r \in ConnectNewSocket(s, g, h)
  PROVE  RequestEffect(s, r, h)
<1>1. PICK rv \in ConnectResults, k \in FreeSockets(s) :
        r = CASE rv = "OK" ->
                   Outcome(IF h = NoHandle THEN AddIdleSocket(s, g, k)
                                           ELSE HandOutSocket(s, g, h, k), "OK")
              [] rv = "PENDING" -> ConnectPending(s, g, h, k)
              [] rv = "ERR_WITH_SOCKET" /\ h # NoHandle ->
                   Outcome(HandOutSocket(s, g, h, k), "ERR")
              [] OTHER -> Outcome(RemoveGroupIfEmpty(s, g), "ERR")
  BY DEF ConnectNewSocket
<1>2. k \in Sockets /\ k # NoSocket
  BY PoolAssumption DEF FreeSockets
<1>3. h # NoHandle => /\ HandOutSocket(s, g, h, k) \in PoolState
                      /\ SameRequests(s, HandOutSocket(s, g, h, k), h)
                      /\ HandOutSocket(s, g, h, k).hsocket[h] # NoSocket
  BY <1>2, HandOutSocketType, ElementaryFrames, HandOutSocketGives
<1>4. /\ AddIdleSocket(s, g, k) \in PoolState
      /\ SameRequests(s, AddIdleSocket(s, g, k), h)
      /\ RemoveGroupIfEmpty(s, g) \in PoolState
      /\ SameRequests(s, RemoveGroupIfEmpty(s, g), h)
  BY <1>2, AddIdleSocketType, RemoveGroupIfEmptyType, ElementaryFrames
<1>5. RequestEffect(s, ConnectPending(s, g, h, k), h)
  BY <1>2, ConnectPendingEffect
<1>6. NoHandle \notin Handles
  BY PoolAssumption
<1>7. CASE rv = "OK" /\ h = NoHandle
  BY <1>1, <1>4, <1>6, <1>7 DEF Outcome, RequestOutcomes, RequestEffect
<1>8. CASE rv = "OK" /\ h # NoHandle
  BY <1>1, <1>3, <1>8 DEF Outcome, RequestOutcomes, RequestEffect
<1>9. CASE rv = "PENDING"
  BY <1>1, <1>5, <1>9
<1>10. CASE rv = "ERR_WITH_SOCKET" /\ h # NoHandle
  BY <1>1, <1>3, <1>10 DEF Outcome, RequestOutcomes, RequestEffect
<1>11. CASE rv # "OK" /\ rv # "PENDING" /\ ~(rv = "ERR_WITH_SOCKET" /\ h # NoHandle)
  BY <1>1, <1>4, <1>11 DEF Outcome, RequestOutcomes, RequestEffect
<1> QED BY <1>7, <1>8, <1>9, <1>10, <1>11

\* The same when a preconnect job, an idle socket elsewhere or the limits come first.
LEMMA ActivateNewSocketEffect ==
  ASSUME NEW s \in PoolState, NEW g \in Groups, NEW h \in Handles \cup {NoHandle},
         NEW r \in ActivateNewSocket(s, g, h)
  PROVE  RequestEffect(s, r, h)
<1>1. /\ r = Outcome(s, "PENDING") => RequestEffect(s, r, h)
      /\ r = Outcome(s, "ERR") => RequestEffect(s, r, h)
  BY DEF Outcome, RequestOutcomes, RequestEffect, SameRequests
<1>2. ASSUME NEW k, r = Outcome([s EXCEPT !.unusedPre = @ \ {k}], "PENDING")
      PROVE  RequestEffect(s, r, h)
  <2> DEFINE t == [s EXCEPT !.unusedPre = s.unusedPre \ {k}]
  <2>1. s.unusedPre \ {k} \in SUBSET Sockets
    BY Fields
  <2>2. t \in PoolState
    BY <2>1, SetUnusedPre
  <2>3. SameRequests(s, t, h) /\ t.hsocket = s.hsocket
    BY DEF SameRequests, PoolState
  <2>4. r = Outcome(t, "PENDING")
    BY <1>2
  <2> HIDE DEF t
  <2> QED BY <2>2, <2>3, <2>4 DEF Outcome, RequestOutcomes, RequestEffect
<1>3. r \in ConnectNewSocket(s, g, h) => RequestEffect(s, r, h)
  BY ConnectNewSocketEffect
<1>4. ASSUME NEW t \in CloseOneIdleSocketExceptInGroup(s, g), r \in ConnectNewSocket(t, g, h)
      PROVE  RequestEffect(s, r, h)
  <2>1. t \in PoolState /\ SameRequests(s, t, h) /\ t.hsocket = s.hsocket
    BY CloseOneIdleSocketEffect
  <2>2. RequestEffect(t, r, h)
    BY <1>4, <2>1, ConnectNewSocketEffect
  <2>3. SameRequests(s, r.st, h)
    BY <2>1, <2>2, SameRequestsTrans DEF RequestEffect
  <2> QED BY <2>1, <2>2, <2>3 DEF RequestEffect
<1>5. \/ \E k : r = Outcome([s EXCEPT !.unusedPre = @ \ {k}], "PENDING")
      \/ r = Outcome(s, "PENDING") \/ r = Outcome(s, "ERR")
      \/ r \in ConnectNewSocket(s, g, h)
      \/ \E t \in CloseOneIdleSocketExceptInGroup(s, g) : r \in ConnectNewSocket(t, g, h)
  BY DEF ActivateNewSocket
<1> QED BY <1>1, <1>2, <1>3, <1>4, <1>5

\* What RequestSocketInternal returns agrees with what it did for the handle.
LEMMA RequestSocketInternalEffect ==
  ASSUME NEW s \in PoolState, NEW g \in Groups, NEW h \in Handles \cup {NoHandle},
         NEW r \in RequestSocketInternal(s, g, h)
  PROVE  RequestEffect(s, r, h)
<1> DEFINE s1 == GetOrCreateGroup(s, g)
<1>1. s1 \in PoolState /\ SameRequests(s, s1, h) /\ s1.hsocket = s.hsocket
  BY GetOrCreateGroupType, ElementaryFrames, ElementarySockets
<1> HIDE DEF s1
<1>2. CASE h = NoHandle
  <2>1. r \in ActivateNewSocket(s1, g, h)
    BY <1>2 DEF RequestSocketInternal, s1
  <2>2. RequestEffect(s1, r, h)
    BY <2>1, <1>1, ActivateNewSocketEffect
  <2>3. SameRequests(s, r.st, h)
    BY <1>1, <2>2, SameRequestsTrans DEF RequestEffect
  <2> QED BY <1>1, <2>2, <2>3 DEF RequestEffect
<1>3. CASE h # NoHandle
  <2>1. PICK a \in AssignIdleSocketToGroup(s1, g, h) :
          r \in IF a.rv = "OK" THEN {a} ELSE ActivateNewSocket(a.st, g, h)
    BY <1>3 DEF RequestSocketInternal, s1
  <2>2. /\ a \in [st : PoolState, rv : {"OK", "NONE"}]
        /\ SameRequests(s1, a.st, h)
        /\ a.rv = "NONE" => a.st.hsocket = s1.hsocket
        /\ a.rv = "OK" => a.st.hsocket[h] # NoSocket
    BY <1>1, <1>3, AssignIdleSocketToGroupEffect
  <2>3. SameRequests(s, a.st, h)
    BY <1>1, <2>2, SameRequestsTrans
  <2>4. CASE a.rv = "OK"
    BY <2>1, <2>2, <2>3, <2>4 DEF RequestOutcomes, RequestEffect
  <2>5. CASE a.rv # "OK"
    <3>1. a.st \in PoolState /\ a.st.hsocket = s.hsocket
      BY <1>1, <2>2, <2>5
    <3>2. RequestEffect(a.st, r, h)
      BY <2>1, <2>5, <3>1, ActivateNewSocketEffect
    <3>3. SameRequests(s, r.st, h)
      BY <2>3, <3>2, SameRequestsTrans DEF RequestEffect
    <3> QED BY <3>1, <3>2, <3>3 DEF RequestEffect
  <2> QED BY <2>4, <2>5
<1> QED BY <1>2, <1>3

-----------------------------------------------------------------------------
(***************************************************************************)
(* Waking up requests, releasing and cancelling.                           *)
(***************************************************************************)
LEMMA ProcessPendingRequestType ==
  ASSUME NEW s \in PoolState, NEW g \in Groups, s.pending[g] # <<>>,
         NEW t \in ProcessPendingRequest(s, g)
  PROVE  t \in PoolState
<1> DEFINE h == Head(s.pending[g])
<1>1. h \in Handles
  BY Fields
<1> HIDE DEF h
<1>2. PICK r \in RequestSocketInternal(s, g, h) :
        t = IF r.rv = "PENDING" THEN r.st
            ELSE InvokeUserCallbackLater(
                   RemoveGroupIfEmpty(RemoveRequestFromQueue(r.st, g, 1), g), h, r.rv)
  BY DEF ProcessPendingRequest, h
<1>3. RequestEffect(s, r, h)
  BY <1>1, RequestSocketInternalEffect
<1>4. CASE r.rv = "PENDING"
  BY <1>2, <1>3, <1>4 DEF RequestEffect, RequestOutcomes
<1>5. CASE r.rv # "PENDING"
  <2>1. r.st \in PoolState /\ r.rv \in Results /\ r.st.pending = s.pending
    BY <1>3, <1>5 DEF RequestEffect, RequestOutcomes, SameRequests, Results
  <2>2. 1 \in 1..Len(r.st.pending[g])
    BY <2>1, Fields
  <2>3. RemoveRequestFromQueue(r.st, g, 1) \in PoolState
    BY <2>1, <2>2, RemoveRequestFromQueueType
  <2> QED BY <1>1, <1>2, <1>5, <2>1, <2>3, RemoveGroupIfEmptyType, InvokeUserCallbackLaterType
<1> QED BY <1>4, <1>5

\* OnAvailableSocketSlot takes a well-formed pool to well-formed pools.
LEMMA OnAvailableSocketSlotType ==
  ASSUME NEW s \in PoolState, NEW g \in Groups, NEW t \in OnAvailableSocketSlot(s, g)
  PROVE  t \in PoolState
BY RemoveGroupType, ProcessPendingRequestType DEF OnAvailableSocketSlot

\* CheckForStalledSocketGroups takes a well-formed pool to well-formed pools.
LEMMA CheckForStalledSocketGroupsType ==
  ASSUME NEW s \in PoolState, NEW t \in CheckForStalledSocketGroups(s)
  PROVE  t \in PoolState
<1>1. \A g \in TopStalledGroups(s) : g \in Groups
  BY Fields DEF TopStalledGroups
<1>2. \/ t = s
      \/ \E g \in TopStalledGroups(s) : t \in OnAvailableSocketSlot(s, g)
      \/ \E g \in TopStalledGroups(s) :
           \E u \in CloseOneIdleSocketExceptInGroup(s, NoGroup) : t \in OnAvailableSocketSlot(u, g)
  BY DEF CheckForStalledSocketGroups, CloseOneIdleSocket
<1>3. \A u \in CloseOneIdleSocketExceptInGroup(s, NoGroup) : u \in PoolState
  BY CloseOneIdleSocketEffect
<1> QED BY <1>1, <1>2, <1>3, OnAvailableSocketSlotType

\* OnAvailableThenCheckStalled takes a well-formed pool to well-formed pools.
LEMMA OnAvailableThenCheckStalledType ==
  ASSUME NEW s \in PoolState, NEW g \in Groups, NEW t \in OnAvailableThenCheckStalled(s, g)
  PROVE  t \in PoolState
BY OnAvailableSocketSlotType, CheckForStalledSocketGroupsType DEF OnAvailableThenCheckStalled

\* ReleaseSocket takes a well-formed pool to well-formed pools.
LEMMA ReleaseSocketType ==
  ASSUME NEW s \in PoolState, NEW g \in Groups, NEW k \in Sockets, NEW id, NEW connected,
         NEW t \in ReleaseSocket(s, g, k, id, connected)
  PROVE  t \in PoolState
<1> DEFINE a == [s EXCEPT !.handedOut = s.handedOut - 1]
           b == [a EXCEPT !.active[g] = s.active[g] - 1]
           c == [b EXCEPT !.stale = b.stale \ {k}]
<1>1. s.handedOut - 1 \in Int /\ s.active[g] - 1 \in Int
  BY Fields
<1>2. a \in PoolState
  BY <1>1, SetHandedOut
<1> HIDE DEF a
<1>3. b \in PoolState
  BY <1>1, <1>2, Fields, SetActive
<1>4. t \in OnAvailableThenCheckStalled(AddIdleSocket(b, g, k), g) \/ t \in CheckForStalledSocketGroups(c)
  BY DEF ReleaseSocket, a
<1> HIDE DEF b
<1>5. b.stale \ {k} \in SUBSET Sockets
  BY <1>3, Fields
<1>6. c \in PoolState
  BY <1>3, <1>5, SetStale
<1> QED BY <1>3, <1>4, <1>6, AddIdleSocketType, OnAvailableThenCheckStalledType,
           CheckForStalledSocketGroupsType

\* CancelPendingRequest takes a well-formed pool to well-formed pools.
LEMMA CancelPendingRequestType ==
  ASSUME NEW s \in PoolState, NEW g \in Groups, NEW h, NEW t \in CancelPendingRequest(s, g, h)
  PROVE  t \in PoolState
<1> DEFINE i == CHOOSE j \in 1..Len(s.pending[g]) : s.pending[g][j] = h
           u == RemoveRequestFromQueue(s, g, i)
<1>1. CASE ~Contains(s.pending[g], h)
  BY <1>1 DEF CancelPendingRequest
<1>2. CASE Contains(s.pending[g], h)
  <2>1. i \in 1..Len(s.pending[g])
    BY <1>2 DEF Contains
  <2>2. t = u \/ \E k \in u.jobs[g] : t \in CheckForStalledSocketGroups(RemoveConnectJob(u, g, k))
    BY <1>2 DEF CancelPendingRequest
  <2> HIDE DEF i
  <2>3. u \in PoolState
    BY <2>1, RemoveRequestFromQueueType
  <2> HIDE DEF u
  <2> QED BY <2>2, <2>3, RemoveConnectJobType, CheckForStalledSocketGroupsType
<1> QED BY <1>1, <1>2

\* CancelRequest takes a well-formed pool to well-formed pools.
LEMMA CancelRequestType ==
  ASSUME NEW s \in PoolState, NEW g \in Groups, NEW h \in Handles, NEW t \in CancelRequest(s, g, h)
  PROVE  t \in PoolState
<1> DEFINE a == [s EXCEPT !.callback[h] = NoResult]
           b == [a EXCEPT !.hsocket[h] = NoSocket]
<1>1. a \in PoolState
  BY Fields, SetCallback
<1> HIDE DEF a
<1>2. b \in PoolState
  BY <1>1, Fields, SetHSocket
<1>3. \/ t \in CancelPendingRequest(s, g, h)
      \/ t = b
      \/ /\ s.hsocket[h] # NoSocket
         /\ \E c \in BOOLEAN : t \in ReleaseSocket(b, g, s.hsocket[h], s.hpoolId[h], c)
  BY DEF CancelRequest, a
<1> HIDE DEF b
<1>4. s.hsocket[h] # NoSocket => s.hsocket[h] \in Sockets
  BY Fields
<1> QED BY <1>2, <1>3, <1>4, CancelPendingRequestType, ReleaseSocketType

\* OnConnectJobComplete takes a well-formed pool to well-formed pools.
LEMMA OnConnectJobCompleteType ==
  ASSUME NEW s \in PoolState, NEW g \in Groups, NEW k \in Sockets, NEW result,
         NEW t \in OnConnectJobComplete(s, g, k, result)
  PROVE  t \in PoolState
<1> DEFINE h == Head(s.pending[g])
           a == IF s.pending[g] # <<>> THEN RemoveRequestFromQueue(s, g, 1) ELSE s
           b == RemoveConnectJob(a, g, k)
<1>1. a \in PoolState
  <2>1. s.pending[g] # <<>> => 1 \in 1..Len(s.pending[g])
    BY Fields
  <2> QED BY <2>1, RemoveRequestFromQueueType
<1>2. s.pending[g] # <<>> => h \in Handles
  BY Fields
<1>3. \/ /\ s.pending[g] # <<>>
         /\ \/ t = InvokeUserCallbackLater(HandOutSocket(b, g, h, k), h, "OK")
            \/ t = InvokeUserCallbackLater(HandOutSocket(b, g, h, k), h, "ERR")
            \/ t \in OnAvailableThenCheckStalled(InvokeUserCallbackLater(b, h, "ERR"), g)
      \/ t \in OnAvailableThenCheckStalled(AddIdleSocket(b, g, k), g)
      \/ t \in OnAvailableThenCheckStalled(b, g)
  BY DEF OnConnectJobComplete
<1> HIDE DEF a, h
<1>4. b \in PoolState
  BY <1>1, RemoveConnectJobType
<1> HIDE DEF b
<1>5. s.pending[g] # <<>> =>
        /\ InvokeUserCallbackLater(b, h, "ERR") \in PoolState
        /\ InvokeUserCallbackLater(HandOutSocket(b, g, h, k), h, "OK") \in PoolState
        /\ InvokeUserCallbackLater(HandOutSocket(b, g, h, k), h, "ERR") \in PoolState
  BY <1>2, <1>4, HandOutSocketType, InvokeUserCallbackLaterType DEF Results
<1>6. AddIdleSocket(b, g, k) \in PoolState
  BY <1>4, AddIdleSocketType
<1> QED BY <1>3, <1>4, <1>5, <1>6, OnAvailableThenCheckStalledType

-----------------------------------------------------------------------------
(***************************************************************************)
(* The theorem.                                                            *)
(***************************************************************************)
\* Flush() step by step, with the fields in the order in which it sets them.
LEMMA FlushType ==
  ASSUME TypeOK, Flush
  PROVE  TypeOK'
<1> DEFINE ab  == [h \in Handles |-> IF \E g \in Groups : Contains(pool.pending[g], h)
                                     THEN "ABORTED" ELSE pool.callback[h]]
           nj  == Cardinality(ConnectJobs(pool))
           ni  == Cardinality(IdleSockets(pool))
           a1  == [pool EXCEPT !.generation = pool.generation + 1]
           a2  == [a1 EXCEPT !.connecting = pool.connecting - nj]
           a3  == [a2 EXCEPT !.jobs = [g \in Groups |-> {}]]
           a4  == [a3 EXCEPT !.unusedPre = {}]
           a5  == [a4 EXCEPT !.backup = [g \in Groups |-> FALSE]]
           a6  == [a5 EXCEPT !.idle = [g \in Groups |-> {}]]
           a7  == [a6 EXCEPT !.idleCount = pool.idleCount - ni]
           a8  == [a7 EXCEPT !.pending = [g \in Groups |-> <<>>]]
           a9  == [a8 EXCEPT !.callback = ab]
           a10 == [a9 EXCEPT !.groups = {g \in pool.groups : pool.active[g] # 0}]
           a11 == [a10 EXCEPT !.stale = HeldSockets(pool)]
<1>1. pool \in PoolState
  BY DEF TypeOK
<1>2. pool' = a11
  BY DEF Flush
<1>3. ab \in [Handles -> Results \cup {NoResult}]
  BY <1>1, Fields DEF Results
<1>4. ConnectJobs(pool) \subseteq Sockets /\ IdleSockets(pool) \subseteq Sockets
  BY <1>1, Fields DEF ConnectJobs, IdleSockets
<1>5. nj \in Nat /\ ni \in Nat
  BY <1>4, PoolAssumption, FS_Subset, FS_CardinalityType
<1>6. HeldSockets(pool) \subseteq Sockets
  BY <1>1, Fields DEF HeldSockets, Holders
<1>7. {g \in pool.groups : pool.active[g] # 0} \in SUBSET Groups
  BY <1>1, Fields
<1> HIDE DEF ab, nj, ni
<1>8. /\ pool.generation + 1 \in Nat
      /\ pool.connecting - nj \in Int
      /\ pool.idleCount - ni \in Int
  BY <1>1, <1>5, Fields
<1>9. a1 \in PoolState
  BY <1>1, <1>8, SetGeneration
<1> HIDE DEF a1
<1>10. a2 \in PoolState
  BY <1>9, <1>8, SetConnecting
<1> HIDE DEF a2
<1>11. a3 \in PoolState
  BY <1>10, SetJobs
<1> HIDE DEF a3
<1>12. a4 \in PoolState
  BY <1>11, SetUnusedPre
<1> HIDE DEF a4
<1>13. a5 \in PoolState
  BY <1>12, SetBackup
<1> HIDE DEF a5
<1>14. a6 \in PoolState
  BY <1>13, SetIdle
<1> HIDE DEF a6
<1>15. a7 \in PoolState
  BY <1>14, <1>8, SetIdleCount
<1> HIDE DEF a7
<1>16. a8 \in PoolState
  <2>1. [g \in Groups |-> <<>>] \in [Groups -> Seq(Handles)]
    OBVIOUS
  <2> QED BY <1>15, <2>1, SetPending
<1> HIDE DEF a8
<1>17. a9 \in PoolState
  BY <1>16, <1>3, SetCallback
<1> HIDE DEF a9
<1>18. a10 \in PoolState
  BY <1>17, <1>7, SetGroups
<1> HIDE DEF a10
<1>19. a11 \in PoolState
  BY <1>18, <1>6, SetStale
<1> QED BY <1>2, <1>19 DEF TypeOK

\* CleanupIdleSockets takes a well-formed pool to well-formed pools.
LEMMA CleanupIdleSocketsType ==
  ASSUME TypeOK, NEW dead \in SUBSET Sockets, CleanupIdleSockets(dead)
  PROVE  TypeOK'
<1> DEFINE n  == Cardinality(dead)
           t1 == [pool EXCEPT !.idle = [g \in Groups |-> pool.idle[g] \ dead]]
           t  == [t1 EXCEPT !.idleCount = pool.idleCount - n]
           empty == {g \in t.groups : IsEmpty(t, g)}
           u  == [t EXCEPT !.groups = t.groups \ empty]
           v  == [u EXCEPT !.backup = [g \in Groups |-> t.backup[g] /\ g \notin empty]]
<1>1. pool \in PoolState
  BY DEF TypeOK
<1>2. pool' = v
  BY DEF CleanupIdleSockets
<1>3. n \in Nat
  BY PoolAssumption, FS_Subset, FS_CardinalityType
<1> HIDE DEF n
<1>4. /\ [g \in Groups |-> pool.idle[g] \ dead] \in [Groups -> SUBSET Sockets]
      /\ pool.idleCount - n \in Int
  BY <1>1, <1>3, Fields
<1>5. t1 \in PoolState
  BY <1>1, <1>4, SetIdle
<1> HIDE DEF t1
<1>6. t \in PoolState
  BY <1>4, <1>5, SetIdleCount
<1> HIDE DEF t
<1>7. t.groups \ empty \in SUBSET Groups
  BY <1>6, Fields
<1>8. u \in PoolState
  BY <1>6, <1>7, SetGroups
<1> HIDE DEF u
<1>9. [g \in Groups |-> t.backup[g] /\ g \notin empty] \in [Groups -> BOOLEAN]
  OBVIOUS
<1> HIDE DEF empty
<1>10. v \in PoolState
  BY <1>8, <1>9, SetBackup
<1> QED BY <1>2, <1>10 DEF TypeOK

\* OnBackupSocketTimerFired takes a well-formed pool to well-formed pools.
LEMMA OnBackupSocketTimerFiredType ==
  ASSUME TypeOK, NEW g \in Groups, OnBackupSocketTimerFired(g)
  PROVE  TypeOK'
<1>1. pool \in PoolState
  BY DEF TypeOK
<1>2. \A s \in PoolState : [s EXCEPT !.backup[g] = FALSE] \in PoolState
  BY Fields, SetBackup
<1>3. \/ pool' = [pool EXCEPT !.backup[g] = FALSE]
      \/ \E k \in Sockets : pool' = [AddConnectJob(pool, g, k) EXCEPT !.backup[g] = FALSE]
      \/ \E k \in Sockets, rv \in ConnectResults :
           \E t \in OnConnectJobComplete(AddConnectJob(pool, g, k), g, k, rv) :
             pool' = [t EXCEPT !.backup[g] = FALSE]
  BY DEF OnBackupSocketTimerFired, FreeSockets
<1>4. \A k \in Sockets : AddConnectJob(pool, g, k) \in PoolState
  BY <1>1, AddConnectJobType
<1>5. \A k \in Sockets, rv \in ConnectResults :
        \A t \in OnConnectJobComplete(AddConnectJob(pool, g, k), g, k, rv) : t \in PoolState
  BY <1>4, OnConnectJobCompleteType
<1> QED BY <1>1, <1>2, <1>3, <1>4, <1>5 DEF TypeOK

-----------------------------------------------------------------------------
(***************************************************************************)
(* The books: who owns a socket, and the counters.                         *)
(***************************************************************************)
Books(s) == SingleOwnerIn(s) /\ CountersMatchIn(s)

\* The fields Books reads.
SameBooks(s, t) ==
  /\ t.idle = s.idle /\ t.jobs = s.jobs /\ t.active = s.active
  /\ t.idleCount = s.idleCount /\ t.connecting = s.connecting /\ t.handedOut = s.handedOut
  /\ t.hsocket = s.hsocket /\ t.hgroup = s.hgroup

\* Neither Books nor the set of free sockets changes when those fields do not.
LEMMA SameBooksKeeps ==
  ASSUME NEW s, NEW t, SameBooks(s, t)
  PROVE  /\ Books(s) => Books(t)
         /\ FreeSockets(t) = FreeSockets(s)
<1>1. /\ IdleSockets(t) = IdleSockets(s) /\ ConnectJobs(t) = ConnectJobs(s)
      /\ Holders(t) = Holders(s) /\ HeldSockets(t) = HeldSockets(s)
  BY DEF SameBooks, IdleSockets, ConnectJobs, Holders, HeldSockets
<1>2. FreeSockets(t) = FreeSockets(s)
  BY <1>1 DEF FreeSockets
<1>3. SingleOwnerIn(s) => SingleOwnerIn(t)
  BY <1>1 DEF SameBooks, SingleOwnerIn
<1>4. CountersMatchIn(s) => CountersMatchIn(t)
  BY <1>1 DEF SameBooks, CountersMatchIn
<1> QED BY <1>2, <1>3, <1>4 DEF Books

\* All populations are finite.
LEMMA Finite ==
  ASSUME NEW s \in PoolState
  PROVE  /\ IdleSockets(s) \subseteq Sockets /\ IsFiniteSet(IdleSockets(s))
         /\ ConnectJobs(s) \subseteq Sockets /\ IsFiniteSet(ConnectJobs(s))
         /\ IsFiniteSet(Holders(s))
         /\ \A g : IsFiniteSet({h \in Holders(s) : s.hgroup[h] = g})
<1>1. IdleSockets(s) \subseteq Sockets /\ ConnectJobs(s) \subseteq Sockets
  BY Fields DEF IdleSockets, ConnectJobs
<1>2. Holders(s) \subseteq Handles
  BY DEF Holders
<1> QED BY <1>1, <1>2, PoolAssumption, FS_Subset

\* HandOutSocket gives a free socket to a handle of the group that has none.
LEMMA HandOutSocketBooks ==
  ASSUME NEW s \in PoolState, Books(s), NEW g \in Groups, NEW h \in Handles,
         NEW k \in FreeSockets(s), s.hsocket[h] = NoSocket, s.hgroup[h] = g
  PROVE  Books(HandOutSocket(s, g, h, k))
<1> DEFINE t == HandOutSocket(s, g, h, k)
<1>1. /\ t.hsocket = [s.hsocket EXCEPT ![h] = k]
      /\ t.active = [s.active EXCEPT ![g] = @ + 1]
      /\ t.handedOut = s.handedOut + 1
      /\ t.idle = s.idle /\ t.jobs = s.jobs /\ t.hgroup = s.hgroup
      /\ t.idleCount = s.idleCount /\ t.connecting = s.connecting
  BY DEF HandOutSocket, PoolState
<1> HIDE DEF t
<1>2. k \in Sockets /\ k # NoSocket
  BY PoolAssumption DEF FreeSockets
<1>3. IdleSockets(t) = IdleSockets(s) /\ ConnectJobs(t) = ConnectJobs(s)
  BY <1>1 DEF IdleSockets, ConnectJobs
<1>4. Holders(t) = Holders(s) \cup {h} /\ h \notin Holders(s)
  BY <1>1, <1>2, Fields DEF Holders
<1>5. \A x \in Holders(s) : t.hsocket[x] = s.hsocket[x] /\ s.hsocket[x] # k
  BY <1>1, <1>4, Fields DEF FreeSockets, HeldSockets, Holders
<1>6. t.hsocket[h] = k
  BY <1>1, Fields
<1>7. HeldSockets(t) = HeldSockets(s) \cup {k}
  BY <1>4, <1>5, <1>6 DEF HeldSockets
<1>8. SingleOwnerIn(t)
  BY <1>1, <1>3, <1>4, <1>5, <1>6, <1>7 DEF Books, SingleOwnerIn, FreeSockets
<1>9. t.handedOut = Cardinality(Holders(t))
  BY <1>1, <1>4, Finite, FS_AddElement DEF Books, CountersMatchIn
<1>10. ASSUME NEW x \in Groups
       PROVE  t.active[x] = Cardinality({y \in Holders(t) : t.hgroup[y] = x})
  <2> DEFINE A == {y \in Holders(s) : s.hgroup[y] = x}
             B == {y \in Holders(t) : t.hgroup[y] = x}
  <2>1. s.active[x] = Cardinality(A) /\ IsFiniteSet(A)
    BY Finite DEF Books, CountersMatchIn
  <2>2. CASE x = g
    <3>1. B = A \cup {h} /\ h \notin A
      BY <1>1, <1>4, <2>2
    <3>2. t.active[x] = s.active[x] + 1
      BY <1>1, <2>2, Fields
    <3> HIDE DEF A, B
    <3>3. Cardinality(B) = Cardinality(A) + 1
      BY <2>1, <3>1, FS_AddElement
    <3> QED BY <2>1, <3>2, <3>3 DEF B
  <2>3. CASE x # g
    <3>1. B = A
      BY <1>1, <1>4, <2>3
    <3>2. t.active[x] = s.active[x]
      BY <1>1, <2>3, Fields
    <3> QED BY <2>1, <3>1, <3>2
  <2> QED BY <2>2, <2>3
<1>11. CountersMatchIn(t)
  BY <1>1, <1>3, <1>9, <1>10 DEF Books, CountersMatchIn
<1> QED BY <1>8, <1>11 DEF Books, t

\* AssignIdleSocketToGroup, CloseOneIdleSocketExceptInGroup and CleanupIdleSockets
\* take a set of sockets off the idle list of one group.
LEMMA DropIdleBooks ==
  ASSUME NEW s \in PoolState, Books(s), NEW g \in Groups, NEW dead \in SUBSET s.idle[g]
  PROVE  /\ Books(DropIdle(s, g, dead))
         /\ FreeSockets(DropIdle(s, g, dead)) = FreeSockets(s) \cup dead
         /\ DropIdle(s, g, dead).idle[g] = s.idle[g] \ dead
<1> DEFINE t == DropIdle(s, g, dead)
           n == Cardinality(dead)
<1>1. /\ t.idle = [s.idle EXCEPT ![g] = @ \ dead]
      /\ t.idleCount = s.idleCount - n
      /\ t.hsocket = s.hsocket /\ t.active = s.active /\ t.handedOut = s.handedOut
      /\ t.jobs = s.jobs /\ t.hgroup = s.hgroup /\ t.connecting = s.connecting
  BY DEF DropIdle, PoolState
<1> HIDE DEF t, n
<1>2. dead \subseteq Sockets /\ dead \subseteq IdleSockets(s)
  BY Fields DEF IdleSockets
<1>3. \A x \in Groups : t.idle[x] = IF x = g THEN s.idle[x] \ dead ELSE s.idle[x]
  BY <1>1, Fields
<1>4. \A x \in Groups : x # g => s.idle[x] \cap dead = {}
  BY DEF Books, SingleOwnerIn
<1>5. IdleSockets(t) = IdleSockets(s) \ dead
  BY <1>3, <1>4, ZenonT(60) DEF IdleSockets
<1>6. /\ ConnectJobs(t) = ConnectJobs(s) /\ Holders(t) = Holders(s)
      /\ HeldSockets(t) = HeldSockets(s)
  BY <1>1 DEF ConnectJobs, Holders, HeldSockets
<1>7. SingleOwnerIn(t)
  BY <1>1, <1>3, <1>5, <1>6 DEF Books, SingleOwnerIn
<1>8. t.idleCount = Cardinality(IdleSockets(t))
  <2>1. IdleSockets(s) \cap dead = dead
    BY <1>2
  <2>2. Cardinality(IdleSockets(s) \ dead) = Cardinality(IdleSockets(s)) - Cardinality(dead)
    BY <2>1, Finite, FS_Difference, ZenonT(60)
  <2> QED BY <1>1, <1>5, <2>2 DEF Books, CountersMatchIn, n
<1>9. CountersMatchIn(t)
  BY <1>1, <1>6, <1>8 DEF Books, CountersMatchIn
<1>10. FreeSockets(t) = FreeSockets(s) \cup dead
  BY <1>2, <1>5, <1>6 DEF FreeSockets, Books, SingleOwnerIn
<1> QED BY <1>3, <1>7, <1>9, <1>10 DEF Books, t

\* An idle socket that is taken for use belongs to nobody for a moment.
LEMMA RemoveIdleSocketBooks ==
  ASSUME NEW s \in PoolState, Books(s), NEW g \in Groups, NEW k \in s.idle[g]
  PROVE  /\ Books(RemoveIdleSocket(s, g, k))
         /\ k \in FreeSockets(RemoveIdleSocket(s, g, k))
<1>1. Cardinality({k}) = 1
  BY FS_Singleton
<1>2. RemoveIdleSocket(s, g, k) = DropIdle(s, g, {k})
  BY <1>1 DEF RemoveIdleSocket, DropIdle
<1> QED BY <1>2, DropIdleBooks

\* AddIdleSocket makes a socket that belongs to nobody idle.
LEMMA AddIdleSocketBooks ==
  ASSUME NEW s \in PoolState, Books(s), NEW g \in Groups, NEW k \in FreeSockets(s)
  PROVE  Books(AddIdleSocket(s, g, k))
<1> DEFINE t == AddIdleSocket(s, g, k)
<1>1. /\ t.idle = [s.idle EXCEPT ![g] = @ \cup {k}]
      /\ t.idleCount = s.idleCount + 1
      /\ t.hsocket = s.hsocket /\ t.active = s.active /\ t.handedOut = s.handedOut
      /\ t.jobs = s.jobs /\ t.hgroup = s.hgroup /\ t.connecting = s.connecting
  BY DEF AddIdleSocket, PoolState
<1> HIDE DEF t
<1>2. \A x \in Groups : t.idle[x] = IF x = g THEN s.idle[x] \cup {k} ELSE s.idle[x]
  BY <1>1, Fields
<1>3. IdleSockets(t) = IdleSockets(s) \cup {k} /\ k \notin IdleSockets(s)
  BY <1>2, ZenonT(60) DEF IdleSockets, FreeSockets
<1>4. /\ ConnectJobs(t) = ConnectJobs(s) /\ Holders(t) = Holders(s)
      /\ HeldSockets(t) = HeldSockets(s)
  BY <1>1 DEF ConnectJobs, Holders, HeldSockets
<1>5. \A x \in Groups : k \notin s.idle[x]
  BY <1>3 DEF IdleSockets
<1>6. SingleOwnerIn(t)
  BY <1>1, <1>2, <1>3, <1>4, <1>5 DEF Books, SingleOwnerIn, FreeSockets
<1>7. t.idleCount = Cardinality(IdleSockets(t))
  BY <1>1, <1>3, Finite, FS_AddElement, ZenonT(60) DEF Books, CountersMatchIn
<1>8. CountersMatchIn(t)
  BY <1>1, <1>4, <1>7 DEF Books, CountersMatchIn
<1> QED BY <1>6, <1>8 DEF Books, t

\* Adding a ConnectJob counts one more connecting socket.
LEMMA AddConnectJobBooks ==
  ASSUME NEW s \in PoolState, Books(s), NEW g \in Groups, NEW k \in FreeSockets(s)
  PROVE  Books(AddConnectJob(s, g, k))
<1> DEFINE t == AddConnectJob(s, g, k)
<1>1. /\ t.jobs = [s.jobs EXCEPT ![g] = @ \cup {k}]
      /\ t.connecting = s.connecting + 1
      /\ t.hsocket = s.hsocket /\ t.active = s.active /\ t.handedOut = s.handedOut
      /\ t.idle = s.idle /\ t.hgroup = s.hgroup /\ t.idleCount = s.idleCount
  BY DEF AddConnectJob, PoolState
<1> HIDE DEF t
<1>2. \A x \in Groups : t.jobs[x] = IF x = g THEN s.jobs[x] \cup {k} ELSE s.jobs[x]
  BY <1>1, Fields
<1>3. ConnectJobs(t) = ConnectJobs(s) \cup {k} /\ k \notin ConnectJobs(s)
  BY <1>2, ZenonT(60) DEF ConnectJobs, FreeSockets
<1>4. /\ IdleSockets(t) = IdleSockets(s) /\ Holders(t) = Holders(s)
      /\ HeldSockets(t) = HeldSockets(s)
  BY <1>1 DEF IdleSockets, Holders, HeldSockets
<1>5. \A x \in Groups : k \notin s.jobs[x]
  BY <1>3 DEF ConnectJobs
<1>6. SingleOwnerIn(t)
  BY <1>1, <1>2, <1>3, <1>4, <1>5 DEF Books, SingleOwnerIn, FreeSockets
<1>7. t.connecting = Cardinality(ConnectJobs(t))
  BY <1>1, <1>3, Finite, FS_AddElement, ZenonT(60) DEF Books, CountersMatchIn
<1>8. CountersMatchIn(t)
  BY <1>1, <1>4, <1>7 DEF Books, CountersMatchIn
<1> QED BY <1>6, <1>8 DEF Books, t

\* RemoveConnectJob counts one connecting socket less; its socket belongs to nobody for a moment.
LEMMA RemoveConnectJobBooks ==
  ASSUME NEW s \in PoolState, Books(s), NEW g \in Groups, NEW k \in s.jobs[g]
  PROVE  /\ Books(RemoveConnectJob(s, g, k))
         /\ k \in FreeSockets(RemoveConnectJob(s, g, k))
<1> DEFINE t == RemoveConnectJob(s, g, k)
<1>1. /\ t.jobs = [s.jobs EXCEPT ![g] = s.jobs[g] \ {k}]
      /\ t.connecting = s.connecting - 1
      /\ t.hsocket = s.hsocket /\ t.active = s.active /\ t.handedOut = s.handedOut
      /\ t.idle = s.idle /\ t.hgroup = s.hgroup /\ t.idleCount = s.idleCount
  BY DEF RemoveConnectJob, PoolState
<1> HIDE DEF t
<1>2. \A x \in Groups : t.jobs[x] = IF x = g THEN s.jobs[x] \ {k} ELSE s.jobs[x]
  BY <1>1, Fields
<1>3. \A x \in Groups : x # g => k \notin s.jobs[x]
  BY DEF Books, SingleOwnerIn
<1>4. ConnectJobs(t) = ConnectJobs(s) \ {k} /\ k \in ConnectJobs(s)
  BY <1>2, <1>3, ZenonT(60) DEF ConnectJobs
<1>5. /\ IdleSockets(t) = IdleSockets(s) /\ Holders(t) = Holders(s)
      /\ HeldSockets(t) = HeldSockets(s)
  BY <1>1 DEF IdleSockets, Holders, HeldSockets
<1>6. SingleOwnerIn(t)
  BY <1>1, <1>2, <1>4, <1>5 DEF Books, SingleOwnerIn
<1>7. t.connecting = Cardinality(ConnectJobs(t))
  BY <1>1, <1>4, Finite, FS_RemoveElement DEF Books, CountersMatchIn
<1>8. CountersMatchIn(t)
  BY <1>1, <1>5, <1>7 DEF Books, CountersMatchIn
<1>9. k \in FreeSockets(t)
  BY <1>4, <1>5, Finite DEF FreeSockets, Books, SingleOwnerIn
<1> QED BY <1>6, <1>8, <1>9 DEF Books, t

\* A handle lets go of its socket: the decrements at the start of ReleaseSocket,
\* together with release_socket().
LetGo(s, h) ==
  [s EXCEPT !.hsocket[h] = NoSocket, !.handedOut = @ - 1, !.active[s.hgroup[h]] = @ - 1]

\* A handle that gives its socket back, to ReleaseSocket, frees it and is counted no longer.
LEMMA LetGoBooks ==
  ASSUME NEW s \in PoolState, Books(s), NEW h \in Handles,
         s.hsocket[h] # NoSocket, s.hgroup[h] # NoGroup
  PROVE  /\ Books(LetGo(s, h))
         /\ s.hsocket[h] \in FreeSockets(LetGo(s, h))
<1> DEFINE t == LetGo(s, h)
           g == s.hgroup[h]
           k == s.hsocket[h]
<1>0. g \in Groups /\ k \in Sockets
  BY Fields
<1>1. /\ t.hsocket = [s.hsocket EXCEPT ![h] = NoSocket]
      /\ t.active = [s.active EXCEPT ![g] = @ - 1]
      /\ t.handedOut = s.handedOut - 1
      /\ t.idle = s.idle /\ t.jobs = s.jobs /\ t.hgroup = s.hgroup
      /\ t.idleCount = s.idleCount /\ t.connecting = s.connecting
  BY DEF LetGo, PoolState
<1> HIDE DEF t, g, k
<1>2. IdleSockets(t) = IdleSockets(s) /\ ConnectJobs(t) = ConnectJobs(s)
  BY <1>1 DEF IdleSockets, ConnectJobs
<1>3. Holders(t) = Holders(s) \ {h} /\ h \in Holders(s)
  BY <1>1, Fields DEF Holders
<1>4. \A x \in Holders(t) : t.hsocket[x] = s.hsocket[x] /\ s.hsocket[x] # k
  BY <1>1, <1>3, Fields DEF Books, SingleOwnerIn, Holders, k
<1>5. HeldSockets(t) = HeldSockets(s) \ {k} /\ k \in HeldSockets(s)
  BY <1>3, <1>4 DEF HeldSockets, k
<1>6. SingleOwnerIn(t)
  BY <1>1, <1>2, <1>3, <1>4, <1>5 DEF Books, SingleOwnerIn
<1>7. t.handedOut = Cardinality(Holders(t))
  BY <1>1, <1>3, Finite, FS_RemoveElement DEF Books, CountersMatchIn
<1>8. ASSUME NEW x \in Groups
      PROVE  t.active[x] = Cardinality({y \in Holders(t) : t.hgroup[y] = x})
  <2> DEFINE A == {y \in Holders(s) : s.hgroup[y] = x}
             B == {y \in Holders(t) : t.hgroup[y] = x}
  <2>1. s.active[x] = Cardinality(A) /\ IsFiniteSet(A)
    BY Finite DEF Books, CountersMatchIn
  <2>2. CASE x = g
    <3>1. B = A \ {h} /\ h \in A
      BY <1>1, <1>3, <2>2 DEF g
    <3>2. t.active[x] = s.active[x] - 1
      BY <1>0, <1>1, <2>2, Fields
    <3> HIDE DEF A, B
    <3>3. Cardinality(B) = Cardinality(A) - 1
      BY <2>1, <3>1, FS_RemoveElement
    <3> QED BY <2>1, <3>2, <3>3 DEF B
  <2>3. CASE x # g
    <3>1. B = A
      BY <1>1, <1>3, <2>3 DEF g
    <3>2. t.active[x] = s.active[x]
      BY <1>1, <2>3, Fields
    <3> QED BY <2>1, <3>1, <3>2
  <2> QED BY <2>2, <2>3
<1>9. CountersMatchIn(t)
  BY <1>1, <1>2, <1>7, <1>8 DEF Books, CountersMatchIn
<1>10. k \in FreeSockets(t)
  BY <1>0, <1>2, <1>5 DEF FreeSockets, Books, SingleOwnerIn
<1> QED BY <1>6, <1>9, <1>10 DEF Books, t, k

-----------------------------------------------------------------------------
(***************************************************************************)
(* Requesting a socket keeps the books.                                    *)
(***************************************************************************)
LEMMA ElementaryBooks ==
  ASSUME NEW s \in PoolState, Books(s), NEW g \in Groups, NEW U \in SUBSET Sockets
  PROVE  LET a == GetOrCreateGroup(s, g)
             b == RemoveGroup(s, g)
             c == RemoveGroupIfEmpty(s, g)
             d == StartBackupSocketTimer(s, g)
             e == [s EXCEPT !.unusedPre = U]
         IN  /\ Books(a) /\ Books(b) /\ Books(c) /\ Books(d) /\ Books(e)
             /\ FreeSockets(d) = FreeSockets(s)
<1>1. SameBooks(s, GetOrCreateGroup(s, g))
  BY DEF SameBooks, GetOrCreateGroup, PoolState
<1>2. SameBooks(s, RemoveGroup(s, g))
  BY DEF SameBooks, RemoveGroup, PoolState
<1>3. SameBooks(s, StartBackupSocketTimer(s, g))
  BY DEF SameBooks, StartBackupSocketTimer, PoolState
<1>4. SameBooks(s, [s EXCEPT !.unusedPre = U])
  BY DEF SameBooks, PoolState
<1>5. RemoveGroupIfEmpty(s, g) = s \/ RemoveGroupIfEmpty(s, g) = RemoveGroup(s, g)
  BY DEF RemoveGroupIfEmpty
<1> QED BY <1>1, <1>2, <1>3, <1>4, <1>5, SameBooksKeeps

\* CloseOneIdleSocketExceptInGroup keeps the books.
LEMMA CloseOneIdleSocketBooks ==
  ASSUME NEW s \in PoolState, Books(s), NEW x, NEW t \in CloseOneIdleSocketExceptInGroup(s, x)
  PROVE  Books(t)
<1>1. PICK g \in Groups : \E k \in s.idle[g] :
        t = RemoveGroupIfEmpty(RemoveIdleSocket(s, g, k), g)
  BY DEF CloseOneIdleSocketExceptInGroup
<1>2. PICK k \in s.idle[g] : t = RemoveGroupIfEmpty(RemoveIdleSocket(s, g, k), g)
  BY <1>1
<1>3. RemoveIdleSocket(s, g, k) \in PoolState /\ Books(RemoveIdleSocket(s, g, k))
  BY RemoveIdleSocketType, RemoveIdleSocketBooks
<1> QED BY <1>2, <1>3, ElementaryBooks

\* The two ways an attempt to reuse an idle socket may end.
LEMMA AssignIdleSocketToGroupBooks ==
  ASSUME NEW s \in PoolState, Books(s), NEW g \in Groups, NEW h \in Handles,
         s.hsocket[h] = NoSocket, s.hgroup[h] = g, NEW r \in AssignIdleSocketToGroup(s, g, h)
  PROVE  Books(r.st)
<1>1. PICK dead \in SUBSET s.idle[g] :
        r \in IF DropIdle(s, g, dead).idle[g] = {}
              THEN {Outcome(DropIdle(s, g, dead), "NONE")}
              ELSE {Outcome(HandOutSocket(RemoveIdleSocket(DropIdle(s, g, dead), g, k), g, h, k), "OK")
                      : k \in DropIdle(s, g, dead).idle[g]}
  BY DEF AssignIdleSocketToGroup, DropIdle
<1> DEFINE t == DropIdle(s, g, dead)
<1>2. t \in PoolState /\ SameRequests(s, t, NoHandle) /\ t.hsocket = s.hsocket /\ Books(t)
  BY DropIdleEffect, DropIdleBooks
<1>3. t.hsocket[h] = NoSocket /\ t.hgroup[h] = g
  BY <1>2 DEF SameRequests
<1> HIDE DEF t
<1>4. \/ r.st = t
      \/ \E k \in t.idle[g] : r.st = HandOutSocket(RemoveIdleSocket(t, g, k), g, h, k)
  BY <1>1 DEF t, Outcome
<1>5. ASSUME NEW k \in t.idle[g]
      PROVE  Books(HandOutSocket(RemoveIdleSocket(t, g, k), g, h, k))
  <2> DEFINE u == RemoveIdleSocket(t, g, k)
  <2>1. u \in PoolState /\ Books(u) /\ k \in FreeSockets(u)
    BY <1>2, RemoveIdleSocketType, RemoveIdleSocketBooks
  <2>2. u.hsocket = t.hsocket /\ u.hgroup = t.hgroup
    BY <1>2 DEF RemoveIdleSocket, PoolState
  <2> HIDE DEF u
  <2>3. Books(HandOutSocket(u, g, h, k))
    BY <1>3, <2>1, <2>2, HandOutSocketBooks
  <2> QED BY <2>3 DEF u
<1> QED BY <1>2, <1>4, <1>5

\* A connect that is under way keeps the books.
LEMMA ConnectPendingBooks ==
  ASSUME NEW s \in PoolState, Books(s), NEW g \in Groups, NEW h, NEW k \in FreeSockets(s)
  PROVE  Books(ConnectPending(s, g, h, k).st)
<1> DEFINE t == IF BackupJobsEnabled /\ IsEmpty(s, g) /\ ~s.backup[g] /\ h # NoHandle
                THEN StartBackupSocketTimer(s, g) ELSE s
           u == AddConnectJob(t, g, k)
           v == IF h = NoHandle THEN [u EXCEPT !.unusedPre = @ \cup {k}] ELSE u
<1>1. t \in PoolState /\ Books(t) /\ k \in FreeSockets(t)
  BY StartBackupSocketTimerType, ElementaryBooks
<1>2. k \in Sockets
  BY DEF FreeSockets
<1> HIDE DEF t
<1>3. u \in PoolState /\ Books(u)
  BY <1>1, <1>2, AddConnectJobType, AddConnectJobBooks
<1> HIDE DEF u
<1>4. u.unusedPre \cup {k} \in SUBSET Sockets
  BY <1>2, <1>3, Fields
<1>5. Books(v)
  BY <1>3, <1>4, ElementaryBooks
<1>6. ConnectPending(s, g, h, k).st = v
  BY DEF ConnectPending, Outcome, t, u
<1> QED BY <1>5, <1>6

\* A new connect keeps the books whatever Connect() returns.
LEMMA ConnectNewSocketBooks ==
  ASSUME NEW s \in PoolState, Books(s), NEW g \in Groups, NEW h \in Handles \cup {NoHandle},
         h \in Handles => s.hsocket[h] = NoSocket /\ s.hgroup[h] = g,
         NEW r \in ConnectNewSocket(s, g, h)
  PROVE  Books(r.st)
<1>1. PICK rv \in ConnectResults : \E k \in FreeSockets(s) :
        r = CASE rv = "OK" ->
                   Outcome(IF h = NoHandle THEN AddIdleSocket(s, g, k)
                                           ELSE HandOutSocket(s, g, h, k), "OK")
              [] rv = "PENDING" -> ConnectPending(s, g, h, k)
              [] rv = "ERR_WITH_SOCKET" /\ h # NoHandle ->
                   Outcome(HandOutSocket(s, g, h, k), "ERR")
              [] OTHER -> Outcome(RemoveGroupIfEmpty(s, g), "ERR")
  BY DEF ConnectNewSocket
<1>2. \E k \in FreeSockets(s) :
        \/ h = NoHandle /\ r = Outcome(AddIdleSocket(s, g, k), "OK")
        \/ h # NoHandle /\ r = Outcome(HandOutSocket(s, g, h, k), "OK")
        \/ r = ConnectPending(s, g, h, k)
        \/ h # NoHandle /\ r = Outcome(HandOutSocket(s, g, h, k), "ERR")
        \/ r = Outcome(RemoveGroupIfEmpty(s, g), "ERR")
  BY <1>1, PoolAssumption
<1>3. PICK k \in FreeSockets(s) :
        \/ r.st = AddIdleSocket(s, g, k)
        \/ h # NoHandle /\ r.st = HandOutSocket(s, g, h, k)
        \/ r = ConnectPending(s, g, h, k)
        \/ r.st = RemoveGroupIfEmpty(s, g)
  BY <1>2 DEF Outcome
<1>4. Books(AddIdleSocket(s, g, k))
  BY AddIdleSocketBooks
<1>5. h # NoHandle => Books(HandOutSocket(s, g, h, k))
  BY HandOutSocketBooks
<1>6. Books(ConnectPending(s, g, h, k).st)
  BY ConnectPendingBooks
<1>7. Books(RemoveGroupIfEmpty(s, g))
  BY ElementaryBooks
<1> QED BY <1>3, <1>4, <1>5, <1>6, <1>7

\* The same when a preconnect job, an idle socket elsewhere or the limits come first.
LEMMA ActivateNewSocketBooks ==
  ASSUME NEW s \in PoolState, Books(s), NEW g \in Groups, NEW h \in Handles \cup {NoHandle},
         h \in Handles => s.hsocket[h] = NoSocket /\ s.hgroup[h] = g,
         NEW r \in ActivateNewSocket(s, g, h)
  PROVE  Books(r.st)
<1>1. \/ \E k \in Sockets : r.st = [s EXCEPT !.unusedPre = @ \ {k}]
      \/ r.st = s
      \/ r \in ConnectNewSocket(s, g, h)
      \/ \E t \in CloseOneIdleSocketExceptInGroup(s, g) : r \in ConnectNewSocket(t, g, h)
  <2>1. s.jobs[g] \subseteq Sockets
    BY Fields
  <2>2. \/ \E k \in s.jobs[g] : r = Outcome([s EXCEPT !.unusedPre = @ \ {k}], "PENDING")
        \/ r = Outcome(s, "PENDING") \/ r = Outcome(s, "ERR")
        \/ r \in ConnectNewSocket(s, g, h)
        \/ \E t \in CloseOneIdleSocketExceptInGroup(s, g) : r \in ConnectNewSocket(t, g, h)
    BY DEF ActivateNewSocket
  <2>3. \A x, y : Outcome(x, y).st = x
    BY DEF Outcome
  <2> QED BY <2>1, <2>2, <2>3
<1>2. ASSUME NEW k \in Sockets PROVE Books([s EXCEPT !.unusedPre = @ \ {k}])
  <2>1. s.unusedPre \ {k} \in SUBSET Sockets
    BY Fields
  <2> QED BY <2>1, ElementaryBooks
<1>3. ASSUME NEW t \in CloseOneIdleSocketExceptInGroup(s, g), r \in ConnectNewSocket(t, g, h)
      PROVE  Books(r.st)
  <2>1. t \in PoolState /\ Books(t) /\ t.hsocket = s.hsocket /\ t.hgroup = s.hgroup
    BY CloseOneIdleSocketEffect, CloseOneIdleSocketBooks DEF SameRequests
  <2> QED BY <1>3, <2>1, ConnectNewSocketBooks
<1> QED BY <1>1, <1>2, <1>3, ConnectNewSocketBooks

\* RequestSocketInternal keeps the books, for a request and for a preconnect.
LEMMA RequestSocketInternalBooks ==
  ASSUME NEW s \in PoolState, Books(s), NEW g \in Groups, NEW h \in Handles \cup {NoHandle},
         h \in Handles => s.hsocket[h] = NoSocket /\ s.hgroup[h] = g,
         NEW r \in RequestSocketInternal(s, g, h)
  PROVE  Books(r.st)
<1> DEFINE a == GetOrCreateGroup(s, g)
<1>1. /\ a \in PoolState /\ Books(a)
      /\ a.hsocket = s.hsocket /\ a.hgroup = s.hgroup
  BY GetOrCreateGroupType, ElementaryBooks, ElementarySockets, ElementaryFrames DEF SameRequests
<1>2. \/ r \in ActivateNewSocket(a, g, h)
      \/ /\ h # NoHandle
         /\ \E b \in AssignIdleSocketToGroup(a, g, h) :
              r = b \/ (b.rv # "OK" /\ r \in ActivateNewSocket(b.st, g, h))
  BY DEF RequestSocketInternal
<1> HIDE DEF a
<1>3. ASSUME h # NoHandle, NEW b \in AssignIdleSocketToGroup(a, g, h)
      PROVE  /\ Books(b.st)
             /\ b.rv # "OK" /\ r \in ActivateNewSocket(b.st, g, h) => Books(r.st)
  <2>1. Books(b.st)
    BY <1>1, <1>3, AssignIdleSocketToGroupBooks
  <2>2. /\ b \in [st : PoolState, rv : {"OK", "NONE"}]
        /\ SameRequests(a, b.st, h)
        /\ b.rv = "NONE" => b.st.hsocket = a.hsocket
    BY <1>1, <1>3, AssignIdleSocketToGroupEffect
  <2>3. b.rv # "OK" => b.st.hsocket = a.hsocket /\ b.st.hgroup = a.hgroup /\ b.st \in PoolState
    BY <2>2 DEF SameRequests
  <2> QED BY <1>1, <2>1, <2>3, ActivateNewSocketBooks
<1> QED BY <1>1, <1>2, <1>3, ActivateNewSocketBooks
-----------------------------------------------------------------------------
(***************************************************************************)
(* Requests.  The inductive invariant says of every handle what            *)
(* RequestsConserved and HandlesConsistent say; while an operation works   *)
(* on behalf of some handles, those are exempt.                            *)
(***************************************************************************)
RequestOK(s, h) ==
  /\ Waiting(s, h) <=> Queued(s, h) \/ s.callback[h] # NoResult
  /\ ~(Queued(s, h) /\ s.callback[h] # NoResult)
  /\ \A g \in Groups : Contains(s.pending[g], h) => s.hgroup[h] = g
  /\ s.hinit[h] => s.hgroup[h] # NoGroup /\ s.hsocket[h] # NoSocket
  /\ Queued(s, h) \/ s.hgroup[h] = NoGroup => s.hsocket[h] = NoSocket
  /\ s.callback[h] = "OK" => s.hsocket[h] # NoSocket

\* Handle h has nothing in the pool.
NoRequest(s, h) == ~Queued(s, h) /\ s.callback[h] = NoResult /\ s.hsocket[h] = NoSocket

Good(s, exempt) ==
  /\ s \in PoolState
  /\ Books(s)
  /\ \A g \in Groups : IsInjective(s.pending[g])
  /\ \A h \in Handles \ exempt : RequestOK(s, h)

\* Good for an operation that works for the handles in exempt, all detached.
Serving(s, exempt) == Good(s, exempt) /\ \A h \in exempt : NoRequest(s, h)

\* What RequestOK and NoRequest read.
SameFor(s, t, h) ==
  /\ \A g \in Groups : Contains(t.pending[g], h) <=> Contains(s.pending[g], h)
  /\ t.callback[h] = s.callback[h] /\ t.hgroup[h] = s.hgroup[h]
  /\ t.hinit[h] = s.hinit[h] /\ t.hsocket[h] = s.hsocket[h]

\* A handle none of whose fields changes stays consistent with the pool.
LEMMA SameForKeeps ==
  ASSUME NEW s, NEW t, NEW h, SameFor(s, t, h)
  PROVE  /\ Queued(t, h) <=> Queued(s, h)
         /\ RequestOK(s, h) => RequestOK(t, h)
         /\ NoRequest(s, h) => NoRequest(t, h)
<1>1. Queued(t, h) <=> Queued(s, h)
  BY DEF SameFor, Queued
<1>2. Waiting(t, h) <=> Waiting(s, h)
  BY DEF SameFor, Waiting
<1>3. RequestOK(s, h) => RequestOK(t, h)
  BY <1>1, <1>2 DEF SameFor, RequestOK
<1>4. NoRequest(s, h) => NoRequest(t, h)
  BY <1>1 DEF SameFor, NoRequest
<1> QED BY <1>1, <1>3, <1>4

\* A step that leaves queues, answers and handles alone keeps Good.
LEMMA GoodFrame ==
  ASSUME NEW s, NEW t \in PoolState, NEW X, Good(s, X), Books(t), NEW h,
         SameRequests(s, t, h)
  PROVE  /\ Good(t, X \cup {h})
         /\ t.hsocket = s.hsocket => Good(t, X)
         /\ Serving(s, X) /\ t.hsocket = s.hsocket => Serving(t, X)
<1>1. \A x \in Handles \ {h} : SameFor(s, t, x)
  BY DEF SameRequests, SameFor
<1>2. t.hsocket = s.hsocket => \A x : SameFor(s, t, x)
  BY DEF SameRequests, SameFor
<1>3. t.pending = s.pending
  BY DEF SameRequests
<1> QED BY <1>1, <1>2, <1>3, SameForKeeps DEF Good, Serving

-----------------------------------------------------------------------------
(***************************************************************************)
(* A request leaves its queue; a request gets its answer.                  *)
(***************************************************************************)
\* Handle h is at position i of the queue of group g.
QueuedAt(s, g, i, h) == i \in 1..Len(s.pending[g]) /\ h = s.pending[g][i]

\* Handle h is in the queue of group g or in none.
OnlyIn(s, g, h) == \A x \in Groups : Contains(s.pending[x], h) => x = g

\* t is s without the request of h, which was at position i of the queue of g.
Unqueued(s, g, i, h, t) == QueuedAt(s, g, i, h) /\ t = RemoveRequestFromQueue(s, g, i)

\* No handle but h notices the step from s to t.
OthersSame(s, t, h) == \A y : y # h => SameFor(s, t, y)

\* Nothing of a handle but its place in a queue differs between s and t.
OnlyQueues(s, t) ==
  /\ t.callback = s.callback /\ t.hgroup = s.hgroup /\ t.hinit = s.hinit
  /\ t.hsocket = s.hsocket /\ t.jobs = s.jobs

\* A request that leaves its queue is in no other, and no other handle notices.
LEMMA RemoveRequestGood ==
  ASSUME NEW s, NEW X, NEW g \in Groups, Good(s, X), NEW i, NEW h, NEW t,
         Unqueued(s, g, i, h, t), OnlyIn(s, g, h)
  PROVE  /\ Good(t, X \cup {h})
         /\ ~Queued(t, h)
         /\ OthersSame(s, t, h)
         /\ OnlyQueues(s, t)
<1> DEFINE q == RemoveAt(s.pending[g], i)
<1> USE DEF Unqueued, QueuedAt
<1>0. s \in PoolState /\ s.pending[g] \in Seq(Handles) /\ IsInjective(s.pending[g])
  BY Fields DEF Good
<1>1. t \in PoolState
  BY <1>0, RemoveRequestFromQueueType
<1>2. /\ t.pending = [s.pending EXCEPT ![g] = q]
      /\ t.callback = s.callback /\ t.hgroup = s.hgroup /\ t.hinit = s.hinit
      /\ t.hsocket = s.hsocket /\ t.jobs = s.jobs /\ SameBooks(s, t)
  BY <1>0 DEF RemoveRequestFromQueue, PoolState, SameBooks
<1>3. IsInjective(q) /\ \A y : Contains(q, y) <=> Contains(s.pending[g], y) /\ y # h
  BY <1>0, RemoveAtMembers
<1>4. Books(t)
  BY <1>2, SameBooksKeeps DEF Good
<1> HIDE DEF q
<1>5. t.pending[g] = q /\ \A x \in Groups : x # g => t.pending[x] = s.pending[x]
  BY <1>0, <1>2, Fields
<1>6. \A x \in Groups : IsInjective(t.pending[x])
  BY <1>3, <1>5 DEF Good
<1>7. OthersSame(s, t, h)
  BY <1>2, <1>3, <1>5 DEF SameFor, OthersSame
<1>8. ~Queued(t, h)
  BY <1>3, <1>5 DEF Queued, OnlyIn
<1>9. Good(t, X \cup {h})
  BY <1>1, <1>4, <1>6, <1>7, SameForKeeps DEF Good, OthersSame
<1> QED BY <1>2, <1>7, <1>8, <1>9 DEF OnlyQueues

\* InvokeUserCallbackLater ends the exemption of the handle it answers.
LEMMA AnswerGood ==
  ASSUME NEW s, NEW X, NEW h \in Handles, Good(s, X \cup {h}), NEW rv \in Results,
         ~Queued(s, h), s.hgroup[h] # NoGroup, ~s.hinit[h],
         rv = "OK" => s.hsocket[h] # NoSocket
  PROVE  LET t == InvokeUserCallbackLater(s, h, rv)
         IN  Good(t, X) /\ \A y \in Handles : y # h => SameFor(s, t, y)
<1> DEFINE t == InvokeUserCallbackLater(s, h, rv)
<1>0. s \in PoolState
  BY DEF Good
<1>1. t \in PoolState
  BY <1>0, InvokeUserCallbackLaterType
<1>2. /\ t.callback = [s.callback EXCEPT ![h] = rv]
      /\ t.pending = s.pending /\ t.hgroup = s.hgroup /\ t.hinit = s.hinit
      /\ t.hsocket = s.hsocket /\ SameBooks(s, t)
  BY <1>0 DEF InvokeUserCallbackLater, PoolState, SameBooks
<1>3. Books(t)
  BY <1>2, SameBooksKeeps DEF Good
<1> HIDE DEF t
<1>4. t.callback[h] = rv /\ rv # NoResult
  BY <1>0, <1>2, Fields, PoolAssumption DEF Results
<1>5. \A y \in Handles : y # h => SameFor(s, t, y)
  BY <1>0, <1>2, Fields DEF SameFor
<1>6. ~Queued(t, h) /\ Waiting(t, h)
  BY <1>2 DEF Queued, Waiting
<1>7. \A g \in Groups : ~Contains(t.pending[g], h)
  BY <1>6 DEF Queued
<1>8. RequestOK(t, h)
  BY <1>2, <1>4, <1>6, <1>7 DEF RequestOK
<1>9. \A g \in Groups : IsInjective(t.pending[g])
  BY <1>2 DEF Good
<1>10. Good(t, X)
  BY <1>1, <1>3, <1>5, <1>8, <1>9, SameForKeeps DEF Good
<1> QED BY <1>5, <1>10 DEF t

\* The head of a queue is a handle that waits in that group, and not an exempt one.
LEMMA HeadOfQueue ==
  ASSUME NEW s, NEW X, NEW g \in Groups, Serving(s, X), NEW i, NEW h, QueuedAt(s, g, i, h)
  PROVE  /\ h \in Handles /\ h \notin X
         /\ s.hgroup[h] = g /\ ~s.hinit[h]
         /\ s.hsocket[h] = NoSocket /\ s.callback[h] = NoResult
         /\ OnlyIn(s, g, h)
<1>1. h \in Handles
  BY Fields DEF QueuedAt, Serving, Good
<1>2. Contains(s.pending[g], h)
  BY DEF Contains, QueuedAt
<1>3. Queued(s, h)
  BY <1>2 DEF Queued
<1>4. h \notin X
  BY <1>3 DEF Serving, NoRequest
<1>5. RequestOK(s, h)
  BY <1>1, <1>4 DEF Serving, Good
<1>6. /\ s.hgroup[h] = g /\ s.hsocket[h] = NoSocket
      /\ Waiting(s, h) /\ ~(s.callback[h] # NoResult)
      /\ \A x \in Groups : Contains(s.pending[x], h) => x = g
  BY <1>2, <1>3, <1>5 DEF RequestOK
<1> QED BY <1>1, <1>4, <1>6 DEF Waiting, OnlyIn
-----------------------------------------------------------------------------
(***************************************************************************)
(* Waking up requests.                                                     *)
(***************************************************************************)
LEMMA SameForTrans ==
  ASSUME NEW s, NEW t, NEW u, NEW h, SameFor(s, t, h), SameFor(t, u, h)
  PROVE  SameFor(s, u, h)
BY DEF SameFor

\* ProcessPendingRequest keeps every handle consistent but for the exempt ones.
LEMMA ProcessPendingRequestGood ==
  ASSUME NEW s, NEW X \in SUBSET Handles, Serving(s, X), NEW g \in Groups,
         s.pending[g] # <<>>, NEW t \in ProcessPendingRequest(s, g)
  PROVE  Serving(t, X)
<1> DEFINE h == Head(s.pending[g])
<1>0. s \in PoolState /\ Good(s, X) /\ Books(s)
  BY DEF Serving, Good
<1>1. QueuedAt(s, g, 1, h)
  BY <1>0, Fields DEF QueuedAt
<1>2. /\ h \in Handles /\ h \notin X /\ s.hgroup[h] = g /\ ~s.hinit[h]
      /\ s.hsocket[h] = NoSocket /\ OnlyIn(s, g, h)
  BY <1>1, HeadOfQueue
<1>3. PICK r \in RequestSocketInternal(s, g, h) :
        t = IF r.rv = "PENDING" THEN r.st
            ELSE InvokeUserCallbackLater(
                   RemoveGroupIfEmpty(RemoveRequestFromQueue(r.st, g, 1), g), h, r.rv)
  BY DEF ProcessPendingRequest
<1> HIDE DEF h
<1>4. RequestEffect(s, r, h) /\ Books(r.st)
  BY <1>0, <1>2, RequestSocketInternalEffect, RequestSocketInternalBooks
<1>5. r.st \in PoolState /\ r.rv \in {"OK", "PENDING", "ERR"} /\ SameRequests(s, r.st, h)
  BY <1>4 DEF RequestEffect, RequestOutcomes
<1>6. CASE r.rv = "PENDING"
  <2>1. r.st.hsocket[h] = s.hsocket[h]
    BY <1>2, <1>4, <1>6 DEF RequestEffect
  <2>2. \A x \in Handles : r.st.hsocket[x] = s.hsocket[x]
    BY <1>5, <2>1 DEF SameRequests
  <2>3. r.st.hsocket = s.hsocket
    BY <1>0, <1>5, <2>2, Fields
  <2>4. Serving(r.st, X)
    BY <1>0, <1>4, <1>5, <2>3, GoodFrame
  <2> QED BY <1>3, <1>6, <2>4
<1>7. CASE r.rv # "PENDING"
  <2> DEFINE a == r.st
             u == RemoveRequestFromQueue(a, g, 1)
             v == RemoveGroupIfEmpty(u, g)
             Y == X \cup {h}
  <2>1. Good(a, Y)
    BY <1>0, <1>4, <1>5, GoodFrame
  <2>2. /\ a.pending = s.pending /\ a.hgroup = s.hgroup /\ a.hinit = s.hinit
        /\ \A x \in X : SameFor(s, a, x)
    BY <1>2, <1>5 DEF SameRequests, SameFor
  <2>3. r.rv = "OK" => a.hsocket[h] # NoSocket
    BY <1>2, <1>4 DEF RequestEffect
  <2> HIDE DEF a, Y
  <2>4. /\ Good(u, Y \cup {h}) /\ ~Queued(u, h)
        /\ OthersSame(a, u, h)
        /\ u.hgroup = a.hgroup /\ u.hinit = a.hinit /\ u.hsocket = a.hsocket
    <3>1. Unqueued(a, g, 1, h, u)
      BY <1>1, <2>2 DEF Unqueued, QueuedAt
    <3>2. OnlyIn(a, g, h)
      BY <1>2, <2>2 DEF OnlyIn
    <3> HIDE DEF u, v
    <3>3. Good(u, Y \cup {h}) /\ ~Queued(u, h) /\ OthersSame(a, u, h) /\ OnlyQueues(a, u)
      BY <2>1, <3>1, <3>2, RemoveRequestGood
    <3> QED BY <3>3 DEF OnlyQueues
  <2>5. u \in PoolState /\ Books(u)
    BY <2>4 DEF Good
  <2> HIDE DEF u
  <2>6. v \in PoolState /\ Books(v) /\ SameRequests(u, v, h) /\ v.hsocket = u.hsocket
    BY <2>5, RemoveGroupIfEmptyType, ElementaryBooks, ElementaryFrames, ElementarySockets
  <2> HIDE DEF v
  <2>7. Y \cup {h} = X \cup {h}
    BY DEF Y
  <2>8. Good(v, X \cup {h})
    BY <2>4, <2>6, <2>7, GoodFrame
  <2>9. \A y : SameFor(u, v, y)
    BY <2>6 DEF SameRequests, SameFor
  <2>10. /\ ~Queued(v, h) /\ v.hgroup[h] # NoGroup /\ ~v.hinit[h]
         /\ r.rv = "OK" => v.hsocket[h] # NoSocket
    <3>1. ~Queued(v, h)
      BY <2>4, <2>9, SameForKeeps
    <3>2. v.hgroup = s.hgroup /\ v.hinit = s.hinit
      BY <2>2, <2>4, <2>6 DEF SameRequests
    <3> QED BY <1>2, <2>3, <2>4, <2>6, <3>1, <3>2, PoolAssumption
  <2>11. r.rv \in Results
    BY <1>5, <1>7 DEF Results
  <2>12. t = InvokeUserCallbackLater(v, h, r.rv)
    BY <1>3, <1>7 DEF a, u, v
  <2>13. Good(t, X) /\ \A y \in Handles : y # h => SameFor(v, t, y)
    BY <1>2, <2>8, <2>10, <2>11, <2>12, AnswerGood
  <2>14. ASSUME NEW x \in X PROVE NoRequest(t, x)
    <3>1. x \in Handles /\ x # h
      BY <1>2
    <3>2. SameFor(s, a, x) /\ SameFor(a, u, x) /\ SameFor(u, v, x) /\ SameFor(v, t, x)
      BY <2>2, <2>4, <2>9, <2>13, <3>1 DEF OthersSame
    <3>3. SameFor(s, t, x)
      BY <3>2, SameForTrans
    <3> QED BY <3>3, SameForKeeps DEF Serving
  <2> QED BY <2>13, <2>14 DEF Serving
<1> QED BY <1>6, <1>7

\* OnAvailableSocketSlot keeps every handle consistent but for the exempt ones.
LEMMA OnAvailableSocketSlotGood ==
  ASSUME NEW s, NEW X \in SUBSET Handles, Serving(s, X), NEW g \in Groups,
         NEW t \in OnAvailableSocketSlot(s, g)
  PROVE  Serving(t, X)
<1>0. s \in PoolState /\ Good(s, X) /\ Books(s)
  BY DEF Serving, Good
<1>1. t = RemoveGroup(s, g) \/ (s.pending[g] # <<>> /\ t \in ProcessPendingRequest(s, g)) \/ t = s
  BY DEF OnAvailableSocketSlot
<1>2. CASE t = RemoveGroup(s, g)
  <2>1. t \in PoolState /\ Books(t)
    BY <1>0, <1>2, RemoveGroupType, ElementaryBooks
  <2>2. SameRequests(s, t, NoHandle) /\ t.hsocket = s.hsocket
    BY <1>0, <1>2 DEF SameRequests, RemoveGroup, PoolState
  <2> QED BY <1>0, <2>1, <2>2, GoodFrame
<1> QED BY <1>1, <1>2, ProcessPendingRequestGood

\* CheckForStalledSocketGroups keeps every handle consistent but for the exempt ones.
LEMMA CheckForStalledSocketGroupsGood ==
  ASSUME NEW s, NEW X \in SUBSET Handles, Serving(s, X),
         NEW t \in CheckForStalledSocketGroups(s)
  PROVE  Serving(t, X)
<1>0. s \in PoolState /\ Good(s, X) /\ Books(s)
  BY DEF Serving, Good
<1>1. TopStalledGroups(s) \subseteq Groups
  BY <1>0, Fields DEF TopStalledGroups
<1>2. \/ t = s
      \/ \E g \in TopStalledGroups(s) : t \in OnAvailableSocketSlot(s, g)
      \/ \E g \in TopStalledGroups(s) :
           \E u \in CloseOneIdleSocketExceptInGroup(s, NoGroup) : t \in OnAvailableSocketSlot(u, g)
  BY DEF CheckForStalledSocketGroups, CloseOneIdleSocket
<1>3. \A u \in CloseOneIdleSocketExceptInGroup(s, NoGroup) : Serving(u, X)
  <2> TAKE u \in CloseOneIdleSocketExceptInGroup(s, NoGroup)
  <2>1. u \in PoolState /\ SameRequests(s, u, NoHandle) /\ u.hsocket = s.hsocket /\ Books(u)
    BY <1>0, CloseOneIdleSocketEffect, CloseOneIdleSocketBooks
  <2> QED BY <1>0, <2>1, GoodFrame
<1> QED BY <1>1, <1>2, <1>3, OnAvailableSocketSlotGood

\* OnAvailableThenCheckStalled keeps every handle consistent but for the exempt ones.
LEMMA OnAvailableThenCheckStalledGood ==
  ASSUME NEW s, NEW X \in SUBSET Handles, Serving(s, X), NEW g \in Groups,
         NEW t \in OnAvailableThenCheckStalled(s, g)
  PROVE  Serving(t, X)
BY OnAvailableSocketSlotGood, CheckForStalledSocketGroupsGood DEF OnAvailableThenCheckStalled
-----------------------------------------------------------------------------
(***************************************************************************)
(* The handle's side.                                                      *)
(***************************************************************************)
\* Good and Serving read nothing but these fields.
LEMMA GoodSame ==
  ASSUME NEW s, NEW t \in PoolState, NEW X, SameBooks(s, t), t.pending = s.pending,
         t.callback = s.callback, t.hinit = s.hinit
  PROVE  /\ Good(s, X) => Good(t, X)
         /\ Serving(s, X) => Serving(t, X)
<1>1. \A h : SameFor(s, t, h)
  BY DEF SameFor, SameBooks
<1>2. Good(s, X) => Good(t, X)
  BY <1>1, SameBooksKeeps, SameForKeeps DEF Good
<1> QED BY <1>1, <1>2, SameForKeeps DEF Serving

\* The group of a handle without a socket does not matter to the books.
LEMMA HGroupBooks ==
  ASSUME NEW s, NEW t, Books(s),
         t.idle = s.idle, t.jobs = s.jobs, t.active = s.active,
         t.idleCount = s.idleCount, t.connecting = s.connecting, t.handedOut = s.handedOut,
         t.hsocket = s.hsocket,
         \A h \in Holders(s) : t.hgroup[h] = s.hgroup[h]
  PROVE  Books(t)
<1>1. /\ IdleSockets(t) = IdleSockets(s) /\ ConnectJobs(t) = ConnectJobs(s)
      /\ Holders(t) = Holders(s) /\ HeldSockets(t) = HeldSockets(s)
  BY DEF IdleSockets, ConnectJobs, Holders, HeldSockets
<1>2. SingleOwnerIn(t)
  BY <1>1 DEF Books, SingleOwnerIn
<1>3. \A g : {h \in Holders(t) : t.hgroup[h] = g} = {h \in Holders(s) : s.hgroup[h] = g}
  BY <1>1
<1>4. CountersMatchIn(t)
  BY <1>1, <1>3 DEF Books, CountersMatchIn
<1> QED BY <1>2, <1>4 DEF Books

\* ResetInternal ends the exemption of the handle it clears.
LEMMA ClearHandleGood ==
  ASSUME NEW s, NEW h \in Handles, Serving(s, {h})
  PROVE  Good(ClearHandle(s, h), {})
<1> DEFINE t == ClearHandle(s, h)
<1>0. s \in PoolState /\ Books(s) /\ NoRequest(s, h)
  BY DEF Serving, Good
<1>1. t \in PoolState
  BY <1>0, ClearHandleType
<1>2. /\ t.hinit = [s.hinit EXCEPT ![h] = FALSE] /\ t.hgroup = [s.hgroup EXCEPT ![h] = NoGroup]
      /\ t.idle = s.idle /\ t.jobs = s.jobs /\ t.active = s.active
      /\ t.idleCount = s.idleCount /\ t.connecting = s.connecting /\ t.handedOut = s.handedOut
      /\ t.hsocket = s.hsocket /\ t.pending = s.pending /\ t.callback = s.callback
  BY <1>0 DEF ClearHandle, PoolState
<1> HIDE DEF t
<1>3. t.hinit[h] = FALSE /\ t.hgroup[h] = NoGroup
  BY <1>0, <1>2, Fields
<1>4. \A y \in Handles \ {h} : SameFor(s, t, y)
  BY <1>0, <1>2, Fields DEF SameFor
<1>5. \A y \in Holders(s) : t.hgroup[y] = s.hgroup[y]
  BY <1>0, <1>2, Fields DEF Holders, NoRequest
<1>6. Books(t)
  BY <1>0, <1>2, <1>5, HGroupBooks
<1>7. NoRequest(t, h)
  BY <1>0, <1>2 DEF NoRequest, Queued
<1>8. RequestOK(t, h)
  BY <1>3, <1>7, PoolAssumption DEF NoRequest, RequestOK, Waiting, Queued
<1>9. \A g \in Groups : IsInjective(t.pending[g])
  BY <1>2 DEF Serving, Good
<1>10. \A y \in Handles : RequestOK(t, y)
  BY <1>4, <1>8, SameForKeeps DEF Serving, Good
<1> QED BY <1>1, <1>6, <1>9, <1>10 DEF Good, t

\* HandleInitCompletion ends the exemption of the handle it completes.
LEMMA HandleInitCompletionGood ==
  ASSUME NEW s, NEW h \in Handles, Good(s, {h}), ~Queued(s, h), s.callback[h] = NoResult,
         s.hgroup[h] # NoGroup
  PROVE  Good(HandleInitCompletion(s, h), {})
<1>1. CASE s.hsocket[h] = NoSocket
  <2>1. Serving(s, {h})
    BY <1>1 DEF Serving, NoRequest
  <2> QED BY <1>1, <2>1, ClearHandleGood DEF HandleInitCompletion
<1>2. CASE s.hsocket[h] # NoSocket
  <2> DEFINE t == [s EXCEPT !.hinit[h] = TRUE]
  <2>0. s \in PoolState /\ Books(s)
    BY DEF Good
  <2>1. t \in PoolState
    BY <2>0, Fields, SetHInit
  <2>2. /\ t.hinit = [s.hinit EXCEPT ![h] = TRUE] /\ SameBooks(s, t)
        /\ t.pending = s.pending /\ t.callback = s.callback
    BY <2>0 DEF PoolState, SameBooks
  <2>3. HandleInitCompletion(s, h) = t
    BY <1>2 DEF HandleInitCompletion
  <2> HIDE DEF t
  <2>4. t.hinit[h] = TRUE /\ t.hsocket = s.hsocket /\ t.hgroup = s.hgroup
    BY <2>0, <2>2, Fields DEF SameBooks
  <2>5. \A y \in Handles \ {h} : SameFor(s, t, y)
    BY <2>0, <2>2, <2>4, Fields DEF SameFor
  <2>6. ~Queued(t, h) /\ \A g \in Groups : ~Contains(t.pending[g], h)
    BY <2>2 DEF Queued
  <2>7. RequestOK(t, h)
    BY <1>2, <2>2, <2>4, <2>6, PoolAssumption DEF RequestOK, Waiting
  <2>8. Books(t)
    BY <2>0, <2>2, SameBooksKeeps
  <2>9. \A g \in Groups : IsInjective(t.pending[g])
    BY <2>2 DEF Good
  <2>10. \A y \in Handles : RequestOK(t, y)
    BY <2>5, <2>7, SameForKeeps DEF Good
  <2> QED BY <2>1, <2>3, <2>8, <2>9, <2>10 DEF Good
<1> QED BY <1>1, <1>2

\* InsertRequestIntoQueue ends the exemption of the handle it queues.
LEMMA InsertRequestGood ==
  ASSUME NEW s, NEW h \in Handles, NEW g \in Groups, Serving(s, {h}),
         s.hgroup[h] = g, ~s.hinit[h]
  PROVE  Good(InsertRequestIntoQueue(s, g, h), {})
<1> DEFINE t == InsertRequestIntoQueue(s, g, h)
           q == s.pending[g]
           r == InsertAt(q, InsertPosition(q, h), h)
<1>0. /\ s \in PoolState /\ Books(s) /\ NoRequest(s, h)
      /\ q \in Seq(Handles) /\ IsInjective(q)
  BY Fields DEF Serving, Good
<1>1. t \in PoolState
  BY <1>0, InsertRequestIntoQueueType
<1>2. /\ t.pending = [s.pending EXCEPT ![g] = r]
      /\ t.callback = s.callback /\ t.hinit = s.hinit /\ SameBooks(s, t)
  BY <1>0 DEF InsertRequestIntoQueue, PoolState, SameBooks
<1>3. ~Contains(q, h)
  BY <1>0 DEF NoRequest, Queued
<1>4. IsInjective(r) /\ \A y : Contains(r, y) <=> Contains(q, y) \/ y = h
  BY <1>0, <1>3, InsertPositionProperties, InsertAtMembers
<1> HIDE DEF t, r
<1>5. t.pending[g] = r /\ \A x \in Groups : x # g => t.pending[x] = s.pending[x]
  BY <1>0, <1>2, Fields
<1>6. t.hsocket = s.hsocket /\ t.hgroup = s.hgroup
  BY <1>2 DEF SameBooks
<1>7. \A y \in Handles \ {h} : SameFor(s, t, y)
  BY <1>2, <1>4, <1>5, <1>6 DEF SameFor
<1>8. \A x \in Groups : Contains(t.pending[x], h) <=> x = g
  BY <1>0, <1>4, <1>5 DEF NoRequest, Queued
<1>9. Queued(t, h) /\ Waiting(t, h)
  BY <1>2, <1>6, <1>8, PoolAssumption DEF Queued, Waiting
<1>10. RequestOK(t, h)
  BY <1>0, <1>2, <1>6, <1>8, <1>9, PoolAssumption DEF RequestOK, NoRequest
<1>11. Books(t)
  BY <1>0, <1>2, SameBooksKeeps
<1>12. \A x \in Groups : IsInjective(t.pending[x])
  BY <1>4, <1>5 DEF Serving, Good
<1>13. \A y \in Handles : RequestOK(t, y)
  BY <1>7, <1>10, SameForKeeps DEF Serving, Good
<1> QED BY <1>1, <1>11, <1>12, <1>13 DEF Good, t
-----------------------------------------------------------------------------
(***************************************************************************)
(* Releasing, cancelling, and the end of a ConnectJob.                     *)
(***************************************************************************)
LEMMA AddIdleSocketServing ==
  ASSUME NEW s, NEW X, Serving(s, X), NEW g \in Groups, NEW k \in FreeSockets(s)
  PROVE  Serving(AddIdleSocket(s, g, k), X)
<1>0. s \in PoolState /\ Books(s) /\ Good(s, X) /\ k \in Sockets
  BY DEF Serving, Good, FreeSockets
<1> DEFINE t == AddIdleSocket(s, g, k)
<1>1. t \in PoolState /\ Books(t) /\ SameRequests(s, t, NoHandle) /\ t.hsocket = s.hsocket
  BY <1>0, AddIdleSocketType, AddIdleSocketBooks, ElementaryFrames, ElementarySockets
<1> HIDE DEF t
<1>2. Serving(t, X)
  BY <1>0, <1>1, GoodFrame
<1> QED BY <1>2 DEF t

\* RemoveConnectJob leaves all requests alone.
LEMMA RemoveConnectJobServing ==
  ASSUME NEW s, NEW X, Serving(s, X), NEW g \in Groups, NEW k \in s.jobs[g]
  PROVE  LET t == RemoveConnectJob(s, g, k)
         IN  /\ Serving(t, X) /\ k \in FreeSockets(t)
             /\ SameRequests(s, t, NoHandle) /\ t.hsocket = s.hsocket
<1>0. s \in PoolState /\ Books(s) /\ Good(s, X)
  BY DEF Serving, Good
<1> DEFINE t == RemoveConnectJob(s, g, k)
<1>1. t \in PoolState /\ Books(t) /\ k \in FreeSockets(t)
  BY <1>0, RemoveConnectJobType, RemoveConnectJobBooks
<1>2. SameRequests(s, t, NoHandle) /\ t.hsocket = s.hsocket
  BY <1>0 DEF RemoveConnectJob, PoolState, SameRequests
<1> HIDE DEF t
<1>3. Serving(t, X)
  BY <1>0, <1>1, <1>2, GoodFrame
<1> QED BY <1>1, <1>2, <1>3 DEF t

\* b is s after the handle h, which had a socket and no request, has let go of its
\* socket and of its answer.
LetsGo(s, h, b) ==
  /\ s.hsocket[h] # NoSocket /\ ~Queued(s, h) /\ s.hgroup[h] # NoGroup
  /\ b \in PoolState
  /\ b.idle = s.idle /\ b.jobs = s.jobs /\ b.active = s.active /\ b.idleCount = s.idleCount
  /\ b.connecting = s.connecting /\ b.handedOut = s.handedOut
  /\ b.pending = s.pending /\ b.hgroup = s.hgroup /\ b.hinit = s.hinit
  /\ b.hsocket = [s.hsocket EXCEPT ![h] = NoSocket]
  /\ b.callback[h] = NoResult /\ \A y \in Handles \ {h} : b.callback[y] = s.callback[y]

\* The counters of ReleaseSocket after the handle has let go.
Released(b, g) == [b EXCEPT !.handedOut = b.handedOut - 1, !.active[g] = b.active[g] - 1]

\* With the counters the books are right again, and the socket may become idle.
LEMMA ReleasedServing ==
  ASSUME NEW s, Good(s, {}), NEW h \in Handles, NEW b, LetsGo(s, h, b)
  PROVE  LET g == s.hgroup[h]
             k == s.hsocket[h]
             d == Released(b, g)
         IN  /\ g \in Groups /\ k \in FreeSockets(d)
             /\ Serving(d, {h}) /\ Serving(AddIdleSocket(d, g, k), {h})
<1> DEFINE g == s.hgroup[h]
           k == s.hsocket[h]
           d == Released(b, g)
<1> USE DEF LetsGo
<1>0. s \in PoolState /\ Books(s)
  BY DEF Good
<1>1. g \in Groups /\ k \in Sockets
  BY <1>0, Fields
<1> HIDE DEF g, k
<1>2. SameBooks(LetGo(s, h), d)
  <2>1. /\ LetGo(s, h).hsocket = [s.hsocket EXCEPT ![h] = NoSocket]
        /\ LetGo(s, h).active = [s.active EXCEPT ![g] = s.active[g] - 1]
        /\ LetGo(s, h).handedOut = s.handedOut - 1
        /\ LetGo(s, h).idle = s.idle /\ LetGo(s, h).jobs = s.jobs
        /\ LetGo(s, h).hgroup = s.hgroup
        /\ LetGo(s, h).idleCount = s.idleCount /\ LetGo(s, h).connecting = s.connecting
    BY <1>0 DEF LetGo, PoolState, g
  <2>2. /\ d.hsocket = b.hsocket /\ d.active = [b.active EXCEPT ![g] = b.active[g] - 1]
        /\ d.handedOut = b.handedOut - 1 /\ d.idle = b.idle /\ d.jobs = b.jobs
        /\ d.hgroup = b.hgroup /\ d.idleCount = b.idleCount /\ d.connecting = b.connecting
    BY DEF Released, PoolState
  <2> QED BY <2>1, <2>2 DEF SameBooks
<1>3. Books(d) /\ k \in FreeSockets(d)
  BY <1>0, <1>2, LetGoBooks, SameBooksKeeps DEF k
<1>4. d \in PoolState
  <2> DEFINE c == [b EXCEPT !.handedOut = b.handedOut - 1]
  <2>1. b.handedOut - 1 \in Int /\ b.active[g] - 1 \in Int
    BY <1>1, Fields
  <2>2. c \in PoolState /\ c.active = b.active
    BY <2>1, SetHandedOut, ZenonT(60) DEF PoolState
  <2> HIDE DEF c
  <2>3. [c.active EXCEPT ![g] = b.active[g] - 1] \in [Groups -> Int]
    BY <2>1, <2>2, Fields
  <2>4. [c EXCEPT !.active = [c.active EXCEPT ![g] = b.active[g] - 1]] \in PoolState
    BY <2>2, <2>3, SetActive
  <2> QED BY <2>4 DEF c, Released
<1>5. /\ d.pending = s.pending /\ d.hgroup = s.hgroup /\ d.hinit = s.hinit
      /\ d.hsocket = [s.hsocket EXCEPT ![h] = NoSocket] /\ d.callback = b.callback
  BY DEF Released, PoolState
<1> HIDE DEF d
<1>6. \A y \in Handles \ {h} : SameFor(s, d, y)
  BY <1>0, <1>5, Fields DEF SameFor
<1>7. d.hsocket[h] = NoSocket /\ d.callback[h] = NoResult /\ ~Queued(d, h)
  BY <1>0, <1>5, Fields DEF Queued
<1>8. Serving(d, {h})
  <2>1. \A x \in Groups : IsInjective(d.pending[x])
    BY <1>5 DEF Good
  <2>2. \A y \in Handles \ {h} : RequestOK(d, y)
    BY <1>6, SameForKeeps DEF Good
  <2> QED BY <1>3, <1>4, <1>7, <2>1, <2>2 DEF Serving, Good, NoRequest
<1>9. Serving(AddIdleSocket(d, g, k), {h})
  BY <1>1, <1>3, <1>8, AddIdleSocketServing
<1> QED BY <1>1, <1>3, <1>8, <1>9 DEF g, k, d

\* ReleaseSocket keeps every handle consistent but the one that has let go.
LEMMA ReleaseSocketGood ==
  ASSUME NEW s, Good(s, {}), NEW h \in Handles, NEW b, LetsGo(s, h, b), NEW id, NEW connected,
         NEW t \in ReleaseSocket(b, s.hgroup[h], s.hsocket[h], id, connected)
  PROVE  Serving(t, {h})
<1> DEFINE g == s.hgroup[h]
           k == s.hsocket[h]
           d == Released(b, g)
           e == [d EXCEPT !.stale = d.stale \ {k}]
<1>1. \/ t \in OnAvailableThenCheckStalled(AddIdleSocket(d, g, k), g)
      \/ t \in CheckForStalledSocketGroups(e)
  BY DEF ReleaseSocket, Released
<1> HIDE DEF g, k, d, e
<1>2. g \in Groups /\ Serving(d, {h}) /\ Serving(AddIdleSocket(d, g, k), {h})
  BY ReleasedServing DEF g, k, d
<1>3. Serving(e, {h})
  <2>0. d \in PoolState
    BY <1>2 DEF Serving, Good
  <2>1. d.stale \ {k} \in SUBSET Sockets
    BY <2>0, Fields
  <2>2. e \in PoolState
    BY <2>0, <2>1, SetStale DEF e
  <2>3. SameBooks(d, e) /\ e.pending = d.pending /\ e.callback = d.callback /\ e.hinit = d.hinit
    BY <2>0 DEF SameBooks, PoolState, e
  <2> QED BY <1>2, <2>2, <2>3, GoodSame
<1> QED BY <1>1, <1>2, <1>3, OnAvailableThenCheckStalledGood, CheckForStalledSocketGroupsGood

\* CancelPendingRequest keeps every handle consistent but for the exempt ones.
LEMMA CancelPendingRequestGood ==
  ASSUME NEW s, Good(s, {}), NEW h \in Handles, Queued(s, h),
         NEW t \in CancelPendingRequest(s, s.hgroup[h], h)
  PROVE  Serving(t, {h})
<1> DEFINE g == s.hgroup[h]
           i == CHOOSE j \in 1..Len(s.pending[g]) : s.pending[g][j] = h
           u == RemoveRequestFromQueue(s, g, i)
<1>0. RequestOK(s, h) /\ s \in PoolState
  BY DEF Good
<1>1. g \in Groups /\ Contains(s.pending[g], h)
  BY <1>0 DEF Queued, RequestOK
<1>2. i \in 1..Len(s.pending[g]) /\ s.pending[g][i] = h
  BY <1>1 DEF Contains
<1>3. t = u \/ \E k \in u.jobs[g] : t \in CheckForStalledSocketGroups(RemoveConnectJob(u, g, k))
  BY <1>1 DEF CancelPendingRequest
<1> HIDE DEF g, i
<1>4. OnlyIn(s, g, h) /\ Unqueued(s, g, i, h, u)
  BY <1>0, <1>2 DEF RequestOK, OnlyIn, Unqueued, QueuedAt, g
<1> HIDE DEF u
<1>5. Good(u, {} \cup {h}) /\ ~Queued(u, h) /\ OnlyQueues(s, u)
  BY <1>1, <1>4, RemoveRequestGood
<1>6. s.callback[h] = NoResult /\ s.hsocket[h] = NoSocket
  BY <1>0 DEF RequestOK
<1>7. {} \cup {h} = {h}
  OBVIOUS
<1>8. Serving(u, {h})
  BY <1>5, <1>6, <1>7 DEF Serving, NoRequest, OnlyQueues
<1> QED BY <1>1, <1>3, <1>8, RemoveConnectJobServing, CheckForStalledSocketGroupsGood

\* CancelRequest keeps every handle consistent but for the exempt ones.
LEMMA CancelRequestGood ==
  ASSUME NEW s, Good(s, {}), NEW h \in Handles, Waiting(s, h),
         NEW t \in CancelRequest(s, s.hgroup[h], h)
  PROVE  Serving(t, {h})
<1> DEFINE g == s.hgroup[h]
           a == [s EXCEPT !.callback[h] = NoResult]
           b == [a EXCEPT !.hsocket[h] = NoSocket]
<1>0. RequestOK(s, h) /\ s \in PoolState /\ Books(s)
  BY DEF Good
<1>1. a \in PoolState
  BY <1>0, Fields, SetCallback
<1>2. b \in PoolState
  BY <1>1, Fields, SetHSocket
<1>3. /\ b.idle = s.idle /\ b.jobs = s.jobs /\ b.active = s.active /\ b.idleCount = s.idleCount
      /\ b.connecting = s.connecting /\ b.handedOut = s.handedOut
      /\ b.pending = s.pending /\ b.hgroup = s.hgroup /\ b.hinit = s.hinit
      /\ b.hsocket = [s.hsocket EXCEPT ![h] = NoSocket]
      /\ b.callback = [s.callback EXCEPT ![h] = NoResult]
  BY <1>0 DEF PoolState
<1>4. \/ s.callback[h] = NoResult /\ t \in CancelPendingRequest(s, g, h)
      \/ s.callback[h] # NoResult /\ s.hsocket[h] = NoSocket /\ t = b
      \/ /\ s.callback[h] # NoResult /\ s.hsocket[h] # NoSocket
         /\ \E c \in BOOLEAN : t \in ReleaseSocket(b, g, s.hsocket[h], s.hpoolId[h], c)
  BY DEF CancelRequest
<1> HIDE DEF g, a, b
<1>5. s.callback[h] = NoResult => Queued(s, h)
  BY <1>0 DEF RequestOK
<1>6. s.callback[h] # NoResult => ~Queued(s, h)
  BY <1>0 DEF RequestOK
<1>7. b.callback[h] = NoResult /\ \A y \in Handles \ {h} : b.callback[y] = s.callback[y]
  BY <1>0, <1>3, Fields
<1>8. CASE s.callback[h] = NoResult /\ t \in CancelPendingRequest(s, g, h)
  BY <1>5, <1>8, CancelPendingRequestGood DEF g
<1>9. CASE s.callback[h] # NoResult /\ s.hsocket[h] = NoSocket /\ t = b
  <2>1. b.hsocket = s.hsocket
    BY <1>0, <1>3, <1>9, Fields
  <2>2. \A y \in Handles \ {h} : SameFor(s, b, y)
    BY <1>3, <1>7, <2>1 DEF SameFor
  <2>3. Books(b)
    BY <1>0, <1>3, <2>1, SameBooksKeeps DEF SameBooks
  <2>4. NoRequest(b, h)
    BY <1>3, <1>6, <1>7, <1>9, <2>1 DEF NoRequest, Queued
  <2>5. \A x \in Groups : IsInjective(b.pending[x])
    BY <1>3 DEF Good
  <2>6. \A y \in Handles \ {h} : RequestOK(b, y)
    BY <2>2, SameForKeeps DEF Good
  <2> QED BY <1>2, <1>9, <2>3, <2>4, <2>5, <2>6 DEF Serving, Good
<1>10. CASE /\ s.callback[h] # NoResult /\ s.hsocket[h] # NoSocket
            /\ \E c \in BOOLEAN : t \in ReleaseSocket(b, g, s.hsocket[h], s.hpoolId[h], c)
  <2>1. LetsGo(s, h, b)
    BY <1>2, <1>3, <1>6, <1>7, <1>10 DEF Waiting, LetsGo
  <2> QED BY <1>10, <2>1, ReleaseSocketGood DEF g
<1> QED BY <1>4, <1>8, <1>9, <1>10
\* OnConnectJobComplete keeps every handle consistent but for the exempt ones.
LEMMA OnConnectJobCompleteGood ==
  ASSUME NEW s, Good(s, {}), NEW g \in Groups, NEW k \in s.jobs[g], NEW result,
         NEW t \in OnConnectJobComplete(s, g, k, result)
  PROVE  Good(t, {})
<1>0. s \in PoolState /\ Serving(s, {})
  BY DEF Good, Serving
<1>1. CASE s.pending[g] = <<>>
  <2> DEFINE b == RemoveConnectJob(s, g, k)
  <2>1. Serving(b, {}) /\ k \in FreeSockets(b)
    BY <1>0, RemoveConnectJobServing
  <2>2. t \in OnAvailableThenCheckStalled(IF result = "OK" THEN AddIdleSocket(b, g, k) ELSE b, g)
    BY <1>1 DEF OnConnectJobComplete
  <2> HIDE DEF b
  <2>3. Serving(AddIdleSocket(b, g, k), {})
    BY <2>1, AddIdleSocketServing
  <2>4. Serving(t, {})
    BY <2>1, <2>2, <2>3, OnAvailableThenCheckStalledGood
  <2> QED BY <2>4 DEF Serving
<1>2. CASE s.pending[g] # <<>>
  <2> DEFINE h == Head(s.pending[g])
             u == RemoveRequestFromQueue(s, g, 1)
             b == RemoveConnectJob(u, g, k)
             c == HandOutSocket(b, g, h, k)
             e == InvokeUserCallbackLater(b, h, "ERR")
  <2>1. QueuedAt(s, g, 1, h) /\ Unqueued(s, g, 1, h, u)
    BY <1>0, <1>2, Fields DEF QueuedAt, Unqueued
  <2>2. /\ h \in Handles /\ s.hgroup[h] = g /\ ~s.hinit[h]
        /\ s.hsocket[h] = NoSocket /\ s.callback[h] = NoResult
        /\ OnlyIn(s, g, h)
    BY <1>0, <2>1, HeadOfQueue
  <2>3. \/ \E rv \in {"OK", "ERR"} : t = InvokeUserCallbackLater(c, h, rv)
        \/ t \in OnAvailableThenCheckStalled(e, g)
    BY <1>2 DEF OnConnectJobComplete
  <2> HIDE DEF h, u
  <2>4. /\ Good(u, {} \cup {h}) /\ ~Queued(u, h)
        /\ u.callback = s.callback /\ u.hgroup = s.hgroup /\ u.hinit = s.hinit
        /\ u.hsocket = s.hsocket /\ u.jobs = s.jobs
    <3>1. Good(u, {} \cup {h}) /\ ~Queued(u, h) /\ OnlyQueues(s, u)
      BY <2>1, <2>2, RemoveRequestGood
    <3> QED BY <3>1 DEF OnlyQueues
  <2>5. Serving(u, {h})
    <3>1. {} \cup {h} = {h}
      OBVIOUS
    <3> QED BY <2>2, <2>4, <3>1 DEF Serving, NoRequest
  <2>6. /\ Serving(b, {h}) /\ k \in FreeSockets(b)
        /\ SameRequests(u, b, NoHandle) /\ b.hsocket = u.hsocket
    BY <2>4, <2>5, RemoveConnectJobServing
  <2> HIDE DEF b
  <2>7. /\ b \in PoolState /\ Books(b) /\ Good(b, {h}) /\ ~Queued(b, h)
        /\ b.hgroup[h] = g /\ ~b.hinit[h] /\ b.hsocket[h] = NoSocket
    BY <2>2, <2>4, <2>6 DEF Serving, Good, NoRequest, SameRequests
  <2>8. k \in Sockets /\ k # NoSocket /\ g # NoGroup
    BY <2>6, PoolAssumption DEF FreeSockets
  <2>9. ASSUME NEW rv \in {"OK", "ERR"} PROVE Good(InvokeUserCallbackLater(c, h, rv), {})
    <3>1. /\ c \in PoolState /\ Books(c) /\ SameRequests(b, c, h) /\ c.hsocket[h] = k
      BY <2>2, <2>6, <2>7, <2>8, HandOutSocketType, HandOutSocketBooks, ElementaryFrames,
         HandOutSocketGives
    <3> HIDE DEF c
    <3>2. Good(c, {h} \cup {h})
      BY <2>7, <3>1, GoodFrame
    <3>3. {h} \cup {h} = {} \cup {h}
      OBVIOUS
    <3>4. ~Queued(c, h) /\ c.hgroup[h] = g /\ ~c.hinit[h]
      BY <2>7, <3>1 DEF SameRequests, Queued
    <3>5. rv \in Results
      BY DEF Results
    <3>6. Good(c, {} \cup {h})
      BY <3>2, <3>3
    <3> QED BY <2>2, <2>8, <3>1, <3>4, <3>5, <3>6, AnswerGood
  <2>10. Good(e, {})
    <3>1. Good(b, {} \cup {h})
      <4>1. {h} = {} \cup {h}
        OBVIOUS
      <4> QED BY <2>7, <4>1
    <3>2. "ERR" \in Results
      BY DEF Results
    <3> QED BY <2>2, <2>7, <2>8, <3>1, <3>2, AnswerGood
  <2>11. Serving(e, {})
    BY <2>10 DEF Serving
  <2> HIDE DEF c, e
  <2>12. t \in OnAvailableThenCheckStalled(e, g) => Serving(t, {})
    BY <2>11, OnAvailableThenCheckStalledGood
  <2> QED BY <2>3, <2>9, <2>12 DEF Serving
<1> QED BY <1>1, <1>2
-----------------------------------------------------------------------------
(***************************************************************************)
(* The inductive invariant and the theorems.                               *)
(***************************************************************************)
Inv == Good(pool, {})

\* The entry point CleanupIdleSockets preserves the invariant.
LEMMA CleanupIdleSocketsGood ==
  ASSUME Inv, NEW dead \in SUBSET Sockets, CleanupIdleSockets(dead)
  PROVE  Inv'
<1> DEFINE n == Cardinality(dead)
           t == pool'
<1>0. pool \in PoolState /\ Books(pool) /\ dead \subseteq IdleSockets(pool)
  BY DEF Inv, Good, CleanupIdleSockets
<1>1. t \in PoolState
  BY <1>0, CleanupIdleSocketsType DEF TypeOK
<1>2. /\ t.idle = [g \in Groups |-> pool.idle[g] \ dead] /\ t.idleCount = pool.idleCount - n
      /\ t.jobs = pool.jobs /\ t.active = pool.active /\ t.connecting = pool.connecting
      /\ t.handedOut = pool.handedOut /\ t.hsocket = pool.hsocket /\ t.hgroup = pool.hgroup
      /\ t.pending = pool.pending /\ t.callback = pool.callback /\ t.hinit = pool.hinit
  BY <1>0 DEF CleanupIdleSockets, PoolState
<1> HIDE DEF t, n
<1>3. \A g \in Groups : t.idle[g] = pool.idle[g] \ dead
  BY <1>2
<1>4. IdleSockets(t) = IdleSockets(pool) \ dead
  BY <1>3 DEF IdleSockets
<1>5. /\ ConnectJobs(t) = ConnectJobs(pool) /\ Holders(t) = Holders(pool)
      /\ HeldSockets(t) = HeldSockets(pool)
  BY <1>2 DEF ConnectJobs, Holders, HeldSockets
<1>6. SingleOwnerIn(t)
  BY <1>0, <1>2, <1>3, <1>4, <1>5 DEF Books, SingleOwnerIn
<1>7. t.idleCount = Cardinality(IdleSockets(t))
  <2>1. IdleSockets(pool) \cap dead = dead
    BY <1>0
  <2>2. Cardinality(IdleSockets(pool) \ dead) = Cardinality(IdleSockets(pool)) - Cardinality(dead)
    BY <1>0, <2>1, Finite, FS_Difference, ZenonT(60)
  <2> QED BY <1>0, <1>2, <1>4, <2>2 DEF Books, CountersMatchIn, n
<1>8. CountersMatchIn(t)
  BY <1>0, <1>2, <1>5, <1>7 DEF Books, CountersMatchIn
<1>9. \A h : SameFor(pool, t, h)
  BY <1>2 DEF SameFor
<1>10. Good(t, {})
  BY <1>1, <1>2, <1>6, <1>8, <1>9, SameForKeeps DEF Inv, Good, Books
<1> QED BY <1>10 DEF Inv, t

\* The entry point Flush preserves the invariant.
LEMMA FlushGood ==
  ASSUME Inv, Flush
  PROVE  Inv'
<1> DEFINE t == pool'
           ni == Cardinality(IdleSockets(pool))
           nj == Cardinality(ConnectJobs(pool))
<1>0. pool \in PoolState /\ Books(pool)
  BY DEF Inv, Good
<1>1. t \in PoolState
  BY <1>0, FlushType DEF TypeOK
<1>2. /\ t.idle = [g \in Groups |-> {}] /\ t.jobs = [g \in Groups |-> {}]
      /\ t.idleCount = pool.idleCount - ni /\ t.connecting = pool.connecting - nj
      /\ t.pending = [g \in Groups |-> <<>>]
      /\ t.callback = [h \in Handles |-> IF \E g \in Groups : Contains(pool.pending[g], h)
                                         THEN "ABORTED" ELSE pool.callback[h]]
      /\ t.active = pool.active /\ t.handedOut = pool.handedOut /\ t.hsocket = pool.hsocket
      /\ t.hgroup = pool.hgroup /\ t.hinit = pool.hinit
  BY <1>0 DEF Flush, PoolState
<1>3. pool.idleCount = ni /\ pool.connecting = nj /\ ni \in Int /\ nj \in Int
  BY <1>0, Fields DEF Books, CountersMatchIn
<1> HIDE DEF t, ni, nj
<1>4. t.idleCount = 0 /\ t.connecting = 0
  BY <1>2, <1>3
<1>5. IdleSockets(t) = {} /\ ConnectJobs(t) = {}
  BY <1>2 DEF IdleSockets, ConnectJobs
<1>6. Holders(t) = Holders(pool) /\ HeldSockets(t) = HeldSockets(pool)
  BY <1>2 DEF Holders, HeldSockets
<1>7. SingleOwnerIn(t)
  BY <1>0, <1>2, <1>5, <1>6 DEF Books, SingleOwnerIn
<1>8. CountersMatchIn(t)
  BY <1>0, <1>2, <1>4, <1>5, <1>6, FS_EmptySet DEF Books, CountersMatchIn
<1>9. \A g \in Groups : IsInjective(t.pending[g]) /\ \A h : ~Contains(t.pending[g], h)
  BY <1>2 DEF IsInjective, Contains
<1>10. ASSUME NEW h \in Handles PROVE RequestOK(t, h)
  <2>1. RequestOK(pool, h)
    BY DEF Inv, Good
  <2>2. ~Queued(t, h)
    BY <1>9 DEF Queued
  <2>3. t.callback[h] = IF Queued(pool, h) THEN "ABORTED" ELSE pool.callback[h]
    BY <1>2 DEF Queued
  <2>4. Waiting(t, h) <=> Waiting(pool, h)
    BY <1>2 DEF Waiting
  <2>5. CASE Queued(pool, h)
    BY <1>2, <1>9, <2>1, <2>2, <2>3, <2>4, <2>5, PoolAssumption DEF RequestOK
  <2>6. CASE ~Queued(pool, h)
    BY <1>2, <1>9, <2>1, <2>2, <2>3, <2>4, <2>6 DEF RequestOK
  <2> QED BY <2>5, <2>6
<1>11. Good(t, {})
  BY <1>1, <1>7, <1>8, <1>9, <1>10 DEF Good, Books
<1> QED BY <1>11 DEF Inv, t

\* A backup job may be added at any time.
LEMMA AddConnectJobGood ==
  ASSUME Inv, NEW g \in Groups, NEW k \in FreeSockets(pool)
  PROVE  Good(AddConnectJob(pool, g, k), {}) /\ k \in AddConnectJob(pool, g, k).jobs[g]
<1> DEFINE u == AddConnectJob(pool, g, k)
<1>0. pool \in PoolState /\ Books(pool) /\ Good(pool, {}) /\ k \in Sockets
  BY DEF Inv, Good, FreeSockets
<1>1. /\ u \in PoolState /\ Books(u) /\ SameRequests(pool, u, NoHandle)
      /\ u.hsocket = pool.hsocket
  BY <1>0, AddConnectJobType, AddConnectJobBooks, ElementaryFrames, ElementarySockets
<1>2. k \in u.jobs[g]
  BY <1>0 DEF AddConnectJob, PoolState
<1> HIDE DEF u
<1>3. Good(u, {})
  BY <1>0, <1>1, GoodFrame
<1> QED BY <1>2, <1>3 DEF u

\* The entry point OnBackupSocketTimerFired preserves the invariant.
LEMMA OnBackupSocketTimerFiredGood ==
  ASSUME Inv, NEW g \in Groups, OnBackupSocketTimerFired(g)
  PROVE  Inv'
<1>0. pool \in PoolState /\ Books(pool) /\ Good(pool, {})
  BY DEF Inv, Good
<1>1. \/ pool' = [pool EXCEPT !.backup[g] = FALSE]
      \/ \E k \in FreeSockets(pool) : pool' = [AddConnectJob(pool, g, k) EXCEPT !.backup[g] = FALSE]
      \/ \E k \in FreeSockets(pool), rv \in ConnectResults :
           \E t \in OnConnectJobComplete(AddConnectJob(pool, g, k), g, k, rv) :
             pool' = [t EXCEPT !.backup[g] = FALSE]
  BY DEF OnBackupSocketTimerFired
<1>2. ASSUME NEW t, Good(t, {}) PROVE Good([t EXCEPT !.backup[g] = FALSE], {})
  <2> DEFINE u == [t EXCEPT !.backup[g] = FALSE]
  <2>0. t \in PoolState
    BY <1>2 DEF Good
  <2>1. u \in PoolState
    BY <2>0, Fields, SetBackup
  <2>2. SameBooks(t, u) /\ u.pending = t.pending /\ u.callback = t.callback /\ u.hinit = t.hinit
    BY <2>0 DEF SameBooks, PoolState
  <2> HIDE DEF u
  <2>3. Good(u, {})
    BY <1>2, <2>1, <2>2, GoodSame
  <2> QED BY <2>3 DEF u
<1>3. ASSUME NEW k \in FreeSockets(pool)
      PROVE  Good(AddConnectJob(pool, g, k), {}) /\ k \in AddConnectJob(pool, g, k).jobs[g]
  BY AddConnectJobGood
<1>4. CASE pool' = [pool EXCEPT !.backup[g] = FALSE]
  BY <1>0, <1>2, <1>4 DEF Inv
<1>5. CASE \E k \in FreeSockets(pool) : pool' = [AddConnectJob(pool, g, k) EXCEPT !.backup[g] = FALSE]
  BY <1>2, <1>3, <1>5 DEF Inv
<1>6. CASE \E k \in FreeSockets(pool), rv \in ConnectResults :
             \E t \in OnConnectJobComplete(AddConnectJob(pool, g, k), g, k, rv) :
               pool' = [t EXCEPT !.backup[g] = FALSE]
  <2>1. PICK k \in FreeSockets(pool), rv \in ConnectResults :
          \E t \in OnConnectJobComplete(AddConnectJob(pool, g, k), g, k, rv) :
            pool' = [t EXCEPT !.backup[g] = FALSE]
    BY <1>6
  <2>2. PICK t \in OnConnectJobComplete(AddConnectJob(pool, g, k), g, k, rv) :
          pool' = [t EXCEPT !.backup[g] = FALSE]
    BY <2>1
  <2>3. Good(t, {})
    BY <1>3, OnConnectJobCompleteGood
  <2>4. Good(pool', {})
    BY <1>2, <2>2, <2>3
  <2> QED BY <2>4 DEF Inv
<1> QED BY <1>1, <1>4, <1>5, <1>6
\* The handle of a new request has nothing in the pool.
LEMMA RequestingServing ==
  ASSUME Inv, NEW h \in Handles, NEW g \in Groups, pool.hgroup[h] = NoGroup
  PROVE  /\ Serving([pool EXCEPT !.hgroup[h] = g], {h})
         /\ [pool EXCEPT !.hgroup[h] = g].hgroup[h] = g
         /\ ~[pool EXCEPT !.hgroup[h] = g].hinit[h]
<1> DEFINE s == [pool EXCEPT !.hgroup[h] = g]
<1>0. pool \in PoolState /\ Books(pool) /\ RequestOK(pool, h) /\ pool.hgroup[h] = NoGroup
  BY DEF Inv, Good
<1>1. s \in PoolState
  BY <1>0, Fields, SetHGroup
<1>2. /\ s.hgroup = [pool.hgroup EXCEPT ![h] = g]
      /\ s.idle = pool.idle /\ s.jobs = pool.jobs /\ s.active = pool.active
      /\ s.idleCount = pool.idleCount /\ s.connecting = pool.connecting
      /\ s.handedOut = pool.handedOut /\ s.hsocket = pool.hsocket
      /\ s.pending = pool.pending /\ s.callback = pool.callback /\ s.hinit = pool.hinit
  BY <1>0 DEF PoolState
<1> HIDE DEF s
<1>3. NoRequest(s, h) /\ ~s.hinit[h] /\ s.hgroup[h] = g
  <2>1. ~Waiting(pool, h)
    BY <1>0 DEF Waiting
  <2>2. NoRequest(pool, h) /\ ~pool.hinit[h]
    BY <1>0, <2>1 DEF RequestOK, NoRequest
  <2> QED BY <1>0, <1>2, <2>2, Fields DEF NoRequest, Queued
<1>4. \A y \in Handles \ {h} : SameFor(pool, s, y)
  BY <1>0, <1>2, Fields DEF SameFor
<1>5. \A y \in Holders(pool) : s.hgroup[y] = pool.hgroup[y]
  BY <1>0, <1>2, <1>3, Fields DEF Holders, NoRequest
<1>6. Books(s)
  BY <1>0, <1>2, <1>5, HGroupBooks
<1>7. \A x \in Groups : IsInjective(s.pending[x])
  BY <1>2 DEF Inv, Good
<1>8. \A y \in Handles \ {h} : RequestOK(s, y)
  BY <1>4, SameForKeeps DEF Inv, Good
<1>9. Serving(s, {h})
  BY <1>1, <1>3, <1>6, <1>7, <1>8 DEF Serving, Good
<1> QED BY <1>3, <1>9 DEF s

\* The entry point RequestSocket preserves the invariant.
LEMMA RequestSocketGood ==
  ASSUME Inv, NEW h \in Handles, NEW g \in Groups, RequestSocket(h, g)
  PROVE  Inv'
<1> DEFINE s == [pool EXCEPT !.hgroup[h] = g]
<1>1. pool.hgroup[h] = NoGroup
  BY DEF RequestSocket
<1>2. Serving(s, {h}) /\ s.hgroup[h] = g /\ ~s.hinit[h]
  BY <1>1, RequestingServing
<1>3. PICK r \in RequestSocketInternal(s, g, h) :
        pool' = IF r.rv = "PENDING" THEN InsertRequestIntoQueue(r.st, g, h)
                                    ELSE HandleInitCompletion(r.st, h)
  BY DEF RequestSocket
<1> HIDE DEF s
<1>4. s \in PoolState /\ NoRequest(s, h)
  BY <1>2 DEF Serving, Good
<1>5. RequestEffect(s, r, h) /\ Books(r.st)
  BY <1>2, <1>4, RequestSocketInternalEffect, RequestSocketInternalBooks
     DEF Serving, Good, NoRequest
<1>6. r.st \in PoolState /\ SameRequests(s, r.st, h)
  BY <1>5 DEF RequestEffect, RequestOutcomes
<1>7. Good(r.st, {h})
  <2>1. Good(r.st, {h} \cup {h})
    BY <1>2, <1>5, <1>6, GoodFrame DEF Serving
  <2>2. {h} \cup {h} = {h}
    OBVIOUS
  <2> QED BY <2>1, <2>2
<1>8. /\ ~Queued(r.st, h) /\ r.st.callback[h] = NoResult /\ r.st.hgroup[h] = g
      /\ ~r.st.hinit[h]
  BY <1>2, <1>4, <1>6 DEF SameRequests, NoRequest, Queued
<1>9. CASE r.rv = "PENDING"
  <2>1. r.st.hsocket[h] = NoSocket
    BY <1>4, <1>5, <1>9 DEF RequestEffect, NoRequest
  <2>2. Serving(r.st, {h})
    BY <1>7, <1>8, <2>1 DEF Serving, NoRequest
  <2> QED BY <1>3, <1>8, <1>9, <2>2, InsertRequestGood DEF Inv
<1>10. CASE r.rv # "PENDING"
  BY <1>3, <1>7, <1>8, <1>10, HandleInitCompletionGood, PoolAssumption DEF Inv
<1> QED BY <1>9, <1>10

\* The entry point RequestSockets preserves the invariant.
LEMMA RequestSocketsGood ==
  ASSUME Inv, NEW g \in Groups, RequestSockets(g)
  PROVE  Inv'
<1>0. pool \in PoolState /\ Books(pool) /\ Good(pool, {})
  BY DEF Inv, Good
<1>1. PICK r \in RequestSocketInternal(pool, g, NoHandle) : pool' = RemoveGroupIfEmpty(r.st, g)
  BY DEF RequestSockets
<1>2. RequestEffect(pool, r, NoHandle) /\ Books(r.st)
  BY <1>0, PoolAssumption, RequestSocketInternalEffect, RequestSocketInternalBooks
<1>3. r.st \in PoolState /\ SameRequests(pool, r.st, NoHandle)
  BY <1>2 DEF RequestEffect, RequestOutcomes
<1>4. r.st.hsocket = pool.hsocket
  <2>1. \A x \in Handles : r.st.hsocket[x] = pool.hsocket[x]
    BY <1>3, PoolAssumption DEF SameRequests
  <2> QED BY <1>0, <1>3, <2>1, Fields
<1>5. Good(r.st, {})
  BY <1>0, <1>2, <1>3, <1>4, GoodFrame
<1> DEFINE u == RemoveGroupIfEmpty(r.st, g)
<1>6. u \in PoolState /\ Books(u) /\ SameRequests(r.st, u, NoHandle) /\ u.hsocket = r.st.hsocket
  BY <1>2, <1>3, RemoveGroupIfEmptyType, ElementaryBooks, ElementaryFrames, ElementarySockets
<1> HIDE DEF u
<1>7. Good(u, {})
  BY <1>5, <1>6, GoodFrame
<1> QED BY <1>1, <1>7 DEF Inv, u

\* A handle that is reset lets go of its socket.
LEMMA LettingGo ==
  ASSUME Inv, NEW h \in Handles, pool.hgroup[h] # NoGroup, pool.hinit[h]
  PROVE  LetsGo(pool, h, [pool EXCEPT !.hsocket[h] = NoSocket])
<1> DEFINE b == [pool EXCEPT !.hsocket[h] = NoSocket]
<1>0. pool \in PoolState /\ Good(pool, {}) /\ RequestOK(pool, h)
  BY DEF Inv, Good
<1>1. pool.hgroup[h] # NoGroup /\ pool.hinit[h] /\ pool.hsocket[h] # NoSocket
  BY <1>0 DEF RequestOK
<1>2. ~Queued(pool, h) /\ pool.callback[h] = NoResult
  BY <1>0, <1>1 DEF RequestOK, Waiting
<1>3. b \in PoolState
  BY <1>0, Fields, SetHSocket
<1>4. /\ b.idle = pool.idle /\ b.jobs = pool.jobs /\ b.active = pool.active
      /\ b.idleCount = pool.idleCount /\ b.connecting = pool.connecting
      /\ b.handedOut = pool.handedOut /\ b.pending = pool.pending
      /\ b.hgroup = pool.hgroup /\ b.hinit = pool.hinit /\ b.callback = pool.callback
      /\ b.hsocket = [pool.hsocket EXCEPT ![h] = NoSocket]
  BY <1>0 DEF PoolState
<1> HIDE DEF b
<1>5. LetsGo(pool, h, b)
  BY <1>0, <1>1, <1>2, <1>3, <1>4 DEF LetsGo
<1> QED BY <1>5 DEF b

\* The entry point ResetInitialized preserves the invariant.
LEMMA ResetInitializedGood ==
  ASSUME Inv, NEW h \in Handles, NEW connected \in BOOLEAN, ResetInitialized(h, connected)
  PROVE  Inv'
<1> DEFINE b == [pool EXCEPT !.hsocket[h] = NoSocket]
<1>1. LetsGo(pool, h, b)
  BY LettingGo DEF ResetInitialized
<1>2. PICK t \in ReleaseSocket(b, pool.hgroup[h], pool.hsocket[h], pool.hpoolId[h], connected) :
        pool' = ClearHandle(t, h)
  BY DEF ResetInitialized
<1> HIDE DEF b
<1>3. Serving(t, {h})
  BY <1>1, <1>2, ReleaseSocketGood DEF Inv
<1> QED BY <1>2, <1>3, ClearHandleGood DEF Inv

\* The entry point ResetPending preserves the invariant.
LEMMA ResetPendingGood ==
  ASSUME Inv, NEW h \in Handles, ResetPending(h)
  PROVE  Inv'
<1>1. PICK t \in CancelRequest(pool, pool.hgroup[h], h) : pool' = ClearHandle(t, h)
  BY DEF ResetPending
<1>2. Waiting(pool, h)
  BY DEF ResetPending, Waiting
<1>3. Serving(t, {h})
  BY <1>2, CancelRequestGood DEF Inv
<1> QED BY <1>1, <1>3, ClearHandleGood DEF Inv

\* The entry point InvokeUserCallback preserves the invariant.
LEMMA InvokeUserCallbackGood ==
  ASSUME Inv, NEW h \in Handles, InvokeUserCallback(h)
  PROVE  Inv'
<1> DEFINE s == [pool EXCEPT !.callback[h] = NoResult]
<1>0. pool \in PoolState /\ Good(pool, {}) /\ RequestOK(pool, h) /\ pool.callback[h] # NoResult
  BY DEF Inv, Good, InvokeUserCallback
<1>1. s \in PoolState
  BY <1>0, Fields, SetCallback
<1>2. /\ s.callback = [pool.callback EXCEPT ![h] = NoResult] /\ SameBooks(pool, s)
      /\ s.pending = pool.pending /\ s.hinit = pool.hinit
      /\ s.hsocket = pool.hsocket /\ s.hgroup = pool.hgroup
  BY <1>0 DEF PoolState, SameBooks
<1>3. pool' = HandleInitCompletion(s, h)
  BY DEF InvokeUserCallback
<1> HIDE DEF s
<1>4. s.callback[h] = NoResult /\ \A y \in Handles \ {h} : SameFor(pool, s, y)
  BY <1>0, <1>2, Fields DEF SameFor
<1>5. ~Queued(s, h) /\ s.hgroup[h] # NoGroup
  BY <1>0, <1>2 DEF RequestOK, Queued, Waiting
<1>6. Good(s, {h})
  BY <1>0, <1>1, <1>2, <1>4, SameBooksKeeps, SameForKeeps DEF Good
<1> QED BY <1>3, <1>4, <1>5, <1>6, HandleInitCompletionGood DEF Inv

\* The invariant says exactly what the five properties say.
LEMMA InvMeaning ==
  Inv <=> TypeOK /\ SingleOwner /\ CountersMatch /\ RequestsConserved /\ HandlesConsistent
<1>1. (\A h \in Handles \ {} : RequestOK(pool, h)) /\ (\A g \in Groups : IsInjective(pool.pending[g]))
        <=> RequestsConservedIn(pool) /\ HandlesConsistentIn(pool)
  BY DEF RequestOK, RequestsConservedIn, HandlesConsistentIn
<1> QED BY <1>1 DEF Inv, Good, Books, TypeOK, SingleOwner, CountersMatch, RequestsConserved,
                    HandlesConsistent

\* Every reachable pool satisfies the inductive invariant: one step for each entry
\* point of ClientSocketPoolBaseHelper and ClientSocketHandle.
THEOREM PoolInvariant == Spec => []Inv
<1>1. Init => Inv
  <2> SUFFICES ASSUME Init PROVE Inv
    OBVIOUS
  <2>0. pool = EmptyPool /\ pool \in PoolState
    BY EmptyPoolType DEF Init
  <2>1. /\ pool.idle = [g \in Groups |-> {}] /\ pool.jobs = [g \in Groups |-> {}]
        /\ pool.pending = [g \in Groups |-> <<>>] /\ pool.active = [g \in Groups |-> 0]
        /\ pool.idleCount = 0 /\ pool.connecting = 0 /\ pool.handedOut = 0
        /\ pool.callback = [h \in Handles |-> NoResult] /\ pool.hgroup = [h \in Handles |-> NoGroup]
        /\ pool.hinit = [h \in Handles |-> FALSE] /\ pool.hsocket = [h \in Handles |-> NoSocket]
    BY <2>0 DEF EmptyPool
  <2>2. IdleSockets(pool) = {} /\ ConnectJobs(pool) = {}
    BY <2>1 DEF IdleSockets, ConnectJobs
  <2>3. Holders(pool) = {}
    BY <2>1 DEF Holders
  <2>4. HeldSockets(pool) = {} /\ \A g : {h \in Holders(pool) : pool.hgroup[h] = g} = {}
    BY <2>3 DEF HeldSockets
  <2>5. SingleOwnerIn(pool)
    BY <2>1, <2>2, <2>3, <2>4 DEF SingleOwnerIn
  <2>6. CountersMatchIn(pool)
    BY <2>1, <2>2, <2>3, <2>4, FS_EmptySet DEF CountersMatchIn
  <2>7. \A g \in Groups : IsInjective(pool.pending[g]) /\ \A h : ~Contains(pool.pending[g], h)
    BY <2>1 DEF IsInjective, Contains
  <2>8. \A h \in Handles : RequestOK(pool, h)
    BY <2>1, <2>7, PoolAssumption DEF RequestOK, Queued, Waiting
  <2> QED BY <2>0, <2>5, <2>6, <2>7, <2>8 DEF Inv, Good, Books
<1>2. Inv /\ [Next]_pool => Inv'
  <2> SUFFICES ASSUME Inv, [Next]_pool PROVE Inv'
    OBVIOUS
  <2>1. ASSUME NEW h \in Handles, NEW g \in Groups, RequestSocket(h, g) PROVE Inv'
    BY <2>1, RequestSocketGood
  <2>2. ASSUME NEW g \in Groups, RequestSockets(g) PROVE Inv'
    BY <2>2, RequestSocketsGood
  <2>3. ASSUME NEW h \in Handles, NEW connected \in BOOLEAN, ResetInitialized(h, connected)
        PROVE  Inv'
    BY <2>3, ResetInitializedGood
  <2>4. ASSUME NEW h \in Handles, ResetPending(h) PROVE Inv'
    BY <2>4, ResetPendingGood
  <2>5. ASSUME NEW g \in Groups, NEW k \in Sockets, ConnectJobDone(g, k) PROVE Inv'
    BY <2>5, OnConnectJobCompleteGood DEF ConnectJobDone, Inv
  <2>6. ASSUME NEW h \in Handles, InvokeUserCallback(h) PROVE Inv'
    BY <2>6, InvokeUserCallbackGood
  <2>7. ASSUME NEW g \in Groups, OnBackupSocketTimerFired(g) PROVE Inv'
    BY <2>7, OnBackupSocketTimerFiredGood
  <2>8. ASSUME NEW dead \in SUBSET Sockets, CleanupIdleSockets(dead) PROVE Inv'
    BY <2>8, CleanupIdleSocketsGood
  <2>9. CASE Flush
    BY <2>9, FlushGood
  <2>10. CASE UNCHANGED pool
    BY <2>10 DEF Inv, Good
  <2> QED BY <2>1, <2>2, <2>3, <2>4, <2>5, <2>6, <2>7, <2>8, <2>9, <2>10 DEF Next
<1> QED BY <1>1, <1>2, PTL DEF Spec

\* No operation stores a value of the wrong kind in the pool or in a handle, for
\* instance ERR_IO_PENDING as an answer.
THEOREM TypeCorrect == Spec => []TypeOK
BY PoolInvariant, InvMeaning, PTL

\* A socket is never in two places: no two clients share a connection, and no
\* socket that is in use is idle, reused or closed by the pool.
THEOREM SocketsHaveOneOwner == Spec => []SingleOwner
BY PoolInvariant, InvMeaning, PTL

\* The counters that decide about the limits never drift from what they count.
THEOREM CountersExact == Spec => []CountersMatch
BY PoolInvariant, InvMeaning, PTL

\* No request is lost, queued twice or answered twice.
THEOREM NoRequestLost == Spec => []RequestsConserved
BY PoolInvariant, InvMeaning, PTL

\* A handle that believes it is connected has a socket, an unbound one has none.
THEOREM HandlesAgree == Spec => []HandlesConsistent
BY PoolInvariant, InvMeaning, PTL
=============================================================================
