------------------------ MODULE WaitableEventProofs -------------------------
(***************************************************************************)
(* Proofs about WaitableEvent for any events, threads and watchers: the    *)
(* wait-lists, the locks and the watchers agree with what the threads do,  *)
(* a signal that was accepted is reported, and nobody waits for each       *)
(* other's locks.                                                          *)
(***************************************************************************)
EXTENDS WaitableEvent, SequenceLemmas

\* The inductive part of EventInv.
IInv ==
  /\ TypeOK /\ LocksAgree /\ CallsAgree /\ ListsAgree /\ WatchersAgree /\ NoWaiterLeftBehind

(***************************************************************************)
(* What a step leaves alone.                                               *)
(***************************************************************************)
\* No other thread moves.
OnlyThread(t) ==
  /\ thread' \in [Threads -> Thread]
  /\ \A u \in Threads \ {t} : thread'[u] = thread[u]

\* No other thread's SyncWaiter changes.
OnlySync(t) ==
  /\ swlock' \in [Threads -> Threads \cup {Nobody}]
  /\ fired' \in [Threads -> BOOLEAN] /\ woken' \in [Threads -> BOOLEAN]
  /\ from' \in [Threads -> Events \cup {NoEvent}]
  /\ \A u \in Threads \ {t} : swlock'[u] = swlock[u] /\ fired'[u] = fired[u] /\ from'[u] = from[u]

\* A thread goes on to another place.
LEMMA GoesTo ==
  ASSUME TypeOK, NEW t \in Threads, NEW pc \in Pcs, Goes(t, pc)
  PROVE  /\ OnlyThread(t) /\ thread'[t].pc = pc
         /\ thread'[t].events = thread[t].events /\ thread'[t].i = thread[t].i
         /\ thread'[t].ret = thread[t].ret
<1>1. thread[t] \in Thread
  BY DEF TypeOK
<1>2. [thread[t] EXCEPT !.pc = pc] \in Thread
  BY <1>1 DEF Thread
<1>3. thread' = [thread EXCEPT ![t] = [thread[t] EXCEPT !.pc = pc]]
  BY DEF Goes
<1> QED BY <1>1, <1>2, <1>3 DEF TypeOK, OnlyThread, Thread

\* A thread's record is replaced.
LEMMA Becomes ==
  ASSUME TypeOK, NEW t \in Threads, NEW r \in Thread, thread' = [thread EXCEPT ![t] = r]
  PROVE  OnlyThread(t) /\ thread'[t] = r
BY DEF TypeOK, OnlyThread

\* A thread returns from its call.
LEMMA ReturnsTo ==
  ASSUME TypeOK, NEW t \in Threads, NEW ret \in Events \cup {NoEvent}, Returns(t, ret)
  PROVE  OnlyThread(t) /\ thread'[t].pc = "idle" /\ thread'[t].ret = ret /\ thread'[t].events = <<>>
<1>1. IdleThread(ret) \in Thread
  BY DEF IdleThread, Thread, Pcs
<1>2. OnlyThread(t) /\ thread'[t] = IdleThread(ret)
  BY <1>1, Becomes DEF Returns
<1> QED BY <1>2 DEF IdleThread

\* The locks of a thread that stays where it is.
LEMMA LockFrame ==
  ASSUME NEW u \in Threads, LockOK(u), thread'[u] = thread[u], swlock'[u] = swlock[u],
         \A e \in Events : klock'[e] = u <=> klock[e] = u, thread[u] \in Thread
  PROVE  LockOK(u)'
<1>1. ToSet(thread[u].events) \subseteq Events
  BY DEF Thread, ToSet
<1>2. ToLock(u)' = ToLock(u)
  BY <1>1 DEF ToLock
<1> QED BY <1>1, <1>2 DEF LockOK, Firing

\* The call of a thread that stays where it is.
LEMMA CallFrame ==
  ASSUME NEW u \in Threads, CallOK(u), thread'[u] = thread[u], fired'[u] = fired[u], from'[u] = from[u],
         thread[u].pc = "fire" => Len(waiters'[thread[u].events[1]]) = Len(waiters[thread[u].events[1]])
  PROVE  CallOK(u)'
BY DEF CallOK

\* A waiter that a step leaves alone.
LEMMA LiveFrame ==
  ASSUME NEW w \in Waiter, NEW e \in Events, Live(w, e),
         w \in Addrs => owner'[w] = owner[w] /\ watcher'[owner[w]] = watcher[owner[w]],
         w \in Threads => thread'[w] = thread[w] /\ fired'[w] = fired[w] /\ from'[w] = from[w]
  PROVE  Live(w, e)'
<1>1. CASE w \in Addrs
  BY <1>1 DEF Live
<1>2. CASE w \notin Addrs
  <2>1. w \in Threads
    BY <1>2 DEF Waiter
  <2> QED BY <1>2, <2>1 DEF Live, Waits
<1> QED BY <1>1, <1>2

\* A thread that does not signal does not fire anybody.
LEMMA PassedFrame ==
  ASSUME NEW t \in Threads, OnlyThread(t), thread[t].pc # "fire", thread'[t].pc # "fire",
         NEW e, NEW k
  PROVE  Passed(e, k)' <=> Passed(e, k)
BY DEF OnlyThread, Passed, Firing

\* Nobody signals an event whose lock is free or is taken for WaitMany.
LEMMA FreeList ==
  ASSUME IInv, NEW e \in Events,
         klock[e] = Nobody \/ \E t \in Threads : klock[e] = t /\ thread[t].pc # "fire",
         NEW k
  PROVE  ~Passed(e, k) /\ (k \in 1..Len(waiters[e]) => Live(waiters[e][k], e))
<1>1. \A u \in Threads : ~Firing(u, e)
  <2>1. \A u \in Threads : Firing(u, e) => klock[e] = u /\ thread[u].pc = "fire"
    BY DEF IInv, LocksAgree, LockOK, Firing
  <2> QED BY <2>1, EventAssumption
<1>2. ~Passed(e, k)
  BY <1>1 DEF Passed
<1> QED BY <1>2 DEF IInv, ListsAgree, ListOK

(***************************************************************************)
(* Classes of steps.                                                       *)
(***************************************************************************)
\* A step that leaves the lists and the watchers alone and does not fire anybody.
LEMMA QuietLists ==
  ASSUME IInv, NEW t \in Threads, OnlyThread(t), OnlySync(t), thread[t].pc # "fire",
         thread'[t].pc # "fire", UNCHANGED <<waiters, asyncVars>>,
         \A e \in Events : Live(t, e) => Live(t, e)'
  PROVE  ListsAgree' /\ WatchersAgree'
<1> DEFINE Sync(u) == thread'[u] = thread[u] /\ fired'[u] = fired[u] /\ from'[u] = from[u]
<1>1. \A u \in Threads \ {t} : Sync(u)
  BY DEF OnlyThread, OnlySync
<1>2. \A e, k : Passed(e, k)' <=> Passed(e, k)
  BY PassedFrame
<1>3. UNCHANGED waiters /\ UNCHANGED owner /\ UNCHANGED watcher
  BY DEF asyncVars
<1>4. ASSUME NEW e \in Events, NEW w \in Waiter, Live(w, e) PROVE Live(w, e)'
  <2>1. CASE w = t
    BY <1>4, <2>1
  <2>2. CASE w # t
    BY <1>1, <1>3, <1>4, <2>2, LiveFrame
  <2> QED BY <2>1, <2>2
<1>5. ASSUME NEW e \in Events PROVE ListOK(e)'
  <2>1. \A k \in 1..Len(waiters[e]) : waiters[e][k] \in Waiter
    BY DEF IInv, TypeOK
  <2>2. ListOK(e)
    BY DEF IInv, ListsAgree
  <2> QED BY <1>2, <1>3, <1>4, <2>1, <2>2 DEF ListOK
<1>6. ASSUME NEW x \in Watchers PROVE WatcherOK(x)'
  BY <1>2, <1>3 DEF IInv, WatchersAgree, WatcherOK
<1> QED BY <1>3, <1>5, <1>6 DEF IInv, ListsAgree, WatchersAgree

\* A step that fires nobody and signals nothing leaves nobody behind.
LEMMA QuietSignals ==
  ASSUME IInv, UNCHANGED waiters, \A e \in Events : signaled'[e] => signaled[e],
         \A e \in Events, u \in Threads : Contains(waiters[e], u) /\ fired[u] => fired'[u]
  PROVE  NoWaiterLeftBehind'
<1>1. \A e \in Events : signaled[e] => klock[e] = Nobody
  BY DEF IInv, LocksAgree
<1>2. \A e \in Events : \A w \in ToSet(waiters[e]) : Contains(waiters[e], w)
  BY DEF Contains, ToSet
<1> QED BY <1>1, <1>2 DEF IInv, NoWaiterLeftBehind

\* A step of a thread that takes and releases no event's lock.
LEMMA QuietLocks ==
  ASSUME IInv, NEW t \in Threads, OnlyThread(t), OnlySync(t), UNCHANGED klock,
         \A e \in Events : klock[e] # Nobody => (signaled'[e] => signaled[e]),
         LockOK(t)'
  PROVE  LocksAgree'
<1>1. ASSUME NEW u \in Threads PROVE LockOK(u)'
  <2>1. CASE u = t
    BY <2>1
  <2>2. CASE u # t
    BY <2>2, LockFrame DEF IInv, LocksAgree, OnlyThread, OnlySync, TypeOK
  <2> QED BY <2>1, <2>2
<1> QED BY <1>1 DEF IInv, LocksAgree

\* A step of a thread in a call, which leaves the list of an event that is signaled as long as it is.
LEMMA QuietCalls ==
  ASSUME IInv, NEW t \in Threads, OnlyThread(t), OnlySync(t), CallOK(t)',
         \A u \in Threads \ {t}, e \in Events : Firing(u, e) => Len(waiters'[e]) = Len(waiters[e])
  PROVE  CallsAgree'
<1>1. ASSUME NEW u \in Threads PROVE CallOK(u)'
  <2>1. CASE u = t
    BY <2>1
  <2>2. CASE u # t
    <3>1. thread[u].pc = "fire" => \E e \in Events : Firing(u, e)
      BY DEF IInv, CallsAgree, CallOK, Firing
    <3>2. thread[u].pc = "fire" => Len(waiters'[thread[u].events[1]]) = Len(waiters[thread[u].events[1]])
      BY <2>2, <3>1 DEF Firing
    <3> QED BY <2>2, <3>2, CallFrame DEF IInv, CallsAgree, OnlyThread, OnlySync
  <2> QED BY <2>1, <2>2
<1> QED BY <1>1 DEF CallsAgree

\* A thread that is neither signalling nor taking the locks of WaitMany holds no event's lock.
LEMMA HoldsNone ==
  ASSUME IInv, NEW t \in Threads, thread[t].pc \notin {"fire", "wmLock"}
  PROVE  \A e \in Events : klock[e] # t
BY DEF IInv, LocksAgree, LockOK, Firing

\* Nor does it after a step that takes none.
LEMMA HoldsNoneAfter ==
  ASSUME NEW t \in Threads, thread'[t].pc \notin {"fire", "wmLock"}, \A e \in Events : klock'[e] # t,
         swlock'[t] = IF thread'[t].pc \in {"twCheck", "wmCheck"} THEN t ELSE Nobody
  PROVE  LockOK(t)'
BY DEF LockOK, Firing

\* What is known of a thread.
LEMMA ThreadFacts ==
  ASSUME IInv, NEW t \in Threads
  PROVE  /\ thread[t] \in Thread /\ TypeOK /\ LockOK(t) /\ CallOK(t)
         /\ fired[t] \in BOOLEAN /\ from[t] \in Events \cup {NoEvent}
         /\ thread[t].events \in Seq(Events) /\ thread[t].ret \in Events \cup {NoEvent}
         /\ thread[t].i \in Nat /\ NoEvent \notin Events /\ t \notin Addrs
BY EventAssumption DEF IInv, TypeOK, LocksAgree, CallsAgree, Thread

\* Such a step keeps the invariant if the locks, the thread's call and its places in the
\* lists still agree.
LEMMA QuietStepWithLocks ==
  ASSUME IInv, NEW t \in Threads, OnlyThread(t), OnlySync(t), thread[t].pc # "fire",
         thread'[t].pc # "fire", UNCHANGED <<waiters, asyncVars>>,
         signaled' \in [Events -> BOOLEAN], \A e \in Events : signaled'[e] => signaled[e],
         \A e \in Events : Contains(waiters[e], t) /\ fired[t] => fired'[t],
         klock' \in [Events -> Threads \cup {Nobody}], LocksAgree',
         CallOK(t)', \A e \in Events : Live(t, e) => Live(t, e)'
  PROVE  IInv'
<1>1. TypeOK'
  BY DEF IInv, TypeOK, OnlyThread, OnlySync, asyncVars
<1>2. CallsAgree'
  BY QuietCalls
<1>3. ListsAgree' /\ WatchersAgree'
  BY QuietLists
<1>4. NoWaiterLeftBehind'
  BY QuietSignals DEF OnlySync
<1> QED BY <1>1, <1>2, <1>3, <1>4 DEF IInv

\* So does one that takes and releases no event's lock, if its own still agree.
LEMMA QuietStep ==
  ASSUME IInv, NEW t \in Threads, OnlyThread(t), OnlySync(t), thread[t].pc # "fire",
         thread'[t].pc # "fire", UNCHANGED <<waiters, klock, asyncVars>>,
         signaled' \in [Events -> BOOLEAN], \A e \in Events : signaled'[e] => signaled[e],
         \A e \in Events : Contains(waiters[e], t) /\ fired[t] => fired'[t],
         LockOK(t)', CallOK(t)', \A e \in Events : Live(t, e) => Live(t, e)'
  PROVE  IInv'
<1>1. LocksAgree'
  BY QuietLocks
<1>2. klock' \in [Events -> Threads \cup {Nobody}]
  BY DEF IInv, TypeOK
<1> QED BY <1>1, <1>2, QuietStepWithLocks

(***************************************************************************)
(* TimedWait and WaitMany, while they wait.                                *)
(***************************************************************************)
\* The waiter that gives up is disabled, or reports the event that has fired it.
LEMMA GiveUpKeeps ==
  ASSUME IInv, NEW t \in Threads, GiveUp(t)
  PROVE  IInv'
<1>1. /\ thread[t].pc = "twCheck" /\ \A e \in Events : klock[e] # t
      /\ from[t] = IF fired[t] THEN thread[t].events[1] ELSE NoEvent
      /\ IsInjective(thread[t].events) /\ \E e \in Events : thread[t].events = <<e>>
  BY HoldsNone, ThreadFacts DEF GiveUp, CallOK
<1>2. OnlyThread(t) /\ thread'[t].pc = "twDequeue" /\ thread'[t].ret = from[t]
      /\ thread'[t].events = thread[t].events
  <2> DEFINE r == [thread[t] EXCEPT !.pc = "twDequeue",
                                    !.ret = IF fired[t] THEN thread[t].events[1] ELSE NoEvent]
  <2>1. thread' = [thread EXCEPT ![t] = r]
    BY DEF GiveUp
  <2>2. r \in Thread
    BY <1>1, ThreadFacts DEF Thread, Pcs
  <2>3. OnlyThread(t) /\ thread'[t] = r
    BY <2>1, <2>2, ThreadFacts, Becomes
  <2>4. r.pc = "twDequeue" /\ r.events = thread[t].events /\ r.ret = from[t]
    BY <1>1, ThreadFacts DEF Thread
  <2> QED BY <2>3, <2>4
<1>3. OnlySync(t) /\ fired'[t] /\ from'[t] = from[t] /\ swlock'[t] = Nobody
  BY ThreadFacts DEF GiveUp, OnlySync, TypeOK
<1>4. UNCHANGED <<signaled, waiters, klock, asyncVars>>
  BY DEF GiveUp
<1>5. LockOK(t)'
  BY <1>1, <1>2, <1>3, <1>4, HoldsNoneAfter
<1>6. CallOK(t)'
  BY <1>1, <1>2, <1>3 DEF CallOK
<1>7. ASSUME NEW e \in Events, Live(t, e) PROVE Live(t, e)'
  BY <1>1, <1>2, <1>3, <1>7, ThreadFacts DEF Live, Waits
<1> QED BY <1>1, <1>2, <1>3, <1>4, <1>5, <1>6, <1>7, ThreadFacts, QuietStep DEF TypeOK

\* The thread sleeps without the lock of its waiter.
LEMMA CvWaitKeeps ==
  ASSUME IInv, NEW t \in Threads, CvWait(t)
  PROVE  IInv'
<1> DEFINE pc == IF thread[t].pc = "twCheck" THEN "twCv" ELSE "wmCv"
<1>1. thread[t].pc \in {"twCheck", "wmCheck"} /\ ~fired[t] /\ \A e \in Events : klock[e] # t
  BY HoldsNone, ThreadFacts DEF CvWait
<1>2. OnlyThread(t) /\ thread'[t].pc = pc /\ thread'[t].events = thread[t].events
  BY GoesTo, ThreadFacts DEF CvWait, Pcs
<1>3. OnlySync(t) /\ fired'[t] = fired[t] /\ from'[t] = from[t] /\ swlock'[t] = Nobody
  BY ThreadFacts DEF CvWait, OnlySync, TypeOK
<1>4. UNCHANGED <<signaled, waiters, klock, asyncVars>>
  BY DEF CvWait
<1>5. LockOK(t)'
  BY <1>1, <1>2, <1>3, <1>4, HoldsNoneAfter
<1>6. CallOK(t)'
  BY <1>1, <1>2, <1>3, ThreadFacts DEF CallOK
<1>7. ASSUME NEW e \in Events, Live(t, e) PROVE Live(t, e)'
  BY <1>1, <1>2, <1>3, <1>7, ThreadFacts DEF Live, Waits
<1> QED BY <1>1, <1>2, <1>3, <1>4, <1>5, <1>6, <1>7, ThreadFacts, QuietStep DEF TypeOK

\* The thread wakes up with the lock of its waiter.
LEMMA CvWakeKeeps ==
  ASSUME IInv, NEW t \in Threads, CvWake(t)
  PROVE  IInv'
<1> DEFINE pc == IF thread[t].pc = "twCv" THEN "twCheck" ELSE "wmCheck"
<1>1. thread[t].pc \in {"twCv", "wmCv"} /\ \A e \in Events : klock[e] # t
  BY HoldsNone, ThreadFacts DEF CvWake
<1>2. OnlyThread(t) /\ thread'[t].pc = pc /\ thread'[t].events = thread[t].events
  BY GoesTo, ThreadFacts DEF CvWake, Pcs
<1>3. OnlySync(t) /\ fired'[t] = fired[t] /\ from'[t] = from[t] /\ swlock'[t] = t
  BY ThreadFacts DEF CvWake, OnlySync, TypeOK
<1>4. UNCHANGED <<signaled, waiters, klock, asyncVars>>
  BY DEF CvWake
<1>5. LockOK(t)'
  BY <1>1, <1>2, <1>3, <1>4, HoldsNoneAfter
<1>6. CallOK(t)'
  BY <1>1, <1>2, <1>3, ThreadFacts DEF CallOK
<1>7. ASSUME NEW e \in Events, Live(t, e) PROVE Live(t, e)'
  BY <1>1, <1>2, <1>3, <1>7, ThreadFacts DEF Live, Waits
<1> QED BY <1>1, <1>2, <1>3, <1>4, <1>5, <1>6, <1>7, ThreadFacts, QuietStep DEF TypeOK

\* A call of WaitMany starts without a lock, and has locks to take.
LEMMA WaitManyKeeps ==
  ASSUME IInv, NEW t \in Threads, NEW array \in Arrays, WaitMany(t, array)
  PROVE  IInv'
<1>1. thread[t].pc = "idle" /\ \A e \in Events : klock[e] # t
  BY HoldsNone, ThreadFacts DEF WaitMany
<1>2. OnlyThread(t) /\ thread'[t].pc = "wmLock" /\ thread'[t].events = array
  <2> DEFINE r == [pc |-> "wmLock", events |-> array, i |-> 0, finite |-> FALSE, ret |-> NoEvent]
  <2>1. r \in Thread
    BY EventAssumption DEF Thread, Pcs
  <2>2. OnlyThread(t) /\ thread'[t] = r
    BY <2>1, ThreadFacts, Becomes DEF WaitMany
  <2> QED BY <1>1, <2>2
<1>3. OnlySync(t) /\ fired'[t] = fired[t] /\ swlock'[t] = Nobody
  BY <1>1, ThreadFacts DEF WaitMany, OnlySync, TypeOK, syncVars, LockOK
<1>4. UNCHANGED <<signaled, waiters, klock, asyncVars>>
  BY DEF WaitMany
<1>5. LockOK(t)'
  <2>1. array \in Seq(Events) /\ array # <<>>
    BY EventAssumption
  <2>2. array[1] \in Events /\ array[1] \in ToSet(array)
    BY <2>1 DEF ToSet
  <2>3. ToLock(t)' # {}
    BY <1>1, <1>2, <1>4, <2>2 DEF ToLock
  <2> QED BY <1>1, <1>2, <1>3, <1>4, <2>3 DEF LockOK, Firing
<1>6. CallOK(t)'
  BY <1>2, EventAssumption DEF CallOK
<1>7. ASSUME NEW e \in Events, Live(t, e) PROVE Live(t, e)'
  BY <1>1, <1>7, ThreadFacts DEF Live, Waits
<1> QED BY <1>1, <1>2, <1>3, <1>4, <1>5, <1>6, <1>7, ThreadFacts, QuietStep DEF TypeOK

\* The event that has fired the waiter has taken it off its list, or will when it has fired all.
LEMMA WaitManyFiredKeeps ==
  ASSUME IInv, NEW t \in Threads, WaitManyFired(t)
  PROVE  IInv'
<1> DEFINE rest == RemoveFirst(thread[t].events, from[t])
<1>1. /\ thread[t].pc = "wmCheck" /\ fired[t] /\ \A e \in Events : klock[e] # t
      /\ Contains(thread[t].events, from[t]) /\ from[t] \in Events
  <2>1. thread[t].pc = "wmCheck" /\ fired[t] /\ \A e \in Events : klock[e] # t
    BY HoldsNone, ThreadFacts DEF WaitManyFired
  <2>2. Contains(thread[t].events, from[t])
    BY <2>1, ThreadFacts DEF CallOK
  <2>3. from[t] \in Events
    BY <2>2, ThreadFacts DEF Contains
  <2> QED BY <2>1, <2>2, <2>3
<1>2. /\ rest \in Seq(Events) /\ IsInjective(rest)
      /\ \A e : Contains(rest, e) <=> Contains(thread[t].events, e) /\ e # from[t]
  BY ThreadFacts, RemoveFirstMembers DEF CallOK
<1> HIDE DEF rest
<1>3. OnlyThread(t) /\ thread'[t].pc = "wmDequeue" /\ thread'[t].ret = from[t] /\ thread'[t].events = rest
  <2> DEFINE r == [thread[t] EXCEPT !.pc = "wmDequeue", !.ret = from[t], !.events = rest]
  <2>1. thread' = [thread EXCEPT ![t] = r]
    BY DEF WaitManyFired, rest
  <2>2. r \in Thread
    BY <1>2, ThreadFacts DEF Thread, Pcs
  <2>3. OnlyThread(t) /\ thread'[t] = r
    BY <2>1, <2>2, ThreadFacts, Becomes
  <2>4. r.pc = "wmDequeue" /\ r.events = rest /\ r.ret = from[t]
    BY ThreadFacts DEF Thread
  <2> QED BY <2>3, <2>4
<1>4. OnlySync(t) /\ fired'[t] = fired[t] /\ from'[t] = from[t] /\ swlock'[t] = Nobody
  BY ThreadFacts DEF WaitManyFired, OnlySync, TypeOK
<1>5. UNCHANGED <<signaled, waiters, klock, asyncVars>>
  BY DEF WaitManyFired
<1>6. LockOK(t)'
  BY <1>1, <1>3, <1>4, <1>5, HoldsNoneAfter
<1>7. CallOK(t)'
  BY <1>1, <1>2, <1>3, <1>4, ThreadFacts DEF CallOK
<1>8. ASSUME NEW e \in Events, Live(t, e) PROVE Live(t, e)'
  BY <1>1, <1>2, <1>3, <1>4, <1>8, ThreadFacts DEF Live, Waits
<1> QED BY <1>1, <1>2, <1>3, <1>4, <1>5, <1>6, <1>7, <1>8, ThreadFacts, QuietStep DEF TypeOK

\* A thread that finds an event signaled, or resets it, waits for nobody.
LEMMA SeesSignal ==
  ASSUME IInv, NEW t \in Threads, NEW e \in Events, thread[t].pc = "idle",
         signaled[e], signaled' = AutoReset(e), Returns(t, e),
         UNCHANGED <<waiters, klock, syncVars, asyncVars>>
  PROVE  IInv'
<1>1. \A f \in Events : klock[f] # t
  BY HoldsNone
<1>2. OnlyThread(t) /\ thread'[t].pc = "idle" /\ thread'[t].events = <<>>
  BY ThreadFacts, ReturnsTo
<1>3. OnlySync(t) /\ fired'[t] = fired[t] /\ swlock'[t] = Nobody
  BY ThreadFacts DEF OnlySync, TypeOK, syncVars, LockOK
<1>4. signaled' \in [Events -> BOOLEAN] /\ \A f \in Events : signaled'[f] => signaled[f]
  BY ThreadFacts DEF AutoReset, TypeOK
<1>5. LockOK(t)'
  BY <1>1, <1>2, <1>3, HoldsNoneAfter
<1>6. CallOK(t)'
  BY <1>2 DEF CallOK, IsInjective
<1>7. ASSUME NEW f \in Events, Live(t, f) PROVE Live(t, f)'
  BY <1>7, ThreadFacts DEF Live, Waits
<1> QED BY <1>2, <1>3, <1>4, <1>5, <1>6, <1>7, QuietStep

\* An event that is not signaled leaves nobody behind.
LEMMA ResetKeeps ==
  ASSUME IInv, NEW t \in Threads, NEW e \in Events, Reset(t, e)
  PROVE  IInv'
<1>1. UNCHANGED <<waiters, klock, asyncVars>> /\ UNCHANGED syncVars /\ UNCHANGED thread
  BY DEF Reset
<1>2. OnlyThread(t) /\ OnlySync(t) /\ thread[t].pc = "idle"
  BY <1>1, ThreadFacts DEF Reset, TypeOK, OnlyThread, OnlySync, syncVars
<1>3. signaled' \in [Events -> BOOLEAN] /\ \A f \in Events : signaled'[f] => signaled[f]
  BY ThreadFacts DEF Reset, TypeOK
<1>4. LockOK(t)'
  BY <1>1, ThreadFacts, LockFrame DEF syncVars
<1>5. CallOK(t)'
  BY <1>1, ThreadFacts, CallFrame DEF syncVars
<1>6. ASSUME NEW f \in Events, Live(t, f) PROVE Live(t, f)'
  BY <1>1, <1>6, ThreadFacts DEF Live, Waits, syncVars
<1> QED BY <1>1, <1>2, <1>3, <1>4, <1>5, <1>6, QuietStep DEF syncVars

\* A thread sets up its SyncWaiter and takes the waiter's lock.
LEMMA NewSyncWaiter ==
  ASSUME TypeOK, NEW t \in Threads, swlock' = [swlock EXCEPT ![t] = t],
         fired' = [fired EXCEPT ![t] = FALSE], from' = [from EXCEPT ![t] = NoEvent],
         woken' = [woken EXCEPT ![t] = FALSE]
  PROVE  OnlySync(t) /\ swlock'[t] = t /\ ~fired'[t] /\ from'[t] = NoEvent
<1>1. swlock \in [Threads -> Threads \cup {Nobody}] /\ from \in [Threads -> Events \cup {NoEvent}]
  BY DEF TypeOK
<1>2. fired \in [Threads -> BOOLEAN] /\ woken \in [Threads -> BOOLEAN]
  BY DEF TypeOK
<1>3. swlock' \in [Threads -> Threads \cup {Nobody}] /\ from' \in [Threads -> Events \cup {NoEvent}]
      /\ swlock'[t] = t /\ from'[t] = NoEvent
  BY <1>1
<1>4. fired' \in [Threads -> BOOLEAN] /\ woken' \in [Threads -> BOOLEAN] /\ ~fired'[t]
  BY <1>2
<1>5. \A u \in Threads \ {t} : swlock'[u] = swlock[u] /\ fired'[u] = fired[u] /\ from'[u] = from[u]
  BY <1>1, <1>2
<1> QED BY <1>3, <1>4, <1>5 DEF OnlySync

\* A thread enqueues itself in the lists of some events, and releases those of their locks
\* that it holds.
LEMMA EnqueueStep ==
  ASSUME IInv, NEW t \in Threads, NEW mine \in SUBSET Events,
         thread[t].pc \in {"idle", "wmLock"}, OnlyThread(t), OnlySync(t),
         \A e \in mine : ~signaled[e] /\ klock[e] \in {t, Nobody},
         waiters' = [e \in Events |-> IF e \in mine THEN Append(waiters[e], t) ELSE waiters[e]],
         klock' = [e \in Events |-> IF klock[e] = t THEN Nobody ELSE klock[e]],
         UNCHANGED <<signaled, asyncVars>>,
         thread'[t].pc \in {"twCheck", "wmCheck"}, swlock'[t] = t, ~fired'[t], from'[t] = NoEvent,
         CallOK(t)', \A e \in mine : Contains(thread'[t].events, e)
  PROVE  IInv'
<1>1. /\ t \in Waiter /\ t \notin Addrs /\ t # Nobody /\ NoEvent \notin Events
      /\ \A e \in Events : waiters[e] \in Seq(Waiter) /\ IsInjective(waiters[e]) /\ ~Live(t, e)
      /\ UNCHANGED signaled /\ UNCHANGED owner /\ UNCHANGED watcher
  BY EventAssumption, ThreadFacts DEF Waiter, TypeOK, Live, Waits, asyncVars
<1>2. \A e \in Events : \A k \in 1..Len(waiters[e]) : waiters[e][k] \in Waiter
  BY <1>1
<1>3. ASSUME NEW e \in Events, klock[e] \in {t, Nobody}
      PROVE  /\ \A k : ~Passed(e, k)
             /\ \A k \in 1..Len(waiters[e]) : Live(waiters[e][k], e)
             /\ ~Contains(waiters[e], t)
  <2>1. \A k : ~Passed(e, k) /\ (k \in 1..Len(waiters[e]) => Live(waiters[e][k], e))
    BY <1>3, FreeList
  <2> QED BY <1>1, <2>1 DEF Contains
<1>4. ASSUME NEW e \in mine
      PROVE  /\ waiters'[e] \in Seq(Waiter) /\ IsInjective(waiters'[e])
             /\ Len(waiters'[e]) = Len(waiters[e]) + 1 /\ waiters'[e][Len(waiters[e]) + 1] = t
             /\ \A k \in 1..Len(waiters[e]) : waiters'[e][k] = waiters[e][k]
  <2>1. waiters'[e] = Append(waiters[e], t) /\ ~Contains(waiters[e], t)
    BY <1>3
  <2> QED BY <1>1, <2>1, AppendMembers
<1>5. \A e \in Events \ mine : waiters'[e] = waiters[e]
  OBVIOUS
<1>6. TypeOK'
  <2>1. waiters' \in [Events -> Seq(Waiter)] /\ \A e \in Events : IsInjective(waiters'[e])
    BY <1>1, <1>4, <1>5
  <2> QED BY <1>1, <2>1, ThreadFacts DEF TypeOK, OnlyThread, OnlySync
<1>7. LocksAgree'
  <2>1. ASSUME NEW u \in Threads PROVE LockOK(u)'
    <3>1. CASE u = t
      BY <1>1, <3>1, HoldsNoneAfter
    <3>2. CASE u # t
      BY <1>1, <3>2, ThreadFacts, LockFrame, EventAssumption DEF OnlyThread, OnlySync
    <3> QED BY <3>1, <3>2
  <2> QED BY <1>1, <2>1 DEF IInv, LocksAgree
<1>8. CallsAgree'
  <2>1. ASSUME NEW u \in Threads \ {t}, NEW e \in Events, Firing(u, e)
        PROVE  Len(waiters'[e]) = Len(waiters[e])
    <3>1. klock[e] = u /\ u # Nobody
      BY <2>1, ThreadFacts, EventAssumption DEF LockOK
    <3> QED BY <1>5, <3>1
  <2> QED BY <2>1, QuietCalls
<1>9. \A e, k : Passed(e, k)' <=> Passed(e, k)
  BY PassedFrame
<1>10. ASSUME NEW e \in Events, NEW w \in Waiter, Live(w, e) PROVE Live(w, e)'
  <2>1. w # t
    BY <1>1, <1>10
  <2> QED BY <1>1, <1>10, <2>1, LiveFrame DEF OnlyThread, OnlySync
<1>11. ListsAgree'
  <2>1. ASSUME NEW e \in mine PROVE ListOK(e)'
    <3>1. ASSUME NEW k \in 1..Len(waiters'[e]), NEW w, w = waiters'[e][k] PROVE Live(w, e)'
      <4>1. CASE k \in 1..Len(waiters[e])
        BY <1>2, <1>3, <1>4, <1>10, <3>1, <4>1
      <4>2. CASE k \notin 1..Len(waiters[e])
        <5>1. w = t
          BY <1>1, <1>4, <3>1, <4>2
        <5>2. t \notin Addrs
          BY <1>1
        <5>3. Waits(t, e)' /\ ~fired'[t]
          BY DEF Waits
        <5> QED BY <5>1, <5>2, <5>3 DEF Live
      <4> QED BY <4>1, <4>2
    <3> QED BY <3>1 DEF ListOK
  <2>2. ASSUME NEW e \in Events \ mine PROVE ListOK(e)'
    BY <1>2, <1>5, <1>9, <1>10 DEF IInv, ListsAgree, ListOK
  <2> QED BY <2>1, <2>2 DEF ListsAgree
<1>12. WatchersAgree'
  <2>1. ASSUME NEW e \in Events, NEW k \in 1..Len(waiters[e])
        PROVE  k \in 1..Len(waiters'[e]) /\ waiters'[e][k] = waiters[e][k]
    BY <1>1, <1>4, <1>5
  <2>2. ASSUME NEW x \in Watchers PROVE WatcherOK(x)'
    BY <1>1, <1>9, <2>1 DEF IInv, WatchersAgree, WatcherOK
  <2> QED BY <1>1, <2>2 DEF IInv, WatchersAgree
<1>13. NoWaiterLeftBehind'
  <2>1. ASSUME NEW e \in Events, signaled[e], NEW w \in ToSet(waiters'[e])
        PROVE  w \in Threads /\ fired'[w]
    <3>1. e \notin mine /\ klock[e] = Nobody
      BY <2>1 DEF IInv, LocksAgree
    <3>2. w \in ToSet(waiters[e])
      BY <1>5, <2>1, <3>1
    <3>3. w # t
      BY <1>3, <3>1, <3>2 DEF Contains, ToSet
    <3> QED BY <2>1, <3>1, <3>2, <3>3 DEF IInv, NoWaiterLeftBehind, OnlySync
  <2> QED BY <1>1, <2>1 DEF NoWaiterLeftBehind
<1> QED BY <1>6, <1>7, <1>8, <1>11, <1>12, <1>13 DEF IInv

\* The thread sees the signal, or is in the list of the event when it goes on.
LEMMA TimedWaitKeeps ==
  ASSUME IInv, NEW t \in Threads, NEW e \in Events, NEW finite \in BOOLEAN, TimedWait(t, e, finite)
  PROVE  IInv'
<1>1. thread[t].pc = "idle" /\ klock[e] = Nobody /\ UNCHANGED <<klock, asyncVars>>
  BY DEF TimedWait
<1>2. CASE signaled[e]
  BY <1>1, <1>2, SeesSignal DEF TimedWait, syncVars
<1>3. CASE ~signaled[e]
  <2> DEFINE r == [pc |-> "twCheck", events |-> <<e>>, i |-> 0, finite |-> finite, ret |-> NoEvent]
  <2>1. OnlyThread(t) /\ thread'[t] = r
    <3>1. r \in Thread
      BY DEF Thread, Pcs
    <3> QED BY <1>3, <3>1, ThreadFacts, Becomes DEF TimedWait
  <2>2. OnlySync(t) /\ swlock'[t] = t /\ ~fired'[t] /\ from'[t] = NoEvent
    BY <1>3, ThreadFacts, NewSyncWaiter DEF TimedWait
  <2>3. waiters' = [f \in Events |-> IF f \in {e} THEN Append(waiters[f], t) ELSE waiters[f]]
    BY <1>3, ThreadFacts DEF TimedWait, TypeOK
  <2>4. klock' = [f \in Events |-> IF klock[f] = t THEN Nobody ELSE klock[f]]
    <3>1. \A f \in Events : klock[f] # t
      BY <1>1, HoldsNone
    <3> QED BY <1>1, <3>1, ThreadFacts DEF TypeOK
  <2>5. thread'[t].pc = "twCheck" /\ thread'[t].events = <<e>>
    BY <2>1
  <2>6. CallOK(t)'
    BY <2>2, <2>5 DEF CallOK, IsInjective
  <2>7. \A f \in {e} : Contains(thread'[t].events, f) /\ ~signaled[f] /\ klock[f] \in {t, Nobody}
    BY <1>1, <1>3, <2>5 DEF Contains
  <2>8. UNCHANGED signaled
    BY <1>3 DEF TimedWait
  <2> DEFINE mine == {e}
  <2>9. mine \in SUBSET Events
    OBVIOUS
  <2> HIDE DEF r
  <2> QED BY <1>1, <2>1, <2>2, <2>3, <2>4, <2>5, <2>6, <2>7, <2>8, <2>9, EnqueueStep
<1> QED BY <1>2, <1>3

\* IsSignaled takes the signal of an automatic event.
LEMMA IsSignaledKeeps ==
  ASSUME IInv, NEW t \in Threads, NEW e \in Events, IsSignaled(t, e)
  PROVE  IInv'
BY SeesSignal DEF IsSignaled

\* WaitMany takes the lock of the next event, sees its signal, or enqueues the thread everywhere.
LEMMA EnqueueManyKeeps ==
  ASSUME IInv, NEW t \in Threads, NEW e \in Events, EnqueueMany(t, e)
  PROVE  IInv'
<1> DEFINE mine == ToSet(thread[t].events)
           free == [f \in Events |-> IF klock[f] = t THEN Nobody ELSE klock[f]]
<1>1. /\ thread[t].pc = "wmLock" /\ klock[e] = Nobody /\ e \in mine /\ e \in ToLock(t)
      /\ \A f \in ToLock(t) : e <= f
      /\ mine \subseteq Events /\ \A f \in Events : Contains(thread[t].events, f) <=> f \in mine
      /\ UNCHANGED <<asyncVars>> /\ t # Nobody
  <2>1. mine \subseteq Events /\ \A f : Contains(thread[t].events, f) <=> f \in mine
    BY ThreadFacts DEF ToSet, Contains
  <2>2. t # Nobody
    BY EventAssumption
  <2> QED BY <2>1, <2>2 DEF EnqueueMany, ToLock
<1>2. \A f \in mine : f # e => f \in ToLock(t) \/ klock[f] = t
  BY DEF ToLock
<1>3. free \in [Events -> Threads \cup {Nobody}] /\ \A f \in Events : free[f] # t
  BY <1>1, ThreadFacts DEF TypeOK
<1>4. \A u \in Threads \ {t}, f \in Events : free[f] = u <=> klock[f] = u
  BY EventAssumption
<1>5. CASE signaled[e]
  <2>1. signaled' = AutoReset(e) /\ klock' = free /\ Returns(t, e) /\ UNCHANGED <<waiters, syncVars>>
    BY <1>5 DEF EnqueueMany
  <2>2. OnlyThread(t) /\ thread'[t].pc = "idle" /\ thread'[t].events = <<>>
    BY <2>1, ThreadFacts, ReturnsTo
  <2>3. OnlySync(t) /\ fired'[t] = fired[t] /\ swlock'[t] = Nobody
    BY <1>1, <2>1, ThreadFacts DEF OnlySync, TypeOK, syncVars, LockOK
  <2>4. signaled' \in [Events -> BOOLEAN] /\ \A f \in Events : signaled'[f] => signaled[f]
    BY <1>5, <2>1, ThreadFacts DEF AutoReset, TypeOK
  <2>5. LocksAgree'
    <3>1. ASSUME NEW u \in Threads PROVE LockOK(u)'
      <4>1. CASE u = t
        BY <1>3, <2>1, <2>2, <2>3, <4>1, HoldsNoneAfter
      <4>2. CASE u # t
        BY <1>4, <2>1, <2>2, <2>3, <4>2, ThreadFacts, LockFrame DEF OnlyThread, OnlySync
      <4> QED BY <4>1, <4>2
    <3> QED BY <2>1, <2>4, <3>1 DEF IInv, LocksAgree
  <2>6. CallOK(t)'
    BY <2>2 DEF CallOK, IsInjective
  <2>7. ASSUME NEW f \in Events, Live(t, f) PROVE Live(t, f)'
    BY <1>1, <2>7, ThreadFacts DEF Live, Waits
  <2> QED BY <1>1, <1>3, <2>1, <2>2, <2>3, <2>4, <2>5, <2>6, <2>7, QuietStepWithLocks
<1>6. CASE ~signaled[e] /\ ToLock(t) # {e}
  <2>1. klock' = [klock EXCEPT ![e] = t] /\ UNCHANGED <<signaled, waiters, syncVars, thread>>
    BY <1>6 DEF EnqueueMany
  <2>2. OnlyThread(t) /\ OnlySync(t) /\ thread'[t] = thread[t] /\ fired'[t] = fired[t] /\ swlock'[t] = swlock[t]
    BY <2>1, ThreadFacts DEF TypeOK, OnlyThread, OnlySync, syncVars
  <2>3. klock' \in [Events -> Threads \cup {Nobody}]
    BY <2>1, ThreadFacts DEF TypeOK
  <2>4. LocksAgree'
    <3>1. ASSUME NEW u \in Threads PROVE LockOK(u)'
      <4>1. CASE u = t
        <5>1. ToLock(t)' = ToLock(t) \ {e}
          BY <1>1, <2>1, <2>3, ThreadFacts DEF ToLock, TypeOK
        <5>2. ToLock(t)' # {}
          BY <1>1, <1>6, <5>1
        <5>3. ASSUME NEW f \in Events, klock'[f] = t
              PROVE  Contains(thread[t].events, f) /\ \A g \in ToLock(t)' : f < g
          <6>1. CASE f = e
            <7>1. ASSUME NEW g \in ToLock(t)' PROVE e < g
              <8>1. e <= g /\ e # g /\ g \in Events
                BY <1>1, <5>1 DEF ToLock
              <8> QED BY <8>1, EventAssumption
            <7> QED BY <1>1, <6>1, <7>1
          <6>2. CASE f # e
            <7>1. klock[f] = t
              BY <2>1, <5>3, <6>2, ThreadFacts DEF TypeOK
            <7> QED BY <1>1, <5>1, <7>1, ThreadFacts DEF LockOK, Firing
          <6> QED BY <6>1, <6>2
        <5> QED BY <1>1, <2>2, <4>1, <5>2, <5>3, ThreadFacts DEF LockOK, Firing
      <4>2. CASE u # t
        BY <1>1, <2>1, <2>2, <4>2, ThreadFacts, EventAssumption, LockFrame DEF OnlyThread, OnlySync, TypeOK
      <4> QED BY <4>1, <4>2
    <3> QED BY <1>6, <2>1, <3>1, ThreadFacts DEF IInv, LocksAgree, TypeOK
  <2>5. CallOK(t)'
    BY <1>1, <2>1, <2>2, ThreadFacts DEF CallOK, syncVars
  <2>6. ASSUME NEW f \in Events, Live(t, f) PROVE Live(t, f)'
    BY <1>1, <2>6, ThreadFacts DEF Live, Waits
  <2> QED BY <1>1, <2>1, <2>2, <2>3, <2>4, <2>5, <2>6, ThreadFacts, QuietStepWithLocks DEF TypeOK
<1>7. CASE ~signaled[e] /\ ToLock(t) = {e}
  <2>1. /\ waiters' = [f \in Events |-> IF f \in mine THEN Append(waiters[f], t) ELSE waiters[f]]
        /\ klock' = free /\ UNCHANGED signaled /\ Goes(t, "wmCheck")
    BY <1>7 DEF EnqueueMany
  <2>2. OnlySync(t) /\ swlock'[t] = t /\ ~fired'[t] /\ from'[t] = NoEvent
    BY <1>7, ThreadFacts, NewSyncWaiter DEF EnqueueMany
  <2>3. OnlyThread(t) /\ thread'[t].pc = "wmCheck" /\ thread'[t].events = thread[t].events
    BY <2>1, ThreadFacts, GoesTo DEF Pcs
  <2>4. \A f \in mine : ~signaled[f] /\ klock[f] \in {t, Nobody}
    BY <1>1, <1>2, <1>7 DEF IInv, LocksAgree
  <2>5. CallOK(t)'
    BY <2>2, <2>3, ThreadFacts DEF CallOK
  <2> QED BY <1>1, <2>1, <2>2, <2>3, <2>4, <2>5, EnqueueStep
<1> QED BY <1>5, <1>6, <1>7

(***************************************************************************)
(* The end of TimedWait and of WaitMany.                                   *)
(***************************************************************************)
\* A thread takes itself off the list of an event.
LEMMA DequeueStep ==
  ASSUME IInv, NEW t \in Threads, NEW e \in Events, OnlyThread(t), klock[e] = Nobody,
         waiters' = Dequeue(e, t), UNCHANGED <<signaled, klock, syncVars, asyncVars>>,
         thread[t].pc \in {"twDequeue", "wmDequeue"}, thread'[t].pc \in {"idle", "wmDequeue"},
         CallOK(t)', \A f \in Events \ {e} : Live(t, f) => Live(t, f)'
  PROVE  IInv'
<1>1. /\ OnlySync(t) /\ swlock'[t] = Nobody /\ fired' = fired
      /\ UNCHANGED signaled /\ UNCHANGED klock /\ UNCHANGED owner /\ UNCHANGED watcher
      /\ t \notin Addrs /\ \A f \in Events : klock[f] # t
  <2>1. \A f \in Events : klock[f] # t
    BY HoldsNone
  <2> QED BY <2>1, ThreadFacts DEF OnlySync, TypeOK, syncVars, asyncVars, LockOK
<1>2. \A f \in Events : waiters[f] \in Seq(Waiter) /\ IsInjective(waiters[f])
  BY ThreadFacts DEF TypeOK
<1>3. /\ waiters'[e] \in Seq(Waiter) /\ IsInjective(waiters'[e])
      /\ \A w : Contains(waiters'[e], w) <=> Contains(waiters[e], w) /\ w # t
  <2>1. waiters'[e] = RemoveFirst(waiters[e], t)
    BY ThreadFacts DEF Dequeue, TypeOK
  <2> QED BY <1>2, <2>1, RemoveFirstMembers
<1>4. \A f \in Events \ {e} : waiters'[f] = waiters[f]
  BY ThreadFacts DEF Dequeue, TypeOK
<1>5. TypeOK'
  <2>1. waiters' \in [Events -> Seq(Waiter)] /\ \A f \in Events : IsInjective(waiters'[f])
    <3>1. waiters' = [f \in Events |-> waiters'[f]]
      BY ThreadFacts DEF Dequeue, TypeOK
    <3>2. \A f \in Events : waiters'[f] \in Seq(Waiter) /\ IsInjective(waiters'[f])
      BY <1>2, <1>3, <1>4
    <3> QED BY <3>1, <3>2
  <2> QED BY <1>1, <2>1, ThreadFacts DEF TypeOK, OnlyThread, OnlySync
<1>6. LocksAgree'
  <2>1. LockOK(t)'
    BY <1>1, HoldsNoneAfter
  <2> QED BY <1>1, <2>1, QuietLocks
<1>7. CallsAgree'
  <2>1. ASSUME NEW u \in Threads \ {t}, NEW f \in Events, Firing(u, f)
        PROVE  Len(waiters'[f]) = Len(waiters[f])
    <3>1. klock[f] = u /\ u # Nobody
      BY <2>1, ThreadFacts, EventAssumption DEF LockOK
    <3> QED BY <1>4, <3>1
  <2> QED BY <1>1, <2>1, QuietCalls
<1>8. \A f, k : Passed(f, k)' <=> Passed(f, k)
  BY PassedFrame
<1>9. \A k : ~Passed(e, k) /\ (k \in 1..Len(waiters[e]) => Live(waiters[e][k], e))
  BY FreeList
<1>10. ASSUME NEW f \in Events, NEW w \in Waiter, Live(w, f), w # t \/ f # e PROVE Live(w, f)'
  <2>1. CASE w = t
    BY <1>10, <2>1
  <2>2. CASE w # t
    BY <1>1, <1>10, <2>2, LiveFrame DEF OnlyThread, OnlySync
  <2> QED BY <2>1, <2>2
<1>11. ListsAgree'
  <2>1. ListOK(e)'
    <3>1. ASSUME NEW k \in 1..Len(waiters'[e]), NEW w, w = waiters'[e][k] PROVE Live(w, e)'
      <4>1. Contains(waiters'[e], w)
        BY <3>1 DEF Contains
      <4>2. Contains(waiters[e], w) /\ w # t
        BY <1>3, <4>1
      <4>3. Live(w, e) /\ w \in Waiter
        BY <1>2, <1>9, <4>2 DEF Contains
      <4> QED BY <1>10, <4>2, <4>3
    <3> QED BY <3>1 DEF ListOK
  <2>2. ASSUME NEW f \in Events \ {e} PROVE ListOK(f)'
    <3>1. \A k \in 1..Len(waiters[f]) : waiters[f][k] \in Waiter
      BY <1>2
    <3> QED BY <1>4, <1>8, <1>10, <3>1 DEF IInv, ListsAgree, ListOK
  <2> QED BY <2>1, <2>2 DEF ListsAgree
<1>12. WatchersAgree'
  <2>1. ASSUME NEW x \in Watchers PROVE WatcherOK(x)'
    <3>1. SUFFICES ASSUME watcher[x].state = "listed"
                   PROVE  \E k \in 1..Len(waiters'[watcher[x].event]) :
                            waiters'[watcher[x].event][k] = watcher[x].addr /\ ~Passed(watcher[x].event, k)
      BY <1>1, <1>8 DEF IInv, WatchersAgree, WatcherOK
    <3>2. /\ watcher[x].addr \in Addrs /\ watcher[x].event \in Events
          /\ \E k \in 1..Len(waiters[watcher[x].event]) :
               waiters[watcher[x].event][k] = watcher[x].addr /\ ~Passed(watcher[x].event, k)
      BY <3>1 DEF IInv, WatchersAgree, WatcherOK
    <3>3. CASE watcher[x].event = e
      <4>1. Contains(waiters'[e], watcher[x].addr)
        BY <1>1, <1>3, <3>2, <3>3 DEF Contains
      <4> QED BY <1>9, <3>3, <4>1 DEF Contains
    <3>4. CASE watcher[x].event # e
      BY <1>4, <3>2, <3>4
    <3> QED BY <3>3, <3>4
  <2> QED BY <1>1, <2>1 DEF IInv, WatchersAgree
<1>13. NoWaiterLeftBehind'
  <2>1. ASSUME NEW f \in Events PROVE ToSet(waiters'[f]) \subseteq ToSet(waiters[f])
    <3>1. CASE f = e
      <4>1. \A w : w \in ToSet(waiters'[e]) => Contains(waiters'[e], w)
        BY <1>3 DEF Contains, ToSet
      <4>2. \A w : Contains(waiters[e], w) => w \in ToSet(waiters[e])
        BY <1>2 DEF Contains, ToSet
      <4> QED BY <1>3, <3>1, <4>1, <4>2
    <3>2. CASE f # e
      BY <1>4, <3>2
    <3> QED BY <3>1, <3>2
  <2> QED BY <1>1, <2>1 DEF IInv, NoWaiterLeftBehind
<1> QED BY <1>5, <1>6, <1>7, <1>11, <1>12, <1>13 DEF IInv

\* After TimedWait the waiter is in no list that can still fire it.
LEMMA TimedWaitDequeueKeeps ==
  ASSUME IInv, NEW t \in Threads, TimedWaitDequeue(t)
  PROVE  IInv'
<1> DEFINE e == thread[t].events[1]
<1>1. thread[t].pc = "twDequeue" /\ e \in Events /\ thread[t].events = <<e>>
  BY ThreadFacts DEF TimedWaitDequeue, CallOK
<1>2. OnlyThread(t) /\ thread'[t].pc = "idle" /\ thread'[t].events = <<>>
  BY ThreadFacts, ReturnsTo DEF TimedWaitDequeue
<1>3. CallOK(t)'
  BY <1>2 DEF CallOK, IsInjective
<1>4. ASSUME NEW f \in Events \ {e}, Live(t, f) PROVE Live(t, f)'
  BY <1>1, <1>4, ThreadFacts DEF Live, Waits, Contains
<1>5. klock[e] = Nobody /\ waiters' = Dequeue(e, t) /\ UNCHANGED <<signaled, klock, syncVars, asyncVars>>
  BY DEF TimedWaitDequeue
<1> HIDE DEF e
<1> QED BY <1>1, <1>2, <1>3, <1>4, <1>5, DequeueStep

\* WaitMany takes the waiter off one list after the other.
LEMMA WaitManyDequeueKeeps ==
  ASSUME IInv, NEW t \in Threads, WaitManyDequeue(t)
  PROVE  IInv'
<1> DEFINE s == thread[t].events
           e == Head(s)
<1>1. /\ thread[t].pc = "wmDequeue" /\ UNCHANGED <<signaled, klock, syncVars, asyncVars>>
      /\ s \in Seq(Events) /\ IsInjective(s)
  BY ThreadFacts DEF WaitManyDequeue, CallOK
<1>2. CASE s = <<>>
  <2>1. UNCHANGED waiters /\ Returns(t, thread[t].ret)
    BY <1>2 DEF WaitManyDequeue
  <2>2. OnlyThread(t) /\ thread'[t].pc = "idle" /\ thread'[t].events = <<>>
    BY <2>1, ThreadFacts, ReturnsTo
  <2>3. OnlySync(t) /\ swlock'[t] = Nobody /\ fired' = fired
    BY <1>1, ThreadFacts DEF OnlySync, TypeOK, syncVars, LockOK
  <2>4. LockOK(t)'
    BY <1>1, <2>2, <2>3, HoldsNone, HoldsNoneAfter
  <2>5. CallOK(t)'
    BY <2>2 DEF CallOK, IsInjective
  <2>6. ASSUME NEW f \in Events, Live(t, f) PROVE Live(t, f)'
    BY <1>2, <2>6, ThreadFacts DEF Live, Waits, Contains
  <2> QED BY <1>1, <2>1, <2>2, <2>3, <2>4, <2>5, <2>6, ThreadFacts, QuietStep DEF TypeOK
<1>3. CASE s # <<>>
  <2> DEFINE rest == Tail(s)
  <2>1. /\ rest \in Seq(Events) /\ IsInjective(rest) /\ e \in Events
        /\ \A f : Contains(rest, f) <=> Contains(s, f) /\ f # e
    BY <1>1, <1>3, TailMembers
  <2> HIDE DEF rest
  <2>2. klock[e] = Nobody /\ waiters' = Dequeue(e, t)
    BY <1>3 DEF WaitManyDequeue
  <2>3. OnlyThread(t) /\ thread'[t] = [thread[t] EXCEPT !.events = rest]
    <3>1. [thread[t] EXCEPT !.events = rest] \in Thread
      BY <2>1, ThreadFacts DEF Thread
    <3>2. thread' = [thread EXCEPT ![t] = [thread[t] EXCEPT !.events = rest]]
      BY <1>3 DEF WaitManyDequeue, rest
    <3> QED BY <3>1, <3>2, ThreadFacts, Becomes
  <2>4. thread'[t].pc = "wmDequeue" /\ thread'[t].events = rest /\ thread'[t].ret = thread[t].ret
    BY <1>1, <2>3, ThreadFacts DEF Thread
  <2>5. CallOK(t)'
    BY <1>1, <2>1, <2>4, ThreadFacts DEF CallOK, syncVars
  <2>6. ASSUME NEW f \in Events \ {e}, Live(t, f) PROVE Live(t, f)'
    BY <1>1, <2>1, <2>4, <2>6, ThreadFacts DEF Live, Waits, syncVars
  <2> HIDE DEF e
  <2> QED BY <1>1, <2>1, <2>2, <2>3, <2>4, <2>5, <2>6, DequeueStep
<1> QED BY <1>2, <1>3

(***************************************************************************)
(* Signal.                                                                 *)
(***************************************************************************)
\* A signaller holds the lock of an event that was not signaled.
LEMMA SignalKeeps ==
  ASSUME IInv, NEW t \in Threads, NEW e \in Events, Signal(t, e)
  PROVE  IInv'
<1>1. /\ thread[t].pc = "idle" /\ klock[e] = Nobody /\ ~signaled[e] /\ t # Nobody /\ t \notin Addrs
      /\ UNCHANGED <<signaled, waiters, syncVars, asyncVars>> /\ klock' = [klock EXCEPT ![e] = t]
      /\ \A f \in Events : klock[f] # t
  BY HoldsNone, ThreadFacts, EventAssumption DEF Signal
<1>2. /\ OnlyThread(t) /\ thread'[t].pc = "fire" /\ thread'[t].events = <<e>> /\ thread'[t].i = 1
  <2> DEFINE r == [pc |-> "fire", events |-> <<e>>, i |-> 1, finite |-> FALSE, ret |-> NoEvent]
  <2>1. r \in Thread
    BY DEF Thread, Pcs
  <2>2. OnlyThread(t) /\ thread'[t] = r
    BY <2>1, ThreadFacts, Becomes DEF Signal
  <2> QED BY <2>2
<1>3. OnlySync(t) /\ swlock' = swlock /\ fired' = fired /\ from' = from /\ swlock[t] = Nobody
  BY <1>1, ThreadFacts DEF TypeOK, OnlySync, syncVars, LockOK
<1>4. TypeOK'
  BY <1>1, <1>2, <1>3, ThreadFacts DEF TypeOK, OnlyThread, OnlySync, asyncVars
<1>5. LocksAgree'
  <2>1. ASSUME NEW u \in Threads PROVE LockOK(u)'
    <3>1. CASE u = t
      <4>1. \A f \in Events : klock'[f] = t <=> f = e
        BY <1>1, ThreadFacts DEF TypeOK
      <4>2. \A f \in Events : Firing(t, f)' <=> f = e
        BY <1>2 DEF Firing
      <4> QED BY <1>2, <1>3, <3>1, <4>1, <4>2 DEF LockOK
    <3>2. CASE u # t
      <4>1. \A f \in Events : klock'[f] = u <=> klock[f] = u
        BY <1>1, <3>2, ThreadFacts, EventAssumption DEF TypeOK
      <4> QED BY <1>2, <1>3, <3>2, <4>1, ThreadFacts, LockFrame DEF OnlyThread
    <3> QED BY <3>1, <3>2
  <2> QED BY <1>1, <2>1, ThreadFacts DEF IInv, LocksAgree, TypeOK
<1>6. CallsAgree'
  <2>1. CallOK(t)'
    <3>1. Len(waiters[e]) \in Nat
      BY ThreadFacts DEF TypeOK
    <3> QED BY <1>1, <1>2, <3>1 DEF CallOK, IsInjective
  <2> QED BY <1>1, <1>2, <1>3, <2>1, QuietCalls
<1>7. ASSUME NEW f \in Events, NEW k \in Nat \ {0} PROVE Passed(f, k)' <=> Passed(f, k)
  <2>1. ~Firing(t, f) /\ (Firing(t, f)' => ~(k < thread'[t].i))
    BY <1>1, <1>2 DEF Firing
  <2> QED BY <1>2, <2>1 DEF Passed, OnlyThread, Firing
<1>8. ASSUME NEW f \in Events, NEW w \in Waiter, Live(w, f) PROVE Live(w, f)'
  <2>1. w # t
    BY <1>1, <1>8 DEF Live, Waits
  <2> QED BY <1>1, <1>2, <1>3, <1>8, <2>1, LiveFrame DEF OnlyThread, asyncVars
<1>9. \A f \in Events : \A k \in 1..Len(waiters[f]) : waiters[f][k] \in Waiter /\ k \in Nat \ {0}
  BY ThreadFacts DEF TypeOK
<1>10. ListsAgree'
  BY <1>1, <1>7, <1>8, <1>9 DEF IInv, ListsAgree, ListOK
<1>11. WatchersAgree'
  <2>1. ASSUME NEW x \in Watchers PROVE WatcherOK(x)'
    BY <1>1, <1>7, <1>9 DEF IInv, WatchersAgree, WatcherOK, asyncVars
  <2> QED BY <1>1, <2>1 DEF IInv, WatchersAgree, asyncVars
<1>12. NoWaiterLeftBehind'
  BY <1>1, <1>3, QuietSignals
<1> QED BY <1>4, <1>5, <1>6, <1>10, <1>11, <1>12 DEF IInv

\* A thread that signals an event holds its lock, and has fired the waiters up to its place.
LEMMA FiringFacts ==
  ASSUME IInv, NEW t \in Threads, NEW e, thread[t].pc = "fire", e = thread[t].events[1]
  PROVE  /\ e \in Events /\ Firing(t, e) /\ klock[e] = t /\ ~signaled[e] /\ t # Nobody
         /\ thread[t].events = <<e>>
         /\ \A f \in Events : klock[f] = t => f = e
         /\ \A u \in Threads : Firing(u, e) => u = t
         /\ \A k : Passed(e, k) <=> k < thread[t].i
         /\ thread[t].i \in 1..(Len(waiters[e]) + 1) /\ Len(waiters[e]) \in Nat
         /\ e \notin Manual => thread[t].i = 1
<1>1. /\ e \in Events /\ thread[t].events = <<e>> /\ thread[t].i \in 1..(Len(waiters[e]) + 1)
      /\ e \notin Manual => thread[t].i = 1
  BY ThreadFacts DEF CallOK
<1>2. Firing(t, e) /\ klock[e] = t /\ t # Nobody
  BY <1>1, ThreadFacts, EventAssumption DEF Firing, LockOK
<1>3. \A f \in Events : klock[f] = t => f = e
  BY <1>1, ThreadFacts DEF Firing, LockOK
<1>4. ~signaled[e]
  BY <1>1, <1>2 DEF IInv, LocksAgree
<1>5. \A u \in Threads : Firing(u, e) => u = t
  BY <1>1, <1>2 DEF IInv, LocksAgree, LockOK
<1>6. \A k : Passed(e, k) <=> k < thread[t].i
  BY <1>2, <1>5 DEF Passed
<1>7. Len(waiters[e]) \in Nat
  BY <1>1, ThreadFacts DEF TypeOK
<1> QED BY <1>1, <1>2, <1>3, <1>4, <1>5, <1>6, <1>7

\* Firing an AsyncWaiter posts the task of its watcher; no other watcher notices.
LEMMA FireAsyncWaiter ==
  ASSUME IInv, NEW w \in Addrs, NEW e \in Events, Live(w, e), FireWaiter(w, e)
  PROVE  /\ UNCHANGED syncVars
         /\ owner' \in [Addrs -> Watchers \cup {Nobody}] /\ watcher' \in [Watchers -> Watcher]
         /\ owner'[w] = Nobody /\ \A a \in Addrs \ {w} : owner'[a] = owner[a]
         /\ owner[w] \in Watchers /\ watcher'[owner[w]].state = "posted"
         /\ \A x \in Watchers : x # owner[w] => watcher'[x] = watcher[x]
         /\ watcher[owner[w]].event = e /\ watcher[owner[w]].addr = w
<1> DEFINE x == owner[w]
           r == [watcher[x] EXCEPT !.state = "posted"]
<1>1. x \in Watchers /\ watcher[x] \in Watcher /\ watcher[x].event = e /\ watcher[x].addr = w
  BY ThreadFacts DEF Live, IInv, TypeOK, WatchersAgree
<1>2. r \in Watcher /\ r.state = "posted"
  BY <1>1 DEF Watcher
<1>3. /\ UNCHANGED syncVars /\ owner' = [owner EXCEPT ![w] = Nobody] /\ watcher' = [watcher EXCEPT ![x] = r]
  BY DEF FireWaiter
<1> HIDE DEF r
<1> QED BY <1>1, <1>2, <1>3 DEF IInv, TypeOK

\* Firing a SyncWaiter sets its flag, and its event unless it was fired before.
LEMMA FireSyncWaiter ==
  ASSUME IInv, NEW w \in Threads, NEW e \in Events, FireWaiter(w, e)
  PROVE  /\ UNCHANGED <<asyncVars, swlock>> /\ swlock[w] = Nobody
         /\ fired' \in [Threads -> BOOLEAN] /\ from' \in [Threads -> Events \cup {NoEvent}]
         /\ woken' \in [Threads -> BOOLEAN]
         /\ fired'[w] /\ \A u \in Threads : fired[u] => fired'[u]
         /\ from'[w] = IF fired[w] THEN from[w] ELSE e
         /\ \A u \in Threads \ {w} : fired'[u] = fired[u] /\ from'[u] = from[u]
<1>1. w \notin Addrs
  BY EventAssumption
<1>2. /\ UNCHANGED <<asyncVars, swlock>> /\ swlock[w] = Nobody
      /\ fired' = [fired EXCEPT ![w] = TRUE]
      /\ from' = IF fired[w] THEN from ELSE [from EXCEPT ![w] = e]
      /\ woken' = IF fired[w] THEN woken ELSE [woken EXCEPT ![w] = TRUE]
  BY <1>1 DEF FireWaiter
<1>3. fired' \in [Threads -> BOOLEAN] /\ fired'[w] /\ \A u \in Threads : fired[u] => fired'[u]
  BY <1>2 DEF IInv, TypeOK
<1>4. \A u \in Threads \ {w} : fired'[u] = fired[u]
  BY <1>2 DEF IInv, TypeOK
<1>5. /\ from' \in [Threads -> Events \cup {NoEvent}] /\ from'[w] = IF fired[w] THEN from[w] ELSE e
      /\ \A u \in Threads \ {w} : from'[u] = from[u]
  BY <1>2 DEF IInv, TypeOK
<1>6. woken' \in [Threads -> BOOLEAN]
  BY <1>2 DEF IInv, TypeOK
<1> QED BY <1>2, <1>3, <1>4, <1>5, <1>6

\* What both have in common: the other waiters stay live, and so does this one in the
\* lists of other events.
LEMMA FireFacts ==
  ASSUME IInv, NEW t \in Threads, NEW e \in Events, Firing(t, e), OnlyThread(t),
         NEW w \in Waiter, Live(w, e), FireWaiter(w, e)
  PROVE  /\ fired' \in [Threads -> BOOLEAN] /\ from' \in [Threads -> Events \cup {NoEvent}]
         /\ woken' \in [Threads -> BOOLEAN] /\ swlock' = swlock
         /\ owner' \in [Addrs -> Watchers \cup {Nobody}] /\ watcher' \in [Watchers -> Watcher]
         /\ \A u \in Threads : fired[u] => fired'[u]
         /\ \A u \in Threads \ {t} : u # w => fired'[u] = fired[u] /\ from'[u] = from[u]
         /\ \A v \in Waiter, f \in Events : Live(v, f) /\ (v # w \/ f # e) => Live(v, f)'
         /\ \A x \in Watchers : watcher'[x].state = "listed" =>
              watcher[x].addr # w /\ watcher'[x] = watcher[x]
         /\ \A a \in Addrs : owner'[a] # Nobody => a # w /\ owner'[a] = owner[a]
         /\ \A a \in Addrs : a # w => owner'[a] = owner[a]
         /\ \A u \in Threads \ {t} : CallOK(u) /\ thread[u].pc # "fire" => CallOK(u)'
<1>1. /\ \A f \in Events : ~Live(t, f)
      /\ fired \in [Threads -> BOOLEAN] /\ from \in [Threads -> Events \cup {NoEvent}]
  BY ThreadFacts DEF Live, Waits, Firing, TypeOK
<1>2. CASE w \in Addrs
  <2> DEFINE y == owner[w]
  <2>1. /\ UNCHANGED syncVars
        /\ owner' \in [Addrs -> Watchers \cup {Nobody}] /\ watcher' \in [Watchers -> Watcher]
        /\ owner'[w] = Nobody /\ \A a \in Addrs \ {w} : owner'[a] = owner[a]
        /\ y \in Watchers /\ watcher'[y].state = "posted"
        /\ \A x \in Watchers : x # y => watcher'[x] = watcher[x]
        /\ watcher[y].event = e /\ watcher[y].addr = w
    BY <1>2, FireAsyncWaiter
  <2>2. \A x \in Watchers : watcher[x].state = "listed" => owner[watcher[x].addr] = x
    BY DEF IInv, WatchersAgree, WatcherOK
  <2>3. \A a \in Addrs : owner[a] # Nobody => watcher[owner[a]].addr = a
    BY DEF IInv, WatchersAgree
  <2>4. UNCHANGED fired /\ UNCHANGED from /\ UNCHANGED woken /\ UNCHANGED swlock
    BY <2>1 DEF syncVars
  <2>5. \A x \in Watchers : watcher'[x].state = "listed" =>
          watcher[x].addr # w /\ watcher'[x] = watcher[x]
    BY <2>1, <2>2
  <2>6. ASSUME NEW v \in Waiter, NEW f \in Events, Live(v, f), v # w \/ f # e PROVE Live(v, f)'
    <3>1. v # t
      BY <1>1, <2>6
    <3>2. v # w
      BY <1>2, <2>1, <2>6 DEF Live
    <3>3. v \in Addrs => owner[v] # Nobody /\ owner[v] \in Watchers
      BY <2>6 DEF Live, IInv, TypeOK
    <3>4. v \in Addrs => owner'[v] = owner[v] /\ watcher'[owner[v]] = watcher[owner[v]]
      BY <2>1, <2>3, <3>2, <3>3
    <3> QED BY <2>4, <2>6, <3>1, <3>4, LiveFrame DEF OnlyThread
  <2>7. \A u \in Threads \ {t} : CallOK(u) /\ thread[u].pc # "fire" => CallOK(u)'
    BY <2>4, CallFrame DEF OnlyThread
  <2>8. woken' \in [Threads -> BOOLEAN]
    BY <2>4 DEF IInv, TypeOK
  <2> HIDE DEF y
  <2> QED BY <1>1, <2>1, <2>4, <2>5, <2>6, <2>7, <2>8
<1>3. CASE w \notin Addrs
  <2>1. w \in Threads
    BY <1>3 DEF Waiter
  <2>2. /\ UNCHANGED <<asyncVars, swlock>> /\ swlock[w] = Nobody
        /\ fired' \in [Threads -> BOOLEAN] /\ from' \in [Threads -> Events \cup {NoEvent}]
        /\ woken' \in [Threads -> BOOLEAN]
        /\ fired'[w] /\ \A u \in Threads : fired[u] => fired'[u]
        /\ from'[w] = IF fired[w] THEN from[w] ELSE e
        /\ \A u \in Threads \ {w} : fired'[u] = fired[u] /\ from'[u] = from[u]
    BY <2>1, FireSyncWaiter
  <2>3. UNCHANGED owner /\ UNCHANGED watcher /\ swlock' = swlock
    BY <2>2 DEF asyncVars
  <2>4. Waits(w, e) /\ ~(fired[w] /\ from[w] = e) /\ w # t
    BY <1>1, <1>3 DEF Live
  <2>5. thread'[w] = thread[w]
    BY <2>1, <2>4 DEF OnlyThread
  <2>6. ASSUME NEW v \in Waiter, NEW f \in Events, Live(v, f), v # w \/ f # e PROVE Live(v, f)'
    <3>1. v # t
      BY <1>1, <2>6
    <3>2. CASE v # w
      BY <2>2, <2>3, <2>6, <3>1, <3>2, LiveFrame DEF OnlyThread
    <3>3. CASE v = w
      <4>1. Waits(w, f) /\ ~(fired[w] /\ from[w] = f) /\ f # e
        BY <1>3, <2>6, <3>3 DEF Live
      <4>2. Waits(w, f)'
        BY <2>5, <4>1 DEF Waits
      <4>3. ~(fired'[w] /\ from'[w] = f)
        BY <2>2, <4>1
      <4> QED BY <1>3, <3>3, <4>2, <4>3 DEF Live
    <3> QED BY <3>2, <3>3
  <2>7. ASSUME NEW u \in Threads \ {t}, CallOK(u), thread[u].pc # "fire" PROVE CallOK(u)'
    <3>1. CASE u # w
      BY <2>2, <2>7, <3>1, CallFrame DEF OnlyThread
    <3>2. CASE u = w
      <4>1. swlock[w] = Nobody /\ w # Nobody
        BY <2>1, <2>2, EventAssumption
      <4>2. thread[w].pc \in {"twCv", "twDequeue", "wmCv", "wmDequeue"}
        BY <2>1, <2>4, <4>1, ThreadFacts DEF LockOK, Waits
      <4>3. CASE fired[w]
        BY <2>2, <2>5, <2>7, <3>2, <4>2, <4>3 DEF CallOK
      <4>4. CASE ~fired[w]
        <5>1. thread[w].pc \in {"twCv", "wmCv"}
          BY <2>7, <3>2, <4>2, <4>4 DEF CallOK
        <5>2. thread[w].pc = "twCv" => thread[w].events[1] = e
          BY <2>4, <2>7, <3>2 DEF CallOK, Waits, Contains
        <5>3. Contains(thread[w].events, e)
          BY <2>4 DEF Waits
        <5> QED BY <2>2, <2>5, <2>7, <3>2, <4>4, <5>1, <5>2, <5>3 DEF CallOK
      <4> QED BY <4>3, <4>4
    <3> QED BY <3>1, <3>2
  <2>8. \A x \in Watchers : watcher[x].state = "listed" => watcher[x].addr \in Addrs
    BY DEF IInv, WatchersAgree, WatcherOK
  <2>9. owner' \in [Addrs -> Watchers \cup {Nobody}] /\ watcher' \in [Watchers -> Watcher]
    BY <2>3 DEF IInv, TypeOK
  <2> QED BY <1>3, <2>2, <2>3, <2>6, <2>7, <2>8, <2>9
<1> QED BY <1>2, <1>3

\* A thread that signals one event has no place in the lists of the others.
LEMMA OtherPassed ==
  ASSUME NEW t \in Threads, NEW e \in Events, Firing(t, e), OnlyThread(t),
         thread'[t].pc = "fire" => thread'[t].events = <<e>>
  PROVE  \A f \in Events \ {e} : \A k : Passed(f, k)' <=> Passed(f, k)
<1>1. \A f \in Events \ {e} : ~Firing(t, f) /\ ~Firing(t, f)'
  BY DEF Firing
<1> QED BY <1>1 DEF Passed, OnlyThread, Firing

\* A thread that has signalled an event releases its lock.
LEMMA SignalReleases ==
  ASSUME IInv, NEW t \in Threads, NEW e \in Events, Firing(t, e), OnlyThread(t),
         thread'[t].pc = "idle", swlock' = swlock, klock' = [klock EXCEPT ![e] = Nobody],
         \A f \in Events \ {e} : signaled'[f] = signaled[f]
  PROVE  LocksAgree' /\ klock' \in [Events -> Threads \cup {Nobody}] /\ \A k : ~Passed(e, k)'
<1>1. /\ klock[e] = t /\ t # Nobody /\ \A f \in Events : klock[f] = t => f = e
      /\ \A u \in Threads : Firing(u, e) => u = t
  BY FiringFacts DEF Firing
<1>2. klock' \in [Events -> Threads \cup {Nobody}] /\ \A f \in Events \ {e} : klock'[f] = klock[f]
  BY ThreadFacts DEF TypeOK
<1>3. klock'[e] = Nobody
  BY ThreadFacts DEF TypeOK
<1>4. ASSUME NEW u \in Threads PROVE LockOK(u)'
  <2>1. CASE u = t
    <3>1. \A f \in Events : klock'[f] # t
      BY <1>1, <1>2, <1>3
    <3>2. swlock'[t] = Nobody
      BY ThreadFacts DEF LockOK, Firing
    <3> QED BY <2>1, <3>1, <3>2, HoldsNoneAfter
  <2>2. CASE u # t
    <3>1. \A f \in Events : klock'[f] = u <=> klock[f] = u
      BY <1>1, <1>2, <1>3, <2>2, EventAssumption
    <3> QED BY <2>2, <3>1, ThreadFacts, LockFrame DEF OnlyThread
  <2> QED BY <2>1, <2>2
<1>5. \A k : ~Passed(e, k)'
  BY <1>1 DEF Passed, Firing, OnlyThread
<1> QED BY <1>2, <1>3, <1>4, <1>5 DEF IInv, LocksAgree

\* When the lock of an event is released, the list is empty or was handled to the end.
LEMMA SignalEnds ==
  ASSUME IInv, NEW t \in Threads, NEW e \in Events, Firing(t, e),
         thread[t].i > Len(waiters[e]), waiters' = [waiters EXCEPT ![e] = <<>>],
         signaled' = [signaled EXCEPT ![e] = TRUE], klock' = [klock EXCEPT ![e] = Nobody],
         Returns(t, NoEvent), UNCHANGED <<syncVars, asyncVars>>
  PROVE  IInv'
<1>1. /\ \A k : Passed(e, k) <=> k < thread[t].i
      /\ klock[e] = t /\ \A u \in Threads : Firing(u, e) => u = t
      /\ t # Nobody /\ t \notin Addrs
  BY FiringFacts, ThreadFacts DEF Firing
<1>2. OnlyThread(t) /\ thread'[t].pc = "idle" /\ thread'[t].events = <<>>
  BY ThreadFacts, ReturnsTo
<1>3. /\ OnlySync(t) /\ swlock' = swlock /\ fired' = fired /\ from' = from
      /\ UNCHANGED owner /\ UNCHANGED watcher
  BY ThreadFacts DEF TypeOK, OnlySync, syncVars, asyncVars
<1>4. /\ waiters'[e] = <<>> /\ signaled'[e] /\ signaled' \in [Events -> BOOLEAN]
      /\ \A f \in Events \ {e} : waiters'[f] = waiters[f] /\ signaled'[f] = signaled[f] /\ klock'[f] = klock[f]
  BY ThreadFacts DEF TypeOK
<1>5. LocksAgree' /\ klock' \in [Events -> Threads \cup {Nobody}]
  BY <1>2, <1>3, <1>4, SignalReleases
<1>6. TypeOK'
  <2>1. waiters' \in [Events -> Seq(Waiter)]
    BY ThreadFacts DEF TypeOK
  <2>2. \A f \in Events : IsInjective(waiters'[f])
    <3>1. IsInjective(waiters'[e])
      BY <1>4 DEF IsInjective
    <3> QED BY <1>4, <3>1, ThreadFacts DEF TypeOK
  <2> QED BY <1>2, <1>3, <1>4, <1>5, <2>1, <2>2, ThreadFacts DEF TypeOK, OnlyThread, OnlySync
<1>7. CallsAgree'
  <2>1. CallOK(t)'
    BY <1>2 DEF CallOK, IsInjective
  <2>2. \A u \in Threads \ {t}, f \in Events : Firing(u, f) => Len(waiters'[f]) = Len(waiters[f])
    BY <1>1, <1>4
  <2> QED BY <1>2, <1>3, <2>1, <2>2, QuietCalls
<1>8. \A f \in Events \ {e} : \A k : Passed(f, k)' <=> Passed(f, k)
  BY <1>2, OtherPassed
<1>9. ASSUME NEW f \in Events, NEW w \in Waiter, Live(w, f) PROVE Live(w, f)'
  <2>1. w # t
    BY <1>1, <1>9 DEF Live, Waits, Firing
  <2> QED BY <1>2, <1>3, <1>9, <2>1, LiveFrame DEF OnlyThread
<1>10. ListsAgree'
  <2>1. ListOK(e)'
    BY <1>4 DEF ListOK
  <2>2. ASSUME NEW f \in Events \ {e} PROVE ListOK(f)'
    <3>1. \A k \in 1..Len(waiters[f]) : waiters[f][k] \in Waiter
      BY ThreadFacts DEF TypeOK
    <3> QED BY <1>4, <1>8, <1>9, <3>1 DEF IInv, ListsAgree, ListOK
  <2> QED BY <2>1, <2>2 DEF ListsAgree
<1>11. WatchersAgree'
  <2>1. ASSUME NEW x \in Watchers PROVE WatcherOK(x)'
    <3>1. watcher[x].state = "listed" => watcher[x].event # e
      <4>1. \A k \in 1..Len(waiters[e]) : Passed(e, k)
        BY <1>1, ThreadFacts DEF TypeOK
      <4> QED BY <4>1 DEF IInv, WatchersAgree, WatcherOK
    <3> QED BY <1>3, <1>4, <1>8, <3>1 DEF IInv, WatchersAgree, WatcherOK
  <2> QED BY <1>3, <2>1 DEF IInv, WatchersAgree
<1>12. NoWaiterLeftBehind'
  <2>1. ASSUME NEW f \in Events, signaled'[f], klock'[f] = Nobody, NEW w \in ToSet(waiters'[f])
        PROVE  w \in Threads /\ fired'[w]
    <3>1. f # e
      BY <1>4, <2>1 DEF ToSet
    <3> QED BY <1>3, <1>4, <2>1, <3>1 DEF IInv, NoWaiterLeftBehind
  <2> QED BY <2>1 DEF NoWaiterLeftBehind
<1> QED BY <1>5, <1>6, <1>7, <1>10, <1>11, <1>12 DEF IInv

\* A thread fires the waiter at its place in the list of event e.
FiresAt(t, e, i) ==
  /\ Firing(t, e) /\ OnlyThread(t) /\ i = thread[t].i /\ i <= Len(waiters[e])
  /\ FireWaiter(waiters[e][i], e)
  /\ thread'[t].pc = "fire" => thread'[t].events = <<e>>

\* What comes after place i stays in the list of e, and nothing else but what has been passed.
KeepsRest(e, i) ==
  /\ waiters' \in [Events -> Seq(Waiter)] /\ IsInjective(waiters'[e])
  /\ \A f \in Events \ {e} : waiters'[f] = waiters[f]
  /\ \A j \in 1..Len(waiters'[e]) :
       \/ Passed(e, j)'
       \/ \E m \in 1..Len(waiters[e]) : m > i /\ waiters'[e][j] = waiters[e][m]
  /\ \A m \in 1..Len(waiters[e]) : m > i =>
       \E j \in 1..Len(waiters'[e]) : waiters'[e][j] = waiters[e][m] /\ ~Passed(e, j)'

\* Firing a waiter keeps the invariant.
LEMMA FireStep ==
  ASSUME IInv, NEW t \in Threads, NEW e \in Events, NEW i, FiresAt(t, e, i), KeepsRest(e, i),
         UNCHANGED signaled, klock' \in [Events -> Threads \cup {Nobody}],
         LocksAgree', CallOK(t)'
  PROVE  IInv'
<1> USE DEF FiresAt, KeepsRest
<1> DEFINE w == waiters[e][i]
<1>1. /\ klock[e] = t /\ ~signaled[e] /\ \A k : Passed(e, k) <=> k < i
      /\ i \in 1..Len(waiters[e]) /\ \A u \in Threads : Firing(u, e) => u = t
  BY FiringFacts DEF Firing
<1>2. /\ \A f \in Events : waiters[f] \in Seq(Waiter) /\ IsInjective(waiters[f])
      /\ \A f \in Events : ListOK(f)
  BY ThreadFacts DEF TypeOK, IInv, ListsAgree
<1>3. w \in Waiter /\ Live(w, e)
  <2> HIDE DEF FiresAt, KeepsRest
  <2> QED BY <1>1, <1>2 DEF ListOK
<1>4. \A m \in 1..Len(waiters[e]) : m > i => waiters[e][m] # w /\ waiters[e][m] \in Waiter /\ Live(waiters[e][m], e)
  <2> HIDE DEF FiresAt, KeepsRest
  <2> QED BY <1>1, <1>2 DEF ListOK, IsInjective, w
<1>5. FireWaiter(w, e)
  OBVIOUS
<1> HIDE DEF w
<1>6. /\ fired' \in [Threads -> BOOLEAN] /\ from' \in [Threads -> Events \cup {NoEvent}]
      /\ woken' \in [Threads -> BOOLEAN] /\ swlock' = swlock
      /\ owner' \in [Addrs -> Watchers \cup {Nobody}] /\ watcher' \in [Watchers -> Watcher]
      /\ \A u \in Threads : fired[u] => fired'[u]
      /\ \A v \in Waiter, f \in Events : Live(v, f) /\ (v # w \/ f # e) => Live(v, f)'
      /\ \A x \in Watchers : watcher'[x].state = "listed" =>
           watcher[x].addr # w /\ watcher'[x] = watcher[x]
      /\ \A a \in Addrs : owner'[a] # Nobody => a # w /\ owner'[a] = owner[a]
      /\ \A a \in Addrs : a # w => owner'[a] = owner[a]
      /\ \A u \in Threads \ {t} : CallOK(u) /\ thread[u].pc # "fire" => CallOK(u)'
  BY <1>3, <1>5, FireFacts
<1>7. \A f \in Events \ {e} : \A k : Passed(f, k)' <=> Passed(f, k)
  BY OtherPassed
<1>8. TypeOK'
  <2>1. \A f \in Events : IsInjective(waiters'[f])
    BY <1>2
  <2> QED BY <1>6, <2>1, ThreadFacts DEF TypeOK, OnlyThread
<1>9. CallsAgree'
  <2>1. ASSUME NEW u \in Threads \ {t}, thread[u].pc = "fire" PROVE CallOK(u)'
    <3>1. PICK f \in Events : thread[u].events = <<f>>
      BY <2>1, ThreadFacts DEF CallOK
    <3>2. f # e
      BY <1>1, <2>1, <3>1 DEF Firing
    <3>3. thread'[u] = thread[u] /\ waiters'[f] = waiters[f] /\ thread[u].events[1] = f
      BY <3>1, <3>2 DEF OnlyThread
    <3>4. CallOK(u)
      BY ThreadFacts
    <3> QED BY <2>1, <3>1, <3>3, <3>4 DEF CallOK
  <2>2. \A u \in Threads \ {t} : CallOK(u)'
    BY <1>6, <2>1, ThreadFacts
  <2> QED BY <2>2 DEF CallsAgree
<1>10. ListsAgree'
  <2>1. ListOK(e)'
    <3>1. ASSUME NEW j \in 1..Len(waiters'[e]), NEW v, v = waiters'[e][j]
          PROVE  Live(v, e)' \/ Passed(e, j)'
      <4>1. CASE \E m \in 1..Len(waiters[e]) : m > i /\ v = waiters[e][m]
        <5>1. v \in Waiter /\ v # w /\ Live(v, e)
          BY <1>4, <4>1
        <5> QED BY <1>6, <5>1
      <4> QED BY <3>1, <4>1
    <3> QED BY <3>1 DEF ListOK
  <2>2. ASSUME NEW f \in Events \ {e} PROVE ListOK(f)'
    <3>1. ASSUME NEW k \in 1..Len(waiters[f]), NEW v, v = waiters[f][k]
          PROVE  Live(v, f)' \/ Passed(f, k)'
      <4>1. v \in Waiter /\ (Live(v, f) \/ Passed(f, k))
        BY <1>2, <3>1 DEF ListOK
      <4> QED BY <1>6, <1>7, <4>1
    <3>2. waiters'[f] = waiters[f]
      OBVIOUS
    <3> QED BY <3>1, <3>2 DEF ListOK
  <2> QED BY <2>1, <2>2 DEF ListsAgree
<1>11. WatchersAgree'
  <2>1. ASSUME NEW x \in Watchers PROVE WatcherOK(x)'
    <3>1. SUFFICES ASSUME watcher'[x].state = "listed" PROVE WatcherOK(x)'
      BY DEF WatcherOK
    <3>2. watcher[x].addr # w /\ watcher'[x] = watcher[x] /\ watcher[x].state = "listed"
      BY <1>6, <3>1
    <3>3. PICK f \in Events, a \in Addrs :
            /\ watcher[x].event = f /\ watcher[x].addr = a /\ watcher[x].kernel = f /\ owner[a] = x
            /\ \E k \in 1..Len(waiters[f]) : waiters[f][k] = a /\ ~Passed(f, k)
      <4>1. WatcherOK(x)
        BY DEF IInv, WatchersAgree
      <4> QED BY <3>2, <4>1 DEF WatcherOK
    <3>4. owner'[a] = x
      BY <1>6, <3>2, <3>3
    <3>5. \E k \in 1..Len(waiters'[f]) : waiters'[f][k] = a /\ ~Passed(f, k)'
      <4>1. CASE f = e
        <5>1. PICK k \in 1..Len(waiters[e]) : waiters[e][k] = a /\ ~(k < i)
          BY <1>1, <3>3, <4>1
        <5>2. k > i
          BY <1>1, <3>2, <3>3, <5>1 DEF w
        <5>3. PICK j \in 1..Len(waiters'[e]) : waiters'[e][j] = a /\ ~Passed(e, j)'
          BY <1>1, <5>1, <5>2
        <5> QED BY <4>1, <5>3
      <4>2. CASE f # e
        BY <1>7, <3>3, <4>2
      <4> QED BY <4>1, <4>2
    <3> QED BY <3>2, <3>3, <3>4, <3>5 DEF WatcherOK
  <2>2. ASSUME NEW a \in Addrs, owner'[a] # Nobody
        PROVE  watcher'[owner'[a]].state = "listed" /\ watcher'[owner'[a]].addr = a
    <3>1. a # w /\ owner'[a] = owner[a]
      BY <1>6, <2>2
    <3>2. /\ owner[a] \in Watchers /\ watcher[owner[a]].state = "listed" /\ watcher[owner[a]].addr = a
      BY <2>2, <3>1 DEF IInv, TypeOK, WatchersAgree
    <3>3. PICK f \in Events : f = watcher[owner[a]].event
      BY <3>2 DEF IInv, WatchersAgree, WatcherOK
    <3>4. Live(a, f) /\ a \in Waiter
      BY <2>2, <3>1, <3>2, <3>3 DEF Live, Waiter
    <3>5. Live(a, f)'
      BY <1>6, <3>1, <3>4
    <3>6. watcher'[owner[a]].state = "listed"
      BY <3>1, <3>5 DEF Live
    <3> QED BY <1>6, <3>1, <3>2, <3>6
  <2> QED BY <2>1, <2>2 DEF WatchersAgree
<1>12. NoWaiterLeftBehind'
  <2>1. ASSUME NEW f \in Events, signaled[f], NEW v \in ToSet(waiters'[f])
        PROVE  v \in Threads /\ fired'[v]
    <3>1. f # e /\ klock[f] = Nobody
      BY <1>1, <2>1 DEF IInv, LocksAgree
    <3>2. v \in Threads /\ fired[v]
      BY <2>1, <3>1 DEF IInv, NoWaiterLeftBehind
    <3> QED BY <1>6, <3>2
  <2> QED BY <2>1 DEF NoWaiterLeftBehind
<1> QED BY <1>8, <1>9, <1>10, <1>11, <1>12 DEF IInv

\* SignalOne takes the head off the list, or leaves the event signaled.
LEMMA SignalOneKeeps ==
  ASSUME IInv, NEW t \in Threads, SignalOne(t)
  PROVE  IInv'
<1>a. PICK e \in Events : e = thread[t].events[1]
  BY ThreadFacts DEF SignalOne, CallOK
<1>1. /\ thread[t].pc = "fire" /\ Firing(t, e) /\ klock[e] = t /\ thread[t].i = 1
      /\ thread[t].events = <<e>> /\ e \notin Manual
      /\ waiters[e] \in Seq(Waiter) /\ IsInjective(waiters[e])
  BY <1>a, FiringFacts, ThreadFacts DEF SignalOne, TypeOK
<1>2. CASE waiters[e] = <<>>
  <2>1. /\ signaled' = [signaled EXCEPT ![e] = TRUE] /\ UNCHANGED <<waiters, syncVars, asyncVars>>
        /\ klock' = [klock EXCEPT ![e] = Nobody] /\ Returns(t, NoEvent)
    BY <1>a, <1>2 DEF SignalOne
  <2>2. waiters' = [waiters EXCEPT ![e] = <<>>]
    BY <1>2, <2>1, ThreadFacts DEF TypeOK
  <2>3. thread[t].i > Len(waiters[e])
    BY <1>1, <1>2
  <2> QED BY <1>1, <2>1, <2>2, <2>3, SignalEnds
<1>3. CASE waiters[e] # <<>>
  <2> DEFINE w == Head(waiters[e])
             rest == Tail(waiters[e])
  <2>1. /\ FireWaiter(w, e) /\ waiters' = [waiters EXCEPT ![e] = rest] /\ UNCHANGED signaled
        /\ \/ klock' = [klock EXCEPT ![e] = Nobody] /\ Returns(t, NoEvent)
           \/ UNCHANGED klock /\ UNCHANGED thread
    BY <1>a, <1>3 DEF SignalOne
  <2>2. /\ rest \in Seq(Waiter) /\ IsInjective(rest) /\ Len(rest) = Len(waiters[e]) - 1
        /\ w = waiters[e][1] /\ Len(waiters[e]) \in Nat /\ Len(waiters[e]) > 0
        /\ \A k \in 1..Len(rest) : rest[k] = waiters[e][k + 1]
    BY <1>1, <1>3, TailMembers
  <2> HIDE DEF rest, w
  <2>3. /\ waiters'[e] = rest /\ \A f \in Events \ {e} : waiters'[f] = waiters[f]
        /\ waiters' \in [Events -> Seq(Waiter)]
    BY <1>1, <2>1, <2>2, ThreadFacts DEF TypeOK
  <2>4. \A j \in 1..Len(rest) : \E m \in 1..Len(waiters[e]) : m > 1 /\ rest[j] = waiters[e][m]
    <3> TAKE j \in 1..Len(rest)
    <3>1. j + 1 \in 1..Len(waiters[e]) /\ j + 1 > 1
      BY <2>2
    <3> QED BY <2>2, <3>1
  <2>5. \A m \in 1..Len(waiters[e]) : m > 1 =>
          \E j \in 1..Len(rest) : rest[j] = waiters[e][m]
    <3> TAKE m \in 1..Len(waiters[e])
    <3>1. m > 1 => m - 1 \in 1..Len(rest) /\ (m - 1) + 1 = m
      BY <2>2
    <3> QED BY <2>2, <3>1
  <2>6. CASE UNCHANGED klock /\ UNCHANGED thread
    <3>1. OnlyThread(t) /\ thread'[t] = thread[t]
      BY <2>6, ThreadFacts DEF OnlyThread, TypeOK
    <3>2. \A j \in 1..Len(rest) : ~Passed(e, j)'
      BY <1>1, <2>6, FiringFacts DEF Passed, Firing
    <3>3. swlock' = swlock
      BY <1>1, <2>1, <2>2, ThreadFacts DEF FireWaiter, syncVars, TypeOK
    <3>4. LocksAgree'
      <4>1. \A u \in Threads : LockOK(u)'
        BY <2>6, <3>3, ThreadFacts, LockFrame
      <4> QED BY <2>1, <2>6, <4>1 DEF IInv, LocksAgree
    <3>5. CallOK(t)'
      <4>1. Len(rest) \in Nat
        BY <2>2
      <4> QED BY <1>1, <2>3, <3>1, <4>1, ThreadFacts DEF CallOK
    <3>6. klock' \in [Events -> Threads \cup {Nobody}]
      BY <2>6, ThreadFacts DEF TypeOK
    <3>7. FiresAt(t, e, 1)
      BY <1>1, <2>1, <2>2, <3>1 DEF FiresAt
    <3>8. KeepsRest(e, 1)
      BY <2>2, <2>3, <2>4, <2>5, <3>2 DEF KeepsRest
    <3> QED BY <2>1, <3>4, <3>5, <3>6, <3>7, <3>8, FireStep
  <2>7. CASE klock' = [klock EXCEPT ![e] = Nobody] /\ Returns(t, NoEvent)
    <3>1. OnlyThread(t) /\ thread'[t].pc = "idle" /\ thread'[t].events = <<>>
      BY <2>7, ThreadFacts, ReturnsTo
    <3>2. swlock' = swlock
      BY <1>1, <2>1, <2>2, ThreadFacts DEF FireWaiter, syncVars, TypeOK
    <3>3. LocksAgree' /\ klock' \in [Events -> Threads \cup {Nobody}] /\ \A k : ~Passed(e, k)'
      BY <1>1, <2>1, <2>7, <3>1, <3>2, SignalReleases
    <3>4. CallOK(t)'
      BY <3>1 DEF CallOK, IsInjective
    <3>5. FiresAt(t, e, 1)
      BY <1>1, <2>1, <2>2, <3>1 DEF FiresAt
    <3>6. KeepsRest(e, 1)
      BY <2>2, <2>3, <2>4, <2>5, <3>3 DEF KeepsRest
    <3> QED BY <2>1, <3>3, <3>4, <3>5, <3>6, FireStep
  <2> QED BY <2>1, <2>6, <2>7
<1> QED BY <1>2, <1>3

\* SignalAll fires the waiter at its place, or clears the list that it has passed.
LEMMA SignalAllKeeps ==
  ASSUME IInv, NEW t \in Threads, SignalAll(t)
  PROVE  IInv'
<1>a. PICK e \in Events, i \in Nat : e = thread[t].events[1] /\ i = thread[t].i
  BY ThreadFacts DEF SignalAll, CallOK
<1>1. /\ thread[t].pc = "fire" /\ Firing(t, e) /\ klock[e] = t
      /\ thread[t].events = <<e>> /\ e \in Manual /\ \A u \in Threads : Firing(u, e) => u = t
      /\ waiters[e] \in Seq(Waiter) /\ IsInjective(waiters[e])
      /\ i \in 1..(Len(waiters[e]) + 1) /\ Len(waiters[e]) \in Nat
  BY <1>a, FiringFacts, ThreadFacts DEF SignalAll, TypeOK
<1>2. CASE i > Len(waiters[e])
  <2>1. /\ signaled' = [signaled EXCEPT ![e] = TRUE] /\ UNCHANGED <<syncVars, asyncVars>>
        /\ klock' = [klock EXCEPT ![e] = Nobody] /\ Returns(t, NoEvent)
        /\ waiters' = [waiters EXCEPT ![e] = <<>>]
    BY <1>a, <1>1, <1>2 DEF SignalAll
  <2> QED BY <1>a, <1>1, <1>2, <2>1, SignalEnds
<1>3. CASE i <= Len(waiters[e])
  <2>1. /\ FireWaiter(waiters[e][i], e) /\ thread' = [thread EXCEPT ![t].i = @ + 1]
        /\ UNCHANGED signaled /\ UNCHANGED waiters /\ UNCHANGED klock
    BY <1>a, <1>1, <1>3 DEF SignalAll
  <2>2. OnlyThread(t) /\ thread'[t] = [thread[t] EXCEPT !.i = i + 1]
    <3> DEFINE r == [thread[t] EXCEPT !.i = i + 1]
    <3>1. r \in Thread
      BY <1>a, <1>1, ThreadFacts DEF Thread
    <3>2. thread' = [thread EXCEPT ![t] = r]
      BY <1>a, <2>1
    <3> QED BY <3>1, <3>2, ThreadFacts, Becomes
  <2>3. thread'[t].pc = "fire" /\ thread'[t].events = <<e>> /\ thread'[t].i = i + 1
    BY <1>1, <2>2, ThreadFacts DEF Thread
  <2>4. \A j : Passed(e, j)' <=> j < i + 1
    BY <1>1, <2>2, <2>3 DEF Passed, Firing, OnlyThread
  <2>5. waiters[e][i] \in Waiter
    BY <1>1, <1>3
  <2>6. swlock' = swlock
    BY <2>1, <2>5, ThreadFacts DEF FireWaiter, syncVars, TypeOK
  <2>7. LocksAgree'
    <3>1. ASSUME NEW u \in Threads PROVE LockOK(u)'
      <4>1. CASE u = t
        BY <1>1, <2>1, <2>3, <2>6, <4>1, ThreadFacts DEF LockOK, Firing
      <4>2. CASE u # t
        BY <2>1, <2>2, <2>6, <4>2, ThreadFacts, LockFrame DEF OnlyThread
      <4> QED BY <4>1, <4>2
    <3> QED BY <2>1, <3>1 DEF IInv, LocksAgree
  <2>8. CallOK(t)'
    <3>1. thread'[t].i \in 1..(Len(waiters[e]) + 1)
      BY <1>1, <1>3, <2>3
    <3> QED BY <1>1, <2>1, <2>3, <3>1 DEF CallOK, IsInjective
  <2>9. \A j \in 1..Len(waiters'[e]) :
           \/ Passed(e, j)'
           \/ \E m \in 1..Len(waiters[e]) : m > i /\ waiters'[e][j] = waiters[e][m]
    BY <1>1, <2>1, <2>4
  <2>10. \A m \in 1..Len(waiters[e]) : m > i =>
           \E j \in 1..Len(waiters'[e]) : waiters'[e][j] = waiters[e][m] /\ ~Passed(e, j)'
    BY <1>1, <2>1, <2>4
  <2>11. /\ klock' \in [Events -> Threads \cup {Nobody}] /\ waiters' \in [Events -> Seq(Waiter)]
         /\ IsInjective(waiters'[e]) /\ \A f \in Events \ {e} : waiters'[f] = waiters[f]
    BY <1>1, <2>1, ThreadFacts DEF TypeOK
  <2>12. FiresAt(t, e, i)
    BY <1>a, <1>1, <1>3, <2>1, <2>2, <2>3 DEF FiresAt
  <2>13. KeepsRest(e, i)
    BY <2>9, <2>10, <2>11 DEF KeepsRest
  <2> QED BY <2>1, <2>7, <2>8, <2>11, <2>12, <2>13, FireStep
<1> QED BY <1>1, <1>2, <1>3

(***************************************************************************)
(* Watchers.                                                               *)
(***************************************************************************)
\* While only watchers move, the threads' locks and calls stay as they are.
LEMMA ThreadsRest ==
  ASSUME IInv, UNCHANGED <<klock, thread, syncVars>>, \A e \in Events : signaled'[e] => signaled[e],
         \A e \in Events : klock[e] # Nobody => waiters'[e] = waiters[e]
  PROVE  LocksAgree' /\ CallsAgree' /\ \A e, k : Passed(e, k)' <=> Passed(e, k)
<1>1. /\ UNCHANGED klock /\ UNCHANGED thread /\ UNCHANGED swlock /\ UNCHANGED fired /\ UNCHANGED from
  BY DEF syncVars
<1>2. ASSUME NEW u \in Threads PROVE LockOK(u)' /\ CallOK(u)'
  <2>1. thread[u].pc = "fire" => Len(waiters'[thread[u].events[1]]) = Len(waiters[thread[u].events[1]])
    BY FiringFacts
  <2>2. LockOK(u)'
    BY <1>1, ThreadFacts, LockFrame
  <2>3. CallOK(u)'
    BY <1>1, <2>1, ThreadFacts, CallFrame
  <2> QED BY <2>2, <2>3
<1> QED BY <1>1, <1>2 DEF IInv, LocksAgree, CallsAgree, Passed, Firing

\* A watcher that is not in a list owns no AsyncWaiter.
LEMMA OwnsNone ==
  ASSUME IInv, NEW x \in Watchers, watcher[x].state # "listed"
  PROVE  \A a \in Addrs : owner[a] # x
BY EventAssumption DEF IInv, WatchersAgree

\* Whether an AsyncWaiter waits is not the business of other watchers.
LEMMA LiveOfOthers ==
  ASSUME NEW x \in Watchers, NEW w \in Waiter, NEW e \in Events, Live(w, e),
         UNCHANGED <<thread, syncVars>>, w \in Addrs => owner'[w] = owner[w] /\ owner[w] # x,
         owner \in [Addrs -> Watchers \cup {Nobody}],
         \A y \in Watchers \ {x} : watcher'[y] = watcher[y]
  PROVE  Live(w, e)'
<1>1. w \in Addrs => owner'[w] = owner[w] /\ watcher'[owner[w]] = watcher[owner[w]]
  BY DEF Live
<1> QED BY <1>1, LiveFrame DEF syncVars

\* A watcher that is in no list gets its task posted, runs it or is stopped.
LEMMA WatcherSettles ==
  ASSUME IInv, NEW x \in Watchers, watcher[x].state # "listed", watcher'[x].state # "listed",
         watcher' \in [Watchers -> Watcher], \A y \in Watchers \ {x} : watcher'[y] = watcher[y],
         UNCHANGED <<waiters, klock, thread, syncVars, owner>>,
         signaled' \in [Events -> BOOLEAN], \A e \in Events : signaled'[e] => signaled[e]
  PROVE  IInv'
<1>1. /\ UNCHANGED waiters /\ UNCHANGED owner /\ UNCHANGED fired
      /\ owner \in [Addrs -> Watchers \cup {Nobody}] /\ \A a \in Addrs : owner[a] # x
      /\ \A e \in Events : \A k \in 1..Len(waiters[e]) : waiters[e][k] \in Waiter
  BY OwnsNone DEF syncVars, IInv, TypeOK
<1>2. TypeOK'
  BY DEF IInv, TypeOK, syncVars
<1>3. LocksAgree' /\ CallsAgree' /\ \A e, k : Passed(e, k)' <=> Passed(e, k)
  BY ThreadsRest
<1>4. ASSUME NEW w \in Waiter, NEW e \in Events, Live(w, e) PROVE Live(w, e)'
  BY <1>1, <1>4, LiveOfOthers
<1>5. ListsAgree'
  BY <1>1, <1>3, <1>4 DEF IInv, ListsAgree, ListOK
<1>6. WatchersAgree'
  <2>1. ASSUME NEW y \in Watchers PROVE WatcherOK(y)'
    <3>1. CASE y = x
      BY <3>1 DEF WatcherOK
    <3>2. CASE y # x
      BY <1>1, <1>3, <3>2 DEF IInv, WatchersAgree, WatcherOK
    <3> QED BY <3>1, <3>2
  <2>2. ASSUME NEW a \in Addrs, owner[a] # Nobody PROVE watcher'[owner[a]] = watcher[owner[a]]
    BY <1>1, <2>2
  <2> QED BY <1>1, <2>1, <2>2 DEF IInv, WatchersAgree
<1>7. NoWaiterLeftBehind'
  BY <1>1, QuietSignals
<1> QED BY <1>2, <1>3, <1>5, <1>6, <1>7 DEF IInv

\* The task of a watcher runs when its AsyncWaiter is gone.
LEMMA RunCallbackTaskKeeps ==
  ASSUME IInv, NEW x \in Watchers, RunCallbackTask(x)
  PROVE  IInv'
<1> DEFINE r == [watcher[x] EXCEPT !.state = "none"]
<1>1. watcher \in [Watchers -> Watcher] /\ r \in Watcher /\ r.state = "none"
  BY DEF IInv, TypeOK, Watcher
<1>2. /\ watcher[x].state = "posted" /\ watcher' = [watcher EXCEPT ![x] = r]
      /\ UNCHANGED <<waiters, klock, thread, syncVars, owner>> /\ UNCHANGED signaled
  BY DEF RunCallbackTask
<1> HIDE DEF r
<1>3. signaled' \in [Events -> BOOLEAN] /\ \A e \in Events : signaled'[e] => signaled[e]
  BY <1>2 DEF IInv, TypeOK
<1> QED BY <1>1, <1>2, <1>3, WatcherSettles

\* A watcher enqueues a new AsyncWaiter, or sees the signal.
LEMMA StartWatchingKeeps ==
  ASSUME IInv, NEW x \in Watchers, NEW e \in Events, StartWatching(x, e)
  PROVE  IInv'
<1>1. /\ watcher[x].state = "none" /\ klock[e] = Nobody /\ UNCHANGED <<klock, syncVars, thread>>
      /\ \A a \in Addrs : owner[a] # x
      /\ watcher \in [Watchers -> Watcher] /\ owner \in [Addrs -> Watchers \cup {Nobody}]
  BY OwnsNone DEF StartWatching, IInv, TypeOK
<1>2. CASE signaled[e]
  <2> DEFINE r == [watcher[x] EXCEPT !.state = "posted", !.event = e]
  <2>1. r \in Watcher /\ r.state = "posted"
    BY <1>1 DEF Watcher
  <2>2. /\ watcher' = [watcher EXCEPT ![x] = r] /\ UNCHANGED <<waiters, owner>>
        /\ signaled' = AutoReset(e)
    BY <1>2 DEF StartWatching
  <2> HIDE DEF r
  <2>3. signaled' \in [Events -> BOOLEAN] /\ \A f \in Events : signaled'[f] => signaled[f]
    BY <1>2, <2>2, ThreadFacts DEF AutoReset, IInv, TypeOK
  <2> QED BY <1>1, <2>1, <2>2, <2>3, WatcherSettles
<1>3. CASE ~signaled[e]
  <2>1. PICK a \in Addrs :
          /\ owner[a] = Nobody /\ owner' = [owner EXCEPT ![a] = x]
          /\ waiters' = [waiters EXCEPT ![e] = Append(@, a)]
          /\ watcher' = [watcher EXCEPT ![x] = [state |-> "listed", event |-> e, kernel |-> e, addr |-> a]]
          /\ UNCHANGED signaled
    BY <1>3 DEF StartWatching
  <2>2. /\ a \in Waiter /\ \A f \in Events : ~Live(a, f)
        /\ \A f \in Events : waiters[f] \in Seq(Waiter) /\ IsInjective(waiters[f])
        /\ a \notin Threads /\ x # Nobody
    BY <2>1, EventAssumption DEF Waiter, Live, IInv, TypeOK
  <2>3. /\ owner'[a] = x /\ \A b \in Addrs \ {a} : owner'[b] = owner[b]
        /\ watcher'[x].state = "listed" /\ watcher'[x].event = e /\ watcher'[x].kernel = e
        /\ watcher'[x].addr = a /\ \A y \in Watchers \ {x} : watcher'[y] = watcher[y]
        /\ \A f \in Events \ {e} : waiters'[f] = waiters[f]
        /\ waiters'[e] = Append(waiters[e], a)
    BY <1>1, <2>1 DEF IInv, TypeOK
  <2>4. \A k : ~Passed(e, k) /\ (k \in 1..Len(waiters[e]) => Live(waiters[e][k], e))
    BY <1>1, FreeList
  <2>5. ~Contains(waiters[e], a)
    BY <2>2, <2>4 DEF Contains
  <2>6. /\ waiters'[e] \in Seq(Waiter) /\ IsInjective(waiters'[e])
        /\ Len(waiters'[e]) = Len(waiters[e]) + 1 /\ waiters'[e][Len(waiters[e]) + 1] = a
        /\ \A k \in 1..Len(waiters[e]) : waiters'[e][k] = waiters[e][k]
        /\ Len(waiters[e]) \in Nat
    BY <2>2, <2>3, <2>5, AppendMembers
  <2>7. TypeOK'
    <3>1. owner' \in [Addrs -> Watchers \cup {Nobody}]
      BY <1>1, <2>1
    <3>2. [state |-> "listed", event |-> e, kernel |-> e, addr |-> a] \in Watcher
      BY DEF Watcher
    <3>3. watcher' \in [Watchers -> Watcher]
      BY <1>1, <2>1, <3>2
    <3>4. waiters' \in [Events -> Seq(Waiter)] /\ \A f \in Events : IsInjective(waiters'[f])
      <4>1. waiters' = [f \in Events |-> waiters'[f]]
        BY <2>1 DEF IInv, TypeOK
      <4>2. \A f \in Events : waiters'[f] \in Seq(Waiter) /\ IsInjective(waiters'[f])
        BY <2>2, <2>3, <2>6
      <4> QED BY <4>1, <4>2
    <3> QED BY <1>1, <2>1, <3>1, <3>3, <3>4 DEF IInv, TypeOK, syncVars
  <2>8. LocksAgree' /\ CallsAgree' /\ \A f, k : Passed(f, k)' <=> Passed(f, k)
    BY <1>1, <2>1, <2>3, ThreadsRest
  <2>9. ASSUME NEW w \in Waiter, NEW f \in Events, Live(w, f) PROVE Live(w, f)'
    <3>1. w # a
      BY <2>2, <2>9
    <3> QED BY <1>1, <2>3, <2>9, <3>1, LiveOfOthers
  <2>10. ListsAgree'
    <3>1. ListOK(e)'
      <4>1. ASSUME NEW k \in 1..Len(waiters'[e]), NEW w, w = waiters'[e][k] PROVE Live(w, e)'
        <5>1. CASE k \in 1..Len(waiters[e])
          BY <2>2, <2>4, <2>6, <2>9, <4>1, <5>1
        <5>2. CASE k \notin 1..Len(waiters[e])
          <6>1. w = a
            BY <2>6, <4>1, <5>2
          <6> QED BY <2>2, <2>3, <6>1 DEF Live
        <5> QED BY <5>1, <5>2
      <4> QED BY <4>1 DEF ListOK
    <3>2. ASSUME NEW f \in Events \ {e} PROVE ListOK(f)'
      <4>1. \A k \in 1..Len(waiters[f]) : waiters[f][k] \in Waiter
        BY <2>2
      <4> QED BY <2>3, <2>8, <2>9, <4>1 DEF IInv, ListsAgree, ListOK
    <3> QED BY <3>1, <3>2 DEF ListsAgree
  <2>11. WatchersAgree'
    <3>1. ASSUME NEW f \in Events, NEW k \in 1..Len(waiters[f])
          PROVE  k \in 1..Len(waiters'[f]) /\ waiters'[f][k] = waiters[f][k]
      BY <2>3, <2>6
    <3>2. ASSUME NEW y \in Watchers \ {x} PROVE WatcherOK(y)'
      <4>1. watcher'[y] = watcher[y] /\ WatcherOK(y) /\ y # Nobody
        BY <2>3, EventAssumption DEF IInv, WatchersAgree
      <4>2. SUFFICES ASSUME watcher[y].state = "listed" PROVE WatcherOK(y)'
        BY <4>1 DEF WatcherOK
      <4>3. PICK f \in Events, b \in Addrs :
              /\ watcher[y].event = f /\ watcher[y].addr = b /\ watcher[y].kernel = f /\ owner[b] = y
              /\ \E k \in 1..Len(waiters[f]) : waiters[f][k] = b /\ ~Passed(f, k)
        BY <4>1, <4>2 DEF WatcherOK
      <4>4. owner'[b] = y
        BY <2>1, <2>3, <4>1, <4>3
      <4>5. \E k \in 1..Len(waiters'[f]) : waiters'[f][k] = b /\ ~Passed(f, k)'
        BY <2>8, <3>1, <4>3
      <4> QED BY <4>1, <4>3, <4>4, <4>5 DEF WatcherOK
    <3>3. WatcherOK(x)'
      <4>1. Len(waiters[e]) + 1 \in 1..Len(waiters'[e]) /\ ~Passed(e, Len(waiters[e]) + 1)
        BY <2>4, <2>6
      <4> QED BY <2>3, <2>6, <2>8, <4>1 DEF WatcherOK
    <3>4. ASSUME NEW b \in Addrs, owner'[b] # Nobody
          PROVE  watcher'[owner'[b]].state = "listed" /\ watcher'[owner'[b]].addr = b
      <4>1. CASE b = a
        BY <2>3, <4>1
      <4>2. CASE b # a
        BY <1>1, <2>3, <3>4, <4>2 DEF IInv, WatchersAgree
      <4> QED BY <4>1, <4>2
    <3> QED BY <3>2, <3>3, <3>4 DEF WatchersAgree
  <2>12. NoWaiterLeftBehind'
    <3>1. \A f \in Events : signaled[f] => waiters'[f] = waiters[f]
      BY <1>3, <2>3
    <3> QED BY <1>1, <2>1, <3>1 DEF IInv, NoWaiterLeftBehind, syncVars
  <2> QED BY <2>7, <2>8, <2>10, <2>11, <2>12 DEF IInv
<1> QED BY <1>2, <1>3

\* A watcher takes its own AsyncWaiter off the list, and no other that has its address.
LEMMA StopWatchingKeeps ==
  ASSUME IInv, NEW x \in Watchers, StopWatching(x)
  PROVE  IInv'
<1> DEFINE r == [watcher[x] EXCEPT !.state = "none"]
<1>1. /\ watcher[x].state # "none" /\ watcher' = [watcher EXCEPT ![x] = r] /\ UNCHANGED signaled
      /\ UNCHANGED <<klock, thread, syncVars>>
      /\ watcher \in [Watchers -> Watcher] /\ owner \in [Addrs -> Watchers \cup {Nobody}]
  BY DEF StopWatching, IInv, TypeOK
<1>2. r \in Watcher /\ r.state = "none"
  BY <1>1 DEF Watcher
<1> HIDE DEF r
<1>3. /\ watcher' \in [Watchers -> Watcher] /\ watcher'[x].state = "none"
      /\ \A y \in Watchers \ {x} : watcher'[y] = watcher[y]
      /\ signaled' \in [Events -> BOOLEAN] /\ \A e \in Events : signaled'[e] => signaled[e]
  BY <1>1, <1>2 DEF IInv, TypeOK
<1>4. CASE watcher[x].state # "listed"
  <2>1. \A a \in Addrs : owner[a] # x
    BY <1>4, OwnsNone
  <2>2. watcher[x].kernel # NoEvent /\ Contains(waiters[watcher[x].kernel], watcher[x].addr) =>
          watcher[x].addr \in Waiter
    BY <1>1 DEF IInv, TypeOK, Watcher, Contains
  <2>3. Nobody \in Waiter => Nobody \in Addrs
    BY EventAssumption DEF Waiter
  <2>4. UNCHANGED <<waiters, owner>>
    BY <1>1, <2>1, <2>2, <2>3 DEF StopWatching, Watcher
  <2> QED BY <1>1, <1>3, <1>4, <2>4, WatcherSettles
<1>5. CASE watcher[x].state = "listed"
  <2>1. PICK e \in Events, a \in Addrs :
          /\ watcher[x].event = e /\ watcher[x].addr = a /\ watcher[x].kernel = e /\ owner[a] = x
          /\ Contains(waiters[e], a)
    <3>1. WatcherOK(x)
      BY DEF IInv, WatchersAgree
    <3> QED BY <1>5, <3>1 DEF WatcherOK, Contains
  <2>2. /\ klock[e] = Nobody /\ waiters' = Dequeue(e, a) /\ owner' = [owner EXCEPT ![a] = Nobody]
    BY <2>1, EventAssumption DEF StopWatching
  <2>3. /\ \A f \in Events : waiters[f] \in Seq(Waiter) /\ IsInjective(waiters[f])
        /\ a \in Waiter /\ a \notin Threads /\ x # Nobody
        /\ \A b \in Addrs : owner[b] # Nobody => watcher[owner[b]].addr = b
    BY EventAssumption DEF Waiter, IInv, TypeOK, WatchersAgree
  <2>4. /\ \A f \in Events \ {e} : waiters'[f] = waiters[f]
        /\ waiters'[e] = RemoveFirst(waiters[e], a)
        /\ waiters' = [f \in Events |-> waiters'[f]]
        /\ owner'[a] = Nobody /\ \A b \in Addrs \ {a} : owner'[b] = owner[b]
    BY <1>1, <2>2 DEF Dequeue, IInv, TypeOK
  <2>5. /\ waiters'[e] \in Seq(Waiter) /\ IsInjective(waiters'[e])
        /\ \A w : Contains(waiters'[e], w) <=> Contains(waiters[e], w) /\ w # a
    BY <2>3, <2>4, RemoveFirstMembers
  <2>6. \A k : ~Passed(e, k) /\ (k \in 1..Len(waiters[e]) => Live(waiters[e][k], e))
    BY <2>2, FreeList
  <2>7. \A b \in Addrs : b # a => owner[b] # x
    BY <2>1, <2>3
  <2>8. LocksAgree' /\ CallsAgree' /\ \A f, k : Passed(f, k)' <=> Passed(f, k)
    BY <1>1, <1>3, <2>2, <2>4, ThreadsRest
  <2>9. TypeOK'
    <3>1. waiters' \in [Events -> Seq(Waiter)] /\ \A f \in Events : IsInjective(waiters'[f])
      <4>1. \A f \in Events : waiters'[f] \in Seq(Waiter) /\ IsInjective(waiters'[f])
        BY <2>3, <2>4, <2>5
      <4> QED BY <2>4, <4>1
    <3>2. owner' \in [Addrs -> Watchers \cup {Nobody}]
      BY <1>1, <2>2
    <3> QED BY <1>1, <1>3, <3>1, <3>2 DEF IInv, TypeOK, syncVars
  <2>10. ASSUME NEW w \in Waiter, NEW f \in Events, Live(w, f), w # a \/ f # e PROVE Live(w, f)'
    <3>1. w # a
      BY <2>1, <2>10 DEF Live
    <3> QED BY <1>1, <1>3, <2>4, <2>7, <2>10, <3>1, LiveOfOthers
  <2>11. ListsAgree'
    <3>1. ListOK(e)'
      <4>1. ASSUME NEW k \in 1..Len(waiters'[e]), NEW w, w = waiters'[e][k] PROVE Live(w, e)'
        <5>1. Contains(waiters'[e], w)
          BY <4>1 DEF Contains
        <5>2. Contains(waiters[e], w) /\ w # a
          BY <2>5, <5>1
        <5>3. Live(w, e) /\ w \in Waiter
          BY <2>3, <2>6, <5>2 DEF Contains
        <5> QED BY <2>10, <5>2, <5>3
      <4> QED BY <4>1 DEF ListOK
    <3>2. ASSUME NEW f \in Events \ {e} PROVE ListOK(f)'
      <4>1. \A k \in 1..Len(waiters[f]) : waiters[f][k] \in Waiter
        BY <2>3
      <4> QED BY <2>4, <2>8, <2>10, <4>1 DEF IInv, ListsAgree, ListOK
    <3> QED BY <3>1, <3>2 DEF ListsAgree
  <2>12. WatchersAgree'
    <3>1. ASSUME NEW y \in Watchers \ {x} PROVE WatcherOK(y)'
      <4>1. watcher'[y] = watcher[y] /\ WatcherOK(y)
        BY <1>3 DEF IInv, WatchersAgree
      <4>2. SUFFICES ASSUME watcher[y].state = "listed" PROVE WatcherOK(y)'
        BY <4>1 DEF WatcherOK
      <4>3. PICK f \in Events, b \in Addrs :
              /\ watcher[y].event = f /\ watcher[y].addr = b /\ watcher[y].kernel = f /\ owner[b] = y
              /\ \E k \in 1..Len(waiters[f]) : waiters[f][k] = b /\ ~Passed(f, k)
        BY <4>1, <4>2 DEF WatcherOK
      <4>4. b # a /\ owner'[b] = y
        BY <2>1, <2>4, <4>3
      <4>5. \E k \in 1..Len(waiters'[f]) : waiters'[f][k] = b /\ ~Passed(f, k)'
        <5>1. CASE f = e
          <6>1. Contains(waiters'[e], b)
            BY <2>5, <4>3, <4>4, <5>1 DEF Contains
          <6> QED BY <2>6, <2>8, <5>1, <6>1 DEF Contains
        <5>2. CASE f # e
          BY <2>4, <2>8, <4>3, <5>2
        <5> QED BY <5>1, <5>2
      <4> QED BY <4>1, <4>3, <4>4, <4>5 DEF WatcherOK
    <3>2. WatcherOK(x)'
      BY <1>3 DEF WatcherOK
    <3>3. ASSUME NEW b \in Addrs, owner'[b] # Nobody
          PROVE  watcher'[owner'[b]].state = "listed" /\ watcher'[owner'[b]].addr = b
      <4>1. b # a /\ owner'[b] = owner[b] /\ owner[b] # x /\ owner[b] \in Watchers
        BY <1>1, <2>4, <2>7, <3>3
      <4> QED BY <1>3, <3>3, <4>1 DEF IInv, WatchersAgree
    <3> QED BY <3>1, <3>2, <3>3 DEF WatchersAgree
  <2>13. NoWaiterLeftBehind'
    <3>1. ASSUME NEW f \in Events PROVE ToSet(waiters'[f]) \subseteq ToSet(waiters[f])
      <4>1. CASE f = e
        <5>1. \A w : w \in ToSet(waiters'[e]) => Contains(waiters'[e], w)
          BY <2>5 DEF Contains, ToSet
        <5>2. \A w : Contains(waiters[e], w) => w \in ToSet(waiters[e])
          BY <2>3 DEF Contains, ToSet
        <5> QED BY <2>5, <4>1, <5>1, <5>2
      <4>2. CASE f # e
        BY <2>4, <4>2
      <4> QED BY <4>1, <4>2
    <3> QED BY <1>1, <3>1 DEF IInv, NoWaiterLeftBehind, syncVars
  <2> QED BY <2>8, <2>9, <2>11, <2>12, <2>13 DEF IInv
<1> QED BY <1>4, <1>5

(***************************************************************************)
(* The invariant.                                                          *)
(***************************************************************************)
\* Nobody waits and nobody holds a lock at first.
LEMMA InitHolds == Init => IInv
<1> SUFFICES ASSUME Init PROVE IInv
  OBVIOUS
<1>1. /\ \A t \in Threads : thread[t] = IdleThread(NoEvent) /\ swlock[t] = Nobody
      /\ \A e \in Events : klock[e] = Nobody /\ waiters[e] = <<>>
      /\ \A x \in Watchers : watcher[x].state = "none"
      /\ \A a \in Addrs : owner[a] = Nobody
  BY DEF Init
<1>2. IdleThread(NoEvent) \in Thread /\ IdleThread(NoEvent).pc = "idle" /\ IdleThread(NoEvent).events = <<>>
  BY DEF IdleThread, Thread, Pcs
<1>3. TypeOK
  <2>1. [state |-> "none", event |-> NoEvent, kernel |-> NoEvent, addr |-> Nobody] \in Watcher
    BY DEF Watcher
  <2>2. waiters \in [Events -> Seq(Waiter)] /\ \A e \in Events : IsInjective(waiters[e])
    BY DEF Init, IsInjective
  <2> QED BY <1>2, <2>1, <2>2 DEF Init, TypeOK
<1>4. LocksAgree
  BY <1>1, <1>2, EventAssumption DEF LocksAgree, LockOK, Firing
<1>5. CallsAgree
  BY <1>1, <1>2 DEF CallsAgree, CallOK, IsInjective
<1>6. ListsAgree
  BY <1>1 DEF ListsAgree, ListOK
<1>7. WatchersAgree
  BY <1>1 DEF WatchersAgree, WatcherOK
<1>8. NoWaiterLeftBehind
  BY <1>1 DEF NoWaiterLeftBehind, ToSet
<1> QED BY <1>3, <1>4, <1>5, <1>6, <1>7, <1>8 DEF IInv

\* Every step keeps the invariant.
LEMMA StepKeeps == IInv /\ [Next]_vars => IInv'
<1> SUFFICES ASSUME IInv, [Next]_vars PROVE IInv'
  OBVIOUS
<1>1. ASSUME NEW t \in Threads, NEW e \in Events, NEW finite \in BOOLEAN, TimedWait(t, e, finite) PROVE IInv'
  BY <1>1, TimedWaitKeeps
<1>2. ASSUME NEW t \in Threads, GiveUp(t) PROVE IInv'
  BY <1>2, GiveUpKeeps
<1>3. ASSUME NEW t \in Threads, CvWait(t) PROVE IInv'
  BY <1>3, CvWaitKeeps
<1>4. ASSUME NEW t \in Threads, CvWake(t) PROVE IInv'
  BY <1>4, CvWakeKeeps
<1>5. ASSUME NEW t \in Threads, TimedWaitDequeue(t) PROVE IInv'
  BY <1>5, TimedWaitDequeueKeeps
<1>6. ASSUME NEW t \in Threads, NEW array \in Arrays, WaitMany(t, array) PROVE IInv'
  BY <1>6, WaitManyKeeps
<1>7. ASSUME NEW t \in Threads, NEW e \in Events, EnqueueMany(t, e) PROVE IInv'
  BY <1>7, EnqueueManyKeeps
<1>8. ASSUME NEW t \in Threads, WaitManyFired(t) PROVE IInv'
  BY <1>8, WaitManyFiredKeeps
<1>9. ASSUME NEW t \in Threads, WaitManyDequeue(t) PROVE IInv'
  BY <1>9, WaitManyDequeueKeeps
<1>10. ASSUME NEW t \in Threads, NEW e \in Events, Signal(t, e) PROVE IInv'
  BY <1>10, SignalKeeps
<1>11. ASSUME NEW t \in Threads, SignalOne(t) PROVE IInv'
  BY <1>11, SignalOneKeeps
<1>12. ASSUME NEW t \in Threads, SignalAll(t) PROVE IInv'
  BY <1>12, SignalAllKeeps
<1>13. ASSUME NEW t \in Threads, NEW e \in Events, Reset(t, e) PROVE IInv'
  BY <1>13, ResetKeeps
<1>14. ASSUME NEW t \in Threads, NEW e \in Events, IsSignaled(t, e) PROVE IInv'
  BY <1>14, IsSignaledKeeps
<1>15. ASSUME NEW x \in Watchers, NEW e \in Events, StartWatching(x, e) PROVE IInv'
  BY <1>15, StartWatchingKeeps
<1>16. ASSUME NEW x \in Watchers, RunCallbackTask(x) PROVE IInv'
  BY <1>16, RunCallbackTaskKeeps
<1>17. ASSUME NEW x \in Watchers, StopWatching(x) PROVE IInv'
  BY <1>17, StopWatchingKeeps
<1>18. CASE UNCHANGED vars
  <2>1. TypeOK'
    BY <1>18 DEF IInv, TypeOK, vars
  <2>2. LocksAgree' /\ CallsAgree'
    BY <1>18, ThreadsRest DEF vars, syncVars
  <2>3. ListsAgree'
    BY <1>18 DEF IInv, ListsAgree, ListOK, Live, Waits, Passed, Firing, vars
  <2>4. WatchersAgree'
    BY <1>18 DEF IInv, WatchersAgree, WatcherOK, Passed, Firing, vars
  <2>5. NoWaiterLeftBehind'
    BY <1>18 DEF IInv, NoWaiterLeftBehind, vars
  <2> QED BY <2>1, <2>2, <2>3, <2>4, <2>5 DEF IInv
<1> QED BY <1>1, <1>2, <1>3, <1>4, <1>5, <1>6, <1>7, <1>8, <1>9, <1>10, <1>11, <1>12, <1>13, <1>14,
           <1>15, <1>16, <1>17, <1>18 DEF Next

\* The inductive part of EventInv always holds.
LEMMA InductiveInvariant == Spec => []IInv
<1>1. Init => IInv
  BY InitHolds
<1>2. IInv /\ [Next]_vars => IInv'
  BY StepKeeps
<1> QED BY <1>1, <1>2, PTL DEF Spec

\* A waiter in a list exists, for it waits there or SignalAll has passed it.
LEMMA ListsPointToWaiters == IInv => NoDanglingWaiter
<1> SUFFICES ASSUME IInv, NEW e \in Events, NEW k \in 1..Len(waiters[e]), NEW w, w = waiters[e][k]
             PROVE  \/ IF w \in Addrs THEN owner[w] # Nobody ELSE Waits(w, e)
                    \/ \E t \in Threads : klock[e] = t /\ thread[t].pc = "fire" /\ k < thread[t].i
  BY DEF NoDanglingWaiter
<1>1. CASE Live(w, e)
  BY <1>1 DEF Live
<1>2. CASE Passed(e, k)
  <2>1. PICK t \in Threads : Firing(t, e) /\ k < thread[t].i
    BY <1>2 DEF Passed
  <2>2. klock[e] = t
    BY <2>1, ThreadFacts DEF LockOK
  <2> QED BY <2>1, <2>2 DEF Firing
<1> QED BY <1>1, <1>2 DEF IInv, ListsAgree, ListOK

\* A watcher that waits has one AsyncWaiter, which is in the list of its event.
LEMMA WatchersAreListed == IInv => WatcherIsListed
<1> SUFFICES ASSUME IInv, NEW x \in Watchers
             PROVE  LET mine == {a \in Addrs : owner[a] = x}
                    IN  IF watcher[x].state = "listed"
                        THEN /\ mine = {watcher[x].addr}
                             /\ Contains(waiters[watcher[x].event], watcher[x].addr)
                        ELSE mine = {}
  BY DEF WatcherIsListed
<1>1. CASE watcher[x].state = "listed"
  <2>1. /\ watcher[x].addr \in Addrs /\ owner[watcher[x].addr] = x
        /\ Contains(waiters[watcher[x].event], watcher[x].addr)
    BY <1>1 DEF IInv, WatchersAgree, WatcherOK, Contains
  <2>2. \A a \in Addrs : owner[a] = x => a = watcher[x].addr
    BY EventAssumption DEF IInv, WatchersAgree
  <2> QED BY <1>1, <2>1, <2>2
<1>2. CASE watcher[x].state # "listed"
  BY <1>2, OwnsNone
<1> QED BY <1>1, <1>2

\* A thread that waits in vain for another's lock takes the locks of WaitMany, or waits for a
\* thread that does: those that hold the lock of a SyncWaiter are waiting for no lock, and
\* those that signal are waiting for the lock of a SyncWaiter.
LEMMA BlockedByLocks ==
  ASSUME IInv, NEW t \in Threads, NEW u \in Threads, NEW v \in Threads,
         BlockedBy(t, u), BlockedBy(u, v)
  PROVE  /\ thread[t].pc \in {"wmLock", "twDequeue", "wmDequeue"}
         /\ \E e \in Events : klock[e] = u
<1>1. /\ \A w \in Threads : swlock[w] = w => thread[w].pc \in {"twCheck", "wmCheck"}
      /\ \A w \in Threads : swlock[w] = u => w = u
      /\ swlock[t] = u => t = u
      /\ u # Nobody
  BY EventAssumption DEF IInv, LocksAgree, LockOK
<1>2. thread[u].pc \notin {"twCheck", "wmCheck"}
  BY DEF BlockedBy
<1>3. ~(\E w \in Threads : swlock[w] = u)
  BY <1>1, <1>2
<1>4. thread[t].pc \in {"wmLock", "twDequeue", "wmDequeue"}
  BY <1>3 DEF BlockedBy
<1>5. CASE thread[t].pc = "wmLock"
  BY <1>5, ThreadFacts DEF BlockedBy, ToLock, ToSet
<1>6. CASE thread[t].pc = "twDequeue"
  <2>1. thread[t].events[1] \in Events
    BY <1>6, ThreadFacts DEF CallOK
  <2> QED BY <1>6, <2>1 DEF BlockedBy
<1>7. CASE thread[t].pc = "wmDequeue"
  <2>1. thread[t].events # <<>> /\ klock[Head(thread[t].events)] = u
    BY <1>7 DEF BlockedBy
  <2>2. thread[t].events \in Seq(Events)
    BY ThreadFacts
  <2>3. Head(thread[t].events) \in Events
    BY <2>1, <2>2
  <2> QED BY <1>7, <2>1, <2>3
<1> QED BY <1>4, <1>5, <1>6, <1>7

\* The locks that WaitMany has still to take are those of events.
LEMMA ToLockEvents ==
  ASSUME IInv, NEW t \in Threads
  PROVE  ToLock(t) \subseteq Events /\ ToLock(t) \subseteq Nat
<1>1. thread[t].events \in Seq(Events)
  BY ThreadFacts
<1>2. ToSet(thread[t].events) \subseteq Events
  BY <1>1 DEF ToSet
<1> QED BY <1>2, EventAssumption DEF ToLock

\* The locks of WaitMany are taken in the order of the addresses, so the greatest address
\* that somebody is waiting for is held by somebody who waits for a greater one.
LEMMA LocksAreOrdered == IInv => NoLockCycle
<1> SUFFICES ASSUME IInv, NEW S \in (SUBSET Threads) \ {{}}, \A t \in S : \E u \in S : BlockedBy(t, u)
             PROVE  FALSE
  BY Zenon DEF NoLockCycle
<1>a. S \subseteq Threads /\ S # {}
  OBVIOUS
<1> DEFINE NextLock(t, e) == thread[t].pc = "wmLock" /\ e \in ToLock(t) /\ \A f \in ToLock(t) : e <= f
           M == {e \in Events : \E t \in S : NextLock(t, e)}
<1>1. ASSUME NEW t \in S
      PROVE  \E u \in S, e \in Events : BlockedBy(t, u) /\ klock[e] = u /\ thread[u].pc = "wmLock"
  <2>1. PICK u \in S : BlockedBy(t, u)
    OBVIOUS
  <2>2. PICK v \in S : BlockedBy(u, v)
    OBVIOUS
  <2>3. PICK w \in S : BlockedBy(v, w)
    OBVIOUS
  <2>4. thread[u].pc \in {"wmLock", "twDequeue", "wmDequeue"}
    BY <2>2, <2>3, BlockedByLocks
  <2>5. PICK e \in Events : klock[e] = u
    BY <2>1, <2>2, BlockedByLocks
  <2>6. thread[u].pc = "wmLock"
    BY <2>4, <2>5, ThreadFacts DEF LockOK, Firing
  <2> QED BY <2>1, <2>5, <2>6
<1>2. ASSUME NEW t \in S, thread[t].pc = "wmLock" PROVE \E e \in M : NextLock(t, e)
  <2>1. ToLock(t) # {}
    BY <1>a, <1>2, ThreadFacts DEF LockOK
  <2>3. ToLock(t) \subseteq Events /\ ToLock(t) \subseteq Nat
    BY <1>a, ToLockEvents
  <2>2. PICK e \in ToLock(t) : \A f \in ToLock(t) : e <= f
    BY <2>1, <2>3, LeastNatural
  <2> QED BY <1>2, <2>2, <2>3
<1>3. M # {}
  <2>1. PICK t \in S : TRUE
    BY <1>a
  <2>2. PICK u \in S : thread[u].pc = "wmLock"
    BY <1>1, <2>1
  <2> QED BY <1>2, <2>2
<1>4. M \subseteq Nat /\ IsFiniteSet(M)
  BY EventAssumption, FS_Subset
<1>5. PICK m \in M : \A e \in M : e <= m
  BY <1>3, <1>4, GreatestNatural
<1>6. PICK t \in S : NextLock(t, m)
  BY <1>5
<1>7. PICK u \in S : BlockedBy(t, u) /\ thread[u].pc = "wmLock"
  BY <1>1, <1>6
<1>8. klock[m] = u
  <2>1. PICK e \in ToLock(t) : klock[e] = u /\ \A f \in ToLock(t) : e <= f
    BY <1>6, <1>7 DEF BlockedBy
  <2>2. e \in Nat /\ m \in Nat
    BY <1>a, <1>4, <2>1, ToLockEvents
  <2>3. e <= m /\ m <= e
    BY <1>6, <2>1
  <2> QED BY <2>1, <2>2, <2>3
<1>9. PICK e \in M : NextLock(u, e)
  BY <1>2, <1>7
<1>10. m < e
  BY <1>7, <1>8, <1>9, ThreadFacts DEF LockOK, Firing
<1> QED BY <1>4, <1>5, <1>9, <1>10

\* The wait-lists, the locks and the watchers agree with what the threads do; nobody waits in
\* the list of an event that is signaled, and no threads wait for each other's locks.
THEOREM EventsAgree == Spec => []EventInv
<1>1. IInv => EventInv
  BY ListsPointToWaiters, WatchersAreListed, LocksAreOrdered DEF IInv, EventInv
<1> QED BY <1>1, InductiveInvariant, PTL

\* A signal that a waiter has accepted is what TimedWait and WaitMany report.
THEOREM AcceptedSignalsAreReported == Spec => []AcceptedSignalIsReported
<1>1. IInv => AcceptedSignalIsReported
  BY DEF IInv, CallsAgree, CallOK, AcceptedSignalIsReported
<1> QED BY <1>1, InductiveInvariant, PTL

\* Only its own steps take a thread out of Signal.
LEMMA OnlySignalEnds ==
  ASSUME IInv, NEW t \in Threads, thread[t].pc = "fire", thread'[t].pc = "idle", [Next]_vars
  PROVE  SignalOne(t) \/ SignalAll(t)
<1>1. /\ thread \in [Threads -> Thread]
      /\ \A u \in Threads : \A r : thread' = [thread EXCEPT ![u] = r] => u = t
      /\ ~UNCHANGED thread
  BY DEF IInv, TypeOK
<1>2. ASSUME NEW u \in Threads PROVE ~GiveUp(u) /\ ~WaitManyFired(u) /\ ~CvWait(u) /\ ~CvWake(u)
  BY <1>1 DEF GiveUp, WaitManyFired, CvWait, CvWake, Goes
<1>3. ASSUME NEW u \in Threads PROVE ~TimedWaitDequeue(u) /\ ~WaitManyDequeue(u)
  BY <1>1 DEF TimedWaitDequeue, WaitManyDequeue, Returns
<1>4. ASSUME NEW u \in Threads, NEW array \in Arrays PROVE ~WaitMany(u, array)
  BY <1>1 DEF WaitMany
<1>5. ASSUME NEW u \in Threads, NEW e \in Events
      PROVE  ~EnqueueMany(u, e) /\ ~Signal(u, e) /\ ~Reset(u, e) /\ ~IsSignaled(u, e)
  BY <1>1 DEF EnqueueMany, Signal, Reset, IsSignaled, Returns, Goes
<1>6. ASSUME NEW u \in Threads, NEW e \in Events, NEW finite \in BOOLEAN PROVE ~TimedWait(u, e, finite)
  BY <1>1 DEF TimedWait, Returns
<1>7. ASSUME NEW x \in Watchers PROVE ~RunCallbackTask(x) /\ ~StopWatching(x)
  BY <1>1 DEF RunCallbackTask, StopWatching
<1>8. ASSUME NEW x \in Watchers, NEW e \in Events PROVE ~StartWatching(x, e)
  BY <1>1 DEF StartWatching
<1>9. \A u \in Threads : SignalOne(u) \/ SignalAll(u) => u = t
  BY <1>1 DEF SignalOne, SignalAll, Returns
<1> QED BY <1>1, <1>2, <1>3, <1>4, <1>5, <1>6, <1>7, <1>8, <1>9 DEF Next, vars

\* The waiter at the head of a list is the one that SignalOne tries; if it accepts, the
\* signal has reached it.
LEMMA AcceptedMeansReached ==
  ASSUME IInv, NEW t \in Threads, NEW e \in Events, Firing(t, e), SignalOne(t), thread'[t].pc = "idle"
  PROVE  \/ signaled'[e]
         \/ \E w \in Threads : ~fired[w] /\ from'[w] = e
         \/ \E x \in Watchers : watcher[x].state = "listed" /\ watcher'[x].state = "posted"
<1>1. /\ thread[t].pc = "fire" /\ thread[t].events[1] = e /\ thread[t].i = 1
      /\ waiters[e] \in Seq(Waiter) /\ signaled \in [Events -> BOOLEAN]
      /\ \A k : Passed(e, k) <=> k < 1
  BY FiringFacts DEF Firing, IInv, TypeOK, SignalOne
<1>2. CASE waiters[e] = <<>>
  BY <1>1, <1>2 DEF SignalOne
<1>3. CASE waiters[e] # <<>>
  <2> DEFINE w == Head(waiters[e])
  <2>1. FireWaiter(w, e) /\ Accepts(w)
    BY <1>1, <1>3 DEF SignalOne
  <2>2. w \in Waiter /\ w = waiters[e][1] /\ 1 \in 1..Len(waiters[e])
    BY <1>1, <1>3
  <2>3. Live(w, e)
    BY <1>1, <2>2 DEF IInv, ListsAgree, ListOK
  <2> HIDE DEF w
  <2>4. CASE w \in Addrs
    BY <2>1, <2>3, <2>4, FireAsyncWaiter DEF Live
  <2>5. CASE w \in Threads
    BY <2>1, <2>5, FireSyncWaiter, EventAssumption DEF Accepts
  <2> QED BY <2>2, <2>4, <2>5 DEF Waiter
<1> QED BY <1>2, <1>3

\* A Signal of an automatic event is accepted by a waiter or leaves the event signaled.
THEOREM SignalsReachSomeone == Spec => SignalReachesSomeone
<1> DEFINE Reaches ==
      \A t \in Threads, e \in Events \ Manual :
       klock[e] = t /\ thread[t].pc = "fire" /\ thread'[t].pc = "idle" =>
         \/ signaled'[e]
         \/ \E w \in Threads : ~fired[w] /\ from'[w] = e
         \/ \E x \in Watchers : watcher[x].state = "listed" /\ watcher'[x].state = "posted"
<1>1. IInv /\ [Next]_vars => [Reaches]_vars
  <2> SUFFICES ASSUME IInv, [Next]_vars, NEW t \in Threads, NEW e \in Events \ Manual,
                      klock[e] = t, thread[t].pc = "fire", thread'[t].pc = "idle"
               PROVE  \/ signaled'[e]
                      \/ \E w \in Threads : ~fired[w] /\ from'[w] = e
                      \/ \E x \in Watchers : watcher[x].state = "listed" /\ watcher'[x].state = "posted"
    OBVIOUS
  <2>1. Firing(t, e) /\ thread[t].events[1] = e
    BY FiringFacts DEF Firing
  <2>2. ~SignalAll(t)
    BY <2>1 DEF SignalAll
  <2>3. SignalOne(t)
    BY <2>2, OnlySignalEnds
  <2> QED BY <2>1, <2>3, AcceptedMeansReached
<1> QED BY <1>1, InductiveInvariant, PTL DEF Spec, SignalReachesSomeone
=============================================================================
