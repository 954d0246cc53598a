--------------------------- MODULE WaitableEvent ----------------------------
(***************************************************************************)
(* Waitable events (base/synchronization/waitable_event_posix.cc) and      *)
(* their watchers (waitable_event_watcher_posix.cc).                       *)
(*                                                                         *)
(* An event is a flag and a list of waiters under a lock.  A thread waits  *)
(* with a SyncWaiter on its stack, which has a lock and a condition        *)
(* variable of its own, and which may be in the lists of several events    *)
(* (WaitMany).  A watcher waits with an AsyncWaiter on the heap: firing it *)
(* posts a task and frees it.                                              *)
(*                                                                         *)
(* A step is what a thread does between two points where it may block or   *)
(* where others may get in between.  Locks that are released one after     *)
(* the other are released in one step.  A thread is its SyncWaiter, an     *)
(* address its AsyncWaiter.                                                *)
(***************************************************************************)
EXTENDS Integers, SequencesExt

CONSTANTS
  Events,    \* by address, which is the order WaitMany locks them in
  Manual,    \* the events that are not reset automatically
  Threads,
  Watchers,
  Addrs,     \* the addresses that the allocator gives to AsyncWaiters
  Arrays,    \* the arguments of WaitMany
  Budgets,   \* how many operations each thread and each watcher may start: the alternatives
  Nobody, NoEvent

ASSUME EventAssumption ==
  /\ Events \subseteq Nat /\ IsFiniteSet(Events) /\ Manual \subseteq Events
  /\ Budgets \subseteq [Threads \cup Watchers -> Nat]
  /\ \A a \in Arrays : a \in Seq(Events) /\ IsInjective(a) /\ a # <<>>
  /\ Threads \cap Addrs = {} /\ Nobody \notin Threads \cup Watchers /\ NoEvent \notin Events

VARIABLES
  signaled,  \* WaitableEventKernel::signaled_
  waiters,   \* WaitableEventKernel::waiters_
  klock,     \* the holder of WaitableEventKernel::lock_
  swlock,    \* the holder of SyncWaiter::lock_
  fired,     \* SyncWaiter::fired_
  from,      \* SyncWaiter::signaling_event_
  woken,     \* the condition variable was broadcast since the thread waits on it
  thread,    \* where each thread is
  owner,     \* the watcher that an AsyncWaiter belongs to: its Flag
  watcher,   \* WaitableEventWatcher
  calls      \* operations that each may still start

vars == <<signaled, waiters, klock, swlock, fired, from, woken, thread, owner, watcher, calls>>

syncVars == <<swlock, fired, from, woken>>
asyncVars == <<owner, watcher>>

Pcs == {"idle", "twCheck", "twCv", "twDequeue", "wmLock", "wmCheck", "wmCv", "wmDequeue", "fire"}

\* |events| are those of the call, |i| is how far SignalAll is in its loop over the waiters.
Thread == [pc : Pcs, events : Seq(Events), i : Nat, finite : BOOLEAN, ret : Events \cup {NoEvent}]

IdleThread(ret) == [pc |-> "idle", events |-> <<>>, i |-> 0, finite |-> FALSE, ret |-> ret]

\* |state|: "listed" waits in a wait-list, "posted" has its task in the message loop.
Watcher == [state : {"none", "listed", "posted"}, event : Events \cup {NoEvent},
            kernel : Events \cup {NoEvent}, addr : Addrs \cup {Nobody}]

Init ==
  /\ signaled \in [Events -> BOOLEAN]
  /\ waiters = [e \in Events |-> <<>>]
  /\ klock = [e \in Events |-> Nobody]
  /\ swlock = [t \in Threads |-> Nobody]
  /\ fired = [t \in Threads |-> FALSE]
  /\ from = [t \in Threads |-> NoEvent]
  /\ woken = [t \in Threads |-> FALSE]
  /\ thread = [t \in Threads |-> IdleThread(NoEvent)]
  /\ owner = [a \in Addrs |-> Nobody]
  /\ watcher = [x \in Watchers |-> [state |-> "none", event |-> NoEvent, kernel |-> NoEvent, addr |-> Nobody]]
  /\ calls \in Budgets

Calls(y) == calls[y] > 0 /\ calls' = [calls EXCEPT ![y] = @ - 1]
Goes(t, pc) == thread' = [thread EXCEPT ![t].pc = pc]
Returns(t, ret) == thread' = [thread EXCEPT ![t] = IdleThread(ret)]

\* The flag after somebody has seen it set.
AutoReset(e) == [signaled EXCEPT ![e] = e \in Manual]

\* The list without the waiter.
Dequeue(e, w) == [waiters EXCEPT ![e] = RemoveFirst(@, w)]

(***************************************************************************)
(* Wait and TimedWait.                                                     *)
(***************************************************************************)
\* The event is signaled already, or the thread enqueues itself and goes on with
\* the lock of its waiter held.
TimedWait(t, e, finite) ==
  /\ thread[t].pc = "idle" /\ klock[e] = Nobody /\ Calls(t)
  /\ \/ /\ signaled[e]
        /\ signaled' = AutoReset(e)
        /\ Returns(t, e)
        /\ UNCHANGED <<waiters, syncVars>>
     \/ /\ ~signaled[e]
        /\ waiters' = [waiters EXCEPT ![e] = Append(@, t)]
        /\ swlock' = [swlock EXCEPT ![t] = t]
        /\ fired' = [fired EXCEPT ![t] = FALSE]
        /\ from' = [from EXCEPT ![t] = NoEvent]
        /\ woken' = [woken EXCEPT ![t] = FALSE]
        /\ thread' = [thread EXCEPT ![t] = [pc |-> "twCheck", events |-> <<e>>, i |-> 0,
                                            finite |-> finite, ret |-> NoEvent]]
        /\ UNCHANGED signaled
  /\ UNCHANGED <<klock, asyncVars>>

\* Fault: the waiter can still be fired after the time-out.
GiveUpEnabled(t) ==
  /\ thread[t].pc = "twCheck"
  /\ fired[t] \/ thread[t].finite
  /\ swlock' = [swlock EXCEPT ![t] = Nobody]
  /\ thread' = [thread EXCEPT ![t].pc = "twDequeue", ![t].ret = IF fired[t] THEN thread[t].events[1] ELSE NoEvent]
  /\ UNCHANGED <<signaled, waiters, klock, fired, from, woken, asyncVars, calls>>

\* Fired, or the time is over: the waiter is disabled before its lock is released.
GiveUp(t) ==
  /\ thread[t].pc = "twCheck"
  /\ fired[t] \/ thread[t].finite
  /\ fired' = [fired EXCEPT ![t] = TRUE]
  /\ swlock' = [swlock EXCEPT ![t] = Nobody]
  /\ thread' = [thread EXCEPT ![t].pc = "twDequeue",
                              ![t].ret = IF fired[t] THEN thread[t].events[1] ELSE NoEvent]
  /\ UNCHANGED <<signaled, waiters, klock, from, woken, asyncVars, calls>>

\* ConditionVariable::Wait releases the lock.
CvWait(t) ==
  /\ thread[t].pc \in {"twCheck", "wmCheck"} /\ ~fired[t]
  /\ swlock' = [swlock EXCEPT ![t] = Nobody]
  /\ woken' = [woken EXCEPT ![t] = FALSE]
  /\ Goes(t, IF thread[t].pc = "twCheck" THEN "twCv" ELSE "wmCv")
  /\ UNCHANGED <<signaled, waiters, klock, fired, from, asyncVars, calls>>

\* A broadcast, the time-out or nothing at all ends the wait, with the lock held again.
CvWake(t) ==
  /\ thread[t].pc \in {"twCv", "wmCv"} /\ swlock[t] = Nobody
  /\ swlock' = [swlock EXCEPT ![t] = t]
  /\ Goes(t, IF thread[t].pc = "twCv" THEN "twCheck" ELSE "wmCheck")
  /\ UNCHANGED <<signaled, waiters, klock, fired, from, woken, asyncVars, calls>>

\* The end of TimedWait: off the list, if the signaller has not done it.
TimedWaitDequeue(t) ==
  LET e == thread[t].events[1]
  IN  /\ thread[t].pc = "twDequeue" /\ klock[e] = Nobody
      /\ waiters' = Dequeue(e, t)
      /\ Returns(t, thread[t].ret)
      /\ UNCHANGED <<signaled, klock, syncVars, asyncVars, calls>>

(***************************************************************************)
(* WaitMany.                                                               *)
(***************************************************************************)
WaitMany(t, array) ==
  /\ thread[t].pc = "idle" /\ Calls(t)
  /\ thread' = [thread EXCEPT ![t] = [pc |-> "wmLock", events |-> array, i |-> 0,
                                      finite |-> FALSE, ret |-> NoEvent]]
  /\ UNCHANGED <<signaled, waiters, klock, syncVars, asyncVars>>

\* The sorted array, as far as its locks are not taken yet.
ToLock(t) == {e \in ToSet(thread[t].events) : klock[e] # t}

\* One level of the recursion of EnqueueMany, for the next event by address.  A signaled
\* event ends the call and releases the locks taken so far; the last event enqueues the
\* waiter in all lists, and WaitMany takes the lock of the waiter and releases the others.
EnqueueMany(t, e) ==
  LET mine == ToSet(thread[t].events)
      free == [f \in Events |-> IF klock[f] = t THEN Nobody ELSE klock[f]]
  IN  /\ thread[t].pc = "wmLock" /\ klock[e] = Nobody
      /\ e \in mine /\ \A f \in ToLock(t) : e <= f
      /\ \/ /\ signaled[e]
            /\ signaled' = AutoReset(e)
            /\ klock' = free
            /\ Returns(t, e)
            /\ UNCHANGED <<waiters, syncVars>>
         \/ /\ ~signaled[e] /\ ToLock(t) # {e}
            /\ klock' = [klock EXCEPT ![e] = t]
            /\ UNCHANGED <<signaled, waiters, syncVars, thread>>
         \/ /\ ~signaled[e] /\ ToLock(t) = {e}
            /\ waiters' = [f \in Events |-> IF f \in mine THEN Append(waiters[f], t) ELSE waiters[f]]
            /\ klock' = free
            /\ swlock' = [swlock EXCEPT ![t] = t]
            /\ fired' = [fired EXCEPT ![t] = FALSE]
            /\ from' = [from EXCEPT ![t] = NoEvent]
            /\ woken' = [woken EXCEPT ![t] = FALSE]
            /\ Goes(t, "wmCheck")
            /\ UNCHANGED signaled
      /\ UNCHANGED <<asyncVars, calls>>

\* Fired: the lists of the other events still have the waiter.
WaitManyFired(t) ==
  /\ thread[t].pc = "wmCheck" /\ fired[t]
  /\ swlock' = [swlock EXCEPT ![t] = Nobody]
  /\ thread' = [thread EXCEPT ![t].pc = "wmDequeue", ![t].ret = from[t],
                              ![t].events = RemoveFirst(@, from[t])]
  /\ UNCHANGED <<signaled, waiters, klock, fired, from, woken, asyncVars, calls>>

\* The end of WaitMany, one event at a time.
WaitManyDequeue(t) ==
  LET s == thread[t].events
  IN  /\ thread[t].pc = "wmDequeue"
      /\ \/ s = <<>> /\ Returns(t, thread[t].ret) /\ UNCHANGED waiters
         \/ /\ s # <<>> /\ klock[Head(s)] = Nobody
            /\ waiters' = Dequeue(Head(s), t)
            /\ thread' = [thread EXCEPT ![t].events = Tail(s)]
      /\ UNCHANGED <<signaled, klock, syncVars, asyncVars, calls>>

(***************************************************************************)
(* Signal, Reset and IsSignaled.                                           *)
(***************************************************************************)
\* Nothing to do for an event that is signaled already.
Signal(t, e) ==
  /\ thread[t].pc = "idle" /\ klock[e] = Nobody /\ ~signaled[e] /\ Calls(t)
  /\ klock' = [klock EXCEPT ![e] = t]
  /\ thread' = [thread EXCEPT ![t] = [pc |-> "fire", events |-> <<e>>, i |-> 1,
                                      finite |-> FALSE, ret |-> NoEvent]]
  /\ UNCHANGED <<signaled, waiters, syncVars, asyncVars>>

\* Waiter::Fire.  A SyncWaiter accepts one signal; an AsyncWaiter posts its task and is freed.
Accepts(w) == w \in Addrs \/ ~fired[w]

\* Fault: the condition variable is not broadcast.
FireWaiterQuietly(w, e) ==
  IF w \in Addrs
  THEN /\ owner' = [owner EXCEPT ![w] = Nobody]
       /\ watcher' = [watcher EXCEPT ![owner[w]].state = "posted"]
       /\ UNCHANGED syncVars
  ELSE /\ swlock[w] = Nobody
       /\ fired' = [fired EXCEPT ![w] = TRUE]
       /\ from' = IF fired[w] THEN from ELSE [from EXCEPT ![w] = e]
       /\ UNCHANGED <<swlock, woken, asyncVars>>

FireWaiter(w, e) ==
  IF w \in Addrs
  THEN /\ owner' = [owner EXCEPT ![w] = Nobody]
       /\ watcher' = [watcher EXCEPT ![owner[w]].state = "posted"]
       /\ UNCHANGED syncVars
  ELSE /\ swlock[w] = Nobody
       /\ fired' = [fired EXCEPT ![w] = TRUE]
       /\ from' = IF fired[w] THEN from ELSE [from EXCEPT ![w] = e]
       /\ woken' = IF fired[w] THEN woken ELSE [woken EXCEPT ![w] = TRUE]
       /\ UNCHANGED <<swlock, asyncVars>>

\* Fault: the first waiter of the list takes the signal whether it accepts it or not.
SignalOneBlindly(t) ==
  LET e == thread[t].events[1]
      w == waiters[e]
  IN  /\ thread[t].pc = "fire" /\ e \notin Manual
      /\ \/ /\ w = <<>>
            /\ signaled' = [signaled EXCEPT ![e] = TRUE]
            /\ UNCHANGED <<waiters, syncVars, asyncVars>>
         \/ /\ w # <<>>
            /\ FireWaiter(Head(w), e)
            /\ waiters' = [waiters EXCEPT ![e] = Tail(@)]
            /\ UNCHANGED signaled
      /\ klock' = [klock EXCEPT ![e] = Nobody]
      /\ Returns(t, NoEvent)
      /\ UNCHANGED calls

\* SignalOne: tries waiters until one accepts; without one the event stays signaled.
SignalOne(t) ==
  LET e == thread[t].events[1]
      w == waiters[e]
  IN  /\ thread[t].pc = "fire" /\ e \notin Manual
      /\ \/ /\ w = <<>>
            /\ signaled' = [signaled EXCEPT ![e] = TRUE]
            /\ UNCHANGED <<waiters, syncVars, asyncVars>>
         \/ /\ w # <<>>
            /\ FireWaiter(Head(w), e)
            /\ waiters' = [waiters EXCEPT ![e] = Tail(@)]
            /\ UNCHANGED signaled
      /\ IF w = <<>> \/ Accepts(Head(w))
         THEN klock' = [klock EXCEPT ![e] = Nobody] /\ Returns(t, NoEvent)
         ELSE UNCHANGED <<klock, thread>>
      /\ UNCHANGED calls

\* SignalAll: fires every waiter, then forgets them.
SignalAll(t) ==
  LET e == thread[t].events[1]
      i == thread[t].i
  IN  /\ thread[t].pc = "fire" /\ e \in Manual
      /\ \/ /\ i <= Len(waiters[e])
            /\ FireWaiter(waiters[e][i], e)
            /\ thread' = [thread EXCEPT ![t].i = @ + 1]
            /\ UNCHANGED <<signaled, waiters, klock>>
         \/ /\ i > Len(waiters[e])
            /\ waiters' = [waiters EXCEPT ![e] = <<>>]
            /\ signaled' = [signaled EXCEPT ![e] = TRUE]
            /\ klock' = [klock EXCEPT ![e] = Nobody]
            /\ Returns(t, NoEvent)
            /\ UNCHANGED <<syncVars, asyncVars>>
      /\ UNCHANGED calls

Reset(t, e) ==
  /\ thread[t].pc = "idle" /\ klock[e] = Nobody /\ Calls(t)
  /\ signaled' = [signaled EXCEPT ![e] = FALSE]
  /\ UNCHANGED <<waiters, klock, syncVars, thread, asyncVars>>

IsSignaled(t, e) ==
  /\ thread[t].pc = "idle" /\ klock[e] = Nobody /\ signaled[e] /\ Calls(t)
  /\ signaled' = AutoReset(e)
  /\ Returns(t, e)
  /\ UNCHANGED <<waiters, klock, syncVars, asyncVars>>

(***************************************************************************)
(* Watchers.                                                               *)
(***************************************************************************)
\* The event is signaled already and the task is posted, or the watcher enqueues its waiter.
StartWatching(x, e) ==
  /\ watcher[x].state = "none" /\ klock[e] = Nobody /\ Calls(x)
  /\ \/ /\ signaled[e]
        /\ signaled' = AutoReset(e)
        /\ watcher' = [watcher EXCEPT ![x].state = "posted", ![x].event = e]
        /\ UNCHANGED <<waiters, owner>>
     \/ /\ ~signaled[e]
        /\ \E a \in {b \in Addrs : owner[b] = Nobody} :
             /\ owner' = [owner EXCEPT ![a] = x]
             /\ waiters' = [waiters EXCEPT ![e] = Append(@, a)]
             /\ watcher' = [watcher EXCEPT ![x] = [state |-> "listed", event |-> e, kernel |-> e, addr |-> a]]
        /\ UNCHANGED signaled
  /\ UNCHANGED <<klock, syncVars, thread>>

\* AsyncCallbackTask::Run calls the delegate.
RunCallbackTask(x) ==
  /\ watcher[x].state = "posted"
  /\ watcher' = [watcher EXCEPT ![x].state = "none"]
  /\ UNCHANGED <<signaled, waiters, klock, syncVars, thread, owner, calls>>

\* Fault: the waiter is recognised by its address alone.
StopWatchingUntagged(x) ==
  LET e == watcher[x].kernel
      a == watcher[x].addr
  IN  /\ watcher[x].state # "none"
      /\ watcher' = [watcher EXCEPT ![x].state = "none"]
      /\ IF e = NoEvent THEN UNCHANGED <<waiters, owner>>
         ELSE /\ klock[e] = Nobody
              /\ waiters' = Dequeue(e, a)
              /\ owner' = IF Contains(waiters[e], a) THEN [owner EXCEPT ![a] = Nobody] ELSE owner
      /\ UNCHANGED <<signaled, klock, syncVars, thread, calls>>

\* Without a kernel the task is on its way and will find its flag set.  Otherwise the
\* waiter is taken off the list, if the one at its address is still this watcher's.
StopWatching(x) ==
  LET e == watcher[x].kernel
      a == watcher[x].addr
  IN  /\ watcher[x].state # "none"
      /\ watcher' = [watcher EXCEPT ![x].state = "none"]
      /\ \/ e = NoEvent /\ UNCHANGED <<waiters, owner>>
         \/ /\ e # NoEvent /\ klock[e] = Nobody
            /\ IF Contains(waiters[e], a) /\ owner[a] = x
               THEN waiters' = Dequeue(e, a) /\ owner' = [owner EXCEPT ![a] = Nobody]
               ELSE UNCHANGED <<waiters, owner>>
      /\ UNCHANGED <<signaled, klock, syncVars, thread, calls>>

Next ==
  \/ \E t \in Threads, e \in Events, finite \in BOOLEAN : TimedWait(t, e, finite)
  \/ \E t \in Threads : GiveUp(t)
  \/ \E t \in Threads : CvWait(t)
  \/ \E t \in Threads : CvWake(t)
  \/ \E t \in Threads : TimedWaitDequeue(t)
  \/ \E t \in Threads, array \in Arrays : WaitMany(t, array)
  \/ \E t \in Threads, e \in Events : EnqueueMany(t, e)
  \/ \E t \in Threads : WaitManyFired(t)
  \/ \E t \in Threads : WaitManyDequeue(t)
  \/ \E t \in Threads, e \in Events : Signal(t, e)
  \/ \E t \in Threads : SignalOne(t)
  \/ \E t \in Threads : SignalAll(t)
  \/ \E t \in Threads, e \in Events : Reset(t, e)
  \/ \E t \in Threads, e \in Events : IsSignaled(t, e)
  \/ \E x \in Watchers, e \in Events : StartWatching(x, e)
  \/ \E x \in Watchers : RunCallbackTask(x)
  \/ \E x \in Watchers : StopWatching(x)

Spec == Init /\ [][Next]_vars

\* Threads are scheduled, a broadcast wakes who waits, and message loops run their tasks.
\* A waiter that keeps waking up for no reason does not keep its lock from a signaller.
\* Nobody has to start an operation, no time-out has to come and no wait has to end by itself.
Fairness ==
  /\ \A t \in Threads :
       /\ WF_vars(fired[t] /\ GiveUp(t))
       /\ WF_vars(CvWait(t))
       /\ WF_vars(woken[t] /\ CvWake(t))
       /\ WF_vars(\/ TimedWaitDequeue(t) \/ \E e \in Events : EnqueueMany(t, e)
               \/ WaitManyFired(t) \/ WaitManyDequeue(t))
       /\ SF_vars(SignalOne(t) \/ SignalAll(t))
  /\ \A x \in Watchers : WF_vars(RunCallbackTask(x))

LiveSpec == Spec /\ Fairness

(***************************************************************************)
(* Properties.                                                             *)
(***************************************************************************)
Waiter == Threads \cup Addrs

\* The places of a thread that is in a call on the events.
Waits(t, e) ==
  /\ Contains(thread[t].events, e)
  /\ thread[t].pc \in {"twCheck", "twCv", "twDequeue", "wmCheck", "wmCv", "wmDequeue"}

\* Type invariant.  A wait-list has a waiter at most once.
TypeOK ==
  /\ signaled \in [Events -> BOOLEAN]
  /\ waiters \in [Events -> Seq(Waiter)] /\ \A e \in Events : IsInjective(waiters[e])
  /\ klock \in [Events -> Threads \cup {Nobody}]
  /\ swlock \in [Threads -> Threads \cup {Nobody}]
  /\ fired \in [Threads -> BOOLEAN] /\ woken \in [Threads -> BOOLEAN]
  /\ from \in [Threads -> Events \cup {NoEvent}]
  /\ thread \in [Threads -> Thread]
  /\ owner \in [Addrs -> Watchers \cup {Nobody}]
  /\ watcher \in [Watchers -> Watcher]

\* A signal that a waiter has accepted is reported by its wait: TimedWait returns true
\* and WaitMany that event, also when the time runs out at the same moment (the comment
\* on Disable()).
AcceptedSignalIsReported ==
  \A t \in Threads :
    /\ thread[t].pc = "twDequeue" => thread[t].ret = from[t]
    /\ thread[t].pc = "wmDequeue" => thread[t].ret = from[t] /\ from[t] # NoEvent

\* Nobody waits for an event that is signaled: what is left in its list has been fired
\* by another event or has timed out.  No wake-up is lost between waiters that reject it.
NoWaiterLeftBehind ==
  \A e \in Events : signaled[e] /\ klock[e] = Nobody =>
    \A w \in ToSet(waiters[e]) : w \in Threads /\ fired[w]

\* A Signal of an automatic event is not lost on waiters that reject it: when it is done
\* it has been accepted by one waiter, or the event is signaled (the comment on Fire in
\* waitable_event.h).
SignalReachesSomeone ==
  [][\A t \in Threads, e \in Events \ Manual :
       klock[e] = t /\ thread[t].pc = "fire" /\ thread'[t].pc = "idle" =>
         \/ signaled'[e]
         \/ \E w \in Threads : ~fired[w] /\ from'[w] = e
         \/ \E x \in Watchers : watcher[x].state = "listed" /\ watcher'[x].state = "posted"]_vars

\* A wait-list points to waiters that exist: a SyncWaiter to the stack of a thread that
\* is still in its call, an AsyncWaiter to the heap.  While SignalAll runs, those it has
\* fired may be gone, and it does not touch them again.
NoDanglingWaiter ==
  \A e \in Events : \A k \in 1..Len(waiters[e]) :
    LET w == waiters[e][k]
    IN  \/ IF w \in Addrs THEN owner[w] # Nobody ELSE Waits(w, e)
        \/ \E t \in Threads : klock[e] = t /\ thread[t].pc = "fire" /\ k < thread[t].i

\* The lock that a thread cannot get.
BlockedBy(t, u) ==
  \/ /\ thread[t].pc = "wmLock"
     /\ \E e \in ToLock(t) : klock[e] = u /\ \A f \in ToLock(t) : e <= f
  \/ thread[t].pc = "twDequeue" /\ klock[thread[t].events[1]] = u
  \/ thread[t].pc = "wmDequeue" /\ thread[t].events # <<>> /\ klock[Head(thread[t].events)] = u
  \/ thread[t].pc \in {"twCv", "wmCv"} /\ swlock[t] = u
  \/ /\ thread[t].pc = "fire" /\ thread[t].i <= Len(waiters[thread[t].events[1]])
     /\ LET w == waiters[thread[t].events[1]][thread[t].i]
        IN  w \in Threads /\ swlock[w] = u

\* No set of threads waits for each other's locks, although the lock of a waiter and
\* those of the events are taken in both orders (the comments on locking order in
\* TimedWait and WaitMany).
NoLockCycle ==
  \A S \in (SUBSET Threads) \ {{}} : ~\A t \in S : \E u \in S : BlockedBy(t, u)

\* A watcher that has been neither fired nor stopped is in the list of its event, with
\* an AsyncWaiter of its own (the comment on the ABA issue in StopWatching).
WatcherIsListed ==
  \A x \in Watchers :
    LET mine == {a \in Addrs : owner[a] = x}
    IN  IF watcher[x].state = "listed"
        THEN mine = {watcher[x].addr} /\ Contains(waiters[watcher[x].event], watcher[x].addr)
        ELSE mine = {}

\* The locks of a thread: its waiter's while it is in its loop, that of the event that it
\* signals, and those that WaitMany takes, in the order of the addresses.
Firing(t, e) == thread[t].pc = "fire" /\ thread[t].events = <<e>>

LockOK(t) ==
  /\ swlock[t] = IF thread[t].pc \in {"twCheck", "wmCheck"} THEN t ELSE Nobody
  /\ \A e \in Events : Firing(t, e) => klock[e] = t
  /\ \A e \in Events : klock[e] = t =>
       \/ Firing(t, e)
       \/ thread[t].pc = "wmLock" /\ Contains(thread[t].events, e) /\ \A f \in ToLock(t) : e < f
  /\ thread[t].pc = "wmLock" => ToLock(t) # {}

LocksAgree ==
  /\ \A t \in Threads : LockOK(t)
  /\ \A e \in Events : klock[e] # Nobody => ~signaled[e]

\* A call has the events it was made for, and it knows the event that has fired its waiter.
CallOK(t) ==
  LET pc == thread[t].pc
      s  == thread[t].events
  IN  /\ IsInjective(s)
      /\ pc \in {"twCheck", "twCv", "twDequeue", "fire"} => \E e \in Events : s = <<e>>
      /\ pc \in {"twCheck", "twCv"} => from[t] = IF fired[t] THEN s[1] ELSE NoEvent
      /\ pc \in {"wmCheck", "wmCv"} => IF fired[t] THEN Contains(s, from[t]) ELSE from[t] = NoEvent
      /\ pc = "twDequeue" => fired[t] /\ thread[t].ret = from[t]
      /\ pc = "wmDequeue" => fired[t] /\ thread[t].ret = from[t] /\ from[t] # NoEvent
      /\ pc = "fire" => /\ thread[t].i \in 1..(Len(waiters[s[1]]) + 1)
                        /\ s[1] \notin Manual => thread[t].i = 1

CallsAgree == \A t \in Threads : CallOK(t)

\* Waiter w waits for event e and has not been fired by it.
Live(w, e) ==
  IF w \in Addrs
  THEN owner[w] # Nobody /\ watcher[owner[w]].state = "listed" /\ watcher[owner[w]].event = e
  ELSE Waits(w, e) /\ ~(fired[w] /\ from[w] = e)

\* SignalAll has fired the waiter at position k of the list of e, which it will clear.
Passed(e, k) == \E t \in Threads : Firing(t, e) /\ k < thread[t].i

\* Who is in a list waits there, unless SignalAll has just fired it.
ListOK(e) == \A k \in 1..Len(waiters[e]) : Live(waiters[e][k], e) \/ Passed(e, k)

ListsAgree == \A e \in Events : ListOK(e)

\* A watcher that waits has an AsyncWaiter in the list, which SignalAll has not passed.
WatcherOK(x) ==
  LET e == watcher[x].event
      a == watcher[x].addr
  IN  watcher[x].state = "listed" =>
        /\ e \in Events /\ watcher[x].kernel = e /\ a \in Addrs /\ owner[a] = x
        /\ \E k \in 1..Len(waiters[e]) : waiters[e][k] = a /\ ~Passed(e, k)

WatchersAgree ==
  /\ \A x \in Watchers : WatcherOK(x)
  /\ \A a \in Addrs : owner[a] # Nobody =>
       watcher[owner[a]].state = "listed" /\ watcher[owner[a]].addr = a

\* The wait-lists, the locks and the watchers agree with what the threads do.
EventInv ==
  /\ TypeOK /\ LocksAgree /\ CallsAgree /\ ListsAgree /\ WatchersAgree
  /\ NoWaiterLeftBehind /\ NoDanglingWaiter /\ NoLockCycle /\ WatcherIsListed

\* A wait that was fired returns, and so does every Signal; WaitMany gets its locks.
SignalledWaitReturns ==
  /\ \A t \in Threads : (thread[t].pc = "wmLock") ~> (thread[t].pc # "wmLock")
  /\ \A t \in Threads : (thread[t].pc \in {"twCv", "wmCv"} /\ fired[t]) ~> (thread[t].pc = "idle")
  /\ \A t \in Threads : (thread[t].pc = "fire") ~> (thread[t].pc = "idle")
=============================================================================
