---------------------------- MODULE MessageLoop -----------------------------
(***************************************************************************)
(* A thread's message loop (base/message_loop.cc) over one of two pumps:   *)
(* MessagePumpDefault (base/message_pump_default.cc) and the Qt pump of    *)
(* the user interface (base/message_pump_qt.cc).                           *)
(*                                                                         *)
(* The call stack of the thread alternates between runs of the loop and    *)
(* the tasks that they run, the innermost last; a task may also be in an   *)
(* event loop of Qt itself (a menu or a dialog).  Other threads post       *)
(* tasks.  Tasks are numbered in the order in which they are posted.       *)
(***************************************************************************)
EXTENDS Integers, FiniteSets, SequencesExt

CONSTANTS
  Loops,     \* the loops to consider: what pump they have and what their tasks do
  Delays,    \* of the tasks posted, 0 for PostTask
  MaxPosts,  \* how many tasks are posted
  MaxTime,   \* when the clock stops
  MaxDepth   \* how deep runs of the loop nest

ASSUME LoopAssumption ==
  /\ \A l \in Loops :
       /\ l.pump \in {"default", "qt"}
       /\ l.features \subseteq {"run", "runAllPending", "native", "quit", "quitNow", "nonNestable"}
  /\ Delays \subseteq Nat /\ MaxPosts \in Nat /\ MaxTime \in Nat /\ MaxDepth \in Nat

VARIABLES
  incoming,  \* incoming_queue_
  work,      \* work_queue_
  delayed,   \* delayed_work_queue_, the next task first
  deferred,  \* deferred_non_nestable_work_queue_
  allowed,   \* nestable_tasks_allowed_
  recent,    \* recent_time_, 0 for null
  stack,
  keep,      \* MessagePumpDefault::keep_running_
  wakeAt,    \* delayed_work_time_ of the pump, 0 for null
  timer,     \* when the QTimer of the Qt pump fires, 0 if it is not active
  event,     \* the thread is woken: MessagePumpDefault::event_, QAbstractEventDispatcher::wakeUp
  toSignal,  \* how many threads have posted a task and not called ScheduleWork yet
  now,
  posted,    \* how many tasks were posted
  ran,       \* the tasks in the order in which they began to run, for the properties
  loop       \* does not change

queues == <<incoming, work, delayed, deferred>>
clocks == <<recent, wakeAt, timer>>
vars == <<queues, allowed, recent, stack, keep, wakeAt, timer, event, toSignal, now, posted, ran, loop>>

Pump == loop.pump          \* the default pump, or that of the Qt user interface
Features == loop.features  \* what tasks do

\* A PendingTask; |at| is 0 for a task without a delay.
Task == [id : 1..MaxPosts, nestable : BOOLEAN, at : Nat]

\* A run of the loop: where it is, whether it did work in this round, RunState::quit_received,
\* the should_quit of the Qt pump, whether it began with tasks allowed, and for the
\* properties the tasks that were pending at Quit and whether it ends because it is idle.
Run(quit, ok) == [k |-> "run", pc |-> IF Pump = "qt" THEN "sleep" ELSE "work", did |-> TRUE,
                  quit |-> quit, stop |-> FALSE, ok |-> ok, owes |-> {}, idle |-> FALSE]
RunningTask(t, from) == [k |-> "task", t |-> t, from |-> from]
Native == [k |-> "native"]

Top == Last(stack)
TopIs(k) == stack # <<>> /\ Top.k = k
With(f) == Append(Front(stack), f)
Depth(s) == Cardinality({i \in DOMAIN s : s[i].k = "run"})
Innermost(s) == CHOOSE i \in DOMAIN s : s[i].k = "run" /\ \A j \in DOMAIN s : s[j].k = "run" => j <= i

\* The pump has been told to quit the run.
Stopping(f) == IF Pump = "qt" THEN f.stop ELSE ~keep

Init ==
  /\ loop \in Loops
  /\ incoming = <<>> /\ work = <<>> /\ delayed = <<>> /\ deferred = <<>>
  /\ allowed = TRUE /\ recent = 0
  /\ stack = <<Run(FALSE, TRUE)>>
  /\ keep = TRUE /\ wakeAt = 0 /\ timer = 0 /\ event = FALSE
  /\ toSignal = 0 /\ now = 1 /\ posted = 0 /\ ran = <<>>

(***************************************************************************)
(* PostTask_Helper, from any thread: ScheduleWork follows outside the      *)
(* lock, if the queue was empty.                                           *)
(***************************************************************************)
Pends(delay, nestable) ==
  /\ posted < MaxPosts /\ now + delay <= MaxTime
  /\ posted' = posted + 1
  /\ incoming' = Append(incoming, [id |-> posted + 1, nestable |-> nestable,
                                   at |-> IF delay > 0 THEN now + delay ELSE 0])

\* Fault: it relies on the other tasks that the loop has already.
PostTaskTrusting(delay, nestable) ==
  /\ Pends(delay, nestable)
  /\ toSignal' = IF incoming = <<>> /\ work = <<>> /\ delayed = <<>> THEN toSignal + 1 ELSE toSignal
  /\ UNCHANGED <<work, delayed, deferred, allowed, clocks, stack, keep, event, now, ran>>

PostTask(delay, nestable) ==
  /\ Pends(delay, nestable)
  /\ toSignal' = IF incoming = <<>> THEN toSignal + 1 ELSE toSignal
  /\ UNCHANGED <<work, delayed, deferred, allowed, clocks, stack, keep, event, now, ran>>

ScheduleWork ==
  /\ toSignal > 0
  /\ toSignal' = toSignal - 1
  /\ event' = TRUE
  /\ UNCHANGED <<queues, allowed, clocks, stack, keep, now, posted, ran>>

\* The same from a task of this thread.
PostTaskHere(delay, nestable) ==
  /\ TopIs("task") /\ Pends(delay, nestable)
  /\ event' = (event \/ incoming = <<>>)
  /\ UNCHANGED <<work, delayed, deferred, allowed, clocks, stack, keep, toSignal, now, ran>>

Tick ==
  /\ now < MaxTime
  /\ now' = now + 1
  /\ UNCHANGED <<queues, allowed, clocks, stack, keep, event, toSignal, posted, ran>>

(***************************************************************************)
(* One round of a run.                                                     *)
(***************************************************************************)
\* The run goes on.  The Qt pump does not look at should_quit before DoWork.
At(pc) == TopIs("run") /\ Top.pc = pc /\ (Stopping(Top) => Pump = "qt" /\ pc = "work")

RunTask(t, from) ==
  /\ stack' = Append(stack, RunningTask(t, from))
  /\ ran' = Append(ran, t.id)
  /\ allowed' = FALSE

\* Fault: a task that may not nest is run.
DeferOrRunPendingTaskAnyway(t, from, s) == RunTask(t, from) /\ UNCHANGED deferred

\* |s| is the stack if the task is deferred.
DeferOrRunPendingTask(t, from, s) ==
  \/ /\ t.nestable \/ Depth(stack) = 1
     /\ RunTask(t, from)
     /\ UNCHANGED deferred
  \/ /\ ~t.nestable /\ Depth(stack) # 1
     /\ deferred' = Append(deferred, t)
     /\ stack' = s
     /\ UNCHANGED <<allowed, ran>>

\* Fault: what is there already waits behind the new tasks.
ReloadWorkQueueInFront ==
  /\ At("work") /\ allowed /\ incoming # <<>>
  /\ work' = incoming \o work
  /\ incoming' = <<>>
  /\ UNCHANGED <<delayed, deferred, allowed, clocks, stack, keep, event, toSignal, now, posted, ran>>

ReloadWorkQueue ==
  /\ At("work") /\ allowed /\ work = <<>> /\ incoming # <<>>
  /\ work' = incoming
  /\ incoming' = <<>>
  /\ UNCHANGED <<delayed, deferred, allowed, clocks, stack, keep, event, toSignal, now, posted, ran>>

\* By time, and behind its equals.
AddToDelayedWorkQueue(t) ==
  LET later == {i \in DOMAIN delayed : delayed[i].at > t.at}
  IN  InsertAt(delayed, IF later = {} THEN Len(delayed) + 1 ELSE Min(later), t)

\* The Qt pump starts its timer at once, the default pump only notes the time.
ScheduleDelayedWork(at) ==
  /\ wakeAt' = at
  /\ timer' = IF Pump = "qt" THEN Max({at, now}) ELSE timer

DoWorkDelayedTask ==
  /\ At("work") /\ allowed /\ work # <<>> /\ Head(work).at # 0
  /\ work' = Tail(work)
  /\ delayed' = AddToDelayedWorkQueue(Head(work))
  /\ IF Head(delayed') = Head(work) THEN ScheduleDelayedWork(Head(work).at) ELSE UNCHANGED <<wakeAt, timer>>
  /\ UNCHANGED <<incoming, deferred, allowed, recent, stack, keep, event, toSignal, now, posted, ran>>

DoWorkTask ==
  /\ At("work") /\ allowed /\ work # <<>> /\ Head(work).at = 0
  /\ work' = Tail(work)
  /\ DeferOrRunPendingTask(Head(work), "work", stack)
  /\ UNCHANGED <<incoming, delayed, clocks, keep, event, toSignal, now, posted>>

\* DoWork returns false.
DoWorkNothing ==
  /\ At("work") /\ (allowed => work = <<>> /\ incoming = <<>>)
  /\ stack' = With([Top EXCEPT !.pc = "delayed"])
  /\ UNCHANGED <<queues, allowed, clocks, keep, event, toSignal, now, posted, ran>>

\* Where the run goes after DoDelayedWork and after DoIdleWork.
AfterDelayed(f) ==
  [f EXCEPT !.pc = IF ~f.did THEN "idle" ELSE IF Pump = "qt" THEN "sleep" ELSE "work",
            !.did = f.did /\ Pump = "qt"]
AfterIdle(f, did) == [f EXCEPT !.pc = IF did /\ Pump = "default" THEN "work" ELSE "sleep", !.did = did]

\* DoDelayedWork; |s| is the stack if it returns false.
DoDelayedWork(s, from) ==
  \/ /\ ~allowed \/ delayed = <<>>
     /\ recent' = 0 /\ wakeAt' = 0
     /\ stack' = s
     /\ UNCHANGED <<delayed, deferred, allowed, ran>>
  \/ /\ allowed /\ delayed # <<>>
     /\ LET due == Head(delayed).at
        IN  /\ recent' = IF due > recent THEN now ELSE recent
            /\ \/ due > recent' /\ wakeAt' = due /\ stack' = s /\ UNCHANGED <<delayed, deferred, allowed, ran>>
               \/ /\ due <= recent'
                  /\ delayed' = Tail(delayed)
                  /\ wakeAt' = IF Tail(delayed) # <<>> THEN delayed[2].at ELSE wakeAt
                  /\ DeferOrRunPendingTask(Head(delayed), from, s)

DoDelayedWorkStep ==
  /\ At("delayed")
  /\ DoDelayedWork(With(AfterDelayed(Top)), "delayed")
  /\ UNCHANGED <<incoming, work, timer, keep, event, toSignal, now, posted>>

\* Tells the pump to quit the innermost run: MessagePump::Quit.
Quits(i, f) ==
  /\ stack' = [stack EXCEPT ![i] = [f EXCEPT !.stop = (Pump = "qt")]]
  /\ keep' = (Pump = "qt")

\* A deferred task in the outermost run, or else the end of a run that was told to quit.
DoIdleWork ==
  /\ At("idle")
  /\ \/ /\ Depth(stack) = 1 /\ deferred # <<>>
        /\ deferred' = Tail(deferred)
        /\ RunTask(Head(deferred), "idle")
        /\ UNCHANGED keep
     \/ /\ Depth(stack) # 1 \/ deferred = <<>>
        /\ IF Top.quit THEN Quits(Len(stack), [Top EXCEPT !.idle = TRUE])
                       ELSE stack' = With(AfterIdle(Top, FALSE)) /\ UNCHANGED keep
        /\ UNCHANGED <<deferred, allowed, ran>>
  /\ UNCHANGED <<incoming, work, delayed, clocks, event, toSignal, now, posted>>

(***************************************************************************)
(* The pumps: waiting for work.                                            *)
(***************************************************************************)
\* MessagePumpDefault waits for its event, at most until |wakeAt|; a time in the past
\* is forgotten if it is noticed before the wait.
WaitForWork ==
  /\ Pump = "default" /\ At("sleep")
  /\ \/ event /\ event' = FALSE /\ UNCHANGED wakeAt
     \/ wakeAt # 0 /\ wakeAt <= now /\ wakeAt' \in {0, wakeAt} /\ UNCHANGED event
  /\ stack' = With([Top EXCEPT !.pc = "work", !.did = FALSE])
  /\ UNCHANGED <<queues, allowed, recent, timer, keep, toSignal, now, posted, ran>>

\* The Qt pump processes what events there are, and waits for one if it did no work.
ProcessEvents ==
  /\ Pump = "qt" /\ At("sleep") /\ (Top.did \/ event)
  /\ event' = FALSE
  /\ \E more \in {FALSE, event} : stack' = With([Top EXCEPT !.pc = "work", !.did = more])
  /\ UNCHANGED <<queues, allowed, clocks, keep, toSignal, now, posted, ran>>

Restart(at) == IF at # 0 THEN Max({at, now}) ELSE 0

\* The timer of the Qt pump fires in its own loop or in one of Qt.
HandleTimeout ==
  /\ timer # 0 /\ timer <= now
  /\ At("sleep") \/ TopIs("native")
  /\ DoDelayedWork(IF TopIs("native") THEN stack ELSE With([Top EXCEPT !.pc = "work", !.did = TRUE]), "timeout")
  /\ timer' = IF Len(stack') > Len(stack) THEN 0 ELSE Restart(wakeAt')
  /\ UNCHANGED <<incoming, work, keep, event, toSignal, now, posted>>

\* The event loop of a menu takes a wake-up that was meant for the pump.
NativeWakesUp ==
  /\ TopIs("native") /\ event /\ event' = FALSE
  /\ UNCHANGED <<queues, allowed, clocks, stack, keep, toSignal, now, posted, ran>>

(***************************************************************************)
(* What a task does.                                                       *)
(***************************************************************************)
\* Tasks do not run the loop after they have quit it.
MayNest == TopIs("task") /\ Depth(stack) < MaxDepth /\ ~Stopping(stack[Innermost(stack)])

\* Run or RunAllPending within a task, with SetNestableTasksAllowed(true) or without it.
RunNested(quit, ok) ==
  /\ MayNest
  /\ stack' = Append(stack, Run(quit, ok))
  /\ allowed' = (allowed \/ ok)
  /\ event' = (event \/ (ok /\ ~allowed))
  /\ UNCHANGED <<queues, clocks, keep, toSignal, now, posted, ran>>

EnterNative ==
  /\ MayNest /\ stack' = Append(stack, Native)
  /\ UNCHANGED <<queues, allowed, clocks, keep, event, toSignal, now, posted, ran>>

LeaveNative ==
  /\ TopIs("native") /\ stack' = Front(stack)
  /\ UNCHANGED <<queues, allowed, clocks, keep, event, toSignal, now, posted, ran>>

Ids(q) == {q[i].id : i \in DOMAIN q}
\* The tasks that the innermost run could run now.
Runnable ==
  LET q == incoming \o work \o (IF Depth(stack) = 1 THEN deferred ELSE <<>>)
  IN  {q[i].id : i \in {j \in DOMAIN q : q[j].at = 0 /\ (q[j].nestable \/ Depth(stack) = 1)}}

Quit ==
  /\ TopIs("task") /\ ~stack[Innermost(stack)].quit
  /\ stack' = [stack EXCEPT ![Innermost(stack)] = [@ EXCEPT !.quit = TRUE, !.owes = Runnable]]
  /\ UNCHANGED <<queues, allowed, clocks, keep, event, toSignal, now, posted, ran>>

QuitNow ==
  /\ TopIs("task") /\ ~Stopping(stack[Innermost(stack)])
  /\ Quits(Innermost(stack), stack[Innermost(stack)])
  /\ UNCHANGED <<queues, allowed, clocks, event, toSignal, now, posted, ran>>

\* The task returns to the run that called it.
FinishTask ==
  LET s == Front(stack)
      f == Last(s)
      from == Top.from
      g == CASE from = "work" -> [f EXCEPT !.pc = "delayed", !.did = TRUE]
             [] from = "delayed" -> AfterDelayed([f EXCEPT !.did = TRUE])
             [] from = "idle" -> AfterIdle(f, TRUE)
             [] from = "timeout" -> [f EXCEPT !.pc = "work", !.did = TRUE]
  IN  /\ TopIs("task")
      /\ allowed' = TRUE
      /\ stack' = Append(Front(s), g)
      /\ timer' = IF from = "timeout" THEN Restart(wakeAt) ELSE timer
      /\ UNCHANGED <<queues, recent, wakeAt, keep, event, toSignal, now, posted, ran>>

\* Run returns; the task that called it gets its own flag back.
LeaveRun ==
  /\ TopIs("run") /\ Stopping(Top) /\ ~(Pump = "qt" /\ Top.pc = "work")
  /\ stack' = Front(stack)
  /\ keep' = TRUE
  /\ allowed' = (allowed /\ Depth(stack) = 1)
  /\ UNCHANGED <<queues, clocks, event, toSignal, now, posted, ran>>

Nestables == {TRUE, ("nonNestable" \notin Features)}

LoopGoesOn ==
  \/ ReloadWorkQueue \/ DoWorkDelayedTask \/ DoWorkTask \/ DoWorkNothing
  \/ DoDelayedWorkStep \/ DoIdleWork \/ WaitForWork \/ ProcessEvents \/ HandleTimeout \/ LeaveRun

Step ==
  \/ \E delay \in Delays, nestable \in Nestables : PostTask(delay, nestable) \/ PostTaskHere(delay, nestable)
  \/ ScheduleWork
  \/ Tick
  \/ LoopGoesOn
  \/ FinishTask
  \/ "run" \in Features /\ RunNested(FALSE, TRUE)
  \/ "runAllPending" \in Features /\ \E ok \in BOOLEAN : RunNested(TRUE, ok)
  \/ "native" \in Features /\ (EnterNative \/ LeaveNative \/ NativeWakesUp)
  \/ "quit" \in Features /\ Quit
  \/ "quitNow" \in Features /\ QuitNow

Next == Step /\ UNCHANGED loop

Spec == Init /\ [][Next]_vars

(***************************************************************************)
(* Properties.                                                             *)
(***************************************************************************)
InQueues == incoming \o work \o delayed \o deferred

\* The types of the variables.
RunFrame == [k : {"run"}, pc : {"sleep", "work", "delayed", "idle"}, did : BOOLEAN, quit : BOOLEAN,
             stop : BOOLEAN, ok : BOOLEAN, owes : SUBSET (1..MaxPosts), idle : BOOLEAN]
TaskFrame == [k : {"task"}, t : Task, from : {"work", "delayed", "idle", "timeout"}]
Frame == RunFrame \cup TaskFrame \cup {Native}

TypeOK ==
  /\ loop \in Loops /\ stack \in Seq(Frame) /\ ran \in Seq(1..MaxPosts) /\ posted \in 0..MaxPosts
  /\ \A q \in {incoming, work, delayed, deferred} : q \in Seq(Task)
  /\ allowed \in BOOLEAN /\ keep \in BOOLEAN /\ event \in BOOLEAN /\ toSignal \in Nat
  /\ now \in Nat /\ recent \in 0..now /\ wakeAt \in Nat /\ timer \in Nat

\* Every task that was posted is in one queue, or was run, and only once.
TasksConserved ==
  /\ Len(InQueues) + Len(ran) = posted
  /\ Ids(InQueues) \cup ToSet(ran) = 1..posted

Increasing(q) == \A i, j \in DOMAIN q : i < j => q[i].id < q[j].id
Earlier(p, q) == \A x \in Ids(p), y \in Ids(q) : x < y
SortedByTime(q) ==
  \A i \in DOMAIN q :
    /\ q[i].at # 0
    /\ \A j \in DOMAIN q : i < j => q[i].at < q[j].at \/ (q[i].at = q[j].at /\ q[i].id < q[j].id)

\* Tasks go from queue to queue in the order in which they were posted; those with a
\* delay are sorted by their time.
QueuesInOrder ==
  /\ Increasing(incoming) /\ Increasing(work)
  /\ Earlier(work, incoming) /\ Earlier(delayed, incoming) /\ Earlier(delayed, work)
  /\ SortedByTime(delayed)

Asleep == At("sleep") /\ (Pump = "qt" => ~Top.did)

\* The thread does not sleep over a task: while it sleeps and may run tasks, whatever was
\* posted has set the event or is about to ("Someone else should have started the sub-pump"),
\* and the outermost run has come to the tasks that were deferred.
NoMissedWakeup ==
  Asleep /\ allowed =>
    /\ work = <<>>
    /\ incoming # <<>> => event \/ toSignal > 0
    /\ Depth(stack) = 1 /\ ~event => deferred = <<>>

\* A sleeping thread wakes up when the next delayed task is due ("Upon return
\* |next_delayed_work_time| indicates the time when DoDelayedWork should be called again").
WakesForDelayedWork ==
  Asleep /\ allowed /\ delayed # <<>> /\ ~event =>
    LET alarm == IF Pump = "qt" THEN timer ELSE wakeAt
    IN  alarm # 0 /\ alarm <= Max({Head(delayed).at, now})

\* The default pump does so; that of Qt forgets its timer.
DelayedWorkIsScheduled == Pump = "default" => WakesForDelayedWork

\* Nothing overtakes: a task begins to run only when no task is left that was posted
\* earlier, is due no later and may run as well.  Deferred tasks are the exception, they
\* wait until the loop is idle.
InOrder ==
  Len(ran') > Len(ran) /\ Last(stack').from # "idle" =>
    LET t == Last(stack').t
    IN  \A q \in {incoming, work, delayed} : \A i \in DOMAIN q :
          q[i].id < t.id /\ (q[i].at = 0 <=> t.at = 0) /\ q[i].at <= t.at
            => ~q[i].nestable /\ Depth(stack) > 1

\* No task starts while another is running, unless that one runs the loop and has
\* allowed it ("a second task cannot start until the first task is finished").
TasksDoNotOverlap ==
  \A i \in 2..Len(stack) : stack[i].k = "task" => stack[i - 1].k = "run" /\ stack[i - 1].ok

\* A task that may not nest is under one run of the loop only, whichever way it came:
\* from the queue, after its delay, or after it was deferred.
NonNestableOutermost ==
  \A i \in DOMAIN stack :
    stack[i].k = "task" /\ ~stack[i].t.nestable => Depth(SubSeq(stack, 1, i)) = 1

\* The outermost run may run tasks; below every other one, and below a loop of Qt, there is
\* the task that started it.
RunsAreCalled ==
  /\ stack # <<>> => stack[1].k = "run" /\ stack[1].ok
  /\ \A i \in 2..Len(stack) : stack[i].k # "task" => stack[i - 1].k = "task"

\* Tasks may start exactly while a run is innermost that was started with tasks allowed.
AllowedByTop ==
  /\ TopIs("run") => allowed = Top.ok
  /\ TopIs("task") \/ TopIs("native") => ~allowed

\* What a run knows of itself: only the innermost one ends, and one without tasks was
\* not quit by a task.
RunOK(i) ==
  LET f == stack[i]
  IN  /\ f.owes \subseteq 1..posted
      /\ ~f.ok => f.owes = {}
      /\ f.idle => i = Len(stack) /\ Stopping(f) /\ f.pc = "idle"
      /\ f.pc = "idle" \/ (f.pc = "sleep" /\ Pump = "default") => ~f.did

RunsAgree == \A i \in DOMAIN stack : stack[i].k = "run" => RunOK(i)

\* The innermost run has looked for work in this round and found none.
FoundNothing == TopIs("run") /\ allowed /\ ~Top.did /\ Top.pc # "work"

\* What such a run has not seen was posted since, by a thread that wakes it.
NothingWasLeft ==
  FoundNothing =>
    /\ work = <<>>
    /\ incoming # <<>> => event \/ toSignal > 0
    /\ Top.owes \cap Ids(incoming) = {}
    /\ (Top.pc = "sleep" \/ Top.idle) /\ Depth(stack) = 1 => deferred = <<>>
    /\ Pump = "default" /\ Top.pc # "delayed" /\ delayed # <<>> => wakeAt = Head(delayed).at

\* A run that ends because it is idle has run everything it could run when Quit was
\* called ("return after it is done processing all pending messages").
QuitRunsPending ==
  TopIs("run") /\ Top.idle => Top.owes \cap Runnable = {}

\* A run that its pump was told to quit calls another task.
WorksAfterQuit ==
  \E i \in DOMAIN stack :
    i = Len(stack) /\ stack[i].k = "run" /\ Stopping(stack[i]) /\ Len(stack') > i

\* Once the pump was told to quit a run, the run calls no other task ("No further work
\* is done once the quit flag is set").
NoWorkAfterQuit == [][~WorksAfterQuit]_vars

\* Tasks are neither lost nor run twice, nest only where they may, and a run that was
\* told to quit when idle has done its work.
LoopInv ==
  /\ TypeOK /\ TasksConserved /\ QueuesInOrder
  /\ RunsAreCalled /\ TasksDoNotOverlap /\ NonNestableOutermost
  /\ AllowedByTop /\ RunsAgree /\ QuitRunsPending

\* The loop does not sleep past what it has to do: a thread that posts a task wakes it,
\* and the default pump sleeps no longer than until the next delayed task.
WakesForWork == NothingWasLeft /\ NoMissedWakeup /\ DelayedWorkIsScheduled

\* Tasks run in their order, over both pumps, until the loop is quit: the default pump
\* then calls no other task, while that of Qt goes on with what it has begun.
RunsInTurn == [][InOrder /\ (Pump = "default" => ~WorksAfterQuit)]_vars
=============================================================================
