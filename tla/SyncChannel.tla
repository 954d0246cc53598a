---------------------------- MODULE SyncChannel -----------------------------
(***************************************************************************)
(* Synchronous IPC (ipc/ipc_sync_channel.cc over ipc/ipc_channel_proxy.cc).*)
(*                                                                         *)
(* Each process has a listener thread, which sends and handles messages,   *)
(* and an IPC thread, which reads and writes the pipes.  A context is one  *)
(* end of a channel, <<p, q>> for the end that process p has of its        *)
(* channel with q.  All the contexts of a process share one                *)
(* ReceivedSyncMsgQueue.                                                   *)
(*                                                                         *)
(* The call stack of a listener thread is a sequence of frames, the        *)
(* innermost last: a Send that waits, a DispatchMessages loop, a message   *)
(* handler, a nested message loop.  With an empty stack the thread is in   *)
(* its outermost message loop.                                             *)
(***************************************************************************)
EXTENDS Integers, FiniteSets, SequencesExt

CONSTANT
  Scenarios    \* the systems of processes to consider, one of which a behaviour is about

ASSUME ChannelAssumption ==
  \A s \in Scenarios :
    /\ IsFiniteSet(s.contexts)
    /\ s.contexts \subseteq {<<p, q>> : p, q \in s.procs} /\ s.restricted \subseteq s.contexts
    /\ \A c \in s.contexts : c[1] # c[2] /\ <<c[2], c[1]>> \in s.contexts
    /\ s.maxSends \in [s.procs -> Nat]
    /\ s.features \subseteq {"pump", "timeout", "defer", "error", "close", "die", "shutdown"}

VARIABLES
  stack,       \* the listener thread's call stack
  tasks,       \* the tasks of the listener thread's message loop
  queue,       \* ReceivedSyncMsgQueue::message_queue_
  taskPending, \* ReceivedSyncMsgQueue::task_pending_
  event,       \* ReceivedSyncMsgQueue::dispatch_event_
  armed,       \* the contexts whose dispatch_watcher_ waits for the event, in order
  doneWatch,   \* what ReceivedSyncMsgQueue::top_send_done_watcher_ watches
  pend,        \* SyncContext::deserializers_
  replies,     \* ReceivedSyncMsgQueue::received_replies_
  ipc,         \* the tasks of the IPC thread's message loop
  signalling,  \* the IPC thread is in QueueMessage, after the lock
  timers,      \* the delayed tasks OnSendTimeout
  wire,        \* what was written to the pipe by the context and not read yet
  conn,        \* Context::channel_: "open", after an error "error", "closed"
  cleared,     \* the contexts of SyncChannels that were deleted
  owed,        \* requests whose handlers returned without an answer
  sent,        \* how many synchronous messages the process has sent
  shut,        \* the shutdown event is set
  dead,        \* the processes that have died
  answered,    \* the requests that were answered with success, for the properties
  scenario     \* does not change

vars == <<stack, tasks, queue, taskPending, event, armed, doneWatch, pend, replies, ipc, signalling,
          timers, wire, conn, cleared, owed, sent, shut, dead, answered, scenario>>

Procs == scenario.procs
Contexts == scenario.contexts      \* a symmetric relation on Procs
Restricted == scenario.restricted  \* the contexts with SetRestrictDispatchToSameChannel(true)
MaxSends == scenario.maxSends      \* how many synchronous messages each process sends
Features == scenario.features      \* what may happen

Peer(c) == <<c[2], c[1]>>
ContextsOf(p) == {c \in Contexts : c[1] = p}
None == [on |-> FALSE]

\* The elements of |s| at the positions |is|, in their order.
Only(s, is) ==
  [k \in 1..Cardinality(is) |-> s[CHOOSE i \in is : Cardinality({j \in is : j <= i}) = k]]

Request == [ctx : Contexts, n : Nat \ {0}]
\* The context at which a request arrives.
At(r) == Peer(r.ctx)

Frame ==
  [k : {"send"}, ctx : Contexts, n : Nat, pump : BOOLEAN]
    \cup [k : {"dispatch"}, ctx : Contexts, delayed : Seq(Request)]
    \cup [k : {"handler"}, req : Request]
    \cup [k : {"loop"}, ctx : Contexts, n : Nat, quit : BOOLEAN]

Init ==
  /\ scenario \in Scenarios
  /\ stack = [p \in Procs |-> <<>>]
  /\ tasks = [p \in Procs |-> <<>>]
  /\ queue = [p \in Procs |-> <<>>]
  /\ taskPending = [p \in Procs |-> FALSE]
  /\ event = [p \in Procs |-> FALSE]
  /\ armed = [p \in Procs |-> SetToSeq(ContextsOf(p))]
  /\ doneWatch = [p \in Procs |-> None]
  /\ pend = [c \in Contexts |-> <<>>]
  /\ replies = [p \in Procs |-> <<>>]
  /\ ipc = [p \in Procs |-> <<>>]
  /\ signalling = [p \in Procs |-> None]
  /\ timers = {}
  /\ wire = [c \in Contexts |-> <<>>]
  /\ conn = [c \in Contexts |-> "open"]
  /\ cleared = {}
  /\ owed = {}
  /\ sent = [p \in Procs |-> 0]
  /\ shut = [p \in Procs |-> FALSE]
  /\ dead = {}
  /\ answered = {}

Top(p) == Last(stack[p])
TopIs(p, k) == p \notin dead /\ stack[p] # <<>> /\ Top(p).k = k
Below(p) == Front(stack[p])
Calls(p, f) == stack' = [stack EXCEPT ![p] = Append(@, f)]
Replaces(p, f) == stack' = [stack EXCEPT ![p] = Append(Front(@), f)]

\* The listener thread's code runs: in a handler, or in a task of a message loop.
InLoop(p) == p \notin dead /\ (stack[p] # <<>> => Top(p).k = "loop" /\ ~Top(p).quit)
Running(p) == InLoop(p) \/ TopIs(p, "handler")

Posts(p, t) == tasks' = [tasks EXCEPT ![p] = Append(@, t)]
IpcPosts(p, t) == ipc' = [ipc EXCEPT ![p] = Append(@, t)]

May(feature) == {FALSE, (feature \in Features)}

listenerVars == <<stack, owed, sent, cleared>>
queueVars == <<queue, taskPending, event, armed>>
ipcVars == <<ipc, signalling, timers, wire, conn>>
faultVars == <<shut, dead>>

(***************************************************************************)
(* The send-done events.  The innermost nested message loop watches the    *)
(* event of its own send; signalling it posts the watcher's callback.      *)
(***************************************************************************)
Undone(c, n) == \E i \in DOMAIN pend[c] : pend[c][i].n = n /\ ~pend[c][i].done

\* Sets the events of the sends |ns|; |ts| are the listener's tasks otherwise.
SignalDone(c, ns, ok, ts) ==
  LET p == c[1]
      w == doneWatch[p]
      fires == w.on /\ w.ctx = c /\ ~w.posted /\ w.n \in ns /\ Undone(c, w.n)
  IN  /\ pend' = [pend EXCEPT ![c] = [i \in DOMAIN pend[c] |->
                    IF pend[c][i].n \in ns
                      THEN [pend[c][i] EXCEPT !.done = TRUE, !.result = @ \/ ok] ELSE pend[c][i]]]
      /\ doneWatch' = IF fires THEN [doneWatch EXCEPT ![p].posted = TRUE] ELSE doneWatch
      /\ tasks' = [tasks EXCEPT ![p] =
                     IF fires THEN Append(ts, [k |-> "done", ctx |-> c, n |-> w.n]) ELSE ts]

Pending(c) == {pend[c][i].n : i \in DOMAIN pend[c]}
CancelPendingSends(c) == SignalDone(c, Pending(c), FALSE, tasks[c[1]])

\* The watcher of the innermost nested loop watches send |n|.
StartWatchingDone(p, c, n, ts) ==
  LET set == ~Undone(c, n)
  IN  /\ doneWatch' = [doneWatch EXCEPT ![p] = [on |-> TRUE, ctx |-> c, n |-> n, posted |-> set]]
      /\ tasks' = [tasks EXCEPT ![p] =
                     IF set THEN Append(ts, [k |-> "done", ctx |-> c, n |-> n]) ELSE ts]

(***************************************************************************)
(* The listener thread.                                                    *)
(***************************************************************************)
\* SendWithTimeout up to WaitMany: the reply is awaited, the request is posted to
\* the IPC thread, and what was received already is dispatched first.
Send(c, pump, timed) ==
  LET p == c[1]
      n == sent[p] + 1
  IN  /\ Running(p) /\ c \notin cleared /\ ~shut[p] /\ n <= MaxSends[p]
      /\ sent' = [sent EXCEPT ![p] = n]
      /\ pend' = [pend EXCEPT ![c] = Append(@, [n |-> n, done |-> FALSE, result |-> FALSE])]
      /\ IpcPosts(p, [k |-> "send", ctx |-> c, m |-> [reply |-> FALSE, req |-> [ctx |-> c, n |-> n], ok |-> TRUE]])
      /\ timers' = IF timed THEN timers \cup {[ctx |-> c, n |-> n]} ELSE timers
      /\ stack' = [stack EXCEPT ![p] = @ \o <<[k |-> "send", ctx |-> c, n |-> n, pump |-> pump],
                                              [k |-> "dispatch", ctx |-> c, delayed |-> <<>>]>>]
      /\ UNCHANGED <<tasks, queueVars, doneWatch, replies, signalling, wire, conn, cleared, owed, faultVars, answered>>

\* One turn of the loop in ReceivedSyncMsgQueue::DispatchMessages.  A context whose
\* channel was deleted has no listener: the message is dropped.
DispatchMessages(p) ==
  /\ TopIs(p, "dispatch")
  /\ \/ /\ queue[p] = <<>>
        /\ queue' = [queue EXCEPT ![p] = Top(p).delayed]
        /\ stack' = [stack EXCEPT ![p] = Front(@)]
     \/ /\ queue[p] # <<>>
        /\ queue' = [queue EXCEPT ![p] = Tail(@)]
        /\ LET r == Head(queue[p])
           IN  IF At(r) \in Restricted /\ At(r) # Top(p).ctx
                 THEN Replaces(p, [Top(p) EXCEPT !.delayed = Append(@, r)])
                 ELSE IF At(r) \in cleared THEN UNCHANGED stack ELSE Calls(p, [k |-> "handler", req |-> r])
  /\ UNCHANGED <<tasks, taskPending, event, armed, doneWatch, pend, replies, ipcVars, cleared, owed, sent, faultVars, answered>>

\* Sends the answer to a request, if there is still a channel to send it on.
Reply(r, ok) ==
  IF At(r) \in cleared
    THEN UNCHANGED <<ipc, answered>>
    ELSE /\ IpcPosts(At(r)[1], [k |-> "send", ctx |-> At(r), m |-> [reply |-> TRUE, req |-> r, ok |-> ok]])
         /\ answered' = IF ok THEN answered \cup {r} ELSE answered

HandlerReturns(p, defer, error) ==
  /\ TopIs(p, "handler")
  /\ stack' = [stack EXCEPT ![p] = Front(@)]
  /\ \/ defer /\ owed' = owed \cup {Top(p).req} /\ UNCHANGED <<ipc, answered>>
     \/ ~defer /\ Reply(Top(p).req, ~error) /\ UNCHANGED owed
  /\ UNCHANGED <<tasks, queueVars, doneWatch, pend, replies, signalling, timers, wire, conn, cleared, sent, faultVars>>

\* The answer to a request whose handler has returned, from any later code.
ReplyLater(r) ==
  /\ r \in owed /\ Running(At(r)[1])
  /\ owed' = owed \ {r}
  /\ Reply(r, TRUE)
  /\ UNCHANGED <<stack, tasks, queueVars, doneWatch, pend, replies, signalling, timers, wire, conn, cleared, sent, faultVars>>

(***************************************************************************)
(* WaitForReply: WaitMany returns one of the events that are set.          *)
(***************************************************************************)
\* Fault: the event is reset after the messages were looked at.
WaitDispatchEventLate(p) ==
  /\ TopIs(p, "send") /\ event[p]
  /\ event' = [event EXCEPT ![p] = FALSE]
  /\ UNCHANGED <<stack, tasks, queue, taskPending, armed, doneWatch, pend, replies, ipcVars, cleared, owed, sent, faultVars, answered>>

WaitDispatchEvent(p) ==
  /\ TopIs(p, "send") /\ event[p]
  /\ event' = [event EXCEPT ![p] = FALSE]
  /\ Calls(p, [k |-> "dispatch", ctx |-> Top(p).ctx, delayed |-> <<>>])
  /\ UNCHANGED <<tasks, queue, taskPending, armed, doneWatch, pend, replies, ipcVars, cleared, owed, sent, faultVars, answered>>

\* Fault: the oldest send is forgotten.
PopOldest(c) == pend' = [pend EXCEPT ![c] = Tail(@)] /\ IpcPosts(c[1], [k |-> "replies"])

\* Fault: the queued replies are not looked at again.
PopOnly(c) == pend' = [pend EXCEPT ![c] = Front(@)] /\ UNCHANGED ipc

\* Forgets the innermost send of the context; a queued reply may now be wanted.
Pop(c) == pend' = [pend EXCEPT ![c] = Front(@)] /\ IpcPosts(c[1], [k |-> "replies"])

WaitDoneEvent(p) ==
  /\ TopIs(p, "send") /\ ~Undone(Top(p).ctx, Last(pend[Top(p).ctx]).n)
  /\ Pop(Top(p).ctx)
  /\ stack' = [stack EXCEPT ![p] = Front(@)]
  /\ UNCHANGED <<tasks, queueVars, doneWatch, replies, signalling, timers, wire, conn, cleared, owed, sent, faultVars, answered>>

\* The tasks once the watcher of the outer loop does not watch any more.
StopWatchingDone(p) == Only(tasks[p], {i \in DOMAIN tasks[p] : tasks[p][i].k # "done"})

\* The pump_messages_event_ of SyncMessage::EnableMessagePumping is always set.
NestedMessageLoop(p) ==
  LET f == Top(p)
  IN  /\ TopIs(p, "send") /\ f.pump
      /\ Calls(p, [k |-> "loop", ctx |-> f.ctx, n |-> f.n, quit |-> FALSE])
      /\ StartWatchingDone(p, f.ctx, f.n, StopWatchingDone(p))
      /\ UNCHANGED <<queueVars, pend, replies, ipcVars, cleared, owed, sent, faultVars, answered>>

Loops(p, s) == {i \in DOMAIN s : s[i].k = "loop"}

\* After QuitNow: the watcher of the next outer loop watches its send again, and
\* the send at the bottom of this loop returns.
LeaveNestedMessageLoop(p) ==
  LET below == Front(Front(stack[p]))
      outer == Loops(p, below)
  IN  /\ TopIs(p, "loop") /\ Top(p).quit
      /\ stack' = [stack EXCEPT ![p] = below]
      /\ Pop(Top(p).ctx)
      /\ \/ outer = {} /\ doneWatch' = [doneWatch EXCEPT ![p] = None] /\ UNCHANGED tasks
         \/ /\ outer # {}
            /\ LET f == below[Max(outer)] IN StartWatchingDone(p, f.ctx, f.n, tasks[p])
      /\ UNCHANGED <<queueVars, replies, signalling, timers, wire, conn, cleared, owed, sent, faultVars, answered>>

(***************************************************************************)
(* Tasks of the listener thread, in its outermost or a nested loop.        *)
(***************************************************************************)
NextTask(p, k) == InLoop(p) /\ tasks[p] # <<>> /\ Head(tasks[p]).k = k

DispatchMessagesTask(p) ==
  /\ NextTask(p, "task")
  /\ taskPending' = [taskPending EXCEPT ![p] = FALSE]
  /\ Calls(p, [k |-> "dispatch", ctx |-> Head(tasks[p]).ctx, delayed |-> <<>>])
  /\ tasks' = [tasks EXCEPT ![p] = Tail(@)]
  /\ UNCHANGED <<queue, event, armed, doneWatch, pend, replies, ipcVars, cleared, owed, sent, faultVars, answered>>

\* SyncChannel::OnWaitableEventSignaled.
OnDispatchEventSignaled(p) ==
  /\ NextTask(p, "watch")
  /\ event' = [event EXCEPT ![p] = FALSE]
  /\ armed' = [armed EXCEPT ![p] = Append(@, Head(tasks[p]).ctx)]
  /\ Calls(p, [k |-> "dispatch", ctx |-> Head(tasks[p]).ctx, delayed |-> <<>>])
  /\ tasks' = [tasks EXCEPT ![p] = Tail(@)]
  /\ UNCHANGED <<queue, taskPending, doneWatch, pend, replies, ipcVars, cleared, owed, sent, faultVars, answered>>

\* SyncContext::OnWaitableEventSignaled for a send-done event: QuitNow.
OnSendDoneSignaled(p) ==
  /\ NextTask(p, "done")
  /\ IF stack[p] = <<>> THEN UNCHANGED stack ELSE Replaces(p, [Top(p) EXCEPT !.quit = TRUE])
  /\ doneWatch' = [doneWatch EXCEPT ![p] = None]
  /\ tasks' = [tasks EXCEPT ![p] = Tail(@)]
  /\ UNCHANGED <<queueVars, pend, replies, ipcVars, cleared, owed, sent, faultVars, answered>>

\* The listener deletes the SyncChannel: its watcher stops, its sends are cancelled
\* and its messages are removed; the IPC thread closes the pipe later.
DeleteChannel(c) ==
  LET p == c[1]
  IN  /\ Running(p) /\ c \notin cleared
      /\ SignalDone(c, Pending(c), FALSE,
                    Only(tasks[p], {i \in DOMAIN tasks[p] : ~(tasks[p][i].k = "watch" /\ tasks[p][i].ctx = c)}))
      /\ armed' = [armed EXCEPT ![p] = Only(@, {i \in DOMAIN @ : @[i] # c})]
      /\ queue' = [queue EXCEPT ![p] = Only(@, {i \in DOMAIN @ : At(@[i]) # c})]
      /\ IpcPosts(p, [k |-> "closed", ctx |-> c])
      /\ cleared' = cleared \cup {c}
      /\ UNCHANGED <<stack, taskPending, event, replies, signalling, timers, wire, conn, owed, sent, faultVars, answered>>

(***************************************************************************)
(* The IPC thread.  While it is in QueueMessage it does nothing else.      *)
(***************************************************************************)
IpcIdle(p) == p \notin dead /\ ~signalling[p].on

Reads(c) == wire' = [wire EXCEPT ![Peer(c)] = Tail(@)]
CanRead(c, reply) ==
  /\ IpcIdle(c[1]) /\ conn[c] = "open" /\ wire[Peer(c)] # <<>>
  /\ Head(wire[Peer(c)]).reply = reply

\* Fault: any reply will do.
IsMessageReplyToAny(c, m) == pend[c] # <<>>

\* TryToUnblockListener: the reply is to the context's innermost send.
IsMessageReplyTo(c, m) == pend[c] # <<>> /\ Last(pend[c]).n = m.req.n

TryToUnblockListener(c, m) == SignalDone(c, {Last(pend[c]).n}, m.ok, tasks[c[1]])

\* OnMessageReceived of a reply; QueueReply keeps it when it is not for the innermost send.
ReceiveReply(c) ==
  LET p == c[1]
      m == Head(wire[Peer(c)])
  IN  /\ CanRead(c, TRUE)
      /\ Reads(c)
      /\ IF IsMessageReplyTo(c, m)
           THEN TryToUnblockListener(c, m) /\ UNCHANGED replies
           ELSE /\ replies' = [replies EXCEPT ![p] = Append(@, [ctx |-> c, m |-> m])]
                /\ UNCHANGED <<pend, doneWatch, tasks>>
      /\ UNCHANGED <<listenerVars, queueVars, ipc, signalling, timers, conn, faultVars, answered>>

\* OnMessageReceived of a request: QueueMessage inside its lock.
QueueMessage(c) ==
  LET p == c[1]
  IN  /\ CanRead(c, FALSE)
      /\ Reads(c)
      /\ queue' = [queue EXCEPT ![p] = Append(@, Head(wire[Peer(c)]).req)]
      /\ taskPending' = [taskPending EXCEPT ![p] = TRUE]
      /\ signalling' = [signalling EXCEPT ![p] = [on |-> TRUE, ctx |-> c, post |-> ~taskPending[p]]]
      /\ UNCHANGED <<listenerVars, tasks, event, armed, doneWatch, pend, replies, ipc, timers, conn, faultVars, answered>>

\* What Signal posts: the callbacks of all the watchers, unless the event is set already.
WatchTasks(p) ==
  IF event[p] THEN <<>> ELSE [i \in DOMAIN armed[p] |-> [k |-> "watch", ctx |-> armed[p][i]]]

\* Fault: the task for the message loop is left out.
SignalDispatchOnlyEvent(p) ==
  /\ p \notin dead /\ signalling[p].on
  /\ event' = [event EXCEPT ![p] = TRUE]
  /\ signalling' = [signalling EXCEPT ![p] = None]
  /\ UNCHANGED <<listenerVars, tasks, queue, armed, taskPending, doneWatch, pend, replies, ipc, timers, wire, conn, faultVars, answered>>

\* QueueMessage after its lock: sets the event and posts the task.
SignalDispatch(p) ==
  /\ p \notin dead /\ signalling[p].on
  /\ event' = [event EXCEPT ![p] = TRUE]
  /\ armed' = [armed EXCEPT ![p] = IF event[p] THEN @ ELSE <<>>]
  /\ tasks' = [tasks EXCEPT ![p] = @ \o WatchTasks(p) \o
                 (IF signalling[p].post THEN <<[k |-> "task", ctx |-> signalling[p].ctx]>> ELSE <<>>)]
  /\ signalling' = [signalling EXCEPT ![p] = None]
  /\ UNCHANGED <<listenerVars, queue, taskPending, doneWatch, pend, replies, ipc, timers, wire, conn, faultVars, answered>>

NextIpc(p, k) == IpcIdle(p) /\ ipc[p] # <<>> /\ Head(ipc[p]).k = k
IpcTakes(p) == ipc' = [ipc EXCEPT ![p] = Tail(@)]

\* Context::OnSendMessage writes, or cancels the sends of a channel that is closed or broken.
OnSendMessage(p) ==
  LET t == Head(ipc[p])
  IN  /\ NextIpc(p, "send")
      /\ IpcTakes(p)
      /\ \/ /\ conn[t.ctx] = "open" /\ conn[Peer(t.ctx)] = "open"
            /\ wire' = [wire EXCEPT ![t.ctx] = Append(@, t.m)]
            /\ UNCHANGED <<pend, doneWatch, tasks>>
         \/ /\ conn[t.ctx] # "open" \/ conn[Peer(t.ctx)] # "open"
            /\ CancelPendingSends(t.ctx)
            /\ UNCHANGED wire
      /\ UNCHANGED <<listenerVars, queueVars, replies, signalling, timers, conn, faultVars, answered>>

Wanted(p) == {i \in DOMAIN replies[p] : IsMessageReplyTo(replies[p][i].ctx, replies[p][i].m)}

\* The first of the queued replies that unblocks a send.
DispatchReplies(p) ==
  /\ NextIpc(p, "replies")
  /\ IpcTakes(p)
  /\ \/ Wanted(p) = {} /\ UNCHANGED <<replies, pend, doneWatch, tasks>>
     \/ /\ Wanted(p) # {}
        /\ LET i == Min(Wanted(p))
           IN  /\ TryToUnblockListener(replies[p][i].ctx, replies[p][i].m)
               /\ replies' = [replies EXCEPT ![p] = RemoveAt(@, i)]
  /\ UNCHANGED <<listenerVars, queueVars, signalling, timers, wire, conn, faultVars, answered>>

\* OnSendTimeout looks for its send at every depth.
OnSendTimeout(t) ==
  /\ t \in timers /\ IpcIdle(t.ctx[1])
  /\ timers' = timers \ {t}
  /\ SignalDone(t.ctx, {t.n}, FALSE, tasks[t.ctx[1]])
  /\ UNCHANGED <<listenerVars, queueVars, replies, ipc, signalling, wire, conn, faultVars, answered>>

\* The pipe is at its end: the peer has closed it or has died.
OnChannelError(c) ==
  /\ IpcIdle(c[1]) /\ conn[c] = "open" /\ conn[Peer(c)] # "open" /\ wire[Peer(c)] = <<>>
  /\ conn' = [conn EXCEPT ![c] = "error"]
  /\ CancelPendingSends(c)
  /\ UNCHANGED <<listenerVars, queueVars, replies, ipc, signalling, timers, wire, faultVars, answered>>

OnChannelClosed(p) ==
  /\ NextIpc(p, "closed")
  /\ IpcTakes(p)
  /\ conn' = [conn EXCEPT ![Head(ipc[p]).ctx] = "closed"]
  /\ CancelPendingSends(Head(ipc[p]).ctx)
  /\ UNCHANGED <<listenerVars, queueVars, replies, signalling, timers, wire, faultVars, answered>>

\* The process's main thread, which is the listener thread, sets the shutdown event;
\* the watchers of the contexts are called back on the IPC thread.
Shutdown(p) ==
  LET open == SetToSeq({c \in ContextsOf(p) : conn[c] = "open"})
  IN  /\ Running(p) /\ ~shut[p]
      /\ shut' = [shut EXCEPT ![p] = TRUE]
      /\ ipc' = [ipc EXCEPT ![p] = @ \o [i \in DOMAIN open |-> [k |-> "shutdown", ctx |-> open[i]]]]
      /\ UNCHANGED <<listenerVars, tasks, queueVars, doneWatch, pend, replies, signalling, timers, wire, conn, dead, answered>>

\* StopWatching of an error or a close makes a callback void.
OnShutdownSignaled(p) ==
  LET c == Head(ipc[p]).ctx
  IN  /\ NextIpc(p, "shutdown")
      /\ IpcTakes(p)
      /\ \/ conn[c] = "open" /\ CancelPendingSends(c)
         \/ conn[c] # "open" /\ UNCHANGED <<pend, doneWatch, tasks>>
      /\ UNCHANGED <<listenerVars, queueVars, replies, signalling, timers, wire, conn, faultVars, answered>>

\* The process ends without notice, with whatever it had not written.
Die(p) ==
  /\ p \notin dead
  /\ dead' = dead \cup {p}
  /\ conn' = [c \in Contexts |-> IF c[1] = p THEN "closed" ELSE conn[c]]
  /\ pend' = [c \in Contexts |-> IF c[1] = p THEN <<>> ELSE pend[c]]
  /\ stack' = [stack EXCEPT ![p] = <<>>]
  /\ tasks' = [tasks EXCEPT ![p] = <<>>]
  /\ ipc' = [ipc EXCEPT ![p] = <<>>]
  /\ queue' = [queue EXCEPT ![p] = <<>>]
  /\ replies' = [replies EXCEPT ![p] = <<>>]
  /\ signalling' = [signalling EXCEPT ![p] = None]
  /\ doneWatch' = [doneWatch EXCEPT ![p] = None]
  /\ timers' = {t \in timers : t.ctx[1] # p}
  /\ owed' = {r \in owed : At(r)[1] # p}
  /\ UNCHANGED <<taskPending, event, armed, wire, cleared, sent, shut, answered>>

ListenerGoesOn(p) ==
  \/ DispatchMessages(p) \/ WaitDispatchEvent(p) \/ WaitDoneEvent(p)
  \/ NestedMessageLoop(p) \/ LeaveNestedMessageLoop(p)
  \/ DispatchMessagesTask(p) \/ OnDispatchEventSignaled(p) \/ OnSendDoneSignaled(p)

IpcGoesOn(p) ==
  \/ SignalDispatch(p) \/ OnSendMessage(p) \/ DispatchReplies(p) \/ OnChannelClosed(p) \/ OnShutdownSignaled(p)

\* What goes on by itself: both threads of a process run, handlers return and answer, the
\* pipes deliver.
Progress ==
  \/ \E p \in Procs : ListenerGoesOn(p) \/ IpcGoesOn(p) \/ HandlerReturns(p, FALSE, FALSE)
  \/ \E c \in Contexts : ReceiveReply(c) \/ QueueMessage(c) \/ OnChannelError(c)

\* What the processes and their surroundings may do.
Choice ==
  \/ \E c \in Contexts : Send(c, "pump" \in Features, "timeout" \in Features)
  \/ \E p \in Procs, defer \in May("defer"), error \in May("error") :
       (defer \/ error) /\ HandlerReturns(p, defer, error)
  \/ \E r \in owed : ReplyLater(r)
  \/ \E t \in timers : OnSendTimeout(t)
  \/ \E c \in Contexts : "close" \in Features /\ DeleteChannel(c)
  \/ \E p \in Procs : "shutdown" \in Features /\ Shutdown(p)
  \/ \E p \in Procs : "die" \in Features /\ Die(p)

Next == (Progress \/ Choice) /\ UNCHANGED scenario

Spec == Init /\ [][Next]_vars

(***************************************************************************)
(* Properties.                                                             *)
(***************************************************************************)
SendsOf(c) ==
  Only(stack[c[1]], {i \in DOMAIN stack[c[1]] : stack[c[1]][i].k = "send" /\ stack[c[1]][i].ctx = c})

\* The state of both threads; a send awaits its reply once, and a watcher either waits for
\* the dispatch event or has its callback posted, but not twice.
TypeOK ==
  /\ \A p \in Procs :
       /\ stack[p] \in Seq(Frame) /\ queue[p] \in Seq(Request) /\ IsInjective(queue[p])
       /\ taskPending[p] \in BOOLEAN /\ event[p] \in BOOLEAN /\ shut[p] \in BOOLEAN
       /\ sent[p] \in 0..MaxSends[p] /\ IsInjective(armed[p])
       /\ LET watching == armed[p] \o Only(tasks[p], {i \in DOMAIN tasks[p] : tasks[p][i].k = "watch"})
          IN  p \in dead \/ Len(watching) = Cardinality(ContextsOf(p) \ cleared)
  /\ \A c \in Contexts :
       /\ pend[c] \in Seq([n : Nat, done : BOOLEAN, result : BOOLEAN])
       /\ Cardinality(Pending(c)) = Len(pend[c])
       /\ conn[c] \in {"open", "error", "closed"}
  /\ cleared \subseteq Contexts /\ owed \subseteq Request /\ answered \subseteq Request /\ dead \subseteq Procs

\* Push and Pop of a context match the nesting of the Send calls on the stack, so that
\* Pop returns the result of the call that pops ("Cleanly remove the top deserializer").
SendsNest ==
  \A c \in Contexts :
    /\ Len(SendsOf(c)) = Len(pend[c])
    /\ \A i \in DOMAIN pend[c] : SendsOf(c)[i].n = pend[c][i].n

\* A Send succeeds only if the peer has answered this very message: neither a time-out, a
\* cancellation, nor a late reply to another send makes it return true.
ResultIsThePeers ==
  \A c \in Contexts : \A i \in DOMAIN pend[c] :
    pend[c][i].result => pend[c][i].done /\ [ctx |-> c, n |-> pend[c][i].n] \in answered

\* A reply that was queued because an inner send was in the way is looked at again once
\* its send is the innermost: while that has not happened, DispatchReplies is posted.
NoForgottenReply ==
  \A p \in Procs : \A i \in Wanted(p) :
    LET c == replies[p][i].ctx
    IN  ~Last(pend[c]).done => \E j \in DOMAIN ipc[p] : ipc[p][j].k = "replies"

\* The requests of the context that were received and not dispatched.
Undispatched(c) ==
  LET p == c[1]
      held == UNION {ToSet(stack[p][i].delayed) : i \in {j \in DOMAIN stack[p] : stack[p][j].k = "dispatch"}}
  IN  {r \in ToSet(queue[p]) \cup held : At(r) = c}

\* The ends of a request's life: posted to be written, in the pipe, received, handled,
\* and its reply likewise.
OnItsWay(r) ==
  LET posted(d) == \E i \in DOMAIN ipc[d[1]] : ipc[d[1]][i].k = "send" /\ ipc[d[1]][i].m.req = r
      written(d) == \E i \in DOMAIN wire[d] : wire[d][i].req = r
      handled == \E i \in DOMAIN stack[At(r)[1]] : LET f == stack[At(r)[1]][i] IN f.k = "handler" /\ f.req = r
      queued == \E i \in DOMAIN replies[r.ctx[1]] : replies[r.ctx[1]][i].m.req = r
  IN  \/ posted(r.ctx) \/ written(r.ctx) \/ r \in Undispatched(At(r)) \/ handled \/ r \in owed
      \/ posted(At(r)) \/ written(At(r)) \/ queued

\* No message is lost between the threads and the nested loops over the queue, the ones
\* that a restricted context holds back included: the request or the reply that a blocked
\* Send waits for is somewhere.
NothingLost ==
  \A c \in Contexts : \A n \in Pending(c) :
    Undone(c, n) /\ Peer(c) \notin cleared /\ conn[c] = "open" /\ conn[Peer(c)] = "open" => OnItsWay([ctx |-> c, n |-> n])

Dispatches(c, x) == x.ctx = c \/ c \notin Restricted

\* A received request will be dispatched ("in case it's not [blocked], the PostTask
\* dispatches the messages"): a loop over the queue is active that may dispatch it, or one
\* will be, because of a task, a callback or the event.
NoForgottenMessage ==
  \A c \in Contexts :
    LET p == c[1]
    IN  Undispatched(c) # {} /\ c \notin cleared =>
          \/ signalling[p].on
          \/ \E i \in DOMAIN tasks[p] : tasks[p][i].k \in {"task", "watch"} /\ Dispatches(c, tasks[p][i])
          \/ \E i \in DOMAIN stack[p] : stack[p][i].k = "dispatch" /\ Dispatches(c, stack[p][i])

\* While a listener is blocked in WaitMany with a request it may dispatch in the queue, the
\* dispatch event is set or about to be: the two threads do not wait for each other.
BlockedListenerIsWoken ==
  \A p \in Procs :
    TopIs(p, "send") /\ (\E r \in ToSet(queue[p]) : At(r) \notin Restricted \/ At(r) = Top(p).ctx)
      => event[p] \/ signalling[p].on

\* The watcher of a nested loop quits that loop and no other, and only for the send at the
\* top of its context: DCHECK(event == GetSendDoneEvent()).
QuitsOwnLoop ==
  \A p \in Procs :
    NextTask(p, "done") =>
      LET t == Head(tasks[p])
      IN  /\ stack[p] # <<>> /\ Top(p).ctx = t.ctx /\ Top(p).n = t.n
          /\ Last(pend[t.ctx]).n = t.n /\ Last(pend[t.ctx]).done

\* A nested loop whose send is done is left: its watcher is called back once the
\* message loop gets to it.
NestedLoopIsLeft ==
  \A p \in Procs :
    TopIs(p, "loop") /\ ~Top(p).quit /\ ~Undone(Top(p).ctx, Top(p).n) =>
      \E i \in DOMAIN tasks[p] : tasks[p][i].k = "done" /\ tasks[p][i].n = Top(p).n

\* The process has shut down, or this channel is closed or broken: no Send waits for a
\* reply that cannot come, except while the cancellation is on its way.
DeadChannelBlocksNobody ==
  \A c \in Contexts :
    LET p == c[1]
        cancel == \E i \in DOMAIN ipc[p] : ipc[p][i].k # "replies" /\ ipc[p][i].ctx = c
    IN  (shut[p] \/ conn[c] # "open") /\ ~cancel => \A i \in DOMAIN pend[c] : pend[c][i].done

\* No deadlock: a process that waits for the result of a Send does not wait for ever,
\* whatever the processes send to each other meanwhile.  Some thread or pipe can go on,
\* unless a handler of the peer has put off its answer.
NobodyIsStuck ==
  owed = {} /\ (\E c \in Contexts : pend[c] # <<>>) => ENABLED Progress

\* A listener that is blocked in a Send is woken: by the messages it has to dispatch
\* meanwhile, and by the end of the channel or of the process.
ListenerIsWoken == BlockedListenerIsWoken /\ DeadChannelBlocksNobody

\* Neither a message waits for ever to be dispatched nor a process to be answered.
NobodyWaitsInVain == NoForgottenMessage /\ NobodyIsStuck

\* The messages and the replies of a listener thread match its contexts.
ChannelInv == TypeOK /\ NoForgottenReply /\ NothingLost

\* Each Send call returns its own result and each nested loop runs for its own send.
LoopsInv == SendsNest /\ QuitsOwnLoop /\ NestedLoopIsLeft

\* The calls of a listener thread: each waits for its own result, and does not sleep
\* through what it waits for.
ListenerInv == LoopsInv /\ ListenerIsWoken
=============================================================================
