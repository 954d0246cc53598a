---------------------------- MODULE ResourceFlow ----------------------------
(***************************************************************************)
(* How the bytes of one response reach the page that asked for it.         *)
(*                                                                         *)
(* On the IO thread of the browser ResourceDispatcherHost reads a          *)
(* URLRequest and hands what it reads to a chain of handlers:              *)
(* BufferedResourceHandler, which keeps the first bytes until the type of  *)
(* the response is known, CrossSiteResourceHandler, which holds a          *)
(* cross-site response back until the old page has unloaded, and           *)
(* AsyncResourceHandler, which sends the data to the renderer.  Each of    *)
(* them, and the flow control between AsyncResourceHandler and the         *)
(* ResourceDispatcher of the renderer, pauses and resumes the reading      *)
(* through one counter, pause_count.                                       *)
(*                                                                         *)
(* Bytes are numbered by their place in the response.  h is the state of   *)
(* the IO thread, r that of the renderer's main thread.  MaxChunk bounds   *)
(* what one read returns; SniffBytes and DocBytes are how much data the    *)
(* sniffer and the doctype check want.  A scenario says which responses    *)
(* and other events there are, and how many bytes, messages on the way and *)
(* deferrals.                                                              *)
(***************************************************************************)
EXTENDS Integers, Sequences, FiniteSets

CONSTANTS
  MaxChunk,             \* bound: bytes one read returns
  SniffBytes, DocBytes, \* what SniffMimeType and DidBufferEnough ask for
  Scenarios             \* bound: what may happen, see scenario

\* What decides the path of a response through the handlers: the type the page
\* understands (a document, or one a plug-in may show, or a 204 without a
\* body), whether the type has to be sniffed, and whether it is cross-site.
Kinds == [type : {"known", "html", "plugin", "none"}, sniffed : BOOLEAN,
          crossSite : BOOLEAN]

EnvEvents == {"cancel", "close", "netFail", "noBuffer", "noHandle",
              "modal", "peerCancel"}

ASSUME FlowAssumption ==
  /\ {MaxChunk, SniffBytes, DocBytes} \subseteq Nat /\ MaxChunk > 0
  /\ \A s \in Scenarios :
       /\ {s.maxPending, s.bytes, s.maxDefers} \subseteq Nat /\ s.maxPending > 0
       /\ s.responses \subseteq Kinds /\ s.env \subseteq EnvEvents

VARIABLES
  h,         \* the request on the IO thread
  r,         \* the request in the renderer
  toB,       \* messages on their way from the renderer to the browser
  loading,   \* the FILE thread loads the list of plug-ins
  unloading, \* the old page runs its unload handler: its answers still to come
  scenario   \* chosen at the start and kept

flow == <<h, r, toB, loading, unloading>>
vars == <<h, r, toB, loading, unloading, scenario>>

MaxPending == scenario.maxPending  \* kMaxPendingDataMessages
Bytes == scenario.bytes            \* length of the response
MaxDefers == scenario.maxDefers    \* how often the page defers the request
Responses == scenario.responses    \* the kinds of response: see Kinds
Env == scenario.env                \* what else may happen: see EnvEvents

Size == IF h.kind.type = "none" THEN 0 ELSE Bytes

Init ==
  /\ scenario \in Scenarios
  /\ \E k \in Responses :
       h = [kind |-> k, alive |-> TRUE,
            \* URLRequest and its job
            status |-> "io", pending |-> TRUE, answered |-> FALSE,
            jobDone |-> FALSE, net |-> "start", pos |-> 0,
            \* ResourceDispatcherHostRequestInfo
            unacked |-> 0, pauses |-> 0, paused |-> FALSE, held |-> 0,
            responded |-> FALSE, reading |-> FALSE,
            \* BufferedResourceHandler
            sniff |-> FALSE, doc |-> FALSE, wait |-> FALSE,
            buffering |-> FALSE, finished |-> FALSE, got |-> 0, mine |-> <<>>,
            \* CrossSiteResourceHandler
            started |-> FALSE, transition |-> FALSE, completed |-> FALSE,
            hasCross |-> FALSE,
            \* AsyncResourceHandler's read_buffer_
            buf |-> <<>>,
            \* what the step has asked of other threads, and mistakes it made
            load |-> FALSE, unload |-> FALSE, fault |-> "none",
            tasks |-> <<>>, toR |-> <<>>]
  /\ r = [known |-> TRUE, deferred |-> FALSE, queue |-> <<>>, flushes |-> 0,
          looping |-> FALSE, rest |-> <<>>, after |-> <<>>, modal |-> FALSE,
          defers |-> 0, data |-> <<>>, status |-> "none", dangling |-> FALSE]
  /\ toB = <<>>
  /\ loading = FALSE /\ unloading = 0

----------------------------------------------------------------------------
(***************************************************************************)
(* Pausing and flow control.  The handlers of the IO thread call one       *)
(* another, so each is a function from a state of the thread to the next,  *)
(* or to the set of those that the network and the memory allow; one that  *)
(* returns a value as well returns records of state s, result ok and,      *)
(* where it has one, the byte count n.                                     *)
(***************************************************************************)
IsSuccess(s) == s.status \in {"ok", "io"}

Post(s, task) == [s EXCEPT !.tasks = Append(@, task)]

Send(s, m) == [s EXCEPT !.toR = Append(@, m)]

PauseRequest(s, pause) ==
  LET p == [s EXCEPT !.pauses = IF pause THEN @ + 1 ELSE @ - 1] IN
  CASE ~s.alive -> s
    [] ~pause /\ s.pauses = 0 -> [s EXCEPT !.fault = "unbalanced"]
    [] OTHER -> IF p.pauses = 0 THEN Post(p, "resume") ELSE p

PauseIfNeeded(s) == [s EXCEPT !.paused = @ \/ s.pauses > 0]

\* Fault: the message that was counted before the pause stays counted.
DataReceivedACKOnce(s) ==
  LET n == s.unacked - 1 IN
  CASE ~s.alive -> s
    [] s.alive /\ n = MaxPending ->
         PauseRequest([s EXCEPT !.unacked = n], FALSE)
    [] OTHER -> [s EXCEPT !.unacked = n]

\* Fault: the request is resumed when nothing is left to acknowledge.
DataReceivedACKLate(s) ==
  LET n == s.unacked - 1 IN
  CASE ~s.alive -> s
    [] s.alive /\ n = 0 /\ s.pauses > 0 -> PauseRequest([s EXCEPT !.unacked = n], FALSE)
    [] OTHER -> [s EXCEPT !.unacked = n]

\* The message counted before the pause was not sent: it is taken back when
\* the request is resumed.
DataReceivedACK(s) ==
  LET n == s.unacked - 1 IN
  CASE ~s.alive -> s
    [] s.alive /\ n = MaxPending ->
         PauseRequest([s EXCEPT !.unacked = n - 1], FALSE)
    [] OTHER -> [s EXCEPT !.unacked = n]

WillSendData(s) ==
  LET c == [s EXCEPT !.unacked = @ + 1] IN
  IF c.unacked > MaxPending THEN [s |-> PauseRequest(c, TRUE), ok |-> FALSE]
                            ELSE [s |-> c, ok |-> TRUE]

----------------------------------------------------------------------------
(***************************************************************************)
(* URLRequest and URLRequestJob, as far as they are seen from here.        *)
(***************************************************************************)
\* The delegate is told of the end of the job in a task of its own, which only
\* speaks up if the job has failed.
NotifyDone(s, status) ==
  Post([s EXCEPT !.jobDone = TRUE, !.pending = FALSE,
                 !.status = IF IsSuccess(s) THEN status ELSE @], "jobDone")

\* URLRequest::Cancel kills the job unless it is over.
CancelRequestInternal(s) ==
  LET c == [s EXCEPT !.status = IF IsSuccess(s) THEN "canceled" ELSE @] IN
  IF c.pending THEN NotifyDone([c EXCEPT !.net = "idle"], "canceled") ELSE c

\* n bytes from the network, into the buffer OnWillRead has given.
Fill(s, n) ==
  LET bytes == [i \in 1..n |-> s.pos + i] IN
  IF s.buffering THEN [s EXCEPT !.mine = bytes, !.pos = @ + n]
                 ELSE [s EXCEPT !.buf = bytes, !.pos = @ + n]

\* What a read may come to: bytes at once, a failure, or bytes later.  The end
\* of the response reads 0 bytes.
Pending == 0
Failure == -1
ReadOutcomes == {Pending} \cup 1..MaxChunk
                \cup IF "netFail" \in Env THEN {Failure} ELSE {}

Least(a, b) == IF a < b THEN a ELSE b

Result(s, ok, n) == [s |-> s, ok |-> ok, n |-> n]

\* A read of a job that goes on: bytes, the end, or nothing yet.
ReadBytes(s, n) == Result(IF n = 0 THEN NotifyDone(s, "ok") ELSE Fill(s, n), TRUE, n)

URLRequestRead(s) ==
  LET a == IF s.jobDone THEN [s EXCEPT !.fault = "readAfterDone"] ELSE s
  IN IF ~IsSuccess(a) THEN {Result(a, TRUE, 0)}
     ELSE {CASE k = Pending -> Result([a EXCEPT !.status = "io", !.net = "read"], FALSE, 0)
             [] k = Failure -> Result(NotifyDone(a, "failed"), FALSE, 0)
             [] OTHER       -> ReadBytes(a, Least(k, Size - s.pos)) : k \in ReadOutcomes}

----------------------------------------------------------------------------
(***************************************************************************)
(* The chain of handlers.                                                  *)
(***************************************************************************)
\* Deletes the request; what refers to it finds it gone.
RemovePendingRequest(s) ==
  [s EXCEPT !.alive = FALSE, !.net = "idle", !.pauses = 0,
            !.paused = FALSE, !.unacked = 0, !.held = 0, !.hasCross = FALSE]

\* The renderer may refuse the handle of the shared memory.
AsyncOnReadCompleted(s, n) ==
  LET w == WillSendData(s)
      present == n <= Len(s.buf)
      piece == SubSeq(s.buf, 1, Least(n, Len(s.buf)))
      sent == Send([w.s EXCEPT !.buf = <<>>, !.fault = IF present THEN @ ELSE "noBuffer"],
                   [t |-> "data", bytes |-> piece])
      refused == DataReceivedACK([w.s EXCEPT !.buf = <<>>])
  IN CASE n = 0 -> {Result(s, TRUE, n)}
       [] n > 0 /\ ~w.ok -> {Result(w.s, TRUE, n)}
       [] OTHER -> {Result(sent, TRUE, n)}
                   \cup (IF "noHandle" \in Env THEN {Result(refused, FALSE, n)} ELSE {})

CrossOnReadCompleted(s, n) ==
  IF s.transition THEN {Result(s, TRUE, n)} ELSE AsyncOnReadCompleted(s, n)

\* StartCrossSiteTransition tells the UI thread, which has the old page run its
\* unload handler.
StartCrossSiteTransition(s) ==
  LET t == [s EXCEPT !.transition = TRUE, !.hasCross = TRUE, !.unload = TRUE] IN
  IF s.started THEN PauseRequest(t, TRUE) ELSE t

\* A 204 response is passed on at once.
CrossOnResponseStarted(s) ==
  IF s.kind.crossSite /\ s.kind.type # "none"
  THEN StartCrossSiteTransition([s EXCEPT !.started = TRUE])
  ELSE Send([s EXCEPT !.started = TRUE], [t |-> "response"])

ShouldWaitForPlugins(s) ==
  IF s.kind.type = "plugin"
  THEN PauseRequest([s EXCEPT !.wait = TRUE, !.load = TRUE], TRUE)
  ELSE s

\* DelayResponse, and CompleteResponseStarted unless it says to wait.
BufferedOnResponseStarted(s) ==
  CASE s.kind.sniffed -> [s EXCEPT !.sniff = TRUE]
    [] ~s.kind.sniffed /\ s.kind.type = "html" -> [s EXCEPT !.doc = TRUE]
    [] OTHER -> LET p == ShouldWaitForPlugins(s) IN
                IF p.wait THEN p ELSE CrossOnResponseStarted(p)

\* The bytes of my_buffer_ join those in the buffer of the real handler; ok
\* means that they have to stay there.
KeepBuffering(s, n) ==
  LET a == [s EXCEPT !.buf = IF s.buffering THEN SubSeq(@, 1, s.got) \o s.mine ELSE @,
                     !.mine = <<>>, !.got = @ + n, !.finished = n = 0]
      sniffing == a.sniff /\ a.got < SniffBytes /\ ~a.finished
      b == IF ~a.sniff THEN a
           ELSE IF a.kind.type = "html" THEN [a EXCEPT !.sniff = FALSE, !.doc = TRUE]
           ELSE ShouldWaitForPlugins([a EXCEPT !.sniff = FALSE])
      c == [b EXCEPT !.doc = FALSE]
  IN CASE sniffing -> [s |-> [a EXCEPT !.buffering = TRUE], ok |-> TRUE]
       [] ~sniffing /\ b.doc /\ ~b.finished /\ b.got < DocBytes ->
            [s |-> [b EXCEPT !.buffering = TRUE], ok |-> TRUE]
       [] OTHER -> [s |-> [c EXCEPT !.buffering = FALSE], ok |-> c.wait]

BufferedOnReadCompleted(s, n) ==
  CASE s.sniff \/ s.doc ->
         UNION {IF k.ok THEN {Result(k.s, TRUE, n)}
                ELSE UNION {CrossOnReadCompleted(t, t.got) : t \in {CrossOnResponseStarted(k.s)}} :
                k \in {KeepBuffering(s, n)}}
    [] ~(s.sniff \/ s.doc) /\ s.wait -> {Result(s, TRUE, n)}
    [] OTHER -> CrossOnReadCompleted(s, n)

\* The shared memory may be used up.
OnWillRead(s) ==
  CASE s.buffering -> {Result(s, TRUE, 0)}
    [] ~s.buffering /\ s.finished -> {Result(s, FALSE, 0)}
    [] OTHER -> {Result([s EXCEPT !.buf = <<>>, !.got = 0], TRUE, 0)}
                \cup (IF "noBuffer" \in Env THEN {Result([s EXCEPT !.buf = <<>>], FALSE, 0)} ELSE {})

\* The end of a cross-site response waits for the old page, as its start does.
OnResponseCompleted(s) ==
  LET cross == s.kind.crossSite IN
  CASE cross /\ s.transition -> [s EXCEPT !.completed = TRUE]
    [] cross /\ ~s.transition /\ ~s.started ->
         [StartCrossSiteTransition(s) EXCEPT !.completed = TRUE]
    [] OTHER -> RemovePendingRequest(Send(s, [t |-> "complete", status |-> s.status]))

----------------------------------------------------------------------------
(***************************************************************************)
(* The pump: ResourceDispatcherHost as the delegate of the request.        *)
(***************************************************************************)
CompleteRead(s, n) ==
  {IF d.ok THEN Result(d.s, d.n # 0, d.n) ELSE Result(CancelRequestInternal(d.s), FALSE, d.n) :
     d \in BufferedOnReadCompleted(s, n)}

\* n is the caller's byte count, which stays as it is without a buffer.
Read(s, n) ==
  UNION {IF w.ok THEN URLRequestRead([w.s EXCEPT !.reading = TRUE]) ELSE {Result(w.s, FALSE, n)} :
           w \in OnWillRead(s)}

\* The end of OnReadCompleted: the handlers may have paused the request.
AfterRead(s, n) ==
  LET p == PauseIfNeeded(s) IN
  CASE p.paused -> [p EXCEPT !.held = n]
    [] ~p.paused /\ p.status # "io" -> OnResponseCompleted(p)
    [] OTHER -> p

\* The next read, of which no more than the end of the response is handled at once.
ReadNext(s, n) ==
  UNION {CASE ~d.ok \/ ~IsSuccess(d.s) -> {AfterRead(d.s, d.n)}
           [] d.ok /\ IsSuccess(d.s) /\ d.n = 0 ->
                {AfterRead(e.s, e.n) : e \in CompleteRead(d.s, 0)}
           [] OTHER -> {Post([d.s EXCEPT !.held = d.n, !.paused = TRUE], "resume")} :
           d \in Read(s, n)}

OnReadCompleted(s, n) ==
  LET p == PauseIfNeeded([s EXCEPT !.reading = TRUE])
  IN CASE p.paused -> {[p EXCEPT !.held = n]}
       [] ~p.paused /\ ~IsSuccess(p) -> {AfterRead(p, n)}
       [] OTHER -> UNION {IF ~c.ok \/ c.s.pauses > 0 THEN {AfterRead(c.s, c.n)}
                          ELSE ReadNext(c.s, c.n) : c \in CompleteRead(p, n)}

StartReading(s) ==
  UNION {CASE d.ok -> OnReadCompleted(d.s, d.n)
           [] ~d.ok /\ d.s.status # "io" -> {OnResponseCompleted(d.s)}
           [] OTHER -> {d.s} : d \in Read(s, 0)}

OnResponseStarted(s) ==
  LET p == PauseIfNeeded(s)
  IN CASE p.paused -> {p}
       [] ~p.paused /\ ~IsSuccess(p) -> {OnResponseCompleted(p)}
       [] OTHER -> UNION {IF c.paused THEN {c} ELSE StartReading(c) :
                            c \in {PauseIfNeeded(BufferedOnResponseStarted(
                                                  [p EXCEPT !.responded = TRUE]))}}

ResumeRequest(s) ==
  LET p == [s EXCEPT !.paused = FALSE] IN
  CASE ~s.alive \/ ~s.paused -> {s}
    [] s.alive /\ s.paused /\ ~s.responded -> OnResponseStarted(p)
    [] s.alive /\ s.paused /\ s.responded /\ s.reading -> OnReadCompleted(p, s.held)
    [] OTHER -> StartReading(p)

\* The task that ends a job speaks up only if the job has failed.
CompleteNotifyDone(s) ==
  CASE ~s.alive \/ IsSuccess(s) -> {s}
    [] s.alive /\ ~IsSuccess(s) /\ s.answered -> OnReadCompleted(s, -1)
    [] OTHER -> OnResponseStarted([s EXCEPT !.answered = TRUE])

OnPluginsLoaded(s) ==
  LET w == [s EXCEPT !.wait = FALSE] IN
  IF s.alive THEN CrossOnResponseStarted(PauseRequest(w, FALSE)) ELSE w

\* A request that is not in flight is not heard of again: it ends here.
CancelRequest(s) ==
  CASE ~s.alive -> s
    [] s.alive /\ s.pending -> CancelRequestInternal(s)
    [] OTHER -> OnResponseCompleted(CancelRequestInternal(s))

ResumeResponse(s) ==
  LET t == [s EXCEPT !.transition = FALSE]
      u == IF s.started THEN PauseRequest(Send(t, [t |-> "response"]), FALSE) ELSE t
      v == [u EXCEPT !.hasCross = FALSE]
  IN IF s.completed
     THEN RemovePendingRequest(Send(v, [t |-> "complete", status |-> s.status]))
     ELSE v

----------------------------------------------------------------------------
(***************************************************************************)
(* The steps of the IO thread, and those of the FILE and UI threads that   *)
(* answer it.                                                              *)
(***************************************************************************)
IoStep(states) ==
  \E t \in states :
    /\ h' = [t EXCEPT !.load = FALSE, !.unload = FALSE]
    /\ loading' = (loading \/ t.load)
    /\ unloading' = unloading + (IF t.unload THEN 2 ELSE 0)

\* The headers come, or the request fails.
NetworkAnswers ==
  /\ h.net = "start"
  /\ \E status \in {"ok"} \cup (IF "netFail" \in Env THEN {"failed"} ELSE {}) :
       IoStep(OnResponseStarted([h EXCEPT !.net = "idle", !.answered = TRUE, !.status = status]))
  /\ UNCHANGED <<r, toB>>

\* A read that was pending comes to an end.
ReadEnds(s, n) ==
  OnReadCompleted(IF n = 0 THEN NotifyDone(s, "ok") ELSE Fill([s EXCEPT !.status = "ok"], n), n)

NetworkReads ==
  /\ h.net = "read"
  /\ LET s == [h EXCEPT !.net = "idle"] IN
     \E k \in ReadOutcomes \ {Pending} :
       IoStep(IF k = Failure THEN {NotifyDone(s, "failed")} ELSE ReadEnds(s, Least(k, Size - h.pos)))
  /\ UNCHANGED <<r, toB>>

RunTask ==
  /\ h.tasks # <<>>
  /\ LET s == [h EXCEPT !.tasks = Tail(@)] IN
     \/ Head(h.tasks) = "resume" /\ IoStep(ResumeRequest(s))
     \/ Head(h.tasks) = "jobDone" /\ IoStep(CompleteNotifyDone(s))
     \/ Head(h.tasks) = "plugins" /\ IoStep({OnPluginsLoaded(s)})
     \/ Head(h.tasks) = "closed" /\ IoStep({IF h.hasCross THEN ResumeResponse(s) ELSE s})
  /\ UNCHANGED <<r, toB>>

HostReceives ==
  /\ toB # <<>>
  /\ toB' = Tail(toB)
  /\ IoStep({IF Head(toB) = "ack" THEN DataReceivedACK(h) ELSE CancelRequest(h)})
  /\ UNCHANGED r

\* LoadPlugins on the FILE thread.
PluginsLoaded ==
  /\ loading
  /\ loading' = FALSE
  /\ h' = Post(h, "plugins")
  /\ UNCHANGED <<r, toB, unloading>>

\* The UI thread hears of the end of the unload handler from the page and from
\* its own time-out: the second message comes late, if at all.
OldPageUnloaded ==
  /\ unloading > 0
  /\ unloading' = unloading - 1
  /\ h' = Post(h, "closed")
  /\ UNCHANGED <<r, toB, loading>>

\* CancelRequestsForRoute: the tab closes, or its renderer dies.
Close ==
  /\ "close" \in Env /\ r.known
  /\ h' = IF h.alive THEN [RemovePendingRequest(h) EXCEPT !.toR = <<>>]
          ELSE [h EXCEPT !.toR = <<>>]
  /\ r' = [r EXCEPT !.known = FALSE, !.queue = <<>>, !.flushes = 0, !.looping = FALSE,
                    !.rest = <<>>, !.after = <<>>, !.modal = FALSE, !.deferred = FALSE]
  /\ toB' = <<>>
  /\ UNCHANGED <<loading, unloading>>

----------------------------------------------------------------------------
(***************************************************************************)
(* ResourceDispatcher in the renderer.  A message is dispatched to the     *)
(* peer, which may defer the request, run a modal dialog (a nested loop    *)
(* with the request deferred) or cancel the request before it returns.     *)
(* FlushDeferredMessages is a loop over rest, the messages it has taken    *)
(* off the queue; after is the message OnMessageReceived dispatches once   *)
(* that loop is through.                                                   *)
(***************************************************************************)
PeerActs == {"return"}
            \cup (IF r.defers < MaxDefers
                  THEN {"defer"} \cup (Env \cap {"modal"}) ELSE {})
            \cup (Env \cap {"peerCancel"})

Forget(q) ==
  [q EXCEPT !.known = FALSE, !.queue = <<>>, !.deferred = FALSE]

PeerRuns(q, act) ==
  CASE act = "defer" -> [q EXCEPT !.deferred = TRUE, !.defers = @ + 1]
    [] act = "modal" -> [q EXCEPT !.deferred = TRUE, !.defers = @ + 1, !.modal = TRUE]
    [] act = "peerCancel" -> Forget(q)
    [] OTHER -> q

\* DispatchMessage: data is acknowledged even if nobody waits for it any more;
\* the last message ends the request.
Dispatch(q, m, act) ==
  /\ toB' = toB \o (IF m.t = "data" THEN <<"ack">> ELSE <<>>)
                \o (IF q.known /\ m.t # "complete" /\ act = "peerCancel"
                    THEN <<"cancel">> ELSE <<>>)
  /\ r' = CASE ~q.known -> q
            [] q.known /\ m.t = "data" ->
                 PeerRuns([q EXCEPT !.data = @ \o m.bytes], act)
            [] q.known /\ m.t = "response" -> PeerRuns(q, act)
            [] OTHER -> [Forget(q) EXCEPT !.status = m.status]

Free == ~r.looping \/ r.modal

\* Fault: a message does not wait for those that were deferred.
OnMessageReceivedEager ==
  /\ Free /\ h.toR # <<>>
  /\ h' = [h EXCEPT !.toR = Tail(@)]
  /\ LET m == Head(h.toR) IN
     \/ ~r.known /\ UNCHANGED <<r, toB>>
     \/ r.known /\ r.deferred /\ r' = [r EXCEPT !.queue = Append(@, m)] /\ UNCHANGED toB
     \/ r.known /\ ~r.deferred /\ \E act \in PeerActs : Dispatch(r, m, act)
  /\ UNCHANGED <<loading, unloading>>

OnMessageReceived ==
  /\ Free /\ h.toR # <<>>
  /\ h' = [h EXCEPT !.toR = Tail(@)]
  /\ LET m == Head(h.toR) IN
     \/ ~r.known /\ UNCHANGED <<r, toB>>
     \/ r.known /\ r.deferred /\ r' = [r EXCEPT !.queue = Append(@, m)] /\ UNCHANGED toB
     \/ /\ r.known /\ ~r.deferred /\ r.queue # <<>>
        /\ r' = [r EXCEPT !.looping = TRUE, !.rest = r.queue, !.queue = <<>>,
                          !.after = <<m>>]
        /\ UNCHANGED toB
     \/ /\ r.known /\ ~r.deferred /\ r.queue = <<>>
        /\ \E act \in PeerActs : Dispatch(r, m, act)
  /\ UNCHANGED <<loading, unloading>>

\* The posted FlushDeferredMessages.
RunFlush ==
  /\ Free /\ r.flushes > 0
  /\ LET q == [r EXCEPT !.flushes = @ - 1] IN
     r' = IF ~r.known \/ r.deferred THEN q
          ELSE [q EXCEPT !.looping = TRUE, !.rest = r.queue, !.queue = <<>>]
  /\ UNCHANGED <<h, toB, loading, unloading>>

\* One turn of the loop; a request that was deferred in the last one gets the
\* rest of its queue back.
FlushNext ==
  /\ r.looping /\ ~r.modal /\ r.rest # <<>>
  /\ IF r.known /\ r.deferred
     THEN r' = [r EXCEPT !.queue = r.rest, !.rest = <<>>] /\ UNCHANGED toB
     ELSE \E act \in PeerActs :
            Dispatch([r EXCEPT !.rest = Tail(@)], Head(r.rest), act)
  /\ UNCHANGED <<h, loading, unloading>>

\* The loop is through: OnMessageReceived looks at the request again, which may
\* be gone.
FlushEnds ==
  /\ r.looping /\ ~r.modal /\ r.rest = <<>>
  /\ LET q == [r EXCEPT !.looping = FALSE, !.after = <<>>] IN
     \/ r.after = <<>> /\ r' = q /\ UNCHANGED toB
     \/ /\ r.after # <<>> /\ r.known /\ r.deferred
        /\ r' = [q EXCEPT !.queue = Append(@, Head(r.after))] /\ UNCHANGED toB
     \/ /\ r.after # <<>> /\ r.known /\ ~r.deferred
        /\ \E act \in PeerActs : Dispatch(q, Head(r.after), act)
     \/ /\ r.after # <<>> /\ ~r.known
        /\ Dispatch([q EXCEPT !.dangling = TRUE], Head(r.after), "return")
  /\ UNCHANGED <<h, loading, unloading>>

\* SetDefersLoading(true), from outside a callback of the request.
DeferLoading ==
  /\ ~r.looping /\ ~r.modal /\ r.known /\ ~r.deferred /\ r.defers < MaxDefers
  /\ r' = [r EXCEPT !.deferred = TRUE, !.defers = @ + 1]
  /\ UNCHANGED <<h, toB, loading, unloading>>

\* SetDefersLoading(false); a dialog that ends does so too.
UndeferLoading ==
  /\ Free /\ r.deferred
  /\ r' = [r EXCEPT !.deferred = FALSE, !.modal = FALSE,
                    !.flushes = IF r.known THEN @ + 1 ELSE @]
  /\ UNCHANGED <<h, toB, loading, unloading>>

\* The page gives the request up.
CancelLoad ==
  /\ "cancel" \in Env /\ ~r.looping /\ ~r.modal /\ r.known
  /\ r' = Forget(r)
  /\ toB' = Append(toB, "cancel")
  /\ UNCHANGED <<h, loading, unloading>>

BrowserStep == NetworkAnswers \/ NetworkReads \/ RunTask \/ HostReceives

RendererStep == OnMessageReceived \/ RunFlush \/ FlushNext \/ FlushEnds

Step ==
  \/ BrowserStep \/ PluginsLoaded \/ OldPageUnloaded \/ Close
  \/ RendererStep \/ DeferLoading \/ UndeferLoading \/ CancelLoad

Next == Step /\ UNCHANGED scenario

Spec == Init /\ [][Next]_vars

\* The network answers, every thread runs its tasks, pages end what defers the
\* request and old pages or their time-out answer.  The first three conjuncts are
\* weak fairness as well, with the guard, on which alone these steps depend, in
\* the place of ENABLED.
Fairness ==
  /\ []<>(h.net # "start") \/ []<><<NetworkAnswers>>_flow
  /\ []<>(h.net # "read") \/ []<><<NetworkReads>>_flow
  /\ []<>(h.tasks = <<>>) \/ []<><<RunTask>>_flow
  /\ WF_flow(HostReceives) /\ WF_flow(PluginsLoaded) /\ WF_flow(OldPageUnloaded)
  /\ WF_flow(RendererStep) /\ WF_flow(UndeferLoading)

FairSpec == Spec /\ Fairness

----------------------------------------------------------------------------
(***************************************************************************)
(* Properties.                                                             *)
(***************************************************************************)
IsData(m) == m.t = "data"
DataIn(q) == Len(SelectSeq(q, IsData))
IsAck(m) == m = "ack"

\* Data messages the renderer has not acknowledged, or whose acknowledgement
\* has not come.
InFlight == DataIn(h.toR) + DataIn(r.queue) + DataIn(r.rest) + DataIn(r.after)
            + Len(SelectSeq(toB, IsAck))

Canceled == ~r.known \/ \E i \in DOMAIN toB : toB[i] = "cancel"

Messages == [t : {"response"}] \cup [t : {"data"}, bytes : Seq(1..Bytes)]
            \cup [t : {"complete"}, status : {"ok", "failed", "canceled"}]

\* The values the fields of ResourceDispatcherHostRequestInfo, of the handlers
\* and of the renderer's PendingRequestInfo take; pause_count is never
\* negative (the NOTREACHED of PauseRequest) and a read buffer is there
\* when data is to be sent (the DCHECK of AsyncResourceHandler).
TypeOK ==
  /\ h.status \in {"ok", "io", "failed", "canceled"}
  /\ h.net \in {"start", "idle", "read"}
  /\ h.pos \in 0..Bytes /\ h.got \in 0..Bytes /\ h.held \in -1..Bytes
  /\ h.unacked \in 0..MaxPending + 1 /\ h.pauses \in 0..2
  /\ h.buf \in Seq(1..Bytes) /\ h.mine \in Seq(1..Bytes)
  /\ h.tasks \in Seq({"resume", "jobDone", "plugins", "closed"})
  /\ h.toR \in Seq(Messages) /\ r.queue \in Seq(Messages) /\ r.rest \in Seq(Messages)
  /\ h.fault \notin {"unbalanced", "noBuffer"}
  /\ r.defers \in 0..MaxDefers /\ toB \in Seq({"ack", "cancel"})
  /\ unloading \in 0..2

\* WillSendData and DataReceivedACK: a page that does not take its data never
\* has more than kMaxPendingDataMessages of it on the way, however pauses,
\* resumptions and deferred messages interleave.
UnackedBounded == InFlight <= MaxPending

\* pending_data_count stays the number of unacknowledged messages, with the
\* one that was counted but not sent while the request is paused for it.
CountMatches ==
  h.alive /\ ~Canceled =>
    h.unacked = InFlight + (IF h.unacked > MaxPending THEN 1 ELSE 0)

\* OnReadCompleted, the handlers' buffers and ResourceDispatcher's deferred
\* queue: what the page gets is the response from its first byte on, nothing
\* lost, repeated or out of order.
DataInOrder == \A i \in DOMAIN r.data : r.data[i] = i

\* OnResponseCompleted: a request that ends well has brought its whole response.
SuccessIsWhole == r.status = "ok" => Len(r.data) = Size

Posted(task) == \E i \in DOMAIN h.tasks : h.tasks[i] = task

\* PauseRequest and ResumeRequest: for a paused request there is always a
\* ResumeRequest posted, or someone who still has to lift a pause: the plug-in
\* list, the old page, or an acknowledgement to come.
PausedHasResumer ==
  h.alive /\ h.paused =>
    \/ h.pauses = 0 /\ Posted("resume")
    \/ h.pauses > 0 /\ h.wait /\ (loading \/ Posted("plugins"))
    \/ h.pauses > 0 /\ h.transition /\ (unloading > 0 \/ Posted("closed"))
    \/ h.pauses > 0 /\ h.unacked > MaxPending /\ InFlight > 0

\* CrossSiteResourceHandler: while the old page unloads, the page the response
\* is for hears nothing of it, neither data nor the end.
TransitionIsSilent ==
  h.transition => h.toR = <<>> /\ r.data = <<>> /\ r.status = "none" /\ InFlight = 0

\* What the counters, the pauses and the handlers' buffers hold.  A request that the
\* page cancels may stay paused for ever: see the README.
FlowInv ==
  /\ TypeOK
  /\ UnackedBounded
  /\ CountMatches
  /\ TransitionIsSilent
  /\ Env \cap {"cancel", "peerCancel"} = {} => PausedHasResumer

SniffedForPlugin == h.kind.type = "plugin" /\ h.kind.sniffed

\* What the page gets is the response, from its first byte on, and all of it if it is
\* told that the request went well.  Two cases are excepted, in which bytes are lost (see
\* the README): BufferedResourceHandler has sniffed the response and then waits for the
\* list of plug-ins; no shared buffer can be had and the response ends early.
PageGetsResponse ==
  /\ ~SniffedForPlugin => DataInOrder
  /\ ~SniffedForPlugin /\ "noBuffer" \notin Env => SuccessIsWhole

\* URLRequest::Read asserts that its job is not done.
ReadsLiveJob == h.fault # "readAfterDone"

\* OnMessageReceived relies on the request being there after it has flushed the
\* deferred messages.
RequestStillThere == ~r.dangling

\* Every response comes to an end for the page: none of the pauses, and none of
\* the queues, keeps it for ever.
ResponseEnds == <>(~r.known)

\* A request the page has cancelled goes away in the browser.
RequestEnds == <>(~h.alive)

============================================================================
