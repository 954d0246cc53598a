# A TLA+ verification of the browser's page-loading core

The repository is Chromium (2011) with the MeeGo/Qt port of its user interface.
This project specifies, model-checks and proves properties of the parts of the
program's own code on which loading a page depends: sockets and caches, events,
message loops and channels between threads and processes, and the navigation of a tab
down to the bytes that reach its page.

* [Inventory](#inventory) of the system's parts and what makes them hard
* [Modules](#modules), and how they correspond to the code
* [Runs](#runs): what TLC checks, with which bounds and which fairness
* [Proofs](#proofs): what TLAPS proves, and how
* [Disagreements](#disagreements-between-code-and-documentation) between code and documentation
* [Limits](#limits-and-abstractions) and the [plan](#plan)

`PROJECT.json` lists the components, the runs with their properties, a faulty
variant of the code for every property, the source lines of every definition,
the hazards, the findings and the theorems.

## Inventory

Paths are relative to `src/`. A page load goes through these parts; each
runs on one thread and is entered by calls, posted tasks, IPC messages or timers.

| part | state | operations | interacts with | what is hard | correct when |
|---|---|---|---|---|---|
| **Client socket pool** `net/socket/client_socket_pool_base.cc`, `client_socket_handle.cc` | groups with idle sockets, connect jobs, request queue and active count; three pool-wide counters; results not yet delivered; generation number; handles | request, preconnect, cancel, release, job completion, backup timer, posted callback, clean-up, flush | connect jobs (callback), clients (posted callback), timers, network change observer | every entry point wakes other requests before it returns; results are posted and may be overtaken by Reset and a new request | no socket has two owners, counters are exact, no request is lost, limits hold, every request is answered |
| **Disk cache lists** `net/disk_cache/rankings.cc`, `eviction.cc` | doubly linked LRU lists on disk, heads, tails and sizes in the header, a one-slot transaction record, iterators | Insert, Remove, UpdateRank, GetNext, GetPrev, recovery at start, trimming | backend and entries call it; iterators are held by clients | the process may die between any two writes, also during recovery; blocks may share memory | every start finds well linked lists with every completed operation and none half done |
| **Disk cache backend and entries** `backend_impl.cc`, `entry_impl.cc` | hash table, open entries, dirty flags, reference counts | open, create, resurrect, doom, close, enumerate | lists, block files | entries left dirty by an earlier run are destroyed when met | table and lists never lead to freed blocks |
| **HTTP cache** `net/http/http_cache.cc`, `http_cache_transaction.cc` | active entries with one writer or many readers, pending queue, doomed entries, pending operations | FindEntry, CreateEntry, AddTransactionToEntry, DoneWritingToEntry, DoneReadingFromEntry, posted queue processing | disk cache, network transactions | cancellation between any two steps, posted work on entries that change | writers exclude, waiters go on |
| **Host resolver** `net/base/host_resolver_impl.cc` | jobs, requests attached to jobs, job pools, cache | Resolve, CancelRequest, OnJobComplete, abort on address change | worker threads, socket pool | late results of cancelled jobs | every live request is answered once |
| **IPC** `ipc/ipc_sync_channel.cc`, `ipc_sync_message_filter.cc`, `ipc_channel_proxy.cc` | stack of pending synchronous sends, received-message queue, events | Send, OnMessageReceived, WaitForReply, OnSendTimeout, channel error | two threads per process, two processes | nested synchronous sends, replies out of order, time-outs | no deadlock, replies go to their senders |
| **Threads** `base/message_loop.cc`, `base/synchronization/waitable_event_posix.cc` | work, delayed, deferred and incoming queues; waiter lists | PostTask, Run, nested Run, Wait, WaitMany, Signal | everything | lock order, lost signals, nested loops | tasks run in order, signals are not lost |
| **Navigation** `content/browser/tab_contents/navigation_controller.cc`, `render_view_host_manager.cc` | entry list with last committed, pending and transient entry; current and pending renderer | LoadURL, GoToIndex, RendererDidNavigate, OnCrossSiteResponse, ShouldClosePage_ACK | renderers (IPC), resource dispatcher | commits, responses and user actions cross each other | the entry shown is the page shown |
| **Resource dispatcher** `content/browser/renderer_host/resource_dispatcher_host.cc` | pending and blocked requests, per-request ack counts, pause counts | BeginRequest, OnReadCompleted, OnDataReceivedACK, PauseRequest, CancelRequest | renderers, HTTP cache, navigation | flow control, cancellation | no request is stuck or used after removal |
| **Painting** `content/renderer/render_widget.cc`, `content/browser/renderer_host/render_widget_host.cc` | update_reply_pending_, backing store | paint, resize, ack | renderer and browser | lost or crossing acknowledgements | painting never freezes |
| **Settings files** `chrome/common/important_file_writer.cc` | scheduled write, temporary file | ScheduleWrite, WriteNow | file thread | crash while replacing | old or new contents, never neither |
| Tab strip, media pipeline, application cache, databases, sync, MeeGo UI and browser service, WebKit glue, GPU, PPAPI, remoting, third-party code | | | | | not in the scope of this project; reasons in `PROJECT.json` |

`PROJECT.json` lists under "hazards" the places where the code is exposed to
orders, failures and limits that tests hardly reach, and which property watches each.

## Modules

Every component has a module of its own; the modules named `...MC` are its instances for TLC.

| module | models | listed as |
|---|---|---|
| `SocketPool` | the socket pool and its handles | modelled |
| `SocketPoolLive` | fairness and liveness for it | |
| `SequenceLemmas` | lemmas on the operators on sequences that the models use | |
| `SocketPoolProofs` | proofs of types, ownership, counters, requests and handles | |
| `SocketPoolUpkeep` | proofs of what every operation leaves behind: groups, timers, flushes, limits | |
| `SocketPoolOrder` | proofs of the order of service and of the action properties | |
| `Rankings` | the LRU lists of the disk cache, their users, crashes and recovery | modelled (the backend partly) |
| `LruLists` | what the lists promise: atomic insertion at the head, atomic removal | |
| `HttpCache` | the lock on an entry of the HTTP cache and the life of its transactions | partly |
| `HttpCacheLive` | fairness and liveness for it | |
| `HttpCacheProofs` | proofs of its bookkeeping, of what it serves and of the order of admission | |
| `WaitableEvent` | waitable events, `WaitMany` and watchers | modelled |
| `WaitableEventProofs` | proofs of its invariants and of `SignalReachesSomeone` | |
| `SyncChannel` | synchronous IPC between processes | partly |
| `SyncChannelProofs` | proofs of whose result a `Send` returns, of the nesting of sends and loops, and of what wakes a listener | |
| `MessageLoop` | a thread's message loop over the default pump or Qt's | partly |
| `MessageLoopProofs` | proofs of its invariants and of the order of tasks | |
| `Navigation` | the history of a tab and its renderer, interstitials | partly |
| `RenderViewHostManager` | the transition of a tab from one site's renderer to another's | partly |
| `ResourceFlow` | the bytes of a response from the network to the page | partly |

The modules meet where the components do: `HttpCache` is served by the network and the
disk cache with the outcomes that `SocketPool` and `Rankings` allow; `Navigation` is a tab
with one host, `RenderViewHostManager` is what happens between two; the `transition` of
`ResourceFlow` is the hold on a response that `RenderViewHostManager` sets and releases. Each module leaves the other
side's choices free, so what it shows holds for any behaviour of the neighbour.

**Scenarios.** From `SyncChannel` on (and in `Rankings`, for its two kinds of cache) a module has a variable that `Init` takes from
a constant set and no step changes: which messages, users' commands, failures and events of the
environment there are, and how many of them. One run then explores several instances,
each aimed at other cases, and `Next` is `Step /\ UNCHANGED scenario`.
Where a property is known to fail in the presence of some event, the
property names the event, and the section on disagreements says why.

### SocketPool

The variable `pool` is one record with the data members of
`ClientSocketPoolBaseHelper`, of its `Group`s, and of the `ClientSocketHandle`s
(names beginning with `h`); `stale` is a history field. The pool lives on the
network thread, so an entry point is one action:

| action | entry point |
|---|---|
| `RequestSocket(h, g)` | `ClientSocketHandle::Init` → `RequestSocket` |
| `RequestSockets(g)` | `RequestSockets` (preconnect), called with one more socket than the group has slots in use |
| `ResetInitialized(h, connected)`, `ResetPending(h)` | `ClientSocketHandle::Reset` → `ReleaseSocket` or `CancelRequest` |
| `ConnectJobDone(g, k)` | `ConnectJob::NotifyDelegateOfCompletion`, also from its timer → `OnConnectJobComplete` |
| `InvokeUserCallback(h)` | the posted task → `HandleInitCompletion` |
| `OnBackupSocketTimerFired(g)` | the delayed task of `StartBackupSocketTimer` |
| `CleanupIdleSockets(dead)` | the clean-up timer |
| `Flush` | `OnIPAddressChanged`, `Flush` |

Inside, every function of the code is an operator of the same name from a pool
to a pool or, where the network decides, to the set of possible pools
(`RequestSocketInternal`, `ProcessPendingRequest`, `OnAvailableSocketSlot`, ...).
The cascade that a call sets off (a released socket serves the next request,
which may close an idle socket of another group, which removes that group) is
therefore part of the action.

`Init` on a handle that is bound is `Reset` followed by `Init`: two steps. A posted
`InvokeUserCallback` delivers whatever answer is in the map when it runs, so a task posted
for a cancelled request delivers the answer of the next one early, as in the code. What
a client does in its callback is a later step.

### Rankings

An operation of the cache thread is an operator from an image of the files to
the sequence of images its writes produce (`Insert`, `RemoveNode`, `UpdateRank`,
`FinishInsert`, `RevertRemove`, ... and, built from them, `OnOpenEntry`, `Delete`,
`DestroyEntry`, ...). An action (`CreateEntry`, `OpenEntry`, `ResurrectEntry`, `LookUpInVain`,
`MeetInvalidEntry`, `UseEntry`, `DoomOpenEntry`, `CloseEntry`, `TrimEntry`,
`DoomClosedEntry`, `TrimDeleted`, `MoveIterator`, `EndEnumeration`) puts that
sequence into `todo`; `Write` performs the next write; `Crash`
drops what is left and makes the dirty flags stale; `Restart` is
`Rankings::Init` with `CompleteTransaction`. `visible` is a history variable, the
lists that a restart would show; `ImplementsLruLists` says that it obeys `LruLists`.

`NewEviction` tells the main cache (lists NO_USE, LOW_USE, HIGH_USE, DELETED)
from media and application caches (NO_USE only).

A rankings node and its entry have one identity. `reuse_count` is the list it selects.
A dirty flag is `clean` (0), `in use` (the id of this run) or `stale` (any other).
Sharing of memory matters: for an open entry a `CacheRankingsBlock` of the same
node shares the entry's memory, so clearing the node clears the block
(`shared` in `RemoveLinked`); in the entry's destructor it is a copy. The three fields of a
transaction are one write, as two are read only while the third is set; so are
the stores of a new entry and of its node, which nothing leads to yet.

### HttpCache

One variable, `cache`: the `ActiveEntry` objects (`writer`, `readers`, `queue`,
`will` for `will_process_pending_queue`), which of them is active or doomed, the
`PendingOp` of the key, what is on disk, and for each transaction its `next_state_`,
`mode_` and entry. One action per completion: `OnBackendCreated`, `OnIOComplete`,
`OnProcessPendingQueue`, `ReadResponseInfo`, `NetworkResponse`, `ResponseInfoWritten`,
`CacheReadDone`, `NetworkReadDone`, `DataWritten`; the client's `Start`, `Read`, `Restart` and
`Destroy`; and `Evict`, by which the disk cache drops a closed entry. The loops that
notify waiting transactions are spread over `NotifyNext` steps that nothing interrupts.
The results of a read of the response's headers and of the network are free choices.

A cancelled download that could be resumed is kept, and its headers are written again with the flag `truncated`.
`AddTruncatedFlag` neither waits for that write nor looks at its result, and the destructor cancels its callback, so
in the model it may fail like any other (`flagged` in `DoneWithEntry`); the part is then `"unmarked"`, and nothing tells it
from a whole response (`PassesForWhole`). The outcome is chosen when the write is asked for, which nobody can notice: the operations
of one disk entry complete in order, so the next reader of the headers sees what the write left.

### WaitableEvent

One action per region of the code between two points at which a thread may block: taking the
locks in `WaitMany`, checking, waiting on the condition variable, giving up, leaving
the lists, firing waiters one by one (`SignalOne`, `SignalAll`). A `SyncWaiter` is its thread, an `AsyncWaiter` an
address that the allocator may hand out again. An event is its address, a number: `WaitMany`
keeps the caller's array, and `EnqueueMany` locks the least event of it that is not locked yet
(`ToLock`), which is the next one of the sorted copy. `StartWatching`, `StopWatching` and
`RunCallbackTask` are the watcher's.

### SyncChannel

Each process has the call stack of its listener thread (sends, dispatch loops, handlers,
nested loops), the tasks of its two threads, the shared `ReceivedSyncMsgQueue`
with its event and watchers, and per context the pending sends
(`deserializers_`). Steps are those of the listener thread, of the IPC thread, of the
pipe, of timers and, as choices, of handlers: to answer, to put off the answer, to send, to
pump, to delete a channel, to die.

### MessageLoop

The call stack alternates between runs of the loop and tasks (or loops of Qt that tasks start); a run's program counter
goes through the rounds of `MessagePumpDefault::Run` or `MessagePumpForUIQt::Run`. The four queues, the recent
time, the times of pump and timer are variables. Posting from another thread is two
steps, since the loop is woken after the lock is released.

### Navigation

`tab` is `NavigationController` with its entries and three indices, and the `InterstitialPage`; `r` is
`RenderView` with the page it shows, its load and the ids it has given out. The messages
between them are two queues. `Commanded` is the user (load, go to an entry, reload, stop,
remove an entry, decide on an interstitial), `ContentActs` the page (links, replacements, places, frames,
failures, crash), `RendererWorks` and `BrowserHears` handle a message each, `Attach` shows an
interstitial.

### RenderViewHostManager

The current and the pending host, each with the flags of its `RenderViewHost`; messages to
each renderer; tasks of the UI and the IO thread; the state of each navigation's
request. `NavigateAway` and `NavigateWithin` are the user's navigations, `ResponseStarts` a response at
`CrossSiteResourceHandler`, `CheckRendererIsUnresponsive` the hang monitor, and the rest the renderers'
steps, clicks and crashes.

### ResourceFlow

`h` is the request on the IO thread, through `ResourceDispatcherHost` and its three handlers,
with `pause_count` and `pending_data_count`; `r` is the renderer's
`PendingRequestInfo` with the messages it defers. The network answers and
reads, the tasks on the IO thread run, the list of plug-ins arrives, the old page unloads, the
renderer dispatches or defers. Bytes are numbered, so a byte that is lost, repeated or out of order is
seen.

## Runs

Each run takes less than four minutes on two cores.

| run | checks | instance |
|---|---|---|
| `socket_pool` | `TypeOK`, `SingleOwner`, `CountersMatch`, `RequestsConserved`, `HandlesConsistent`, `GroupsKeptUp`, `NoReuseAcrossFlush`, `WithinLimits`; action properties `HeldSocketStays`, `ServedInOrder` | 2 groups, 3 handles (one urgent), 3 sockets, 2 per group, one flush |
| `socket_pool_live` | `NoMissedWakeup`; `EveryRequestAnswered` under fairness | 2 groups, 3 handles that ask once, one of which ignores the limits; one socket; a connect does not fail at once |
| `socket_pool_starvation` | `EveryRequestAnswered`, refuted | the same with connects that fail at once |
| `rankings` | `RankingsInv`, `CrashConsistent`, `NoCriticalError`; refinement `ImplementsLruLists` | four lists with 2 entries, and one list with 3 entries and an enumeration in both directions; 2 crashes |
| `http_cache` | `CacheInv`, `OnlyWholeResponsesServed` (parts whose flag was not written excepted) | 2 transactions, 2 entries at once, every mode, every answer of the network, every write fails or not, a backend created on demand |
| `http_cache_live` | `AdmittedInOrder`; `EveryRequestAnswered`, `EntriesClosed` under fairness | 3 transactions used once |
| `waitable_event` | `EventInv`, `AcceptedSignalIsReported`; `SignalReachesSomeone`; `SignalledWaitReturns` under fairness | an automatic and a manual event; three threads with a call each, two with two, or one with three and two watchers that share an address |
| `sync_channel` | `ChannelInv`, `ListenerInv`, `ResultIsThePeers`, `NobodyWaitsInVain` | nested sends in both directions with late answers and deaths; two sends with time-outs, errors and late answers; two nested sends that pump and time out; three nested sends that pump; deletion and shutdown; a process between two restricted channels |
| `message_loop` | `LoopInv`, `WakesForWork`; `RunsInTurn` | each pump: 3 tasks, with and without delay, nested twice, clock up to 2 |
| `navigation` | `NavigationInv`, `ComesToRest`; `CommittedEntriesStay` | scenarios `Pages`, `History`, `Interstitials`, `Places`: 3 commands, 1 to 3 acts of the pages, a list of 2 entries |
| `cross_site` | `CrossSiteInv`; `SwapsInTurn` | scenarios `Hangs` (3 navigations), `Links`, `Closes`, `Blanks`, `Crashes` (2 each) |
| `resource_flow` | `FlowInv`, `PageGetsResponse`; `ResponseEnds` under fairness | scenarios `Failing`, `LeavingPage`, `Asking`: 3 or 4 bytes, 1 or 2 messages on the way, every kind of response; for one that was sniffed and waits for the plug-ins, and where no shared buffer can be had, `PageGetsResponse` makes an exception |

A property whose name ends in `Inv`, and `GroupsKeptUp`, `NobodyWaitsInVain`, `WakesForWork`, `RunsInTurn`,
`ComesToRest`, `SwapsInTurn` and `PageGetsResponse`, is a conjunction of named parts, each
stated and commented in the module.

**Bounds.** With two groups and a pool limit below the sum of the group limits
the pool is stalled both by the group limit and by its own, and idle sockets of
one group are closed for the other. Three handles of two priorities give queues
in which order matters and a request that overtakes. `Sockets` has one more
identity than the pool may use, so a breach of the limit would be seen. One
flush makes two generations. Four lists and two entries give lists with an
only, a first and a last element; three entries on one list add a
middle one. Two crashes let the process die while it recovers from the first.
Two transactions race for every pair of modes; three give a queue with a first
and a second. Two entries are a doomed and an active one; a third request to open or create waits until an address is free, and
the proofs hold for any number. Two events are what it takes for a cycle of locks, three threads for a signaller,
a waiter and a third that takes the signal. Three sends nest twice, so
there is an outer, a middle and an inner one. A history list of two entries is pruned by
the third page, which three commands and a link reach. Two cross-site navigations
cross each other; three let the last one meet what the first left. Responses
are longer than what the sniffer wants and than what flow control lets pass at once.

**Crash windows left out of the passing runs.** Two constants name them.
`CrashInFinish = FALSE`: no second crash while `FinishInsert` runs.
`CrashWhenMisfiled = FALSE`: no crash while an entry sits on a list its record does not
select (between a move and the `Store` of the record). With them the lists
are damaged: `RankingsFinish.cfg` and `RankingsMisfiled.cfg`. Everywhere else,
and during `RevertRemove`, any write may be the last. The main cache is not enumerated,
for the reason `RankingsEnumeration.cfg` shows.

**Deadlock** is checked by TLC for the pool and for the lock of the HTTP cache. Elsewhere the system
may rightly stop: bounds are used up, threads wait for an event nobody signals. For
synchronous IPC, where deadlock is the question, `NobodyIsStuck` says that a process that waits for
an answer has a thread or a pipe that can go on.

**Symmetry** is used in safety runs only, over sockets, groups and equal
handles, over nodes, or over transactions.

**Fairness.**
`SocketPoolLive`: a connect job ends, as `ConnectJob::Connect`
starts a timer that fails it; a posted task runs; a client gives back its
socket. Nothing is assumed of timers for backup jobs, preconnects, clean-up,
flushes or cancellations. Every handle asks once, because a client
that repeats urgent requests may rightly keep others waiting.
`HttpCacheLive`: disk operations complete, posted tasks run, the network answers, a client that has its
answer ends its transaction; nobody has to cancel, restart or evict. Strong fairness
is for the client's end only, which its other steps may disable for a while.
`WaitableEvent`: threads are scheduled and a broadcast wakes who waits. Strong fairness of a signaller that
waits for a waiter's lock: the waiter releases it whenever it waits again. No time-out has to come.
`ResourceFlow`: the network answers and threads run their tasks; a page ends what defers it; an old page
or its time-out answers. Three of the conjuncts spell the guard of their step
instead of `ENABLED`, which says the same and is much faster to check.

**Mutants.** For every property of a passing run a faulty variant of one
operator (a dropped guard, a missing decrement, a changed order of writes) makes
TLC find the property violated; these variants are the definitions commented
"Fault".

## Proofs

TLAPS proves the following for every value of the constants.

**Socket pool** - every finite set of groups, handles and sockets, every priority assignment, all
limits and every choice of what connects may return:

| module | theorem | statement |
|---|---|---|
| `SocketPoolProofs` | `PoolInvariant` | `Spec => []Inv` |
| | `TypeCorrect` | `Spec => []TypeOK` |
| | `SocketsHaveOneOwner` | `Spec => []SingleOwner` |
| | `CountersExact` | `Spec => []CountersMatch` |
| | `NoRequestLost` | `Spec => []RequestsConserved` |
| | `HandlesAgree` | `Spec => []HandlesConsistent` |
| `SocketPoolUpkeep` | `UpkeepInvariant` | `Spec => []KeptUp` |
| | `GroupsAreKeptUp` | `Spec => []GroupsKeptUp` (whatever has something left is in the map, not the converse) |
| | `FlushedSocketsStayOut` | `Spec => []NoReuseAcrossFlush` |
| | `LimitsAreKept` | `Spec => []WithinLimits` |
| `SocketPoolOrder` | `QueuesStaySorted` | `Spec => []QueuesSorted` (by priority; the order among equals is the next theorem's) |
| | `RequestsServedInOrder` | `Spec => ServedInOrder` |
| | `HeldSocketsStay` | `Spec => HeldSocketStays` |

**Waitable events** - every set of threads, watchers and addresses, every finite set of events,
all arrays of distinct events and all budgets of calls:

| module | theorem | statement |
|---|---|---|
| `WaitableEventProofs` | `EventsAgree` | `Spec => []EventInv` |
| | `AcceptedSignalsAreReported` | `Spec => []AcceptedSignalIsReported` |
| | `SignalsReachSomeone` | `Spec => SignalReachesSomeone` |

**Message loop** - every set of loops (either pump, any features of their tasks), any delays, any number of
tasks, of ticks of the clock and of nested runs:

| module | theorem | statement |
|---|---|---|
| `MessageLoopProofs` | `TasksKeepTheirPlace` | `Spec => []LoopInv` |
| | `SleepsOnlyWithoutWork` | `Spec => []WakesForWork` |
| | `TasksRunInTurn` | `Spec => RunsInTurn` |

**HTTP cache** - every set of transactions and of entries, every choice of the modes that requests begin in and of
the answers of the network, a backend that is there or is created on demand:

| module | theorem | statement |
|---|---|---|
| `HttpCacheProofs` | `Bookkeeping` | `Spec => []IInv` |
| | `BookkeepingIsRight` | `Spec => []CacheInv` |
| | `WholeResponses` | `Spec => []OnlyWholeResponsesServed` (with its exception) |
| | `FirstComeFirstAdmitted` | `Spec => AdmittedInOrder` |

**Synchronous IPC** - every set of processes and of channels between them, any number of messages sent from any
depth of handlers and nested loops, any restricted contexts, and every feature (pumping, time-outs, late answers,
errors, deletion, shutdown, death) in any combination:

| module | theorem | statement |
|---|---|---|
| `SyncChannelProofs` | `ThreadsKeepTheirOwn` | `Spec => []Types` |
| | `SendSucceedsWhenAnswered` | `Spec => []ResultIsThePeers` |
| | `LoopsAreTheirSends` | `Spec => []LoopsInv` |
| | `ListenersAreWoken` | `Spec => []ListenerIsWoken` |
| | `ListenersGoOn` | `Spec => []ListenerInv`, the conjunction of the two |

The only assumptions are those of the modules on their constants. `PoolAssumption`: the sets are finite, the
"none" values are not members of them, the per-group limit is not above the pool's
(which the constructor DCHECKs), and parameters have their types. `EventAssumption`: addresses are numbers, an array has an
event at most once (which `WaitMany` DCHECKs) and at least one (the same), a thread is not an address, and
the "none" values are nobody. `LoopAssumption`: a loop has one of the two pumps, delays and bounds are natural numbers.
`CacheAssumption`: entries are numbered, the "none" values are not members of the sets, modes and answers are
among those of the code. `ChannelAssumption`: a context is a pair of different processes and its peer is one
too, there are finitely many, and the restricted ones are among them.

**The pool's inductive invariant.** `Inv` is the conjunction of the properties of `SocketPoolProofs`
(`InvMeaning`). None of them is inductive by itself: that the counters stay exact
needs that a socket has one owner (else a removal would be counted twice), that a socket
is handed out to a handle that has none, which needs `HandlesConsistent` for queued requests,
and that a queued request is queued once, which is `RequestsConserved`.

**Handlers that call each other.** While a handler runs, the pool does not satisfy `Inv`: the handle
being served is neither queued nor answered. The lemmas therefore speak of
`Good(s, E)`, the invariant with the handles in `E` exempt: an operation takes a
handle out of the queue (`E` grows from `{}` to `{h}`), serves it, and puts its answer
into the map (`E` is empty again). `SocketPoolProofs` shows first that each operator keeps
`PoolState`, then what each does to `Good`, bottom up, along the
call graph; the theorem has one step per action. The other two modules follow the same
call graph with two more statements about each operator.

**What operations leave behind.** `Kept(s, P)` joins `Inv` in `SocketPoolUpkeep`. A backup timer runs only for a
group with a job *and a request* (`TimersOK`): the second half is what makes the first inductive,
since a job is only cancelled for want of a request; `P` exempts a group whose request is on its way into the queue.
A socket of before a flush is held by a handle whose pool id is older (`Fresh`), so it is closed when it comes back:
that is `NoReuseAcrossFlush` for sockets that are still out. The limits are exact because each place that
opens a socket has just found room for it (`Room`) or has closed an idle one; the handed out, connecting
and idle sockets of `WithinLimits` are counters, so the proof rests on `CountersExact`.

**Order of service.** `Fair(s, t)` relates the pool before and after an operation: requests only leave a queue
or enter where they belong, two that stay keep their order, and one that gets an answer had nobody ahead that stays; who holds a
socket keeps it. It is transitive (`FairTrans`), so it is shown for the single operations and carried through
their compositions. Every queue is sorted by priority (`QueuesSorted`), so a request that is inserted before the first one of lower priority
enters after all of its own priority or higher and overtakes no one it should not.

**The invariant of the events.** `IInv` has the conjuncts of `EventInv` that are inductive together; the
rest follows from them. `LocksAgree` says who holds which lock at which place of its call; that a thread in
`EnqueueMany` holds only locks of lesser addresses than those it still needs is what excludes
cycles: of a set of threads that all wait for each other, take the one that waits for the greatest address;
who holds that lock waits for a greater one, or runs `Signal`, which waits only for the lock of a waiter, and
a waiter in its loop waits for nothing (`LocksAreOrdered`). `CallsAgree` says what a call knows: a
waiter that was fired knows by which event. `ListsAgree` is stronger than
`NoDanglingWaiter`: who is in a list waits for that event *and was not fired by it*, except for those
`SignalAll` has passed; without that a step of `SignalAll` could be undone by a return before the list is cleared.
`WatchersAgree` gives each waiting watcher the address that is in the list, and every used address its
watcher, which is why an address that the allocator hands out again cannot be taken for the old one.
`SignalsReachSomeone` is shown step by step from the same invariant: the last step of a `Signal` either sets the
flag because the list was empty, or fires a waiter that had not been fired.

**The invariant of the message loop.** `IInv` has three parts. The queues (`QueuesOK`): every number up to `posted` is
in one of them or was run, once; the numbers in `delayed` are below those in `work`, and those below the ones in
`incoming`, as tasks move from the last to the first; `delayed` is sorted. `Move...` lemmas, one for each way from
queue to queue, keep it. `TasksRunInTurn` follows: what begins is the head of a queue, and the other queues hold later or later due tasks.
The call stack (`StackGood`): runs and tasks alternate, a task is only above a run that may call tasks, and
a run ends for being idle only while it is the innermost one; the lemmas say what a frame pushed, popped or changed
does to it. Two facts make it inductive: `nestable_tasks_allowed_`, which is one flag for all runs, is what the innermost
run began with (`AllowedByTop`), and the outermost run began with tasks allowed. Without the
first a task could overlap another, without the second the idle loop could call a deferred task that it must not.
What a round has found (`NothingWasLeft`): from the moment `DoWork` returns false until the run wakes, the work
queue is empty and whatever is in the incoming queue was posted since, by a thread that sets the event; once
`DoDelayedWork` has returned false the pump knows when the first delayed task is due; once `DoIdleWork` has, the outermost run has no
deferred ones. The properties look at the thread when it sleeps or ends, which is one step of that round;
the invariant follows it through all of them.

**The invariant of the HTTP cache.** Here too handlers call each other, and a transaction that is being moved from one
place to the next is nowhere for a moment. `Inv(c, x, f)` speaks of a cache in the middle of a handler: `x` is the
transaction in flight, neither a holder nor registered, and `f` the entry that the handler is about to give
away, which may be without a user and whose response may be unfinished. Each operator has a lemma that
says from which `Inv(c, x, f)` it leads to which; the handlers are chains of these lemmas, and every action leads
from `Inv(cache, NoTrans, NoEntry)` to the same.
`CacheInv` is not inductive: why a closed entry has no queue, or why a writer that leaves has nothing to say to a reader,
depends on where each transaction is. `PlacesOK` says for each place which modes come there and
whether an entry is held; with it `Locks` makes a holder the same as a transaction whose `entry_` is set and that
does not wait. `Upkeep` says what a closed entry may still be known by: only transactions that were
raced and are about to be told; an open one has a user or a posted task. `Operations` excludes an active entry
while an operation on the key is pending, and also while the result of a failed one is handed out:
without the second an item of the loop could create a second active entry. `Waiting` has three parts, that who is
registered waits for that very operation (`Registered`), is so in one place (`Once`), and that who waits is registered
(`WaitsSomewhere`); a loop of notifications counts as a place, so its items may be worked off one by one,
with other steps in between.
`Disk` says that an unfinished response is only in an entry whose writer is in mode WRITE, so whoever is admitted
finds a settled one - whole, flagged as truncated, or a part whose flag was not written - and that those who serve it, or
validate it in order to serve it, have found no flag (`Trusts`). Hence `WholeResponses`, with the exception of the
unmarked parts that `OnlyWholeResponsesServed` names; `PartsAreIndicated`, without it, is refuted (see the disagreements).

**Order of admission.** `AdmittedInOrder` follows from `IInv` before and after a step. Most operations only loosen: nobody
comes to hold another entry (`Loosens`, closed under composition), so nobody is admitted. What remains moves one transaction: to
a new entry, which has no queue, to the active one through `AddTransactionToEntry`, or from the head of the queue in
`OnProcessPendingQueue`. In the second case somebody may wait there; then the entry is held, or `will_process_pending_queue`
is set and the newcomer queues up, so if it is admitted it joins readers.

**The invariant of synchronous IPC.** It has four parts, each stated for both threads of every process. `Types` says more than types:
what a thread keeps is about its own ends of channels (`FrameOf`, `TaskOf`, `RequestTo`), and what is posted, in a pipe or
queued as a reply is of a kind its writer may write, a good reply only to a request in `answered` (`MessageFrom`). That is
what `ResultIsThePeers` needs: a reply that unblocks a send has the number of the context's innermost
send, and came through the pipe of that context. `Nesting` gives the call stack a grammar (`StandsOn`: a loop
over the queue stands on the send of its context or on a message loop, a handler on a loop over the queue, a nested
message loop on its own send, a send on a handler or a loop); the numbers of the sends grow towards the top, and a context
awaits exactly the numbers of its sends on the stack. `SendsNest` compares positions, and follows because an increasing
sequence is determined by its members (`SameMembersSameSequence`). `LoopsWatched` relates the one watcher of a
process to the innermost loop: it watches that loop's send unless the loop was told to quit, and its callback is in the
tasks, once, exactly if that send is done. So a callback finds its own loop on top (`QuitsOwnLoop`), and a loop
whose send is done has a callback coming (`NestedLoopIsLeft`).
`Cancelled` strengthens `DeadChannelBlocksNobody`, which would take any posted task for a cancellation: on a channel
that is not open only a task that writes on it or closes it will do, on an open one after the shutdown only the shutdown's. `Woken` adds to
`BlockedListenerIsWoken` that a loop over the queue holds back only what its send must not dispatch, so that what it puts
back when it ends does not need the event, which has been reset.

**Lemmas on operators.** `SequenceLemmas` states what `RemoveAt`, `InsertAt`, `RemoveFirst`, `Append` and `Tail` do to
length, positions, members and injectivity, and that a bounded set of numbers has a least and a greatest one.

**What stays with TLC.** Liveness under fairness and `ENABLED` are out of the
prover's reach: `EveryRequestAnswered`, `EntriesClosed`, `SignalledWaitReturns`, `ResponseEnds`; and `NobodyIsStuck` of
synchronous IPC. `NoMissedWakeup` of
the pool says that a stalled group cannot be served, in terms of what the next operation would do; its proof would
have to run every operation once more for the group it leaves stalled, and it is checked only. `ChannelInv` would need
that each request is in one place only, and is checked only; `NoForgottenMessage` does not hold of every system of processes
(see the disagreements below), so it is checked of those of the run. The disk cache
with its refinement of `LruLists`, the history of a tab, cross-site transitions and the flow of a
response are model-checked only so far (see the plan).

## Disagreements between code and documentation

Where the code does something else than its comments, assertions or declarations
say, the statement is a property of the module, kept out of the passing run, and TLC
refutes it. `socket_pool_starvation` is a run of its own. The others are
reproduced with the configuration of the last column: a file, or a change to the
component's main configuration - the constant named there in the place of `AllScenarios`
(`BothPumps` for the message loop), and the property in the place of all others.
For example, for the first row of the navigation of a tab, `Navigation.cfg` with
`Scenarios <- HistoryAndLinks` and `INVARIANT KnownPage`.

**Socket pool, `net/socket/client_socket_pool_base.cc`**

| property | the code | the text | reproduce |
|---|---|---|---|
| `EveryRequestAnswered` | one event wakes one stalled group; if that request's connect fails at once, no other group is woken and a request waits for ever in an idle pool | line 712 "there is no starvation" | run `socket_pool_starvation` |
| `NoEmptyGroups` | releasing a socket that is not reusable, or cancelling the last request, leaves an empty group in the map | `client_socket_pool_base.h:324` "Otherwise, the Group object is removed from the map." | `SocketPoolGroups.cfg` |
| `BackupTimerIsReset` | the backup timer cannot be restarted from its own task, since its factory is not empty until the task is gone | line 1058 "just reset the timer" | `SocketPoolBackup.cfg` |

**Disk cache, `net/disk_cache/`**

| property | the code | the text | reproduce |
|---|---|---|---|
| `ListsSoundAtRest` | `FinishInsert` clears the record before `Insert` opens it again; a crash there leaves a half inserted node | `rankings.cc:26` "the transaction record ... can be used to finish the operation" | `RankingsFinish.cfg` |
| `ListsSoundAtRest` | `CheckLinks` does not look for the list of a node that is alone on it; after a crash between record and move the removal acts on another list | `rankings.h:163` "may change the provided \|list\| to reflect the list where this node is actually stored" | `RankingsMisfiled.cfg` |
| `OpenEntriesAreNormal` | an enumeration whose current entry is doomed continues along DELETED and returns an evicted entry | `eviction.cc:443` `DCHECK(ENTRY_NORMAL == info->state)` | `RankingsEnumeration.cfg` |

**HTTP cache, `net/http/`**

| property | the code | the text | reproduce |
|---|---|---|---|
| `DoomedWhileInUse` | between the departure of its last user and the posted task an entry is still active; a bypassing request dooms it then | `http_cache.cc:595` `DCHECK(entry->writer \|\| !entry->readers.empty())` | `HttpCacheDoom.cfg` |
| `OwnEntryIsActive` | a transaction dooms its entry by key; if another request has doomed it already, the disk cache is asked to doom whatever the key has now | `http_cache.cc:600` `DCHECK(trans)`, `http_cache_transaction.cc:1000` `DCHECK_EQ(OK, ret)` | `HttpCacheOwn.cfg` |
| `AuthPageKeepsResponse` | a 401 to a request in mode UPDATE, or WRITE for lack of validators, is read: the cached response is doomed | `http_cache_transaction.cc:321` "If there is a previous response in the cache then we should leave it intact." | `HttpCacheAuth.cfg` |
| `PartsAreIndicated` | the write that marks the part of a cancelled download as truncated is not waited for, its result is ignored, its callback cancelled (`http_cache_transaction.cc:184`, `:161`); if it fails the part is served as the whole | `http_cache_transaction.h:84` "We need to indicate that the response data was truncated.  Returns true on success." | `HttpCacheUnmarked.cfg` |
| `NobodyOvertakes` | while readers hold the entry and a writer waits, a reader is admitted at once | `http_cache.cc:811` "which ensures FIFO ordering" | `HttpCacheOrder.cfg` |

**IPC and threads**

| property | the code | the text | reproduce |
|---|---|---|---|
| `NoForgottenMessage` | messages held back in `DispatchMessages` for a restricted channel are put back without a task, while the ones posted for them were spent in a nested loop | `ipc_sync_channel.cc:63` "In case it's not, the PostTask dispatches the messages." | `SyncChannel.cfg`, `PumpInStar` |
| `WakesForDelayedWork` | the Qt timer that fires in a menu takes the null time of a running task for an empty queue and does not start again; the loop sleeps past a due task | `message_pump.h:33` "If \|next_delayed_work_time\| is null ... the queue of future delayed work ... is currently empty" | `MessageLoop.cfg`, `QtNative`, `Delays = {0, 1, 2}`, `MaxTime = 3` |
| `NoWorkAfterQuit` | the Qt pump does not look at `should_quit` after `processEvents` | `message_pump.h:96` "No further work is done once the quit flag is set" | `MessageLoop.cfg`, `QtQuits` |

With a nested loop a later non-nestable task also overtakes the deferred ones: `InOrder` speaks of the
others, and nothing in the code promises more.

**Navigation of a tab, `content/browser/tab_contents/`** (with `Navigation.cfg`)

| property | the code | the text | reproduce |
|---|---|---|---|
| `KnownPage` | the user goes back to an entry that the commits under way prune; the renderer then commits a page that the list does not have | `navigation_controller.cc:649` `NOTREACHED()` | `HistoryAndLinks` |
| `PendingIndexIsPending` | a transient entry is inserted before the pending one and the index is left alone | `navigation_controller.h:551` "index of pending entry if it is in entries_" | `HistoryAndHolds`, `MaxEntries = 3` |
| `AbortDiscardsItsOwn` | two loads of one URL: the abort of the first discards the pending entry of the second | `tab_contents.cc:1332` "otherwise ... the discard would discard the wrong entry" | `LinksOnly` |
| `RendererKnowsHistory` | offset and length in a Navigate are those of before a commit under way, and overwrite the renderer's | `content/common/view_messages.h:681` | `LinksOnly` |
| `PageIdsDistinct` | a reload crosses a move to a place in the page: `RendererDidNavigateInPage` replaces another entry, and two have one page id | `navigation_controller.cc:828` "This replaces the existing entry since the page ID didn't change." | `PlacesAndReload` |
| `TransientHasInterstitial` | a page reloads itself, the user proceeds: the transient entry stays | `navigation_controller.h:248` "any navigation causes it to be removed and discarded" | `HoldsAndReloads` |
| `NothingStaysPending` | going back to a subframe navigation leaves the committed entry pending | `navigation_controller.h:539` "An entry we haven't gotten a response for yet." | `HistoryAndFrames` |
| `ProceededInterstitialEnds` | the user proceeds through the interstitial of a load that was replaced; it stays and no longer reacts | `interstitial_page.cc:465` "we'll get hidden when the navigation is committed" | `HoldsOnly` |

**Cross-site transitions, `content/browser/`** (with `RenderViewHostManager.cfg`)

| property | the code | the text | reproduce |
|---|---|---|---|
| `SuspendedHasAnswer` | the close button is clicked while beforeunload runs; a refusal then neither cancels nor resumes the pending navigation | `render_view_host_manager.cc:621` "If the handler returns false, we'll have to cancel the request." | `CloseOnly` |
| `PausedHasResumer` | a host that commits about:blank stays marked as cross-site; its next request is held back for ever | `render_view_host.h:199` "and again after the corresponding OnCrossSiteResponse" | `BlankAndClick` |
| `PausedHasResumer` | a late beforeunload answer stops the monitor of the unload handler; if the renderer then dies, the response is held back for ever | `render_view_host.cc:317` "in case the renderer hangs in the unload handler" | `CrashOnly` |
| `LateAnswerIgnored` | a late refusal cancels a navigation that the monitor has let go on | `render_view_host_manager.cc:144` "we'll ignore it in this case because it took too long" | `JustLinks` |
| `ClosesOnlyIfAsked` | a navigation within the site leaves the wait for beforeunload; the monitor closes the tab | `render_view_host.cc:228` "we'll incorrectly close the tab" | `JustLinks` |
| `LatestCommitCounts` | after a crash the commit of the new renderer is taken for the answer the dead one owed, and dropped | `render_view_host.cc:1041` "sent it before hearing the ViewMsg_Stop message" | `JustCrashes` |
| `HangIsWatched` | the acknowledgement of an input event stops the monitor of beforeunload | `render_view_host.cc:301` "in case the renderer hangs in the beforeunload handler" | `InputOnly` |
| `HangIsWatched` | the monitor that fired is not started again for the next navigation | the same | `JustLinks` |
| `HungCloseCloses` | a hung page cannot be closed while a cross-site navigation is pending | `render_view_host.cc:293` "otherwise it might be impossible to close" | `CloseAndHang` |

One monitor and one flag serve every question to a page, and their answers bear no name: that
is behind most rows, and with crashes `SuspendedHasAnswer` fails too, for the same reason as the third. The main run therefore
asks for `SuspendedHasAnswer` without clicks on the close button and crashes, for
`PausedHasResumer` without about:blank and crashes, and likewise in `SwapsInTurn`.

**Responses, `content/`** (with `ResourceFlow.cfg`)

| property | the code | the text | reproduce |
|---|---|---|---|
| `SuccessIsWhole` | a response sniffed over several reads that then waits for the plug-ins goes on with the count of the last read only | `resource_handler.h:68` "Data (*bytes_read bytes) was written into the buffer" | `SniffedPlugin` |
| `SuccessIsWhole` | when no shared buffer can be had the response ends early, as a success | `resource_dispatcher_host.cc:1458` "we've either finished (success) or we had an error" | `NoMemory` |
| `RequestEnds` | a request cancelled while flow control pauses it is never resumed nor removed: the renderer no longer acknowledges | `content/common/resource_dispatcher.cc:178` "will then cause a complete message to be sent" | `Cancelled` |
| `ReadsLiveJob` | a cancel between the resumption and the first read: `ResumeRequest` reads a job that is done | `net/url_request/url_request.cc:479` `DCHECK(!job_->is_done())` | `CancelledPlugin` |
| `RequestStillThere` | a deferred message whose handling cancels the request erases the entry `OnMessageReceived` goes on to use | `resource_dispatcher.cc:272` "should remain valid here" | `PeerCancels` |

## Limits and abstractions

*Socket pool.* The destructor is not modelled; load states, logging, histograms and
used-socket statistics are left out; which idle socket of a group is used or
closed and which of several equally urgent groups is woken is a free choice
(in the code, list and map order); `MaxGeneration` bounds the number of flushes.

*Disk cache.* Writes that reached the files stay there when the process dies (a
process crash, not a power failure). Hash chains have one entry each. The
choice of the entry to trim is the oldest closed one of any list; times and
thresholds are left out. `reuse_count` within a list is a free choice.
`RestartCache` after a critical error is not modelled; `NoCriticalError` shows it is
not reached. For the same reason the error path of `NewEntry` for insane links
has no action. An enumeration follows one list at a time. `SyncDoomEntriesBetween`
is a sequence of `DoomClosedEntry` steps. Data streams, sparse entries, block files,
statistics and failures of the file system are left out; so is the RESERVED list, which is never used.

*HTTP cache.* One key: keys meet only in the creation of the backend. Disk operations never complete
within the call; those of one entry complete in order, and truncating old data, whose result
`DoTruncateCachedDataComplete` ignores, works. Byte ranges and resumption (`PartialData`), metadata, the record and
playback modes and the destruction of the cache are left out. A DCHECK does nothing.

*Waitable events.* Destroying an event or a loop under a watcher is its user's fault and has no
action. Sequences of statements that hold one lock and touch nothing else are one step.

*Synchronous IPC.* Asynchronous messages, message filters and the wire format are left out; a pipe
keeps its order and loses what is in it when an end closes.

*Message loop.* Destruction of the loop (`DeletePendingTasks`), observers, dispatchers, the I/O pump and the start
and stop of threads are left out. A clock of a few ticks stands for time.

*Navigation.* One SiteInstance. Interstitials are those of certificate errors (`SSLPolicy`, `SSLBlockingPage`); the user's
answer goes to the page, also where this browser takes it in a dialog of its own (`ssl_modal_dialog_qt.cc`). The page of the
SafeBrowsing service holds the request before it starts and closes the one before itself, and is left out. Session
restore, copies between tabs, POST warnings, redirects and virtual URLs are left out; a failed load shows an error page, which commits like another page.

*Cross-site transitions.* Which URLs change the SiteInstance is the choice between `NavigateAway` and
`NavigateWithin`. WebUI bindings, prerendered hosts, redirects and failed requests are left out.

*Responses.* One request. Downloads, redirects, authentication, uploads, blocked requests, the memory budget of a
process and the buffer shared between readers (`g_spare_read_buffer`) are left out.

## Not modelled

* Painting (`render_widget.cc`), whose protocol of updates and acknowledgements is next in the plan; the host
  resolver, whose jobs would add a worker thread and address changes; settings files
  (`important_file_writer.cc`), whose hard part, the rename, is the operating system's.
* HTTP and SPDY transactions are long sequential chains over the network; their queueing is the socket
  pool's. Block files are bitmaps in mapped files.
* The tab strip, media pipeline, application cache and databases, sync, user interface and glue code
  lie outside page loading; the reasons are in `PROJECT.json`.

## Plan

Done: models of the socket pool, the disk cache lists, the HTTP cache, waitable events, synchronous IPC, the
message loop, the history of a tab, cross-site transitions and the flow of a response; liveness
for four of them and the refinement of the lists; the proofs for the pool, the HTTP cache, waitable events,
the message loop and synchronous IPC.

1. Proofs for `ResourceFlow` (`CountMatches`, `UnackedBounded`); `NothingLost` and `NoForgottenReply` of `SyncChannel`.
2. `SocketPool`: an abstract specification of a handle's life (unbound, waiting,
   holding) with a refinement.
3. Proofs for `RenderViewHostManager` (`HostsAreKnown`) and `Navigation` (`PageIdsDistinct` without reloads of places).
4. `RenderWidget` painting; `HostResolver` jobs.
5. Proofs for `Rankings`: that one `Insert` or `Remove` with recovery is atomic.
