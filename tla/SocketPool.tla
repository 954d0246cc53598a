----------------------------- MODULE SocketPool -----------------------------
(***************************************************************************)
(* ClientSocketPoolBaseHelper (net/socket/client_socket_pool_base.cc) and  *)
(* the handles that use it (net/socket/client_socket_handle.cc and .h).    *)
(*                                                                         *)
(* The pool runs on the network thread: every entry point (a client's Init *)
(* or Reset, a ConnectJob's completion, a timer, a posted task, an IP      *)
(* address change) runs to completion and is one action here.  What makes  *)
(* it hard is the order in which these arrive, and that each of them goes  *)
(* on to wake up other requests before it returns.  The helper functions   *)
(* are therefore operators from a pool to a pool or, where the network     *)
(* decides the outcome, to the SET of pools that may result; an action     *)
(* picks one element of that set.                                          *)
(*                                                                         *)
(* Abstractions: a ConnectJob and the socket it produces share one         *)
(* identity in Sockets.  Whether a socket is still connected when the pool *)
(* looks at it is the network's choice.  Which of several idle sockets of  *)
(* a group is used or closed, and which of several equally urgent stalled  *)
(* groups is woken, depend on list and map order and are left open.        *)
(***************************************************************************)
EXTENDS Integers, FiniteSets, SequencesExt

CONSTANTS
  Groups,              \* group names (host and port)
  Handles,             \* ClientSocketHandle objects
  Sockets,             \* identities for ConnectJobs and sockets: bounds how many exist at once
  MaxSockets,          \* max_sockets_
  MaxSocketsPerGroup,  \* max_sockets_per_group_
  Priority,            \* RequestPriority of the requests of a handle, 0 is HIGHEST
  IgnoreLimits,        \* handles, or NoHandle for preconnects, with LOAD_IGNORE_LIMITS
  ConnectResults,      \* what ConnectJob::Connect() may return at once
  BackupJobsEnabled,   \* connect_backup_jobs_enabled_
  MaxGeneration,       \* bound on the number of Flush() calls
  NoGroup, NoHandle, NoSocket, NoResult

ASSUME PoolAssumption ==
  /\ IsFiniteSet(Groups) /\ IsFiniteSet(Handles) /\ IsFiniteSet(Sockets)
  /\ NoGroup \notin Groups /\ NoHandle \notin Handles /\ NoSocket \notin Sockets
  /\ MaxSockets \in Nat /\ MaxSocketsPerGroup \in Nat /\ MaxSocketsPerGroup <= MaxSockets
  /\ Priority \in [Handles -> Nat]
  /\ IgnoreLimits \subseteq Handles \cup {NoHandle}
  /\ ConnectResults \subseteq {"OK", "PENDING", "ERR", "ERR_WITH_SOCKET"}
  /\ BackupJobsEnabled \in BOOLEAN
  /\ MaxGeneration \in Nat
  /\ NoResult \notin {"OK", "ERR", "ABORTED"}

VARIABLE pool

(***************************************************************************)
(* The state of the pool and of its handles.                               *)
(***************************************************************************)
Results == {"OK", "ERR", "ABORTED"}

PoolState ==
  [groups     : SUBSET Groups,                      \* keys of group_map_
   idle       : [Groups -> SUBSET Sockets],         \* Group::idle_sockets_
   jobs       : [Groups -> SUBSET Sockets],         \* Group::jobs_
   pending    : [Groups -> Seq(Handles)],           \* Group::pending_requests_
   active     : [Groups -> Int],                    \* Group::active_socket_count_
   backup     : [Groups -> BOOLEAN],                \* !Group::method_factory_.empty()
   unusedPre  : SUBSET Sockets,                     \* jobs in state UNUSED_PRECONNECT
   idleCount  : Int,                                \* idle_socket_count_
   connecting : Int,                                \* connecting_socket_count_
   handedOut  : Int,                                \* handed_out_socket_count_
   generation : Nat,                                \* pool_generation_number_
   callback   : [Handles -> Results \cup {NoResult}],    \* pending_callback_map_
   hgroup     : [Handles -> Groups \cup {NoGroup}],      \* ClientSocketHandle::group_name_
   hinit      : [Handles -> BOOLEAN],                    \* ClientSocketHandle::is_initialized_
   hsocket    : [Handles -> Sockets \cup {NoSocket}],    \* ClientSocketHandle::socket_
   hpoolId    : [Handles -> Nat \cup {-1}],              \* ClientSocketHandle::pool_id_
   stale      : SUBSET Sockets]             \* history: sockets that were open during a Flush()

EmptyPool ==
  [groups     |-> {},
   idle       |-> [g \in Groups |-> {}],
   jobs       |-> [g \in Groups |-> {}],
   pending    |-> [g \in Groups |-> <<>>],
   active     |-> [g \in Groups |-> 0],
   backup     |-> [g \in Groups |-> FALSE],
   unusedPre  |-> {},
   idleCount  |-> 0,
   connecting |-> 0,
   handedOut  |-> 0,
   generation |-> 0,
   callback   |-> [h \in Handles |-> NoResult],
   hgroup     |-> [h \in Handles |-> NoGroup],
   hinit      |-> [h \in Handles |-> FALSE],
   hsocket    |-> [h \in Handles |-> NoSocket],
   hpoolId    |-> [h \in Handles |-> -1],
   stale      |-> {}]

IdleSockets(s) == UNION {s.idle[g] : g \in Groups}
ConnectJobs(s) == UNION {s.jobs[g] : g \in Groups}
Holders(s) == {h \in Handles : s.hsocket[h] # NoSocket}
HeldSockets(s) == {s.hsocket[h] : h \in Holders(s)}

\* Identities that no live ConnectJob or socket has: a new job may take any of them.
FreeSockets(s) == Sockets \ (IdleSockets(s) \cup ConnectJobs(s) \cup HeldSockets(s))

(***************************************************************************)
(* Group and pool predicates.                                              *)
(***************************************************************************)
IsEmpty(s, g) ==
  /\ s.active[g] = 0
  /\ s.idle[g] = {}
  /\ s.jobs[g] = {}
  /\ s.pending[g] = <<>>

NumActiveSocketSlots(s, g) == s.active[g] + Cardinality(s.jobs[g]) + Cardinality(s.idle[g])

HasAvailableSocketSlot(s, g) == NumActiveSocketSlots(s, g) < MaxSocketsPerGroup

IsStalled(s, g) ==
  /\ HasAvailableSocketSlot(s, g)
  /\ Len(s.pending[g]) > Cardinality(s.jobs[g])

TopPendingPriority(s, g) == Priority[Head(s.pending[g])]

\* Fault: sockets that are still connecting are not counted.
ReachedMaxIgnoringConnecting(s) == s.handedOut + s.idleCount >= MaxSockets

ReachedMaxSocketsLimit(s) == s.handedOut + s.connecting + s.idleCount >= MaxSockets

(***************************************************************************)
(* Elementary operations.                                                  *)
(***************************************************************************)
GetOrCreateGroup(s, g) == [s EXCEPT !.groups = @ \cup {g}]

\* ~Group() also cancels the backup timer.
RemoveGroup(s, g) == [s EXCEPT !.groups = @ \ {g}, !.backup[g] = FALSE]

RemoveGroupIfEmpty(s, g) == IF IsEmpty(s, g) THEN RemoveGroup(s, g) ELSE s

\* Fault: ahead of the requests of the same priority.
InsertPositionNewestFirst(q, h) ==
  CHOOSE i \in 1..(Len(q) + 1) :
    /\ \A j \in 1..(i - 1) : Priority[h] > Priority[q[j]]
    /\ i <= Len(q) => Priority[h] <= Priority[q[i]]

\* Behind every request of at least the same priority: older requests first.
InsertPosition(q, h) ==
  CHOOSE i \in 1..(Len(q) + 1) :
    /\ \A j \in 1..(i - 1) : Priority[h] >= Priority[q[j]]
    /\ i <= Len(q) => Priority[h] < Priority[q[i]]

InsertRequestIntoQueue(s, g, h) ==
  [s EXCEPT !.pending[g] = InsertAt(@, InsertPosition(@, h), h)]

\* Fault: the backup timer outlives the last request.
RemoveRequestKeepTimer(s, g, i) == [s EXCEPT !.pending[g] = RemoveAt(@, i)]

\* Without any request left the group's backup timer is cancelled.
RemoveRequestFromQueue(s, g, i) ==
  LET q == RemoveAt(s.pending[g], i)
  IN  [s EXCEPT !.pending[g] = q, !.backup[g] = @ /\ q # <<>>]

\* Fault: the pool-wide counter is not decremented.
RemoveConnectJobKeepCount(s, g, k) ==
  [s EXCEPT !.jobs[g] = @ \ {k}, !.unusedPre = @ \ {k}, !.backup[g] = @ /\ s.jobs[g] # {k}]

\* Without any job left the group's backup timer is cancelled.
RemoveConnectJob(s, g, k) ==
  LET js == s.jobs[g] \ {k}
  IN  [s EXCEPT !.connecting = @ - 1,
                !.jobs[g]    = js,
                !.unusedPre  = @ \ {k},
                !.backup[g]  = @ /\ js # {}]

AddConnectJob(s, g, k) == [s EXCEPT !.connecting = @ + 1, !.jobs[g] = @ \cup {k}]

HandOutSocket(s, g, h, k) ==
  [s EXCEPT !.hsocket[h] = k,
            !.hpoolId[h] = s.generation,
            !.handedOut  = @ + 1,
            !.active[g]  = @ + 1]

AddIdleSocket(s, g, k) == [s EXCEPT !.idle[g] = @ \cup {k}, !.idleCount = @ + 1]

\* Fault: the socket stays on the idle list.
RemoveIdleSocketKeepEntry(s, g, k) == [s EXCEPT !.idleCount = @ - 1]

RemoveIdleSocket(s, g, k) == [s EXCEPT !.idle[g] = @ \ {k}, !.idleCount = @ - 1]

InvokeUserCallbackLater(s, h, rv) == [s EXCEPT !.callback[h] = rv]

\* Every way to close one idle socket outside group x; {} if there is none.
CloseOneIdleSocketExceptInGroup(s, x) ==
  UNION {{RemoveGroupIfEmpty(RemoveIdleSocket(s, g, k), g) : k \in s.idle[g]}
           : g \in Groups \ {x}}

CloseOneIdleSocket(s) == CloseOneIdleSocketExceptInGroup(s, NoGroup)

(***************************************************************************)
(* Requesting a socket.                                                    *)
(***************************************************************************)
Outcome(s, rv) == [st |-> s, rv |-> rv]

\* The idle sockets in dead turn out to be disconnected and are deleted; one
\* of the others is handed out.
AssignIdleSocketToGroup(s, g, h) ==
  UNION {LET t == [s EXCEPT !.idle[g] = @ \ dead, !.idleCount = @ - Cardinality(dead)]
         IN  IF t.idle[g] = {}
             THEN {Outcome(t, "NONE")}
             ELSE {Outcome(HandOutSocket(RemoveIdleSocket(t, g, k), g, h, k), "OK")
                     : k \in t.idle[g]}
           : dead \in SUBSET s.idle[g]}

\* Group::StartBackupSocketTimer, called only when no timer is pending.
StartBackupSocketTimer(s, g) == [s EXCEPT !.backup[g] = TRUE]

\* NewConnectJob, Connect and what follows its return value.
ConnectPending(s, g, h, k) ==
  LET t == IF BackupJobsEnabled /\ IsEmpty(s, g) /\ ~s.backup[g] /\ h # NoHandle
           THEN StartBackupSocketTimer(s, g) ELSE s
      u == AddConnectJob(t, g, k)
  IN  Outcome(IF h = NoHandle THEN [u EXCEPT !.unusedPre = @ \cup {k}] ELSE u, "PENDING")

ConnectNewSocket(s, g, h) ==
  UNION {{CASE rv = "OK" ->
                 Outcome(IF h = NoHandle THEN AddIdleSocket(s, g, k)
                                         ELSE HandOutSocket(s, g, h, k), "OK")
            [] rv = "PENDING" -> ConnectPending(s, g, h, k)
            [] rv = "ERR_WITH_SOCKET" /\ h # NoHandle ->
                 Outcome(HandOutSocket(s, g, h, k), "ERR")
            [] OTHER -> Outcome(RemoveGroupIfEmpty(s, g), "ERR")
              : k \in FreeSockets(s)} : rv \in ConnectResults}

\* RequestSocketInternal after the attempt to reuse an idle socket.
ActivateNewSocket(s, g, h) ==
  LET preconnects == s.jobs[g] \cap s.unusedPre
      limited == h \notin IgnoreLimits
  IN  IF h # NoHandle /\ preconnects # {}
      THEN {Outcome([s EXCEPT !.unusedPre = @ \ {k}], "PENDING") : k \in preconnects}
      ELSE IF limited /\ ~HasAvailableSocketSlot(s, g)
      THEN {Outcome(s, "PENDING")}
      ELSE IF ~(limited /\ ReachedMaxSocketsLimit(s))
      THEN ConnectNewSocket(s, g, h)
      ELSE IF s.idleCount <= 0
      THEN {Outcome(s, "PENDING")}
      ELSE IF CloseOneIdleSocketExceptInGroup(s, g) # {}
      THEN UNION {ConnectNewSocket(t, g, h) : t \in CloseOneIdleSocketExceptInGroup(s, g)}
      ELSE IF h = NoHandle
      THEN {Outcome(s, "ERR")}                \* ERR_PRECONNECT_MAX_SOCKET_LIMIT
      ELSE ConnectNewSocket(s, g, h)

\* h = NoHandle is a preconnect; only preconnects set NO_IDLE_SOCKETS.
RequestSocketInternal(s, g, h) ==
  LET s1 == GetOrCreateGroup(s, g)
  IN  IF h = NoHandle
      THEN ActivateNewSocket(s1, g, h)
      ELSE UNION {IF a.rv = "OK" THEN {a} ELSE ActivateNewSocket(a.st, g, h)
                    : a \in AssignIdleSocketToGroup(s1, g, h)}

(***************************************************************************)
(* Waking up pending requests.                                             *)
(***************************************************************************)
\* Fault: ERR_IO_PENDING is taken for an answer.
ProcessPendingRequestAnyResult(s, g) ==
  LET h == Head(s.pending[g])
  IN  {InvokeUserCallbackLater(RemoveRequestFromQueue(r.st, g, 1), h, r.rv)
         : r \in RequestSocketInternal(s, g, h)}

ProcessPendingRequest(s, g) ==
  LET h == Head(s.pending[g])
      Done(r) == LET t == RemoveGroupIfEmpty(RemoveRequestFromQueue(r.st, g, 1), g)
                 IN  InvokeUserCallbackLater(t, h, r.rv)
  IN  {IF r.rv = "PENDING" THEN r.st ELSE Done(r) : r \in RequestSocketInternal(s, g, h)}

OnAvailableSocketSlot(s, g) ==
  IF IsEmpty(s, g) THEN {RemoveGroup(s, g)}
  ELSE IF s.pending[g] # <<>> THEN ProcessPendingRequest(s, g)
  ELSE {s}

TopStalledGroups(s) ==
  LET stalled == {g \in s.groups : s.pending[g] # <<>> /\ IsStalled(s, g)}
  IN  {g \in stalled : \A x \in stalled : TopPendingPriority(s, g) <= TopPendingPriority(s, x)}

\* Fault: at the limit nothing is done, although an idle socket could be closed.
CheckForStalledKeepIdle(s) ==
  IF TopStalledGroups(s) = {} \/ ReachedMaxSocketsLimit(s) THEN {s}
  ELSE UNION {OnAvailableSocketSlot(s, g) : g \in TopStalledGroups(s)}

\* Wakes at most one stalled group.
CheckForStalledSocketGroups(s) ==
  LET Wake(g) == IF ~ReachedMaxSocketsLimit(s) THEN OnAvailableSocketSlot(s, g)
                 ELSE IF s.idleCount > 0
                 THEN UNION {OnAvailableSocketSlot(t, g) : t \in CloseOneIdleSocket(s)}
                 ELSE {s}
  IN  IF TopStalledGroups(s) = {} THEN {s} ELSE UNION {Wake(g) : g \in TopStalledGroups(s)}

OnAvailableThenCheckStalled(s, g) ==
  UNION {CheckForStalledSocketGroups(t) : t \in OnAvailableSocketSlot(s, g)}

\* Fault: the generation the socket was handed out in is not looked at.
ReleaseSocketAnyGeneration(s, g, k, id, connected) ==
  LET t == [s EXCEPT !.handedOut = @ - 1, !.active[g] = @ - 1]
  IN  IF connected THEN OnAvailableThenCheckStalled(AddIdleSocket(t, g, k), g)
      ELSE CheckForStalledSocketGroups([t EXCEPT !.stale = @ \ {k}])

\* Fault: nobody is woken when the socket cannot be reused.
ReleaseSocketNoWakeup(s, g, k, id, connected) ==
  LET t == [s EXCEPT !.handedOut = @ - 1, !.active[g] = @ - 1]
  IN  IF connected /\ id = s.generation
      THEN OnAvailableThenCheckStalled(AddIdleSocket(t, g, k), g)
      ELSE {[t EXCEPT !.stale = @ \ {k}]}

\* The client gives back socket k, handed out with pool id `id`; connected
\* says whether IsConnectedAndIdle() holds.
ReleaseSocket(s, g, k, id, connected) ==
  LET t == [s EXCEPT !.handedOut = @ - 1, !.active[g] = @ - 1]
  IN  IF connected /\ id = s.generation
      THEN OnAvailableThenCheckStalled(AddIdleSocket(t, g, k), g)
      ELSE CheckForStalledSocketGroups([t EXCEPT !.stale = @ \ {k}])

CancelPendingRequest(s, g, h) ==
  LET i == CHOOSE j \in 1..Len(s.pending[g]) : s.pending[g][j] = h
      t == RemoveRequestFromQueue(s, g, i)
  IN  IF ~Contains(s.pending[g], h) THEN {s}
      ELSE IF t.jobs[g] # {} /\ ReachedMaxSocketsLimit(t)
      THEN UNION {CheckForStalledSocketGroups(RemoveConnectJob(t, g, k)) : k \in t.jobs[g]}
      ELSE {t}

\* Fault: an answer that is already on its way is not looked for.
CancelRequestQueueOnly(s, g, h) == CancelPendingRequest(s, g, h)

\* A socket that came with an error is disconnected before it is released.
CancelRequest(s, g, h) ==
  LET k == s.hsocket[h]
      t == [s EXCEPT !.callback[h] = NoResult, !.hsocket[h] = NoSocket]
  IN  IF s.callback[h] = NoResult THEN CancelPendingRequest(s, g, h)
      ELSE IF k = NoSocket THEN {t}
      ELSE UNION {ReleaseSocket(t, g, k, s.hpoolId[h], c)
                    : c \in IF s.callback[h] = "OK" THEN BOOLEAN ELSE {FALSE}}

(***************************************************************************)
(* A ConnectJob has finished, result "OK", "ERR" or "ERR_WITH_SOCKET".     *)
(***************************************************************************)
\* Fault: the request that gets the socket stays in the queue.
OnConnectJobCompleteKeepRequest(s, g, k, result) ==
  LET h == Head(s.pending[g])
      t == RemoveConnectJob(s, g, k)
  IN  IF s.pending[g] = <<>>
      THEN OnAvailableThenCheckStalled(IF result = "OK" THEN AddIdleSocket(t, g, k) ELSE t, g)
      ELSE {InvokeUserCallbackLater(HandOutSocket(t, g, h, k), h, "OK")}

OnConnectJobComplete(s, g, k, result) ==
  LET waiting == s.pending[g] # <<>>
      h == Head(s.pending[g])
      t == RemoveConnectJob(IF waiting THEN RemoveRequestFromQueue(s, g, 1) ELSE s, g, k)
  IN  IF waiting /\ result # "ERR"
      THEN {InvokeUserCallbackLater(HandOutSocket(t, g, h, k), h,
                                    IF result = "OK" THEN "OK" ELSE "ERR")}
      ELSE OnAvailableThenCheckStalled(
             IF waiting THEN InvokeUserCallbackLater(t, h, "ERR")
             ELSE IF result = "OK" THEN AddIdleSocket(t, g, k) ELSE t, g)

(***************************************************************************)
(* The handle's side.                                                      *)
(***************************************************************************)
\* ResetInternal without the call into the pool.
ClearHandle(s, h) ==
  [s EXCEPT !.hinit[h] = FALSE, !.hgroup[h] = NoGroup, !.hpoolId[h] = -1]

\* Fault: the result is not looked at.
HandleInitCompletionAlways(s, h) == [s EXCEPT !.hinit[h] = TRUE]

\* A failed request leaves the handle unbound unless an error socket came with it.
HandleInitCompletion(s, h) ==
  IF s.hsocket[h] = NoSocket THEN ClearHandle(s, h) ELSE [s EXCEPT !.hinit[h] = TRUE]

(***************************************************************************)
(* Actions.                                                                *)
(***************************************************************************)
\* ClientSocketHandle::Init and ClientSocketPoolBaseHelper::RequestSocket.
RequestSocket(h, g) ==
  /\ pool.hgroup[h] = NoGroup
  /\ \E r \in RequestSocketInternal([pool EXCEPT !.hgroup[h] = g], g, h) :
       pool' = IF r.rv = "PENDING" THEN InsertRequestIntoQueue(r.st, g, h)
                                   ELSE HandleInitCompletion(r.st, h)

\* A preconnect for one socket more than the group has.  The loop of
\* RequestSockets() for n more sockets is n such steps, stopped by an error.
RequestSockets(g) ==
  /\ HasAvailableSocketSlot(pool, g)
  /\ \E r \in RequestSocketInternal(pool, g, NoHandle) : pool' = RemoveGroupIfEmpty(r.st, g)

\* ClientSocketHandle::Reset of a handle that holds a socket; connected is
\* FALSE when the client or the peer has disconnected it.
ResetInitialized(h, connected) ==
  /\ pool.hgroup[h] # NoGroup
  /\ pool.hinit[h]
  /\ \E t \in ReleaseSocket([pool EXCEPT !.hsocket[h] = NoSocket],
                            pool.hgroup[h], pool.hsocket[h], pool.hpoolId[h], connected) :
       pool' = ClearHandle(t, h)

\* ClientSocketHandle::Reset of a handle whose request is still pending.
ResetPending(h) ==
  /\ pool.hgroup[h] # NoGroup
  /\ ~pool.hinit[h]
  /\ \E t \in CancelRequest(pool, pool.hgroup[h], h) : pool' = ClearHandle(t, h)

\* ConnectJob::NotifyDelegateOfCompletion, or OnTimeout with result "ERR".
ConnectJobDone(g, k) ==
  /\ k \in pool.jobs[g]
  /\ \E result \in {"OK", "ERR", "ERR_WITH_SOCKET"} :
       pool' \in OnConnectJobComplete(pool, g, k, result)

\* The posted task; the callback is ClientSocketHandle::OnIOComplete.
InvokeUserCallback(h) ==
  /\ pool.callback[h] # NoResult
  /\ pool' = HandleInitCompletion([pool EXCEPT !.callback[h] = NoResult], h)

\* The factory that made the task is not empty() while the task runs, so the
\* StartBackupSocketTimer() on the blocked path returns without a new timer.
OnBackupSocketTimerFired(g) ==
  LET stopped(s) == [s EXCEPT !.backup[g] = FALSE]
      blocked == ReachedMaxSocketsLimit(pool) \/ ~HasAvailableSocketSlot(pool, g)
      results(k, rv) == LET t == AddConnectJob(pool, g, k)
                        IN  IF rv = "PENDING" THEN {t} ELSE OnConnectJobComplete(t, g, k, rv)
  IN  /\ pool.backup[g]
      /\ \/ pool' = stopped(pool)        \* blocked, or the first job still resolves its host
         \/ /\ ~blocked
            /\ pool.jobs[g] # {} /\ pool.pending[g] # <<>>
            /\ \E k \in FreeSockets(pool), rv \in ConnectResults :
                 \E t \in results(k, rv) : pool' = stopped(t)

\* Idle sockets in dead timed out, were disconnected or received data.  Every
\* empty group in the map goes, not only the ones that lost a socket.
CleanupIdleSockets(dead) ==
  LET t == [pool EXCEPT !.idle = [g \in Groups |-> @[g] \ dead],
                        !.idleCount = @ - Cardinality(dead)]
      empty == {g \in t.groups : IsEmpty(t, g)}
  IN  /\ pool.idleCount # 0
      /\ dead \subseteq IdleSockets(pool)
      /\ pool' = [t EXCEPT !.groups = @ \ empty,
                           !.backup = [g \in Groups |-> @[g] /\ g \notin empty]]

\* Flush() or OnIPAddressChanged(): CancelAllConnectJobs, CloseIdleSockets,
\* AbortAllRequests, each dropping the groups that become empty.
Flush ==
  /\ pool.generation < MaxGeneration
  /\ pool' = [pool EXCEPT
       !.generation = @ + 1,
       !.connecting = @ - Cardinality(ConnectJobs(pool)),
       !.jobs       = [g \in Groups |-> {}],
       !.unusedPre  = {},
       !.backup     = [g \in Groups |-> FALSE],
       !.idle       = [g \in Groups |-> {}],
       !.idleCount  = @ - Cardinality(IdleSockets(pool)),
       !.pending    = [g \in Groups |-> <<>>],
       !.callback   = [h \in Handles |-> IF \E g \in Groups : Contains(pool.pending[g], h)
                                         THEN "ABORTED" ELSE @[h]],
       !.groups     = {g \in @ : pool.active[g] # 0},
       !.stale      = HeldSockets(pool)]

Init == pool = EmptyPool

Next ==
  \/ \E h \in Handles, g \in Groups : RequestSocket(h, g)
  \/ \E g \in Groups : RequestSockets(g)
  \/ \E h \in Handles, connected \in BOOLEAN : ResetInitialized(h, connected)
  \/ \E h \in Handles : ResetPending(h)
  \/ \E g \in Groups, k \in Sockets : ConnectJobDone(g, k)
  \/ \E h \in Handles : InvokeUserCallback(h)
  \/ \E g \in Groups : OnBackupSocketTimerFired(g)
  \/ \E dead \in SUBSET Sockets : CleanupIdleSockets(dead)
  \/ Flush

Spec == Init /\ [][Next]_pool

-----------------------------------------------------------------------------
(***************************************************************************)
(* Properties.                                                             *)
(***************************************************************************)
\* Every field of the pool and of the handles has its type.
TypeOK == pool \in PoolState

\* A socket or ConnectJob has one owner: it is idle in one group, or connecting
\* in one group, or held by one handle (ownership through scoped_ptr and raw
\* pointers in HandOutSocket, AddIdleSocket, AddJob).
SingleOwnerIn(s) ==
  /\ \A g1, g2 \in Groups : g1 # g2 => /\ s.idle[g1] \cap s.idle[g2] = {}
                                       /\ s.jobs[g1] \cap s.jobs[g2] = {}
  /\ IdleSockets(s) \cap ConnectJobs(s) = {}
  /\ HeldSockets(s) \cap (IdleSockets(s) \cup ConnectJobs(s)) = {}
  /\ \A h1, h2 \in Holders(s) : h1 # h2 => s.hsocket[h1] # s.hsocket[h2]

SingleOwner == SingleOwnerIn(pool)

\* The three pool-wide counters and the per-group active counts, which are
\* kept by hand in a dozen places, equal the populations they count.
CountersMatchIn(s) ==
  /\ s.idleCount = Cardinality(IdleSockets(s))
  /\ s.connecting = Cardinality(ConnectJobs(s))
  /\ s.handedOut = Cardinality(Holders(s))
  /\ \A g \in Groups : s.active[g] = Cardinality({h \in Holders(s) : s.hgroup[h] = g})

CountersMatch == CountersMatchIn(pool)

\* No request is lost or answered twice: a handle waits for the pool exactly
\* when its request is in its group's queue, once, or its result is in
\* pending_callback_map_, never both; no other queue names the handle.  Only
\* then do CancelRequest and InvokeUserCallback find what they look for.
Queued(s, h) == \E g \in Groups : Contains(s.pending[g], h)

Waiting(s, h) == s.hgroup[h] # NoGroup /\ ~s.hinit[h]

RequestsConservedIn(s) ==
  /\ \A h \in Handles : Waiting(s, h) <=> Queued(s, h) \/ s.callback[h] # NoResult
  /\ \A h \in Handles : ~(Queued(s, h) /\ s.callback[h] # NoResult)
  /\ \A g \in Groups, h \in Handles : Contains(s.pending[g], h) => s.hgroup[h] = g
  /\ \A g \in Groups : IsInjective(s.pending[g])

RequestsConserved == RequestsConservedIn(pool)

\* What a handle may find: a queued request has no socket yet, a result OK
\* comes with a socket, an initialized handle has one, an unbound one has none.
HandlesConsistentIn(s) ==
  \A h \in Handles :
    /\ s.hinit[h] => s.hgroup[h] # NoGroup /\ s.hsocket[h] # NoSocket
    /\ Queued(s, h) \/ s.hgroup[h] = NoGroup => s.hsocket[h] = NoSocket
    /\ s.callback[h] = "OK" => s.hsocket[h] # NoSocket

HandlesConsistent == HandlesConsistentIn(pool)

\* A group that has anything left is in group_map_, so that the
\* CHECK(i != group_map_.end()) of ReleaseSocket, OnConnectJobComplete and
\* CancelRequest hold.
GroupsInMapIn(s) ==
  \A g \in Groups : g \notin s.groups => IsEmpty(s, g) /\ ~s.backup[g]

GroupsInMap == GroupsInMapIn(pool)

\* When a backup timer fires there is a job to back up and a request to do it
\* for: the NOTREACHED() and the LOG(DFATAL) of OnBackupSocketTimerFired.
BackupTimerHasWorkIn(s) ==
  \A g \in Groups : s.backup[g] => s.jobs[g] # {} /\ s.pending[g] # <<>>

BackupTimerHasWork == BackupTimerHasWorkIn(pool)

\* The groups are kept up: whatever has something left is found in the map, and no
\* timer runs for a group with nothing to do.
GroupsKeptUp == GroupsInMap /\ BackupTimerHasWork

\* A socket that was open while the pool was flushed is never made idle, so it
\* is never reused: the purpose of pool_generation_number_.
NoReuseAcrossFlushIn(s) ==
  /\ s.stale \cap (IdleSockets(s) \cup ConnectJobs(s)) = {}
  /\ \A h \in Holders(s) : s.hpoolId[h] = s.generation => s.hsocket[h] \notin s.stale

NoReuseAcrossFlush == NoReuseAcrossFlushIn(pool)

\* Unless requests ignore the limits, neither the pool nor a group ever has
\* more sockets, connecting ones included, than its limit.
WithinLimitsIn(s) ==
  IgnoreLimits = {} =>
    /\ s.handedOut + s.connecting + s.idleCount <= MaxSockets
    /\ \A g \in Groups : NumActiveSocketSlots(s, g) <= MaxSocketsPerGroup

WithinLimits == WithinLimitsIn(pool)

\* Requests of a group are answered by priority, the older first among equals:
\* no request is answered while one ahead of it stays in the queue, and a new
\* request queues up behind every one that is at least as urgent.
ServedInOrder ==
  [][\A g \in Groups :
       LET q == pool.pending[g]
           r == pool'.pending[g]
       IN  /\ \A i, j \in 1..Len(q) :
                i < j /\ pool'.callback[q[j]] \in {"OK", "ERR"} => ~Contains(r, q[i])
           /\ \A i, j \in 1..Len(r) :
                i < j /\ ~Contains(q, r[i]) => Priority[r[i]] < Priority[r[j]]]_pool

\* The pool never takes a socket away from a client nor swaps it: once a handle
\* has a socket it keeps it until its own Reset, and Flush() leaves it alone.
HeldSocketStays ==
  [][\A h \in Holders(pool) :
       pool'.hsocket[h] # pool.hsocket[h] => pool'.hsocket[h] = NoSocket /\ pool'.hgroup[h] = NoGroup]_pool

\* No wake-up is missed: when the pool is at rest no group has a free slot and
\* a request without a job of its own while the pool is below its limit or
\* could close an idle socket.  CheckForStalledSocketGroups wakes one group
\* only, after each event that frees a slot, so this holds only if every such
\* event wakes a group that uses what was freed.
NoMissedWakeup ==
  \A g \in Groups :
    IsStalled(pool, g) => ReachedMaxSocketsLimit(pool) /\ pool.idleCount = 0

\* "A Group is allocated per group_name when there are idle sockets or pending
\* requests.  Otherwise, the Group object is removed from the map." (comment on
\* class Group, client_socket_pool_base.h; clients' sockets and jobs count too.)
NoEmptyGroups == \A g \in pool.groups : ~IsEmpty(pool, g)

\* "If our backup job is waiting on DNS, or if we can't create any sockets right
\* now due to limits, just reset the timer." (Group::OnBackupSocketTimerFired):
\* a backup timer goes away only when a job was added or nothing is left to do.
BackupTimerIsReset ==
  [][\A g \in Groups :
       pool.backup[g] /\ ~pool'.backup[g] =>
         \/ pool'.jobs[g] = {}
         \/ pool'.pending[g] = <<>>
         \/ pool'.jobs[g] \ pool.jobs[g] # {}]_pool
=============================================================================
