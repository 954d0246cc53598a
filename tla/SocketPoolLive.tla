--------------------------- MODULE SocketPoolLive ---------------------------
(***************************************************************************)
(* Liveness of the socket pool: every request is answered in the end.      *)
(*                                                                         *)
(* A client that asks again and again at a high priority may keep others   *)
(* waiting; to leave that aside every handle asks once.  Fairness is what  *)
(* the environment of the pool guarantees: a ConnectJob ends, because      *)
(* ConnectJob::Connect starts a timer that fails it; a posted task runs;   *)
(* a client gives its socket back.  Nothing is assumed of backup timers,   *)
(* preconnects, idle socket clean-up, flushes and cancellations.           *)
(***************************************************************************)
EXTENDS SocketPool

VARIABLE issued   \* history: handles whose only request has been made

liveVars == <<pool, issued>>

LiveInit == Init /\ issued = {}

LiveNext ==
  \/ \E h \in Handles \ issued, g \in Groups :
       RequestSocket(h, g) /\ issued' = issued \cup {h}
  \/ /\ \/ \E g \in Groups : RequestSockets(g)
        \/ \E h \in Handles, connected \in BOOLEAN : ResetInitialized(h, connected)
        \/ \E h \in Handles : ResetPending(h)
        \/ \E g \in Groups, k \in Sockets : ConnectJobDone(g, k)
        \/ \E h \in Handles : InvokeUserCallback(h)
        \/ \E g \in Groups : OnBackupSocketTimerFired(g)
        \/ \E dead \in SUBSET Sockets : CleanupIdleSockets(dead)
        \/ Flush
     /\ UNCHANGED issued

Fairness ==
  /\ \A g \in Groups, k \in Sockets : WF_liveVars(ConnectJobDone(g, k) /\ UNCHANGED issued)
  /\ \A h \in Handles : WF_liveVars(InvokeUserCallback(h) /\ UNCHANGED issued)
  /\ \A h \in Handles :
       WF_liveVars(\E connected \in BOOLEAN : ResetInitialized(h, connected) /\ UNCHANGED issued)

LiveSpec == LiveInit /\ [][LiveNext]_liveVars /\ Fairness

\* "there is no starvation" (comment in CheckForStalledSocketGroups,
\* client_socket_pool_base.cc): a request that waits does not wait for ever,
\* although an event that frees a slot wakes at most one stalled group.
EveryRequestAnswered == \A h \in Handles : Waiting(pool, h) ~> ~Waiting(pool, h)
=============================================================================
