--------------------------- MODULE HttpCacheLive ----------------------------
(***************************************************************************)
(* Progress of the HTTP cache: every request is answered, if the disk, the *)
(* network and the message loop do their part and a client that has its    *)
(* answer does not keep its transaction for ever.  Each transaction is     *)
(* used once: a cache that is sent new requests without end may let one    *)
(* of them lose every race.                                                *)
(***************************************************************************)
EXTENDS HttpCache

VARIABLE started  \* the transactions that have been used

lvars == <<cache, started>>

LiveInit == Init /\ started = {}

LiveNext ==
  \/ \E t \in Trans \ started, m \in StartModes : Start(t, m) /\ started' = started \cup {t}
  \/ Work /\ UNCHANGED started

\* The client is done with an answered transaction.
Answered == {"headers", "auth", "cert", "done"}
Finish(t) == cache.pc[t] \in Answered /\ \E a, b, f \in BOOLEAN : Destroy(t, a, b, f)

\* The disk cache completes its operations, posted tasks run, the network answers, and
\* no client reads for ever.  Nobody has to start, to cancel, to restart or to evict.
Fairness ==
  /\ WF_lvars(NotifyNext /\ UNCHANGED started)
  /\ WF_lvars(\E ok \in BOOLEAN : OnBackendCreated(ok) /\ UNCHANGED started)
  /\ WF_lvars(\E ok \in BOOLEAN : OnIOComplete(ok) /\ UNCHANGED started)
  /\ \A e \in Entries : WF_lvars(OnProcessPendingQueue(e) /\ UNCHANGED started)
  /\ \A t \in Trans :
       /\ WF_lvars(/\ \/ \E ok \in BOOLEAN, choice \in {"skip", "validate", "fetch"} :
                           ReadResponseInfo(t, ok, choice)
                      \/ \E r \in Responses : NetworkResponse(t, r)
                      \/ \E ok \in BOOLEAN : ResponseInfoWritten(t, ok) \/ DataWritten(t, ok)
                      \/ \E r \in {"data", "eof", "error"} : CacheReadDone(t, r) \/ NetworkReadDone(t, r)
                   /\ UNCHANGED started)
       /\ SF_lvars(Finish(t) /\ UNCHANGED started)

LiveSpec == LiveInit /\ [][LiveNext]_lvars /\ Fairness

\* A transaction that waits, for the backend, for a disk operation, for the lock of an
\* entry or for the network, gets its answer unless its client cancels it: no wake-up
\* of the pending queue is lost, and a race always leads somewhere.
EveryRequestAnswered ==
  \A t \in Trans : (cache.pc[t] \notin Answered \cup {"gone"}) ~> (cache.pc[t] \in Answered \cup {"gone"})

\* The cache closes what nobody uses: after the last client an entry does not stay open.
EntriesClosed ==
  (started = Trans /\ \A t \in Trans : cache.pc[t] = "gone") ~> (Live(cache) = {})
=============================================================================
