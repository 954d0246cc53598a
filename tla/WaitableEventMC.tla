-------------------------- MODULE WaitableEventMC ---------------------------
(***************************************************************************)
(* Instances of WaitableEvent for TLC: an automatic event 1 and an event   *)
(* 2, which is automatic or manual.                                        *)
(***************************************************************************)
EXTENDS WaitableEvent, TLC

CONSTANTS t1, t2, t3, x1, x2, a1

ThreeThreads == {t1, t2, t3}
TwoWatchers == {x1, x2}
OneAddr == {a1}
TwoEvents == {1, 2}
ManualEvents == {2}
BothOrders == {<<1, 2>>, <<2, 1>>}

\* Operations of the three threads and of the two watchers.
Budget(i, j, k, x, y) ==
  t1 :> i @@ t2 :> j @@ t3 :> k @@ x1 :> x @@ x2 :> y

\* One call of each thread; two calls of two threads; a thread and watchers.
Alternatives == {Budget(1, 1, 1, 0, 0), Budget(2, 2, 0, 0, 0), Budget(3, 0, 0, 2, 1)}
=============================================================================
