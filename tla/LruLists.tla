------------------------------ MODULE LruLists ------------------------------
(***************************************************************************)
(* What the disk cache's rankings promise (net/disk_cache/rankings.h): a   *)
(* few lists, each ordered by last use; a node is on at most one of them,  *)
(* enters at the head and leaves from anywhere.  Both operations are       *)
(* atomic: a crash shows the lists before or after an operation.           *)
(***************************************************************************)
EXTENDS SequencesExt

CONSTANTS Nodes, Lists
VARIABLE lists

Insert(n, l) ==
  /\ \A k \in Lists : ~Contains(lists[k], n)
  /\ lists' = [lists EXCEPT ![l] = <<n>> \o @]

Leave(n, l) ==
  /\ Contains(lists[l], n)
  /\ lists' = [lists EXCEPT ![l] = SelectSeq(@, LAMBDA m : m # n)]

Init == lists = [l \in Lists |-> <<>>]

Next == \E n \in Nodes, l \in Lists : Insert(n, l) \/ Leave(n, l)

Spec == Init /\ [][Next]_lists
=============================================================================
