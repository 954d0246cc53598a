----------------------------- MODULE RankingsMC -----------------------------
(* Bounds for model checking Rankings. *)
EXTENDS Rankings, TLC

CONSTANTS n1, n2, n3

ThreeNodes == {n1, n2, n3}
\* The main cache, and a media or application cache whose entries are enumerated.
Main == [newEviction |-> TRUE, entries |-> 2, iterationLists |-> {}]
Media == [newEviction |-> FALSE, entries |-> 3, iterationLists |-> {0}]
BothKinds == {Main, Media}

\* One kind at a time, to reproduce what the README describes.
PlainMain == {Main}
PlainOld == {[Main EXCEPT !.newEviction = FALSE]}
EnumeratedMain == {[Main EXCEPT !.entries = 3, !.iterationLists = {0}]}

\* Nodes are interchangeable: no operator picks one by CHOOSE.
Symmetry == Permutations(Nodes)
=============================================================================
