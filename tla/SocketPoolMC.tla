---------------------------- MODULE SocketPoolMC ----------------------------
(***************************************************************************)
(* Instances of SocketPool for TLC.                                        *)
(***************************************************************************)
EXTENDS SocketPool

CONSTANTS h1, h2, h3

\* h1 is urgent, the others are not.
MCPriority == [h \in Handles |-> IF h = h1 THEN 0 ELSE 1]

\* h1 is told from the others by its priority; groups and sockets are interchangeable.
PoolSymmetry == Permutations(Sockets) \cup Permutations(Groups) \cup Permutations({h2, h3})
=============================================================================
