-------------------------- MODULE SocketPoolLiveMC --------------------------
(***************************************************************************)
(* Instances of SocketPoolLive for TLC.                                    *)
(***************************************************************************)
EXTENDS SocketPoolLive

CONSTANTS h1, h2, h3

\* h1 is urgent, the others are not.
MCPriority == [h \in Handles |-> IF h = h1 THEN 0 ELSE 1]
=============================================================================
