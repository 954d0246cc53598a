--------------------------- MODULE SyncChannelMC ----------------------------
(***************************************************************************)
(* Instances of SyncChannel for TLC: two processes with one channel; a     *)
(* process in the middle of two channels; three processes in a ring.       *)
(***************************************************************************)
EXTENDS SyncChannel

Between(pairs) == pairs \cup {<<c[2], c[1]>> : c \in pairs}

\* Two processes with a channel.
Two(i, j, features) ==
  [procs |-> {1, 2}, contexts |-> Between({<<1, 2>>}), restricted |-> {},
   maxSends |-> <<i, j>>, features |-> features]

\* A process with two restricted channels.
Star(features) ==
  [procs |-> {1, 2, 3}, contexts |-> Between({<<1, 2>>, <<1, 3>>}), restricted |-> {<<1, 2>>, <<1, 3>>},
   maxSends |-> <<1, 1, 1>>, features |-> features]

AllScenarios ==
  {Two(2, 1, {"defer", "die"}), Two(2, 0, {"timeout", "error", "defer"}), Two(2, 0, {"pump", "timeout"}),
   Two(3, 0, {"pump"}), Two(1, 1, {"close", "shutdown"}), Star({})}

PumpInStar == {Star({"pump"})}
=============================================================================
