-------------------------- MODULE ResourceFlowMC --------------------------
(***************************************************************************)
(* Instances of ResourceFlow for TLC: the kinds of response and the events *)
(* of the environment each run allows.                                     *)
(***************************************************************************)
EXTENDS ResourceFlow

Of(types, sniffed, sites) == [type : types, sniffed : sniffed, crossSite : sites]

AllKinds == Of({"known", "html", "none", "plugin"}, BOOLEAN, BOOLEAN)
Plain == Of({"known"}, {FALSE}, {FALSE})
Sniffed == Of({"plugin"}, {TRUE}, {FALSE})
PluginOnly == Of({"plugin"}, {FALSE}, {FALSE})

Case(n, b, d, k, e) ==
  [maxPending |-> n, bytes |-> b, maxDefers |-> d, responses |-> k, env |-> e]

Failing == Case(2, 4, 1, AllKinds, {"netFail", "noHandle", "noBuffer"})
LeavingPage == Case(2, 3, 1, AllKinds, {"modal", "peerCancel", "cancel", "close"})
Asking == Case(1, 3, 2, AllKinds, {"modal"})
AllScenarios == {Failing, LeavingPage, Asking}

\* One case each, to reproduce what the README describes.
Small(k, e) == {Case(1, 3, 1, k, e)}
SniffedPlugin == Small(Sniffed, {})
NoMemory == Small(Plain, {"noBuffer"})
Cancelled == Small(Plain, {"cancel"})
CancelledPlugin == Small(PluginOnly, {"cancel"})
PeerCancels == Small(Plain, {"peerCancel"})

============================================================================
