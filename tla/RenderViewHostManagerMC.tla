---------------------- MODULE RenderViewHostManagerMC ----------------------
(***************************************************************************)
(* Instances of RenderViewHostManager for TLC: the events of the           *)
(* environment each run allows.                                            *)
(***************************************************************************)
EXTENDS RenderViewHostManager

Events(e, n, x) == [env |-> e, navs |-> n, extras |-> x]
Hangs == Events({"hang"}, 3, 0)
Links == Events({"hang", "empty", "click"}, 2, 0)
Closes == Events({"close", "input"}, 2, 1)
Blanks == Events({"blank", "input"}, 2, 1)
Crashes == Events({"crash", "hang"}, 2, 0)
AllScenarios == {Hangs, Links, Closes, Blanks, Crashes}

\* One case each, to reproduce what the README describes.
JustLinks == {Links}
JustCrashes == {Crashes}
CrashOnly == {Events({"crash"}, 2, 0)}
CloseOnly == {Events({"close"}, 2, 2)}
CloseAndHang == {Events({"close", "hang", "empty"}, 2, 1)}
InputOnly == {Events({"input"}, 2, 1)}
BlankAndClick == {Events({"blank", "click"}, 2, 0)}

============================================================================
