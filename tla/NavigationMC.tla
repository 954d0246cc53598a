---------------------------- MODULE NavigationMC ----------------------------
(***************************************************************************)
(* Instances of Navigation: a page, a place in it and another page.        *)
(***************************************************************************)
EXTENDS Navigation

A == [base |-> "a", ref |-> 0]
A1 == [base |-> "a", ref |-> 1]
B == [base |-> "b", ref |-> 0]
TwoPages == {A, B}
PagesAndPlace == {A, A1, B}

\* What pages do of their own accord.
Pages == [urls |-> PagesAndPlace, commands |-> {"load", "stop"},
          contents |-> {"link", "replace", "abort", "subframe", "autoframe",
                        "fragment", "crash"},
          maxActs |-> 2]
\* Moving through the history, and taking entries away from it.
History == [urls |-> TwoPages, commands |-> {"load", "history", "reload", "remove"},
            contents |-> {"link", "abort", "crash", "reload"}, maxActs |-> 2]
\* Requests that an interstitial page holds back.
Interstitials == [urls |-> TwoPages, commands |-> {"load", "history", "reload", "stop"},
                  contents |-> {"hold", "link"}, maxActs |-> 3]

\* Moving between places in a document, and between contents of its frames.
Places == [urls |-> PagesAndPlace, commands |-> {"load", "history"},
           contents |-> {"fragment", "subframe"}, maxActs |-> 1]

AllScenarios == {Pages, History, Interstitials, Places}

\* One case each, to reproduce what the README describes.
Case(commands, contents, acts) ==
  {[urls |-> TwoPages, commands |-> commands, contents |-> contents, maxActs |-> acts]}
LinksOnly == Case({"load"}, {"link"}, 1)
HistoryAndLinks == Case({"load", "history"}, {"link"}, 2)
HistoryAndHolds == Case({"load", "history"}, {"hold", "link"}, 3)
HistoryAndFrames == Case({"load", "history"}, {"subframe"}, 1)
HoldsOnly == Case({"load"}, {"hold"}, 1)
HoldsAndReloads == Case({"load"}, {"hold", "reload"}, 2)
PlacesAndReload == {[Pages EXCEPT !.commands = {"load", "reload"}, !.contents = {"fragment"}]}
=============================================================================
