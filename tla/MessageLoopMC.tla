--------------------------- MODULE MessageLoopMC ----------------------------
(***************************************************************************)
(* Instances of MessageLoop for TLC: the loop of a background thread, and  *)
(* that of the Qt user interface, where dialogs run loops of their own.    *)
(***************************************************************************)
EXTENDS MessageLoop

WithDefaultPump ==
  [pump |-> "default", features |-> {"run", "runAllPending", "quit", "quitNow", "nonNestable"}]
WithQtPump ==
  [pump |-> "qt", features |-> {"run", "native", "quit", "quitNow", "nonNestable"}]

BothPumps == {WithDefaultPump, WithQtPump}
QtNative == {[pump |-> "qt", features |-> {"native"}]}
QtQuits == {[pump |-> "qt", features |-> {"quitNow"}]}
=============================================================================
