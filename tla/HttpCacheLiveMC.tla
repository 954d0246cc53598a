-------------------------- MODULE HttpCacheLiveMC ---------------------------
(***************************************************************************)
(* Instances of HttpCacheLive for TLC.                                     *)
(***************************************************************************)
EXTENDS HttpCacheLive

CONSTANTS t1, t2, t3

ThreeTrans == {t1, t2, t3}
TwoEntries == 1..2
LiveModes == {"READ", "WRITE", "READ_WRITE"}
LiveResponses == {"full", "notModified", "error"}
=============================================================================
