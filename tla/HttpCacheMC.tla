---------------------------- MODULE HttpCacheMC -----------------------------
(***************************************************************************)
(* Instances of HttpCache for TLC.                                         *)
(***************************************************************************)
EXTENDS HttpCache, TLC

CONSTANTS t1, t2, t3

TwoTrans == {t1, t2}
ThreeTrans == {t1, t2, t3}
TwoEntries == 1..2
ThreeEntries == 1..3

SymmetricTrans == Permutations(Trans)

AllModes == Modes
BypassModes == {"WRITE", "READ_WRITE"}
ReaderModes == {"READ", "READ_WRITE"}
ValidatingModes == {"READ_WRITE", "UPDATE"}

PlainResponses == {"full", "notModified"}
RedirectResponses == {"redirect", "notModified"}
ForgetResponses == {"redirect", "notModifiedNoStore"}
AuthResponses == {"redirect", "auth"}
=============================================================================
