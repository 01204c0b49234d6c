---------------------------- MODULE MCAxesPlain ----------------------------
(* The values of MCAxes, in a project of which all theorems of AxesProofs    *)
(* hold: TLC evaluates what they suppose of it.                              *)
EXTENDS MCAxes

ASSUME QuotesNothing == Quoted = {}
ASSUME OneLockfile == NestedLocks = {}
ASSUME ProjectIsPlain == BlocksOfAllOrNone /\ ImportsArePlain /\ NewNamesAreNew
=============================================================================
