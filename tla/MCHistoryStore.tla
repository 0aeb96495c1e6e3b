-------------------------- MODULE MCHistoryStore --------------------------
(***************************************************************************)
(* Instances of HistoryStore for TLC.                                      *)
(***************************************************************************)
EXTENDS HistoryStore, TLC

CONSTANTS p1, p2

OneProcess == {p1}
TwoProcesses == {p1, p2}
Symmetric == Permutations(Procs)
=============================================================================
