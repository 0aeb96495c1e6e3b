----------------------------- MODULE MCTeeStore -----------------------------
(***************************************************************************)
(* Instances of TeeStore for TLC.                                          *)
(***************************************************************************)
EXTENDS TeeStore

CONSTANTS p1, p2

OneProcess == {p1}
TwoProcesses == {p1, p2}

(* The sizes of the outputs: one and two by turns. *)
ByTurns == [r \in Runs |-> IF r % 2 = 1 THEN 1 ELSE 2]
=============================================================================
