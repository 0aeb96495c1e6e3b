---------------------------- MODULE MCDedupStore ----------------------------
(***************************************************************************)
(* Instances of DedupStore for TLC.                                        *)
(***************************************************************************)
EXTENDS DedupStore, TLC

CONSTANTS p1, p2,       \* processes
          c1, c2,       \* commands
          d1, d2,       \* places
          o1, o2, o3    \* outputs

OneProcess == {p1}
TwoProcesses == {p1, p2}

(* Commands that differ in more than case, and two that do not. *)
Distinct == [c \in Commands |-> c]
SameFolded == [c \in Commands |-> c1]

(* Processes, places and outputs that are not long are interchangeable;    *)
(* and commands are not.                                                   *)
Symmetric ==
  Permutations(Procs) \cup Permutations(Places) \cup Permutations(Outputs \ Long)
=============================================================================
