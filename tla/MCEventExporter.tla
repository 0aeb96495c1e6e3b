--------------------------- MODULE MCEventExporter ---------------------------
(***************************************************************************)
(* Instances of EventExporter for TLC: the last event is three times as    *)
(* long as the others, longer than the smaller outbox may be.              *)
(***************************************************************************)
EXTENDS EventExporter

CONSTANT p1

OneProcess == {p1}
LastIsLong == [e \in Events |-> IF e = MaxEvents THEN 3 ELSE 1]
TightAndRoomy == {2, 3 * MaxEvents}
=============================================================================
