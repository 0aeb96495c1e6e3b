----------------------------- MODULE EventLedger -----------------------------
(***************************************************************************)
(* What the exporter of diagnostics promises of the events it is handed:   *)
(* an event it has accepted stays pending until the server has it, and is  *)
(* settled only then.  The server may be sent an event more than once, and *)
(* an event that could not be accepted is counted.                         *)
(***************************************************************************)
EXTENDS Naturals

CONSTANT Events

VARIABLES
  pending,    \* accepted and not settled
  delivered,  \* what the server has
  refused     \* how many could not be accepted

vars == <<pending, delivered, refused>>

Init == pending = {} /\ delivered = {} /\ refused = 0

Accept(e) ==
  /\ e \notin pending \cup delivered
  /\ pending' = pending \cup {e}
  /\ UNCHANGED <<delivered, refused>>

Refuse ==
  /\ refused' = refused + 1
  /\ UNCHANGED <<pending, delivered>>

Deliver(batch) ==
  /\ batch \subseteq pending
  /\ delivered' = delivered \cup batch
  /\ UNCHANGED <<pending, refused>>

Settle(batch) ==
  /\ batch \subseteq pending \cap delivered
  /\ pending' = pending \ batch
  /\ UNCHANGED <<delivered, refused>>

Next ==
  \/ \E e \in Events : Accept(e)
  \/ Refuse
  \/ \E batch \in SUBSET Events : Deliver(batch) \/ Settle(batch)

Spec == Init /\ [][Next]_vars
=============================================================================
