----------------------------- MODULE MCServices -----------------------------
(***************************************************************************)
(* Instances for TLC of the services around a run of szr: the check for    *)
(* updates, the advice on budgets, from a gateway or from the history,     *)
(* and the command lines szr runs in place of what was typed.  They share  *)
(* no state, so one of them is chosen and the others stay at rest.         *)
(***************************************************************************)
EXTENDS UpdateCheck, BudgetHints, MCCommandLines

VARIABLE active

serviceVars == <<active, vars, hintVars, lineVars>>

CONSTANT p1

OneProcess == {p1}

Target(l, b, t) == [lines |-> l, bytes |-> b, tokens |-> t]
Hint(exact, expires, direction, samples, suggested) ==
  [exact |-> exact, expires |-> expires, direction |-> direction, samples |-> samples,
   suggested |-> suggested]

(* Hints for the command and for its whole profile, expiring sooner and    *)
(* later, with too few samples, and some that move the caps both ways.     *)
GatewayEnvelopes == {
  [issued |-> 1, hints |-> <<Hint(FALSE, 4, "tighten", 20, Target(4, 0, 0)),
                             Hint(TRUE, 3, "loosen", 20, Target(40, 0, 900)),
                             Hint(TRUE, 4, "loosen", 19, Target(40, 9000, 900))>>],
  [issued |-> 1, hints |-> <<Hint(FALSE, 3, "loosen", 20, Target(20, 0, 0)),
                             Hint(FALSE, 4, "tighten", 20, Target(8, 0, 0))>>],
  [issued |-> 2, hints |-> <<Hint(TRUE, 4, "loosen", 25, Target(20, 1, 100)),
                             Hint(FALSE, 3, "tighten", 25, Target(1, 9000, 1))>>]}

(* A plain command, one that asks for more, and an agent's run of tests.   *)
Asks(l, b, t, kind, confidence) ==
  [lines |-> l, bytes |-> b, tokens |-> t, kind |-> kind, confidence |-> confidence]
Invoked(mode, ultra, verbose) ==
  [mode |-> mode, ultraCompact |-> ultra, verbose |-> verbose, prefilter |-> TRUE,
   packageManager |-> TRUE, tsc |-> ultra]
TunedBudgets == {
  TunedBudget(Asks(0, 0, 0, "other", "high"), Invoked("off", FALSE, 0), 12),
  TunedBudget(Asks(26, 400, 66, "summary", "low"), Invoked("off", FALSE, 2), 12),
  TunedBudget(Asks(3, 200, 24, "pytest", "medium"), Invoked("agent", TRUE, 1), 12)}

Ran(raw, fallback, failed_) == [raw |-> raw, fallback |-> fallback, failed |-> failed_]
PlainRuns == {Ran(120, FALSE, FALSE), Ran(120, TRUE, FALSE)}
VariedRuns == PlainRuns \cup {Ran(40, TRUE, TRUE), Ran(2000, FALSE, FALSE)}

(* BudgetHints itself has the gateway; here the history advises.           *)
History == INSTANCE BudgetHints WITH
  Envelopes <- {}, Commands <- VariedRuns, MaxClock <- 1, Adaptive <- TRUE

ASSUME HintsAssumption /\ History!HintsAssumption

-----------------------------------------------------------------------------
(* What is not chosen stays in one of its initial states. *)
UpdatesAtRest ==
  Init /\ (active = "updates" \/ config = [auto |-> TRUE, terminal |-> TRUE, managed |-> TRUE])

ServicesInit ==
  /\ active \in {"updates", "gateway", "history", "lines"}
  /\ UpdatesAtRest
  /\ LineInit /\ (active = "lines" \/ asked = "argv")
  /\ IF active = "history" THEN History!HintsInit ELSE HintsInit

Update ==
  /\ active = "updates" /\ Next
  /\ UNCHANGED <<active, hintVars, lineVars>>

Advise ==
  /\ \/ active = "gateway" /\ HintsNext
     \/ active = "history" /\ History!HintsNext
  /\ UNCHANGED <<active, vars, lineVars>>

TypeLine ==
  /\ active = "lines" /\ LineNext
  /\ UNCHANGED <<active, vars, hintVars>>

ServicesNext == Update \/ Advise \/ TypeLine

ServicesSpec == ServicesInit /\ [][ServicesNext]_serviceVars

=============================================================================
