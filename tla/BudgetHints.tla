----------------------------- MODULE BudgetHints -----------------------------
(***************************************************************************)
(* The advice a run's budget is adapted to: hints a gateway issues, kept   *)
(* in a file that "szr gateway hints-refresh" replaces, the outcomes of    *)
(* the runs they were applied to, which take a harmful hint back, and the  *)
(* history of the command.  internal/budgethints and, in internal/engine,  *)
(* gateway_budget_hints.go, budget_adapter_chain.go, budget_adaptation.go. *)
(*                                                                         *)
(* The runs are of one command, whose fingerprint a hint may name (exact). *)
(* A hint is known to the outcomes by its expiry and its fingerprint.      *)
(* Between the choice of a budget and the recording of what came of it the *)
(* command runs, and the file may be replaced.                             *)
(***************************************************************************)
EXTENDS Budgets

CONSTANTS
  Runners,    \* szr processes
  Envelopes,  \* the responses of the gateway: issued, hints
  Bases,      \* the tuned budgets
  Commands,   \* what a run may be: raw tokens, fallback, failed
  MaxClock,   \* bound: hours that pass
  MaxRuns,    \* bound: runs of the command
  MaxAge,     \* hours for which an envelope is accepted
  MaxLife,    \* hours a hint may be valid for
  MinSamples, \* GatewayBudgetHintAdapterOptions.MinSamples
  MinRuns,    \* outcomes before a hint is taken back
  HarmShare,  \* it is taken back when one in HarmShare was harmful
  Lookback,   \* records a suggestion is made of
  Adaptive    \* whether the history adapts budgets too

AllHints == UNION {ToSet(e.hints) : e \in Envelopes}
IdOf(hint) == [expires |-> hint.expires, exact |-> hint.exact]
Ids == {IdOf(h) : h \in AllHints}

HintRecords == [expires : Int, exact : BOOLEAN, direction : {"tighten", "loosen"},
                samples : Nat \ {0}, suggested : [Caps -> Nat]]

(* What ResolveBudget tunes has all its caps; Validate has seen each hint. *)
HintsAssumption ==
  /\ MaxClock \in Nat \ {0} /\ MaxRuns \in Nat /\ Lookback \in Nat
  /\ MaxAge \in Nat /\ MaxLife \in Nat /\ MinSamples \in Nat
  /\ MinRuns \in Nat \ {0} /\ HarmShare \in Nat \ {0}
  /\ Adaptive \in BOOLEAN
  /\ \A e \in Envelopes : e.hints \in Seq(HintRecords)
  /\ \A b \in Bases : b = [cap |-> b.cap, prefilter |-> b.prefilter]
                      /\ b.cap \in [Caps -> Nat \ {0}]
  /\ \A c \in Commands : c.raw \in Nat /\ c.fallback \in BOOLEAN /\ c.failed \in BOOLEAN

VARIABLES
  clock,     \* the clock
  store,     \* gateway-budget-hints.json
  outcomes,  \* gateway-budget-hint-outcomes.jsonl, summed up by hint
  records,   \* the history of the command
  runs,      \* how often it was run
  run,       \* what each process is running
  evidence,  \* history: the outcomes of the runs a hint was applied to
  taken      \* history: hints that were taken back since they were installed,
             \* or since they were applied because the outcomes could not be read

hintVars == <<clock, store, outcomes, records, runs, run, evidence, taken>>

NoEvidence == [runs |-> 0, harmful |-> 0]
NoRun == [on |-> FALSE]

HintsInit ==
  /\ clock = 1 /\ store = <<>>
  /\ outcomes = [i \in Ids |-> NoEvidence]
  /\ records = <<>> /\ runs = 0
  /\ run = [p \in Runners |-> NoRun]
  /\ evidence = outcomes
  /\ taken = {}

ClockTicks ==
  /\ clock < MaxClock
  /\ clock' = clock + 1
  /\ UNCHANGED <<store, outcomes, records, runs, run, evidence, taken>>

-----------------------------------------------------------------------------
(* Client.Refresh: an envelope that was issued lately, all of whose hints  *)
(* are still valid and not for too long, replaces the file in one rename.  *)
Refresh ==
  /\ \E e \in Envelopes :
       /\ e.issued \in clock - MaxAge .. clock
       /\ \A h \in ToSet(e.hints) : h.expires \in clock + 1 .. clock + MaxLife
       /\ e.hints # store
       /\ store' = e.hints
  /\ taken' = {}
  /\ UNCHANGED <<clock, outcomes, records, runs, run, evidence>>

(* Lookup: the hints that hold now, the ones for this very command first,  *)
(* then the ones that expire last, then the first of the file.             *)
Candidates == {i \in DOMAIN store : store[i].expires > clock}

Before(g, h) == IF g.exact # h.exact THEN g.exact ELSE g.expires > h.expires

Lookup ==
  store[CHOOSE i \in Candidates :
          \A j \in Candidates :
            j # i => \/ Before(store[i], store[j])
                     \/ i < j /\ ~Before(store[j], store[i])]

Found == Candidates # {}

ShouldRollback(count) ==
  count.runs >= MinRuns /\ count.harmful * HarmShare >= count.runs

(* A file of outcomes that cannot be opened takes nothing back.            *)
TakenBack(readable) == Found /\ readable /\ ShouldRollback(outcomes[IdOf(Lookup)])

-----------------------------------------------------------------------------
(* AdaptBudget: the first adapter that has usable advice.                  *)

MinDelta == [lines |-> 2, bytes |-> 64, tokens |-> 12]
GatewayOptions ==
  [maxTighten |-> 10, maxLoosen |-> 15, maxFallbackHeavyLoosen |-> 15, minDelta |-> MinDelta]
HistoryOptions ==
  [maxTighten |-> 20, maxLoosen |-> 25, maxFallbackHeavyLoosen |-> 75, minDelta |-> MinDelta]

Refused(base) == [ok |-> FALSE, budget |-> base]

Advised(source, suggestion, adapted) ==
  [ok |-> adapted.ok, budget |-> adapted.budget, advice |-> <<source, suggestion.direction>>]

GatewaySuggestion ==
  [direction |-> Lookup.direction, reason |-> "gateway_hint", confidence |-> "low",
   target |-> Lookup.suggested]

GatewayAdapt(base, readable) ==
  IF ~Found \/ Lookup.samples < MinSamples \/ TakenBack(readable)
  THEN Refused(base)
  ELSE Advised("gateway", GatewaySuggestion,
               AdaptBudgetConservatively(base, GatewaySuggestion, GatewayOptions))

HistoryAdapt(base) ==
  LET s == FindBudgetSuggestion(records, Lookback, 3)
  IN  IF ~Adaptive \/ s = NoSuggestion THEN Refused(base)
      ELSE IF ConfidenceRank(s.confidence) < ConfidenceRank("medium") THEN Refused(base)
      ELSE Advised("history", s, AdaptBudgetConservatively(base, s, HistoryOptions))

AdaptBudget(base, readable) ==
  IF GatewayAdapt(base, readable).ok THEN GatewayAdapt(base, readable) ELSE HistoryAdapt(base)

(* What a process runs: the budget, whose advice it follows, and the hint. *)
StartRun(p) ==
  /\ ~run[p].on /\ runs < MaxRuns
  /\ runs' = runs + 1
  /\ \E base \in Bases, readable \in BOOLEAN :
       LET a == AdaptBudget(base, readable)
           advice == IF a.ok THEN a.advice ELSE <<"none", "none">>
       IN  /\ run' = [run EXCEPT ![p] =
                [on |-> TRUE, base |-> base, advice |-> advice,
                 hint |-> IF advice[1] = "gateway" THEN {IdOf(Lookup)} ELSE {},
                 budget |-> FinalizeResolvedBudget(a.budget)]]
           /\ taken' = IF TakenBack(readable) THEN taken \cup {IdOf(Lookup)}
                       ELSE IF readable THEN taken
                       ELSE taken \ run'[p].hint
  /\ UNCHANGED <<clock, store, outcomes, records, evidence>>

Noted(counts, ids, harmful) ==
  [i \in Ids |-> IF i \in ids
                 THEN [runs |-> counts[i].runs + 1,
                       harmful |-> counts[i].harmful + IF harmful THEN 1 ELSE 0]
                 ELSE counts[i]]

(* A fault for mutation: runs the hint was not applied to are recorded.    *)
RecordOutcomeAlways(p, harmful) ==
  outcomes' = Noted(outcomes, IF Found THEN {IdOf(Lookup)} ELSE {}, harmful)

(* RecordOutcome asks the file again which hint there is.                  *)
RecordOutcome(p, harmful) ==
  outcomes' = Noted(outcomes,
                IF run[p].advice[1] = "gateway" /\ Found THEN {IdOf(Lookup)} ELSE {}, harmful)

(* The history record of a run: what was shown is what its budget allows.  *)
RecordOf(p, c) ==
  LET shown == IF c.fallback THEN c.raw ELSE Smaller(c.raw, run[p].budget.cap["tokens"])
  IN  [raw |-> c.raw, filtered |-> shown, bytes |-> shown * 4,
       saved |-> IF c.raw = 0 THEN 0 ELSE ((c.raw - shown) * 100) \div c.raw,
       fallback |-> c.fallback, failed |-> c.failed]

(* The run ends; a fallback or a repair of the verifier is harm.           *)
Finish(p) ==
  /\ run[p].on
  /\ \E c \in Commands, repaired \in BOOLEAN :
       /\ RecordOutcome(p, c.fallback \/ repaired)
       /\ evidence' = Noted(evidence, run[p].hint, c.fallback \/ repaired)
       /\ records' = IF Adaptive THEN Append(records, RecordOf(p, c)) ELSE records
  /\ run' = [run EXCEPT ![p] = NoRun]
  /\ UNCHANGED <<clock, store, runs, taken>>

HintsNext == ClockTicks \/ Refresh \/ \E p \in Runners : StartRun(p) \/ Finish(p)

HintsSpec == HintsInit /\ [][HintsNext]_hintVars

-----------------------------------------------------------------------------
(* A hint that was found harmful is not applied again until another        *)
(* refresh installs hints, or the outcomes cannot be read: then the code   *)
(* goes on with the hint (outcomes.go:63-66), which is not held against it *)
(* here.                                                                   *)
StartsWithoutTaken ==
  \A p \in Runners : run'[p].on /\ ~run[p].on => run'[p].hint \cap taken' = {}

RollbackSticks == [][StartsWithoutTaken]_hintVars

(* Hints are taken back for what happened in runs they were applied to.    *)
RollbackIsEarned ==
  \A i \in Ids : ShouldRollback(outcomes[i]) => ShouldRollback(evidence[i])

(* Whatever has been recorded by runs with adapted budgets, a budget that   *)
(* advice tightens keeps the percentage its source leaves it in every cap, *)
(* and one that advice loosens gains no more than its source may give.     *)
Floor(r, percent) ==
  \A c \in Caps : \/ r.budget.cap[c] * 100 >= r.base.cap[c] * percent
                  \/ c = "lines" /\ r.budget.cap[c] = 40
Ceiling(r, percent) ==
  \A c \in Caps : \/ (r.budget.cap[c] - 1) * 100 < r.base.cap[c] * percent
                  \/ c = "lines" /\ r.budget.cap[c] = 3

AdaptationIsCapped ==
  \A p \in Runners :
    run[p].on =>
      /\ run[p].advice = <<"gateway", "tighten">> => Floor(run[p], 90)
      /\ run[p].advice = <<"gateway", "loosen">> => Ceiling(run[p], 115)
      /\ run[p].advice = <<"history", "tighten">> => Floor(run[p], 80)
      /\ run[p].advice = <<"history", "loosen">> => Ceiling(run[p], 175)
=============================================================================
