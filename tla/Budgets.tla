------------------------------- MODULE Budgets -------------------------------
(***************************************************************************)
(* How much of a command's output is shown: the budget a profile asks for, *)
(* tuned to the invocation, and its adaptation to advice from past runs or *)
(* from a gateway.  internal/engine/fastpath.go, budget_adaptation.go and  *)
(* internal/history/suggestion_build.go, suggestion_math.go.               *)
(*                                                                         *)
(* A budget is three caps, lines, bytes and tokens, and whether noise is   *)
(* filtered out before rendering, which stands for all of the options that *)
(* travel with it.  Go's integers are wider than these numbers get.        *)
(***************************************************************************)
EXTENDS Integers, Sequences, FiniteSets, SequencesExt

Caps == {"lines", "bytes", "tokens"}

Larger(a, b) == IF a >= b THEN a ELSE b
Smaller(a, b) == IF a <= b THEN a ELSE b

(* minPositiveInt of two: a cap that is not set does not count.            *)
MinPositive(a, b) ==
  IF a <= 0 THEN Larger(b, 0) ELSE IF b <= 0 THEN a ELSE Smaller(a, b)

ScaleIntCeil(value, num, den) ==
  IF value <= 0 THEN value ELSE (value * num + den - 1) \div den

(* scaleBudget keeps the options, scaleBudgetByPercent, maxBudget and      *)
(* minBudget build a budget of the caps alone.                             *)
ScaleBudget(b, num, den) ==
  [b EXCEPT !.cap = [c \in Caps |-> ScaleIntCeil(@[c], num, den)]]

CapsOnly(cap) == [cap |-> cap, prefilter |-> FALSE]

ScaleBudgetByPercent(b, percent) ==
  IF percent <= 0 THEN b
  ELSE CapsOnly([c \in Caps |-> ScaleIntCeil(b.cap[c], percent, 100)])

(* A fault for mutation: the bound is not kept to.                         *)
FirstBudget(a, b) == CapsOnly(a.cap)

MaxBudget(a, b) == CapsOnly([c \in Caps |-> Larger(a.cap[c], b.cap[c])])

MinBudget(a, b) == CapsOnly([c \in Caps |-> MinPositive(a.cap[c], b.cap[c])])

FinalizeResolvedBudget(b) ==
  LET lines == Larger(3, Smaller(40, b.cap["lines"]))
      orLines(n, perLine) == IF n <= 0 THEN lines * perLine ELSE n
  IN  [b EXCEPT !.cap = [lines |-> lines, bytes |-> orLines(b.cap["bytes"], 160),
                         tokens |-> orLines(b.cap["tokens"], 32)]]

EnsureBudgetLinesAtLeast(b, n) == [b EXCEPT !.cap["lines"] = Larger(@, n)]

-----------------------------------------------------------------------------
(* ResolveBudget.                                                          *)

(* What a profile asks for, and what it leaves open. *)
ProfileBudget(profile, fallbackLines) ==
  LET asked == IF profile.lines > 0 THEN profile.lines ELSE fallbackLines
      lines == IF asked > 0 THEN asked ELSE 12
  IN  [cap |-> [lines |-> lines,
                bytes |-> IF profile.bytes > 0 THEN profile.bytes ELSE lines * 160,
                tokens |-> IF profile.tokens > 0 THEN profile.tokens ELSE lines * 32],
       prefilter |-> FALSE]

(* The name of a profile, as far as tuneBudgetByProfile looks at it; a     *)
(* js-workspace command may be a package manager's and run tsc.            *)
Kinds == {"log", "summary", "workspace", "tooling", "pytest", "testOrBuild", "other"}

TuneBudgetByProfile(profile, inv, b) ==
  CASE profile.kind = "log" -> EnsureBudgetLinesAtLeast(b, 12)
    [] profile.kind = "summary" -> ScaleBudget(b, 4, 5)
    [] profile.kind = "workspace" ->
         LET managed == IF inv.packageManager THEN ScaleBudget(b, 3, 4) ELSE b
         IN  IF inv.tsc THEN ScaleBudget(EnsureBudgetLinesAtLeast(managed, 12), 9, 8)
             ELSE managed
    [] profile.kind = "tooling" -> ScaleBudget(EnsureBudgetLinesAtLeast(b, 10), 9, 8)
    [] profile.kind = "pytest" -> ScaleBudget(EnsureBudgetLinesAtLeast(b, 12), 5, 4)
    [] profile.kind = "testOrBuild" -> EnsureBudgetLinesAtLeast(b, 10)
    [] profile.kind = "other" -> b

TuneBudgetByReasoningMode(mode, b) ==
  CASE mode = "agent" -> ScaleBudget(b, 3, 4)
    [] mode = "aggressive" -> ScaleBudget(b, 1, 2)
    [] mode = "off" -> b

TunedBudget(profile, inv, fallbackLines) ==
  LET asked == [ProfileBudget(profile, fallbackLines) EXCEPT !.prefilter = inv.prefilter]
      moded == TuneBudgetByReasoningMode(inv.mode, TuneBudgetByProfile(profile, inv, asked))
      ultra == IF inv.ultraCompact THEN ScaleBudget(moded, 3, 5) ELSE moded
      verbose == CASE inv.verbose >= 2 -> ScaleBudget(ultra, 3, 2)
                   [] inv.verbose = 1 -> ScaleBudget(ultra, 5, 4)
                   [] inv.verbose <= 0 -> ultra
  IN  CASE profile.confidence = "low" -> ScaleBudget(verbose, 5, 4)
        [] profile.confidence = "medium" -> ScaleBudget(verbose, 9, 8)
        [] profile.confidence = "high" -> verbose

-----------------------------------------------------------------------------
(* Adaptation.                                                             *)

(* The caps a suggestion names, over the budget there is. *)
Suggested(b, target) ==
  FinalizeResolvedBudget(
    [b EXCEPT !.cap = [c \in Caps |-> IF target[c] > 0 THEN target[c] ELSE @[c]]])

Distance(a, b) == IF a >= b THEN a - b ELSE b - a

MaterialBudgetDelta(a, b, opts) ==
  \E c \in Caps : Distance(a.cap[c], b.cap[c]) >= opts.minDelta[c]

LoosenPercent(suggestion, opts) ==
  100 + CASE suggestion.reason # "fallback_heavy" -> opts.maxLoosen
          [] suggestion.reason = "fallback_heavy" ->
               CASE suggestion.confidence = "high" -> opts.maxFallbackHeavyLoosen
                 [] suggestion.confidence = "medium" -> Larger(opts.maxLoosen, 50)
                 [] suggestion.confidence = "low" -> Larger(opts.maxLoosen, 35)

(* A budget, and whether it may be used. *)
AdaptBudgetConservatively(base, suggestion, opts) ==
  LET wanted == Suggested(base, suggestion.target)
      tightens == suggestion.direction = "tighten"
      adapted == FinalizeResolvedBudget(
        IF tightens
        THEN MaxBudget(wanted, ScaleBudgetByPercent(base, 100 - opts.maxTighten))
        ELSE MinBudget(wanted, ScaleBudgetByPercent(base, LoosenPercent(suggestion, opts))))
      moves == \E c \in Caps : IF tightens THEN adapted.cap[c] < base.cap[c]
                                           ELSE adapted.cap[c] > base.cap[c]
      ok == MaterialBudgetDelta(base, adapted, opts) /\ moves
  IN  [ok |-> ok, budget |-> IF ok THEN adapted ELSE base]

-----------------------------------------------------------------------------
(* Suggestions from history: the runs of one command.                      *)

(* The value that is n-th when they are sorted, which is the least one that *)
(* n of them do not exceed.                                                *)
NthSmallest(values, n) ==
  LET enough == {v \in {values[i] : i \in DOMAIN values} :
                   Cardinality({i \in DOMAIN values : values[i] <= v}) >= n}
  IN CHOOSE v \in enough : \A w \in enough : v <= w

PercentileInts(values, target) ==
  LET index == (Len(values) * target + 99) \div 100
  IN  IF values = <<>> THEN 0
      ELSE NthSmallest(values, Larger(1, Smaller(index, Len(values))))

EstimateBudgetLines(bytes, tokens) ==
  Larger(3, Smaller(40, Larger(ScaleIntCeil(bytes, 1, 48), ScaleIntCeil(tokens, 1, 12))))

SuggestionConfidence(samples) ==
  CASE samples >= 6 -> "high" [] samples \in {4, 5} -> "medium" [] samples < 4 -> "low"

ConfidenceRank(c) == CASE c = "high" -> 3 [] c = "medium" -> 2 [] c = "low" -> 1

NoSuggestion == [direction |-> "none"]

Suggestion(direction, reason, samples, tokens, bytes) ==
  LET t == Larger(tokens, 1)  b == Larger(bytes, 1)
  IN  [direction |-> direction, reason |-> reason,
       confidence |-> SuggestionConfidence(samples),
       target |-> [lines |-> EstimateBudgetLines(b, t), bytes |-> b, tokens |-> t]]

Column(records, f) == [i \in DOMAIN records |-> records[i][f]]
Total(values) == FoldLeft(+, 0, values)
Count(records, f) == Len(SelectSeq(records, LAMBDA r : r[f]))

(* buildBudgetSuggestion; saved is the percentage a run saved.             *)
BuildBudgetSuggestion(records) ==
  LET n == Len(records)
      saved == Total(Column(records, "saved"))
      fallbacks == Count(records, "fallback") * 100
      fallbackRate(rate) == fallbacks >= rate * n
      mostlySucceeds == Count(records, "failed") * 100 <= 80 * n
      raw(q) == PercentileInts(Column(records, "raw"), q)
      filtered(q) == PercentileInts(Column(records, "filtered"), q)
      bytes(q) == PercentileInts(Column(records, "bytes"), q)
  IN  IF fallbackRate(50) /\ mostlySucceeds THEN
        LET scale == IF fallbackRate(75) THEN 150 ELSE 125
        IN  Suggestion("loosen", "fallback_heavy", n,
              Larger(ScaleIntCeil(filtered(95), scale, 100), Larger(filtered(50) + 8, 24)),
              Larger(ScaleIntCeil(bytes(95), scale, 100), Larger(bytes(50) + 32, 96)))
      ELSE IF saved >= 92 * n /\ raw(50) >= 80 /\ filtered(50) <= 20 /\ mostlySucceeds THEN
        LET t == Larger(ScaleIntCeil(filtered(95), 3, 2), Larger(raw(50) \div 6, 24))
        IN  Suggestion("loosen", "aggressive_compression", n, t,
              Larger(ScaleIntCeil(bytes(95), 3, 2), Larger(t * 4, 96)))
      ELSE IF saved <= 35 * n /\ filtered(50) >= 48 /\ fallbacks <= 25 * n THEN
        Suggestion("tighten", "noisy", n,
          Larger(ScaleIntCeil(filtered(95), 3, 4), 24),
          Larger(ScaleIntCeil(bytes(95), 3, 4), 96))
      ELSE NoSuggestion

(* FindBudgetSuggestion over the runs within the lookback, passthrough     *)
(* ones left out.                                                          *)
FindBudgetSuggestion(records, lookback, minSamples) ==
  LET recent == SubSeq(records, Larger(1, Len(records) - lookback + 1), Len(records))
  IN  IF recent = <<>> \/ Len(recent) < minSamples THEN NoSuggestion
      ELSE BuildBudgetSuggestion(recent)
=============================================================================
