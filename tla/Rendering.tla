------------------------------ MODULE Rendering ------------------------------
(***************************************************************************)
(* What the engine does to a rendered text before it is shown: compacting, *)
(* the compression contract, the ultra-compact form, the guards and the    *)
(* retention verifier.  internal/engine/compression.go, ultra_compact*.go, *)
(* output_guard.go, engine_execute_render.go, verify*.go, recovery*.go.    *)
(*                                                                         *)
(* A text is a sequence of lines.  A line has a cost in tokens, a score    *)
(* (how much its words look like a diagnosis), the facts whose names it    *)
(* holds, those of them that a clipped form of it, its head, still names,  *)
(* and whether it is a single word.  The cost of a text is the sum over    *)
(* its lines, and a token is four bytes: EstimateTokens counts words as    *)
(* well, and thresholds in bytes or runes are thresholds in tokens here.   *)
(* Blank lines and surrounding space are left out.  Loops and orders are   *)
(* written as sets of line numbers and as functions of the turn, which     *)
(* proofs can follow.                                                      *)
(***************************************************************************)
EXTENDS Integers, Sequences, FiniteSets, SequencesExt, Loops

CONSTANTS
  Words,          \* what a line may say, and the names of facts
  SummaryCounts,  \* the facts that are counts ("3 failed"): retentionFactCount
  MaxFacts        \* retentionMaxFacts, 64 in the code

ASSUME RetentionAssumption == SummaryCounts \subseteq Words /\ MaxFacts \in Nat \ {0}

ContractMinRawTokens == 200   \* compressionContractMinRawTokens
ContractMinTokens == 48       \* compressionContractMinTokens
SmallTokens == 96             \* neverWorseThanRawMaxBytes, ...MaxTokens
TinyTokens == 48              \* defaultTinyOutputBypassBytes, ...Tokens
TerseTokens == 48             \* rewrittenCommandTerseRenderMaxTokens
TerseLines == 12              \* rewrittenCommandTerseRenderMaxLines
PreviewTokens == 96           \* rawPreviewBytes
TerseShare == 3               \* terseCompactAlternative
RepairTokens == 50            \* retentionMaxRepairLineRunes

Larger(a, b) == IF a >= b THEN a ELSE b
Smaller(a, b) == IF a <= b THEN a ELSE b
CeilDiv(a, b) == (a + b - 1) \div b

LineKinds == {"line", "summary", "clip", "detail", "gap", "more", "header", "ok", "ref"}

TextLine ==
  [kind : LineKinds, id : Words \cup LineKinds, tokens : Nat, score : Int, keeps : SUBSET Words,
   head : SUBSET Words, word : BOOLEAN]

(* Marks the engine puts into a text: a gap, an omission, the reference to *)
(* an artifact, the head of a repair section, the word "ok".               *)
Mark(kind, tokens, score) ==
  [kind |-> kind, id |-> kind, tokens |-> tokens, score |-> score, keeps |-> {},
   head |-> {}, word |-> FALSE]
Gap == Mark("gap", 1, 0)
More == Mark("more", 4, 4)
Header == Mark("header", 3, 4)
Ok == Mark("ok", 1, 1)
Reference(tokens) == Mark("ref", tokens, 0)

Tokens(text) == SumOfLast([i \in DOMAIN text |-> text[i].tokens], Len(text))
Keeps(text) == UNION {text[i].keeps : i \in DOMAIN text}
HasKind(text, kind) == \E i \in DOMAIN text : text[i].kind = kind

(* isContentFreeRender *)
ContentFree(text) == \A i \in DOMAIN text : text[i].kind \in {"gap", "ref"}

(* CompactLines: runs of the same line are one, the first lines are kept.  *)
FoldConsecutive(text) ==
  KeepAt(text, {i \in DOMAIN text : i = 1 \/ text[i].id # text[i - 1].id})

CompactLines(text, maxLines) ==
  LET lines == FoldConsecutive(text)
      limit == IF maxLines > 0 THEN maxLines ELSE 12
  IN  IF Len(lines) <= limit THEN lines ELSE Append(SubSeq(lines, 1, limit), More)

(* InterestingErrorLines, which says "ok" of a text without such lines.    *)
InterestingErrorLines(text, maxLines) ==
  LET errors == KeepAt(text, {i \in DOMAIN text : text[i].keeps # {}})
  IN  IF errors = <<>> THEN <<Ok>>
      ELSE IF Len(errors) <= maxLines THEN errors
      ELSE Append(SubSeq(errors, 1, maxLines), More)

-----------------------------------------------------------------------------
(* hardCapTokens.                                                          *)

LineScore(text, i) ==
  text[i].score + (IF i = 1 THEN 8 ELSE 0) + (IF i = Len(text) /\ i > 1 THEN 6 ELSE 0)

Density(text, i) == (LineScore(text, i) * 100) \div Larger(text[i].tokens, 1)

Worthier(text, i, j) ==
  IF Density(text, i) # Density(text, j) THEN Density(text, i) > Density(text, j)
  ELSE IF LineScore(text, i) # LineScore(text, j) THEN LineScore(text, i) > LineScore(text, j)
  ELSE i < j

(* The marks of a gap are no candidates: they are made anew.               *)
CompressionCandidates(text) ==
  LET lines == {i \in DOMAIN text : text[i].kind # "gap"}
  IN  IF lines = {} THEN {1} ELSE lines

Rank(text, i) == Cardinality({j \in CompressionCandidates(text) : Worthier(text, j, i)})

BestCompressionLine(text) ==
  text[CHOOSE i \in CompressionCandidates(text) :
         \A j \in CompressionCandidates(text) : ~Worthier(text, j, i)]

(* The line of the n-th turn, if it has one: the first line, unless it is  *)
(* a gap, then the worthiest.                                              *)
CompressionSelectionOrder(text, maxTokens, n) ==
  LET headline == IF text[1].kind = "gap" THEN {} ELSE {1}
  IN  IF n = 1 THEN headline
      ELSE {i \in CompressionCandidates(text) \ headline : Rank(text, i) < maxTokens
                                                         /\ Rank(text, i) = n - 2}

(* The lines kept, and one gap before a line if others stood there, or at  *)
(* the end.                                                                *)
BuildCompressedFromKeptLines(text, kept) ==
  LET spaced == [n \in 1 .. 2 * Len(text) + 1 |-> IF n % 2 = 0 THEN text[n \div 2] ELSE Gap]
      skipped(i) == i \in DOMAIN text \ kept
      lines == {n \in DOMAIN spaced : n % 2 = 0 /\ n \div 2 \in kept}
      gaps == {n \in DOMAIN spaced : n % 2 = 1 /\ skipped(n \div 2) /\ ~skipped(n \div 2 + 1)}
  IN  KeepAt(spaced, lines \cup gaps)

(* What is kept after each turn.                                           *)
KeptWithinCap(text, maxTokens) ==
  LET kept[n \in 0 .. Len(text) + 1] ==
        IF n = 0 THEN {}
        ELSE LET before == kept[n - 1]
                 fits(i) ==
                   Tokens(BuildCompressedFromKeptLines(text, before \cup {i})) <= maxTokens
             IN  before \cup {i \in CompressionSelectionOrder(text, maxTokens, n) : fits(i)}
  IN  kept

SelectWholeLinesWithinCap(text, maxTokens) ==
  LET kept == KeptWithinCap(text, maxTokens)[Len(text) + 1]
  IN  IF kept = {} THEN <<>> ELSE BuildCompressedFromKeptLines(text, kept)

(* capSingleLine keeps ranges of words; a single word is kept beyond the   *)
(* cap rather than not at all.                                             *)
Clip(line, tokens) ==
  [line EXCEPT !.kind = "clip", !.tokens = tokens, !.keeps = line.head]

CapSingleLine(line, maxTokens) ==
  IF maxTokens > 1 /\ ~line.word THEN <<Clip(line, Smaller(line.tokens, maxTokens))>>
  ELSE IF line.tokens <= 2 * maxTokens THEN <<line>>
  ELSE <<Clip(line, maxTokens + 1)>>

HardCapTokens(text, maxTokens) ==
  IF maxTokens <= 0 \/ text = <<>> THEN <<>>
  ELSE IF Tokens(text) <= maxTokens THEN text
  ELSE LET whole == SelectWholeLinesWithinCap(text, maxTokens)
       IN  IF whole # <<>> THEN whole
           ELSE CapSingleLine(BestCompressionLine(text), maxTokens)

-----------------------------------------------------------------------------
(* The compression contract.                                               *)

CompressionContractAllowedTokens(rawTokens, budget) ==
  LET share == CeilDiv(rawTokens, 5)
      capped == IF budget.tokens > 0 THEN Smaller(share, budget.tokens) ELSE share
  IN  Larger(capped, ContractMinTokens)

ContractCuts(text, rawTokens, budget) ==
  /\ rawTokens >= ContractMinRawTokens
  /\ Tokens(text) > CompressionContractAllowedTokens(rawTokens, budget)

(* What was cut becomes part of the recovery plan.                         *)
EnforceCompressionContract(text, rawTokens, budget) ==
  IF ContractCuts(text, rawTokens, budget)
  THEN HardCapTokens(text, CompressionContractAllowedTokens(rawTokens, budget)) ELSE text

-----------------------------------------------------------------------------
(* The ultra-compact form: a summary line and one of details.              *)

UltraCompactLineScore(line, i, failed) ==
  line.score + (IF i = 2 THEN 8 ELSE 0) + (IF line.kind = "more" THEN 18 ELSE 0)
    + (IF line.kind = "ref" THEN -32 ELSE 0)
    + (IF failed /\ line.keeps # {} THEN 18 ELSE 0)

(* The lines after the headline and, of a failed run, error lines of the   *)
(* raw output, none twice.                                                 *)
UltraCompactLines(text, raw, failed) ==
  text \o (IF failed /\ raw # <<>> THEN InterestingErrorLines(raw, 4) ELSE <<>>)

UltraCompactCandidates(lines) ==
  {i \in DOMAIN lines : i > 1 /\ \A j \in 1 .. i - 1 : lines[j].id # lines[i].id}

(* Their details, the worthiest few, go into one line.                     *)
UltraCompactDetails(text, raw, failed) ==
  LET lines == UltraCompactLines(text, raw, failed)
      score(i) == UltraCompactLineScore(lines[i], i, failed) + IF i <= Len(text) THEN 0 ELSE 12
      before(i, j) == score(i) > score(j) \/ (score(i) = score(j) /\ i < j)
      worthy == {i \in UltraCompactCandidates(lines) : score(i) > 0}
      most == IF failed THEN 3 ELSE 2
      chosen == {i \in worthy : Cardinality({j \in worthy : before(j, i)}) < most}
      shown == Cardinality(chosen \cap DOMAIN text)
  IN  IF UltraCompactCandidates(lines) = {} THEN <<>>
      ELSE IF chosen = {} THEN <<text[2]>>
      ELSE KeepAt(lines, chosen) \o (IF Len(text) - 1 > shown THEN <<More>> ELSE <<>>)

(* The details are joined to one line, which is cut when it is too long.   *)
UltraCompactDetail(parts) ==
  LET line == [kind |-> "detail", id |-> "detail", tokens |-> Tokens(parts), score |-> 1,
               keeps |-> Keeps(parts), head |-> {}, word |-> FALSE]
  IN  IF parts = <<>> THEN <<>> ELSE HardCapTokens(<<line>>, 24)

RenderUltraCompact(text, raw, failed) ==
  IF text = <<>> THEN <<>>
  ELSE IF Len(text) = 1 THEN HardCapTokens(text, 24)
  ELSE HardCapTokens(<<text[1]>>, 14)
         \o UltraCompactDetail(UltraCompactDetails(text, raw, failed))

-----------------------------------------------------------------------------
(* The guards.                                                             *)

(* shouldKeepCanonicalSmallSummary: a mark of an intended summary breaks a *)
(* tie, and no more.                                                       *)
KeepsCanonicalSmallSummary(text, raw, exit) ==
  /\ exit = 0 /\ text # raw
  /\ Tokens(text) <= Tokens(raw)
  /\ \E i \in DOMAIN text : i > 1 /\ text[i].kind = "more"

(* preferRawSmallOutputForProfile *)
PreferRawSmallOutput(text, raw, exit) ==
  LET prefers == /\ raw # <<>> /\ text # <<>>
                 /\ Tokens(raw) <= SmallTokens
                 /\ ~KeepsCanonicalSmallSummary(text, raw, exit)
                 /\ Tokens(text) >= Tokens(raw)
  IN  IF prefers THEN raw ELSE text

(* preferTerseRenderForRewrittenCommand, of a complete capture.            *)
PreferTerseRender(text, raw) ==
  LET compact == CompactLines(raw, TerseLines)
      stands == /\ compact # <<>> /\ ~HasKind(compact, "more")
                /\ Tokens(compact) * TerseShare < Tokens(text)
  IN  IF Tokens(text) > TerseTokens /\ stands THEN compact ELSE text

(* enforceFinalNeverWorseThanRaw, of a complete capture.                   *)
NeverWorseThanRaw(text, raw) ==
  IF raw # <<>> /\ Tokens(text) > Tokens(raw) THEN raw ELSE text

-----------------------------------------------------------------------------
(* Suffixes that refer to an artifact, the longest first: what was left    *)
(* out and where it is, where it is, that it is.                           *)
DisplayArtifactSuffixes(planned) ==
  IF planned THEN <<Reference(20), Reference(12), Reference(4)>>
  ELSE <<Reference(12), Reference(4)>>

(* fitRenderedDisplaySuffix and what is done when none fits.               *)
WithSuffix(text, suffix, allowed) ==
  Append(HardCapTokens(text, allowed - suffix.tokens), suffix)

FitSuffix(text, suffixes, allowed) ==
  LET fits(s) == s.tokens < allowed /\ Tokens(WithSuffix(text, s, allowed)) <= allowed
      fitting == {i \in DOMAIN suffixes : fits(suffixes[i])}
      first == CHOOSE i \in fitting : \A j \in fitting : i <= j
  IN  IF fitting # {} THEN WithSuffix(text, suffixes[first], allowed)
      ELSE Append(HardCapTokens(text, allowed), Last(suffixes))

AssembleWithSuffixes(text, suffixes, rawTokens, budget, contract) ==
  IF ~contract \/ rawTokens < ContractMinRawTokens THEN Append(text, suffixes[1])
  ELSE FitSuffix(text, suffixes, CompressionContractAllowedTokens(rawTokens, budget))

-----------------------------------------------------------------------------
(* The retention verifier.                                                 *)

(* The lines read for facts: none once MaxFacts are found.                 *)
FactLines(source) ==
  {i \in DOMAIN source : Cardinality(Keeps(SubSeq(source, 1, i - 1))) < MaxFacts}

(* A fact is found in the first line that names it.                        *)
NewFacts(source, i) == source[i].keeps \ Keeps(SubSeq(source, 1, i - 1))

Facts(source) == UNION {NewFacts(source, i) : i \in FactLines(source)}

Details(source) == Facts(source) \ SummaryCounts

(* Facts to repair.  A count is wanted of a failure only, and only if the  *)
(* text names no detail.                                                   *)
MissingFacts(source, text, failed) ==
  LET dropped == Facts(source) \ Keeps(text)
      explained == Details(source) \cap Keeps(text) # {}
  IN  IF failed /\ ~explained THEN dropped ELSE dropped \ SummaryCounts

(* collapseRetentionLine                                                   *)
Collapsed(line) ==
  IF line.tokens <= RepairTokens THEN line ELSE Clip(line, RepairTokens)

(* VerifyRetention: the lines of these facts.                              *)
MissingLines(source, text, failed) ==
  LET missing == MissingFacts(source, text, failed)
  IN  KeepAt([i \in DOMAIN source |-> Collapsed(source[i])],
             {i \in FactLines(source) : NewFacts(source, i) \cap missing # {}})

(* The facts that VerifyRetention and its repair give an account of: the   *)
(* details among the facts found, and the counts of a failure that has no  *)
(* details, if the line that is put back still names them.                 *)
Promised(source, failed) ==
  LET named == UNION {NewFacts(source, i) \cap Collapsed(source[i]).keeps :
                        i \in FactLines(source)}
  IN  IF failed /\ Details(source) = {} THEN named ELSE named \ SummaryCounts

AppendRetentionRepair(text, missing, maxLines) ==
  Append(text, Header) \o SubSeq(missing, 1, Smaller(Len(missing), Larger(maxLines, 1)))
=============================================================================
