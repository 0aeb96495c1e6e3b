------------------------- MODULE DiagnosticReducers -------------------------
(***************************************************************************)
(* The summaries of compilers, test runners and build tools:               *)
(* internal/filters/rust, python, dotnet, gradle, cpp, php, pulumi, build  *)
(* and javascript.  They are given the whole output (a buffered reducer    *)
(* calls them at the end).                                                 *)
(*                                                                         *)
(* A line is what its tool's classifier makes of it (kind), with its text  *)
(* (id), which is also its key unless it refers to a place in a source     *)
(* file (anchored): then that is.  Where a kind has an order of its own,   *)
(* the tag says which of it the line is.                                   *)
(***************************************************************************)
EXTENDS LineReducers

CONSTANTS
  Allowance,     \* the tokens the contract will allow, 0 if it is off;
                 \* a line is one
  BlockBudget    \* buildKitBlockLineBudget

Of(lines, kinds) == SelectSeq(lines, LAMBDA l : l.kind \in kinds)

(* UniqueStrings of FoldConsecutiveLines: a run of equal lines is one, and *)
(* so are equal runs of them.                                              *)
Unique(s) == FoldLeft(LAMBDA out, e : IF e \in ToSet(out) THEN out ELSE Append(out, e), <<>>, s)
FoldUnique(lines) ==
  LET fold(runs, line) ==
        IF runs # <<>> /\ Last(runs).line = line
        THEN [runs EXCEPT ![Len(runs)].count = @ + 1] ELSE Append(runs, Run(line))
  IN  Unique(FoldLeft(fold, <<>>, lines))
Each(lines) == [i \in DOMAIN lines |-> Run(lines[i])]

(* SelectUniqueAnchoredLines, of at most a third of the budget.            *)
AnchorBudget == MaxLines \div 3 + 1
SelectUniqueAnchored(items, n) ==
  LET keep(runs, run) == IF run.line.key \in KeysOf(runs) THEN runs ELSE Append(runs, run)
  IN  FirstOf(FoldLeft(keep, <<>>, items), n)

Anchored(items) == SelectSeq(items, LAMBDA i : i.line.anchored)
Unanchored(items) == SelectSeq(items, LAMBDA i : ~i.line.anchored)

(* JoinLimitedLines, with the count of what is beyond the limit; or with   *)
(* that of what was left out before, when it is all a summarizer counts.   *)
LimitedOmitting(items, omitted) ==
  LET shown == FirstOf(items, MaxLines)
  IN  Said(KeysOf(shown), Len(shown), Len(items) - Len(shown), omitted > 0)
Limited(items) == LimitedOmitting(items, Most(Len(items) - MaxLines, 0))

(* What a summary falls back to comes without a recovery.                  *)
Unplanned(said) == [said EXCEPT !.plan = FALSE]
CompactText(lines) == Unplanned(ApplySpec(LineLimited(CompactLinesSpec, MaxLines), lines))
GenericText(lines) == Unplanned(FailureResult(FoldLeft(FailureFeed, FailureStart, lines)))

(* Candidates of a tier, and what FitPriorityLines makes of them.          *)
Tiered(line, tier) == [line |-> line, tier |-> tier, cost |-> 1]
AllTiered(items, tier) == [i \in DOMAIN items |-> Tiered(items[i].line, tier)]
LeadTiered(items, lead, first, others) ==
  [i \in DOMAIN items |-> Tiered(items[i].line, IF i <= lead THEN first ELSE others)]

(* Mutant: what was skipped before is not counted.                         *)
FittedAlone(candidates, uncounted) ==
  LET fit == FitPriorityLines(candidates, MaxLines, Allowance)
  IN  Said({candidates[fit.lines[i]].line.key : i \in DOMAIN fit.lines}, Len(fit.lines),
           fit.omitted, fit.omitted > 0)

Fitted(candidates, uncounted) ==
  LET fit == FitPriorityLines(candidates, MaxLines, Allowance)
  IN  Said({candidates[fit.lines[i]].line.key : i \in DOMAIN fit.lines}, Len(fit.lines),
           fit.omitted + uncounted, fit.omitted + uncounted > 0)

(* With a marker for what does not fit, if there is room for it, instead   *)
(* of a recovery.                                                          *)
FittedWithMarker(candidates) ==
  LET fit == FitPriorityLines(candidates, MaxLines, Allowance)
      noted == NotesOmission(fit, Allowance, 1)
  IN  Said({candidates[fit.lines[i]].line.key : i \in DOMAIN fit.lines}, Len(fit.lines),
           IF noted THEN fit.omitted ELSE 0, FALSE)

(* Summaries in the order of their tags.                                   *)
Prioritized(items, order) ==
  FlattenSeq([n \in DOMAIN order |-> SelectSeq(items, LAMBDA i : i.line.tag = order[n])])

-----------------------------------------------------------------------------
(* cargo test.  A name counts only right under "failures:".                *)
InFailureList(lines, i) ==
  \E j \in 1 .. i - 1 : /\ lines[j].kind = "failures"
                        /\ \A k \in j + 1 .. i - 1 : lines[k].kind = "divider"

CargoTestFailures(lines) ==
  LET at(i) == \/ lines[i].kind \in {"failed", "header"}
               \/ lines[i].kind = "name" /\ InFailureList(lines, i)
      of == SelectSeq([i \in DOMAIN lines |-> i], at)
  IN  FoldUnique([n \in DOMAIN of |-> lines[of[n]]])

(* pruneCargoFailureNames: a name that a "test ... FAILED" line gives.     *)
PruneNames(failures) ==
  LET explicit == {f.line.key : f \in {g \in ToSet(failures) : g.line.kind = "failed"
                                                               /\ g.count = 1}}
      restated(f) == f.line.kind = "name" /\ f.count = 1 /\ f.line.key \in explicit
  IN  SelectSeq(failures, LAMBDA f : ~restated(f))

LastOf(lines, kind) ==
  LET of == Of(lines, {kind})
  IN  IF of = <<>> THEN <<>> ELSE <<Run(Last(of))>>

CargoTestResult(lines) ==
  LET details == FoldUnique(Of(lines, {"root", "stack", "hint"}))
      of(kind) == SelectSeq(details, LAMBDA d : d.line.kind = kind)
      failures == CargoTestFailures(lines)
      summaries == FoldUnique(Of(lines, {"running", "result", "rerun", "finished"}))
      counts == LastOf(lines, "result")
      rerun == LastOf(lines, "rerun")
  IN  IF failures # <<>> \/ details # <<>>
      THEN Limited(PruneNames(failures) \o of("root")
                   \o SelectUniqueAnchored(of("stack"), AnchorBudget) \o counts \o rerun
                   \o of("hint"))
      ELSE IF counts # <<>> THEN Unplanned(Limited(counts))
      ELSE IF rerun # <<>> THEN Unplanned(Limited(rerun))
      ELSE IF summaries # <<>> THEN Limited(summaries)
      ELSE CompactText(lines)

(* cargo build: a block for each diagnostic.  A hint that restates a lint  *)
(* (tag) is pruned, once a lint is known.                                  *)
CargoSummaries == <<"compile", "abort", "explained", "warnings", "finished", "information">>
CargoStart == [blocks |-> <<>>, summaries |-> <<>>, progress |-> 0, loose |-> <<>>, in |-> FALSE]

BlockLine(block, line) ==
  CASE line.kind = "span" -> [block EXCEPT !.spans = Append(@, Run(line))]
    [] line.kind = "hint" -> [block EXCEPT !.hints = Append(@, line)]
    [] line.kind = "source" /\ block.source = <<>> -> [block EXCEPT !.source = <<Run(line)>>]
    [] OTHER -> block

CargoIngest(s, line) ==
  CASE line.kind = "summary" -> [s EXCEPT !.summaries = Append(@, line), !.in = FALSE]
    [] line.kind = "progress" -> [s EXCEPT !.progress = @ + 1, !.in = FALSE]
    [] line.kind = "header" ->
         [s EXCEPT !.in = TRUE, !.blocks = Append(@, [header |-> <<Run(line)>>, spans |-> <<>>,
                                                      source |-> <<>>, hints |-> <<>>])]
    [] line.kind \notin {"summary", "progress", "header"} /\ s.in ->
         [s EXCEPT !.blocks[Len(s.blocks)] = BlockLine(@, line)]
    [] line.kind \in {"loose", "span", "hint"} /\ ~s.in -> [s EXCEPT !.loose = Append(@, line)]
    [] OTHER -> s

CargoBlockLines(block) ==
  LET restates(h) == h.line.tag = "lint"
      linted == \E i \in DOMAIN block.hints : block.hints[i].tag = "lint"
      hints == SelectSeq(FoldUnique(block.hints), LAMBDA h : ~(linted /\ restates(h)))
  IN  AllTiered(block.header, 0) \o AllTiered(SelectUniqueAnchored(block.spans, 2), 2)
        \o AllTiered(block.source, 3) \o LeadTiered(hints, 1, 4, 6)

CargoBuildResult(lines) ==
  LET s == FoldLeft(CargoIngest, CargoStart, lines)
      summaries == Prioritized(FoldUnique(s.summaries), CargoSummaries)
      loose == FoldUnique(s.loose)
      progress == Each(Of(lines, {"progress"}))
      blocks == FlattenSeq([i \in DOMAIN s.blocks |-> CargoBlockLines(s.blocks[i])])
  IN  IF s.blocks # <<>> \/ loose # <<>>
      THEN Fitted(blocks \o AllTiered(loose, 5) \o LeadTiered(summaries, 2, 1, 7), s.progress)
      ELSE IF summaries # <<>> \/ progress # <<>> THEN Limited(summaries \o progress)
      ELSE CompactText(lines)

-----------------------------------------------------------------------------
(* pytest.  In the short summary a line that is none of its entries is the *)
(* rest of the entry before, which is joined; its status line ends it.     *)
ShortFailures(lines) ==
  LET put(s, l) ==
        IF s.done THEN s
        ELSE IF l.kind = "info" THEN [s EXCEPT !.in = TRUE]
        ELSE IF l.kind = "failed" THEN [s EXCEPT !.out = Append(@, l)]
        ELSE IF s.in /\ l.kind = "status" THEN [s EXCEPT !.done = TRUE]
        ELSE s
  IN  FoldLeft(put, [out |-> <<>>, in |-> FALSE, done |-> FALSE], lines).out

(* mergePytestSectionNames: banners of tests that no entry names.          *)
WithSectionNames(failures, lines) ==
  LET put(out, banner) ==
        IF banner.key \in KeysOf(out) THEN out ELSE Append(out, Run(banner))
  IN  FoldLeft(put, failures, Of(lines, {"banner"}))

PytestResult(lines) ==
  LET summaries == FoldUnique(Of(lines, {"collected", "status"}))
      failures == WithSectionNames(FoldUnique(ShortFailures(lines)), lines)
      details == FoldUnique(Of(lines, {"root", "stack", "hint"}))
      of(kind) == SelectSeq(details, LAMBDA d : d.line.kind = kind)
  IN  IF failures # <<>> \/ details # <<>>
      THEN Limited(summaries \o failures \o of("root")
                   \o SelectUniqueAnchored(of("stack"), AnchorBudget) \o of("hint"))
      ELSE IF summaries # <<>> THEN Limited(summaries)
      ELSE CompactText(lines)

(* ruff, mypy, pip: findings, then summaries, each once.                   *)
PythonToolingResult(lines) ==
  LET out == FoldUnique(Of(lines, {"finding"})) \o FoldUnique(Of(lines, {"summary"}))
  IN  IF out = <<>> THEN GenericText(lines) ELSE Limited(out)

(* ctest, clang tools and PHP: what has no place in a source first, then a *)
(* few of what has, then the summaries.                                    *)
AnchoredResult(lines) ==
  LET findings == FoldUnique(Of(lines, {"finding"}))
      summaries == FoldUnique(Of(lines, {"summary"}))
  IN  IF findings = <<>> /\ summaries = <<>> THEN GenericText(lines)
      ELSE Limited(Unanchored(findings) \o SelectUniqueAnchored(Anchored(findings), AnchorBudget)
                   \o summaries)

-----------------------------------------------------------------------------
(* dotnet build: all errors, warnings as the budget allows, summaries.     *)
DotnetSummaries == <<"failed", "succeeded", "errors", "warnings", "elapsed">>

WithinLimit(out, items, limit) == out \o FirstOf(items, limit - Len(out))

DotnetBuildResult(lines) ==
  LET errors == FoldUnique(Of(lines, {"error"}))
      warnings == FoldUnique(Of(lines, {"warning"}))
      summaries == Prioritized(FoldUnique(Of(lines, {"summary"})), DotnetSummaries)
      budget == Most(MaxLines - Least(Len(summaries), 2), Len(errors))
      out == WithinLimit(WithinLimit(errors, warnings, budget), summaries, MaxLines)
  IN  IF errors # <<>> \/ warnings # <<>>
      THEN LimitedOmitting(out, Len(errors) + Len(warnings) + Len(summaries) - Len(out))
      ELSE IF summaries # <<>> THEN Limited(summaries)
      ELSE GenericText(lines)

(* dotnet test: a block for each failing test: its name, four lines of its *)
(* message and a frame of its stack.                                       *)
DotnetTestStart == [blocks |-> <<>>, errors |-> <<>>, summaries |-> <<>>, state |-> "none"]

DotnetTestIngest(s, line) ==
  LET n == Len(s.blocks)
  IN  CASE line.kind = "failed" ->
             [s EXCEPT !.state = "none",
                       !.blocks = Append(@, [name |-> line, messages |-> <<>>, stack |-> <<>>])]
        [] line.kind = "summary" ->
             [s EXCEPT !.state = "none", !.summaries = Append(@, line)]
        [] line.kind = "error" -> [s EXCEPT !.state = "none", !.errors = Append(@, line)]
        [] line.kind \in {"message", "stack"} -> [s EXCEPT !.state = line.kind]
        [] line.kind = "frame" /\ s.state = "stack" /\ n > 0 ->
             [s EXCEPT !.blocks[n].stack = IF @ = <<>> THEN <<Run(line)>> ELSE @]
        [] line.kind \in {"", "frame"} /\ s.state = "message" /\ n > 0 ->
             [s EXCEPT !.blocks[n].messages = IF Len(@) < 4 THEN Append(@, line) ELSE @]
        [] OTHER -> s

(* A line under a block's name. *)
Under(i, run) == [line |-> run.line, count |-> run.count, block |-> i]

(* selectDotnetTestLines: the first message of every block before the      *)
(* second of any, then the frames, while there is room.                    *)
DotnetDetails(blocks, room) ==
  LET messages == [i \in DOMAIN blocks |-> FoldUnique(blocks[i].messages)]
      at(pass) == FlattenSeq([i \in DOMAIN blocks |->
                    IF pass <= Len(messages[i]) THEN <<Under(i, messages[i][pass])>>
                    ELSE <<>>])
      frames == FlattenSeq([i \in DOMAIN blocks |->
                    IF blocks[i].stack = <<>> THEN <<>>
                    ELSE <<Under(i, blocks[i].stack[1])>>])
      details == at(1) \o at(2) \o at(3) \o at(4) \o frames
  IN  [kept |-> FirstOf(details, room), all |-> Len(details)]

DotnetTestResult(lines) ==
  LET s == FoldLeft(DotnetTestIngest, DotnetTestStart, lines)
      errors == FoldUnique(s.errors)
      summaries == FoldUnique(s.summaries)
      signal == Len(s.blocks) + Len(errors)
      budget == Most(MaxLines - Least(Len(summaries), 1), signal)
      details == DotnetDetails(s.blocks, budget - signal)
      block(i) ==
        <<Run(s.blocks[i].name)>> \o SelectSeq(details.kept, LAMBDA d : d.block = i)
      out == WithinLimit(errors \o FlattenSeq([i \in DOMAIN s.blocks |-> block(i)]),
                         summaries, MaxLines)
  IN  IF s.blocks # <<>> \/ errors # <<>>
      THEN LimitedOmitting(out, signal + details.all + Len(summaries) - Len(out))
      ELSE IF summaries # <<>> THEN Limited(summaries)
      ELSE GenericText(lines)

-----------------------------------------------------------------------------
(* gradle.  Under "What went wrong" and under a failing test the next few  *)
(* lines are details, whatever they are, until the next section or task.   *)
GradleTiers ==
  [taskFailed |-> 0, failed |-> 0, test |-> 0, completed |-> 1, compile |-> 1, error |-> 2]
GradleMarkers == {"wrong", "section", "task", "taskFailed"}
GradleStart == [lines |-> <<>>, success |-> <<>>, failed |-> FALSE, actionable |-> <<>>, left |-> 0]

GradleIngest(s, line) ==
  IF s.left > 0 /\ line.kind \notin GradleMarkers
  THEN [s EXCEPT !.left = @ - 1, !.lines = Append(@, Tiered(line, 1))]
  ELSE [lines |-> IF line.kind \in DOMAIN GradleTiers
                  THEN Append(s.lines, Tiered(line, GradleTiers[line.kind])) ELSE s.lines,
        success |-> IF line.kind = "success" THEN <<Run(line)>> ELSE s.success,
        failed |-> s.failed \/ line.kind \in {"taskFailed", "failed", "test"},
        actionable |-> IF line.kind = "actionable" THEN <<Run(line)>> ELSE s.actionable,
        left |-> CASE line.kind = "wrong" -> 3 [] line.kind = "test" -> 2 [] OTHER -> 0]

(* priorityLines: a line that comes again is what it was the first time.   *)
GradleCandidates(s) ==
  LET keep(out, c) == IF \E d \in ToSet(out) : d.line.id = c.line.id THEN out ELSE Append(out, c)
      lines == FoldLeft(keep, <<>>, s.lines)
  IN  IF lines = <<>> THEN <<>> ELSE lines \o AllTiered(s.actionable, 3)

GradleResult(lines) ==
  LET s == FoldLeft(GradleIngest, GradleStart, lines)
  IN  IF s.success # <<>> /\ ~s.failed
      THEN Said(KeysOf(s.success \o s.actionable), Len(s.success \o s.actionable), 0, FALSE)
      ELSE IF GradleCandidates(s) = <<>> THEN GenericText(lines)
      ELSE Fitted(GradleCandidates(s), 0)

(* pulumi.  A section is what its header says until another begins.        *)
PulumiSections == [diagnostics |-> 0, resources |-> 0, outputs |-> 2]
PulumiTiers == [header |-> 2, duration |-> 0, change |-> 1, error |-> 0]
PulumiStart == [lines |-> <<>>, section |-> "", unchanged |-> 0]

PulumiIngest(s, line) ==
  LET put(tier) == Append(s.lines, Tiered(line, tier))
      kind == line.kind
  IN  CASE kind \in {"header", "duration"} ->
             [s EXCEPT !.section = "", !.lines = put(PulumiTiers[kind])]
        [] kind \in DOMAIN PulumiSections ->
             [s EXCEPT !.section = kind, !.lines = put(PulumiSections[kind])]
        [] kind \notin DOMAIN PulumiSections \cup {"header", "duration"} /\ s.section # "" ->
             [s EXCEPT !.lines = put(PulumiSections[s.section])]
        [] kind = "unchanged" /\ s.section = "" -> [s EXCEPT !.unchanged = @ + 1]
        [] kind \in {"change", "error"} /\ s.section = "" ->
             [s EXCEPT !.lines = put(PulumiTiers[kind])]
        [] OTHER -> s

PulumiResult(lines) ==
  LET s == FoldLeft(PulumiIngest, PulumiStart, lines)
  IN  IF s.lines = <<>> THEN CompactText(lines) ELSE Fitted(s.lines, s.unchanged)

-----------------------------------------------------------------------------
(* make, maven, ninja, bazel: lines under a failure header or a linker's   *)
(* are its details; the first of them is of the header's own tier.         *)
BuildTiers ==
  [unit |-> 0, suite |-> 2, linker |-> 0, tool |-> 0, tagged |-> 2, content |-> 2]
BuildWindow == [unit |-> 3, suite |-> 3, linker |-> 4]
BuildMarkers == {"frame", "unit", "suite", "tagged", "boilerplate", "info"}
BuildStart == [lines |-> <<>>, summaries |-> <<>>, left |-> 0, first |-> FALSE]

BuildIngest(s, line) ==
  IF s.left > 0 /\ line.kind \notin BuildMarkers
  THEN [s EXCEPT !.left = @ - 1, !.first = FALSE,
                 !.lines = Append(@, Tiered(line, IF s.first THEN 0 ELSE 1))]
  ELSE [lines |-> IF line.kind \in DOMAIN BuildTiers
                  THEN Append(s.lines, Tiered(line, BuildTiers[line.kind])) ELSE s.lines,
        summaries |-> IF line.kind \in {"progress", "info"} THEN Append(s.summaries, line) ELSE s.summaries,
        left |-> IF line.kind \in DOMAIN BuildWindow THEN BuildWindow[line.kind] ELSE 0,
        first |-> line.kind \in DOMAIN BuildWindow \/ s.first]

(* dedupeBuildLines: an anchor that comes again is paid for again.         *)
DedupeBuild(lines) ==
  LET put(s, c) ==
        LET anchored == c.line.anchored /\ c.tier = 2
            key == IF anchored THEN c.line.key ELSE c.line.id
        IN  IF anchored /\ s.budget = 0 THEN s
            ELSE [seen |-> s.seen \cup {key},
                  budget |-> IF anchored THEN s.budget - 1 ELSE s.budget,
                  out |-> IF key \in s.seen THEN s.out ELSE Append(s.out, c)]
  IN  FoldLeft(put, [seen |-> {}, budget |-> AnchorBudget, out |-> <<>>], lines).out

BuildResult(lines) ==
  LET s == FoldLeft(BuildIngest, BuildStart, lines)
      candidates == DedupeBuild(s.lines) \o AllTiered(FoldUnique(s.summaries), 3)
  IN  IF candidates = <<>> THEN GenericText(lines) ELSE Fitted(candidates, 0)

(* docker build: the header and the error of each failed step, the blocks  *)
(* between dashes, the last lines.                                         *)
BuildKitStart == [headers |-> <<>>, failed |-> <<>>, errors |-> <<>>, block |-> <<>>,
                  tail |-> <<>>, in |-> FALSE]

BuildKitIngest(s, line) ==
  LET kind == line.kind
  IN  CASE kind = "dashes" -> [s EXCEPT !.in = ~@]
        [] kind # "dashes" /\ s.in ->
             [s EXCEPT !.block = IF Len(@) < BlockBudget THEN Append(@, line) ELSE @]
        [] kind = "error" /\ ~s.in ->
             [s EXCEPT !.errors = Append(@, line),
                       !.failed = IF line.step \in ToSet(@) THEN @ ELSE Append(@, line.step)]
        [] kind = "header" /\ ~s.in -> [s EXCEPT !.headers = Append(@, line)]
        [] kind = "tail" /\ ~s.in -> [s EXCEPT !.tail = Append(@, line)]
        [] OTHER -> s

BuildKitHeader(s, step) ==
  LET of == SelectSeq(s.headers, LAMBDA h : h.step = step)
  IN  IF of = <<>> THEN <<>> ELSE <<Last(of)>>

BuildKitResult(lines) ==
  LET s == FoldLeft(BuildKitIngest, BuildKitStart, lines)
      out == FlattenSeq([i \in DOMAIN s.failed |-> BuildKitHeader(s, s.failed[i])])
               \o s.errors \o s.block \o s.tail
      ok == [key |-> "ok"]
      unique(of) == SelectUniqueAnchored(Each(of), Len(of))
  IN  IF out # <<>> THEN Limited(unique(out))
      ELSE Limited(unique(FirstOf(<<ok>> \o Of(lines, {"image"}), MaxLines)))

(* terraform: a caption is followed by its text; the notes of what is cut  *)
(* are lines among the others.                                             *)
TerraformStart == [headers |-> <<>>, attrs |-> <<>>, summaries |-> <<>>, alerts |-> <<>>,
                   context |-> 0]

TerraformIngest(s, line) ==
  CASE line.kind = "alert" -> [s EXCEPT !.alerts = Append(@, Run(line)), !.context = 4]
    [] line.kind # "alert" /\ s.context > 0 ->
         [s EXCEPT !.alerts = Append(@, Run(line)), !.context = @ - 1]
    [] line.kind = "header" /\ s.context = 0 -> [s EXCEPT !.headers = Append(@, Run(line))]
    [] line.kind = "summary" /\ s.context = 0 -> [s EXCEPT !.summaries = Append(@, Run(line))]
    [] line.kind = "attr" /\ s.context = 0 -> [s EXCEPT !.attrs = Append(@, Run(line))]
    [] OTHER -> s

CappedLines(items, limit) ==
  LET note == [line |-> [key |-> "+more"], count |-> 1]
  IN  IF Len(items) > limit THEN Append(FirstOf(items, limit), note) ELSE items

TerraformResult(lines) ==
  LET s == FoldLeft(TerraformIngest, TerraformStart, lines)
      out == SelectUniqueAnchored(s.summaries, Len(s.summaries)) \o s.alerts
               \o CappedLines(s.headers, Most(MaxLines \div 2, 3)) \o CappedLines(s.attrs, 4)
  IN  IF out = <<>> THEN CompactText(lines) ELSE Limited(out)

-----------------------------------------------------------------------------
(* jest, vitest, mocha as text.  The name of a mocha failure goes on over  *)
(* the lines under its header, up to one that ends it (tag "colon").       *)
JSSummaries == <<"suites", "tests", "snapshots", "files", "time", "count">>
JSStart == [names |-> <<>>, details |-> <<>>, summaries |-> <<>>, header |-> <<>>, parts |-> 0]

JSFlush(s, whole) ==
  IF s.header = <<>> THEN s
  ELSE LET name == IF whole /\ s.parts > 0 THEN [s.header[1] EXCEPT !.tag = "whole"]
                   ELSE s.header[1]
       IN  [s EXCEPT !.names = Append(@, name), !.header = <<>>, !.parts = 0]

JSClassify(s, line) ==
  CASE line.kind = "spec" -> [s EXCEPT !.names = Append(@, line)]
    [] line.kind = "mocha" /\ line.tag = "colon" -> [s EXCEPT !.names = Append(@, line)]
    [] line.kind = "mocha" /\ line.tag # "colon" -> [s EXCEPT !.header = <<line>>]
    [] line.kind = "summary" -> [s EXCEPT !.summaries = Append(@, line)]
    [] line.kind = "detail" -> [s EXCEPT !.details = Append(@, line)]
    [] OTHER -> s

JSIngest(s, line) ==
  IF s.header = <<>> THEN JSClassify(s, line)
  ELSE IF line.kind \in {"spec", "mocha", "summary", "detail", "noise"}
  THEN JSClassify(JSFlush(s, FALSE), line)
  ELSE IF line.tag = "colon" THEN JSFlush([s EXCEPT !.parts = @ + 1], TRUE)
  ELSE IF s.parts < 3 THEN [s EXCEPT !.parts = @ + 1]
  ELSE JSClassify(JSFlush(s, FALSE), line)

JSTestResult(lines) ==
  LET s == JSFlush(FoldLeft(JSIngest, JSStart, lines), FALSE)
      once(of) == Each(Unique(of))
      candidates == AllTiered(once(s.names), 0) \o AllTiered(once(s.details), 2)
                      \o LeadTiered(Prioritized(once(s.summaries), JSSummaries), 1, 1, 3)
  IN  IF candidates = <<>> THEN CompactText(lines) ELSE FittedWithMarker(candidates)

(* The same runners as JSON: the failed suites, each with what is told of  *)
(* its failures.  The note has no number, and is there even when nothing   *)
(* is left out.                                                            *)
JSReportResult(suites) ==
  LET limit == Most(MaxLines, 4)
      failed == SelectSeq(suites, LAMBDA u : u.failed)
      details == FlattenSeq([i \in DOMAIN failed |->
                   <<[key |-> failed[i].key]>>
                   \o [n \in DOMAIN failed[i].failures |-> [key |-> failed[i].failures[n]]]])
      shown == FirstOf(details, limit)
  IN  Said({shown[i].key : i \in DOMAIN shown}, Len(shown), 0, FALSE)

(* eslint, tsc, npm: a file's name is shown with the first finding in it.  *)
JSToolingStart == [critical |-> <<>>, grouped |-> <<>>, summaries |-> <<>>, header |-> <<>>]

Grouped(out, line, tier) ==
  IF \E c \in ToSet(out) : c.line.id = line.id THEN out ELSE Append(out, Tiered(line, tier))

JSToolingIngest(s, line) ==
  CASE line.kind = "critical" -> [s EXCEPT !.header = <<>>, !.critical = Append(@, line)]
    [] line.kind = "file" -> [s EXCEPT !.header = <<line>>]
    [] line.kind = "summary" -> [s EXCEPT !.header = <<>>, !.summaries = Append(@, line)]
    [] line.kind \in {"error", "detail"} ->
         LET tier == IF line.kind = "error" THEN 2 ELSE 3
         IN  IF s.header = <<>> THEN [s EXCEPT !.grouped = Grouped(@, line, tier)]
             ELSE [s EXCEPT !.header = <<>>,
                            !.grouped = Grouped(Grouped(@, s.header[1], 1), line, 1)]
    [] OTHER -> s

JSToolingResult(lines) ==
  LET s == FoldLeft(JSToolingIngest, JSToolingStart, lines)
      candidates == AllTiered(FoldUnique(s.critical), 0) \o s.grouped
                      \o AllTiered(FoldUnique(s.summaries), 4)
  IN  IF candidates = <<>> THEN CompactText(lines) ELSE FittedWithMarker(candidates)
=============================================================================
