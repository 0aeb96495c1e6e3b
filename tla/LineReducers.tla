---------------------------- MODULE LineReducers ----------------------------
(***************************************************************************)
(* The reducers that know lines and no tool: the compact ones, the         *)
(* declarative engine, the failure reducer, the two log reducers and the   *)
(* summary of go test.  internal/filters/lines.go, declarative/,           *)
(* declarative_bridge.go, failure.go, log_reducer*.go, log_stream.go,      *)
(* selfcap.go.                                                             *)
(*                                                                         *)
(* A line is a record: its text (id), the key under which similar lines    *)
(* are folded (key), and what the reducer at hand sees in it.  A reducer   *)
(* is a record that the lines of the streams are fed to, one by one; what  *)
(* it says at the end is                                                   *)
(*   shown   the keys of the lines its text has                            *)
(*   rows    how many entries the text lists                               *)
(*   more    the number in its note of what is left out                    *)
(*   plan    whether it asks for the output to be kept (RecoveryInfo)      *)
(* Bytes, escapes and blank lines are left out: a stream is cut into its   *)
(* lines before.                                                           *)
(***************************************************************************)
EXTENDS Integers, Sequences, FiniteSets, SequencesExt

CONSTANTS
  MaxLines,      \* the line budget of the profile
  MinFailures, MinAnchors, MinHints,
  MaxErrors, MaxOthers,        \* maxDistinctLog...Entries
  SniffWindow, SniffMin        \* logSniffWindow, logSniffMinLines

Least(a, b) == IF a <= b THEN a ELSE b
Most(a, b) == IF a >= b THEN a ELSE b
FirstOf(s, n) == SubSeq(s, 1, Least(Len(s), Most(n, 0)))
Said(shown, rows, more, plan) == [shown |-> shown, rows |-> rows, more |-> more, plan |-> plan]
KeysOf(items) == {items[i].line.key : i \in DOMAIN items}

-----------------------------------------------------------------------------
(* Runs of lines that are the same, or that have the same key.             *)
NoRun == [line |-> [id |-> "", key |-> ""], count |-> 0]
Run(line) == [line |-> line, count |-> 1]

(* CompactLineReducer, which folds equal lines.                            *)
CompactStart == [lines |-> <<>>, extra |-> 0, pending |-> NoRun]

CompactFlush(s) ==
  IF s.pending.count = 0 THEN s
  ELSE IF Len(s.lines) >= MaxLines THEN [s EXCEPT !.extra = @ + 1, !.pending = NoRun]
  ELSE [s EXCEPT !.lines = Append(@, s.pending), !.pending = NoRun]

CompactFeed(s, line) ==
  IF s.pending.count > 0 /\ s.pending.line.id = line.id THEN [s EXCEPT !.pending.count = @ + 1]
  ELSE [CompactFlush(s) EXCEPT !.pending = Run(line)]

CompactResult(state) ==
  LET s == CompactFlush(state)
  IN  Said(KeysOf(s.lines), Len(s.lines), s.extra, s.extra > 0)

(* Preview, which the search reducers show of the standard error: it has   *)
(* the run that is not ended if there is room for it.                      *)
CompactPreview(s) ==
  IF s.pending.count > 0 /\ Len(s.lines) < MaxLines THEN Append(s.lines, s.pending) ELSE s.lines

-----------------------------------------------------------------------------
(* The declarative engine.  A specification: the tags of the lines to keep *)
(* (any, when empty) and to strip, whether runs of similar lines are       *)
(* folded, and how many of the first and the last lines stay.              *)

FoldSimilar(lines) ==
  LET put(runs, line) ==
        IF runs # <<>> /\ Last(runs).line.key = line.key
        THEN [runs EXCEPT ![Len(runs)].count = @ + 1] ELSE Append(runs, Run(line))
  IN  FoldLeft(put, <<>>, lines)

(* applyLineLimit *)
LineLimited(spec, limit) ==
  IF limit <= 0 THEN spec
  ELSE IF spec.tail > 0 /\ spec.head = 0 THEN [spec EXCEPT !.tail = limit]
  ELSE IF spec.tail > 0 /\ spec.tail >= limit THEN [spec EXCEPT !.head = 1, !.tail = limit - 1]
  ELSE [spec EXCEPT !.head = limit - spec.tail]

Selects(spec, line) ==
  /\ spec.keep = {} \/ line.tag \in spec.keep
  /\ line.tag \notin spec.strip

(* applyCompiled, on lines that are not blank.                             *)
ApplySpec(spec, lines) ==
  LET kept == SelectSeq(lines, LAMBDA l : Selects(spec, l))
      all == IF spec.fold THEN FoldSimilar(kept) ELSE [i \in DOMAIN kept |-> Run(kept[i])]
      first == IF spec.head = 0 /\ spec.tail > 0 THEN <<>> ELSE FirstOf(all, spec.head)
      last == SubSeq(all, Most(Len(all) - spec.tail, 0) + 1, Len(all))
      cuts == spec.head + spec.tail > 0 /\ Len(all) > spec.head + spec.tail
      visible == IF cuts THEN first \o last ELSE all
      omitted == Len(all) - Len(visible)
  IN  Said(KeysOf(visible), Len(visible), omitted, omitted > 0)

CompactLinesSpec == [keep |-> {}, strip |-> {}, fold |-> TRUE, head |-> 12, tail |-> 0]
InterestingErrorsSpec ==
  [keep |-> {"error"}, strip |-> {}, fold |-> FALSE, head |-> 12, tail |-> 0]
ReadMinimalSpec ==
  [keep |-> {}, strip |-> {"comment"}, fold |-> FALSE, head |-> 40, tail |-> 0]

(* declarativeCompactLinesReducer: compact_lines of each stream, line by   *)
(* line; the first stream has the first right to the budget.               *)
StreamsStart ==
  [s \in {"out", "err"} |-> [lines |-> <<>>, total |-> 0, pending |-> NoRun]]

(* Mutant: beyond the limit a run is not counted.                          *)
StreamFlushKept(s) ==
  IF s.pending.count = 0 THEN s
  ELSE IF Len(s.lines) >= MaxLines THEN [s EXCEPT !.pending = NoRun]
  ELSE [s EXCEPT !.total = @ + 1, !.pending = NoRun, !.lines = Append(@, s.pending)]

StreamFlush(s) ==
  IF s.pending.count = 0 THEN s
  ELSE [s EXCEPT !.total = @ + 1, !.pending = NoRun,
                 !.lines = IF Len(@) < MaxLines THEN Append(@, s.pending) ELSE @]

StreamIngest(s, line) ==
  IF s.pending.count > 0 /\ s.pending.line.key = line.key
  THEN [s EXCEPT !.pending.count = @ + 1]
  ELSE [StreamFlush(s) EXCEPT !.pending = Run(line)]

StreamsFeed(s, stream, line) == [s EXCEPT ![stream] = StreamIngest(@, line)]

StreamsResult(state) ==
  LET out == StreamFlush(state.out)
      err == StreamFlush(state.err)
      visible == FirstOf(out.lines \o err.lines, MaxLines)
      omitted == out.total + err.total - Len(visible)
  IN  Said(KeysOf(visible), Len(visible), omitted, omitted > 0)

-----------------------------------------------------------------------------
(* GenericFailureReducer.  A line is of a kind (classifyFailureLine), or   *)
(* is noise of a class (failureNoiseClass), which is looked for first; its *)
(* key is that of failureSemanticKey.  Both streams go into one reducer.   *)
Kinds == <<"root", "stack", "hint", "warning">>
NoiseClasses == {"pass", "progress", "install"}

FailureStart ==
  [pending |-> NoRun, head |-> <<>>, headPending |-> NoRun, extra |-> 0,
   items |-> [k \in ToSet(Kinds) |-> <<>>], dropped |-> [c \in NoiseClasses |-> 0]]

FailureLimit(kind) == IF kind = "root" THEN MaxLines ELSE Most(1, MaxLines \div 2)

HasSignal(s) == \E k \in ToSet(Kinds) : s.items[k] # <<>>

(* flushHeadPending *)
FlushHead(s) ==
  IF s.headPending.count = 0 THEN s
  ELSE IF Len(s.head) < MaxLines
  THEN [s EXCEPT !.head = Append(@, s.headPending), !.headPending = NoRun]
  ELSE [s EXCEPT !.extra = @ + 1, !.headPending = NoRun]

RecordHead(s, run) ==
  IF s.headPending.count > 0 /\ s.headPending.line.key = run.line.key
  THEN [s EXCEPT !.headPending.count = @ + run.count]
  ELSE [FlushHead(s) EXCEPT !.headPending = run]

(* addSemantic and bumpSimilar: a run beyond the limit counts once.        *)
AddSemantic(s, kind, run) ==
  LET items == s.items[kind]
      like == {i \in DOMAIN items : items[i].line.key = run.line.key}
  IN  IF like # {}
      THEN [s EXCEPT !.items[kind] =
              [i \in DOMAIN items |-> IF i \in like THEN [items[i] EXCEPT !.count = @ + run.count]
                                      ELSE items[i]]]
      ELSE IF Len(items) >= FailureLimit(kind) THEN [s EXCEPT !.extra = @ + 1]
      ELSE [s EXCEPT !.items[kind] = Append(@, run)]

(* classifyLine, of a run of equal lines.                                  *)
FailureFlush(s) ==
  LET run == s.pending
      rest == [s EXCEPT !.pending = NoRun]
  IN  IF run.count = 0 THEN s
      ELSE IF run.line.kind \in NoiseClasses
      THEN [rest EXCEPT !.dropped[run.line.kind] = @ + run.count]
      ELSE IF run.line.kind \notin ToSet(Kinds) THEN RecordHead(rest, run)
      ELSE AddSemantic(rest, run.line.kind, run)

FailureFeed(s, line) ==
  IF s.pending.count > 0 /\ s.pending.line.id = line.id THEN [s EXCEPT !.pending.count = @ + 1]
  ELSE [FailureFlush(s) EXCEPT !.pending = Run(line)]

(* Done: the lists together are as long as the text may be.                *)
FailureDone(s) ==
  Len(s.items["root"]) + Len(s.items["stack"]) + Len(s.items["hint"])
    + Len(s.items["warning"]) >= MaxLines

KindLimit(kind, used) ==
  LET share == CASE kind = "root" -> Most(Most(1, MaxLines \div 2 + 1), MinFailures)
                 [] kind = "stack" -> Most(Most(1, MaxLines \div 3), MinAnchors)
                 [] kind = "hint" -> Most(Most(1, MaxLines \div 3), MinHints)
                 [] OTHER -> MaxLines
  IN  Least(share, MaxLines - used)

Compose(s) ==
  FoldLeft(LAMBDA out, k : out \o FirstOf(s.items[k], KindLimit(k, Len(out))), <<>>, Kinds)

(* Result and RecoveryInfo.  What the lists hold and the text has no room  *)
(* for is in no note.                                                      *)
FailureResult(state) ==
  LET s == FlushHead(FailureFlush(state))
      text == IF HasSignal(s) THEN Compose(s) ELSE s.head
      noise == \E c \in NoiseClasses : s.dropped[c] > 0
  IN  Said(KeysOf(text), Len(text), s.extra, s.extra > 0 \/ noise)

(* How many entries the lists hold that the text does not show.            *)
FailureUnshown(state) ==
  LET s == FlushHead(FailureFlush(state))
  IN  IF ~HasSignal(s) THEN 0
      ELSE Len(FlattenSeq([i \in DOMAIN Kinds |-> s.items[Kinds[i]]])) - Len(Compose(s))

-----------------------------------------------------------------------------
(* ReduceLogLines: the entries of the gravest kinds, as many as the budget *)
(* has, in the order of their first lines.                                 *)
LogKinds == <<"error", "anchor", "hint", "default", "boilerplate">>
Gravity(kind) == CHOOSE i \in DOMAIN LogKinds : LogKinds[i] = kind

CollectLogEntries(lines) ==
  LET graver(a, b) == IF Gravity(b) < Gravity(a) THEN b ELSE a
      put(es, l) ==
        LET at == {i \in DOMAIN es : es[i].line.key = l.key}
        IN  IF at = {} THEN Append(es, [line |-> l, count |-> 1, kind |-> l.kind])
            ELSE [i \in DOMAIN es |->
                    IF i \notin at THEN es[i]
                    ELSE [es[i] EXCEPT !.count = @ + 1, !.kind = graver(@, l.kind)]]
  IN  FoldLeft(put, <<>>, lines)

SelectLogEntries(entries) ==
  LET take(chosen, kind) ==
        chosen \o FirstOf(SelectSeq(entries, LAMBDA e : e.kind = kind), MaxLines - Len(chosen))
      chosen == ToSet(FoldLeft(take, <<>>, LogKinds))
  IN  SelectSeq(entries, LAMBDA e : e \in chosen)

ReduceLogLines(lines) ==
  LET kept == SelectLogEntries(CollectLogEntries(lines))
      lines_ == FoldLeft(LAMBDA n, e : n + e.count, 0, kept)
  IN  Said(KeysOf(kept), lines_, Len(lines) - lines_, FALSE)

-----------------------------------------------------------------------------
(* logAggregate: the distinct messages of each severity.  Of a line that   *)
(* is not admitted nothing is remembered, so it is dropped again whenever  *)
(* it comes.                                                               *)
Severities == <<"WARN", "INFO", "DEBUG", "TRACE", "other">>
IsErrorSeverity(severity) == severity \in {"ERROR", "FATAL"}

AggregateStart == [total |-> 0, entries |-> <<>>, dropped |-> 0]

Admits(a, severity) ==
  LET grave(e) == IsErrorSeverity(e.line.severity)
      errors == Len(SelectSeq(a.entries, grave))
  IN  IF IsErrorSeverity(severity) THEN errors < MaxErrors
      ELSE Len(a.entries) - errors < MaxOthers

Aggregate(a, line) ==
  LET at == {i \in DOMAIN a.entries : /\ a.entries[i].line.key = line.key
                                      /\ a.entries[i].line.severity = line.severity}
      b == [a EXCEPT !.total = @ + 1]
  IN  IF at # {}
      THEN [b EXCEPT !.entries = [i \in DOMAIN @ |-> IF i \in at THEN [@[i] EXCEPT !.count = @ + 1]
                                                     ELSE @[i]]]
      ELSE IF Admits(a, line.severity) THEN [b EXCEPT !.entries = Append(@, Run(line))]
      ELSE [b EXCEPT !.dropped = @ + 1]

DistinctTotal(a) == Len(a.entries) + a.dropped

(* appendTopEntries: the most frequent first, the earlier of equals first. *)
TopEntries(a, severity) ==
  LET of == SelectSeq([i \in DOMAIN a.entries |-> i],
                      LAMBDA i : a.entries[i].line.severity = severity)
      before(i, j) == \/ a.entries[i].count > a.entries[j].count
                      \/ a.entries[i].count = a.entries[j].count /\ i < j
      order == SortSeq(of, before)
  IN  [n \in DOMAIN order |-> a.entries[order[n]]]

(* render, without its first line, which counts the lines by severity.     *)
AggregateRows(a) ==
  LET errors == SelectSeq(a.entries, LAMBDA e : IsErrorSeverity(e.line.severity))
      put(rows, severity) == rows \o FirstOf(TopEntries(a, severity), MaxLines - 1 - Len(rows))
  IN  FoldLeft(put, errors, Severities)

(* The recovery compares the lines that came with the lines of the text,   *)
(* the first one and the note of what is left out among them.              *)
AggregateResult(a) ==
  LET rows == AggregateRows(a)
      omitted == DistinctTotal(a) - Len(rows)
      height == 1 + Len(rows) + (IF omitted > 0 THEN 1 ELSE 0)
  IN  Said(KeysOf(rows), Len(rows), omitted, a.total > height)

(* LogAwareReadReducer: the first lines decide whether the file is a log.  *)
(* What is not is handed to another renderer, whole.                       *)
ReadLogStart == [decided |-> FALSE, log |-> FALSE, sniff |-> <<>>, agg |-> AggregateStart]

LooksLikeLog(lines) ==
  LET window == FirstOf(lines, SniffWindow)
      shaped == Len(SelectSeq(window, LAMBDA l : l.shaped))
  IN  Len(window) >= SniffMin /\ shaped * 2 > Len(window)

Decide(s) ==
  IF s.decided THEN s
  ELSE [s EXCEPT !.decided = TRUE, !.log = LooksLikeLog(s.sniff),
                 !.agg = IF LooksLikeLog(s.sniff) THEN FoldLeft(Aggregate, @, s.sniff) ELSE @]

ReadLogFeed(s, line) ==
  IF ~s.decided
  THEN LET t == [s EXCEPT !.sniff = Append(@, line)]
       IN  IF Len(t.sniff) >= SniffWindow THEN Decide(t) ELSE t
  ELSE [s EXCEPT !.agg = IF s.log THEN Aggregate(@, line) ELSE @,
                 !.sniff = IF s.log THEN @ ELSE Append(@, line)]

ReadLogResult(state) ==
  LET s == Decide(state)
  IN  IF s.log THEN AggregateResult(s.agg)
      ELSE Said({s.sniff[i].key : i \in DOMAIN s.sniff}, Len(s.sniff), 0, FALSE)

-----------------------------------------------------------------------------
(* SummarizeGoTestJSON: the failing tests of each package, four of them by *)
(* name, and lines with a panic among them.  An event: package, test (""   *)
(* for the package), action, and whether its output panics.                *)
NamedTests == 4

GoTestFailures(events, pkg) ==
  LET failing(e) == /\ e.package = pkg /\ e.test # ""
                    /\ e.action = "fail" \/ (e.action = "output" /\ e.panics)
      name(e) == <<e.action, e.test>>
      of == SelectSeq(events, failing)
      put(names, e) == IF name(e) \in ToSet(names) THEN names ELSE Append(names, name(e))
  IN  FoldLeft(put, <<>>, of)

GoTestPackages(events) == {events[i].package : i \in DOMAIN events}

GoTestResult(events) ==
  LET failures(p) == GoTestFailures(events, p)
      named(p) == ToSet(FirstOf(failures(p), NamedTests))
      packages == GoTestPackages(events)
      sum(f(_)) == FoldSet(LAMBDA p, n : n + f(p), 0, packages)
      more == sum(LAMBDA p : Most(Len(failures(p)) - NamedTests, 0))
  IN  Said(UNION {named(p) : p \in packages}, sum(LAMBDA p : Cardinality(named(p))), more,
           more > 0)

-----------------------------------------------------------------------------
(* Mutant: in the order of the output.                                     *)
FitInOrder(candidates, maxLines, tokens) ==
  LET kept == 1 .. Least(Len(candidates), IF tokens > 0 THEN Least(maxLines, tokens) ELSE maxLines)
  IN  [lines |-> [i \in kept |-> i], omitted |-> Len(candidates) - Cardinality(kept),
       left |-> tokens - Cardinality(kept)]

(* FitPriorityLines: candidates with a tier and a cost, the lower tiers    *)
(* first; a line of tier 0 is kept whatever it costs, and so is the first. *)
FitPriorityLines(candidates, maxLines, tokens) ==
  LET before(i, j) == \/ candidates[i].tier < candidates[j].tier
                      \/ candidates[i].tier = candidates[j].tier /\ i < j
      order == SortSeq([i \in DOMAIN candidates |-> i], before)
      full(s) == maxLines > 0 /\ Cardinality(s.kept) >= maxLines
      dear(s, c) == tokens > 0 /\ c.cost > s.left /\ s.kept # {} /\ c.tier > 0
      try(s, i) == IF full(s) \/ dear(s, candidates[i]) THEN s
                   ELSE [kept |-> s.kept \cup {i}, left |-> s.left - candidates[i].cost]
      s == FoldLeft(try, [kept |-> {}, left |-> tokens], order)
  IN  [lines |-> SelectSeq([i \in DOMAIN candidates |-> i], LAMBDA i : i \in s.kept),
       omitted |-> Len(candidates) - Cardinality(s.kept), left |-> s.left]

(* FitPriorityLinesWithMarker: the omission is noted if the note is cheap. *)
NotesOmission(fit, tokens, cost) == fit.omitted > 0 /\ (tokens <= 0 \/ cost <= fit.left)

(* PredictedTokenAllowance: what the contract will allow, less the suffix. *)
PredictedTokenAllowance(rawTokens, maxLines) ==
  LET share == (rawTokens + 4) \div 5
      capped == IF maxLines > 0 THEN Least(share, maxLines * 32) ELSE share
  IN  IF rawTokens < 200 THEN 0 ELSE Most(capped, 48) - 16
=============================================================================
