----------------------------- MODULE GitReducers -----------------------------
(***************************************************************************)
(* The reducers of git: status, log, diff, the commands that move refs,    *)
(* branches, and the ones that say little when they succeed.               *)
(* internal/filters/git/.                                                  *)
(***************************************************************************)
EXTENDS LineReducers

CONSTANTS
  LogEntries,      \* how many commits git log shows
  LargeDiff, LargeTop, AggressiveTop,   \* the thresholds of git diff --stat
  VerbatimLines,   \* gitDiffVerbatimMaxLines
  InventoryTop,    \* inventoryTopFileCount
  HintLimit, RefLimit, OtherLimit, MergeLimit   \* gitOpMax...

-----------------------------------------------------------------------------
(* GitStatusReducer.  An entry: its key, its bucket (bucketLabel), and     *)
(* whether it is untracked, staged, unstaged.  A branch line has no entry. *)
Sections == <<"staged", "unstaged", "untracked">>
StatusPreview == IF MaxLines > 2 THEN MaxLines - 2 ELSE 4
SectionLimit == 2

StatusStart ==
  [branch |-> FALSE, changed |-> 0, entries |-> <<>>,
   total |-> [s \in ToSet(Sections) |-> 0], paths |-> [s \in ToSet(Sections) |-> <<>>]]

AppendPreview(paths, path, limit) ==
  IF Len(paths) >= limit \/ path \in ToSet(paths) THEN paths ELSE Append(paths, path)

StatusFeed(s, line) ==
  IF line.kind = "branch" THEN [s EXCEPT !.branch = TRUE]
  ELSE [s EXCEPT
          !.changed = @ + 1,
          !.entries = AppendPreview(@, line, StatusPreview),
          !.total = [x \in DOMAIN @ |-> IF x \in line.sections THEN @[x] + 1 ELSE @[x]],
          !.paths = [x \in DOMAIN @ |-> IF x \in line.sections
                                        THEN AppendPreview(@[x], line, StatusPreview) ELSE @[x]]]

(* previewSection and summarizePathBuckets: the first of the buckets of    *)
(* the paths that were kept, and a note that counts the other buckets.     *)
BucketsOf(paths) ==
  FoldLeft(LAMBDA bs, p : IF p.bucket \in ToSet(bs) THEN bs ELSE Append(bs, p.bucket), <<>>, paths)

PreviewSection(paths, total) ==
  LET buckets == BucketsOf(paths)
      named == ToSet(FirstOf(buckets, SectionLimit))
      told == IF total = 1 THEN {1} ELSE {i \in DOMAIN paths : paths[i].bucket \in named}
  IN  [shown |-> {paths[i].key : i \in told},
       more |-> IF total = 1 THEN 0 ELSE Most(Len(buckets) - SectionLimit, 0)]

StatusResult(s) ==
  LET sections == ToSet(Sections)
      preview == [x \in sections |-> PreviewSection(s.paths[x], s.total[x])]
      sum(f) == f["staged"] + f["unstaged"] + f["untracked"]
  IN  IF s.changed <= 2 /\ Len(s.entries) = s.changed
      THEN Said({s.entries[i].key : i \in DOMAIN s.entries}, s.changed, 0, FALSE)
      ELSE Said(UNION {preview[x].shown : x \in sections}, sum(s.total),
                sum([x \in sections |-> preview[x].more]), FALSE)

-----------------------------------------------------------------------------
(* GitLogReducer.  Lines: "oneline", or "commit" and "message" of the full *)
(* format; the key of a line is its subject.                               *)
LogStart == [total |-> 0, entries |-> <<>>, full |-> FALSE, subject |-> FALSE]

AppendLogEntry(s, line) ==
  IF s.entries # <<>> /\ Last(s.entries).line.key = line.key
  THEN [s EXCEPT !.entries[Len(s.entries)].count = @ + 1]
  ELSE IF Len(s.entries) < LogEntries THEN [s EXCEPT !.entries = Append(@, Run(line))] ELSE s

(* Mutant: only the commits that are listed are counted.                   *)
LogFeedListed(s, line) ==
  IF line.kind = "commit" THEN [s EXCEPT !.full = TRUE, !.subject = FALSE]
  ELSE IF (s.full /\ (s.subject \/ line.kind # "message")) \/ Len(s.entries) = LogEntries THEN s
  ELSE AppendLogEntry([s EXCEPT !.subject = TRUE, !.total = @ + 1], line)

LogFeed(s, line) ==
  IF line.kind = "commit"
  THEN [s EXCEPT !.full = TRUE, !.total = @ + 1, !.subject = FALSE]
  ELSE IF ~s.full THEN AppendLogEntry([s EXCEPT !.total = @ + 1], line)
  ELSE IF s.subject \/ line.kind # "message" THEN s
  ELSE AppendLogEntry([s EXCEPT !.subject = TRUE], line)

LogResult(s) ==
  LET visible == FoldLeft(LAMBDA n, e : n + e.count, 0, s.entries)
  IN  Said(KeysOf(s.entries), visible, s.total - visible, s.total > visible)

-----------------------------------------------------------------------------
(* GitDiffReducer.  Lines: "file" and "combined" start a file (the key),   *)
(* "marker" is +++ or ---, "hunk", "delta" is a changed line and "text"    *)
(* any other; a line of the last two may have a bar (piped), which makes   *)
(* it one of a summary, and may parse as an entry of one, with how much    *)
(* its file changed (changes > 0).  Tokens: a changed line has its cost,   *)
(* any other costs one; allowance is what the contract is expected to      *)
(* allow, 0 when it will not be armed.  Changed lines are counted (deltas) *)
(* whether or not a file has been started, and the reducer of the compact  *)
(* lines is fed along, for an output that has no file and no summary.      *)
Fallback == INSTANCE LineReducers WITH MaxLines <- 12

DiffSummary == Most(MaxLines - 1, 1)

DiffStart(aggressive, allowance) ==
  [files |-> <<>>, summary |-> <<>>, stats |-> <<>>, verbatim |-> ~aggressive, used |-> 0,
   aggressive |-> aggressive, allowance |-> allowance,
   deltas |-> 0, fallback |-> Fallback!CompactStart]

(* consumeVerbatimBudget and disableVerbatim                               *)
ChargeVerbatim(s) ==
  IF ~s.verbatim THEN s
  ELSE IF s.used + 1 > VerbatimLines
  THEN [s EXCEPT !.used = @ + 1, !.verbatim = FALSE,
                 !.files = [i \in DOMAIN @ |-> [@[i] EXCEPT !.lines = <<>>]]]
  ELSE [s EXCEPT !.used = @ + 1]

StartPatchFile(s, line) ==
  ChargeVerbatim([s EXCEPT !.files =
    Append(@, [key |-> line.key, directory |-> line.directory, churn |-> 0, lines |-> <<>>])])

(* recordPatchDelta and captureVerbatimLine                                *)
RecordDelta(s, line) ==
  IF line.kind # "delta" THEN s
  ELSE IF s.files = <<>> THEN [s EXCEPT !.deltas = @ + 1]
  ELSE LET n == Len(s.files)
           t == ChargeVerbatim(s)
       IN  [t EXCEPT !.deltas = @ + 1,
                     !.files[n].churn = @ + 1,
                     !.files[n].lines = IF t.verbatim THEN Append(@, line) ELSE @]

(* The rest of recordLine: lines that look like those of --stat.           *)
RecordSummary(s, line) ==
  IF ~line.piped THEN s
  ELSE [s EXCEPT !.stats = IF line.changes > 0 THEN Append(@, line) ELSE @,
                 !.summary = IF Len(@) < DiffSummary THEN Append(@, line.key) ELSE @]

DiffFeed(state, line) ==
  LET s == [state EXCEPT !.fallback = Fallback!CompactFeed(@, line)]
  IN  IF line.kind \in {"file", "combined"} THEN RecordSummary(StartPatchFile(s, line), line)
      ELSE IF line.kind \in {"marker", "hunk"} THEN s
      ELSE RecordSummary(RecordDelta(s, line), line)

(* shouldCondenseStatSummary and renderCondensedSummary                    *)
Condenses(s) == s.stats # <<>> /\ Len(s.stats) > (IF s.aggressive THEN 3 ELSE LargeDiff)

CondensedTop(s) ==
  LET top == IF s.aggressive THEN AggressiveTop ELSE LargeTop
  IN  FirstOf(SortSeq(s.stats, LAMBDA a, b : a.changes > b.changes),
              Most(Least(top, DiffSummary), 1))

(* renderVerbatimPatch: every file, and every changed line if they fit;    *)
(* otherwise the cheapest first, each that fits in what is left.           *)
VerbatimRoom(s) ==
  LET lines == FlattenSeq([i \in DOMAIN s.files |-> s.files[i].lines])
      total == FoldLeft(LAMBDA n, l : n + l.cost, 0, lines)
      room == s.allowance - 1 - Len(s.files)
      take(t, l) == IF l.cost > t.left THEN t
                    ELSE [left |-> t.left - l.cost, kept |-> Append(t.kept, l)]
      cheapest == SortSeq(lines, LAMBDA a, b : a.cost < b.cost)
  IN  IF s.allowance = 0 \/ total <= room THEN lines
      ELSE FoldLeft(take, [left |-> room - 1, kept |-> <<>>], cheapest).kept

(* renderPatchInventory: the files that changed most, then the others by   *)
(* directory, a line each; when the lines do not fit, those from the first *)
(* that does not on are left out.                                          *)
Inventory(s) ==
  LET before(i, j) == \/ s.files[i].churn > s.files[j].churn
                      \/ s.files[i].churn = s.files[j].churn /\ i < j
      order == SortSeq([i \in DOMAIN s.files |-> i], before)
      top == FirstOf(order, InventoryTop)
      rest == SelectSeq([i \in DOMAIN s.files |-> i], LAMBDA i : i \notin ToSet(top))
      dirs == FoldLeft(LAMBDA ds, i : IF s.files[i].directory \in ToSet(ds) THEN ds
                                      ELSE Append(ds, s.files[i].directory), <<>>, rest)
      in(d) == {i \in ToSet(rest) : s.files[i].directory = d}
      lines == [i \in DOMAIN top |-> {top[i]}] \o [i \in DOMAIN dirs |-> in(dirs[i])]
      budget == s.allowance - 2
  IN  IF budget <= 0 THEN lines ELSE FirstOf(lines, Most(budget, 1))

(* Result and RecoveryInfo.  Whatever is in the summary goes before the    *)
(* files of a patch.  Output that is no diff says no more than that,       *)
(* unless there are changed lines in it: then it is compacted.             *)
DiffResult(s) ==
  LET top == CondensedTop(s)
      names(is) == {s.files[i].key : i \in is}
      inventory == Inventory(s)
      listed == UNION ToSet(inventory)
      plan == s.files # <<>> \/ Len(s.stats) > Len(s.summary)
      keys(lines) == {lines[i].key : i \in DOMAIN lines}
  IN  IF s.files = <<>> /\ s.summary = <<>>
      THEN IF s.deltas = 0 THEN Said({}, 0, 0, FALSE)
           ELSE [Fallback!CompactResult(s.fallback) EXCEPT !.plan = FALSE]
      ELSE IF Condenses(s) THEN Said(keys(top), Len(top), Len(s.stats) - Len(top), plan)
      ELSE IF s.summary # <<>> THEN Said(ToSet(s.summary), Len(s.summary), 0, plan)
      ELSE IF s.verbatim
      THEN Said(names(DOMAIN s.files) \cup keys(VerbatimRoom(s)), Len(s.files), 0, TRUE)
      ELSE IF Len(s.files) <= DiffSummary THEN Said(names(DOMAIN s.files), Len(s.files), 0, TRUE)
      ELSE Said(names(listed), Cardinality(listed), Len(s.files) - Cardinality(listed), TRUE)

-----------------------------------------------------------------------------
(* SummarizeGitOp.  What a line looks like may be several things (looks),  *)
(* and the first of them counts; of what the remote says only errors and   *)
(* progress do.  "progress" has the counts of objects.                     *)
GitOpKind(line) ==
  LET order == IF line.remote THEN <<"error", "progress">>
               ELSE <<"conflict", "error", "hint", "progress", "merge", "ref", "signal">>
      found == SelectSeq(order, LAMBDA k : k \in line.looks)
  IN  IF found = <<>> THEN IF line.remote THEN "dropped" ELSE "other"
      ELSE IF found[1] \in {"conflict", "error", "signal"} THEN "must" ELSE found[1]

OfGitOp(lines, kind) == SelectSeq(lines, LAMBDA l : GitOpKind(l) = kind)
Kept(lines, kind, limit) == FirstOf(OfGitOp(lines, kind), limit)
ExtraOf(lines, kind, limit) == Most(Len(OfGitOp(lines, kind)) - limit, 0)

(* expand: the lines that may be left out, those of a kind that is kept    *)
(* together where the first of them was.                                   *)
GitOpOptional(lines) ==
  LET nth(i) == Len(OfGitOp(SubSeq(lines, 1, i), GitOpKind(lines[i])))
      refs == Kept(lines, "ref", RefLimit)
      merges == Kept(lines, "merge", MergeLimit)
      noted == Least(ExtraOf(lines, "ref", RefLimit), 1)
      entry(i) ==
        CASE GitOpKind(lines[i]) = "other" /\ nth(i) <= OtherLimit -> <<{lines[i].key}>>
          [] GitOpKind(lines[i]) = "ref" /\ nth(i) = 1 ->
               [j \in DOMAIN refs |-> {refs[j].key}] \o [j \in 1 .. noted |-> {}]
          [] GitOpKind(lines[i]) = "merge" /\ nth(i) = 1 ->
               <<{merges[j].key : j \in DOMAIN merges}>>
          [] GitOpKind(lines[i]) = "progress" /\ nth(i) = 1 -> <<{}>>
          [] OTHER -> <<>>
  IN  FlattenSeq([i \in DOMAIN lines |-> entry(i)])

(* joinGitOpLines and GitOpRecoveryInfo: the lines that must be there are, *)
(* whatever the budget.                                                    *)
GitOpResult(lines) ==
  LET must == OfGitOp(lines, "must") \o Kept(lines, "hint", HintLimit)
      moreHints == ExtraOf(lines, "hint", HintLimit)
      always == Len(must) + Least(moreHints, 1)
      optional == GitOpOptional(lines)
      taken == FirstOf(optional, MaxLines - always)
      skipped == Len(optional) - Len(taken)
      shown == {must[i].key : i \in DOMAIN must} \cup UNION ToSet(taken)
  IN  Said(shown, Cardinality(shown),
           skipped + moreHints + ExtraOf(lines, "ref", RefLimit)
             + ExtraOf(lines, "merge", MergeLimit),
           always + Len(taken) + Least(skipped, 1) < Len(lines))

(* SummarizeGitBranches                                                    *)
BranchesResult(lines) ==
  LET buckets == BucketsOf(lines)
      told == FirstOf(buckets, MaxLines - 1)
      shown == SelectSeq(lines, LAMBDA l : l.bucket \in ToSet(told))
  IN  IF Len(lines) <= MaxLines THEN Said({lines[i].key : i \in DOMAIN lines}, Len(lines), 0, FALSE)
      ELSE Said({shown[i].key : i \in DOMAIN shown}, Len(told), Len(buckets) - Len(told), FALSE)

-----------------------------------------------------------------------------
(* GitSuccessPathReducer.  Lines: a "headline" of a commit, "totals" of    *)
(* changes, a "ref" that was pushed, a "signal" of a pull, "current" (up   *)
(* to date), "noise", which the mode at hand ignores, and "other".         *)
SuccessStart(mode) ==
  [mode |-> mode, out |-> <<>>, err |-> <<>>, final |-> FALSE,
   summary |-> [matched |-> FALSE, omitted |-> FALSE, says |-> {}]]

Summary(matched, omitted, says) == [matched |-> matched, omitted |-> omitted, says |-> says]
NoSummary == Summary(FALSE, FALSE, {})

SummarizeCommit(lines) ==
  LET heads == {i \in DOMAIN lines : lines[i].kind = "headline"}
      head == Min(heads)
      totals == {i \in DOMAIN lines : i > head /\ lines[i].kind = "totals"}
  IN  IF heads = {} THEN NoSummary
      ELSE Summary(TRUE, Len(lines) > 1,
                   {lines[head].key} \cup (IF totals = {} THEN {} ELSE {lines[Min(totals)].key}))

SummarizePush(lines) ==
  LET of(kind) == {i \in DOMAIN lines : lines[i].kind = kind}
      current == of("current")
      odd == (DOMAIN lines) \ (of("ref") \cup of("noise") \cup current)
  IN  IF current # {} /\ \A i \in odd : Min(current) < i
      THEN Summary(TRUE, Len(lines) > 1, {"up-to-date"})
      ELSE IF odd # {} \/ of("ref") = {} THEN NoSummary
      ELSE IF Cardinality(of("ref")) = 1
      THEN Summary(TRUE, of("noise") # {}, {lines[i].key : i \in of("ref")})
      ELSE Summary(TRUE, TRUE, {"refs"})

SummarizePull(lines) ==
  LET of(kind) == {i \in DOMAIN lines : lines[i].kind = kind}
      used == of("signal") \cup of("totals")
      last(is) == IF is = {} THEN {} ELSE {lines[Max(is)].key}
      says == {lines[i].key : i \in of("signal")} \cup last(of("totals"))
  IN  IF of("current") # {} THEN Summary(TRUE, Len(lines) > 1, {"up-to-date"})
      ELSE IF used = {} \/ used \cup of("noise") # DOMAIN lines THEN NoSummary
      ELSE Summary(TRUE, of("noise") # {} \/ Len(lines) > Cardinality(says), says)

Summarize(mode, lines) ==
  CASE mode = "add" -> IF lines = <<>> THEN Summary(TRUE, FALSE, {}) ELSE NoSummary
    [] mode = "commit" -> SummarizeCommit(lines)
    [] mode = "push" -> SummarizePush(lines)
    [] mode = "pull" -> SummarizePull(lines)

SuccessFeed(s, stream, line) == [s EXCEPT ![stream] = Append(@, line)]

(* finish: what the first Preview makes of the lines stays.                *)
SuccessFinish(s) ==
  IF s.final THEN s
  ELSE [s EXCEPT !.final = TRUE, !.summary = Summarize(s.mode, s.out \o s.err)]

SuccessPreview(s) == SuccessFinish(s)

SuccessResult(state) ==
  LET s == SuccessFinish(state)
  IN  IF s.summary.matched
      THEN Said(s.summary.says, Cardinality(s.summary.says), 0, s.summary.omitted)
      ELSE [ApplySpec(LineLimited(CompactLinesSpec, MaxLines), s.out \o s.err)
              EXCEPT !.plan = FALSE]
=============================================================================
