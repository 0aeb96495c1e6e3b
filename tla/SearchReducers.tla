--------------------------- MODULE SearchReducers ---------------------------
(***************************************************************************)
(* The reducers of path lists and of matches by file.                      *)
(* internal/filters/find.go, grep.go, search_paths.go.                     *)
(*                                                                         *)
(* A path is a record: key (normalizeSearchPath), rank (its place among    *)
(* the sorted paths), noise (the bucket of a path that is suppressed, ""    *)
(* for the others) and top (the directory it is counted under), and a       *)
(* match is one of its file, which is the key.  What is on the standard     *)
(* error goes to a compact reducer of its own.                             *)
(***************************************************************************)
EXTENDS LineReducers

CONSTANTS
  VerbatimFloor,  \* findVerbatimListFloor
  MaxGroups       \* the groups of files of the ripgrep profile

VerbatimLimit == Most(MaxLines - 1, VerbatimFloor)   \* findVerbatimLimit

SearchStart ==
  [err |-> CompactStart, order |-> <<>>, seen |-> {}, total |-> 0, suppressed |-> 0,
   tops |-> {}, extra |-> 0]

(* searchReducerNoiseBucket and summarizeSuppressedSearchBuckets           *)
Suppress(s) == [s EXCEPT !.suppressed = @ + 1]
SuppressedNote(s) == IF s.suppressed > 0 THEN 1 ELSE 0

-----------------------------------------------------------------------------
(* FindReducer: a path counts once, and the first of them are kept, sorted. *)

SortedPaths(paths) == SortSeq(paths, LAMBDA a, b : a.rank < b.rank)

FindIngest(s, path) ==
  IF path.noise # "" THEN Suppress(s)
  ELSE IF path.key \in s.seen THEN s
  ELSE [s EXCEPT !.seen = @ \cup {path.key}, !.total = @ + 1, !.tops = @ \cup {path.top},
                 !.order = IF Len(@) < VerbatimLimit THEN SortedPaths(Append(@, path))
                          ELSE @]

FindFeed(s, stream, line) ==
  IF stream = "err" THEN [s EXCEPT !.err = CompactFeed(@, line)] ELSE FindIngest(s, line)

FindDone(s) ==
  CompactPreview(s.err) = <<>> /\ Len(s.order) >= VerbatimLimit /\ s.total > Len(s.order)

(* shouldUseAggressiveFindSummary *)
LargeFind(s) == (MaxLines > 0 /\ MaxLines <= 3) \/ s.total >= 5 \/ Cardinality(s.tops) >= 3

(* renderFindSummary: the count, the directories, one path or two, and     *)
(* what was suppressed, as far as there are lines for them.                *)
FindSamples(s) ==
  LET above == IF LargeFind(s) THEN 1 ELSE Least(2, MaxLines)
      visible == IF ~LargeFind(s) \/ s.total <= 2 THEN 2 ELSE 1
  IN  IF above < MaxLines /\ (~LargeFind(s) \/ MaxLines >= 4)
      THEN FirstOf(s.order, visible) ELSE <<>>

FindListed(s) ==
  IF s.total = Len(s.order) /\ s.total <= VerbatimLimit THEN s.order ELSE FindSamples(s)

(* Result and RecoveryInfo: a word on the standard error is all that is    *)
(* said, whatever was found.                                               *)
FindResult(s) ==
  LET preview == CompactPreview(s.err)
      listed == FindListed(s)
      keys == {listed[i].key : i \in DOMAIN listed}
      plan == s.total > Len(s.order)
  IN  IF preview # <<>> THEN Said(KeysOf(preview), Len(preview), s.err.extra, plan)
      ELSE Said(keys, Len(listed), s.total - Len(listed), plan)

(* SummarizeFindOutput, of the streams when the command has ended: paths   *)
(* come first, sorted, each as often as it came.                           *)
FindBatch(out, err) ==
  LET paths == SortedPaths(SelectSeq(out, LAMBDA p : p.noise = ""))
      s == [SearchStart EXCEPT !.order = paths, !.total = Len(paths),
                               !.tops = {paths[i].top : i \in DOMAIN paths}]
      listed == IF Len(paths) <= VerbatimLimit THEN paths ELSE FindSamples(s)
  IN  IF out = <<>> THEN ApplySpec(LineLimited(CompactLinesSpec, MaxLines), err)
      ELSE Said({listed[i].key : i \in DOMAIN listed}, Len(listed),
                Len(paths) - Len(listed), FALSE)

-----------------------------------------------------------------------------
(* RipgrepReducer: the first match of each of the first files, and how     *)
(* many it has.  Each match in another file counts as a file.              *)

RipgrepIngest(s, match) ==
  LET at == {i \in DOMAIN s.order : s.order[i].line.key = match.key}
  IN  IF match.noise # "" THEN Suppress(s)
      ELSE IF at # {}
      THEN [s EXCEPT !.total = @ + 1,
                     !.order = [i \in DOMAIN @ |-> IF i \in at THEN [@[i] EXCEPT !.count = @ + 1]
                                                   ELSE @[i]]]
      ELSE IF Len(s.order) >= MaxGroups THEN [s EXCEPT !.total = @ + 1, !.extra = @ + 1]
      ELSE [s EXCEPT !.total = @ + 1, !.order = Append(@, Run(match))]

RipgrepFeed(s, stream, line) ==
  IF stream = "err" THEN [s EXCEPT !.err = CompactFeed(@, line)] ELSE RipgrepIngest(s, line)

RipgrepDone(s) ==
  /\ CompactPreview(s.err) = <<>> /\ Len(s.order) >= MaxGroups
  /\ s.extra > 0 \/ s.suppressed > 0

(* render: the headline, and as many files as leave room for the footer.   *)
RipgrepListed(s) ==
  LET footer == (IF s.extra > 0 THEN 1 ELSE 0) + SuppressedNote(s)
  IN  FirstOf(s.order, MaxLines - 1 - footer)

(* Result and RecoveryInfo: files that the footer displaced are in no note *)
(* and no plan; nor is the standard error when there is a match.           *)
RipgrepResult(s) ==
  LET listed == RipgrepListed(s)
      preview == CompactPreview(s.err)
  IN  IF s.order = <<>> THEN Said(KeysOf(preview), Len(preview), s.err.extra, FALSE)
      ELSE Said(KeysOf(listed), Len(listed), s.extra, s.extra > 0)
=============================================================================
