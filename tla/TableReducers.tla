---------------------------- MODULE TableReducers ----------------------------
(***************************************************************************)
(* The summaries of tables, query results and lists of cloud resources:    *)
(* internal/filters/tabular, sqlquery, jsonquery, json.go,                 *)
(* json_tabular.go, cloudlist and kubernetes.  They are given the whole    *)
(* output.  A list that is too long keeps the rows that stand out before   *)
(* those that come first.                                                  *)
(*                                                                         *)
(* A row has its cells, "" where there is nothing; an item of an array its *)
(* set of keys (keys), {} if it is no object, and the values of those that *)
(* are strings for cells; a record has its status, "" if it has none.      *)
(***************************************************************************)
EXTENDS DiagnosticReducers

CONSTANTS
  AnomalyMinRows,   \* tableAnomalyMinRows and its like: fewer rows have none
  MaxDistinct,      \* more values than these and a column is an identifier
  RareShare,        \* a value is rare up to this part of the rows
  UniformMin,       \* tabularJSONMinItems
  StructureDepth    \* structureMaxDepth

(* JoinLimitedLines of so many lines of the summary's own and then these.  *)
AfterNotes(notes, items) ==
  LET shown == FirstOf(items, MaxLines - notes)
  IN  Said(KeysOf(shown), Len(shown), Len(items) - Len(shown), Len(items) > Len(shown))
Headed(items) == AfterNotes(1, items)

(* The rows of these indexes, and how many others there are.               *)
Rows(rows, kept) ==
  LET omitted == Len(rows) - Cardinality(kept)
  IN  Said({rows[i].key : i \in kept}, Cardinality(kept), omitted, omitted > 0)

Indexes(s) == [i \in DOMAIN s |-> i]

(* keepIndices: the odd ones first, then the leading ones.                 *)
KeepIndices(odd, total, limit) ==
  LET first == ToSet(FirstOf(odd, limit))
      others == SelectSeq([i \in 1 .. total |-> i], LAMBDA i : i \notin first)
  IN  first \cup ToSet(FirstOf(others, limit - Cardinality(first)))

-----------------------------------------------------------------------------
(* What stands out in a table: a value that hardly a row has, in a column  *)
(* of few values.  The row with the rarest value comes first.              *)
Has(row, c) == c \in DOMAIN row.cells /\ row.cells[c] # ""
Values(rows, among, c) == {rows[i].cells[c] : i \in {j \in among : Has(rows[j], c)}}
Times(rows, among, c, i) ==
  Cardinality({j \in among : Has(rows[j], c) /\ rows[j].cells[c] = rows[i].cells[c]})
RareThreshold(n) == Most(n \div RareShare, 1)

RareIndices(rows, among, width) ==
  LET n == Cardinality(among)
      few == {c \in 1 .. width : Cardinality(Values(rows, among, c)) \in 2 .. MaxDistinct}
      times == [i \in among |-> {Times(rows, among, c, i) : c \in {d \in few : Has(rows[i], d)}}]
      rare == [i \in among |-> {t \in times[i] : t <= RareThreshold(n)}]
      before(i, j) == \/ Min(rare[i]) < Min(rare[j])
                      \/ Min(rare[i]) = Min(rare[j]) /\ i < j
  IN  IF n < AnomalyMinRows THEN <<>>
      ELSE SortSeq(SelectSeq(Indexes(rows), LAMBDA i : i \in among /\ rare[i] # {}), before)

(* summarizeWideTableResult.  The lines of du are rows; of other tables    *)
(* the first is the header, and a line of one cell is none.                *)
TableLimit == Most(MaxLines - 1, 1)

SelectTableRows(rows, width) ==
  IF Len(rows) <= TableLimit THEN DOMAIN rows
  ELSE KeepIndices(RareIndices(rows, DOMAIN rows, width), Len(rows), TableLimit)

WideRows(lines) ==
  SelectSeq(Tail(lines), LAMBDA l : Len(l.cells) >= 2)

WideTableResult(lines) ==
  LET sized == \A i \in DOMAIN lines : lines[i].kind = "size" /\ Len(lines[i].cells) >= 2
      rows == IF sized THEN lines ELSE WideRows(lines)
      width == Len(lines[1].cells)
  IN  IF ~sized /\ (width < 2 \/ rows = <<>>) THEN CompactText(lines)
      ELSE Rows(rows, SelectTableRows(rows, width))

-----------------------------------------------------------------------------
(* summarizeSQLQueryResult.  Equal rows fold into one, with their number   *)
(* behind the last cell.  The columns are those of the width that two      *)
(* thirds of the rows have.                                                *)
SQLCells(run) ==
  [key |-> run.line.key,
   cells |-> [c \in DOMAIN run.line.cells |->
                IF run.count > 1 /\ c = Len(run.line.cells)
                THEN run.line.cells[c] \o " x" \o ToString(run.count) ELSE run.line.cells[c]]]

ModalWidth(rows) ==
  LET of(w) == Cardinality({i \in DOMAIN rows : Len(rows[i].cells) = w})
      wide == {w \in {Len(rows[i].cells) : i \in DOMAIN rows} : of(w) * 3 >= Len(rows) * 2}
  IN  IF wide = {} THEN 0 ELSE Max(wide)

SelectSQLRows(rows, summaries) ==
  LET limit == Most(MaxLines - summaries, 1)
      width == ModalWidth(rows)
      odd == IF width < 2 THEN <<>> ELSE RareIndices(rows, DOMAIN rows, width)
  IN  IF Len(rows) <= limit THEN DOMAIN rows ELSE KeepIndices(odd, Len(rows), limit)

(* How many lines the recovery counts as left out.                         *)
CountSQLOmitted(rows, summaries) == Most(rows + summaries - MaxLines, 0)

SQLQueryResult(lines) ==
  LET errors == FoldUnique(Of(lines, {"error"}))
      summaries == FoldUnique(Of(lines, {"summary"}))
      runs == FoldUnique(Of(lines, {"row"}))
      rows == [i \in DOMAIN runs |-> SQLCells(runs[i])]
      told == IF summaries = <<>> /\ Len(rows) > MaxLines THEN 1 ELSE Len(summaries)
      kept == SelectSQLRows(rows, told)
  IN  IF errors # <<>> THEN Limited(errors \o summaries)
      ELSE IF rows = <<>> /\ summaries = <<>> THEN GenericText(lines)
      ELSE Said({rows[i].key : i \in kept} \cup KeysOf(summaries),
                Cardinality(kept) + Len(summaries), Len(rows) - Cardinality(kept),
                CountSQLOmitted(Len(rows), told) > 0)

(* An array of records.                                                    *)
SelectRecordIndices(items, limit) ==
  LET width == Max({Len(items[i].cells) : i \in DOMAIN items})
      objects == {i \in DOMAIN items : items[i].keys # {}}
      rare == IF Len(items) < AnomalyMinRows THEN <<>> ELSE RareIndices(items, objects, width)
  IN  IF Len(items) <= limit THEN DOMAIN items ELSE KeepIndices(rare, Len(items), limit)

SQLRecordsResult(items) == Rows(items, SelectRecordIndices(items, TableLimit))

-----------------------------------------------------------------------------
(* SummarizeUniformJSONArray: four fifths of the items have the same keys. *)
(* Those that have others come first of all.                               *)
DominantKeys(items) ==
  LET of(keys) == Cardinality({i \in DOMAIN items : items[i].keys = keys})
  IN  {keys \in {items[i].keys : i \in DOMAIN items} \ {{}} : of(keys) * 100 >= Len(items) * 80}

Uniform(items) ==
  Len(items) >= UniformMin /\ \E keys \in DominantKeys(items) : Cardinality(keys) >= 2

KeptJSONRows(items, maxLines) ==
  LET keys == CHOOSE k \in DominantKeys(items) : TRUE
      conforming == {i \in DOMAIN items : items[i].keys = keys}
      others == SelectSeq(Indexes(items), LAMBDA i : i \notin conforming)
      rare == RareIndices(items, conforming, Cardinality(keys))
  IN  IF Len(items) <= maxLines - 1 THEN DOMAIN items
      ELSE KeepIndices(others \o rare, Len(items), Most(maxLines - 2, 3))

(* The lines of the preview: a header, the rows, and a note of the others. *)
UniformHeight(items, maxLines) ==
  LET kept == Cardinality(KeptJSONRows(items, maxLines))
  IN  1 + kept + (IF kept < Len(items) THEN 1 ELSE 0)

(* jq and its like: a value, a stream of values, or text.  What is left    *)
(* out is reckoned from the lines of a preview that may be much longer.    *)
(* The preview of a value is cut at the limit; height is that of all of    *)
(* it, its first line, which goes when there are others, among them.       *)
LargePreview(maxLines) == IF maxLines < 12 THEN 12 ELSE maxLines * 8
Trimmed(height) == IF height > 1 THEN height - 1 ELSE height
SumOf(s, f(_)) == FoldLeft(LAMBDA n, e : n + f(e), 0, s)

StreamPreview(items) ==
  LET each == Most(MaxLines \div Len(items), 3)
      shown == FirstOf(items, MaxLines)
      noted == IF Len(items) > MaxLines THEN 1 ELSE 0
      limited == SumOf(shown, LAMBDA l : Trimmed(Least(l.height, each)))
      full == SumOf(items, LAMBDA l : Trimmed(Least(l.height, LargePreview(each))))
  IN  Said({shown[i].key : i \in DOMAIN shown}, Len(shown), Len(items) - Len(shown),
           full > limited + noted)

QueryStreamResult(items) ==
  IF Len(items) = 1
  THEN Said({items[1].key}, 1, 0, Least(items[1].height, LargePreview(MaxLines))
                                    > Least(items[1].height, MaxLines))
  ELSE IF Uniform(items)
  THEN [Rows(items, KeptJSONRows(items, MaxLines)) EXCEPT
          !.plan = UniformHeight(items, LargePreview(MaxLines)) > UniformHeight(items, MaxLines)]
  ELSE StreamPreview(items)

QueryOutputResult(out, err) ==
  LET json(lines) == lines # <<>> /\ \A i \in DOMAIN lines : lines[i].kind = "json"
  IN  IF json(out) THEN QueryStreamResult(out)
      ELSE IF json(err) THEN QueryStreamResult(err)
      ELSE CompactText(out \o err)

(* structureRenderer: the lines of a value's structure, up to the limit,   *)
(* and the number of the others.  A value has its children; of an array    *)
(* the first stands for all.                                               *)
Emit(r, limit) ==
  IF r.lines >= limit THEN [r EXCEPT !.omitted = @ + 1] ELSE [r EXCEPT !.lines = @ + 1]

Leaf(value, depth) == value.of = <<>> \/ depth >= StructureDepth

RECURSIVE CountStructure(_, _)
CountStructure(value, depth) ==
  IF Leaf(value, depth) THEN 1
  ELSE IF value.kind = "array"
  THEN 2 + CountStructure(value.of[1], depth + 1) + (IF Len(value.of) > 1 THEN 1 ELSE 0)
  ELSE 2 + SumOf(value.of, LAMBDA v : CountStructure(v, depth + 1))

RECURSIVE RenderStructure(_, _, _, _)
RenderStructure(r, value, depth, limit) ==
  LET child(s, v) == RenderStructure(s, v, depth + 1, limit)
      begun == Emit(r, limit)
      first == child(begun, value.of[1])
  IN  IF r.lines >= limit THEN [r EXCEPT !.omitted = @ + CountStructure(value, depth)]
      ELSE IF Leaf(value, depth) THEN begun
      ELSE IF value.kind = "array"
      THEN Emit(IF Len(value.of) > 1 THEN Emit(first, limit) ELSE first, limit)
      ELSE Emit(FoldLeft(child, begun, value.of), limit)

StructureResult(values) ==
  LET root == [kind |-> "object", of |-> values]
      r == RenderStructure([lines |-> 0, omitted |-> 0], root, 0, MaxLines)
  IN  Said({}, r.lines, r.omitted, FALSE)

-----------------------------------------------------------------------------
(* Lists of cloud resources.  A record stands out when its status is not   *)
(* the one that more than half have.                                       *)
DominantStatus(records) ==
  LET told == {i \in DOMAIN records : records[i].status # ""}
      of(status) == Cardinality({i \in told : records[i].status = status})
  IN  {s \in {records[i].status : i \in told} : of(s) * 2 > Cardinality(told)}

MinorityIndices(records) ==
  LET dominant == DominantStatus(records)
  IN  IF dominant = {} THEN <<>>
      ELSE SelectSeq(Indexes(records), LAMBDA i : records[i].status \notin dominant \cup {""})

CloudListResult(records) ==
  Rows(records, IF Len(records) <= TableLimit THEN DOMAIN records
                ELSE KeepIndices(MinorityIndices(records), Len(records), TableLimit))

(* Of the services of ECS, those that could not be described come first.   *)
ECSResult(lines) ==
  CloudListResult(Of(lines, {"failure"}) \o Of(lines, {"service"}))

BodyLimit == IF MaxLines <= 2 THEN 1 ELSE MaxLines - 1
FittedBody(candidates) ==
  LET fit == FitPriorityLines(candidates, BodyLimit, 0)
  IN  Said({candidates[fit.lines[i]].line.key : i \in DOMAIN fit.lines}, Len(fit.lines),
           fit.omitted, fit.omitted > 0)

(* Log events, by template; those that tell of an error first, then those  *)
(* that there are most of.                                                 *)
LogTemplates(events) ==
  FoldLeft(LAMBDA gs, e : LET at == {i \in DOMAIN gs : gs[i].line.key = e.key}
                          IN  IF at = {} THEN Append(gs, Run(e))
                              ELSE [i \in DOMAIN gs |-> IF i \in at THEN [gs[i] EXCEPT !.count = @ + 1]
                                                        ELSE gs[i]],
           <<>>, events)

LogEventsResult(events) ==
  LET groups == LogTemplates(events)
      grave(i) == groups[i].line.kind = "error"
      before(i, j) == \/ grave(i) /\ ~grave(j)
                      \/ /\ grave(i) = grave(j)
                         /\ \/ groups[i].count > groups[j].count
                            \/ groups[i].count = groups[j].count /\ i < j
      order == SortSeq(Indexes(groups), before)
  IN  FittedBody([n \in DOMAIN order |->
                    Tiered(groups[order[n]].line, IF grave(order[n]) THEN 0 ELSE 1)])

(* Stack events: what failed, once for each status and reason (the key),   *)
(* then the others, the newest of which come first.                        *)
StackEventsResult(events) ==
  FittedBody(AllTiered(LogTemplates(Of(events, {"failed"})), 0)
             \o AllTiered(Each(Of(events, {"progress"})), 1))

(* aws s3 ls: the largest objects, and the lines of the footer; or the     *)
(* buckets, which have no status.                                          *)
LargestObjects(objects, limit) ==
  LET before(i, j) == \/ objects[i].size > objects[j].size
                      \/ objects[i].size = objects[j].size /\ i < j
  IN  ToSet(FirstOf(SortSeq(Indexes(objects), before), limit))

S3Result(lines) ==
  LET objects == Of(lines, {"object"})
      buckets == Of(lines, {"bucket"})
      footer == Len(Of(lines, {"footer"}))
  IN  IF objects # <<>>
      THEN Rows(objects, LargestObjects(objects, Most(MaxLines - 1 - footer, 1)))
      ELSE IF buckets # <<>> THEN CloudListResult(buckets)
      ELSE IF Of(lines, {"prefix"}) # <<>> THEN Said({}, 0, 0, FALSE)
      ELSE CompactText(lines)

-----------------------------------------------------------------------------
(* kubectl.  The items of get -o json.                                     *)
KubectlGetResult(items) == Headed(Each(items))

(* describe: what an object is, then what went wrong with it, which counts *)
(* only under "Events:".                                                   *)
KubectlDescribeResult(lines) ==
  LET begun(i) == \E j \in 1 .. i - 1 : lines[j].kind = "events"
      events == SelectSeq(Indexes(lines), LAMBDA i : lines[i].kind = "event" /\ begun(i))
  IN  Limited(Each(Unique(Of(lines, {"meta"})))
              \o Each(Unique([n \in DOMAIN events |-> lines[events[n]]])))

(* logs: the messages that matter, by source, sorted; without any, the     *)
(* first lines.                                                            *)
KubectlLogsResult(lines) ==
  LET telling == Of(lines, {"telling"})
      sources == Unique([i \in DOMAIN telling |-> telling[i].source])
      messages(source) ==
        SortSeq(Unique(SelectSeq(telling, LAMBDA l : l.source = source)),
                LAMBDA a, b : a.rank < b.rank)
  IN  IF telling = <<>> THEN Limited(Each(Unique(FirstOf(lines, MaxLines))))
      ELSE Headed(Each(FlattenSeq([n \in DOMAIN sources |-> messages(sources[n])])))

(* apply: what it complains of, then for each verb three of the resources, *)
(* of which the recovery counts nothing.                                   *)
ThreeOf(lines, verb) ==
  LET of == SelectSeq(lines, LAMBDA l : l.tag = verb)
  IN  {l.key : l \in ToSet(FirstOf(of, 3))}

KubectlApplyResult(lines) ==
  LET alerts == Each(Unique(Of(lines, {"alert"})))
      applied == Of(lines, {"applied"})
      verbs == Unique([i \in DOMAIN applied |-> applied[i].tag])
      alertsShown == FirstOf(alerts, MaxLines - 1)
      verbsShown == FirstOf(verbs, MaxLines - 1 - Len(alerts))
      rows == Len(alertsShown) + Len(verbsShown)
      omitted == Len(alerts) + Len(verbs) - rows
  IN  IF applied = <<>> /\ alerts = <<>> THEN CompactText(lines)
      ELSE IF applied = <<>> THEN Limited(alerts)
      ELSE Said(KeysOf(alertsShown) \cup UNION {ThreeOf(applied, v) : v \in ToSet(verbsShown)},
                rows, omitted, omitted > 0)

(* rollout status: how often it waited, where it waits now, how it ended.  *)
KubectlRolloutResult(lines) ==
  LET waits == Of(lines, {"waiting"})
      finals == Each(Unique(Of(lines, {"final"})))
      rows == (IF waits = <<>> THEN <<>> ELSE <<Run(Last(waits))>>) \o finals
  IN  IF rows = <<>> THEN CompactText(lines)
      ELSE AfterNotes(IF Len(waits) > 1 THEN 1 ELSE 0, rows)

(* diff: what it complains of, then the objects.                           *)
KubectlDiffResult(lines) ==
  LET alerts == Each(Unique(Of(lines, {"alert"})))
      objects == Each(Of(lines, {"diff"}))
  IN  IF objects # <<>> THEN Headed(alerts \o objects)
      ELSE IF alerts # <<>> THEN Limited(alerts)
      ELSE CompactText(lines)
=============================================================================
