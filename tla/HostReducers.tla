----------------------------- MODULE HostReducers -----------------------------
(***************************************************************************)
(* The summaries of docker, compose, gh and glab: internal/filters/        *)
(* container, github and gitlab.  They are given the whole output.         *)
(*                                                                         *)
(* A line is as for the other summaries (kind, key, tag); what comes from  *)
(* a container or a job has its source, and a rank in the order of names   *)
(* or messages where they are sorted.                                      *)
(***************************************************************************)
EXTENDS TableReducers

CONSTANTS
  ComposeBlock,    \* composeErrorBlockBudget
  KeptDominant     \* keptDominantRows

SortedByRank(lines) == SortSeq(lines, LAMBDA a, b : a.rank < b.rank)
SourcesOf(lines) == Unique([i \in DOMAIN lines |-> lines[i].source])
From(lines, source) == SelectSeq(lines, LAMBDA l : l.source = source)

(* docker ps: the containers by name; a line of fewer columns is skipped.  *)
DockerPSResult(lines) ==
  LET services == SortedByRank(Of(lines, {"service"}))
  IN  IF services = <<>> THEN CompactText(lines) ELSE Headed(Each(services))

(* docker logs: of each container the messages that matter, or the first   *)
(* of all if there is none.                                                *)
DockerLogsResult(lines) ==
  LET told(source) ==
        LET of == From(lines, source)
            telling == Of(of, {"telling"})
        IN  IF telling = <<>> THEN <<of[1]>> ELSE Unique(telling)
      sources == SourcesOf(lines)
  IN  Headed(Each(FlattenSeq([n \in DOMAIN sources |-> told(sources[n])])))

(* docker images: those without a name are one line, the first.            *)
DockerImagesResult(lines) ==
  LET named == Of(lines, {"image"})
      dangling == Of(lines, {"dangling"})
  IN  IF named = <<>> /\ dangling = <<>> THEN CompactText(lines)
      ELSE AfterNotes(IF dangling = <<>> THEN 1 ELSE 2, Each(named))

(* docker pull and push: how many layers, what failed, and the lines that  *)
(* say what was moved.  A layer's line may tell of a failure (tag).        *)
DockerTransferResult(lines) ==
  LET layers == Of(lines, {"layer"})
      failed(l) == l.kind = "error" \/ (l.kind = "layer" /\ l.tag = "error")
      told == Unique(SelectSeq(lines, failed)) \o Unique(Of(lines, {"kept"}))
  IN  IF layers = <<>> /\ told = <<>> THEN CompactText(lines)
      ELSE AfterNotes(IF layers = <<>> THEN 0 ELSE 1, Each(told))

(* composeActivityScan.  Between dashes every line is part of an error, as *)
(* long as there is room; of a resource the last state counts (tag), and   *)
(* is shown unless it is only passed through.                              *)
ComposeStart == [inBlock |-> FALSE, block |-> 0, errors |-> <<>>, states |-> <<>>,
                 attach |-> <<>>, progress |-> <<>>]

SetState(states, line) ==
  LET at == {i \in DOMAIN states : states[i].key = line.key}
  IN  IF at = {} THEN Append(states, line)
      ELSE [i \in DOMAIN states |-> IF i \in at THEN line ELSE states[i]]

ComposeIngest(s, line) ==
  CASE line.kind = "dashes" -> [s EXCEPT !.inBlock = ~@]
    [] line.kind # "dashes" /\ s.inBlock ->
         IF s.block >= ComposeBlock THEN s
         ELSE [s EXCEPT !.block = @ + 1, !.errors = Append(@, line)]
    [] line.kind = "resource" /\ ~s.inBlock -> [s EXCEPT !.states = SetState(@, line)]
    [] line.kind = "progress" /\ ~s.inBlock -> [s EXCEPT !.progress = <<Run(line)>>]
    [] line.kind = "error" /\ ~s.inBlock -> [s EXCEPT !.errors = Append(@, line)]
    [] line.kind = "attach" /\ ~s.inBlock -> [s EXCEPT !.attach = Append(@, line)]
    [] OTHER -> s

ComposeResult(lines) ==
  LET s == FoldLeft(ComposeIngest, ComposeStart, lines)
      settled == SelectSeq(s.states, LAMBDA l : l.tag # "passing")
      told == Unique(s.errors) \o settled \o Unique(s.attach)
  IN  IF s.states = <<>> /\ told = <<>>
      THEN IF s.progress # <<>> THEN Limited(s.progress) ELSE CompactText(lines)
      ELSE AfterNotes(IF s.states = <<>> THEN 0 ELSE 1, Each(told))

-----------------------------------------------------------------------------
(* gh pr view: a headline and the number of files, then the files, with a  *)
(* note in place of the last if they are too many.                         *)
PRViewResult(files) ==
  LET room == MaxLines - 2
      visible == IF Len(files) > room THEN Most(room - 1, 0) ELSE Len(files)
      hidden == Len(files) - visible
      height == 2 + visible + (IF hidden > 0 THEN 1 ELSE 0)
  IN  Said({files[i].key : i \in 1 .. visible}, visible, hidden, hidden > 0 \/ height > MaxLines)

(* gh run view: the jobs that failed, each with its steps that did.  A     *)
(* step comes after its job.                                               *)
FailedOfRun(lines) ==
  LET job(i) == CHOOSE j \in 1 .. i : /\ lines[j].kind = "job"
                                      /\ \A k \in j + 1 .. i : lines[k].kind # "job"
      told(i) == lines[i].tag = "failure" /\ lines[job(i)].tag = "failure"
      of == SelectSeq(Indexes(lines), told)
  IN  [n \in DOMAIN of |-> lines[of[n]]]

RunViewResult(lines) ==
  LET failed == FailedOfRun(lines)
      url == [key |-> "url"]
  IN  IF failed = <<>> THEN AfterNotes(3, <<Run(url)>>)
      ELSE AfterNotes(2, Append(Each(failed), Run(url)))

(* gh run view --log: what it says of itself, then the messages that tell  *)
(* of a failure, by job, sorted.                                           *)
RunLogResult(lines) ==
  LET telling == Of(lines, {"telling"})
      headers == Unique(Of(lines, {"header"}))
      jobs == SourcesOf(telling)
      messages == [n \in DOMAIN jobs |-> SortedByRank(Unique(From(telling, jobs[n])))]
  IN  IF telling = <<>> /\ headers = <<>> THEN GenericText(lines)
      ELSE AfterNotes(IF jobs = <<>> THEN 0 ELSE 1, Each(headers \o FlattenSeq(messages)))

(* gh pr checks, which may watch: of a check the last row counts.  The     *)
(* recovery counts those that are only in the header and the repaints.     *)
Actionable == <<"fail", "cancelled", "pending">>

PRChecksResult(lines) ==
  LET printed == Of(lines, {"check"})
      rows == FoldLeft(SetState, <<>>, printed)
      listed == FlattenSeq([n \in DOMAIN Actionable |->
                              SelectSeq(rows, LAMBDA r : r.tag = Actionable[n])])
      text == Headed(Each(listed \o Unique(Of(lines, {"extra"}))))
      uncounted == Len(printed) - Len(listed)
  IN  IF rows = <<>> THEN GenericText(lines)
      ELSE [text EXCEPT !.plan = text.more + uncounted > 0]

(* gh pr list and its like, as a list of resources with a state.           *)
ItemListResult(items) == CloudListResult(items)

(* glab ci list: all but the commonest status, and a few of that; then two *)
(* lines of context.  The text is cut all the same.                        *)
DominantPipeline(rows) ==
  LET of(status) == Len(SelectSeq(rows, LAMBDA r : r.status = status))
      most == {i \in DOMAIN rows : \A j \in DOMAIN rows : of(rows[j].status) <= of(rows[i].status)}
  IN  rows[Min(most)].status

PipelinesResult(lines) ==
  LET rows == Of(lines, {"row"})
      context == FirstOf(Of(lines, {"context"}), 2)
      dominant == DominantPipeline(rows)
      before(i) == Cardinality({j \in 1 .. i - 1 : rows[j].status = dominant})
      kept == SelectSeq(Indexes(rows),
                        LAMBDA i : rows[i].status = dominant => before(i) < KeptDominant)
      omitted == Len(rows) - Len(kept)
      note == IF omitted > 0 THEN <<[key |-> "+"]>> ELSE <<>>
      text == Headed(Each([n \in DOMAIN kept |-> rows[kept[n]]] \o note \o context))
  IN  IF rows = <<>> THEN CompactText(lines)
      ELSE [text EXCEPT !.plan = omitted + text.more > 0]
=============================================================================
