------------------------------ MODULE MCFilters ------------------------------
(***************************************************************************)
(* The reducers, for TLC.  One of them is chosen and is fed the output of  *)
(* a command, line by line: every short sequence of the lines it tells     *)
(* apart, on either stream, cut into chunks in every way.  A chunk that    *)
(* comes when the reducer says it is done is not fed to it (run.go:385),   *)
(* and after each that is its preview is published (run.go:391).           *)
(***************************************************************************)
EXTENDS SearchReducers, GitReducers, DiagnosticReducers, PreviewReducers

CONSTANTS
  Filters,      \* the reducers to choose from
  FindLines,    \* the line budget of the reducer of found paths
  MaxFed        \* how many lines a command prints

VARIABLES
  filter,   \* the reducer
  fed,      \* what the command has printed: stream, line, whether it was taken
  state,    \* the reducer's state
  open,     \* whether the chunk at hand is fed to it
  said      \* what it says of what it was fed

Find == INSTANCE SearchReducers WITH MaxLines <- FindLines

filterVars == <<filter, fed, state, open, said>>

-----------------------------------------------------------------------------
(* Lines, with what the reducers see in them.                              *)
Plain(id, key) == [id |-> id, key |-> key, tag |-> ""]
OfKind(kind, key) ==
  [id |-> key, key |-> key, kind |-> kind, tag |-> "", anchored |-> FALSE, step |-> ""]
Of_(kind, keys) == {OfKind(kind, k) : k \in keys}
Placed(kind, id, place) == [OfKind(kind, place) EXCEPT !.id = id, !.anchored = TRUE]
Tagged(kind, key, tag) == [OfKind(kind, key) EXCEPT !.tag = tag]
Step(kind, key, step) == [OfKind(kind, key) EXCEPT !.step = step]
Logged(id, severity, shaped) ==
  [id |-> id, key |-> id, severity |-> severity, shaped |-> shaped]
Path(rank, key, noise, top) == [rank |-> rank, key |-> key, noise |-> noise, top |-> top]
Tested(test, action) ==
  [package |-> "p", test |-> test, action |-> action, panics |-> action = "output",
   key |-> <<action, test>>]
Entry(key, bucket, sections) ==
  [kind |-> "entry", key |-> key, bucket |-> bucket, sections |-> sections]
Diff(kind, key, directory, changes) ==
  [kind |-> kind, key |-> key, directory |-> directory, piped |-> changes >= 0,
   changes |-> changes, id |-> key, cost |-> 1]

Told(key, looks) == [key |-> key, looks |-> looks, remote |-> FALSE]

On(stream, lines) == {[stream |-> stream, line |-> l] : l \in lines}

PlainLines == {Plain("a1", "a"), Plain("a2", "a"), Plain("b", "b"), Plain("c", "c"),
               Plain("d", "d"), Plain("e", "e")}
Matched == {Path(1, "a", "", "x"), Path(2, "b", "", "x"), Path(3, "c", "", "y"),
            Path(4, "d", "", "z"), Path(6, "m", "node_modules", "x")}
Paths == Matched \cup {Path(5, "e", "", "y")}
GitPull == {OfKind("signal", "updating"), OfKind("signal", "merge"), OfKind("totals", "files"),
            OfKind("noise", "from"), OfKind("other", "conflict")}

Printable ==
  [compact |-> On("out", PlainLines),
   streams |-> On("out", {Plain("a1", "a"), Plain("a2", "a"), Plain("b", "b")})
                 \cup On("err", {Plain("a1", "a"), Plain("d", "d"), Plain("e", "e")}),
   spec |-> On("out", PlainLines),
   failure |-> On("out", {OfKind("root", k) : k \in {"r", "q", "p"}}
                           \cup {OfKind("stack", k) : k \in {"s", "t"}}
                           \cup {OfKind("pass", "n"), OfKind("", "x")}),
   readlog |-> On("out", {Logged("e", "ERROR", TRUE), Logged("f", "FATAL", TRUE),
                          Logged("w", "WARN", TRUE), Logged("i", "INFO", TRUE),
                          Logged("j", "INFO", TRUE), Logged("o", "other", FALSE)}),
   find |-> On("out", Paths) \cup On("err", {Plain("!", "!")}),
   ripgrep |-> On("out", Matched) \cup On("err", {Plain("!", "!")}),
   gotest |-> On("out", {Tested(t, "fail") : t \in {"t1", "t2", "t3", "t4", "t5"}}
                          \cup {Tested("t1", "output"), Tested("", "pass")}),
   gitstatus |-> On("out", {OfKind("branch", "main"), Entry("a", "x", {"staged"}),
                            Entry("b", "x", {"staged", "unstaged"}), Entry("c", "y", {"staged"}),
                            Entry("d", "z", {"staged"}), Entry("e", "e", {"untracked"})}),
   gitlog |-> On("out", {OfKind("oneline", k) : k \in {"a", "b", "c"}}),
   gitlogfull |-> On("out", {OfKind("commit", "h"), OfKind("message", "a"),
                             OfKind("message", "b"), OfKind("text", "t")}),
   gitdiff |-> On("out", {Diff("file", "a", "x", -1), Diff("file", "b", "y", -1),
                          Diff("file", "c", "y", -1), Diff("file", "d", "z", -1),
                          Diff("delta", "+", "", -1), Diff("delta", "+|", "", 0),
                          [Diff("delta", "++", "", -1) EXCEPT !.cost = 2]}),
   gitstat |-> On("out", {Diff("text", "a", "", 1), Diff("text", "b", "", 2),
                          Diff("text", "c", "", 2), Diff("text", "d", "", 3)}),
   gitop |-> On("err", {Told("m", {"error", "ref"}), Told("h", {"hint"}), Told("i", {"hint"}),
                        Told("r", {"ref", "signal"}), Told("s", {"ref"}), Told("o", {}),
                        [Told("p", {"progress", "ref"}) EXCEPT !.remote = TRUE]}),
   gitbranch |-> On("out", {Entry("a", "x", {}), Entry("b", "x", {}), Entry("c", "c", {}),
                            Entry("d", "d", {}), Entry("e", "e", {})}),
   gitcommit |-> On("out", {OfKind("headline", "h"), OfKind("totals", "t"), OfKind("other", "o")}),
   gitpush |-> On("err", {OfKind("ref", "r"), OfKind("ref", "s"), OfKind("noise", "to"),
                          OfKind("current", "u"), OfKind("other", "o")}),
   gitpull |-> On("out", GitPull)]

(* The tools whose whole output is summarized at its end.                  *)
Diagnosed ==
  [cargotest |-> Of_("failed", {"t", "u"}) \cup Of_("name", {"t"}) \cup Of_("failures", {"f"})
                   \cup Of_("root", {"r"}) \cup Of_("result", {"x"}),
   cargobuild |-> Of_("header", {"e", "f", "g", "h"}) \cup Of_("progress", {"p"})
                    \cup {Tagged("summary", "s", "compile"), Placed("span", "-->", "a:1")},
   cargohints |-> Of_("header", {"e"}) \cup Of_("source", {"s"}) \cup Of_("loose", {"l"})
                    \cup {OfKind("hint", "h"), Tagged("hint", "d", "lint")},
   pytest |-> Of_("info", {"i"}) \cup Of_("failed", {"t", "u"}) \cup Of_("banner", {"t"})
                \cup Of_("status", {"1 failed"}) \cup Of_("root", {"E"}),
   pythontool |-> Of_("finding", {"a", "b"}) \cup Of_("summary", {"s", "t"}) \cup Of_("", {"x"}),
   anchored |-> Of_("finding", {"a", "b"}) \cup Of_("summary", {"s"})
                  \cup {Placed("finding", "x", "f:1"), Placed("finding", "y", "f:1"),
                        Placed("finding", "z", "f:2")},
   dotnetbuild |-> Of_("error", {"a", "b", "c", "d"}) \cup Of_("warning", {"w"})
                     \cup {Tagged("summary", "s", "failed")},
   dotnettest |-> Of_("failed", {"t", "u"}) \cup Of_("error", {"e"}) \cup Of_("message", {"m"})
                    \cup Of_("stack", {"st"}) \cup Of_("frame", {"at"}) \cup Of_("summary", {"s"}),
   gradle |-> Of_("taskFailed", {"> T"}) \cup Of_("test", {"t", "u"}) \cup Of_("wrong", {"*"})
                \cup Of_("error", {"e"}) \cup Of_("success", {"ok"}) \cup Of_("actionable", {"n"}),
   pulumi |-> Of_("header", {"Updating"}) \cup Of_("diagnostics", {"D"}) \cup Of_("outputs", {"O"})
                \cup Of_("change", {"+"}) \cup Of_("unchanged", {"u", "v"}) \cup Of_("error", {"e"}),
   build |-> Of_("unit", {"t"}) \cup Of_("tool", {"m"}) \cup Of_("frame", {"at"})
               \cup Of_("progress", {"p"}) \cup Of_("", {"d"})
               \cup {Placed("content", "x", "f:1"), Placed("content", "y", "f:1")},
   buildkit |-> {OfKind("dashes", "--"), Step("header", "#1", "1"), Step("error", "#1 ERROR", "1"),
                 OfKind("tail", "ERROR:"), OfKind("", "gcc"), OfKind("image", "writing")},
   terraform |-> Of_("alert", {"Error:"}) \cup Of_("header", {"a", "b"}) \cup Of_("attr", {"+", "-"})
                   \cup Of_("summary", {"Plan:"}),
   jstest |-> Of_("spec", {"t", "u"}) \cup Of_("mocha", {"1)"}) \cup Of_("detail", {"d"})
                \cup {Tagged("mocha", "2)", "colon"), Tagged("summary", "s", "tests"),
                      Tagged("", "part:", "colon")},
   jsreport |-> {[key |-> "s", failed |-> TRUE, failures |-> <<"t", "u">>],
                 [key |-> "v", failed |-> TRUE, failures |-> <<"m">>],
                 [key |-> "w", failed |-> FALSE, failures |-> <<>>]},
   jstooling |-> Of_("file", {"a.ts", "b.ts"}) \cup Of_("error", {"x", "y"})
                   \cup Of_("detail", {"w"}) \cup Of_("critical", {"404"}) \cup Of_("summary", {"s"})]

(* Tables, queries and lists: rows with a name and a status.               *)
Row(key, status) ==
  [OfKind("row", key) EXCEPT !.tag = status] @@ [cells |-> <<key, status>>]
InRow(kind, key, cells) == OfKind(kind, key) @@ [cells |-> cells]
Item(key, keys, cells) ==
  OfKind("json", key) @@ [keys |-> keys, cells |-> cells, height |-> 4]
Keyed(key, status) == Item(key, {"name", "status"}, <<key, status>>)
Odd(kind, key, status) == OfKind(kind, key) @@ [status |-> status]
Sized(kind, key, size) == OfKind(kind, key) @@ [size |-> size, status |-> ""]
Spoken(kind, key, source, rank) == OfKind(kind, key) @@ [source |-> source, rank |-> rank]
Value(kind, of) == [kind |-> kind, of |-> of]
Scalar == Value("scalar", <<>>)

Running == {Row("a", "up"), Row("b", "up"), Row("c", "up"), Row("d", "up"), Row("x", "down")}
Listed ==
  [table |-> Running \cup {InRow("header", "NAME", <<"NAME", "STATUS">>), InRow("", "z", <<"z">>)},
   du |-> {InRow("size", k, <<"4K", k>>) : k \in {"a", "b", "c", "d"}}
            \cup {InRow("size", "x", <<"9G", "x">>)},
   sql |-> Running \cup {InRow("error", "ERROR:", <<>>), InRow("summary", "(5 rows)", <<>>)},
   sqljson |-> {Keyed(k, "up") : k \in {"a", "b", "c", "d"}}
                 \cup {Keyed("x", "down"), Item("1", {}, <<>>)},
   query |-> {Keyed(k, "up") : k \in {"a", "b", "c", "d"}} \cup {Item("1", {}, <<>>)},
   structure |-> {Scalar, Value("array", <<Scalar, Scalar>>), Value("array", <<>>),
                  Value("object", <<Scalar, Value("object", <<Scalar>>)>>)},
   cloud |-> {Odd("", k, "up") : k \in {"a", "b", "c"}} \cup {Odd("", "x", "down"), Odd("", "n", "")},
   ecs |-> {Odd("service", "a", "up"), Odd("service", "b", "up"), Odd("service", "x", "draining"),
            Odd("failure", "f", "failure"), Odd("failure", "g", "failure")},
   awslogs |-> Of_("error", {"e", "f", "g"}) \cup Of_("", {"i", "j", "k"}),
   stack |-> Of_("failed", {"f", "g", "h"}) \cup Of_("progress", {"p", "q"}),
   s3 |-> {Sized("object", "a", 1), Sized("object", "b", 2), Sized("object", "c", 3),
           Sized("footer", "Total", 0), Sized("bucket", "d", 0), Sized("bucket", "e", 0),
           Sized("prefix", "PRE", 0)},
   kubeget |-> Of_("", {"a", "b", "c"}),
   describe |-> Of_("meta", {"n", "m"}) \cup Of_("events", {"E"}) \cup Of_("event", {"w", "f"}),
   kubelogs |-> {Spoken("telling", "a1", "a", 1), Spoken("telling", "a2", "a", 2),
                 Spoken("telling", "b1", "b", 1), Spoken("telling", "a0", "a", 0),
                 Spoken("", "x", "b", 1)},
   apply |-> Of_("alert", {"e", "f", "g"}) \cup {Tagged("applied", "a", "created"),
               Tagged("applied", "b", "created"), Tagged("applied", "c", "pruned")},
   rollout |-> Of_("waiting", {"v", "w"}) \cup Of_("final", {"e", "f", "g"}),
   kubediff |-> Of_("alert", {"e", "f", "g"}) \cup Of_("diff", {"a", "b"}) \cup Of_("", {"+"})]

(* Containers, transfers, runs and checks.                                 *)
Check(key, tag) == Tagged("check", key, tag)
Hosted ==
  [dockerps |-> {Spoken("service", "a", "", 3), Spoken("service", "b", "", 1),
                 Spoken("service", "c", "", 2), Spoken("", "x", "", 0)},
   dockerlogs |-> {Spoken("telling", "a1", "a", 1), Spoken("telling", "a2", "a", 2),
                   Spoken("telling", "b1", "b", 1), Spoken("", "b2", "b", 2), Spoken("", "c1", "c", 1)},
   images |-> Of_("image", {"a", "b", "c"}) \cup Of_("dangling", {"d", "e"}),
   transfer |-> Of_("layer", {"l"}) \cup {Tagged("layer", "m", "error")} \cup Of_("error", {"e", "f"})
                  \cup Of_("kept", {"digest", "status"}),
   compose |-> Of_("dashes", {"--"}) \cup Of_("error", {"e"}) \cup Of_("attach", {"t"})
                 \cup Of_("progress", {"p"})
                 \cup {Tagged("resource", "r", "passing"), Tagged("resource", "r", "settled"),
                      Tagged("resource", "q", "settled")},
   prview |-> Of_("file", {"a", "b", "c"}),
   runview |-> {Tagged("job", "j", "failure"), Tagged("job", "k", "failure"), Tagged("job", "i", "ok"),
                Tagged("step", "s", "failure"), Tagged("step", "t", "failure"), Tagged("step", "u", "ok")},
   runlog |-> {Spoken("header", "h", "", 0), Spoken("telling", "a1", "a", 1),
               Spoken("telling", "a2", "a", 2), Spoken("telling", "b1", "b", 1), Spoken("", "x", "a", 0)},
   checks |-> {Check("a", "fail"), Check("a", "pending"), Check("a", "pass"), Check("b", "fail"),
               Check("c", "cancelled"), OfKind("extra", "x")},
   items |-> {Odd("", k, "open") : k \in {"a", "b", "c"}} \cup {Odd("", "x", "closed"), Odd("", "n", "")},
   pipelines |-> {Odd("row", "a", "success"), Odd("row", "b", "success"), Odd("row", "c", "failed"),
                  Odd("row", "d", "running"), Odd("context", "#1", ""), Odd("context", "#2", "")}]

(* Files, listings, dumps and logs.                                        *)
Code(kind, key, delta, ends) == OfKind(kind, key) @@ [delta |-> delta, ends |-> ends]
Leaf_(key, depth) == OfKind("entry", key) @@ [depth |-> depth]
Dated(key, tag) == Tagged("event", key, tag)
Previewable ==
  [doc |-> Of_("heading", {"# h"}) \cup Of_("item", {"- a", "- b"}) \cup Of_("text", {"s", "t"}),
   code |-> Of_("anchor", {"import", "def"}) \cup Of_("text", {"x", "y"}) \cup Of_("comment", {"//"})
              \cup Of_("star", {"*"}),
   signature |-> {Code("declaration", "func f {", 1, TRUE), Code("declaration", "func g(", 1, FALSE),
                  Code("text", ") {", 0, TRUE), Code("block", "const (", 1, FALSE),
                  Code("member", "A", 0, FALSE), Code("member", "B", 0, FALSE),
                  Code("member", "C", 0, FALSE), Code("close", ")", -1, FALSE),
                  Code("", "", 0, FALSE)},
   listing |-> {Spoken("dir", "d", "", 1), Spoken("file", "a", "", 2), Spoken("file", "b", "", 1),
                Spoken("file", "c", "", 3), Spoken("total", "total", "", 0)},
   tree |-> {OfKind("root", "."), OfKind("footer", "3 files"), Leaf_("a", 1), Leaf_("b", 1),
             Leaf_("c", 2), Leaf_("d", 2), Leaf_("e", 3)},
   patch |-> Of_("file", {"a", "b"}) \cup Of_("reject", {"x", "y"}) \cup Of_("hunk", {"@@"})
               \cup Of_("", {"+"}),
   binary |-> Of_("", {"a", "b", "c", "d"}),
   env |-> {Spoken("path", "PATH", "", 0), Spoken("diagnostic", "HOME", "", 0),
            Spoken("secret", "TOKEN", "", 0), Spoken("secret", "KEY", "", 0),
            Spoken("variable", "A_X", "A", 0), Spoken("variable", "A_Y", "A", 0)},
   http |-> Of_("status", {"200"}) \cup Of_("blank", {""}) \cup Of_("text", {"a", "b", "c"})
              \cup Of_("json", {"{"}),
   cloudlogs |-> {Dated("e", "telling"), Dated("f", "telling"), Dated("i", ""), Dated("j", ""),
                  Tagged("", "g", "telling"), OfKind("", "x")}]

Prints == [f \in DOMAIN Printable \cup DOMAIN Diagnosed \cup DOMAIN Listed \cup DOMAIN Hosted
                   \cup DOMAIN Previewable |->
             CASE f = "query" -> On("out", Listed[f]) \cup On("err", {InRow("", "!", <<>>)})
               [] f \in DOMAIN Printable -> Printable[f]
               [] f \in DOMAIN Diagnosed -> On("out", Diagnosed[f])
               [] f \in DOMAIN Listed -> On("out", Listed[f])
               [] f \in DOMAIN Hosted -> On("out", Hosted[f])
               [] OTHER -> On("out", Previewable[f])]

Start ==
  [compact |-> CompactStart, streams |-> StreamsStart, spec |-> <<>>, failure |-> FailureStart,
   readlog |-> ReadLogStart, find |-> Find!SearchStart, ripgrep |-> SearchStart, gotest |-> <<>>,
   gitstatus |-> StatusStart, gitlog |-> LogStart, gitlogfull |-> LogStart,
   gitdiff |-> DiffStart(FALSE, 5), gitstat |-> DiffStart(FALSE, 0), gitop |-> <<>>,
   gitbranch |-> <<>>, gitcommit |-> SuccessStart("commit"), gitpush |-> SuccessStart("push"),
   gitpull |-> SuccessStart("pull"), query |-> [out |-> <<>>, err |-> <<>>]]

Successes == {"gitcommit", "gitpush", "gitpull"}

DiagnosticResult(s) ==
  CASE filter = "cargotest" -> CargoTestResult(s)
    [] filter \in {"cargobuild", "cargohints"} -> CargoBuildResult(s)
    [] filter = "pytest" -> PytestResult(s)
    [] filter = "pythontool" -> PythonToolingResult(s)
    [] filter = "anchored" -> AnchoredResult(s)
    [] filter = "dotnetbuild" -> DotnetBuildResult(s)
    [] filter = "dotnettest" -> DotnetTestResult(s)
    [] filter = "gradle" -> GradleResult(s)
    [] filter = "pulumi" -> PulumiResult(s)
    [] filter = "build" -> BuildResult(s)
    [] filter = "buildkit" -> BuildKitResult(s)
    [] filter = "terraform" -> TerraformResult(s)
    [] filter = "jstest" -> JSTestResult(s)
    [] filter = "jsreport" -> JSReportResult(s)
    [] filter = "jstooling" -> JSToolingResult(s)

ListedResult(s) ==
  CASE filter \in {"table", "du"} -> WideTableResult(s)
    [] filter = "sql" -> SQLQueryResult(s)
    [] filter = "sqljson" -> SQLRecordsResult(s)
    [] filter = "query" -> QueryOutputResult(s.out, s.err)
    [] filter = "structure" -> StructureResult(s)
    [] filter = "cloud" -> CloudListResult(s)
    [] filter = "ecs" -> ECSResult(s)
    [] filter = "awslogs" -> LogEventsResult(s)
    [] filter = "stack" -> StackEventsResult(s)
    [] filter = "s3" -> S3Result(s)
    [] filter = "kubeget" -> KubectlGetResult(s)
    [] filter = "describe" -> KubectlDescribeResult(s)
    [] filter = "kubelogs" -> KubectlLogsResult(s)
    [] filter = "apply" -> KubectlApplyResult(s)
    [] filter = "rollout" -> KubectlRolloutResult(s)
    [] filter = "kubediff" -> KubectlDiffResult(s)

HostedResult(s) ==
  CASE filter = "dockerps" -> DockerPSResult(s)
    [] filter = "dockerlogs" -> DockerLogsResult(s)
    [] filter = "images" -> DockerImagesResult(s)
    [] filter = "transfer" -> DockerTransferResult(s)
    [] filter = "compose" -> ComposeResult(s)
    [] filter = "prview" -> PRViewResult(s)
    [] filter = "runview" -> RunViewResult(s)
    [] filter = "runlog" -> RunLogResult(s)
    [] filter = "checks" -> PRChecksResult(s)
    [] filter = "items" -> ItemListResult(s)
    [] filter = "pipelines" -> PipelinesResult(s)

PreviewedResult(s) ==
  CASE filter = "doc" -> DocPreviewResult(s)
    [] filter = "code" -> CodePreviewResult(s)
    [] filter = "signature" -> SignaturePreviewResult(s)
    [] filter = "listing" -> DirectoryListingResult(s)
    [] filter = "tree" -> TreeResult(s)
    [] filter = "patch" -> PatchResult(s)
    [] filter = "binary" -> BinaryResult(s)
    [] filter = "env" -> EnvResult(s)
    [] filter = "http" -> HTTPResult(s)
    [] filter = "cloudlogs" -> CloudLogsResult(s)

Feed(s, stream, line) ==
  CASE filter = "compact" -> CompactFeed(s, line)
    [] filter = "streams" -> StreamsFeed(s, stream, line)
    [] filter = "failure" -> FailureFeed(s, line)
    [] filter = "readlog" -> ReadLogFeed(s, line)
    [] filter = "find" -> Find!FindFeed(s, stream, line)
    [] filter = "ripgrep" -> RipgrepFeed(s, stream, line)
    [] filter = "gitstatus" -> StatusFeed(s, line)
    [] filter \in {"gitlog", "gitlogfull"} -> LogFeed(s, line)
    [] filter \in {"gitdiff", "gitstat"} -> DiffFeed(s, line)
    [] filter \in Successes -> SuccessFeed(s, stream, line)
    [] filter = "query" -> [s EXCEPT ![stream] = Append(@, line)]
    [] OTHER -> Append(s, line)

Done(s) ==
  CASE filter = "failure" -> FailureDone(s)
    [] filter = "find" -> Find!FindDone(s)
    [] filter = "ripgrep" -> RipgrepDone(s)
    [] OTHER -> FALSE

Previewed(s) == IF filter \in Successes THEN SuccessPreview(s) ELSE s

Result(s) ==
  CASE filter = "compact" -> CompactResult(s)
    [] filter = "streams" -> StreamsResult(s)
    [] filter = "spec" -> ApplySpec(LineLimited(CompactLinesSpec, MaxLines), s)
    [] filter = "failure" -> FailureResult(s)
    [] filter = "readlog" -> ReadLogResult(s)
    [] filter = "find" -> Find!FindResult(s)
    [] filter = "ripgrep" -> RipgrepResult(s)
    [] filter = "gotest" -> GoTestResult(s)
    [] filter = "gitstatus" -> StatusResult(s)
    [] filter \in {"gitlog", "gitlogfull"} -> LogResult(s)
    [] filter \in {"gitdiff", "gitstat"} -> DiffResult(s)
    [] filter = "gitop" -> GitOpResult(s)
    [] filter = "gitbranch" -> BranchesResult(s)
    [] filter \in Successes -> SuccessResult(s)
    [] filter \in DOMAIN Diagnosed -> DiagnosticResult(s)
    [] filter \in DOMAIN Listed -> ListedResult(s)
    [] filter \in DOMAIN Hosted -> HostedResult(s)
    [] filter \in DOMAIN Previewable -> PreviewedResult(s)

-----------------------------------------------------------------------------
(* What a tool prints first and last, and where it matters how its output  *)
(* is cut.                                                                 *)
Printed(kinds) == \E i \in DOMAIN fed : fed[i].line.kind \in kinds
MayPrint(line) ==
  CASE filter = "gitlogfull" -> fed # <<>> \/ line.kind = "commit"
    [] filter = "pulumi" -> fed # <<>> \/ line.kind = "header"
    [] filter = "runview" -> fed # <<>> \/ line.kind = "job"
    [] filter = "http" -> fed # <<>> \/ line.kind = "status"
    [] filter = "tree" ->
         IF fed = <<>> THEN line.kind = "root"
         ELSE /\ line.kind # "root" /\ ~Printed({"footer"})
              /\ line.kind = "entry" /\ line.depth > 1 =>
                   Last(fed).line.kind = "entry" /\ line.depth <= Last(fed).line.depth + 1
    [] filter = "signature" /\ fed # <<>> ->
         LET last == Last(fed).line
         IN  /\ last.kind = "declaration" /\ ~last.ends => line.kind \in {"text", ""}
             /\ (last.kind \in {"block", "member"}) = (line.kind \in {"member", "close"})
    [] filter = "signature" /\ fed = <<>> -> line.kind \notin {"member", "close"}
    [] filter = "gradle" ->
         /\ line.kind = "success" => ~Printed({"taskFailed", "test", "wrong"})
         /\ line.kind # "actionable" => ~Printed({"success"})
    [] filter = "table" -> (fed = <<>>) = (line.kind = "header")
    [] filter = "s3" ->
         /\ line.kind = "bucket" => ~Printed({"object"})
         /\ line.kind = "object" => ~Printed({"bucket"})
    [] OTHER -> TRUE

Chunked == filter \in {"failure", "find", "ripgrep"} \cup Successes

FilterInit ==
  /\ filter \in Filters
  /\ fed = <<>>
  /\ state = IF filter \in DOMAIN Start THEN Start[filter] ELSE <<>>
  /\ open = TRUE
  /\ said = Said({}, 0, 0, FALSE)

(* A line comes, in the chunk of the line before it or in one of its own.  *)
FeedLine(printed, chunk) ==
  LET taken == IF chunk THEN ~Done(state) ELSE open
      s == IF chunk /\ fed # <<>> THEN Previewed(state) ELSE state
  IN  /\ Len(fed) < MaxFed
      /\ fed # <<>> \/ chunk
      /\ MayPrint(printed.line)
      /\ chunk \/ Chunked
      /\ open' = taken
      /\ fed' = Append(fed, [stream |-> printed.stream, line |-> printed.line, taken |-> taken])
      /\ state' = IF taken THEN Feed(s, printed.stream, printed.line) ELSE s
      /\ said' = Result(state')
      /\ UNCHANGED filter

FilterNext == \E printed \in Prints[filter], chunk \in BOOLEAN : FeedLine(printed, chunk)

-----------------------------------------------------------------------------
Fed(stream) ==
  LET of == SelectSeq(fed, LAMBDA l : l.taken /\ l.stream = stream)
  IN  [i \in DOMAIN of |-> of[i].line]
Out == Fed("out")
Err == Fed("err")

(* The lines that are not noise to the reducer that is fed them: of a      *)
(* diagnostic summary, those of these kinds; of the words of a commit, the *)
(* first; of the changed lines before a summary of git diff, none, unless  *)
(* a file is started.                                                      *)
Telling ==
  [cargotest |-> {"failed", "root"}, cargobuild |-> {"header", "summary", "progress"},
   cargohints |-> {"header"}, pytest |-> {"root", "status"},
   pythontool |-> {"finding", "summary"}, anchored |-> {"summary"},
   gradle |-> {"taskFailed", "test"}, build |-> {"unit", "tool", "progress"},
   pulumi |-> {"header", "diagnostics", "outputs", "change", "unchanged", "error"},
   terraform |-> {"alert", "summary"},
   table |-> {"row"}, describe |-> {"meta"}, kubelogs |-> {"telling"}, apply |-> {"alert"},
   rollout |-> {"final"}, kubediff |-> {"alert", "diff"}, s3 |-> {"object", "bucket"},
   dockerps |-> {"service"}, dockerlogs |-> {"telling"}, images |-> {"image"},
   transfer |-> {"error", "kept"}, runlog |-> {"telling", "header"}, pipelines |-> {"row"},
   code |-> {"anchor", "text"}, listing |-> {"dir", "file"}, tree |-> {"entry"},
   patch |-> {"file", "reject"}, env |-> {"path", "diagnostic", "secret"}]

(* The line that begins what the i-th belongs to.                          *)
Heading(i, kinds) ==
  LET begins == {j \in 1 .. i : fed[j].line.kind \in kinds}
  IN  fed[CHOOSE j \in begins : \A k \in begins : k <= j].line

Matters(i) ==
  LET line == fed[i].line
  IN  CASE filter \in DOMAIN Telling -> line.kind \in Telling[filter]
        [] filter \in {"find", "ripgrep"} -> fed[i].stream = "err" \/ line.noise = ""
        [] filter = "gotest" -> line.test # ""
        [] filter = "runview" -> line.tag = "failure" /\ Heading(i, {"job"}).tag = "failure"
        [] filter = "checks" -> Printed({"check"})
        [] filter = "cloudlogs" -> line.tag = "telling"
        [] filter = "http" ->
             line.kind = "text" /\ ~Printed({"json"}) /\ Heading(i, {"status", "blank"}).kind = "blank"
        [] filter = "signature" -> line.kind \in {"declaration", "block", "member"}
        [] filter = "compose" -> line.kind \in {"error", "attach"} /\ ~Printed({"dashes"})
        [] filter = "sql" -> line.kind = "error" \/ ~Printed({"error"})
        [] filter = "gitdiff" -> Printed({"file"}) \/ ~\E j \in DOMAIN fed : fed[j].line.piped
        [] filter = "gitlogfull" -> line.kind = "message" /\ fed[i - 1].line.kind = "commit"
        [] OTHER -> TRUE

Hidden == {fed[i].line.key : i \in {j \in DOMAIN fed : Matters(j)}} \ said.shown

(* The reducers that ask for the output to be kept whenever they hide a    *)
(* line.  The others leave gaps, which the README lists.                   *)
Recovering == {"compact", "streams", "spec", "find", "gotest", "gitlog", "gitlogfull", "gitdiff"}
              \cup DOMAIN Telling
              \cup {"du", "sql", "sqljson", "cloud", "ecs", "awslogs", "stack", "kubeget"}
              \cup {"compose", "prview", "runview", "checks", "items"}
              \cup {"doc", "binary", "http", "cloudlogs"}
Speaks == filter = "find" /\ Find!CompactPreview(state.err) # <<>>

(* What a summary does not show can be had: a reducer that hides a line    *)
(* asks for the full output to be kept, however its lines were cut into    *)
(* chunks and whenever it was done (docs/ARCHITECTURE.md:159).             *)
HidingIsRecoverable ==
  filter \in Recovering /\ ~Speaks /\ Hidden # {} => said.plan

(* The last that was printed of a check.                                   *)
FinalCheck(key) == Last(SelectSeq(Out, LAMBDA l : l.key = key)).tag

(* How many things the output tells of, counted without the reducer.       *)
Runs(lines, same(_, _)) ==
  Cardinality({i \in DOMAIN lines : i = 1 \/ ~same(lines[i - 1], lines[i])})
SameLine(a, b) == a.id = b.id
SameKey(a, b) == a.key = b.key
Keys(lines) == {lines[i].key : i \in DOMAIN lines}
OfKinds(kinds) == SelectSeq(Out, LAMBDA l : l.kind \in kinds)

Counting == {"compact", "streams", "spec", "find", "gotest", "gitlog", "gitlogfull", "gitdiff",
             "gitstat", "pulumi", "table", "du", "sql", "sqljson", "structure", "cloud", "ecs",
             "awslogs", "stack", "s3", "kubeget", "kubelogs", "kubediff", "dockerps", "dockerlogs",
             "images", "prview", "runview", "checks", "items", "listing", "binary", "patch", "cloudlogs"}
Countable ==
  CASE filter = "find" -> ~Speaks
    [] filter = "gitdiff" -> state.summary = <<>> /\ Printed({"file"})
    [] filter = "table" -> Printed({"row"})
    [] filter = "sql" -> Cardinality(Keys(Out)) = Len(Out) /\ ~Printed({"error"})
    [] filter = "s3" -> Printed({"object", "bucket"})
    [] filter = "kubelogs" -> Printed({"telling"})
    [] filter = "dockerps" -> Printed({"service"})
    [] filter \in {"structure", "images", "runview"} -> fed # <<>>
    [] filter = "checks" -> Printed({"check"})
    [] filter = "patch" -> Printed({"file", "reject"})
    [] filter = "cloudlogs" -> \E i \in DOMAIN fed : Matters(i)
    [] filter = "kubediff" -> Printed({"diff"})
    [] OTHER -> TRUE
Count ==
  CASE filter = "compact" -> Runs(Out, SameLine)
    [] filter = "streams" -> Runs(Out, SameKey) + Runs(Err, SameKey)
    [] filter = "spec" -> Runs(Out, SameKey)
    [] filter = "find" -> Cardinality(Keys(SelectSeq(Out, LAMBDA l : l.noise = "")))
    [] filter = "gotest" -> Cardinality(Keys(SelectSeq(Out, LAMBDA e : e.test # "")))
    [] filter = "gitlogfull" -> Len(OfKinds({"commit"}))
    [] filter = "gitdiff" -> Len(OfKinds({"file"}))
    [] filter = "table" -> Len(OfKinds({"row"}))
    [] filter = "s3" -> Len(OfKinds({"object", "bucket"}))
    [] filter = "awslogs" -> Cardinality(Keys(Out))
    [] filter = "stack" -> Cardinality(Keys(OfKinds({"failed"}))) + Len(OfKinds({"progress"}))
    [] filter = "kubelogs" -> Cardinality(Keys(OfKinds({"telling"})))
    [] filter = "dockerps" -> Len(OfKinds({"service"}))
    [] filter = "dockerlogs" ->
         LET telling == ToSet(OfKinds({"telling"}))
         IN  Cardinality(telling)
               + Cardinality({l.source : l \in ToSet(Out)} \ {l.source : l \in telling})
    [] filter = "images" -> Len(OfKinds({"image"}))
    [] filter = "runview" -> 1 + Cardinality({i \in DOMAIN fed : Matters(i)})
    [] filter = "checks" -> Cardinality({k \in Keys(Out) : FinalCheck(k) # "pass"})
    [] filter = "kubediff" ->
         Cardinality(Keys(OfKinds({"alert"}))) + Len(OfKinds({"diff"}))
    [] filter \in {"listing", "patch"} ->
         Cardinality(Keys(OfKinds({"dir", "file", "reject"})))
    [] filter = "binary" -> Cardinality(Keys(Out))
    [] filter = "cloudlogs" -> Cardinality({l \in ToSet(Out) : l.tag = "telling"})
    [] filter = "structure" -> CountStructure(Value("object", Out), 0)
    [] OTHER -> Len(Out)

(* What a summary lists and what it says it leaves out make up what the    *)
(* command printed: "+N more" is neither short nor double, at every size.  *)
NotesAreTrue ==
  filter \in Counting /\ Countable => said.rows + said.more = Count

(* A reducer that is fed line by line says what the function that is given *)
(* the whole output says (declarative_bridge.go:184); so do those that     *)
(* stop early, of what they were fed.  The paths that are found are told    *)
(* alike as far as they are listed; of more of them the same number is      *)
(* shown, the least of the first that came instead of the least of all.    *)
StreamedIsBatch ==
  /\ filter = "streams" /\ Err = <<>> =>
       said = ApplySpec(LineLimited(CompactLinesSpec, MaxLines), Out)
  /\ filter = "find" /\ Err = <<>> /\ Out # <<>> =>
       LET batch == Find!FindBatch(Out, Err)
       IN  Len(Out) = Cardinality(Keys(Out)) =>
             /\ said.rows = batch.rows /\ said.more = batch.more
             /\ said.shown = batch.shown \/ Count > Find!VerbatimLimit
  /\ filter = "readlog" =>
       said = IF LooksLikeLog(Out) THEN AggregateResult(FoldLeft(Aggregate, AggregateStart, Out))
              ELSE Said(Keys(Out), Len(Out), 0, FALSE)

(* The names of what failed, or what stands out of a list.  What stands    *)
(* under the diagnostics of a stack is such a name, and an error in no     *)
(* section; the row of a table whose status no other has, if there are too *)
(* many names for a column of few values.                                  *)
Names ==
  [cargobuild |-> {"header"}, dotnettest |-> {"failed", "error"}, gradle |-> {"taskFailed", "test"},
   jstest |-> {"spec", "mocha"}, jstooling |-> {"critical"}, awslogs |-> {"error"},
   stack |-> {"failed"}, apply |-> {"alert"}, kubediff |-> {"alert"}, sql |-> {"error"}]
Section(i) == Heading(i, {"header", "diagnostics", "outputs"}).kind

TableRows == SelectSeq(Out, LAMBDA l : Len(l.cells) = 2 /\ l.kind # "header")
OddRows(c) ==
  LET rows == TableRows
      of(l) == Cardinality({i \in DOMAIN rows : rows[i].cells[c] = l.cells[c]})
  IN  IF Cardinality(Keys(rows)) = Len(rows) /\ Len(rows) > MaxDistinct
      THEN {l \in ToSet(rows) : of(l) = 1} ELSE {}
OddRecords ==
  {l \in ToSet(Out) : /\ l.status # ""
                      /\ \E i \in DOMAIN Out : LET of == {j \in DOMAIN Out : Out[j].status = Out[i].status}
                                               IN  /\ Out[i].status \notin {"", l.status}
                                                   /\ Cardinality(of) * 2 > Len(Out)}

NameLines ==
  CASE filter = "pulumi" ->
         {fed[i].line : i \in {j \in DOMAIN fed :
            Section(j) = "diagnostics" \/ (Section(j) = "header" /\ fed[j].line.kind = "error")}}
    [] filter = "table" -> OddRows(2)
    [] filter = "du" -> OddRows(1)
    [] filter = "sql" -> IF Printed({"error"}) THEN ToSet(OfKinds({"error"})) ELSE OddRows(2)
    [] filter = "sqljson" -> IF Len(TableRows) = Len(Out) THEN OddRows(2) ELSE {}
    [] filter \in {"cloud", "ecs", "items"} -> OddRecords
    [] filter = "transfer" -> {l \in ToSet(Out) : "error" \in {l.kind, l.tag}}
    [] filter = "compose" -> IF Printed({"dashes"}) THEN {} ELSE ToSet(OfKinds({"error"}))
    [] filter = "runview" -> {fed[i].line : i \in {j \in DOMAIN fed : Matters(j)}}
    [] filter = "checks" ->
         {l \in ToSet(Out) : l.kind = "check" /\ l.tag = "fail" /\ FinalCheck(l.key) = "fail"}
    [] filter \in DOMAIN Names -> ToSet(OfKinds(Names[filter]))
    [] OTHER -> {}
Named == {l.key : l \in NameLines}

(* A name of what failed gives way to nothing but other names: whatever    *)
(* the budgets, no detail or summary is shown while a name is not          *)
(* (selfcap.go:67-71, cargo's, pulumi's, jest's and dotnet's tiers); nor   *)
(* is the odd row what a table drops (tabular/filter.go:178-181,           *)
(* sqlquery/filter.go:127-130, cloudlist/filter.go:114-117).               *)
NamesGive == Named \subseteq said.shown \/ said.shown \subseteq Named
NamesComeFirst == filter # "gradle" => NamesGive
=============================================================================
