-------------------------- MODULE MCRenderPipeline --------------------------
(***************************************************************************)
(* Instances of RenderPipeline for TLC: outputs on both sides of every     *)
(* threshold, reducers that say too little, too much, or nothing, each     *)
(* kind of profile, and the options one at a time.                         *)
(***************************************************************************)
EXTENDS RenderPipeline

MCWords == {"t", "s", "d", "m", "n1", "n2", "e1", "e2", "e3", "e4", "e5", "e6", "e7", "e8",
            "e9", "e10", "e11", "long", "c", "summary", "blob"}
MCCounts == {"c"}

Line(id, tokens, score, keeps) ==
  [kind |-> "line", id |-> id, tokens |-> tokens, score |-> score, keeps |-> keeps,
   head |-> {}, word |-> FALSE]
Noise(id, tokens) == Line(id, tokens, 0, {})
Error(id) == Line(id, 24, 40, {id})
Summed(tokens) == [Line("summary", tokens, 10, {}) EXCEPT !.kind = "summary"]
(* A line longer than a repaired one, whose first words name one of its    *)
(* two facts, and a line that counts the failures.                         *)
LongLine == [Line("long", 60, 40, {"e3", "e4"}) EXCEPT !.head = {"e3"}]
FailedCount == Line("c", 10, 30, {"c"})
Blob == [Line("blob", 400, 4, {"blob"}) EXCEPT !.word = TRUE]

Tiny == <<Noise("t", 12)>>
Small == <<Noise("s", 30), Error("e1")>>
Big == <<Noise("n1", 70), Error("e1"), Noise("n2", 70), Noise("n2", 70), Error("e2")>>
Dotted == <<Gap, Noise("d", 90), Error("e1"), Gap, Noise("n2", 140), Gap>>
Errors == [i \in 1 .. 11 |-> Error(<<"e1", "e2", "e3", "e4", "e5", "e6", "e7", "e8", "e9",
                                     "e10", "e11">>[i])]
Counted == <<Noise("n1", 110), Noise("n2", 110), FailedCount>>
Long == <<LongLine, FailedCount>>

Ran(out, err, exit) == [out |-> out, err |-> err, exit |-> exit]
Commands == {
  Ran(Tiny, <<>>, 0), Ran(<<>>, Tiny, 0), Ran(<<>>, <<>>, 2), Ran(Small, <<>>, 0),
  Ran(Small, Tiny, 1), Ran(Big, <<>>, 0), Ran(Big, Small, 2), Ran(<<>>, Big, 2),
  Ran(<<Gap>>, <<>>, 2), Ran(Dotted, <<>>, 2),
  Ran(Counted, <<>>, 2), Ran(Long \o Counted, <<>>, 2), Ran(Big, Long, 2),
  Ran(Errors, <<>>, 2), Ran(Errors, <<>>, 0), Ran(<<Blob>>, <<>>, 2)}

Reduced(text_, plan, fallback, capture) ==
  [text |-> text_, plan |-> plan, fallback |-> fallback, whole |-> ~fallback,
   done |-> capture = "done", safe |-> capture \in {"done", "safe"}, raw |-> capture = "raw"]
Reductions == {
  Reduced(<<>>, FALSE, FALSE, "no"),
  Reduced(<<Gap>>, FALSE, FALSE, "safe"),
  Reduced(<<Summed(6)>>, TRUE, FALSE, "done"),
  Reduced(<<Summed(20), Error("e1"), Noise("m", 40)>>, TRUE, FALSE, "raw"),
  Reduced(<<Summed(6), Noise("m", 90), Error("e2")>>, FALSE, TRUE, "no"),
  Reduced(<<Blob>>, TRUE, FALSE, "safe")}

Profile(name, high, how, pref, rule) ==
  [name |-> name, high |-> high, project |-> name = "rule", prepares |-> name \in {"go", "rule"},
   reduces |-> how = "reduces", renders |-> how = "renders", pref |-> pref, bypass |-> "",
   benign |-> name = "grep", rule |-> rule]
Profiles == {
  Profile("go", TRUE, "reduces", "auto", 0),
  Profile("kubectl", TRUE, "reduces", "stdoutOnly", 0),
  Profile("cargo", TRUE, "reduces", "stderrOnly", 0),
  Profile("npm", TRUE, "reduces", "stderrFirst", 0),
  Profile("grep", TRUE, "reduces", "stdoutFirst", 80),
  Profile("summary", FALSE, "reduces", "auto", 96),
  Profile("rule", FALSE, "renders", "auto", 0),
  Profile("tabular", TRUE, "renders", "auto", 0),
  Profile("passthrough", FALSE, "neither", "auto", 0)}

Options == [pass |-> FALSE, batch |-> FALSE, ultra |-> FALSE, contract |-> TRUE,
            verifier |-> TRUE, dedup |-> TRUE, early |-> TRUE, verbose |-> FALSE,
            tee |-> TRUE, wrap |-> "none"]
Invocations == {
  Options,
  [Options EXCEPT !.dedup = FALSE, !.wrap = "shell"],
  [Options EXCEPT !.contract = FALSE, !.tee = FALSE, !.wrap = "opaque"],
  [Options EXCEPT !.ultra = TRUE],
  [Options EXCEPT !.batch = TRUE],
  [Options EXCEPT !.batch = TRUE, !.ultra = TRUE],
  [Options EXCEPT !.verbose = TRUE, !.early = FALSE],
  [Options EXCEPT !.pass = TRUE],
  [Options EXCEPT !.pass = TRUE, !.ultra = TRUE]}

(* A profile without a reducer or a renderer has no use for what one says. *)
MCJobs == {j \in [inv : Invocations, profile : Profiles, cmd : Commands, reduced : Reductions,
                  budget : {[lines |-> 4, tokens |-> 60]}] :
             \/ j.profile.reduces
             \/ (j.profile.renders /\ j.reduced.raw)
             \/ j.reduced.text = <<>>}
=============================================================================
