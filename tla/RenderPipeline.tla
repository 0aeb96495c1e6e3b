--------------------------- MODULE RenderPipeline ---------------------------
(***************************************************************************)
(* One run of a command through the engine, from the prepared invocation   *)
(* to the text that is shown: what is captured and kept on disk, the       *)
(* stages of rendering in their order, the artifact, the suffix that       *)
(* refers to it, the retention verifier and the last guard.                *)
(* internal/engine/engine_execute*.go, recovery*.go, profile_capabilities  *)
(* .go, engine.go, the decision of fastpath.go and the batch path of       *)
(* render.go.  The reducers are outside: a job says what its reducer made  *)
(* of the whole of the command's output.  Session dedup, which may replace *)
(* the text afterwards, is DedupStore's.                                   *)
(*                                                                         *)
(* A job:                                                                  *)
(*   inv      pass (szr proxy), batch, ultra, contract, verifier, dedup,   *)
(*            early (capture stop), verbose, tee (on failure), wrap        *)
(*   profile  name, high (confidence), project, prepares, reduces,         *)
(*            renders, pref, bypass, benign, rule (tokens, 0 for none)     *)
(*   cmd      out, err, exit                                               *)
(*   reduced  text, plan, fallback, whole (parsed all), done, safe, raw    *)
(*            (the recovery needs the whole capture)                       *)
(*   budget   lines, tokens                                                *)
(***************************************************************************)
EXTENDS Rendering

CONSTANTS
  Jobs,
  ArtifactLimit   \* failureArtifactReadLimit, in tokens: 256 KB in the code

(* A command prints lines that are not blank.  What prints alike is the    *)
(* same line, wherever it stands, and a gap is "...".  No output and no    *)
(* reducer has a line that reads like a reference to an artifact.          *)
IsOutput(text) ==
  /\ text \in Seq(TextLine)
  /\ \A i \in DOMAIN text : /\ text[i].kind # "ref" /\ text[i].tokens > 0
                            /\ text[i].kind = "gap" => text[i].tokens = 1
                            /\ text[i].head \subseteq text[i].keeps

JobsAssumption ==
  \A j \in Jobs :
    /\ IsOutput(j.cmd.out) /\ IsOutput(j.cmd.err) /\ IsOutput(j.reduced.text)
    /\ LET whole == j.cmd.out \o j.cmd.err
       IN  \A i, k \in DOMAIN whole : whole[i].id = whole[k].id => whole[i] = whole[k]
    /\ j.budget.lines \in Nat /\ j.budget.tokens \in Nat

ASSUME JobsAreJobs == JobsAssumption
ASSUME ArtifactLimitIsPositive == ArtifactLimit \in Nat \ {0}

VARIABLES
  job,
  stage,
  run,        \* out, err, truncated, counted, rewritten
  tee,        \* the capture file of the run: "none", "kept", "removed"
  text,
  notes,      \* fallback, plan
  artifact,   \* what the text may refer to: "none", "tee", "written", "lost"
  verified    \* what the verifier did: "no", "held", "repaired", "full", "skipped"

vars == <<job, stage, run, tee, text, notes, artifact, verified>>

-----------------------------------------------------------------------------
(* The profile.                                                            *)

BypassNames == {"git-status", "grep", "path-find"}   \* allowsHighConfidenceBypass

NormalizeProfileCapabilities(p) ==
  [bypass |-> IF p.bypass # "" THEN p.bypass
              ELSE IF p.name = "passthrough" THEN "small"
              ELSE IF ~p.reduces THEN "never"
              ELSE IF ~p.high THEN "small"
              ELSE IF p.name \in BypassNames THEN "safe" ELSE "never",
   escape |-> p.name # "passthrough" /\ ~p.high,
   full |-> ~p.high]

Capabilities == NormalizeProfileCapabilities(job.profile)

IsFailureExit == job.cmd.exit # 0 /\ ~(job.profile.benign /\ job.cmd.exit = 1)

HasReducer == ~job.inv.pass /\ job.profile.reduces

(* commandWasRewritten: a project's profile does not rewrite a command     *)
(* found in a shell's argument, and no rewriting goes back into a wrapper  *)
(* that cannot take it.                                                    *)
Rewrites ==
  /\ job.profile.prepares
  /\ ~(job.profile.project /\ job.inv.wrap = "shell")
  /\ job.inv.wrap # "opaque"

-----------------------------------------------------------------------------
(* The capture.                                                            *)

Streams == {"out", "err"}
Other(s) == IF s = "out" THEN "err" ELSE "out"
Combine(out, err) == out \o err
Whole == Combine(job.cmd.out, job.cmd.err)
Raw == Combine(run.out, run.err)

FullCapture ==
  \/ job.inv.pass \/ job.inv.verbose
  \/ (~HasReducer /\ job.profile.renders)
  \/ Capabilities.full
  \/ (HasReducer /\ job.reduced.raw)

OnlyStream(pref) ==
  CASE pref \in {"stdoutOnly", "stdoutFirst"} -> {"out"}
    [] pref \in {"stderrOnly", "stderrFirst"} -> {"err"}
    [] OTHER -> Streams

LaterStream(pref) ==
  CASE pref = "stdoutFirst" -> {"err"} [] pref = "stderrFirst" -> {"out"} [] OTHER -> {}

CapturesAll(s) == FullCapture \/ (HasReducer /\ s \in LaterStream(job.profile.pref))

(* The first lines up to the limit, the last of them cut.                  *)
RawPreview(lines, limit) ==
  LET left(i) == limit - Tokens(SubSeq(lines, 1, i - 1))
      part(i) == IF lines[i].tokens <= left(i) THEN lines[i] ELSE Clip(lines[i], left(i))
  IN  KeepAt([i \in DOMAIN lines |-> part(i)], {i \in DOMAIN lines : left(i) > 0})

BypassLimit == IF job.profile.rule > 0 THEN job.profile.rule ELSE TinyTokens

StopsEarly(s) ==
  /\ HasReducer /\ ~FullCapture /\ job.inv.early /\ job.reduced.safe
  /\ s \in OnlyStream(job.profile.pref)
  /\ Tokens(job.cmd[s]) > BypassLimit

Captured(s) ==
  IF CapturesAll(s) THEN job.cmd[s] ELSE RawPreview(job.cmd[s], PreviewTokens)

Truncated(s) ==
  ~CapturesAll(s) /\ (Tokens(job.cmd[s]) > PreviewTokens \/ StopsEarly(s))

(* Counting stops with the reducer, at the least within what is captured.  *)
Counts ==
  LET all == Tokens(Whole)
      least == Tokens(Captured("out")) + Tokens(Captured("err"))
  IN  {all} \cup (IF HasReducer /\ job.reduced.done THEN {least} ELSE {})

RetainsRawCapture == job.inv.dedup /\ ~job.inv.pass /\ ~job.inv.ultra

CaptureIncomplete ==
  \/ run.truncated
  \/ \E s \in Streams : job.cmd[s] # <<>> /\ run[s] = <<>>

TrueRawTokens == Larger(run.counted, Tokens(Raw))

-----------------------------------------------------------------------------
(* The fast path.                                                          *)

Measured ==
  LET streams == OnlyStream(job.profile.pref)
      size(s) == IF s \in streams THEN Tokens(job.cmd[s]) ELSE 0
  IN  size("out") + size("err")

DecideFastPath ==
  IF IsFailureExit THEN "none"
  ELSE IF job.profile.pref = "stderrOnly" /\ Measured = 0 THEN "emptyPreferredStream"
  ELSE IF job.profile.rule > 0 /\ Larger(Measured, run.counted) <= job.profile.rule
  THEN "familyRule"
  ELSE IF Larger(Measured, run.counted) <= TinyTokens THEN "tinyOutput"
  ELSE "none"

ShouldApplyBypass ==
  /\ job.profile.reduces
  /\ \/ Capabilities.bypass = "small" /\ DecideFastPath # "none"
     \/ Capabilities.bypass = "safe" /\ DecideFastPath \in {"familyRule", "emptyPreferredStream"}

ReducerSummaryForBypass ==
  /\ job.cmd.exit = 0 /\ HasReducer /\ ~run.truncated
  /\ ~job.reduced.fallback /\ job.reduced.whole
  /\ job.reduced.text # <<>> /\ Tokens(job.reduced.text) < Tokens(Raw)

BypassRawContent ==
  LET only == OnlyStream(job.profile.pref)
      kept == {s \in only : run[s] # <<>>}
  IN  IF job.profile.pref \in {"stdoutOnly", "stderrOnly"} /\ kept # {}
      THEN run[CHOOSE s \in kept : TRUE] ELSE Raw

-----------------------------------------------------------------------------
(* Rendering.                                                              *)

(* The message on the stream the profile ignores, when its own is empty.   *)
PreferredStreamFallback(streams) ==
  LET own == IF job.profile.pref = "stdoutOnly" THEN "out" ELSE "err"
  IN  IF job.profile.pref \in {"stdoutOnly", "stderrOnly"} /\ streams[own] = <<>>
      THEN CompactLines(streams[Other(own)], job.budget.lines) ELSE <<>>

RenderedContent ==
  IF ShouldApplyBypass
  THEN IF ReducerSummaryForBypass THEN job.reduced.text ELSE BypassRawContent
  ELSE IF HasReducer \/ job.profile.renders THEN job.reduced.text
  ELSE Raw

(* initialStreamingRender *)
InitialRender ==
  IF job.inv.pass THEN Raw
  ELSE IF RenderedContent # <<>> THEN RenderedContent
  ELSE PreferredStreamFallback(run)

FallbackUsed ==
  \/ HasReducer /\ job.reduced.fallback
  \/ ~job.inv.pass /\ (text = <<>> \/ job.profile.name = "passthrough")

EscapeLines ==
  IF job.inv.ultra THEN CeilDiv(job.budget.lines * 5, 4) ELSE CeilDiv(job.budget.lines * 3, 2)

UsesFailureEscape(fallback) == ~job.inv.pass /\ IsFailureExit /\ fallback /\ Capabilities.escape

FailureEscape(t, raw, fallback) ==
  IF UsesFailureEscape(fallback) /\ raw # <<>> THEN CompactLines(raw, EscapeLines) ELSE t

UltraCompactRender(t, raw) ==
  IF job.inv.ultra THEN RenderUltraCompact(t, raw, job.cmd.exit # 0) ELSE t

ContractCut(t, rawTokens) ==
  ~job.inv.pass /\ job.inv.contract /\ ContractCuts(t, rawTokens, job.budget)

ContractRender(t, rawTokens) ==
  IF ~job.inv.pass /\ job.inv.contract
  THEN EnforceCompressionContract(t, rawTokens, job.budget) ELSE t

(* Broken: a text of marks alone is taken for a text.                      *)
InformativeEmptyRender(t, raw, file) ==
  LET source == IF raw # <<>> THEN raw ELSE file
  IN  IF ~job.inv.pass /\ IsFailureExit /\ t = <<>> /\ source # <<>>
      THEN CompactLines(source, EscapeLines) ELSE t

(* ensureInformativeFailureRender: the capture, or the file behind it.     *)
InformativeFailureRender(t, raw, file) ==
  LET source == IF raw # <<>> THEN raw ELSE file
  IN  IF ~job.inv.pass /\ IsFailureExit /\ ContentFree(t) /\ source # <<>>
      THEN CompactLines(source, EscapeLines) ELSE t

TerseRender(t) ==
  IF ~job.inv.pass /\ run.rewritten /\ job.cmd.exit = 0 /\ ~run.truncated
  THEN PreferTerseRender(t, Raw) ELSE t

SmallRender(t, raw, complete) ==
  IF complete /\ ~job.inv.ultra THEN PreferRawSmallOutput(t, raw, job.cmd.exit) ELSE t

-----------------------------------------------------------------------------
(* The artifact.                                                           *)

ShouldPersistRecovery == ~job.inv.pass /\ notes.plan /\ Raw # <<>>

ShouldPersistFailure ==
  /\ IsFailureExit /\ job.inv.tee
  /\ job.inv.pass \/ job.profile.name = "passthrough" \/ notes.fallback \/ ~job.profile.high

(* What the artifact holds, and what is read of it again.                  *)
ArtifactText ==
  CASE artifact = "tee" /\ tee = "kept" -> Whole [] artifact = "written" -> Raw
    [] OTHER -> <<>>

ReadFailureArtifact(file) == RawPreview(file, ArtifactLimit)

-----------------------------------------------------------------------------
Init ==
  /\ job \in Jobs
  /\ stage = "start"
  /\ run = [out |-> <<>>, err |-> <<>>, truncated |-> FALSE, counted |-> 0,
            rewritten |-> FALSE]
  /\ tee = "none"
  /\ text = <<>>
  /\ notes = [fallback |-> FALSE, plan |-> FALSE]
  /\ artifact = "none"
  /\ verified = "no"

(* prepareStreamingExecution and runCommand.  The capture file, where one  *)
(* is wanted, may fail; it stays after a failure, or for session dedup.    *)
RunCommand ==
  /\ stage = "start" /\ ~job.inv.batch
  /\ \E counted \in Counts :
       run' = [out |-> Captured("out"), err |-> Captured("err"), counted |-> counted,
               truncated |-> Truncated("out") \/ Truncated("err"), rewritten |-> Rewrites]
  /\ \/ tee' = "none"
     \/ /\ RetainsRawCapture \/ (job.inv.tee /\ job.cmd.exit # 0)
        /\ tee' = "kept"
  /\ stage' = "captured"
  /\ UNCHANGED <<job, text, notes, artifact, verified>>

Render ==
  /\ stage = "captured"
  /\ text' = InitialRender
  /\ stage' = "rendered"
  /\ UNCHANGED <<job, run, tee, notes, artifact, verified>>

(* escalateStreamingRender *)
Escalate ==
  /\ stage = "rendered"
  /\ notes' = [fallback |-> FallbackUsed, plan |-> HasReducer /\ job.reduced.plan]
  /\ text' = FailureEscape(IF text = <<>> THEN Raw ELSE text, Raw, FallbackUsed)
  /\ stage' = "escalated"
  /\ UNCHANGED <<job, run, tee, artifact, verified>>

Compact ==
  /\ stage = "escalated"
  /\ text' = UltraCompactRender(text, Raw)
  /\ stage' = "compacted"
  /\ UNCHANGED <<job, run, tee, notes, artifact, verified>>

Contract ==
  /\ stage = "compacted"
  /\ text' = ContractRender(text, TrueRawTokens)
  /\ notes' = [notes EXCEPT !.plan = @ \/ ContractCut(text, TrueRawTokens)]
  /\ stage' = "contracted"
  /\ UNCHANGED <<job, run, tee, artifact, verified>>

(* finalizeStreamingRender *)
Finalize ==
  /\ stage = "contracted"
  /\ text' = SmallRender(
               TerseRender(
                 InformativeFailureRender(
                   text, Raw, IF tee = "kept" THEN ReadFailureArtifact(Whole) ELSE <<>>)),
               Raw, ~run.truncated)
  /\ stage' = "finalized"
  /\ UNCHANGED <<job, run, tee, notes, artifact, verified>>

(* Broken: a capture of a run that did not fail is not for recovery.       *)
KeepsTeeOfFailures == ShouldPersistFailure

KeepsTee == ShouldPersistRecovery \/ ShouldPersistFailure

(* retainExistingTeeArtifact: the capture that session dedup is to read is *)
(* left where it is until the run is complete.                             *)
RetainTee ==
  /\ stage = "finalized" /\ tee = "kept"
  /\ artifact' = IF KeepsTee THEN "tee" ELSE "none"
  /\ tee' = IF KeepsTee \/ RetainsRawCapture THEN tee ELSE "removed"
  /\ stage' = "artifact"
  /\ UNCHANGED <<job, run, text, notes, verified>>

(* writeDeferredTeeArtifact: what is in memory is written, or the write    *)
(* fails.                                                                  *)
WriteArtifact ==
  /\ stage = "finalized" /\ tee # "kept"
  /\ IF Raw # <<>> /\ (ShouldPersistRecovery \/ ShouldPersistFailure)
     THEN artifact' \in {"written", "lost"} ELSE artifact' = "none"
  /\ stage' = "artifact"
  /\ UNCHANGED <<job, run, tee, text, notes, verified>>

(* assemble: a display that is the whole output needs no reference.        *)
Assembled(t) ==
  IF job.inv.pass THEN t
  ELSE IF job.cmd.exit = 0 /\ ~CaptureIncomplete /\ t = Raw THEN t
  ELSE IF artifact \notin {"tee", "written"} THEN t
  ELSE AssembleWithSuffixes(t, DisplayArtifactSuffixes(notes.plan), TrueRawTokens,
                            job.budget, job.inv.contract)

(* preferTinyRawOverSuffixedDisplay *)
TinyRawOverSuffixed(display) ==
  LET prefers == /\ ~job.inv.pass /\ ~job.inv.ultra
                 /\ ~CaptureIncomplete /\ job.cmd.exit = 0
                 /\ Raw # <<>> /\ Tokens(Raw) <= SmallTokens
                 /\ Tokens(display) > Tokens(Raw)
  IN  IF prefers THEN Raw ELSE display

Assemble ==
  /\ stage = "artifact"
  /\ text' = TinyRawOverSuffixed(Assembled(SmallRender(text, Raw, ~run.truncated)))
  /\ stage' = "assembled"
  /\ UNCHANGED <<job, run, tee, notes, artifact, verified>>

-----------------------------------------------------------------------------
(* The verifier and the last guard.                                        *)

ShouldRunVerifier(rawTokens, bypass) ==
  /\ ~job.inv.pass /\ job.inv.verifier /\ ~bypass
  /\ rawTokens >= ContractMinRawTokens

(* Broken: the facts are looked for in what was captured.                  *)
VerifierSourceInMemory == Raw

VerifierSource == IF CaptureIncomplete THEN ReadFailureArtifact(ArtifactText) ELSE Raw

VerifierMissing == MissingLines(VerifierSource, text, IsFailureExit)

Verdict(missing) ==
  IF missing = <<>> THEN "held"
  ELSE IF Len(missing) > EscapeLines THEN "full" ELSE "repaired"

Repaired(t, missing) ==
  IF missing = <<>> THEN t ELSE AppendRetentionRepair(t, missing, EscapeLines)

Verify ==
  /\ stage = "assembled"
  /\ IF ~ShouldRunVerifier(TrueRawTokens, DecideFastPath # "none")
     THEN UNCHANGED <<text, verified>>
     ELSE IF CaptureIncomplete /\ VerifierSource = <<>>
     THEN verified' = "skipped" /\ UNCHANGED text
     ELSE verified' = Verdict(VerifierMissing) /\ text' = Repaired(text, VerifierMissing)
  /\ stage' = "verified"
  /\ UNCHANGED <<job, run, tee, notes, artifact>>

(* enforceFinalNeverWorseThanRaw *)
FinalGuard(t, raw, complete) ==
  IF ~job.inv.pass /\ ~job.inv.ultra /\ complete THEN NeverWorseThanRaw(t, raw) ELSE t

(* The last guard and recordStreamingCompletion, which removes a capture   *)
(* that nothing refers to.                                                 *)
Complete ==
  /\ stage = "verified"
  /\ text' = FinalGuard(text, Raw, ~CaptureIncomplete)
  /\ tee' = IF tee = "kept" /\ artifact # "tee" THEN "removed" ELSE tee
  /\ stage' = "done"
  /\ UNCHANGED <<job, run, notes, artifact, verified>>

-----------------------------------------------------------------------------
(* RenderExecution: the streams are there, in memory and whole, there is   *)
(* no fast path and no artifact.  A render that is empty counts as a       *)
(* fallback unless it is a reducer's.                                      *)
BatchContent ==
  LET made == IF job.profile.reduces \/ job.profile.renders THEN job.reduced.text ELSE Whole
  IN  IF job.inv.pass THEN Whole
      ELSE IF made # <<>> THEN made ELSE PreferredStreamFallback(job.cmd)

BatchFallback ==
  /\ ~job.inv.pass
  /\ \/ job.profile.name = "passthrough"
     \/ job.profile.reduces /\ job.reduced.fallback
     \/ ~job.profile.reduces /\ BatchContent = <<>>

BatchRender ==
  LET made == IF BatchContent = <<>> THEN Whole ELSE BatchContent
      escaped == FailureEscape(made, Whole, BatchFallback)
      cut == ContractRender(UltraCompactRender(escaped, Whole), Tokens(Whole))
  IN  SmallRender(InformativeFailureRender(cut, Whole, <<>>), Whole, TRUE)

RenderExecution ==
  /\ stage = "start" /\ job.inv.batch
  /\ run' = [run EXCEPT !.out = job.cmd.out, !.err = job.cmd.err, !.counted = Tokens(Whole)]
  /\ notes' = [fallback |-> BatchFallback, plan |-> FALSE]
  /\ \E shown \in {BatchRender} :
       LET missing == MissingLines(Whole, shown, IsFailureExit)
           ran == ShouldRunVerifier(Tokens(Whole), FALSE)
       IN  /\ verified' = IF ran THEN Verdict(missing) ELSE "no"
           /\ text' = FinalGuard(IF ran THEN Repaired(shown, missing) ELSE shown, Whole, TRUE)
  /\ stage' = "done"
  /\ UNCHANGED <<job, tee, artifact>>

Next ==
  \/ RunCommand \/ Render \/ Escalate \/ Compact \/ Contract \/ Finalize
  \/ RetainTee \/ WriteArtifact \/ Assemble \/ Verify \/ Complete
  \/ RenderExecution

Spec == Init /\ [][Next]_vars

-----------------------------------------------------------------------------
(* A failing run of which anything is in memory, but for marks, says       *)
(* something: no chain of reducer, contract, suffix and guards ends in     *)
(* marks and references alone (ensureInformativeFailureRender, and         *)
(* hardCapTokens under the suffix).                                        *)
FailureIsInformative ==
  stage = "done" /\ ~job.inv.pass /\ IsFailureExit /\ ~ContentFree(Raw) => ~ContentFree(text)

(* Whatever the verifier could read of the output, all of it or what is    *)
(* read of its capture file, the facts it gives an account of are named by *)
(* the final text, or the repair section was full: neither the guard after *)
(* it nor an incomplete capture loses one (applyRetentionVerifier).        *)
ReadByVerifier == IF CaptureIncomplete THEN ReadFailureArtifact(Whole) ELSE Whole

CriticalFactsSurvive ==
  stage = "done" /\ verified \in {"held", "repaired"}
    /\ (artifact = "tee" \/ ~CaptureIncomplete)
  => Promised(ReadByVerifier, IsFailureExit) \subseteq Keeps(text)

(* What the reducer or the contract left out and planned to recover can be *)
(* recovered: the final text is the whole output, or refers to an artifact *)
(* that holds the whole output.  Excepted are an artifact that could not   *)
(* be written, and a capture that was cut and had no file: what is written *)
(* then is the cut capture (ensureStreamingArtifactPath).                  *)
OmissionIsRecoverable ==
  stage = "done" /\ notes.plan /\ Raw # <<>> /\ artifact # "lost"
  => \/ text = Whole
     \/ HasKind(text, "ref") /\ (ArtifactText = Whole \/ (run.truncated /\ tee = "none"))

-----------------------------------------------------------------------------
(* docs/ARCHITECTURE.md: deterministic access to hidden output.  A text    *)
(* that refers to the full output refers to all of it, even when nothing   *)
(* asked for the capture of a run that succeeds to be kept.  Not so: the   *)
(* artifact is then written from the preview.                              *)
FullOutputIsFull ==
  stage = "done" /\ job.cmd.exit = 0 /\ ~RetainsRawCapture /\ HasKind(text, "ref")
  => ArtifactText = Whole

(* internal/cli/help.go: szr proxy runs raw output without reduction.  Not *)
(* so: the profile's arguments and the ultra-compact form are applied.     *)
ProxyIsRaw ==
  stage = "done" /\ job.inv.pass => ~run.rewritten /\ text = Whole
=============================================================================
