--------------------------- MODULE StreamCapture ---------------------------
(***************************************************************************)
(* The capture of one proxied command: runCommand of                       *)
(* internal/engine/run.go with the tee of internal/engine/tee.go.          *)
(*                                                                         *)
(* Two goroutines (copyStream, one per stream) read the command's pipes.   *)
(* Each owns the outputCollector of its stream and shares with the other   *)
(* the teeCapture and the synchronizedReducer, both behind a mutex.  When  *)
(* both have returned, runCommand feeds the stream kept for later to the   *)
(* reducer, finalizes the tee and builds the runResult.                    *)
(*                                                                         *)
(* A byte is known by its stream and its position in it: the builder of a  *)
(* collector is a sequence of positions, the tee a sequence of <<stream,   *)
(* position>> pairs, so that loss, repetition and reordering are visible.  *)
(***************************************************************************)
EXTENDS Integers, Sequences

CONSTANTS
  Profiles,         \* the run options buildRunOptions may produce, as records
                    \*   [full, reducer, pref, early, retain, onFailure,
                    \*    benign], benign: exit code 1 is not a failure
  PreviewBytes,     \* rawPreviewBytes
  BypassBytes,      \* bytes a fast-path rule still calls tiny
  BypassTokens,     \* tokens a fast-path rule still calls tiny
  RunesPerToken,    \* 4 in tokenCounter.Estimate
  RuneBytes,        \* utf8.UTFMax, the longest encoding of a rune
  TeeMaxBytes,      \* teeLimits.maxFileBytes
  MaxChunk,         \* bytes one Read may return (the 4096-byte buffer)
  MaxOutput,        \* bound: bytes one stream carries
  ReadFaults,       \* whether a Read may fail with an error other than EOF
  TeeFaults         \* whether the tee file may fail to be created, written,
                    \*   flushed or renamed

Streams == {"stdout", "stderr"}
Prefs == {"both", "stdout_only", "stderr_only", "stdout_first", "stderr_first"}

ASSUME SizesAssumption ==
  /\ PreviewBytes \in Nat \ {0}
  /\ BypassBytes \in 0 .. PreviewBytes
  /\ BypassTokens \in Nat
  /\ RunesPerToken \in Nat \ {0}
  /\ RuneBytes \in Nat \ {0}
  /\ TeeMaxBytes \in Nat \ {0}
  /\ MaxChunk \in Nat \ {0}
  /\ MaxOutput \in Nat

(* The tokens every rule of fastpath.go calls tiny have no more runes than  *)
(* a preview has bytes: 96 tokens of 4 runes, 384 bytes.                   *)
ASSUME FastPathAssumption == BypassTokens * RunesPerToken <= PreviewBytes

ASSUME FaultsAssumption == ReadFaults \in BOOLEAN /\ TeeFaults \in BOOLEAN

ASSUME ProfilesAssumption ==
  Profiles \subseteq [full : BOOLEAN, reducer : BOOLEAN, pref : Prefs,
                      early : BOOLEAN, retain : BOOLEAN, onFailure : BOOLEAN,
                      benign : BOOLEAN]

VARIABLES
  opt,        \* the options of this run
  pc,         \* where each copyStream is
  chunk,      \* the size of the chunk each copyStream is handling
  col,        \* the outputCollector of each stream
  failed,     \* the streams whose copyStream returned an error
  reducer,    \* the synchronizedReducer
  published,  \* the previews handed to onPreview: [bytes, done] of the last
  tee,        \* the teeCapture
  command,    \* the command itself: "running", "blocked" or "exited"
  main,       \* where runCommand is
  exitCode    \* the command's exit code, once waited for

vars == <<opt, pc, chunk, col, failed, reducer, published, tee, command, main, exitCode>>

-----------------------------------------------------------------------------
(* Positions m+1 .. n of a stream, in order.                               *)
Span(m, n) == [i \in 1 .. (n - m) |-> m + i]

Smaller(a, b) == IF a <= b THEN a ELSE b

-----------------------------------------------------------------------------
(* The options of a run: applyCaptureMode, applyStreamPreference and       *)
(* applyEarlyCaptureStop on the prepared record.                           *)

LivePrefs == [stdout |-> {"both", "stdout_only", "stdout_first"},
              stderr |-> {"both", "stderr_only", "stderr_first"}]
LaterPrefs == [stdout |-> {"stderr_first"}, stderr |-> {"stdout_first"}]

LiveStreams(o) == {s \in Streams : o.reducer /\ o.pref \in LivePrefs[s]}
LaterStreams(o) == {s \in Streams : o.reducer /\ o.pref \in LaterPrefs[s]}

(* Broken: the stream kept for the reducer is only previewed. *)
CaptureAllWithoutLater(o, s) == o.full

CaptureAll(o, s) == o.full \/ s \in LaterStreams(o)

PreviewLimit(o, s) == IF CaptureAll(o, s) THEN 0 ELSE PreviewBytes

StopEarly(o, s) ==
  /\ o.early
  /\ ~o.full
  /\ s \in LiveStreams(o)
  /\ ~CaptureAll(o, s)

-----------------------------------------------------------------------------
(* outputCollector.                                                        *)

NewCollector(o, s) ==
  [bytes |-> 0, buf |-> <<>>, capture |-> CaptureAll(o, s),
   limit |-> PreviewLimit(o, s), truncated |-> FALSE,
   account |-> TRUE, runes |-> 0, pending |-> 0]

(* How many of n more bytes the builder takes. *)
Accepted(c, n) ==
  IF c.capture THEN n
  ELSE IF c.limit = 0 \/ c.truncated THEN 0
  ELSE Smaller(n, c.limit - Len(c.buf))

(* tokenCounter.Consume of n more bytes: the complete runes among them are  *)
(* counted, each of one to RuneBytes bytes, and the bytes that begin a      *)
(* rune are pending.  The text is not modelled: any split is a text.        *)
Counted(c, n) ==
  IF ~c.account THEN {[runes |-> c.runes, pending |-> c.pending]}
  ELSE {q \in [runes : c.runes .. c.runes + c.pending + n, pending : 0 .. RuneBytes - 1] :
          LET complete == c.pending + n - q.pending
              new == q.runes - c.runes
          IN complete \in new .. RuneBytes * new}

(* Broken: the chunk that overflows the preview is cut without a trace. *)
ExtendedSilently(c, n, q) ==
  [c EXCEPT !.bytes = @ + n, !.runes = q.runes, !.pending = q.pending,
            !.buf = @ \o Span(c.bytes, c.bytes + Accepted(c, n))]

(* The collector after n more bytes whose runes are q.                     *)
Extended(c, n, q) ==
  [bytes |-> c.bytes + n, runes |-> q.runes, pending |-> q.pending,
   buf |-> c.buf \o Span(c.bytes, c.bytes + Accepted(c, n)),
   truncated |-> \/ c.truncated
                 \/ ~c.capture /\ c.limit > 0 /\ Accepted(c, n) < n,
   capture |-> c.capture, limit |-> c.limit, account |-> c.account]

(* outputCollector.Consume of n more bytes of the stream: what the          *)
(* collector may become.                                                   *)
Consume(c, n) == {Extended(c, n, q) : q \in Counted(c, n)}

DisableTokenAccounting(c) ==
  [bytes |-> c.bytes, runes |-> c.runes, pending |-> c.pending, buf |-> c.buf,
   capture |-> c.capture, limit |-> c.limit, truncated |-> c.truncated,
   account |-> FALSE]

DisableBuffering(c) ==
  [bytes |-> c.bytes, runes |-> c.runes, pending |-> c.pending, buf |-> c.buf,
   capture |-> FALSE, limit |-> 0, truncated |-> TRUE, account |-> c.account]

(* tokenCounter.Estimate: each byte of an incomplete rune counts as one.   *)
Runes(c) == c.runes + c.pending
TokenCount(c) == (Runes(c) + RunesPerToken - 1) \div RunesPerToken

-----------------------------------------------------------------------------
(* synchronizedReducer.  The inner reducer decides when it is done and     *)
(* whether what it has is usable: no fallback and a result that is not     *)
(* blank.  Once done it is not fed again.                                  *)

NewReducer == [done |-> FALSE, usable |-> FALSE,
               fed |-> [s \in Streams |-> <<>>], lastPublished |-> 0]

BytesParsed(r) == Len(r.fed["stdout"]) + Len(r.fed["stderr"])

(* What r may become when its inner reducer consumes these positions. *)
Consumed(r, s, positions) ==
  {[done |-> d, usable |-> d /\ u, lastPublished |-> r.lastPublished,
    fed |-> [r.fed EXCEPT ![s] = @ \o positions]] :
     d \in BOOLEAN, u \in BOOLEAN}

(* Broken: a reducer that is done is fed all the same. *)
ReducedWhenDone(r, s, positions) ==
  {q \in Consumed(r, s, positions) : r.done => q.done}

(* ConsumeStdout and ConsumeStderr: nothing once the reducer is done. *)
Reduced(r, s, positions) ==
  IF r.done THEN {r} ELSE Consumed(r, s, positions)

(* Broken: being done is enough. *)
SafeWhenDone(r) == r.done

SafeToStopBuffering(r) == r.done /\ r.usable

(* publishPreview: nothing when there is no preview yet, or none newer. *)
PublishPreview ==
  IF BytesParsed(reducer) \in {0, reducer.lastPublished}
  THEN UNCHANGED <<reducer, published>>
  ELSE /\ reducer' = [done |-> reducer.done, usable |-> reducer.usable,
                       fed |-> reducer.fed, lastPublished |-> BytesParsed(reducer)]
       /\ published' = [bytes |-> BytesParsed(reducer), done |-> reducer.done]

-----------------------------------------------------------------------------
(* teeCapture.  "seen" is every byte of the stream, in the order Write got *)
(* it: its length is the field total and hashing it the field hasher.      *)

HeadLimit == TeeMaxBytes \div 2
TailLimit == TeeMaxBytes - HeadLimit

EmptyTee(state) == [state |-> state, file |-> <<>>, tail |-> <<>>,
                    seen |-> <<>>, written |-> 0]
OpenTee == EmptyTee("open")
FailedTee == EmptyTee("failed")

TeeEnabled(o) == o.onFailure \/ o.retain

(* The marker names the dropped bytes, the total and the stream's hash. *)
Marker(dropped, bytes) == <<<<"marker", dropped, Len(bytes), bytes>>>>

LastOf(q, n) == SubSeq(q, Len(q) - n + 1, Len(q))

(* CapTeeContent: what a capped file holds of a whole stream. *)
CapTeeContent(raw) ==
  IF Len(raw) <= TeeMaxBytes THEN raw
  ELSE SubSeq(raw, 1, HeadLimit)
       \o Marker(Len(raw) - HeadLimit - TailLimit, raw)
       \o LastOf(raw, TailLimit)

(* appendTeeTail: a window that may grow to twice its limit. *)
AppendTeeTail(tail, rest) ==
  LET grown == tail \o rest
  IN IF Len(rest) >= TailLimit THEN LastOf(rest, TailLimit)
     ELSE IF Len(grown) > 2 * TailLimit THEN LastOf(grown, TailLimit)
     ELSE grown

(* Broken: the chunk that crosses the head limit is written whole. *)
TeeWriteWhole(t, bytes) ==
  IF t.written < HeadLimit
  THEN [t EXCEPT !.seen = @ \o bytes, !.file = @ \o bytes,
                 !.written = @ + Len(bytes)]
  ELSE [t EXCEPT !.seen = @ \o bytes, !.tail = AppendTeeTail(@, bytes)]

(* Write of a chunk that the file accepts. *)
TeeWrite(t, bytes) ==
  LET n == Smaller(HeadLimit - t.written, Len(bytes))
      rest == SubSeq(bytes, n + 1, Len(bytes))
  IN [state |-> t.state,
      seen |-> t.seen \o bytes,
      file |-> t.file \o SubSeq(bytes, 1, n),
      written |-> t.written + n,
      tail |-> IF rest = <<>> THEN t.tail ELSE AppendTeeTail(t.tail, rest)]

(* Broken: the grown window is written whole. *)
FlushWholeWindow(t) ==
  LET dropped == Len(t.seen) - t.written - Len(t.tail)
  IN [t EXCEPT !.file =
        @ \o (IF dropped > 0 THEN Marker(dropped, t.seen) ELSE <<>>) \o t.tail]

(* flushTailLocked. *)
FlushTail(t) ==
  LET overflow == Len(t.seen) - t.written
      kept == LastOf(t.tail, Smaller(Len(t.tail), TailLimit))
      dropped == overflow - Len(kept)
      gap == IF dropped > 0 THEN Marker(dropped, t.seen) ELSE <<>>
  IN [state |-> t.state, seen |-> t.seen, tail |-> t.tail, written |-> t.written,
      file |-> IF overflow <= 0 THEN t.file ELSE t.file \o gap \o kept]

Kept(t) == [state |-> "kept", seen |-> t.seen, tail |-> t.tail,
            written |-> t.written, file |-> t.file]

-----------------------------------------------------------------------------
(* runCommand up to the two goroutines: the options are fixed, the tee file *)
(* is created when one is wanted.                                          *)

Init ==
  /\ opt \in Profiles
  /\ pc = [s \in Streams |-> "read"]
  /\ chunk = [s \in Streams |-> 0]
  /\ col = [s \in Streams |-> NewCollector(opt, s)]
  /\ failed = {}
  /\ reducer = NewReducer
  /\ published = [bytes |-> 0, done |-> FALSE]
  /\ \/ /\ TeeEnabled(opt)
        /\ tee = OpenTee
     \/ /\ ~TeeEnabled(opt) \/ TeeFaults
        /\ tee = EmptyTee("none")
  /\ command = "running"
  /\ main = "copy"
  /\ exitCode = 0

(* copyStream after the tee, and after the reducer. *)
AfterTee(s) == IF s \in LiveStreams(opt) THEN "check" ELSE "read"
AfterRead(s) == IF tee.state = "none" THEN AfterTee(s) ELSE "tee"

Goto(s, label) == pc' = [pc EXCEPT ![s] = label]

(* Read returned bytes; the collector, which no one shares, takes them. *)
ReadChunk(s) ==
  /\ pc[s] = "read"
  /\ \E n \in 1 .. MaxChunk :
       /\ col[s].bytes + n <= MaxOutput
       /\ chunk' = [chunk EXCEPT ![s] = n]
       /\ \E c \in Consume(col[s], n) : col' = [col EXCEPT ![s] = c]
  /\ Goto(s, AfterRead(s))
  /\ UNCHANGED <<opt, failed, reducer, published, tee, command, main, exitCode>>

(* Read returned io.EOF: the command is gone and every byte has been read. *)
ReadEOF(s) ==
  /\ pc[s] = "read"
  /\ command = "exited"
  /\ Goto(s, "done")
  /\ UNCHANGED <<opt, chunk, col, failed, reducer, published, tee, command, main, exitCode>>

(* Read returned another error: what the pipe still held is not read. *)
ReadError(s) ==
  /\ ReadFaults
  /\ pc[s] = "read"
  /\ failed' = failed \cup {s}
  /\ Goto(s, "done")
  /\ UNCHANGED <<opt, chunk, col, reducer, published, tee, command, main, exitCode>>

(* The command: it ends when it likes, unless it writes to a pipe that is   *)
(* full and that no goroutine reads any more.                              *)
CommandExits ==
  /\ command = "running"
  /\ command' = "exited"
  /\ UNCHANGED <<opt, pc, chunk, col, failed, reducer, published, tee, main, exitCode>>

CommandBlocks ==
  /\ command = "running"
  /\ \E s \in Streams : pc[s] = "done"
  /\ command' = "blocked"
  /\ UNCHANGED <<opt, pc, chunk, col, failed, reducer, published, tee, main, exitCode>>

(* The chunk copyStream holds, as positions and as bytes of the tee. *)
ChunkPositions(s) == Span(col[s].bytes - chunk[s], col[s].bytes)
ChunkBytes(s) == [i \in 1 .. chunk[s] |-> <<s, col[s].bytes - chunk[s] + i>>]

(* tee.Write under its mutex; a write error aborts the capture. *)
WriteTee(s) ==
  /\ pc[s] = "tee"
  /\ \/ tee.state = "open" /\ tee' = TeeWrite(tee, ChunkBytes(s))
     \/ tee.state = "open" /\ TeeFaults /\ HeadLimit > tee.written
        /\ tee' = FailedTee
     \/ tee.state = "failed" /\ UNCHANGED tee
  /\ Goto(s, AfterTee(s))
  /\ UNCHANGED <<opt, chunk, col, failed, reducer, published, command, main, exitCode>>

(* The unguarded look at reducer.Done() before the reducer is fed. *)
CheckReducer(s) ==
  /\ pc[s] = "check"
  /\ Goto(s, IF reducer.done THEN "tokens" ELSE "feed")
  /\ UNCHANGED <<opt, chunk, col, failed, reducer, published, tee, command, main, exitCode>>

(* ConsumeStdout or ConsumeStderr, which looks at done again. *)
FeedReducer(s) ==
  /\ pc[s] = "feed"
  /\ reducer' \in Reduced(reducer, s, ChunkPositions(s))
  /\ Goto(s, "publish")
  /\ UNCHANGED <<opt, chunk, col, failed, published, tee, command, main, exitCode>>

Publish(s) ==
  /\ pc[s] = "publish"
  /\ PublishPreview
  /\ Goto(s, "tokens")
  /\ UNCHANGED <<opt, chunk, col, failed, tee, command, main, exitCode>>

(* Broken: the summary is trusted before the output is past the fast path. *)
ShouldStopAtOnce(s) == StopEarly(opt, s) /\ SafeToStopBuffering(reducer)

(* shouldStopCollectorAfterChunk. *)
ShouldStop(s) ==
  /\ StopEarly(opt, s)
  /\ SafeToStopBuffering(reducer)
  /\ \/ BypassBytes > 0 /\ col[s].bytes > BypassBytes
     \/ BypassTokens > 0 /\ TokenCount(col[s]) > BypassTokens

(* shouldDisableCollectorTokens. *)
ShouldDisableTokens(s) ==
  /\ col[s].account
  /\ reducer.done
  /\ ~StopEarly(opt, s) \/ ShouldStop(s)

DisableTokens(s) ==
  /\ pc[s] = "tokens"
  /\ col' = IF ShouldDisableTokens(s)
            THEN [col EXCEPT ![s] = DisableTokenAccounting(@)] ELSE col
  /\ Goto(s, "stop")
  /\ UNCHANGED <<opt, chunk, failed, reducer, published, tee, command, main, exitCode>>

(* Broken: the goroutine returns once it has nothing more to buffer. *)
StopReading(s) ==
  /\ pc[s] = "stop"
  /\ IF ShouldStop(s)
     THEN /\ col' = [col EXCEPT ![s] = DisableBuffering(DisableTokenAccounting(@))]
          /\ Goto(s, "done")
     ELSE /\ UNCHANGED col
          /\ Goto(s, "read")
  /\ UNCHANGED <<opt, chunk, failed, reducer, published, tee, command, main, exitCode>>

StopCollector(s) ==
  /\ pc[s] = "stop"
  /\ col' = IF ShouldStop(s)
            THEN [col EXCEPT ![s] = DisableBuffering(DisableTokenAccounting(@))]
            ELSE col
  /\ Goto(s, "read")
  /\ UNCHANGED <<opt, chunk, failed, reducer, published, tee, command, main, exitCode>>

-----------------------------------------------------------------------------
(* runCommand after wg.Wait: cmd.Wait, the stream kept for later, Finalize. *)

Wait ==
  /\ main = "copy"
  /\ \A s \in Streams : pc[s] = "done"
  /\ exitCode' \in {0, 1}
  /\ main' = "later"
  /\ UNCHANGED <<opt, pc, chunk, col, failed, reducer, published, tee, command>>

ReduceLater ==
  /\ main = "later"
  /\ IF LaterStreams(opt) = {}
     THEN main' = "finalize" /\ UNCHANGED reducer
     ELSE /\ main' = "preview"
          /\ \E s \in LaterStreams(opt) :
               reducer' \in Reduced(reducer, s, col[s].buf)
  /\ UNCHANGED <<opt, pc, chunk, col, failed, published, tee, command, exitCode>>

PublishLater ==
  /\ main = "preview"
  /\ PublishPreview
  /\ main' = "finalize"
  /\ UNCHANGED <<opt, pc, chunk, col, failed, tee, command, exitCode>>

(* Finalize: keep the capture of a failure or of a run that wants it for   *)
(* session dedup, drop it otherwise and on any error.                      *)
FinalizeTee ==
  /\ main = "finalize"
  /\ main' = "done"
  /\ \/ /\ tee.state = "open" /\ (exitCode # 0 \/ opt.retain)
        /\ tee' = Kept(FlushTail(tee))
     \/ /\ tee.state = "open" /\ exitCode = 0 /\ ~opt.retain
        /\ tee' = EmptyTee("dropped")
     \/ /\ tee.state = "open" /\ TeeFaults
        /\ tee' = FailedTee
     \/ /\ tee.state \in {"none", "failed"}
        /\ UNCHANGED tee
  /\ UNCHANGED <<opt, pc, chunk, col, failed, reducer, published, command, exitCode>>

(* The run is over, or waits for ever on a command that is blocked. *)
Finished ==
  /\ \/ main = "done"
     \/ command = "blocked" /\ \A s \in Streams : pc[s] \in {"read", "done"}
  /\ UNCHANGED vars

Copy(s) == \/ ReadChunk(s)
           \/ ReadEOF(s)
           \/ ReadError(s)
           \/ WriteTee(s)
           \/ CheckReducer(s)
           \/ FeedReducer(s)
           \/ Publish(s)
           \/ DisableTokens(s)
           \/ StopCollector(s)

Next == \/ \E s \in Streams : Copy(s)
        \/ CommandExits
        \/ CommandBlocks
        \/ Wait
        \/ ReduceLater
        \/ PublishLater
        \/ FinalizeTee
        \/ Finished

Spec == Init /\ [][Next]_vars

(* Every goroutine goes on, and a command that can end does. *)
Fairness == /\ \A s \in Streams : WF_vars(Copy(s))
            /\ WF_vars(CommandExits)
            /\ WF_vars(Wait \/ ReduceLater \/ PublishLater \/ FinalizeTee)

FairSpec == Spec /\ Fairness

-----------------------------------------------------------------------------
(* What the caller reads off the result.                                   *)

(* streamingCaptureIncomplete. *)
CaptureIncomplete ==
  \E s \in Streams : \/ col[s].truncated
                      \/ (col[s].bytes > 0 /\ col[s].buf = <<>>)

(* The streams whose bytes bytesForFastPath measures. *)
MeasuredStreams == {s \in Streams : opt.pref \in LivePrefs[s]}

BytesForFastPath ==
  LET size(s) == IF s \in MeasuredStreams THEN col[s].bytes ELSE 0
  IN size("stdout") + size("stderr")

RawTokens == TokenCount(col["stdout"]) + TokenCount(col["stderr"])

(* isFailureExit. *)
FailureExit == exitCode # 0 /\ ~(opt.benign /\ exitCode = 1)

(* DecideFastPath for a profile with a reducer and a mode that applies it:  *)
(* a failure is never bypassed; an empty preferred stream always is; the    *)
(* family's rule and the default of the others bypass what is tiny.        *)
BypassKind ==
  IF ~opt.reducer \/ FailureExit THEN "none"
  ELSE IF opt.pref = "stderr_only" /\ BytesForFastPath = 0
  THEN "emptyPreferred"
  ELSE IF BytesForFastPath <= BypassBytes /\ RawTokens <= BypassTokens
  THEN "tiny" ELSE "none"

(* The streams that may be blank: every empty one, and any that holds       *)
(* nothing but white space.                                                *)
BlankStreams ==
  {blank \in SUBSET Streams : \A s \in Streams : col[s].buf = <<>> => s \in blank}

(* The streams bypassRawContent relays: the preferred one alone, unless     *)
(* what was captured of it is blank, or both.                              *)
RelayedStreams(blank) ==
  IF \/ opt.pref = "stdout_only" /\ "stdout" \notin blank
     \/ opt.pref = "stderr_only" /\ "stderr" \notin blank
  THEN MeasuredStreams ELSE Streams

-----------------------------------------------------------------------------
(* Properties.                                                             *)

Positions == 1 .. MaxOutput
Bytes == Streams \X Positions
Markers == {"marker"} \X Nat \X Nat \X Seq(Bytes)

Collectors == [bytes : 0 .. MaxOutput, buf : Seq(Positions),
               capture : BOOLEAN, limit : {0, PreviewBytes},
               truncated : BOOLEAN, account : BOOLEAN, runes : 0 .. MaxOutput,
               pending : 0 .. RuneBytes - 1]
Reducers == [done : BOOLEAN, usable : BOOLEAN,
             fed : [Streams -> Seq(Positions)], lastPublished : Nat]
Tees == [state : {"none", "open", "failed", "dropped", "kept"},
         file : Seq(Bytes \cup Markers), tail : Seq(Bytes), seen : Seq(Bytes),
         written : 0 .. HeadLimit]

(* The shape of the state. *)
TypeOK ==
  /\ opt \in Profiles
  /\ pc \in [Streams -> {"read", "tee", "check", "feed", "publish", "tokens",
                         "stop", "done"}]
  /\ chunk \in [Streams -> 0 .. MaxChunk]
  /\ col \in [Streams -> Collectors]
  /\ \A s \in Streams : /\ chunk[s] <= col[s].bytes
                         /\ Runes(col[s]) <= col[s].bytes
  /\ failed \subseteq Streams
  /\ reducer \in Reducers
  /\ published \in [bytes : Nat, done : BOOLEAN]
  /\ tee \in Tees
  /\ command \in {"running", "blocked", "exited"}
  /\ main \in {"copy", "later", "preview", "finalize", "done"}
  /\ exitCode \in {0, 1}

(* A capture that streamingCaptureIncomplete accepts holds every byte that *)
(* was read of both streams, in order: what the small-output guards, the   *)
(* verifier and session dedup take for the raw output is the raw output.   *)
CompleteCaptureIsWhole ==
  main = "done" /\ ~CaptureIncomplete =>
    \A s \in Streams : col[s].buf = Span(0, col[s].bytes)

(* The reducer is fed each stream in order and without repetition, and     *)
(* unless it said it was done it has seen all of every stream it reduces,  *)
(* the one kept for later included.                                        *)
ReducerSeesItsStreams ==
  /\ \A s \in Streams : reducer.fed[s] = Span(0, Len(reducer.fed[s]))
  /\ main = "done" /\ ~reducer.done =>
       \A s \in LiveStreams(opt) \cup LaterStreams(opt) :
         Len(reducer.fed[s]) = col[s].bytes

(* Buffering stops early only under a reducer whose summary will be shown, *)
(* even when the other stream's goroutine feeds the same reducer.          *)
StoppedCaptureHasSummary ==
  \A s \in Streams :
    ~CaptureAll(opt, s) /\ col[s].limit = 0 => reducer.done /\ reducer.usable

(* When the fast path relays the raw output instead of a summary, what it  *)
(* relays was captured whole: neither the preview limit nor an early stop  *)
(* has cut it.  The one exception is the stream the decision did not        *)
(* measure, relayed because the preferred one is blank: its preview may be  *)
(* all there is of it, when the preferred stream is empty, or when its      *)
(* text is multibyte, so that few tokens are many bytes.                   *)
FastPathRelaysWhole ==
  main = "done" /\ BypassKind # "none" =>
    \A blank \in BlankStreams : \A s \in RelayedStreams(blank) :
      \/ col[s].buf = Span(0, col[s].bytes)
      \/ /\ s \notin MeasuredStreams
         /\ MeasuredStreams \subseteq blank
         /\ BypassKind = "emptyPreferred" \/ Runes(col[s]) < col[s].bytes
         /\ col[s].buf = Span(0, PreviewBytes)

(* The first n[s] bytes of each stream s, each once and in its order.      *)
Interleaves(bytes, n) ==
  LET places == 1 .. Len(bytes)
  IN /\ \A s \in Streams : \A i \in 1 .. n[s] : \E j \in places : bytes[j] = <<s, i>>
     /\ \A j \in places : bytes[j][2] <= n[bytes[j][1]]
     /\ \A j, k \in places :
          j < k /\ bytes[j][1] = bytes[k][1] => bytes[j][2] < bytes[k][2]

(* A tee file that is kept is what CapTeeContent makes of the whole run:   *)
(* both streams' bytes in the order they were read, each exactly once.     *)
KeptTeeHoldsRun ==
  tee.state = "kept" =>
    /\ tee.file = CapTeeContent(tee.seen)
    /\ Interleaves(tee.seen, [s \in Streams |-> col[s].bytes])

(* What the collectors and the reducer hold while the run goes on; with    *)
(* TypeOK and StoppedCaptureHasSummary this is inductive.                  *)

Follows(c) ==
  /\ c.capture => ~c.truncated
  /\ ~c.capture /\ c.limit = 0 => c.truncated
  /\ ~c.truncated => c.buf = Span(0, c.bytes)
  /\ ~c.truncated /\ ~c.capture => c.bytes <= c.limit

CollectorsFollow ==
  \A s \in Streams : /\ col[s].capture = CaptureAll(opt, s)
                     /\ Follows(col[s])

(* Bytes of the stream read but not yet offered to the reducer. *)
Pending(s) == IF pc[s] \in {"tee", "check", "feed"} THEN chunk[s] ELSE 0

FedLive(s) ==
  /\ reducer.fed[s] = Span(0, Len(reducer.fed[s]))
  /\ ~reducer.done => Len(reducer.fed[s]) = col[s].bytes - Pending(s)

FedLater(s) ==
  IF main \in {"copy", "later"} THEN reducer.fed[s] = <<>>
  ELSE /\ reducer.fed[s] = Span(0, Len(reducer.fed[s]))
       /\ ~reducer.done => Len(reducer.fed[s]) = col[s].bytes

ReducerFollows ==
  /\ main # "copy" => \A s \in Streams : pc[s] = "done"
  /\ \A s \in Streams :
       /\ pc[s] \in {"check", "feed", "publish", "tokens", "stop"} =>
            s \in LiveStreams(opt)
       /\ s \in LiveStreams(opt) => FedLive(s)
       /\ s \in LaterStreams(opt) => FedLater(s)
       /\ s \notin LiveStreams(opt) \cup LaterStreams(opt) => reducer.fed[s] = <<>>

(* The inductive invariant: each goroutine's collector holds what it read  *)
(* unless it is marked truncated, and the shared reducer holds what each   *)
(* goroutine has offered it unless it is done.                             *)
CaptureInv ==
  /\ TypeOK
  /\ CollectorsFollow
  /\ ReducerFollows
  /\ StoppedCaptureHasSummary

(* Too much was read of the stream for the output to count as tiny, and    *)
(* what is counted of it is final.                                         *)
PastFastPath(c) ==
  \/ c.bytes > BypassBytes
  \/ ~c.account /\ TokenCount(c) > BypassTokens

(* A collector is cut only when its stream is past the fast path; one that *)
(* feeds no reducer counts its tokens to the end, and is cut after exactly  *)
(* a preview of it.                                                        *)
CutIsPastFastPath ==
  \A s \in Streams :
    /\ col[s].truncated => PastFastPath(col[s])
    /\ s \notin LiveStreams(opt) =>
         /\ col[s].account
         /\ col[s].truncated => /\ col[s].bytes > PreviewBytes
                                /\ col[s].buf = Span(0, PreviewBytes)

(* Bytes of the stream that its goroutine has offered to the tee.          *)
Teed(s) == col[s].bytes - (IF pc[s] = "tee" THEN chunk[s] ELSE 0)

(* What an open tee holds of the bytes it was given: the head in the file, *)
(* the latest in the window, which is as long as the file will need.       *)
TeeHolds(t) ==
  LET rest == Len(t.seen) - t.written
  IN /\ t.written = Smaller(HeadLimit, Len(t.seen))
     /\ t.file = SubSeq(t.seen, 1, t.written)
     /\ Len(t.tail) \in Smaller(TailLimit, rest) .. rest
     /\ t.tail = LastOf(t.seen, Len(t.tail))

(* The tee while the goroutines share it, and once it is kept; with        *)
(* CaptureInv this is inductive.                                           *)
TeeFollows ==
  /\ tee.state \in {"open", "kept"} => Interleaves(tee.seen, [s \in Streams |-> Teed(s)])
  /\ tee.state = "open" => TeeHolds(tee)
  /\ tee.state = "kept" => main = "done" /\ tee.file = CapTeeContent(tee.seen)
  /\ tee.state = "none" => \A s \in Streams : pc[s] # "tee"

(* The preview that says the reducer is done is the last one published. *)
DonePreviewIsLast == [][published.done => UNCHANGED published]_vars

(* The comment on streamingCaptureIncomplete: the in-memory capture it     *)
(* accepts is an honest stand-in for the raw stream, so no part of a       *)
(* stream was left unread.                                                 *)
CaptureIsHonest == main = "done" /\ ~CaptureIncomplete => failed = {}

(* The run is finalized in the end: a goroutine that has stopped buffering *)
(* still drains its pipe, so that the command is never stuck writing.      *)
RunEnds == <>(main = "done")
=============================================================================
