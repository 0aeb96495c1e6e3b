------------------------ MODULE StreamCapture_proof ------------------------
(***************************************************************************)
(* Proofs about StreamCapture, for every set of run options, every limit   *)
(* and any amount of output.                                               *)
(***************************************************************************)
EXTENDS StreamCapture, TLAPS

(* Consecutive spans of positions join into one. *)
LEMMA SpanJoin ==
  ASSUME NEW a \in Nat, NEW b \in Nat, NEW c \in Nat, a <= b, b <= c
  PROVE  Span(a, b) \o Span(b, c) = Span(a, c)
BY DEF Span

(* Some positions in a row are positions.                                  *)
LEMMA SpanType ==
  ASSUME NEW a \in Nat, NEW b \in Nat, a <= b, b <= MaxOutput
  PROVE  /\ Span(a, b) \in Seq(Positions)
         /\ Len(Span(a, b)) = b - a
BY SizesAssumption DEF Span, Positions

(* The smaller of two integers is one of them, and below both.             *)
LEMMA SmallerType ==
  ASSUME NEW a \in Int, NEW b \in Int
  PROVE  Smaller(a, b) \in Int /\ Smaller(a, b) <= a /\ Smaller(a, b) <= b
         /\ (Smaller(a, b) = a \/ Smaller(a, b) = b)
BY DEF Smaller

(* The last n elements of a sequence. *)
LEMMA LastOfType ==
  ASSUME NEW S, NEW q \in Seq(S), NEW n \in Nat, n <= Len(q)
  PROVE  LastOf(q, n) \in Seq(S) /\ Len(LastOf(q, n)) = n
BY DEF LastOf

(* The head and the tail the tee keeps have a size; the tail is not empty. *)
LEMMA LimitsType == HeadLimit \in Nat /\ TailLimit \in Nat \ {0}
BY SizesAssumption DEF HeadLimit, TailLimit

(* Consume counts the chunk, keeps the collector's type, and only ever     *)
(* appends to the builder.                                                 *)
LEMMA AcceptedType ==
  ASSUME NEW c \in Collectors, NEW n \in Nat, Len(c.buf) <= c.limit \/ c.truncated \/ c.capture
  PROVE  Accepted(c, n) \in 0 .. n
BY SizesAssumption DEF Accepted, Collectors, Smaller

(* A chunk adds at most its bytes to the runes counted.                     *)
LEMMA CountedType ==
  ASSUME NEW c \in Collectors, NEW n \in Nat, NEW q \in Counted(c, n)
  PROVE  /\ q.runes \in Nat /\ q.pending \in 0 .. RuneBytes - 1
         /\ q.runes + q.pending <= Runes(c) + n
         /\ ~c.account => q.runes = c.runes /\ q.pending = c.pending
<1>1. c.runes \in Nat /\ c.pending \in 0 .. RuneBytes - 1 /\ RuneBytes \in Nat
  BY SizesAssumption DEF Collectors
<1>2. CASE ~c.account
  BY <1>1, <1>2 DEF Counted, Runes
<1>3. CASE c.account
  <2> DEFINE top == RuneBytes * (q.runes - c.runes)
  <2>1. /\ q.runes \in c.runes .. c.runes + c.pending + n
        /\ q.pending \in 0 .. RuneBytes - 1
        /\ c.pending + n - q.pending \in (q.runes - c.runes) .. top
    BY <1>3 DEF Counted
  <2>2. top \in Int
    BY <1>1, <2>1
  <2> HIDE DEF top
  <2> QED
    BY <1>1, <1>3, <2>1, <2>2 DEF Runes
<1> QED
  BY <1>2, <1>3

(* What Consume makes of a collector, field by field.                      *)
LEMMA ConsumeFields ==
  ASSUME NEW c, NEW n, NEW d \in Consume(c, n)
  PROVE  \E q \in Counted(c, n) :
           /\ d = Extended(c, n, q)
           /\ d.bytes = c.bytes + n /\ d.runes = q.runes /\ d.pending = q.pending
           /\ d.buf = c.buf \o Span(c.bytes, c.bytes + Accepted(c, n))
           /\ d.truncated = (c.truncated \/ (~c.capture /\ c.limit > 0 /\ Accepted(c, n) < n))
           /\ d.capture = c.capture /\ d.limit = c.limit /\ d.account = c.account
<1>1. PICK q \in Counted(c, n) : d = Extended(c, n, q)
  BY DEF Consume
<1> QED
  BY <1>1 DEF Extended

(* outputCollector.Consume leaves a collector well formed.                 *)
LEMMA ConsumeType ==
  ASSUME NEW c \in Collectors, NEW n \in Nat, NEW d \in Consume(c, n),
         c.bytes + n <= MaxOutput, Runes(c) <= c.bytes,
         Len(c.buf) <= c.limit \/ c.truncated \/ c.capture
  PROVE  /\ d \in Collectors
         /\ d.bytes = c.bytes + n
         /\ Runes(d) <= d.bytes
<1>1. /\ c.bytes \in Nat /\ c.runes \in Nat /\ c.limit \in Nat /\ c.buf \in Seq(Positions)
      /\ c.pending \in Nat /\ c.truncated \in BOOLEAN
  BY SizesAssumption DEF Collectors
<1>2. Accepted(c, n) \in 0 .. n
  BY AcceptedType
<1>3. Span(c.bytes, c.bytes + Accepted(c, n)) \in Seq(Positions)
  <2> DEFINE b == c.bytes + Accepted(c, n)
  <2>1. b \in Nat /\ c.bytes <= b /\ b <= MaxOutput
    BY <1>1, <1>2, SizesAssumption
  <2> QED
    BY <1>1, <2>1, SpanType
<1>4. c.buf \o Span(c.bytes, c.bytes + Accepted(c, n)) \in Seq(Positions)
  BY <1>1, <1>3
<1>5. PICK q \in Counted(c, n) :
           /\ d = Extended(c, n, q)
           /\ d.bytes = c.bytes + n /\ d.runes = q.runes /\ d.pending = q.pending
  BY ConsumeFields
<1>6. /\ q.runes \in Nat /\ q.pending \in 0 .. RuneBytes - 1
      /\ q.runes + q.pending <= Runes(c) + n
  BY CountedType
<1>7. Runes(d) <= d.bytes
  BY <1>1, <1>5, <1>6, SizesAssumption DEF Runes
<1>8. q.runes \in 0 .. MaxOutput /\ c.bytes + n \in 0 .. MaxOutput
  BY <1>1, <1>5, <1>6, <1>7, SizesAssumption DEF Runes
<1>9. d \in Collectors
  BY <1>1, <1>4, <1>5, <1>6, <1>8 DEF Extended, Collectors
<1> QED
  BY <1>5, <1>7, <1>9

(* appendTeeTail keeps a tail within its limit, and made of the given bytes.*)
LEMMA TailType ==
  ASSUME NEW tail \in Seq(Bytes), NEW rest \in Seq(Bytes)
  PROVE  AppendTeeTail(tail, rest) \in Seq(Bytes)
<1> DEFINE grown == tail \o rest
<1>1. grown \in Seq(Bytes)
  OBVIOUS
<1>2. CASE Len(rest) >= TailLimit
  <2>1. LastOf(rest, TailLimit) \in Seq(Bytes)
    BY <1>2, LastOfType, LimitsType
  <2> QED
    BY <1>2, <2>1 DEF AppendTeeTail
<1>3. CASE Len(rest) < TailLimit /\ Len(grown) > 2 * TailLimit
  <2>1. LastOf(grown, TailLimit) \in Seq(Bytes)
    <3> HIDE DEF grown
    <3> QED BY <1>1, <1>3, LastOfType, LimitsType
  <2> QED
    BY <1>3, <2>1, LimitsType DEF AppendTeeTail
<1>4. CASE Len(rest) < TailLimit /\ Len(grown) <= 2 * TailLimit
  BY <1>1, <1>4, LimitsType DEF AppendTeeTail
<1> QED
  BY <1>1, <1>2, <1>3, <1>4, LimitsType

(* teeCapture.Write leaves a tee well formed.                              *)
LEMMA TeeWriteType ==
  ASSUME NEW t \in Tees, NEW bytes \in Seq(Bytes)
  PROVE  TeeWrite(t, bytes) \in Tees
<1> DEFINE n == Smaller(HeadLimit - t.written, Len(bytes))
           rest == SubSeq(bytes, n + 1, Len(bytes))
<1>1. t.written \in 0 .. HeadLimit /\ t.seen \in Seq(Bytes) /\ t.tail \in Seq(Bytes)
      /\ t.file \in Seq(Bytes \cup Markers)
  BY DEF Tees
<1>2. n \in 0 .. Len(bytes) /\ t.written + n \in 0 .. HeadLimit
  BY <1>1, LimitsType DEF Smaller
<1>3. SubSeq(bytes, 1, n) \in Seq(Bytes) /\ rest \in Seq(Bytes)
  BY <1>2
<1>4. t.file \o SubSeq(bytes, 1, n) \in Seq(Bytes \cup Markers)
  BY <1>1, <1>3
<1>5. t.seen \o bytes \in Seq(Bytes)
  BY <1>1
<1>6. AppendTeeTail(t.tail, rest) \in Seq(Bytes)
  BY <1>1, <1>3, TailType
<1> QED
  BY <1>1, <1>2, <1>4, <1>5, <1>6 DEF TeeWrite, Tees

(* A tee that was just opened is well formed, whatever came of the opening.*)
LEMMA EmptyTeeType ==
  ASSUME NEW state \in {"none", "open", "failed", "dropped", "kept"}
  PROVE  EmptyTee(state) \in Tees /\ EmptyTee(state).state = state
<1>1. 0 \in 0 .. HeadLimit
  BY LimitsType
<1>2. <<>> \in Seq(Bytes) /\ <<>> \in Seq(Bytes \cup Markers)
  OBVIOUS
<1> QED
  BY <1>1, <1>2 DEF EmptyTee, Tees

(* The truncation marker is one.                                           *)
LEMMA MarkerType ==
  ASSUME NEW d \in Nat, NEW bytes \in Seq(Bytes)
  PROVE  Marker(d, bytes) \in Seq(Markers)
BY DEF Marker, Markers

(* flushTailLocked leaves a tee well formed.                               *)
LEMMA FlushType ==
  ASSUME NEW t \in Tees
  PROVE  /\ FlushTail(t) \in Tees
         /\ FlushTail(t).state = t.state
<1> DEFINE n == Smaller(Len(t.tail), TailLimit)
           kept == LastOf(t.tail, n)
           dropped == Len(t.seen) - t.written - Len(kept)
           gap == IF dropped > 0 THEN Marker(dropped, t.seen) ELSE <<>>
<1>1. t.written \in 0 .. HeadLimit /\ t.seen \in Seq(Bytes) /\ t.tail \in Seq(Bytes)
      /\ t.file \in Seq(Bytes \cup Markers)
  BY DEF Tees
<1>2. n \in Nat /\ n <= Len(t.tail)
  BY <1>1, LimitsType DEF Smaller
<1>3. kept \in Seq(Bytes) /\ Len(kept) = n
  BY <1>1, <1>2, LastOfType
<1>4. dropped \in Int
  BY <1>1, <1>2, <1>3, LimitsType
<1>5. gap \in Seq(Markers)
  <2> HIDE DEF dropped
  <2>1. CASE dropped > 0
    BY <1>1, <1>4, <2>1, MarkerType
  <2>2. CASE ~(dropped > 0)
    BY <2>2
  <2> QED
    BY <2>1, <2>2
<1>6. t.file \o gap \o kept \in Seq(Bytes \cup Markers)
  <2> HIDE DEF gap, kept
  <2> QED
    BY <1>1, <1>3, <1>5
<1>7. FlushTail(t) = [state |-> t.state, seen |-> t.seen, tail |-> t.tail, written |-> t.written,
                      file |-> IF Len(t.seen) - t.written <= 0 THEN t.file ELSE t.file \o gap \o kept]
  BY DEF FlushTail
<1> HIDE DEF gap, kept
<1> QED
  BY <1>1, <1>6, <1>7 DEF Tees

-----------------------------------------------------------------------------
(* The collector operations keep what a collector is meant to hold.        *)
LEMMA ConsumeFollows ==
  ASSUME NEW c \in Collectors, NEW n \in Nat \ {0}, NEW d \in Consume(c, n),
         c.bytes + n <= MaxOutput, Follows(c)
  PROVE  Follows(d) /\ d.capture = c.capture /\ d.limit = c.limit
<1> DEFINE k == Accepted(c, n)
<1>1. c.bytes \in Nat /\ c.limit \in Nat /\ c.buf \in Seq(Positions)
  BY SizesAssumption DEF Collectors
<1>a. Len(Span(0, c.bytes)) = c.bytes
  BY <1>1 DEF Span
<1>b. Len(c.buf) <= c.limit \/ c.truncated \/ c.capture
  BY <1>1, <1>a DEF Follows
<1>2. k \in 0 .. n
  BY <1>b, AcceptedType
<1>3. d.capture = c.capture /\ d.limit = c.limit /\ d.bytes = c.bytes + n
      /\ d.buf = c.buf \o Span(c.bytes, c.bytes + k)
      /\ (d.truncated <=> c.truncated \/ (~c.capture /\ c.limit > 0 /\ k < n))
  BY ConsumeFields
<1>4. ~d.truncated => k = n
  BY <1>1, <1>2, <1>3 DEF Accepted, Follows, Collectors
<1>5. ~d.truncated => d.buf = Span(0, d.bytes)
  <2> SUFFICES ASSUME ~d.truncated PROVE d.buf = Span(0, d.bytes)
    OBVIOUS
  <2> DEFINE b == c.bytes + n
  <2>1. b \in Nat /\ c.bytes <= b /\ d.bytes = b /\ c.bytes + k = b
    BY <1>1, <1>3, <1>4
  <2>2. c.buf = Span(0, c.bytes)
    BY <1>3 DEF Follows
  <2>3. d.buf = Span(0, c.bytes) \o Span(c.bytes, b)
    BY <1>3, <2>1, <2>2
  <2> DEFINE a == c.bytes
  <2>4. Span(0, a) \o Span(a, b) = Span(0, b)
    <3>1. a \in Nat /\ b \in Nat /\ a <= b
      BY <1>1, <2>1
    <3> HIDE DEF a, b
    <3> QED
      BY <3>1 DEF Span
  <2> QED
    BY <2>1, <2>3, <2>4
<1>6. ~d.truncated /\ ~d.capture => d.bytes <= d.limit
  <2> SUFFICES ASSUME ~d.truncated, ~d.capture PROVE c.bytes + n <= c.limit
    BY <1>3
  <2>1. ~c.truncated /\ ~c.capture /\ c.limit # 0 /\ c.buf = Span(0, c.bytes) /\ k = n
    BY <1>3, <1>4 DEF Follows
  <2>2. Len(c.buf) = c.bytes
    BY <2>1, <1>a
  <2> QED
    BY <2>1, <2>2, <1>1 DEF Accepted, Smaller
<1> QED
  BY <1>3, <1>5, <1>6 DEF Follows

(* The streams a run reduces live and later are disjoint.                  *)
LEMMA LiveNotLater ==
  ASSUME NEW o
  PROVE  LiveStreams(o) \subseteq Streams /\ LaterStreams(o) \subseteq Streams
         /\ LiveStreams(o) \cap LaterStreams(o) = {}
BY DEF LiveStreams, LaterStreams, LivePrefs, LaterPrefs, Streams

-----------------------------------------------------------------------------
(* The invariant holds when the goroutines start.                          *)
LEMMA CaptureInit == Init => CaptureInv
<1> SUFFICES ASSUME Init PROVE CaptureInv
  OBVIOUS
<1> USE DEF Init
<1>1. \A s \in Streams : /\ NewCollector(opt, s) \in Collectors
                         /\ NewCollector(opt, s).capture = CaptureAll(opt, s)
                         /\ Follows(NewCollector(opt, s))
  <2> SUFFICES ASSUME NEW s \in Streams
               PROVE  /\ NewCollector(opt, s) \in Collectors
                      /\ NewCollector(opt, s).capture = CaptureAll(opt, s)
                      /\ Follows(NewCollector(opt, s))
    OBVIOUS
  <2>1. CaptureAll(opt, s) \in BOOLEAN
    BY ProfilesAssumption DEF CaptureAll
  <2>2. PreviewLimit(opt, s) \in {0, PreviewBytes} /\ (~CaptureAll(opt, s) => PreviewLimit(opt, s) # 0)
    BY SizesAssumption DEF PreviewLimit
  <2>3. Span(0, 0) = <<>>
    BY DEF Span
  <2> QED
    BY <2>1, <2>2, <2>3, SizesAssumption DEF NewCollector, Collectors, Follows
<1>2. TypeOK
  <2>1. NewReducer \in Reducers
    BY DEF NewReducer, Reducers
  <2>2. tee \in Tees
    <3>1. \A state \in {"none", "open", "failed", "dropped", "kept"} : EmptyTee(state) \in Tees
      BY EmptyTeeType
    <3> QED
      BY <3>1 DEF OpenTee
  <2>3. \A s \in Streams : Runes(NewCollector(opt, s)) = 0 /\ NewCollector(opt, s).bytes = 0
    BY DEF NewCollector, Runes
  <2> QED
    BY <1>1, <2>1, <2>2, <2>3, SizesAssumption DEF TypeOK
<1>3. CollectorsFollow
  BY <1>1 DEF CollectorsFollow
<1>4. ReducerFollows
  <2>1. Span(0, 0) = <<>> /\ Len(<<>>) = 0
    BY DEF Span
  <2> QED
    BY <2>1 DEF ReducerFollows, FedLive, FedLater, NewReducer, NewCollector, Pending
<1>5. StoppedCaptureHasSummary
  BY SizesAssumption DEF StoppedCaptureHasSummary, NewCollector, PreviewLimit
<1> QED
  BY <1>2, <1>3, <1>4, <1>5 DEF CaptureInv

-----------------------------------------------------------------------------
(* Each action keeps the invariant.                                        *)

(* A chunk is read: the collector takes it, the others have yet to.        *)
LEMMA ReadChunkKeeps ==
  ASSUME CaptureInv, NEW s \in Streams, ReadChunk(s)
  PROVE  CaptureInv'
<1> USE DEF CaptureInv
<1>1. PICK n \in 1 .. MaxChunk : /\ col[s].bytes + n <= MaxOutput
                                /\ chunk' = [chunk EXCEPT ![s] = n]
                                /\ \E c \in Consume(col[s], n) : col' = [col EXCEPT ![s] = c]
  BY DEF ReadChunk
<1>d. PICK d \in Consume(col[s], n) : col' = [col EXCEPT ![s] = d]
  BY <1>1
<1>2. /\ pc[s] = "read"
      /\ pc' = [pc EXCEPT ![s] = AfterRead(s)]
      /\ UNCHANGED <<opt, failed, reducer, published, tee, command, main, exitCode>>
  BY DEF ReadChunk, Goto
<1>3. /\ col[s] \in Collectors /\ Runes(col[s]) <= col[s].bytes /\ Follows(col[s])
      /\ col[s].bytes \in Nat /\ n \in Nat \ {0}
  BY SizesAssumption DEF TypeOK, CollectorsFollow, Collectors
<1>a. col[s].buf \in Seq(Positions) /\ col[s].limit \in Nat
  BY <1>3, SizesAssumption DEF Collectors
<1>b. Len(Span(0, col[s].bytes)) = col[s].bytes
  BY <1>3 DEF Span
<1>4. Len(col[s].buf) <= col[s].limit \/ col[s].truncated \/ col[s].capture
  BY <1>3, <1>a, <1>b DEF Follows
<1>5. d \in Collectors /\ d.bytes = col[s].bytes + n /\ Runes(d) <= d.bytes
  BY <1>1, <1>3, <1>4, ConsumeType
<1>6. Follows(d) /\ d.capture = col[s].capture /\ d.limit = col[s].limit
  BY <1>1, <1>3, ConsumeFollows
<1>7. col' = [col EXCEPT ![s] = d]
  BY <1>d
<1>8. TypeOK'
  <2>1. chunk' \in [Streams -> 0 .. MaxChunk]
    BY <1>1, SizesAssumption DEF TypeOK
  <2>2. col' \in [Streams -> Collectors]
    BY <1>5, <1>7 DEF TypeOK
  <2>3. \A r \in Streams : chunk'[r] <= col'[r].bytes /\ Runes(col'[r]) <= col'[r].bytes
    BY <1>1, <1>3, <1>5, <1>7 DEF TypeOK
  <2>4. pc' \in [Streams -> {"read", "tee", "check", "feed", "publish", "tokens",
                            "stop", "done"}]
    BY <1>2 DEF TypeOK, AfterRead, AfterTee
  <2> QED
    BY <1>2, <2>1, <2>2, <2>3, <2>4 DEF TypeOK
<1>9. CollectorsFollow'
  BY <1>2, <1>6, <1>7 DEF CollectorsFollow, TypeOK
<1>10. ReducerFollows'
  <2>1. main = "copy"
    BY <1>2 DEF ReducerFollows
  <2>2. \A r \in Streams \ {s} : pc'[r] = pc[r] /\ chunk'[r] = chunk[r] /\ col'[r] = col[r]
    BY <1>1, <1>2, <1>7 DEF TypeOK
  <2>3. chunk'[s] = n /\ col'[s].bytes = col[s].bytes + n
    BY <1>1, <1>5, <1>7 DEF TypeOK
  <2>4. /\ pc'[s] = AfterRead(s)
        /\ AfterRead(s) \in {"tee", "check", "read"}
        /\ AfterRead(s) = "check" => s \in LiveStreams(opt)
        /\ s \in LiveStreams(opt) => AfterRead(s) \in {"tee", "check"}
    BY <1>2 DEF TypeOK, AfterRead, AfterTee
  <2>5. s \in LiveStreams(opt) => FedLive(s)'
    <3> SUFFICES ASSUME s \in LiveStreams(opt) PROVE FedLive(s)'
      OBVIOUS
    <3>1. FedLive(s) /\ Pending(s) = 0
      BY <1>2 DEF ReducerFollows, Pending
    <3>2. Pending(s)' = n
      BY <2>3, <2>4 DEF Pending
    <3>3. reducer' = reducer /\ col[s].bytes - 0 = col'[s].bytes - n
      BY <1>2, <1>3, <2>3
    <3> QED
      BY <3>1, <3>2, <3>3 DEF FedLive
  <2>6. \A r \in Streams \ {s} : r \in LiveStreams(opt) => FedLive(r)'
    BY <1>2, <2>2 DEF ReducerFollows, FedLive, Pending
  <2>7. \A r \in LaterStreams(opt) : FedLater(r)'
    BY <1>2, <2>1, LiveNotLater DEF ReducerFollows, FedLater
  <2> QED
    BY <1>2, <2>1, <2>2, <2>4, <2>5, <2>6, <2>7 DEF ReducerFollows
<1>11. StoppedCaptureHasSummary'
  BY <1>2, <1>6, <1>7 DEF StoppedCaptureHasSummary, TypeOK
<1> QED
  BY <1>8, <1>9, <1>10, <1>11

(* A goroutine that is through, for whatever reason, leaves the rest be.   *)
LEMMA ReadEndKeeps ==
  ASSUME CaptureInv, NEW s \in Streams, ReadEOF(s) \/ ReadError(s)
  PROVE  CaptureInv'
<1> USE DEF CaptureInv
<1>1. /\ pc[s] = "read"
      /\ pc' = [pc EXCEPT ![s] = "done"]
      /\ failed' \in {failed, failed \cup {s}}
      /\ UNCHANGED <<opt, chunk, col, reducer, published, tee, command, main, exitCode>>
  BY DEF ReadEOF, ReadError, Goto
<1>2. TypeOK'
  BY <1>1 DEF TypeOK
<1>3. CollectorsFollow'
  BY <1>1 DEF CollectorsFollow
<1>4. ReducerFollows'
  <2>1. \A r \in Streams : Pending(r)' = Pending(r)
    BY <1>1 DEF Pending, TypeOK
  <2>2. \A r \in LiveStreams(opt) : FedLive(r)'
    BY <1>1, <2>1, LiveNotLater DEF ReducerFollows, FedLive
  <2>3. \A r \in LaterStreams(opt) : FedLater(r)'
    BY <1>1, LiveNotLater DEF ReducerFollows, FedLater
  <2> QED
    BY <1>1, <2>2, <2>3 DEF ReducerFollows, TypeOK
<1>5. StoppedCaptureHasSummary'
  BY <1>1 DEF StoppedCaptureHasSummary, SafeToStopBuffering
<1> QED
  BY <1>2, <1>3, <1>4, <1>5

(* The command touches nothing of szr's own state.                         *)
LEMMA CommandKeeps ==
  ASSUME CaptureInv, CommandExits \/ CommandBlocks
  PROVE  CaptureInv'
<1> USE DEF CaptureInv
<1>1. /\ command' \in {"exited", "blocked"}
      /\ UNCHANGED <<opt, pc, chunk, col, failed, reducer, published, tee, main, exitCode>>
  BY DEF CommandExits, CommandBlocks
<1> QED
  BY <1>1 DEF TypeOK, CollectorsFollow, ReducerFollows, FedLive, FedLater, Pending,
              StoppedCaptureHasSummary, SafeToStopBuffering

(* The chunk of a goroutine as bytes of the tee.                           *)
LEMMA ChunkBytesType ==
  ASSUME TypeOK, NEW s \in Streams
  PROVE  ChunkBytes(s) \in Seq(Bytes)
<1>1. /\ chunk[s] \in Nat /\ col[s].bytes \in 0 .. MaxOutput
      /\ chunk[s] <= col[s].bytes
  BY SizesAssumption DEF TypeOK, Collectors
<1>2. \A i \in 1 .. chunk[s] : <<s, col[s].bytes - chunk[s] + i>> \in Bytes
  BY <1>1, SizesAssumption DEF Bytes, Positions
<1> QED
  BY <1>1, <1>2 DEF ChunkBytes

(* Writing a chunk to the tee keeps the invariant.                         *)
LEMMA WriteTeeKeeps ==
  ASSUME CaptureInv, NEW s \in Streams, WriteTee(s)
  PROVE  CaptureInv'
<1> USE DEF CaptureInv
<1>1. /\ pc[s] = "tee"
      /\ pc' = [pc EXCEPT ![s] = AfterTee(s)]
      /\ tee' \in {TeeWrite(tee, ChunkBytes(s)), FailedTee, tee}
      /\ UNCHANGED <<opt, chunk, col, failed, reducer, published, command, main, exitCode>>
  BY DEF WriteTee, Goto
<1>2. TypeOK'
  <2>1. tee' \in Tees
    BY <1>1, ChunkBytesType, TeeWriteType, EmptyTeeType DEF TypeOK, FailedTee
  <2>2. AfterTee(s) \in {"check", "read"}
    BY DEF AfterTee
  <2> QED
    BY <1>1, <2>1, <2>2 DEF TypeOK
<1>3. CollectorsFollow'
  BY <1>1 DEF CollectorsFollow
<1>4. ReducerFollows'
  <2>1. \A r \in LiveStreams(opt) : Pending(r)' = Pending(r)
    BY <1>1, LiveNotLater DEF Pending, TypeOK, AfterTee
  <2>2. \A r \in LiveStreams(opt) : FedLive(r)'
    BY <1>1, <2>1, LiveNotLater DEF ReducerFollows, FedLive
  <2>3. \A r \in LaterStreams(opt) : FedLater(r)'
    BY <1>1, LiveNotLater DEF ReducerFollows, FedLater
  <2>4. main = "copy" /\ (AfterTee(s) = "check" => s \in LiveStreams(opt)) /\ AfterTee(s) \in {"check", "read"}
    BY <1>1 DEF ReducerFollows, AfterTee
  <2> QED
    BY <1>1, <2>2, <2>3, <2>4, LiveNotLater DEF ReducerFollows, TypeOK
<1>5. StoppedCaptureHasSummary'
  BY <1>1 DEF StoppedCaptureHasSummary, SafeToStopBuffering
<1> QED
  BY <1>2, <1>3, <1>4, <1>5

(* Finding the reducer done is what lets a chunk be skipped.               *)
LEMMA CheckReducerKeeps ==
  ASSUME CaptureInv, NEW s \in Streams, CheckReducer(s)
  PROVE  CaptureInv'
<1> USE DEF CaptureInv
<1>1. /\ pc[s] = "check"
      /\ pc' = [pc EXCEPT ![s] = IF reducer.done THEN "tokens" ELSE "feed"]
      /\ UNCHANGED <<opt, chunk, col, failed, reducer, published, tee, command, main, exitCode>>
  BY DEF CheckReducer, Goto
<1>2. TypeOK'
  BY <1>1 DEF TypeOK
<1>3. CollectorsFollow'
  BY <1>1 DEF CollectorsFollow
<1>4. ReducerFollows'
  <2>1. \A r \in Streams : reducer.done \/ Pending(r)' = Pending(r)
    BY <1>1 DEF Pending, TypeOK
  <2>2. \A r \in LiveStreams(opt) : FedLive(r)'
    BY <1>1, <2>1, LiveNotLater DEF ReducerFollows, FedLive
  <2>3. \A r \in LaterStreams(opt) : FedLater(r)'
    BY <1>1, LiveNotLater DEF ReducerFollows, FedLater
  <2>4. main = "copy" /\ s \in LiveStreams(opt)
    BY <1>1 DEF ReducerFollows
  <2> QED
    BY <1>1, <2>2, <2>3, <2>4, LiveNotLater DEF ReducerFollows, TypeOK
<1>5. StoppedCaptureHasSummary'
  BY <1>1 DEF StoppedCaptureHasSummary, SafeToStopBuffering
<1> QED
  BY <1>2, <1>3, <1>4, <1>5

(* Feeding appends to one stream, and nothing to a reducer that is done.   *)
LEMMA ReducedType ==
  ASSUME NEW r \in Reducers, NEW s \in Streams, NEW ps \in Seq(Positions),
         NEW q \in Reduced(r, s, ps)
  PROVE  /\ q \in Reducers
         /\ r.done => q = r
         /\ \A x \in Streams \ {s} : q.fed[x] = r.fed[x]
         /\ ~r.done => q.fed[s] = r.fed[s] \o ps
<1>1. CASE r.done
  BY <1>1 DEF Reduced
<1>2. CASE ~r.done
  <2>1. PICK d \in BOOLEAN, u \in BOOLEAN :
          q = [done |-> d, usable |-> d /\ u, lastPublished |-> r.lastPublished,
               fed |-> [r.fed EXCEPT ![s] = r.fed[s] \o ps]]
    BY <1>2 DEF Reduced, Consumed
  <2>2. r.fed \in [Streams -> Seq(Positions)] /\ r.lastPublished \in Nat
    BY DEF Reducers
  <2>3. [r.fed EXCEPT ![s] = r.fed[s] \o ps] \in [Streams -> Seq(Positions)]
    BY <2>2
  <2>4. (d /\ u) \in BOOLEAN
    OBVIOUS
  <2> QED
    BY <1>2, <2>1, <2>2, <2>3, <2>4 DEF Reducers
<1> QED
  BY <1>1, <1>2

(* Offering a chunk to the shared reducer keeps the invariant.             *)
LEMMA FeedReducerKeeps ==
  ASSUME CaptureInv, NEW s \in Streams, FeedReducer(s)
  PROVE  CaptureInv'
<1> USE DEF CaptureInv
<1>1. /\ pc[s] = "feed"
      /\ pc' = [pc EXCEPT ![s] = "publish"]
      /\ reducer' \in Reduced(reducer, s, ChunkPositions(s))
      /\ UNCHANGED <<opt, chunk, col, failed, published, tee, command, main, exitCode>>
  BY DEF FeedReducer, Goto
<1> DEFINE a == col[s].bytes - chunk[s]
           b == col[s].bytes
<1>2. a \in Nat /\ b \in Nat /\ a <= b /\ b <= MaxOutput
  BY SizesAssumption DEF TypeOK, Collectors
<1>3. ChunkPositions(s) = Span(a, b)
  BY DEF ChunkPositions
<1> HIDE DEF a, b
<1>4. Span(a, b) \in Seq(Positions) /\ reducer \in Reducers
  BY <1>2, SpanType DEF TypeOK
<1>5. /\ reducer' \in Reducers
      /\ reducer.done => reducer' = reducer
      /\ \A x \in Streams \ {s} : reducer'.fed[x] = reducer.fed[x]
      /\ ~reducer.done => reducer'.fed[s] = reducer.fed[s] \o Span(a, b)
  <2> DEFINE ps == Span(a, b)
  <2>1. ps \in Seq(Positions) /\ reducer' \in Reduced(reducer, s, ps)
    BY <1>1, <1>3, <1>4
  <2> HIDE DEF ps
  <2>2. /\ reducer' \in Reducers
        /\ reducer.done => reducer' = reducer
        /\ \A x \in Streams \ {s} : reducer'.fed[x] = reducer.fed[x]
        /\ ~reducer.done => reducer'.fed[s] = reducer.fed[s] \o ps
    BY <1>4, <2>1, ReducedType
  <2> QED
    BY <2>2 DEF ps
<1>6. TypeOK'
  BY <1>1, <1>5 DEF TypeOK
<1>7. CollectorsFollow'
  BY <1>1 DEF CollectorsFollow
<1>8. ReducerFollows'
  <2>1. main = "copy" /\ s \in LiveStreams(opt) /\ pc'[s] = "publish"
    BY <1>1 DEF ReducerFollows, TypeOK
  <2>a. \A r \in Streams \ {s} : pc'[r] = pc[r]
    BY <1>1 DEF TypeOK
  <2>b. \A r \in Streams \ {s} : Pending(r)' = Pending(r)
    BY <1>1, <2>a DEF Pending
  <2>c. reducer.done => reducer'.done
    BY <1>5
  <2>3. FedLive(s)'
    <3>1. CASE reducer.done
      BY <1>1, <1>5, <2>1, <3>1 DEF FedLive, ReducerFollows
    <3>2. CASE ~reducer.done
      <4>1. reducer.fed[s] = Span(0, a)
        <5>1. reducer.fed[s] = Span(0, Len(reducer.fed[s]))
          BY <2>1 DEF ReducerFollows, FedLive
        <5>2. Len(reducer.fed[s]) = a
          BY <1>1, <2>1, <3>2 DEF ReducerFollows, FedLive, Pending, a
        <5> QED
          BY <5>1, <5>2
      <4>2. reducer'.fed[s] = Span(0, a) \o Span(a, b)
        BY <1>5, <3>2, <4>1 DEF TypeOK, Reducers
      <4>3. reducer'.fed[s] = Span(0, b)
        BY <1>2, <4>2 DEF Span
      <4>4. Len(reducer'.fed[s]) = b
        BY <1>2, <4>3 DEF Span
      <4>5. Pending(s)' = 0
        BY <2>1 DEF Pending
      <4>6. col'[s].bytes - Pending(s)' = b
        BY <1>1, <1>2, <4>5 DEF b
      <4> QED
        BY <4>3, <4>4, <4>6 DEF FedLive
    <3> QED
      BY <3>1, <3>2
  <2>4. \A r \in Streams \ {s} : r \in LiveStreams(opt) => FedLive(r)'
    BY <1>1, <1>5, <2>b, <2>c DEF ReducerFollows, FedLive
  <2>5. \A r \in Streams \ {s} : r \in LaterStreams(opt) => FedLater(r)'
    BY <1>1, <1>5, <2>1, <2>c DEF ReducerFollows, FedLater
  <2>6. s \notin LaterStreams(opt)
    BY <2>1, LiveNotLater
  <2>7. \A r \in Streams \ {s} :
          r \notin LiveStreams(opt) \cup LaterStreams(opt) => reducer'.fed[r] = <<>>
    BY <1>5 DEF ReducerFollows
  <2>8. \A r \in Streams \ {s} :
          pc'[r] \in {"check", "feed", "publish", "tokens", "stop"} => r \in LiveStreams(opt)
    BY <2>a DEF ReducerFollows
  <2> QED
    BY <1>1, <2>1, <2>3, <2>4, <2>5, <2>6, <2>7, <2>8 DEF ReducerFollows
<1>9. StoppedCaptureHasSummary'
  BY <1>1, <1>5 DEF StoppedCaptureHasSummary, SafeToStopBuffering
<1> QED
  BY <1>6, <1>7, <1>8, <1>9

(* Publishing a preview changes only what was published.                   *)
LEMMA PublishPreviewKeeps ==
  ASSUME TypeOK, PublishPreview
  PROVE  /\ reducer' \in Reducers
         /\ published' \in [bytes : Nat, done : BOOLEAN]
         /\ reducer'.done = reducer.done /\ reducer'.usable = reducer.usable
         /\ reducer'.fed = reducer.fed
<1>1. BytesParsed(reducer) \in Nat
  <2>1. reducer.fed \in [Streams -> Seq(Positions)]
    BY DEF TypeOK, Reducers
  <2>2. reducer.fed["stdout"] \in Seq(Positions) /\ reducer.fed["stderr"] \in Seq(Positions)
    BY <2>1 DEF Streams
  <2> DEFINE x == Len(reducer.fed["stdout"])
             y == Len(reducer.fed["stderr"])
  <2>3. x \in Nat /\ y \in Nat
    BY <2>2
  <2>4. BytesParsed(reducer) = x + y
    BY DEF BytesParsed
  <2> HIDE DEF x, y
  <2> QED
    BY <2>3, <2>4
<1>2. reducer \in Reducers /\ published \in [bytes : Nat, done : BOOLEAN]
  BY DEF TypeOK
<1>3. CASE UNCHANGED <<reducer, published>>
  BY <1>2, <1>3
<1>4. CASE /\ reducer' = [done |-> reducer.done, usable |-> reducer.usable,
                           fed |-> reducer.fed, lastPublished |-> BytesParsed(reducer)]
           /\ published' = [bytes |-> BytesParsed(reducer), done |-> reducer.done]
  BY <1>1, <1>2, <1>4 DEF Reducers
<1> QED
  BY <1>3, <1>4 DEF PublishPreview

(* Publishing a preview while streaming keeps the invariant.               *)
LEMMA PublishKeeps ==
  ASSUME CaptureInv, NEW s \in Streams, Publish(s)
  PROVE  CaptureInv'
<1> USE DEF CaptureInv
<1>1. /\ pc[s] = "publish"
      /\ pc' = [pc EXCEPT ![s] = "tokens"]
      /\ PublishPreview
      /\ UNCHANGED <<opt, chunk, col, failed, tee, command, main, exitCode>>
  BY DEF Publish, Goto
<1>2. /\ reducer' \in Reducers
      /\ published' \in [bytes : Nat, done : BOOLEAN]
      /\ reducer'.done = reducer.done /\ reducer'.usable = reducer.usable
      /\ reducer'.fed = reducer.fed
  BY <1>1, PublishPreviewKeeps
<1>3. TypeOK'
  BY <1>1, <1>2 DEF TypeOK
<1>4. CollectorsFollow'
  BY <1>1 DEF CollectorsFollow
<1>5. ReducerFollows'
  <2>1. \A r \in Streams : Pending(r)' = Pending(r)
    BY <1>1 DEF Pending, TypeOK
  <2>2. \A r \in LiveStreams(opt) : FedLive(r)'
    BY <1>1, <1>2, <2>1, LiveNotLater DEF ReducerFollows, FedLive
  <2>3. \A r \in LaterStreams(opt) : FedLater(r)'
    BY <1>1, <1>2, LiveNotLater DEF ReducerFollows, FedLater
  <2>4. main = "copy" /\ s \in LiveStreams(opt)
    BY <1>1 DEF ReducerFollows
  <2> QED
    BY <1>1, <1>2, <2>2, <2>3, <2>4, LiveNotLater DEF ReducerFollows, TypeOK
<1>6. StoppedCaptureHasSummary'
  BY <1>1, <1>2 DEF StoppedCaptureHasSummary, SafeToStopBuffering
<1> QED
  BY <1>3, <1>4, <1>5, <1>6

(* Token accounting ends without a trace in the captured bytes.            *)
LEMMA DisableTokensKeeps ==
  ASSUME CaptureInv, NEW s \in Streams, DisableTokens(s)
  PROVE  CaptureInv'
<1> USE DEF CaptureInv
<1> DEFINE d == DisableTokenAccounting(col[s])
<1>1. /\ pc[s] = "tokens"
      /\ pc' = [pc EXCEPT ![s] = "stop"]
      /\ col' = col \/ col' = [col EXCEPT ![s] = d]
      /\ UNCHANGED <<opt, chunk, failed, reducer, published, tee, command, main, exitCode>>
  BY DEF DisableTokens, Goto
<1>2. /\ d \in Collectors /\ d.bytes = col[s].bytes /\ Runes(d) = Runes(col[s])
      /\ d.buf = col[s].buf /\ d.capture = col[s].capture /\ d.limit = col[s].limit
      /\ d.truncated = col[s].truncated
  <2>1. col[s] \in Collectors
    BY DEF TypeOK
  <2> QED
    BY <2>1 DEF DisableTokenAccounting, Collectors, Runes
<1>3. \A r \in Streams :
        /\ col'[r] \in Collectors /\ col'[r].bytes = col[r].bytes /\ Runes(col'[r]) = Runes(col[r])
        /\ col'[r].buf = col[r].buf /\ col'[r].capture = col[r].capture
        /\ col'[r].limit = col[r].limit /\ col'[r].truncated = col[r].truncated
  <2> HIDE DEF d
  <2> QED
    BY <1>1, <1>2 DEF TypeOK
<1>4. col' \in [Streams -> Collectors]
  <2> HIDE DEF d
  <2> QED
    BY <1>1, <1>2 DEF TypeOK
<1>5. TypeOK'
  BY <1>1, <1>3, <1>4 DEF TypeOK
<1>6. CollectorsFollow'
  BY <1>1, <1>3 DEF CollectorsFollow, Follows
<1>7. ReducerFollows'
  <2>a. \A r \in Streams \ {s} : pc'[r] = pc[r]
    BY <1>1 DEF TypeOK
  <2>b. \A r \in Streams : Pending(r)' = Pending(r)
    BY <1>1 DEF TypeOK, Pending
  <2>1. main = "copy" /\ s \in LiveStreams(opt)
    BY <1>1 DEF ReducerFollows
  <2>2. \A r \in Streams : r \in LiveStreams(opt) => FedLive(r)'
    BY <1>1, <1>3, <2>b DEF ReducerFollows, FedLive
  <2>3. \A r \in Streams : r \in LaterStreams(opt) => FedLater(r)'
    BY <1>1, <2>1 DEF ReducerFollows, FedLater
  <2> QED
    BY <1>1, <2>a, <2>1, <2>2, <2>3 DEF ReducerFollows
<1>8. StoppedCaptureHasSummary'
  BY <1>1, <1>3 DEF StoppedCaptureHasSummary, SafeToStopBuffering
<1> QED
  BY <1>5, <1>6, <1>7, <1>8

(* Buffering stops only under a usable summary, and only where the stream  *)
(* was not to be captured whole.                                           *)
LEMMA StopCollectorKeeps ==
  ASSUME CaptureInv, NEW s \in Streams, StopCollector(s)
  PROVE  CaptureInv'
<1> USE DEF CaptureInv
<1> DEFINE d == DisableBuffering(DisableTokenAccounting(col[s]))
<1>1. /\ pc[s] = "stop"
      /\ pc' = [pc EXCEPT ![s] = "read"]
      /\ \/ col' = col
         \/ ShouldStop(s) /\ col' = [col EXCEPT ![s] = d]
      /\ UNCHANGED <<opt, chunk, failed, reducer, published, tee, command, main, exitCode>>
  BY DEF StopCollector, Goto
<1>2. /\ d \in Collectors /\ d.bytes = col[s].bytes /\ Runes(d) = Runes(col[s])
      /\ d.capture = FALSE /\ d.limit = 0 /\ d.truncated = TRUE
  <2>1. col[s] \in Collectors
    BY DEF TypeOK
  <2> QED
    BY <2>1 DEF DisableBuffering, DisableTokenAccounting, Collectors, Runes
<1> HIDE DEF d
<1>3. \A r \in Streams : col'[r].bytes = col[r].bytes /\ Runes(col'[r]) = Runes(col[r])
  BY <1>1, <1>2 DEF TypeOK
<1>4. TypeOK'
  <2>1. col' \in [Streams -> Collectors]
    BY <1>1, <1>2 DEF TypeOK
  <2> QED
    BY <1>1, <1>3, <2>1 DEF TypeOK
<1>5. ShouldStop(s) => ~CaptureAll(opt, s) /\ SafeToStopBuffering(reducer)
  BY DEF ShouldStop, StopEarly
<1>6. CollectorsFollow'
  <2>1. CASE col' = col
    BY <1>1, <2>1 DEF CollectorsFollow
  <2>2. CASE ShouldStop(s) /\ col' = [col EXCEPT ![s] = d]
    <3>1. Follows(d) /\ d.capture = CaptureAll(opt, s)
      BY <1>2, <1>5, <2>2 DEF Follows, CollectorsFollow, CaptureAll
    <3> QED
      BY <1>1, <2>2, <3>1 DEF CollectorsFollow, TypeOK
  <2> QED
    BY <1>1, <2>1, <2>2
<1>7. ReducerFollows'
  <2>a. \A r \in Streams \ {s} : pc'[r] = pc[r]
    BY <1>1 DEF TypeOK
  <2>b. \A r \in Streams : Pending(r)' = Pending(r)
    BY <1>1 DEF TypeOK, Pending
  <2>1. main = "copy" /\ s \in LiveStreams(opt)
    BY <1>1 DEF ReducerFollows
  <2>2. \A r \in Streams : r \in LiveStreams(opt) => FedLive(r)'
    BY <1>1, <1>3, <2>b DEF ReducerFollows, FedLive
  <2>3. \A r \in Streams : r \in LaterStreams(opt) => FedLater(r)'
    BY <1>1, <2>1 DEF ReducerFollows, FedLater
  <2> QED
    BY <1>1, <2>a, <2>1, <2>2, <2>3 DEF ReducerFollows
<1>8. StoppedCaptureHasSummary'
  <2>1. CASE col' = col
    BY <1>1, <2>1 DEF StoppedCaptureHasSummary, SafeToStopBuffering
  <2>2. CASE ShouldStop(s)
    BY <1>1, <1>5, <2>2 DEF StoppedCaptureHasSummary, SafeToStopBuffering
  <2> QED
    BY <1>1, <2>1, <2>2
<1> QED
  BY <1>4, <1>6, <1>7, <1>8

(* When the goroutines are through, no chunk is pending.                   *)
LEMMA WaitKeeps ==
  ASSUME CaptureInv, Wait
  PROVE  CaptureInv'
<1> USE DEF CaptureInv
<1>1. /\ main = "copy" /\ main' = "later" /\ exitCode' \in {0, 1}
      /\ \A s \in Streams : pc[s] = "done"
      /\ UNCHANGED <<opt, pc, chunk, col, failed, reducer, published, tee, command>>
  BY DEF Wait
<1>2. TypeOK'
  BY <1>1 DEF TypeOK
<1>3. CollectorsFollow'
  BY <1>1 DEF CollectorsFollow
<1>4. ReducerFollows'
  BY <1>1 DEF ReducerFollows, FedLive, FedLater, Pending
<1>5. StoppedCaptureHasSummary'
  BY <1>1 DEF StoppedCaptureHasSummary, SafeToStopBuffering
<1> QED
  BY <1>2, <1>3, <1>4, <1>5

(* The stream kept for later was captured whole, and the reducer gets all  *)
(* of it at once.                                                          *)
LEMMA ReduceLaterKeeps ==
  ASSUME CaptureInv, ReduceLater
  PROVE  CaptureInv'
<1> USE DEF CaptureInv
<1>1. /\ main = "later"
      /\ UNCHANGED <<opt, pc, chunk, col, failed, published, tee, command, exitCode>>
  BY DEF ReduceLater
<1>2. CASE LaterStreams(opt) = {} /\ main' = "finalize" /\ UNCHANGED reducer
  <2>1. TypeOK'
    BY <1>1, <1>2 DEF TypeOK
  <2>2. CollectorsFollow'
    BY <1>1 DEF CollectorsFollow
  <2>3. \A r \in LiveStreams(opt) : FedLive(r)'
    BY <1>1, <1>2, LiveNotLater DEF ReducerFollows, FedLive, Pending
  <2>4. ReducerFollows'
    BY <1>1, <1>2, <2>3, LiveNotLater DEF ReducerFollows
  <2>5. StoppedCaptureHasSummary'
    BY <1>1, <1>2 DEF StoppedCaptureHasSummary, SafeToStopBuffering
  <2> QED
    BY <2>1, <2>2, <2>4, <2>5
<1>3. ASSUME NEW s \in LaterStreams(opt), main' = "preview",
             reducer' \in Reduced(reducer, s, col[s].buf)
      PROVE  CaptureInv'
  <2>1. s \in Streams /\ s \notin LiveStreams(opt) /\ LaterStreams(opt) = {s}
    BY <1>3, LiveNotLater DEF LaterStreams, LaterPrefs, Streams
  <2>2. col[s] \in Collectors /\ reducer \in Reducers
    BY <2>1 DEF TypeOK
  <2>3. col[s].buf \in Seq(Positions) /\ col[s].bytes \in Nat
    BY <2>2, SizesAssumption DEF Collectors
  <2>4. col[s].buf = Span(0, col[s].bytes)
    BY <1>3, <2>1 DEF CollectorsFollow, Follows, CaptureAll
  <2>5. Len(col[s].buf) = col[s].bytes
    BY <2>3, <2>4 DEF Span
  <2>6. reducer.fed[s] = <<>>
    BY <1>1, <1>3, <2>1 DEF ReducerFollows, FedLater
  <2>7. /\ reducer' \in Reducers
        /\ reducer.done => reducer' = reducer
        /\ \A x \in Streams \ {s} : reducer'.fed[x] = reducer.fed[x]
        /\ ~reducer.done => reducer'.fed[s] = reducer.fed[s] \o col[s].buf
    <3> DEFINE ps == col[s].buf
    <3>1. ps \in Seq(Positions) /\ reducer' \in Reduced(reducer, s, ps)
      BY <1>3, <2>3
    <3> HIDE DEF ps
    <3>2. /\ reducer' \in Reducers
          /\ reducer.done => reducer' = reducer
          /\ \A x \in Streams \ {s} : reducer'.fed[x] = reducer.fed[x]
          /\ ~reducer.done => reducer'.fed[s] = reducer.fed[s] \o ps
      BY <2>1, <2>2, <3>1, ReducedType
    <3> QED
      BY <3>2 DEF ps
  <2>8. TypeOK'
    BY <1>1, <1>3, <2>7 DEF TypeOK
  <2>9. CollectorsFollow'
    BY <1>1 DEF CollectorsFollow
  <2>10. ReducerFollows'
    <3>1. FedLater(s)'
      <4>1. CASE reducer.done
        <5>1. reducer'.fed[s] = <<>> /\ reducer'.done
          BY <2>6, <2>7, <4>1
        <5>2. Span(0, 0) = <<>> /\ Len(<<>>) = 0
          BY DEF Span
        <5> QED
          BY <1>3, <5>1, <5>2 DEF FedLater
      <4>2. CASE ~reducer.done
        <5>1. reducer'.fed[s] = col[s].buf
          BY <2>3, <2>6, <2>7, <4>2
        <5> QED
          BY <1>1, <1>3, <2>4, <2>5, <5>1 DEF FedLater
      <4> QED
        BY <4>1, <4>2
    <3>2. reducer.done => reducer'.done
      BY <2>7
    <3>3. \A r \in Streams : r \in LiveStreams(opt) => FedLive(r)'
      <4>1. \A r \in Streams : Pending(r)' = Pending(r)
        BY <1>1 DEF Pending
      <4> QED
        BY <1>1, <2>1, <2>7, <3>2, <4>1 DEF ReducerFollows, FedLive
    <3>4. \A r \in Streams \ {s} :
            r \notin LiveStreams(opt) \cup LaterStreams(opt) => reducer'.fed[r] = <<>>
      BY <2>7 DEF ReducerFollows
    <3> QED
      BY <1>1, <1>3, <2>1, <3>1, <3>3, <3>4 DEF ReducerFollows
  <2>11. StoppedCaptureHasSummary'
    BY <1>1, <2>7 DEF StoppedCaptureHasSummary, SafeToStopBuffering
  <2> QED
    BY <2>8, <2>9, <2>10, <2>11
<1> QED
  BY <1>2, <1>3 DEF ReduceLater

(* Publishing a preview after the wait keeps the invariant.                *)
LEMMA PublishLaterKeeps ==
  ASSUME CaptureInv, PublishLater
  PROVE  CaptureInv'
<1> USE DEF CaptureInv
<1>1. /\ main = "preview" /\ main' = "finalize" /\ PublishPreview
      /\ UNCHANGED <<opt, pc, chunk, col, failed, tee, command, exitCode>>
  BY DEF PublishLater
<1>2. /\ reducer' \in Reducers
      /\ published' \in [bytes : Nat, done : BOOLEAN]
      /\ reducer'.done = reducer.done /\ reducer'.usable = reducer.usable
      /\ reducer'.fed = reducer.fed
  BY <1>1, PublishPreviewKeeps
<1>3. TypeOK'
  BY <1>1, <1>2 DEF TypeOK
<1>4. CollectorsFollow'
  BY <1>1 DEF CollectorsFollow
<1>5. ReducerFollows'
  BY <1>1, <1>2, LiveNotLater DEF ReducerFollows, FedLive, FedLater, Pending
<1>6. StoppedCaptureHasSummary'
  BY <1>1, <1>2 DEF StoppedCaptureHasSummary, SafeToStopBuffering
<1> QED
  BY <1>3, <1>4, <1>5, <1>6

(* Finalizing the tee keeps the invariant.                                 *)
LEMMA FinalizeTeeKeeps ==
  ASSUME CaptureInv, FinalizeTee
  PROVE  CaptureInv'
<1> USE DEF CaptureInv
<1>1. /\ main = "finalize" /\ main' = "done"
      /\ tee' \in {Kept(FlushTail(tee)), EmptyTee("dropped"), FailedTee, tee}
      /\ UNCHANGED <<opt, pc, chunk, col, failed, reducer, published, command, exitCode>>
  BY DEF FinalizeTee
<1>2. tee' \in Tees
  <2>1. FlushTail(tee) \in Tees
    BY FlushType DEF TypeOK
  <2>2. Kept(FlushTail(tee)) \in Tees
    BY <2>1 DEF Kept, Tees
  <2> QED
    BY <1>1, <2>2, EmptyTeeType DEF TypeOK, FailedTee
<1>3. TypeOK'
  BY <1>1, <1>2 DEF TypeOK
<1>4. CollectorsFollow'
  BY <1>1 DEF CollectorsFollow
<1>5. ReducerFollows'
  BY <1>1, LiveNotLater DEF ReducerFollows, FedLive, FedLater, Pending
<1>6. StoppedCaptureHasSummary'
  BY <1>1 DEF StoppedCaptureHasSummary, SafeToStopBuffering
<1> QED
  BY <1>3, <1>4, <1>5, <1>6

(* A step that changes nothing keeps the invariant.                        *)
LEMMA StutterKeeps ==
  ASSUME CaptureInv, UNCHANGED vars
  PROVE  CaptureInv'
BY DEF vars, CaptureInv, TypeOK, CollectorsFollow, ReducerFollows, FedLive, FedLater,
       Pending, StoppedCaptureHasSummary, SafeToStopBuffering

-----------------------------------------------------------------------------
(* The invariant holds throughout every capture, whatever the command      *)
(* writes, however its output is cut into chunks and in whatever order the *)
(* two goroutines handle them.                                             *)
THEOREM CaptureInvariant == Spec => []CaptureInv
<1>1. Init => CaptureInv
  BY CaptureInit
<1>2. CaptureInv /\ [Next]_vars => CaptureInv'
  <2> SUFFICES ASSUME CaptureInv, [Next]_vars PROVE CaptureInv'
    OBVIOUS
  <2>1. ASSUME NEW s \in Streams, Copy(s) PROVE CaptureInv'
    BY <2>1, ReadChunkKeeps, ReadEndKeeps, WriteTeeKeeps, CheckReducerKeeps,
       FeedReducerKeeps, PublishKeeps, DisableTokensKeeps, StopCollectorKeeps DEF Copy
  <2>2. CASE CommandExits \/ CommandBlocks
    BY <2>2, CommandKeeps
  <2>3. CASE Wait
    BY <2>3, WaitKeeps
  <2>4. CASE ReduceLater
    BY <2>4, ReduceLaterKeeps
  <2>5. CASE PublishLater
    BY <2>5, PublishLaterKeeps
  <2>6. CASE FinalizeTee
    BY <2>6, FinalizeTeeKeeps
  <2>7. CASE Finished \/ UNCHANGED vars
    BY <2>7, StutterKeeps DEF Finished
  <2> QED
    BY <2>1, <2>2, <2>3, <2>4, <2>5, <2>6, <2>7 DEF Next
<1> QED
  BY <1>1, <1>2, PTL DEF Spec

(* TypeOK for every instance.                                              *)
THEOREM CaptureTypes == Spec => []TypeOK
<1>1. CaptureInv => TypeOK
  BY DEF CaptureInv
<1> QED
  BY <1>1, CaptureInvariant, PTL

(* A capture accepted as complete is the whole of both streams, so that    *)
(* what the guards and session dedup take for the raw output is it.        *)
THEOREM CompleteCapture == Spec => []CompleteCaptureIsWhole
<1>1. CaptureInv => CompleteCaptureIsWhole
  BY DEF CaptureInv, CollectorsFollow, Follows, CompleteCaptureIsWhole, CaptureIncomplete
<1> QED
  BY <1>1, CaptureInvariant, PTL

(* The reducer is fed in order, without repetition and, unless it said it  *)
(* was done, all of what it reduces.                                       *)
THEOREM ReducerFed == Spec => []ReducerSeesItsStreams
<1>1. CaptureInv => ReducerSeesItsStreams
  <2> SUFFICES ASSUME CaptureInv PROVE ReducerSeesItsStreams
    OBVIOUS
  <2>1. Span(0, 0) = <<>> /\ Len(<<>>) = 0
    BY DEF Span
  <2>2. \A s \in Streams : reducer.fed[s] = Span(0, Len(reducer.fed[s]))
    BY <2>1 DEF CaptureInv, ReducerFollows, FedLive, FedLater
  <2>3. ASSUME main = "done", ~reducer.done, NEW s \in LiveStreams(opt) \cup LaterStreams(opt)
        PROVE  Len(reducer.fed[s]) = col[s].bytes
    <3>1. s \in Streams /\ pc[s] = "done"
      BY <2>3, LiveNotLater DEF CaptureInv, ReducerFollows
    <3>2. CASE s \in LaterStreams(opt)
      BY <2>3, <3>1, <3>2 DEF CaptureInv, ReducerFollows, FedLater
    <3>3. CASE s \in LiveStreams(opt)
      <4>1. Pending(s) = 0 /\ col[s].bytes \in Int
        BY <3>1 DEF Pending, CaptureInv, TypeOK, Collectors
      <4> QED
        BY <2>3, <3>1, <3>3, <4>1 DEF CaptureInv, ReducerFollows, FedLive
    <3> QED
      BY <2>3, <3>2, <3>3
  <2> QED
    BY <2>2, <2>3 DEF ReducerSeesItsStreams
<1> QED
  BY <1>1, CaptureInvariant, PTL

(* A goroutine drops a stream only under a summary that will be shown.     *)
THEOREM StoppedCapture == Spec => []StoppedCaptureHasSummary
<1>1. CaptureInv => StoppedCaptureHasSummary
  BY DEF CaptureInv
<1> QED
  BY <1>1, CaptureInvariant, PTL
-----------------------------------------------------------------------------
(* The fast path.  Division rounds down.                                   *)
LEMMA DivisionLaw ==
  ASSUME NEW a \in Nat, NEW k \in Nat \ {0}
  PROVE  a \div k \in Int /\ (a % k) \in 0 .. k - 1 /\ a = k * (a \div k) + (a % k)
BY SMT

(* A positive factor cancels.                                              *)
LEMMA CancelFactor ==
  ASSUME NEW a \in Int, NEW b \in Int, NEW k \in Nat \ {0}, k * a > k * b
  PROVE  a > b
BY SMT

(* A quotient is at least what the divisor fits in.                        *)
LEMMA QuotientAtLeast ==
  ASSUME NEW a \in Nat, NEW q \in Nat, NEW k \in Nat \ {0}, a >= k * q
  PROVE  a \div k >= q
<1> DEFINE d == a \div k
<1>1. d \in Int /\ k * d > a - k
  BY DivisionLaw
<1>2. k * d > k * (q - 1)
  BY <1>1
<1> QED
  BY <1>1, <1>2, CancelFactor

(* The estimate of tokens is a number.                                     *)
LEMMA TokenCountType ==
  ASSUME NEW c, Runes(c) \in Nat
  PROVE  TokenCount(c) \in Nat
<1> DEFINE a == Runes(c) + RunesPerToken - 1
<1>1. a \in Nat /\ RunesPerToken \in Nat \ {0}
  BY SizesAssumption
<1> HIDE DEF a
<1>2. a \div RunesPerToken \in Int /\ a \div RunesPerToken >= 0
  <2>1. a >= RunesPerToken * 0
    BY <1>1
  <2> QED
    BY <1>1, <2>1, DivisionLaw, QuotientAtLeast
<1> QED
  BY <1>2 DEF TokenCount, a

(* Text of more runes than a preview has bytes has more tokens than the    *)
(* fast path allows.                                                       *)
LEMMA PreviewExceedsTokens ==
  ASSUME NEW c, Runes(c) \in Nat, Runes(c) > PreviewBytes
  PROVE  TokenCount(c) > BypassTokens
<1> DEFINE a == Runes(c) + RunesPerToken - 1
           q == BypassTokens + 1
<1>1. a \in Nat /\ q \in Nat /\ RunesPerToken \in Nat \ {0}
  BY SizesAssumption
<1>2. a >= RunesPerToken * q
  <2>1. RunesPerToken * q = BypassTokens * RunesPerToken + RunesPerToken
    BY SizesAssumption
  <2>2. BypassTokens * RunesPerToken \in Nat /\ BypassTokens * RunesPerToken <= PreviewBytes
        /\ PreviewBytes \in Nat
    BY SizesAssumption, FastPathAssumption
  <2> QED
    BY <1>1, <2>1, <2>2
<1> HIDE DEF a, q
<1>3. a \div RunesPerToken \in Int /\ a \div RunesPerToken >= q
  BY <1>1, <1>2, DivisionLaw, QuotientAtLeast
<1> QED
  BY <1>3, SizesAssumption DEF TokenCount, a, q

(* What is past the fast path stays past it: the bytes only grow, and the  *)
(* tokens count only once they are final.                                  *)
LEMMA ConsumeStaysPast ==
  ASSUME NEW c \in Collectors, NEW n \in Nat \ {0}, NEW d \in Consume(c, n),
         PastFastPath(c)
  PROVE  PastFastPath(d)
<1>1. PICK q \in Counted(c, n) :
           /\ d.bytes = c.bytes + n /\ d.runes = q.runes /\ d.pending = q.pending
           /\ d.account = c.account
  BY ConsumeFields
<1>2. c.bytes \in Nat /\ BypassBytes \in Nat
  BY SizesAssumption DEF Collectors
<1>3. CASE c.bytes > BypassBytes
  BY <1>1, <1>2, <1>3 DEF PastFastPath
<1>4. CASE ~c.account /\ TokenCount(c) > BypassTokens
  <2>1. d.runes = c.runes /\ d.pending = c.pending /\ ~d.account
    BY <1>1, <1>4, CountedType
  <2>2. TokenCount(d) = TokenCount(c)
    BY <2>1 DEF TokenCount, Runes
  <2> QED
    BY <1>4, <2>1, <2>2 DEF PastFastPath
<1> QED
  BY <1>3, <1>4 DEF PastFastPath

(* A collector cuts a chunk off only when it would overflow the preview,   *)
(* and then it holds the preview.                                          *)
LEMMA ConsumeCuts ==
  ASSUME NEW c \in Collectors, NEW n \in Nat \ {0}, NEW d \in Consume(c, n),
         Follows(c), ~c.truncated, d.truncated
  PROVE  c.bytes + n > PreviewBytes /\ d.buf = Span(0, PreviewBytes)
<1>1. c.bytes \in Nat /\ c.limit \in {0, PreviewBytes} /\ PreviewBytes \in Nat
  BY SizesAssumption DEF Collectors
<1>2. /\ ~c.capture /\ c.limit > 0 /\ Accepted(c, n) < n
      /\ d.buf = c.buf \o Span(c.bytes, c.bytes + Accepted(c, n))
  BY ConsumeFields
<1>3. Len(c.buf) = c.bytes /\ c.buf = Span(0, c.bytes) /\ c.bytes <= c.limit
  BY <1>1, <1>2 DEF Follows, Span
<1>4. Accepted(c, n) = Smaller(n, c.limit - c.bytes) /\ c.limit = PreviewBytes
  BY <1>1, <1>2, <1>3, SizesAssumption DEF Accepted
<1>5. c.bytes + n > PreviewBytes /\ Accepted(c, n) = PreviewBytes - c.bytes
  BY <1>1, <1>2, <1>4, SizesAssumption DEF Smaller
<1>6. d.buf = Span(0, c.bytes) \o Span(c.bytes, PreviewBytes)
  <2>1. c.bytes + Accepted(c, n) = PreviewBytes
    BY <1>1, <1>5
  <2> QED
    BY <1>2, <1>3, <2>1
<1>7. Span(0, c.bytes) \o Span(c.bytes, PreviewBytes) = Span(0, PreviewBytes)
  <2> DEFINE a == c.bytes
             b == PreviewBytes
  <2>1. a \in Nat /\ b \in Nat /\ a <= b
    BY <1>1, <1>3, <1>4
  <2> HIDE DEF a, b
  <2>2. Span(0, a) \o Span(a, b) = Span(0, b)
    BY <2>1 DEF Span
  <2> QED
    BY <2>2 DEF a, b
<1> QED
  BY <1>5, <1>6, <1>7

(* A collector that was cut takes no more.                                 *)
LEMMA ConsumeWhenCut ==
  ASSUME NEW c \in Collectors, NEW n \in Nat, NEW d \in Consume(c, n),
         c.truncated, ~c.capture
  PROVE  d.buf = c.buf
<1>1. Accepted(c, n) = 0 /\ c.bytes \in Nat /\ c.buf \in Seq(Positions)
  BY SizesAssumption DEF Accepted, Collectors
<1>2. d.buf = c.buf \o Span(c.bytes, c.bytes + Accepted(c, n))
  BY ConsumeFields
<1>3. Span(c.bytes, c.bytes + Accepted(c, n)) = <<>>
  BY <1>1 DEF Span
<1>4. d.buf = c.buf \o <<>>
  BY <1>2, <1>3
<1> QED
  BY <1>1, <1>4

(* A chunk read by one goroutine.                                          *)
LEMMA ReadChunkPast ==
  ASSUME CaptureInv, CutIsPastFastPath, NEW s \in Streams, ReadChunk(s)
  PROVE  CutIsPastFastPath'
<1>1. PICK n \in 1 .. MaxChunk :
        \E c \in Consume(col[s], n) : col' = [col EXCEPT ![s] = c]
  BY DEF ReadChunk
<1>d. PICK d \in Consume(col[s], n) : col' = [col EXCEPT ![s] = d]
  BY <1>1
<1>2. opt' = opt /\ n \in Nat \ {0}
  BY SizesAssumption DEF ReadChunk
<1>3. /\ col \in [Streams -> Collectors] /\ Follows(col[s])
      /\ col[s] \in Collectors
  BY DEF CaptureInv, TypeOK, CollectorsFollow
<1>4. col'[s] = d /\ \A r \in Streams \ {s} : col'[r] = col[r]
  BY <1>d, <1>3
<1>a. /\ d.bytes = col[s].bytes + n /\ d.account = col[s].account
      /\ (col[s].truncated => d.truncated)
  BY ConsumeFields
<1>5. /\ d.bytes = col[s].bytes + n /\ d.account = col[s].account
      /\ col[s].bytes \in Nat /\ PreviewBytes \in Nat
      /\ BypassBytes \in Nat /\ BypassBytes <= PreviewBytes
      /\ (col[s].truncated => d.truncated)
  BY <1>3, <1>a, SizesAssumption DEF Collectors
<1>6. d.truncated /\ ~col[s].truncated =>
        d.bytes > PreviewBytes /\ d.buf = Span(0, PreviewBytes)
  BY <1>2, <1>3, <1>5, ConsumeCuts
<1>7. d.truncated => PastFastPath(d)
  <2>1. CASE col[s].truncated
    BY <1>2, <1>3, <2>1, ConsumeStaysPast DEF CutIsPastFastPath
  <2>2. CASE ~col[s].truncated
    BY <1>5, <1>6, <2>2 DEF PastFastPath
  <2> QED
    BY <2>1, <2>2
<1>8. s \notin LiveStreams(opt) =>
        /\ d.account
        /\ d.truncated => d.bytes > PreviewBytes /\ d.buf = Span(0, PreviewBytes)
  <2> SUFFICES ASSUME s \notin LiveStreams(opt)
               PROVE  /\ d.account
                      /\ d.truncated => /\ d.bytes > PreviewBytes
                                        /\ d.buf = Span(0, PreviewBytes)
    OBVIOUS
  <2>1. /\ col[s].account
        /\ col[s].truncated => /\ col[s].bytes > PreviewBytes
                               /\ col[s].buf = Span(0, PreviewBytes)
    BY DEF CutIsPastFastPath
  <2>2. CASE col[s].truncated
    <3>1. ~col[s].capture
      BY <1>3, <2>2 DEF Follows
    <3>2. d.buf = col[s].buf
      BY <1>2, <1>3, <2>2, <3>1, ConsumeWhenCut
    <3> QED
      BY <1>2, <1>5, <2>1, <2>2, <3>2
  <2>3. CASE ~col[s].truncated
    BY <1>5, <1>6, <2>1, <2>3
  <2> QED
    BY <2>2, <2>3
<1> QED
  BY <1>2, <1>4, <1>7, <1>8 DEF CutIsPastFastPath, PastFastPath, TokenCount, Runes

(* Only a goroutine that feeds the reducer stops counting or buffering,    *)
(* and it stops buffering past the fast path.                              *)
LEMMA DisablePast ==
  ASSUME CaptureInv, CutIsPastFastPath, NEW s \in Streams,
         DisableTokens(s) \/ StopCollector(s)
  PROVE  CutIsPastFastPath'
<1>1. s \in LiveStreams(opt) /\ opt' = opt
  BY DEF DisableTokens, StopCollector, CaptureInv, ReducerFollows
<1>2. col \in [Streams -> Collectors]
  BY DEF CaptureInv, TypeOK
<1>3. \A r \in Streams \ {s} : col'[r] = col[r]
  BY <1>2 DEF DisableTokens, StopCollector
<1>4. col'[s].truncated => PastFastPath(col'[s])
  <2>1. CASE col' = col
    BY <2>1 DEF CutIsPastFastPath
  <2>2. CASE col' = [col EXCEPT ![s] = DisableTokenAccounting(col[s])]
    <3> DEFINE d == DisableTokenAccounting(col[s])
    <3>1. /\ col'[s] = d /\ d.bytes = col[s].bytes /\ TokenCount(d) = TokenCount(col[s])
          /\ d.truncated = col[s].truncated /\ d.account = FALSE
      BY <1>2, <2>2 DEF DisableTokenAccounting, TokenCount, Runes
    <3> HIDE DEF d
    <3> QED
      BY <3>1 DEF CutIsPastFastPath, PastFastPath
  <2>3. CASE col' = [col EXCEPT ![s] = DisableBuffering(DisableTokenAccounting(col[s]))]
             /\ ShouldStop(s)
    <3>1. col[s].bytes > BypassBytes \/ TokenCount(col[s]) > BypassTokens
      BY <2>3 DEF ShouldStop
    <3>2. /\ col'[s].bytes = col[s].bytes /\ col'[s].account = FALSE
          /\ TokenCount(col'[s]) = TokenCount(col[s])
      BY <1>2, <2>3 DEF DisableBuffering, DisableTokenAccounting, TokenCount, Runes
    <3> QED
      BY <3>1, <3>2 DEF PastFastPath
  <2> QED
    BY <2>1, <2>2, <2>3 DEF DisableTokens, StopCollector
<1> QED
  BY <1>1, <1>3, <1>4 DEF CutIsPastFastPath, PastFastPath, TokenCount, Runes

(* Steps that leave the collectors alone cut nothing off.                  *)
LEMMA UntouchedPast ==
  ASSUME CutIsPastFastPath, UNCHANGED <<opt, col>>
  PROVE  CutIsPastFastPath'
BY DEF CutIsPastFastPath, PastFastPath, TokenCount, Runes

(* A collector is cut only past the fast path, however the two goroutines  *)
(* and their reducer interleave.                                           *)
THEOREM CutPastFastPath == Spec => []CutIsPastFastPath
<1>1. Init => CutIsPastFastPath
  BY DEF Init, NewCollector, CutIsPastFastPath
<1>2. CaptureInv /\ CutIsPastFastPath /\ [Next]_vars => CutIsPastFastPath'
  <2> SUFFICES ASSUME CaptureInv, CutIsPastFastPath, [Next]_vars
               PROVE  CutIsPastFastPath'
    OBVIOUS
  <2>1. ASSUME NEW s \in Streams, ReadChunk(s) PROVE CutIsPastFastPath'
    BY <2>1, ReadChunkPast
  <2>2. ASSUME NEW s \in Streams, DisableTokens(s) \/ StopCollector(s)
        PROVE  CutIsPastFastPath'
    BY <2>2, DisablePast
  <2>3. ASSUME NEW s \in Streams,
               ReadEOF(s) \/ ReadError(s) \/ WriteTee(s) \/ CheckReducer(s)
                 \/ FeedReducer(s) \/ Publish(s)
        PROVE  CutIsPastFastPath'
    <3>1. UNCHANGED <<opt, col>>
      BY <2>3 DEF ReadEOF, ReadError, WriteTee, CheckReducer, FeedReducer, Publish
    <3> QED
      BY <3>1, UntouchedPast
  <2>4. CASE \/ CommandExits \/ CommandBlocks \/ Wait \/ ReduceLater \/ PublishLater
             \/ FinalizeTee \/ Finished \/ UNCHANGED vars
    <3>1. UNCHANGED <<opt, col>>
      BY <2>4 DEF CommandExits, CommandBlocks, Wait, ReduceLater, PublishLater,
                  FinalizeTee, Finished, vars
    <3> QED
      BY <3>1, UntouchedPast
  <2> QED
    BY <2>1, <2>2, <2>3, <2>4 DEF Next, Copy
<1> QED
  BY <1>1, <1>2, CaptureInvariant, PTL DEF Spec

(* What the fast path relays instead of a summary was captured whole,      *)
(* whatever the encoding of the text, but for a stream it did not measure.  *)
THEOREM FastPath == Spec => []FastPathRelaysWhole
<1>1. CaptureInv /\ CutIsPastFastPath => FastPathRelaysWhole
  <2> SUFFICES ASSUME CaptureInv, CutIsPastFastPath, BypassKind # "none",
                      NEW blank \in BlankStreams, NEW s \in RelayedStreams(blank),
                      col[s].truncated
               PROVE  /\ s \notin MeasuredStreams /\ MeasuredStreams \subseteq blank
                      /\ BypassKind = "emptyPreferred"
                           \/ Runes(col[s]) < col[s].bytes
                      /\ col[s].buf = Span(0, PreviewBytes)
    <3>1. ASSUME CaptureInv, NEW s \in Streams, ~col[s].truncated
          PROVE  col[s].buf = Span(0, col[s].bytes)
      BY <3>1 DEF CaptureInv, CollectorsFollow, Follows
    <3>2. \A blank \in BlankStreams : RelayedStreams(blank) \subseteq Streams
      BY DEF RelayedStreams, MeasuredStreams
    <3> QED
      BY <3>1, <3>2 DEF FastPathRelaysWhole
  <2>1. s \in Streams /\ "stdout" \in Streams /\ "stderr" \in Streams
    BY DEF RelayedStreams, MeasuredStreams, Streams
  <2>2. \A r \in Streams : /\ col[r].bytes \in Nat /\ Runes(col[r]) \in Nat
                            /\ Runes(col[r]) <= col[r].bytes
    BY SizesAssumption DEF CaptureInv, TypeOK, Collectors, Runes
  <2>3. \A r \in Streams : TokenCount(col[r]) \in Nat
    BY <2>2, TokenCountType
  <2>a. opt.reducer
    BY DEF BypassKind
  <2>4. BypassKind = "emptyPreferred" =>
          /\ opt.pref = "stderr_only" /\ BytesForFastPath = 0
    BY DEF BypassKind
  <2>5. BypassKind # "emptyPreferred" =>
          /\ BytesForFastPath <= BypassBytes
          /\ TokenCount(col["stdout"]) + TokenCount(col["stderr"]) <= BypassTokens
    BY DEF BypassKind, RawTokens
  <2>b. s \in MeasuredStreams => col[s].bytes <= BytesForFastPath
    BY <2>1, <2>2 DEF BytesForFastPath, Streams
  <2>6. s \notin MeasuredStreams
    <3> SUFFICES ASSUME s \in MeasuredStreams PROVE FALSE
      OBVIOUS
    <3>1. PastFastPath(col[s])
      BY <2>1 DEF CutIsPastFastPath
    <3>2. CASE BypassKind = "emptyPreferred"
      <4>1. col[s].bytes = 0
        BY <2>1, <2>2, <2>4, <2>b, <3>2
      <4>2. Runes(col[s]) = 0
        BY <2>1, <2>2, <4>1
      <4>3. Follows(col[s]) /\ col[s] \in Collectors
        BY <2>1 DEF CaptureInv, CollectorsFollow, TypeOK
      <4>4. TokenCount(col[s]) = 0
        <5>1. (0 + RunesPerToken - 1) \div RunesPerToken = 0
          <6>1. RunesPerToken \in Nat \ {0}
            BY SizesAssumption
          <6> QED
            BY <6>1, Z3
        <5> QED
          BY <4>2, <5>1 DEF TokenCount
      <4> QED
        BY <3>1, <4>1, <4>4, SizesAssumption DEF PastFastPath
    <3>3. CASE BypassKind # "emptyPreferred"
      <4>1. TokenCount(col[s]) <= BypassTokens
        BY <2>1, <2>3, <2>5, <3>3, SizesAssumption DEF Streams
      <4>2. col[s].bytes <= BypassBytes
        <5>1. BytesForFastPath \in Nat
          BY <2>1, <2>2 DEF BytesForFastPath
        <5> QED
          BY <2>1, <2>2, <2>5, <2>b, <3>3, <5>1, SizesAssumption
      <4> QED
        BY <2>1, <2>2, <2>3, <3>1, <4>1, <4>2, SizesAssumption DEF PastFastPath
    <3> QED
      BY <3>2, <3>3
  <2>7. s \notin LiveStreams(opt)
    BY <2>6 DEF LiveStreams, MeasuredStreams
  <2>8. /\ col[s].bytes > PreviewBytes /\ col[s].buf = Span(0, PreviewBytes)
    BY <2>1, <2>7 DEF CutIsPastFastPath
  <2>9. MeasuredStreams \subseteq blank
    <3>1. s \notin LaterStreams(opt)
      <4>1. ~col[s].capture /\ col[s].capture = CaptureAll(opt, s)
        BY <2>1 DEF CaptureInv, CollectorsFollow, Follows
      <4> QED
        BY <4>1 DEF CaptureAll
    <3>2. opt.pref \in Prefs
      BY ProfilesAssumption DEF CaptureInv, TypeOK
    <3>3. \/ s = "stderr" /\ opt.pref = "stdout_only"
          \/ s = "stdout" /\ opt.pref = "stderr_only"
      BY <2>1, <2>6, <2>a, <3>1, <3>2
         DEF MeasuredStreams, LaterStreams, LivePrefs, LaterPrefs, Prefs, Streams
    <3>4. CASE opt.pref = "stdout_only"
      <4>1. MeasuredStreams = {"stdout"}
        BY <3>4 DEF MeasuredStreams, LivePrefs, Streams
      <4> QED
        BY <2>6, <3>4, <4>1 DEF RelayedStreams
    <3>5. CASE opt.pref = "stderr_only"
      <4>1. MeasuredStreams = {"stderr"}
        BY <3>5 DEF MeasuredStreams, LivePrefs, Streams
      <4> QED
        BY <2>6, <3>5, <4>1 DEF RelayedStreams
    <3> QED
      BY <3>3, <3>4, <3>5
  <2>10. BypassKind # "emptyPreferred" => Runes(col[s]) < col[s].bytes
    <3> SUFFICES ASSUME BypassKind # "emptyPreferred", Runes(col[s]) = col[s].bytes
                 PROVE  FALSE
      BY <2>1, <2>2
    <3>1. TokenCount(col[s]) > BypassTokens
      BY <2>1, <2>2, <2>8, PreviewExceedsTokens
    <3> QED
      BY <2>1, <2>3, <2>5, <3>1, SizesAssumption DEF Streams
  <2> QED
    BY <2>6, <2>8, <2>9, <2>10
<1> QED
  BY <1>1, CutPastFastPath, CaptureInvariant, PTL
-----------------------------------------------------------------------------
(* Previews.  Once one is published that says the reducer is done, nothing *)
(* has been parsed since: a reducer that is done is not fed.               *)
DoneIsPublished ==
  published.done => /\ reducer.done
                    /\ BytesParsed(reducer) = reducer.lastPublished

(* The preview is published as done once.                                  *)
LEMMA PublishPreviewDone ==
  ASSUME DoneIsPublished, PublishPreview
  PROVE  DoneIsPublished' /\ (published.done => UNCHANGED published)
<1>1. CASE UNCHANGED <<reducer, published>>
  BY <1>1 DEF DoneIsPublished, BytesParsed
<1>2. CASE /\ BytesParsed(reducer) \notin {0, reducer.lastPublished}
           /\ reducer' = [done |-> reducer.done, usable |-> reducer.usable,
                          fed |-> reducer.fed, lastPublished |-> BytesParsed(reducer)]
           /\ published' = [bytes |-> BytesParsed(reducer), done |-> reducer.done]
  BY <1>2 DEF DoneIsPublished, BytesParsed
<1> QED
  BY <1>1, <1>2 DEF PublishPreview

(* Reducing more of the streams publishes nothing.                         *)
LEMMA ReducedDone ==
  ASSUME DoneIsPublished, NEW s, NEW positions, reducer' \in Reduced(reducer, s, positions),
         UNCHANGED published
  PROVE  DoneIsPublished'
BY DEF DoneIsPublished, Reduced, BytesParsed

(* What was published as done is not published again.                      *)
LEMMA DonePreviewStep ==
  ASSUME DoneIsPublished, [Next]_vars
  PROVE  DoneIsPublished' /\ (published.done => UNCHANGED published)
<1>1. ASSUME NEW s \in Streams, Publish(s) \/ PublishLater
      PROVE  DoneIsPublished' /\ (published.done => UNCHANGED published)
  BY <1>1, PublishPreviewDone DEF Publish, PublishLater
<1>2. ASSUME NEW s \in Streams, FeedReducer(s)
      PROVE  DoneIsPublished' /\ UNCHANGED published
  BY <1>2, ReducedDone DEF FeedReducer
<1>3. CASE ReduceLater
  <2>1. UNCHANGED published
    BY <1>3 DEF ReduceLater
  <2>2. CASE UNCHANGED reducer
    BY <2>1, <2>2 DEF DoneIsPublished, BytesParsed
  <2>3. CASE \E s \in LaterStreams(opt) : reducer' \in Reduced(reducer, s, col[s].buf)
    BY <2>1, <2>3, ReducedDone
  <2> QED
    BY <1>3, <2>1, <2>2, <2>3 DEF ReduceLater
<1>4. ASSUME UNCHANGED <<reducer, published>>
      PROVE  DoneIsPublished' /\ UNCHANGED published
  BY <1>4 DEF DoneIsPublished, BytesParsed
<1>5. ASSUME NEW s \in Streams,
             ReadChunk(s) \/ ReadEOF(s) \/ ReadError(s) \/ WriteTee(s)
               \/ CheckReducer(s) \/ DisableTokens(s) \/ StopCollector(s)
      PROVE  UNCHANGED <<reducer, published>>
  BY <1>5 DEF ReadChunk, ReadEOF, ReadError, WriteTee, CheckReducer, DisableTokens, StopCollector
<1>6. CASE \/ CommandExits \/ CommandBlocks \/ Wait \/ FinalizeTee \/ Finished
           \/ UNCHANGED vars
  <2>1. UNCHANGED <<reducer, published>>
    BY <1>6 DEF CommandExits, CommandBlocks, Wait, FinalizeTee, Finished, vars
  <2> QED
    BY <2>1, <1>4
<1>7. "stdout" \in Streams
  BY DEF Streams
<1> QED
  BY <1>1, <1>2, <1>3, <1>4, <1>5, <1>6, <1>7 DEF Next, Copy

(* The preview that says the summary is done is the last one, whichever    *)
(* goroutine publishes it.                                                 *)
THEOREM DonePreview == Spec => DonePreviewIsLast
<1>1. Init => DoneIsPublished
  BY DEF Init, DoneIsPublished
<1>2. DoneIsPublished /\ [Next]_vars => DoneIsPublished'
  BY DonePreviewStep
<1>3. DoneIsPublished /\ [Next]_vars => [published.done => UNCHANGED published]_vars
  BY DonePreviewStep
<1> QED
  BY <1>1, <1>2, <1>3, PTL DEF Spec, DonePreviewIsLast

-----------------------------------------------------------------------------
(* The tee file.  The heads and tails of sequences put one after another.   *)

(* Two sequences of the same length and elements are one.                  *)
LEMMA SameSequence ==
  ASSUME NEW S, NEW q \in Seq(S), NEW r \in Seq(S), Len(q) = Len(r),
         \A i \in 1 .. Len(q) : q[i] = r[i]
  PROVE  q = r
OBVIOUS

(* The last elements, by their places in the whole.                        *)
LEMMA LastOfElements ==
  ASSUME NEW S, NEW q \in Seq(S), NEW n \in Nat, n <= Len(q)
  PROVE  /\ LastOf(q, n) \in Seq(S) /\ Len(LastOf(q, n)) = n
         /\ \A i \in 1 .. n : LastOf(q, n)[i] = q[Len(q) - n + i]
BY DEF LastOf

(* What two sequences put together hold.                                   *)
LEMMA JoinElements ==
  ASSUME NEW S, NEW q \in Seq(S), NEW r \in Seq(S)
  PROVE  /\ q \o r \in Seq(S) /\ Len(q \o r) = Len(q) + Len(r)
         /\ \A i \in 1 .. Len(q) : (q \o r)[i] = q[i]
         /\ \A i \in 1 .. Len(r) : (q \o r)[Len(q) + i] = r[i]
OBVIOUS

(* The last elements of a whole lie in its last part when that is long     *)
(* enough.                                                                 *)
LEMMA LastOfPart ==
  ASSUME NEW S, NEW q \in Seq(S), NEW r \in Seq(S), NEW n \in Nat, n <= Len(r)
  PROVE  LastOf(q \o r, n) = LastOf(r, n)
<1> DEFINE w == q \o r
<1>1. /\ w \in Seq(S) /\ Len(w) = Len(q) + Len(r) /\ Len(q) \in Nat /\ Len(r) \in Nat
      /\ \A i \in 1 .. Len(r) : w[Len(q) + i] = r[i]
  BY JoinElements
<1>0. n <= Len(w)
  BY <1>1
<1> HIDE DEF w
<1>2. /\ LastOf(w, n) \in Seq(S) /\ Len(LastOf(w, n)) = n
      /\ \A i \in 1 .. n : LastOf(w, n)[i] = w[Len(w) - n + i]
  BY <1>0, <1>1 DEF LastOf
<1>3. /\ LastOf(r, n) \in Seq(S) /\ Len(LastOf(r, n)) = n
      /\ \A i \in 1 .. n : LastOf(r, n)[i] = r[Len(r) - n + i]
  BY LastOfElements
<1>4. ASSUME NEW i \in 1 .. n PROVE LastOf(w, n)[i] = LastOf(r, n)[i]
  <2>1. /\ Len(r) - n + i \in 1 .. Len(r)
        /\ Len(w) - n + i = Len(q) + (Len(r) - n + i)
    BY <1>1
  <2> QED
    BY <1>1, <1>2, <1>3, <2>1
<1>5. LastOf(w, n) = LastOf(r, n)
  BY <1>2, <1>3, <1>4, SameSequence
<1> QED
  BY <1>5 DEF w

(* The last elements of a part with another put behind it are the last     *)
(* elements of the whole.                                                  *)
LEMMA LastOfJoined ==
  ASSUME NEW S, NEW q \in Seq(S), NEW r \in Seq(S), NEW n \in Nat, n <= Len(q)
  PROVE  LastOf(q, n) \o r = LastOf(q \o r, n + Len(r))
<1> DEFINE w == q \o r
           a == LastOf(q, n)
           m == n + Len(r)
<1>1. /\ w \in Seq(S) /\ Len(w) = Len(q) + Len(r) /\ Len(q) \in Nat /\ Len(r) \in Nat
      /\ \A i \in 1 .. Len(q) : w[i] = q[i]
      /\ \A i \in 1 .. Len(r) : w[Len(q) + i] = r[i]
  BY JoinElements
<1>2. /\ a \in Seq(S) /\ Len(a) = n /\ \A i \in 1 .. n : a[i] = q[Len(q) - n + i]
  BY LastOfElements
<1>3. m \in Nat /\ m <= Len(w) /\ Len(w) - m = Len(q) - n
  BY <1>1
<1> HIDE DEF w, a
<1>4. /\ LastOf(w, m) \in Seq(S) /\ Len(LastOf(w, m)) = m
      /\ \A i \in 1 .. m : LastOf(w, m)[i] = w[Len(w) - m + i]
  BY <1>1, <1>3 DEF LastOf
<1>5. /\ a \o r \in Seq(S) /\ Len(a \o r) = m
      /\ \A i \in 1 .. n : (a \o r)[i] = a[i]
      /\ \A i \in 1 .. Len(r) : (a \o r)[n + i] = r[i]
  <2>1. /\ a \o r \in Seq(S) /\ Len(a \o r) = Len(a) + Len(r)
        /\ \A i \in 1 .. Len(a) : (a \o r)[i] = a[i]
        /\ \A i \in 1 .. Len(r) : (a \o r)[Len(a) + i] = r[i]
    <3>1. a \in Seq(S)
      BY <1>2
    <3> QED
      BY ONLY <3>1, r \in Seq(S)
  <2> QED
    BY <1>2, <2>1
<1>6. ASSUME NEW i \in 1 .. m PROVE (a \o r)[i] = LastOf(w, m)[i]
  <2>1. CASE i <= n
    <3>1. Len(q) - n + i \in 1 .. Len(q) /\ i \in 1 .. n
      BY <1>1, <2>1
    <3>2. LastOf(w, m)[i] = w[Len(q) - n + i]
      BY <1>3, <1>4
    <3> QED
      BY <1>1, <1>2, <1>5, <3>1, <3>2
  <2>2. CASE i > n
    <3>1. i - n \in 1 .. Len(r) /\ n + (i - n) = i /\ Len(q) - n + i = Len(q) + (i - n)
      BY <1>1, <2>2
    <3>2. LastOf(w, m)[i] = w[Len(q) + (i - n)]
      BY <1>3, <1>4, <3>1
    <3>3. (a \o r)[n + (i - n)] = r[i - n] /\ w[Len(q) + (i - n)] = r[i - n]
      BY <1>1, <1>5, <3>1
    <3> QED
      BY <3>1, <3>2, <3>3
  <2>3. i <= n \/ i > n
    BY <1>3
  <2> QED
    BY <2>1, <2>2, <2>3
<1>7. a \o r = LastOf(w, m)
  BY <1>4, <1>5, <1>6, SameSequence
<1> QED
  BY <1>7 DEF w, a

(* The last of the last elements.                                          *)
LEMMA LastOfLast ==
  ASSUME NEW S, NEW q \in Seq(S), NEW n \in Nat, n <= Len(q), NEW m \in Nat, m <= n
  PROVE  LastOf(LastOf(q, n), m) = LastOf(q, m)
<1> DEFINE a == LastOf(q, n)
<1>1. /\ a \in Seq(S) /\ Len(a) = n /\ \A i \in 1 .. n : a[i] = q[Len(q) - n + i]
      /\ Len(q) \in Nat
  BY LastOfElements
<1> HIDE DEF a
<1>2. /\ LastOf(a, m) \in Seq(S) /\ Len(LastOf(a, m)) = m
      /\ \A i \in 1 .. m : LastOf(a, m)[i] = a[n - m + i]
  <2>1. /\ LastOf(a, m) \in Seq(S) /\ Len(LastOf(a, m)) = m
        /\ \A i \in 1 .. m : LastOf(a, m)[i] = a[Len(a) - m + i]
    <3>1. a \in Seq(S) /\ m <= Len(a)
      BY <1>1
    <3> QED
      BY ONLY <3>1, m \in Nat DEF LastOf
  <2> QED
    BY <1>1, <2>1
<1>3. /\ LastOf(q, m) \in Seq(S) /\ Len(LastOf(q, m)) = m
      /\ \A i \in 1 .. m : LastOf(q, m)[i] = q[Len(q) - m + i]
  <2>1. m <= Len(q)
    BY <1>1
  <2> QED
    BY ONLY <2>1, q \in Seq(S), m \in Nat DEF LastOf
<1>4. ASSUME NEW i \in 1 .. m PROVE LastOf(a, m)[i] = LastOf(q, m)[i]
  <2>1. n - m + i \in 1 .. n /\ Len(q) - n + (n - m + i) = Len(q) - m + i
    BY <1>1
  <2> QED
    BY <1>1, <1>2, <1>3, <2>1
<1>5. LastOf(a, m) = LastOf(q, m)
  BY <1>2, <1>3, <1>4, SameSequence
<1> QED
  BY <1>5 DEF a

(* The head of a whole lies in its first part when that is long enough,    *)
(* and is completed by the head of the next part when it is not.           *)
LEMMA HeadJoined ==
  ASSUME NEW S, NEW q \in Seq(S), NEW r \in Seq(S)
  PROVE  /\ \A k \in 0 .. Len(q) : SubSeq(q \o r, 1, k) = SubSeq(q, 1, k)
         /\ \A k \in 0 .. Len(r) : q \o SubSeq(r, 1, k) = SubSeq(q \o r, 1, Len(q) + k)
<1>0. Len(q) \in Nat /\ Len(r) \in Nat
  OBVIOUS
<1>1. ASSUME NEW k \in 0 .. Len(q) PROVE SubSeq(q \o r, 1, k) = SubSeq(q, 1, k)
  OBVIOUS
<1>2. ASSUME NEW k \in 0 .. Len(r) PROVE q \o SubSeq(r, 1, k) = SubSeq(q \o r, 1, Len(q) + k)
  OBVIOUS
<1> QED
  BY <1>1, <1>2

(* A whole is its head and the rest.                                       *)
LEMMA HeadAndLast ==
  ASSUME NEW S, NEW q \in Seq(S), NEW k \in 0 .. Len(q)
  PROVE  SubSeq(q, 1, k) \o LastOf(q, Len(q) - k) = q
<1> DEFINE a == SubSeq(q, 1, k)
           b == LastOf(q, Len(q) - k)
<1>1. Len(q) \in Nat /\ Len(q) - k \in Nat /\ Len(q) - k <= Len(q) /\ k \in Nat
  OBVIOUS
<1>2. a \in Seq(S) /\ Len(a) = k /\ \A i \in 1 .. k : a[i] = q[i]
  OBVIOUS
<1>3. /\ b \in Seq(S) /\ Len(b) = Len(q) - k
      /\ \A i \in 1 .. Len(q) - k : b[i] = q[Len(q) - (Len(q) - k) + i]
  BY <1>1, LastOfElements
<1> HIDE DEF a, b
<1>4. /\ a \o b \in Seq(S) /\ Len(a \o b) = Len(a) + Len(b)
      /\ \A i \in 1 .. Len(a) : (a \o b)[i] = a[i]
      /\ \A i \in 1 .. Len(b) : (a \o b)[Len(a) + i] = b[i]
  BY <1>2, <1>3, JoinElements
<1>5. ASSUME NEW i \in 1 .. Len(q) PROVE (a \o b)[i] = q[i]
  <2>1. i \in Int /\ (i <= k \/ i > k)
    BY <1>1
  <2>2. CASE i <= k
    BY <1>2, <1>4, <2>1, <2>2
  <2>3. CASE i > k
    <3>1. i - k \in 1 .. Len(q) - k /\ k + (i - k) = i /\ Len(q) - (Len(q) - k) + (i - k) = i
      BY <1>1, <2>3
    <3>2. b[i - k] = q[i]
      BY <1>3, <3>1
    <3>3. (a \o b)[i] = b[i - k]
      BY <1>2, <1>3, <1>4, <3>1
    <3> QED
      BY <3>2, <3>3
  <2> QED
    BY <2>1, <2>2, <2>3
<1>6. a \o b = q
  <2>1. Len(a \o b) = Len(q)
    BY <1>1, <1>2, <1>3, <1>4
  <2> QED
    BY <1>4, <1>5, <2>1, SameSequence
<1> QED
  BY <1>6 DEF a, b

(* appendTeeTail keeps the latest bytes: as many as the file will need, or *)
(* all there are.                                                          *)
LEMMA TailKeepsLatest ==
  ASSUME NEW seen \in Seq(Bytes), NEW k \in 0 .. Len(seen), NEW rest \in Seq(Bytes),
         NEW tail, tail = LastOf(seen, Len(tail)), tail \in Seq(Bytes),
         Len(tail) \in Smaller(TailLimit, Len(seen) - k) .. Len(seen) - k
  PROVE  LET next == AppendTeeTail(tail, rest)
             whole == seen \o rest
         IN /\ next = LastOf(whole, Len(next))
            /\ Len(next) \in Smaller(TailLimit, Len(whole) - k) .. Len(whole) - k
<1> DEFINE next == AppendTeeTail(tail, rest)
           whole == seen \o rest
           grown == tail \o rest
<1>1. /\ whole \in Seq(Bytes) /\ Len(whole) = Len(seen) + Len(rest)
      /\ grown \in Seq(Bytes) /\ Len(grown) = Len(tail) + Len(rest)
      /\ Len(seen) \in Nat /\ Len(rest) \in Nat /\ Len(tail) \in Nat
  OBVIOUS
<1>2. TailLimit \in Nat \ {0} /\ k \in Nat /\ Len(tail) <= Len(seen) - k
      /\ (Len(tail) >= TailLimit \/ Len(tail) = Len(seen) - k)
  BY <1>1, LimitsType DEF Smaller
<1>3. grown = LastOf(whole, Len(tail) + Len(rest))
  <2>1. Len(tail) <= Len(seen)
    BY <1>1, <1>2
  <2>2. LastOf(seen, Len(tail)) \o rest = LastOf(seen \o rest, Len(tail) + Len(rest))
    BY <1>1, <2>1, LastOfJoined
  <2> QED
    BY <2>2
<1>4. SUFFICES /\ next = LastOf(whole, Len(next))
               /\ Len(next) \in Smaller(TailLimit, Len(whole) - k) .. Len(whole) - k
  OBVIOUS
<1>5. CASE Len(rest) >= TailLimit
  <2>1. next = LastOf(rest, TailLimit)
    BY <1>5 DEF AppendTeeTail
  <2>2. LastOf(whole, TailLimit) = LastOf(rest, TailLimit)
    BY <1>2, <1>5, LastOfPart
  <2>3. Len(next) = TailLimit
    BY <1>2, <1>5, <2>1, LastOfType
  <2>4. Len(next) \in Smaller(TailLimit, Len(whole) - k) .. Len(whole) - k
    <3> HIDE DEF next, whole
    <3> QED
      BY <1>1, <1>2, <1>5, <2>3 DEF Smaller
  <2> QED
    BY <2>1, <2>2, <2>3, <2>4
<1>6. CASE Len(rest) < TailLimit /\ Len(grown) > 2 * TailLimit
  <2>1. next = LastOf(grown, TailLimit)
    BY <1>2, <1>6 DEF AppendTeeTail
  <2> HIDE DEF grown, whole, next
  <2>2. TailLimit <= Len(grown) /\ Len(grown) <= Len(whole) /\ Len(whole) - k >= TailLimit
    BY <1>1, <1>2, <1>6
  <2>3. grown = LastOf(whole, Len(grown))
    BY <1>1, <1>3
  <2>4. LastOf(LastOf(whole, Len(grown)), TailLimit) = LastOf(whole, TailLimit)
    BY <1>1, <1>2, <2>2, LastOfLast
  <2>5. Len(next) = TailLimit
    BY <1>1, <1>2, <2>1, <2>2, LastOfType
  <2>6. Len(next) \in Smaller(TailLimit, Len(whole) - k) .. Len(whole) - k
    BY <1>1, <1>2, <2>2, <2>5 DEF Smaller
  <2> QED
    BY <2>1, <2>3, <2>4, <2>5, <2>6
<1>7. CASE Len(rest) < TailLimit /\ Len(grown) <= 2 * TailLimit
  <2>1. next = grown
    BY <1>1, <1>2, <1>7 DEF AppendTeeTail
  <2> HIDE DEF grown, whole, next
  <2>2. Len(next) \in Smaller(TailLimit, Len(whole) - k) .. Len(whole) - k
    BY <1>1, <1>2, <2>1 DEF Smaller
  <2> QED
    BY <1>1, <1>3, <2>1, <2>2
<1> QED
  <2> HIDE DEF grown, whole, next
  <2>1. \/ Len(rest) >= TailLimit
        \/ Len(rest) < TailLimit /\ Len(grown) > 2 * TailLimit
        \/ Len(rest) < TailLimit /\ Len(grown) <= 2 * TailLimit
    BY <1>1, <1>2
  <2> QED
    BY <1>5, <1>6, <1>7, <2>1

(* Joining three sequences.                                                *)
LEMMA JoinAssociates ==
  ASSUME NEW S, NEW q \in Seq(S), NEW r \in Seq(S), NEW s \in Seq(S)
  PROVE  (q \o r) \o s = q \o (r \o s)
OBVIOUS

(* How a chunk of b bytes is split after a bytes of which the file took    *)
(* its share.                                                              *)
LEMMA HeadShare ==
  ASSUME NEW a \in Nat, NEW b \in Nat, NEW k, k = Smaller(HeadLimit, a),
         NEW n, n = Smaller(HeadLimit - k, b)
  PROVE  /\ n \in 0 .. b /\ k \in 0 .. a
         /\ (n = 0 \/ k = a)
         /\ k + n = Smaller(HeadLimit, a + b)
BY LimitsType DEF Smaller

(* teeCapture.Write puts the head into the file and the latest of the rest *)
(* into the window.                                                        *)
LEMMA TeeWriteHolds ==
  ASSUME NEW t \in Tees, NEW bytes \in Seq(Bytes), TeeHolds(t)
  PROVE  TeeHolds(TeeWrite(t, bytes))
<1> DEFINE seen == t.seen
           k == t.written
           n == Smaller(HeadLimit - k, Len(bytes))
           head == SubSeq(bytes, 1, n)
           rest == SubSeq(bytes, n + 1, Len(bytes))
           whole == seen \o bytes
           u == TeeWrite(t, bytes)
<1>1. /\ seen \in Seq(Bytes) /\ t.tail \in Seq(Bytes)
      /\ Len(seen) \in Nat /\ Len(t.tail) \in Nat /\ Len(bytes) \in Nat
  BY DEF Tees
<1>2. /\ k = Smaller(HeadLimit, Len(seen))
      /\ t.file = SubSeq(seen, 1, k)
      /\ Len(t.tail) \in Smaller(TailLimit, Len(seen) - k) .. Len(seen) - k
      /\ t.tail = LastOf(seen, Len(t.tail))
  BY DEF TeeHolds
<1>3. /\ u.seen = whole /\ u.file = t.file \o head /\ u.written = k + n
      /\ u.tail = IF rest = <<>> THEN t.tail ELSE AppendTeeTail(t.tail, rest)
  BY DEF TeeWrite
<1>4. /\ n \in 0 .. Len(bytes) /\ k \in 0 .. Len(seen)
      /\ (n = 0 \/ k = Len(seen))
      /\ k + n = Smaller(HeadLimit, Len(seen) + Len(bytes))
  <2> HIDE DEF seen, k
  <2> QED
    BY <1>1, <1>2, HeadShare
<1> HIDE DEF seen, k, n, u
<1>5. /\ head \in Seq(Bytes) /\ Len(head) = n
      /\ rest \in Seq(Bytes) /\ Len(rest) = Len(bytes) - n
      /\ head \o rest = bytes
  <2>1. rest = LastOf(bytes, Len(bytes) - n)
    BY <1>1, <1>4 DEF LastOf
  <2>2. head \o LastOf(bytes, Len(bytes) - n) = bytes
    BY <1>4, HeadAndLast
  <2>3. head \in Seq(Bytes) /\ Len(head) = n
    BY <1>4
  <2>4. rest \in Seq(Bytes) /\ Len(rest) = Len(bytes) - n
    BY <1>1, <1>4
  <2> QED
    BY <2>1, <2>2, <2>3, <2>4
<1>6. /\ whole \in Seq(Bytes) /\ Len(whole) = Len(seen) + Len(bytes)
      /\ whole = (seen \o head) \o rest
  <2> HIDE DEF head, rest
  <2>0. seen \in Seq(Bytes) /\ head \in Seq(Bytes) /\ rest \in Seq(Bytes)
    BY <1>1, <1>5
  <2>1. (seen \o head) \o rest = seen \o (head \o rest)
    BY ONLY <2>0, JoinAssociates
  <2> QED
    BY <1>1, <1>5, <2>1
<1>7. u.written = Smaller(HeadLimit, Len(u.seen))
  BY <1>3, <1>4, <1>6
<1>8. u.file = SubSeq(u.seen, 1, u.written)
  <2>1. CASE n = 0
    <3>1. head = <<>> /\ t.file \in Seq(Bytes) /\ t.file \o <<>> = t.file
      BY <1>1, <1>2, <1>4, <2>1
    <3>2. SubSeq(seen \o bytes, 1, k) = SubSeq(seen, 1, k)
      BY <1>1, <1>4, HeadJoined
    <3> QED
      BY <1>2, <1>3, <1>4, <2>1, <3>1, <3>2
  <2>2. CASE k = Len(seen)
    <3>1. t.file = seen
      BY <1>1, <1>2, <2>2
    <3>2. seen \o SubSeq(bytes, 1, n) = SubSeq(seen \o bytes, 1, Len(seen) + n)
      BY <1>1, <1>4, HeadJoined
    <3> QED
      BY <1>3, <2>2, <3>1, <3>2
  <2> QED
    BY <1>4, <2>1, <2>2
<1>9. /\ u.tail = LastOf(u.seen, Len(u.tail))
      /\ Len(u.tail) \in Smaller(TailLimit, Len(u.seen) - u.written) .. Len(u.seen) - u.written
  <2> DEFINE q == seen \o head
             j == k + n
  <2>1. q \in Seq(Bytes) /\ Len(q) = Len(seen) + n
    <3> HIDE DEF head
    <3>1. seen \in Seq(Bytes) /\ head \in Seq(Bytes) /\ Len(head) = n
      BY <1>1, <1>5
    <3> QED
      BY ONLY <3>1
  <2>2. j \in 0 .. Len(q) /\ Len(q) - j = Len(seen) - k
    <3> HIDE DEF q
    <3> QED
      BY <1>1, <1>4, <2>1
  <2>3. t.tail = LastOf(q, Len(t.tail))
    <3>1. CASE n = 0
      <4>1. head = <<>> /\ q = seen
        BY <1>1, <3>1
      <4> QED
        BY <1>2, <4>1
    <3>2. CASE k = Len(seen)
      <4>1. Len(t.tail) = 0
        BY <1>1, <1>2, <3>2, LimitsType DEF Smaller
      <4> HIDE DEF q
      <4>2. t.tail = <<>> /\ LastOf(q, 0) = <<>>
        BY <1>1, <2>1, <4>1 DEF LastOf
      <4> QED
        BY <4>1, <4>2
    <3> QED
      BY <1>4, <3>1, <3>2
  <2>4. Len(t.tail) \in Smaller(TailLimit, Len(q) - j) .. Len(q) - j
    BY <1>2, <2>2
  <2>5. u.seen = q \o rest /\ u.written = j
    BY <1>3, <1>6
  <2> HIDE DEF head, rest, q, j, whole
  <2>6. CASE rest = <<>>
    <3>1. q \o rest = q
      BY <2>1, <2>6
    <3>2. u.tail = t.tail
      BY <1>3, <2>6
    <3> QED
      BY <2>3, <2>4, <2>5, <3>1, <3>2
  <2>7. CASE rest # <<>>
    <3> DEFINE next == AppendTeeTail(t.tail, rest)
               all == q \o rest
    <3>1. u.tail = next
      BY <1>3, <2>7
    <3>2. /\ next = LastOf(all, Len(next))
          /\ Len(next) \in Smaller(TailLimit, Len(all) - j) .. Len(all) - j
      BY <1>1, <1>5, <2>1, <2>2, <2>3, <2>4, TailKeepsLatest
    <3> QED
      BY <2>5, <3>1, <3>2
  <2> QED
    BY <2>6, <2>7
<1> QED
  BY <1>7, <1>8, <1>9 DEF TeeHolds, u

(* flushTailLocked makes of an open tee what CapTeeContent makes of the    *)
(* stream it was given.                                                    *)
LEMMA FlushHolds ==
  ASSUME NEW t \in Tees, TeeHolds(t)
  PROVE  FlushTail(t).file = CapTeeContent(t.seen) /\ FlushTail(t).seen = t.seen
<1> DEFINE seen == t.seen
           k == t.written
           m == Smaller(Len(t.tail), TailLimit)
           overflow == Len(seen) - k
           kept == LastOf(t.tail, m)
           dropped == overflow - Len(kept)
           gap == IF dropped > 0 THEN Marker(dropped, seen) ELSE <<>>
<1>1. /\ seen \in Seq(Bytes) /\ t.tail \in Seq(Bytes)
      /\ Len(seen) \in Nat /\ Len(t.tail) \in Nat
  BY DEF Tees
<1>2. /\ k = Smaller(HeadLimit, Len(seen))
      /\ t.file = SubSeq(seen, 1, k)
      /\ Len(t.tail) \in Smaller(TailLimit, Len(seen) - k) .. Len(seen) - k
      /\ t.tail = LastOf(seen, Len(t.tail))
  BY DEF TeeHolds
<1>3. /\ FlushTail(t).file = IF overflow <= 0 THEN t.file ELSE t.file \o gap \o kept
      /\ FlushTail(t).seen = seen
  BY DEF FlushTail
<1>4. /\ HeadLimit \in Nat /\ TailLimit \in Nat \ {0} /\ HeadLimit + TailLimit = TeeMaxBytes
  BY LimitsType, SizesAssumption DEF HeadLimit, TailLimit
<1> HIDE DEF seen, k
<1>5. m \in Nat /\ m <= Len(t.tail) /\ m <= TailLimit /\ k \in Nat /\ k <= Len(seen)
  BY <1>1, <1>2, <1>4 DEF Smaller
<1>6. kept \in Seq(Bytes) /\ Len(kept) = m /\ kept = LastOf(seen, m)
  <2>1. Len(t.tail) <= Len(seen)
    BY <1>1, <1>2, <1>5
  <2>2. LastOf(LastOf(seen, Len(t.tail)), m) = LastOf(seen, m)
    BY <1>1, <1>5, <2>1, LastOfLast
  <2>3. kept \in Seq(Bytes) /\ Len(kept) = m
    BY <1>1, <1>5, LastOfType
  <2> QED
    BY <1>2, <2>2, <2>3
<1> HIDE DEF kept, m
<1>7. CASE overflow <= 0
  <2>1. k = Len(seen) /\ Len(seen) <= HeadLimit /\ Len(seen) <= TeeMaxBytes
    BY <1>1, <1>2, <1>4, <1>5, <1>7 DEF Smaller
  <2>2. SubSeq(seen, 1, Len(seen)) = seen
    BY <1>1
  <2> QED
    BY <1>2, <1>3, <1>7, <2>1, <2>2 DEF CapTeeContent, seen
<1>8. CASE overflow > 0
  <2>1. k = HeadLimit /\ HeadLimit < Len(seen)
    BY <1>1, <1>2, <1>4, <1>5, <1>8 DEF Smaller
  <2>2. FlushTail(t).file = SubSeq(seen, 1, HeadLimit) \o gap \o kept
    <3>1. ~(overflow <= 0)
      BY <1>1, <1>5, <1>8
    <3> HIDE DEF overflow, gap
    <3>2. FlushTail(t).file = t.file \o gap \o kept
      BY <1>3, <3>1
    <3> QED
      BY <1>2, <2>1, <3>2
  <2>3. CASE Len(seen) <= TeeMaxBytes
    <3>0. Len(t.tail) = Len(seen) - k /\ Len(seen) - k <= TailLimit
      <4>1. Len(seen) - k <= TailLimit /\ Len(seen) - k \in Nat
        BY <1>1, <1>4, <1>5, <2>1, <2>3
      <4>2. Smaller(TailLimit, Len(seen) - k) = Len(seen) - k
        BY <1>4, <4>1 DEF Smaller
      <4> QED
        BY <1>1, <1>2, <4>1, <4>2
    <3>1. m = Len(seen) - k
      BY <3>0 DEF Smaller, m
    <3>2. gap = <<>>
      BY <1>1, <1>5, <1>6, <3>1
    <3>3. SubSeq(seen, 1, HeadLimit) \o <<>> = SubSeq(seen, 1, HeadLimit)
      BY <1>1, <1>4, <2>1
    <3>4. SubSeq(seen, 1, HeadLimit) \o LastOf(seen, Len(seen) - HeadLimit) = seen
      BY <1>1, <1>4, <2>1, HeadAndLast
    <3> QED
      BY <1>3, <1>6, <2>1, <2>2, <2>3, <3>1, <3>2, <3>3, <3>4 DEF CapTeeContent, seen
  <2>4. CASE Len(seen) > TeeMaxBytes
    <3>1. m = TailLimit
      BY <1>1, <1>2, <1>4, <1>5, <2>1, <2>4 DEF Smaller, m
    <3>2. dropped = Len(seen) - HeadLimit - TailLimit /\ dropped > 0
      BY <1>1, <1>4, <1>6, <2>1, <2>4, <3>1
    <3>3. gap = Marker(Len(seen) - HeadLimit - TailLimit, seen)
      BY <3>2
    <3>4. CapTeeContent(seen) = SubSeq(seen, 1, HeadLimit)
                                \o Marker(Len(seen) - HeadLimit - TailLimit, seen)
                                \o LastOf(seen, TailLimit)
      BY <1>1, <1>4, <2>4 DEF CapTeeContent
    <3> HIDE DEF gap
    <3> QED
      BY <1>3, <1>6, <2>2, <3>1, <3>3, <3>4 DEF seen
  <2> QED
    BY <1>1, <1>4, <2>3, <2>4
<1> QED
  BY <1>1, <1>5, <1>7, <1>8

(* One more chunk of a stream, behind what was there of it.                *)
LEMMA InterleavesGrow ==
  ASSUME NEW bytes \in Seq(Bytes), NEW n \in [Streams -> Nat], Interleaves(bytes, n),
         NEW s \in Streams, NEW c \in Nat, NEW part \in Seq(Bytes), Len(part) = c,
         \A i \in 1 .. c : part[i] = <<s, n[s] + i>>
  PROVE  Interleaves(bytes \o part, [n EXCEPT ![s] = @ + c])
<1> DEFINE w == bytes \o part
           d == [n EXCEPT ![s] = @ + c]
           b == Len(bytes)
<1>1. /\ b \in Nat /\ Len(w) = b + c
      /\ \A i \in 1 .. b : w[i] = bytes[i]
      /\ \A i \in 1 .. c : w[b + i] = part[i]
  <2>1. /\ Len(w) = Len(bytes) + Len(part) /\ Len(bytes) \in Nat
        /\ \A i \in 1 .. Len(bytes) : w[i] = bytes[i]
        /\ \A i \in 1 .. Len(part) : w[Len(bytes) + i] = part[i]
    BY ONLY bytes \in Seq(Bytes), part \in Seq(Bytes), JoinElements DEF w
  <2> HIDE DEF w
  <2> QED
    BY <2>1
<1>2. d[s] = n[s] + c /\ n[s] \in Nat /\ \A r \in Streams : r # s => d[r] = n[r]
  OBVIOUS
<1>3. \A i \in 1 .. b : bytes[i][1] \in Streams /\ bytes[i][2] \in Nat
  BY DEF Bytes, Positions
<1>4. /\ \A r \in Streams : \A i \in 1 .. n[r] : \E j \in 1 .. b : bytes[j] = <<r, i>>
      /\ \A j \in 1 .. b : bytes[j][2] <= n[bytes[j][1]]
      /\ \A j, k \in 1 .. b : j < k /\ bytes[j][1] = bytes[k][1] => bytes[j][2] < bytes[k][2]
  BY DEF Interleaves
<1> HIDE DEF w, d, b
<1>a. ASSUME NEW j \in 1 .. b + c
      PROVE  \/ j \in 1 .. b /\ w[j] = bytes[j]
             \/ /\ j - b \in 1 .. c
                /\ w[j] = <<s, n[s] + (j - b)>>
  <2>1. CASE j <= b
    BY <1>1, <2>1
  <2>2. CASE j > b
    <3>1. j - b \in 1 .. c /\ b + (j - b) = j
      BY <1>1, <2>2
    <3>2. w[b + (j - b)] = part[j - b]
      BY <1>1, <3>1
    <3> QED
      BY <3>1, <3>2
  <2>3. j <= b \/ j > b
    BY <1>1
  <2> QED
    BY <2>1, <2>2, <2>3
<1>5. ASSUME NEW r \in Streams, NEW i \in 1 .. d[r]
      PROVE  \E j \in 1 .. b + c : w[j] = <<r, i>>
  <2>1. CASE i \in 1 .. n[r]
    <3>1. PICK j \in 1 .. b : bytes[j] = <<r, i>>
      BY <1>4, <2>1
    <3>2. j \in 1 .. b + c /\ w[j] = <<r, i>>
      BY <1>1, <3>1
    <3> QED
      BY <3>2
  <2>2. CASE i \notin 1 .. n[r]
    <3>1. r = s /\ i - n[s] \in 1 .. c /\ n[s] + (i - n[s]) = i
      BY <1>2, <2>2
    <3>2. w[b + (i - n[s])] = <<s, n[s] + (i - n[s])>> /\ b + (i - n[s]) \in 1 .. b + c
      BY <1>1, <3>1
    <3> QED
      BY <3>1, <3>2
  <2> QED
    BY <2>1, <2>2
<1>6. ASSUME NEW j \in 1 .. b + c
      PROVE  w[j][2] <= d[w[j][1]]
  <2>1. CASE j \in 1 .. b /\ w[j] = bytes[j]
    <3>1. bytes[j][1] \in Streams /\ bytes[j][2] \in Nat /\ bytes[j][2] <= n[bytes[j][1]]
      BY <1>3, <1>4, <2>1
    <3>2. n[bytes[j][1]] <= d[bytes[j][1]] /\ n[bytes[j][1]] \in Nat /\ d[bytes[j][1]] \in Nat
      <4>1. CASE bytes[j][1] = s
        BY <1>2, <4>1
      <4>2. CASE bytes[j][1] # s
        BY <1>2, <3>1, <4>2
      <4> QED
        BY <4>1, <4>2
    <3> QED
      BY <2>1, <3>1, <3>2
  <2>2. CASE j - b \in 1 .. c /\ w[j] = <<s, n[s] + (j - b)>>
    BY <1>1, <1>2, <2>2
  <2> QED
    BY <1>a, <2>1, <2>2
<1>7. ASSUME NEW j \in 1 .. b + c, NEW k \in 1 .. b + c, j < k, w[j][1] = w[k][1]
      PROVE  w[j][2] < w[k][2]
  <2>1. CASE k \in 1 .. b /\ w[k] = bytes[k]
    <3>1. j \in 1 .. b /\ w[j] = bytes[j]
      BY <1>1, <1>7, <2>1
    <3> QED
      BY <1>4, <1>7, <2>1, <3>1
  <2>2. CASE k - b \in 1 .. c /\ w[k] = <<s, n[s] + (k - b)>>
    <3>1. CASE j \in 1 .. b /\ w[j] = bytes[j]
      <4>1. bytes[j][1] = s /\ bytes[j][2] <= n[s] /\ bytes[j][2] \in Nat
        BY <1>3, <1>4, <1>7, <2>2, <3>1
      <4> QED
        BY <1>1, <1>2, <2>2, <3>1, <4>1
    <3>2. CASE j - b \in 1 .. c /\ w[j] = <<s, n[s] + (j - b)>>
      BY <1>1, <1>2, <1>7, <2>2, <3>2
    <3> QED
      BY <1>a, <3>1, <3>2
  <2> QED
    BY <1>a, <2>1, <2>2
<1> QED
  BY <1>1, <1>5, <1>6, <1>7 DEF Interleaves, w, d

-----------------------------------------------------------------------------
(* TeeFollows through each step.                                           *)

(* What the tee is, in the terms of its type.                              *)
LEMMA TeeType ==
  ASSUME TypeOK
  PROVE  /\ tee \in Tees /\ tee.seen \in Seq(Bytes)
         /\ [s \in Streams |-> Teed(s)] \in [Streams -> Nat]
         /\ \A s \in Streams : col[s].bytes \in Nat /\ chunk[s] \in 0 .. col[s].bytes
<1>1. \A s \in Streams : col[s].bytes \in Nat /\ chunk[s] \in 0 .. col[s].bytes
  BY SizesAssumption DEF TypeOK, Collectors
<1>2. \A s \in Streams : Teed(s) \in Nat
  BY <1>1 DEF Teed
<1> QED
  BY <1>1, <1>2 DEF TypeOK, Tees

(* Nothing is in an empty tee, and nothing was offered to it.              *)
LEMMA TeeInit == Init => TeeFollows
<1> SUFFICES ASSUME Init PROVE TeeFollows
  OBVIOUS
<1>1. /\ pc = [s \in Streams |-> "read"] /\ tee \in {OpenTee, EmptyTee("none")}
      /\ \A s \in Streams : col[s].bytes = 0
  BY DEF Init, NewCollector
<1>2. tee.state \in {"open", "none"} /\ tee.seen = <<>> /\ tee.file = <<>>
      /\ tee.tail = <<>> /\ tee.written = 0
  BY <1>1 DEF OpenTee, EmptyTee
<1>3. \A s \in Streams : Teed(s) = 0
  BY <1>1 DEF Teed
<1>4. Interleaves(tee.seen, [s \in Streams |-> Teed(s)])
  BY <1>2, <1>3 DEF Interleaves
<1>5. TeeHolds(tee)
  BY <1>2, LimitsType DEF TeeHolds, Smaller, LastOf
<1> QED
  BY <1>1, <1>2, <1>4, <1>5 DEF TeeFollows

(* A step that leaves the tee alone, and what each stream has offered it.  *)
LEMMA UnteedKeeps ==
  ASSUME TeeFollows, UNCHANGED tee, \A s \in Streams : Teed(s)' = Teed(s),
         tee.state = "kept" => UNCHANGED main,
         \A s \in Streams : pc'[s] = "tee" => pc[s] = "tee" \/ tee.state # "none"
  PROVE  TeeFollows'
<1>1. [s \in Streams |-> Teed(s)]' = [s \in Streams |-> Teed(s)]
  OBVIOUS
<1>2. Interleaves(tee.seen, [s \in Streams |-> Teed(s)])'
      <=> Interleaves(tee.seen, [s \in Streams |-> Teed(s)])
  BY <1>1 DEF Interleaves
<1>3. TeeHolds(tee)' <=> TeeHolds(tee)
  BY DEF TeeHolds
<1> QED
  BY <1>2, <1>3 DEF TeeFollows

(* A chunk that was read is offered next to a tee, when there is one.      *)
LEMMA ReadChunkTeed ==
  ASSUME CaptureInv, TeeFollows, NEW s \in Streams, ReadChunk(s)
  PROVE  TeeFollows'
<1>1. PICK n \in 1 .. MaxChunk :
        /\ chunk' = [chunk EXCEPT ![s] = n]
        /\ \E c \in Consume(col[s], n) : col' = [col EXCEPT ![s] = c]
  BY DEF ReadChunk
<1>d. PICK d \in Consume(col[s], n) : col' = [col EXCEPT ![s] = d]
  BY <1>1
<1>2. /\ pc[s] = "read" /\ pc' = [pc EXCEPT ![s] = AfterRead(s)]
      /\ UNCHANGED tee /\ UNCHANGED main
  BY DEF ReadChunk, Goto
<1>3. TypeOK /\ DOMAIN pc = Streams /\ chunk \in [Streams -> 0 .. MaxChunk]
      /\ DOMAIN col = Streams
  BY DEF CaptureInv, TypeOK
<1>4. /\ pc'[s] = AfterRead(s) /\ chunk'[s] = n /\ col'[s].bytes = col[s].bytes + n
      /\ \A r \in Streams : r # s => pc'[r] = pc[r] /\ chunk'[r] = chunk[r] /\ col'[r] = col[r]
  <2>1. d.bytes = col[s].bytes + n
    BY ConsumeFields
  <2> QED
    BY <1>1, <1>d, <1>2, <1>3, <2>1
<1>5. CASE tee.state = "none"
  <2>1. AfterRead(s) # "tee"
    BY <1>5 DEF AfterRead, AfterTee
  <2> QED
    BY <1>2, <1>4, <1>5, <2>1 DEF TeeFollows
<1>6. CASE tee.state # "none"
  <2>1. AfterRead(s) = "tee"
    BY <1>6 DEF AfterRead
  <2>2. Teed(s)' = Teed(s)
    BY <1>2, <1>3, <1>4, <2>1, TeeType DEF Teed
  <2>3. \A r \in Streams : Teed(r)' = Teed(r)
    BY <1>4, <2>2 DEF Teed
  <2> QED
    BY <1>2, <1>6, <2>3, UnteedKeeps
<1> QED
  BY <1>5, <1>6

(* A chunk the file accepts is behind what it holds of the stream; a       *)
(* capture that fails holds nothing any more.                              *)
LEMMA WriteTeeTeed ==
  ASSUME CaptureInv, TeeFollows, NEW s \in Streams, WriteTee(s)
  PROVE  TeeFollows'
<1>1. /\ pc[s] = "tee" /\ pc' = [pc EXCEPT ![s] = AfterTee(s)]
      /\ UNCHANGED <<chunk, col, main>>
      /\ \/ tee.state = "open" /\ tee' = TeeWrite(tee, ChunkBytes(s))
         \/ tee' = FailedTee
         \/ tee.state = "failed" /\ UNCHANGED tee
  BY DEF WriteTee, Goto
<1>2. TypeOK /\ DOMAIN pc = Streams /\ AfterTee(s) # "tee"
  BY DEF CaptureInv, TypeOK, AfterTee
<1>3. CASE tee.state = "open" /\ tee' = TeeWrite(tee, ChunkBytes(s))
  <2> DEFINE n == [r \in Streams |-> Teed(r)]
             part == ChunkBytes(s)
             c == chunk[s]
  <2>1. /\ tee \in Tees /\ tee.seen \in Seq(Bytes) /\ n \in [Streams -> Nat]
        /\ col[s].bytes \in Nat /\ c \in 0 .. col[s].bytes
        /\ part \in Seq(Bytes)
    BY <1>2, TeeType, ChunkBytesType
  <2>2. n[s] = col[s].bytes - c
    BY <1>1 DEF Teed
  <2>3. Len(part) = c /\ \A i \in 1 .. c : part[i] = <<s, n[s] + i>>
    BY <2>1, <2>2 DEF ChunkBytes
  <2>4. Interleaves(tee.seen, n) /\ TeeHolds(tee)
    BY <1>3 DEF TeeFollows
  <2>5. tee'.seen = tee.seen \o part /\ tee'.state = "open"
    BY <1>3 DEF TeeWrite
  <2>6. [r \in Streams |-> Teed(r)]' = [n EXCEPT ![s] = @ + c]
    <3>1. Teed(s)' = n[s] + c
      BY <1>1, <1>2, <2>1, <2>2 DEF Teed
    <3>2. \A r \in Streams : r # s => Teed(r)' = n[r]
      BY <1>1, <1>2 DEF Teed
    <3> QED
      BY <3>1, <3>2
  <2>7. TeeHolds(TeeWrite(tee, part))
    BY <2>1, <2>4, TeeWriteHolds
  <2> DEFINE seen == tee.seen
  <2>8. Interleaves(seen \o part, [n EXCEPT ![s] = @ + c])
    <3>1. seen \in Seq(Bytes) /\ Interleaves(seen, n) /\ c \in Nat
      BY <2>1, <2>4
    <3> HIDE DEF n, part, seen, c
    <3> QED
      BY <2>1, <2>3, <3>1, InterleavesGrow
  <2>9. TeeHolds(tee)'
    BY <1>3, <2>7 DEF TeeHolds
  <2>10. Interleaves(tee.seen, [r \in Streams |-> Teed(r)])'
    BY <2>5, <2>6, <2>8 DEF Interleaves
  <2> QED
    BY <2>5, <2>9, <2>10 DEF TeeFollows
<1>4. CASE tee' = FailedTee
  BY <1>4 DEF TeeFollows, FailedTee, EmptyTee
<1>5. CASE tee.state = "failed" /\ UNCHANGED tee
  BY <1>5 DEF TeeFollows
<1> QED
  BY <1>1, <1>3, <1>4, <1>5

(* Finalize: every chunk has been offered, and what is kept is flushed.    *)
LEMMA FinalizeTeed ==
  ASSUME CaptureInv, TeeFollows, FinalizeTee
  PROVE  TeeFollows'
<1>1. /\ main' = "done" /\ UNCHANGED <<pc, chunk, col>>
      /\ \/ tee.state = "open" /\ tee' = Kept(FlushTail(tee))
         \/ tee' \in {EmptyTee("dropped"), FailedTee}
         \/ tee.state \in {"none", "failed"} /\ UNCHANGED tee
  BY DEF FinalizeTee
<1>2. CASE tee.state = "open" /\ tee' = Kept(FlushTail(tee))
  <2>1. tee \in Tees
    BY DEF CaptureInv, TypeOK
  <2>2. FlushTail(tee).file = CapTeeContent(tee.seen) /\ FlushTail(tee).seen = tee.seen
    BY <1>2, <2>1, FlushHolds DEF TeeFollows
  <2>3. tee'.state = "kept" /\ tee'.file = CapTeeContent(tee.seen) /\ tee'.seen = tee.seen
    BY <1>2, <2>2 DEF Kept
  <2>4. [s \in Streams |-> Teed(s)]' = [s \in Streams |-> Teed(s)]
    BY <1>1 DEF Teed
  <2>5. Interleaves(tee.seen, [s \in Streams |-> Teed(s)])
    BY <1>2 DEF TeeFollows
  <2>6. Interleaves(tee.seen, [s \in Streams |-> Teed(s)])'
    BY <2>3, <2>4, <2>5 DEF Interleaves
  <2> QED
    BY <1>1, <2>3, <2>6 DEF TeeFollows, CapTeeContent, Marker, LastOf
<1>3. CASE tee' \in {EmptyTee("dropped"), FailedTee}
  BY <1>3 DEF TeeFollows, FailedTee, EmptyTee
<1>4. CASE tee.state \in {"none", "failed"} /\ UNCHANGED tee
  BY <1>1, <1>4 DEF TeeFollows
<1> QED
  BY <1>1, <1>2, <1>3, <1>4

(* Every other step leaves the tee and what it was offered alone.          *)
LEMMA OtherTeed ==
  ASSUME CaptureInv, TeeFollows, [Next]_vars,
         ~ \E s \in Streams : ReadChunk(s) \/ WriteTee(s), ~FinalizeTee
  PROVE  TeeFollows'
<1>1. TypeOK /\ DOMAIN pc = Streams /\ DOMAIN col = Streams
  BY DEF CaptureInv, TypeOK
<1>2. ASSUME NEW s \in Streams, NEW label, label # "tee", pc[s] # "tee", Goto(s, label),
             UNCHANGED <<chunk, tee, main>>,
             \A r \in Streams : col'[r].bytes = col[r].bytes
      PROVE  TeeFollows'
  <2>1. pc' = [pc EXCEPT ![s] = label]
    BY <1>2 DEF Goto
  <2>2. \A r \in Streams : pc'[r] = "tee" <=> pc[r] = "tee"
    BY <1>1, <1>2, <2>1
  <2>3. \A r \in Streams : Teed(r)' = Teed(r)
    BY <1>2, <2>2 DEF Teed
  <2> QED
    BY <1>2, <2>2, <2>3, UnteedKeeps
<1>3. ASSUME NEW s \in Streams, Copy(s) PROVE TeeFollows'
  <2>1. CASE ReadEOF(s) \/ ReadError(s)
    BY <1>2, <2>1 DEF ReadEOF, ReadError
  <2>2. CASE CheckReducer(s)
    <3>1. (IF reducer.done THEN "tokens" ELSE "feed") # "tee"
      OBVIOUS
    <3> QED
      BY <1>2, <2>2, <3>1 DEF CheckReducer
  <2>3. CASE FeedReducer(s) \/ Publish(s)
    BY <1>2, <2>3 DEF FeedReducer, Publish
  <2>4. CASE DisableTokens(s)
    <3>1. \A r \in Streams : col'[r].bytes = col[r].bytes
      BY <1>1, <2>4 DEF DisableTokens, DisableTokenAccounting
    <3> QED
      BY <1>2, <2>4, <3>1 DEF DisableTokens
  <2>5. CASE StopCollector(s)
    <3>1. \A r \in Streams : col'[r].bytes = col[r].bytes
      BY <1>1, <2>5 DEF StopCollector, DisableTokenAccounting, DisableBuffering
    <3> QED
      BY <1>2, <2>5, <3>1 DEF StopCollector
  <2> QED
    BY <1>3, <2>1, <2>2, <2>3, <2>4, <2>5 DEF Copy
<1>4. ASSUME UNCHANGED <<pc, chunk, col, tee>>, tee.state = "kept" => UNCHANGED main
      PROVE  TeeFollows'
  <2>1. \A r \in Streams : Teed(r)' = Teed(r)
    BY <1>4 DEF Teed
  <2> QED
    BY <1>4, <2>1, UnteedKeeps
<1>5. tee.state = "kept" => main = "done"
  BY DEF TeeFollows
<1>6. CASE CommandExits \/ CommandBlocks
  BY <1>4, <1>6 DEF CommandExits, CommandBlocks
<1>7. CASE Wait \/ ReduceLater \/ PublishLater
  BY <1>4, <1>5, <1>7 DEF Wait, ReduceLater, PublishLater
<1>8. CASE Finished \/ UNCHANGED vars
  BY <1>4, <1>8 DEF Finished, vars
<1> QED
  BY <1>3, <1>6, <1>7, <1>8 DEF Next

(* What the tee holds follows what the goroutines have read, in whatever   *)
(* order they write and wherever a chunk crosses a limit.                  *)
THEOREM TeeInvariant == Spec => []TeeFollows
<1>1. Init => TeeFollows
  BY TeeInit
<1>2. CaptureInv /\ TeeFollows /\ [Next]_vars => TeeFollows'
  BY ReadChunkTeed, WriteTeeTeed, FinalizeTeed, OtherTeed
<1> QED
  BY <1>1, <1>2, CaptureInvariant, PTL DEF Spec

(* A kept tee file is the capped stream of the whole run: every byte that  *)
(* was read, once and in its stream's order, whatever failed and however   *)
(* the two goroutines took turns.                                          *)
THEOREM KeptTee == Spec => []KeptTeeHoldsRun
<1>1. CaptureInv /\ TeeFollows => KeptTeeHoldsRun
  <2> SUFFICES ASSUME CaptureInv, TeeFollows, tee.state = "kept"
               PROVE  /\ tee.file = CapTeeContent(tee.seen)
                      /\ Interleaves(tee.seen, [s \in Streams |-> col[s].bytes])
    BY DEF KeptTeeHoldsRun
  <2>1. main = "done" /\ tee.file = CapTeeContent(tee.seen)
        /\ Interleaves(tee.seen, [s \in Streams |-> Teed(s)])
    BY DEF TeeFollows
  <2>2. \A s \in Streams : pc[s] = "done"
    BY <2>1 DEF CaptureInv, ReducerFollows
  <2>3. \A s \in Streams : Teed(s) = col[s].bytes
    BY <2>2, TeeType DEF Teed, CaptureInv
  <2> QED
    BY <2>1, <2>3
<1> QED
  BY <1>1, CaptureInvariant, TeeInvariant, PTL
=============================================================================
