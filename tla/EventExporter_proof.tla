------------------------- MODULE EventExporter_proof -------------------------
(***************************************************************************)
(* Proofs about EventExporter, for every number of events, every length of *)
(* their lines, every size of the outbox and of a batch.  The shape of the *)
(* state is proved for any number of processes; what needs that no other   *)
(* process shares the outbox has Procs = {p} for a hypothesis: the process *)
(* may still die anywhere, and others follow it.                           *)
(***************************************************************************)
EXTENDS EventExporter, Foundations

-----------------------------------------------------------------------------
(* The invariants. *)

MainStates == [writes : BOOLEAN, data : Seq(Events)]
SenderStates == [at : {"idle", "sending", "accepted", "removing", "persist"},
                 batch : Seq(Events), data : Seq(Events), seen : Nat, last : BOOLEAN]

TypeOK ==
  /\ limit \in Limits /\ outbox \in Seq(Events) /\ status \in Nat
  /\ received \subseteq Events /\ stored \subseteq Events
  /\ next \in 1 .. MaxEvents + 1 /\ starts \in 0 .. MaxStarts
  /\ up \in [Procs -> {"down", "up", "closing"}]
  /\ main \in [Procs -> MainStates]
  /\ \A p \in Procs : main[p].writes => main[p].data # <<>>
  /\ sender \in [Procs -> SenderStates]
  /\ dropped \in [Procs -> Nat] /\ drops \in Nat

Ascending(q) == \A i, j \in DOMAIN q : i < j => q[i] < q[j]

(* The outbox lists events in the order they were enqueued.                *)
OutboxInv ==
  /\ Ascending(outbox)
  /\ \A e \in stored : e < next
  /\ EventsIn(outbox) \cup received \subseteq stored

(* data is what is left of lines when some give way for event e. *)
Replaces(data, lines, e) ==
  \E n \in 0 .. Len(lines) : data = Append(SubSeq(lines, n + 1, Len(lines)), e)

(* The outbox is as it was when append read it.                            *)
AppendInv(p) ==
  main[p].writes =>
    /\ sender[p].at # "removing"
    /\ next - 1 \in Events \ stored
    /\ Replaces(main[p].data, outbox, next - 1)

(* Of the batch, the first k lines gave way to later events, and the rest  *)
(* is at the front of the outbox.                                          *)
Overlap(lines, batch) ==
  \E k \in 0 .. Len(batch) :
    /\ \A i \in 1 .. Len(batch) - k : i <= Len(lines) /\ lines[i] = batch[i + k]
    /\ \A i \in 1 .. k : batch[i] \notin EventsIn(lines)

SendInv(p) ==
  /\ sender[p].at \in {"idle", "persist"} => sender[p].batch = <<>>
  /\ Ascending(sender[p].batch) /\ Overlap(outbox, sender[p].batch)
  /\ EventsIn(sender[p].batch) \subseteq stored
  /\ sender[p].at \in {"accepted", "removing"} => EventsIn(sender[p].batch) \subseteq received
  /\ sender[p].at = "removing" => sender[p].data = Remaining(p)

(* The events that are lost, or would be by what is under way: those that  *)
(* left the outbox unsent, the lines of the batch that gave way, since as  *)
(* many others go with the batch, and the lines about to give way.         *)
Doomed(p) ==
  (stored \ (received \cup EventsIn(outbox)))
  \cup (EventsIn(sender[p].batch) \ EventsIn(outbox))
  \cup (IF main[p].writes THEN EventsIn(outbox) \ EventsIn(main[p].data) ELSE {})

LossInv(p) == Cardinality(Doomed(p)) <= drops

OneProcessInv(p) == TypeOK /\ OutboxInv /\ AppendInv(p) /\ SendInv(p) /\ LossInv(p)

-----------------------------------------------------------------------------
(* Lines, and what they lose at the front. *)

(* The bounds are numbers, and events are numbers with a size.             *)
LEMMA EventsType ==
  /\ MaxEvents \in Nat /\ MaxStarts \in Nat /\ BatchSize \in Nat \ {0}
  /\ Events \subseteq Nat /\ IsFiniteSet(Events)
  /\ \A e \in Events : SizeOf[e] \in Nat /\ SizeOf[e] > 0
<1>1. IsFiniteSet(1 .. MaxEvents)
  <2>1. 1 \in Int /\ MaxEvents \in Int
    BY ExporterAssumption
  <2> QED
    BY <2>1, FS_Interval
<1> QED
  BY <1>1, ExporterAssumption DEF Events

(* A sequence of events and the set of them.                               *)
LEMMA LinesType ==
  ASSUME NEW q \in Seq(Events)
  PROVE  /\ Len(q) \in Nat /\ DOMAIN q = 1 .. Len(q)
         /\ \A i \in 1 .. Len(q) : q[i] \in Events /\ q[i] \in Nat
         /\ EventsIn(q) \subseteq Events
         /\ EventsIn(q) = {q[i] : i \in 1 .. Len(q)}
<1>1. Len(q) \in Nat /\ DOMAIN q = 1 .. Len(q) /\ \A i \in 1 .. Len(q) : q[i] \in Events
  OBVIOUS
<1> QED
  BY <1>1, EventsType DEF EventsIn

(* What is left of lines without the first k, whether there are so many or *)
(* not.                                                                    *)
LEMMA CutType ==
  ASSUME NEW S, NEW q \in Seq(S), NEW k \in Nat
  PROVE  /\ SubSeq(q, k + 1, Len(q)) \in Seq(S)
         /\ k <= Len(q) => Len(SubSeq(q, k + 1, Len(q))) = Len(q) - k
         /\ k >= Len(q) => Len(SubSeq(q, k + 1, Len(q))) = 0
         /\ \A i \in 1 .. Len(SubSeq(q, k + 1, Len(q))) :
              i + k \in 1 .. Len(q) /\ SubSeq(q, k + 1, Len(q))[i] = q[i + k]
<1>1. CASE k <= Len(q)
  <2>1. k \in 0 .. Len(q)
    BY <1>1
  <2> DEFINE r == SubSeq(q, k + 1, Len(q))
  <2>2. r \in Seq(S) /\ Len(r) = Len(q) - k /\ \A i \in 1 .. Len(q) - k : r[i] = q[i + k]
    BY <2>1, SuffixType
  <2> HIDE DEF r
  <2>3. Len(q) \in Nat
    OBVIOUS
  <2>4. /\ r \in Seq(S) /\ (k <= Len(q) => Len(r) = Len(q) - k) /\ (k >= Len(q) => Len(r) = 0)
        /\ \A i \in 1 .. Len(r) : i + k \in 1 .. Len(q) /\ r[i] = q[i + k]
    BY <1>1, <2>2, <2>3
  <2> QED
    BY <2>4 DEF r
<1>2. CASE k > Len(q)
  <2>1. SubSeq(q, k + 1, Len(q)) = <<>>
    BY <1>2
  <2>2. Len(q) \in Nat
    OBVIOUS
  <2> QED
    BY <1>2, <2>1, <2>2
<1> QED
  BY <1>1, <1>2

(* The tail that is kept of a queue keeps its order and loses only the     *)
(* front.                                                                  *)
LEMMA CutKeeps ==
  ASSUME NEW q \in Seq(Events), NEW k \in Nat
  PROVE  /\ EventsIn(SubSeq(q, k + 1, Len(q))) \subseteq EventsIn(q)
         /\ Ascending(q) => Ascending(SubSeq(q, k + 1, Len(q)))
         /\ \A i \in 1 .. Len(q) : i > k => q[i] \in EventsIn(SubSeq(q, k + 1, Len(q)))
         /\ Ascending(q) => \A i \in 1 .. Len(q) :
                              i <= k => q[i] \notin EventsIn(SubSeq(q, k + 1, Len(q)))
<1> DEFINE r == SubSeq(q, k + 1, Len(q))
<1>1. /\ r \in Seq(Events)
      /\ k <= Len(q) => Len(r) = Len(q) - k
      /\ \A i \in 1 .. Len(r) : i + k \in 1 .. Len(q) /\ r[i] = q[i + k]
  BY CutType
<1> HIDE DEF r
<1>2. /\ Len(q) \in Nat /\ DOMAIN q = 1 .. Len(q) /\ Len(r) \in Nat /\ DOMAIN r = 1 .. Len(r)
      /\ \A i \in 1 .. Len(q) : q[i] \in Nat
  BY <1>1, LinesType
<1> DEFINE m == Len(q)
           n == Len(r)
<1>3. /\ m \in Nat /\ DOMAIN q = 1 .. m /\ n \in Nat /\ DOMAIN r = 1 .. n
      /\ k <= m => n = m - k
      /\ \A i \in 1 .. n : i + k \in 1 .. m /\ r[i] = q[i + k]
      /\ \A i \in 1 .. m : q[i] \in Nat
  BY <1>1, <1>2
<1> HIDE DEF m, n
<1>4. EventsIn(r) \subseteq EventsIn(q)
  BY ONLY <1>3 DEF EventsIn
<1>5. Ascending(q) => Ascending(r)
  <2>0. DOMAIN r = 1 .. n
    BY <1>3
  <2> SUFFICES ASSUME Ascending(q), NEW i \in DOMAIN r, NEW j \in DOMAIN r, i < j
               PROVE  r[i] < r[j]
    BY DEF Ascending
  <2>1. i + k \in 1 .. m /\ j + k \in 1 .. m /\ i + k < j + k
    <3>1. i \in 1 .. n /\ j \in 1 .. n
      BY <2>0
    <3>2. i + k \in 1 .. m /\ j + k \in 1 .. m
      BY ONLY <1>3, <3>1
    <3>3. i \in Int /\ j \in Int /\ k \in Int
      BY <3>1, <1>3
    <3> QED
      BY ONLY <3>2, <3>3, i < j
  <2>2. q[i + k] < q[j + k]
    BY ONLY <1>3, <2>1, Ascending(q) DEF Ascending
  <2> QED
    BY <1>3, <2>0, <2>2
<1>6. ASSUME NEW i \in 1 .. m, i > k PROVE q[i] \in EventsIn(r)
  <2>1. i - k \in 1 .. n /\ i - k + k = i
    BY <1>3, <1>6
  <2>2. r[i - k] = q[i]
    BY <1>3, <2>1
  <2> QED
    BY <1>3, <2>1, <2>2 DEF EventsIn
<1>7. ASSUME Ascending(q), NEW i \in 1 .. m, i <= k PROVE q[i] \notin EventsIn(r)
  <2> SUFFICES ASSUME NEW j \in 1 .. n, q[i] = r[j] PROVE FALSE
    BY <1>3 DEF EventsIn
  <2>1. j + k \in 1 .. m /\ r[j] = q[j + k] /\ i < j + k
    BY <1>3, <1>7
  <2>2. q[i] < q[j + k]
    BY <1>3, <1>7, <2>1 DEF Ascending
  <2> QED
    BY <1>3, <2>1, <2>2
<1> QED
  BY <1>4, <1>5, <1>6, <1>7 DEF r, m

(* What append writes for event e, later than any before it.               *)
LEMMA ReplacesType ==
  ASSUME NEW q \in Seq(Events), NEW e \in Events, NEW k \in Nat
  PROVE  LET r == Append(SubSeq(q, k + 1, Len(q)), e) IN
         /\ r \in Seq(Events) /\ r # <<>> /\ r[Len(r)] = e
         /\ EventsIn(r) = EventsIn(SubSeq(q, k + 1, Len(q))) \cup {e}
         /\ Ascending(q) /\ (\A d \in EventsIn(q) : d < e) => Ascending(r)
<1> DEFINE c == SubSeq(q, k + 1, Len(q))
           r == Append(c, e)
<1>1. c \in Seq(Events) /\ EventsIn(c) \subseteq EventsIn(q) /\ (Ascending(q) => Ascending(c))
  BY CutType, CutKeeps
<1> HIDE DEF c
<1>2. /\ r \in Seq(Events) /\ r # <<>> /\ Len(r) = Len(c) + 1 /\ DOMAIN r = 1 .. Len(c) + 1
      /\ r[Len(c) + 1] = e /\ \A i \in 1 .. Len(c) : r[i] = c[i]
  BY <1>1
<1>3. Len(c) \in Nat /\ DOMAIN c = 1 .. Len(c) /\ \A i \in 1 .. Len(c) : c[i] \in Nat
  BY <1>1, LinesType
<1> DEFINE n == Len(c)
<1>4. /\ n \in Nat /\ DOMAIN c = 1 .. n /\ DOMAIN r = 1 .. n + 1 /\ Len(r) = n + 1
      /\ r[n + 1] = e /\ \A i \in 1 .. n : r[i] = c[i]
  BY <1>2, <1>3
<1> HIDE DEF n, r
<1>5. \A i \in 1 .. n + 1 : i = n + 1 \/ i \in 1 .. n
  BY <1>4
<1>6. \A i \in 1 .. n : i \in 1 .. n + 1
  BY <1>4
<1>7. n + 1 \in 1 .. n + 1
  BY <1>4
<1>8. EventsIn(r) = EventsIn(c) \cup {e}
  BY <1>4, <1>5, <1>6, <1>7 DEF EventsIn
<1>9. ASSUME Ascending(q), \A d \in EventsIn(q) : d < e PROVE Ascending(r)
  <2> SUFFICES ASSUME NEW i \in DOMAIN r, NEW j \in DOMAIN r, i < j PROVE r[i] < r[j]
    BY DEF Ascending
  <2>1. i \in 1 .. n + 1 /\ j \in 1 .. n + 1 /\ n \in Nat
    BY <1>4
  <2>2. i \in 1 .. n
    BY ONLY <2>1, i < j
  <2>3. CASE j = n + 1
    <3>1. c[i] \in EventsIn(c)
      BY <1>4, <2>2 DEF EventsIn
    <3> QED
      BY <1>1, <1>4, <1>9, <2>2, <2>3, <3>1
  <2>4. CASE j \in 1 .. n
    <3>1. c[i] < c[j]
      BY <1>1, <1>4, <1>9, <2>2, <2>4 DEF Ascending
    <3> QED
      BY <1>4, <2>2, <2>4, <3>1
  <2> QED
    BY <1>5, <2>1, <2>3, <2>4
<1> QED
  BY <1>2, <1>4, <1>8, <1>9 DEF r, c

(* The overlap of a batch that has just been taken, and of none at all.    *)
LEMMA PrefixOverlaps ==
  ASSUME NEW q \in Seq(Events), NEW n \in 0 .. Len(q), Ascending(q)
  PROVE  LET b == SubSeq(q, 1, n) IN
         /\ b \in Seq(Events) /\ Ascending(b) /\ Overlap(q, b) /\ EventsIn(b) \subseteq EventsIn(q)
         /\ Len(b) = n /\ \A i \in 1 .. n : b[i] = q[i]
<1> DEFINE b == SubSeq(q, 1, n)
<1>1. Len(q) \in Nat /\ n \in Nat /\ n <= Len(q) /\ DOMAIN q = 1 .. Len(q)
  BY LinesType
<1>2. b \in Seq(Events) /\ Len(b) = n /\ DOMAIN b = 1 .. n /\ \A i \in 1 .. n : b[i] = q[i]
  BY <1>1
<1> HIDE DEF b
<1>3. \A i \in 1 .. n : i \in 1 .. Len(q)
  BY <1>1
<1>4. Ascending(b) /\ EventsIn(b) \subseteq EventsIn(q)
  BY <1>1, <1>2, <1>3 DEF Ascending, EventsIn
<1>5. Overlap(q, b)
  <2>1. 0 \in 0 .. Len(b)
    BY <1>1, <1>2
  <2>2. \A i \in 1 .. Len(b) - 0 : i <= Len(q) /\ q[i] = b[i + 0]
    BY <1>1, <1>2
  <2>3. \A i \in 1 .. 0 : b[i] \notin EventsIn(q)
    OBVIOUS
  <2> QED
    BY ONLY <2>1, <2>2, <2>3 DEF Overlap
<1> QED
  BY <1>2, <1>4, <1>5 DEF b

(* Nothing overlaps an empty batch.                                        *)
LEMMA NothingOverlaps ==
  ASSUME NEW q
  PROVE  <<>> \in Seq(Events) /\ Ascending(<<>>) /\ Overlap(q, <<>>) /\ EventsIn(<<>>) = {}
<1>1. 0 \in 0 .. Len(<<>>) /\ (\A i \in 1 .. Len(<<>>) - 0 : FALSE) /\ (\A i \in 1 .. 0 : FALSE)
  OBVIOUS
<1>2. Overlap(q, <<>>)
  BY <1>1 DEF Overlap
<1> QED
  BY <1>2 DEF Ascending, EventsIn

(* What is left of a batch stays at the front when lines give way.         *)
LEMMA OverlapStays ==
  ASSUME NEW q \in Seq(Events), NEW b \in Seq(Events), NEW e \in Events, NEW n \in 0 .. Len(q),
         Ascending(q), e \notin EventsIn(b), Overlap(q, b)
  PROVE  Overlap(Append(SubSeq(q, n + 1, Len(q)), e), b)
<1> DEFINE c == SubSeq(q, n + 1, Len(q))
           r == Append(c, e)
           l == Len(q)
           m == Len(b)
<1>1. l \in Nat /\ m \in Nat /\ n \in Nat /\ n <= l
  OBVIOUS
<1>2. PICK k \in 0 .. m :
        /\ \A i \in 1 .. m - k : i <= l /\ q[i] = b[i + k]
        /\ \A i \in 1 .. k : b[i] \notin EventsIn(q)
  BY DEF Overlap
<1>3. c \in Seq(Events) /\ Len(c) = l - n /\ \A i \in 1 .. l - n : c[i] = q[i + n]
  <2>1. n \in 0 .. Len(q)
    OBVIOUS
  <2> QED
    BY <2>1, SuffixType
<1>4. /\ EventsIn(c) \subseteq EventsIn(q)
      /\ \A i \in 1 .. l : i <= n => q[i] \notin EventsIn(c)
  BY <1>1, CutKeeps
<1> HIDE DEF c
<1>5. Len(r) = l - n + 1 /\ \A i \in 1 .. l - n : r[i] = q[i + n]
  BY <1>1, <1>3
<1>6. EventsIn(r) = EventsIn(c) \cup {e}
  BY <1>1, ReplacesType DEF c
<1>7. \A i \in 1 .. m : b[i] # e
  BY DEF EventsIn
<1> HIDE DEF r, l, m
<1>8. ASSUME NEW i \in 1 .. m, i <= k + n PROVE b[i] \notin EventsIn(r)
  <2>1. CASE i <= k
    <3>1. b[i] \notin EventsIn(q)
      BY <1>1, <1>2, <2>1
    <3> QED
      BY <1>4, <1>6, <1>7, <3>1
  <2>2. CASE i > k
    <3>1. i - k \in 1 .. m - k /\ i - k + k = i /\ i - k <= n
      BY <1>1, <1>2, <1>8, <2>2
    <3>2. i - k <= l /\ q[i - k] = b[i]
      BY <1>2, <3>1
    <3>3. i - k \in 1 .. l
      BY <1>1, <1>2, <3>1, <3>2
    <3>4. q[i - k] \notin EventsIn(c)
      BY <1>4, <3>1, <3>3
    <3> QED
      BY <1>6, <1>7, <3>2, <3>4
  <2> QED
    BY <1>1, <1>2, <2>1, <2>2
<1>9. ASSUME k + n <= m PROVE Overlap(r, b)
  <2>1. k + n \in 0 .. m
    BY <1>1, <1>2, <1>9
  <2>2. ASSUME NEW i \in 1 .. m - (k + n)
        PROVE  i <= Len(r) /\ r[i] = b[i + (k + n)]
    <3>1. i + n \in 1 .. m - k /\ i + n + k = i + (k + n)
      BY <1>1, <1>2
    <3>2. i + n <= l /\ q[i + n] = b[i + n + k]
      BY <1>2, <3>1
    <3>3. i \in 1 .. l - n
      BY <1>1, <1>2, <3>2
    <3> QED
      BY <1>1, <1>5, <3>1, <3>2, <3>3
  <2>3. \A i \in 1 .. k + n : b[i] \notin EventsIn(r)
    BY <1>1, <1>2, <1>8, <1>9
  <2> QED
    BY ONLY <2>1, <2>2, <2>3 DEF Overlap, m
<1>10. ASSUME k + n > m PROVE Overlap(r, b)
  <2>1. m \in 0 .. m /\ (\A i \in 1 .. m - m : FALSE)
    BY <1>1
  <2>2. \A i \in 1 .. m : b[i] \notin EventsIn(r)
    BY <1>1, <1>2, <1>8, <1>10
  <2> QED
    BY <2>1, <2>2 DEF Overlap, m
<1> QED
  BY <1>1, <1>2, <1>9, <1>10 DEF r, c

-----------------------------------------------------------------------------
(* The shape of the state, for any number of processes. *)

(* What a recording process is about to write.                             *)
LEMMA WritingType ==
  /\ Nothing \in MainStates /\ Nothing.writes = FALSE
  /\ \A data \in Seq(Events) : /\ Writing(data) \in MainStates
                               /\ Writing(data).writes = TRUE
                               /\ Writing(data).data = data
BY DEF Nothing, Writing, MainStates

(* What a sender is about.                                                 *)
LEMMA SenderType ==
  ASSUME NEW at \in {"idle", "sending", "accepted", "removing", "persist"},
         NEW batch \in Seq(Events), NEW data \in Seq(Events), NEW seen \in Nat,
         NEW last \in BOOLEAN
  PROVE  /\ Sender(at, batch, data, seen, last) \in SenderStates
         /\ Sender(at, batch, data, seen, last).at = at
         /\ Sender(at, batch, data, seen, last).batch = batch
         /\ Sender(at, batch, data, seen, last).data = data
BY DEF Sender, SenderStates

(* A sender at rest has no batch.                                          *)
LEMMA AsleepType ==
  Asleep \in SenderStates /\ Asleep.at = "idle" /\ Asleep.batch = <<>>
BY DEF Asleep, Sender, SenderStates

(* What the records of a process hold.                                     *)
LEMMA StatesType ==
  ASSUME TypeOK, NEW p \in Procs
  PROVE  /\ main[p] \in MainStates /\ sender[p] \in SenderStates
         /\ main[p].writes \in BOOLEAN /\ main[p].data \in Seq(Events)
         /\ sender[p].at \in {"idle", "sending", "accepted", "removing", "persist"}
         /\ sender[p].batch \in Seq(Events) /\ sender[p].data \in Seq(Events)
         /\ sender[p].seen \in Nat /\ sender[p].last \in BOOLEAN
         /\ dropped[p] \in Nat /\ up[p] \in {"down", "up", "closing"}
BY DEF TypeOK, MainStates, SenderStates

(* Counting lost events adds up and stays in type.                         *)
LEMMA CountType ==
  ASSUME TypeOK, NEW p \in Procs, NEW n \in Nat, Count(p, n)
  PROVE  /\ drops' = drops + n /\ drops' \in Nat /\ dropped' \in [Procs -> Nat]
         /\ status' \in Nat
BY DEF TypeOK, Count

(* Some number of lines gives way, if need be all of them.                 *)
LEMMA PrunedType ==
  ASSUME outbox \in Seq(Events), NEW e
  PROVE  /\ Pruned(e) \in 0 .. Len(outbox)
         /\ Room(e, 0) => Pruned(e) = 0
<1> DEFINE T == {n \in 0 .. Len(outbox) : n = Len(outbox) \/ Room(e, n)}
           P(n) == /\ n = Len(outbox) \/ Room(e, n)
                   /\ \A k \in 0 .. n - 1 : ~Room(e, k)
<1>1. Len(outbox) \in Nat
  OBVIOUS
<1>2. T \in SUBSET Nat /\ T # {}
  BY <1>1
<1>3. PICK n \in T : \A k \in T : n <= k
  <2> HIDE DEF T
  <2> QED BY <1>2, LeastNatural
<1>4. n \in 0 .. Len(outbox) /\ P(n)
  <2>1. n \in 0 .. Len(outbox) /\ (n = Len(outbox) \/ Room(e, n))
    OBVIOUS
  <2>2. ASSUME NEW k \in 0 .. n - 1, Room(e, k) PROVE FALSE
    <3>1. k \in 0 .. Len(outbox) /\ ~(n <= k)
      BY <1>1, <2>1
    <3>2. k \in T
      BY <2>2, <3>1
    <3> HIDE DEF T
    <3> QED
      BY <1>3, <3>1, <3>2
  <2> QED
    BY <2>1, <2>2
<1>5. Pruned(e) = CHOOSE k \in 0 .. Len(outbox) : P(k)
  BY DEF Pruned
<1>6. Pruned(e) \in 0 .. Len(outbox) /\ P(Pruned(e))
  <2> HIDE DEF P, T
  <2> QED BY <1>4, <1>5
<1>7. Room(e, 0) => Pruned(e) = 0
  <2> SUFFICES ASSUME Room(e, 0), Pruned(e) # 0 PROVE FALSE
    OBVIOUS
  <2>1. 0 \in 0 .. Pruned(e) - 1
    BY <1>1, <1>6
  <2> QED
    BY <1>6, <2>1
<1> QED
  BY <1>6, <1>7

(* The types hold at first.                                                *)
LEMMA TypeInit == Init => TypeOK
<1> SUFFICES ASSUME Init PROVE TypeOK
  OBVIOUS
<1>1. main \in [Procs -> MainStates] /\ \A p \in Procs : ~main[p].writes
  BY WritingType DEF Init
<1>2. sender \in [Procs -> SenderStates]
  BY AsleepType DEF Init
<1>3. up \in [Procs -> {"down", "up", "closing"}] /\ dropped \in [Procs -> Nat]
  BY DEF Init
<1>4. outbox \in Seq(Events)
  BY DEF Init
<1>5. next \in 1 .. MaxEvents + 1 /\ starts \in 0 .. MaxStarts
  BY EventsType DEF Init
<1> QED
  BY <1>1, <1>2, <1>3, <1>4, <1>5 DEF Init, TypeOK

(* Reading the outbox before an append keeps the types.                    *)
LEMMA AppendReadTypes == ASSUME TypeOK, NEW p \in Procs, AppendRead(p) PROVE TypeOK'
<1>1. /\ next \in Events /\ next' = next + 1
      /\ UNCHANGED <<limit, outbox, received, starts, up, sender, stored>>
  BY DEF AppendRead
<1>2. next' \in 1 .. MaxEvents + 1
  BY <1>1, EventsType DEF Events
<1>3. Pruned(next) \in 0 .. Len(outbox) /\ Pruned(next) \in Nat /\ Pruned(next) + 1 \in Nat
  <2>1. Pruned(next) \in 0 .. Len(outbox)
    BY PrunedType DEF TypeOK
  <2> QED
    BY <2>1
<1>4. drops' \in Nat /\ dropped' \in [Procs -> Nat] /\ status' \in Nat
  BY <1>3, CountType DEF AppendRead
<1>5. main' \in [Procs -> MainStates] /\ \A q \in Procs : main'[q].writes => main'[q].data # <<>>
  <2>1. CASE SizeOf[next] > limit
    BY <2>1 DEF AppendRead, TypeOK
  <2>2. CASE ~(SizeOf[next] > limit)
    <3> DEFINE data == WithRoomFor(next)
    <3>1. data \in Seq(Events) /\ data # <<>>
      BY <1>1, <1>3, ReplacesType DEF WithRoomFor, TypeOK
    <3> HIDE DEF data
    <3>2. main' = [main EXCEPT ![p] = Writing(data)]
      BY <2>2 DEF AppendRead, data
    <3> QED
      BY <3>1, <3>2, WritingType DEF TypeOK
  <2> QED
    BY <2>1, <2>2
<1> QED
  BY <1>1, <1>2, <1>4, <1>5 DEF TypeOK

(* Writing it back keeps them.                                             *)
LEMMA AppendWriteTypes == ASSUME TypeOK, NEW p \in Procs, AppendWrite(p) PROVE TypeOK'
<1> DEFINE data == main[p].data
<1>1. /\ data \in Seq(Events) /\ data # <<>>
      /\ outbox' = data /\ stored' = stored \cup {data[Len(data)]}
      /\ UNCHANGED <<limit, status, received, next, starts, up, sender, dropped, drops>>
      /\ main' = [main EXCEPT ![p] = Nothing]
  BY StatesType DEF AppendWrite, TypeOK
<1> HIDE DEF data
<1>2. data[Len(data)] \in Events
  BY <1>1
<1>3. main' \in [Procs -> MainStates] /\ \A q \in Procs : main'[q].writes => main'[q].data # <<>>
  BY <1>1, WritingType DEF TypeOK
<1> QED
  BY <1>1, <1>2, <1>3 DEF TypeOK

(* A step of the sender that leaves most of the state alone.               *)
LEMMA MoveTypes ==
  ASSUME TypeOK, NEW p \in Procs, NEW s \in SenderStates, Move(p, s),
         outbox' \in Seq(Events), received' \subseteq Events, status' \in Nat,
         up' \in [Procs -> {"down", "up", "closing"}],
         UNCHANGED <<limit, next, starts, main, dropped, stored, drops>>
  PROVE  TypeOK'
BY DEF TypeOK, Move

(* The count that is about to be persisted is a number.                    *)
LEMMA RecordType ==
  ASSUME TypeOK, NEW p \in Procs, NEW last \in BOOLEAN
  PROVE  Sender("persist", <<>>, <<>>, dropped[p], last) \in SenderStates
<1>1. <<>> \in Seq(Events) /\ dropped[p] \in Nat
  BY StatesType
<1> QED
  BY ONLY <1>1, last \in BOOLEAN, SenderType

(* As many lines from the front as were sent, or all there are. *)
LEMMA RemainingType ==
  ASSUME TypeOK, NEW p \in Procs
  PROVE  Remaining(p) \in Seq(Events)
<1>1. outbox \in Seq(Events) /\ Len(sender[p].batch) \in Nat
  BY StatesType DEF TypeOK
<1> DEFINE k == Len(sender[p].batch)
<1> HIDE DEF k
<1>2. SubSeq(outbox, k + 1, Len(outbox)) \in Seq(Events)
  BY <1>1, CutType DEF k
<1> QED
  BY <1>2 DEF Remaining, k

(* Starting to send, or failing to, keeps the types.                       *)
LEMMA FlushTypes ==
  ASSUME TypeOK, NEW p \in Procs, Flush(p) \/ FlushFails(p) PROVE TypeOK'
<1>1. UNCHANGED <<limit, outbox, status, received, next, starts, main, dropped, stored, drops>>
  BY DEF Flush, FlushFails
<1>2. outbox \in Seq(Events) /\ <<>> \in Seq(Events) /\ Batch \in Seq(Events)
  <2>1. outbox \in Seq(Events) /\ BatchSize \in Nat
    BY EventsType DEF TypeOK
  <2> QED
    BY <2>1 DEF Batch
<1>3. PICK last \in BOOLEAN :
        \/ UNCHANGED sender /\ up' = [up EXCEPT ![p] = "down"]
        \/ Move(p, Sender("sending", Batch, <<>>, 0, last)) /\ UNCHANGED up
        \/ Move(p, Sender("persist", <<>>, <<>>, dropped[p], last)) /\ UNCHANGED up
  <2>1. CASE Flush(p)
    BY <2>1 DEF Flush
  <2>2. CASE FlushFails(p)
    BY <2>2 DEF FlushFails
  <2> QED
    BY <2>1, <2>2
<1>4. CASE UNCHANGED sender /\ up' = [up EXCEPT ![p] = "down"]
  BY <1>1, <1>4 DEF TypeOK
<1>5. CASE Move(p, Sender("sending", Batch, <<>>, 0, last)) /\ UNCHANGED up
  <2>1. Sender("sending", Batch, <<>>, 0, last) \in SenderStates
    BY <1>2, SenderType
  <2> QED
    BY <1>1, <1>5, <2>1, MoveTypes DEF TypeOK
<1>6. CASE Move(p, Sender("persist", <<>>, <<>>, dropped[p], last)) /\ UNCHANGED up
  BY <1>1, <1>6, RecordType, MoveTypes DEF TypeOK
<1> QED
  BY <1>3, <1>4, <1>5, <1>6

(* The answer of the sink, or its loss, keeps the types.                   *)
LEMMA SendTypes ==
  ASSUME TypeOK, NEW p \in Procs, Accepted(p) \/ AnswerLost(p) \/ Rejected(p) PROVE TypeOK'
<1>1. UNCHANGED <<limit, outbox, status, next, starts, up, main, dropped, stored, drops>>
  BY DEF Accepted, AnswerLost, Rejected, Sending
<1>2. /\ sender[p].batch \in Seq(Events) /\ sender[p].last \in BOOLEAN /\ <<>> \in Seq(Events)
      /\ EventsIn(sender[p].batch) \subseteq Events
  BY StatesType, LinesType
<1>3. received' \subseteq Events
  BY <1>2 DEF Accepted, AnswerLost, Rejected, TypeOK
<1>4. \E s \in SenderStates : Move(p, s)
  <2>1. CASE Accepted(p)
    BY <1>2, <2>1, SenderType DEF Accepted
  <2>2. CASE AnswerLost(p) \/ Rejected(p)
    BY <1>2, <2>2, RecordType DEF AnswerLost, Rejected, Record
  <2> QED
    BY <2>1, <2>2
<1> QED
  BY <1>1, <1>3, <1>4, MoveTypes DEF TypeOK

(* Removing what was sent keeps the types.                                 *)
LEMMA RemoveTypes ==
  ASSUME TypeOK, NEW p \in Procs, RemoveRead(p) \/ RemoveWrite(p) \/ RemoveFails(p) PROVE TypeOK'
<1>1. UNCHANGED <<limit, status, received, next, starts, up, main, dropped, stored, drops>>
  BY DEF RemoveRead, RemoveWrite, RemoveFails
<1>2. /\ sender[p].batch \in Seq(Events) /\ sender[p].data \in Seq(Events)
      /\ sender[p].last \in BOOLEAN
  BY StatesType
<1>3. Remaining(p) \in Seq(Events)
  BY RemainingType
<1>4. outbox' \in Seq(Events)
  BY <1>2 DEF RemoveRead, RemoveWrite, RemoveFails, TypeOK
<1>5. \E s \in SenderStates : Move(p, s)
  <2>1. CASE RemoveRead(p)
    BY <1>2, <1>3, <2>1, SenderType DEF RemoveRead
  <2>2. CASE RemoveWrite(p) \/ RemoveFails(p)
    BY <1>2, <2>2, RecordType DEF RemoveWrite, RemoveFails, Record
  <2> QED
    BY <2>1, <2>2
<1> QED
  BY <1>1, <1>4, <1>5, MoveTypes DEF TypeOK

(* Saving the status keeps the types.                                      *)
LEMMA PersistStatusTypes == ASSUME TypeOK, NEW p \in Procs, PersistStatus(p) PROVE TypeOK'
<1>1. /\ UNCHANGED <<limit, outbox, received, next, starts, main, dropped, stored, drops>>
      /\ status' = sender[p].seen /\ Move(p, Asleep)
  BY DEF PersistStatus, Finish
<1>2. up' \in [Procs -> {"down", "up", "closing"}]
  BY DEF PersistStatus, Finish, TypeOK
<1> QED
  BY <1>1, <1>2, StatesType, AsleepType, MoveTypes DEF TypeOK

(* Every step keeps the types.                                             *)
LEMMA TypeStep == TypeOK /\ [Next]_vars => TypeOK'
<1> SUFFICES ASSUME TypeOK, [Next]_vars PROVE TypeOK'
  OBVIOUS
<1>1. CASE UNCHANGED vars
  BY <1>1 DEF vars, TypeOK
<1>2. ASSUME NEW p \in Procs, Open(p) \/ Close(p) PROVE TypeOK'
  <2>1. CASE Open(p)
    <3>1. starts' \in 0 .. MaxStarts
      BY <2>1, EventsType DEF Open, TypeOK
    <3> QED
      BY <2>1, <3>1 DEF Open, TypeOK
  <2>2. CASE Close(p)
    BY <2>2 DEF Close, TypeOK
  <2> QED
    BY <1>2, <2>1, <2>2
<1>3. ASSUME NEW p \in Procs, Crash(p) PROVE TypeOK'
  <2>1. sender' \in [Procs -> SenderStates]
    BY <1>3, AsleepType DEF Crash, TypeOK
  <2>2. /\ main' \in [Procs -> MainStates]
        /\ \A q \in Procs : main'[q].writes => main'[q].data # <<>>
    BY <1>3, WritingType DEF Crash, TypeOK
  <2> QED
    BY <1>3, <2>1, <2>2 DEF Crash, TypeOK
<1>4. ASSUME NEW p \in Procs, AppendReadFails(p) PROVE TypeOK'
  <2>1. next' \in 1 .. MaxEvents + 1
    BY <1>4, EventsType DEF AppendReadFails, Events
  <2>2. drops' \in Nat /\ dropped' \in [Procs -> Nat] /\ status' \in Nat
    BY <1>4, CountType DEF AppendReadFails
  <2> QED
    BY <1>4, <2>1, <2>2 DEF AppendReadFails, TypeOK
<1>5. ASSUME NEW p \in Procs, AppendFails(p) PROVE TypeOK'
  <2>1. /\ main' \in [Procs -> MainStates]
        /\ \A q \in Procs : main'[q].writes => main'[q].data # <<>>
    BY <1>5, WritingType DEF AppendFails, TypeOK
  <2>2. drops' \in Nat /\ dropped' \in [Procs -> Nat] /\ status' \in Nat
    BY <1>5, CountType DEF AppendFails
  <2> QED
    BY <1>5, <2>1, <2>2 DEF AppendFails, TypeOK
<1> QED
  BY <1>1, <1>2, <1>3, <1>4, <1>5, AppendReadTypes, AppendWriteTypes, FlushTypes, SendTypes,
     RemoveTypes, PersistStatusTypes DEF Next, Step

(* The state has the shape of its types, however many processes share the  *)
(* outbox: what append makes room for fits a CHOOSE that always has a      *)
(* witness, and removing more lines than are left leaves none.             *)
THEOREM ExporterTypes == Spec => []TypeOK
BY TypeInit, TypeStep, PTL DEF Spec

-----------------------------------------------------------------------------
(* What one process at a time loses. *)

(* A part of the events is finite and has no more of them.                 *)
LEMMA Fewer ==
  ASSUME NEW A \in SUBSET Events, NEW B \in SUBSET A
  PROVE  /\ IsFiniteSet(A) /\ IsFiniteSet(B)
         /\ Cardinality(A) \in Nat /\ Cardinality(B) \in Nat
         /\ Cardinality(B) <= Cardinality(A)
BY EventsType, FS_Subset, FS_CardinalityType

(* What is about to be dropped are events.                                 *)
LEMMA DoomedType ==
  ASSUME TypeOK, NEW p \in Procs
  PROVE  Doomed(p) \subseteq Events
<1>1. EventsIn(outbox) \subseteq Events /\ EventsIn(sender[p].batch) \subseteq Events
  BY StatesType, LinesType DEF TypeOK
<1> QED
  BY <1>1 DEF Doomed, TypeOK

(* Losses are no more than before.                                         *)
LEMMA LossKept ==
  ASSUME NEW p \in Procs, TypeOK, TypeOK', LossInv(p), Doomed(p)' \subseteq Doomed(p),
         drops' >= drops
  PROVE  LossInv(p)'
<1>1. Cardinality(Doomed(p)') \in Nat /\ Cardinality(Doomed(p)) \in Nat
      /\ Cardinality(Doomed(p)') <= Cardinality(Doomed(p))
  BY DoomedType, Fewer
<1>2. drops \in Nat /\ drops' \in Nat
  BY DEF TypeOK
<1> QED
  BY <1>1, <1>2 DEF LossInv

(* Nothing is stored, sent or lost at first.                               *)
LEMMA OneProcessInit == ASSUME NEW p \in Procs, Init PROVE OneProcessInv(p)
<1>1. /\ outbox = <<>> /\ stored = {} /\ received = {} /\ drops = 0
      /\ main[p] = Nothing /\ sender[p] = Asleep
  BY DEF Init
<1>2. /\ ~main[p].writes /\ sender[p].batch = <<>> /\ sender[p].at = "idle"
      /\ EventsIn(<<>>) = {} /\ Ascending(<<>>) /\ Overlap(<<>>, <<>>)
  BY <1>1, WritingType, AsleepType, NothingOverlaps
<1>3. OutboxInv /\ AppendInv(p) /\ SendInv(p)
  BY <1>1, <1>2 DEF OutboxInv, AppendInv, SendInv
<1>4. Doomed(p) = {}
  BY <1>1, <1>2 DEF Doomed
<1>5. LossInv(p)
  BY <1>1, <1>4, FS_EmptySet DEF LossInv
<1> QED
  BY <1>3, <1>5, TypeInit DEF OneProcessInv

(* A step that leaves the outbox alone, and of the goroutines at most ends *)
(* what they do.                                                           *)
LEMMA QuietKeeps ==
  ASSUME NEW p \in Procs, OneProcessInv(p), TypeOK',
         outbox' = outbox, stored' = stored,
         received \subseteq received', received' \subseteq stored,
         drops' >= drops, next' >= next,
         ~main'[p].writes \/ (main'[p] = main[p] /\ next' = next),
         \/ sender'[p] = sender[p]
         \/ sender'[p].at \in {"idle", "persist"} /\ sender'[p].batch = <<>>
  PROVE  OneProcessInv(p)'
<1>1. TypeOK /\ OutboxInv /\ AppendInv(p) /\ SendInv(p) /\ LossInv(p)
  BY DEF OneProcessInv
<1>2. next \in Int /\ next' \in Int /\ \A e \in stored : e \in Int
  BY <1>1, EventsType DEF TypeOK, Events
<1>3. OutboxInv'
  BY <1>1, <1>2 DEF OutboxInv
<1>4. AppendInv(p)'
  BY <1>1 DEF AppendInv
<1>5. SendInv(p)'
  <2>1. CASE sender'[p] = sender[p]
    BY <1>1, <2>1 DEF SendInv, Remaining
  <2>2. CASE sender'[p].at \in {"idle", "persist"} /\ sender'[p].batch = <<>>
    BY <2>2, NothingOverlaps DEF SendInv
  <2> QED
    BY <2>1, <2>2
<1>6. Doomed(p)' \subseteq Doomed(p)
  <2>1. EventsIn(sender'[p].batch) \subseteq EventsIn(sender[p].batch)
    BY NothingOverlaps
  <2> QED
    BY <2>1 DEF Doomed
<1>7. LossInv(p)'
  BY <1>1, <1>6, LossKept
<1> QED
  BY <1>3, <1>4, <1>5, <1>7 DEF OneProcessInv

Quiet(p) ==
  \/ Open(p) \/ Close(p) \/ Crash(p) \/ AppendReadFails(p) \/ AppendFails(p)
  \/ FlushFails(p) \/ AnswerLost(p) \/ Rejected(p) \/ RemoveFails(p) \/ PersistStatus(p)
  \/ UNCHANGED vars

(* The steps that write neither the outbox nor a batch change nothing of   *)
(* the account.                                                            *)
LEMMA QuietSteps ==
  ASSUME NEW p \in Procs, OneProcessInv(p), Quiet(p)
  PROVE  /\ outbox' = outbox /\ stored' = stored /\ limit' = limit
         /\ received \subseteq received' /\ received' \subseteq stored
         /\ drops' >= drops /\ next' >= next
         /\ ~main'[p].writes \/ (main'[p] = main[p] /\ next' = next)
         /\ \/ sender'[p] = sender[p]
            \/ sender'[p].at \in {"idle", "persist"} /\ sender'[p].batch = <<>>
<1> USE DEF Quiet
<1>1. TypeOK /\ OutboxInv /\ SendInv(p) /\ next \in Int /\ drops \in Nat
  BY DEF OneProcessInv, TypeOK
<1>2. main \in [Procs -> MainStates] /\ sender \in [Procs -> SenderStates]
  BY <1>1 DEF TypeOK
<1>3. outbox' = outbox /\ stored' = stored /\ limit' = limit
  BY DEF Open, Close, Crash, AppendReadFails, AppendFails, FlushFails, AnswerLost, Rejected,
         RemoveFails, PersistStatus, Sending, vars
<1>4. received \subseteq received' /\ received' \subseteq stored
  BY <1>1 DEF Open, Close, Crash, AppendReadFails, AppendFails, FlushFails, AnswerLost, Rejected,
         RemoveFails, PersistStatus, Sending, vars, OutboxInv, SendInv
<1>5. drops' >= drops
  <2>1. CASE AppendReadFails(p) \/ AppendFails(p)
    BY <1>1, <2>1 DEF AppendReadFails, AppendFails, Count
  <2>2. CASE ~(AppendReadFails(p) \/ AppendFails(p))
    <3>1. drops' = drops
      BY <2>2 DEF Open, Close, Crash, FlushFails, AnswerLost, Rejected, RemoveFails,
                  PersistStatus, Sending, vars
    <3> QED
      BY ONLY <1>1, <3>1
  <2> QED
    BY <2>1, <2>2
<1>6. /\ next' >= next
      /\ ~main'[p].writes \/ (main'[p] = main[p] /\ next' = next)
  <2>1. CASE Crash(p) \/ AppendFails(p)
    BY <1>1, <1>2, <2>1, WritingType DEF Crash, AppendFails
  <2>2. CASE AppendReadFails(p)
    BY <1>1, <2>2 DEF AppendReadFails, OutboxFree
  <2>3. CASE ~(Crash(p) \/ AppendFails(p) \/ AppendReadFails(p))
    <3>1. main' = main /\ next' = next
      BY <2>3 DEF Open, Close, FlushFails, AnswerLost, Rejected, RemoveFails,
                  PersistStatus, Sending, vars
    <3> QED
      BY ONLY <1>1, <3>1
  <2> QED
    BY <2>1, <2>2, <2>3
<1>7. \/ sender'[p] = sender[p]
      \/ sender'[p].at \in {"idle", "persist"} /\ sender'[p].batch = <<>>
  <2>1. CASE Crash(p) \/ PersistStatus(p)
    BY <1>2, <2>1, AsleepType DEF Crash, PersistStatus, Finish, Move
  <2>2. CASE FlushFails(p) \/ AnswerLost(p) \/ Rejected(p) \/ RemoveFails(p)
    <3>1. PICK last : sender' = [sender EXCEPT ![p] = Sender("persist", <<>>, <<>>, dropped[p], last)]
      BY <2>2 DEF FlushFails, AnswerLost, Rejected, RemoveFails, Record, Move
    <3> QED
      BY <1>2, <3>1 DEF Sender
  <2>3. CASE ~(Crash(p) \/ PersistStatus(p) \/ FlushFails(p) \/ AnswerLost(p) \/ Rejected(p)
               \/ RemoveFails(p))
    BY <2>3 DEF Open, Close, AppendReadFails, AppendFails, vars
  <2> QED
    BY <2>1, <2>2, <2>3
<1> QED
  BY <1>3, <1>4, <1>5, <1>6, <1>7

(* How many events a stretch of lines lists.                               *)
LEMMA StretchCount ==
  ASSUME NEW q \in Seq(Events), NEW a \in Nat, NEW n \in Nat, a + n <= Len(q)
  PROVE  LET X == {q[i] : i \in a + 1 .. a + n} IN
         /\ X \subseteq Events /\ IsFiniteSet(X) /\ Cardinality(X) \in Nat /\ Cardinality(X) <= n
         /\ Ascending(q) => Cardinality(X) = n
<1> DEFINE I == a + 1 .. a + n
           X == {q[i] : i \in I}
           f == [i \in I |-> q[i]]
<1>1. IsFiniteSet(I) /\ Cardinality(I) = n
  <2>1. a + 1 \in Int /\ a + n \in Int
    OBVIOUS
  <2>2. IsFiniteSet(I) /\ Cardinality(I) = IF a + 1 > a + n THEN 0 ELSE a + n - (a + 1) + 1
    BY <2>1, FS_Interval
  <2> QED
    BY <2>2
<1>2. f \in Surjection(I, X)
  BY DEF Surjection
<1>3. \A i \in I : i \in DOMAIN q /\ i \in Nat /\ q[i] \in Events /\ q[i] \in Nat
  BY LinesType
<1>4. Ascending(q) => f \in Injection(I, X)
  <2> SUFFICES ASSUME Ascending(q), NEW i \in I, NEW j \in I, q[i] = q[j] PROVE i = j
    BY DEF Injection, IsInjective
  <2>1. i < j => q[i] < q[j]
    BY <1>3 DEF Ascending
  <2>2. j < i => q[j] < q[i]
    BY <1>3 DEF Ascending
  <2> QED
    BY <1>3, <2>1, <2>2
<1>5. X \subseteq Events
  BY <1>3
<1> HIDE DEF X, f, I
<1>6. /\ IsFiniteSet(X) /\ Cardinality(X) <= Cardinality(I)
      /\ Cardinality(X) = Cardinality(I) <=> f \in Injection(I, X)
  BY <1>1, <1>2, FS_Surjection
<1>7. Cardinality(X) \in Nat
  BY <1>6, FS_CardinalityType
<1> QED
  BY <1>1, <1>4, <1>5, <1>6, <1>7 DEF X, I

(* What gives way is counted before it is gone.                            *)
LEMMA AppendReadSafe ==
  ASSUME NEW p \in Procs, OneProcessInv(p), TypeOK', AppendRead(p)
  PROVE  OneProcessInv(p)'
<1>1. /\ TypeOK /\ OutboxInv /\ SendInv(p) /\ LossInv(p)
      /\ outbox \in Seq(Events) /\ next \in Events /\ next \in Int
      /\ drops \in Nat /\ drops' \in Nat /\ main \in [Procs -> MainStates]
  BY DEF OneProcessInv, TypeOK, AppendRead
<1>2. /\ next' = next + 1 /\ UNCHANGED <<outbox, received, sender, stored>>
      /\ ~main[p].writes /\ sender[p].at # "removing"
  BY DEF AppendRead, OutboxFree
<1>3. Pruned(next) \in 0 .. Len(outbox) /\ Pruned(next) \in Nat
  <2>1. Pruned(next) \in 0 .. Len(outbox)
    BY <1>1, PrunedType
  <2> QED
    BY <2>1
<1>4. CASE SizeOf[next] > limit
  <2>1. main' = main /\ drops' = drops + (Pruned(next) + 1)
    BY <1>4 DEF AppendRead, Count
  <2>2. drops' >= drops /\ next' >= next
    BY <1>1, <1>2, <1>3, <2>1
  <2> QED
    BY <1>1, <1>2, <2>1, <2>2, QuietKeeps DEF OutboxInv
<1>5. CASE ~(SizeOf[next] > limit)
  <2> DEFINE n == Pruned(next)
             data == Append(SubSeq(outbox, n + 1, Len(outbox)), next)
             gone == {outbox[i] : i \in 0 + 1 .. 0 + n}
  <2>1. drops' = drops + n /\ main' = [main EXCEPT ![p] = Writing(data)]
    BY <1>5 DEF AppendRead, Count, WithRoomFor
  <2>2. n \in 0 .. Len(outbox) /\ n \in Nat
    BY <1>3
  <2> HIDE DEF n
  <2>3. /\ data \in Seq(Events)
        /\ EventsIn(data) = EventsIn(SubSeq(outbox, n + 1, Len(outbox))) \cup {next}
    BY <1>1, <2>2, ReplacesType
  <2>4. Replaces(data, outbox, next)
    BY <2>2 DEF Replaces
  <2>5. EventsIn(outbox) \ EventsIn(data) \subseteq gone
    <3> SUFFICES ASSUME NEW i \in 1 .. Len(outbox), outbox[i] \notin EventsIn(data)
                 PROVE  outbox[i] \in gone
      BY <1>1, LinesType
    <3>1. ~(i > n)
      BY <1>1, <2>2, <2>3, CutKeeps
    <3>2. i \in 0 + 1 .. 0 + n
      BY <2>2, <3>1
    <3> QED
      BY <3>2
  <2>6. gone \subseteq Events /\ IsFiniteSet(gone) /\ Cardinality(gone) \in Nat /\ Cardinality(gone) <= n
    <3>1. 0 + n <= Len(outbox)
      BY <2>2
    <3> QED
      BY <1>1, <2>2, <3>1, StretchCount
  <2> HIDE DEF data, gone
  <2>7. main'[p].writes /\ main'[p].data = data
    BY <1>1, <2>1, <2>3, WritingType
  <2>8. OutboxInv'
    BY <1>1, <1>2, EventsType DEF OutboxInv, TypeOK
  <2>9. AppendInv(p)'
    <3>1. next' - 1 = next
      BY <1>1, <1>2
    <3>2. next \notin stored
      BY <1>1 DEF OutboxInv
    <3> QED
      BY <1>1, <1>2, <2>4, <2>7, <3>1, <3>2 DEF AppendInv
  <2>10. SendInv(p)'
    BY <1>1, <1>2 DEF SendInv, Remaining
  <2>11. LossInv(p)'
    <3>1. Doomed(p)' \subseteq Doomed(p) \cup gone
      BY <1>2, <2>5, <2>7 DEF Doomed
    <3>2. Doomed(p) \subseteq Events
      BY <1>1, DoomedType
    <3> DEFINE D == Doomed(p)
               E == Doomed(p)'
    <3>3. D \subseteq Events /\ E \subseteq D \cup gone /\ D \cup gone \subseteq Events
      BY <2>6, <3>1, <3>2
    <3>4. Cardinality(D) <= drops
      BY <1>1 DEF LossInv
    <3> HIDE DEF D, E
    <3>5. /\ IsFiniteSet(D) /\ Cardinality(D) \in Nat /\ Cardinality(E) \in Nat
          /\ Cardinality(D \cup gone) \in Nat /\ Cardinality(E) <= Cardinality(D \cup gone)
      BY <3>3, Fewer
    <3>6. /\ Cardinality(D \cup gone) = Cardinality(D) + Cardinality(gone) - Cardinality(D \cap gone)
          /\ Cardinality(D \cap gone) \in Nat
      BY <2>6, <3>3, <3>5, FS_Union, Fewer
    <3>7. Cardinality(E) <= drops'
      BY <1>1, <2>1, <2>2, <2>6, <3>4, <3>5, <3>6
    <3> QED
      BY <3>7 DEF LossInv, E
  <2> QED
    BY <2>8, <2>9, <2>10, <2>11 DEF OneProcessInv
<1> QED
  BY <1>4, <1>5

(* Writing the outbox loses no more than was counted when it was read.     *)
LEMMA AppendWriteSafe ==
  ASSUME NEW p \in Procs, OneProcessInv(p), TypeOK', AppendWrite(p)
  PROVE  OneProcessInv(p)'
<1>1. /\ TypeOK /\ OutboxInv /\ AppendInv(p) /\ SendInv(p) /\ LossInv(p)
      /\ outbox \in Seq(Events) /\ next \in Int /\ drops \in Nat
      /\ main \in [Procs -> MainStates] /\ sender[p].batch \in Seq(Events)
  BY StatesType, EventsType DEF OneProcessInv, TypeOK, Events
<1> DEFINE data == main[p].data
           e == next - 1
           b == sender[p].batch
<1>2. /\ main[p].writes /\ outbox' = data /\ stored' = stored \cup {data[Len(data)]}
      /\ main' = [main EXCEPT ![p] = Nothing]
      /\ UNCHANGED <<received, next, sender, drops>>
  BY DEF AppendWrite
<1>3. sender[p].at # "removing" /\ e \in Events /\ e \notin stored /\ Replaces(data, outbox, e)
  BY <1>1, <1>2 DEF AppendInv
<1>4. b \in Seq(Events) /\ Ascending(b) /\ Overlap(outbox, b) /\ EventsIn(b) \subseteq stored
  BY <1>1 DEF SendInv
<1>5. \A d \in stored : d < e
  <2> SUFFICES ASSUME NEW d \in stored PROVE d < e
    OBVIOUS
  <2>1. d \in Events
    BY <1>1 DEF TypeOK
  <2>2. d \in Nat /\ d < next /\ d # e
    BY <1>1, <1>3, <2>1, EventsType DEF OutboxInv
  <2> QED
    BY <1>1, <2>2
<1>6. e < next
  BY <1>1
<1> HIDE DEF data, e, b
<1>7. PICK n \in 0 .. Len(outbox) : data = Append(SubSeq(outbox, n + 1, Len(outbox)), e)
  BY <1>3 DEF Replaces
<1>8. n \in Nat
  OBVIOUS
<1>9. /\ data \in Seq(Events) /\ data[Len(data)] = e
      /\ EventsIn(data) = EventsIn(SubSeq(outbox, n + 1, Len(outbox))) \cup {e}
      /\ Ascending(outbox) /\ (\A d \in EventsIn(outbox) : d < e) => Ascending(data)
  BY <1>1, <1>3, <1>7, <1>8, ReplacesType
<1>10. EventsIn(data) \subseteq EventsIn(outbox) \cup {e} /\ e \in EventsIn(data)
  BY <1>1, <1>8, <1>9, CutKeeps
<1>11. ~main'[p].writes
  BY <1>1, <1>2, WritingType
<1>12. OutboxInv'
  <2>1. Ascending(data)
    BY <1>1, <1>5, <1>9 DEF OutboxInv
  <2> QED
    BY <1>1, <1>2, <1>6, <1>9, <1>10, <2>1 DEF OutboxInv
<1>13. SendInv(p)'
  <2>1. e \notin EventsIn(b)
    BY <1>3, <1>4
  <2>2. Overlap(data, b)
    BY <1>1, <1>3, <1>4, <1>7, <2>1, OverlapStays DEF OutboxInv
  <2> QED
    BY <1>1, <1>2, <1>3, <1>4, <2>2 DEF SendInv, b
<1>14. Doomed(p)' \subseteq Doomed(p)
  BY <1>2, <1>9, <1>10, <1>11 DEF Doomed, data
<1>15. LossInv(p)'
  BY <1>1, <1>2, <1>14, LossKept
<1> QED
  BY <1>11, <1>12, <1>13, <1>15 DEF OneProcessInv, AppendInv

(* A batch is the front of the outbox.                                     *)
LEMMA FlushSafe ==
  ASSUME NEW p \in Procs, OneProcessInv(p), TypeOK', Flush(p)
  PROVE  OneProcessInv(p)'
<1>1. /\ TypeOK /\ OutboxInv /\ AppendInv(p) /\ LossInv(p)
      /\ outbox \in Seq(Events) /\ sender \in [Procs -> SenderStates]
      /\ next \in Int /\ drops \in Nat
  BY EventsType DEF OneProcessInv, TypeOK
<1>2. UNCHANGED <<limit, outbox, status, received, next, starts, main, dropped, stored, drops>>
  BY DEF Flush
<1>3. CASE UNCHANGED sender
  BY <1>1, <1>2, <1>3, QuietKeeps DEF OutboxInv
<1>4. CASE \E last \in BOOLEAN : Move(p, Sender("sending", Batch, <<>>, 0, last))
  <2> DEFINE n == IF BatchSize < Len(outbox) THEN BatchSize ELSE Len(outbox)
             b == SubSeq(outbox, 1, n)
  <2>1. n \in 0 .. Len(outbox)
    BY <1>1, EventsType
  <2>2. Batch = b
    BY DEF Batch
  <2> HIDE DEF n
  <2>3. /\ b \in Seq(Events) /\ Ascending(b) /\ Overlap(outbox, b)
        /\ EventsIn(b) \subseteq EventsIn(outbox)
    BY <1>1, <2>1, PrefixOverlaps DEF OutboxInv
  <2> HIDE DEF b
  <2>4. sender'[p].at = "sending" /\ sender'[p].batch = b
    BY <1>1, <1>4, <2>2 DEF Move, Sender
  <2>5. OutboxInv'
    BY <1>1, <1>2 DEF OutboxInv
  <2>6. AppendInv(p)'
    BY <1>1, <1>2, <2>4 DEF AppendInv
  <2>7. SendInv(p)'
    BY <1>1, <1>2, <2>3, <2>4 DEF SendInv, OutboxInv
  <2>8. Doomed(p)' \subseteq Doomed(p)
    BY <1>2, <2>3, <2>4 DEF Doomed
  <2>9. LossInv(p)'
    BY <1>1, <1>2, <2>8, LossKept
  <2> QED
    BY <2>5, <2>6, <2>7, <2>9 DEF OneProcessInv
<1> QED
  BY <1>3, <1>4 DEF Flush

(* An accepted batch has been received.                                    *)
LEMMA AcceptedSafe ==
  ASSUME NEW p \in Procs, OneProcessInv(p), TypeOK', Accepted(p)
  PROVE  OneProcessInv(p)'
<1>1. /\ TypeOK /\ OutboxInv /\ AppendInv(p) /\ SendInv(p) /\ LossInv(p)
      /\ sender \in [Procs -> SenderStates] /\ drops \in Nat
  BY DEF OneProcessInv, TypeOK
<1> DEFINE b == sender[p].batch
<1>2. /\ UNCHANGED <<limit, outbox, status, next, starts, up, main, dropped, stored, drops>>
      /\ received' = received \cup EventsIn(b)
      /\ sender' = [sender EXCEPT ![p] = Sender("accepted", b, <<>>, 0, sender[p].last)]
  BY DEF Accepted, Sending, Move
<1>3. /\ Ascending(b) /\ Overlap(outbox, b) /\ EventsIn(b) \subseteq stored
  BY <1>1 DEF SendInv
<1>4. sender'[p].at = "accepted" /\ sender'[p].batch = b
  BY <1>1, <1>2 DEF Sender
<1>5. OutboxInv'
  BY <1>1, <1>2, <1>3 DEF OutboxInv
<1>6. AppendInv(p)'
  BY <1>1, <1>2, <1>4 DEF AppendInv
<1>7. SendInv(p)'
  BY <1>2, <1>3, <1>4 DEF SendInv
<1>8. Doomed(p)' \subseteq Doomed(p)
  BY <1>2, <1>4 DEF Doomed
<1>9. LossInv(p)'
  BY <1>1, <1>2, <1>8, LossKept
<1> QED
  BY <1>5, <1>6, <1>7, <1>9 DEF OneProcessInv

(* What is read back for removal still begins with the batch.              *)
LEMMA RemoveReadSafe ==
  ASSUME NEW p \in Procs, OneProcessInv(p), TypeOK', RemoveRead(p)
  PROVE  OneProcessInv(p)'
<1>1. /\ TypeOK /\ OutboxInv /\ AppendInv(p) /\ SendInv(p) /\ LossInv(p)
      /\ sender \in [Procs -> SenderStates] /\ drops \in Nat
  BY DEF OneProcessInv, TypeOK
<1> DEFINE b == sender[p].batch
           rest == Remaining(p)
<1>2. /\ UNCHANGED <<limit, outbox, status, received, next, starts, up, main, dropped, stored, drops>>
      /\ sender[p].at = "accepted" /\ ~main[p].writes
      /\ sender' = [sender EXCEPT ![p] = Sender("removing", b, rest, 0, sender[p].last)]
  BY DEF RemoveRead, Move, OutboxFree
<1>3. /\ Ascending(b) /\ Overlap(outbox, b) /\ EventsIn(b) \subseteq stored
      /\ EventsIn(b) \subseteq received
  BY <1>1, <1>2 DEF SendInv
<1>4. sender'[p].at = "removing" /\ sender'[p].batch = b /\ sender'[p].data = rest
  BY <1>1, <1>2 DEF Sender
<1>5. Remaining(p)' = rest
  BY <1>2, <1>4 DEF Remaining
<1> HIDE DEF b, rest
<1>6. OutboxInv'
  BY <1>1, <1>2 DEF OutboxInv
<1>7. AppendInv(p)'
  BY <1>2 DEF AppendInv
<1>8. SendInv(p)'
  BY <1>2, <1>3, <1>4, <1>5 DEF SendInv
<1>9. Doomed(p)' \subseteq Doomed(p)
  BY <1>2, <1>4 DEF Doomed, b
<1>10. LossInv(p)'
  BY <1>1, <1>2, <1>9, LossKept
<1> QED
  BY <1>6, <1>7, <1>8, <1>10 DEF OneProcessInv

(* Two sets that share nothing, and two that may.                          *)
LEMMA UnionCount ==
  ASSUME NEW A \in SUBSET Events, NEW B \in SUBSET Events
  PROVE  /\ Cardinality(A) \in Nat /\ Cardinality(B) \in Nat /\ Cardinality(A \cup B) \in Nat
         /\ Cardinality(A \cup B) <= Cardinality(A) + Cardinality(B)
         /\ A \cap B = {} => Cardinality(A \cup B) = Cardinality(A) + Cardinality(B)
<1>1. /\ IsFiniteSet(A) /\ IsFiniteSet(B) /\ Cardinality(A) \in Nat /\ Cardinality(B) \in Nat
      /\ Cardinality(A \cup B) \in Nat /\ Cardinality(A \cap B) \in Nat
  <2>1. A \subseteq Events /\ B \subseteq Events /\ A \cup B \subseteq Events /\ A \cap B \subseteq A
    OBVIOUS
  <2> QED
    BY <2>1, Fewer
<1>2. Cardinality(A \cup B) = Cardinality(A) + Cardinality(B) - Cardinality(A \cap B)
  BY <1>1, FS_Union
<1>3. A \cap B = {} => Cardinality(A \cap B) = 0
  BY FS_EmptySet
<1> QED
  BY <1>1, <1>2, <1>3

(* With the batch go as many lines that were never sent as lines of it had *)
(* given way, and those had been counted.                                  *)
LEMMA RemoveWriteSafe ==
  ASSUME NEW p \in Procs, OneProcessInv(p), TypeOK', RemoveWrite(p)
  PROVE  OneProcessInv(p)'
<1>1. /\ TypeOK /\ OutboxInv /\ AppendInv(p) /\ SendInv(p) /\ LossInv(p)
      /\ outbox \in Seq(Events) /\ sender \in [Procs -> SenderStates] /\ drops \in Nat
      /\ stored \subseteq Events
  BY DEF OneProcessInv, TypeOK
<1> DEFINE b == sender[p].batch
           m == Len(b)
           l == Len(outbox)
           r == SubSeq(outbox, m + 1, Len(outbox))
<1>2. /\ UNCHANGED <<limit, status, received, next, starts, up, main, dropped, stored, drops>>
      /\ sender[p].at = "removing" /\ outbox' = sender[p].data
      /\ sender' = [sender EXCEPT ![p] = Sender("persist", <<>>, <<>>, dropped[p], sender[p].last)]
  BY DEF RemoveWrite, Record, Move
<1>3. /\ b \in Seq(Events) /\ m \in Nat /\ l \in Nat /\ Ascending(outbox) /\ Ascending(b)
      /\ Overlap(outbox, b) /\ EventsIn(b) \subseteq received /\ outbox' = r
      /\ EventsIn(outbox) \cup received \subseteq stored
  <2>1. b \in Seq(Events)
    BY <1>1, StatesType
  <2>2. m \in Nat /\ l \in Nat
    BY <1>1, <2>1
  <2> QED
    BY <1>1, <1>2, <2>1, <2>2 DEF SendInv, OutboxInv, Remaining
<1>4. ~main[p].writes /\ ~main'[p].writes
  BY <1>1, <1>2 DEF AppendInv
<1>5. /\ sender'[p].at = "persist" /\ sender'[p].batch = <<>>
  BY <1>1, <1>2 DEF Sender
<1>6. /\ EventsIn(r) \subseteq EventsIn(outbox) /\ Ascending(r)
      /\ \A i \in 1 .. l : i > m => outbox[i] \in EventsIn(r)
  BY <1>1, <1>3, CutKeeps
<1> HIDE DEF b, r
<1>7. OutboxInv'
  BY <1>1, <1>2, <1>3, <1>6 DEF OutboxInv
<1>8. SendInv(p)'
  BY <1>5, NothingOverlaps DEF SendInv
<1>9. PICK k \in 0 .. m :
        /\ \A i \in 1 .. m - k : i <= l /\ outbox[i] = b[i + k]
        /\ \A i \in 1 .. k : b[i] \notin EventsIn(outbox)
  BY <1>3 DEF Overlap
<1> DEFINE a == m - k
           n == IF k < l - a THEN k ELSE l - a
           lost == stored \ (received \cup EventsIn(outbox))
           gone == {outbox[i] : i \in a + 1 .. a + n}
           gave == {b[i] : i \in 0 + 1 .. 0 + k}
<1>10. k \in Nat /\ k <= m /\ a \in Nat /\ a <= l
  <2>1. k \in Nat /\ k <= m /\ a \in Nat
    BY <1>3
  <2>2. CASE a = 0
    BY <1>3, <2>2
  <2>3. CASE a # 0
    <3>1. a \in 1 .. m - k
      BY <2>1, <2>3
    <3> QED
      BY <1>9, <2>1, <3>1
  <2> QED
    BY <2>1, <2>2, <2>3
<1>11. n \in Nat /\ n <= k /\ a + n <= l /\ (n < k => a + n = l)
  BY <1>3, <1>10
<1> HIDE DEF n
<1>12. gone \subseteq Events /\ Cardinality(gone) \in Nat /\ Cardinality(gone) <= n
  <2> HIDE DEF a
  <2> QED BY <1>1, <1>10, <1>11, StretchCount
<1>13. gave \subseteq Events /\ Cardinality(gave) \in Nat /\ Cardinality(gave) = k
  <2>1. 0 + k <= Len(b)
    BY <1>10
  <2> QED
    BY <1>3, <1>10, <2>1, StretchCount
<1>14. Doomed(p)' \subseteq lost \cup gone
  <2>1. Doomed(p)' = stored \ (received \cup EventsIn(r))
    BY <1>2, <1>3, <1>4, <1>5, NothingOverlaps DEF Doomed
  <2>2. ASSUME NEW i \in 1 .. l, outbox[i] \notin received, outbox[i] \notin EventsIn(r)
        PROVE  outbox[i] \in gone
    <3>1. i <= m
      BY <1>3, <1>6, <2>2
    <3>2. i > a
      <4> SUFFICES ASSUME i <= a PROVE FALSE
        BY <1>10
      <4>1. i \in 1 .. m - k /\ i + k \in 1 .. m
        BY <1>3, <1>10
      <4>2. outbox[i] = b[i + k]
        BY <1>9, <4>1
      <4>3. b[i + k] \in EventsIn(b)
        BY <1>3, <4>1, LinesType
      <4> QED
        BY <1>3, <2>2, <4>2, <4>3
    <3>3. i \in a + 1 .. a + n
      BY <1>3, <1>10, <1>11, <3>1, <3>2
    <3> QED
      BY <3>3
  <2>3. \A e \in EventsIn(outbox) : \E i \in 1 .. l : e = outbox[i]
    BY <1>1, LinesType
  <2> HIDE DEF gone
  <2> QED
    BY <2>1, <2>2, <2>3
<1>15. lost \cup gave \subseteq Doomed(p) /\ lost \cap gave = {}
  <2>1. \A i \in 0 + 1 .. 0 + k : b[i] \in EventsIn(b) /\ b[i] \notin EventsIn(outbox)
    BY <1>3, <1>9, <1>10, LinesType
  <2>2. gave \subseteq EventsIn(b) \ EventsIn(outbox)
    BY <2>1
  <2> HIDE DEF gave
  <2> QED
    BY <1>3, <2>2 DEF Doomed, b
<1>16. LossInv(p)'
  <2> DEFINE D == Doomed(p)
             E == Doomed(p)'
  <2>1. /\ lost \subseteq Events /\ D \subseteq Events /\ lost \cup gone \subseteq Events
        /\ E \subseteq lost \cup gone /\ lost \cup gave \subseteq D /\ Cardinality(D) <= drops
    BY <1>1, <1>12, <1>14, <1>15, DoomedType DEF LossInv
  <2> HIDE DEF D, E, lost, gone, gave
  <2>2. /\ Cardinality(lost \cup gave) = Cardinality(lost) + k
        /\ Cardinality(lost \cup gone) <= Cardinality(lost) + Cardinality(gone)
        /\ Cardinality(lost) \in Nat
        /\ Cardinality(lost \cup gone) \in Nat
    BY <1>12, <1>13, <1>15, <2>1, UnionCount
  <2>3. /\ Cardinality(lost \cup gave) <= Cardinality(D) /\ Cardinality(D) \in Nat
        /\ Cardinality(E) <= Cardinality(lost \cup gone) /\ Cardinality(E) \in Nat
    BY <2>1, Fewer
  <2>4. Cardinality(E) <= drops
    BY <1>1, <1>10, <1>11, <1>12, <2>1, <2>2, <2>3
  <2> QED
    BY <1>2, <2>4 DEF LossInv, E
<1> QED
  BY <1>4, <1>7, <1>8, <1>16 DEF OneProcessInv, AppendInv

(* With one process every step is quiet or one of its six.                 *)
LEMMA StepIsOne ==
  ASSUME NEW p, Procs = {p}, [Next]_vars
  PROVE  \/ Quiet(p)
         \/ AppendRead(p) \/ AppendWrite(p) \/ Flush(p) \/ Accepted(p) \/ RemoveRead(p) \/ RemoveWrite(p)
BY DEF Next, Step, Quiet

(* Every step keeps the account.                                           *)
LEMMA OneProcessStep ==
  ASSUME NEW p, Procs = {p}, OneProcessInv(p), [Next]_vars
  PROVE  OneProcessInv(p)'
<1>1. p \in Procs /\ TypeOK'
  BY TypeStep DEF OneProcessInv
<1>2. CASE Quiet(p)
  BY <1>1, <1>2, QuietSteps, QuietKeeps
<1>3. CASE AppendRead(p) \/ AppendWrite(p) \/ Flush(p) \/ Accepted(p) \/ RemoveRead(p) \/ RemoveWrite(p)
  BY <1>1, <1>3, AppendReadSafe, AppendWriteSafe, FlushSafe, AcceptedSafe, RemoveReadSafe,
     RemoveWriteSafe
<1> QED
  BY <1>2, <1>3, StepIsOne

(* An exporter whose outbox no other process uses keeps its outbox in the  *)
(* order of the events, knows what of a batch on its way still is at the   *)
(* front, and has counted as many events as are lost or are about to be.   *)
THEOREM ExporterInvariant ==
  ASSUME NEW p, Procs = {p} PROVE Spec => []OneProcessInv(p)
<1>1. Init => OneProcessInv(p)
  BY OneProcessInit
<1>2. OneProcessInv(p) /\ [Next]_vars => OneProcessInv(p)'
  BY OneProcessStep
<1> QED
  BY <1>1, <1>2, PTL DEF Spec

(* As many events are counted as dropped as left the outbox unsent, though *)
(* a batch is removed by the number of its lines and lines give way while  *)
(* it is on its way.                                                       *)
THEOREM LostEventsAreCounted ==
  ASSUME NEW p, Procs = {p} PROVE Spec => []LossIsCounted
<1>1. OneProcessInv(p) => LossIsCounted
  <2> SUFFICES ASSUME OneProcessInv(p) PROVE LossIsCounted
    OBVIOUS
  <2>1. TypeOK /\ LossInv(p) /\ drops \in Nat
    BY DEF OneProcessInv, TypeOK
  <2> DEFINE D == Doomed(p)
             lost == stored \ (received \cup EventsIn(outbox))
  <2>2. D \subseteq Events /\ lost \subseteq D /\ Cardinality(D) <= drops
    BY <2>1, DoomedType DEF LossInv, Doomed
  <2> HIDE DEF D, lost
  <2>3. Cardinality(lost) <= drops
    BY <2>1, <2>2, Fewer
  <2> QED
    BY <2>3 DEF LossIsCounted, lost
<1> QED
  BY <1>1, ExporterInvariant, PTL

-----------------------------------------------------------------------------
(* An outbox that is large enough. *)

(* The sum of n numbers none of which is more than m.                      *)
LEMMA SumBound ==
  ASSUME NEW s \in Seq(Nat), NEW m \in Nat, \A i \in 1 .. Len(s) : s[i] <= m
  PROVE  \A n \in 0 .. Len(s) : SumOfLast(s, n) <= n * m
<1> DEFINE U == {n \in 0 .. Len(s) : ~(SumOfLast(s, n) <= n * m)}
<1>1. U = {}
  <2> SUFFICES ASSUME U # {} PROVE FALSE
    OBVIOUS
  <2>1. U \in SUBSET Nat
    OBVIOUS
  <2>2. PICK n \in U : \A k \in U : n <= k
    <3> HIDE DEF U
    <3> QED BY <2>1, LeastNatural
  <2>3. n \in 0 .. Len(s) /\ ~(SumOfLast(s, n) <= n * m)
    OBVIOUS
  <2>4. n # 0
    BY <2>3, SumOfLastType
  <2>5. n \in 1 .. Len(s) /\ n - 1 \in 0 .. Len(s) /\ ~(n <= n - 1) /\ Len(s) - n + 1 \in 1 .. Len(s)
    BY <2>3, <2>4
  <2>6. SumOfLast(s, n - 1) <= (n - 1) * m
    BY <2>2, <2>5
  <2> HIDE DEF U
  <2>7. /\ SumOfLast(s, n) = SumOfLast(s, n - 1) + s[Len(s) - n + 1]
        /\ SumOfLast(s, n - 1) \in Nat /\ s[Len(s) - n + 1] \in Nat /\ s[Len(s) - n + 1] <= m
    BY <2>5, SumOfLastType
  <2>8. (n - 1) * m + m = n * m
    BY <2>5
  <2>9. (n - 1) * m \in Int /\ n * m \in Int
    BY <2>5
  <2> QED
    BY <2>3, <2>6, <2>7, <2>8, <2>9
<1> QED
  BY <1>1

(* An outbox lists fewer events than were enqueued.                        *)
LEMMA OutboxIsShort == ASSUME TypeOK, OutboxInv PROVE Len(outbox) <= next - 1
<1> DEFINE l == Len(outbox)
           X == {outbox[i] : i \in 0 + 1 .. 0 + l}
           n == next - 1
<1>1. outbox \in Seq(Events) /\ l \in Nat /\ next \in Int /\ n \in Nat
  BY EventsType DEF TypeOK
<1>2. Cardinality(X) = l
  <2>1. 0 + l <= Len(outbox) /\ 0 \in Nat /\ Ascending(outbox)
    BY <1>1 DEF OutboxInv
  <2> HIDE DEF l
  <2> QED
    BY <1>1, <2>1, StretchCount
<1>3. X \subseteq 1 .. n
  <2> SUFFICES ASSUME NEW i \in 1 .. l PROVE outbox[i] \in 1 .. n
    BY <1>1
  <2>1. outbox[i] \in Events /\ outbox[i] \in stored
    BY <1>1, LinesType DEF OutboxInv
  <2>2. outbox[i] \in Nat /\ outbox[i] >= 1 /\ outbox[i] < next
    BY <2>1, EventsType DEF OutboxInv, Events
  <2> QED
    BY <1>1, <2>2
<1> HIDE DEF X, n, l
<1>4. IsFiniteSet(1 .. n) /\ Cardinality(1 .. n) = n
  <2>1. 1 \in Int /\ n \in Int
    BY <1>1
  <2> QED
    BY <1>1, <2>1, FS_Interval
<1>5. Cardinality(X) <= n
  BY <1>3, <1>4, FS_Subset
<1> QED
  BY <1>2, <1>5 DEF l, n

(* There is room for every event that was and for one more.                *)
LEMMA RoomyHasRoom ==
  ASSUME TypeOK, OutboxInv, Roomy, next \in Events
  PROVE  Room(next, 0) /\ ~(SizeOf[next] > limit)
<1> DEFINE z == [i \in DOMAIN outbox |-> SizeOf[outbox[i]]]
           l == Len(outbox)
           S == {SizeOf[e] : e \in Events}
<1>1. /\ outbox \in Seq(Events) /\ l \in Nat /\ DOMAIN outbox = 1 .. l
      /\ \A i \in 1 .. l : outbox[i] \in Events
      /\ limit \in Nat /\ MaxEvents \in Nat /\ next \in 1 .. MaxEvents
  BY EventsType, ExporterAssumption DEF TypeOK, Events
<1>2. z \in Seq(Nat) /\ Len(z) = l /\ \A i \in 1 .. l : z[i] \in S
  <2>1. \A i \in 1 .. l : SizeOf[outbox[i]] \in Nat
    BY <1>1, EventsType
  <2>2. z = [i \in 1 .. l |-> SizeOf[outbox[i]]]
    BY <1>1
  <2>3. z \in [1 .. l -> Nat]
    BY <2>1, <2>2
  <2>4. \A i \in 1 .. l : z[i] \in S
    BY <1>1, <2>2
  <2> HIDE DEF z
  <2> QED
    BY <1>1, <2>3, <2>4
<1>3. PICK m \in S : \A k \in S : k <= m
  <2>1. S \in SUBSET Nat /\ S # {}
    BY EventsType
  <2>2. \A k \in S : k <= limit
    <3> SUFFICES ASSUME NEW e \in Events PROVE SizeOf[e] <= limit
      OBVIOUS
    <3>1. SizeOf[e] \in Nat /\ MaxEvents >= 1 /\ MaxEvents * SizeOf[e] <= limit
      BY <1>1, EventsType DEF Roomy
    <3> DEFINE d == SizeOf[e]
    <3>2. d \in Nat /\ MaxEvents * d <= limit
      BY <3>1
    <3> HIDE DEF d
    <3>3. d <= MaxEvents * d
      BY <1>1, <3>1, <3>2
    <3>4. MaxEvents * d \in Int
      BY <1>1, <3>2
    <3>5. d <= limit
      BY <1>1, <3>2, <3>3, <3>4
    <3> QED
      BY <3>5 DEF d
  <2> HIDE DEF S
  <2> QED
    BY <1>1, <2>1, <2>2, GreatestNatural
<1>4. m \in Nat /\ MaxEvents * m <= limit /\ SizeOf[next] \in Nat /\ SizeOf[next] <= m
  BY <1>3, EventsType DEF Roomy
<1> HIDE DEF z, S
<1>5. SumOfLast(z, l) \in Nat /\ SumOfLast(z, l) <= l * m
  <2>1. \A i \in 1 .. Len(z) : z[i] <= m
    BY <1>2, <1>3
  <2>2. l \in 0 .. Len(z)
    BY <1>1, <1>2
  <2> QED
    BY <1>2, <1>4, <2>1, <2>2, SumBound, SumOfLastType
<1>6. l + 1 <= MaxEvents
  BY <1>1, OutboxIsShort
<1>7. (l + 1) * m <= MaxEvents * m
  <2>1. MaxEvents * m = (l + 1) * m + (MaxEvents - (l + 1)) * m
    BY <1>1, <1>4
  <2>2. MaxEvents - (l + 1) \in Nat
    BY <1>1, <1>6
  <2>3. (MaxEvents - (l + 1)) * m \in Nat
    BY <1>4, <2>2
  <2>4. (l + 1) * m \in Nat
    BY <1>1, <1>4
  <2> QED
    BY <2>1, <2>3, <2>4
<1>8. (l + 1) * m = l * m + m /\ l * m \in Int /\ MaxEvents * m \in Int
  BY <1>1, <1>4
<1>9. SumOfLast(z, l) + SizeOf[next] <= limit /\ SizeOf[next] <= limit
  BY <1>1, <1>4, <1>5, <1>7, <1>8
<1>10. l - 0 = l
  BY <1>1
<1>11. BytesOfLast(outbox, l - 0) = SumOfLast(z, l)
  BY <1>10 DEF BytesOfLast, z
<1> QED
  BY <1>1, <1>4, <1>9, <1>11 DEF Room

(* Nothing gives way: a batch on its way is still at the front of the      *)
(* outbox, and an append only adds to it.                                  *)
Prefix(a, b) == \A i \in 1 .. Len(a) : i <= Len(b) /\ b[i] = a[i]

RoomyInv(p) ==
  Roomy =>
    /\ Prefix(sender[p].batch, outbox)
    /\ main[p].writes => Prefix(outbox, main[p].data)

(* While there is room an append drops nothing.                            *)
LEMMA RoomyRead ==
  ASSUME NEW p \in Procs, OneProcessInv(p), AppendRead(p), Roomy
  PROVE  /\ drops' = drops
         /\ main'[p].data = Append(SubSeq(outbox, 0 + 1, Len(outbox)), next)
<1>1. /\ outbox \in Seq(Events) /\ next \in Events /\ drops \in Nat /\ main \in [Procs -> MainStates]
      /\ TypeOK /\ OutboxInv
  BY DEF OneProcessInv, TypeOK, AppendRead
<1>2. Room(next, 0) /\ ~(SizeOf[next] > limit)
  BY <1>1, RoomyHasRoom
<1>3. Pruned(next) = 0
  BY <1>1, <1>2, PrunedType
<1> DEFINE data == Append(SubSeq(outbox, 0 + 1, Len(outbox)), next)
<1>4. drops' = drops /\ main' = [main EXCEPT ![p] = Writing(data)]
  BY <1>1, <1>2, <1>3 DEF AppendRead, Count, WithRoomFor
<1>5. data \in Seq(Events)
  <2>1. 0 \in Nat
    OBVIOUS
  <2> QED
    BY ONLY <1>1, <2>1, ReplacesType
<1> HIDE DEF data
<1>6. main'[p].data = data
  BY <1>1, <1>4, <1>5, WritingType
<1> QED
  BY <1>4, <1>6 DEF data

(* While there is room nothing stored leaves unsent.                       *)
LEMMA RoomyStep ==
  ASSUME NEW p, Procs = {p}, OneProcessInv(p), RoomyInv(p), [Next]_vars
  PROVE  RoomyInv(p)'
<1>1. /\ p \in Procs /\ TypeOK /\ outbox \in Seq(Events) /\ main \in [Procs -> MainStates]
      /\ sender \in [Procs -> SenderStates]
  BY DEF OneProcessInv, TypeOK
<1>2. /\ sender[p].batch \in Seq(Events) /\ main[p].data \in Seq(Events)
  BY <1>1, StatesType
<1>3. CASE Quiet(p)
  <2>1. /\ outbox' = outbox /\ limit' = limit
        /\ ~main'[p].writes \/ main'[p] = main[p]
        /\ sender'[p] = sender[p] \/ sender'[p].batch = <<>>
    BY <1>1, <1>3, QuietSteps
  <2> QED
    BY <2>1 DEF RoomyInv, Roomy, Prefix
<1>4. CASE AppendRead(p)
  <2>1. UNCHANGED <<limit, outbox, sender>>
    BY <1>4 DEF AppendRead
  <2>2. ASSUME Roomy PROVE Prefix(outbox, main'[p].data)
    <3> DEFINE c == SubSeq(outbox, 0 + 1, Len(outbox))
               d == Append(c, next)
    <3>1. main'[p].data = d /\ next \in Events
      BY <1>1, <1>4, <2>2, RoomyRead DEF AppendRead
    <3>2. c \in Seq(Events) /\ Len(c) = Len(outbox) /\ \A i \in 1 .. Len(c) : c[i] = outbox[i]
      <4>1. 0 \in 0 .. Len(outbox)
        BY <1>1
      <4>2. c \in Seq(Events) /\ Len(c) = Len(outbox) - 0 /\ \A i \in 1 .. Len(outbox) - 0 : c[i] = outbox[i + 0]
        BY <1>1, <4>1, SuffixType
      <4> HIDE DEF c
      <4> QED
        BY <1>1, <4>2
    <3> HIDE DEF c
    <3>3. Len(d) = Len(c) + 1 /\ \A i \in 1 .. Len(c) : d[i] = c[i]
      BY <3>1, <3>2
    <3> HIDE DEF d
    <3>4. Len(c) \in Nat
      BY <3>2
    <3> QED
      BY <3>1, <3>2, <3>3, <3>4 DEF Prefix
  <2> QED
    BY <2>1, <2>2 DEF RoomyInv, Roomy
<1>5. CASE AppendWrite(p)
  <2>1. /\ UNCHANGED <<limit, sender>> /\ outbox' = main[p].data /\ main[p].writes
        /\ main' = [main EXCEPT ![p] = Nothing]
    BY <1>5 DEF AppendWrite
  <2>2. ~main'[p].writes
    BY <1>1, <2>1, WritingType
  <2> DEFINE b == sender[p].batch
             d == main[p].data
  <2>3. ASSUME Roomy PROVE Prefix(b, d)
    <3>1. Prefix(b, outbox) /\ Prefix(outbox, d)
      BY <2>1, <2>3 DEF RoomyInv
    <3>2. Len(outbox) \in Nat /\ Len(b) \in Nat /\ Len(d) \in Nat
      BY <1>1, <1>2
    <3> HIDE DEF b, d
    <3> QED
      BY <3>1, <3>2 DEF Prefix
  <2> QED
    BY <2>1, <2>2, <2>3 DEF RoomyInv, Roomy
<1>6. CASE Flush(p)
  <2>1. UNCHANGED <<limit, outbox, main>>
    BY <1>6 DEF Flush
  <2>2. Prefix(sender'[p].batch, outbox) \/ UNCHANGED sender
    <3> SUFFICES ASSUME ~UNCHANGED sender PROVE Prefix(sender'[p].batch, outbox)
      OBVIOUS
    <3>1. sender'[p].batch = Batch
      BY <1>1, <1>6 DEF Flush, Move, Sender
    <3> DEFINE n == IF BatchSize < Len(outbox) THEN BatchSize ELSE Len(outbox)
    <3>2. n \in 0 .. Len(outbox)
      BY <1>1, EventsType
    <3>3. Batch = SubSeq(outbox, 1, n)
      BY DEF Batch
    <3> HIDE DEF n
    <3>4. Ascending(outbox)
      BY DEF OneProcessInv, OutboxInv
    <3> DEFINE b == SubSeq(outbox, 1, n)
    <3>5. Len(b) = n /\ \A i \in 1 .. n : b[i] = outbox[i]
      BY <1>1, <3>2, <3>4, PrefixOverlaps
    <3> HIDE DEF b
    <3>6. Prefix(b, outbox)
      BY <1>1, <3>2, <3>5 DEF Prefix
    <3> QED
      BY <3>1, <3>3, <3>6 DEF b
  <2> QED
    BY <2>1, <2>2 DEF RoomyInv, Roomy
<1>7. CASE Accepted(p) \/ RemoveRead(p)
  <2>1. UNCHANGED <<limit, outbox, main>>
    BY <1>7 DEF Accepted, RemoveRead, Sending
  <2>2. sender'[p].batch = sender[p].batch
    BY <1>1, <1>7 DEF Accepted, RemoveRead, Move, Sender
  <2> QED
    BY <2>1, <2>2 DEF RoomyInv, Roomy
<1>8. CASE RemoveWrite(p)
  <2>1. UNCHANGED <<limit, main>> /\ ~main[p].writes
    BY <1>8 DEF RemoveWrite, OneProcessInv, AppendInv
  <2>2. sender'[p].batch = <<>>
    BY <1>1, <1>8 DEF RemoveWrite, Record, Move, Sender
  <2> QED
    BY <2>1, <2>2 DEF RoomyInv, Roomy, Prefix
<1> QED
  BY <1>3, <1>4, <1>5, <1>6, <1>7, <1>8, StepIsOne

(* At first there is room.                                                 *)
LEMMA RoomyInit == ASSUME NEW p \in Procs, Init PROVE RoomyInv(p)
<1>1. ~main[p].writes /\ sender[p].batch = <<>>
  BY WritingType, AsleepType DEF Init
<1> QED
  BY <1>1 DEF RoomyInv, Prefix

(* What a step means to the ledger.                                        *)
LedgerStep ==
  \/ /\ UNCHANGED <<received, drops>> /\ EventsIn(outbox') = EventsIn(outbox)
  \/ /\ \E e \in Events : /\ e \notin EventsIn(outbox) \cup received
                          /\ EventsIn(outbox') = EventsIn(outbox) \cup {e}
     /\ UNCHANGED <<received, drops>>
  \/ /\ drops' = drops + 1
     /\ UNCHANGED received /\ EventsIn(outbox') = EventsIn(outbox)
  \/ \E batch \in SUBSET Events :
       /\ batch \subseteq EventsIn(outbox)
       /\ received' = received \cup batch
       /\ UNCHANGED drops /\ EventsIn(outbox') = EventsIn(outbox)
  \/ \E batch \in SUBSET Events :
       /\ batch \subseteq EventsIn(outbox) \cap received
       /\ EventsIn(outbox') = EventsIn(outbox) \ batch
       /\ UNCHANGED <<received, drops>>

(* A step that fits the ledger while there is room is a step of it, as the *)
(* limit never changes.                                                    *)
LEMMA LedgerMaps ==
  ASSUME limit' = limit, Roomy => LedgerStep
  PROVE  [Ledger!Next]_(Ledger!vars)
<1>1. Roomy' <=> Roomy
  BY DEF Roomy
<1>2. CASE ~Roomy
  <2>1. ~Roomy'
    BY <1>1, <1>2
  <2>2. UNCHANGED Ledger!vars
    BY <1>2, <2>1 DEF Ledger!vars
  <2> QED
    BY <2>2
<1>3. CASE Roomy
  <2> DEFINE pending == IF Roomy THEN EventsIn(outbox) ELSE {}
             delivered == IF Roomy THEN received ELSE {}
             refused == IF Roomy THEN drops ELSE 0
  <2>1. /\ pending = EventsIn(outbox) /\ pending' = EventsIn(outbox')
        /\ delivered = received /\ delivered' = received'
        /\ refused = drops /\ refused' = drops'
    BY <1>1, <1>3 DEF EventsIn
  <2> HIDE DEF pending, delivered, refused
  <2>2. LedgerStep
    BY <1>3
  <2>3. CASE UNCHANGED <<received, drops>> /\ EventsIn(outbox') = EventsIn(outbox)
    BY <2>1, <2>3 DEF Ledger!vars, pending, delivered, refused
  <2>4. CASE /\ \E e \in Events : /\ e \notin EventsIn(outbox) \cup received
                                  /\ EventsIn(outbox') = EventsIn(outbox) \cup {e}
             /\ UNCHANGED <<received, drops>>
    <3>1. \E e \in Events : Ledger!Accept(e)
      BY <2>1, <2>4 DEF Ledger!Accept, pending, delivered, refused
    <3> QED
      BY <3>1 DEF Ledger!Next
  <2>5. CASE /\ drops' = drops + 1
             /\ UNCHANGED received /\ EventsIn(outbox') = EventsIn(outbox)
    <3>1. Ledger!Refuse
      BY <2>1, <2>5 DEF Ledger!Refuse, pending, delivered, refused
    <3> QED
      BY <3>1 DEF Ledger!Next
  <2>6. CASE \E batch \in SUBSET Events :
               /\ batch \subseteq EventsIn(outbox)
               /\ received' = received \cup batch
               /\ UNCHANGED drops /\ EventsIn(outbox') = EventsIn(outbox)
    <3>1. \E batch \in SUBSET Events : Ledger!Deliver(batch)
      BY <2>1, <2>6 DEF Ledger!Deliver, pending, delivered, refused
    <3> QED
      BY <3>1 DEF Ledger!Next
  <2>7. CASE \E batch \in SUBSET Events :
               /\ batch \subseteq EventsIn(outbox) \cap received
               /\ EventsIn(outbox') = EventsIn(outbox) \ batch
               /\ UNCHANGED <<received, drops>>
    <3>1. \E batch \in SUBSET Events : Ledger!Settle(batch)
      BY <2>1, <2>7 DEF Ledger!Settle, pending, delivered, refused
    <3> QED
      BY <3>1 DEF Ledger!Next
  <2> QED
    BY <2>2, <2>3, <2>4, <2>5, <2>6, <2>7 DEF LedgerStep
<1> QED
  BY <1>2, <1>3

(* A prefix has no events but those of the whole.                          *)
LEMMA PrefixKeeps ==
  ASSUME NEW a \in Seq(Events), NEW b \in Seq(Events), Prefix(a, b)
  PROVE  EventsIn(a) \subseteq EventsIn(b)
<1> SUFFICES ASSUME NEW i \in 1 .. Len(a) PROVE a[i] \in EventsIn(b)
  BY LinesType
<1>1. i \in Nat /\ i >= 1 /\ Len(b) \in Nat
  BY LinesType
<1>2. i <= Len(b) /\ b[i] = a[i]
  BY DEF Prefix
<1>3. i \in 1 .. Len(b)
  BY <1>1, <1>2
<1> QED
  BY <1>2, <1>3, LinesType

(* While there is room every step is one of the ledger or leaves it as it  *)
(* is.                                                                     *)
LEMMA LedgerSteps ==
  ASSUME NEW p, Procs = {p}, OneProcessInv(p), RoomyInv(p), [Next]_vars, Roomy
  PROVE  LedgerStep
<1> DEFINE b == sender[p].batch
<1>1. /\ p \in Procs /\ TypeOK /\ OutboxInv /\ AppendInv(p) /\ SendInv(p)
      /\ outbox \in Seq(Events) /\ main \in [Procs -> MainStates]
  BY DEF OneProcessInv, TypeOK
<1>2. /\ b \in Seq(Events) /\ EventsIn(b) \in SUBSET Events /\ Len(b) \in Nat /\ Len(outbox) \in Nat
      /\ main[p].data \in Seq(Events)
  BY <1>1, StatesType, LinesType
<1>3. Prefix(b, outbox) /\ (main[p].writes => Prefix(outbox, main[p].data))
  BY DEF RoomyInv
<1>4. EventsIn(b) \subseteq EventsIn(outbox)
  BY <1>1, <1>2, <1>3, PrefixKeeps
<1> HIDE DEF b
<1>5. CASE Accepted(p) \/ AnswerLost(p)
  <2>1. UNCHANGED <<outbox, drops>> /\ received' = received \cup EventsIn(b)
    BY <1>5 DEF Accepted, AnswerLost, Sending, b
  <2> QED
    BY <1>2, <1>4, <2>1 DEF LedgerStep
<1>6. CASE AppendReadFails(p) \/ AppendFails(p)
  <2>1. UNCHANGED <<outbox, received>> /\ drops' = drops + 1
    BY <1>6 DEF AppendReadFails, AppendFails, Count
  <2> QED
    BY <2>1 DEF LedgerStep
<1>7. CASE AppendRead(p)
  <2>1. UNCHANGED <<outbox, received, drops>>
    BY <1>1, <1>7, RoomyRead DEF AppendRead
  <2> QED
    BY <2>1 DEF LedgerStep
<1>8. CASE AppendWrite(p)
  <2> DEFINE e == next - 1
             d == main[p].data
  <2>1. main[p].writes /\ outbox' = d /\ UNCHANGED <<received, drops>>
    BY <1>8 DEF AppendWrite
  <2>2. e \in Events \ stored /\ Replaces(d, outbox, e)
    BY <1>1, <2>1 DEF AppendInv
  <2>3. e \notin EventsIn(outbox) \cup received
    BY <1>1, <2>2 DEF OutboxInv
  <2>4. PICK n \in 0 .. Len(outbox) : d = Append(SubSeq(outbox, n + 1, Len(outbox)), e)
    BY <2>2 DEF Replaces
  <2> HIDE DEF e, d
  <2>5. n \in Nat
    OBVIOUS
  <2>6. EventsIn(d) = EventsIn(SubSeq(outbox, n + 1, Len(outbox))) \cup {e}
    BY <1>1, <2>2, <2>4, <2>5, ReplacesType
  <2>7. EventsIn(d) \subseteq EventsIn(outbox) \cup {e} /\ e \in EventsIn(d)
    BY <1>1, <2>5, <2>6, CutKeeps
  <2>8. EventsIn(outbox) \subseteq EventsIn(d)
    BY <1>1, <1>2, <1>3, <2>1, PrefixKeeps DEF d
  <2>9. EventsIn(outbox') = EventsIn(outbox) \cup {e}
    BY <2>1, <2>7, <2>8
  <2> QED
    BY <2>1, <2>2, <2>3, <2>9 DEF LedgerStep
<1>9. CASE RemoveWrite(p)
  <2> DEFINE m == Len(b)
             r == SubSeq(outbox, m + 1, Len(outbox))
  <2>1. UNCHANGED <<received, drops>> /\ outbox' = r /\ EventsIn(b) \subseteq received
    BY <1>1, <1>9 DEF RemoveWrite, SendInv, Remaining, b
  <2>2. /\ EventsIn(r) \subseteq EventsIn(outbox)
        /\ \A i \in 1 .. Len(outbox) : i > m => outbox[i] \in EventsIn(r)
        /\ \A i \in 1 .. Len(outbox) : i <= m => outbox[i] \notin EventsIn(r)
    BY <1>1, <1>2, CutKeeps DEF OutboxInv
  <2>3. \A i \in 1 .. m : i \in 1 .. Len(outbox) /\ b[i] = outbox[i]
    BY <1>2, <1>3 DEF Prefix
  <2> HIDE DEF r
  <2>4. ASSUME NEW e \in EventsIn(outbox) PROVE e \in EventsIn(r) <=> e \notin EventsIn(b)
    <3>1. PICK i \in 1 .. Len(outbox) : e = outbox[i]
      BY <1>1, LinesType
    <3>2. EventsIn(b) = {b[j] : j \in 1 .. m}
      BY <1>2, LinesType
    <3>3. CASE i <= m
      <4>1. i \in 1 .. m /\ b[i] = e
        BY <1>2, <2>3, <3>1, <3>3
      <4> QED
        BY <2>2, <3>1, <3>2, <3>3, <4>1
    <3>4. CASE i > m
      <4>1. e \in EventsIn(r)
        BY <2>2, <3>1, <3>4
      <4>2. ASSUME NEW j \in 1 .. m, e = b[j] PROVE FALSE
        <5>1. j \in 1 .. Len(outbox) /\ e = outbox[j] /\ j <= m
          BY <1>2, <2>3, <4>2
        <5> QED
          BY <2>2, <4>1, <5>1
      <4> QED
        BY <3>2, <4>1, <4>2
    <3> QED
      BY <1>2, <3>3, <3>4
  <2>5. EventsIn(outbox') = EventsIn(outbox) \ EventsIn(b)
    BY <2>1, <2>2, <2>4
  <2> QED
    BY <1>2, <1>4, <2>1, <2>5 DEF LedgerStep
<1>10. CASE \/ Open(p) \/ Close(p) \/ Crash(p) \/ Flush(p) \/ FlushFails(p) \/ Rejected(p)
            \/ RemoveRead(p) \/ RemoveFails(p) \/ PersistStatus(p) \/ UNCHANGED vars
  <2>1. UNCHANGED <<outbox, received, drops>>
    BY <1>10 DEF Open, Close, Crash, Flush, FlushFails, Rejected, RemoveRead, RemoveFails,
                 PersistStatus, Sending, vars
  <2> QED
    BY <2>1 DEF LedgerStep
<1> QED
  BY <1>5, <1>6, <1>7, <1>8, <1>9, <1>10 DEF Next, Step

(* The limit never changes.                                                *)
LEMMA LimitStays == ASSUME [Next]_vars PROVE limit' = limit
<1>1. CASE UNCHANGED vars
  BY <1>1 DEF vars
<1>2. ASSUME NEW p \in Procs, Step(p) PROVE limit' = limit
  BY <1>2 DEF Step, Open, Close, Crash, AppendRead, AppendReadFails, AppendWrite, AppendFails,
              Flush, FlushFails, Accepted, AnswerLost, Rejected, RemoveRead, RemoveWrite,
              RemoveFails, PersistStatus, Sending
<1> QED
  BY <1>1, <1>2 DEF Next

(* An exporter whose outbox can hold every event implements the ledger:    *)
(* whatever fails and wherever the process dies, an event that was         *)
(* accepted stays until the server has it, only what the server has is     *)
(* settled, and an event that is refused is counted.                       *)
THEOREM LedgerIsImplemented ==
  ASSUME NEW p, Procs = {p} PROVE Spec => ImplementsLedger
<1>1. Init => RoomyInv(p) /\ Ledger!Init
  <2> SUFFICES ASSUME Init PROVE RoomyInv(p) /\ Ledger!Init
    OBVIOUS
  <2>1. EventsIn(outbox) = {} /\ received = {} /\ drops = 0
    BY DEF Init, EventsIn
  <2> QED
    BY <2>1, RoomyInit DEF Ledger!Init
<1>2. OneProcessInv(p) /\ RoomyInv(p) /\ [Next]_vars => RoomyInv(p)'
  BY RoomyStep
<1>3. OneProcessInv(p) /\ RoomyInv(p) /\ [Next]_vars => [Ledger!Next]_(Ledger!vars)
  <2> SUFFICES ASSUME OneProcessInv(p), RoomyInv(p), [Next]_vars
               PROVE  [Ledger!Next]_(Ledger!vars)
    OBVIOUS
  <2>1. limit' = limit
    BY LimitStays
  <2>2. Roomy => LedgerStep
    BY LedgerSteps
  <2> QED
    BY <2>1, <2>2, LedgerMaps
<1> QED
  BY <1>1, <1>2, <1>3, ExporterInvariant, PTL DEF Spec, ImplementsLedger, Ledger!Spec
=============================================================================
