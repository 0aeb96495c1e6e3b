------------------------- MODULE HistoryStore_proof -------------------------
(***************************************************************************)
(* Proofs about HistoryStore, for every number of runs and every size of   *)
(* lines and files.  The order of the file is proved for any number of     *)
(* processes; what needs that no other process is using the files has      *)
(* OneAtATime for a hypothesis: a process may still die anywhere, and      *)
(* others follow it.                                                       *)
(***************************************************************************)
EXTENDS HistoryStore, Foundations

-----------------------------------------------------------------------------
(* The invariants. *)

Sorted(lines) == \A i, j \in DOMAIN lines : i < j => lines[i].run < lines[j].run
Below(lines, n) == \A i \in DOMAIN lines : lines[i].run < n

(* Every file there has been, and everything a compaction keeps, lists its *)
(* runs in order.                                                          *)
OrderInv ==
  /\ \A k \in 1 .. Len(inodes) : Sorted(inodes[k]) /\ Below(inodes[k], next)
  /\ \A p \in Procs : Sorted(batch[p].kept) /\ Below(batch[p].kept, next)

HistoryInv == TypeOK /\ OrderInv

-----------------------------------------------------------------------------
OneAtATime == \A p, q \in Procs : p = q

(* The process that uses the files has them to itself.                     *)
Alone(p) ==
  /\ pc[p] \in {"write", "stat"} => fd[p] = Len(inodes)
  /\ pc[p] = "replace" => batch[p] = BatchOf(File)
  /\ pc[p] \in {"archive", "fold"} => batch[p].kept = File
  /\ pc[p] \notin {"replace", "archive", "fold"} => batch[p] = NoBatch
  /\ pc[p] = "fold" => held[p] = totals \/ (held[p] = NoTotals /\ failed[p])
  /\ pc[p] = "remove" => File = <<>> /\ 1 .. next - 1 \subseteq waived

(* A run is counted once at most, and not while it is in the file or about *)
(* to be archived.                                                         *)
CountInv ==
  \A r \in Runs :
    /\ totals.count[r] \in {0, 1}
    /\ r \in Window \cup Archiving \/ r >= next => totals.count[r] = 0
    /\ r \notin Window \/ r \notin Archiving
    /\ r \in Window \cup Archiving \cup waived \cup cleared => r < next

StoreInv ==
  /\ \A p \in Procs : Alone(p)
  /\ CountInv
  /\ RunsAccounted
  /\ cleared \cap (Window \cup Archived \cup Archiving) = {}

-----------------------------------------------------------------------------
(* Lines. *)

LineRecords == [run : Runs, kind : {"ok", "oversized", "torn"}, size : Nat, ended : BOOLEAN]

(* The fields of a line.                                                   *)
LEMMA LineType ==
  ASSUME NEW run \in Runs, NEW kind \in {"ok", "oversized", "torn"}, NEW size \in Nat,
         NEW ended \in BOOLEAN
  PROVE  /\ Line(run, kind, size, ended) \in LineRecords
         /\ Line(run, kind, size, ended).run = run
         /\ Line(run, kind, size, ended).kind = kind
         /\ Line(run, kind, size, ended).size = size
         /\ Line(run, kind, size, ended).ended = ended
BY DEF Line, LineRecords

(* The files of the model are the sequences of lines.                      *)
LEMMA LinesAre == Lines = Seq(LineRecords)
BY DEF Lines, LineRecords

(* Decoded keeps the run, and what it makes of a line parses.              *)
LEMMA DecodedType ==
  ASSUME NEW line \in LineRecords
  PROVE  /\ Decoded(line) \in LineRecords
         /\ Decoded(line).run = line.run
         /\ Decoded(line).kind = "ok"
         /\ Decoded(line).ended
<1> DEFINE size == IF line.kind = "oversized" THEN ClippedSize ELSE line.size
<1>1. line.run \in Runs /\ size \in Nat
  BY HistoryAssumption DEF LineRecords
<1>2. Decoded(line) = Line(line.run, "ok", size, TRUE)
  BY DEF Decoded
<1> HIDE DEF size
<1>3. /\ Line(line.run, "ok", size, TRUE) \in LineRecords
      /\ Line(line.run, "ok", size, TRUE).run = line.run
      /\ Line(line.run, "ok", size, TRUE).kind = "ok"
      /\ Line(line.run, "ok", size, TRUE).ended = TRUE
  BY <1>1 DEF Line, LineRecords
<1> QED
  BY <1>2, <1>3

(* What can be read of a file, in order.                                   *)
LEMMA DecodedLinesType ==
  ASSUME NEW lines \in Lines
  PROVE  /\ DecodedLines(lines) \in Lines
         /\ RunsIn(DecodedLines(lines)) = RunsIn(lines)
         /\ Sorted(lines) => Sorted(DecodedLines(lines))
         /\ \A n \in Int : Below(lines, n) => Below(DecodedLines(lines), n)
         /\ \A i \in DOMAIN DecodedLines(lines) : DecodedLines(lines)[i].kind = "ok"
                                                  /\ DecodedLines(lines)[i].ended
<1> DEFINE I == {i \in DOMAIN lines : Readable(lines[i])}
           kept == KeepAt(lines, I)
           d == [i \in DOMAIN kept |-> Decoded(kept[i])]
<1>1. lines \in Seq(LineRecords) /\ Len(lines) \in Nat /\ DOMAIN lines = 1 .. Len(lines)
  BY LinesAre
<1>2. kept \in Seq(LineRecords) /\ \E h : Embeds(lines, I, Len(lines), kept, h)
  <2> HIDE DEF I
  <2> QED BY <1>1, KeepAtEmbeds
<1> HIDE DEF kept
<1>3. PICK h : Embeds(lines, I, Len(lines), kept, h)
  BY <1>2
<1>4. /\ DOMAIN kept = 1 .. Len(kept) /\ Len(kept) \in Nat
      /\ \A i \in 1 .. Len(kept) : kept[i] \in LineRecords
  BY <1>2
<1>5. d \in Lines /\ DOMAIN d = 1 .. Len(kept) /\ Len(d) = Len(kept)
  BY <1>4, DecodedType, LinesAre
<1>6. \A i \in 1 .. Len(kept) : d[i] = Decoded(kept[i])
  BY <1>4
<1>7. DecodedLines(lines) = d
  BY DEF DecodedLines, kept, I
<1> HIDE DEF d
<1>8. \A i \in 1 .. Len(kept) : /\ h[i] \in 1 .. Len(lines) /\ h[i] \in I
                                /\ d[i].run = lines[h[i]].run
                                /\ d[i].kind = "ok" /\ d[i].ended
  BY <1>3, <1>4, <1>6, DecodedType DEF Embeds
<1>9. \A i, j \in 1 .. Len(kept) : i < j => h[i] < h[j]
  BY <1>3 DEF Embeds
<1>10. \A i \in I : \E k \in 1 .. Len(kept) : h[k] = i
  BY <1>1, <1>3 DEF Embeds
<1>11. RunsIn(d) = RunsIn(lines)
  <2>1. ASSUME NEW r \in RunsIn(d) PROVE r \in RunsIn(lines)
    <3>1. PICK i \in 1 .. Len(kept) : r = d[i].run
      BY <1>5 DEF RunsIn
    <3> QED
      BY <1>1, <1>8, <3>1 DEF RunsIn
  <2>2. ASSUME NEW r \in RunsIn(lines) PROVE r \in RunsIn(d)
    <3>1. PICK i \in I : r = lines[i].run
      BY DEF RunsIn
    <3>2. PICK k \in 1 .. Len(kept) : h[k] = i
      BY <1>10
    <3>3. r = d[k].run /\ Readable(d[k])
      BY <1>8, <3>1, <3>2 DEF Readable
    <3> QED
      BY <1>5, <3>3 DEF RunsIn
  <2> QED
    BY <2>1, <2>2
<1>12. Sorted(lines) => Sorted(d)
  BY <1>1, <1>5, <1>8, <1>9 DEF Sorted
<1>13. \A n \in Int : Below(lines, n) => Below(d, n)
  BY <1>1, <1>5, <1>8 DEF Below
<1> QED
  BY <1>5, <1>7, <1>8, <1>11, <1>12, <1>13

(* What is known of the lines of a file.                                   *)
LEMMA LinesType ==
  ASSUME NEW lines \in Lines
  PROVE  /\ Len(lines) \in Nat /\ DOMAIN lines = 1 .. Len(lines)
         /\ \A i \in 1 .. Len(lines) :
              /\ lines[i] \in LineRecords /\ lines[i].run \in Runs /\ lines[i].run \in Nat
              /\ lines[i].size \in Nat /\ lines[i].ended \in BOOLEAN
         /\ RunsIn(lines) \subseteq Runs
         /\ \A n \in Int : Below(lines, n) => \A r \in RunsIn(lines) : r < n
<1>1. lines \in Seq(LineRecords)
  BY LinesAre
<1>2. /\ Len(lines) \in Nat /\ DOMAIN lines = 1 .. Len(lines)
      /\ \A i \in 1 .. Len(lines) : lines[i] \in LineRecords
  BY <1>1
<1>3. \A line \in LineRecords : /\ line.run \in Runs /\ line.run \in Nat
                                /\ line.size \in Nat /\ line.ended \in BOOLEAN
  BY DEF LineRecords, Runs
<1> QED
  BY <1>2, <1>3 DEF RunsIn, Below

(* An empty file is sorted and names no run.                               *)
LEMMA EmptyLines ==
  /\ <<>> \in Lines /\ RunsIn(<<>>) = {} /\ Sorted(<<>>) /\ \A n \in Int : Below(<<>>, n)
BY LinesAre DEF RunsIn, Sorted, Below

(* Appending a line keeps the order and every other run, except that of a  *)
(* last line that was never ended.                                         *)
LEMMA AppendedType ==
  ASSUME NEW lines \in Lines, NEW line \in LineRecords
  PROVE  /\ Appended(lines, line) \in Lines
         /\ Sorted(lines) /\ Below(lines, line.run) =>
              Sorted(Appended(lines, line)) /\ Below(Appended(lines, line), line.run + 1)
         /\ RunsIn(Appended(lines, line)) \subseteq RunsIn(lines) \cup {line.run}
         /\ RunsIn(lines) \subseteq RunsIn(Appended(lines, line))
                                    \cup (IF Glued(lines) THEN {lines[Len(lines)].run} ELSE {})
         /\ ~Glued(lines) /\ line.kind # "torn" => line.run \in RunsIn(Appended(lines, line))
<1>1. /\ Len(lines) \in Nat /\ DOMAIN lines = 1 .. Len(lines)
      /\ \A i \in 1 .. Len(lines) : lines[i] \in LineRecords
      /\ \A k \in LineRecords : k.run \in Nat /\ k.run \in Runs /\ k.size \in Nat
                                /\ k.ended \in BOOLEAN
  BY LinesType DEF LineRecords, Runs
<1>2. CASE ~Glued(lines)
  <2> DEFINE g == Append(lines, line)
  <2>1. /\ g \in Seq(LineRecords) /\ Len(g) = Len(lines) + 1 /\ DOMAIN g = 1 .. Len(lines) + 1
        /\ g[Len(lines) + 1] = line
        /\ \A i \in 1 .. Len(lines) : g[i] = lines[i]
    BY <1>1, LinesAre
  <2>2. Appended(lines, line) = g
    BY <1>2 DEF Appended
  <2> HIDE DEF g
  <2>3. \A i \in 1 .. Len(lines) + 1 : i \in 1 .. Len(lines) \/ i = Len(lines) + 1
    BY <1>1
  <2>4. 1 .. Len(lines) \subseteq 1 .. Len(lines) + 1 /\ Len(lines) + 1 \in 1 .. Len(lines) + 1
    BY <1>1
  <2>5. Sorted(lines) /\ Below(lines, line.run) => Sorted(g)
    <3> SUFFICES ASSUME Sorted(lines), Below(lines, line.run),
                        NEW i \in 1 .. Len(lines) + 1, NEW j \in 1 .. Len(lines) + 1, i < j
                 PROVE  g[i].run < g[j].run
      BY <2>1 DEF Sorted
    <3>1. i \in 1 .. Len(lines)
      BY <1>1
    <3> QED
      BY <1>1, <2>1, <2>3, <3>1 DEF Sorted, Below
  <2>6. Below(lines, line.run) => Below(g, line.run + 1)
    BY <1>1, <2>1, <2>3 DEF Below
  <2>7. RunsIn(g) \subseteq RunsIn(lines) \cup {line.run}
    BY <1>1, <2>1, <2>3 DEF RunsIn
  <2>8. RunsIn(lines) \subseteq RunsIn(g)
    BY <1>1, <2>1, <2>4 DEF RunsIn
  <2>9. line.kind # "torn" => line.run \in RunsIn(g)
    BY <2>1, <2>4 DEF RunsIn, Readable
  <2> QED
    BY <1>2, <2>1, <2>2, <2>5, <2>6, <2>7, <2>8, <2>9, LinesAre
<1>3. CASE Glued(lines)
  <2> DEFINE last == lines[Len(lines)]
             size == last.size + line.size
             torn == Line(line.run, "torn", size, line.ended)
             g == [lines EXCEPT ![Len(lines)] = torn]
  <2>1. Len(lines) \in 1 .. Len(lines) /\ last \in LineRecords
    BY <1>1, <1>3 DEF Glued
  <2>2. size \in Nat
    BY <1>1, <2>1
  <2>3. Appended(lines, line) = g
    BY <1>3 DEF Appended
  <2> HIDE DEF size
  <2>4. torn \in LineRecords /\ torn.run = line.run /\ torn.kind = "torn"
    BY <1>1, <2>2 DEF Line, LineRecords
  <2> HIDE DEF torn
  <2>5. /\ g \in Seq(LineRecords) /\ Len(g) = Len(lines) /\ DOMAIN g = 1 .. Len(lines)
        /\ g[Len(lines)] = torn
        /\ \A i \in 1 .. Len(lines) : i # Len(lines) => g[i] = lines[i]
    <3>1. lines \in Seq(LineRecords)
      BY LinesAre
    <3> HIDE DEF last
    <3> QED
      BY <2>1, <2>4, <3>1
  <2> HIDE DEF g
  <2>6. Sorted(lines) /\ Below(lines, line.run) => Sorted(g)
    <3> SUFFICES ASSUME Sorted(lines), Below(lines, line.run),
                        NEW i \in 1 .. Len(lines), NEW j \in 1 .. Len(lines), i < j
                 PROVE  g[i].run < g[j].run
      BY <2>5 DEF Sorted
    <3>0. Len(lines) \in Nat
      BY <1>1
    <3>1. i # Len(lines)
      BY <3>0
    <3>2. g[i] = lines[i]
      BY <2>5, <3>1
    <3>3. CASE j = Len(lines)
      BY <1>1, <2>4, <2>5, <3>2, <3>3 DEF Below
    <3>4. CASE j # Len(lines)
      <4>1. g[j] = lines[j]
        BY <2>5, <3>4
      <4> QED
        BY <1>1, <3>2, <4>1 DEF Sorted
    <3> QED
      BY <3>3, <3>4
  <2>7. Below(lines, line.run) => Below(g, line.run + 1)
    <3> SUFFICES ASSUME Below(lines, line.run), NEW i \in 1 .. Len(lines)
                 PROVE  g[i].run < line.run + 1
      BY <2>5 DEF Below
    <3>0. line.run \in Nat
      BY <1>1
    <3>1. CASE i = Len(lines)
      <4>1. g[i].run = line.run
        BY <2>4, <2>5, <3>1
      <4> QED
        BY <3>0, <4>1
    <3>2. CASE i # Len(lines)
      <4>1. g[i] = lines[i] /\ lines[i].run < line.run /\ lines[i].run \in Nat
        BY <1>1, <2>5, <3>2 DEF Below
      <4> QED
        BY <3>0, <4>1
    <3> QED
      BY <3>1, <3>2
  <2>8. RunsIn(g) \subseteq RunsIn(lines)
    <3> SUFFICES ASSUME NEW r \in RunsIn(g) PROVE r \in RunsIn(lines)
      OBVIOUS
    <3>1. PICK i \in 1 .. Len(lines) : Readable(g[i]) /\ r = g[i].run
      BY <2>5 DEF RunsIn
    <3>2. g[i] = lines[i]
      BY <2>4, <2>5, <3>1 DEF Readable
    <3> QED
      BY <1>1, <3>1, <3>2 DEF RunsIn
  <2>9. RunsIn(lines) \subseteq RunsIn(g) \cup {last.run}
    <3> SUFFICES ASSUME NEW r \in RunsIn(lines), r # last.run PROVE r \in RunsIn(g)
      OBVIOUS
    <3>1. PICK i \in 1 .. Len(lines) : Readable(lines[i]) /\ r = lines[i].run
      BY <1>1 DEF RunsIn
    <3>2. g[i] = lines[i]
      BY <2>5, <3>1
    <3> QED
      BY <2>5, <3>1, <3>2 DEF RunsIn
  <2> QED
    BY <1>3, <2>3, <2>5, <2>6, <2>7, <2>8, <2>9, LinesAre
<1> QED
  BY <1>2, <1>3

-----------------------------------------------------------------------------
(* Compaction. *)

(* A file has a number of lines of a kind.                                 *)
LEMMA CountType ==
  ASSUME NEW lines \in Lines, NEW kind
  PROVE  Count(lines, kind) \in Nat
<1> DEFINE S == {i \in DOMAIN lines : lines[i].kind = kind}
<1>1. IsFiniteSet(1 .. Len(lines)) /\ S \subseteq 1 .. Len(lines)
  <2>1. Len(lines) \in Int /\ 1 \in Int /\ DOMAIN lines = 1 .. Len(lines)
    BY LinesType
  <2>2. IsFiniteSet(1 .. Len(lines))
    BY <2>1, FS_Interval
  <2> QED
    BY <2>1, <2>2
<1> HIDE DEF S
<1>2. Cardinality(S) \in Nat
  BY <1>1, FS_Subset, FS_CardinalityType
<1> QED
  BY <1>2 DEF Count, S

(* What is retained begins somewhere in the file.                          *)
LEMMA RetainStartType ==
  ASSUME NEW lines \in Lines
  PROVE  RetainStart(lines) \in 0 .. Len(lines)
<1> DEFINE S == {i \in DOMAIN lines : ~Fits(lines, i)}
<1>1. Len(lines) \in Nat /\ S \subseteq 1 .. Len(lines)
  BY LinesType
<1>2. IsFiniteSet(1 .. Len(lines)) /\ Cardinality(1 .. Len(lines)) = Len(lines)
  <2> DEFINE n == Len(lines)
  <2>1. n \in Nat /\ n \in Int /\ 1 \in Int
    BY <1>1
  <2> HIDE DEF n
  <2>2. IsFiniteSet(1 .. n) /\ Cardinality(1 .. n) = IF 1 > n THEN 0 ELSE n - 1 + 1
    BY <2>1, FS_Interval
  <2>3. Cardinality(1 .. n) = n
    BY <2>1, <2>2
  <2> QED
    BY <2>2, <2>3 DEF n
<1> HIDE DEF S
<1>3. Cardinality(S) \in Nat /\ Cardinality(S) <= Len(lines)
  BY <1>1, <1>2, FS_Subset, FS_CardinalityType
<1> QED
  BY <1>1, <1>3 DEF RetainStart, S

(* What is cut off the front and what is left are the runs there were, and *)
(* no run of an ordered file is on both sides.                             *)
LEMMA CutType ==
  ASSUME NEW lines \in Lines
  PROVE  /\ Retained(lines) \in Lines
         /\ Removed(lines) \subseteq Runs
         /\ RunsIn(Retained(lines)) \cup Removed(lines) = RunsIn(lines)
         /\ Sorted(lines) => /\ Sorted(Retained(lines))
                             /\ RunsIn(Retained(lines)) \cap Removed(lines) = {}
         /\ \A n \in Int : Below(lines, n) => Below(Retained(lines), n)
<1> DEFINE k == RetainStart(lines)
           b == SubSeq(lines, 1, k)
           a == SubSeq(lines, k + 1, Len(lines))
<1>1. /\ Len(lines) \in Nat /\ DOMAIN lines = 1 .. Len(lines)
      /\ lines \in Seq(LineRecords)
      /\ \A i \in 1 .. Len(lines) : lines[i] \in LineRecords /\ lines[i].run \in Nat
  BY LinesType, LinesAre
<1>2. k \in 0 .. Len(lines)
  BY RetainStartType
<1> HIDE DEF k
<1>3. /\ b \in Seq(LineRecords) /\ Len(b) = k /\ DOMAIN b = 1 .. k
      /\ \A i \in 1 .. k : b[i] = lines[i]
  BY <1>1, <1>2
<1>4. /\ a \in Seq(LineRecords) /\ Len(a) = Len(lines) - k /\ DOMAIN a = 1 .. Len(lines) - k
      /\ \A i \in 1 .. Len(lines) - k : a[i] = lines[i + k]
  <2>1. /\ a \in Seq(LineRecords) /\ Len(a) = Len(lines) - k
        /\ \A i \in 1 .. Len(lines) - k : a[i] = lines[i + k]
    BY <1>1, <1>2, SuffixType
  <2> HIDE DEF a
  <2> QED
    BY <2>1
<1>5. Retained(lines) = a /\ Removed(lines) = RunsIn(b)
  BY DEF Retained, Removed, k
<1> HIDE DEF a, b
<1>6. /\ \A i \in 1 .. k : i \in 1 .. Len(lines)
      /\ \A i \in 1 .. Len(lines) - k : i + k \in 1 .. Len(lines) /\ i + k > k
      /\ \A i \in 1 .. Len(lines) : i \in 1 .. k \/ (i - k \in 1 .. Len(lines) - k /\ (i - k) + k = i)
      /\ \A i, j \in 1 .. Len(lines) - k : i < j => i + k < j + k
  BY <1>1, <1>2
<1>7. RunsIn(a) \cup RunsIn(b) = RunsIn(lines)
  <2>1. RunsIn(a) \subseteq RunsIn(lines)
    BY <1>1, <1>4, <1>6 DEF RunsIn
  <2>2. RunsIn(b) \subseteq RunsIn(lines)
    BY <1>1, <1>3, <1>6 DEF RunsIn
  <2>3. ASSUME NEW r \in RunsIn(lines) PROVE r \in RunsIn(a) \cup RunsIn(b)
    <3>1. PICK i \in 1 .. Len(lines) : Readable(lines[i]) /\ r = lines[i].run
      BY <1>1 DEF RunsIn
    <3>2. CASE i \in 1 .. k
      BY <1>3, <3>1, <3>2 DEF RunsIn
    <3>3. CASE i - k \in 1 .. Len(lines) - k /\ (i - k) + k = i
      <4>1. a[i - k] = lines[i]
        BY <1>4, <3>3
      <4> QED
        BY <1>4, <3>1, <3>3, <4>1 DEF RunsIn
    <3> QED
      BY <1>6, <3>2, <3>3
  <2> QED
    BY <2>1, <2>2, <2>3
<1>8. Sorted(lines) => Sorted(a)
  BY <1>1, <1>4, <1>6 DEF Sorted
<1>9. Sorted(lines) => RunsIn(a) \cap RunsIn(b) = {}
  <2> SUFFICES ASSUME Sorted(lines), NEW r \in RunsIn(a), r \in RunsIn(b) PROVE FALSE
    OBVIOUS
  <2>1. PICK i \in 1 .. Len(lines) - k : r = lines[i + k].run
    BY <1>4 DEF RunsIn
  <2>2. PICK j \in 1 .. k : r = lines[j].run
    BY <1>3 DEF RunsIn
  <2>3. k \in Nat /\ j <= k /\ i + k > k /\ j \in 1 .. Len(lines) /\ i + k \in 1 .. Len(lines)
    BY <1>2, <1>6
  <2>4. j < i + k
    BY <2>3
  <2>5. lines[j].run < lines[i + k].run /\ lines[j].run \in Nat
    BY <1>1, <2>3, <2>4 DEF Sorted
  <2> QED
    BY <2>1, <2>2, <2>5
<1>10. \A n \in Int : Below(lines, n) => Below(a, n)
  BY <1>1, <1>4, <1>6 DEF Below
<1>11. Removed(lines) \subseteq Runs
  BY <1>5, <1>7, LinesType
<1> QED
  BY <1>4, <1>5, <1>7, <1>8, <1>9, <1>10, <1>11, LinesAre

Batches == [kept : Lines, removed : SUBSET Runs, dropped : Nat]

(* What a compaction keeps and what it archives are the runs of the file.  *)
LEMMA BatchType ==
  ASSUME NEW lines \in Lines
  PROVE  /\ BatchOf(lines) \in Batches
         /\ RunsIn(BatchOf(lines).kept) \cup BatchOf(lines).removed = RunsIn(lines)
         /\ Sorted(lines) => /\ Sorted(BatchOf(lines).kept)
                             /\ RunsIn(BatchOf(lines).kept) \cap BatchOf(lines).removed = {}
         /\ \A n \in Int : Below(lines, n) => Below(BatchOf(lines).kept, n)
<1> DEFINE d == DecodedLines(lines)
<1>1. /\ d \in Lines /\ RunsIn(d) = RunsIn(lines)
      /\ Sorted(lines) => Sorted(d)
      /\ \A n \in Int : Below(lines, n) => Below(d, n)
  BY DecodedLinesType
<1>2. BatchOf(lines) = [kept |-> Retained(d), removed |-> Removed(d),
                        dropped |-> Count(lines, "torn")]
  BY DEF BatchOf
<1> HIDE DEF d
<1>3. Count(lines, "torn") \in Nat
  BY CountType
<1>4. /\ Retained(d) \in Lines
      /\ Removed(d) \subseteq Runs
      /\ RunsIn(Retained(d)) \cup Removed(d) = RunsIn(d)
      /\ Sorted(d) => /\ Sorted(Retained(d))
                      /\ RunsIn(Retained(d)) \cap Removed(d) = {}
      /\ \A n \in Int : Below(d, n) => Below(Retained(d), n)
  BY <1>1, CutType
<1>5. BatchOf(lines) \in Batches
  BY <1>2, <1>3, <1>4 DEF Batches
<1> QED
  BY <1>1, <1>2, <1>4, <1>5

(* No batch is a batch.                                                    *)
LEMMA NoBatchType ==
  /\ NoBatch \in Batches /\ NoBatch.kept = <<>> /\ NoBatch.removed = {} /\ NoBatch.dropped = 0
BY EmptyLines DEF NoBatch, Batches

-----------------------------------------------------------------------------
(* Totals. *)

(* No totals are totals of nothing.                                        *)
LEMMA NoTotalsType ==
  NoTotals \in Totals /\ \A r \in Runs : NoTotals.count[r] = 0
BY HistoryAssumption DEF NoTotals, Totals, Counts

(* Archiving counts the runs it is given once more, the excluded ones not. *)
LEMMA FoldType ==
  ASSUME NEW t \in Totals, NEW S \in SUBSET Runs, NEW d \in Nat
  PROVE  /\ Fold(t, S, d) \in Totals
         /\ \A r \in Runs : /\ t.count[r] \in Nat
                            /\ Fold(t, S, d).count[r]
                                 = t.count[r] + (IF r \in S \ Excluded THEN 1 ELSE 0)
<1> DEFINE c == [r \in Runs |-> t.count[r] + (IF r \in S \ Excluded THEN 1 ELSE 0)]
<1>1. /\ t.count \in [Runs -> Nat] /\ \A r \in Excluded : t.count[r] = 0
      /\ t.dropped \in Nat
  BY DEF Totals, Counts
<1>2. c \in Counts
  BY <1>1, HistoryAssumption DEF Counts
<1>3. Fold(t, S, d) = [count |-> c, dropped |-> t.dropped + d]
  BY DEF Fold
<1>4. \A r \in Runs : c[r] = t.count[r] + (IF r \in S \ Excluded THEN 1 ELSE 0)
  OBVIOUS
<1> HIDE DEF c
<1> QED
  BY <1>1, <1>2, <1>3, <1>4 DEF Totals

-----------------------------------------------------------------------------
(* The order of the files, whoever writes them. *)

Labels == {"idle", "write", "stat", "read", "replace", "archive", "fold", "remove"}

Files(nodes, n) == \A k \in 1 .. Len(nodes) : Sorted(nodes[k]) /\ Below(nodes[k], n)
Kept(batches, n) == \A p \in Procs : Sorted(batches[p].kept) /\ Below(batches[p].kept, n)

(* The invariant, conjunct by conjunct.                                    *)
LEMMA HistoryInvIs ==
  HistoryInv <=>
    /\ inodes \in Seq(Lines) /\ inodes # <<>>
    /\ totals \in Totals
    /\ pc \in [Procs -> Labels]
    /\ fd \in [Procs -> 1 .. Len(inodes)]
    /\ batch \in [Procs -> Batches]
    /\ held \in [Procs -> Totals]
    /\ repair \in [Procs -> BOOLEAN]
    /\ next \in 1 .. MaxRuns + 1
    /\ mine \in [Procs -> 0 .. MaxRuns]
    /\ failed \in [Procs -> BOOLEAN]
    /\ waived \subseteq Runs /\ cleared \subseteq Runs
    /\ Files(inodes, next) /\ Kept(batch, next)
BY DEF HistoryInv, TypeOK, OrderInv, Files, Kept, Labels, Batches

(* What the invariant says of the state before a step.                     *)
LEMMA HistoryInvWas ==
  ASSUME HistoryInv
  PROVE  /\ inodes \in Seq(Lines) /\ inodes # <<>> /\ Len(inodes) \in Nat
         /\ Len(inodes) \in 1 .. Len(inodes) /\ File \in Lines
         /\ \A k \in 1 .. Len(inodes) : inodes[k] \in Lines
         /\ totals \in Totals
         /\ pc \in [Procs -> Labels]
         /\ fd \in [Procs -> 1 .. Len(inodes)]
         /\ batch \in [Procs -> Batches]
         /\ held \in [Procs -> Totals]
         /\ repair \in [Procs -> BOOLEAN]
         /\ next \in 1 .. MaxRuns + 1 /\ next \in Nat /\ next \in Int
         /\ mine \in [Procs -> 0 .. MaxRuns]
         /\ failed \in [Procs -> BOOLEAN]
         /\ waived \subseteq Runs /\ cleared \subseteq Runs
         /\ Files(inodes, next) /\ Kept(batch, next)
         /\ Sorted(File) /\ Below(File, next)
<1>1. /\ inodes \in Seq(Lines) /\ inodes # <<>>
      /\ Files(inodes, next)
      /\ next \in 1 .. MaxRuns + 1
  BY HistoryInvIs
<1>2. /\ Len(inodes) \in Nat /\ Len(inodes) \in 1 .. Len(inodes)
      /\ \A k \in 1 .. Len(inodes) : inodes[k] \in Lines
  BY <1>1
<1>3. next \in Nat /\ next \in Int
  BY <1>1
<1>4. File \in Lines /\ Sorted(File) /\ Below(File, next)
  BY <1>1, <1>2 DEF File, Files
<1> QED
  BY <1>1, <1>2, <1>3, <1>4, HistoryInvIs

(* What is below a number is below a larger one.                           *)
LEMMA BelowGrows ==
  ASSUME NEW lines \in Lines, NEW m \in Int, NEW n \in Int, m <= n, Below(lines, m)
  PROVE  Below(lines, n)
BY LinesType DEF Below

(* A rename adds an inode, and leaves all of them in order.                *)
LEMMA FilesRenamed ==
  ASSUME NEW nodes \in Seq(Lines), NEW lines \in Lines, NEW n \in Int,
         Files(nodes, n), Sorted(lines), Below(lines, n),
         NEW new, new = Append(nodes, lines)
  PROVE  /\ new \in Seq(Lines) /\ Len(new) = Len(nodes) + 1
         /\ new[Len(nodes) + 1] = lines
         /\ Files(new, n)
<1>1. /\ new \in Seq(Lines) /\ Len(new) = Len(nodes) + 1 /\ new[Len(nodes) + 1] = lines
      /\ \A l \in 1 .. Len(nodes) : new[l] = nodes[l]
      /\ Len(nodes) \in Nat
  OBVIOUS
<1>2. \A l \in 1 .. Len(nodes) + 1 : l = Len(nodes) + 1 \/ l \in 1 .. Len(nodes)
  BY <1>1
<1>3. Files(new, n)
  BY <1>1, <1>2 DEF Files
<1> QED
  BY <1>1, <1>3

(* And so are the lines the processes keep in memory.                      *)
LEMMA KeptGrows ==
  ASSUME NEW batches \in [Procs -> Batches], NEW m \in Int, NEW n \in Int, m <= n,
         Kept(batches, m)
  PROVE  Kept(batches, n)
<1>1. \A p \in Procs : batches[p].kept \in Lines
  BY DEF Batches
<1> QED
  BY <1>1, BelowGrows DEF Kept

(* And those of every file.                                                *)
LEMMA FilesGrow ==
  ASSUME NEW nodes \in Seq(Lines), NEW m \in Int, NEW n \in Int, m <= n, Files(nodes, m)
  PROVE  Files(nodes, n)
<1>1. \A k \in 1 .. Len(nodes) : nodes[k] \in Lines
  OBVIOUS
<1> QED
  BY <1>1, BelowGrows DEF Files

(* A process that is done holds nothing.                                   *)
LEMMA DoneType ==
  ASSUME HistoryInv, NEW p \in Procs, Done(p)
  PROVE  /\ pc' \in [Procs -> Labels] /\ pc'[p] = "idle"
         /\ batch' \in [Procs -> Batches] /\ batch'[p] = NoBatch
         /\ held' \in [Procs -> Totals] /\ held'[p] = NoTotals
         /\ Kept(batch', next)
<1>1. /\ pc \in [Procs -> Labels] /\ batch \in [Procs -> Batches] /\ held \in [Procs -> Totals]
      /\ next \in Int /\ Kept(batch, next)
  BY HistoryInvWas
<1>2. /\ pc' = [pc EXCEPT ![p] = "idle"] /\ batch' = [batch EXCEPT ![p] = NoBatch]
      /\ held' = [held EXCEPT ![p] = NoTotals]
  BY DEF Done, Goto
<1>3. pc' \in [Procs -> Labels] /\ pc'[p] = "idle"
  BY <1>1, <1>2 DEF Labels
<1>4. batch' \in [Procs -> Batches] /\ batch'[p] = NoBatch
  BY <1>1, <1>2, NoBatchType
<1>5. held' \in [Procs -> Totals] /\ held'[p] = NoTotals
  BY <1>1, <1>2, NoTotalsType
<1>6. Kept(batch', next)
  <2>1. ASSUME NEW q \in Procs PROVE Sorted(batch'[q].kept) /\ Below(batch'[q].kept, next)
    <3>1. CASE q = p
      BY <1>1, <1>4, <3>1, NoBatchType, EmptyLines
    <3>2. CASE q # p
      <4>1. batch'[q] = batch[q]
        BY <1>1, <1>2, <3>2
      <4> QED
        BY <1>1, <4>1 DEF Kept
    <3> QED
      BY <3>1, <3>2
  <2> QED
    BY <2>1 DEF Kept
<1> QED
  BY <1>3, <1>4, <1>5, <1>6

(* A process that goes on stays within the code.                           *)
LEMMA GotoType ==
  ASSUME HistoryInv, NEW p \in Procs, NEW label \in Labels, Goto(p, label)
  PROVE  pc' \in [Procs -> Labels]
BY HistoryInvWas DEF Goto

(* A failure is noted.                                                     *)
LEMMA FailsType ==
  ASSUME HistoryInv, NEW p \in Procs, Fails(p)
  PROVE  failed' \in [Procs -> BOOLEAN]
BY HistoryInvWas DEF Fails

(* The invariant after a step, conjunct by conjunct.                       *)
LEMMA HistoryInvBecomes ==
  ASSUME inodes' \in Seq(Lines), inodes' # <<>>,
         totals' \in Totals,
         pc' \in [Procs -> Labels],
         fd' \in [Procs -> 1 .. Len(inodes')],
         batch' \in [Procs -> Batches],
         held' \in [Procs -> Totals],
         repair' \in [Procs -> BOOLEAN],
         next' \in 1 .. MaxRuns + 1,
         mine' \in [Procs -> 0 .. MaxRuns],
         failed' \in [Procs -> BOOLEAN],
         waived' \subseteq Runs, cleared' \subseteq Runs,
         Files(inodes', next'), Kept(batch', next')
  PROVE  HistoryInv'
BY DEF HistoryInv, TypeOK, OrderInv, Files, Kept, Labels, Batches

(* A line an earlier version left is a line.                               *)
LEMMA LegacyType ==
  ASSUME NEW r \in Runs, NEW line \in LegacyLines(r)
  PROVE  line \in LineRecords /\ line.run = r /\ line.ended
<1>1. LineSizes \subseteq Nat /\ OversizedSize \in Nat
  BY HistoryAssumption
<1>2. \/ \E n \in LineSizes : line = Line(r, "ok", n, TRUE)
      \/ line = Line(r, "oversized", OversizedSize, TRUE)
      \/ line = Line(r, "torn", 1, TRUE)
  BY DEF LegacyLines
<1>3. ASSUME NEW n \in LineSizes, line = Line(r, "ok", n, TRUE)
      PROVE  line \in LineRecords /\ line.run = r /\ line.ended
  BY <1>1, <1>3 DEF Line, LineRecords
<1>4. CASE line = Line(r, "oversized", OversizedSize, TRUE)
  BY <1>1, <1>4 DEF Line, LineRecords
<1>5. CASE line = Line(r, "torn", 1, TRUE)
  BY <1>5 DEF Line, LineRecords
<1> QED
  BY <1>2, <1>3, <1>4, <1>5

(* The invariant holds of every file an earlier version left.              *)
LEMMA HistoryInit == Init => HistoryInv
<1> SUFFICES ASSUME Init PROVE HistoryInv
  OBVIOUS
<1>1. PICK n \in 0 .. MaxLegacy :
        /\ next = n + 1
        /\ \E lines \in [1 .. n -> UNION {LegacyLines(r) : r \in 1 .. n}] :
             /\ \A i \in 1 .. n : lines[i] \in LegacyLines(i)
             /\ inodes = <<lines>>
             /\ waived = {i \in 1 .. n : lines[i].kind = "torn"}
  BY DEF Init
<1>2. PICK lines \in [1 .. n -> UNION {LegacyLines(r) : r \in 1 .. n}] :
        /\ \A i \in 1 .. n : lines[i] \in LegacyLines(i)
        /\ inodes = <<lines>>
        /\ waived = {i \in 1 .. n : lines[i].kind = "torn"}
  BY <1>1
<1>3. MaxRuns \in Nat /\ n \in Nat /\ n <= MaxRuns /\ 1 .. n \subseteq Runs
  BY HistoryAssumption DEF Runs
<1>4. \A i \in 1 .. n : lines[i] \in LineRecords /\ lines[i].run = i
  BY <1>2, <1>3, LegacyType
<1>5. DOMAIN lines = 1 .. n /\ lines = [i \in 1 .. n |-> lines[i]]
  OBVIOUS
<1>6. lines \in Seq(LineRecords)
  <2>1. lines \in [1 .. n -> LineRecords]
    BY <1>4, <1>5
  <2> QED
    BY <1>3, <2>1
<1>7. lines \in Lines
  BY <1>6, LinesAre
<1>8. Sorted(lines) /\ Below(lines, next)
  <2>1. \A i \in DOMAIN lines : i \in 1 .. n /\ i \in Nat /\ i < next /\ lines[i].run = i
    <3>1. next = n + 1
      BY <1>1
    <3> QED
      BY <1>3, <1>4, <1>5, <3>1
  <2> QED
    BY ONLY <2>1 DEF Sorted, Below
<1>9. inodes \in Seq(Lines) /\ Len(inodes) = 1 /\ inodes[1] = lines /\ inodes # <<>>
  BY <1>2, <1>7
<1>10. Files(inodes, next)
  BY <1>8, <1>9 DEF Files
<1>11. next \in 1 .. MaxRuns + 1 /\ next \in Int
  BY <1>1, <1>3
<1>12. waived \subseteq Runs
  BY <1>2, <1>3
<1>13. /\ pc \in [Procs -> Labels] /\ fd \in [Procs -> 1 .. Len(inodes)]
       /\ repair \in [Procs -> BOOLEAN] /\ failed \in [Procs -> BOOLEAN]
       /\ cleared \subseteq Runs /\ totals \in Totals
  BY <1>9, NoTotalsType DEF Init, Labels
<1>14. /\ batch = [p \in Procs |-> NoBatch] /\ held \in [Procs -> Totals]
       /\ batch \in [Procs -> Batches]
  BY NoBatchType, NoTotalsType DEF Init
<1>15. mine \in [Procs -> 0 .. MaxRuns]
  BY <1>3 DEF Init
<1>16. Kept(batch, next)
  BY <1>11, <1>14, NoBatchType, EmptyLines DEF Kept
<1> QED
  BY <1>9, <1>10, <1>11, <1>12, <1>13, <1>14, <1>15, <1>16, HistoryInvIs

-----------------------------------------------------------------------------
(* Appending. *)

(* The record being appended. *)
LEMMA RecordType ==
  ASSUME HistoryInv, next \in Runs, NEW kind \in {"ok", "torn"}, NEW size \in Nat,
         NEW ended \in BOOLEAN
  PROVE  /\ Line(next, kind, size, ended) \in LineRecords
         /\ Line(next, kind, size, ended).run = next
         /\ Line(next, kind, size, ended).kind = kind
         /\ next + 1 \in 1 .. MaxRuns + 1
         /\ next + 1 \in Int /\ next <= next + 1
<1>1. next \in Nat /\ next \in Runs /\ MaxRuns \in Nat
  BY HistoryInvWas, HistoryAssumption
<1> QED
  BY <1>1 DEF Line, LineRecords, Runs

(* A line that was never ended spoils itself and the next.                 *)
LEMMA SpoiledType ==
  ASSUME NEW lines \in Lines, next \in Runs
  PROVE  /\ Spoiled(lines) \subseteq Runs
         /\ Glued(lines) => {lines[Len(lines)].run, next} \subseteq Spoiled(lines)
         /\ Spoiled(lines) \subseteq RunsIn(lines) \cup {lines[i].run : i \in DOMAIN lines} \cup {next}
<1>1. Len(lines) \in Nat /\ DOMAIN lines = 1 .. Len(lines)
      /\ \A i \in 1 .. Len(lines) : lines[i].run \in Runs
  BY LinesType
<1>2. CASE Glued(lines)
  <2>1. Len(lines) \in 1 .. Len(lines)
    BY <1>1, <1>2 DEF Glued
  <2> QED
    BY <1>1, <1>2, <2>1 DEF Spoiled
<1> QED
  BY <1>2 DEF Spoiled

(* A line appended to the inode a process has open.                        *)
LEMMA InodesWritten ==
  ASSUME HistoryInv, NEW p \in Procs, next \in Runs,
         NEW line \in LineRecords, line.run = next,
         inodes' = [inodes EXCEPT ![fd[p]] = Appended(@, line)]
  PROVE  /\ fd[p] \in 1 .. Len(inodes) /\ inodes[fd[p]] \in Lines
         /\ inodes' \in Seq(Lines) /\ Len(inodes') = Len(inodes) /\ inodes' # <<>>
         /\ inodes'[fd[p]] = Appended(inodes[fd[p]], line)
         /\ \A l \in 1 .. Len(inodes) : l # fd[p] => inodes'[l] = inodes[l]
         /\ Files(inodes', next + 1)
<1> DEFINE k == fd[p]
           new == Appended(inodes[k], line)
<1>1. /\ k \in 1 .. Len(inodes) /\ inodes \in Seq(Lines) /\ inodes[k] \in Lines
      /\ Len(inodes) \in Nat /\ next \in Int /\ Files(inodes, next)
  BY HistoryInvWas
<1>2. next + 1 \in Int /\ next <= next + 1
  BY <1>1
<1>3. Sorted(inodes[k]) /\ Below(inodes[k], next)
  BY <1>1 DEF Files
<1>4. new \in Lines /\ Sorted(new) /\ Below(new, next + 1)
  BY <1>1, <1>3, AppendedType
<1>5. inodes' = [inodes EXCEPT ![k] = new]
  OBVIOUS
<1> HIDE DEF new, k
<1>6. /\ inodes' \in Seq(Lines) /\ Len(inodes') = Len(inodes) /\ inodes'[k] = new
      /\ \A l \in 1 .. Len(inodes) : l # k => inodes'[l] = inodes[l]
      /\ Files(inodes', next + 1)
  <2>1. /\ inodes' \in Seq(Lines) /\ Len(inodes') = Len(inodes) /\ inodes'[k] = new
        /\ \A l \in 1 .. Len(inodes) : l # k => inodes'[l] = inodes[l]
        /\ \A l \in 1 .. Len(inodes) : inodes[l] \in Lines
    <3> DEFINE v == inodes'
    <3>1. new \in Lines /\ v = [inodes EXCEPT ![k] = new]
      BY <1>4, <1>5
    <3> HIDE DEF v
    <3>2. v \in Seq(Lines)
      BY ONLY <1>1, <3>1
    <3>3. Len(v) = Len(inodes) /\ v[k] = new
      BY ONLY <1>1, <3>1
    <3>4. \A l \in 1 .. Len(inodes) : l # k => v[l] = inodes[l]
      BY ONLY <1>1, <3>1
    <3>5. \A l \in 1 .. Len(inodes) : inodes[l] \in Lines
      BY ONLY <1>1
    <3> QED
      BY <3>2, <3>3, <3>4, <3>5 DEF v
  <2>2. Files(inodes', next + 1)
    BY <1>1, <1>2, <1>4, <2>1, BelowGrows DEF Files
  <2> QED
    BY <2>1, <2>2
<1>7. inodes' # <<>>
  BY <1>1, <1>6
<1> QED
  BY <1>1, <1>6, <1>7 DEF new, k

(* Opening the file writes nothing.                                        *)
LEMMA OpenOrdered ==
  ASSUME HistoryInv, NEW p \in Procs, Open(p)
  PROVE  HistoryInv'
<1>1. UNCHANGED <<inodes, totals, batch, held, repair, next, mine, waived, cleared>>
  BY DEF Open
<1>2. fd' \in [Procs -> 1 .. Len(inodes')] /\ failed' \in [Procs -> BOOLEAN]
  BY <1>1, HistoryInvWas DEF Open
<1>3. pc' \in [Procs -> Labels]
  BY GotoType DEF Open, Labels
<1> QED
  BY <1>1, <1>2, <1>3, HistoryInvWas, HistoryInvBecomes

(* A run that is appended is later than every line.                        *)
LEMMA WriteOrdered ==
  ASSUME HistoryInv, NEW p \in Procs, Write(p)
  PROVE  HistoryInv'
<1>1. UNCHANGED <<totals, fd, batch, held, repair, cleared, failed>>
  BY DEF Write
<1>2. next \in Runs /\ next' = next + 1
  BY DEF Write
<1>3. PICK size \in LineSizes :
        inodes' = [inodes EXCEPT ![fd[p]] = Appended(@, Line(next, "ok", size, TRUE))]
  BY DEF Write
<1>4. size \in Nat
  BY HistoryAssumption
<1> DEFINE line == Line(next, "ok", size, TRUE)
<1>5. line \in LineRecords /\ line.run = next /\ next' \in 1 .. MaxRuns + 1
      /\ next' \in Int /\ next <= next'
  BY <1>2, <1>4, RecordType
<1>6. inodes' = [inodes EXCEPT ![fd[p]] = Appended(@, line)]
  BY <1>3
<1> HIDE DEF line
<1>7. /\ inodes' \in Seq(Lines) /\ Len(inodes') = Len(inodes) /\ inodes' # <<>>
      /\ inodes[fd[p]] \in Lines
      /\ Files(inodes', next')
  BY <1>2, <1>5, <1>6, InodesWritten
<1>8. pc' \in [Procs -> Labels]
  BY GotoType DEF Write, Labels
<1>9. waived' \subseteq Runs
  BY <1>2, <1>7, HistoryInvWas, SpoiledType DEF Write
<1>10. mine' \in [Procs -> 0 .. MaxRuns]
  <2>1. next \in 0 .. MaxRuns
    BY <1>2, HistoryInvWas, HistoryAssumption DEF Runs
  <2> QED
    BY <2>1, HistoryInvWas DEF Write
<1>11. Kept(batch', next')
  BY <1>1, <1>5, HistoryInvWas, KeptGrows
<1> QED
  BY <1>1, <1>5, <1>7, <1>8, <1>9, <1>10, <1>11, HistoryInvWas, HistoryInvBecomes

(* So is one that is torn.                                                 *)
LEMMA WriteFailsOrdered ==
  ASSUME HistoryInv, NEW p \in Procs, WriteFails(p)
  PROVE  HistoryInv'
<1>1. UNCHANGED <<totals, fd, repair, mine, cleared>>
  BY DEF WriteFails
<1>2. next \in Runs /\ next' = next + 1
  BY DEF WriteFails
<1>3. ClippedSize \in Nat
  BY HistoryAssumption
<1>4. next' \in 1 .. MaxRuns + 1 /\ next' \in Int /\ next <= next'
  BY <1>2, <1>3, RecordType
<1>5. /\ inodes' \in Seq(Lines) /\ Len(inodes') = Len(inodes) /\ inodes' # <<>>
      /\ Files(inodes', next')
  <2>1. CASE UNCHANGED inodes
    BY <1>4, <2>1, HistoryInvWas, FilesGrow
  <2>2. CASE \E kind \in {"torn", "ok"} :
               inodes' = [inodes EXCEPT ![fd[p]] =
                            Appended(@, Line(next, kind, ClippedSize, FALSE))]
    <3>1. PICK kind \in {"torn", "ok"} :
            inodes' = [inodes EXCEPT ![fd[p]] =
                         Appended(@, Line(next, kind, ClippedSize, FALSE))]
      BY <2>2
    <3> DEFINE line == Line(next, kind, ClippedSize, FALSE)
    <3>2. line \in LineRecords /\ line.run = next
      BY <1>2, <1>3, RecordType
    <3>3. inodes' = [inodes EXCEPT ![fd[p]] = Appended(@, line)]
      BY <3>1
    <3> HIDE DEF line
    <3> QED
      BY <1>2, <3>2, <3>3, InodesWritten
  <2> QED
    BY <2>1, <2>2 DEF WriteFails
<1>6. /\ pc' \in [Procs -> Labels] /\ batch' \in [Procs -> Batches]
      /\ held' \in [Procs -> Totals] /\ Kept(batch', next)
  BY DoneType DEF WriteFails
<1>7. waived' \subseteq Runs
  <2>1. inodes[fd[p]] \in Lines
    BY HistoryInvWas
  <2> QED
    BY <1>2, <2>1, HistoryInvWas, SpoiledType DEF WriteFails
<1>8. failed' \in [Procs -> BOOLEAN]
  BY FailsType DEF WriteFails
<1>9. Kept(batch', next')
  BY <1>4, <1>6, HistoryInvWas, KeptGrows
<1> QED
  BY <1>1, <1>4, <1>5, <1>6, <1>7, <1>8, <1>9, HistoryInvWas, HistoryInvBecomes

(* Asking for the size changes nothing.                                    *)
LEMMA StatOrdered ==
  ASSUME HistoryInv, NEW p \in Procs, Stat(p)
  PROVE  HistoryInv'
<1>1. UNCHANGED <<inodes, totals, fd, batch, held, repair, next, mine, waived, cleared>>
  BY DEF Stat
<1>2. PICK size \in {Bytes(inodes[fd[p]]), -1} :
        /\ IF size = -1 THEN Fails(p) ELSE UNCHANGED failed
        /\ Goto(p, IF size > MaxFileBytes \/ repair[p] THEN "read" ELSE "idle")
  BY DEF Stat
<1>3. failed' \in [Procs -> BOOLEAN]
  BY <1>2, FailsType, HistoryInvWas
<1>4. pc' \in [Procs -> Labels]
  <2> DEFINE label == IF size > MaxFileBytes \/ repair[p] THEN "read" ELSE "idle"
  <2>1. label \in Labels
    BY DEF Labels
  <2>2. Goto(p, label)
    BY <1>2
  <2> HIDE DEF label
  <2> QED
    BY <2>1, <2>2, GotoType
<1> QED
  BY <1>1, <1>3, <1>4, HistoryInvWas, HistoryInvBecomes

(* What a compaction keeps of a sorted file is sorted.                     *)
LEMMA ReadLinesOrdered ==
  ASSUME HistoryInv, NEW p \in Procs, ReadLines(p)
  PROVE  HistoryInv'
<1>1. UNCHANGED <<inodes, totals, fd, held, next, mine, waived, cleared>>
  BY DEF ReadLines
<1>2. repair' \in [Procs -> BOOLEAN]
  BY HistoryInvWas DEF ReadLines
<1>3. failed' \in [Procs -> BOOLEAN]
  BY FailsType, HistoryInvWas DEF ReadLines
<1>4. pc' \in [Procs -> Labels]
  BY GotoType DEF ReadLines, Labels
<1>5. batch' \in [Procs -> Batches] /\ Kept(batch', next)
  <2>0. batch \in [Procs -> Batches] /\ Kept(batch, next)
    BY HistoryInvWas
  <2>1. CASE UNCHANGED batch
    BY <2>0, <2>1
  <2>2. CASE batch' = [batch EXCEPT ![p] = BatchOf(File)]
    <3> DEFINE b == BatchOf(File)
    <3>1. b \in Batches /\ Sorted(b.kept) /\ Below(b.kept, next)
      BY HistoryInvWas, BatchType
    <3>2. batch' = [batch EXCEPT ![p] = b]
      BY <2>2
    <3> HIDE DEF b
    <3>3. batch' \in [Procs -> Batches]
      BY <2>0, <3>1, <3>2
    <3>4. \A q \in Procs : batch'[q] = b \/ batch'[q] = batch[q]
      BY <2>0, <3>2
    <3> QED
      BY <2>0, <3>1, <3>3, <3>4 DEF Kept
  <2> QED
    BY <2>1, <2>2 DEF ReadLines
<1> QED
  BY <1>1, <1>2, <1>3, <1>4, <1>5, HistoryInvWas, HistoryInvBecomes

(* The rename installs the sorted lines that were kept.                    *)
LEMMA ReplaceOrdered ==
  ASSUME HistoryInv, NEW p \in Procs, Replace(p)
  PROVE  /\ HistoryInv'
         /\ inodes'[Len(inodes')] = batch[p].kept
<1>1. UNCHANGED <<totals, fd, batch, held, repair, next, mine, waived, cleared, failed>>
  BY DEF Replace
<1>2. inodes' = Append(inodes, batch[p].kept)
  BY DEF Replace
<1>3. /\ batch[p].kept \in Lines /\ Sorted(batch[p].kept) /\ Below(batch[p].kept, next)
      /\ inodes \in Seq(Lines) /\ Len(inodes) \in Nat
      /\ next \in Int /\ Files(inodes, next)
  BY HistoryInvWas DEF Kept, Batches
<1>4. /\ inodes' \in Seq(Lines) /\ Len(inodes') = Len(inodes) + 1
      /\ inodes'[Len(inodes) + 1] = batch[p].kept
      /\ Files(inodes', next)
  <2> DEFINE v == inodes'
             lines == batch[p].kept
  <2>1. /\ lines \in Lines /\ Sorted(lines) /\ Below(lines, next)
        /\ v = Append(inodes, lines)
    BY <1>2, <1>3
  <2> HIDE DEF v, lines
  <2>2. /\ v \in Seq(Lines) /\ Len(v) = Len(inodes) + 1
        /\ v[Len(inodes) + 1] = lines
        /\ Files(v, next)
    BY ONLY <1>3, <2>1, FilesRenamed
  <2> QED
    BY <2>2 DEF v, lines
<1>5. inodes' # <<>>
  BY <1>3, <1>4
<1>6. fd' \in [Procs -> 1 .. Len(inodes')]
  <2>1. 1 .. Len(inodes) \subseteq 1 .. Len(inodes')
    BY <1>3, <1>4
  <2> QED
    BY <1>1, <2>1, HistoryInvWas
<1>7. pc' \in [Procs -> Labels]
  BY GotoType DEF Replace, Labels
<1> QED
  BY <1>1, <1>3, <1>4, <1>5, <1>6, <1>7, HistoryInvWas, HistoryInvBecomes

(* A failed rename leaves the file.                                        *)
LEMMA ReplaceFailsOrdered ==
  ASSUME HistoryInv, NEW p \in Procs, ReplaceFails(p)
  PROVE  HistoryInv'
<1>1. UNCHANGED <<inodes, totals, fd, repair, next, mine, waived, cleared>>
  BY DEF ReplaceFails
<1>2. /\ pc' \in [Procs -> Labels] /\ batch' \in [Procs -> Batches]
      /\ held' \in [Procs -> Totals] /\ Kept(batch', next)
  BY DoneType DEF ReplaceFails
<1>3. failed' \in [Procs -> BOOLEAN]
  BY FailsType DEF ReplaceFails
<1> QED
  BY <1>1, <1>2, <1>3, HistoryInvWas, HistoryInvBecomes

(* Reading the totals writes nothing.                                      *)
LEMMA ReadTotalsOrdered ==
  ASSUME HistoryInv, NEW p \in Procs, ReadTotals(p)
  PROVE  HistoryInv'
<1>1. UNCHANGED <<inodes, totals, fd, repair, next, mine, waived, cleared>>
  BY DEF ReadTotals
<1>2. CASE Done(p) /\ UNCHANGED failed
  <2>1. /\ pc' \in [Procs -> Labels] /\ batch' \in [Procs -> Batches]
        /\ held' \in [Procs -> Totals] /\ Kept(batch', next)
    BY <1>2, DoneType
  <2> QED
    BY <1>1, <1>2, <2>1, HistoryInvWas, HistoryInvBecomes
<1>3. CASE /\ \/ held' = [held EXCEPT ![p] = totals] /\ UNCHANGED failed
              \/ held' = [held EXCEPT ![p] = NoTotals] /\ Fails(p)
           /\ Goto(p, "fold")
           /\ UNCHANGED batch
  <2>1. held' \in [Procs -> Totals]
    BY <1>3, HistoryInvWas, NoTotalsType
  <2>2. failed' \in [Procs -> BOOLEAN]
    BY <1>3, FailsType, HistoryInvWas
  <2>3. pc' \in [Procs -> Labels]
    BY <1>3, GotoType DEF Labels
  <2> QED
    BY <1>1, <1>3, <2>1, <2>2, <2>3, HistoryInvWas, HistoryInvBecomes
<1> QED
  BY <1>2, <1>3 DEF ReadTotals

(* The totals a compaction is about to write.                              *)
LEMMA FoldedType ==
  ASSUME HistoryInv, NEW p \in Procs
  PROVE  /\ Folded(p) \in Totals
         /\ batch[p].removed \subseteq Runs
         /\ Overwritten(Folded(p)) \subseteq Runs
         /\ \A r \in Runs : /\ held[p].count[r] \in Nat /\ totals.count[r] \in Nat
                            /\ Folded(p).count[r]
                                 = held[p].count[r]
                                     + (IF r \in batch[p].removed \ Excluded THEN 1 ELSE 0)
<1>1. /\ held[p] \in Totals /\ batch[p].removed \subseteq Runs /\ batch[p].dropped \in Nat
      /\ totals.count \in [Runs -> Nat]
  BY HistoryInvWas DEF Batches, Totals, Counts
<1> DEFINE S == batch[p].removed
           d == batch[p].dropped
           t == held[p]
           f == Fold(t, S, d)
<1>2. S \in SUBSET Runs /\ d \in Nat /\ t \in Totals
  BY <1>1
<1> HIDE DEF S, d, t
<1>3. /\ f \in Totals
      /\ \A r \in Runs : /\ t.count[r] \in Nat
                         /\ f.count[r] = t.count[r] + (IF r \in S \ Excluded THEN 1 ELSE 0)
  BY <1>2, FoldType
<1>4. Folded(p) = f
  BY DEF Folded, S, d, t
<1> HIDE DEF f
<1>5. \A r \in Runs : totals.count[r] \in Nat
  BY <1>1
<1> QED
  BY <1>1, <1>3, <1>4, <1>5 DEF Overwritten, S, t

(* Writing the totals leaves the lines.                                    *)
LEMMA WriteTotalsOrdered ==
  ASSUME HistoryInv, NEW p \in Procs, WriteTotals(p)
  PROVE  HistoryInv'
<1>1. UNCHANGED <<inodes, fd, repair, next, mine, cleared, failed>>
  BY DEF WriteTotals
<1>2. /\ pc' \in [Procs -> Labels] /\ batch' \in [Procs -> Batches]
      /\ held' \in [Procs -> Totals] /\ Kept(batch', next)
  BY DoneType DEF WriteTotals
<1>3. totals' \in Totals /\ waived' \subseteq Runs
  BY FoldedType, HistoryInvWas DEF WriteTotals
<1> QED
  BY <1>1, <1>2, <1>3, HistoryInvWas, HistoryInvBecomes

(* So does failing to.                                                     *)
LEMMA WriteTotalsFailsOrdered ==
  ASSUME HistoryInv, NEW p \in Procs, WriteTotalsFails(p)
  PROVE  HistoryInv'
<1>1. UNCHANGED <<inodes, totals, fd, repair, next, mine, cleared>>
  BY DEF WriteTotalsFails
<1>2. /\ pc' \in [Procs -> Labels] /\ batch' \in [Procs -> Batches]
      /\ held' \in [Procs -> Totals] /\ Kept(batch', next)
  BY DoneType DEF WriteTotalsFails
<1>3. waived' \subseteq Runs /\ failed' \in [Procs -> BOOLEAN]
  BY FoldedType, FailsType, HistoryInvWas DEF WriteTotalsFails
<1> QED
  BY <1>1, <1>2, <1>3, HistoryInvWas, HistoryInvBecomes

-----------------------------------------------------------------------------
(* The other commands. *)

(* Loading the history changes no file.                                    *)
LEMMA LoadOrdered ==
  ASSUME HistoryInv, NEW p \in Procs, Load(p)
  PROVE  HistoryInv'
<1>1. UNCHANGED <<inodes, totals, pc, fd, batch, held, next, mine, waived, cleared, failed>>
  BY DEF Load
<1>2. repair' \in [Procs -> BOOLEAN]
  BY HistoryInvWas DEF Load
<1> QED
  BY <1>1, <1>2, HistoryInvWas, HistoryInvBecomes

(* Clearing empties the file.                                              *)
LEMMA TruncateOrdered ==
  ASSUME HistoryInv, NEW p \in Procs, Truncate(p)
  PROVE  /\ HistoryInv'
         /\ Len(inodes') = Len(inodes) /\ inodes'[Len(inodes')] = <<>>
<1>1. UNCHANGED <<totals, fd, batch, held, repair, next, mine, cleared, failed>>
  BY DEF Truncate
<1> DEFINE k == Len(inodes)
           v == inodes'
           none == <<>>
<1>2. /\ k \in 1 .. Len(inodes) /\ inodes \in Seq(Lines) /\ Len(inodes) \in Nat
      /\ next \in Int /\ Files(inodes, next)
  BY HistoryInvWas
<1>3. none \in Lines /\ Sorted(none) /\ Below(none, next)
  BY <1>2, EmptyLines
<1>4. v = [inodes EXCEPT ![k] = none]
  BY DEF Truncate
<1> HIDE DEF v, k, none
<1>5. /\ v \in Seq(Lines) /\ Len(v) = Len(inodes) /\ v[k] = none
      /\ \A l \in 1 .. Len(inodes) : l # k => v[l] = inodes[l]
  BY ONLY <1>2, <1>3, <1>4
<1>6. Files(v, next) /\ v # <<>>
  BY <1>2, <1>3, <1>5 DEF Files
<1>7. waived' \subseteq Runs
  <2>1. 1 .. next - 1 \subseteq Runs
    BY HistoryInvWas, HistoryAssumption DEF Runs
  <2> QED
    BY <2>1, HistoryInvWas DEF Truncate
<1>8. pc' \in [Procs -> Labels]
  BY GotoType DEF Truncate, Labels
<1>9. HistoryInv'
  BY <1>1, <1>5, <1>6, <1>7, <1>8, HistoryInvWas, HistoryInvBecomes DEF v
<1> QED
  BY <1>5, <1>9 DEF v, k, none

(* Removing the totals leaves the lines.                                   *)
LEMMA RemoveTotalsOrdered ==
  ASSUME HistoryInv, NEW p \in Procs, RemoveTotals(p)
  PROVE  HistoryInv'
<1>1. UNCHANGED <<inodes, fd, batch, held, repair, next, mine, waived, failed>>
  BY DEF RemoveTotals
<1>2. totals' \in Totals /\ cleared' \subseteq Runs
  BY HistoryInvWas, NoTotalsType DEF RemoveTotals
<1>3. pc' \in [Procs -> Labels]
  BY GotoType DEF RemoveTotals, Labels
<1> QED
  BY <1>1, <1>2, <1>3, HistoryInvWas, HistoryInvBecomes

(* A process that dies leaves the files.                                   *)
LEMMA CrashOrdered ==
  ASSUME HistoryInv, NEW p \in Procs, Crash(p)
  PROVE  HistoryInv'
<1>1. UNCHANGED <<inodes, totals, fd, next, cleared, failed>>
  BY DEF Crash
<1>2. /\ pc' \in [Procs -> Labels] /\ batch' \in [Procs -> Batches]
      /\ held' \in [Procs -> Totals] /\ Kept(batch', next)
  BY DoneType DEF Crash
<1>3. waived' \subseteq Runs
  BY FoldedType, HistoryInvWas DEF Crash
<1>4. repair' \in [Procs -> BOOLEAN]
  BY HistoryInvWas DEF Crash
<1>5. mine' \in [Procs -> 0 .. MaxRuns]
  <2>1. 0 \in 0 .. MaxRuns
    BY HistoryAssumption
  <2> QED
    BY <2>1, HistoryInvWas DEF Crash
<1> QED
  BY <1>1, <1>2, <1>3, <1>4, <1>5, HistoryInvWas, HistoryInvBecomes

(* So does one that ends.                                                  *)
LEMMA ExitOrdered ==
  ASSUME HistoryInv, NEW p \in Procs, Exit(p)
  PROVE  HistoryInv'
<1>1. UNCHANGED <<inodes, totals, pc, fd, batch, held, next, waived, cleared, failed>>
  BY DEF Exit
<1>2. repair' \in [Procs -> BOOLEAN]
  BY HistoryInvWas DEF Exit
<1>3. mine' \in [Procs -> 0 .. MaxRuns]
  <2>1. 0 \in 0 .. MaxRuns
    BY HistoryAssumption
  <2> QED
    BY <2>1, HistoryInvWas DEF Exit
<1> QED
  BY <1>1, <1>2, <1>3, HistoryInvWas, HistoryInvBecomes

(* Every step keeps the files in order, with any number of processes.      *)
LEMMA HistoryStep == HistoryInv /\ [Next]_vars => HistoryInv'
<1> SUFFICES ASSUME HistoryInv, [Next]_vars PROVE HistoryInv'
  OBVIOUS
<1>1. CASE UNCHANGED vars
  BY <1>1 DEF vars, HistoryInv, TypeOK, OrderInv
<1>2. ASSUME NEW p \in Procs, AppendStep(p) PROVE HistoryInv'
  BY <1>2, OpenOrdered, WriteOrdered, WriteFailsOrdered, StatOrdered, ReadLinesOrdered,
     ReplaceOrdered, ReplaceFailsOrdered, ReadTotalsOrdered, WriteTotalsOrdered,
     WriteTotalsFailsOrdered DEF AppendStep
<1>3. ASSUME NEW p \in Procs, Load(p) \/ Truncate(p) \/ RemoveTotals(p) \/ Crash(p) \/ Exit(p)
      PROVE  HistoryInv'
  BY <1>3, LoadOrdered, TruncateOrdered, RemoveTotalsOrdered, CrashOrdered, ExitOrdered
<1> QED
  BY <1>1, <1>2, <1>3 DEF Next

(* The history has the shape of its types, and every file it has been and  *)
(* every file a compaction is about to write lists its runs in the order   *)
(* they were recorded, however many processes append and compact at once,  *)
(* whichever of their calls fail and wherever they die.                    *)
THEOREM HistoryOrder == Spec => []HistoryInv
BY HistoryInit, HistoryStep, PTL DEF Spec

(* So does the file that readers see: no run is listed twice in it, and    *)
(* compactions that race replace it but never mix it.                      *)
THEOREM WindowIsSorted == Spec => []SortedWindow
<1>1. HistoryInv => SortedWindow
  BY HistoryInvWas DEF SortedWindow, Sorted
<1> QED
  BY <1>1, HistoryOrder, PTL

-----------------------------------------------------------------------------
(* Where every run is, when processes use the files one at a time. *)

(* The books of the store, of runs c times archived, in the window W, on   *)
(* their way to the archive A, recorded before n, waived and cleared.      *)
Books(c, W, A, n, wv, cl) ==
  \A r \in Runs :
    /\ c[r] \in {0, 1}
    /\ r \in W \/ r \in A \/ r >= n => c[r] = 0
    /\ r \notin W \/ r \notin A
    /\ r \in W \/ r \in A \/ r \in wv \/ r \in cl => r < n
    /\ r < n => r \in Excluded \/ r \in wv \/ r \in W \/ r \in A \/ c[r] = 1
    /\ r \in cl => r \notin W /\ r \notin A /\ c[r] = 0

(* What the invariant of the accounts says of the state before a step.     *)
LEMMA StoreInvWas ==
  ASSUME HistoryInv, StoreInv
  PROVE  /\ \A p \in Procs : Alone(p)
         /\ Books(totals.count, Window, Archiving, next, waived, cleared)
<1>1. next \in Nat /\ \A r \in Runs : r \in Nat /\ r >= 1
  BY HistoryInvWas DEF Runs
<1>2. \A r \in Runs : r \in Archived <=> totals.count[r] > 0
  BY DEF Archived
<1>3. \A r \in Runs : totals.count[r] \in {0, 1} => (totals.count[r] > 0 <=> totals.count[r] = 1)
  OBVIOUS
<1>4. ASSUME NEW r \in Runs
      PROVE  /\ totals.count[r] \in {0, 1}
             /\ r \in Window \/ r \in Archiving \/ r >= next => totals.count[r] = 0
             /\ r \notin Window \/ r \notin Archiving
             /\ r \in Window \/ r \in Archiving \/ r \in waived \/ r \in cleared => r < next
  BY DEF StoreInv, CountInv
<1>5. ASSUME NEW r \in Runs, r < next
      PROVE  r \in Excluded \/ r \in waived \/ r \in Window \/ r \in Archiving
               \/ totals.count[r] = 1
  <2>1. r \in 1 .. next - 1
    BY <1>1, <1>5
  <2>2. (1 .. next - 1) \ (Excluded \cup waived) \subseteq Window \cup Archived \cup Archiving
    BY DEF StoreInv, RunsAccounted
  <2> QED
    BY <1>2, <1>3, <1>4, <2>1, <2>2
<1>6. ASSUME NEW r \in Runs, r \in cleared
      PROVE  r \notin Window /\ r \notin Archiving /\ totals.count[r] = 0
  <2>1. r \notin Window /\ r \notin Archived /\ r \notin Archiving
    BY <1>6 DEF StoreInv
  <2>2. totals.count[r] # 1
    BY <1>2, <1>3, <1>4, <2>1
  <2> QED
    BY <1>4, <2>1, <2>2
<1>7. Books(totals.count, Window, Archiving, next, waived, cleared)
  BY <1>4, <1>5, <1>6 DEF Books
<1> QED
  BY <1>7 DEF StoreInv

(* And what is to be shown of the state after it.                          *)
LEMMA StoreInvIs ==
  ASSUME HistoryInv, \A p \in Procs : Alone(p),
         Books(totals.count, Window, Archiving, next, waived, cleared)
  PROVE  StoreInv
<1>1. next \in 1 .. MaxRuns + 1 /\ cleared \subseteq Runs /\ waived \subseteq Runs
  BY HistoryInvWas
<1>2. \A r \in 1 .. next - 1 : r \in Runs /\ r < next
  BY <1>1, HistoryAssumption DEF Runs
<1>3. \A r \in Runs : /\ totals.count[r] = 1 => r \in Archived
                      /\ totals.count[r] = 0 => r \notin Archived
  BY DEF Archived
<1>4. CountInv
  BY DEF CountInv, Books
<1>5. RunsAccounted
  BY <1>2, <1>3 DEF RunsAccounted, Books
<1>6. cleared \cap (Window \cup Archived \cup Archiving) = {}
  BY <1>1, <1>3 DEF Books
<1> QED
  BY <1>4, <1>5, <1>6 DEF StoreInv

(* The same about the next state, with a single process.                   *)
LEMMA StoreInvBecomes ==
  ASSUME HistoryInv', OneAtATime, NEW p \in Procs, Alone(p)',
         Books(totals'.count, Window', Archiving', next', waived', cleared')
  PROVE  StoreInv'
<1>1. next' \in 1 .. MaxRuns + 1 /\ cleared' \subseteq Runs /\ waived' \subseteq Runs
  BY DEF HistoryInv, TypeOK
<1>2. \A r \in 1 .. next' - 1 : r \in Runs /\ r < next'
  <2> DEFINE n == next'
  <2>1. n \in 1 .. MaxRuns + 1
    BY <1>1
  <2> HIDE DEF n
  <2>2. \A r \in 1 .. n - 1 : r \in Runs /\ r < n
    BY <2>1, HistoryAssumption DEF Runs
  <2> QED
    BY <2>2 DEF n
<1>3. \A r \in Runs : /\ totals'.count[r] = 1 => r \in Archived'
                      /\ totals'.count[r] = 0 => r \notin Archived'
  BY DEF Archived
<1>4. CountInv'
  BY DEF CountInv, Books
<1>5. RunsAccounted'
  BY <1>2, <1>3 DEF RunsAccounted, Books
<1>6. cleared' \cap (Window' \cup Archived' \cup Archiving') = {}
  BY <1>1, <1>3 DEF Books
<1>7. \A q \in Procs : Alone(q)'
  <2> SUFFICES ASSUME NEW q \in Procs PROVE Alone(q)'
    OBVIOUS
  <2>1. q = p
    BY DEF OneAtATime
  <2> QED
    BY <2>1
<1> QED
  BY <1>4, <1>5, <1>6, <1>7 DEF StoreInv

(* With one process at a time, what is being archived is its batch.        *)
LEMMA ArchivingIs ==
  ASSUME OneAtATime, NEW p \in Procs
  PROVE  /\ pc[p] \in {"archive", "fold"} => Archiving = batch[p].removed
         /\ pc[p] \notin {"archive", "fold"} => Archiving = {}
         /\ pc'[p] \in {"archive", "fold"} => Archiving' = batch'[p].removed
         /\ pc'[p] \notin {"archive", "fold"} => Archiving' = {}
<1>1. \A q \in Procs : q = p
  BY DEF OneAtATime
<1> QED
  BY <1>1 DEF Archiving

(* The window is what the named file has.                                  *)
LEMMA WindowIs ==
  /\ Window = RunsIn(File)
  /\ inodes' = inodes => File' = File /\ Window' = Window
BY DEF Window, File

(* A process that is done has nothing left to settle.                      *)
LEMMA DoneAlone ==
  ASSUME HistoryInv, NEW p \in Procs, Done(p)
  PROVE  Alone(p)'
<1>1. pc'[p] = "idle" /\ batch'[p] = NoBatch
  BY DoneType
<1> QED
  BY <1>1 DEF Alone

(* At first nothing was counted.                                           *)
LEMMA StoreInit == Init => StoreInv
<1> SUFFICES ASSUME Init PROVE StoreInv
  OBVIOUS
<1>1. HistoryInv
  BY HistoryInit
<1>2. /\ pc = [p \in Procs |-> "idle"] /\ batch = [p \in Procs |-> NoBatch]
      /\ totals = NoTotals /\ cleared = {}
  BY DEF Init
<1>3. \A p \in Procs : Alone(p)
  BY <1>2 DEF Alone
<1>4. Archiving = {}
  BY <1>2 DEF Archiving
<1>5. PICK n \in 0 .. MaxLegacy :
        /\ next = n + 1
        /\ \E lines \in [1 .. n -> UNION {LegacyLines(r) : r \in 1 .. n}] :
             /\ \A i \in 1 .. n : lines[i] \in LegacyLines(i)
             /\ inodes = <<lines>>
             /\ waived = {i \in 1 .. n : lines[i].kind = "torn"}
  BY DEF Init
<1>6. PICK lines \in [1 .. n -> UNION {LegacyLines(r) : r \in 1 .. n}] :
        /\ \A i \in 1 .. n : lines[i] \in LegacyLines(i)
        /\ inodes = <<lines>>
        /\ waived = {i \in 1 .. n : lines[i].kind = "torn"}
  BY <1>5
<1>7. MaxRuns \in Nat /\ n \in Nat /\ n <= MaxRuns /\ 1 .. n \subseteq Runs
  BY HistoryAssumption DEF Runs
<1>8. \A i \in 1 .. n : lines[i].run = i
  BY <1>6, <1>7, LegacyType
<1>9. File = lines /\ DOMAIN lines = 1 .. n
  BY <1>6 DEF File
<1>10. Window = (1 .. n) \ waived
  <2>1. ASSUME NEW r \in Window PROVE r \in (1 .. n) \ waived
    <3>1. PICK i \in 1 .. n : Readable(lines[i]) /\ r = lines[i].run
      BY <1>9 DEF Window, RunsIn
    <3> QED
      BY <1>6, <1>8, <3>1 DEF Readable
  <2>2. ASSUME NEW r \in (1 .. n) \ waived PROVE r \in Window
    BY <1>6, <1>8, <1>9, <2>2 DEF Window, RunsIn, Readable
  <2> QED
    BY <2>1, <2>2
<1>11. waived \subseteq 1 .. n
  BY <1>6
<1>12. \A r \in Runs : r \in Nat /\ (r < next <=> r \in 1 .. n)
  BY <1>5, <1>7 DEF Runs
<1>13. Books(totals.count, Window, Archiving, next, waived, cleared)
  BY <1>2, <1>4, <1>7, <1>10, <1>11, <1>12, <1>5, NoTotalsType DEF Books
<1> QED
  BY <1>1, <1>3, <1>13, StoreInvIs

(* A step that changes neither the lines nor the totals keeps the          *)
(* accounts.                                                               *)
LEMMA StoreSame ==
  ASSUME HistoryInv, StoreInv, HistoryInv', OneAtATime, NEW p \in Procs, Alone(p)',
         UNCHANGED <<inodes, totals, next, waived, cleared>>, Archiving' = Archiving
  PROVE  StoreInv'
<1>1. Books(totals.count, Window, Archiving, next, waived, cleared)
  BY StoreInvWas
<1>2. Books(totals'.count, Window', Archiving', next', waived', cleared')
  BY <1>1, WindowIs
<1> QED
  BY <1>2, StoreInvBecomes

(* Opening the file settles nothing.                                       *)
LEMMA OpenStored ==
  ASSUME HistoryInv, StoreInv, OneAtATime, NEW p \in Procs, Open(p)
  PROVE  StoreInv'
<1>1. /\ pc[p] = "idle" /\ UNCHANGED <<inodes, totals, batch, next, waived, cleared>>
      /\ fd' = [fd EXCEPT ![p] = Len(inodes)]
      /\ pc' = [pc EXCEPT ![p] = "write"]
  BY DEF Open, Goto
<1>2. pc'[p] = "write" /\ fd'[p] = Len(inodes)
  BY <1>1, HistoryInvWas
<1>3. batch[p] = NoBatch
  BY <1>1, StoreInvWas DEF Alone
<1>4. Alone(p)'
  BY <1>1, <1>2, <1>3 DEF Alone
<1>5. Archiving' = Archiving
  BY <1>1, <1>2, ArchivingIs
<1> QED
  BY <1>1, <1>4, <1>5, OpenOrdered, StoreSame

(* A process that uses the store alone writes to the file itself.          *)
LEMMA WriterIsAlone ==
  ASSUME HistoryInv, StoreInv, OneAtATime, NEW p \in Procs, pc[p] = "write"
  PROVE  /\ fd[p] = Len(inodes) /\ inodes[fd[p]] = File
         /\ batch[p] = NoBatch /\ Archiving = {}
BY StoreInvWas, ArchivingIs DEF Alone, File

(* An appended line adds its run, or spoils it and the line it is glued    *)
(* to.                                                                     *)
LEMMA WindowWritten ==
  ASSUME HistoryInv, StoreInv, OneAtATime, NEW p \in Procs, pc[p] = "write", next \in Runs,
         NEW line \in LineRecords, line.run = next,
         inodes' = [inodes EXCEPT ![fd[p]] = Appended(@, line)]
  PROVE  /\ Window' \subseteq Window \cup {next}
         /\ Window \subseteq Window' \cup Spoiled(File)
         /\ line.kind # "torn" => next \in Window' \cup Spoiled(File)
         /\ Spoiled(File) \subseteq Runs /\ \A r \in Spoiled(File) : r <= next
<1>1. File' = Appended(File, line)
  BY InodesWritten, WriterIsAlone DEF File
<1>2. File \in Lines /\ Below(File, next) /\ next \in Nat
  BY HistoryInvWas
<1>3. /\ Window' \subseteq Window \cup {next}
      /\ Window \subseteq Window' \cup (IF Glued(File) THEN {File[Len(File)].run} ELSE {})
      /\ ~Glued(File) /\ line.kind # "torn" => next \in Window'
  BY <1>1, <1>2, AppendedType DEF Window
<1>4. /\ Spoiled(File) \subseteq Runs
      /\ Glued(File) => {File[Len(File)].run, next} \subseteq Spoiled(File)
      /\ Spoiled(File) \subseteq RunsIn(File) \cup {File[i].run : i \in DOMAIN File} \cup {next}
  BY <1>2, SpoiledType
<1>5. \A r \in Spoiled(File) : r <= next
  <2>1. \A r \in RunsIn(File) : r < next /\ r \in Nat
    BY <1>2, LinesType DEF Runs
  <2>2. \A i \in DOMAIN File : File[i].run < next /\ File[i].run \in Nat
    BY <1>2, LinesType DEF Below
  <2> QED
    BY <1>2, <1>4, <2>1, <2>2
<1> QED
  BY <1>3, <1>4, <1>5

(* The accounts hold with one more run.                                    *)
LEMMA BooksWritten ==
  ASSUME HistoryInv, NEW c, NEW W, NEW w, NEW S, NEW wv, NEW cl,
         Books(c, W, {}, next, wv, cl), next \in Runs,
         w \subseteq W \cup {next}, W \subseteq w \cup S, next \in w \cup S,
         S \subseteq Runs, \A r \in S : r <= next
  PROVE  Books(c, w, {}, next + 1, wv \cup S, cl)
<1>1. next \in Nat /\ \A r \in Runs : r \in Nat
  BY HistoryInvWas DEF Runs
<1> SUFFICES ASSUME NEW r \in Runs
             PROVE  /\ c[r] \in {0, 1}
                    /\ r \in w \/ r >= next + 1 => c[r] = 0
                    /\ r \in w \/ r \in wv \cup S \/ r \in cl => r < next + 1
                    /\ r < next + 1 => r \in Excluded \/ r \in wv \cup S \/ r \in w \/ c[r] = 1
                    /\ r \in cl => r \notin w /\ c[r] = 0
  BY DEF Books
<1>2. /\ c[r] \in {0, 1}
      /\ r \in W \/ r >= next => c[r] = 0
      /\ r \in W \/ r \in wv \/ r \in cl => r < next
      /\ r < next => r \in Excluded \/ r \in wv \/ r \in W \/ c[r] = 1
      /\ r \in cl => r \notin W /\ c[r] = 0
  BY DEF Books
<1>3. r \in Nat /\ (r < next + 1 <=> r < next \/ r = next) /\ (r >= next + 1 => r >= next)
      /\ (r <= next => r < next + 1) /\ next >= next /\ ~ (next < next)
  BY <1>1
<1>4. CASE r = next
  <2>1. c[r] = 0 /\ r \notin cl /\ r < next + 1 /\ ~ (r >= next + 1)
    BY <1>1, <1>2, <1>3, <1>4
  <2> QED
    BY <1>4, <2>1
<1>5. CASE r # next
  <2>1. r \in w => r \in W
    BY <1>5
  <2>2. r \in S => r < next + 1
    BY <1>3
  <2> QED
    BY <1>2, <1>3, <1>5, <2>1, <2>2
<1> QED
  BY <1>4, <1>5

(* An appended run is in the window.                                       *)
LEMMA WriteStored ==
  ASSUME HistoryInv, StoreInv, OneAtATime, NEW p \in Procs, Write(p)
  PROVE  StoreInv'
<1>1. /\ pc[p] = "write" /\ next \in Runs
      /\ UNCHANGED <<totals, fd, batch, held, repair, cleared, failed>>
      /\ waived' = waived \cup Spoiled(inodes[fd[p]])
      /\ next' = next + 1
      /\ pc' = [pc EXCEPT ![p] = "stat"]
  BY DEF Write, Goto
<1>2. PICK size \in LineSizes :
        inodes' = [inodes EXCEPT ![fd[p]] = Appended(@, Line(next, "ok", size, TRUE))]
  BY DEF Write
<1>3. size \in Nat
  BY HistoryAssumption
<1> DEFINE line == Line(next, "ok", size, TRUE)
<1>4. line \in LineRecords /\ line.run = next /\ line.kind = "ok"
  BY <1>1, <1>3, RecordType
<1>5. inodes' = [inodes EXCEPT ![fd[p]] = Appended(@, line)]
  BY <1>2
<1> HIDE DEF line
<1>6. fd[p] = Len(inodes) /\ inodes[fd[p]] = File /\ batch[p] = NoBatch /\ Archiving = {}
  BY <1>1, WriterIsAlone
<1>7. Len(inodes') = Len(inodes)
  BY <1>1, <1>4, <1>5, InodesWritten
<1>8. pc'[p] = "stat"
  BY <1>1, HistoryInvWas
<1>9. Alone(p)'
  BY <1>1, <1>6, <1>7, <1>8 DEF Alone
<1>10. Archiving' = {}
  BY <1>8, ArchivingIs
<1>11. /\ Window' \subseteq Window \cup {next}
       /\ Window \subseteq Window' \cup Spoiled(File)
       /\ next \in Window' \cup Spoiled(File)
       /\ Spoiled(File) \subseteq Runs /\ \A r \in Spoiled(File) : r <= next
  BY <1>1, <1>4, <1>5, WindowWritten
<1>12. Books(totals.count, Window, {}, next, waived, cleared)
  BY <1>6, StoreInvWas
<1>13. Books(totals.count, Window', {}, next + 1, waived \cup Spoiled(File), cleared)
  BY <1>1, <1>11, <1>12, BooksWritten
<1>14. Books(totals'.count, Window', Archiving', next', waived', cleared')
  BY <1>1, <1>6, <1>10, <1>13
<1> QED
  BY <1>9, <1>14, WriteOrdered, StoreInvBecomes

(* A torn one is waived.                                                   *)
LEMMA WriteFailsStored ==
  ASSUME HistoryInv, StoreInv, OneAtATime, NEW p \in Procs, WriteFails(p)
  PROVE  StoreInv'
<1>1. /\ pc[p] = "write" /\ next \in Runs /\ Done(p)
      /\ UNCHANGED <<totals, cleared>>
      /\ waived' = waived \cup {next} \cup Spoiled(inodes[fd[p]])
      /\ next' = next + 1
  BY DEF WriteFails
<1>2. ClippedSize \in Nat
  BY HistoryAssumption
<1>3. fd[p] = Len(inodes) /\ inodes[fd[p]] = File /\ batch[p] = NoBatch /\ Archiving = {}
  BY <1>1, WriterIsAlone
<1>4. pc'[p] = "idle" /\ Alone(p)'
  BY <1>1, DoneType, DoneAlone
<1>5. Archiving' = {}
  BY <1>4, ArchivingIs
<1>6. next \in Nat /\ File \in Lines /\ Below(File, next)
  BY HistoryInvWas
<1> DEFINE S == {next} \cup Spoiled(File)
<1>7. /\ Window' \subseteq Window \cup {next} /\ Window \subseteq Window' \cup S
      /\ S \subseteq Runs /\ \A r \in S : r <= next
  <2>1. CASE UNCHANGED inodes
    <3>1. Window' = Window
      BY <2>1, WindowIs
    <3>2. /\ Spoiled(File) \subseteq Runs
          /\ Spoiled(File) \subseteq RunsIn(File) \cup {File[i].run : i \in DOMAIN File} \cup {next}
      BY <1>1, <1>6, SpoiledType
    <3>3. \A r \in RunsIn(File) : r < next /\ r \in Nat
      BY <1>6, LinesType DEF Runs
    <3>4. \A i \in DOMAIN File : File[i].run < next /\ File[i].run \in Nat
      BY <1>6, LinesType DEF Below
    <3>5. \A r \in S : r <= next
      BY <1>6, <3>2, <3>3, <3>4
    <3> QED
      BY <1>1, <3>1, <3>2, <3>5
  <2>2. CASE \E kind \in {"torn", "ok"} :
               inodes' = [inodes EXCEPT ![fd[p]] =
                            Appended(@, Line(next, kind, ClippedSize, FALSE))]
    <3>1. PICK kind \in {"torn", "ok"} :
            inodes' = [inodes EXCEPT ![fd[p]] =
                         Appended(@, Line(next, kind, ClippedSize, FALSE))]
      BY <2>2
    <3> DEFINE line == Line(next, kind, ClippedSize, FALSE)
    <3>2. line \in LineRecords /\ line.run = next
      BY <1>1, <1>2, RecordType
    <3>3. inodes' = [inodes EXCEPT ![fd[p]] = Appended(@, line)]
      BY <3>1
    <3> HIDE DEF line
    <3>4. /\ Window' \subseteq Window \cup {next}
          /\ Window \subseteq Window' \cup Spoiled(File)
          /\ Spoiled(File) \subseteq Runs /\ \A r \in Spoiled(File) : r <= next
      BY <1>1, <3>2, <3>3, WindowWritten
    <3> QED
      BY <1>1, <1>6, <3>4
  <2> QED
    BY <2>1, <2>2 DEF WriteFails
<1>8. next \in Window' \cup S
  OBVIOUS
<1>9. waived' = waived \cup S
  BY <1>1, <1>3
<1> HIDE DEF S
<1>10. Books(totals.count, Window, {}, next, waived, cleared)
  BY <1>3, StoreInvWas
<1>11. Books(totals.count, Window', {}, next + 1, waived \cup S, cleared)
  BY <1>1, <1>7, <1>8, <1>10, BooksWritten
<1>12. Books(totals'.count, Window', Archiving', next', waived', cleared')
  BY <1>1, <1>5, <1>9, <1>11
<1> QED
  BY <1>4, <1>12, WriteFailsOrdered, StoreInvBecomes

(* Asking for the size settles nothing.                                    *)
LEMMA StatStored ==
  ASSUME HistoryInv, StoreInv, OneAtATime, NEW p \in Procs, Stat(p)
  PROVE  StoreInv'
<1>1. /\ pc[p] = "stat"
      /\ UNCHANGED <<inodes, totals, fd, batch, held, repair, next, mine, waived, cleared>>
  BY DEF Stat
<1>2. pc'[p] = "read" \/ pc'[p] = "idle"
  BY HistoryInvWas DEF Stat, Goto
<1>3. batch[p] = NoBatch
  BY <1>1, StoreInvWas DEF Alone
<1>4. Alone(p)'
  BY <1>1, <1>2, <1>3 DEF Alone
<1>5. Archiving' = Archiving
  BY <1>1, <1>2, ArchivingIs
<1> QED
  BY <1>1, <1>4, <1>5, StatOrdered, StoreSame

(* A compaction has in memory what it keeps and what it removes.           *)
LEMMA ReadLinesStored ==
  ASSUME HistoryInv, StoreInv, OneAtATime, NEW p \in Procs, ReadLines(p)
  PROVE  StoreInv'
<1>1. /\ pc[p] = "read"
      /\ UNCHANGED <<inodes, totals, fd, held, next, mine, waived, cleared>>
  BY DEF ReadLines
<1>2. \/ pc'[p] = "replace" /\ batch'[p] = BatchOf(File)
      \/ pc'[p] = "idle" /\ batch' = batch
  BY HistoryInvWas DEF ReadLines, Goto
<1>3. batch[p] = NoBatch
  BY <1>1, StoreInvWas DEF Alone
<1>4. File' = File
  BY <1>1, WindowIs
<1>5. Alone(p)'
  <2>1. CASE pc'[p] = "replace" /\ batch'[p] = BatchOf(File)
    <3>1. batch'[p] = BatchOf(File')
      BY <1>4, <2>1
    <3> QED
      BY <2>1, <3>1 DEF Alone
  <2>2. CASE pc'[p] = "idle" /\ batch' = batch
    BY <1>3, <2>2 DEF Alone
  <2> QED
    BY <1>2, <2>1, <2>2
<1>6. Archiving' = Archiving
  BY <1>1, <1>2, ArchivingIs
<1> QED
  BY <1>1, <1>5, <1>6, ReadLinesOrdered, StoreSame

(* A rename moves what is not kept from the file to the archive.           *)
LEMMA ReplaceStored ==
  ASSUME HistoryInv, StoreInv, OneAtATime, NEW p \in Procs, Replace(p)
  PROVE  StoreInv'
<1>1. /\ pc[p] = "replace"
      /\ UNCHANGED <<totals, fd, batch, held, repair, next, mine, waived, cleared, failed>>
      /\ pc' = [pc EXCEPT ![p] = "archive"]
  BY DEF Replace, Goto
<1>2. pc'[p] = "archive"
  BY <1>1, HistoryInvWas
<1>3. batch[p] = BatchOf(File) /\ Archiving = {} /\ Archiving' = batch[p].removed
  BY <1>1, <1>2, StoreInvWas, ArchivingIs DEF Alone
<1>4. File' = batch[p].kept
  BY ReplaceOrdered DEF File
<1>5. Alone(p)'
  BY <1>1, <1>2, <1>4 DEF Alone
<1>6. /\ RunsIn(batch[p].kept) \cup batch[p].removed = RunsIn(File)
      /\ RunsIn(batch[p].kept) \cap batch[p].removed = {}
  BY <1>3, HistoryInvWas, BatchType
<1>7. Window' = RunsIn(batch[p].kept) /\ Window = RunsIn(File)
  BY <1>4 DEF Window
<1>8. Window' \cup Archiving' = Window /\ Window' \cap Archiving' = {}
  BY <1>3, <1>6, <1>7
<1>9. Books(totals.count, Window, {}, next, waived, cleared)
  BY <1>3, StoreInvWas
<1>10. Books(totals'.count, Window', Archiving', next', waived', cleared')
  BY <1>1, <1>8, <1>9 DEF Books
<1> QED
  BY <1>5, <1>10, ReplaceOrdered, StoreInvBecomes

(* A failed rename leaves the runs in the window.                          *)
LEMMA ReplaceFailsStored ==
  ASSUME HistoryInv, StoreInv, OneAtATime, NEW p \in Procs, ReplaceFails(p)
  PROVE  StoreInv'
<1>1. /\ pc[p] = "replace" /\ Done(p)
      /\ UNCHANGED <<inodes, totals, fd, repair, next, mine, waived, cleared>>
  BY DEF ReplaceFails
<1>2. pc'[p] = "idle" /\ Alone(p)'
  BY <1>1, DoneType, DoneAlone
<1>3. Archiving' = Archiving
  BY <1>1, <1>2, ArchivingIs
<1> QED
  BY <1>1, <1>2, <1>3, ReplaceFailsOrdered, StoreSame

(* What was removed from the window is being archived.                     *)
LEMMA ReadTotalsStored ==
  ASSUME HistoryInv, StoreInv, OneAtATime, NEW p \in Procs, ReadTotals(p)
  PROVE  StoreInv'
<1>1. /\ pc[p] = "archive"
      /\ UNCHANGED <<inodes, totals, fd, repair, next, mine, waived, cleared>>
  BY DEF ReadTotals
<1>2. File' = File /\ batch[p].kept = File /\ Archiving = batch[p].removed
  BY <1>1, WindowIs, StoreInvWas, ArchivingIs DEF Alone
<1>3. CASE batch[p].removed = {} /\ Done(p)
  <2>1. pc'[p] = "idle" /\ Alone(p)'
    BY <1>3, DoneType, DoneAlone
  <2>2. Archiving' = Archiving
    BY <1>2, <1>3, <2>1, ArchivingIs
  <2> QED
    BY <1>1, <2>1, <2>2, ReadTotalsOrdered, StoreSame
<1>4. CASE /\ \/ held' = [held EXCEPT ![p] = totals] /\ UNCHANGED failed
              \/ held' = [held EXCEPT ![p] = NoTotals] /\ Fails(p)
           /\ Goto(p, "fold")
           /\ UNCHANGED batch
  <2>1. pc'[p] = "fold" /\ batch' = batch
    BY <1>4, HistoryInvWas DEF Goto
  <2>2. held'[p] = totals' \/ (held'[p] = NoTotals /\ failed'[p])
    BY <1>1, <1>4, HistoryInvWas DEF Fails
  <2>3. Alone(p)'
    BY <1>2, <2>1, <2>2 DEF Alone
  <2>4. Archiving' = Archiving
    BY <1>1, <2>1, ArchivingIs
  <2> QED
    BY <1>1, <2>3, <2>4, ReadTotalsOrdered, StoreSame
<1> QED
  BY <1>3, <1>4 DEF ReadTotals

(* Archiving counts what has left the file, once; if the totals could not  *)
(* be read, what they counted is lost.                                     *)
LEMMA WriteTotalsStored ==
  ASSUME HistoryInv, StoreInv, OneAtATime, NEW p \in Procs, WriteTotals(p)
  PROVE  StoreInv'
<1>1. /\ pc[p] = "fold" /\ Done(p)
      /\ totals' = Folded(p)
      /\ waived' = IF failed[p] THEN waived \cup Overwritten(Folded(p)) ELSE waived
      /\ UNCHANGED <<inodes, fd, repair, next, mine, cleared, failed>>
  BY DEF WriteTotals
<1>2. pc'[p] = "idle" /\ Alone(p)'
  BY <1>1, DoneType, DoneAlone
<1>3. Archiving = batch[p].removed /\ Archiving' = {} /\ Window' = Window
  BY <1>1, <1>2, ArchivingIs, WindowIs
<1>4. held[p] = totals \/ (held[p] = NoTotals /\ failed[p])
  BY <1>1, StoreInvWas DEF Alone
<1> DEFINE c == totals.count
           d == totals'.count
           A == batch[p].removed
<1>5. Books(c, Window, A, next, waived, cleared)
  BY <1>3, StoreInvWas
<1>6. \A r \in Runs : d[r] = held[p].count[r] + (IF r \in A \ Excluded THEN 1 ELSE 0)
  BY <1>1, FoldedType
<1>7. \A r \in Runs : r \in Overwritten(Folded(p)) <=> c[r] > d[r]
  BY <1>1 DEF Overwritten
<1>8. next' = next /\ cleared' = cleared /\ next \in Nat
  BY <1>1, HistoryInvWas
<1> HIDE DEF A, c, d
<1>9. CASE held[p] = totals
  <2>1. \A r \in Runs : c[r] \in {0, 1}
    BY <1>5 DEF Books
  <2>2. \A r \in Runs : d[r] = c[r] + (IF r \in A \ Excluded THEN 1 ELSE 0)
    BY <1>6, <1>9 DEF c
  <2>3. \A r \in Runs : ~ (c[r] > d[r])
    BY <2>1, <2>2
  <2>4. Overwritten(Folded(p)) = {}
    BY <1>7, <2>3 DEF Overwritten
  <2>5. waived' = waived
    BY <1>1, <2>4
  <2>6. \A r \in Runs : /\ r \in A \ Excluded => d[r] = c[r] + 1
                        /\ r \notin A \ Excluded => d[r] = c[r]
    BY <2>1, <2>2
  <2>7. \A r \in Runs : r \in A => c[r] = 0 /\ r \notin Window /\ r < next /\ r \notin cleared
    BY <1>5 DEF Books
  <2>8. \A r \in Runs : r \in Nat /\ (r >= next <=> ~ (r < next))
    BY <1>8 DEF Runs
  <2>9. Books(d, Window, {}, next, waived, cleared)
    <3> SUFFICES ASSUME NEW r \in Runs
                 PROVE  /\ d[r] \in {0, 1}
                        /\ r \in Window \/ r >= next => d[r] = 0
                        /\ r \in Window \/ r \in waived \/ r \in cleared => r < next
                        /\ r < next => r \in Excluded \/ r \in waived \/ r \in Window \/ d[r] = 1
                        /\ r \in cleared => r \notin Window /\ d[r] = 0
      BY DEF Books
    <3>1. /\ c[r] \in {0, 1}
          /\ r \in Window \/ r \in A \/ r >= next => c[r] = 0
          /\ r \in Window \/ r \in A \/ r \in waived \/ r \in cleared => r < next
          /\ r < next => r \in Excluded \/ r \in waived \/ r \in Window \/ r \in A \/ c[r] = 1
          /\ r \in cleared => r \notin Window /\ r \notin A /\ c[r] = 0
      BY <1>5 DEF Books
    <3>2. CASE r \in A \ Excluded
      <4>1. d[r] = 1
        BY <2>6, <2>7, <3>2
      <4> QED
        BY <2>7, <2>8, <3>1, <3>2, <4>1
    <3>3. CASE r \notin A \ Excluded
      BY <2>6, <3>1, <3>3
    <3> QED
      BY <3>2, <3>3
  <2> QED
    BY <1>2, <1>3, <1>8, <2>5, <2>9, WriteTotalsOrdered, StoreInvBecomes DEF d
<1>10. CASE held[p] = NoTotals /\ failed[p]
  <2>1. \A r \in Runs : NoTotals.count[r] = 0
    BY NoTotalsType
  <2>2. \A r \in Runs : /\ r \in A \ Excluded => d[r] = 1
                        /\ r \notin A \ Excluded => d[r] = 0
    BY <1>6, <1>10, <2>1
  <2>3. \A r \in Runs : r \in waived' <=> r \in waived \/ (c[r] = 1 /\ d[r] = 0)
    <3>1. waived' = waived \cup Overwritten(Folded(p))
      BY <1>1, <1>10
    <3>2. \A r \in Runs : c[r] \in {0, 1} /\ d[r] \in {0, 1}
      BY <1>5, <2>2 DEF Books
    <3>3. \A r \in Runs : c[r] > d[r] <=> c[r] = 1 /\ d[r] = 0
      BY <3>2
    <3> QED
      BY <1>7, <3>1, <3>3
  <2>4. \A r \in Runs : r \in Nat /\ (r >= next <=> ~ (r < next))
    BY <1>8 DEF Runs
  <2>5. \A r \in Runs : c[r] = 1 => c[r] # 0
    OBVIOUS
  <2>6. Books(d, Window, {}, next, waived', cleared)
    <3> SUFFICES ASSUME NEW r \in Runs
                 PROVE  /\ d[r] \in {0, 1}
                        /\ r \in Window \/ r >= next => d[r] = 0
                        /\ r \in Window \/ r \in waived' \/ r \in cleared => r < next
                        /\ r < next => r \in Excluded \/ r \in waived' \/ r \in Window \/ d[r] = 1
                        /\ r \in cleared => r \notin Window /\ d[r] = 0
      BY DEF Books
    <3>1. /\ c[r] \in {0, 1}
          /\ r \in Window \/ r \in A \/ r >= next => c[r] = 0
          /\ r \notin Window \/ r \notin A
          /\ r \in Window \/ r \in A \/ r \in waived \/ r \in cleared => r < next
          /\ r < next => r \in Excluded \/ r \in waived \/ r \in Window \/ r \in A \/ c[r] = 1
          /\ r \in cleared => r \notin Window /\ r \notin A /\ c[r] = 0
      BY <1>5 DEF Books
    <3> QED
      BY <2>2, <2>3, <2>4, <2>5, <3>1
  <2> QED
    BY <1>2, <1>3, <1>8, <2>6, WriteTotalsOrdered, StoreInvBecomes DEF d
<1> QED
  BY <1>4, <1>9, <1>10

(* What has left the file and cannot be counted any more is waived.        *)
LEMMA BooksWaived ==
  ASSUME NEW c, NEW W, NEW A, NEW n, NEW wv, NEW cl, Books(c, W, A, n, wv, cl)
  PROVE  Books(c, W, {}, n, wv \cup A, cl)
BY DEF Books

(* Failing to write the totals waives what was being archived.             *)
LEMMA WriteTotalsFailsStored ==
  ASSUME HistoryInv, StoreInv, OneAtATime, NEW p \in Procs, WriteTotalsFails(p)
  PROVE  StoreInv'
<1>1. /\ pc[p] = "fold" /\ Done(p)
      /\ waived' = waived \cup batch[p].removed
      /\ UNCHANGED <<inodes, totals, fd, repair, next, mine, cleared>>
  BY DEF WriteTotalsFails
<1>2. pc'[p] = "idle" /\ Alone(p)'
  BY <1>1, DoneType, DoneAlone
<1>3. Archiving = batch[p].removed /\ Archiving' = {} /\ Window' = Window
  BY <1>1, <1>2, ArchivingIs, WindowIs
<1>4. Books(totals'.count, Window', Archiving', next', waived', cleared')
  BY <1>1, <1>3, StoreInvWas, BooksWaived
<1> QED
  BY <1>2, <1>4, WriteTotalsFailsOrdered, StoreInvBecomes

(* Loading the history settles nothing.                                    *)
LEMMA LoadStored ==
  ASSUME HistoryInv, StoreInv, OneAtATime, NEW p \in Procs, Load(p)
  PROVE  StoreInv'
<1>1. UNCHANGED <<inodes, totals, pc, fd, batch, held, next, mine, waived, cleared, failed>>
  BY DEF Load
<1>2. Alone(p)'
  <2>1. Alone(p)
    BY StoreInvWas
  <2> QED
    BY <1>1, <2>1, WindowIs DEF Alone
<1>3. Archiving' = Archiving
  BY <1>1, ArchivingIs
<1> QED
  BY <1>1, <1>2, <1>3, LoadOrdered, StoreSame

(* Truncating waives every run so far until the totals are gone.           *)
LEMMA TruncateStored ==
  ASSUME HistoryInv, StoreInv, OneAtATime, NEW p \in Procs, Truncate(p)
  PROVE  StoreInv'
<1>1. /\ pc[p] = "idle"
      /\ UNCHANGED <<totals, fd, batch, held, repair, next, mine, cleared, failed>>
      /\ waived' = waived \cup (1 .. next - 1)
      /\ pc' = [pc EXCEPT ![p] = "remove"]
  BY DEF Truncate, Goto
<1>2. pc'[p] = "remove"
  BY <1>1, HistoryInvWas
<1>3. File' = <<>> /\ Window' = {}
  BY TruncateOrdered, EmptyLines DEF File, Window
<1>4. batch[p] = NoBatch
  BY <1>1, StoreInvWas DEF Alone
<1>5. 1 .. next' - 1 \subseteq waived'
  BY <1>1
<1>6. Alone(p)'
  BY <1>1, <1>2, <1>3, <1>4, <1>5 DEF Alone
<1>7. Archiving = {} /\ Archiving' = {}
  BY <1>1, <1>2, ArchivingIs
<1>8. Books(totals.count, Window, {}, next, waived, cleared)
  BY <1>7, StoreInvWas
<1>9. \A r \in Runs : r < next <=> r \in 1 .. next - 1
  BY HistoryInvWas DEF Runs
<1>10. Books(totals'.count, Window', Archiving', next', waived', cleared')
  BY <1>1, <1>3, <1>7, <1>8, <1>9 DEF Books
<1> QED
  BY <1>6, <1>10, TruncateOrdered, StoreInvBecomes

(* Once they are, every run so far is cleared, or stays waived.            *)
LEMMA RemoveTotalsStored ==
  ASSUME HistoryInv, StoreInv, OneAtATime, NEW p \in Procs, RemoveTotals(p)
  PROVE  StoreInv'
<1>1. /\ pc[p] = "remove"
      /\ UNCHANGED <<inodes, fd, batch, held, repair, next, mine, waived, failed>>
      /\ pc' = [pc EXCEPT ![p] = "idle"]
  BY DEF RemoveTotals, Goto
<1>2. pc'[p] = "idle"
  BY <1>1, HistoryInvWas
<1>3. batch[p] = NoBatch /\ File = <<>> /\ 1 .. next - 1 \subseteq waived
  BY <1>1, StoreInvWas DEF Alone
<1>4. Alone(p)'
  BY <1>1, <1>2, <1>3 DEF Alone
<1>5. Archiving = {} /\ Archiving' = {} /\ Window = {} /\ Window' = {}
  BY <1>1, <1>2, <1>3, ArchivingIs, WindowIs, EmptyLines
<1>6. Books(totals.count, {}, {}, next, waived, cleared)
  BY <1>5, StoreInvWas
<1>7. Books(totals'.count, {}, {}, next, waived, cleared')
  <2>1. CASE UNCHANGED <<totals, cleared>>
    BY <1>6, <2>1
  <2>2. CASE totals' = NoTotals /\ cleared' = waived
    <3>1. \A r \in Runs : totals'.count[r] = 0
      BY <2>2, NoTotalsType
    <3>2. \A r \in Runs : r < next => r \in waived
      <4>1. next \in Nat /\ \A r \in Runs : r \in Nat /\ r >= 1
        BY HistoryInvWas DEF Runs
      <4>2. \A r \in Runs : r < next => r \in 1 .. next - 1
        BY <4>1
      <4> QED
        BY <1>3, <4>2
    <3> QED
      BY <1>6, <2>2, <3>1, <3>2 DEF Books
  <2> QED
    BY <2>1, <2>2 DEF RemoveTotals
<1> QED
  BY <1>1, <1>4, <1>5, <1>7, RemoveTotalsOrdered, StoreInvBecomes

(* A process that dies waives what it was archiving.                       *)
LEMMA CrashStored ==
  ASSUME HistoryInv, StoreInv, OneAtATime, NEW p \in Procs, Crash(p)
  PROVE  StoreInv'
<1>1. /\ Done(p)
      /\ waived' = IF pc[p] \in {"archive", "fold"}
                   THEN waived \cup batch[p].removed ELSE waived
      /\ UNCHANGED <<inodes, totals, fd, next, cleared, failed>>
  BY DEF Crash
<1>2. pc'[p] = "idle" /\ Alone(p)'
  BY <1>1, DoneType, DoneAlone
<1>3. Archiving' = {} /\ Window' = Window
  BY <1>1, <1>2, ArchivingIs, WindowIs
<1>4. waived' = waived \cup Archiving
  BY <1>1, ArchivingIs
<1>5. Books(totals'.count, Window', Archiving', next', waived', cleared')
  BY <1>1, <1>3, <1>4, StoreInvWas, BooksWaived
<1> QED
  BY <1>2, <1>5, CrashOrdered, StoreInvBecomes

(* One that ends had nothing left.                                         *)
LEMMA ExitStored ==
  ASSUME HistoryInv, StoreInv, OneAtATime, NEW p \in Procs, Exit(p)
  PROVE  StoreInv'
<1>1. UNCHANGED <<inodes, totals, pc, fd, batch, held, next, waived, cleared, failed>>
  BY DEF Exit
<1>2. Alone(p)'
  <2>1. Alone(p)
    BY StoreInvWas
  <2> QED
    BY <1>1, <2>1, WindowIs DEF Alone
<1>3. Archiving' = Archiving
  BY <1>1, ArchivingIs
<1> QED
  BY <1>1, <1>2, <1>3, ExitOrdered, StoreSame

(* One process at a time, every step keeps the accounts.                   *)
LEMMA StoreStep ==
  ASSUME OneAtATime
  PROVE  HistoryInv /\ StoreInv /\ [Next]_vars => StoreInv'
<1> SUFFICES ASSUME HistoryInv, StoreInv, [Next]_vars PROVE StoreInv'
  OBVIOUS
<1>1. CASE UNCHANGED vars
  BY <1>1 DEF vars, StoreInv, Alone, CountInv, RunsAccounted, Window, Archived, Archiving, File
<1>2. ASSUME NEW p \in Procs, AppendStep(p) PROVE StoreInv'
  BY <1>2, OpenStored, WriteStored, WriteFailsStored, StatStored, ReadLinesStored,
     ReplaceStored, ReplaceFailsStored, ReadTotalsStored, WriteTotalsStored,
     WriteTotalsFailsStored DEF AppendStep
<1>3. ASSUME NEW p \in Procs, Load(p) \/ Truncate(p) \/ RemoveTotals(p) \/ Crash(p) \/ Exit(p)
      PROVE  StoreInv'
  BY <1>3, LoadStored, TruncateStored, RemoveTotalsStored, CrashStored, ExitStored
<1> QED
  BY <1>1, <1>2, <1>3 DEF Next

(* A store that one process uses at a time knows where every run is: in    *)
(* the file, counted in the totals, or about to be archived by the         *)
(* compaction under way, and in one of these places only.                  *)
THEOREM StoreInvariant ==
  ASSUME OneAtATime
  PROVE  Spec => []StoreInv
<1>1. Init => StoreInv
  BY StoreInit
<1>2. HistoryInv /\ StoreInv /\ [Next]_vars => StoreInv'
  BY StoreStep
<1> QED
  BY <1>1, <1>2, HistoryOrder, PTL DEF Spec

(* Lifetime reporting counts no run twice, whatever call of a compaction   *)
(* fails and wherever the process dies.                                    *)
THEOREM RunsAreCountedOnce ==
  ASSUME OneAtATime
  PROVE  Spec => []CountedOnce
<1>1. HistoryInv /\ StoreInv => CountedOnce
  <2> SUFFICES ASSUME HistoryInv, StoreInv, NEW r \in Runs
               PROVE  totals.count[r] + (IF r \in Window THEN 1 ELSE 0) <= 1
    BY DEF CountedOnce
  <2>1. totals.count[r] \in {0, 1} /\ (r \in Window => totals.count[r] = 0)
    BY StoreInvWas DEF Books
  <2> QED
    BY <2>1
<1> QED
  BY <1>1, HistoryOrder, StoreInvariant, PTL

(* No run disappears from the history but those under which a call failed, *)
(* the process died or the user cleared the store.                         *)
THEOREM NoRunIsLost ==
  ASSUME OneAtATime
  PROVE  Spec => []RunsAccounted
<1>1. StoreInv => RunsAccounted
  BY DEF StoreInv
<1> QED
  BY <1>1, StoreInvariant, PTL

(* A store that was cleared reports nothing of what was recorded before.   *)
THEOREM ClearedStaysGone ==
  ASSUME OneAtATime
  PROVE  Spec => []ClearedIsGone
<1>1. StoreInv => ClearedIsGone
  BY DEF StoreInv, ClearedIsGone
<1> QED
  BY <1>1, StoreInvariant, PTL

-----------------------------------------------------------------------------
(* What a file is like when an Append returns. *)

(* The file is below the trigger, or one line is larger all by itself.     *)
Small(lines) == Bytes(lines) <= MaxFileBytes \/ Len(lines) <= 1

(* The record just appended ends the file until a compaction has replaced  *)
(* it, and the file is in order from then on.                              *)
Settling(p) ==
  /\ pc[p] \in {"stat", "read", "replace"} =>
       /\ File # <<>> /\ File[Len(File)].run = mine[p]
       /\ Readable(File[Len(File)]) \/ mine[p] \in waived
  /\ pc[p] \in {"archive", "fold"} =>
       Small(File) /\ Count(File, "oversized") = 0 /\ mine[p] \in Window \cup waived

SettleInv == \A p \in Procs : Settling(p)

(* A file counts no line of a kind exactly when it has none.               *)
LEMMA CountZero ==
  ASSUME NEW lines \in Lines, NEW kind
  PROVE  Count(lines, kind) = 0 <=> \A i \in 1 .. Len(lines) : lines[i].kind # kind
<1> DEFINE S == {i \in DOMAIN lines : lines[i].kind = kind}
<1>1. Len(lines) \in Int /\ 1 \in Int /\ DOMAIN lines = 1 .. Len(lines)
  BY LinesType
<1>2. IsFiniteSet(S)
  <2>1. IsFiniteSet(1 .. Len(lines)) /\ S \subseteq 1 .. Len(lines)
    BY <1>1, FS_Interval
  <2> HIDE DEF S
  <2> QED
    BY <2>1, FS_Subset
<1>3. Cardinality(S) = 0 <=> S = {}
  <2> HIDE DEF S
  <2> QED
    BY <1>2, FS_EmptySet
<1> QED
  BY <1>1, <1>3 DEF Count

(* The sizes of the lines.                                                 *)
SizesOf(lines) == [i \in DOMAIN lines |-> lines[i].size]

LEMMA SizesType ==
  ASSUME NEW lines \in Lines
  PROVE  /\ SizesOf(lines) \in Seq(Nat) /\ Len(SizesOf(lines)) = Len(lines)
         /\ \A i \in 1 .. Len(lines) : SizesOf(lines)[i] = lines[i].size
         /\ \A n : BytesOfLast(lines, n) = SumOfLast(SizesOf(lines), n)
<1>1. /\ Len(lines) \in Nat /\ DOMAIN lines = 1 .. Len(lines)
      /\ \A i \in 1 .. Len(lines) : lines[i].size \in Nat
  BY LinesType
<1> QED
  BY <1>1 DEF SizesOf, BytesOfLast

(* A line newer than one that fits does, too.                              *)
LEMMA FitsNewer ==
  ASSUME NEW lines \in Lines, NEW i \in 1 .. Len(lines), Fits(lines, i), NEW j \in i .. Len(lines)
  PROVE  Fits(lines, j)
<1> DEFINE n == Len(lines)
           z == SizesOf(lines)
<1>1. n \in Nat /\ i \in 1 .. n /\ j \in i .. n
  BY LinesType
<1>2. z \in Seq(Nat) /\ Len(z) = n /\ \A m : BytesOfLast(lines, m) = SumOfLast(z, m)
  BY SizesType
<1> HIDE DEF z
<1>3. n - i < RetainRecords
  BY DEF Fits
<1>4. n - j < RetainRecords
  BY <1>1, <1>3, HistoryAssumption
<1>5. CASE j = n
  BY <1>4, <1>5 DEF Fits
<1>6. CASE j # n
  <2>1. BytesOfLast(lines, n - i + 1) <= MaxFileBytes \div 2
    BY <1>1, <1>6 DEF Fits
  <2>2. n - i + 1 \in 0 .. Len(z) /\ n - j + 1 \in 0 .. n - i + 1
    BY <1>1, <1>2
  <2>3. SumOfLast(z, n - j + 1) <= SumOfLast(z, n - i + 1)
    BY <1>2, <2>2, SumOfLastGrows
  <2>4. SumOfLast(z, n - j + 1) \in Nat /\ SumOfLast(z, n - i + 1) \in Nat
    <3>1. n - j + 1 \in 0 .. Len(z)
      BY <1>1, <1>2
    <3> QED
      BY <1>2, <2>2, <3>1, SumOfLastType
  <2>5. MaxFileBytes \div 2 \in Int
    BY HistoryAssumption
  <2>6. BytesOfLast(lines, n - j + 1) <= MaxFileBytes \div 2
    BY <1>2, <2>1, <2>3, <2>4, <2>5
  <2> QED
    BY <1>4, <2>6 DEF Fits
<1> QED
  BY <1>5, <1>6

(* retainStart is where the lines begin to fit; the newest always does.    *)
LEMMA RetainStartFits ==
  ASSUME NEW lines \in Lines, Len(lines) > 0
  PROVE  /\ RetainStart(lines) \in 0 .. Len(lines) - 1
         /\ Fits(lines, RetainStart(lines) + 1)
<1> DEFINE S == {i \in DOMAIN lines : ~Fits(lines, i)}
           n == Len(lines)
           k == RetainStart(lines)
<1>1. n \in Nat /\ n > 0 /\ n \in 1 .. n /\ DOMAIN lines = 1 .. n /\ k \in 0 .. n
  BY LinesType, RetainStartType
<1>2. k = Cardinality(S)
  BY DEF RetainStart
<1>3. Fits(lines, n)
  BY <1>1, HistoryAssumption DEF Fits
<1>4. S \subseteq 1 .. n - 1 /\ \A i \in S : 1 .. i \subseteq S
  <2>1. S \subseteq 1 .. n - 1
    BY <1>1, <1>3
  <2>2. ASSUME NEW i \in S, NEW j \in 1 .. i PROVE j \in S
    <3>1. i \in 1 .. n /\ j \in 1 .. n /\ i \in j .. n /\ ~Fits(lines, i)
      BY <1>1
    <3>2. ~Fits(lines, j)
      BY <3>1, FitsNewer
    <3> QED
      BY <1>1, <3>1, <3>2
  <2> QED
    BY <2>1, <2>2
<1> HIDE DEF S, n, k
<1>5. IsFiniteSet(1 .. n - 1) /\ Cardinality(1 .. n - 1) = n - 1
  <2>1. n - 1 \in Int /\ 1 \in Int
    BY <1>1
  <2>2. IsFiniteSet(1 .. n - 1) /\ Cardinality(1 .. n - 1) = IF 1 > n - 1 THEN 0 ELSE n - 1 - 1 + 1
    BY <2>1, FS_Interval
  <2> QED
    BY <1>1, <2>2
<1>6. IsFiniteSet(S) /\ Cardinality(S) <= n - 1
  BY <1>4, <1>5, FS_Subset
<1>7. k \in 0 .. n - 1
  BY <1>1, <1>2, <1>6
<1>8. k + 1 \notin S
  <2> SUFFICES ASSUME k + 1 \in S PROVE FALSE
    OBVIOUS
  <2>1. 1 .. k + 1 \subseteq S
    BY <1>4
  <2>2. k + 1 \in Int /\ 1 \in Int /\ k + 1 >= 1
    BY <1>1
  <2>3. Cardinality(1 .. k + 1) = k + 1
    <3> DEFINE e == k + 1
    <3>1. e \in Int /\ 1 \in Int
      BY <2>2
    <3> HIDE DEF e
    <3>2. Cardinality(1 .. e) = IF 1 > e THEN 0 ELSE e - 1 + 1
      BY <3>1, FS_Interval
    <3>3. Cardinality(1 .. e) = e
      BY <2>2, <3>1, <3>2 DEF e
    <3> QED
      BY <3>3 DEF e
  <2>4. Cardinality(1 .. k + 1) <= Cardinality(S)
    BY <1>6, <2>1, FS_Subset
  <2> QED
    BY <1>1, <1>2, <2>2, <2>3, <2>4
<1>9. k + 1 \in 1 .. n
  BY <1>1, <1>7
<1> QED
  BY <1>1, <1>7, <1>8, <1>9 DEF S, k, n

(* What is retained ends with the last line, and is small.                 *)
LEMMA RetainedSmall ==
  ASSUME NEW lines \in Lines
  PROVE  /\ Small(Retained(lines))
         /\ \A i \in 1 .. Len(Retained(lines)) :
              \E j \in 1 .. Len(lines) : Retained(lines)[i] = lines[j]
         /\ Len(lines) > 0 => /\ Len(Retained(lines)) > 0
                              /\ Retained(lines)[Len(Retained(lines))] = lines[Len(lines)]
<1> DEFINE n == Len(lines)
           k == RetainStart(lines)
           a == Retained(lines)
           m == n - k
<1>1. n \in Nat /\ k \in 0 .. n /\ lines \in Seq(LineRecords) /\ m \in Nat
  BY LinesType, LinesAre, RetainStartType
<1>2. /\ a \in Lines /\ Len(a) = m /\ \A i \in 1 .. m : a[i] = lines[i + k]
  <2>1. a = SubSeq(lines, k + 1, n)
    BY DEF Retained
  <2> HIDE DEF a, k
  <2> QED
    BY <1>1, <2>1, SuffixType, LinesAre
<1> HIDE DEF a, k
<1>3. \A i \in 1 .. m : i + k \in 1 .. n
  BY <1>1
<1>4. n > 0 => Len(a) > 0 /\ a[Len(a)] = lines[n]
  <2> SUFFICES ASSUME n > 0 PROVE Len(a) > 0 /\ a[Len(a)] = lines[n]
    OBVIOUS
  <2>1. k \in 0 .. n - 1
    BY RetainStartFits DEF k
  <2>2. m > 0 /\ m \in 1 .. m /\ m + k = n
    BY <1>1, <2>1
  <2> QED
    BY <1>2, <2>2
<1>5. Small(a)
  <2>1. CASE m <= 1
    BY <1>2, <2>1 DEF Small
  <2>2. CASE m > 1
    <3>1. n > 0 /\ k + 1 \in 1 .. n /\ k + 1 # n /\ n - (k + 1) + 1 = m
      BY <1>1, <2>2
    <3>2. Fits(lines, k + 1)
      BY <3>1, RetainStartFits DEF k
    <3>3. BytesOfLast(lines, m) <= MaxFileBytes \div 2
      BY <3>1, <3>2 DEF Fits
    <3> DEFINE za == SizesOf(a)
               z == SizesOf(lines)
    <3>4. /\ za \in Seq(Nat) /\ Len(za) = m /\ \A i \in 1 .. m : za[i] = a[i].size
          /\ BytesOfLast(a, m) = SumOfLast(za, m)
      BY <1>2, SizesType
    <3>5. /\ z \in Seq(Nat) /\ Len(z) = n /\ \A i \in 1 .. n : z[i] = lines[i].size
          /\ BytesOfLast(lines, m) = SumOfLast(z, m)
      BY SizesType
    <3> HIDE DEF z, za
    <3>6. ASSUME NEW i \in 1 .. m PROVE za[Len(za) - i + 1] = z[Len(z) - i + 1]
      <4>1. m - i + 1 \in 1 .. m /\ m - i + 1 + k = n - i + 1 /\ n - i + 1 \in 1 .. n
        BY <1>1
      <4>2. za[m - i + 1] = a[m - i + 1].size /\ z[n - i + 1] = lines[n - i + 1].size
        BY <3>4, <3>5, <4>1
      <4>3. a[m - i + 1] = lines[n - i + 1]
        BY <1>2, <4>1
      <4> QED
        BY <3>4, <3>5, <4>2, <4>3
    <3>7. SumOfLast(za, m) = SumOfLast(z, m)
      <4>1. m \in 0 .. Len(za) /\ m <= Len(z)
        BY <1>1, <3>4, <3>5
      <4> QED
        BY <3>4, <3>5, <3>6, <4>1, SumOfLastAlike
    <3>8. Bytes(a) = BytesOfLast(lines, m) /\ BytesOfLast(lines, m) \in Nat
      <4>1. m \in 0 .. Len(z)
        BY <1>1, <3>5
      <4>2. SumOfLast(z, m) \in Nat
        BY <3>5, <4>1, SumOfLastType
      <4> QED
        BY <1>2, <3>4, <3>5, <3>7, <4>2 DEF Bytes
    <3>9. MaxFileBytes \div 2 <= MaxFileBytes /\ MaxFileBytes \div 2 \in Int /\ MaxFileBytes \in Int
      BY HistoryAssumption
    <3> QED
      BY <3>3, <3>8, <3>9 DEF Small
  <2> QED
    BY <1>1, <2>1, <2>2
<1> QED
  BY <1>1, <1>2, <1>3, <1>4, <1>5 DEF a

(* What a compaction writes is in order, and ends with the last line when  *)
(* that can be read.                                                       *)
LEMMA CompactedSettles ==
  ASSUME NEW lines \in Lines
  PROVE  /\ Small(BatchOf(lines).kept)
         /\ Count(BatchOf(lines).kept, "oversized") = 0
         /\ Len(lines) > 0 /\ Readable(lines[Len(lines)]) =>
              lines[Len(lines)].run \in RunsIn(BatchOf(lines).kept)
<1> DEFINE I == {i \in DOMAIN lines : Readable(lines[i])}
           kept == KeepAt(lines, I)
           d == DecodedLines(lines)
           a == Retained(d)
<1>1. BatchOf(lines).kept = a
  BY DEF BatchOf
<1>2. d \in Lines /\ \A i \in DOMAIN d : d[i].kind = "ok"
  BY DecodedLinesType
<1>3. a \in Lines
  BY <1>2, CutType
<1>4. lines \in Seq(LineRecords) /\ Len(lines) \in Nat /\ DOMAIN lines = 1 .. Len(lines)
  BY LinesType, LinesAre
<1>5. kept \in Seq(LineRecords)
  <2> HIDE DEF I
  <2> QED
    BY <1>4, KeepAtEmbeds
<1>6. d = [i \in DOMAIN kept |-> Decoded(kept[i])]
  BY DEF DecodedLines
<1> HIDE DEF d, a
<1>7. /\ Small(a)
      /\ \A i \in 1 .. Len(a) : \E j \in 1 .. Len(d) : a[i] = d[j]
      /\ Len(d) > 0 => Len(a) > 0 /\ a[Len(a)] = d[Len(d)]
  BY <1>2, RetainedSmall DEF a
<1>8. \A i \in 1 .. Len(a) : a[i].kind = "ok"
  <2>1. DOMAIN d = 1 .. Len(d)
    BY <1>2, LinesType
  <2> QED
    BY <1>2, <1>7, <2>1
<1>9. Count(a, "oversized") = 0
  BY <1>3, <1>8, CountZero
<1>10. ASSUME Len(lines) > 0, Readable(lines[Len(lines)])
       PROVE  lines[Len(lines)].run \in RunsIn(a)
  <2>1. Len(lines) \in I
    BY <1>4, <1>10
  <2>2. Len(kept) > 0 /\ kept[Len(kept)] = lines[Len(lines)]
    <3> HIDE DEF I
    <3> QED
      BY <1>4, <1>10, <2>1, KeepAtLast
  <2> HIDE DEF kept
  <2>3. /\ Len(d) = Len(kept) /\ Len(d) > 0
        /\ d[Len(d)] = Decoded(kept[Len(kept)]) /\ kept[Len(kept)] \in LineRecords
    BY <1>5, <1>6, <2>2
  <2>4. d[Len(d)].run = lines[Len(lines)].run
    BY <2>2, <2>3, DecodedType
  <2>5. Len(a) \in 1 .. Len(a) /\ DOMAIN a = 1 .. Len(a) /\ a[Len(a)].run = lines[Len(lines)].run
    BY <1>3, <1>7, <2>3, <2>4, LinesType
  <2>6. Readable(a[Len(a)])
    BY <1>8, <2>5 DEF Readable
  <2> QED
    BY <2>5, <2>6 DEF RunsIn
<1> QED
  BY <1>1, <1>7, <1>9, <1>10

(* A file that is not worth rewriting is in order as it is.                *)
LEMMA UnrewrittenSettles ==
  ASSUME NEW lines \in Lines, ~WorthRewriting(lines)
  PROVE  /\ Small(lines)
         /\ Count(lines, "oversized") = 0
         /\ Len(lines) > 0 => lines[Len(lines)].run \in RunsIn(lines)
<1> DEFINE I == {i \in DOMAIN lines : Readable(lines[i])}
           d == DecodedLines(lines)
           n == Len(lines)
<1>1. /\ RetainStart(d) = 0 /\ Count(lines, "torn") = 0 /\ Count(lines, "oversized") = 0
  <2>1. ~(RetainStart(d) > 0) /\ ~(Count(lines, "torn") > 0) /\ ~(Count(lines, "oversized") > 0)
    BY DEF WorthRewriting
  <2>2. RetainStart(d) \in Nat
    <3>1. d \in Lines /\ Len(d) \in Nat
      BY DecodedLinesType, LinesType
    <3> HIDE DEF d
    <3> QED
      BY <3>1, RetainStartType
  <2>3. Count(lines, "torn") \in Nat /\ Count(lines, "oversized") \in Nat
    BY CountType
  <2> QED
    BY <2>1, <2>2, <2>3
<1>2. lines \in Seq(LineRecords) /\ n \in Nat /\ DOMAIN lines = 1 .. n
  BY LinesType, LinesAre
<1>3. \A i \in 1 .. n : lines[i].kind # "torn" /\ lines[i].kind # "oversized"
  BY <1>1, CountZero
<1>4. 1 .. n \subseteq I
  BY <1>2, <1>3 DEF Readable
<1>5. KeepAt(lines, I) = lines
  <2> HIDE DEF I
  <2> QED
    BY <1>2, <1>4, KeepAtAll
<1>6. d = [i \in 1 .. n |-> Decoded(lines[i])]
  BY <1>2, <1>5 DEF DecodedLines
<1>7. d \in Lines
  BY DecodedLinesType
<1> HIDE DEF d
<1>8. Len(d) = n /\ \A i \in 1 .. n : d[i].size = lines[i].size
  BY <1>2, <1>3, <1>6 DEF Decoded, Line
<1>9. Small(lines)
  <2>1. CASE n <= 1
    BY <2>1 DEF Small
  <2>2. CASE n > 1
    <3>1. Fits(d, 1)
      <4>1. Len(d) > 0
        BY <1>2, <1>8, <2>2
      <4>2. Fits(d, RetainStart(d) + 1)
        BY <1>7, <4>1, RetainStartFits
      <4> QED
        BY <1>1, <4>2
    <3>2. BytesOfLast(d, n) <= MaxFileBytes \div 2
      <4>1. 1 # Len(d) /\ Len(d) - 1 + 1 = n
        BY <1>2, <1>8, <2>2
      <4> QED
        BY <3>1, <4>1 DEF Fits
    <3> DEFINE z == SizesOf(lines)
               y == SizesOf(d)
    <3>3. /\ z \in Seq(Nat) /\ Len(z) = n /\ \A i \in 1 .. n : z[i] = lines[i].size
          /\ BytesOfLast(lines, n) = SumOfLast(z, n)
      BY SizesType
    <3>4. /\ y \in Seq(Nat) /\ Len(y) = n /\ \A i \in 1 .. n : y[i] = d[i].size
          /\ BytesOfLast(d, n) = SumOfLast(y, n)
      BY <1>7, <1>8, SizesType
    <3> HIDE DEF z, y
    <3>5. z = y
      BY <1>8, <3>3, <3>4
    <3>6. SumOfLast(z, n) \in Nat
      <4>1. n \in 0 .. Len(z)
        BY <1>2, <3>3
      <4> QED
        BY <3>3, <4>1, SumOfLastType
    <3>7. MaxFileBytes \div 2 <= MaxFileBytes /\ MaxFileBytes \div 2 \in Int /\ MaxFileBytes \in Int
      BY HistoryAssumption
    <3> QED
      BY <3>2, <3>3, <3>4, <3>5, <3>6, <3>7 DEF Small, Bytes
  <2> QED
    BY <1>2, <2>1, <2>2
<1>10. n > 0 => lines[n].run \in RunsIn(lines)
  BY <1>2, <1>3 DEF RunsIn, Readable
<1> QED
  BY <1>1, <1>9, <1>10

(* A step that leaves the file alone, for a process that is not between    *)
(* the calls that settle it, or stays so.                                  *)
LEMMA SettlingSame ==
  ASSUME SettleInv, OneAtATime, NEW p \in Procs, File' = File, mine'[p] = mine[p],
         waived \subseteq waived',
         pc'[p] \in {"read", "replace"} => pc[p] \in {"stat", "read", "replace"},
         pc'[p] \in {"archive", "fold"} => pc[p] \in {"archive", "fold"},
         pc'[p] # "stat"
  PROVE  SettleInv'
<1>1. Settling(p)
  BY DEF SettleInv
<1>2. Window' = Window
  BY DEF Window
<1>3. Settling(p)'
  BY <1>1, <1>2 DEF Settling
<1> QED
  BY <1>3 DEF SettleInv, OneAtATime

(* Having one process, a step settles what it settles of that one.         *)
LEMMA SettlingAlone ==
  ASSUME OneAtATime, NEW p \in Procs, Settling(p)'
  PROVE  SettleInv'
BY DEF SettleInv, OneAtATime

(* The record just written ends the file.                                  *)
LEMMA WriteSettles ==
  ASSUME HistoryInv, StoreInv, OneAtATime, NEW p \in Procs, Write(p)
  PROVE  SettleInv'
<1>1. /\ pc[p] = "write" /\ next \in Runs
      /\ waived' = waived \cup Spoiled(inodes[fd[p]])
      /\ pc' = [pc EXCEPT ![p] = "stat"]
      /\ mine' = [mine EXCEPT ![p] = next]
  BY DEF Write, Goto
<1>2. PICK size \in LineSizes :
        inodes' = [inodes EXCEPT ![fd[p]] = Appended(@, Line(next, "ok", size, TRUE))]
  BY DEF Write
<1>3. size \in Nat
  BY HistoryAssumption
<1> DEFINE line == Line(next, "ok", size, TRUE)
<1>4. line \in LineRecords /\ line.run = next /\ line.kind = "ok"
  BY <1>1, <1>3, RecordType
<1>5. inodes' = [inodes EXCEPT ![fd[p]] = Appended(@, line)]
  BY <1>2
<1> HIDE DEF line
<1>6. inodes[fd[p]] = File /\ fd[p] = Len(inodes) /\ File \in Lines
  BY <1>1, WriterIsAlone, HistoryInvWas
<1>7. File' = Appended(File, line)
  BY <1>1, <1>4, <1>5, <1>6, InodesWritten DEF File
<1>8. /\ Len(Appended(File, line)) > 0
      /\ Appended(File, line)[Len(Appended(File, line))].run = next
      /\ Readable(Appended(File, line)[Len(Appended(File, line))]) \/ Glued(File)
  <2> DEFINE f == File
             new == Appended(f, line)
  <2>1. f \in Seq(LineRecords) /\ Len(f) \in Nat
    BY <1>6, LinesAre
  <2> HIDE DEF f
  <2>2. CASE ~Glued(f)
    <3>1. new = Append(f, line)
      BY <2>2 DEF Appended
    <3>2. Len(new) > 0 /\ new[Len(new)] = line
      BY <1>4, <2>1, <3>1
    <3> QED
      BY <1>4, <3>2 DEF Readable, f
  <2>3. CASE Glued(f)
    <3>1. Len(f) > 0
      BY <2>1, <2>3 DEF Glued
    <3> DEFINE last == Line(line.run, "torn", f[Len(f)].size + line.size, line.ended)
    <3>2. new = [f EXCEPT ![Len(f)] = last]
      BY <2>3 DEF Appended
    <3>3. last.run = next
      BY <1>4 DEF Line
    <3> HIDE DEF last, new
    <3>4. Len(new) = Len(f) /\ new[Len(f)] = last
      BY <2>1, <3>1, <3>2
    <3> QED
      BY <2>3, <3>1, <3>3, <3>4 DEF f, new
  <2> QED
    BY <2>2, <2>3
<1>9. Glued(File) => next \in waived'
  BY <1>1, <1>6 DEF Spoiled
<1>10. pc'[p] = "stat" /\ mine'[p] = next
  BY <1>1, HistoryInvWas
<1>11. Settling(p)'
  <2>1. File' # <<>>
    BY <1>7, <1>8
  <2>2. File'[Len(File')].run = mine'[p] /\ (Readable(File'[Len(File')]) \/ mine'[p] \in waived')
    BY <1>7, <1>8, <1>9, <1>10
  <2> QED
    BY <1>10, <2>1, <2>2 DEF Settling, Readable
<1> QED
  BY <1>11, SettlingAlone

(* A compaction puts the file in order.                                    *)
LEMMA ReplaceSettles ==
  ASSUME HistoryInv, StoreInv, SettleInv, OneAtATime, NEW p \in Procs, Replace(p)
  PROVE  SettleInv'
<1>1. /\ pc[p] = "replace" /\ UNCHANGED <<mine, waived>>
      /\ pc' = [pc EXCEPT ![p] = "archive"]
  BY DEF Replace, Goto
<1>2. pc'[p] = "archive" /\ File \in Lines
  BY <1>1, HistoryInvWas
<1>3. File' = BatchOf(File).kept
  BY <1>1, ReplaceOrdered, StoreInvWas DEF File, Alone
<1>4. /\ File # <<>> /\ File[Len(File)].run = mine[p]
      /\ Readable(File[Len(File)]) \/ mine[p] \in waived
  BY <1>1 DEF SettleInv, Settling
<1>5. Len(File) > 0
  BY <1>2, <1>4, LinesAre
<1>6. /\ Small(File') /\ Count(File', "oversized") = 0
      /\ Readable(File[Len(File)]) => File[Len(File)].run \in RunsIn(File')
  BY <1>2, <1>3, <1>5, CompactedSettles
<1>7. mine'[p] \in Window' \cup waived'
  BY <1>1, <1>4, <1>6 DEF Window
<1>8. Settling(p)'
  BY <1>2, <1>6, <1>7 DEF Settling, Small, Bytes, BytesOfLast, Count
<1> QED
  BY <1>8, SettlingAlone

(* The other steps leave the file settled, or are not on their way to      *)
(* settle it.                                                              *)
LEMMA SettleStep ==
  ASSUME OneAtATime
  PROVE  HistoryInv /\ StoreInv /\ SettleInv /\ [Next]_vars => SettleInv'
<1> SUFFICES ASSUME HistoryInv, StoreInv, SettleInv, [Next]_vars PROVE SettleInv'
  OBVIOUS
<1>1. CASE UNCHANGED vars
  <2> SUFFICES ASSUME NEW p \in Procs PROVE Settling(p)'
    BY DEF SettleInv
  <2>1. Settling(p) /\ UNCHANGED <<inodes, pc, mine, waived>>
    BY <1>1 DEF SettleInv, vars
  <2> QED
    BY <2>1, WindowIs DEF Settling
<1>2. ASSUME NEW p \in Procs, pc'[p] \in {"idle", "write", "remove"} PROVE SettleInv'
  <2>1. Settling(p)'
    BY <1>2 DEF Settling
  <2> QED
    BY <2>1, SettlingAlone
<1>3. ASSUME NEW p \in Procs, AppendStep(p) PROVE SettleInv'
  <2>1. CASE Open(p)
    <3>1. pc'[p] = "write"
      BY <2>1, HistoryInvWas DEF Open, Goto
    <3> QED
      BY <1>2, <3>1
  <2>2. CASE WriteFails(p) \/ ReplaceFails(p) \/ WriteTotals(p) \/ WriteTotalsFails(p)
    <3>1. Done(p)
      BY <2>2 DEF WriteFails, ReplaceFails, WriteTotals, WriteTotalsFails
    <3> QED
      BY <1>2, <3>1, DoneType
  <2>3. CASE Stat(p)
    <3>1. pc[p] = "stat" /\ UNCHANGED <<inodes, mine, waived>> /\ pc'[p] \in {"read", "idle"}
      BY <2>3, HistoryInvWas DEF Stat, Goto
    <3> QED
      BY <3>1, SettlingSame, WindowIs
  <2>4. CASE ReadLines(p)
    <3>1. pc[p] = "read" /\ UNCHANGED <<inodes, mine, waived>> /\ pc'[p] \in {"replace", "idle"}
      BY <2>4, HistoryInvWas DEF ReadLines, Goto
    <3> QED
      BY <3>1, SettlingSame, WindowIs
  <2>5. CASE ReadTotals(p)
    <3>1. pc[p] = "archive" /\ UNCHANGED <<inodes, mine, waived>>
      BY <2>5 DEF ReadTotals
    <3>2. pc'[p] \in {"fold", "idle"}
      BY <2>5, HistoryInvWas, DoneType DEF ReadTotals, Goto
    <3> QED
      BY <3>1, <3>2, SettlingSame, WindowIs
  <2> QED
    BY <1>3, <2>1, <2>2, <2>3, <2>4, <2>5, WriteSettles, ReplaceSettles DEF AppendStep
<1>4. ASSUME NEW p \in Procs, Load(p) \/ Exit(p) PROVE SettleInv'
  <2>1. pc[p] = "idle" /\ UNCHANGED pc
    BY <1>4 DEF Load, Exit
  <2> QED
    BY <1>2, <2>1
<1>5. ASSUME NEW p \in Procs, Truncate(p) \/ RemoveTotals(p) \/ Crash(p) PROVE SettleInv'
  <2>1. pc'[p] \in {"idle", "remove"}
    BY <1>5, HistoryInvWas, DoneType DEF Truncate, RemoveTotals, Crash, Goto
  <2> QED
    BY <1>2, <2>1
<1> QED
  BY <1>1, <1>3, <1>4, <1>5 DEF Next

(* An Append that returns leaves the file in order.                        *)
LEMMA ReturnSettles ==
  ASSUME HistoryInv, StoreInv, SettleInv, OneAtATime, Next, NEW p \in Procs, AppendReturns(p)
  PROVE  /\ Bytes(File') <= MaxFileBytes \/ Len(File') <= 1
         /\ mine[p] \in Window' \cup waived
         /\ Count(File', "oversized") = 0 \/ (pc[p] = "stat" /\ ~repair[p])
<1>1. /\ pc[p] \in {"stat", "read", "archive", "fold"} /\ pc'[p] = "idle"
      /\ mine'[p] # 0 /\ ~failed'[p]
  BY DEF AppendReturns
<1>2. Settling(p) /\ File \in Lines
  BY HistoryInvWas DEF SettleInv
<1>3. PICK q \in Procs : \/ AppendStep(q) \/ Load(q) \/ Truncate(q) \/ RemoveTotals(q)
                         \/ Crash(q) \/ Exit(q)
  BY DEF Next
<1>4. q = p
  BY DEF OneAtATime
<1>5. ~Crash(p)
  <2> SUFFICES ASSUME Crash(p) PROVE FALSE
    OBVIOUS
  <2>1. mine' = [mine EXCEPT ![p] = 0]
    BY DEF Crash
  <2> QED
    BY <1>1, <2>1, HistoryInvWas
<1>6. ~Fails(p)
  BY <1>1, HistoryInvWas DEF Fails
<1>7. Stat(p) \/ ReadLines(p) \/ ReadTotals(p) \/ WriteTotals(p)
  BY <1>1, <1>3, <1>4, <1>5, <1>6 DEF AppendStep, Open, Write, WriteFails, Replace, ReplaceFails,
     WriteTotalsFails, Load, Truncate, RemoveTotals, Exit
<1>8. File' = File /\ Window' = Window
  BY <1>7, WindowIs DEF Stat, ReadLines, ReadTotals, WriteTotals
<1>9. CASE Stat(p)
  <2>1. PICK size \in {Bytes(inodes[fd[p]]), -1} :
          /\ IF size = -1 THEN Fails(p) ELSE UNCHANGED failed
          /\ Goto(p, IF size > MaxFileBytes \/ repair[p] THEN "read" ELSE "idle")
    BY <1>9 DEF Stat
  <2>2. pc[p] = "stat" /\ inodes[fd[p]] = File
    BY <1>9, StoreInvWas DEF Stat, Alone, File
  <2>3. size = Bytes(File) /\ ~(size > MaxFileBytes \/ repair[p])
    BY <1>1, <1>6, <2>1, <2>2, HistoryInvWas DEF Goto
  <2>4. Bytes(File) \in Nat
    <3>1. /\ SizesOf(File) \in Seq(Nat) /\ Len(SizesOf(File)) = Len(File)
          /\ Bytes(File) = SumOfLast(SizesOf(File), Len(File)) /\ Len(File) \in Nat
      BY <1>2, SizesType, LinesType DEF Bytes
    <3>2. Len(File) \in 0 .. Len(SizesOf(File))
      BY <3>1
    <3> QED
      BY <3>1, <3>2, SumOfLastType
  <2>5. Bytes(File) <= MaxFileBytes
    BY <2>3, <2>4, HistoryAssumption
  <2>6. mine[p] \in Window \cup waived
    <3>1. /\ File # <<>> /\ File[Len(File)].run = mine[p]
          /\ Readable(File[Len(File)]) \/ mine[p] \in waived
      BY <1>2, <2>2 DEF Settling
    <3>2. Len(File) \in 1 .. Len(File) /\ DOMAIN File = 1 .. Len(File)
      BY <1>2, <3>1, LinesAre
    <3> QED
      BY <3>1, <3>2 DEF Window, RunsIn
  <2> QED
    BY <1>8, <2>2, <2>3, <2>5, <2>6
<1>10. CASE ReadLines(p)
  <2>1. pc[p] = "read" /\ ~WorthRewriting(File)
    BY <1>1, <1>6, <1>10, HistoryInvWas DEF ReadLines, Goto
  <2>2. /\ File # <<>> /\ File[Len(File)].run = mine[p]
    BY <1>2, <2>1 DEF Settling
  <2>3. Len(File) > 0
    BY <1>2, <2>2, LinesAre
  <2>4. Small(File) /\ Count(File, "oversized") = 0 /\ mine[p] \in Window
    BY <1>2, <2>1, <2>2, <2>3, UnrewrittenSettles DEF Window
  <2>5. Bytes(File) <= MaxFileBytes \/ Len(File) <= 1
    BY <2>4 DEF Small
  <2> QED
    BY ONLY <1>8, <2>4, <2>5
<1>11. CASE ReadTotals(p) \/ WriteTotals(p)
  <2>1. pc[p] \in {"archive", "fold"}
    BY <1>11 DEF ReadTotals, WriteTotals
  <2>2. Small(File) /\ Count(File, "oversized") = 0 /\ mine[p] \in Window \cup waived
    BY <1>2, <2>1 DEF Settling
  <2>3. Bytes(File) <= MaxFileBytes \/ Len(File) <= 1
    BY <2>2 DEF Small
  <2> QED
    BY ONLY <1>8, <2>2, <2>3
<1> QED
  BY <1>7, <1>9, <1>10, <1>11

(* An Append of which no call failed returns with the file in order,       *)
(* whatever lines it found there: below the trigger or a single line, the  *)
(* new record in it, no oversized line left by a process that saw one.     *)
THEOREM AppendsSettle ==
  ASSUME OneAtATime
  PROVE  Spec => AppendSettles
<1>1. Init => SettleInv
  BY DEF Init, SettleInv, Settling
<1>2. HistoryInv /\ StoreInv /\ SettleInv /\ [Next]_vars => SettleInv'
  BY SettleStep
<1>3. HistoryInv /\ StoreInv /\ SettleInv /\ [Next]_vars =>
        [\A p \in Procs : AppendReturns(p) =>
           /\ Bytes(File)' <= MaxFileBytes \/ Len(File') <= 1
           /\ mine[p] \in Window' \cup waived
           /\ \/ Count(File', "oversized") = 0
              \/ pc[p] = "stat" /\ ~repair[p]]_vars
  <2> SUFFICES ASSUME HistoryInv, StoreInv, SettleInv, Next, NEW p \in Procs, AppendReturns(p)
               PROVE  /\ Bytes(File)' <= MaxFileBytes \/ Len(File') <= 1
                      /\ mine[p] \in Window' \cup waived
                      /\ \/ Count(File', "oversized") = 0
                         \/ pc[p] = "stat" /\ ~repair[p]
    OBVIOUS
  <2>1. Bytes(File)' = Bytes(File')
    BY DEF Bytes, BytesOfLast
  <2> QED
    BY <2>1, ReturnSettles
<1> QED
  BY <1>1, <1>2, <1>3, HistoryOrder, StoreInvariant, PTL DEF Spec, AppendSettles
=============================================================================
