--------------------------- MODULE TeeStore_proof ---------------------------
(***************************************************************************)
(* Proofs about TeeStore with one process at a time, which may die and be  *)
(* followed by others: for every number of runs, every size of their       *)
(* outputs, every cap on files and bytes, and whichever calls fail.        *)
(***************************************************************************)
EXTENDS TeeStore, Foundations

-----------------------------------------------------------------------------
(* The invariants. *)

Files == [run : Runs, kind : {"partial", "log"}, stale : BOOLEAN]
Lines == Runs \cup {Torn, Cut}
Jobs == [run : 0 .. MaxRuns, keep : BOOLEAN, capture : BOOLEAN, path : BOOLEAN]
Scans == [todo : Seq(Runs), count : Int, bytes : Int, removed : SUBSET Runs,
          stuck : BOOLEAN, then : {"idle", "decide", "cleanup"}]
Rests == [entries : Seq(Runs), at : Nat]
Labels == {"idle", "capture", "scan", "prune", "drop", "truncate", "replace", "decide",
           "cleanup", "index", "show", "sweep"}

TypeOK ==
  /\ dir \in Seq(Files) /\ index \in Seq(Lines) /\ next \in 1 .. MaxRuns + 1
  /\ pc \in [Procs -> Labels] /\ job \in [Procs -> Jobs]
  /\ scan \in [Procs -> Scans] /\ rest \in [Procs -> Rests] /\ excused \in SUBSET Runs

(* A run has one file of a kind; only partial captures are stale.          *)
Tidy(d, n) ==
  /\ \A i, j \in 1 .. Len(d) : d[i].run = d[j].run /\ d[i].kind = d[j].kind => i = j
  /\ \A i \in 1 .. Len(d) : d[i].run < n /\ (d[i].stale => d[i].kind = "partial")

(* The runs that have a file of this kind in a directory. *)
HasFile(d, kind, r) == \E i \in 1 .. Len(d) : d[i].kind = kind /\ d[i].run = r

(* The newest file is the log of this run. *)
EndsWith(d, r) == d # <<>> /\ d[Len(d)] = File(r, "log")
Here(r) == EndsWith(dir, r)

(* The newest file is the partial capture of this run, and its only file.  *)
EndsOpen(d, r) ==
  /\ d # <<>> /\ d[Len(d)].run = r /\ d[Len(d)].kind = "partial"
  /\ \A i \in 1 .. Len(d) : d[i].run = r => i = Len(d)
Captures(r) == EndsOpen(dir, r)

(* What a run at this point has in the directory and in the index.         *)
RunInv(p) ==
  LET r == job[p].run
  IN /\ r # 0 => r = next - 1
     /\ pc[p] \in {"idle", "sweep"} => r = 0
     /\ pc[p] \notin {"idle", "sweep", "truncate", "replace"} => r # 0
     /\ pc[p] = "capture" => Captures(r) /\ ~job[p].capture
     /\ pc[p] \in {"scan", "prune", "drop", "truncate", "replace", "sweep"} =>
          IF r = 0 THEN scan[p].then = "idle"
          ELSE /\ Here(r)
               /\ scan[p].then = IF job[p].path THEN "cleanup" ELSE "decide"
               /\ job[p].capture # job[p].path
     /\ pc[p] = "decide" => IF job[p].capture THEN Here(r) ELSE r \notin LogRuns
     /\ pc[p] = "cleanup" /\ ~job[p].path =>
          job[p].capture \/ r \notin LogRuns \/ r \in excused
     /\ pc[p] \in {"cleanup", "index", "show"} /\ job[p].path => Here(r)
     /\ pc[p] = "index" => job[p].path
     /\ pc[p] = "show" /\ r \in LogRuns => r \in Indexed \cup excused
     /\ pc[p] \in {"capture", "decide"} => ~job[p].path
     /\ pc[p] # "show" => r \notin Indexed

(* What a pruning has removed, and has yet to remove or to write.          *)
PruneInv(p) ==
  LET s == scan[p]
      lines == ToSet(rest[p].entries)
  IN /\ pc[p] \notin {"prune", "drop", "truncate", "replace", "sweep"} => s.removed = {}
     /\ pc[p] \notin {"truncate", "replace", "sweep"} => rest[p] = NoRest
     /\ pc[p] = "prune" => job[p].run \notin ToSet(s.todo)
     /\ pc[p] # "sweep" => s.removed \cap LogRuns = {}
     /\ pc[p] = "sweep" => s.removed \cap LogRuns \subseteq ToSet(s.todo)
                           /\ ToSet(s.todo) \subseteq s.removed
     /\ pc[p] \in {"sweep", "truncate"} => lines = Indexed \ s.removed /\ rest[p].at = 0
     /\ pc[p] = "replace" => /\ rest[p].at = Len(index) /\ ToSet(index) \subseteq Runs
                             /\ (Indexed \cup lines) \cap s.removed = {}
                             /\ lines \subseteq excused \cup LogRuns
     /\ \A r \in lines : r < next /\ r # job[p].run

TeeInv(p) ==
  /\ TypeOK /\ Tidy(dir, next) /\ (\A r \in Indexed : r < next)
  /\ RunInv(p) /\ PruneInv(p) /\ EntryHasFile /\ FileHasEntry

(* Until a file would not go, a pruning knows the logs there are.          *)
BoundInv(p) ==
  pc[p] = "prune" /\ ~scan[p].stuck =>
    /\ scan[p].count = Len(Logs) /\ scan[p].bytes = TotalBytes(Logs)
    /\ scan[p].todo = OldestTeeArtifacts(Logs)
-----------------------------------------------------------------------------
(* Sequences. *)

(* A sequence and the set of its members.                                  *)
LEMMA ToSetType ==
  ASSUME NEW S, NEW s \in Seq(S)
  PROVE  /\ Len(s) \in Nat /\ DOMAIN s = 1 .. Len(s) /\ ToSet(s) \in SUBSET S
         /\ \A i \in 1 .. Len(s) : s[i] \in S /\ s[i] \in ToSet(s)
         /\ \A x : x \in ToSet(s) <=> \E i \in 1 .. Len(s) : s[i] = x
         /\ s # <<>> => Len(s) >= 1 /\ Len(s) \in 1 .. Len(s) /\ Last(s) = s[Len(s)]
<1>1. Len(s) \in Nat /\ DOMAIN s = 1 .. Len(s) /\ \A i \in 1 .. Len(s) : s[i] \in S
  OBVIOUS
<1>2. s # <<>> => Len(s) >= 1
  OBVIOUS
<1> QED
  BY <1>1, <1>2 DEF ToSet, Last

(* The empty sequence.                                                     *)
LEMMA EmptyType ==
  ASSUME NEW S
  PROVE  <<>> \in Seq(S) /\ ToSet(<<>>) = {} /\ Len(<<>>) = 0
BY DEF ToSet

(* A sequence with one more member.                                        *)
LEMMA AppendType ==
  ASSUME NEW S, NEW s \in Seq(S), NEW x \in S
  PROVE  /\ Append(s, x) \in Seq(S) /\ Append(s, x) # <<>> /\ Last(Append(s, x)) = x
         /\ Len(Append(s, x)) = Len(s) + 1
         /\ \A i \in 1 .. Len(s) : Append(s, x)[i] = s[i]
         /\ Append(s, x)[Len(s) + 1] = x
         /\ ToSet(Append(s, x)) = ToSet(s) \cup {x}
<1> DEFINE t == Append(s, x)
<1>1. /\ t \in Seq(S) /\ Len(t) = Len(s) + 1 /\ t[Len(s) + 1] = x
      /\ \A i \in 1 .. Len(s) : t[i] = s[i]
  OBVIOUS
<1> HIDE DEF t
<1>3. Len(s) \in Nat
  OBVIOUS
<1>2. t # <<>>
  <2>1. Len(t) # 0 /\ Len(<<>>) = 0
    BY <1>1, <1>3
  <2> QED
    BY <2>1
<1>4. ToSet(t) = ToSet(s) \cup {x}
  <2>1. \A y : y \in ToSet(t) <=> \E i \in 1 .. Len(s) + 1 : t[i] = y
    BY <1>1, ToSetType
  <2>2. \A y : y \in ToSet(s) <=> \E i \in 1 .. Len(s) : s[i] = y
    BY ToSetType
  <2>3. \A i \in 1 .. Len(s) + 1 : i \in 1 .. Len(s) \/ i = Len(s) + 1
    BY <1>3
  <2>4. Len(s) + 1 \in 1 .. Len(s) + 1 /\ \A i \in 1 .. Len(s) : i \in 1 .. Len(s) + 1
    BY <1>3
  <2>5. \A y : y \in ToSet(t) <=> y \in ToSet(s) \/ y = x
    BY <1>1, <2>1, <2>2, <2>3, <2>4
  <2> QED
    BY <2>5
<1>5. Last(t) = x
  BY <1>1, <1>2, ToSetType
<1> QED
  BY <1>1, <1>2, <1>4, <1>5 DEF t

(* A sequence without its last member.                                     *)
LEMMA FrontType ==
  ASSUME NEW S, NEW s \in Seq(S), s # <<>>
  PROVE  /\ Front(s) \in Seq(S) /\ Len(Front(s)) = Len(s) - 1
         /\ \A i \in 1 .. Len(s) - 1 : Front(s)[i] = s[i]
<1>1. Len(s) \in Nat /\ Len(s) >= 1
  BY ToSetType
<1>2. Len(SubSeq(s, 1, Len(s) - 1)) = Len(s) - 1
  BY <1>1
<1>3. \A i \in 1 .. Len(s) - 1 : SubSeq(s, 1, Len(s) - 1)[i] = s[i]
  BY <1>1
<1>4. SubSeq(s, 1, Len(s) - 1) \in Seq(S)
  BY <1>1
<1> QED
  BY <1>2, <1>3, <1>4 DEF Front

(* A sequence without its first member.                                    *)
LEMMA TailType ==
  ASSUME NEW S, NEW s \in Seq(S), s # <<>>
  PROVE  /\ Tail(s) \in Seq(S) /\ Len(Tail(s)) = Len(s) - 1 /\ Head(s) \in S /\ Head(s) = s[1]
         /\ \A i \in 1 .. Len(s) - 1 : Tail(s)[i] = s[i + 1]
         /\ ToSet(s) = {Head(s)} \cup ToSet(Tail(s))
<1>1. /\ Tail(s) \in Seq(S) /\ Len(Tail(s)) = Len(s) - 1 /\ Head(s) \in S /\ Head(s) = s[1]
      /\ \A i \in 1 .. Len(s) - 1 : Tail(s)[i] = s[i + 1]
  OBVIOUS
<1>2. Len(s) \in Nat /\ Len(s) >= 1
  BY ToSetType
<1>3. \A x : x \in ToSet(s) <=> \E i \in 1 .. Len(s) : s[i] = x
  BY ToSetType
<1>4. \A x : x \in ToSet(Tail(s)) <=> \E i \in 1 .. Len(s) - 1 : s[i + 1] = x
  <2>1. \A x : x \in ToSet(Tail(s)) <=> \E i \in 1 .. Len(Tail(s)) : Tail(s)[i] = x
    BY <1>1, ToSetType
  <2> QED
    BY <1>1, <2>1
<1>5. \A i \in 1 .. Len(s) : i = 1 \/ (i - 1 \in 1 .. Len(s) - 1 /\ (i - 1) + 1 = i)
  BY <1>2
<1>6. 1 \in 1 .. Len(s) /\ \A i \in 1 .. Len(s) - 1 : i + 1 \in 1 .. Len(s)
  BY <1>2
<1>7. \A x : x \in ToSet(s) <=> x = Head(s) \/ x \in ToSet(Tail(s))
  BY <1>1, <1>3, <1>4, <1>5, <1>6
<1> QED
  BY <1>1, <1>7

(* What KeepAt keeps. *)
LEMMA KeepAtType ==
  ASSUME NEW S, NEW s \in Seq(S), NEW I \in SUBSET (1 .. Len(s)), NEW t, t = KeepAt(s, I)
  PROVE  /\ t \in Seq(S) /\ ToSet(t) = {s[i] : i \in I}
         /\ Len(s) \in I => t # <<>> /\ t[Len(t)] = s[Len(s)]
<1>1. t \in Seq(S) /\ \E h : Embeds(s, I, Len(s), t, h)
  BY KeepAtEmbeds
<1>2. PICK h : Embeds(s, I, Len(s), t, h)
  BY <1>1
<1>3. /\ h \in [1 .. Len(t) -> I]
      /\ \A k \in 1 .. Len(t) : t[k] = s[h[k]]
      /\ \A k, l \in 1 .. Len(t) : k < l => h[k] < h[l]
      /\ \A i \in I : \E k \in 1 .. Len(t) : h[k] = i
  <2>1. /\ h \in [1 .. Len(t) -> 1 .. Len(s)]
        /\ \A k \in 1 .. Len(t) : h[k] \in I /\ t[k] = s[h[k]]
        /\ \A k, l \in 1 .. Len(t) : k < l => h[k] < h[l]
        /\ \A i \in 1 .. Len(s) : i \in I => \E k \in 1 .. Len(t) : h[k] = i
    BY <1>2 DEF Embeds
  <2> QED
    BY <2>1
<1>4. ToSet(t) = {s[i] : i \in I}
  <2>1. \A x : x \in ToSet(t) <=> \E k \in 1 .. Len(t) : t[k] = x
    BY <1>1, ToSetType
  <2>2. ASSUME NEW k \in 1 .. Len(t) PROVE t[k] \in {s[i] : i \in I}
    BY <1>3
  <2>3. ASSUME NEW i \in I PROVE s[i] \in ToSet(t)
    <3>1. PICK k \in 1 .. Len(t) : h[k] = i
      BY <1>3
    <3> QED
      BY <1>3, <2>1, <3>1
  <2> QED
    BY <2>1, <2>2, <2>3
<1>5. ASSUME Len(s) \in I PROVE t # <<>> /\ t[Len(t)] = s[Len(s)]
  <2>1. PICK k \in 1 .. Len(t) : h[k] = Len(s)
    BY <1>3, <1>5
  <2>2. Len(t) \in Nat /\ Len(s) \in Nat
    BY <1>1
  <2>3. t # <<>> /\ Len(t) \in 1 .. Len(t)
    BY <1>1, <2>1, <2>2
  <2>4. h[Len(t)] \in 1 .. Len(s)
    BY <1>3, <2>3
  <2>5. k = Len(t)
    <3>1. k < Len(t) => h[k] < h[Len(t)]
      BY <1>3, <2>3
    <3> QED
      BY <2>1, <2>2, <2>4, <3>1
  <2> QED
    BY <1>3, <2>1, <2>3, <2>5
<1> QED
  BY <1>1, <1>4, <1>5

(* A sequence that is changed member by member.                            *)
LEMMA SameLength ==
  ASSUME NEW S, NEW T, NEW s \in Seq(S), NEW e, DOMAIN e = 1 .. Len(s),
         e = [i \in DOMAIN e |-> e[i]], \A i \in 1 .. Len(s) : e[i] \in T
  PROVE  e \in Seq(T) /\ Len(e) = Len(s) /\ (e = <<>> <=> s = <<>>)
<1>1. Len(s) \in Nat
  OBVIOUS
<1>2. e \in [1 .. Len(s) -> T]
  OBVIOUS
<1>3. e \in Seq(T) /\ Len(e) = Len(s)
  BY <1>1, <1>2
<1>4. (e = <<>> <=> Len(e) = 0) /\ (s = <<>> <=> Len(s) = 0)
  BY <1>3
<1> QED
  BY <1>3, <1>4

-----------------------------------------------------------------------------
(* The directory. *)

(* Runs are numbers, and lines are runs, torn or cut.                      *)
LEMMA Numbers ==
  /\ MaxRuns \in Nat /\ Runs \in SUBSET Nat /\ 0 \notin Runs
  /\ \A r \in Runs : SizeOf[r] \in Nat /\ r >= 1 /\ r <= MaxRuns
  /\ 0 .. MaxRuns = Runs \cup {0}
  /\ Runs \in SUBSET Lines /\ Torn \in Lines /\ Cut \in Lines
  /\ Torn \notin Runs /\ Cut \notin Runs /\ Cut # Torn
BY TeeAssumption DEF Runs, Lines, Torn, Cut

(* A file is of a run and of a kind.                                       *)
LEMMA FileType ==
  ASSUME NEW r \in Runs, NEW kind \in {"partial", "log"}
  PROVE  /\ File(r, kind) \in Files
         /\ File(r, kind).run = r /\ File(r, kind).kind = kind /\ File(r, kind).stale = FALSE
BY DEF File, Files

(* The files of a directory.                                               *)
LEMMA FilesType ==
  ASSUME NEW d \in Seq(Files)
  PROVE  /\ Len(d) \in Nat /\ DOMAIN d = 1 .. Len(d)
         /\ \A i \in 1 .. Len(d) : /\ d[i] \in Files /\ d[i].run \in Runs
                                   /\ d[i].kind \in {"partial", "log"} /\ d[i].stale \in BOOLEAN
         /\ d # <<>> => Len(d) \in 1 .. Len(d) /\ Last(d) = d[Len(d)]
<1>1. /\ Len(d) \in Nat /\ DOMAIN d = 1 .. Len(d)
      /\ \A i \in 1 .. Len(d) : d[i] \in Files
      /\ d # <<>> => Len(d) \in 1 .. Len(d) /\ Last(d) = d[Len(d)]
  BY ToSetType
<1> QED
  BY <1>1 DEF Files

(* The runs with a log, by the files there are.                            *)
LEMMA LogIs ==
  /\ dir \in Seq(Files) => LogRuns = {r \in Runs : HasFile(dir, "log", r)}
                           /\ PartialRuns = {r \in Runs : HasFile(dir, "partial", r)}
  /\ dir' \in Seq(Files) => LogRuns' = {r \in Runs : HasFile(dir', "log", r)}
<1>1. ASSUME NEW d \in Seq(Files), NEW kind
      PROVE  {f.run : f \in {g \in ToSet(d) : g.kind = kind}} = {r \in Runs : HasFile(d, kind, r)}
  <2>1. \A f : f \in ToSet(d) <=> \E i \in 1 .. Len(d) : d[i] = f
    BY ToSetType
  <2> QED
    BY <2>1, FilesType DEF HasFile
<1> QED
  BY <1>1 DEF LogRuns, PartialRuns, RunsWith

(* What is left of a directory when some files go.                         *)
LEMMA SomeKept ==
  ASSUME NEW d \in Seq(Files), NEW n, Tidy(d, n), NEW I \in SUBSET (1 .. Len(d)),
         NEW e, e = KeepAt(d, I)
  PROVE  /\ e \in Seq(Files) /\ Tidy(e, n)
         /\ \A kind, r : HasFile(e, kind, r)
              <=> \E i \in I : d[i].kind = kind /\ d[i].run = r
         /\ d # <<>> /\ Len(d) \in I => e # <<>> /\ e[Len(e)] = d[Len(d)]
<1>1. e \in Seq(Files) /\ (Len(d) \in I => e # <<>> /\ e[Len(e)] = d[Len(d)])
  BY KeepAtType
<1>2. PICK h : Embeds(d, I, Len(d), e, h)
  BY KeepAtEmbeds
<1>3. /\ \A k \in 1 .. Len(e) : /\ k \in Nat /\ h[k] \in 1 .. Len(d) /\ h[k] \in Nat
                               /\ h[k] \in I /\ e[k] = d[h[k]]
      /\ \A k, l \in 1 .. Len(e) : k < l => h[k] < h[l]
      /\ \A i \in I : \E k \in 1 .. Len(e) : h[k] = i
  <2>1. Len(e) \in Nat /\ Len(d) \in Nat /\ h \in [1 .. Len(e) -> 1 .. Len(d)]
    BY <1>1, <1>2 DEF Embeds
  <2>2. \A k \in 1 .. Len(e) : h[k] \in I /\ e[k] = d[h[k]]
    BY <1>2 DEF Embeds
  <2>3. \A k, l \in 1 .. Len(e) : k < l => h[k] < h[l]
    BY <1>2 DEF Embeds
  <2>4. \A i \in I : \E k \in 1 .. Len(e) : h[k] = i
    BY <1>2 DEF Embeds
  <2>5. \A k \in 1 .. Len(e) : k \in Nat /\ h[k] \in 1 .. Len(d) /\ h[k] \in Nat
    BY <2>1
  <2> QED
    BY <2>2, <2>3, <2>4, <2>5
<1>4. Tidy(e, n)
  <2>1. ASSUME NEW k \in 1 .. Len(e), NEW l \in 1 .. Len(e),
               e[k].run = e[l].run, e[k].kind = e[l].kind
        PROVE  k = l
    <3>1. h[k] = h[l]
      <4>1. /\ h[k] \in 1 .. Len(d) /\ h[l] \in 1 .. Len(d)
            /\ d[h[k]].run = d[h[l]].run /\ d[h[k]].kind = d[h[l]].kind
        BY <1>3, <2>1
      <4> QED
        BY <4>1 DEF Tidy
    <3>2. ~(k < l) /\ ~(l < k)
      BY <1>3, <3>1
    <3> QED
      BY <1>3, <3>2
  <2>2. \A k \in 1 .. Len(e) : e[k].run < n /\ (e[k].stale => e[k].kind = "partial")
    BY <1>3 DEF Tidy
  <2> QED
    BY <2>1, <2>2 DEF Tidy
<1>5. ASSUME NEW kind, NEW r
      PROVE  HasFile(e, kind, r) <=> \E i \in I : d[i].kind = kind /\ d[i].run = r
  <2>1. ASSUME NEW k \in 1 .. Len(e), e[k].kind = kind /\ e[k].run = r
        PROVE  \E i \in I : d[i].kind = kind /\ d[i].run = r
    BY <1>3, <2>1
  <2>2. ASSUME NEW i \in I, d[i].kind = kind /\ d[i].run = r
        PROVE  \E k \in 1 .. Len(e) : e[k].kind = kind /\ e[k].run = r
    <3>1. PICK k \in 1 .. Len(e) : h[k] = i
      BY <1>3
    <3> QED
      BY <1>3, <2>2, <3>1
  <2> QED
    BY <2>1, <2>2 DEF HasFile
<1> QED
  BY <1>1, <1>4, <1>5

(* A directory without one of its files.                                   *)
LEMMA WithoutType ==
  ASSUME NEW d \in Seq(Files), NEW n, Tidy(d, n), NEW kind, NEW r
  PROVE  LET e == Without(d, kind, r) IN
         /\ e \in Seq(Files) /\ Tidy(e, n)
         /\ \A k, q : HasFile(e, k, q) <=> HasFile(d, k, q) /\ (k # kind \/ q # r)
         /\ \A q \in Runs : EndsWith(d, q) /\ (kind # "log" \/ q # r) => EndsWith(e, q)
<1> DEFINE I == {i \in DOMAIN d : d[i].kind # kind \/ d[i].run # r}
           e == Without(d, kind, r)
<1>1. e = KeepAt(d, I) /\ DOMAIN d = 1 .. Len(d) /\ I \in SUBSET (1 .. Len(d))
  BY FilesType DEF Without
<1>2. \A i : i \in I <=> i \in 1 .. Len(d) /\ (d[i].kind # kind \/ d[i].run # r)
  BY <1>1
<1> HIDE DEF I, e
<1>3. /\ e \in Seq(Files) /\ Tidy(e, n)
      /\ \A k, q : HasFile(e, k, q) <=> \E i \in I : d[i].kind = k /\ d[i].run = q
      /\ d # <<>> /\ Len(d) \in I => e # <<>> /\ e[Len(e)] = d[Len(d)]
  BY <1>1, SomeKept
<1>4. ASSUME NEW k, NEW q PROVE HasFile(e, k, q) <=> HasFile(d, k, q) /\ (k # kind \/ q # r)
  <2>1. HasFile(e, k, q) <=> \E i \in I : d[i].kind = k /\ d[i].run = q
    BY <1>3
  <2>2. (\E i \in I : d[i].kind = k /\ d[i].run = q)
          <=> \E i \in 1 .. Len(d) : d[i].kind = k /\ d[i].run = q /\ (k # kind \/ q # r)
    BY <1>2
  <2>3. (\E i \in 1 .. Len(d) : d[i].kind = k /\ d[i].run = q /\ (k # kind \/ q # r))
          <=> HasFile(d, k, q) /\ (k # kind \/ q # r)
    BY DEF HasFile
  <2> QED
    BY <2>1, <2>2, <2>3
<1>5. ASSUME NEW q \in Runs, EndsWith(d, q), kind # "log" \/ q # r PROVE EndsWith(e, q)
  <2>1. d # <<>> /\ d[Len(d)] = File(q, "log") /\ Len(d) \in 1 .. Len(d)
    BY <1>5, FilesType DEF EndsWith
  <2>2. Len(d) \in I
    <3>1. d[Len(d)].run = q /\ d[Len(d)].kind = "log"
      BY <2>1, FileType
    <3> QED
      BY <1>2, <1>5, <2>1, <3>1
  <2> QED
    BY <1>3, <2>1, <2>2 DEF EndsWith
<1> QED
  BY <1>3, <1>4, <1>5 DEF e

(* A file is created, and is the newest.                                   *)
LEMMA FileAdded ==
  ASSUME NEW d \in Seq(Files), NEW n \in Nat, Tidy(d, n), NEW kind \in {"partial", "log"},
         NEW r \in Runs, r < n, ~HasFile(d, kind, r)
  PROVE  LET e == Append(d, File(r, kind)) IN
         /\ e \in Seq(Files) /\ Tidy(e, n) /\ e # <<>> /\ e[Len(e)] = File(r, kind)
         /\ \A k, q : HasFile(e, k, q) <=> HasFile(d, k, q) \/ (k = kind /\ q = r)
         /\ kind = "log" => EndsWith(e, r)
         /\ kind = "partial" /\ ~HasFile(d, "log", r) => EndsOpen(e, r)
<1> DEFINE f == File(r, kind)
           e == Append(d, f)
<1>1. f \in Files /\ f.run = r /\ f.kind = kind /\ f.stale = FALSE
  BY FileType
<1>2. /\ e \in Seq(Files) /\ e # <<>> /\ Len(e) = Len(d) + 1 /\ e[Len(e)] = f
      /\ \A i \in 1 .. Len(d) : e[i] = d[i]
  BY <1>1, AppendType
<1> HIDE DEF f, e
<1>3. Len(d) \in Nat /\ \A i : i \in 1 .. Len(e) <=> i \in 1 .. Len(d) \/ i = Len(e)
  BY <1>2
<1>4. Tidy(e, n)
  <2>1. \A i \in 1 .. Len(d) : ~(d[i].run = r /\ d[i].kind = kind)
    BY DEF HasFile
  <2>2. \A i \in 1 .. Len(e) : (i \in 1 .. Len(d) /\ e[i] = d[i]) \/ (i = Len(e) /\ e[i] = f)
    BY ONLY <1>2, <1>3
  <2>3. \A i, j \in 1 .. Len(e) : e[i].run = e[j].run /\ e[i].kind = e[j].kind => i = j
    BY ONLY <1>1, <2>1, <2>2, Tidy(d, n) DEF Tidy
  <2>4. \A i \in 1 .. Len(e) : e[i].run < n /\ (e[i].stale => e[i].kind = "partial")
    BY ONLY <1>1, <2>2, r < n, Tidy(d, n) DEF Tidy
  <2> QED
    BY ONLY <2>3, <2>4 DEF Tidy
<1>5. ASSUME NEW k, NEW q PROVE HasFile(e, k, q) <=> HasFile(d, k, q) \/ (k = kind /\ q = r)
  BY <1>1, <1>2, <1>3 DEF HasFile
<1>6. kind = "log" => EndsWith(e, r)
  BY <1>2 DEF EndsWith, f
<1>7. kind = "partial" /\ ~HasFile(d, "log", r) => EndsOpen(e, r)
  BY <1>1, <1>2, <1>3, FilesType DEF EndsOpen, HasFile
<1> QED
  BY <1>2, <1>4, <1>5, <1>6, <1>7 DEF f, e

(* An hour passes, and no name, kind or order changes.                     *)
LEMMA AgedType ==
  ASSUME NEW d \in Seq(Files), NEW n, Tidy(d, n), NEW e,
         e = [i \in DOMAIN d |-> [run |-> d[i].run, kind |-> d[i].kind,
                                stale |-> d[i].stale \/ d[i].kind = "partial"]]
  PROVE  /\ e \in Seq(Files) /\ Tidy(e, n)
         /\ \A k, q : HasFile(e, k, q) <=> HasFile(d, k, q)
         /\ \A q \in Runs : EndsWith(d, q) => EndsWith(e, q)
         /\ \A q \in Runs : EndsOpen(d, q) => EndsOpen(e, q)
<1>1. /\ Len(d) \in Nat /\ DOMAIN d = 1 .. Len(d)
      /\ \A i \in 1 .. Len(d) : /\ d[i].run \in Runs /\ d[i].kind \in {"partial", "log"}
                                /\ d[i].stale \in BOOLEAN
      /\ d # <<>> => Len(d) \in 1 .. Len(d)
  BY FilesType
<1>2. \A i \in 1 .. Len(d) :
        e[i] = [run |-> d[i].run, kind |-> d[i].kind, stale |-> d[i].stale \/ d[i].kind = "partial"]
  BY <1>1
<1>3. \A i \in 1 .. Len(d) : /\ e[i].run = d[i].run /\ e[i].kind = d[i].kind
                             /\ e[i].stale => d[i].stale \/ d[i].kind = "partial"
  <2> TAKE i \in 1 .. Len(d)
  <2>1. e[i] = [run |-> d[i].run, kind |-> d[i].kind,
                stale |-> d[i].stale \/ d[i].kind = "partial"]
    BY <1>2
  <2>2. e[i].run = d[i].run /\ e[i].kind = d[i].kind
    BY ONLY <2>1
  <2>3. e[i].stale = (d[i].stale \/ d[i].kind = "partial")
    BY ONLY <2>1, SMT
  <2> QED
    BY ONLY <2>2, <2>3, Zenon
<1>4. \A i \in 1 .. Len(d) : e[i] \in Files
  <2> TAKE i \in 1 .. Len(d)
  <2>1. (d[i].stale \/ d[i].kind = "partial") \in BOOLEAN
    OBVIOUS
  <2> QED
    BY <1>1, <1>2, <2>1 DEF Files
<1>5. e \in Seq(Files) /\ Len(e) = Len(d) /\ (e = <<>> <=> d = <<>>)
  <2>1. DOMAIN e = 1 .. Len(d) /\ e = [i \in DOMAIN e |-> e[i]]
    BY <1>1
  <2> QED
    BY ONLY <1>4, <2>1, d \in Seq(Files), SameLength
<1>6. Tidy(e, n)
  BY ONLY <1>1, <1>3, <1>5, Tidy(d, n) DEF Tidy
<1>7. \A k, q : HasFile(e, k, q) <=> HasFile(d, k, q)
  BY ONLY <1>3, <1>5 DEF HasFile
<1>8. ASSUME NEW q \in Runs, EndsWith(d, q) PROVE EndsWith(e, q)
  <2>1. d # <<>> /\ d[Len(d)] = File(q, "log") /\ Len(d) \in 1 .. Len(d)
    BY <1>1, <1>8 DEF EndsWith
  <2>2. d[Len(d)].run = q /\ d[Len(d)].kind = "log" /\ d[Len(d)].stale = FALSE
    <3>1. /\ File(q, "log").run = q /\ File(q, "log").kind = "log"
          /\ File(q, "log").stale = FALSE
      BY q \in Runs, FileType
    <3> QED
      BY ONLY <2>1, <3>1
  <2>3. e[Len(d)] = File(q, "log")
    BY ONLY <1>2, <2>1, <2>2 DEF File
  <2> QED
    BY ONLY <1>5, <2>1, <2>3 DEF EndsWith
<1>9. ASSUME NEW q \in Runs, EndsOpen(d, q) PROVE EndsOpen(e, q)
  <2>1. d # <<>> /\ Len(d) \in 1 .. Len(d) /\ e # <<>>
    BY ONLY <1>1, <1>5, <1>9 DEF EndsOpen
  <2> QED
    BY ONLY <1>3, <1>5, <1>9, <2>1 DEF EndsOpen
<1> QED
  BY <1>5, <1>6, <1>7, <1>8, <1>9

(* The capture of a run, its only file and the newest, becomes a log.      *)
LEMMA RenamedType ==
  ASSUME NEW d \in Seq(Files), NEW n, Tidy(d, n), NEW r \in Runs, EndsOpen(d, r), NEW e,
         e = [i \in DOMAIN d |-> IF d[i].run = r THEN File(r, "log") ELSE d[i]]
  PROVE  /\ e \in Seq(Files) /\ Tidy(e, n) /\ EndsWith(e, r)
         /\ \A q : HasFile(e, "log", q) <=> HasFile(d, "log", q) \/ q = r
<1>1. /\ Len(d) \in Nat /\ DOMAIN d = 1 .. Len(d) /\ d # <<>> /\ Len(d) \in 1 .. Len(d)
      /\ \A i \in 1 .. Len(d) : d[i] \in Files
      /\ d[Len(d)].run = r /\ d[Len(d)].kind = "partial"
      /\ \A i \in 1 .. Len(d) : d[i].run = r => i = Len(d)
  BY FilesType DEF EndsOpen
<1>2. /\ e[Len(d)] = File(r, "log")
      /\ \A i \in 1 .. Len(d) : i # Len(d) => e[i] = d[i] /\ d[i].run # r
  BY <1>1
<1>3. File(r, "log") \in Files /\ File(r, "log").run = r /\ File(r, "log").kind = "log"
      /\ File(r, "log").stale = FALSE
  BY FileType
<1>4. e \in Seq(Files) /\ Len(e) = Len(d) /\ (e = <<>> <=> d = <<>>)
  <2>1. \A i \in 1 .. Len(d) : e[i] \in Files
    BY <1>1, <1>2, <1>3
  <2>2. DOMAIN e = 1 .. Len(d) /\ e = [i \in DOMAIN e |-> e[i]]
    BY <1>1
  <2> QED
    BY ONLY <2>1, <2>2, d \in Seq(Files), SameLength
<1>5. Tidy(e, n)
  <2>1. \A i \in 1 .. Len(d) : e[i].run = d[i].run /\ (i # Len(d) => e[i] = d[i])
    BY ONLY <1>1, <1>2, <1>3
  <2>2. ASSUME NEW i \in 1 .. Len(d), NEW j \in 1 .. Len(d),
               e[i].run = e[j].run, e[i].kind = e[j].kind
        PROVE  i = j
    <3>1. CASE i = Len(d) \/ j = Len(d)
      BY ONLY <1>1, <2>1, <2>2, <3>1
    <3>2. CASE i # Len(d) /\ j # Len(d)
      BY ONLY <2>1, <2>2, <3>2, Tidy(d, n) DEF Tidy
    <3> QED
      BY <3>1, <3>2
  <2>3. ASSUME NEW i \in 1 .. Len(d)
        PROVE  e[i].run < n /\ (e[i].stale => e[i].kind = "partial")
    <3>1. e[i].run < n
      BY ONLY <2>1, <2>3, Tidy(d, n) DEF Tidy
    <3>2. e[i].stale => e[i].kind = "partial"
      <4>1. CASE i = Len(d)
        BY ONLY <1>2, <1>3, <4>1
      <4>2. CASE i # Len(d)
        BY ONLY <2>1, <2>3, <4>2, Tidy(d, n) DEF Tidy
      <4> QED
        BY <4>1, <4>2
    <3> QED
      BY <3>1, <3>2
  <2> QED
    BY ONLY <1>4, <2>2, <2>3 DEF Tidy
<1>6. EndsWith(e, r)
  BY ONLY <1>1, <1>2, <1>4 DEF EndsWith
<1>7. ASSUME NEW q PROVE HasFile(e, "log", q) <=> HasFile(d, "log", q) \/ q = r
  BY ONLY <1>1, <1>2, <1>3, <1>4 DEF HasFile
<1> QED
  BY <1>4, <1>5, <1>6, <1>7

(* Partial captures that nobody has written for an hour go.                *)
Fresh(d, stay) == KeepAt(d, {i \in DOMAIN d : ~d[i].stale \/ d[i] \in stay})

(* A scan leaves the logs, whatever it could remove of the rest.           *)
LEMMA ScannedType ==
  ASSUME NEW d \in Seq(Files), NEW n, Tidy(d, n), NEW stay
  PROVE  LET e == Fresh(d, stay) IN
         /\ e \in Seq(Files) /\ Tidy(e, n)
         /\ \A q : HasFile(e, "log", q) <=> HasFile(d, "log", q)
         /\ \A q \in Runs : EndsWith(d, q) => EndsWith(e, q)
<1> DEFINE I == {i \in DOMAIN d : ~d[i].stale \/ d[i] \in stay}
           e == Fresh(d, stay)
<1>1. e = KeepAt(d, I) /\ DOMAIN d = 1 .. Len(d) /\ I \in SUBSET (1 .. Len(d))
  BY FilesType DEF Fresh
<1>2. \A i \in 1 .. Len(d) : d[i].kind = "log" => i \in I
  BY <1>1, FilesType DEF Tidy
<1> HIDE DEF I, e
<1>3. /\ e \in Seq(Files) /\ Tidy(e, n)
      /\ \A k, q : HasFile(e, k, q) <=> \E i \in I : d[i].kind = k /\ d[i].run = q
      /\ d # <<>> /\ Len(d) \in I => e # <<>> /\ e[Len(e)] = d[Len(d)]
  BY <1>1, SomeKept
<1>4. ASSUME NEW q PROVE HasFile(e, "log", q) <=> HasFile(d, "log", q)
  <2>1. HasFile(e, "log", q) <=> \E i \in I : d[i].kind = "log" /\ d[i].run = q
    BY <1>3
  <2> QED
    BY ONLY <1>1, <1>2, <2>1 DEF HasFile
<1>5. ASSUME NEW q \in Runs, EndsWith(d, q) PROVE EndsWith(e, q)
  <2>1. d # <<>> /\ d[Len(d)] = File(q, "log") /\ Len(d) \in 1 .. Len(d)
    BY <1>5, FilesType DEF EndsWith
  <2>2. Len(d) \in I
    BY <1>2, <2>1, FileType
  <2> QED
    BY <1>3, <2>1, <2>2 DEF EndsWith
<1> QED
  BY <1>3, <1>4, <1>5 DEF e

-----------------------------------------------------------------------------
(* The logs, oldest first. *)

(* The runs of the files of a directory.                                   *)
LEMMA RunsType ==
  ASSUME NEW d \in Seq(Files)
  PROVE  RunsOf(d) \in Seq(Runs) /\ Len(RunsOf(d)) = Len(d)
         /\ \A i \in 1 .. Len(d) : RunsOf(d)[i] = d[i].run
<1>1. Len(d) \in Nat /\ DOMAIN d = 1 .. Len(d) /\ \A i \in 1 .. Len(d) : d[i].run \in Runs
  BY FilesType
<1>2. RunsOf(d) = [i \in 1 .. Len(d) |-> d[i].run]
  BY <1>1 DEF RunsOf
<1> QED
  BY <1>1, <1>2

(* Each log is listed once, in the order of the directory.                 *)
Lists(d, t, h) ==
  /\ h \in [1 .. Len(t) -> 1 .. Len(d)]
  /\ \A k \in 1 .. Len(t) : d[h[k]].kind = "log" /\ t[k] = d[h[k]].run
  /\ \A k, l \in 1 .. Len(t) : k < l => h[k] < h[l]
  /\ \A i \in 1 .. Len(d) : d[i].kind = "log" => \E k \in 1 .. Len(t) : h[k] = i

LogsOf(d) == RunsOf(KeepAt(d, {i \in DOMAIN d : d[i].kind = "log"}))

(* The logs of a directory, in order.                                      *)
LEMMA LogsOfType ==
  ASSUME NEW d \in Seq(Files)
  PROVE  LogsOf(d) \in Seq(Runs) /\ \E h : Lists(d, LogsOf(d), h)
<1> DEFINE I == {i \in DOMAIN d : d[i].kind = "log"}
           e == KeepAt(d, I)
<1>1. DOMAIN d = 1 .. Len(d) /\ I \in SUBSET (1 .. Len(d))
  BY FilesType
<1>2. \A i : i \in I <=> i \in 1 .. Len(d) /\ d[i].kind = "log"
  BY <1>1
<1>3. LogsOf(d) = RunsOf(e)
  BY DEF LogsOf
<1> HIDE DEF I
<1>4. e \in Seq(Files)
  BY <1>1, KeepAtType
<1>5. PICK h : Embeds(d, I, Len(d), e, h)
  BY <1>1, KeepAtEmbeds
<1> HIDE DEF e
<1>6. LogsOf(d) \in Seq(Runs) /\ Len(LogsOf(d)) = Len(e) /\ \A i \in 1 .. Len(e) : LogsOf(d)[i] = e[i].run
  BY <1>3, <1>4, RunsType
<1>7. /\ h \in [1 .. Len(e) -> 1 .. Len(d)]
      /\ \A k \in 1 .. Len(e) : h[k] \in I /\ e[k] = d[h[k]]
      /\ \A k, l \in 1 .. Len(e) : k < l => h[k] < h[l]
      /\ \A i \in 1 .. Len(d) : i \in I => \E k \in 1 .. Len(e) : h[k] = i
  BY <1>5 DEF Embeds
<1>8. Lists(d, LogsOf(d), h)
  BY <1>2, <1>6, <1>7 DEF Lists
<1> QED
  BY <1>6, <1>8

(* The logs, before a step and after it.                                   *)
LEMMA LogsType ==
  /\ dir \in Seq(Files) => Logs \in Seq(Runs) /\ \E h : Lists(dir, Logs, h)
  /\ dir' \in Seq(Files) => Logs' \in Seq(Runs) /\ \E h : Lists(dir', Logs', h)
<1>1. Logs = LogsOf(dir) /\ Logs' = LogsOf(dir')
  BY DEF Logs, LogsOf
<1> QED
  BY <1>1, LogsOfType

(* What this run has written last is the newest log, and no candidate.     *)
LEMMA NewestSpared ==
  ASSUME dir \in Seq(Files), NEW n, Tidy(dir, n), NEW r \in Runs, Here(r)
  PROVE  /\ Logs # <<>> /\ OldestTeeArtifacts(Logs) = Front(Logs)
         /\ r \notin ToSet(OldestTeeArtifacts(Logs))
<1> DEFINE t == Logs
<1>1. t \in Seq(Runs) /\ \E h : Lists(dir, t, h)
  BY LogsType
<1> HIDE DEF t
<1>2. PICK h : Lists(dir, t, h)
  BY <1>1
<1>3. Len(dir) \in 1 .. Len(dir) /\ dir[Len(dir)].kind = "log" /\ dir[Len(dir)].run = r
  BY FilesType, FileType DEF Here, EndsWith
<1>4. PICK k \in 1 .. Len(t) : h[k] = Len(dir)
  BY <1>2, <1>3 DEF Lists
<1>5. Len(t) \in Nat /\ t # <<>> /\ Len(t) \in 1 .. Len(t)
  BY <1>1, <1>4, ToSetType
<1>6. /\ Front(t) \in Seq(Runs) /\ Len(Front(t)) = Len(t) - 1
      /\ \A i \in 1 .. Len(t) - 1 : Front(t)[i] = t[i]
  BY <1>1, <1>5, FrontType
<1>7. ASSUME NEW i \in 1 .. Len(t) - 1 PROVE t[i] # r
  <2>1. i \in 1 .. Len(t) /\ i < Len(t)
    BY <1>5
  <2>2. h[i] \in 1 .. Len(dir) /\ h[Len(t)] \in 1 .. Len(dir) /\ h[i] < h[Len(t)]
    BY <1>2, <1>5, <2>1 DEF Lists
  <2>3. h[i] # Len(dir)
    BY <2>2, <1>3
  <2>4. dir[h[i]].kind = "log" /\ t[i] = dir[h[i]].run
    BY <1>2, <2>1 DEF Lists
  <2> QED
    BY <1>3, <2>2, <2>3, <2>4 DEF Tidy
<1>8. \A x : x \in ToSet(Front(t)) <=> \E i \in 1 .. Len(t) - 1 : Front(t)[i] = x
  BY <1>6, ToSetType
<1>9. r \notin ToSet(Front(t))
  BY <1>6, <1>7, <1>8
<1> QED
  BY <1>5, <1>9 DEF OldestTeeArtifacts, t

-----------------------------------------------------------------------------
(* The index. *)

(* A line that continues one that was cut is no entry. *)
LEMMA AppendedType ==
  ASSUME NEW s \in Seq(Lines), NEW r \in Runs \cup {Cut}
  PROVE  LET t == Appended(s, r) IN
         /\ t \in Seq(Lines) /\ Last(t) \in {r, Torn}
         /\ ToSet(t) \cap Runs = IF Last(t) = Torn THEN ToSet(s) \cap Runs
                                 ELSE (ToSet(s) \cup {r}) \cap Runs
<1> DEFINE t == Appended(s, r)
<1>0. r \in Lines /\ r # Torn
  BY Numbers
<1>1. CASE s # <<>> /\ Last(s) = Cut
  <2> DEFINE x == IF r = Cut THEN Cut ELSE Torn
             f == Front(s)
  <2>1. t = Append(f, x) /\ x \in Lines
    BY <1>1, Numbers DEF Appended
  <2>2. f \in Seq(Lines) /\ Len(f) = Len(s) - 1 /\ \A i \in 1 .. Len(s) - 1 : f[i] = s[i]
    BY <1>1, FrontType
  <2>3. x = Torn \/ (x = Cut /\ r = Cut)
    OBVIOUS
  <2> HIDE DEF x, f, t
  <2>4. t \in Seq(Lines) /\ Last(t) = x /\ ToSet(t) = ToSet(f) \cup {x}
    BY <2>1, <2>2, AppendType
  <2>5. Len(s) \in Nat /\ Len(s) >= 1 /\ s[Len(s)] = Cut
    BY <1>1, ToSetType
  <2>6. \A y : y \in ToSet(f) <=> \E i \in 1 .. Len(s) - 1 : s[i] = y
    <3>1. \A y : y \in ToSet(f) <=> \E i \in 1 .. Len(f) : f[i] = y
      BY <2>2, ToSetType
    <3> QED
      BY <2>2, <3>1
  <2>7. \A y : y \in ToSet(s) <=> \E i \in 1 .. Len(s) : s[i] = y
    BY ToSetType
  <2>8. \A y : y \in ToSet(s) <=> y \in ToSet(f) \/ y = Cut
    <3>1. \A i : i \in 1 .. Len(s) <=> i \in 1 .. Len(s) - 1 \/ i = Len(s)
      BY <2>5
    <3> QED
      BY <2>5, <2>6, <2>7, <3>1
  <2>9. \A y \in Runs : y \in ToSet(t) <=> y \in ToSet(s)
    BY <2>3, <2>4, <2>8, Numbers
  <2> QED
    BY <2>3, <2>4, <2>9, Numbers DEF t
<1>2. CASE ~(s # <<>> /\ Last(s) = Cut)
  <2>1. t = Append(s, r)
    BY <1>2 DEF Appended
  <2> HIDE DEF t
  <2>2. t \in Seq(Lines) /\ Last(t) = r /\ ToSet(t) = ToSet(s) \cup {r}
    BY <1>0, <2>1, AppendType
  <2> QED
    BY <1>0, <2>2 DEF t
<1> QED
  BY <1>1, <1>2

(* With one process, a line is written at the end of the index.            *)
LEMMA WriteAtType ==
  ASSUME NEW s \in Seq(Lines), NEW r \in Lines, NEW t, t = WriteAt(s, Len(s), r)
  PROVE  t \in Seq(Lines) /\ Len(t) = Len(s) + 1 /\ ToSet(t) = ToSet(s) \cup {r}
<1>1. Len(s) \in Nat
  OBVIOUS
<1>2. t = [i \in 1 .. Len(s) + 1 |-> IF i = Len(s) + 1 THEN r ELSE s[i]]
  <2>1. ~(Len(s) < Len(s)) /\ \A i \in 1 .. Len(s) + 1 : i # Len(s) + 1 => i <= Len(s)
    BY <1>1
  <2> QED
    BY <2>1 DEF WriteAt
<1>3. \A i \in 1 .. Len(s) + 1 : i # Len(s) + 1 => i \in 1 .. Len(s)
  BY <1>1
<1>4. t \in [1 .. Len(s) + 1 -> Lines]
  BY <1>2, <1>3
<1>5. t \in Seq(Lines) /\ Len(t) = Len(s) + 1
  BY ONLY <1>1, <1>4
<1>6. \A y : y \in ToSet(t) <=> \E i \in 1 .. Len(s) + 1 : t[i] = y
  BY <1>5, ToSetType
<1>7. \A y : y \in ToSet(s) <=> \E i \in 1 .. Len(s) : s[i] = y
  BY ToSetType
<1>8. /\ \A i : i \in 1 .. Len(s) + 1 <=> i \in 1 .. Len(s) \/ i = Len(s) + 1
      /\ t[Len(s) + 1] = r /\ \A i \in 1 .. Len(s) : t[i] = s[i]
  <2>1. \A i \in 1 .. Len(s) : i \in 1 .. Len(s) + 1 /\ i # Len(s) + 1
    BY <1>1
  <2>2. Len(s) + 1 \in 1 .. Len(s) + 1
    BY <1>1
  <2>3. t[Len(s) + 1] = r /\ \A i \in 1 .. Len(s) : t[i] = s[i]
    BY <1>2, <2>1, <2>2
  <2>4. \A i : i \in 1 .. Len(s) + 1 <=> i \in 1 .. Len(s) \/ i = Len(s) + 1
    BY <1>1
  <2> QED
    BY <2>3, <2>4
<1>9. \A y : y \in ToSet(t) <=> y \in ToSet(s) \/ y = r
  BY ONLY <1>6, <1>7, <1>8
<1> QED
  BY <1>5, <1>9

(* Lines without torn and cut ones are runs.                               *)
LEMMA OnlyRuns ==
  ASSUME NEW s \in Seq(Lines), ToSet(s) \in SUBSET Runs
  PROVE  s \in Seq(Runs)
<1>1. Len(s) \in Nat /\ \A i \in 1 .. Len(s) : s[i] \in Runs
  BY ToSetType
<1>2. DOMAIN s = 1 .. Len(s) /\ s = [i \in DOMAIN s |-> s[i]]
  OBVIOUS
<1> QED
  BY ONLY <1>1, <1>2, s \in Seq(Lines), SameLength

(* The entries that can be read are those that are indexed.                *)
LEMMA EntriesType ==
  ASSUME index \in Seq(Lines)
  PROVE  Entries \in Seq(Runs) /\ ToSet(Entries) = Indexed
<1> DEFINE I == {i \in DOMAIN index : index[i] \in Runs}
<1>1. DOMAIN index = 1 .. Len(index) /\ I \in SUBSET (1 .. Len(index))
  BY ToSetType
<1>2. Entries \in Seq(Lines) /\ ToSet(Entries) = {index[i] : i \in I}
  BY <1>1, KeepAtType DEF Entries
<1>3. \A y : y \in ToSet(index) <=> \E i \in 1 .. Len(index) : index[i] = y
  BY ToSetType
<1>4. {index[i] : i \in I} = Indexed
  BY <1>1, <1>3 DEF Indexed
<1> QED
  BY <1>2, <1>4, OnlyRuns DEF Indexed

(* The entries that are written back are those that were not removed.      *)
LEMMA SurvivorsType ==
  ASSUME NEW s \in Seq(Runs), NEW removed
  PROVE  Survivors(s, removed) \in Seq(Runs) /\ ToSet(Survivors(s, removed)) = ToSet(s) \ removed
<1> DEFINE I == {i \in DOMAIN s : s[i] \notin removed}
<1>1. DOMAIN s = 1 .. Len(s) /\ I \in SUBSET (1 .. Len(s))
  BY ToSetType
<1>2. Survivors(s, removed) \in Seq(Runs) /\ ToSet(Survivors(s, removed)) = {s[i] : i \in I}
  BY <1>1, KeepAtType DEF Survivors
<1>3. \A y : y \in ToSet(s) <=> \E i \in 1 .. Len(s) : s[i] = y
  BY ToSetType
<1>4. {s[i] : i \in I} = ToSet(s) \ removed
  BY <1>1, <1>3
<1> QED
  BY <1>2, <1>4

(* The runs in the order "szr tee prune" takes them.                       *)
LEMMA NewestFirstType ==
  ASSUME NEW runs \in SUBSET Runs
  PROVE  NewestFirst(runs) \in Seq(Runs) /\ ToSet(NewestFirst(runs)) = runs
<1> DEFINE s == [i \in 1 .. MaxRuns |-> MaxRuns + 1 - i]
           I == {i \in 1 .. MaxRuns : s[i] \in runs}
<1>0. MaxRuns \in Nat /\ Runs = 1 .. MaxRuns
  BY TeeAssumption DEF Runs
<1>1. s \in Seq(Runs) /\ Len(s) = MaxRuns
  <2>1. s \in [1 .. MaxRuns -> Runs]
    BY <1>0
  <2> HIDE DEF s
  <2> QED
    BY ONLY <1>0, <2>1
<1>2. \A i \in 1 .. MaxRuns : s[i] = MaxRuns + 1 - i
  OBVIOUS
<1>3. NewestFirst(runs) = KeepAt(s, I) /\ I \in SUBSET (1 .. Len(s))
  BY <1>1 DEF NewestFirst
<1>4. \A i : i \in I <=> i \in 1 .. MaxRuns /\ s[i] \in runs
  OBVIOUS
<1> HIDE DEF s, I
<1>5. NewestFirst(runs) \in Seq(Runs) /\ ToSet(NewestFirst(runs)) = {s[i] : i \in I}
  BY <1>1, <1>3, KeepAtType
<1>6. ASSUME NEW r \in runs PROVE r \in {s[i] : i \in I}
  <2>1. MaxRuns + 1 - r \in 1 .. MaxRuns /\ MaxRuns + 1 - (MaxRuns + 1 - r) = r
    BY <1>0
  <2>2. s[MaxRuns + 1 - r] = r
    BY <1>2, <2>1
  <2> QED
    BY <1>4, <2>1, <2>2
<1>7. {s[i] : i \in I} = runs
  BY <1>4, <1>6
<1> QED
  BY <1>5, <1>7

Sizes(t) == [i \in DOMAIN t |-> SizeOf[t[i]]]

(* The sizes of some logs and what they add up to.                         *)
LEMMA SizesType ==
  ASSUME NEW t \in Seq(Runs)
  PROVE  /\ Sizes(t) \in Seq(Nat) /\ Len(Sizes(t)) = Len(t) /\ Len(t) \in Nat
         /\ \A i \in 1 .. Len(t) : Sizes(t)[i] = SizeOf[t[i]]
         /\ TotalBytes(t) = SumOfLast(Sizes(t), Len(t)) /\ TotalBytes(t) \in Nat
<1> DEFINE s == Sizes(t)
<1>1. Len(t) \in Nat /\ DOMAIN t = 1 .. Len(t) /\ \A i \in 1 .. Len(t) : t[i] \in Runs
  BY ToSetType
<1>2. \A i \in 1 .. Len(t) : s[i] = SizeOf[t[i]] /\ s[i] \in Nat
  BY <1>1, Numbers DEF Sizes
<1>3. DOMAIN s = 1 .. Len(t) /\ s = [i \in DOMAIN s |-> s[i]]
  BY <1>1 DEF Sizes
<1>4. TotalBytes(t) = SumOfLast(s, Len(t))
  BY DEF TotalBytes, Sizes
<1> HIDE DEF s
<1>5. s \in Seq(Nat) /\ Len(s) = Len(t)
  BY ONLY <1>2, <1>3, t \in Seq(Runs), SameLength
<1>6. TotalBytes(t) \in Nat
  BY <1>1, <1>4, <1>5, SumOfLastType
<1> QED
  BY <1>1, <1>2, <1>4, <1>5, <1>6 DEF s

-----------------------------------------------------------------------------
(* The parts of the state. *)

(* The fields of what a process runs.                                      *)
LEMMA JobType ==
  ASSUME NEW r, NEW k \in BOOLEAN, NEW c \in BOOLEAN, NEW t \in BOOLEAN
  PROVE  /\ Job(r, k, c, t).run = r /\ Job(r, k, c, t).keep = k
         /\ Job(r, k, c, t).capture = c /\ Job(r, k, c, t).path = t
         /\ r \in 0 .. MaxRuns => Job(r, k, c, t) \in Jobs
BY DEF Job, Jobs

(* The fields of a pruning.                                                *)
LEMMA PruningType ==
  ASSUME NEW todo, NEW count, NEW bytes, NEW removed, NEW stuck, NEW then
  PROVE  LET s == Pruning(todo, count, bytes, removed, stuck, then) IN
         /\ s.todo = todo /\ s.count = count /\ s.bytes = bytes
         /\ s.removed = removed /\ s.stuck = stuck /\ s.then = then
         /\ (/\ todo \in Seq(Runs) /\ count \in Int /\ bytes \in Int /\ removed \in SUBSET Runs
             /\ stuck \in BOOLEAN /\ then \in {"idle", "decide", "cleanup"}) => s \in Scans
BY DEF Pruning, Scans

(* The fields of what is written back.                                     *)
LEMMA RestType ==
  ASSUME NEW entries, NEW at
  PROVE  /\ Rest(entries, at).entries = entries /\ Rest(entries, at).at = at
         /\ entries \in Seq(Runs) /\ at \in Nat => Rest(entries, at) \in Rests
BY DEF Rest, Rests

(* What a process holds that holds nothing.                                *)
LEMMA NothingType ==
  /\ NoJob \in Jobs /\ NoJob.run = 0 /\ ~NoJob.capture /\ ~NoJob.path /\ ~NoJob.keep
  /\ NoScan \in Scans /\ NoScan.removed = {} /\ NoScan.todo = <<>> /\ NoScan.then = "idle"
  /\ NoRest \in Rests /\ NoRest.entries = <<>> /\ ToSet(NoRest.entries) = {} /\ NoRest.at = 0
  /\ \A then \in {"idle", "decide", "cleanup"} :
       PruneThen(then) \in Scans /\ PruneThen(then).removed = {} /\ PruneThen(then).then = then
<1>1. <<>> \in Seq(Runs) /\ ToSet(<<>>) = {}
  BY EmptyType
<1>2. NoJob \in Jobs /\ NoJob.run = 0 /\ ~NoJob.capture /\ ~NoJob.path /\ ~NoJob.keep
  BY TeeAssumption DEF NoJob, Job, Jobs
<1>3. NoRest \in Rests /\ NoRest.entries = <<>> /\ NoRest.at = 0
  BY <1>1 DEF NoRest, Rest, Rests
<1>4. NoScan \in Scans /\ NoScan.removed = {} /\ NoScan.todo = <<>> /\ NoScan.then = "idle"
  BY <1>1 DEF NoScan, Pruning, Scans
<1>5. \A then \in {"idle", "decide", "cleanup"} :
       PruneThen(then) \in Scans /\ PruneThen(then).removed = {} /\ PruneThen(then).then = then
  BY <1>1 DEF PruneThen, Pruning, Scans
<1> QED
  BY <1>1, <1>2, <1>3, <1>4, <1>5

-----------------------------------------------------------------------------
(* The steps of the only process. *)

(* What a step changes for the only process.                               *)
LEMMA Alone ==
  ASSUME NEW p, Procs = {p}, TypeOK
  PROVE  /\ pc[p] \in Labels /\ job[p] \in Jobs /\ scan[p] \in Scans /\ rest[p] \in Rests
         /\ \A l \in Labels : Goto(p, l) => pc'[p] = l /\ pc' \in [Procs -> Labels]
         /\ \A j \in Jobs : job' = [job EXCEPT ![p] = j] => job'[p] = j /\ job' \in [Procs -> Jobs]
         /\ \A s \in Scans : scan' = [scan EXCEPT ![p] = s]
              => scan'[p] = s /\ scan' \in [Procs -> Scans]
         /\ \A w \in Rests : rest' = [rest EXCEPT ![p] = w]
              => rest'[p] = w /\ rest' \in [Procs -> Rests]
BY DEF TypeOK, Goto

(* The fields of what it holds.                                            *)
LEMMA Fields ==
  /\ \A j \in Jobs : /\ j.run \in 0 .. MaxRuns /\ j.keep \in BOOLEAN
                     /\ j.capture \in BOOLEAN /\ j.path \in BOOLEAN
  /\ \A s \in Scans : /\ s.todo \in Seq(Runs) /\ s.count \in Int /\ s.bytes \in Int
                      /\ s.removed \in SUBSET Runs /\ s.stuck \in BOOLEAN
                      /\ s.then \in {"idle", "decide", "cleanup"}
  /\ \A w \in Rests : /\ w.entries \in Seq(Runs) /\ w.at \in Nat
                      /\ ToSet(w.entries) \in SUBSET Runs
BY ToSetType DEF Jobs, Scans, Rests

(* The two properties, for the only process.                               *)
LEMMA Belongs ==
  ASSUME NEW p, Procs = {p}
  PROVE  /\ EntryHasFile <=> Indexed \subseteq excused \cup LogRuns \cup scan[p].removed
         /\ FileHasEntry <=> LogRuns \subseteq excused \cup Indexed \cup {job[p].run}
                                                 \cup ToSet(rest[p].entries)
         /\ EntryHasFile' <=> Indexed' \subseteq excused' \cup LogRuns' \cup scan'[p].removed
         /\ FileHasEntry' <=> LogRuns' \subseteq excused' \cup Indexed' \cup {job'[p].run}
                                                  \cup ToSet(rest'[p].entries)
BY DEF EntryHasFile, FileHasEntry

(* A pruning that ends leaves nothing of itself.                           *)
LEMMA DoneType ==
  ASSUME NEW p, Procs = {p}, TypeOK, ScanDone(p)
  PROVE  /\ scan'[p] = NoScan /\ rest'[p] = NoRest /\ pc'[p] = scan[p].then
         /\ scan' \in [Procs -> Scans] /\ rest' \in [Procs -> Rests] /\ pc' \in [Procs -> Labels]
<1>1. scan[p].then \in Labels
  BY Alone, Fields DEF Labels
<1> QED
  BY <1>1, Alone, NothingType DEF ScanDone

(* A step that leaves a file leaves what is in it.                         *)
LEMMA Unwritten ==
  /\ dir' = dir => LogRuns' = LogRuns
  /\ index' = index => Indexed' = Indexed
BY DEF LogRuns, RunsWith, Indexed

(* A log is removed; another that is the newest file still is.             *)
LEMMA LogRemoved ==
  ASSUME NEW r \in Runs
  PROVE  dir \in Seq(Files) /\ Tidy(dir, next) /\ dir' = Without(dir, "log", r) =>
           /\ dir' \in Seq(Files) /\ Tidy(dir', next) /\ LogRuns' = LogRuns \ {r}
           /\ \A q \in Runs : q # r /\ EndsWith(dir, q) => EndsWith(dir', q)
<1> SUFFICES ASSUME dir \in Seq(Files), Tidy(dir, next), dir' = Without(dir, "log", r)
             PROVE  /\ dir' \in Seq(Files) /\ Tidy(dir', next) /\ LogRuns' = LogRuns \ {r}
                    /\ \A q \in Runs : q # r /\ EndsWith(dir, q) => EndsWith(dir', q)
  OBVIOUS
<1>1. /\ dir' \in Seq(Files) /\ Tidy(dir', next)
      /\ \A k, q : HasFile(dir', k, q) <=> HasFile(dir, k, q) /\ (k # "log" \/ q # r)
      /\ \A q \in Runs : EndsWith(dir, q) /\ ("log" # "log" \/ q # r) => EndsWith(dir', q)
  BY WithoutType
<1>2. LogRuns' = LogRuns \ {r}
  BY <1>1, LogIs
<1> QED
  BY <1>1, <1>2

(* What the invariant says of the directory and of the index. *)
LEMMA Known ==
  ASSUME NEW p, Procs = {p}, TeeInv(p)
  PROVE  /\ TypeOK /\ dir \in Seq(Files) /\ Tidy(dir, next)
         /\ index \in Seq(Lines) /\ next \in Nat /\ next \in 1 .. MaxRuns + 1
         /\ excused \in SUBSET Runs /\ LogRuns \in SUBSET Runs /\ Indexed \in SUBSET Runs
         /\ \A r \in Runs : r \in LogRuns <=> HasFile(dir, "log", r)
         /\ \A r \in LogRuns : r < next
         /\ \A r \in Indexed : r < next
         /\ \A r \in Runs : EndsWith(dir, r) => r \in LogRuns
         /\ \A r \in Runs : EndsOpen(dir, r) => r \notin LogRuns
<1>1. /\ TypeOK /\ dir \in Seq(Files) /\ Tidy(dir, next)
      /\ index \in Seq(Lines) /\ next \in Nat /\ next \in 1 .. MaxRuns + 1
      /\ excused \in SUBSET Runs /\ Indexed \in SUBSET Runs /\ \A r \in Indexed : r < next
  BY TeeAssumption DEF TeeInv, TypeOK, Indexed
<1>2. LogRuns = {r \in Runs : HasFile(dir, "log", r)}
  BY <1>1, LogIs
<1>3. \A r \in LogRuns : r < next
  BY <1>1, <1>2 DEF HasFile, Tidy
<1>4. ASSUME NEW r \in Runs, EndsWith(dir, r) PROVE r \in LogRuns
  <2>1. Len(dir) \in 1 .. Len(dir) /\ dir[Len(dir)] = File(r, "log")
    BY <1>1, <1>4, FilesType DEF EndsWith
  <2>2. dir[Len(dir)].run = r /\ dir[Len(dir)].kind = "log"
    BY <2>1, FileType
  <2> QED
    BY <1>2, <2>1, <2>2 DEF HasFile
<1>5. ASSUME NEW r \in Runs, EndsOpen(dir, r) PROVE r \notin LogRuns
  <2>1. \A i \in 1 .. Len(dir) : dir[i].run = r => dir[i].kind = "partial"
    BY <1>5 DEF EndsOpen
  <2> QED
    BY <1>2, <2>1 DEF HasFile
<1> QED
  BY <1>1, <1>2, <1>3, <1>4, <1>5

(* The invariant holds at first.                                           *)
LEMMA InitInv ==
  ASSUME NEW p, Procs = {p}, Init
  PROVE  TeeInv(p)
<1>1. /\ pc[p] = "idle" /\ job[p] = NoJob /\ scan[p] = NoScan /\ rest[p] = NoRest
      /\ dir = <<>> /\ index = <<>> /\ next = 1 /\ excused = {}
  BY DEF Init
<1>2. dir \in Seq(Files) /\ index \in Seq(Lines) /\ Len(dir) = 0 /\ Indexed = {}
  BY <1>1, EmptyType DEF Indexed
<1>3. TypeOK
  BY <1>1, <1>2, NothingType, TeeAssumption DEF Init, TypeOK, Labels
<1>4. LogRuns = {} /\ Tidy(dir, next)
  BY <1>2, LogIs DEF HasFile, Tidy
<1>5. RunInv(p)
  BY <1>1, <1>2, <1>4, NothingType DEF RunInv
<1>6. PruneInv(p)
  BY <1>1, <1>2, <1>4, NothingType DEF PruneInv
<1> QED
  BY <1>2, <1>3, <1>4, <1>5, <1>6, Belongs DEF TeeInv

(* A run that starts has the only partial file of its own.                 *)
LEMMA StartKeeps ==
  ASSUME NEW p, Procs = {p}, TeeInv(p), Start(p)
  PROVE  TeeInv(p)'
<1>1. PICK k \in BOOLEAN : job' = [job EXCEPT ![p] = Job(next, k, FALSE, FALSE)]
  BY DEF Start
<1>2. /\ pc[p] = "idle" /\ next \in Runs /\ next' = next + 1
      /\ index' = index /\ scan' = scan /\ rest' = rest /\ excused' = excused
  BY DEF Start
<1>3. Job(next, k, FALSE, FALSE) \in Jobs
  BY <1>2, JobType, Numbers
<1>4. job'[p] = Job(next, k, FALSE, FALSE) /\ job' \in [Procs -> Jobs]
  BY <1>1, <1>3, Alone, Known
<1>5. job'[p].run = next /\ ~job'[p].capture /\ ~job'[p].path
  <2>1. /\ Job(next, k, FALSE, FALSE).run = next /\ Job(next, k, FALSE, FALSE).capture = FALSE
        /\ Job(next, k, FALSE, FALSE).path = FALSE
    BY JobType
  <2> QED
    BY ONLY <1>4, <2>1
<1>6. /\ next # 0 /\ 0 \notin LogRuns /\ next \notin LogRuns /\ next \notin Indexed /\ next \in Nat
      /\ \A kind : ~HasFile(dir, kind, next)
  BY <1>2, Known, Numbers DEF HasFile, Tidy
<1>7. next' \in 1 .. MaxRuns + 1 /\ next' \in Nat /\ Tidy(dir, next') /\ next < next'
  BY <1>2, <1>6, Known, FilesType, Numbers DEF Tidy
<1>8. /\ dir' \in Seq(Files) /\ Tidy(dir', next') /\ LogRuns' = LogRuns
      /\ \/ Goto(p, "capture") /\ EndsOpen(dir', next)
         \/ Goto(p, "decide")
  <2>1. CASE dir' = Append(dir, File(next, "partial")) /\ Goto(p, "capture")
    <3>1. /\ dir' \in Seq(Files) /\ Tidy(dir', next') /\ EndsOpen(dir', next)
          /\ \A q : HasFile(dir', "log", q) <=> HasFile(dir, "log", q)
      <4>1. /\ dir \in Seq(Files) /\ next \in Runs /\ next' \in Nat /\ Tidy(dir, next')
            /\ next < next' /\ ~HasFile(dir, "partial", next) /\ ~HasFile(dir, "log", next)
        BY <1>2, <1>6, <1>7, Known
      <4>2. /\ dir' \in Seq(Files) /\ Tidy(dir', next')
            /\ \A kind, q : HasFile(dir', kind, q)
                 <=> HasFile(dir, kind, q) \/ (kind = "partial" /\ q = next)
            /\ "partial" = "partial" /\ ~HasFile(dir, "log", next) => EndsOpen(dir', next)
        BY ONLY <2>1, <4>1, FileAdded
      <4> QED
        BY ONLY <4>1, <4>2
    <3> QED
      BY <2>1, <3>1, Known, LogIs
  <2>2. CASE Goto(p, "decide") /\ dir' = dir
    BY <1>7, <2>2, Known, Unwritten
  <2> QED
    BY <2>1, <2>2 DEF Start
<1>9. /\ pc' \in [Procs -> Labels]
      /\ \/ pc'[p] = "capture" /\ EndsOpen(dir', next)
         \/ pc'[p] = "decide"
  BY <1>8, Alone, Known DEF Labels
<1>10. TypeOK'
  BY <1>2, <1>4, <1>7, <1>8, <1>9, Known DEF TypeOK
<1>11. Indexed' = Indexed
  BY <1>2, Unwritten
<1>12. RunInv(p)'
  BY <1>2, <1>5, <1>6, <1>8, <1>9, <1>11 DEF RunInv, Captures
<1>13. PruneInv(p)'
  BY <1>2, <1>8, <1>9, NothingType DEF TeeInv, PruneInv
<1>14. EntryHasFile' /\ FileHasEntry'
  BY <1>2, <1>5, <1>6, <1>8, <1>11, Belongs, NothingType DEF TeeInv, RunInv, PruneInv
<1> QED
  <2>1. \A r \in Indexed : r \in Nat /\ r < next
    BY Known, Numbers
  <2>2. \A r \in Indexed' : r < next'
    BY <1>2, <1>6, <1>11, <2>1
  <2> QED
    BY <1>8, <1>10, <1>12, <1>13, <1>14, <2>2 DEF TeeInv

(* The run a process is at, if it is at one. *)
LEMMA Current ==
  ASSUME NEW p, Procs = {p}, TeeInv(p)
  PROVE  LET r == job[p].run IN
         /\ r \in 0 .. MaxRuns /\ (r # 0 => r \in Runs /\ r < next /\ r = next - 1)
         /\ pc[p] \notin {"idle", "sweep", "truncate", "replace"} => r \in Runs /\ r < next
         /\ job[p].keep \in BOOLEAN /\ job[p].capture \in BOOLEAN /\ job[p].path \in BOOLEAN
         /\ scan[p] \in Scans /\ rest[p] \in Rests /\ pc[p] \in Labels
<1>1. /\ job[p].run \in 0 .. MaxRuns /\ job[p].keep \in BOOLEAN
      /\ job[p].capture \in BOOLEAN /\ job[p].path \in BOOLEAN
      /\ scan[p] \in Scans /\ rest[p] \in Rests /\ pc[p] \in Labels
  BY Known, Alone, Fields
<1>2. /\ job[p].run # 0 => job[p].run = next - 1
      /\ pc[p] \notin {"idle", "sweep", "truncate", "replace"} => job[p].run # 0
  BY DEF TeeInv, RunInv
<1>3. next \in Nat
  BY Known
<1> QED
  BY ONLY <1>1, <1>2, <1>3, Numbers

(* Writing output adds the run's file and no other.                        *)
LEMMA WriteKeeps ==
  ASSUME NEW p, Procs = {p}, TeeInv(p), Write(p)
  PROVE  TeeInv(p)'
<1> DEFINE r == job[p].run
           d == Without(dir, "partial", r)
<1>1. /\ pc[p] = "capture" /\ dir' = Append(d, File(r, "partial"))
      /\ index' = index /\ next' = next /\ pc' = pc /\ job' = job /\ scan' = scan
      /\ rest' = rest /\ excused' = excused
  BY DEF Write
<1>2. r \in Runs /\ r < next /\ next \in Nat /\ dir \in Seq(Files) /\ Tidy(dir, next)
  BY <1>1, Known, Current
<1>3. EndsOpen(dir, r) /\ r \notin LogRuns
  BY <1>1, <1>2, Known DEF TeeInv, RunInv, Captures
<1>4. ~HasFile(dir, "log", r)
  BY <1>2, <1>3, Known
<1>5. /\ d \in Seq(Files) /\ Tidy(d, next)
      /\ \A k, q : HasFile(d, k, q) <=> HasFile(dir, k, q) /\ (k # "partial" \/ q # r)
  BY <1>2, WithoutType
<1> HIDE DEF d, r
<1>6. /\ dir' \in Seq(Files) /\ Tidy(dir', next) /\ EndsOpen(dir', r)
      /\ \A k, q : HasFile(dir', k, q) <=> HasFile(d, k, q) \/ (k = "partial" /\ q = r)
  <2>1. ~HasFile(d, "partial", r) /\ ~HasFile(d, "log", r)
    BY ONLY <1>4, <1>5
  <2>2. /\ dir' \in Seq(Files) /\ Tidy(dir', next)
        /\ \A k, q : HasFile(dir', k, q) <=> HasFile(d, k, q) \/ (k = "partial" /\ q = r)
        /\ "partial" = "partial" /\ ~HasFile(d, "log", r) => EndsOpen(dir', r)
    BY ONLY <1>1, <1>2, <1>5, <2>1, FileAdded
  <2> QED
    BY <2>1, <2>2
<1>7. LogRuns' = LogRuns /\ Indexed' = Indexed
  <2>1. \A q : HasFile(dir', "log", q) <=> HasFile(dir, "log", q)
    BY ONLY <1>5, <1>6
  <2> QED
    BY <1>1, <1>2, <1>6, <2>1, LogIs, Unwritten
<1>8. TypeOK'
  BY <1>1, <1>6, Known DEF TypeOK
<1>9. RunInv(p)'
  BY <1>1, <1>6, <1>7 DEF TeeInv, RunInv, Captures, r
<1>10. PruneInv(p)'
  BY <1>1, <1>7 DEF TeeInv, PruneInv
<1>11. EntryHasFile' /\ FileHasEntry'
  BY <1>1, <1>7, Belongs DEF TeeInv
<1> QED
  BY <1>1, <1>6, <1>7, <1>8, <1>9, <1>10, <1>11 DEF TeeInv

(* Time makes files stale and no more.                                     *)
LEMMA HourKeeps ==
  ASSUME NEW p, Procs = {p}, TeeInv(p), Hour
  PROVE  TeeInv(p)' /\ LogRuns' = LogRuns
<1>1. /\ dir' = [i \in DOMAIN dir |-> [run |-> dir[i].run, kind |-> dir[i].kind,
                                stale |-> dir[i].stale \/ dir[i].kind = "partial"]]
      /\ index' = index /\ next' = next /\ pc' = pc /\ job' = job /\ scan' = scan
      /\ rest' = rest /\ excused' = excused
  BY DEF Hour
<1>2. dir \in Seq(Files) /\ Tidy(dir, next)
  BY Known
<1>3. /\ dir' \in Seq(Files) /\ Tidy(dir', next)
      /\ \A k, q : HasFile(dir', k, q) <=> HasFile(dir, k, q)
      /\ \A q \in Runs : EndsWith(dir, q) => EndsWith(dir', q)
      /\ \A q \in Runs : EndsOpen(dir, q) => EndsOpen(dir', q)
  BY ONLY <1>1, <1>2, AgedType
<1>4. LogRuns' = LogRuns /\ Indexed' = Indexed
  BY <1>1, <1>2, <1>3, LogIs, Unwritten
<1>5. TypeOK'
  BY <1>1, <1>3, Known DEF TypeOK
<1>6. RunInv(p)'
  BY <1>1, <1>3, <1>4, Current DEF TeeInv, RunInv, Captures, Here
<1>7. PruneInv(p)'
  BY <1>1, <1>4 DEF TeeInv, PruneInv
<1>8. EntryHasFile' /\ FileHasEntry'
  BY <1>1, <1>4, Belongs DEF TeeInv
<1> QED
  BY <1>1, <1>3, <1>4, <1>5, <1>6, <1>7, <1>8 DEF TeeInv

(* A kept capture is the log of its run.                                   *)
LEMMA KeepKeeps ==
  ASSUME NEW p, Procs = {p}, TeeInv(p), NEW exit \in {0, 1}, Keep(p, exit)
  PROVE  TeeInv(p)'
<1> DEFINE r == job[p].run
           j == Job(r, job[p].keep, TRUE, FALSE)
<1>1. /\ pc[p] = "capture"
      /\ dir' = [i \in DOMAIN dir |-> IF dir[i].run = r THEN File(r, "log") ELSE dir[i]]
      /\ job' = [job EXCEPT ![p] = j] /\ scan' = [scan EXCEPT ![p] = PruneThen("decide")]
      /\ Goto(p, "scan") \/ Goto(p, "decide")
      /\ index' = index /\ next' = next /\ rest' = rest /\ excused' = excused
  BY DEF Keep
<1>2. r \in Runs /\ r < next /\ r # 0 /\ r = next - 1 /\ dir \in Seq(Files) /\ Tidy(dir, next)
  BY <1>1, Known, Current, Numbers
<1>3. EndsOpen(dir, r) /\ r \notin Indexed /\ r \notin LogRuns
  BY <1>1, <1>2, Known DEF TeeInv, RunInv, Captures
<1>4. j \in Jobs /\ j.run = r /\ j.capture = TRUE /\ j.path = FALSE
  <2>1. job[p].keep \in BOOLEAN /\ r \in 0 .. MaxRuns
    BY Current
  <2>2. \A q, k : k \in BOOLEAN =>
          /\ Job(q, k, TRUE, FALSE).run = q /\ Job(q, k, TRUE, FALSE).capture = TRUE
          /\ Job(q, k, TRUE, FALSE).path = FALSE
          /\ q \in 0 .. MaxRuns => Job(q, k, TRUE, FALSE) \in Jobs
    BY JobType
  <2> QED
    BY <2>1, <2>2
<1>5. job'[p] = j /\ job' \in [Procs -> Jobs]
  BY <1>1, <1>4, Alone, Known
<1>6. scan'[p] = PruneThen("decide") /\ scan' \in [Procs -> Scans]
  BY <1>1, NothingType, Alone, Known
<1>7. pc'[p] \in {"scan", "decide"} /\ pc' \in [Procs -> Labels]
  BY <1>1, Alone, Known DEF Labels
<1> HIDE DEF r, j
<1>8. /\ dir' \in Seq(Files) /\ Tidy(dir', next) /\ EndsWith(dir', r)
      /\ \A q : HasFile(dir', "log", q) <=> HasFile(dir, "log", q) \/ q = r
  <2>1. dir' = [i \in DOMAIN dir |-> IF dir[i].run = r THEN File(r, "log") ELSE dir[i]]
    BY <1>1
  <2>2. dir \in Seq(Files) /\ r \in Runs /\ Tidy(dir, next) /\ EndsOpen(dir, r)
    BY <1>2, <1>3
  <2> QED
    BY ONLY <2>1, <2>2, RenamedType
<1>9. LogRuns' = LogRuns \cup {r} /\ Indexed' = Indexed
  BY <1>1, <1>2, <1>8, LogIs, Unwritten
<1>10. TypeOK'
  BY <1>1, <1>5, <1>6, <1>7, <1>8, Known DEF TypeOK
<1>11. job'[p].run = r /\ job'[p].capture = TRUE /\ job'[p].path = FALSE
  BY ONLY <1>4, <1>5
<1>12. /\ scan'[p].removed = {} /\ scan'[p].then = "decide"
       /\ rest[p] = NoRest /\ ToSet(rest[p].entries) = {}
  BY <1>1, <1>6, NothingType DEF TeeInv, PruneInv
<1>13. RunInv(p)'
  <2>0. next' = next /\ r = next - 1 /\ r # 0 /\ r \notin Indexed' /\ EndsWith(dir', r)
    BY <1>1, <1>2, <1>3, <1>8, <1>9
  <2>1. CASE pc'[p] = "scan"
    BY ONLY <1>11, <1>12, <2>0, <2>1 DEF RunInv, Here
  <2>2. CASE pc'[p] = "decide"
    BY ONLY <1>11, <2>0, <2>2 DEF RunInv, Here
  <2> QED
    BY <1>7, <2>1, <2>2
<1>14. PruneInv(p)'
  BY <1>1, <1>7, <1>9, <1>11, <1>12 DEF PruneInv
<1>15. EntryHasFile' /\ FileHasEntry'
  <2>1. scan[p].removed = {}
    BY <1>1 DEF TeeInv, PruneInv
  <2> QED
    BY <1>1, <1>9, <1>11, <1>12, <2>1, Belongs DEF TeeInv, r
<1> QED
  BY <1>1, <1>8, <1>9, <1>10, <1>13, <1>14, <1>15 DEF TeeInv

(* A dropped one leaves no file of its run.                                *)
LEMMA DropKeeps ==
  ASSUME NEW p, Procs = {p}, TeeInv(p), NEW exit \in {0, 1}, Drop(p, exit)
  PROVE  TeeInv(p)'
<1> DEFINE r == job[p].run
<1>1. /\ pc[p] = "capture" /\ Goto(p, "decide")
      /\ dir' = Without(dir, "partial", r) \/ dir' = dir
      /\ index' = index /\ next' = next /\ job' = job /\ scan' = scan
      /\ rest' = rest /\ excused' = excused
  BY DEF Drop
<1>2. r \in Runs /\ dir \in Seq(Files) /\ Tidy(dir, next)
  BY <1>1, Known, Current
<1>3. EndsOpen(dir, r) /\ r \notin LogRuns /\ ~job[p].capture
  BY <1>1, <1>2, Known DEF TeeInv, RunInv, Captures
<1>4. /\ dir' \in Seq(Files) /\ Tidy(dir', next)
      /\ \A q : HasFile(dir', "log", q) <=> HasFile(dir, "log", q)
  <2>1. CASE dir' = dir
    BY <1>2, <2>1
  <2>2. CASE dir' = Without(dir, "partial", r)
    <3>1. /\ dir' \in Seq(Files) /\ Tidy(dir', next)
          /\ \A k, q : HasFile(dir', k, q) <=> HasFile(dir, k, q) /\ (k # "partial" \/ q # r)
      BY <1>2, <2>2, WithoutType
    <3> QED
      BY ONLY <3>1
  <2> QED
    BY <1>1, <2>1, <2>2
<1>5. LogRuns' = LogRuns /\ Indexed' = Indexed
  BY <1>1, <1>2, <1>4, LogIs, Unwritten
<1>6. pc'[p] = "decide" /\ pc' \in [Procs -> Labels]
  BY <1>1, Alone, Known DEF Labels
<1>7. TypeOK'
  BY <1>1, <1>4, <1>6, Known DEF TypeOK
<1>8. RunInv(p)'
  BY <1>1, <1>3, <1>5, <1>6 DEF TeeInv, RunInv
<1>9. PruneInv(p)'
  BY <1>1, <1>5, <1>6 DEF TeeInv, PruneInv
<1>10. EntryHasFile' /\ FileHasEntry'
  BY <1>1, <1>5, Belongs DEF TeeInv
<1> QED
  BY <1>1, <1>4, <1>5, <1>7, <1>8, <1>9, <1>10 DEF TeeInv

(* A capture that is retained keeps its log, one that is not loses it      *)
(* unindexed.                                                              *)
LEMMA RetainKeeps ==
  ASSUME NEW p, Procs = {p}, TeeInv(p), Retain(p)
  PROVE  TeeInv(p)'
<1> DEFINE r == job[p].run
<1>1. PICK persist \in BOOLEAN :
        /\ job' = [job EXCEPT ![p] = Job(r, job[p].keep, TRUE, persist)]
        /\ IF persist \/ job[p].keep THEN UNCHANGED <<dir, excused>> ELSE RemoveLog(r)
  BY DEF Retain
<1>2. /\ pc[p] = "decide" /\ job[p].capture /\ Goto(p, "cleanup")
      /\ index' = index /\ next' = next /\ scan' = scan /\ rest' = rest
  BY DEF Retain
<1>3. /\ r \in Runs /\ r # 0 /\ r = next - 1 /\ r < next /\ dir \in Seq(Files) /\ Tidy(dir, next)
      /\ excused \in SUBSET Runs /\ LogRuns \in SUBSET Runs
  BY <1>2, Known, Current, Numbers
<1>4. EndsWith(dir, r) /\ r \notin Indexed /\ scan[p].removed = {} /\ rest[p] = NoRest
  BY <1>2, <1>3 DEF TeeInv, RunInv, PruneInv, Here
<1>5. /\ job'[p].run = r /\ job'[p].capture = TRUE /\ job'[p].path = persist
      /\ job' \in [Procs -> Jobs]
  <2>1. job[p].keep \in BOOLEAN /\ r \in 0 .. MaxRuns
    BY Current
  <2>2. \A q, k : k \in BOOLEAN =>
          /\ Job(q, k, TRUE, persist).run = q /\ Job(q, k, TRUE, persist).capture = TRUE
          /\ Job(q, k, TRUE, persist).path = persist
          /\ q \in 0 .. MaxRuns => Job(q, k, TRUE, persist) \in Jobs
    BY DEF Job, Jobs
  <2> HIDE DEF r
  <2>3. /\ Job(r, job[p].keep, TRUE, persist) \in Jobs
        /\ Job(r, job[p].keep, TRUE, persist).run = r
        /\ Job(r, job[p].keep, TRUE, persist).capture = TRUE
        /\ Job(r, job[p].keep, TRUE, persist).path = persist
    BY <2>1, <2>2
  <2>4. /\ job'[p] = Job(r, job[p].keep, TRUE, persist)
        /\ job' \in [Procs -> Jobs]
    BY <1>1, <2>3, Alone, Known
  <2> QED
    BY <2>3, <2>4
<1>6. pc'[p] = "cleanup" /\ pc' \in [Procs -> Labels]
  BY <1>2, Alone, Known DEF Labels
<1>7. \/ persist = TRUE /\ dir' = dir /\ excused' = excused
      \/ persist = FALSE /\ dir' = dir /\ excused' = excused
      \/ persist = FALSE /\ RemoveLog(r)
  BY <1>1
<1>8. Indexed' = Indexed
  BY <1>2, Unwritten
<1> HIDE DEF r
<1>9. /\ dir' \in Seq(Files) /\ Tidy(dir', next)
      /\ \/ LogRuns' = LogRuns /\ dir' = dir /\ excused' = excused
         \/ persist = FALSE /\ LogRuns' = LogRuns \ {r} /\ excused' = excused
         \/ persist = FALSE /\ LogRuns' = LogRuns /\ excused' = excused \cup {r}
  BY <1>3, <1>7, LogRemoved, Unwritten DEF RemoveLog
<1>10. excused' \in SUBSET Runs
  BY <1>3, <1>9
<1>11. TypeOK'
  BY <1>2, <1>5, <1>6, <1>9, <1>10, Known DEF TypeOK
<1>12. RunInv(p)'
  BY <1>2, <1>3, <1>4, <1>5, <1>6, <1>8, <1>9 DEF RunInv, Here
<1>13. PruneInv(p)'
  <2>1. scan'[p].removed = {} /\ rest'[p] = NoRest /\ ToSet(rest'[p].entries) = {}
    BY <1>2, <1>4, NothingType
  <2> QED
    BY <1>6, <2>1 DEF PruneInv
<1>14. EntryHasFile' /\ FileHasEntry'
  <2>1. /\ Indexed \subseteq excused \cup LogRuns \cup scan[p].removed
        /\ LogRuns \subseteq excused \cup Indexed \cup {r} \cup ToSet(rest[p].entries)
    BY Belongs DEF TeeInv, r
  <2>2. scan' = scan /\ rest' = rest /\ job'[p].run = r
    BY <1>2, <1>5
  <2> QED
    BY <1>4, <1>8, <1>9, <2>1, <2>2, Belongs
<1> QED
  BY <1>2, <1>8, <1>9, <1>11, <1>12, <1>13, <1>14 DEF TeeInv

(* What is written in place of a capture is a log before it is an entry.   *)
LEMMA DeferKeeps ==
  ASSUME NEW p, Procs = {p}, TeeInv(p), Defer(p) \/ DeferFails(p)
  PROVE  TeeInv(p)'
<1> DEFINE r == job[p].run
<1>1. /\ pc[p] = "decide" /\ ~job[p].capture
      /\ index' = index /\ next' = next /\ rest' = rest
  BY DEF Defer, DeferFails
<1>2. /\ r \in Runs /\ r # 0 /\ r = next - 1 /\ r < next /\ next \in Nat
      /\ dir \in Seq(Files) /\ Tidy(dir, next) /\ excused \in SUBSET Runs
  BY <1>1, Known, Current, Numbers
<1>3. /\ r \notin LogRuns /\ r \notin Indexed /\ ~job[p].path
      /\ scan[p].removed = {} /\ rest[p] = NoRest
  BY <1>1 DEF TeeInv, RunInv, PruneInv
<1>4. ~HasFile(dir, "log", r)
  BY <1>2, <1>3, Known
<1>5. Indexed' = Indexed
  BY <1>1, Unwritten
<1>6. /\ LogRuns \in SUBSET Runs /\ scan \in [Procs -> Scans] /\ job \in [Procs -> Jobs]
      /\ Indexed \subseteq excused \cup LogRuns \cup scan[p].removed
      /\ LogRuns \subseteq excused \cup Indexed \cup {r} \cup ToSet(rest[p].entries)
  BY Belongs, Known DEF TeeInv, TypeOK
<1>7. ASSUME dir' = Append(dir, File(r, "log"))
      PROVE  /\ dir' \in Seq(Files) /\ Tidy(dir', next) /\ EndsWith(dir', r)
             /\ LogRuns' = LogRuns \cup {r}
  <2> HIDE DEF r
  <2>1. /\ dir' \in Seq(Files) /\ Tidy(dir', next)
        /\ \A k, q : HasFile(dir', k, q) <=> HasFile(dir, k, q) \/ (k = "log" /\ q = r)
        /\ "log" = "log" => EndsWith(dir', r)
    BY ONLY <1>2, <1>4, <1>7, FileAdded
  <2> QED
    BY <1>2, <2>1, LogIs
<1>8. CASE /\ dir' = Append(dir, File(r, "log")) /\ excused' = excused
           /\ job' = [job EXCEPT ![p] = Job(r, job[p].keep, FALSE, TRUE)]
           /\ scan' = [scan EXCEPT ![p] = PruneThen("cleanup")] /\ Goto(p, "scan")
  <2>1. /\ job'[p].run = r /\ job'[p].capture = FALSE /\ job'[p].path = TRUE
        /\ job' \in [Procs -> Jobs]
    <3>1. job[p].keep \in BOOLEAN /\ r \in 0 .. MaxRuns
      BY Current
    <3>2. \A q, k : k \in BOOLEAN =>
            /\ Job(q, k, FALSE, TRUE).run = q /\ Job(q, k, FALSE, TRUE).capture = FALSE
            /\ Job(q, k, FALSE, TRUE).path = TRUE
            /\ q \in 0 .. MaxRuns => Job(q, k, FALSE, TRUE) \in Jobs
      BY JobType
    <3> HIDE DEF r
    <3>3. /\ Job(r, job[p].keep, FALSE, TRUE) \in Jobs
          /\ Job(r, job[p].keep, FALSE, TRUE).run = r
          /\ Job(r, job[p].keep, FALSE, TRUE).capture = FALSE
          /\ Job(r, job[p].keep, FALSE, TRUE).path = TRUE
      BY <3>1, <3>2
    <3>4. job'[p] = Job(r, job[p].keep, FALSE, TRUE) /\ job' \in [Procs -> Jobs]
      BY <1>8, <3>3, Alone, Known
    <3> QED
      BY <3>3, <3>4
  <2>2. /\ scan'[p] = PruneThen("cleanup") /\ scan' \in [Procs -> Scans]
        /\ scan'[p].removed = {} /\ scan'[p].then = "cleanup"
    BY <1>8, NothingType, Alone, Known
  <2>3. pc'[p] = "scan" /\ pc' \in [Procs -> Labels]
    BY <1>8, Alone, Known DEF Labels
  <2>4. /\ dir' \in Seq(Files) /\ Tidy(dir', next) /\ EndsWith(dir', r)
        /\ LogRuns' = LogRuns \cup {r}
    BY <1>7, <1>8
  <2>5. TypeOK'
    BY <1>1, <1>8, <2>1, <2>2, <2>3, <2>4, Known DEF TypeOK
  <2> HIDE DEF r
  <2>6. RunInv(p)'
    BY <1>1, <1>2, <1>3, <1>5, <2>1, <2>2, <2>3, <2>4 DEF RunInv, Here
  <2>7. rest'[p] = NoRest /\ ToSet(rest'[p].entries) = {} /\ rest' = rest
    BY <1>1, <1>3, NothingType
  <2>8. PruneInv(p)'
    BY <2>2, <2>3, <2>7 DEF PruneInv
  <2>9. EntryHasFile' /\ FileHasEntry'
    BY <1>3, <1>5, <1>6, <1>8, <2>1, <2>2, <2>4, <2>7, Belongs
  <2> QED
    BY <1>1, <1>5, <2>4, <2>5, <2>6, <2>8, <2>9 DEF TeeInv
<1>9. CASE /\ job' = job /\ scan' = scan /\ Goto(p, "cleanup")
           /\ \/ dir' = dir /\ excused' = excused
              \/ dir' = Append(dir, File(r, "log")) /\ excused' = excused \cup {r}
  <2>1. pc'[p] = "cleanup" /\ pc' \in [Procs -> Labels]
    BY <1>9, Alone, Known DEF Labels
  <2>2. /\ dir' \in Seq(Files) /\ Tidy(dir', next) /\ excused' \in SUBSET Runs
        /\ \/ LogRuns' = LogRuns /\ excused' = excused
           \/ LogRuns' = LogRuns \cup {r} /\ excused' = excused \cup {r}
    BY <1>2, <1>7, <1>9, Unwritten
  <2>3. TypeOK'
    BY <1>1, <1>9, <2>1, <2>2, Known DEF TypeOK
  <2>4. job'[p].run = r /\ ~job'[p].path /\ job' = job /\ scan' = scan
    BY <1>3, <1>9
  <2> HIDE DEF r
  <2>5. RunInv(p)'
    BY <1>1, <1>2, <1>3, <1>5, <2>1, <2>2, <2>4 DEF RunInv
  <2>6. rest'[p] = NoRest /\ ToSet(rest'[p].entries) = {} /\ rest' = rest
    BY <1>1, <1>3, NothingType
  <2>7. PruneInv(p)'
    BY <1>3, <2>1, <2>4, <2>6 DEF PruneInv
  <2>8. EntryHasFile' /\ FileHasEntry'
    BY <1>3, <1>5, <1>6, <2>2, <2>4, <2>6, Belongs
  <2> QED
    BY <1>1, <1>5, <2>2, <2>3, <2>5, <2>7, <2>8 DEF TeeInv
<1> QED
  BY <1>8, <1>9 DEF Defer, DeferFails

(* A capture that only session dedup wanted goes, and was never indexed.   *)
LEMMA CleanupKeeps ==
  ASSUME NEW p, Procs = {p}, TeeInv(p), Cleanup(p)
  PROVE  TeeInv(p)'
<1> DEFINE r == job[p].run
<1>1. /\ pc[p] = "cleanup" /\ index' = index /\ next' = next /\ job' = job
      /\ scan' = scan /\ rest' = rest
      /\ \/ job[p].path /\ Goto(p, "index") /\ dir' = dir /\ excused' = excused
         \/ ~job[p].path /\ job[p].capture /\ Goto(p, "show") /\ RemoveLog(r)
         \/ ~job[p].path /\ ~job[p].capture /\ Goto(p, "show") /\ dir' = dir
            /\ excused' = excused
  BY Current DEF Cleanup
<1>2. /\ r \in Runs /\ r # 0 /\ r = next - 1 /\ dir \in Seq(Files) /\ Tidy(dir, next)
      /\ excused \in SUBSET Runs /\ LogRuns \in SUBSET Runs
  BY <1>1, Known, Current, Numbers
<1>3. /\ r \notin Indexed /\ scan[p].removed = {} /\ rest[p] = NoRest
      /\ job[p].path => EndsWith(dir, r)
      /\ job[p].path \/ job[p].capture \/ r \notin LogRuns \/ r \in excused
  BY <1>1, <1>2 DEF TeeInv, RunInv, PruneInv, Here
<1>4. /\ Indexed \subseteq excused \cup LogRuns \cup scan[p].removed
      /\ LogRuns \subseteq excused \cup Indexed \cup {r} \cup ToSet(rest[p].entries)
  BY Belongs DEF TeeInv
<1>5. Indexed' = Indexed
  BY <1>1, Unwritten
<1>6. pc' \in [Procs -> Labels] /\ ((pc'[p] = "index" /\ job[p].path) \/ (pc'[p] = "show" /\ ~job[p].path))
  BY <1>1, Alone, Known DEF Labels
<1>7. job'[p].run = r /\ job'[p].path = job[p].path
  BY <1>1
<1> HIDE DEF r
<1>8. /\ dir' \in Seq(Files) /\ Tidy(dir', next) /\ excused' \in SUBSET Runs
      /\ \/ LogRuns' = LogRuns /\ excused' = excused /\ dir' = dir
            /\ (job[p].path \/ ~job[p].capture)
         \/ ~job[p].path /\ LogRuns' = LogRuns \ {r} /\ excused' = excused
         \/ ~job[p].path /\ LogRuns' = LogRuns /\ excused' = excused \cup {r}
  BY <1>1, <1>2, LogRemoved, Unwritten DEF RemoveLog
<1>9. TypeOK'
  BY <1>1, <1>6, <1>8, Known DEF TypeOK
<1>10. RunInv(p)'
  BY <1>1, <1>2, <1>3, <1>5, <1>6, <1>7, <1>8 DEF RunInv, Here
<1>11. rest'[p] = NoRest /\ ToSet(rest'[p].entries) = {} /\ scan'[p].removed = {}
  BY <1>1, <1>3, NothingType
<1>12. PruneInv(p)'
  BY <1>6, <1>11 DEF PruneInv
<1>13. EntryHasFile' /\ FileHasEntry'
  BY <1>1, <1>3, <1>4, <1>5, <1>7, <1>8, Belongs
<1> QED
  BY <1>1, <1>5, <1>8, <1>9, <1>10, <1>12, <1>13 DEF TeeInv

(* The entry is added while the file is there.                             *)
LEMMA IndexKeeps ==
  ASSUME NEW p, Procs = {p}, TeeInv(p), Index(p)
  PROVE  TeeInv(p)'
<1> DEFINE r == job[p].run
<1>1. /\ pc[p] = "index" /\ index' = Appended(index, r) /\ Goto(p, "show")
      /\ excused' = IF Last(index') = Torn THEN excused \cup {r} ELSE excused
      /\ dir' = dir /\ next' = next /\ job' = job /\ scan' = scan /\ rest' = rest
  BY DEF Index
<1>2. /\ r \in Runs /\ r # 0 /\ r = next - 1 /\ r < next /\ index \in Seq(Lines)
      /\ excused \in SUBSET Runs /\ Torn \notin Runs
  BY <1>1, Known, Current, Numbers
<1>3. /\ job[p].path /\ EndsWith(dir, r) /\ scan[p].removed = {} /\ rest[p] = NoRest
      /\ Indexed \subseteq excused \cup LogRuns \cup scan[p].removed
      /\ LogRuns \subseteq excused \cup Indexed \cup {r} \cup ToSet(rest[p].entries)
  BY <1>1, <1>2, Belongs DEF TeeInv, RunInv, PruneInv, Here
<1>4. r \in LogRuns /\ LogRuns' = LogRuns
  BY <1>1, <1>2, <1>3, Known, Unwritten
<1>5. pc'[p] = "show" /\ pc' \in [Procs -> Labels]
  BY <1>1, Alone, Known DEF Labels
<1> HIDE DEF r
<1>6. /\ index' \in Seq(Lines) /\ excused' \in SUBSET Runs
      /\ \/ Indexed' = Indexed \cup {r} /\ excused' = excused
         \/ Indexed' = Indexed /\ excused' = excused \cup {r}
  <2>1. /\ index' \in Seq(Lines) /\ Last(index') \in {r, Torn}
        /\ ToSet(index') \cap Runs = IF Last(index') = Torn THEN ToSet(index) \cap Runs
                                     ELSE (ToSet(index) \cup {r}) \cap Runs
    BY <1>1, <1>2, AppendedType
  <2> QED
    BY <1>1, <1>2, <2>1 DEF Indexed
<1>7. TypeOK'
  BY <1>1, <1>5, <1>6, Known DEF TypeOK
<1>8. job'[p].run = r /\ job'[p].path
  BY <1>1, <1>3 DEF r
<1>9. RunInv(p)'
  BY <1>1, <1>2, <1>3, <1>4, <1>5, <1>6, <1>8 DEF RunInv, Here
<1>10. PruneInv(p)'
  BY <1>1, <1>3, <1>5, NothingType DEF PruneInv
<1>11. EntryHasFile' /\ FileHasEntry'
  BY <1>1, <1>3, <1>4, <1>6, <1>8, Belongs
<1>12. \A q \in Indexed' : q < next'
  BY <1>1, <1>2, <1>6, Known
<1>13. Tidy(dir', next')
  BY <1>1, Known
<1> QED
  BY <1>7, <1>9, <1>10, <1>11, <1>12, <1>13 DEF TeeInv

(* An entry that cannot be added excuses its run.                          *)
LEMMA IndexFailsKeeps ==
  ASSUME NEW p, Procs = {p}, TeeInv(p), IndexFails(p)
  PROVE  TeeInv(p)'
<1> DEFINE r == job[p].run
<1>1. /\ pc[p] = "index" /\ index' \in {index, Appended(index, Cut)} /\ Goto(p, "show")
      /\ excused' = excused \cup {r}
      /\ dir' = dir /\ next' = next /\ job' = job /\ scan' = scan /\ rest' = rest
  BY DEF IndexFails
<1>2. /\ r \in Runs /\ r # 0 /\ r = next - 1 /\ index \in Seq(Lines)
      /\ excused \in SUBSET Runs /\ Cut \notin Runs
  BY <1>1, Known, Current, Numbers
<1>3. /\ job[p].path /\ EndsWith(dir, r) /\ scan[p].removed = {} /\ rest[p] = NoRest
      /\ Indexed \subseteq excused \cup LogRuns \cup scan[p].removed
      /\ LogRuns \subseteq excused \cup Indexed \cup {r} \cup ToSet(rest[p].entries)
  BY <1>1, <1>2, Belongs DEF TeeInv, RunInv, PruneInv, Here
<1>4. LogRuns' = LogRuns /\ excused' \in SUBSET Runs
  BY <1>1, <1>2, Unwritten
<1>5. pc'[p] = "show" /\ pc' \in [Procs -> Labels]
  BY <1>1, Alone, Known DEF Labels
<1> HIDE DEF r
<1>6. index' \in Seq(Lines) /\ Indexed' = Indexed
  <2>1. CASE index' = index
    BY <1>2, <2>1, Unwritten
  <2>2. CASE index' = Appended(index, Cut)
    <3>1. /\ index' \in Seq(Lines)
          /\ ToSet(index') \cap Runs = IF Last(index') = Torn THEN ToSet(index) \cap Runs
                                       ELSE (ToSet(index) \cup {Cut}) \cap Runs
      BY ONLY <1>2, <2>2, Cut \in Runs \cup {Cut}, AppendedType
    <3> QED
      BY <1>2, <3>1 DEF Indexed
  <2> QED
    BY <1>1, <2>1, <2>2
<1>7. TypeOK'
  BY <1>1, <1>4, <1>5, <1>6, Known DEF TypeOK
<1>8. job'[p].run = r /\ job'[p].path
  BY <1>1, <1>3 DEF r
<1>9. RunInv(p)'
  BY <1>1, <1>2, <1>3, <1>4, <1>5, <1>6, <1>8 DEF RunInv, Here
<1>10. PruneInv(p)'
  BY <1>1, <1>3, <1>5, NothingType DEF PruneInv
<1>11. EntryHasFile' /\ FileHasEntry'
  BY <1>1, <1>3, <1>4, <1>6, <1>8, Belongs
<1>12. (\A q \in Indexed' : q < next') /\ Tidy(dir', next')
  BY <1>1, <1>6, Known
<1> QED
  BY <1>7, <1>9, <1>10, <1>11, <1>12 DEF TeeInv

(* Showing a path changes no file.                                         *)
LEMMA ShowKeeps ==
  ASSUME NEW p, Procs = {p}, TeeInv(p), Show(p)
  PROVE  TeeInv(p)'
<1> DEFINE r == job[p].run
<1>1. /\ pc[p] = "show" /\ Goto(p, "idle") /\ job' = [job EXCEPT ![p] = NoJob]
      /\ dir' = dir /\ index' = index /\ next' = next /\ scan' = scan /\ rest' = rest
      /\ excused' = excused
  BY DEF Show
<1>2. /\ r \in LogRuns => r \in Indexed \cup excused
      /\ scan[p].removed = {} /\ rest[p] = NoRest /\ ToSet(rest[p].entries) = {}
      /\ Indexed \subseteq excused \cup LogRuns \cup scan[p].removed
      /\ LogRuns \subseteq excused \cup Indexed \cup {r} \cup ToSet(rest[p].entries)
  BY <1>1, Belongs, NothingType DEF TeeInv, RunInv, PruneInv
<1>3. /\ pc'[p] = "idle" /\ pc' \in [Procs -> Labels]
      /\ job'[p] = NoJob /\ job' \in [Procs -> Jobs] /\ job'[p].run = 0
  BY <1>1, Alone, Known, NothingType DEF Labels
<1>4. LogRuns' = LogRuns /\ Indexed' = Indexed /\ 0 \notin Indexed
  BY <1>1, Unwritten, Known, Numbers
<1> HIDE DEF r
<1>5. TypeOK'
  BY <1>1, <1>3, Known DEF TypeOK
<1>6. RunInv(p)'
  BY <1>3, <1>4 DEF RunInv
<1>7. PruneInv(p)'
  BY <1>1, <1>2, <1>3 DEF PruneInv
<1>8. EntryHasFile' /\ FileHasEntry'
  BY <1>1, <1>2, <1>3, <1>4, Belongs
<1>9. (\A q \in Indexed' : q < next') /\ Tidy(dir', next')
  BY <1>1, <1>4, Known
<1> QED
  BY <1>5, <1>6, <1>7, <1>8, <1>9 DEF TeeInv

(* A process dies, and is excused what it was at. *)
LEMMA CrashKeeps ==
  ASSUME NEW p, Procs = {p}, TeeInv(p), Crash(p)
  PROVE  TeeInv(p)'
<1> DEFINE r == job[p].run
           lines == ToSet(rest[p].entries)
<1>1. /\ Goto(p, "idle") /\ job' = [job EXCEPT ![p] = NoJob]
      /\ scan' = [scan EXCEPT ![p] = NoScan] /\ rest' = [rest EXCEPT ![p] = NoRest]
      /\ excused' = excused \cup ({r} \cap Runs) \cup scan[p].removed \cup lines
      /\ dir' = dir /\ index' = index /\ next' = next
  BY DEF Crash
<1>2. /\ excused \in SUBSET Runs /\ scan[p].removed \in SUBSET Runs /\ lines \in SUBSET Runs
      /\ LogRuns \in SUBSET Runs
      /\ Indexed \subseteq excused \cup LogRuns \cup scan[p].removed
      /\ LogRuns \subseteq excused \cup Indexed \cup {r} \cup lines
  BY Belongs, Known, Current, Fields DEF TeeInv
<1>3. /\ pc'[p] = "idle" /\ pc' \in [Procs -> Labels]
      /\ job'[p] = NoJob /\ job' \in [Procs -> Jobs] /\ job'[p].run = 0
      /\ scan'[p] = NoScan /\ scan' \in [Procs -> Scans] /\ scan'[p].removed = {}
      /\ rest'[p] = NoRest /\ rest' \in [Procs -> Rests] /\ ToSet(rest'[p].entries) = {}
  BY <1>1, Alone, Known, NothingType DEF Labels
<1>4. LogRuns' = LogRuns /\ Indexed' = Indexed /\ 0 \notin Indexed
  BY <1>1, Unwritten, Known, Numbers
<1> HIDE DEF r, lines
<1>5. TypeOK'
  BY <1>1, <1>2, <1>3, Known DEF TypeOK
<1>6. RunInv(p)'
  BY <1>3, <1>4 DEF RunInv
<1>7. PruneInv(p)'
  BY <1>3 DEF PruneInv
<1>8. EntryHasFile' /\ FileHasEntry'
  BY <1>1, <1>2, <1>3, <1>4, Belongs
<1>9. (\A q \in Indexed' : q < next') /\ Tidy(dir', next')
  BY <1>1, <1>4, Known
<1> QED
  BY <1>5, <1>6, <1>7, <1>8, <1>9 DEF TeeInv

-----------------------------------------------------------------------------
(* The steps of a pruning. *)

(* A pruning is over, in whichever way.                                    *)
LEMMA DoneKeeps ==
  ASSUME NEW p, Procs = {p}
  PROVE  /\ TeeInv(p) /\ ScanDone(p)
         /\ pc[p] \in {"scan", "prune", "drop", "truncate", "replace", "sweep"}
         /\ dir' = dir /\ next' = next /\ job' = job
         /\ index' \in Seq(Lines) /\ Indexed' = Indexed
         /\ excused' \in SUBSET Runs /\ excused \subseteq excused'
         /\ scan[p].removed \cap Indexed \subseteq excused' \cup LogRuns
         /\ ToSet(rest[p].entries) \subseteq excused' \cup Indexed
         => TeeInv(p)'
<1> SUFFICES ASSUME TeeInv(p), ScanDone(p),
                    pc[p] \in {"scan", "prune", "drop", "truncate", "replace", "sweep"},
                    dir' = dir /\ next' = next /\ job' = job,
                    index' \in Seq(Lines), Indexed' = Indexed,
                    excused' \in SUBSET Runs, excused \subseteq excused',
                    scan[p].removed \cap Indexed \subseteq excused' \cup LogRuns,
                    ToSet(rest[p].entries) \subseteq excused' \cup Indexed
             PROVE  TeeInv(p)'
  OBVIOUS
<1> DEFINE r == job[p].run
<1>1. /\ scan'[p] = NoScan /\ rest'[p] = NoRest /\ pc'[p] = scan[p].then
      /\ scan' \in [Procs -> Scans] /\ rest' \in [Procs -> Rests] /\ pc' \in [Procs -> Labels]
      /\ scan'[p].removed = {} /\ ToSet(rest'[p].entries) = {}
  BY DoneType, Known, NothingType
<1>2. /\ Indexed \subseteq excused \cup LogRuns \cup scan[p].removed
      /\ LogRuns \subseteq excused \cup Indexed \cup {r} \cup ToSet(rest[p].entries)
  BY Belongs DEF TeeInv
<1>3. LogRuns' = LogRuns
  BY Unwritten
<1>4. TypeOK'
  BY <1>1, Known DEF TypeOK
<1>5. RunInv(p)'
  <2>1. /\ r # 0 => r = next - 1
        /\ IF r = 0 THEN scan[p].then = "idle"
           ELSE /\ EndsWith(dir, r)
                /\ scan[p].then = IF job[p].path THEN "cleanup" ELSE "decide"
                /\ job[p].capture # job[p].path
        /\ r \notin Indexed /\ job[p].capture \in BOOLEAN /\ job[p].path \in BOOLEAN
    BY Current DEF TeeInv, RunInv, Here
  <2>2. CASE r = 0
    BY <1>1, <2>1, <2>2 DEF RunInv
  <2>3. CASE r # 0
    <3>1. CASE job[p].path = TRUE
      BY <1>1, <2>1, <2>3, <3>1 DEF RunInv, Here
    <3>2. CASE job[p].path = FALSE
      <4>1. job[p].capture /\ pc'[p] = "decide"
        BY <1>1, <2>1, <2>3, <3>2
      <4> QED
        BY <2>1, <2>3, <3>2, <4>1 DEF RunInv, Here
    <3> QED
      BY <2>1, <3>1, <3>2
  <2> QED
    BY <2>2, <2>3
<1>6. PruneInv(p)'
  <2>1. pc'[p] \in {"idle", "decide", "cleanup"}
    BY <1>1, Current, Fields
  <2> QED
    BY <1>1, <2>1 DEF PruneInv
<1>7. EntryHasFile' /\ FileHasEntry'
  <2>1. Indexed \subseteq excused' \cup LogRuns
    BY <1>2
  <2>2. LogRuns \subseteq excused' \cup Indexed \cup {r}
    BY <1>2
  <2>3. job'[p].run = r
    OBVIOUS
  <2> HIDE DEF r
  <2> QED
    BY <1>1, <1>3, <2>1, <2>2, <2>3, Belongs
<1>8. (\A q \in Indexed' : q < next') /\ Tidy(dir', next')
  BY Known
<1> QED
  BY <1>4, <1>5, <1>6, <1>7, <1>8 DEF TeeInv

(* A scan removes stale partial files, which nothing names.                *)
LEMMA ScanKeeps ==
  ASSUME NEW p, Procs = {p}, TeeInv(p), Scan(p)
  PROVE  TeeInv(p)'
<1> DEFINE r == job[p].run
           todo == OldestTeeArtifacts(Logs)
           s == Pruning(todo, Len(Logs), TotalBytes(Logs), {}, FALSE, scan[p].then)
<1>1. PICK stay \in SUBSET {f \in ToSet(dir) : f.stale} :
        dir' = Fresh(dir, stay)
  BY DEF Scan, Fresh
<1>2. /\ pc[p] = "scan" /\ scan' = [scan EXCEPT ![p] = s] /\ Goto(p, "prune")
      /\ index' = index /\ next' = next /\ job' = job /\ rest' = rest /\ excused' = excused
  BY DEF Scan
<1>3. /\ r \in Runs /\ r # 0 /\ r = next - 1 /\ dir \in Seq(Files) /\ Tidy(dir, next)
  BY <1>2, Known, Current, Numbers
<1>4. /\ EndsWith(dir, r) /\ r \notin Indexed /\ rest[p] = NoRest
      /\ scan[p].then = IF job[p].path THEN "cleanup" ELSE "decide"
      /\ job[p].capture # job[p].path /\ scan[p].removed = {}
      /\ Indexed \subseteq excused \cup LogRuns \cup scan[p].removed
      /\ LogRuns \subseteq excused \cup Indexed \cup {r} \cup ToSet(rest[p].entries)
  BY <1>2, <1>3, Belongs DEF TeeInv, RunInv, PruneInv, Here
<1>5. /\ dir' \in Seq(Files) /\ Tidy(dir', next)
      /\ \A q : HasFile(dir', "log", q) <=> HasFile(dir, "log", q)
      /\ \A q \in Runs : EndsWith(dir, q) => EndsWith(dir', q)
  BY ONLY <1>1, <1>3, ScannedType
<1>6. LogRuns' = LogRuns /\ Indexed' = Indexed
  BY <1>2, <1>3, <1>5, LogIs, Unwritten
<1>7. todo \in Seq(Runs) /\ r \notin ToSet(todo)
  <2>1. Logs \in Seq(Runs) /\ Logs # <<>> /\ todo = Front(Logs) /\ r \notin ToSet(todo)
    BY <1>3, <1>4, NewestSpared, LogsType DEF Here
  <2> QED
    BY <2>1, FrontType
<1>8. Len(Logs) \in Int /\ TotalBytes(Logs) \in Int
  <2>1. Logs \in Seq(Runs)
    BY <1>3, LogsType
  <2>2. TotalBytes(Logs) \in Nat /\ Len(Logs) \in Nat
    BY ONLY <2>1, SizesType
  <2> QED
    BY <2>2
<1>9. s \in Scans /\ s.todo = todo /\ s.removed = {} /\ s.then = scan[p].then
  <2>1. scan[p].then \in {"idle", "decide", "cleanup"}
    BY Current, Fields
  <2> HIDE DEF todo
  <2> QED
    BY <1>7, <1>8, <2>1 DEF Pruning, Scans
<1>10. scan'[p] = s /\ scan' \in [Procs -> Scans]
  <2> HIDE DEF s
  <2> QED
    BY <1>2, <1>9, Alone, Known
<1>11. pc'[p] = "prune" /\ pc' \in [Procs -> Labels]
  BY <1>2, Alone, Known DEF Labels
<1> HIDE DEF s, todo
<1>12. TypeOK'
  BY <1>2, <1>5, <1>10, <1>11, Known DEF TypeOK
<1>13. scan'[p].removed = {} /\ scan'[p].then = scan[p].then /\ scan'[p].todo = todo
  BY <1>9, <1>10
<1>14. RunInv(p)'
  <2>1. next' = next /\ job' = job /\ EndsWith(dir', r)
    BY <1>2, <1>3, <1>4, <1>5
  <2> QED
    BY ONLY <1>3, <1>4, <1>6, <1>11, <1>13, <2>1 DEF RunInv, Here
<1>15. PruneInv(p)'
  <2>1. rest'[p] = NoRest /\ ToSet(rest'[p].entries) = {} /\ job'[p].run = r
    BY <1>2, <1>4, NothingType
  <2> QED
    BY <1>7, <1>11, <1>13, <2>1 DEF PruneInv
<1>16. EntryHasFile' /\ FileHasEntry'
  BY <1>2, <1>4, <1>6, <1>13, Belongs
<1>17. (\A q \in Indexed' : q < next') /\ Tidy(dir', next')
  BY <1>2, <1>5, <1>6, Known
<1> QED
  BY <1>12, <1>14, <1>15, <1>16, <1>17 DEF TeeInv

(* A scan that fails removes nothing.                                      *)
LEMMA ScanFailsKeeps ==
  ASSUME NEW p, Procs = {p}, TeeInv(p), ScanFails(p)
  PROVE  TeeInv(p)'
<1>1. /\ pc[p] = "scan" /\ ScanDone(p)
      /\ dir' = dir /\ index' = index /\ next' = next /\ job' = job /\ excused' = excused
  BY DEF ScanFails
<1>2. scan[p].removed = {} /\ ToSet(rest[p].entries) = {}
  BY <1>1, NothingType DEF TeeInv, PruneInv
<1>3. /\ index' \in Seq(Lines) /\ Indexed' = Indexed /\ excused' \in SUBSET Runs
  BY <1>1, Known, Unwritten
<1> QED
  BY <1>1, <1>2, <1>3, DoneKeeps

(* A log that is removed is among those whose entries go next.             *)
LEMMA RemoveExcessKeeps ==
  ASSUME NEW p, Procs = {p}, TeeInv(p), RemoveExcess(p)
  PROVE  TeeInv(p)'
<1> DEFINE r == job[p].run
           s == scan[p]
           h == Head(s.todo)
           gone == Pruning(Tail(s.todo), s.count - 1, s.bytes - SizeOf[h], s.removed \cup {h},
                           s.stuck, s.then)
           stays == Pruning(Tail(s.todo), s.count, s.bytes, s.removed, TRUE, s.then)
<1>1. /\ pc[p] = "prune" /\ s.todo # <<>>
      /\ \/ dir' = Without(dir, "log", h) /\ scan' = [scan EXCEPT ![p] = gone]
         \/ dir' = dir /\ scan' = [scan EXCEPT ![p] = stays]
      /\ index' = index /\ next' = next /\ pc' = pc /\ job' = job /\ rest' = rest
      /\ excused' = excused
  BY DEF RemoveExcess, Enough
<1>2. /\ r \in Runs /\ r # 0 /\ r = next - 1 /\ dir \in Seq(Files) /\ Tidy(dir, next)
      /\ s.todo \in Seq(Runs) /\ s.count \in Int /\ s.bytes \in Int /\ s.removed \in SUBSET Runs
      /\ s.stuck \in BOOLEAN /\ s.then \in {"idle", "decide", "cleanup"}
  BY <1>1, Known, Current, Fields, Numbers
<1>3. /\ EndsWith(dir, r) /\ r \notin Indexed /\ rest[p] = NoRest
      /\ s.then = IF job[p].path THEN "cleanup" ELSE "decide"
      /\ job[p].capture # job[p].path
      /\ r \notin ToSet(s.todo) /\ s.removed \cap LogRuns = {}
      /\ Indexed \subseteq excused \cup LogRuns \cup s.removed
      /\ LogRuns \subseteq excused \cup Indexed \cup {r} \cup ToSet(rest[p].entries)
  BY <1>1, <1>2, Belongs DEF TeeInv, RunInv, PruneInv, Here
<1>4. /\ Tail(s.todo) \in Seq(Runs) /\ h \in Runs /\ h # r /\ r \notin ToSet(Tail(s.todo))
      /\ SizeOf[h] \in Nat
  <2>1. /\ Tail(s.todo) \in Seq(Runs) /\ h \in Runs
        /\ ToSet(s.todo) = {h} \cup ToSet(Tail(s.todo))
    BY <1>1, <1>2, TailType
  <2> QED
    BY <1>3, <2>1, Numbers
<1>5. /\ gone \in Scans /\ gone.todo = Tail(s.todo) /\ gone.removed = s.removed \cup {h}
      /\ gone.then = s.then
      /\ stays \in Scans /\ stays.todo = Tail(s.todo) /\ stays.removed = s.removed
      /\ stays.then = s.then
  <2>1. s.count - 1 \in Int /\ s.bytes - SizeOf[h] \in Int /\ s.removed \cup {h} \in SUBSET Runs
    BY <1>2, <1>4
  <2> HIDE DEF h, s
  <2> QED
    BY <1>2, <1>4, <2>1 DEF Pruning, Scans
<1>6. /\ scan' \in [Procs -> Scans] /\ scan'[p].todo = Tail(s.todo) /\ scan'[p].then = s.then
      /\ scan'[p] \in {gone, stays}
      /\ \/ dir' = Without(dir, "log", h) /\ scan'[p].removed = s.removed \cup {h}
         \/ dir' = dir /\ scan'[p].removed = s.removed
  <2> HIDE DEF gone, stays, s, h
  <2>1. CASE dir' = Without(dir, "log", h) /\ scan' = [scan EXCEPT ![p] = gone]
    <3>1. scan'[p] = gone /\ scan' \in [Procs -> Scans]
      BY <1>5, <2>1, Alone, Known
    <3> QED
      BY <1>5, <2>1, <3>1
  <2>2. CASE dir' = dir /\ scan' = [scan EXCEPT ![p] = stays]
    <3>1. scan'[p] = stays /\ scan' \in [Procs -> Scans]
      BY <1>5, <2>2, Alone, Known
    <3> QED
      BY <1>5, <2>2, <3>1
  <2> QED
    BY <1>1, <2>1, <2>2
<1> HIDE DEF gone, stays, h
<1>7. /\ dir' \in Seq(Files) /\ Tidy(dir', next) /\ EndsWith(dir', r)
      /\ \/ LogRuns' = LogRuns \ {h} /\ scan'[p].removed = s.removed \cup {h}
         \/ LogRuns' = LogRuns /\ scan'[p].removed = s.removed
  BY <1>2, <1>3, <1>4, <1>6, LogRemoved, Unwritten
<1>8. Indexed' = Indexed /\ rest'[p] = NoRest /\ ToSet(rest'[p].entries) = {}
  BY <1>1, <1>3, Unwritten, NothingType
<1>9. TypeOK'
  BY <1>1, <1>6, <1>7, Known DEF TypeOK
<1>10. RunInv(p)'
  <2>1. next' = next /\ job' = job /\ pc'[p] = "prune"
    BY <1>1
  <2> QED
    BY ONLY <1>2, <1>3, <1>6, <1>7, <1>8, <2>1 DEF RunInv, Here
<1>11. scan'[p].removed \cap LogRuns' = {}
  BY <1>3, <1>7
<1>12. PruneInv(p)'
  BY <1>1, <1>4, <1>6, <1>8, <1>11 DEF PruneInv
<1>13. EntryHasFile' /\ FileHasEntry'
  <2>1. Indexed \subseteq excused \cup LogRuns' \cup scan'[p].removed
    BY <1>3, <1>7
  <2>2. LogRuns' \subseteq excused \cup Indexed \cup {r}
    BY <1>3, <1>7, NothingType
  <2>3. job'[p].run = r /\ excused' = excused
    BY <1>1
  <2> QED
    BY <1>8, <2>1, <2>2, <2>3, Belongs
<1>14. (\A q \in Indexed' : q < next') /\ Tidy(dir', next')
  BY <1>1, <1>7, <1>8, Known
<1> QED
  BY <1>9, <1>10, <1>12, <1>13, <1>14 DEF TeeInv

(* A pruning that is done goes on to the index.                            *)
LEMMA PrunedKeeps ==
  ASSUME NEW p, Procs = {p}, TeeInv(p), Pruned(p)
  PROVE  TeeInv(p)'
<1>1. /\ pc[p] = "prune" /\ dir' = dir /\ index' = index /\ next' = next /\ job' = job
      /\ excused' = excused
  BY DEF Pruned
<1>2. LogRuns' = LogRuns /\ Indexed' = Indexed
  BY <1>1, Unwritten
<1>3. CASE scan[p].removed = {} /\ ScanDone(p)
  <2>1. ToSet(rest[p].entries) = {}
    BY <1>1, NothingType DEF TeeInv, PruneInv
  <2>2. index' \in Seq(Lines) /\ excused' \in SUBSET Runs
    BY <1>1, Known
  <2> QED
    BY <1>1, <1>2, <1>3, <2>1, <2>2, DoneKeeps
<1>4. CASE Goto(p, "drop") /\ UNCHANGED <<scan, rest>>
  <2>1. pc'[p] = "drop" /\ pc' \in [Procs -> Labels]
    BY <1>4, Alone, Known DEF Labels
  <2>2. TypeOK' /\ (\A q \in Indexed' : q < next') /\ Tidy(dir', next')
    BY <1>1, <1>2, <1>4, <2>1, Known DEF TypeOK
  <2>3. RunInv(p)'
    BY <1>1, <1>2, <1>4, <2>1 DEF TeeInv, RunInv, Here
  <2>4. PruneInv(p)'
    BY <1>1, <1>2, <1>4, <2>1 DEF TeeInv, PruneInv
  <2>5. EntryHasFile' /\ FileHasEntry'
    BY <1>1, <1>2, <1>4, Belongs DEF TeeInv
  <2> QED
    BY <2>2, <2>3, <2>4, <2>5 DEF TeeInv
<1> QED
  BY <1>3, <1>4 DEF Pruned

(* The entries of removed logs are left out of what is written back.       *)
LEMMA DropEntriesKeeps ==
  ASSUME NEW p, Procs = {p}, TeeInv(p), DropEntries(p)
  PROVE  TeeInv(p)'
<1> DEFINE removed == scan[p].removed
           kept == Survivors(Entries, removed)
<1>1. /\ pc[p] = "drop" /\ dir' = dir /\ index' = index /\ next' = next /\ job' = job
      /\ excused' = excused
  BY DEF DropEntries
<1>2. LogRuns' = LogRuns /\ Indexed' = Indexed
  BY <1>1, Unwritten
<1>3. CASE Indexed \cap removed = {} /\ ScanDone(p)
  <2>1. ToSet(rest[p].entries) = {}
    BY <1>1, NothingType DEF TeeInv, PruneInv
  <2>2. index' \in Seq(Lines) /\ excused' \in SUBSET Runs
    BY <1>1, Known
  <2> QED
    BY <1>1, <1>2, <1>3, <2>1, <2>2, DoneKeeps
<1>4. CASE rest' = [rest EXCEPT ![p] = Rest(kept, 0)] /\ Goto(p, "truncate") /\ scan' = scan
  <2>1. kept \in Seq(Runs) /\ ToSet(kept) = Indexed \ removed
    BY Known, EntriesType, SurvivorsType
  <2> HIDE DEF kept
  <2>2. Rest(kept, 0) \in Rests /\ Rest(kept, 0).entries = kept /\ Rest(kept, 0).at = 0
    BY <2>1, RestType
  <2>3. rest'[p] = Rest(kept, 0) /\ rest' \in [Procs -> Rests]
    BY <1>4, <2>2, Alone, Known
  <2>4. rest'[p].entries = kept /\ rest'[p].at = 0 /\ ToSet(rest'[p].entries) = Indexed \ removed
    BY <2>1, <2>2, <2>3
  <2>5. pc'[p] = "truncate" /\ pc' \in [Procs -> Labels]
    BY <1>4, Alone, Known DEF Labels
  <2>6. TypeOK' /\ (\A q \in Indexed' : q < next') /\ Tidy(dir', next')
    BY <1>1, <1>2, <1>4, <2>3, <2>5, Known DEF TypeOK
  <2>7. RunInv(p)'
    BY <1>1, <1>2, <1>4, <2>5 DEF TeeInv, RunInv, Here
  <2>8. PruneInv(p)'
    <3>1. job[p].run \notin Indexed /\ removed \cap LogRuns = {}
      BY <1>1 DEF TeeInv, RunInv, PruneInv
    <3>2. \A q \in Indexed : q < next
      BY Known
    <3>3. scan'[p].removed = removed /\ job'[p].run = job[p].run /\ next' = next
      BY <1>1, <1>4
    <3> QED
      BY <1>2, <2>4, <2>5, <3>1, <3>2, <3>3 DEF PruneInv
  <2>9. EntryHasFile' /\ FileHasEntry'
    <3>1. /\ Indexed \subseteq excused \cup LogRuns \cup removed
          /\ LogRuns \subseteq excused \cup Indexed \cup {job[p].run} \cup ToSet(rest[p].entries)
          /\ ToSet(rest[p].entries) = {}
      BY <1>1, Belongs, NothingType DEF TeeInv, PruneInv
    <3> QED
      BY <1>1, <1>2, <1>4, <2>4, <3>1, Belongs
  <2> QED
    BY <2>6, <2>7, <2>8, <2>9 DEF TeeInv
<1> QED
  BY <1>3, <1>4 DEF DropEntries

(* While the index is truncated the process holds its entries.             *)
LEMMA TruncateKeeps ==
  ASSUME NEW p, Procs = {p}, TeeInv(p), Truncate(p)
  PROVE  TeeInv(p)'
<1> DEFINE r == job[p].run
           removed == scan[p].removed
           lines == ToSet(rest[p].entries)
<1>1. /\ pc[p] = "truncate" /\ index' = <<>> /\ Goto(p, "replace")
      /\ dir' = dir /\ next' = next /\ job' = job /\ scan' = scan /\ rest' = rest
      /\ excused' = excused
  BY DEF Truncate
<1>2. index' \in Seq(Lines) /\ Len(index') = 0 /\ ToSet(index') = {} /\ Indexed' = {}
  BY <1>1, EmptyType DEF Indexed
<1>3. LogRuns' = LogRuns
  BY <1>1, Unwritten
<1>4. pc'[p] = "replace" /\ pc' \in [Procs -> Labels]
  BY <1>1, Alone, Known DEF Labels
<1>5. /\ removed \cap LogRuns = {} /\ lines = Indexed \ removed /\ rest[p].at = 0
      /\ \A q \in lines : q < next /\ q # r
      /\ Indexed \subseteq excused \cup LogRuns \cup removed
      /\ LogRuns \subseteq excused \cup Indexed \cup {r} \cup lines
  BY <1>1, Belongs DEF TeeInv, PruneInv
<1>6. TypeOK' /\ (\A q \in Indexed' : q < next') /\ Tidy(dir', next')
  BY <1>1, <1>2, <1>4, Known DEF TypeOK
<1>7. RunInv(p)'
  <2>1. /\ r # 0 => r = next - 1
        /\ IF r = 0 THEN scan[p].then = "idle"
           ELSE /\ EndsWith(dir, r)
                /\ scan[p].then = IF job[p].path THEN "cleanup" ELSE "decide"
                /\ job[p].capture # job[p].path
    BY <1>1 DEF TeeInv, RunInv, Here
  <2> QED
    BY <1>1, <1>2, <1>4, <2>1 DEF RunInv, Here
<1>8. PruneInv(p)'
  <2>1. rest'[p].at = Len(index') /\ ToSet(index') \subseteq Runs
    BY <1>1, <1>2, <1>5
  <2>2. (Indexed' \cup lines) \cap removed = {} /\ lines \subseteq excused' \cup LogRuns'
    BY <1>1, <1>2, <1>3, <1>5
  <2>3. rest' = rest /\ scan' = scan /\ job' = job /\ next' = next
    BY <1>1
  <2> QED
    BY <1>3, <1>4, <1>5, <2>1, <2>2, <2>3 DEF PruneInv
<1>9. EntryHasFile' /\ FileHasEntry'
  BY <1>1, <1>2, <1>3, <1>5, Belongs
<1> QED
  BY <1>6, <1>7, <1>8, <1>9 DEF TeeInv

(* An index that cannot be rewritten excuses the removed runs.             *)
LEMMA DropFailsKeeps ==
  ASSUME NEW p, Procs = {p}, TeeInv(p), DropFails(p)
  PROVE  TeeInv(p)'
<1>1. /\ pc[p] \in {"drop", "truncate"} /\ ScanDone(p)
      /\ dir' = dir /\ index' = index /\ next' = next /\ job' = job
      /\ excused' = excused \cup scan[p].removed
  BY DEF DropFails
<1>2. /\ index' \in Seq(Lines) /\ Indexed' = Indexed /\ excused' \in SUBSET Runs
      /\ excused \subseteq excused'
  BY <1>1, Known, Current, Fields, Unwritten
<1>3. ToSet(rest[p].entries) \subseteq Indexed
  BY <1>1, NothingType DEF TeeInv, PruneInv
<1> QED
  BY <1>1, <1>2, <1>3, DoneKeeps

(* What is written back is indexed again.                                  *)
LEMMA ReplaceKeeps ==
  ASSUME NEW p, Procs = {p}, TeeInv(p), Replace(p)
  PROVE  TeeInv(p)'
<1> DEFINE r == job[p].run
           removed == scan[p].removed
           w == rest[p]
           lines == ToSet(w.entries)
           left == Rest(Tail(w.entries), w.at + 1)
           h == Head(w.entries)
<1>1. /\ pc[p] = "replace" /\ w.entries # <<>> /\ index' = WriteAt(index, w.at, h)
      /\ rest' = [rest EXCEPT ![p] = left]
      /\ dir' = dir /\ next' = next /\ pc' = pc /\ job' = job /\ scan' = scan
      /\ excused' = excused
  BY DEF Replace
<1>2. w.entries \in Seq(Runs) /\ w.at \in Nat /\ index \in Seq(Lines)
  BY Known, Current, Fields
<1>3. /\ removed \cap LogRuns = {} /\ w.at = Len(index) /\ ToSet(index) \subseteq Runs
      /\ (Indexed \cup lines) \cap removed = {} /\ lines \subseteq excused \cup LogRuns
      /\ \A q \in lines : q < next /\ q # r
      /\ Indexed \subseteq excused \cup LogRuns \cup removed
      /\ LogRuns \subseteq excused \cup Indexed \cup {r} \cup lines
  BY <1>1, Belongs DEF TeeInv, PruneInv
<1>4. /\ Tail(w.entries) \in Seq(Runs) /\ h \in Runs /\ h \in Lines
      /\ lines = {h} \cup ToSet(Tail(w.entries))
  BY <1>1, <1>2, TailType, Numbers
<1> HIDE DEF h
<1>5. index' \in Seq(Lines) /\ Len(index') = Len(index) + 1 /\ ToSet(index') = ToSet(index) \cup {h}
  BY <1>1, <1>2, <1>3, <1>4, WriteAtType
<1>6. Indexed' = Indexed \cup {h} /\ ToSet(index') \subseteq Runs
  BY <1>3, <1>4, <1>5 DEF Indexed
<1>7. left \in Rests /\ left.entries = Tail(w.entries) /\ left.at = w.at + 1
  <2>1. w.at + 1 \in Nat
    BY <1>2
  <2> HIDE DEF w
  <2> QED
    BY <1>4, <2>1 DEF Rest, Rests
<1>8. rest'[p] = left /\ rest' \in [Procs -> Rests]
  <2> HIDE DEF left
  <2> QED
    BY <1>1, <1>7, Alone, Known
<1>9. rest'[p].entries = Tail(w.entries) /\ rest'[p].at = Len(index')
  BY <1>3, <1>5, <1>7, <1>8
<1> HIDE DEF left, w
<1>10. LogRuns' = LogRuns
  BY <1>1, Unwritten
<1>11. TypeOK' /\ Tidy(dir', next')
  BY <1>1, <1>5, <1>8, Known DEF TypeOK
<1>12. \A q \in Indexed' : q < next'
  BY <1>1, <1>3, <1>4, <1>6, Known
<1>13. RunInv(p)'
  <2>1. /\ r # 0 => r = next - 1
        /\ IF r = 0 THEN scan[p].then = "idle"
           ELSE /\ EndsWith(dir, r)
                /\ scan[p].then = IF job[p].path THEN "cleanup" ELSE "decide"
                /\ job[p].capture # job[p].path
        /\ r \notin Indexed
    BY <1>1 DEF TeeInv, RunInv, Here
  <2>2. r \notin Indexed'
    BY <1>3, <1>4, <1>6, <2>1
  <2>3. dir' = dir /\ next' = next /\ job' = job /\ scan' = scan /\ pc'[p] = "replace"
    BY <1>1
  <2> QED
    BY ONLY <2>1, <2>2, <2>3 DEF RunInv, Here
<1>14. PruneInv(p)'
  <2>1. /\ (Indexed' \cup ToSet(rest'[p].entries)) \cap removed = {}
        /\ ToSet(rest'[p].entries) \subseteq excused' \cup LogRuns'
        /\ \A q \in ToSet(rest'[p].entries) : q < next /\ q # r
    BY <1>1, <1>3, <1>4, <1>6, <1>9, <1>10
  <2>2. scan' = scan /\ job' = job /\ next' = next /\ pc'[p] = "replace"
    BY <1>1
  <2> QED
    BY <1>3, <1>6, <1>9, <1>10, <2>1, <2>2 DEF PruneInv
<1>15. EntryHasFile' /\ FileHasEntry'
  <2>1. Indexed' \subseteq excused \cup LogRuns \cup removed
    BY <1>3, <1>4, <1>6
  <2>2. LogRuns \subseteq excused \cup Indexed' \cup {r} \cup ToSet(rest'[p].entries)
    BY <1>3, <1>4, <1>6, <1>9
  <2>3. scan'[p].removed = removed /\ job'[p].run = r /\ excused' = excused
    BY <1>1
  <2> HIDE DEF removed, r
  <2> QED
    BY <1>10, <2>1, <2>2, <2>3, Belongs
<1> QED
  BY <1>11, <1>12, <1>13, <1>14, <1>15 DEF TeeInv

(* What could not be written back is excused.                              *)
LEMMA ReplaceFailsKeeps ==
  ASSUME NEW p, Procs = {p}, TeeInv(p), ReplaceFails(p)
  PROVE  TeeInv(p)'
<1>1. /\ pc[p] = "replace" /\ ScanDone(p) /\ index' \in {index, WriteAt(index, rest[p].at, Cut)}
      /\ dir' = dir /\ next' = next /\ job' = job
      /\ excused' = excused \cup ToSet(rest[p].entries)
  BY DEF ReplaceFails
<1>2. index \in Seq(Lines) /\ rest[p].at = Len(index) /\ scan[p].removed \cap Indexed = {}
  BY <1>1, Known DEF TeeInv, PruneInv
<1>3. index' \in Seq(Lines) /\ Indexed' = Indexed
  <2>1. CASE index' = index
    BY <1>2, <2>1, Unwritten
  <2>2. CASE index' = WriteAt(index, rest[p].at, Cut)
    <3>1. index' \in Seq(Lines) /\ ToSet(index') = ToSet(index) \cup {Cut}
      BY <1>2, <2>2, WriteAtType, Numbers
    <3> QED
      BY <3>1, Numbers DEF Indexed
  <2> QED
    BY <1>1, <2>1, <2>2
<1>4. excused' \in SUBSET Runs /\ excused \subseteq excused'
  BY <1>1, Known, Current, Fields
<1> QED
  BY <1>1, <1>2, <1>3, <1>4, DoneKeeps

(* An index that is written back leaves nothing to write.                  *)
LEMMA ReplacedKeeps ==
  ASSUME NEW p, Procs = {p}, TeeInv(p), Replaced(p)
  PROVE  TeeInv(p)'
<1>1. /\ pc[p] = "replace" /\ ScanDone(p) /\ rest[p].entries = <<>>
      /\ dir' = dir /\ index' = index /\ next' = next /\ job' = job /\ excused' = excused
  BY DEF Replaced
<1>2. scan[p].removed \cap Indexed = {} /\ ToSet(rest[p].entries) = {}
  BY <1>1, EmptyType DEF TeeInv, PruneInv
<1>3. index' \in Seq(Lines) /\ Indexed' = Indexed /\ excused' \in SUBSET Runs
  BY <1>1, Known, Unwritten
<1> QED
  BY <1>1, <1>2, <1>3, DoneKeeps

-----------------------------------------------------------------------------
(* The steps of "szr tee prune". *)

(* "szr tee prune" begins with the logs there are.                         *)
LEMMA PruneCommandKeeps ==
  ASSUME NEW p, Procs = {p}, TeeInv(p), PruneCommand(p)
  PROVE  TeeInv(p)'
<1>1. PICK removed \in Removals :
        /\ scan' = [scan EXCEPT ![p] = Pruning(NewestFirst(removed), 0, 0, removed, FALSE, "idle")]
        /\ rest' = [rest EXCEPT ![p] = Rest(NewestFirst(Indexed \ removed), 0)]
  BY DEF PruneCommand
<1> DEFINE todo == NewestFirst(removed)
           kept == NewestFirst(Indexed \ removed)
           s == Pruning(todo, 0, 0, removed, FALSE, "idle")
           w == Rest(kept, 0)
<1>2. /\ pc[p] = "idle" /\ Goto(p, "sweep") /\ scan' = [scan EXCEPT ![p] = s]
      /\ rest' = [rest EXCEPT ![p] = w]
      /\ dir' = dir /\ index' = index /\ next' = next /\ job' = job /\ excused' = excused
  BY <1>1 DEF PruneCommand
<1>3. Indexed \in SUBSET Runs /\ removed \in SUBSET Indexed
  BY Known DEF Removals
<1>4. todo \in Seq(Runs) /\ ToSet(todo) = removed /\ kept \in Seq(Runs) /\ ToSet(kept) = Indexed \ removed
  BY <1>3, NewestFirstType
<1> HIDE DEF todo, kept
<1>5. s \in Scans /\ s.todo = todo /\ s.removed = removed /\ s.then = "idle"
  BY <1>3, <1>4 DEF Pruning, Scans
<1>6. w \in Rests /\ w.entries = kept /\ w.at = 0
  BY <1>4, RestType
<1> HIDE DEF s, w
<1>7. /\ scan'[p] = s /\ scan' \in [Procs -> Scans] /\ rest'[p] = w /\ rest' \in [Procs -> Rests]
      /\ pc'[p] = "sweep" /\ pc' \in [Procs -> Labels]
  BY <1>2, <1>5, <1>6, Alone, Known DEF Labels
<1>8. /\ scan'[p].todo = todo /\ scan'[p].removed = removed /\ scan'[p].then = "idle"
      /\ ToSet(rest'[p].entries) = Indexed \ removed /\ rest'[p].at = 0
  BY <1>4, <1>5, <1>6, <1>7
<1>9. LogRuns' = LogRuns /\ Indexed' = Indexed /\ 0 \notin Indexed
  BY <1>2, <1>3, Unwritten, Numbers
<1>10. /\ job'[p].run = 0 /\ scan[p].removed = {} /\ ToSet(rest[p].entries) = {}
       /\ Indexed \subseteq excused \cup LogRuns \cup scan[p].removed
       /\ LogRuns \subseteq excused \cup Indexed \cup {0} \cup ToSet(rest[p].entries)
  BY <1>2, Belongs, NothingType DEF TeeInv, RunInv, PruneInv
<1>11. TypeOK' /\ (\A q \in Indexed' : q < next') /\ Tidy(dir', next')
  BY <1>2, <1>7, <1>9, Known DEF TypeOK
<1>12. RunInv(p)'
  BY <1>7, <1>8, <1>9, <1>10 DEF RunInv
<1>13. PruneInv(p)'
  <2>1. \A q \in Indexed : q < next'
    BY <1>2, Known
  <2> QED
    BY <1>4, <1>7, <1>8, <1>9, <1>10, <2>1 DEF PruneInv
<1>14. EntryHasFile' /\ FileHasEntry'
  BY <1>2, <1>8, <1>9, <1>10, Belongs
<1> QED
  BY <1>11, <1>12, <1>13, <1>14 DEF TeeInv

(* A sweep removes a log that is about to leave the index.                 *)
LEMMA SweepKeeps ==
  ASSUME NEW p, Procs = {p}, TeeInv(p), Sweep(p)
  PROVE  TeeInv(p)'
<1> DEFINE s == scan[p]
           h == Head(s.todo)
           t == Pruning(Tail(s.todo), 0, 0, s.removed, FALSE, "idle")
<1>1. /\ pc[p] = "sweep" /\ s.todo # <<>> /\ dir' = Without(dir, "log", h)
      /\ scan' = [scan EXCEPT ![p] = t]
      /\ index' = index /\ next' = next /\ pc' = pc /\ job' = job /\ rest' = rest
      /\ excused' = excused
  BY DEF Sweep
<1>2. /\ s.todo \in Seq(Runs) /\ s.removed \in SUBSET Runs
      /\ dir \in Seq(Files) /\ Tidy(dir, next)
  BY Known, Current, Fields
<1>3. /\ job[p].run = 0 /\ s.removed \cap LogRuns \subseteq ToSet(s.todo)
      /\ ToSet(s.todo) \subseteq s.removed /\ ToSet(rest[p].entries) = Indexed \ s.removed
      /\ rest[p].at = 0 /\ \A q \in ToSet(rest[p].entries) : q < next /\ q # 0
      /\ Indexed \subseteq excused \cup LogRuns \cup s.removed
      /\ LogRuns \subseteq excused \cup Indexed \cup {0} \cup ToSet(rest[p].entries)
      /\ 0 \notin Indexed
  BY <1>1, Belongs, Known, Numbers DEF TeeInv, RunInv, PruneInv
<1>4. /\ Tail(s.todo) \in Seq(Runs) /\ h \in Runs
      /\ ToSet(s.todo) = {h} \cup ToSet(Tail(s.todo))
  BY <1>1, <1>2, TailType
<1> HIDE DEF h
<1>5. dir' \in Seq(Files) /\ Tidy(dir', next) /\ LogRuns' = LogRuns \ {h}
  BY <1>1, <1>2, <1>4, LogRemoved
<1>6. t \in Scans /\ t.todo = Tail(s.todo) /\ t.removed = s.removed /\ t.then = "idle"
  <2> HIDE DEF s
  <2> QED
    BY <1>2, <1>4 DEF Pruning, Scans
<1>7. /\ scan'[p] = t /\ scan' \in [Procs -> Scans]
  <2> HIDE DEF t
  <2> QED
    BY <1>1, <1>6, Alone, Known
<1> HIDE DEF t
<1>8. scan'[p].todo = Tail(s.todo) /\ scan'[p].removed = s.removed /\ scan'[p].then = "idle"
  BY <1>6, <1>7
<1>9. Indexed' = Indexed
  BY <1>1, Unwritten
<1>10. TypeOK' /\ (\A q \in Indexed' : q < next') /\ Tidy(dir', next')
  BY <1>1, <1>5, <1>7, <1>9, Known DEF TypeOK
<1>11. RunInv(p)'
  BY <1>1, <1>3, <1>8, <1>9 DEF RunInv
<1>12. PruneInv(p)'
  <2>1. /\ s.removed \cap LogRuns' \subseteq ToSet(Tail(s.todo))
        /\ ToSet(Tail(s.todo)) \subseteq s.removed
    BY <1>3, <1>4, <1>5
  <2> HIDE DEF s
  <2>2. pc'[p] = "sweep" /\ rest' = rest /\ job'[p].run = 0 /\ next' = next
    BY <1>1, <1>3
  <2> QED
    BY <1>3, <1>8, <1>9, <2>1, <2>2 DEF PruneInv
<1>13. EntryHasFile' /\ FileHasEntry'
  <2>1. Indexed \subseteq excused \cup LogRuns' \cup s.removed
    BY <1>3, <1>4, <1>5
  <2>2. LogRuns' \subseteq excused \cup Indexed \cup {0} \cup ToSet(rest[p].entries)
    BY <1>3, <1>5
  <2>3. excused' = excused /\ rest' = rest /\ job'[p].run = 0
    BY <1>1, <1>3
  <2> QED
    BY <1>8, <1>9, <2>1, <2>2, <2>3, Belongs
<1> QED
  BY <1>10, <1>11, <1>12, <1>13 DEF TeeInv

(* A sweep that fails goes on to the index.                                *)
LEMMA SweepFailsKeeps ==
  ASSUME NEW p, Procs = {p}, TeeInv(p), SweepFails(p)
  PROVE  TeeInv(p)'
<1>1. /\ pc[p] = "sweep" /\ ScanDone(p)
      /\ dir' = dir /\ index' = index /\ next' = next /\ job' = job
      /\ excused' = excused \cup scan[p].removed
  BY DEF SweepFails
<1>2. /\ index' \in Seq(Lines) /\ Indexed' = Indexed /\ excused' \in SUBSET Runs
      /\ excused \subseteq excused'
  BY <1>1, Known, Current, Fields, Unwritten
<1>3. ToSet(rest[p].entries) \subseteq Indexed
  BY <1>1 DEF TeeInv, PruneInv
<1> QED
  BY <1>1, <1>2, <1>3, DoneKeeps

(* So does one that is done.                                               *)
LEMMA SweptKeeps ==
  ASSUME NEW p, Procs = {p}, TeeInv(p), Swept(p)
  PROVE  TeeInv(p)'
<1>1. /\ pc[p] = "sweep" /\ scan[p].todo = <<>> /\ Goto(p, "truncate")
      /\ dir' = dir /\ index' = index /\ next' = next /\ job' = job /\ scan' = scan
      /\ rest' = rest /\ excused' = excused
  BY DEF Swept
<1>2. /\ job[p].run = 0 /\ scan[p].then = "idle" /\ 0 \notin Indexed
      /\ scan[p].removed \cap LogRuns = {}
      /\ ToSet(rest[p].entries) = Indexed \ scan[p].removed /\ rest[p].at = 0
      /\ \A q \in ToSet(rest[p].entries) : q < next /\ q # job[p].run
  BY <1>1, EmptyType, Known, Numbers DEF TeeInv, RunInv, PruneInv
<1>3. pc'[p] = "truncate" /\ pc' \in [Procs -> Labels]
  BY <1>1, Alone, Known DEF Labels
<1>4. LogRuns' = LogRuns /\ Indexed' = Indexed
  BY <1>1, Unwritten
<1>5. TypeOK' /\ (\A q \in Indexed' : q < next') /\ Tidy(dir', next')
  BY <1>1, <1>3, <1>4, Known DEF TypeOK
<1>6. RunInv(p)'
  BY <1>1, <1>2, <1>3, <1>4 DEF RunInv
<1>7. PruneInv(p)'
  BY <1>1, <1>2, <1>3, <1>4 DEF PruneInv
<1>8. EntryHasFile' /\ FileHasEntry'
  BY <1>1, <1>4, Belongs DEF TeeInv
<1> QED
  BY <1>5, <1>6, <1>7, <1>8 DEF TeeInv

-----------------------------------------------------------------------------
(* Every step. *)

(* Every step keeps the invariant.                                         *)
LEMMA InvStep ==
  ASSUME NEW p, Procs = {p}, TeeInv(p), [Next]_vars
  PROVE  TeeInv(p)'
<1>1. CASE UNCHANGED vars
  <2>1. /\ dir' = dir /\ index' = index /\ next' = next /\ pc' = pc /\ job' = job
        /\ scan' = scan /\ rest' = rest /\ excused' = excused
    BY <1>1 DEF vars
  <2>2. LogRuns' = LogRuns /\ Indexed' = Indexed
    BY <2>1, Unwritten
  <2>3. TypeOK' /\ (\A q \in Indexed' : q < next') /\ Tidy(dir', next')
    BY <2>1, <2>2, Known DEF TypeOK
  <2>4. RunInv(p)'
    BY <2>1, <2>2 DEF TeeInv, RunInv, Here, Captures
  <2>5. PruneInv(p)'
    BY <2>1, <2>2 DEF TeeInv, PruneInv
  <2>6. EntryHasFile' /\ FileHasEntry'
    BY <2>1, <2>2, Belongs DEF TeeInv
  <2> QED
    BY <2>3, <2>4, <2>5, <2>6 DEF TeeInv
<1>2. CASE CaptureStep(p)
  BY <1>2, StartKeeps, WriteKeeps, KeepKeeps, DropKeeps, RetainKeeps, DeferKeeps, CleanupKeeps,
     IndexKeeps, IndexFailsKeeps, ShowKeeps DEF CaptureStep
<1>3. CASE PruneStep(p)
  BY <1>3, ScanKeeps, ScanFailsKeeps, RemoveExcessKeeps, PrunedKeeps, DropEntriesKeeps,
     TruncateKeeps, DropFailsKeeps, ReplaceKeeps, ReplaceFailsKeeps, ReplacedKeeps DEF PruneStep
<1>4. CASE CommandStep(p)
  BY <1>4, PruneCommandKeeps, SweepKeeps, SweepFailsKeeps, SweptKeeps DEF CommandStep
<1>5. CASE Crash(p)
  BY <1>5, CrashKeeps
<1>6. CASE Hour
  BY <1>6, HourKeeps
<1> QED
  BY <1>1, <1>2, <1>3, <1>4, <1>5, <1>6 DEF Next

(* A run in the middle of a pruning goes on with it. *)
LEMMA OnlyPruning ==
  ASSUME NEW p, Procs = {p}, TeeInv(p), [Next]_vars, pc'[p] = "prune"
  PROVE  Scan(p) \/ RemoveExcess(p) \/ Hour \/ UNCHANGED vars
<1>0. scan[p].then # "prune"
  BY Current, Fields
<1>1. \A l \in Labels : Goto(p, l) => pc'[p] = l
  BY Known, Alone
<1>2. ~ScanDone(p)
  BY <1>0, DoneType, Known
<1>3. ASSUME CaptureStep(p) PROVE FALSE
  <2>1. PICK l \in Labels : l # "prune" /\ ((pc' = pc /\ pc[p] = l) \/ Goto(p, l))
    BY <1>3 DEF CaptureStep, Start, Write, Keep, Drop, Retain, Defer, DeferFails, Cleanup, Index,
       IndexFails, Show, Labels
  <2> QED
    BY <1>1, <2>1
<1>4. ASSUME PruneStep(p) PROVE Scan(p) \/ RemoveExcess(p)
  <2>1. ASSUME Pruned(p) \/ DropEntries(p) \/ Truncate(p) PROVE FALSE
    <3>1. Goto(p, "drop") \/ Goto(p, "truncate") \/ Goto(p, "replace")
      BY <1>2, <2>1 DEF Pruned, DropEntries, Truncate
    <3> QED
      BY <1>1, <3>1 DEF Labels
  <2>2. ASSUME Replace(p) PROVE FALSE
    BY <2>2 DEF Replace
  <2> QED
    BY <1>2, <1>4, <2>1, <2>2 DEF PruneStep, ScanFails, DropFails, ReplaceFails, Replaced
<1>5. ASSUME CommandStep(p) PROVE FALSE
  <2>1. ASSUME PruneCommand(p) \/ Swept(p) PROVE FALSE
    BY <1>1, <2>1 DEF PruneCommand, Swept, Labels
  <2>2. ASSUME Sweep(p) PROVE FALSE
    BY <2>2 DEF Sweep
  <2> QED
    BY <1>2, <1>5, <2>1, <2>2 DEF CommandStep, SweepFails
<1>6. ASSUME Crash(p) PROVE FALSE
  BY <1>1, <1>6 DEF Crash, Labels
<1> QED
  BY <1>3, <1>4, <1>5, <1>6 DEF Next

-----------------------------------------------------------------------------
(* Pruning keeps both caps. *)

(* c goes through the places in J in their order.                          *)
Through(J, n, c) ==
  /\ c \in [1 .. n -> Nat]
  /\ \A k \in 1 .. n : c[k] \in J
  /\ \A k, l \in 1 .. n : k < l => c[k] < c[l]
  /\ \A j \in J : \E k \in 1 .. n : c[k] = j

(* Two ways through the same places meet the same ones.                    *)
LEMMA NoneMissed ==
  ASSUME NEW J, NEW m \in Nat, NEW n \in Nat, NEW f, NEW g, Through(J, m, f), Through(J, n, g)
  PROVE  \A k \in 1 .. m : k <= n /\ f[k] = g[k]
<1> DEFINE D == {k \in 1 .. m : ~(k <= n /\ f[k] = g[k])}
<1>1. SUFFICES ASSUME D # {} PROVE FALSE
  OBVIOUS
<1>2. D \in SUBSET Nat
  OBVIOUS
<1>3. PICK k \in D : \A i \in D : k <= i
  <2> HIDE DEF D
  <2> QED
    BY <1>1, <1>2, LeastNatural
<1>4. k \in 1 .. m /\ k \in Nat /\ ~(k <= n /\ f[k] = g[k])
  OBVIOUS
<1>5. \A i \in 1 .. m : i < k => i <= n /\ f[i] = g[i]
  BY <1>3, <1>4
<1> HIDE DEF D
<1>6. PICK l \in 1 .. n : g[l] = f[k]
  BY <1>4 DEF Through
<1>7. l \in Nat /\ f[k] \in Nat /\ (l < k => l \in 1 .. m)
  BY <1>4, <1>6 DEF Through
<1>8. ~(l < k)
  <2> SUFFICES ASSUME l < k PROVE FALSE
    OBVIOUS
  <2>1. f[l] = g[l] /\ f[l] < f[k]
    BY <1>4, <1>5, <1>7 DEF Through
  <2> QED
    BY <1>6, <1>7, <2>1
<1>9. k \in 1 .. n
  BY <1>4, <1>6, <1>7, <1>8
<1>10. PICK i \in 1 .. m : f[i] = g[k]
  BY <1>9 DEF Through
<1>11. i \in Nat /\ g[k] \in Nat /\ (i < k => i \in 1 .. n)
  BY <1>9, <1>10 DEF Through
<1>12. ~(i < k)
  <2> SUFFICES ASSUME i < k PROVE FALSE
    OBVIOUS
  <2>1. f[i] = g[i] /\ g[i] < g[k]
    BY <1>5, <1>9, <1>10, <1>11 DEF Through
  <2> QED
    BY <1>10, <1>11, <2>1
<1>13. f[k] <= g[k]
  <2>1. i = k \/ k < i
    BY <1>4, <1>11, <1>12
  <2>2. k < i => f[k] < f[i]
    BY <1>4, <1>10 DEF Through
  <2> QED
    BY <1>7, <1>10, <1>11, <2>1, <2>2
<1>14. g[k] <= f[k]
  <2>1. l = k \/ k < l
    BY <1>4, <1>7, <1>8
  <2>2. k < l => g[k] < g[l]
    BY <1>6, <1>9 DEF Through
  <2> QED
    BY <1>6, <1>7, <1>11, <2>1, <2>2
<1> QED
  BY <1>4, <1>7, <1>9, <1>11, <1>13, <1>14

(* So there is one way through them.                                       *)
LEMMA OneOrder ==
  ASSUME NEW J, NEW m \in Nat, NEW n \in Nat, NEW f, NEW g, Through(J, m, f), Through(J, n, g)
  PROVE  m = n /\ \A k \in 1 .. m : f[k] = g[k]
<1>1. \A k \in 1 .. m : k <= n /\ f[k] = g[k]
  BY NoneMissed
<1>2. \A k \in 1 .. n : k <= m
  BY NoneMissed
<1>3. m <= n
  <2>1. m = 0 \/ m \in 1 .. m
    OBVIOUS
  <2> QED
    BY <1>1, <2>1
<1>4. n <= m
  <2>1. n = 0 \/ n \in 1 .. n
    OBVIOUS
  <2> QED
    BY <1>2, <2>1
<1> QED
  BY <1>1, <1>3, <1>4

(* A list of the runs of these files, in the order of the directory.       *)
Picks(d, J, t, c) ==
  /\ t \in Seq(Runs) /\ Through(J, Len(t), c)
  /\ \A k \in 1 .. Len(t) : t[k] = d[c[k]].run

(* So there is one list of them.                                           *)
LEMMA OneList ==
  ASSUME NEW d, NEW J, NEW t, NEW c, Picks(d, J, t, c), NEW u, NEW b, Picks(d, J, u, b)
  PROVE  t = u
<1>1. t \in Seq(Runs) /\ u \in Seq(Runs) /\ Len(t) \in Nat /\ Len(u) \in Nat
  BY DEF Picks
<1>2. Len(t) = Len(u) /\ \A k \in 1 .. Len(t) : c[k] = b[k]
  BY <1>1, OneOrder DEF Picks
<1>3. \A k \in 1 .. Len(t) : t[k] = u[k]
  BY <1>2 DEF Picks
<1> QED
  BY <1>1, <1>2, <1>3

LogPlaces(d) == {i \in 1 .. Len(d) : d[i].kind = "log"}

(* The logs are picked in the order of their files.                        *)
LEMMA LogsPicked ==
  /\ dir \in Seq(Files) => \E c : Picks(dir, LogPlaces(dir), Logs, c)
  /\ dir' \in Seq(Files) => \E c : Picks(dir', LogPlaces(dir'), Logs', c)
<1>1. ASSUME NEW d \in Seq(Files), NEW t \in Seq(Runs), NEW h, Lists(d, t, h)
      PROVE  Picks(d, LogPlaces(d), t, h)
  <2>1. Len(d) \in Nat /\ Len(t) \in Nat /\ h \in [1 .. Len(t) -> 1 .. Len(d)]
    BY <1>1 DEF Lists
  <2>2. h \in [1 .. Len(t) -> Nat]
    BY <2>1
  <2>3. \A k \in 1 .. Len(t) : h[k] \in LogPlaces(d) /\ t[k] = d[h[k]].run
    BY <1>1, <2>1 DEF Lists, LogPlaces
  <2>4. \A k, l \in 1 .. Len(t) : k < l => h[k] < h[l]
    BY <1>1 DEF Lists
  <2>5. \A j \in LogPlaces(d) : \E k \in 1 .. Len(t) : h[k] = j
    BY <1>1 DEF Lists, LogPlaces
  <2> QED
    BY <2>2, <2>3, <2>4, <2>5 DEF Picks, Through
<1>2. dir \in Seq(Files) => \E c : Picks(dir, LogPlaces(dir), Logs, c)
  BY <1>1, LogsType
<1>3. dir' \in Seq(Files) => \E c : Picks(dir', LogPlaces(dir'), Logs', c)
  BY <1>1, LogsType
<1> QED
  BY <1>2, <1>3

(* The logs of what is left are those of the directory that were kept.     *)
LEMMA KeptPicked ==
  ASSUME NEW d \in Seq(Files), NEW I \in SUBSET (1 .. Len(d)), NEW e \in Seq(Files),
         e = KeepAt(d, I), NEW t, NEW c, Picks(e, LogPlaces(e), t, c)
  PROVE  \E b : Picks(d, I \cap LogPlaces(d), t, b)
<1>1. PICK h : Embeds(d, I, Len(d), e, h)
  BY KeepAtEmbeds
<1>2. Len(d) \in Nat /\ Len(e) \in Nat /\ t \in Seq(Runs) /\ Len(t) \in Nat
  BY DEF Picks
<1>3. /\ \A k \in 1 .. Len(e) : h[k] \in 1 .. Len(d) /\ h[k] \in I /\ e[k] = d[h[k]]
      /\ \A k, l \in 1 .. Len(e) : k < l => h[k] < h[l]
      /\ \A i \in I : \E k \in 1 .. Len(e) : h[k] = i
  <2>1. h \in [1 .. Len(e) -> 1 .. Len(d)]
    BY <1>1 DEF Embeds
  <2>2. \A k \in 1 .. Len(e) : h[k] \in I /\ e[k] = d[h[k]]
    BY <1>1 DEF Embeds
  <2>3. \A k, l \in 1 .. Len(e) : k < l => h[k] < h[l]
    BY <1>1 DEF Embeds
  <2>4. \A i \in I : \E k \in 1 .. Len(e) : h[k] = i
    BY <1>1 DEF Embeds
  <2> QED
    BY <2>1, <2>2, <2>3, <2>4
<1>4. /\ \A k \in 1 .. Len(t) : c[k] \in 1 .. Len(e) /\ e[c[k]].kind = "log" /\ t[k] = e[c[k]].run
      /\ \A k, l \in 1 .. Len(t) : k < l => c[k] < c[l]
      /\ \A j \in 1 .. Len(e) : e[j].kind = "log" => \E k \in 1 .. Len(t) : c[k] = j
  BY DEF Picks, Through, LogPlaces
<1> DEFINE b == [k \in 1 .. Len(t) |-> h[c[k]]]
<1>5. \A k \in 1 .. Len(t) : b[k] = h[c[k]] /\ b[k] \in I \cap LogPlaces(d) /\ t[k] = d[b[k]].run
  BY <1>3, <1>4 DEF LogPlaces
<1>6. b \in [1 .. Len(t) -> Nat]
  <2>1. \A k \in 1 .. Len(t) : h[c[k]] \in Nat
    BY <1>2, <1>3, <1>4
  <2> QED
    BY <2>1
<1> HIDE DEF b
<1>7. \A k, l \in 1 .. Len(t) : k < l => b[k] < b[l]
  <2> TAKE k, l \in 1 .. Len(t)
  <2> HAVE k < l
  <2>1. c[k] < c[l] /\ c[k] \in 1 .. Len(e) /\ c[l] \in 1 .. Len(e)
    BY <1>4
  <2>2. h[c[k]] < h[c[l]]
    BY <1>3, <2>1
  <2> QED
    BY <1>5, <2>2
<1>8. ASSUME NEW j \in I \cap LogPlaces(d) PROVE \E k \in 1 .. Len(t) : b[k] = j
  <2>1. PICK i \in 1 .. Len(e) : h[i] = j
    BY <1>3
  <2>2. e[i].kind = "log"
    BY <1>3, <2>1 DEF LogPlaces
  <2>3. PICK k \in 1 .. Len(t) : c[k] = i
    BY <1>4, <2>2
  <2> QED
    BY <1>5, <2>1, <2>3
<1>9. Picks(d, I \cap LogPlaces(d), t, b)
  BY <1>2, <1>5, <1>6, <1>7, <1>8 DEF Picks, Through
<1> QED
  BY <1>9

(* Time leaves the logs as they are.                                       *)
LEMMA AgedKeepsLogs ==
  ASSUME NEW p, Procs = {p}, TeeInv(p), Hour
  PROVE  Logs' = Logs
<1> DEFINE aged == [i \in DOMAIN dir |-> [run |-> dir[i].run, kind |-> dir[i].kind,
                                        stale |-> dir[i].stale \/ dir[i].kind = "partial"]]
<1>1. dir' = aged /\ dir \in Seq(Files) /\ dir' \in Seq(Files) /\ DOMAIN dir = 1 .. Len(dir)
      /\ Len(dir) \in Nat
  BY Known, HourKeeps, FilesType DEF Hour, TeeInv, TypeOK
<1>2. \A i \in 1 .. Len(dir) : dir'[i].run = dir[i].run /\ dir'[i].kind = dir[i].kind
  BY <1>1
<1>3. Len(dir') = Len(dir)
  BY <1>1
<1> HIDE DEF aged
<1>4. LogPlaces(dir') = LogPlaces(dir)
  BY ONLY <1>2, <1>3 DEF LogPlaces
<1>5. PICK c : Picks(dir, LogPlaces(dir), Logs, c)
  BY <1>1, LogsPicked
<1>6. PICK b : Picks(dir', LogPlaces(dir'), Logs', b)
  BY <1>1, LogsPicked
<1>7. Picks(dir, LogPlaces(dir), Logs', b)
  <2>1. \A k \in 1 .. Len(Logs') : b[k] \in 1 .. Len(dir)
    BY <1>4, <1>6 DEF Picks, Through, LogPlaces
  <2> QED
    BY ONLY <1>2, <1>4, <1>6, <2>1 DEF Picks
<1> QED
  BY ONLY <1>5, <1>7, OneList

(* So does a scan.                                                         *)
LEMMA ScanKeepsLogs ==
  ASSUME NEW p, Procs = {p}, TeeInv(p), Scan(p)
  PROVE  Logs' = Logs
<1> DEFINE I(stay) == {i \in DOMAIN dir : ~dir[i].stale \/ dir[i] \in stay}
<1>1. PICK stay : dir' = KeepAt(dir, I(stay))
  BY DEF Scan
<1>2. dir \in Seq(Files) /\ dir' \in Seq(Files) /\ Tidy(dir, next)
  BY Known, ScanKeeps DEF TeeInv, TypeOK
<1>3. I(stay) \in SUBSET (1 .. Len(dir)) /\ I(stay) \cap LogPlaces(dir) = LogPlaces(dir)
  BY <1>2, FilesType DEF LogPlaces, Tidy
<1> HIDE DEF I
<1>4. PICK c : Picks(dir, LogPlaces(dir), Logs, c)
  BY <1>2, LogsPicked
<1>5. PICK b : Picks(dir', LogPlaces(dir'), Logs', b)
  BY <1>2, LogsPicked
<1>6. PICK a : Picks(dir, I(stay) \cap LogPlaces(dir), Logs', a)
  BY <1>1, <1>2, <1>3, <1>5, KeptPicked
<1>7. Picks(dir, LogPlaces(dir), Logs', a)
  BY ONLY <1>3, <1>6
<1> QED
  BY ONLY <1>4, <1>7, OneList

(* Without the oldest log there are the others.                            *)
LEMMA OldestRemoved ==
  ASSUME NEW p, Procs = {p}, TeeInv(p), Logs # <<>>,
         dir' = Without(dir, "log", Head(Logs)), dir' \in Seq(Files)
  PROVE  Logs' = Tail(Logs)
<1> DEFINE t == Logs
           a == Head(t)
           I == {i \in DOMAIN dir : dir[i].kind # "log" \/ dir[i].run # a}
<1>1. dir \in Seq(Files) /\ Tidy(dir, next) /\ DOMAIN dir = 1 .. Len(dir) /\ Len(dir) \in Nat
  BY Known, FilesType
<1>2. dir' = KeepAt(dir, I) /\ I \in SUBSET (1 .. Len(dir))
  BY <1>1 DEF Without
<1>3. \A i : i \in I \cap LogPlaces(dir) <=> i \in LogPlaces(dir) /\ dir[i].run # a
  BY <1>1 DEF LogPlaces
<1> HIDE DEF I
<1>4. PICK c : Picks(dir, LogPlaces(dir), t, c)
  BY <1>1, LogsPicked
<1>5. PICK b : Picks(dir', LogPlaces(dir'), Logs', b)
  BY LogsPicked
<1>6. \E e : Picks(dir, I \cap LogPlaces(dir), Logs', e)
  BY <1>1, <1>2, <1>5, KeptPicked
<1> HIDE DEF t, a
<1>7. /\ t \in Seq(Runs) /\ t # <<>> /\ Len(t) \in Nat /\ Len(t) >= 1 /\ a = t[1]
      /\ Tail(t) \in Seq(Runs) /\ Len(Tail(t)) = Len(t) - 1
      /\ \A k \in 1 .. Len(t) - 1 : Tail(t)[k] = t[k + 1]
  <2>1. t \in Seq(Runs) /\ t # <<>>
    BY <1>4 DEF Picks, t
  <2>2. Head(t) = t[1]
    BY <2>1, TailType
  <2> QED
    BY <2>1, <2>2, TailType, ToSetType DEF a
<1>8. /\ c \in [1 .. Len(t) -> Nat]
      /\ \A k \in 1 .. Len(t) : c[k] \in LogPlaces(dir) /\ t[k] = dir[c[k]].run
      /\ \A k, l \in 1 .. Len(t) : k < l => c[k] < c[l]
      /\ \A j \in LogPlaces(dir) : \E k \in 1 .. Len(t) : c[k] = j
  BY <1>4 DEF Picks, Through
<1> DEFINE d == [k \in 1 .. Len(t) - 1 |-> c[k + 1]]
<1>9. \A k \in 1 .. Len(t) - 1 : k + 1 \in 1 .. Len(t) /\ k \in 1 .. Len(t) /\ 1 < k + 1
  BY <1>7
<1>10. d \in [1 .. Len(t) - 1 -> Nat] /\ \A k \in 1 .. Len(t) - 1 : d[k] = c[k + 1]
  BY <1>8, <1>9
<1> HIDE DEF d
<1>11. \A k, l \in 1 .. Len(t) - 1 : k < l => d[k] < d[l]
  <2> TAKE k, l \in 1 .. Len(t) - 1
  <2> HAVE k < l
  <2>1. k + 1 < l + 1 /\ k + 1 \in 1 .. Len(t) /\ l + 1 \in 1 .. Len(t)
    BY <1>7
  <2>2. c[k + 1] < c[l + 1]
    BY <1>8, <2>1
  <2> QED
    BY <1>10, <2>2
<1>12. 1 \in 1 .. Len(t) /\ c[1] \in LogPlaces(dir) /\ dir[c[1]].run = a
  BY <1>7, <1>8
<1>13. \A j \in LogPlaces(dir) : dir[j].run = a <=> j = c[1]
  BY <1>1, <1>12 DEF Tidy, LogPlaces
<1>14. \A k \in 1 .. Len(t) - 1 : d[k] \in I \cap LogPlaces(dir) /\ Tail(t)[k] = dir[d[k]].run
  <2> TAKE k \in 1 .. Len(t) - 1
  <2>1. k + 1 \in 1 .. Len(t) /\ 1 < k + 1
    BY <1>9
  <2>2. c[1] < c[k + 1] /\ c[1] \in Nat /\ c[k + 1] \in Nat /\ c[k + 1] \in LogPlaces(dir)
        /\ t[k + 1] = dir[c[k + 1]].run
    BY <1>8, <1>12, <2>1
  <2>3. c[k + 1] # c[1]
    BY <2>2
  <2>4. dir[c[k + 1]].run # a
    BY <1>13, <2>2, <2>3
  <2> QED
    BY <1>3, <1>7, <1>10, <2>2, <2>4
<1>15. ASSUME NEW j \in I \cap LogPlaces(dir) PROVE \E k \in 1 .. Len(t) - 1 : d[k] = j
  <2>1. j \in LogPlaces(dir) /\ j # c[1]
    BY <1>3, <1>13
  <2>2. PICK k \in 1 .. Len(t) : c[k] = j
    BY <1>8, <2>1
  <2>3. k - 1 \in 1 .. Len(t) - 1 /\ (k - 1) + 1 = k
    BY <1>7, <2>1, <2>2
  <2> QED
    BY <1>10, <2>2, <2>3
<1>16. Picks(dir, I \cap LogPlaces(dir), Tail(t), d)
  BY ONLY <1>7, <1>10, <1>11, <1>14, <1>15 DEF Picks, Through
<1> QED
  BY <1>6, <1>16, OneList DEF t

(* What the sizes of the logs come to without the oldest. *)
LEMMA TotalWithoutHead ==
  ASSUME NEW t \in Seq(Runs), t # <<>>
  PROVE  TotalBytes(Tail(t)) = TotalBytes(t) - SizeOf[Head(t)]
<1> DEFINE u == Tail(t)
           r == Sizes(t)
           s == Sizes(u)
           n == Len(t) - 1
<1>1. /\ u \in Seq(Runs) /\ Len(u) = n /\ Head(t) = t[1] /\ Head(t) \in Runs
      /\ \A i \in 1 .. n : u[i] = t[i + 1]
  BY TailType
<1>2. Len(t) \in Nat /\ Len(t) >= 1 /\ n \in Nat /\ Len(t) - Len(t) + 1 = 1 /\ Len(t) \in 1 .. Len(t)
      /\ 1 \in 1 .. Len(t)
  BY ToSetType
<1> HIDE DEF u
<1>3. /\ r \in Seq(Nat) /\ Len(r) = Len(t) /\ \A i \in 1 .. Len(t) : r[i] = SizeOf[t[i]]
      /\ TotalBytes(t) = SumOfLast(r, Len(t)) /\ TotalBytes(t) \in Nat
  BY SizesType
<1>4. /\ s \in Seq(Nat) /\ Len(s) = n /\ \A i \in 1 .. n : s[i] = SizeOf[u[i]]
      /\ TotalBytes(u) = SumOfLast(s, n) /\ TotalBytes(u) \in Nat
  BY <1>1, SizesType
<1> HIDE DEF r, s
<1>5. SumOfLast(r, Len(t)) = SumOfLast(r, n) + r[1]
  <2>1. SumOfLast(r, Len(t)) = SumOfLast(r, Len(t) - 1) + r[Len(r) - Len(t) + 1]
    BY <1>2, <1>3, SumOfLastType
  <2> QED
    BY <1>2, <1>3, <2>1
<1>6. SumOfLast(s, n) = SumOfLast(r, n)
  <2>1. n \in 0 .. Len(s) /\ n <= Len(r)
    BY <1>2, <1>3, <1>4
  <2>2. ASSUME NEW k \in 1 .. n PROVE s[Len(s) - k + 1] = r[Len(r) - k + 1]
    <3>1. /\ n - k + 1 \in 1 .. n /\ Len(t) - k + 1 \in 1 .. Len(t)
          /\ (n - k + 1) + 1 = Len(t) - k + 1
      BY <1>2
    <3>2. u[n - k + 1] = t[Len(t) - k + 1]
      BY <1>1, <3>1
    <3>3. s[n - k + 1] = SizeOf[u[n - k + 1]] /\ r[Len(t) - k + 1] = SizeOf[t[Len(t) - k + 1]]
      BY <1>3, <1>4, <3>1
    <3>4. Len(s) = n /\ Len(r) = Len(t)
      BY <1>3, <1>4
    <3> HIDE DEF n
    <3> QED
      BY ONLY <3>2, <3>3, <3>4
  <2> QED
    BY <1>3, <1>4, <2>1, <2>2, SumOfLastAlike
<1>7. r[1] = SizeOf[Head(t)] /\ SizeOf[Head(t)] \in Nat
  BY <1>1, <1>2, <1>3, Numbers
<1> QED
  BY <1>3, <1>4, <1>5, <1>6, <1>7 DEF u

(* The oldest goes, and the candidates are still all but the newest.       *)
LEMMA CandidatesLeft ==
  ASSUME NEW t \in Seq(Runs), OldestTeeArtifacts(t) # <<>>
  PROVE  /\ t # <<>> /\ Head(OldestTeeArtifacts(t)) = Head(t)
         /\ Tail(OldestTeeArtifacts(t)) = OldestTeeArtifacts(Tail(t))
<1> DEFINE u == OldestTeeArtifacts(t)
<1>1. t # <<>> /\ u = Front(t)
  BY DEF OldestTeeArtifacts
<1>2. /\ Len(t) \in Nat /\ Len(t) >= 1 /\ u \in Seq(Runs) /\ Len(u) = Len(t) - 1
      /\ \A i \in 1 .. Len(t) - 1 : u[i] = t[i]
  BY <1>1, FrontType, ToSetType
<1> HIDE DEF u
<1>3. Len(u) >= 1 /\ u # <<>>
  <2>1. u # <<>>
    BY DEF u
  <2> QED
    BY <1>2, <2>1, ToSetType
<1>4. /\ Head(u) = u[1] /\ Tail(u) \in Seq(Runs) /\ Len(Tail(u)) = Len(u) - 1
      /\ \A i \in 1 .. Len(u) - 1 : Tail(u)[i] = u[i + 1]
  BY <1>2, <1>3, TailType
<1>5. /\ Head(t) = t[1] /\ Tail(t) \in Seq(Runs) /\ Len(Tail(t)) = Len(t) - 1
      /\ \A i \in 1 .. Len(t) - 1 : Tail(t)[i] = t[i + 1]
  BY <1>1, TailType
<1> DEFINE v == Tail(t)
<1>6. v # <<>>
  <2>1. Len(v) # 0 /\ Len(<<>>) = 0
    BY <1>2, <1>3, <1>5
  <2> QED
    BY <2>1
<1> HIDE DEF v
<1>7. /\ Front(v) \in Seq(Runs) /\ Len(Front(v)) = Len(v) - 1
      /\ \A i \in 1 .. Len(v) - 1 : Front(v)[i] = v[i]
  BY <1>5, <1>6, FrontType DEF v
<1>8. /\ v \in Seq(Runs) /\ Len(v) = Len(t) - 1 /\ \A i \in 1 .. Len(t) - 1 : v[i] = t[i + 1]
  BY <1>5 DEF v
<1>9. Head(u) = Head(t)
  <2>1. 1 \in 1 .. Len(t) - 1
    BY <1>2, <1>3
  <2> QED
    BY <1>2, <1>4, <1>5, <2>1
<1>10. Tail(u) = Front(v)
  <2>1. Len(Tail(u)) = Len(Front(v)) /\ Len(Tail(u)) = Len(t) - 2
    BY <1>2, <1>4, <1>7, <1>8
  <2>2. \A i \in 1 .. Len(t) - 2 : Tail(u)[i] = Front(v)[i]
    <3> TAKE i \in 1 .. Len(t) - 2
    <3>1. i \in 1 .. Len(u) - 1 /\ i \in 1 .. Len(v) - 1 /\ i \in 1 .. Len(t) - 1
          /\ i + 1 \in 1 .. Len(t) - 1
      BY <1>2, <1>8
    <3> QED
      BY <1>2, <1>4, <1>7, <1>8, <3>1
  <2> QED
    BY ONLY <1>4, <1>7, <2>1, <2>2
<1> QED
  BY <1>1, <1>6, <1>9, <1>10 DEF u, v, OldestTeeArtifacts

(* What an unstuck pruning counts are the logs there are.                  *)
LEMMA BoundStep ==
  ASSUME NEW p, Procs = {p}, TeeInv(p), BoundInv(p), [Next]_vars
  PROVE  BoundInv(p)'
<1> SUFFICES ASSUME pc'[p] = "prune", ~scan'[p].stuck
             PROVE  /\ scan'[p].count = Len(Logs') /\ scan'[p].bytes = TotalBytes(Logs')
                    /\ scan'[p].todo = OldestTeeArtifacts(Logs')
  BY DEF BoundInv, TotalBytes, OldestTeeArtifacts
<1>1. CASE Scan(p)
  <2> DEFINE s == Pruning(OldestTeeArtifacts(Logs), Len(Logs), TotalBytes(Logs), {}, FALSE,
                          scan[p].then)
  <2>1. scan' = [scan EXCEPT ![p] = s]
    BY <1>1 DEF Scan
  <2>2. /\ s.count = Len(Logs) /\ s.bytes = TotalBytes(Logs)
        /\ s.todo = OldestTeeArtifacts(Logs)
    BY DEF Pruning
  <2> HIDE DEF s
  <2>3. scan'[p] = s
    BY <2>1, Known DEF TypeOK
  <2> QED
    BY <1>1, <2>2, <2>3, ScanKeepsLogs
<1>2. CASE RemoveExcess(p)
  <2> DEFINE s == scan[p]
             h == Head(s.todo)
             gone == Pruning(Tail(s.todo), s.count - 1, s.bytes - SizeOf[h], s.removed \cup {h},
                             s.stuck, s.then)
             stays == Pruning(Tail(s.todo), s.count, s.bytes, s.removed, TRUE, s.then)
  <2>1. /\ pc[p] = "prune" /\ s.todo # <<>>
        /\ \/ dir' = Without(dir, "log", h) /\ scan' = [scan EXCEPT ![p] = gone]
           \/ scan' = [scan EXCEPT ![p] = stays]
    BY <1>2 DEF RemoveExcess, Enough
  <2>2. /\ gone.todo = Tail(s.todo) /\ gone.count = s.count - 1
        /\ gone.bytes = s.bytes - SizeOf[h] /\ gone.stuck = s.stuck /\ stays.stuck = TRUE
    BY DEF Pruning
  <2> HIDE DEF gone, stays, h, s
  <2>3. \A x : scan' = [scan EXCEPT ![p] = x] => scan'[p] = x
    BY Known DEF TypeOK
  <2>4. dir' = Without(dir, "log", h) /\ scan'[p] = gone /\ ~s.stuck
    BY <2>1, <2>2, <2>3
  <2>5. /\ s.count = Len(Logs) /\ s.bytes = TotalBytes(Logs)
        /\ s.todo = OldestTeeArtifacts(Logs)
    BY <2>1, <2>4 DEF BoundInv, s
  <2>6. Logs \in Seq(Runs)
    BY Known, LogsType
  <2>7. /\ Logs # <<>> /\ h = Head(Logs) /\ Tail(s.todo) = OldestTeeArtifacts(Tail(Logs))
    BY <2>1, <2>5, <2>6, CandidatesLeft DEF h
  <2>8. dir' \in Seq(Files)
    BY <1>2, RemoveExcessKeeps DEF TeeInv, TypeOK
  <2>9. Logs' = Tail(Logs)
    BY <2>4, <2>7, <2>8, OldestRemoved
  <2>10. Len(Tail(Logs)) = Len(Logs) - 1 /\ TotalBytes(Tail(Logs)) = TotalBytes(Logs) - SizeOf[h]
    BY <2>6, <2>7, TailType, TotalWithoutHead
  <2> QED
    BY <2>2, <2>4, <2>5, <2>7, <2>9, <2>10
<1>3. CASE Hour
  <2>1. Logs' = Logs /\ pc' = pc /\ scan' = scan
    BY <1>3, AgedKeepsLogs DEF Hour
  <2> QED
    BY <2>1 DEF BoundInv
<1>4. CASE UNCHANGED vars
  <2>1. Logs' = Logs /\ pc' = pc /\ scan' = scan
    BY <1>4 DEF vars, Logs
  <2> QED
    BY <2>1 DEF BoundInv
<1> QED
  BY <1>1, <1>2, <1>3, <1>4, OnlyPruning

(* A pruning ends when it has removed enough. *)
LEMMA EndOfPruning ==
  ASSUME NEW p, Procs = {p}, TeeInv(p), [Next]_vars,
         pc[p] = "prune", pc'[p] \in {"drop", "decide", "cleanup"}
  PROVE  Enough(scan[p])
<1>1. ASSUME CaptureStep(p) PROVE FALSE
  BY <1>1 DEF CaptureStep, Start, Write, Keep, Drop, Retain, Defer, DeferFails, Cleanup, Index,
     IndexFails, Show
<1>2. ASSUME CommandStep(p) PROVE FALSE
  BY <1>2 DEF CommandStep, PruneCommand, Sweep, SweepFails, Swept
<1>3. ASSUME PruneStep(p) PROVE Enough(scan[p])
  BY <1>3 DEF PruneStep, Scan, ScanFails, RemoveExcess, Pruned, DropEntries, Truncate, DropFails,
     Replace, ReplaceFails, Replaced
<1>4. ASSUME Crash(p) PROVE FALSE
  <2>1. pc'[p] = "idle"
    BY <1>4, Known, Alone DEF Crash, Labels
  <2> QED
    BY <2>1
<1>5. ASSUME Hour \/ UNCHANGED vars PROVE FALSE
  BY <1>5 DEF Hour, vars
<1> QED
  BY <1>1, <1>2, <1>3, <1>4, <1>5 DEF Next

-----------------------------------------------------------------------------
(* The theorems: there is one process at a time. *)

(* The types, and what relates the directory, the index and what the       *)
(* process has yet to do to them: the invariant the rest follows from.     *)
THEOREM TeeInvariant ==
  ASSUME NEW CONSTANT p, Procs = {p}
  PROVE  Spec => []TeeInv(p)
<1>1. Init => TeeInv(p)
  BY InitInv
<1>2. TeeInv(p) /\ [Next]_vars => TeeInv(p)'
  BY InvStep
<1> QED
  BY <1>1, <1>2, PTL DEF Spec

(* A run that is shown the path of its output finds it there, whatever its *)
(* pruning, failed calls and dead predecessors did to the directory.       *)
THEOREM ShownOutputIsThere ==
  ASSUME NEW CONSTANT p, Procs = {p}
  PROVE  Spec => []ReferenceLives
<1>1. TeeInv(p) => ReferenceLives
  <2> SUFFICES ASSUME TeeInv(p), NEW q \in Procs, pc[q] = "show", job[q].path
               PROVE  job[q].run \in LogRuns
    BY DEF ReferenceLives
  <2>1. q = p
    OBVIOUS
  <2>2. EndsWith(dir, job[p].run) /\ job[p].run \in Runs
    BY <2>1, Current DEF TeeInv, RunInv, Here
  <2> QED
    BY <2>1, <2>2, Known
<1> QED
  BY <1>1, TeeInvariant, PTL

(* An entry of the index whose file is gone is about to be dropped, or a   *)
(* call failed or a process died on the way.                               *)
THEOREM EntriesHaveFiles ==
  ASSUME NEW CONSTANT p, Procs = {p}
  PROVE  Spec => []EntryHasFile
<1>1. TeeInv(p) => EntryHasFile
  BY DEF TeeInv
<1> QED
  BY <1>1, TeeInvariant, PTL

(* A log without an entry is that of the run in progress, or is about to   *)
(* get its entry back, or a call failed or a process died on the way.      *)
THEOREM FilesHaveEntries ==
  ASSUME NEW CONSTANT p, Procs = {p}
  PROVE  Spec => []FileHasEntry
<1>1. TeeInv(p) => FileHasEntry
  BY DEF TeeInv
<1> QED
  BY <1>1, TeeInvariant, PTL

(* Unless a file would not go, a pruning ends within both caps, or with    *)
(* one file.                                                               *)
THEOREM PruningBounds ==
  ASSUME NEW CONSTANT p, Procs = {p}
  PROVE  Spec => BoundedAfterPrune
<1>1. Init => BoundInv(p)
  BY DEF Init, BoundInv
<1>2. TeeInv(p) /\ BoundInv(p) /\ [Next]_vars => BoundInv(p)'
  BY BoundStep
<1>3. TeeInv(p) /\ BoundInv(p) /\ [Next]_vars => [PrunedIsBounded]_vars
  <2> SUFFICES ASSUME TeeInv(p), BoundInv(p), [Next]_vars, NEW q \in Procs, PruneEnds(q)
               PROVE  Bounded
    BY DEF PrunedIsBounded
  <2>1. /\ q = p /\ pc[p] = "prune" /\ pc'[p] \in {"drop", "decide", "cleanup"}
        /\ ~scan[p].stuck
    BY DEF PruneEnds
  <2>2. Enough(scan[p])
    BY <2>1, EndOfPruning
  <2>3. /\ scan[p].count = Len(Logs) /\ scan[p].bytes = TotalBytes(Logs)
        /\ scan[p].todo = OldestTeeArtifacts(Logs) /\ Logs \in Seq(Runs)
    BY <2>1, Known, LogsType DEF BoundInv
  <2>4. CASE OldestTeeArtifacts(Logs) = <<>>
    <3> DEFINE t == Logs
    <3>1. t = <<>> \/ (t # <<>> /\ Front(t) = <<>>)
      BY <2>4 DEF OldestTeeArtifacts
    <3> HIDE DEF t
    <3>2. t \in Seq(Runs)
      BY <2>3 DEF t
    <3>3. Len(t) <= 1
      <4>1. CASE t = <<>>
        BY <4>1
      <4>2. CASE t # <<>> /\ Front(t) = <<>>
        <5>1. Len(Front(t)) = Len(t) - 1 /\ Len(Front(t)) = 0 /\ Len(t) \in Nat
          BY <3>2, <4>2, FrontType, ToSetType
        <5> QED
          BY <5>1
      <4> QED
        BY <3>1, <4>1, <4>2
    <3> QED
      BY <3>3 DEF Bounded, t
  <2>5. CASE WithinCaps(scan[p].count, scan[p].bytes)
    BY <2>3, <2>5 DEF WithinCaps, Bounded
  <2> QED
    BY <2>2, <2>3, <2>4, <2>5 DEF Enough
<1> QED
  BY <1>1, <1>2, <1>3, TeeInvariant, PTL DEF Spec, BoundedAfterPrune
=============================================================================
