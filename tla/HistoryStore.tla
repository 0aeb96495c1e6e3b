---------------------------- MODULE HistoryStore ----------------------------
(***************************************************************************)
(* The run history of internal/history: history.jsonl, to which every szr  *)
(* process appends the record of its run, and history-totals.json, which   *)
(* keeps counting the runs that compaction removes from it.                *)
(*                                                                         *)
(* Nothing locks the two files.  A process goes through an operation one   *)
(* file-system call at a time; calls of other processes fall in between,   *)
(* calls fail, and a process may die at any of them.                       *)
(*                                                                         *)
(* A rename gives the path a new inode: "inodes" lists them, the last one  *)
(* being the file itself, and a process that opened an earlier one writes  *)
(* where nobody will read.                                                 *)
(***************************************************************************)
EXTENDS Integers, Sequences, FiniteSets, Loops

CONSTANTS
  Procs,          \* szr processes
  MaxRuns,        \* bound: records ever appended, those of the first file included
  Excluded,       \* runs of commands SavingsExcludedCommand leaves out
  LineSizes,      \* the sizes of an ordinary line, newline included
  ClippedSize,    \* the size of a line whose command was clipped
  OversizedSize,  \* the size of a line longer than maxRecordLineBytes
  MaxFileBytes,   \* the size that triggers compaction
  RetainRecords,  \* the records a compaction keeps at most
  MaxLegacy,      \* bound: lines of the file the first process finds
  Faults,         \* whether file-system calls may fail
  Crashes,        \* whether a process may die during an operation
  Clears          \* whether "szr clear-spread" is used

Runs == 1 .. MaxRuns

ASSUME HistoryAssumption ==
  /\ MaxRuns \in Nat /\ MaxLegacy \in 0 .. MaxRuns
  /\ Excluded \subseteq Runs
  /\ LineSizes \subseteq Nat \ {0} /\ ClippedSize \in LineSizes
  /\ OversizedSize \in Nat \ {0}
  /\ MaxFileBytes \in Nat /\ RetainRecords \in Nat \ {0}
  /\ Faults \in BOOLEAN /\ Crashes \in BOOLEAN /\ Clears \in BOOLEAN

VARIABLES
  inodes,   \* every file history.jsonl has been: sequences of lines
  totals,   \* history-totals.json: how often each run is counted, and the
            \*   number of dropped lines
  pc,       \* where each process is
  fd,       \* the inode each process has open
  batch,    \* what each process's compaction keeps, removes and drops
  held,     \* the totals each process has read
  repair,   \* repairPending of each process
  next,     \* the next run to be recorded
  mine,     \* the run each process recorded last
  failed,   \* history: whether a call of its last Append failed
  waived,   \* history: runs whose loss the code accepts
  cleared   \* history: runs recorded before the last Clear that succeeded

vars == <<inodes, totals, pc, fd, batch, held, repair, next, mine,
          failed, waived, cleared>>

-----------------------------------------------------------------------------
(* Lines.  A line is torn when it does not parse, and not ended when the   *)
(* write of its newline failed: what is appended next continues it.        *)

Line(run, kind, size, ended) ==
  [run |-> run, kind |-> kind, size |-> size, ended |-> ended]

File == inodes[Len(inodes)]

(* The bytes of the last n lines, and of all of them.                      *)
BytesOfLast(lines, n) == SumOfLast([i \in DOMAIN lines |-> lines[i].size], n)
Bytes(lines) == BytesOfLast(lines, Len(lines))

(* The runs a reader finds in these lines.                                 *)
Readable(line) == line.kind # "torn"
RunsIn(lines) == {lines[i].run : i \in {j \in DOMAIN lines : Readable(lines[j])}}
Window == RunsIn(File)

Glued(lines) == lines # <<>> /\ ~lines[Len(lines)].ended

(* What appending a line does to a file.                                   *)
Appended(lines, line) ==
  IF ~Glued(lines) THEN Append(lines, line)
  ELSE [lines EXCEPT ![Len(lines)] =
          Line(line.run, "torn", @.size + line.size, line.ended)]

(* A line that parses is written back, its command clipped when the line   *)
(* was oversized; a line that does not is dropped.                         *)
Decoded(line) ==
  Line(line.run, "ok",
       IF line.kind = "oversized" THEN ClippedSize ELSE line.size, TRUE)

DecodedLines(lines) ==
  LET kept == KeepAt(lines, {i \in DOMAIN lines : Readable(lines[i])})
  IN [i \in DOMAIN kept |-> Decoded(kept[i])]

Count(lines, kind) == Cardinality({i \in DOMAIN lines : lines[i].kind = kind})

(* Whether retainStart, walking back from the newest line, gets as far as  *)
(* line i.                                                                 *)
Fits(lines, i) ==
  /\ Len(lines) - i < RetainRecords
  /\ \/ i = Len(lines)
     \/ BytesOfLast(lines, Len(lines) - i + 1) <= MaxFileBytes \div 2

(* The lines before the oldest one to keep. *)
RetainStart(lines) == Cardinality({i \in DOMAIN lines : ~Fits(lines, i)})

(* Broken: the whole file is archived. *)
RemovedAll(lines) == RunsIn(lines)

(* Broken: the last line removed is not archived. *)
RemovedButOne(lines) == RunsIn(SubSeq(lines, 1, RetainStart(lines) - 1))

Removed(lines) == RunsIn(SubSeq(lines, 1, RetainStart(lines)))
Retained(lines) == SubSeq(lines, RetainStart(lines) + 1, Len(lines))

NoBatch == [kept |-> <<>>, removed |-> {}, dropped |-> 0]

BatchOf(lines) ==
  LET decoded == DecodedLines(lines)
  IN [kept |-> Retained(decoded), removed |-> Removed(decoded),
      dropped |-> Count(lines, "torn")]

(* Broken: an oversized line alone is no reason to rewrite the file. *)
WorthRewritingIfDropped(lines) ==
  RetainStart(DecodedLines(lines)) > 0 \/ Count(lines, "torn") > 0

(* Repaired and dropped lines are reason enough to rewrite. *)
WorthRewriting(lines) ==
  \/ RetainStart(DecodedLines(lines)) > 0
  \/ Count(lines, "torn") > 0
  \/ Count(lines, "oversized") > 0

-----------------------------------------------------------------------------
(* The archived totals. *)

NoTotals == [count |-> [r \in Runs |-> 0], dropped |-> 0]

(* Broken: excluded commands are archived too. *)
FoldAll(t, runs, dropped) ==
  [count |-> [r \in Runs |-> t.count[r] + (IF r \in runs THEN 1 ELSE 0)],
   dropped |-> t.dropped + dropped]

(* archive and foldRecords. *)
Fold(t, runs, dropped) ==
  [count |-> [r \in Runs |->
                t.count[r] + (IF r \in runs \ Excluded THEN 1 ELSE 0)],
   dropped |-> t.dropped + dropped]

Archived == {r \in Runs : totals.count[r] > 0}

-----------------------------------------------------------------------------
(* The file an earlier version of szr may have left: ordinary lines,       *)
(* lines with an unclipped command, torn lines.                            *)
LegacyLines(r) ==
  {Line(r, "ok", n, TRUE) : n \in LineSizes}
  \cup {Line(r, "oversized", OversizedSize, TRUE), Line(r, "torn", 1, TRUE)}

Init ==
  /\ \E n \in 0 .. MaxLegacy :
       /\ next = n + 1
       /\ \E lines \in [1 .. n -> UNION {LegacyLines(r) : r \in 1 .. n}] :
            /\ \A i \in 1 .. n : lines[i] \in LegacyLines(i)
            /\ inodes = <<lines>>
            /\ waived = {i \in 1 .. n : lines[i].kind = "torn"}
  /\ totals = NoTotals
  /\ pc = [p \in Procs |-> "idle"]
  /\ fd = [p \in Procs |-> 1]
  /\ batch = [p \in Procs |-> NoBatch]
  /\ held = [p \in Procs |-> NoTotals]
  /\ repair = [p \in Procs |-> FALSE]
  /\ mine = [p \in Procs |-> 0]
  /\ failed = [p \in Procs |-> FALSE]
  /\ cleared = {}

(* A call of this process fails. *)
Fails(p) == Faults /\ failed' = [failed EXCEPT ![p] = TRUE]

Goto(p, label) == pc' = [pc EXCEPT ![p] = label]

(* The process forgets what the operation held. *)
Done(p) ==
  /\ Goto(p, "idle")
  /\ batch' = [batch EXCEPT ![p] = NoBatch]
  /\ held' = [held EXCEPT ![p] = NoTotals]

-----------------------------------------------------------------------------
(* Append. *)

Open(p) ==
  /\ pc[p] = "idle"
  /\ next \in Runs
  /\ fd' = [fd EXCEPT ![p] = Len(inodes)]
  /\ failed' = [failed EXCEPT ![p] = FALSE]
  /\ Goto(p, "write")
  /\ UNCHANGED <<inodes, totals, batch, held, repair, next, mine, waived, cleared>>

(* Continuing a line that was never ended spoils it and the one written.   *)
Spoiled(lines) ==
  IF Glued(lines) THEN {lines[Len(lines)].run, next} ELSE {}

Write(p) ==
  /\ pc[p] = "write"
  /\ next \in Runs
  /\ \E size \in LineSizes :
       inodes' = [inodes EXCEPT ![fd[p]] = Appended(@, Line(next, "ok", size, TRUE))]
  /\ waived' = waived \cup Spoiled(inodes[fd[p]])
  /\ mine' = [mine EXCEPT ![p] = next]
  /\ next' = next + 1
  /\ Goto(p, "stat")
  /\ UNCHANGED <<totals, fd, batch, held, repair, cleared, failed>>

(* The write stops short: of anything, within the record or at its newline. *)
WriteFails(p) ==
  /\ Fails(p)
  /\ pc[p] = "write"
  /\ next \in Runs
  /\ \/ UNCHANGED inodes
     \/ \E kind \in {"torn", "ok"} :
          inodes' = [inodes EXCEPT ![fd[p]] =
                       Appended(@, Line(next, kind, ClippedSize, FALSE))]
  /\ waived' = waived \cup {next} \cup Spoiled(inodes[fd[p]])
  /\ next' = next + 1
  /\ Done(p)
  /\ UNCHANGED <<totals, fd, repair, mine, cleared>>

(* Whether this Append compacts; a size that cannot be had is -1. *)
Stat(p) ==
  /\ pc[p] = "stat"
  /\ \E size \in {Bytes(inodes[fd[p]]), -1} :
       /\ IF size = -1 THEN Fails(p) ELSE UNCHANGED failed
       /\ Goto(p, IF size > MaxFileBytes \/ repair[p] THEN "read" ELSE "idle")
  /\ UNCHANGED <<inodes, totals, fd, batch, held, repair, next, mine, waived, cleared>>

(* compact: read the file and decide whether it is worth rewriting, if it  *)
(* can be read.                                                            *)
ReadLines(p) ==
  /\ pc[p] = "read"
  /\ repair' = [repair EXCEPT ![p] = FALSE]
  /\ \/ /\ WorthRewriting(File)
        /\ batch' = [batch EXCEPT ![p] = BatchOf(File)]
        /\ Goto(p, "replace")
        /\ UNCHANGED failed
     \/ /\ ~WorthRewriting(File)
        /\ Goto(p, "idle")
        /\ UNCHANGED <<batch, failed>>
     \/ /\ Fails(p)
        /\ Goto(p, "idle")
        /\ UNCHANGED batch
  /\ UNCHANGED <<inodes, totals, fd, held, next, mine, waived, cleared>>

(* Broken: the retained lines are added to the file there is. *)
ReplaceInPlace(p) ==
  /\ pc[p] = "replace"
  /\ inodes' = [inodes EXCEPT ![Len(inodes)] = @ \o batch[p].kept]
  /\ Goto(p, "archive")
  /\ UNCHANGED <<totals, fd, batch, held, repair, next, mine, waived, cleared, failed>>

(* The retained lines, written to a temporary file, are renamed over it.   *)
Replace(p) ==
  /\ pc[p] = "replace"
  /\ inodes' = Append(inodes, batch[p].kept)
  /\ Goto(p, "archive")
  /\ UNCHANGED <<totals, fd, batch, held, repair, next, mine, waived, cleared, failed>>

(* The temporary file cannot be created, written or renamed. *)
ReplaceFails(p) ==
  /\ Fails(p)
  /\ pc[p] = "replace"
  /\ Done(p)
  /\ UNCHANGED <<inodes, totals, fd, repair, next, mine, waived, cleared>>

(* archive: nothing to do, or the totals are read; what cannot be read     *)
(* counts as no totals.                                                    *)
ReadTotals(p) ==
  /\ pc[p] = "archive"
  /\ IF batch[p].removed = {} /\ batch[p].dropped = 0
     THEN Done(p) /\ UNCHANGED failed
     ELSE /\ \/ held' = [held EXCEPT ![p] = totals] /\ UNCHANGED failed
             \/ held' = [held EXCEPT ![p] = NoTotals] /\ Fails(p)
          /\ Goto(p, "fold")
          /\ UNCHANGED batch
  /\ UNCHANGED <<inodes, totals, fd, repair, next, mine, waived, cleared>>

Folded(p) == Fold(held[p], batch[p].removed, batch[p].dropped)

(* The runs counted now that the new totals will not count.                *)
Overwritten(t) == {r \in Runs : totals.count[r] > t.count[r]}

WriteTotals(p) ==
  /\ pc[p] = "fold"
  /\ totals' = Folded(p)
  /\ waived' = IF failed[p] THEN waived \cup Overwritten(Folded(p)) ELSE waived
  /\ Done(p)
  /\ UNCHANGED <<inodes, fd, repair, next, mine, cleared, failed>>

WriteTotalsFails(p) ==
  /\ Fails(p)
  /\ pc[p] = "fold"
  /\ waived' = waived \cup batch[p].removed
  /\ Done(p)
  /\ UNCHANGED <<inodes, totals, fd, repair, next, mine, cleared>>

-----------------------------------------------------------------------------
(* LoadAll, as every command does to look up its budget: an oversized line *)
(* schedules a compaction.                                                 *)
Load(p) ==
  /\ pc[p] = "idle"
  /\ Count(File, "oversized") > 0
  /\ repair' = [repair EXCEPT ![p] = TRUE]
  /\ UNCHANGED <<inodes, totals, pc, fd, batch, held, next, mine, waived, cleared, failed>>

(* Clear: the file is truncated, the totals are removed. *)
Truncate(p) ==
  /\ Clears
  /\ pc[p] = "idle"
  /\ inodes' = [inodes EXCEPT ![Len(inodes)] = <<>>]
  /\ waived' = waived \cup (1 .. next - 1)
  /\ Goto(p, "remove")
  /\ UNCHANGED <<totals, fd, batch, held, repair, next, mine, cleared, failed>>

(* Broken: the totals stay. *)
KeepTotals(p) ==
  /\ pc[p] = "remove"
  /\ cleared' = waived
  /\ Goto(p, "idle")
  /\ UNCHANGED <<inodes, totals, fd, batch, held, repair, next, mine, waived, failed>>

RemoveTotals(p) ==
  /\ pc[p] = "remove"
  /\ \/ /\ totals' = NoTotals
        /\ cleared' = waived
     \/ /\ Faults
        /\ UNCHANGED <<totals, cleared>>
  /\ Goto(p, "idle")
  /\ UNCHANGED <<inodes, fd, batch, held, repair, next, mine, waived, failed>>

(* The process dies; the next one starts with nothing pending.             *)
Crash(p) ==
  /\ Crashes
  /\ pc[p] # "idle"
  /\ waived' = IF pc[p] \in {"archive", "fold"}
               THEN waived \cup batch[p].removed ELSE waived
  /\ repair' = [repair EXCEPT ![p] = FALSE]
  /\ mine' = [mine EXCEPT ![p] = 0]
  /\ Done(p)
  /\ UNCHANGED <<inodes, totals, fd, next, cleared, failed>>

(* A command has run: its process ends and another takes its place. *)
Exit(p) ==
  /\ pc[p] = "idle"
  /\ mine[p] # 0
  /\ repair' = [repair EXCEPT ![p] = FALSE]
  /\ mine' = [mine EXCEPT ![p] = 0]
  /\ UNCHANGED <<inodes, totals, pc, fd, batch, held, next, waived, cleared, failed>>

AppendStep(p) == \/ Open(p) \/ Write(p) \/ WriteFails(p) \/ Stat(p)
                 \/ ReadLines(p) \/ Replace(p) \/ ReplaceFails(p)
                 \/ ReadTotals(p) \/ WriteTotals(p) \/ WriteTotalsFails(p)

Next == \E p \in Procs : \/ AppendStep(p)
                         \/ Load(p)
                         \/ Truncate(p)
                         \/ RemoveTotals(p)
                         \/ Crash(p)
                         \/ Exit(p)

Spec == Init /\ [][Next]_vars

-----------------------------------------------------------------------------
(* Properties.                                                             *)

Counts == {f \in [Runs -> Nat] : \A r \in Excluded : f[r] = 0}
Totals == [count : Counts, dropped : Nat]
Lines == Seq([run : Runs, kind : {"ok", "oversized", "torn"}, size : Nat,
              ended : BOOLEAN])

(* The shape of the state; no excluded command is ever archived, so that   *)
(* the archive and the window agree on what they count.                    *)
TypeOK ==
  /\ inodes \in Seq(Lines) /\ inodes # <<>>
  /\ totals \in Totals
  /\ pc \in [Procs -> {"idle", "write", "stat", "read", "replace", "archive",
                       "fold", "remove"}]
  /\ fd \in [Procs -> 1 .. Len(inodes)]
  /\ batch \in [Procs -> [kept : Lines, removed : SUBSET Runs, dropped : Nat]]
  /\ held \in [Procs -> Totals]
  /\ repair \in [Procs -> BOOLEAN]
  /\ next \in 1 .. MaxRuns + 1
  /\ mine \in [Procs -> 0 .. MaxRuns]
  /\ failed \in [Procs -> BOOLEAN]
  /\ waived \subseteq Runs /\ cleared \subseteq Runs

(* Lifetime reporting counts no run twice, whatever call of a compaction   *)
(* fails and wherever the process dies: what archive says it prefers.      *)
CountedOnce ==
  \A r \in Runs : totals.count[r] + (IF r \in Window THEN 1 ELSE 0) <= 1

Archiving == UNION {batch[p].removed : p \in {q \in Procs : pc[q] \in {"archive", "fold"}}}

(* Every recorded run is in the file, in the totals, or on its way from    *)
(* one to the other, unless a call failed under it, the process died while *)
(* archiving it, or the user cleared it.                                   *)
RunsAccounted ==
  (1 .. next - 1) \ (Excluded \cup waived) \subseteq Window \cup Archived \cup Archiving

(* The file lists the runs in the order they were recorded, each once:     *)
(* compactions of several processes replace it but never mix it.           *)
SortedWindow ==
  \A i, j \in DOMAIN File : i < j => File[i].run < File[j].run

(* A store that was cleared reports nothing of what was recorded before.   *)
ClearedIsGone == cleared \cap (Window \cup Archived) = {}

(* Append returns, no call of it having failed, and the process goes on.   *)
AppendReturns(p) ==
  /\ pc[p] \in {"stat", "read", "archive", "fold"}
  /\ pc'[p] = "idle"
  /\ mine'[p] # 0
  /\ ~failed'[p]

(* Append leaves the file in order, whatever state it finds it in: it      *)
(* returns with a file below the trigger, or of one line that is larger    *)
(* all by itself; the record just appended has survived its own            *)
(* compaction, unless it had to continue a line cut short; and a process   *)
(* that has seen an oversized line leaves none behind.                     *)
AppendSettles ==
  [][\A p \in Procs : AppendReturns(p) =>
       /\ Bytes(File)' <= MaxFileBytes \/ Len(File') <= 1
       /\ mine[p] \in Window' \cup waived
       /\ \/ Count(File', "oversized") = 0
          \/ pc[p] = "stat" /\ ~repair[p]]_vars
=============================================================================
