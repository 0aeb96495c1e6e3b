------------------------------ MODULE TeeStore ------------------------------
(***************************************************************************)
(* The tee directory: the raw outputs szr keeps so that what a render hid  *)
(* can be looked up, and index.jsonl, which says what they are.            *)
(* internal/engine/tee.go, tee_retention.go, engine_execute_artifacts.go,  *)
(* internal/teeindex and "szr tee prune" of internal/cli/tee.go.           *)
(*                                                                         *)
(* A run writes its capture to a .partial file, renames it to a .log when  *)
(* it is to be kept, prunes the directory, shows where its output is and   *)
(* appends an entry to the index.  Nothing is locked: the processes go     *)
(* through this one file-system call at a time, calls fail, and processes  *)
(* die.                                                                    *)
(*                                                                         *)
(* The n-th run has n for the name of its file, for the line of its entry  *)
(* and, to "szr tee prune", for its timestamp.                             *)
(***************************************************************************)
EXTENDS Integers, Sequences, FiniteSets, SequencesExt, Loops

CONSTANTS
  Procs,        \* szr processes
  MaxRuns,      \* bound: runs of commands
  SizeOf,       \* the size of each run's raw output, after capping
  MaxDirFiles,  \* teeLimits.maxDirFiles
  MaxDirBytes,  \* teeLimits.maxDirBytes
  Hours,        \* whether an hour passes in which nothing is written
  Commands,     \* whether "szr tee prune" is used
  Faults,       \* whether file-system calls may fail
  Crashes       \* whether a process may die

Runs == 1 .. MaxRuns

ASSUME TeeAssumption ==
  /\ MaxRuns \in Nat
  /\ SizeOf \in [Runs -> Nat \ {0}]
  /\ MaxDirFiles \in Nat \ {0} /\ MaxDirBytes \in Nat \ {0}
  /\ Hours \in BOOLEAN /\ Commands \in BOOLEAN
  /\ Faults \in BOOLEAN /\ Crashes \in BOOLEAN

VARIABLES
  dir,      \* the files of the directory, the least recently written first
  index,    \* the lines of the index: runs, Torn or Cut
  next,     \* the next run
  pc,       \* where each process is
  job,      \* the run each process is finishing
  scan,     \* how far its pruning is
  rest,     \* the entries its Replace has yet to write, and where
  excused   \* history: runs under whose file or entry a call failed or a
            \*   process died

vars == <<dir, index, next, pc, job, scan, rest, excused>>

(* A line that does not parse, and one whose newline was never written. *)
Torn == 0
Cut == -1

File(r, kind) == [run |-> r, kind |-> kind, stale |-> FALSE]

Without(files, kind, r) ==
  KeepAt(files, {i \in DOMAIN files : files[i].kind # kind \/ files[i].run # r})

RunsOf(files) == [i \in DOMAIN files |-> files[i].run]
Logs == RunsOf(KeepAt(dir, {i \in DOMAIN dir : dir[i].kind = "log"}))
RunsWith(kind) == {f.run : f \in {g \in ToSet(dir) : g.kind = kind}}
PartialRuns == RunsWith("partial")
LogRuns == RunsWith("log")

TotalBytes(runs) == SumOfLast([i \in DOMAIN runs |-> SizeOf[runs[i]]], Len(runs))

(* The entries of the index as LoadAll returns them, and their runs. *)
Entries == KeepAt(index, {i \in DOMAIN index : index[i] \in Runs})
Indexed == ToSet(index) \cap Runs

(* What an append does to the index: it continues a line that was cut. *)
Appended(lines, r) ==
  IF lines # <<>> /\ Last(lines) = Cut
  THEN Append(Front(lines), IF r = Cut THEN Cut ELSE Torn)
  ELSE Append(lines, r)

Job(run, keep, capture, path) ==
  [run |-> run, keep |-> keep, capture |-> capture, path |-> path]
NoJob == Job(0, FALSE, FALSE, FALSE)

Pruning(todo, count, bytes, removed, stuck, then) ==
  [todo |-> todo, count |-> count, bytes |-> bytes, removed |-> removed, stuck |-> stuck,
   then |-> then]
NoScan == Pruning(<<>>, 0, 0, {}, FALSE, "idle")
PruneThen(label) == Pruning(<<>>, 0, 0, {}, FALSE, label)

Rest(entries, at) == [entries |-> entries, at |-> at]
NoRest == Rest(<<>>, 0)

Init ==
  /\ dir = <<>>
  /\ index = <<>>
  /\ next = 1
  /\ pc = [p \in Procs |-> "idle"]
  /\ job = [p \in Procs |-> NoJob]
  /\ scan = [p \in Procs |-> NoScan]
  /\ rest = [p \in Procs |-> NoRest]
  /\ excused = {}

Goto(p, label) == pc' = [pc EXCEPT ![p] = label]

-----------------------------------------------------------------------------
(* The capture.  What goes into the file is the business of StreamCapture. *)

(* newTeeCapture; without a file nothing is captured.                      *)
Start(p) ==
  /\ pc[p] = "idle"
  /\ next \in Runs
  /\ \E k \in BOOLEAN : job' = [job EXCEPT ![p] = Job(next, k, FALSE, FALSE)]
  /\ next' = next + 1
  /\ \/ /\ dir' = Append(dir, File(next, "partial"))
        /\ Goto(p, "capture")
     \/ /\ Faults
        /\ Goto(p, "decide")
        /\ UNCHANGED dir
  /\ UNCHANGED <<index, scan, rest, excused>>

(* The command writes, and its capture is the newest file again.           *)
Write(p) ==
  /\ pc[p] = "capture"
  /\ \E f \in ToSet(dir) :
       /\ f.run = job[p].run
       /\ f.stale \/ f # Last(dir)
       /\ dir' = Append(Without(dir, "partial", f.run), File(f.run, "partial"))
  /\ UNCHANGED <<index, next, pc, job, scan, rest, excused>>

(* An hour passes, and nobody writes anything.                             *)
Hour ==
  /\ Hours
  /\ \E f \in ToSet(dir) : f.kind = "partial" /\ ~f.stale
  /\ dir' = [i \in DOMAIN dir |-> [run |-> dir[i].run, kind |-> dir[i].kind,
                                stale |-> dir[i].stale \/ dir[i].kind = "partial"]]
  /\ UNCHANGED <<index, next, pc, job, scan, rest, excused>>

(* finalizeLocked renames the capture, which keeps its time; a failure is  *)
(* pruned for.                                                             *)
Keep(p, exit) ==
  /\ pc[p] = "capture"
  /\ exit # 0 \/ job[p].keep
  /\ job[p].run \in PartialRuns
  /\ dir' = [i \in DOMAIN dir |->
               IF dir[i].run = job[p].run THEN File(job[p].run, "log") ELSE dir[i]]
  /\ job' = [job EXCEPT ![p] = Job(job[p].run, job[p].keep, TRUE, FALSE)]
  /\ scan' = [scan EXCEPT ![p] = PruneThen("decide")]
  /\ Goto(p, IF exit # 0 THEN "scan" ELSE "decide")
  /\ UNCHANGED <<index, next, rest, excused>>

(* It is not wanted, it failed, or it is gone and cannot be renamed; the   *)
(* error of the removal is ignored.                                        *)
Drop(p, exit) ==
  /\ pc[p] = "capture"
  /\ \/ exit = 0 /\ ~job[p].keep
     \/ Faults
     \/ job[p].run \notin PartialRuns
  /\ \/ dir' = Without(dir, "partial", job[p].run)
     \/ Faults /\ UNCHANGED dir
  /\ Goto(p, "decide")
  /\ UNCHANGED <<index, next, job, scan, rest, excused>>

-----------------------------------------------------------------------------
(* pruneTeeDir.                                                            *)

(* Broken: the newest log may go as well. *)
EvenNewest(logs) == logs

(* oldestTeeArtifacts. *)
OldestTeeArtifacts(logs) == IF logs = <<>> THEN <<>> ELSE Front(logs)

(* collectTeeArtifacts: partials nobody has written for an hour go, if     *)
(* they can be removed; the logs, but for the newest, are candidates.      *)
Scan(p) ==
  /\ pc[p] = "scan"
  /\ \E stay \in SUBSET {f \in ToSet(dir) : f.stale} :
       /\ stay = {} \/ Faults
       /\ dir' = KeepAt(dir, {i \in DOMAIN dir : ~dir[i].stale \/ dir[i] \in stay})
  /\ LET logs == Logs IN
     scan' = [scan EXCEPT ![p] = Pruning(OldestTeeArtifacts(logs), Len(logs), TotalBytes(logs),
                                         {}, FALSE, scan[p].then)]
  /\ Goto(p, "prune")
  /\ UNCHANGED <<index, next, job, rest, excused>>

(* The process has no more to do to the directory and the index. *)
ScanDone(p) ==
  /\ scan' = [scan EXCEPT ![p] = NoScan]
  /\ rest' = [rest EXCEPT ![p] = NoRest]
  /\ Goto(p, scan[p].then)

ScanFails(p) ==
  /\ Faults
  /\ pc[p] = "scan"
  /\ ScanDone(p)
  /\ UNCHANGED <<dir, index, next, job, excused>>

(* Broken: one cap is enough. *)
WithinOneCap(count, bytes) == count <= MaxDirFiles \/ bytes <= MaxDirBytes

WithinCaps(count, bytes) == count <= MaxDirFiles /\ bytes <= MaxDirBytes

Enough(s) == s.todo = <<>> \/ WithinCaps(s.count, s.bytes)

(* removeExcessTeeArtifacts, one file at a time; a file another process    *)
(* has removed counts as removed.                                          *)
RemoveExcess(p) ==
  LET s == scan[p]
      r == Head(s.todo)
  IN /\ pc[p] = "prune"
     /\ ~Enough(s)
     /\ \/ /\ dir' = Without(dir, "log", r)
           /\ scan' = [scan EXCEPT ![p] = Pruning(Tail(s.todo), s.count - 1,
                          s.bytes - SizeOf[r], s.removed \cup {r}, s.stuck, s.then)]
        \/ /\ Faults
           /\ scan' = [scan EXCEPT ![p] =
                          Pruning(Tail(s.todo), s.count, s.bytes, s.removed, TRUE, s.then)]
           /\ UNCHANGED dir
     /\ UNCHANGED <<index, next, pc, job, rest, excused>>

Pruned(p) ==
  /\ pc[p] = "prune"
  /\ Enough(scan[p])
  /\ IF scan[p].removed = {} THEN ScanDone(p)
     ELSE Goto(p, "drop") /\ UNCHANGED <<scan, rest>>
  /\ UNCHANGED <<dir, index, next, job, excused>>

(* Broken: the entries of the files that were removed stay. *)
Inverted(entries, removed) == KeepAt(entries, {i \in DOMAIN entries : entries[i] \in removed})

(* filterRemovedTeeIndexEntries. *)
Survivors(entries, removed) ==
  KeepAt(entries, {i \in DOMAIN entries : entries[i] \notin removed})

(* dropTeeIndexEntries, up to Replace. *)
DropEntries(p) ==
  /\ pc[p] = "drop"
  /\ IF Indexed \cap scan[p].removed = {} THEN ScanDone(p)
     ELSE /\ rest' = [rest EXCEPT ![p] = Rest(Survivors(Entries, scan[p].removed), 0)]
          /\ Goto(p, "truncate")
          /\ UNCHANGED scan
  /\ UNCHANGED <<dir, index, next, job, excused>>

(* Broken: the index is written over, and keeps its length. *)
TruncateNothing(p) ==
  /\ pc[p] = "truncate"
  /\ Goto(p, "replace")
  /\ UNCHANGED <<dir, index, next, job, scan, rest, excused>>

(* Replace creates the index anew, in place. *)
Truncate(p) ==
  /\ pc[p] = "truncate"
  /\ index' = <<>>
  /\ Goto(p, "replace")
  /\ UNCHANGED <<dir, next, job, scan, rest, excused>>

(* LoadAll or os.Create fails. *)
DropFails(p) ==
  /\ Faults
  /\ pc[p] \in {"drop", "truncate"}
  /\ ScanDone(p)
  /\ excused' = excused \cup scan[p].removed
  /\ UNCHANGED <<dir, index, next, job>>

(* A line is written where the last one ended, not at the end of the file. *)
WriteAt(lines, n, r) ==
  [i \in 1 .. (IF n < Len(lines) THEN Len(lines) ELSE n + 1) |->
     IF i = n + 1 THEN r ELSE IF i <= Len(lines) THEN lines[i] ELSE Torn]

(* One entry at a time. *)
Replace(p) ==
  LET w == rest[p]
  IN /\ pc[p] = "replace"
     /\ w.entries # <<>>
     /\ index' = WriteAt(index, w.at, Head(w.entries))
     /\ rest' = [rest EXCEPT ![p] = Rest(Tail(w.entries), w.at + 1)]
     /\ UNCHANGED <<dir, next, pc, job, scan, excused>>

ReplaceFails(p) ==
  /\ Faults
  /\ pc[p] = "replace"
  /\ rest[p].entries # <<>>
  /\ index' \in {index, WriteAt(index, rest[p].at, Cut)}
  /\ excused' = excused \cup ToSet(rest[p].entries)
  /\ ScanDone(p)
  /\ UNCHANGED <<dir, next, job>>

Replaced(p) ==
  /\ pc[p] = "replace"
  /\ rest[p].entries = <<>>
  /\ ScanDone(p)
  /\ UNCHANGED <<dir, index, next, job, excused>>

-----------------------------------------------------------------------------
(* The rest of the run.                                                    *)

(* os.Remove of the run's log, its error ignored. *)
RemoveLog(r) ==
  \/ dir' = Without(dir, "log", r) /\ UNCHANGED excused
  \/ Faults /\ UNCHANGED dir /\ excused' = excused \cup {r}

(* retainExistingTeeArtifact: the capture is what will be shown, or is     *)
(* left to session dedup, or goes.                                         *)
Retain(p) ==
  /\ pc[p] = "decide"
  /\ job[p].capture
  /\ \E persist \in BOOLEAN :
       /\ job' = [job EXCEPT ![p] = Job(job[p].run, job[p].keep, TRUE, persist)]
       /\ IF persist \/ job[p].keep THEN UNCHANGED <<dir, excused>>
          ELSE RemoveLog(job[p].run)
  /\ Goto(p, "cleanup")
  /\ UNCHANGED <<index, next, scan, rest>>

(* writeDeferredTeeArtifact: there is no capture, and what is in memory is *)
(* written instead, or nothing is.                                         *)
Defer(p) ==
  /\ pc[p] = "decide"
  /\ ~job[p].capture
  /\ \/ /\ dir' = Append(dir, File(job[p].run, "log"))
        /\ job' = [job EXCEPT ![p] = Job(job[p].run, job[p].keep, FALSE, TRUE)]
        /\ scan' = [scan EXCEPT ![p] = PruneThen("cleanup")]
        /\ Goto(p, "scan")
     \/ /\ Goto(p, "cleanup")
        /\ UNCHANGED <<dir, job, scan>>
  /\ UNCHANGED <<index, next, rest, excused>>

(* os.WriteFile fails, the file created or not. *)
DeferFails(p) ==
  /\ Faults
  /\ pc[p] = "decide"
  /\ ~job[p].capture
  /\ dir' = Append(dir, File(job[p].run, "log"))
  /\ excused' = excused \cup {job[p].run}
  /\ Goto(p, "cleanup")
  /\ UNCHANGED <<index, next, job, scan, rest>>

(* Broken: a capture that is not shown stays. *)
CleanupNothing(p) ==
  /\ pc[p] = "cleanup"
  /\ Goto(p, IF job[p].path THEN "index" ELSE "show")
  /\ UNCHANGED <<dir, excused, index, next, job, scan, rest>>

(* cleanupDedupCapture: session dedup has what it needs. *)
Cleanup(p) ==
  /\ pc[p] = "cleanup"
  /\ IF job[p].capture /\ ~job[p].path THEN RemoveLog(job[p].run)
     ELSE UNCHANGED <<dir, excused>>
  /\ Goto(p, IF job[p].path THEN "index" ELSE "show")
  /\ UNCHANGED <<index, next, job, scan, rest>>

(* teeindex Append, by appendStreamingHistory, which ignores its error.    *)
Index(p) ==
  /\ pc[p] = "index"
  /\ index' = Appended(index, job[p].run)
  /\ excused' = IF Last(index') = Torn THEN excused \cup {job[p].run} ELSE excused
  /\ Goto(p, "show")
  /\ UNCHANGED <<dir, next, job, scan, rest>>

IndexFails(p) ==
  /\ Faults
  /\ pc[p] = "index"
  /\ index' \in {index, Appended(index, Cut)}
  /\ excused' = excused \cup {job[p].run}
  /\ Goto(p, "show")
  /\ UNCHANGED <<dir, next, job, scan, rest>>

(* The result is shown, and the process ends. *)
Show(p) ==
  /\ pc[p] = "show"
  /\ Goto(p, "idle")
  /\ job' = [job EXCEPT ![p] = NoJob]
  /\ UNCHANGED <<dir, index, next, scan, rest, excused>>

Crash(p) ==
  /\ Crashes
  /\ pc[p] \notin {"idle", "show"}
  /\ Goto(p, "idle")
  /\ excused' = excused \cup ({job[p].run} \cap Runs) \cup scan[p].removed \cup ToSet(rest[p].entries)
  /\ job' = [job EXCEPT ![p] = NoJob]
  /\ scan' = [scan EXCEPT ![p] = NoScan]
  /\ rest' = [rest EXCEPT ![p] = NoRest]
  /\ UNCHANGED <<dir, index, next>>

-----------------------------------------------------------------------------
(* szr tee prune: entries that are old or beyond those to keep, and those  *)
(* whose file is missing, go; a cutoff stands for --days and for --keep,   *)
(* and the files are looked for all at once.                               *)

NewestFirst(runs) ==
  LET descending == [i \in 1 .. MaxRuns |-> MaxRuns + 1 - i]
  IN KeepAt(descending, {i \in 1 .. MaxRuns : descending[i] \in runs})

(* What is removed: entries up to a cutoff, and those without a file. *)
Removals ==
  LET entries == Indexed
      missing == entries \ LogRuns
  IN {{r \in entries : r <= cutoff} \cup also : cutoff \in 0 .. next - 1, also \in {{}, missing}}

PruneCommand(p) ==
  /\ Commands
  /\ pc[p] = "idle"
  /\ \E removed \in Removals :
       /\ scan' = [scan EXCEPT ![p] = Pruning(NewestFirst(removed), 0, 0, removed, FALSE, "idle")]
       /\ rest' = [rest EXCEPT ![p] = Rest(NewestFirst(Indexed \ removed), 0)]
  /\ Goto(p, "sweep")
  /\ UNCHANGED <<dir, index, next, job, excused>>

Sweep(p) ==
  /\ pc[p] = "sweep"
  /\ scan[p].todo # <<>>
  /\ dir' = Without(dir, "log", Head(scan[p].todo))
  /\ scan' = [scan EXCEPT ![p] = Pruning(Tail(scan[p].todo), 0, 0, scan[p].removed, FALSE, "idle")]
  /\ UNCHANGED <<index, next, pc, job, rest, excused>>

(* A file cannot be removed: the command ends there. *)
SweepFails(p) ==
  /\ Faults
  /\ pc[p] = "sweep"
  /\ scan[p].todo # <<>>
  /\ ScanDone(p)
  /\ excused' = excused \cup scan[p].removed
  /\ UNCHANGED <<dir, index, next, job>>

Swept(p) ==
  /\ pc[p] = "sweep"
  /\ scan[p].todo = <<>>
  /\ Goto(p, "truncate")
  /\ UNCHANGED <<dir, index, next, job, scan, rest, excused>>

CaptureStep(p) == \/ Start(p) \/ Write(p)
                  \/ \E exit \in {0, 1} : Keep(p, exit) \/ Drop(p, exit)
                  \/ Retain(p) \/ Defer(p) \/ DeferFails(p) \/ Cleanup(p)
                  \/ Index(p) \/ IndexFails(p) \/ Show(p)

PruneStep(p) == \/ Scan(p) \/ ScanFails(p) \/ RemoveExcess(p) \/ Pruned(p)
                \/ DropEntries(p) \/ Truncate(p) \/ DropFails(p)
                \/ Replace(p) \/ ReplaceFails(p) \/ Replaced(p)

CommandStep(p) == PruneCommand(p) \/ Sweep(p) \/ SweepFails(p) \/ Swept(p)

Next == \/ \E p \in Procs : CaptureStep(p) \/ PruneStep(p) \/ CommandStep(p) \/ Crash(p)
        \/ Hour

Spec == Init /\ [][Next]_vars

-----------------------------------------------------------------------------
(* Properties.                                                             *)

(* The run that is shown the path of its output finds it there: its own    *)
(* pruning does not remove it.                                             *)
ReferenceLives ==
  \A p \in Procs : pc[p] = "show" /\ job[p].path => job[p].run \in LogRuns

(* The index never serves what pruning removed, once it is done; nor what  *)
(* was removed because nobody asked for it.                                *)
EntryHasFile ==
  Indexed \subseteq excused \cup LogRuns \cup UNION {scan[p].removed : p \in Procs}

(* A file that stays can be found in the index: captures kept for session  *)
(* dedup do not pile up, and rewriting the index loses none of them.       *)
FileHasEntry ==
  LogRuns \subseteq excused \cup Indexed
                      \cup UNION {{job[p].run} \cup ToSet(rest[p].entries) : p \in Procs}

Bounded == Len(Logs) <= 1 \/ (Len(Logs) <= MaxDirFiles /\ TotalBytes(Logs) <= MaxDirBytes)

(* A step that ends the pruning of a directory all of whose files would go. *)
PruneEnds(p) ==
  /\ pc[p] = "prune"
  /\ pc'[p] \in {"drop", "decide", "cleanup"}
  /\ ~scan[p].stuck
PrunedIsBounded == \A p \in Procs : PruneEnds(p) => Bounded

(* Pruning leaves the directory within both caps, or with one file; unless *)
(* a file would not go.                                                    *)
BoundedAfterPrune == [][PrunedIsBounded]_vars

(* "Full-output retention is bounded by default": between runs, the        *)
(* directory is within its caps.                                           *)
RetentionIsBounded == (\A p \in Procs : pc[p] = "idle") => Bounded
=============================================================================
