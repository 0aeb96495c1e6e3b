----------------------------- MODULE DedupStore -----------------------------
(***************************************************************************)
(* Session dedup: internal/dedup, and the steps of internal/engine that    *)
(* use it at the end of a run.  The output of a run is stored as an        *)
(* artifact; an entry of index.jsonl says which command, in which          *)
(* directory and scope, exited how with it.  A later run with the same     *)
(* output shows a reference instead, one whose output changed shows a      *)
(* digest of the changes, and "szr expand" resolves what was shown.        *)
(*                                                                         *)
(* Nothing locks the store.  A process goes through the end of its run one *)
(* file-system call at a time; those of other processes fall in between,   *)
(* calls fail, and a process may die at any of them.                       *)
(*                                                                         *)
(* The n-th run to get here has n for its timestamp and for the name of    *)
(* its artifact.  An output stands for its SHA-256.                        *)
(***************************************************************************)
EXTENDS Integers, Sequences, FiniteSets

CONSTANTS
  Procs,          \* szr processes
  Commands,       \* command texts
  Fingerprint,    \* what Fingerprint makes of each: folded case and spaces
  Places,         \* working directories, each with its scope
  Exits,          \* exit codes
  Outputs,        \* raw outputs
  Long,           \* those of them longer than MaxArtifactBytes
  MaxRuns,        \* bound: runs that get as far as session dedup
  Window,         \* the dedup window, in timestamps
  MaxIndexLines,  \* the lines that make compactMaxIndexBytes
  RetainEntries,  \* the entries a compaction keeps, by number and by bytes
  DeltaRender,    \* whether delta_render is on
  Faults,         \* whether file-system calls may fail
  Crashes,        \* whether a process may die before it has shown its output
  Damages         \* whether artifacts are removed or altered between runs

Times == 1 .. MaxRuns

ASSUME DedupAssumption ==
  /\ Fingerprint \in [Commands -> Commands]
  /\ Long \subseteq Outputs
  /\ MaxRuns \in Nat /\ Window \in Nat
  /\ RetainEntries \in Nat \ {0} /\ MaxIndexLines \in Nat
  /\ DeltaRender \in BOOLEAN
  /\ Faults \in BOOLEAN /\ Crashes \in BOOLEAN /\ Damages \in BOOLEAN

VARIABLES
  inodes,     \* every file index.jsonl has been; the last one is the index
  artifacts,  \* the content of each artifact file
  next,       \* the timestamp of the next run
  pc,         \* where each process is
  run,        \* the run each process is finishing
  found,      \* the entry its lookup found
  entry,      \* the entry it records
  shown,      \* the reference its display carries
  fd,         \* the inode it has open
  batch,      \* what its compaction keeps, and the artifacts it removes
  recorded,   \* history: the entries whose Append succeeded
  damaged,    \* history: the artifacts that were removed or altered
  leaked,     \* history: the artifacts whose removal or recording failed
  cut         \* history: whether a line of the index was ever cut short

vars == <<inodes, artifacts, next, pc, run, found, entry, shown, fd, batch,
          recorded, damaged, leaked, cut>>

history == <<recorded, damaged, leaked, cut>>

NoFile == "no file"
Damaged == "damaged"
None == [time |-> 0]

-----------------------------------------------------------------------------
(* The index: the entries its lines parse to, the number of lines that do  *)
(* not parse, and the line whose newline was never written: an entry's     *)
(* time, or Fragment.  Readers order entries by timestamp, so a set will   *)
(* do.                                                                     *)

Ended == 0
Fragment == -1
EmptyIndex == [entries |-> {}, torn |-> 0, loose |-> Ended]

Index == inodes[Len(inodes)]
Lines(f) == Cardinality(f.entries) + f.torn

(* A line is written, up to its newline or not; it continues a line that   *)
(* was never ended, and then neither parses.                               *)
Appended(f, e, how) ==
  IF f.loose = Ended
  THEN [entries |-> IF how = "fragment" THEN f.entries ELSE f.entries \cup {e},
        torn |-> IF how = "fragment" THEN f.torn + 1 ELSE f.torn,
        loose |-> CASE how = "ended" -> Ended
                    [] how = "fragment" -> Fragment
                    [] how = "whole" -> e.time]
  ELSE [entries |-> {g \in f.entries : g.time # f.loose},
        torn |-> IF f.loose = Fragment THEN f.torn ELSE f.torn + 1,
        loose |-> IF how = "ended" THEN Ended ELSE Fragment]

(* sortNewestFirst: the first of these entries, or None.                   *)
Newest(entries) ==
  IF entries = {} THEN None
  ELSE CHOOSE e \in entries : \A f \in entries : f.time <= e.time

(* The entries of a run's own command, directory and scope.                *)
CommandMatches(r) ==
  {e \in Index.entries : /\ Fingerprint[e.command] = Fingerprint[r.command]
                         /\ e.place = r.place
                         /\ e.time >= r.time - Window}

(* Broken: how the runs exited does not matter. *)
MatchesAnyExit(r) == {e \in CommandMatches(r) : e.output = r.output}

Matches(r) == {e \in CommandMatches(r) : e.exit = r.exit /\ e.output = r.output}

(* Broken: only that there is an artifact is checked. *)
VerifyExists(e) == artifacts[e.artifact] # NoFile

(* The artifact holds the bytes that were stored. *)
VerifyArtifact(e) == artifacts[e.artifact] = e.output

(* expand: FindRef takes the newest entry with the hash, from whatever     *)
(* run, and the artifact must verify.                                      *)
Expands(output) ==
  LET e == Newest({f \in Index.entries : f.output = output})
  IN e # None /\ artifacts[e.artifact] = output

EntryOf(r, artifact) ==
  [time |-> r.time, command |-> r.command, place |-> r.place, exit |-> r.exit,
   output |-> r.output, artifact |-> artifact]

(* The newest entries, up to RetainEntries of them. *)
Retained(entries) ==
  {e \in entries : Cardinality({f \in entries : f.time > e.time}) < RetainEntries}

(* Broken: the entries the compaction keeps may lose their artifacts. *)
AllDropped(entries) == {e.artifact : e \in entries \ Retained(entries)}

(* The artifacts only entries that were dropped refer to. *)
Orphaned(entries) ==
  {e.artifact : e \in entries \ Retained(entries)} \ {e.artifact : e \in Retained(entries)}

NoBatch == [kept |-> {}, orphans |-> {}]

-----------------------------------------------------------------------------
Init ==
  /\ inodes = <<EmptyIndex>>
  /\ artifacts = [t \in Times |-> NoFile]
  /\ next = 1
  /\ pc = [p \in Procs |-> "idle"]
  /\ run = [p \in Procs |-> None]
  /\ found = [p \in Procs |-> None]
  /\ entry = [p \in Procs |-> None]
  /\ shown = [p \in Procs |-> "raw"]
  /\ fd = [p \in Procs |-> 1]
  /\ batch = [p \in Procs |-> NoBatch]
  /\ recorded = {}
  /\ damaged = {}
  /\ leaked = {}
  /\ cut = FALSE

Goto(p, label) == pc' = [pc EXCEPT ![p] = label]

(* A command has run and its render is worth referencing: now is taken. *)
Start(p) ==
  /\ pc[p] = "idle"
  /\ next \in Times
  /\ \E c \in Commands, d \in Places, x \in Exits, o \in Outputs :
       run' = [run EXCEPT ![p] = [time |-> next, command |-> c, place |-> d,
                                  exit |-> x, output |-> o]]
  /\ next' = next + 1
  /\ Goto(p, "match")
  /\ UNCHANGED <<inodes, artifacts, found, entry, shown, fd, batch, history>>

(* recentDedupMatches; an index that cannot be read has no matches. *)
Match(p) ==
  /\ pc[p] = "match"
  /\ \E matches \in {Matches(run[p])} \cup (IF Faults THEN {{}} ELSE {}) :
       /\ found' = [found EXCEPT ![p] = Newest(matches)]
       /\ Goto(p, IF matches = {} THEN "store" ELSE "verify")
  /\ UNCHANGED <<inodes, artifacts, next, run, entry, shown, fd, batch, history>>

(* Broken: the new entry keeps an artifact of its own, never stored. *)
AdoptNothing(p) ==
  /\ pc[p] = "verify"
  /\ VerifyArtifact(found[p])
  /\ entry' = [entry EXCEPT ![p] = EntryOf(run[p], run[p].time)]
  /\ \E s \in {"raw", "reference"} : shown' = [shown EXCEPT ![p] = s]
  /\ Goto(p, "open")
  /\ UNCHANGED <<inodes, artifacts, next, run, found, fd, batch, history>>

(* The newest match verifies: its artifact is adopted, and the reference   *)
(* shown if it is cheaper than the render.                                 *)
Adopt(p) ==
  /\ pc[p] = "verify"
  /\ VerifyArtifact(found[p])
  /\ entry' = [entry EXCEPT ![p] = EntryOf(run[p], found[p].artifact)]
  /\ \E s \in {"raw", "reference"} : shown' = [shown EXCEPT ![p] = s]
  /\ Goto(p, "open")
  /\ UNCHANGED <<inodes, artifacts, next, run, found, fd, batch, history>>

(* It does not verify, or cannot be read. *)
Reject(p) ==
  /\ pc[p] = "verify"
  /\ Faults \/ ~VerifyArtifact(found[p])
  /\ found' = [found EXCEPT ![p] = None]
  /\ Goto(p, "store")
  /\ UNCHANGED <<inodes, artifacts, next, run, entry, shown, fd, batch, history>>

(* storeDedupArtifact; a delta is tried only of an output stored whole.    *)
Store(p) ==
  /\ pc[p] = "store"
  /\ artifacts' = [artifacts EXCEPT ![run[p].time] = run[p].output]
  /\ entry' = [entry EXCEPT ![p] = EntryOf(run[p], run[p].time)]
  /\ Goto(p, IF DeltaRender /\ run[p].output \notin Long THEN "baseline" ELSE "open")
  /\ UNCHANGED <<inodes, next, run, found, shown, fd, batch, history>>

StoreFails(p) ==
  /\ Faults
  /\ pc[p] = "store"
  /\ Goto(p, "show")
  /\ UNCHANGED <<inodes, artifacts, next, run, found, entry, shown, fd, batch, history>>

(* Broken: an entry that exited differently is passed over. *)
NewestWithExit(r) == Newest({e \in CommandMatches(r) : e.exit = r.exit})

(* The entry deltaBaseline looks at: the newest, however it exited. *)
LastEntry(r) == Newest(CommandMatches(r))

(* deltaBaseline, up to its artifact. *)
Baseline(p) ==
  LET e == LastEntry(run[p])
      usable == /\ e # None
                /\ e.exit = run[p].exit
                /\ e.output \notin Long \cup {run[p].output}
  IN /\ pc[p] = "baseline"
     /\ \/ /\ usable
           /\ found' = [found EXCEPT ![p] = e]
           /\ Goto(p, "diff")
        \/ /\ Faults \/ ~usable
           /\ Goto(p, "open")
           /\ UNCHANGED found
     /\ UNCHANGED <<inodes, artifacts, next, run, entry, shown, fd, batch, history>>

(* The baseline's artifact verifies, and the digest is cheaper; or the     *)
(* render stays.                                                           *)
Diff(p) ==
  /\ pc[p] = "diff"
  /\ \/ /\ VerifyArtifact(found[p])
        /\ shown' = [shown EXCEPT ![p] = "delta"]
     \/ UNCHANGED shown
  /\ Goto(p, "open")
  /\ UNCHANGED <<inodes, artifacts, next, run, found, entry, fd, batch, history>>

-----------------------------------------------------------------------------
(* Append, whose error applySessionDedup ignores. *)

Open(p) ==
  /\ pc[p] = "open"
  /\ fd' = [fd EXCEPT ![p] = Len(inodes)]
  /\ Goto(p, "write")
  /\ UNCHANGED <<inodes, artifacts, next, run, found, entry, shown, batch, history>>

(* The artifacts of the entries a write spoils. *)
Lost(f, e, how) ==
  {g.artifact : g \in (f.entries \cup {e}) \ Appended(f, e, how).entries}

Write(p) ==
  /\ pc[p] = "write"
  /\ inodes' = [inodes EXCEPT ![fd[p]] = Appended(@, entry[p], "ended")]
  /\ recorded' = recorded \cup {entry[p]}
  /\ leaked' = leaked \cup Lost(inodes[fd[p]], entry[p], "ended")
  /\ Goto(p, "stat")
  /\ UNCHANGED <<artifacts, next, run, found, entry, shown, fd, batch, damaged, cut>>

(* The write stops short: of anything, within the line or at its newline. *)
WriteFails(p) ==
  /\ Faults
  /\ pc[p] = "write"
  /\ \/ UNCHANGED inodes
     \/ \E how \in {"fragment", "whole"} :
          inodes' = [inodes EXCEPT ![fd[p]] = Appended(@, entry[p], how)]
  /\ leaked' = leaked \cup {entry[p].artifact} \cup Lost(inodes[fd[p]], entry[p], "fragment")
  /\ cut' = TRUE
  /\ Goto(p, "show")
  /\ UNCHANGED <<artifacts, next, run, found, entry, shown, fd, batch, recorded, damaged>>

(* Whether to compact; a size that cannot be had is -1. *)
Stat(p) ==
  /\ pc[p] = "stat"
  /\ \E size \in {Lines(inodes[fd[p]])} \cup (IF Faults THEN {-1} ELSE {}) :
       Goto(p, IF size > MaxIndexLines THEN "compact" ELSE "show")
  /\ UNCHANGED <<inodes, artifacts, next, run, found, entry, shown, fd, batch, history>>

(* compact: nothing to read or to drop, or a batch. *)
Compact(p) ==
  /\ pc[p] = "compact"
  /\ \/ /\ Retained(Index.entries) # Index.entries
        /\ batch' = [batch EXCEPT ![p] = [kept |-> Retained(Index.entries),
                                          orphans |-> Orphaned(Index.entries)]]
        /\ Goto(p, "rename")
     \/ /\ Faults \/ Retained(Index.entries) = Index.entries
        /\ Goto(p, "show")
        /\ UNCHANGED batch
  /\ UNCHANGED <<inodes, artifacts, next, run, found, entry, shown, fd, history>>

(* rewriteIndex: a temporary file with what is kept, renamed. *)
Rewrite(p) ==
  /\ pc[p] = "rename"
  /\ inodes' = Append(inodes, [EmptyIndex EXCEPT !.entries = batch[p].kept])
  /\ Goto(p, "sweep")
  /\ UNCHANGED <<artifacts, next, run, found, entry, shown, fd, batch, history>>

RewriteFails(p) ==
  /\ Faults
  /\ pc[p] = "rename"
  /\ batch' = [batch EXCEPT ![p] = NoBatch]
  /\ Goto(p, "show")
  /\ UNCHANGED <<inodes, artifacts, next, run, found, entry, shown, fd, history>>

(* removeOrphanedArtifacts, one file at a time. *)
Sweep(p) ==
  /\ pc[p] = "sweep"
  /\ \E t \in batch[p].orphans :
       /\ batch' = [batch EXCEPT ![p] = [kept |-> @.kept, orphans |-> @.orphans \ {t}]]
       /\ \/ /\ artifacts' = [artifacts EXCEPT ![t] = NoFile]
             /\ UNCHANGED leaked
          \/ /\ Faults
             /\ leaked' = leaked \cup {t}
             /\ UNCHANGED artifacts
  /\ UNCHANGED <<inodes, next, pc, run, found, entry, shown, fd, recorded, damaged, cut>>

(* Broken: the last file is forgotten. *)
SweptButOne(p) ==
  /\ pc[p] = "sweep"
  /\ Cardinality(batch[p].orphans) <= 1
  /\ batch' = [batch EXCEPT ![p] = NoBatch]
  /\ Goto(p, "show")
  /\ UNCHANGED <<inodes, artifacts, next, run, found, entry, shown, fd, history>>

Swept(p) ==
  /\ pc[p] = "sweep"
  /\ batch[p].orphans = {}
  /\ batch' = [batch EXCEPT ![p] = NoBatch]
  /\ Goto(p, "show")
  /\ UNCHANGED <<inodes, artifacts, next, run, found, entry, shown, fd, history>>

-----------------------------------------------------------------------------
(* The process goes, its output shown or not, and another takes its place. *)
Gone(p) ==
  /\ Goto(p, "idle")
  /\ run' = [run EXCEPT ![p] = None]
  /\ found' = [found EXCEPT ![p] = None]
  /\ entry' = [entry EXCEPT ![p] = None]
  /\ shown' = [shown EXCEPT ![p] = "raw"]
  /\ batch' = [batch EXCEPT ![p] = NoBatch]
  /\ UNCHANGED <<inodes, artifacts, next, fd, recorded, damaged, cut>>

Show(p) == pc[p] = "show" /\ Gone(p) /\ UNCHANGED leaked

Crash(p) ==
  /\ Crashes
  /\ pc[p] \notin {"idle", "show"}
  /\ Gone(p)
  /\ leaked' = leaked \cup {run[p].time} \cup batch[p].orphans

(* Somebody cleans up, or a disk goes bad, while no run is looking.        *)
Damage(t) ==
  /\ Damages
  /\ \A p \in Procs : pc[p] = "idle"
  /\ artifacts[t] # NoFile
  /\ \E content \in {NoFile, Damaged} : artifacts' = [artifacts EXCEPT ![t] = content]
  /\ damaged' = damaged \cup {t}
  /\ UNCHANGED <<inodes, next, pc, run, found, entry, shown, fd, batch, recorded, leaked, cut>>

DedupStep(p) == \/ Start(p) \/ Match(p) \/ Adopt(p) \/ Reject(p) \/ Store(p)
                \/ StoreFails(p) \/ Baseline(p) \/ Diff(p)

AppendStep(p) == \/ Open(p) \/ Write(p) \/ WriteFails(p) \/ Stat(p)
                 \/ Compact(p) \/ Rewrite(p) \/ RewriteFails(p) \/ Sweep(p) \/ Swept(p)

Next == \/ \E p \in Procs : DedupStep(p) \/ AppendStep(p) \/ Show(p) \/ Crash(p)
        \/ \E t \in Times : Damage(t)

Spec == Init /\ [][Next]_vars

-----------------------------------------------------------------------------
(* Properties.                                                             *)

RunRecords == [time : Times, command : Commands, place : Places, exit : Exits,
               output : Outputs]
Entries == [time : Times, command : Commands, place : Places, exit : Exits,
            output : Outputs, artifact : Times]
Indexes == [entries : SUBSET Entries, torn : Nat, loose : {Fragment} \cup 0 .. MaxRuns]

(* The shape of the state; a reference comes with the entry it refers to,  *)
(* whose artifact the new entry shares, and a digest with another one.     *)
TypeOK ==
  /\ inodes \in Seq(Indexes) /\ inodes # <<>>
  /\ artifacts \in [Times -> Outputs \cup {NoFile, Damaged}]
  /\ next \in 1 .. MaxRuns + 1
  /\ pc \in [Procs -> {"idle", "match", "verify", "store", "baseline", "diff", "open",
                       "write", "stat", "compact", "rename", "sweep", "show"}]
  /\ run \in [Procs -> RunRecords \cup {None}]
  /\ found \in [Procs -> Entries \cup {None}]
  /\ entry \in [Procs -> Entries \cup {None}]
  /\ shown \in [Procs -> {"raw", "reference", "delta"}]
  /\ fd \in [Procs -> 1 .. Len(inodes)]
  /\ batch \in [Procs -> [kept : SUBSET Entries, orphans : SUBSET Times]]
  /\ recorded \subseteq Entries
  /\ damaged \subseteq Times /\ leaked \subseteq Times /\ cut \in BOOLEAN
  /\ \A p \in Procs :
       /\ shown[p] = "reference" => /\ found[p].output = run[p].output
                                   /\ entry[p].artifact = found[p].artifact
       /\ shown[p] = "delta" => found[p].output # run[p].output

(* Every entry of the index has its artifact, with the output it claims,   *)
(* unless somebody else touched it: compaction removes no artifact that an *)
(* entry it keeps has adopted, whatever fails and wherever a process dies. *)
NoDangling ==
  \A e \in Index.entries : e.artifact \in damaged \/ artifacts[e.artifact] = e.output

(* Fewer than RetainEntries runs have been recorded since this one began.  *)
Recent(p) == Cardinality({e \in recorded : e.time > run[p].time}) < RetainEntries

(* A reference is never emitted against a missing or corrupt artifact:     *)
(* when it is shown, expand resolves it, to the output of this very run;   *)
(* unless so many runs came in between that it has expired already.        *)
RefExpands ==
  \A p \in Procs :
    pc[p] = "show" /\ shown[p] = "reference" /\ Recent(p) => Expands(run[p].output)

(* The same while no line of the index was cut short.                      *)
RefExpandsUncut == ~cut => RefExpands

(* The reference in a digest, to what it was computed against, resolves;   *)
(* unless so many runs were recorded since that it has expired, or somebody*)
(* touched what was stored last with that output.                          *)
BaselineExpands ==
  \A p \in Procs :
    pc[p] = "show" /\ shown[p] = "delta" /\ ~cut =>
      \/ Expands(found[p].output)
      \/ Cardinality({e \in recorded : e.time > found[p].time}) >= RetainEntries
      \/ Newest({e \in Index.entries : e.output = found[p].output}).artifact \in damaged

(* "Since last run": a digest is against the last run recorded of this     *)
(* command, as its fingerprint tells commands apart, in this place, and    *)
(* that run exited the same way.                                           *)
BaselineIsLastRun ==
  \A p \in Procs :
    pc[p] = "show" /\ shown[p] = "delta" /\ ~cut =>
      LET last == Newest({e \in recorded : /\ Fingerprint[e.command] = Fingerprint[run[p].command]
                                           /\ e.place = run[p].place
                                           /\ e.time < run[p].time})
      IN last = found[p] /\ last.exit = run[p].exit

(* A reference stands for a run of the window that ended as this one did.  *)
ReferenceIsHonest ==
  \A p \in Procs :
    pc[p] = "show" /\ shown[p] = "reference" /\ ~cut =>
      \E e \in recorded : /\ e.place = run[p].place
                          /\ e.exit = run[p].exit
                          /\ e.output = run[p].output
                          /\ e.time >= run[p].time - Window
                          /\ e.time # run[p].time

(* The artifacts on disk are those of entries, of the run that is under    *)
(* way, those a compaction is about to remove, and those whose run died    *)
(* or failed before it could record or remove them.                        *)
NoLeak ==
  \A t \in Times \ leaked :
    artifacts[t] # NoFile =>
      \/ \E e \in Index.entries : e.artifact = t
      \/ \E p \in Procs : \/ entry[p] # None /\ entry[p].artifact = t
                          \/ t \in batch[p].orphans

=============================================================================
