-------------------------- MODULE DedupStore_proof --------------------------
(***************************************************************************)
(* Proofs about DedupStore, for every number of runs, outputs and commands,*)
(* every window and every size of the index.  What needs that no other     *)
(* process is at the end of its run has OneAtATime for a hypothesis: a     *)
(* process may still die anywhere, and others follow it.                   *)
(***************************************************************************)
EXTENDS DedupStore, Foundations

-----------------------------------------------------------------------------
(* The invariants. *)

Entered == {"baseline", "diff", "open", "write", "stat", "compact", "rename", "sweep"}
Unwritten == {"match", "verify", "store", "baseline", "diff", "open", "write"}

(* What a process holds at each point of the end of its run. *)
Holds(p) ==
  /\ pc[p] # "idle" => run[p] \in RunRecords /\ run[p].time < next
  /\ pc[p] = "idle" => run[p] = None
  /\ pc[p] \in {"idle", "match", "verify", "store"} => entry[p] = None /\ shown[p] = "raw"
  /\ pc[p] \in {"idle", "match", "store", "baseline"} => found[p] = None
  /\ pc[p] \in {"verify", "diff"} => found[p] \in Entries
  /\ pc[p] = "verify" => found[p].output = run[p].output
  /\ pc[p] = "diff" => found[p].output # run[p].output
  /\ pc[p] \in {"baseline", "diff"} => shown[p] = "raw"
  /\ pc[p] \in Entered => entry[p] \in Entries
  /\ entry[p] # None => entry[p] = EntryOf(run[p], entry[p].artifact)
  /\ pc[p] \notin {"rename", "sweep"} => batch[p] = NoBatch
  /\ shown[p] # "raw" => found[p] \in Entries /\ entry[p] \in Entries

ControlInv == TypeOK /\ \A p \in Procs : Holds(p)

(* The entry a lookup found is of another run, and one a reference may     *)
(* stand for.                                                              *)
Honest(p) ==
  /\ found[p] # None => /\ found[p] \in recorded
                        /\ found[p].time # run[p].time
  /\ pc[p] = "verify" \/ shown[p] = "reference" =>
       /\ found[p].place = run[p].place
       /\ found[p].exit = run[p].exit
       /\ found[p].output = run[p].output
       /\ found[p].time >= run[p].time - Window

(* Each run is recorded once, and by one process.                          *)
OnceInv ==
  /\ IsFiniteSet(recorded)
  /\ \A p, q \in Procs : run[p] # None /\ run[p].time = run[q].time => p = q
  /\ \A e \in recorded : e.time < next
  /\ \A e, f \in recorded : e.time = f.time => e = f
  /\ \A p \in Procs : pc[p] \in Unwritten => \A e \in recorded : e.time # run[p].time

(* What the index and the compactions hold was recorded.                   *)
IndexedInv ==
  ~cut =>
    /\ \A i \in 1 .. Len(inodes) : inodes[i].entries \subseteq recorded /\ inodes[i].loose = Ended
    /\ \A p \in Procs : batch[p].kept \subseteq recorded
    /\ \A p \in Procs : Honest(p)

RecordInv == OnceInv /\ IndexedInv

-----------------------------------------------------------------------------
OneAtATime == \A p, q \in Procs : p = q

Covered(t) == \E e \in Index.entries : e.artifact = t

(* The index is the newest part of what was recorded. *)
IndexIsNewest ==
  \A e \in recorded \ Index.entries, f \in Index.entries : e.time < f.time

(* The process at the end of its run has the index to itself: what it has  *)
(* stored or adopted is intact, what it recorded is in the index, and the  *)
(* compaction it has under way is of the index as it is.                   *)
Alone(p) ==
  /\ run[p].time = next - 1
  /\ pc[p] \in {"write", "stat"} => fd[p] = Len(inodes)
  /\ pc[p] \in Unwritten => \A e \in Index.entries \cup recorded : e.time < run[p].time
  /\ entry[p] # None =>
       /\ entry[p].artifact <= entry[p].time
       /\ pc[p] \in Unwritten \/ entry[p] \in Index.entries =>
            artifacts[entry[p].artifact] = entry[p].output
       /\ pc[p] \in Unwritten => entry[p].artifact = run[p].time \/ Covered(entry[p].artifact)
       /\ pc[p] \notin Unwritten => /\ cut \/ entry[p] \in Index.entries
                                    /\ entry[p] \in Index.entries \/ entry[p].artifact \in leaked
  /\ pc[p] = "verify" => found[p] \in Index.entries
  /\ pc[p] = "rename" => batch[p] = [kept |-> Retained(Index.entries),
                                     orphans |-> Orphaned(Index.entries)]
  /\ pc[p] = "sweep" => \A e \in Index.entries : e.artifact \notin batch[p].orphans

(* The baseline of a digest was the last run of its command, and is in the *)
(* index until it expires.                                                 *)
Expired(e) == Cardinality({f \in recorded : f.time > e.time}) >= RetainEntries

Since(p) ==
  pc[p] = "diff" \/ shown[p] = "delta" =>
    /\ found[p] \in Index.entries \/ Expired(found[p])
    /\ found[p].time < run[p].time
    /\ found[p].exit = run[p].exit
    /\ Fingerprint[found[p].command] = Fingerprint[run[p].command]
    /\ found[p].place = run[p].place
    /\ \A e \in recorded :
         /\ Fingerprint[e.command] = Fingerprint[run[p].command]
         /\ e.place = run[p].place
         /\ e.time < run[p].time
         => e.time <= found[p].time

Dated == \A e \in Index.entries : e.time < next /\ e.artifact <= e.time
AloneInv == \A p \in Procs : pc[p] # "idle" => Alone(p)
NewestInv == ~cut => IndexIsNewest /\ \A p \in Procs : Since(p)

StoreInv == Dated /\ NoDangling /\ NoLeak /\ AloneInv /\ NewestInv

DedupInv == ControlInv /\ RecordInv /\ StoreInv
-----------------------------------------------------------------------------
(* The operators of the store. *)

(* No entry and no run is None, and an entry's parts are what they should. *)
LEMMA EntryType ==
  /\ None \notin Entries /\ None \notin RunRecords /\ None.time = 0
  /\ \A e \in Entries : /\ e.time \in Times /\ e.artifact \in Times
                        /\ e.command \in Commands /\ e.place \in Places
                        /\ e.exit \in Exits /\ e.output \in Outputs
BY DedupAssumption DEF None, Entries, RunRecords, Times

(* A run's fields are of the sets the model draws them from.               *)
LEMMA RunType ==
  \A r \in RunRecords : /\ r.time \in Times /\ r.command \in Commands
                        /\ r.place \in Places /\ r.exit \in Exits
                        /\ r.output \in Outputs
BY DEF RunRecords

(* EntryOf records the run, with the artifact it is given.                 *)
LEMMA EntryOfType ==
  ASSUME NEW r \in RunRecords, NEW a \in Times
  PROVE  /\ EntryOf(r, a) \in Entries
         /\ EntryOf(r, a).artifact = a
         /\ EntryOf(r, a).time = r.time
         /\ EntryOf(r, a).output = r.output
BY DEF EntryOf, Entries, RunRecords

(* Newest is the last entry, when there is one.                            *)
LEMMA NewestType ==
  ASSUME NEW E \in SUBSET Entries
  PROVE  /\ E = {} => Newest(E) = None
         /\ E # {} => /\ Newest(E) \in E
                      /\ \A f \in E : f.time <= Newest(E).time
<1>1. CASE E = {}
  BY <1>1 DEF Newest
<1>2. CASE E # {}
  <2> DEFINE T == {e.time : e \in E}
  <2>1. T \in SUBSET Nat /\ T # {} /\ \A t \in T : t <= MaxRuns
    BY <1>2, EntryType, DedupAssumption DEF Times
  <2>2. PICK t \in T : \A s \in T : s <= t
    <3> HIDE DEF T
    <3> QED BY <2>1, GreatestNatural, DedupAssumption
  <2>3. PICK e \in E : \A f \in E : f.time <= e.time
    BY <2>2
  <2> QED
    BY <1>2, <2>3 DEF Newest
<1> QED
  BY <1>1, <1>2

(* A line that is written leaves an index, and adds no entry but its own.  *)
LEMMA AppendedType ==
  ASSUME NEW f \in Indexes, NEW e \in Entries, NEW how \in {"ended", "fragment", "whole"}
  PROVE  /\ Appended(f, e, how) \in Indexes
         /\ Appended(f, e, how).entries \subseteq f.entries \cup {e}
         /\ how = "ended" /\ f.loose = Ended =>
              /\ Appended(f, e, how).entries = f.entries \cup {e}
              /\ Appended(f, e, how).loose = Ended
<1>1. e.time \in 0 .. MaxRuns /\ 0 \in 0 .. MaxRuns
  BY EntryType, DedupAssumption DEF Times
<1>2. /\ f.entries \in SUBSET Entries /\ f.torn \in Nat
      /\ f.loose \in {Fragment} \cup 0 .. MaxRuns
  BY DEF Indexes
<1> DEFINE g == Appended(f, e, how)
<1>3. CASE f.loose = Ended
  <2>1. g = [entries |-> IF how = "fragment" THEN f.entries ELSE f.entries \cup {e},
             torn |-> IF how = "fragment" THEN f.torn + 1 ELSE f.torn,
             loose |-> CASE how = "ended" -> Ended
                         [] how = "fragment" -> Fragment
                         [] how = "whole" -> e.time]
    BY <1>3 DEF Appended
  <2>2. g.loose \in {Fragment} \cup 0 .. MaxRuns /\ (how = "ended" => g.loose = Ended)
    BY <1>1, <2>1 DEF Ended
  <2> QED
    BY <1>2, <2>1, <2>2 DEF Indexes
<1>4. CASE f.loose # Ended
  <2>1. g = [entries |-> {h \in f.entries : h.time # f.loose},
             torn |-> IF f.loose = Fragment THEN f.torn ELSE f.torn + 1,
             loose |-> IF how = "ended" THEN Ended ELSE Fragment]
    BY <1>4 DEF Appended
  <2> QED
    BY <1>1, <1>2, <1>4, <2>1 DEF Indexes, Ended
<1> QED
  BY <1>3, <1>4

(* Entries that are retained are entries, and the newest of them is.       *)
LEMMA RetainedType ==
  ASSUME NEW E
  PROVE  Retained(E) \subseteq E
BY DEF Retained

(* The newest entry is never what retention drops.                         *)
LEMMA NewestRetained ==
  ASSUME NEW E \in SUBSET Entries, NEW e \in E, \A f \in E : f.time <= e.time
  PROVE  e \in Retained(E)
<1>1. {f \in E : f.time > e.time} = {}
  BY EntryType DEF Times
<1>2. Cardinality({f \in E : f.time > e.time}) = 0
  BY <1>1, FS_EmptySet
<1> QED
  BY <1>2, DedupAssumption DEF Retained

(* With an entry, every newer one is retained.                             *)
LEMMA RetainedUpward ==
  ASSUME NEW E \in SUBSET Entries, IsFiniteSet(E), NEW e \in Retained(E), NEW f \in E,
         e.time <= f.time
  PROVE  f \in Retained(E)
<1> DEFINE above(x) == {g \in E : g.time > x.time}
<1>1. above(f) \subseteq above(e)
  BY EntryType DEF Retained, Times
<1>2. IsFiniteSet(above(e)) /\ IsFiniteSet(above(f))
  BY FS_Subset
<1>3. Cardinality(above(f)) <= Cardinality(above(e))
  <2> HIDE DEF above
  <2> QED BY <1>1, <1>2, FS_Subset
<1>4. Cardinality(above(f)) \in Nat /\ Cardinality(above(e)) \in Nat
  BY <1>2, FS_CardinalityType
<1>5. Cardinality(above(e)) < RetainEntries
  BY DEF Retained
<1>6. Cardinality(above(f)) < RetainEntries
  <2> HIDE DEF above
  <2> QED BY <1>3, <1>4, <1>5, DedupAssumption
<1> QED
  BY <1>6 DEF Retained
-----------------------------------------------------------------------------
(* What each process holds. *)

(* The file the name leads to is an index, and so is every replaced one.   *)
LEMMA IndexType ==
  ASSUME TypeOK
  PROVE  /\ Index \in Indexes /\ Index.entries \in SUBSET Entries
         /\ Len(inodes) \in Nat \ {0} /\ \A i \in 1 .. Len(inodes) : inodes[i] \in Indexes
<1>1. inodes \in Seq(Indexes) /\ inodes # <<>>
  BY DEF TypeOK
<1>2. Len(inodes) \in Nat \ {0} /\ \A i \in 1 .. Len(inodes) : inodes[i] \in Indexes
  BY <1>1
<1>3. Index \in Indexes
  BY <1>2 DEF Index
<1> QED
  BY <1>2, <1>3 DEF Indexes

(* The run a process starts with.                                          *)
LEMMA StartEffect ==
  ASSUME TypeOK, NEW p \in Procs, Start(p)
  PROVE  \E r \in RunRecords : /\ r.time = next /\ next \in Times
                               /\ run' = [run EXCEPT ![p] = r]
                               /\ \A q \in Procs : run'[q] = IF q = p THEN r ELSE run[q]
<1>1. PICK c \in Commands, d \in Places, x \in Exits, o \in Outputs :
        run' = [run EXCEPT ![p] = [time |-> next, command |-> c, place |-> d,
                                   exit |-> x, output |-> o]]
  BY DEF Start
<1> DEFINE r == [time |-> next, command |-> c, place |-> d, exit |-> x, output |-> o]
<1>2. r \in RunRecords /\ r.time = next /\ next \in Times
  BY DEF Start, RunRecords
<1> HIDE DEF r
<1>3. run' = [run EXCEPT ![p] = r]
  BY <1>1 DEF r
<1> QED
  BY <1>2, <1>3 DEF TypeOK

(* What a lookup may find: nothing, or an entry it looks for.              *)
LEMMA MatchEffect ==
  ASSUME TypeOK, NEW p \in Procs, Match(p)
  PROVE  \E e \in Entries \cup {None}, label \in {"store", "verify"} :
           /\ found' = [found EXCEPT ![p] = e]
           /\ pc' = [pc EXCEPT ![p] = label]
           /\ label = "verify" => e \in Entries /\ e \in Matches(run[p])
           /\ label = "store" => e = None
<1>1. Matches(run[p]) \in SUBSET Entries
  BY IndexType DEF Matches, CommandMatches
<1>2. PICK matches \in SUBSET Matches(run[p]) :
        /\ found' = [found EXCEPT ![p] = Newest(matches)]
        /\ pc' = [pc EXCEPT ![p] = IF matches = {} THEN "store" ELSE "verify"]
  BY DEF Match, Goto
<1>3. IF matches = {} THEN Newest(matches) = None ELSE Newest(matches) \in matches
  BY <1>1, NewestType
<1> QED
  BY <1>1, <1>2, <1>3

(* Delta's baseline is the newest entry of the same command and place, and *)
(* it is compared only when its output differs and its artifact reads      *)
(* back.                                                                   *)
LEMMA BaselineEffect ==
  ASSUME TypeOK, NEW p \in Procs, found[p] = None, Baseline(p)
  PROVE  \E e \in Entries \cup {None}, label \in {"diff", "open"} :
           /\ found' = [found EXCEPT ![p] = e]
           /\ pc' = [pc EXCEPT ![p] = label]
           /\ label = "diff" => /\ e \in Entries /\ e = LastEntry(run[p])
                                /\ e \in CommandMatches(run[p])
                                /\ \A f \in CommandMatches(run[p]) : f.time <= e.time
                                /\ e.output # run[p].output /\ e.exit = run[p].exit
           /\ label = "open" => e = None
<1>1. CommandMatches(run[p]) \in SUBSET Entries
  BY IndexType DEF CommandMatches
<1>2. LastEntry(run[p]) # None =>
        /\ LastEntry(run[p]) \in CommandMatches(run[p])
        /\ \A f \in CommandMatches(run[p]) : f.time <= LastEntry(run[p]).time
  BY <1>1, NewestType DEF LastEntry
<1> DEFINE e == LastEntry(run[p])
<1>3. CASE /\ e # None /\ e.exit = run[p].exit /\ e.output # run[p].output
           /\ found' = [found EXCEPT ![p] = e] /\ pc' = [pc EXCEPT ![p] = "diff"]
  BY <1>1, <1>2, <1>3
<1>4. CASE found' = found /\ pc' = [pc EXCEPT ![p] = "open"]
  <2>1. found' = [found EXCEPT ![p] = None]
    BY <1>4 DEF TypeOK
  <2> QED
    BY <1>4, <2>1
<1> QED
  BY <1>3, <1>4 DEF Baseline, Goto

(* No process has begun.                                                   *)
LEMMA ControlInit == Init => ControlInv
<1> SUFFICES ASSUME Init PROVE ControlInv
  OBVIOUS
<1>1. EmptyIndex \in Indexes
  BY DedupAssumption DEF EmptyIndex, Indexes, Ended
<1>2. TypeOK
  <2>1. inodes \in Seq(Indexes) /\ inodes # <<>> /\ Len(inodes) = 1
    BY <1>1 DEF Init
  <2>2. /\ NoBatch \in [kept : SUBSET Entries, orphans : SUBSET Times]
        /\ 1 \in 1 .. 1 /\ 1 \in 1 .. MaxRuns + 1
    BY DedupAssumption DEF NoBatch
  <2> QED
    BY <2>1, <2>2 DEF Init, TypeOK
<1>3. \A p \in Procs : Holds(p)
  BY <1>1, DedupAssumption, EntryType DEF Init, Holds, Entered
<1> QED
  BY <1>2, <1>3 DEF ControlInv

(* Where a process is in the code fixes what it holds.                     *)
LEMMA ControlStep ==
  ControlInv /\ [Next]_vars => ControlInv'
<1> SUFFICES ASSUME ControlInv, [Next]_vars
             PROVE  ControlInv'
  OBVIOUS
<1>0. TypeOK /\ \A p \in Procs : Holds(p)
  BY DEF ControlInv
<1>1. ASSUME NEW p \in Procs, Start(p) PROVE ControlInv'
  <2>1. PICK r \in RunRecords :
          /\ r.time = next /\ next \in Times
          /\ run' = [run EXCEPT ![p] = r]
          /\ \A q \in Procs : run'[q] = IF q = p THEN r ELSE run[q]
    BY <1>0, <1>1, StartEffect
  <2>2. r \in RunRecords /\ r.time = next
    BY <2>1
  <2>4. next' = next + 1 /\ next' \in 1 .. MaxRuns + 1 /\ next \in Times
    BY <1>1, DedupAssumption DEF Start, Times
  <2>5. /\ run' \in [Procs -> RunRecords \cup {None}]
        /\ \A q \in Procs : run'[q] = IF q = p THEN r ELSE run[q]
    BY <1>0, <2>1 DEF TypeOK
  <2>6. shown[p] = "raw" /\ entry[p] = None /\ found[p] = None /\ pc[p] = "idle"
    BY <1>0, <1>1 DEF Start, Holds
  <2>7. TypeOK'
    <3>1. \A q \in Procs : shown[q] # "raw" => run'[q] = run[q]
      BY <2>5, <2>6
    <3> QED
      BY <1>0, <1>1, <2>4, <2>5, <3>1 DEF TypeOK, Start, Goto, history
  <2>8. ASSUME NEW q \in Procs PROVE Holds(q)'
    <3>1. CASE q = p
      <4>1. /\ run'[q] = r /\ pc'[q] = "match" /\ entry'[q] = None
            /\ found'[q] = None /\ shown'[q] = "raw" /\ batch'[q] = NoBatch
        BY <1>0, <1>1, <2>5, <2>6, <3>1 DEF TypeOK, Holds, Start, Goto
      <4>2. r.time < next'
        BY <2>2, <2>4 DEF Times
      <4> QED
        BY <2>2, <4>1, <4>2 DEF Holds, Entered
    <3>2. CASE q # p
      <4>1. /\ run'[q] = run[q] /\ pc'[q] = pc[q] /\ entry'[q] = entry[q]
            /\ found'[q] = found[q] /\ shown'[q] = shown[q] /\ batch'[q] = batch[q]
        BY <1>0, <1>1, <2>5, <3>2 DEF TypeOK, Start, Goto
      <4>2. pc[q] # "idle" => run[q].time < next'
        BY <1>0, <2>4, RunType DEF Holds, Times
      <4> QED
        BY <1>0, <4>1, <4>2 DEF Holds
    <3> QED
      BY <3>1, <3>2
  <2> QED
    BY <2>7, <2>8 DEF ControlInv
<1>2. ASSUME NEW p \in Procs, Match(p) PROVE ControlInv'
  <2>1. PICK e \in Entries \cup {None}, label \in {"store", "verify"} :
           /\ found' = [found EXCEPT ![p] = e]
           /\ pc' = [pc EXCEPT ![p] = label]
           /\ label = "verify" => e \in Entries /\ e \in Matches(run[p])
           /\ label = "store" => e = None
    BY <1>0, <1>2, MatchEffect
  <2>2. label = "verify" => e.output = run[p].output
    BY <2>1 DEF Matches
  <2>3. shown[p] = "raw" /\ entry[p] = None /\ run[p] \in RunRecords
    BY <1>0, <1>2 DEF Match, Holds
  <2>4. TypeOK'
    BY <1>0, <1>2, <2>1, <2>2, <2>3 DEF TypeOK, Match, history
  <2>5. ASSUME NEW q \in Procs PROVE Holds(q)'
    BY <1>0, <1>2, <2>1, <2>2, <2>3 DEF TypeOK, Holds, Match, Entered
  <2> QED
    BY <2>4, <2>5 DEF ControlInv
<1>3. ASSUME NEW p \in Procs, Adopt(p) PROVE ControlInv'
  <2> DEFINE e == EntryOf(run[p], found[p].artifact)
  <2>1. found[p] \in Entries /\ run[p] \in RunRecords /\ found[p].output = run[p].output
    BY <1>0, <1>3 DEF Adopt, Holds
  <2>2. e \in Entries /\ e.artifact = found[p].artifact
    BY <2>1, EntryOfType, EntryType
  <2>3. e = EntryOf(run[p], e.artifact)
    BY <2>2
  <2> HIDE DEF e
  <2>4. entry' = [entry EXCEPT ![p] = e]
    BY <1>3 DEF Adopt, e
  <2>5. PICK s \in {"raw", "reference"} : shown' = [shown EXCEPT ![p] = s]
    BY <1>3 DEF Adopt
  <2>6. TypeOK'
    BY <1>0, <1>3, <2>1, <2>2, <2>4, <2>5 DEF TypeOK, Adopt, Goto, history
  <2>7. ASSUME NEW q \in Procs PROVE Holds(q)'
    BY <1>0, <1>3, <2>1, <2>2, <2>3, <2>4, <2>5 DEF TypeOK, Holds, Adopt, Goto, Entered, EntryOf
  <2> QED
    BY <2>6, <2>7 DEF ControlInv
<1>4. ASSUME NEW p \in Procs, Reject(p) PROVE ControlInv'
  <2>1. shown[p] = "raw" /\ entry[p] = None
    BY <1>0, <1>4 DEF Reject, Holds
  <2>2. TypeOK'
    BY <1>0, <1>4, <2>1 DEF TypeOK, Reject, Goto, history
  <2>3. ASSUME NEW q \in Procs PROVE Holds(q)'
    BY <1>0, <1>4, <2>1 DEF TypeOK, Holds, Reject, Goto, Entered
  <2> QED
    BY <2>2, <2>3 DEF ControlInv
<1>5. ASSUME NEW p \in Procs, Store(p) PROVE ControlInv'
  <2> DEFINE e == EntryOf(run[p], run[p].time)
  <2>1. shown[p] = "raw" /\ run[p] \in RunRecords /\ found[p] = None
    BY <1>0, <1>5 DEF Store, Holds
  <2>2. e \in Entries /\ e.artifact = run[p].time
    BY <2>1, EntryOfType, RunType
  <2>3. e = EntryOf(run[p], e.artifact)
    BY <2>2
  <2> HIDE DEF e
  <2>4. entry' = [entry EXCEPT ![p] = e]
    BY <1>5 DEF Store, e
  <2>5. PICK label \in {"baseline", "open"} : pc' = [pc EXCEPT ![p] = label]
    BY <1>5 DEF Store, Goto
  <2>6. artifacts' \in [Times -> Outputs \cup {NoFile, Damaged}]
    BY <1>0, <1>5, <2>1, RunType DEF TypeOK, Store
  <2>7. TypeOK'
    BY <1>0, <1>5, <2>1, <2>2, <2>4, <2>5, <2>6 DEF TypeOK, Store, history
  <2>8. ASSUME NEW q \in Procs PROVE Holds(q)'
    BY <1>0, <1>5, <2>1, <2>2, <2>3, <2>4, <2>5 DEF TypeOK, Holds, Store, Entered, EntryOf
  <2> QED
    BY <2>7, <2>8 DEF ControlInv
<1>6. ASSUME NEW p \in Procs, StoreFails(p) PROVE ControlInv'
  <2>1. TypeOK'
    BY <1>6 DEF ControlInv, TypeOK, Holds, StoreFails, Goto, history
  <2>2. ASSUME NEW q \in Procs PROVE Holds(q)'
    BY <1>6 DEF ControlInv, TypeOK, Holds, StoreFails, Goto, history, Entered
  <2> QED
    BY <2>1, <2>2 DEF ControlInv
<1>7. ASSUME NEW p \in Procs, Baseline(p) PROVE ControlInv'
  <2>1. shown[p] = "raw" /\ entry[p] \in Entries /\ found[p] = None
    BY <1>0, <1>7 DEF Baseline, Holds, Entered
  <2>2. PICK e \in Entries \cup {None}, label \in {"diff", "open"} :
          /\ found' = [found EXCEPT ![p] = e]
          /\ pc' = [pc EXCEPT ![p] = label]
          /\ label = "diff" => e \in Entries /\ e.output # run[p].output
          /\ label = "open" => e = None
    BY <1>0, <1>7, <2>1, BaselineEffect
  <2>3. TypeOK'
    BY <1>0, <1>7, <2>1, <2>2 DEF TypeOK, Baseline, history
  <2>4. ASSUME NEW q \in Procs PROVE Holds(q)'
    BY <1>0, <1>7, <2>1, <2>2 DEF TypeOK, Holds, Baseline, Entered
  <2> QED
    BY <2>3, <2>4 DEF ControlInv
<1>8. ASSUME NEW p \in Procs, Diff(p) PROVE ControlInv'
  <2>1. /\ shown[p] = "raw" /\ entry[p] \in Entries /\ found[p] \in Entries
        /\ found[p].output # run[p].output
    BY <1>0, <1>8 DEF Diff, Holds, Entered
  <2>2. PICK s \in {"raw", "delta"} : shown' = [shown EXCEPT ![p] = s]
    BY <1>0, <1>8, <2>1 DEF Diff, TypeOK
  <2>3. TypeOK'
    BY <1>0, <1>8, <2>1, <2>2 DEF TypeOK, Diff, Goto, history
  <2>4. ASSUME NEW q \in Procs PROVE Holds(q)'
    BY <1>0, <1>8, <2>1, <2>2 DEF TypeOK, Holds, Diff, Goto, Entered
  <2> QED
    BY <2>3, <2>4 DEF ControlInv
<1>9. ASSUME NEW p \in Procs, Open(p) PROVE ControlInv'
  <2>1. TypeOK'
    BY <1>9 DEF ControlInv, TypeOK, Holds, Open, Goto, history
  <2>2. ASSUME NEW q \in Procs PROVE Holds(q)'
    BY <1>9 DEF ControlInv, TypeOK, Holds, Open, Goto, history, Entered
  <2> QED
    BY <2>1, <2>2 DEF ControlInv
<1>10. ASSUME NEW p \in Procs, Write(p) PROVE ControlInv'
  <2>1. /\ entry[p] \in Entries /\ inodes[fd[p]] \in Indexes /\ fd[p] \in 1 .. Len(inodes)
        /\ inodes \in Seq(Indexes)
    BY <1>0, <1>10, IndexType DEF Write, Holds, Entered, TypeOK
  <2> DEFINE g == Appended(inodes[fd[p]], entry[p], "ended")
  <2>2. g \in Indexes
    BY <2>1, AppendedType
  <2>3. inodes' = [inodes EXCEPT ![fd[p]] = g]
    BY <1>10 DEF Write
  <2> HIDE DEF g
  <2>4. inodes' \in Seq(Indexes) /\ inodes' # <<>> /\ Len(inodes') = Len(inodes)
    BY <2>1, <2>2, <2>3
  <2>5. leaked' \subseteq Times
    <3>1. Lost(inodes[fd[p]], entry[p], "ended") \subseteq Times
      BY <2>1, EntryType DEF Lost, Indexes
    <3> QED
      BY <1>0, <1>10, <3>1 DEF Write, TypeOK
  <2>8. TypeOK'
    BY <1>0, <1>10, <2>1, <2>4, <2>5 DEF TypeOK, Write, Goto, history
  <2>9. ASSUME NEW q \in Procs PROVE Holds(q)'
    BY <1>0, <1>10, <2>1, <2>4, <2>5 DEF TypeOK, Holds, Write, Goto, Entered
  <2> QED
    BY <2>8, <2>9 DEF ControlInv
<1>11. ASSUME NEW p \in Procs, WriteFails(p) PROVE ControlInv'
  <2>1. /\ entry[p] \in Entries /\ inodes[fd[p]] \in Indexes /\ fd[p] \in 1 .. Len(inodes)
        /\ inodes \in Seq(Indexes) /\ inodes # <<>>
    BY <1>0, <1>11, IndexType DEF WriteFails, Holds, Entered, TypeOK
  <2>4. inodes' \in Seq(Indexes) /\ inodes' # <<>> /\ Len(inodes') = Len(inodes)
    <3>1. CASE UNCHANGED inodes
      BY <2>1, <3>1
    <3>2. ASSUME NEW how \in {"fragment", "whole"},
                 inodes' = [inodes EXCEPT ![fd[p]] = Appended(@, entry[p], how)]
          PROVE  inodes' \in Seq(Indexes) /\ inodes' # <<>> /\ Len(inodes') = Len(inodes)
      <4> DEFINE g == Appended(inodes[fd[p]], entry[p], how)
      <4>1. g \in Indexes
        BY <2>1, AppendedType
      <4>2. inodes' = [inodes EXCEPT ![fd[p]] = g]
        BY <3>2
      <4> HIDE DEF g
      <4> QED
        BY <2>1, <4>1, <4>2
    <3> QED
      BY <1>11, <3>1, <3>2 DEF WriteFails
  <2>5. leaked' \subseteq Times
    <3>1. Lost(inodes[fd[p]], entry[p], "fragment") \subseteq Times
      BY <2>1, EntryType DEF Lost, Indexes
    <3>2. entry[p].artifact \in Times
      BY <2>1, EntryType
    <3> QED
      BY <1>0, <1>11, <3>1, <3>2 DEF WriteFails, TypeOK
  <2>8. TypeOK'
    BY <1>0, <1>11, <2>1, <2>4, <2>5 DEF TypeOK, WriteFails, Goto, history
  <2>9. ASSUME NEW q \in Procs PROVE Holds(q)'
    BY <1>0, <1>11, <2>1, <2>4, <2>5 DEF TypeOK, Holds, WriteFails, Goto, Entered
  <2> QED
    BY <2>8, <2>9 DEF ControlInv
<1>12. ASSUME NEW p \in Procs, Stat(p) PROVE ControlInv'
  <2>1. TypeOK'
    BY <1>12 DEF ControlInv, TypeOK, Holds, Stat, Goto, history
  <2>2. ASSUME NEW q \in Procs PROVE Holds(q)'
    BY <1>12 DEF ControlInv, TypeOK, Holds, Stat, Goto, history, Entered
  <2> QED
    BY <2>1, <2>2 DEF ControlInv
<1>13. ASSUME NEW p \in Procs, Compact(p) PROVE ControlInv'
  <2>1. entry[p] \in Entries /\ batch[p] = NoBatch /\ batch \in [Procs -> [kept : SUBSET Entries, orphans : SUBSET Times]]
    BY <1>0, <1>13 DEF Compact, Holds, Entered, TypeOK
  <2> DEFINE b == [kept |-> Retained(Index.entries), orphans |-> Orphaned(Index.entries)]
  <2>2. b \in [kept : SUBSET Entries, orphans : SUBSET Times]
    BY <1>0, IndexType, RetainedType, EntryType DEF Orphaned
  <2>3. \/ batch' = [batch EXCEPT ![p] = b] /\ pc' = [pc EXCEPT ![p] = "rename"]
        \/ batch' = batch /\ pc' = [pc EXCEPT ![p] = "show"]
    BY <1>13 DEF Compact, Goto
  <2> HIDE DEF b
  <2>4. CASE batch' = [batch EXCEPT ![p] = b] /\ pc' = [pc EXCEPT ![p] = "rename"]
    <3>1. TypeOK'
      BY <1>0, <1>13, <2>1, <2>2, <2>4 DEF TypeOK, Compact, history
    <3>2. ASSUME NEW q \in Procs PROVE Holds(q)'
      BY <1>0, <1>13, <2>1, <2>2, <2>4 DEF TypeOK, Holds, Compact, Entered
    <3> QED
      BY <3>1, <3>2 DEF ControlInv
  <2>5. CASE batch' = batch /\ pc' = [pc EXCEPT ![p] = "show"]
    <3>1. TypeOK'
      BY <1>0, <1>13, <2>1, <2>5 DEF TypeOK, Compact, history
    <3>2. ASSUME NEW q \in Procs PROVE Holds(q)'
      BY <1>0, <1>13, <2>1, <2>5 DEF TypeOK, Holds, Compact, Entered
    <3> QED
      BY <3>1, <3>2 DEF ControlInv
  <2> QED
    BY <2>3, <2>4, <2>5
<1>14. ASSUME NEW p \in Procs, Rewrite(p) PROVE ControlInv'
  <2>1. entry[p] \in Entries /\ inodes \in Seq(Indexes) /\ batch[p].kept \in SUBSET Entries
    BY <1>0, <1>14 DEF Rewrite, Holds, Entered, TypeOK
  <2> DEFINE g == [entries |-> batch[p].kept, torn |-> 0, loose |-> Ended]
  <2>2. g \in Indexes
    BY <2>1, DedupAssumption DEF Indexes, Ended
  <2>3. inodes' = Append(inodes, g)
    BY <1>14 DEF Rewrite, EmptyIndex
  <2> HIDE DEF g
  <2>4. inodes' \in Seq(Indexes) /\ inodes' # <<>> /\ Len(inodes') = Len(inodes) + 1
    BY <2>1, <2>2, <2>3
  <2>5. fd' \in [Procs -> 1 .. Len(inodes')]
    BY <1>0, <1>14, <2>1, <2>4 DEF TypeOK, Rewrite
  <2>8. TypeOK'
    BY <1>0, <1>14, <2>1, <2>4, <2>5 DEF TypeOK, Rewrite, Goto, history
  <2>9. ASSUME NEW q \in Procs PROVE Holds(q)'
    BY <1>0, <1>14, <2>1, <2>4, <2>5 DEF TypeOK, Holds, Rewrite, Goto, Entered
  <2> QED
    BY <2>8, <2>9 DEF ControlInv
<1>15. ASSUME NEW p \in Procs, RewriteFails(p) PROVE ControlInv'
  <2>1. entry[p] \in Entries /\ NoBatch \in [kept : SUBSET Entries, orphans : SUBSET Times]
    BY <1>0, <1>15 DEF RewriteFails, Holds, Entered, NoBatch
  <2>8. TypeOK'
    BY <1>0, <1>15, <2>1 DEF TypeOK, RewriteFails, Goto, history
  <2>9. ASSUME NEW q \in Procs PROVE Holds(q)'
    BY <1>0, <1>15, <2>1 DEF TypeOK, Holds, RewriteFails, Goto, Entered
  <2> QED
    BY <2>8, <2>9 DEF ControlInv
<1>16. ASSUME NEW p \in Procs, Sweep(p) PROVE ControlInv'
  <2>1. entry[p] \in Entries
    BY <1>0, <1>16 DEF Sweep, Holds, Entered
  <2>2. PICK t \in batch[p].orphans :
          /\ batch' = [batch EXCEPT ![p] = [kept |-> @.kept, orphans |-> @.orphans \ {t}]]
          /\ artifacts' = [artifacts EXCEPT ![t] = NoFile] \/ artifacts' = artifacts
          /\ leaked' \subseteq leaked \cup {t}
    BY <1>16 DEF Sweep
  <2> DEFINE b == [kept |-> batch[p].kept, orphans |-> batch[p].orphans \ {t}]
  <2>3. b \in [kept : SUBSET Entries, orphans : SUBSET Times] /\ t \in Times
    BY <1>0 DEF TypeOK
  <2>4. batch' = [batch EXCEPT ![p] = b]
    BY <2>2
  <2> HIDE DEF b
  <2>8. TypeOK'
    BY <1>0, <1>16, <2>1, <2>2, <2>3, <2>4 DEF TypeOK, Sweep, Goto, history
  <2>9. ASSUME NEW q \in Procs PROVE Holds(q)'
    BY <1>0, <1>16, <2>1, <2>2, <2>3, <2>4 DEF TypeOK, Holds, Sweep, Goto, Entered
  <2> QED
    BY <2>8, <2>9 DEF ControlInv
<1>17. ASSUME NEW p \in Procs, Swept(p) PROVE ControlInv'
  <2>1. entry[p] \in Entries /\ NoBatch \in [kept : SUBSET Entries, orphans : SUBSET Times]
    BY <1>0, <1>17 DEF Swept, Holds, Entered, NoBatch
  <2>8. TypeOK'
    BY <1>0, <1>17, <2>1 DEF TypeOK, Swept, Goto, history
  <2>9. ASSUME NEW q \in Procs PROVE Holds(q)'
    BY <1>0, <1>17, <2>1 DEF TypeOK, Holds, Swept, Goto, Entered
  <2> QED
    BY <2>8, <2>9 DEF ControlInv
<1>18. ASSUME NEW p \in Procs, Show(p) PROVE ControlInv'
  <2>1. NoBatch \in [kept : SUBSET Entries, orphans : SUBSET Times] /\ leaked' \subseteq Times
    BY <1>0, <1>18, RunType DEF Show, NoBatch, TypeOK, Holds
  <2>8. TypeOK'
    BY <1>0, <1>18, <2>1 DEF TypeOK, Show, Gone, Goto, history
  <2>9. ASSUME NEW q \in Procs PROVE Holds(q)'
    BY <1>0, <1>18, <2>1 DEF TypeOK, Holds, Show, Gone, Goto, Entered
  <2> QED
    BY <2>8, <2>9 DEF ControlInv
<1>19. ASSUME NEW p \in Procs, Crash(p) PROVE ControlInv'
  <2>1. NoBatch \in [kept : SUBSET Entries, orphans : SUBSET Times] /\ leaked' \subseteq Times
    BY <1>0, <1>19, RunType DEF Crash, NoBatch, TypeOK, Holds
  <2>8. TypeOK'
    BY <1>0, <1>19, <2>1 DEF TypeOK, Crash, Gone, Goto, history
  <2>9. ASSUME NEW q \in Procs PROVE Holds(q)'
    BY <1>0, <1>19, <2>1 DEF TypeOK, Holds, Crash, Gone, Goto, Entered
  <2> QED
    BY <2>8, <2>9 DEF ControlInv
<1>20. ASSUME NEW t \in Times, Damage(t) PROVE ControlInv'
  <2>1. TypeOK'
    BY <1>20 DEF ControlInv, TypeOK, Damage
  <2>2. ASSUME NEW q \in Procs PROVE Holds(q)'
    BY <1>20 DEF ControlInv, Holds, Damage
  <2> QED
    BY <2>1, <2>2 DEF ControlInv
<1>21. CASE UNCHANGED vars
  BY <1>21 DEF vars, history, ControlInv, TypeOK, Holds
<1> QED
  BY <1>1, <1>2, <1>3, <1>4, <1>5, <1>6, <1>7, <1>8, <1>9, <1>10, <1>11, <1>12, <1>13, <1>14, <1>15, <1>16, <1>17, <1>18, <1>19, <1>20, <1>21 DEF Next, DedupStep, AppendStep
-----------------------------------------------------------------------------
(* What the index holds was recorded. *)

(* Nothing has been indexed.                                               *)
LEMMA RecordInit == Init => RecordInv
BY FS_EmptySet, EntryType DEF Init, RecordInv, OnceInv, IndexedInv, Honest, EmptyIndex, NoBatch

(* A run is appended at most once.                                         *)
LEMMA OnceStep ==
  ControlInv /\ OnceInv /\ [Next]_vars => OnceInv'
<1> SUFFICES ASSUME ControlInv, OnceInv, [Next]_vars
             PROVE  OnceInv'
  OBVIOUS
<1>0. TypeOK /\ \A p \in Procs : Holds(p)
  BY DEF ControlInv
<1>1. ASSUME NEW p \in Procs, Start(p) PROVE OnceInv'
  <2>1. PICK r \in RunRecords :
          /\ r.time = next /\ next \in Times
          /\ \A q \in Procs : run'[q] = IF q = p THEN r ELSE run[q]
    BY <1>0, <1>1, StartEffect
  <2>2. \A q \in Procs : run[q].time # next
    BY <1>0, <2>1, EntryType, RunType DEF Holds, Times
  <2>3. \A q \in Procs : q # p => pc'[q] = pc[q]
    BY <1>0, <1>1 DEF TypeOK, Start, Goto
  <2>4. next' = next + 1 /\ recorded' = recorded /\ recorded \in SUBSET Entries
    BY <1>0, <1>1 DEF Start, history, TypeOK
  <2>5. \A e \in recorded : e.time < next + 1 /\ e.time # next
    BY <2>1, <2>4, EntryType DEF OnceInv, Times
  <2>6. \A q, o \in Procs : run'[q] # None /\ run'[q].time = run'[o].time => q = o
    BY <2>1, <2>2 DEF OnceInv
  <2>7. \A q \in Procs : pc'[q] \in Unwritten => \A e \in recorded : e.time # run'[q].time
    BY <2>1, <2>3, <2>5 DEF OnceInv
  <2> QED
    BY <2>4, <2>5, <2>6, <2>7 DEF OnceInv
<1>2. ASSUME NEW p \in Procs, Match(p) PROVE OnceInv'
  <2>1. \A q \in Procs : pc'[q] \in Unwritten => pc[q] \in Unwritten
    BY <1>0, <1>2 DEF TypeOK, Match, Goto, Unwritten
  <2> QED
    BY <1>2, <2>1 DEF OnceInv, Match, history
<1>3. ASSUME NEW p \in Procs, Adopt(p) PROVE OnceInv'
  <2>1. \A q \in Procs : pc'[q] \in Unwritten => pc[q] \in Unwritten
    BY <1>0, <1>3 DEF TypeOK, Adopt, Goto, Unwritten
  <2> QED
    BY <1>3, <2>1 DEF OnceInv, Adopt, history
<1>4. ASSUME NEW p \in Procs, Reject(p) PROVE OnceInv'
  <2>1. \A q \in Procs : pc'[q] \in Unwritten => pc[q] \in Unwritten
    BY <1>0, <1>4 DEF TypeOK, Reject, Goto, Unwritten
  <2> QED
    BY <1>4, <2>1 DEF OnceInv, Reject, history
<1>5. ASSUME NEW p \in Procs, Store(p) PROVE OnceInv'
  <2>1. \A q \in Procs : pc'[q] \in Unwritten => pc[q] \in Unwritten
    BY <1>0, <1>5 DEF TypeOK, Store, Goto, Unwritten
  <2> QED
    BY <1>5, <2>1 DEF OnceInv, Store, history
<1>6. ASSUME NEW p \in Procs, StoreFails(p) PROVE OnceInv'
  <2>1. \A q \in Procs : pc'[q] \in Unwritten => pc[q] \in Unwritten
    BY <1>0, <1>6 DEF TypeOK, StoreFails, Goto, Unwritten
  <2> QED
    BY <1>6, <2>1 DEF OnceInv, StoreFails, history
<1>7. ASSUME NEW p \in Procs, Baseline(p) PROVE OnceInv'
  <2>1. \A q \in Procs : pc'[q] \in Unwritten => pc[q] \in Unwritten
    BY <1>0, <1>7 DEF TypeOK, Baseline, Goto, Unwritten
  <2> QED
    BY <1>7, <2>1 DEF OnceInv, Baseline, history
<1>8. ASSUME NEW p \in Procs, Diff(p) PROVE OnceInv'
  <2>1. \A q \in Procs : pc'[q] \in Unwritten => pc[q] \in Unwritten
    BY <1>0, <1>8 DEF TypeOK, Diff, Goto, Unwritten
  <2> QED
    BY <1>8, <2>1 DEF OnceInv, Diff, history
<1>9. ASSUME NEW p \in Procs, Open(p) PROVE OnceInv'
  <2>1. \A q \in Procs : pc'[q] \in Unwritten => pc[q] \in Unwritten
    BY <1>0, <1>9 DEF TypeOK, Open, Goto, Unwritten
  <2> QED
    BY <1>9, <2>1 DEF OnceInv, Open, history
<1>10. ASSUME NEW p \in Procs, Write(p) PROVE OnceInv'
  <2>0. /\ entry[p] \in Entries /\ entry[p] = EntryOf(run[p], entry[p].artifact)
        /\ run[p] \in RunRecords /\ run[p].time < next
    BY <1>0, <1>10, EntryType DEF Write, Holds, Entered
  <2>1. /\ entry[p] \in Entries /\ entry[p].time = run[p].time
        /\ run[p] \in RunRecords /\ run[p].time < next /\ run[p] # None
    BY <2>0, EntryType DEF EntryOf
  <2>2. recorded' = recorded \cup {entry[p]} /\ recorded \in SUBSET Entries
        /\ UNCHANGED <<run, next>>
    BY <1>0, <1>10 DEF Write, TypeOK
  <2>3. IsFiniteSet(recorded')
    BY <2>2, FS_AddElement DEF OnceInv
  <2>4. \A e \in recorded : e.time # run[p].time
    BY <1>10 DEF OnceInv, Write, Unwritten
  <2>5. \A q \in Procs : pc'[q] \in Unwritten => pc[q] \in Unwritten /\ q # p
    BY <1>0, <1>10 DEF TypeOK, Write, Goto, Unwritten
  <2>6. \A q \in Procs : q # p => run[q].time # run[p].time
    BY <2>1 DEF OnceInv
  <2>7. \A q \in Procs : pc'[q] \in Unwritten => \A e \in recorded' : e.time # run[q].time
    BY <2>1, <2>2, <2>5, <2>6 DEF OnceInv
  <2>8. \A e, f \in recorded' : e.time = f.time => e = f
    BY <2>1, <2>2, <2>4 DEF OnceInv
  <2> QED
    BY <2>1, <2>2, <2>3, <2>7, <2>8 DEF OnceInv
<1>11. ASSUME NEW p \in Procs, WriteFails(p) PROVE OnceInv'
  <2>1. \A q \in Procs : pc'[q] \in Unwritten => pc[q] \in Unwritten
    BY <1>0, <1>11 DEF TypeOK, WriteFails, Goto, Unwritten
  <2> QED
    BY <1>11, <2>1 DEF OnceInv, WriteFails, history
<1>12. ASSUME NEW p \in Procs, Stat(p) PROVE OnceInv'
  <2>1. \A q \in Procs : pc'[q] \in Unwritten => pc[q] \in Unwritten
    BY <1>0, <1>12 DEF TypeOK, Stat, Goto, Unwritten
  <2> QED
    BY <1>12, <2>1 DEF OnceInv, Stat, history
<1>13. ASSUME NEW p \in Procs, Compact(p) PROVE OnceInv'
  <2>1. \A q \in Procs : pc'[q] \in Unwritten => pc[q] \in Unwritten
    BY <1>0, <1>13 DEF TypeOK, Compact, Goto, Unwritten
  <2> QED
    BY <1>13, <2>1 DEF OnceInv, Compact, history
<1>14. ASSUME NEW p \in Procs, Rewrite(p) PROVE OnceInv'
  <2>1. \A q \in Procs : pc'[q] \in Unwritten => pc[q] \in Unwritten
    BY <1>0, <1>14 DEF TypeOK, Rewrite, Goto, Unwritten
  <2> QED
    BY <1>14, <2>1 DEF OnceInv, Rewrite, history
<1>15. ASSUME NEW p \in Procs, RewriteFails(p) PROVE OnceInv'
  <2>1. \A q \in Procs : pc'[q] \in Unwritten => pc[q] \in Unwritten
    BY <1>0, <1>15 DEF TypeOK, RewriteFails, Goto, Unwritten
  <2> QED
    BY <1>15, <2>1 DEF OnceInv, RewriteFails, history
<1>16. ASSUME NEW p \in Procs, Sweep(p) PROVE OnceInv'
  BY <1>0, <1>16 DEF TypeOK, Holds, OnceInv, Unwritten, Sweep, Goto, history
<1>17. ASSUME NEW p \in Procs, Swept(p) PROVE OnceInv'
  <2>1. \A q \in Procs : pc'[q] \in Unwritten => pc[q] \in Unwritten
    BY <1>0, <1>17 DEF TypeOK, Swept, Goto, Unwritten
  <2> QED
    BY <1>17, <2>1 DEF OnceInv, Swept, history
<1>18. ASSUME NEW p \in Procs, Show(p) PROVE OnceInv'
  <2>1. \A q \in Procs : pc'[q] \in Unwritten => pc[q] \in Unwritten /\ run'[q] = run[q]
    BY <1>0, <1>18 DEF TypeOK, Show, Gone, Goto, Unwritten
  <2>2. \A q \in Procs : run'[q] = IF q = p THEN None ELSE run[q]
    BY <1>0, <1>18 DEF TypeOK, Show, Gone
  <2>3. \A q \in Procs : run[q] # None => run[q].time # None.time
    BY <1>0, RunType, EntryType DEF TypeOK, Times
  <2>4. \A q, o \in Procs : run'[q] # None /\ run'[q].time = run'[o].time => q = o
    BY <2>2, <2>3 DEF OnceInv
  <2> QED
    BY <1>18, <2>1, <2>4 DEF OnceInv, Show, Gone
<1>19. ASSUME NEW p \in Procs, Crash(p) PROVE OnceInv'
  <2>1. \A q \in Procs : pc'[q] \in Unwritten => pc[q] \in Unwritten /\ run'[q] = run[q]
    BY <1>0, <1>19 DEF TypeOK, Crash, Gone, Goto, Unwritten
  <2>2. \A q \in Procs : run'[q] = IF q = p THEN None ELSE run[q]
    BY <1>0, <1>19 DEF TypeOK, Crash, Gone
  <2>3. \A q \in Procs : run[q] # None => run[q].time # None.time
    BY <1>0, RunType, EntryType DEF TypeOK, Times
  <2>4. \A q, o \in Procs : run'[q] # None /\ run'[q].time = run'[o].time => q = o
    BY <2>2, <2>3 DEF OnceInv
  <2> QED
    BY <1>19, <2>1, <2>4 DEF OnceInv, Crash, Gone
<1>20. ASSUME NEW t \in Times, Damage(t) PROVE OnceInv'
  BY <1>20 DEF OnceInv, Damage
<1>21. CASE UNCHANGED vars
  BY <1>21 DEF vars, history, OnceInv
<1> QED
  BY <1>1, <1>2, <1>3, <1>4, <1>5, <1>6, <1>7, <1>8, <1>9, <1>10, <1>11, <1>12, <1>13, <1>14, <1>15, <1>16, <1>17, <1>18, <1>19, <1>20, <1>21 DEF Next, DedupStep, AppendStep

(* Whatever is indexed is the entry of a run that got that far.            *)
LEMMA IndexedStep ==
  ControlInv /\ RecordInv /\ [Next]_vars => IndexedInv'
<1> SUFFICES ASSUME ControlInv, OnceInv, IndexedInv, [Next]_vars
             PROVE  IndexedInv'
  BY DEF RecordInv
<1>0. TypeOK /\ \A p \in Procs : Holds(p)
  BY DEF ControlInv
<1>1. ASSUME NEW p \in Procs, Start(p) PROVE IndexedInv'
  <2>1. /\ \A q \in Procs : q # p => run'[q] = run[q] /\ pc'[q] = pc[q]
        /\ pc'[p] = "match" /\ found[p] = None /\ shown[p] = "raw"
    BY <1>0, <1>1, StartEffect DEF TypeOK, Start, Goto, Holds
  <2>2. UNCHANGED <<inodes, batch, recorded, cut, found, shown>>
    BY <1>1 DEF Start, history
  <2> QED
    BY <2>1, <2>2 DEF IndexedInv, Honest
<1>2. ASSUME NEW p \in Procs, Match(p) PROVE IndexedInv'
  <2> SUFFICES ASSUME ~cut' PROVE IndexedInv'
    BY DEF IndexedInv
  <2>1. PICK e \in Entries \cup {None}, label \in {"store", "verify"} :
           /\ found' = [found EXCEPT ![p] = e]
           /\ pc' = [pc EXCEPT ![p] = label]
           /\ label = "verify" => e \in Entries /\ e \in Matches(run[p])
           /\ label = "store" => e = None
    BY <1>0, <1>2, MatchEffect
  <2>2. UNCHANGED <<inodes, batch, recorded, cut, run, shown>> /\ ~cut /\ shown[p] = "raw"
    BY <1>0, <1>2 DEF Match, history, Holds
  <2>3. \A f \in Index.entries : f \in recorded /\ f.time # run[p].time
    BY <1>0, <1>2, <2>2, IndexType DEF IndexedInv, OnceInv, Match, Unwritten, Index
  <2>4. label = "verify" => /\ e \in recorded /\ e.time # run[p].time
                            /\ e.place = run[p].place /\ e.exit = run[p].exit
                            /\ e.output = run[p].output
                            /\ e.time >= run[p].time - Window
    BY <2>1, <2>3 DEF Matches, CommandMatches
  <2>5. Honest(p)'
    BY <1>0, <2>1, <2>2, <2>4 DEF Honest, TypeOK
  <2>6. ASSUME NEW q \in Procs, q # p PROVE Honest(q)'
    BY <1>0, <2>1, <2>2, <2>6 DEF IndexedInv, Honest, TypeOK
  <2> QED
    BY <2>2, <2>5, <2>6 DEF IndexedInv
<1>3. ASSUME NEW p \in Procs, Adopt(p) PROVE IndexedInv'
  BY <1>0, <1>3 DEF TypeOK, Holds, OnceInv, IndexedInv, Honest, Adopt, Goto, history
<1>4. ASSUME NEW p \in Procs, Reject(p) PROVE IndexedInv'
  BY <1>0, <1>4 DEF TypeOK, Holds, OnceInv, IndexedInv, Honest, Reject, Goto, history
<1>5. ASSUME NEW p \in Procs, Store(p) PROVE IndexedInv'
  <2>1. UNCHANGED <<inodes, recorded, cut, batch, run, found, shown>>
    BY <1>5 DEF Store, history
  <2>2. \A q \in Procs : pc'[q] = "verify" => pc[q] = "verify"
    BY <1>0, <1>5 DEF TypeOK, Store, Goto
  <2> QED
    BY <2>1, <2>2 DEF IndexedInv, Honest
<1>6. ASSUME NEW p \in Procs, StoreFails(p) PROVE IndexedInv'
  <2>1. UNCHANGED <<inodes, recorded, cut, batch, run, found, shown>>
    BY <1>6 DEF StoreFails, history
  <2>2. \A q \in Procs : pc'[q] = "verify" => pc[q] = "verify"
    BY <1>0, <1>6 DEF TypeOK, StoreFails, Goto
  <2> QED
    BY <2>1, <2>2 DEF IndexedInv, Honest
<1>7. ASSUME NEW p \in Procs, Baseline(p) PROVE IndexedInv'
  <2> SUFFICES ASSUME ~cut' PROVE IndexedInv'
    BY DEF IndexedInv
  <2>1. PICK e \in Entries \cup {None}, label \in {"diff", "open"} :
          /\ found' = [found EXCEPT ![p] = e]
          /\ pc' = [pc EXCEPT ![p] = label]
          /\ label = "diff" => e \in CommandMatches(run[p])
          /\ label = "open" => e = None
    BY <1>0, <1>7, BaselineEffect DEF Holds, Baseline
  <2>2. UNCHANGED <<inodes, batch, recorded, cut, run, shown>> /\ ~cut /\ shown[p] = "raw"
    BY <1>0, <1>7 DEF Baseline, history, Holds
  <2>3. \A f \in Index.entries : f \in recorded /\ f.time # run[p].time
    BY <1>0, <1>7, <2>2, IndexType DEF IndexedInv, OnceInv, Baseline, Unwritten, Index
  <2>4. e # None => e \in recorded /\ e.time # run[p].time
    BY <2>1, <2>3 DEF CommandMatches
  <2>5. Honest(p)'
    BY <1>0, <2>1, <2>2, <2>4 DEF Honest, TypeOK
  <2>6. ASSUME NEW q \in Procs, q # p PROVE Honest(q)'
    BY <1>0, <2>1, <2>2, <2>6 DEF IndexedInv, Honest, TypeOK
  <2> QED
    BY <2>2, <2>5, <2>6 DEF IndexedInv
<1>8. ASSUME NEW p \in Procs, Diff(p) PROVE IndexedInv'
  BY <1>0, <1>8 DEF TypeOK, Holds, OnceInv, IndexedInv, Honest, Diff, Goto, history
<1>9. ASSUME NEW p \in Procs, Open(p) PROVE IndexedInv'
  <2>1. UNCHANGED <<inodes, recorded, cut, batch, run, found, shown>>
    BY <1>9 DEF Open, history
  <2>2. \A q \in Procs : pc'[q] = "verify" => pc[q] = "verify"
    BY <1>0, <1>9 DEF TypeOK, Open, Goto
  <2> QED
    BY <2>1, <2>2 DEF IndexedInv, Honest
<1>10. ASSUME NEW p \in Procs, Write(p) PROVE IndexedInv'
  <2> SUFFICES ASSUME ~cut' PROVE IndexedInv'
    BY DEF IndexedInv
  <2> DEFINE i == fd[p]
             g == Appended(inodes[i], entry[p], "ended")
  <2>1. /\ UNCHANGED <<batch, run, found, shown>> /\ ~cut
        /\ recorded' = recorded \cup {entry[p]} /\ inodes' = [inodes EXCEPT ![i] = g]
    BY <1>10 DEF Write
  <2>2. /\ i \in 1 .. Len(inodes) /\ inodes[i] \in Indexes /\ entry[p] \in Entries
        /\ inodes \in Seq(Indexes)
    BY <1>0, <1>10, IndexType DEF TypeOK, Write, Holds, Entered
  <2>3. inodes[i].loose = Ended
    BY <2>1, <2>2 DEF IndexedInv
  <2>4. g.entries = inodes[i].entries \cup {entry[p]} /\ g.loose = Ended
    BY <2>2, <2>3, AppendedType
  <2> HIDE DEF i, g
  <2>5. \A j \in 1 .. Len(inodes') : inodes'[j].entries \subseteq recorded' /\ inodes'[j].loose = Ended
    BY <2>1, <2>2, <2>4 DEF IndexedInv
  <2>6. \A q \in Procs : pc'[q] = "verify" => pc[q] = "verify"
    BY <1>0, <1>10 DEF TypeOK, Write, Goto
  <2>7. \A q \in Procs : Honest(q)'
    BY <2>1, <2>6 DEF Honest, IndexedInv
  <2> QED
    BY <2>1, <2>5, <2>7 DEF IndexedInv
<1>11. ASSUME NEW p \in Procs, WriteFails(p) PROVE IndexedInv'
  BY <1>11 DEF IndexedInv, WriteFails
<1>12. ASSUME NEW p \in Procs, Stat(p) PROVE IndexedInv'
  <2>1. UNCHANGED <<inodes, recorded, cut, batch, run, found, shown>>
    BY <1>12 DEF Stat, history
  <2>2. \A q \in Procs : pc'[q] = "verify" => pc[q] = "verify"
    BY <1>0, <1>12 DEF TypeOK, Stat, Goto
  <2> QED
    BY <2>1, <2>2 DEF IndexedInv, Honest
<1>13. ASSUME NEW p \in Procs, Compact(p) PROVE IndexedInv'
  <2>1. UNCHANGED <<inodes, recorded, cut, run, found, shown>>
    BY <1>13 DEF Compact, history
  <2>2. ASSUME ~cut PROVE \A q \in Procs : batch'[q].kept \subseteq recorded
    <3>1. Retained(Index.entries) \subseteq recorded
      BY <1>0, <2>2, RetainedType, IndexType DEF IndexedInv, Index
    <3>2. \A q \in Procs : batch'[q].kept = batch[q].kept \/ batch'[q].kept = Retained(Index.entries)
      <4> DEFINE b == [kept |-> Retained(Index.entries), orphans |-> Orphaned(Index.entries)]
      <4>1. batch' = [batch EXCEPT ![p] = b] \/ batch' = batch
        BY <1>13 DEF Compact
      <4>2. b.kept = Retained(Index.entries)
        OBVIOUS
      <4> HIDE DEF b
      <4> QED
        BY <1>0, <4>1, <4>2 DEF TypeOK
    <3> QED
      BY <2>2, <3>1, <3>2 DEF IndexedInv
  <2>3. \A q \in Procs : pc'[q] = "verify" => pc[q] = "verify"
    BY <1>0, <1>13 DEF TypeOK, Compact, Goto
  <2> QED
    BY <2>1, <2>2, <2>3 DEF IndexedInv, Honest
<1>14. ASSUME NEW p \in Procs, Rewrite(p) PROVE IndexedInv'
  <2> DEFINE g == [entries |-> batch[p].kept, torn |-> 0, loose |-> Ended]
  <2>1. inodes' = Append(inodes, g) /\ UNCHANGED <<batch, recorded, cut, run, found, shown>>
    BY <1>14 DEF Rewrite, EmptyIndex, history
  <2>2. g.entries = batch[p].kept /\ g.loose = Ended
    OBVIOUS
  <2> HIDE DEF g
  <2>3. inodes \in Seq(Indexes)
    BY <1>0 DEF TypeOK
  <2>4. ~cut => \A j \in 1 .. Len(inodes') : inodes'[j].entries \subseteq recorded /\ inodes'[j].loose = Ended
    BY <2>1, <2>2, <2>3 DEF IndexedInv
  <2>5. \A q \in Procs : pc'[q] = "verify" => pc[q] = "verify"
    BY <1>0, <1>14 DEF TypeOK, Rewrite, Goto
  <2> QED
    BY <2>1, <2>4, <2>5 DEF IndexedInv, Honest
<1>15. ASSUME NEW p \in Procs, RewriteFails(p) PROVE IndexedInv'
  <2>1. \A q \in Procs : batch'[q].kept \subseteq batch[q].kept
    BY <1>0, <1>15 DEF TypeOK, RewriteFails, NoBatch
  <2>2. \A q \in Procs : pc'[q] = "verify" => pc[q] = "verify"
    BY <1>0, <1>15 DEF TypeOK, RewriteFails, Goto
  <2> QED
    BY <1>15, <2>1, <2>2 DEF IndexedInv, Honest, RewriteFails, history
<1>16. ASSUME NEW p \in Procs, Sweep(p) PROVE IndexedInv'
  BY <1>0, <1>16 DEF TypeOK, Holds, OnceInv, IndexedInv, Honest, Sweep, Goto, history
<1>17. ASSUME NEW p \in Procs, Swept(p) PROVE IndexedInv'
  <2>1. \A q \in Procs : batch'[q].kept \subseteq batch[q].kept
    BY <1>0, <1>17 DEF TypeOK, Swept, NoBatch
  <2>2. \A q \in Procs : pc'[q] = "verify" => pc[q] = "verify"
    BY <1>0, <1>17 DEF TypeOK, Swept, Goto
  <2> QED
    BY <1>17, <2>1, <2>2 DEF IndexedInv, Honest, Swept, history
<1>18. ASSUME NEW p \in Procs, Show(p) PROVE IndexedInv'
  <2>1. \A q \in Procs : batch'[q].kept \subseteq batch[q].kept
    BY <1>0, <1>18 DEF TypeOK, Show, Gone, NoBatch
  <2>2. /\ \A q \in Procs : q # p => /\ pc'[q] = pc[q] /\ found'[q] = found[q]
                                     /\ run'[q] = run[q] /\ shown'[q] = shown[q]
        /\ pc'[p] = "idle" /\ found'[p] = None /\ shown'[p] = "raw"
        /\ UNCHANGED <<inodes, recorded, cut>>
    BY <1>0, <1>18 DEF TypeOK, Show, Gone, Goto
  <2>3. ~cut => \A q \in Procs : Honest(q)'
    BY <2>2 DEF IndexedInv, Honest
  <2> QED
    BY <2>1, <2>2, <2>3 DEF IndexedInv
<1>19. ASSUME NEW p \in Procs, Crash(p) PROVE IndexedInv'
  <2>1. \A q \in Procs : batch'[q].kept \subseteq batch[q].kept
    BY <1>0, <1>19 DEF TypeOK, Crash, Gone, NoBatch
  <2>2. /\ \A q \in Procs : q # p => /\ pc'[q] = pc[q] /\ found'[q] = found[q]
                                     /\ run'[q] = run[q] /\ shown'[q] = shown[q]
        /\ pc'[p] = "idle" /\ found'[p] = None /\ shown'[p] = "raw"
        /\ UNCHANGED <<inodes, recorded, cut>>
    BY <1>0, <1>19 DEF TypeOK, Crash, Gone, Goto
  <2>3. ~cut => \A q \in Procs : Honest(q)'
    BY <2>2 DEF IndexedInv, Honest
  <2> QED
    BY <2>1, <2>2, <2>3 DEF IndexedInv
<1>20. ASSUME NEW t \in Times, Damage(t) PROVE IndexedInv'
  BY <1>20 DEF IndexedInv, Honest, Damage
<1>21. CASE UNCHANGED vars
  BY <1>21 DEF vars, history, IndexedInv, Honest
<1> QED
  BY <1>1, <1>2, <1>3, <1>4, <1>5, <1>6, <1>7, <1>8, <1>9, <1>10, <1>11, <1>12, <1>13, <1>14, <1>15, <1>16, <1>17, <1>18, <1>19, <1>20, <1>21 DEF Next, DedupStep, AppendStep

-----------------------------------------------------------------------------
(* The shape of the state, for any number of processes.                    *)
THEOREM DedupTypes == Spec => []TypeOK
<1>1. ControlInv => TypeOK
  BY DEF ControlInv
<1> QED
  BY <1>1, ControlInit, ControlStep, PTL DEF Spec

(* What the index holds was recorded, each run once, for any number of     *)
(* processes.                                                              *)
THEOREM DedupRecords == Spec => [](ControlInv /\ RecordInv)
<1>1. ControlInv /\ RecordInv /\ [Next]_vars => (ControlInv /\ RecordInv)'
  BY ControlStep, OnceStep, IndexedStep DEF RecordInv
<1> QED
  BY <1>1, ControlInit, RecordInit, PTL DEF Spec

(* However many processes end their runs at once, a reference stands for   *)
(* an earlier run of the window, in the same place, that exited the same   *)
(* way and had the same output: Store.CommandMatches and Key.matches look  *)
(* only at what Append recorded.                                           *)
THEOREM ReferencesAreHonest == Spec => []ReferenceIsHonest
<1>1. ControlInv /\ RecordInv => ReferenceIsHonest
  <2> SUFFICES ASSUME ControlInv, RecordInv, NEW p \in Procs,
                      shown[p] = "reference", ~cut
               PROVE  \E e \in recorded : /\ e.place = run[p].place
                                          /\ e.exit = run[p].exit
                                          /\ e.output = run[p].output
                                          /\ e.time >= run[p].time - Window
                                          /\ e.time # run[p].time
    BY DEF ReferenceIsHonest
  <2>1. found[p] # None /\ Honest(p)
    BY EntryType DEF ControlInv, Holds, RecordInv, IndexedInv
  <2> QED
    BY <2>1 DEF Honest
<1> QED
  BY <1>1, DedupRecords, PTL
-----------------------------------------------------------------------------
(* One process at the end of its run. *)

(* An empty directory needs no artifact.                                   *)
LEMMA StoreInit == Init => StoreInv
BY EntryType DEF Init, StoreInv, Dated, AloneInv, NewestInv, NoDangling, NoLeak, IndexIsNewest, Since, Index, EmptyIndex

(* While the files stay as they are, what is said of them does too.        *)
LEMMA StoreFrame ==
  ASSUME ControlInv, StoreInv, UNCHANGED <<inodes, artifacts, damaged>>, next' \in {next, next + 1}
  PROVE  Index' = Index /\ Dated' /\ NoDangling'
<1>1. Index' = Index
  BY DEF Index
<1>2. \A e \in Index.entries : e.time \in Nat
  BY IndexType, EntryType DEF ControlInv, Times
<1>3. next \in Nat
  BY DedupAssumption DEF ControlInv, TypeOK
<1> QED
  BY <1>1, <1>2, <1>3 DEF StoreInv, Dated, NoDangling

(* A run that starts has stored nothing yet.                               *)
LEMMA StoreStart ==
  ASSUME OneAtATime, ControlInv, RecordInv, StoreInv, NEW p \in Procs, Start(p)
  PROVE  StoreInv'
<1>0. /\ TypeOK /\ (\A q \in Procs : Holds(q)) /\ (\A q \in Procs : q = p)
  BY DEF ControlInv, OneAtATime
<1>1. Index' = Index /\ Dated' /\ NoDangling'
  BY StoreFrame DEF Start, history

<1>2. run'[p].time = next /\ next \in Times /\ next' = next + 1
  BY <1>0, StartEffect DEF Start
<1>3. /\ pc[p] = "idle" /\ pc'[p] = "match" /\ entry[p] = None /\ entry' = entry
      /\ shown' = shown /\ shown[p] = "raw" /\ UNCHANGED <<artifacts, recorded, leaked, batch, cut>>
  BY <1>0 DEF Start, Goto, TypeOK, Holds, history
<1>4. Alone(p)'
  <2>1. \A e \in Index.entries \cup recorded : e.time < next
    BY DEF StoreInv, Dated, RecordInv, OnceInv
  <2> QED
    BY <1>1, <1>2, <1>3, <2>1 DEF Alone, Times
<1>5. NoLeak'
  BY <1>1, <1>3 DEF StoreInv, NoLeak
<1>6. NewestInv'
  BY <1>0, <1>1, <1>3 DEF StoreInv, NewestInv, IndexIsNewest, Since
<1> QED
  BY <1>0, <1>1, <1>4, <1>5, <1>6 DEF StoreInv, AloneInv

(* Looking for an earlier entry of the same output changes no file.        *)
LEMMA StoreMatch ==
  ASSUME OneAtATime, ControlInv, RecordInv, StoreInv, NEW p \in Procs, Match(p)
  PROVE  StoreInv'
<1>0. /\ TypeOK /\ (\A q \in Procs : Holds(q)) /\ (\A q \in Procs : q = p)
  BY DEF ControlInv, OneAtATime
<1>1. Index' = Index /\ Dated' /\ NoDangling'
  BY StoreFrame DEF Match, history

<1>2. PICK e \in Entries \cup {None}, label \in {"store", "verify"} :
         /\ found' = [found EXCEPT ![p] = e]
         /\ pc' = [pc EXCEPT ![p] = label]
         /\ label = "verify" => e \in Entries /\ e \in Matches(run[p])
  BY <1>0, MatchEffect
<1>3. /\ pc[p] = "match" /\ pc'[p] = label /\ found'[p] = e /\ entry[p] = None /\ shown[p] = "raw"
      /\ UNCHANGED <<artifacts, recorded, leaked, batch, cut, run, next, entry, shown>>
  BY <1>0, <1>2 DEF Match, TypeOK, Holds, history
<1>4. label = "verify" => e \in Index.entries
  BY <1>2 DEF Matches, CommandMatches
<1>5. Alone(p)'
  BY <1>1, <1>3, <1>4 DEF StoreInv, AloneInv, Alone, Unwritten
<1>6. NoLeak'
  BY <1>1, <1>3 DEF StoreInv, NoLeak
<1>7. NewestInv'
  BY <1>0, <1>1, <1>3 DEF StoreInv, NewestInv, IndexIsNewest, Since
<1> QED
  BY <1>0, <1>1, <1>5, <1>6, <1>7 DEF StoreInv, AloneInv

(* A matching entry whose artifact reads back is taken over, not stored    *)
(* again.                                                                  *)
LEMMA StoreAdopt ==
  ASSUME OneAtATime, ControlInv, RecordInv, StoreInv, NEW p \in Procs, Adopt(p)
  PROVE  StoreInv'
<1>0. /\ TypeOK /\ (\A q \in Procs : Holds(q)) /\ (\A q \in Procs : q = p)
  BY DEF ControlInv, OneAtATime
<1>1. Index' = Index /\ Dated' /\ NoDangling'
  BY StoreFrame DEF Adopt, history

<1> DEFINE e == EntryOf(run[p], found[p].artifact)
<1>2. /\ pc[p] = "verify" /\ pc'[p] = "open" /\ found[p] \in Entries /\ run[p] \in RunRecords
      /\ found[p].output = run[p].output /\ entry[p] = None /\ entry'[p] = e
      /\ artifacts[found[p].artifact] = found[p].output
  BY <1>0 DEF Adopt, Goto, TypeOK, Holds, VerifyArtifact
<1>3. /\ shown'[p] # "delta"
      /\ UNCHANGED <<artifacts, recorded, leaked, batch, cut, run, next, found>>
  BY <1>0 DEF Adopt, TypeOK, history
<1>4. /\ e.artifact = found[p].artifact /\ e.time = run[p].time /\ e.output = run[p].output
      /\ found[p].artifact \in Times
  BY <1>2, EntryOfType, EntryType
<1> HIDE DEF e
<1>5. Alone(p)
  BY <1>2 DEF StoreInv, AloneInv
<1>6. found[p] \in Index.entries /\ found[p].time < run[p].time /\ found[p].artifact <= found[p].time
  BY <1>2, <1>5 DEF Alone, Unwritten, StoreInv, Dated
<1>7. found[p].artifact <= run[p].time
  BY <1>2, <1>6, EntryType, RunType DEF Times
<1>8. Alone(p)'
  BY <1>1, <1>2, <1>3, <1>4, <1>5, <1>6, <1>7 DEF Alone, Unwritten, Covered
<1>9. NoLeak'
  BY <1>0, <1>1, <1>2, <1>3 DEF StoreInv, NoLeak
<1>10. NewestInv'
  BY <1>0, <1>1, <1>2, <1>3 DEF StoreInv, NewestInv, IndexIsNewest, Since
<1> QED
  BY <1>0, <1>1, <1>8, <1>9, <1>10 DEF StoreInv, AloneInv

(* An entry whose artifact does not read back leads to storing the output. *)
LEMMA StoreReject ==
  ASSUME OneAtATime, ControlInv, RecordInv, StoreInv, NEW p \in Procs, Reject(p)
  PROVE  StoreInv'
<1>0. /\ TypeOK /\ (\A q \in Procs : Holds(q)) /\ (\A q \in Procs : q = p)
  BY DEF ControlInv, OneAtATime
<1>1. Index' = Index /\ Dated' /\ NoDangling'
  BY StoreFrame DEF Reject, history

<1>2. /\ pc[p] \in Unwritten /\ pc'[p] = "store" /\ entry[p] = None /\ shown[p] = "raw"
      /\ UNCHANGED <<artifacts, recorded, leaked, batch, cut, run, next, entry, shown>>
      /\ pc[p] # "idle"
  BY <1>0 DEF Reject, Goto, TypeOK, Holds, history, Unwritten
<1>3. Alone(p)'
  BY <1>1, <1>2 DEF StoreInv, AloneInv, Alone, Unwritten
<1>4. NoLeak'
  BY <1>1, <1>2 DEF StoreInv, NoLeak
<1>5. NewestInv'
  BY <1>0, <1>1, <1>2 DEF StoreInv, NewestInv, IndexIsNewest, Since
<1> QED
  BY <1>0, <1>1, <1>3, <1>4, <1>5 DEF StoreInv, AloneInv

(* A failed write of an artifact leaves the store as it was.               *)
LEMMA StoreStoreFails ==
  ASSUME OneAtATime, ControlInv, RecordInv, StoreInv, NEW p \in Procs, StoreFails(p)
  PROVE  StoreInv'
<1>0. /\ TypeOK /\ (\A q \in Procs : Holds(q)) /\ (\A q \in Procs : q = p)
  BY DEF ControlInv, OneAtATime
<1>1. Index' = Index /\ Dated' /\ NoDangling'
  BY StoreFrame DEF StoreFails, history

<1>2. /\ pc[p] \in Unwritten /\ pc'[p] = "show" /\ entry[p] = None /\ shown[p] = "raw"
      /\ UNCHANGED <<artifacts, recorded, leaked, batch, cut, run, next, entry, shown>>
      /\ pc[p] # "idle"
  BY <1>0 DEF StoreFails, Goto, TypeOK, Holds, history, Unwritten
<1>3. Alone(p)'
  BY <1>1, <1>2 DEF StoreInv, AloneInv, Alone, Unwritten
<1>4. NoLeak'
  BY <1>1, <1>2 DEF StoreInv, NoLeak
<1>5. NewestInv'
  BY <1>0, <1>1, <1>2 DEF StoreInv, NewestInv, IndexIsNewest, Since
<1> QED
  BY <1>0, <1>1, <1>3, <1>4, <1>5 DEF StoreInv, AloneInv

(* An artifact is stored before the entry that needs it is written.        *)
LEMMA StoreStore ==
  ASSUME OneAtATime, ControlInv, RecordInv, StoreInv, NEW p \in Procs, Store(p)
  PROVE  StoreInv'
<1>0. /\ TypeOK /\ (\A q \in Procs : Holds(q)) /\ (\A q \in Procs : q = p)
  BY DEF ControlInv, OneAtATime
<1> DEFINE e == EntryOf(run[p], run[p].time)
<1>1. /\ pc[p] = "store" /\ pc'[p] \in {"baseline", "open"} /\ run[p] \in RunRecords
      /\ entry[p] = None /\ entry'[p] = e /\ shown[p] = "raw"
  BY <1>0 DEF Store, Goto, TypeOK, Holds
<1>2. /\ UNCHANGED <<inodes, recorded, leaked, damaged, batch, cut, run, next, found, shown>>
      /\ Index' = Index
  BY DEF Store, history, Index
<1>3. /\ run[p].time \in Times
      /\ \A t \in Times : artifacts'[t] = IF t = run[p].time THEN run[p].output ELSE artifacts[t]
  BY <1>0, <1>1, RunType DEF Store, TypeOK
<1>4. e.artifact = run[p].time /\ e.time = run[p].time /\ e.output = run[p].output
  BY <1>1, <1>3, EntryOfType
<1> HIDE DEF e
<1>5. Alone(p)
  BY <1>1 DEF StoreInv, AloneInv
<1>6. \A f \in Index.entries : f.artifact \in Times /\ f.artifact # run[p].time
  <2> SUFFICES ASSUME NEW f \in Index.entries
               PROVE  f.artifact \in Times /\ f.artifact # run[p].time
    OBVIOUS
  <2>1. f \in Entries /\ f.artifact \in Times /\ f.time \in Times
    BY <1>0, IndexType, EntryType
  <2>2. f.artifact <= f.time /\ f.time < run[p].time
    BY <1>1, <1>5 DEF Alone, Unwritten, StoreInv, Dated
  <2> QED
    BY <1>3, <2>1, <2>2 DEF Times
<1>7. Dated' /\ NoDangling'
  BY <1>2, <1>3, <1>6 DEF StoreInv, Dated, NoDangling
<1>8. Alone(p)'
  BY <1>1, <1>2, <1>3, <1>4, <1>5 DEF Alone, Unwritten, Times
<1>9. NoLeak'
  <2> SUFFICES ASSUME NEW t \in Times \ leaked, artifacts'[t] # NoFile
               PROVE  \/ Covered(t)
                      \/ \E q \in Procs : \/ entry'[q] # None /\ entry'[q].artifact = t
                                         \/ t \in batch[q].orphans
    BY <1>2 DEF NoLeak, Covered
  <2>1. e # None
    BY <1>3, <1>4, EntryType DEF Times
  <2>2. CASE t = run[p].time
    BY <1>1, <1>4, <2>1, <2>2
  <2>3. CASE t # run[p].time
    BY <1>0, <1>1, <1>3, <2>3 DEF StoreInv, NoLeak, Covered
  <2> QED
    BY <2>2, <2>3
<1>10. NewestInv'
  BY <1>0, <1>1, <1>2 DEF StoreInv, NewestInv, IndexIsNewest, Since
<1> QED
  BY <1>0, <1>7, <1>8, <1>9, <1>10 DEF StoreInv, AloneInv

(* Choosing a baseline changes no file.                                    *)
LEMMA StoreBaseline ==
  ASSUME OneAtATime, ControlInv, RecordInv, StoreInv, NEW p \in Procs, Baseline(p)
  PROVE  StoreInv'
<1>0. /\ TypeOK /\ (\A q \in Procs : Holds(q)) /\ (\A q \in Procs : q = p)
  BY DEF ControlInv, OneAtATime
<1>1. Index' = Index /\ Dated' /\ NoDangling'
  BY StoreFrame DEF Baseline, history

<1>2. /\ pc[p] = "baseline" /\ found[p] = None /\ shown[p] = "raw"
      /\ run[p] \in RunRecords
      /\ UNCHANGED <<artifacts, recorded, leaked, batch, cut, run, next, entry, shown>>
  BY <1>0 DEF Baseline, Holds, history
<1>3. PICK e \in Entries \cup {None}, label \in {"diff", "open"} :
        /\ found' = [found EXCEPT ![p] = e]
        /\ pc' = [pc EXCEPT ![p] = label]
        /\ label = "diff" => /\ e \in Entries /\ e \in CommandMatches(run[p])
                             /\ \A f \in CommandMatches(run[p]) : f.time <= e.time
                             /\ e.exit = run[p].exit
  BY <1>0, <1>2, BaselineEffect
<1>4. pc'[p] = label /\ found'[p] = e
  BY <1>0, <1>3 DEF TypeOK
<1>5. Alone(p)
  BY <1>2 DEF StoreInv, AloneInv
<1>6. Alone(p)'
  BY <1>1, <1>2, <1>4, <1>5 DEF Alone, Unwritten, Covered
<1>7. NoLeak'
  BY <1>1, <1>2 DEF StoreInv, NoLeak
<1>8. ASSUME ~cut, label = "diff"
      PROVE  /\ e \in Index.entries /\ e.time < run[p].time
             /\ e.exit = run[p].exit /\ e.place = run[p].place
             /\ Fingerprint[e.command] = Fingerprint[run[p].command]
             /\ \A f \in recorded :
                  /\ Fingerprint[f.command] = Fingerprint[run[p].command]
                  /\ f.place = run[p].place
                  /\ f.time < run[p].time
                  => f.time <= e.time
  <2>1. /\ e \in Index.entries /\ e.place = run[p].place /\ e.exit = run[p].exit
        /\ Fingerprint[e.command] = Fingerprint[run[p].command]
        /\ e.time >= run[p].time - Window
    BY <1>3, <1>8 DEF CommandMatches
  <2>2. e.time < run[p].time
    BY <1>2, <1>5, <2>1 DEF Alone, Unwritten
  <2>3. ASSUME NEW f \in recorded,
               Fingerprint[f.command] = Fingerprint[run[p].command], f.place = run[p].place
        PROVE  f.time <= e.time
    <3>1. f.time \in Times /\ e.time \in Times /\ run[p].time \in Times
      BY <1>0, <1>2, <1>3, <1>8, EntryType, RunType DEF TypeOK
    <3>2. CASE f \notin Index.entries
      BY <1>8, <2>1, <3>1, <3>2 DEF StoreInv, NewestInv, IndexIsNewest, Times
    <3>3. CASE f \in Index.entries /\ f.time >= run[p].time - Window
      BY <1>3, <1>8, <2>3, <3>3 DEF CommandMatches
    <3>4. CASE ~ (f.time >= run[p].time - Window)
      BY <2>1, <3>1, <3>4, DedupAssumption DEF Times
    <3> QED
      BY <3>2, <3>3, <3>4
  <2> QED
    BY <2>1, <2>2, <2>3
<1>9. NewestInv'
  BY <1>0, <1>1, <1>2, <1>4, <1>8 DEF StoreInv, NewestInv, IndexIsNewest, Since
<1> QED
  BY <1>0, <1>1, <1>6, <1>7, <1>9 DEF StoreInv, AloneInv

(* Reading the baseline changes no file.                                   *)
LEMMA StoreDiff ==
  ASSUME OneAtATime, ControlInv, RecordInv, StoreInv, NEW p \in Procs, Diff(p)
  PROVE  StoreInv'
<1>0. /\ TypeOK /\ (\A q \in Procs : Holds(q)) /\ (\A q \in Procs : q = p)
  BY DEF ControlInv, OneAtATime
<1>1. Index' = Index /\ Dated' /\ NoDangling'
  BY StoreFrame DEF Diff, history

<1>2. /\ pc[p] = "diff" /\ pc'[p] = "open"
      /\ UNCHANGED <<artifacts, recorded, leaked, batch, cut, run, next, entry, found>>
  BY <1>0 DEF Diff, Goto, TypeOK, history
<1>3. Alone(p)'
  BY <1>1, <1>2 DEF StoreInv, AloneInv, Alone, Unwritten, Covered
<1>4. NoLeak'
  BY <1>1, <1>2 DEF StoreInv, NoLeak
<1>5. NewestInv'
  BY <1>0, <1>1, <1>2 DEF StoreInv, NewestInv, IndexIsNewest, Since, Expired
<1> QED
  BY <1>0, <1>1, <1>3, <1>4, <1>5 DEF StoreInv, AloneInv

(* Opening the index fixes the file that will be appended to.              *)
LEMMA StoreOpen ==
  ASSUME OneAtATime, ControlInv, RecordInv, StoreInv, NEW p \in Procs, Open(p)
  PROVE  StoreInv'
<1>0. /\ TypeOK /\ (\A q \in Procs : Holds(q)) /\ (\A q \in Procs : q = p)
  BY DEF ControlInv, OneAtATime
<1>1. Index' = Index /\ Dated' /\ NoDangling'
  BY StoreFrame DEF Open, history

<1>2. /\ pc[p] = "open" /\ pc'[p] = "write" /\ fd'[p] = Len(inodes)
      /\ UNCHANGED <<inodes, artifacts, recorded, leaked, batch, cut, run, next, entry, found, shown>>
  BY <1>0 DEF Open, Goto, TypeOK, history
<1>3. Alone(p)'
  BY <1>1, <1>2 DEF StoreInv, AloneInv, Alone, Unwritten, Covered
<1>4. NoLeak'
  BY <1>1, <1>2 DEF StoreInv, NoLeak
<1>5. NewestInv'
  BY <1>0, <1>1, <1>2 DEF StoreInv, NewestInv, IndexIsNewest, Since, Expired
<1> QED
  BY <1>0, <1>1, <1>3, <1>4, <1>5 DEF StoreInv, AloneInv

(* Asking for the size of the index changes nothing.                       *)
LEMMA StoreStat ==
  ASSUME OneAtATime, ControlInv, RecordInv, StoreInv, NEW p \in Procs, Stat(p)
  PROVE  StoreInv'
<1>0. /\ TypeOK /\ (\A q \in Procs : Holds(q)) /\ (\A q \in Procs : q = p)
  BY DEF ControlInv, OneAtATime
<1>1. Index' = Index /\ Dated' /\ NoDangling'
  BY StoreFrame DEF Stat, history

<1>2. /\ pc[p] = "stat" /\ pc'[p] \in {"compact", "show"}
      /\ UNCHANGED <<inodes, artifacts, recorded, leaked, batch, cut, run, next, entry, found, shown>>
  BY <1>0 DEF Stat, Goto, TypeOK, history
<1>3. Alone(p)'
  BY <1>1, <1>2 DEF StoreInv, AloneInv, Alone, Unwritten
<1>4. NoLeak'
  BY <1>1, <1>2 DEF StoreInv, NoLeak
<1>5. NewestInv'
  BY <1>0, <1>1, <1>2 DEF StoreInv, NewestInv, IndexIsNewest, Since, Expired
<1> QED
  BY <1>0, <1>1, <1>3, <1>4, <1>5 DEF StoreInv, AloneInv

(* A compaction keeps in memory what retention leaves of the index.        *)
LEMMA StoreCompact ==
  ASSUME OneAtATime, ControlInv, RecordInv, StoreInv, NEW p \in Procs, Compact(p)
  PROVE  StoreInv'
<1>0. /\ TypeOK /\ (\A q \in Procs : Holds(q)) /\ (\A q \in Procs : q = p)
  BY DEF ControlInv, OneAtATime
<1>1. Index' = Index /\ Dated' /\ NoDangling'
  BY StoreFrame DEF Compact, history

<1>2. /\ pc[p] = "compact" /\ batch[p] = NoBatch
      /\ UNCHANGED <<inodes, artifacts, recorded, leaked, cut, run, next, entry, found, shown>>
  BY <1>0 DEF Compact, Holds, history
<1> DEFINE b == [kept |-> Retained(Index.entries), orphans |-> Orphaned(Index.entries)]
<1>3. \/ batch' = [batch EXCEPT ![p] = b] /\ pc' = [pc EXCEPT ![p] = "rename"]
      \/ batch' = batch /\ pc' = [pc EXCEPT ![p] = "show"]
  BY DEF Compact, Goto
<1>4. \/ batch'[p] = b /\ pc'[p] = "rename"
      \/ batch'[p] = NoBatch /\ pc'[p] = "show"
  <2> HIDE DEF b
  <2> QED BY <1>0, <1>2, <1>3 DEF TypeOK
<1>5. Alone(p)'
  <2>1. batch'[p] = [kept |-> Retained(Index'.entries), orphans |-> Orphaned(Index'.entries)]
        \/ pc'[p] = "show"
    BY <1>1, <1>4
  <2>2. pc'[p] \in {"rename", "show"}
    BY <1>4
  <2>3. pc'[p] = "rename" => batch'[p] = [kept |-> Retained(Index.entries), orphans |-> Orphaned(Index.entries)]'
    BY <1>1, <2>1 DEF Retained, Orphaned
  <2> QED
    BY <1>1, <1>2, <2>2, <2>3 DEF StoreInv, AloneInv, Alone, Unwritten
<1>6. NoLeak'
  BY <1>0, <1>1, <1>2 DEF StoreInv, NoLeak, NoBatch
<1>7. NewestInv'
  BY <1>0, <1>1, <1>2, <1>4 DEF StoreInv, NewestInv, IndexIsNewest, Since, Expired
<1> QED
  BY <1>0, <1>1, <1>5, <1>6, <1>7 DEF StoreInv, AloneInv

(* What a write makes of the index, and of the artifacts it may leak.      *)
LEMMA WrittenIndex ==
  ASSUME ControlInv, StoreInv, NEW p \in Procs, pc[p] = "write",
         NEW how \in {"ended", "fragment", "whole"},
         inodes' = [inodes EXCEPT ![fd[p]] = Appended(@, entry[p], how)]
  PROVE  /\ Index \in Indexes /\ entry[p] \in Entries
         /\ Index' = Appended(Index, entry[p], how)
         /\ inodes[fd[p]] = Index
<1>1. TypeOK /\ fd[p] = Len(inodes) /\ entry[p] \in Entries
  BY DEF ControlInv, Holds, Entered, StoreInv, AloneInv, Alone
<1>2. inodes \in Seq(Indexes) /\ Len(inodes) \in Nat \ {0} /\ Index \in Indexes
  BY <1>1, IndexType DEF TypeOK
<1> DEFINE g == Appended(Index, entry[p], how)
<1>3. inodes' = [inodes EXCEPT ![Len(inodes)] = g]
  BY <1>1 DEF Index
<1> HIDE DEF g
<1>4. Len(inodes') = Len(inodes) /\ inodes'[Len(inodes)] = g
  BY <1>2, <1>3
<1> QED
  BY <1>1, <1>2, <1>4 DEF Index, g

(* The new entry goes to the opened file, and its artifact is there.       *)
LEMMA StoreWrite ==
  ASSUME OneAtATime, ControlInv, RecordInv, StoreInv, NEW p \in Procs, Write(p)
  PROVE  StoreInv'
<1>0. /\ TypeOK /\ (\A q \in Procs : Holds(q)) /\ (\A q \in Procs : q = p)
  BY DEF ControlInv, OneAtATime
<1>1. /\ pc[p] = "write" /\ pc'[p] = "stat" /\ run[p] \in RunRecords
      /\ entry[p] \in Entries /\ entry[p] = EntryOf(run[p], entry[p].artifact) /\ entry[p] # None
  BY <1>0, EntryType DEF Write, Goto, TypeOK, Holds, Entered
<1>2. /\ UNCHANGED <<artifacts, next, run, found, entry, shown, fd, batch, damaged, cut>>
      /\ recorded' = recorded \cup {entry[p]}
      /\ Len(inodes') = Len(inodes)
  BY <1>0 DEF Write, TypeOK
<1>3. /\ Index \in Indexes /\ Index' = Appended(Index, entry[p], "ended")
      /\ leaked' = leaked \cup Lost(Index, entry[p], "ended")
  BY <1>1, WrittenIndex DEF Write
<1>4. /\ Index'.entries \subseteq Index.entries \cup {entry[p]}
      /\ Index.loose = Ended => Index'.entries = Index.entries \cup {entry[p]}
  BY <1>1, <1>3, AppendedType
<1>5. \A f \in (Index.entries \cup {entry[p]}) \ Index'.entries : f.artifact \in leaked'
  BY <1>3 DEF Lost
<1>6. entry[p].time = run[p].time /\ entry[p].time < next
  BY <1>0, <1>1 DEF EntryOf, Holds
<1>7. Alone(p)
  BY <1>1 DEF StoreInv, AloneInv
<1>8. artifacts[entry[p].artifact] = entry[p].output /\ entry[p].artifact <= entry[p].time
  BY <1>1, <1>7 DEF Alone, Unwritten
<1>9. \A f \in Index.entries \cup recorded : f.time < run[p].time
  BY <1>1, <1>7 DEF Alone, Unwritten
<1>10. ~cut => Index.loose = Ended /\ Index.entries \subseteq recorded
  BY <1>0, IndexType DEF RecordInv, IndexedInv, Index
<1>11. Dated' /\ NoDangling'
  BY <1>2, <1>4, <1>6, <1>8 DEF StoreInv, Dated, NoDangling
<1>12. NoLeak'
  BY <1>1, <1>2, <1>3, <1>5 DEF StoreInv, NoLeak
<1>13. Alone(p)'
  <2>1. cut \/ entry[p] \in Index'.entries
    BY <1>4, <1>10
  <2>2. entry[p] \in Index'.entries \/ entry[p].artifact \in leaked'
    BY <1>5
  <2>3. fd[p] = Len(inodes)
    BY <1>1, <1>7 DEF Alone
  <2> QED
    BY <1>1, <1>2, <1>7, <1>8, <2>1, <2>2, <2>3 DEF Alone, Unwritten
<1>14. ASSUME ~cut PROVE IndexIsNewest'
  BY <1>2, <1>4, <1>6, <1>9, <1>10, <1>14 DEF IndexIsNewest, StoreInv, NewestInv
<1>15. ASSUME ~cut PROVE Since(p)'
  <2> SUFFICES ASSUME shown[p] = "delta"
               PROVE  Since(p)'
    BY <1>1, <1>2 DEF Since
  <2>1. Since(p) /\ shown[p] = "delta" /\ found[p] \in Entries
    BY <1>0, <1>15 DEF StoreInv, NewestInv, Holds
  <2>2. Expired(found[p]) => Expired(found[p])'
    <3> DEFINE later == {f \in recorded : f.time > found[p].time}
               later1 == {f \in recorded' : f.time > found[p].time}
    <3>1. IsFiniteSet(recorded) /\ IsFiniteSet(recorded')
      BY <1>2, FS_AddElement DEF RecordInv, OnceInv
    <3>2. IsFiniteSet(later1) /\ later \subseteq later1 /\ IsFiniteSet(later)
      BY <1>2, <3>1, FS_Subset
    <3>3. Cardinality(later) <= Cardinality(later1) /\ Cardinality(later) \in Nat /\ Cardinality(later1) \in Nat
      <4> HIDE DEF later, later1
      <4> QED BY <3>2, FS_Subset, FS_CardinalityType
    <3>4. Cardinality(later) >= RetainEntries => Cardinality(later1) >= RetainEntries
      <4> HIDE DEF later, later1
      <4> QED BY <3>3, DedupAssumption
    <3> QED
      BY <1>2, <3>4 DEF Expired
  <2>3. found[p] \in Index.entries => found[p] \in Index'.entries
    BY <1>4, <1>10, <1>15
  <2>4. \A f \in recorded' : f.time < run[p].time => f \in recorded
    BY <1>1, <1>2, <1>6, RunType DEF Times
  <2> QED
    BY <1>1, <1>2, <2>1, <2>2, <2>3, <2>4 DEF Since
<1>16. NewestInv'
  BY <1>0, <1>2, <1>14, <1>15 DEF NewestInv
<1> QED
  BY <1>0, <1>11, <1>12, <1>13, <1>16 DEF StoreInv, AloneInv

(* A torn entry is no entry, and what it glues to is excused.              *)
LEMMA StoreWriteFails ==
  ASSUME OneAtATime, ControlInv, RecordInv, StoreInv, NEW p \in Procs, WriteFails(p)
  PROVE  StoreInv'
<1>0. /\ TypeOK /\ (\A q \in Procs : Holds(q)) /\ (\A q \in Procs : q = p)
  BY DEF ControlInv, OneAtATime
<1>1. /\ pc[p] = "write" /\ pc'[p] = "show" /\ run[p] \in RunRecords
      /\ entry[p] \in Entries /\ entry[p] = EntryOf(run[p], entry[p].artifact) /\ entry[p] # None
  BY <1>0, EntryType DEF WriteFails, Goto, TypeOK, Holds, Entered
<1>2. /\ UNCHANGED <<artifacts, next, run, found, entry, shown, fd, batch, damaged, recorded>>
      /\ cut' = TRUE
  BY DEF WriteFails
<1>3. \/ Index' = Index
      \/ \E how \in {"fragment", "whole"} : Index \in Indexes /\ Index' = Appended(Index, entry[p], how)
  BY <1>1, WrittenIndex DEF WriteFails, Index
<1>4. fd[p] = Len(inodes)
  BY <1>1 DEF StoreInv, AloneInv, Alone
<1>5. leaked' = leaked \cup {entry[p].artifact} \cup Lost(Index, entry[p], "fragment")
  BY <1>4 DEF WriteFails, Index
<1>6. /\ Index'.entries \subseteq Index.entries \cup {entry[p]}
      /\ \A f \in Index.entries \ Index'.entries : f.artifact \in leaked'
  <2>1. CASE Index' = Index
    BY <2>1
  <2>2. ASSUME NEW how \in {"fragment", "whole"}, Index \in Indexes, Index' = Appended(Index, entry[p], how)
        PROVE  /\ Index'.entries \subseteq Index.entries \cup {entry[p]}
               /\ \A f \in Index.entries \ Index'.entries : f.artifact \in leaked'
    <3>1. Index'.entries \subseteq Index.entries \cup {entry[p]}
      BY <1>1, <2>2, AppendedType
    <3>2. \A f \in Index.entries : f \in Appended(Index, entry[p], "fragment").entries => f \in Index'.entries
      BY <2>2 DEF Appended
    <3>3. \A f \in Index.entries \ Index'.entries : f.artifact \in Lost(Index, entry[p], "fragment")
      BY <3>2 DEF Lost
    <3> QED
      BY <1>5, <3>1, <3>3
  <2> QED
    BY <1>3, <2>1, <2>2
<1>7. entry[p].time = run[p].time /\ entry[p].time < next
  BY <1>0, <1>1 DEF EntryOf, Holds
<1>8. Alone(p)
  BY <1>1 DEF StoreInv, AloneInv
<1>9. artifacts[entry[p].artifact] = entry[p].output /\ entry[p].artifact <= entry[p].time
  BY <1>1, <1>8 DEF Alone, Unwritten
<1>10. Dated' /\ NoDangling'
  BY <1>2, <1>6, <1>7, <1>9 DEF StoreInv, Dated, NoDangling
<1>11. leaked \subseteq leaked' /\ entry[p].artifact \in leaked'
  BY <1>5
<1>12. NoLeak'
  BY <1>2, <1>6, <1>11 DEF StoreInv, NoLeak
<1>13. Alone(p)'
  BY <1>1, <1>2, <1>8, <1>9, <1>11 DEF Alone, Unwritten
<1>14. NewestInv'
  BY <1>2 DEF NewestInv
<1> QED
  BY <1>0, <1>10, <1>12, <1>13, <1>14 DEF StoreInv, AloneInv

(* The rename installs what retention left, whose artifacts are all still  *)
(* there.                                                                  *)
LEMMA StoreRewrite ==
  ASSUME OneAtATime, ControlInv, RecordInv, StoreInv, NEW p \in Procs, Rewrite(p)
  PROVE  StoreInv'
<1>0. /\ TypeOK /\ (\A q \in Procs : Holds(q)) /\ (\A q \in Procs : q = p)
  BY DEF ControlInv, OneAtATime
<1>1. /\ pc[p] = "rename" /\ pc'[p] = "sweep" /\ run[p] \in RunRecords /\ entry[p] \in Entries
      /\ entry[p] = EntryOf(run[p], entry[p].artifact)
      /\ UNCHANGED <<artifacts, next, run, found, entry, shown, fd, batch, damaged, recorded, leaked, cut>>
  BY <1>0, EntryType DEF Rewrite, Goto, TypeOK, Holds, Entered, history
<1>2. Alone(p)
  BY <1>1 DEF StoreInv, AloneInv
<1> DEFINE E == Index.entries
<1>3. batch[p].kept = Retained(E) /\ batch[p].orphans = Orphaned(E)
  BY <1>1, <1>2 DEF Alone
<1>4. Index'.entries = Retained(E)
  <2> DEFINE g == [entries |-> Retained(E), torn |-> 0, loose |-> Ended]
  <2>1. inodes' = Append(inodes, g) /\ inodes \in Seq(Indexes) /\ g.entries = Retained(E)
    BY <1>0, <1>3 DEF Rewrite, EmptyIndex, TypeOK
  <2> HIDE DEF g
  <2>2. inodes'[Len(inodes')] = g
    BY <2>1
  <2> QED
    BY <2>1, <2>2 DEF Index
<1>5. E \in SUBSET Entries /\ Retained(E) \subseteq E
  BY <1>0, IndexType, RetainedType
<1> HIDE DEF E
<1>6. entry[p] \in E => entry[p] \in Retained(E)
  <2> SUFFICES ASSUME entry[p] \in E
               PROVE  entry[p] \in Retained(E)
    OBVIOUS
  <2>1. entry[p].time = run[p].time /\ run[p].time = next - 1
    BY <1>1, <1>2 DEF Alone, EntryOf
  <2>2. next \in Nat
    BY <1>0, DedupAssumption DEF TypeOK
  <2>3. \A f \in E : f.time < next /\ f.time \in Nat
    BY <1>5, EntryType DEF StoreInv, Dated, E, Times
  <2>4. \A f \in E : f.time <= entry[p].time
    BY <2>1, <2>2, <2>3
  <2> QED
    BY <1>5, <2>4, NewestRetained
<1>7. Dated' /\ NoDangling'
  BY <1>1, <1>4, <1>5 DEF StoreInv, Dated, NoDangling, E
<1>8. NoLeak'
  <2>1. \A f \in E : \/ \E g \in Retained(E) : g.artifact = f.artifact
                     \/ f.artifact \in Orphaned(E)
    BY DEF Orphaned
  <2> QED
    BY <1>0, <1>1, <1>3, <1>4, <2>1 DEF StoreInv, NoLeak, E
<1>9. Alone(p)'
  <2>1. \A f \in Index'.entries : f.artifact \notin batch[p].orphans
    BY <1>3, <1>4 DEF Orphaned
  <2>2. /\ entry[p] # None => /\ entry[p].artifact <= entry[p].time
                              /\ cut \/ entry[p] \in E
                              /\ entry[p] \in E \/ entry[p].artifact \in leaked
                              /\ entry[p] \in E => artifacts[entry[p].artifact] = entry[p].output
        /\ run[p].time = next - 1
    BY <1>1, <1>2 DEF Alone, Unwritten, E
  <2> QED
    BY <1>1, <1>4, <1>5, <1>6, <2>1, <2>2 DEF Alone, Unwritten
<1>10. ASSUME ~cut PROVE IndexIsNewest' /\ (Since(p) => Since(p)')
  <2>1. E \subseteq recorded /\ recorded \subseteq Entries /\ IsFiniteSet(recorded)
    BY <1>0, <1>10, IndexType DEF RecordInv, OnceInv, IndexedInv, Index, TypeOK, E
  <2>2. IsFiniteSet(E)
    BY <2>1, FS_Subset
  <2>3. ASSUME NEW e \in recorded \ Retained(E), NEW f \in Retained(E)
        PROVE  e.time < f.time
    <3>1. CASE e \notin E
      BY <1>5, <1>10, <3>1 DEF StoreInv, NewestInv, IndexIsNewest, E
    <3>2. CASE e \in E
      <4>1. ~ (f.time <= e.time)
        BY <1>5, <2>2, <2>3, <3>2, RetainedUpward
      <4>2. f.time \in Nat /\ e.time \in Nat
        BY <1>5, <2>1, EntryType DEF Times
      <4> QED
        BY <4>1, <4>2
    <3> QED
      BY <3>1, <3>2
  <2>4. ASSUME NEW e \in E \ Retained(E)
        PROVE  Expired(e)
    <3> DEFINE inside == {f \in E : f.time > e.time}
               later == {f \in recorded : f.time > e.time}
    <3>1. ~ (Cardinality(inside) < RetainEntries)
      BY <2>4 DEF Retained
    <3>2. inside \subseteq later /\ IsFiniteSet(inside) /\ IsFiniteSet(later)
      BY <2>1, <2>2, FS_Subset
    <3>3. Cardinality(inside) <= Cardinality(later) /\ Cardinality(inside) \in Nat /\ Cardinality(later) \in Nat
      <4> HIDE DEF inside, later
      <4> QED BY <3>2, FS_Subset, FS_CardinalityType
    <3>4. Cardinality(later) >= RetainEntries
      <4> HIDE DEF inside, later
      <4> QED BY <3>1, <3>3, DedupAssumption
    <3> QED
      BY <3>4 DEF Expired
  <2>5. Expired(found[p])' <=> Expired(found[p])
    BY <1>1 DEF Expired
  <2>6. Since(p) => Since(p)'
    <3>1. Since(p) /\ shown[p] = "delta" => found[p] \in Retained(E) \/ Expired(found[p])
      BY <2>4 DEF Since, E
    <3> QED
      BY <1>1, <1>4, <2>5, <3>1 DEF Since
  <2> QED
    BY <1>1, <1>4, <2>3, <2>6 DEF IndexIsNewest
<1>11. NewestInv'
  BY <1>0, <1>1, <1>10 DEF StoreInv, NewestInv
<1> QED
  BY <1>0, <1>7, <1>8, <1>9, <1>11 DEF StoreInv, AloneInv

(* A failed rewrite leaves the index as it was.                            *)
LEMMA StoreRewriteFails ==
  ASSUME OneAtATime, ControlInv, RecordInv, StoreInv, NEW p \in Procs, RewriteFails(p)
  PROVE  StoreInv'
<1>0. /\ TypeOK /\ (\A q \in Procs : Holds(q)) /\ (\A q \in Procs : q = p)
  BY DEF ControlInv, OneAtATime
<1>1. Index' = Index /\ Dated' /\ NoDangling'
  BY StoreFrame DEF RewriteFails, history

<1>2. /\ pc[p] = "rename" /\ pc'[p] = "show" /\ batch'[p] = NoBatch
      /\ UNCHANGED <<artifacts, recorded, leaked, cut, run, next, entry, found, shown>>
  BY <1>0 DEF RewriteFails, Goto, TypeOK, history
<1>3. Alone(p)
  BY <1>2 DEF StoreInv, AloneInv
<1>4. Alone(p)'
  BY <1>1, <1>2, <1>3 DEF Alone, Unwritten
<1>5. \A t \in batch[p].orphans : Covered(t)
  BY <1>2, <1>3 DEF Alone, Orphaned, Covered, RewriteFails
<1>6. NoLeak'
  BY <1>0, <1>1, <1>2, <1>5 DEF StoreInv, NoLeak, Covered
<1>7. NewestInv'
  BY <1>0, <1>1, <1>2 DEF StoreInv, NewestInv, IndexIsNewest, Since, Expired
<1> QED
  BY <1>0, <1>1, <1>4, <1>6, <1>7 DEF StoreInv, AloneInv

(* The sweep ends once every artifact has been looked at.                  *)
LEMMA StoreSwept ==
  ASSUME OneAtATime, ControlInv, RecordInv, StoreInv, NEW p \in Procs, Swept(p)
  PROVE  StoreInv'
<1>0. /\ TypeOK /\ (\A q \in Procs : Holds(q)) /\ (\A q \in Procs : q = p)
  BY DEF ControlInv, OneAtATime
<1>1. Index' = Index /\ Dated' /\ NoDangling'
  BY StoreFrame DEF Swept, history

<1>2. /\ pc[p] = "sweep" /\ pc'[p] = "show" /\ batch'[p] = NoBatch
      /\ UNCHANGED <<artifacts, recorded, leaked, cut, run, next, entry, found, shown>>
  BY <1>0 DEF Swept, Goto, TypeOK, history
<1>3. Alone(p)
  BY <1>2 DEF StoreInv, AloneInv
<1>4. Alone(p)'
  BY <1>1, <1>2, <1>3 DEF Alone, Unwritten
<1>5. \A t \in batch[p].orphans : Covered(t)
  BY <1>2, <1>3 DEF Alone, Orphaned, Covered, Swept
<1>6. NoLeak'
  BY <1>0, <1>1, <1>2, <1>5 DEF StoreInv, NoLeak, Covered
<1>7. NewestInv'
  BY <1>0, <1>1, <1>2 DEF StoreInv, NewestInv, IndexIsNewest, Since, Expired
<1> QED
  BY <1>0, <1>1, <1>4, <1>6, <1>7 DEF StoreInv, AloneInv

(* The sweep removes artifacts that no retained entry names.               *)
LEMMA StoreSweep ==
  ASSUME OneAtATime, ControlInv, RecordInv, StoreInv, NEW p \in Procs, Sweep(p)
  PROVE  StoreInv'
<1>0. /\ TypeOK /\ (\A q \in Procs : Holds(q)) /\ (\A q \in Procs : q = p)
  BY DEF ControlInv, OneAtATime
<1>1. /\ pc[p] = "sweep" /\ pc' = pc /\ entry[p] \in Entries
      /\ UNCHANGED <<inodes, next, run, found, entry, shown, fd, recorded, damaged, cut>>
      /\ Index' = Index
  BY <1>0 DEF Sweep, Holds, Entered, Index
<1>2. PICK t \in batch[p].orphans :
        /\ batch' = [batch EXCEPT ![p] = [kept |-> @.kept, orphans |-> @.orphans \ {t}]]
        /\ \/ artifacts' = [artifacts EXCEPT ![t] = NoFile] /\ leaked' = leaked
           \/ artifacts' = artifacts /\ leaked' = leaked \cup {t}
  BY DEF Sweep
<1>3. t \in Times /\ batch'[p].orphans = batch[p].orphans \ {t}
  <2> DEFINE b == [kept |-> batch[p].kept, orphans |-> batch[p].orphans \ {t}]
  <2>1. b.orphans = batch[p].orphans \ {t} /\ batch' = [batch EXCEPT ![p] = b]
    BY <1>2
  <2> HIDE DEF b
  <2> QED
    BY <1>0, <2>1 DEF TypeOK
<1>4. Alone(p)
  BY <1>1 DEF StoreInv, AloneInv
<1>5. \A e \in Index.entries : e.artifact # t /\ e.artifact \in Times
  BY <1>0, <1>1, <1>4, IndexType, EntryType DEF Alone
<1>6. \A s \in Times : s # t => artifacts'[s] = artifacts[s]
  BY <1>0, <1>2 DEF TypeOK
<1>7. artifacts'[t] = NoFile \/ t \in leaked'
  BY <1>0, <1>2, <1>3 DEF TypeOK
<1>8. Dated' /\ NoDangling'
  BY <1>1, <1>5, <1>6 DEF StoreInv, Dated, NoDangling
<1>9. NoLeak'
  <2> SUFFICES ASSUME NEW s \in Times \ leaked', artifacts'[s] # NoFile
               PROVE  \/ Covered(s)
                      \/ \E q \in Procs : \/ entry[q] # None /\ entry[q].artifact = s
                                         \/ s \in batch'[q].orphans
    BY <1>1 DEF NoLeak, Covered
  <2>1. s # t /\ s \notin leaked /\ artifacts[s] # NoFile
    BY <1>2, <1>6, <1>7
  <2> QED
    BY <1>0, <1>3, <2>1 DEF StoreInv, NoLeak, Covered
<1>10. Alone(p)'
  <2>1. entry[p] \in Index.entries => artifacts'[entry[p].artifact] = artifacts[entry[p].artifact]
    BY <1>5, <1>6
  <2>2. leaked \subseteq leaked'
    BY <1>2
  <2> QED
    BY <1>1, <1>3, <1>4, <2>1, <2>2 DEF Alone, Unwritten
<1>11. NewestInv'
  BY <1>0, <1>1 DEF StoreInv, NewestInv, IndexIsNewest, Since, Expired
<1> QED
  BY <1>0, <1>8, <1>9, <1>10, <1>11 DEF StoreInv, AloneInv

(* Showing a reference or a delta changes no file.                         *)
LEMMA StoreShow ==
  ASSUME OneAtATime, ControlInv, RecordInv, StoreInv, NEW p \in Procs, Show(p)
  PROVE  StoreInv'
<1>0. /\ TypeOK /\ (\A q \in Procs : Holds(q)) /\ (\A q \in Procs : q = p)
  BY DEF ControlInv, OneAtATime
<1>1. Index' = Index /\ Dated' /\ NoDangling'
  BY StoreFrame DEF Show, Gone
<1>2. /\ pc[p] # "idle" /\ pc'[p] = "idle" /\ entry'[p] = None /\ shown'[p] = "raw" /\ batch'[p] = NoBatch
      /\ UNCHANGED <<artifacts, recorded, cut>>
  BY <1>0 DEF Show, Gone, Goto, TypeOK
<1>3. Alone(p)
  BY <1>2 DEF StoreInv, AloneInv
<1>4. NoLeak'
  <2>1. entry[p] # None => Covered(entry[p].artifact) \/ entry[p].artifact \in leaked
    BY <1>3 DEF Alone, Unwritten, Covered, Show
  <2>2. batch[p] = NoBatch /\ leaked' = leaked
    BY <1>0 DEF Show, Holds
  <2> QED
    BY <1>0, <1>1, <1>2, <2>1, <2>2 DEF StoreInv, NoLeak, Covered, NoBatch
<1>5. NewestInv'
  BY <1>0, <1>1, <1>2 DEF StoreInv, NewestInv, IndexIsNewest, Since
<1> QED
  BY <1>0, <1>1, <1>2, <1>4, <1>5 DEF StoreInv, AloneInv

(* A process that dies leaves the files as they are.                       *)
LEMMA StoreCrash ==
  ASSUME OneAtATime, ControlInv, RecordInv, StoreInv, NEW p \in Procs, Crash(p)
  PROVE  StoreInv'
<1>0. /\ TypeOK /\ (\A q \in Procs : Holds(q)) /\ (\A q \in Procs : q = p)
  BY DEF ControlInv, OneAtATime
<1>1. Index' = Index /\ Dated' /\ NoDangling'
  BY StoreFrame DEF Crash, Gone
<1>2. /\ pc[p] # "idle" /\ pc'[p] = "idle" /\ entry'[p] = None /\ shown'[p] = "raw" /\ batch'[p] = NoBatch
      /\ UNCHANGED <<artifacts, recorded, cut>>
  BY <1>0 DEF Crash, Gone, Goto, TypeOK
<1>3. Alone(p)
  BY <1>2 DEF StoreInv, AloneInv
<1>4. NoLeak'
  <2>1. leaked' = leaked \cup {run[p].time} \cup batch[p].orphans
    BY DEF Crash
  <2>2. entry[p] # None => Covered(entry[p].artifact) \/ entry[p].artifact \in leaked'
    BY <1>3, <2>1 DEF Alone, Covered
  <2> QED
    BY <1>0, <1>1, <1>2, <2>1, <2>2 DEF StoreInv, NoLeak, Covered
<1>5. NewestInv'
  BY <1>0, <1>1, <1>2 DEF StoreInv, NewestInv, IndexIsNewest, Since
<1> QED
  BY <1>0, <1>1, <1>2, <1>4, <1>5 DEF StoreInv, AloneInv

(* Damage to an artifact makes it unreadable, not unindexed.               *)
LEMMA StoreDamage ==
  ASSUME ControlInv, StoreInv, NEW t \in Times, Damage(t)
  PROVE  StoreInv'
<1>1. /\ UNCHANGED <<inodes, next, pc, run, found, entry, shown, fd, batch, recorded, leaked, cut>>
      /\ damaged' = damaged \cup {t} /\ artifacts[t] # NoFile /\ Index' = Index
      /\ \A s \in Times : s # t => artifacts'[s] = artifacts[s]
      /\ \A p \in Procs : pc[p] = "idle"
  BY DEF Damage, Index, ControlInv, TypeOK
<1>2. \A e \in Index.entries : e.artifact \in Times
  BY IndexType, EntryType DEF ControlInv
<1>3. Dated' /\ NoDangling'
  BY <1>1, <1>2 DEF StoreInv, Dated, NoDangling
<1>4. NoLeak'
  BY <1>1 DEF StoreInv, NoLeak
<1>5. AloneInv'
  BY <1>1 DEF AloneInv
<1>6. NewestInv'
  BY <1>1 DEF StoreInv, NewestInv, IndexIsNewest, Since, Expired
<1> QED
  BY <1>3, <1>4, <1>5, <1>6 DEF StoreInv

(* One process at a time, every step keeps the store in order.             *)
LEMMA StoreStep ==
  ASSUME OneAtATime, ControlInv, RecordInv, StoreInv, [Next]_vars
  PROVE  StoreInv'
<1>1. CASE UNCHANGED vars
  <2>1. /\ UNCHANGED <<inodes, next, pc, run, found, entry, shown, fd, batch, recorded, leaked, cut>>
        /\ UNCHANGED <<artifacts, damaged>> /\ Index' = Index
    BY <1>1 DEF vars, history, Index
  <2>2. Dated' /\ NoDangling'
    BY <2>1 DEF StoreInv, Dated, NoDangling
  <2>3. NoLeak'
    BY <2>1 DEF StoreInv, NoLeak, Covered
  <2>4. AloneInv'
    <3>1. ASSUME NEW p \in Procs, pc[p] # "idle" PROVE Alone(p)'
      <4>1. Alone(p)
        BY <3>1 DEF StoreInv, AloneInv
      <4> QED
        BY <2>1, <4>1 DEF Alone, Covered
    <3> QED
      BY <2>1, <3>1 DEF AloneInv
  <2>5. NewestInv'
    BY <2>1 DEF StoreInv, NewestInv, IndexIsNewest, Since, Expired
  <2> QED
    BY <2>2, <2>3, <2>4, <2>5 DEF StoreInv
<1>2. ASSUME NEW p \in Procs, DedupStep(p) PROVE StoreInv'
  BY <1>2, StoreStart, StoreMatch, StoreAdopt, StoreReject, StoreStore, StoreStoreFails,
     StoreBaseline, StoreDiff DEF DedupStep
<1>3. ASSUME NEW p \in Procs, AppendStep(p) PROVE StoreInv'
  BY <1>3, StoreOpen, StoreWrite, StoreWriteFails, StoreStat, StoreCompact, StoreRewrite,
     StoreRewriteFails, StoreSweep, StoreSwept DEF AppendStep
<1>4. ASSUME NEW p \in Procs, Show(p) \/ Crash(p) PROVE StoreInv'
  BY <1>4, StoreShow, StoreCrash
<1> QED
  BY <1>1, <1>2, <1>3, <1>4, StoreDamage DEF Next
-----------------------------------------------------------------------------
(* What one process at a time may rely on, whatever calls fail, wherever   *)
(* processes die and whatever is damaged in between.                       *)

(* One process at a time, every reachable state satisfies the inductive    *)
(* invariant of the control, the records and the store                     *)
(* (internal/dedup/store.go).                                              *)
THEOREM DedupInvariant ==
  ASSUME OneAtATime
  PROVE  Spec => []DedupInv
<1>1. Init => DedupInv
  BY ControlInit, RecordInit, StoreInit DEF DedupInv
<1>2. DedupInv /\ [Next]_vars => DedupInv'
  BY ControlStep, OnceStep, IndexedStep, StoreStep DEF DedupInv, RecordInv
<1> QED
  BY <1>1, <1>2, PTL DEF Spec

(* removeOrphanedArtifacts removes nothing an entry of the index refers to,*)
(* and Append records nothing whose artifact is not there.                 *)
THEOREM NothingDangles ==
  ASSUME OneAtATime
  PROVE  Spec => []NoDangling
<1>1. DedupInv => NoDangling
  BY DEF DedupInv, StoreInv
<1> QED
  BY <1>1, DedupInvariant, PTL

(* What compact drops it removes, and nothing else stays behind but what a *)
(* failure or a death explains.                                            *)
THEOREM NothingLeaks ==
  ASSUME OneAtATime
  PROVE  Spec => []NoLeak
<1>1. DedupInv => NoLeak
  BY DEF DedupInv, StoreInv
<1> QED
  BY <1>1, DedupInvariant, PTL

(* An output whose newest entry is this one, with its artifact intact, is  *)
(* found by expand.                                                        *)
LEMMA ExpandsNewest ==
  ASSUME ControlInv, NEW output, NEW e \in Index.entries, e.output = output,
         LET n == Newest({f \in Index.entries : f.output = output})
         IN artifacts[n.artifact] = n.output
  PROVE  Expands(output)
<1> DEFINE E == {f \in Index.entries : f.output = output}
           n == Newest(E)
<1>1. E \in SUBSET Entries /\ E # {}
  BY IndexType DEF ControlInv
<1>2. n \in E
  <2> HIDE DEF E
  <2> QED BY <1>1, NewestType
<1>3. n # None /\ artifacts[n.artifact] = output
  BY <1>1, <1>2, EntryType
<1> QED
  BY <1>3 DEF Expands

(* A reference that is shown resolves, to the output of this very run,     *)
(* while no line of the index was cut short.                               *)
THEOREM ReferencesExpand ==
  ASSUME OneAtATime
  PROVE  Spec => []RefExpandsUncut
<1>1. DedupInv => RefExpandsUncut
  <2> SUFFICES ASSUME DedupInv, ~cut, NEW p \in Procs, pc[p] = "show", shown[p] = "reference"
               PROVE  Expands(run[p].output)
    BY DEF RefExpandsUncut, RefExpands
  <2>1. ControlInv /\ Alone(p) /\ RecordInv /\ Holds(p) /\ TypeOK /\ Dated
    BY DEF DedupInv, StoreInv, AloneInv, ControlInv
  <2>2. entry[p] \in Entries /\ entry[p] = EntryOf(run[p], entry[p].artifact)
    BY <2>1, EntryType DEF Holds
  <2>3. entry[p].output = run[p].output /\ entry[p].time = next - 1
    BY <2>1, <2>2 DEF EntryOf, Alone
  <2>4. /\ entry[p] \in Index.entries
        /\ artifacts[entry[p].artifact] = entry[p].output
    BY <2>1, <2>2, EntryType DEF Alone, Unwritten
  <2> DEFINE E == {f \in Index.entries : f.output = run[p].output}
             n == Newest(E)
  <2>5. E \in SUBSET Entries /\ entry[p] \in E /\ E \subseteq recorded
    BY <2>1, <2>3, <2>4, IndexType DEF RecordInv, IndexedInv, Index
  <2>6. n \in E /\ entry[p].time <= n.time
    <3> HIDE DEF E
    <3> QED BY <2>5, NewestType
  <2>7. n.time = entry[p].time
    <3>1. n.time < next /\ n.time \in Nat /\ next \in Nat
      BY <2>1, <2>5, <2>6, EntryType, DedupAssumption DEF Dated, TypeOK, Times
    <3> QED
      BY <2>3, <2>6, <3>1
  <2>8. n = entry[p]
    BY <2>1, <2>5, <2>6, <2>7 DEF RecordInv, OnceInv
  <2> QED
    BY <2>1, <2>3, <2>4, <2>8, ExpandsNewest
<1> QED
  BY <1>1, DedupInvariant, PTL

(* The reference in a digest resolves until it has expired or its artifact *)
(* is damaged: deltaBaseline takes an entry of the index, and Append drops *)
(* it only after RetainEntries later ones.                                 *)
THEOREM BaselinesExpand ==
  ASSUME OneAtATime
  PROVE  Spec => []BaselineExpands
<1>1. DedupInv => BaselineExpands
  <2> SUFFICES ASSUME DedupInv, ~cut, NEW p \in Procs, shown[p] = "delta",
                      ~ (Cardinality({e \in recorded : e.time > found[p].time}) >= RetainEntries),
                      Newest({e \in Index.entries : e.output = found[p].output}).artifact \notin damaged
               PROVE  Expands(found[p].output)
    BY DEF BaselineExpands
  <2>1. ControlInv /\ Since(p) /\ NoDangling /\ found[p] \in Entries
    BY DEF DedupInv, StoreInv, NewestInv, ControlInv, Holds
  <2>2. found[p] \in Index.entries
    BY <2>1 DEF Since, Expired
  <2> DEFINE E == {f \in Index.entries : f.output = found[p].output}
             n == Newest(E)
  <2>3. E \in SUBSET Entries /\ E # {}
    BY <2>1, <2>2, IndexType DEF ControlInv
  <2>4. n \in E
    <3> HIDE DEF E
    <3> QED BY <2>3, NewestType
  <2>5. artifacts[n.artifact] = n.output
    BY <2>1, <2>4 DEF NoDangling
  <2> QED
    BY <2>1, <2>2, <2>5, ExpandsNewest
<1> QED
  BY <1>1, DedupInvariant, PTL

(* A digest is against the last recorded run of its command in its place,  *)
(* and that run exited the same way.                                       *)
THEOREM BaselinesAreLastRuns ==
  ASSUME OneAtATime
  PROVE  Spec => []BaselineIsLastRun
<1>1. DedupInv => BaselineIsLastRun
  <2> SUFFICES ASSUME DedupInv, ~cut, NEW p \in Procs, shown[p] = "delta"
               PROVE  LET last == Newest({e \in recorded :
                                           /\ Fingerprint[e.command] = Fingerprint[run[p].command]
                                           /\ e.place = run[p].place
                                           /\ e.time < run[p].time})
                      IN last = found[p] /\ last.exit = run[p].exit
    BY DEF BaselineIsLastRun
  <2>1. RecordInv /\ Since(p) /\ recorded \in SUBSET Entries /\ found[p] \in recorded
    BY EntryType DEF DedupInv, StoreInv, NewestInv, ControlInv, TypeOK, Holds, RecordInv,
                     IndexedInv, Honest
  <2> DEFINE E == {e \in recorded : /\ Fingerprint[e.command] = Fingerprint[run[p].command]
                                    /\ e.place = run[p].place
                                    /\ e.time < run[p].time}
             last == Newest(E)
  <2>2. E \in SUBSET Entries /\ found[p] \in E /\ \A e \in E : e.time <= found[p].time
    BY <2>1 DEF Since
  <2>3. last \in E /\ found[p].time <= last.time
    <3> HIDE DEF E
    <3> QED BY <2>2, NewestType
  <2>4. last.time = found[p].time
    BY <2>1, <2>2, <2>3, EntryType DEF Times
  <2>5. last = found[p]
    BY <2>1, <2>3, <2>4 DEF RecordInv, OnceInv
  <2> QED
    BY <2>1, <2>5 DEF Since
<1> QED
  BY <1>1, DedupInvariant, PTL
=============================================================================
