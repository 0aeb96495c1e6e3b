--------------------------- MODULE Services_proof ---------------------------
(***************************************************************************)
(* Proofs about the services beside the pipeline.                          *)
(*                                                                         *)
(* UpdateCheck, for every number of releases, hours and commands and every *)
(* interval.  That a success is never claimed for a release that was not   *)
(* seen is proved for any number of processes that overwrite one another's *)
(* file; what is said of the memory in the file has Procs = {p} for a      *)
(* hypothesis: one command at a time, each of which may go away anywhere.  *)
(*                                                                         *)
(* BudgetHints: that advice moves a budget no further than its source may, *)
(* for every tuned budget, every hint, every history and any number of     *)
(* processes; and that a hint that was taken back stays back, for every    *)
(* sequence of files and outcomes and one process at a time.               *)
(*                                                                         *)
(* CommandLines: that szr looks no further through wrappers than to the    *)
(* program they run, that what runs instead of what was typed differs by   *)
(* the flags in the lists of the matched profile only, and that an agent's *)
(* line keeps its meaning: for lines of every length, over any words, any  *)
(* preferences and any profiles.                                           *)
(***************************************************************************)
EXTENDS UpdateCheck, BudgetHints, CommandLines, Foundations

-----------------------------------------------------------------------------
(* The invariants. *)

Versions == 0 .. MaxRelease
Times == 0 .. MaxHour
Caches == [checked : Times, version : Versions, attemptedAt : Times, attempted : Versions,
           succeeded : Versions, error : BOOLEAN]
Reports == [version : Versions, checked : Times, available : BOOLEAN]
FlowPlaces == {"off", "load", "fetch", "save", "notice", "decide", "upgrade", "truncate",
           "saveAttempt", "tell", "exit"}
Flows == [at : FlowPlaces, stage : {"none", "probe", "auto", "notice"}, version : Versions,
          cache : Caches, report : Reports, updated : BOOLEAN, told : Versions]

TypeOK ==
  /\ config \in [auto : BOOLEAN, terminal : BOOLEAN, managed : BOOLEAN]
  /\ hour \in Hours /\ latest \in Releases /\ installed \in Releases
  /\ file \in Caches /\ starts \in 0 .. MaxStarts
  /\ proc \in [Procs -> Flows]
  /\ best \in Releases /\ failed \in [version : Versions, hour : Times] /\ excused \in BOOLEAN

UpdateInv == TypeOK /\ SuccessIsInstalled

(* What a process knows of releases and attempts: the file, or what it has *)
(* yet to write to it.                                                     *)
Memory(p) == IF proc[p].at \in {"save", "truncate", "saveAttempt"} THEN proc[p].cache ELSE file

(* A cache names no release that is not out, and once it names one, none   *)
(* older than the last whose update failed.                                *)
Sound(c) ==
  /\ c.version <= latest
  /\ c.checked = 0 => c.version = 0
  /\ c.version = 0 \/ failed.version <= c.version

(* It keeps the last failed attempt from being made again: it remembers    *)
(* it, or a later success of that release, or it names a newer one.        *)
Recalls(c) ==
  \/ c.attempted = failed.version /\ c.attemptedAt = failed.hour
  \/ c.succeeded = failed.version
  \/ failed.version < c.version

(* What was reported is what the memory says.                              *)
ReportInv(p) ==
  /\ proc[p].report.version = Memory(p).version
  /\ proc[p].report.available <=> Newer(p, proc[p].report.version)
  /\ proc[p].report.checked = 0 => proc[p].report.version = 0

AttemptInv(p) ==
  /\ proc[p].report.version # 0
  /\ proc[p].cache.version = proc[p].report.version
  /\ proc[p].cache.attempted = proc[p].report.version

ToldInv(p) ==
  config.terminal /\ config.managed /\ Newer(p, file.version)
    => proc[p].updated \/ proc[p].told = file.version

FlowInv(p) ==
  /\ Sound(file) /\ failed.version <= latest
  /\ proc[p].at \in {"save", "upgrade", "truncate", "saveAttempt"} => Sound(proc[p].cache)
  /\ proc[p].at = "fetch" => proc[p].cache = file
  /\ proc[p].at \in {"save", "decide", "upgrade", "tell"} => ReportInv(p)
  /\ proc[p].at = "upgrade" => AttemptInv(p)
  /\ proc[p].at = "exit" => ToldInv(p)
  /\ excused \/ Recalls(Memory(p))

-----------------------------------------------------------------------------
(* Records. *)

(* Releases and hours are numbers within their bounds.                     *)
LEMMA Numbers ==
  /\ MaxRelease \in Nat /\ MaxRelease >= 1 /\ MaxHour \in Nat /\ MaxHour >= 1
  /\ MaxStarts \in Nat /\ Interval \in Nat
  /\ Releases \subseteq Versions /\ Hours \subseteq Times
  /\ Versions \subseteq Nat /\ Times \subseteq Nat
  /\ 0 \in Versions /\ 0 \in Times /\ 1 \in Releases /\ 1 \in Hours
BY UpdateAssumption DEF Releases, Hours, Versions, Times

(* An empty cache is a cache.                                              *)
LEMMA NoCacheType ==
  /\ NoCache \in Caches /\ NoCache.checked = 0 /\ NoCache.version = 0 /\ NoCache.succeeded = 0
  /\ NoCache.attempted = 0 /\ NoCache.attemptedAt = 0
BY Numbers DEF NoCache, Cache, Caches

(* The fields of a cache.                                                  *)
LEMMA CacheFields ==
  ASSUME NEW c \in Caches
  PROVE  /\ c.checked \in Times /\ c.version \in Versions /\ c.attemptedAt \in Times
         /\ c.attempted \in Versions /\ c.succeeded \in Versions /\ c.error \in BOOLEAN
         /\ c.checked \in Nat /\ c.version \in Nat /\ c.attemptedAt \in Nat
         /\ c.attempted \in Nat /\ c.succeeded \in Nat
BY Numbers DEF Caches

(* The fields of a report.                                                 *)
LEMMA ReportType ==
  /\ \A version \in Versions, checked \in Times, available \in BOOLEAN :
       [version |-> version, checked |-> checked, available |-> available] \in Reports
  /\ \A r \in Reports : /\ r.version \in Versions /\ r.version \in Nat
                        /\ r.checked \in Times /\ r.available \in BOOLEAN
  /\ NoReport \in Reports /\ NoReport.version = 0 /\ NoReport.checked = 0
  /\ NoReport.available = FALSE
BY Numbers DEF Reports, NoReport

(* The fields of an update flow.                                           *)
LEMMA FlowFields ==
  ASSUME NEW f \in Flows
  PROVE  /\ f.at \in FlowPlaces /\ f.stage \in {"none", "probe", "auto", "notice"}
         /\ f.version \in Versions /\ f.cache \in Caches /\ f.report \in Reports
         /\ f.updated \in BOOLEAN /\ f.told \in Versions /\ f.version \in Nat
BY Numbers DEF Flows

(* A process that does not run remembers nothing.                          *)
LEMMA OffType ==
  Off \in Flows /\ Off.at = "off" /\ Off.cache = NoCache
BY Numbers, NoCacheType, ReportType DEF Off, Flow, Flows, FlowPlaces

(* A finished check goes on with its report.                               *)
LEMMA FindsType ==
  ASSUME NEW f \in Flows, NEW at \in FlowPlaces, NEW stage \in {"none", "probe", "auto", "notice"},
         NEW r \in Reports
  PROVE  LET g == Finds(f, at, stage, r) IN
         /\ g \in Flows
         /\ g.at = at /\ g.stage = stage /\ g.version = f.version /\ g.cache = f.cache
         /\ g.report = r /\ g.updated = f.updated /\ g.told = f.told
BY DEF Finds, Flow, Flows

(* One flow changes, the others do not.                                    *)
LEMMA BecomeType ==
  ASSUME TypeOK, NEW p \in Procs, NEW g, Become(p, g)
  PROVE  /\ proc'[p] = g
         /\ g \in Flows => proc' \in [Procs -> Flows]
         /\ \A q \in Procs : q # p => proc'[q] = proc[q]
BY DEF TypeOK, Become

(* Doctor has its report: whatever comes next, the rest stays.             *)
LEMMA ReportedType ==
  ASSUME TypeOK, NEW p \in Procs, NEW r \in Reports
  PROVE  /\ Reported(p, r) \in Flows
         /\ Reported(p, r).at \in {"load", "notice", "decide", "tell"}
         /\ Reported(p, r).version = proc[p].version /\ Reported(p, r).cache = proc[p].cache
         /\ Reported(p, r).report = r
<1>1. proc[p] \in Flows
  BY DEF TypeOK
<1>2. CASE proc[p].stage = "probe"
  <2>1. Reported(p, r) = Finds(proc[p], IF config.auto THEN "load" ELSE "notice", "auto", r)
    BY <1>2 DEF Reported
  <2>2. (IF config.auto THEN "load" ELSE "notice") \in {"load", "notice"}
    OBVIOUS
  <2> DEFINE at == IF config.auto THEN "load" ELSE "notice"
  <2> HIDE DEF at
  <2>3. at \in {"load", "notice"} /\ at \in FlowPlaces
    BY <2>2 DEF at, FlowPlaces
  <2> QED
    BY <1>1, <2>1, <2>3, FindsType DEF at
<1>3. CASE proc[p].stage = "auto"
  <2>1. Reported(p, r) = Finds(proc[p], "decide", "auto", r)
    BY <1>3 DEF Reported
  <2>2. "decide" \in FlowPlaces
    BY DEF FlowPlaces
  <2> QED
    BY <1>1, <2>1, <2>2, FindsType
<1>4. CASE proc[p].stage \notin {"probe", "auto"}
  <2>1. Reported(p, r) = Finds(proc[p], "tell", "notice", r)
    BY <1>4 DEF Reported
  <2>2. "tell" \in FlowPlaces
    BY DEF FlowPlaces
  <2> QED
    BY <1>1, <2>1, <2>2, FindsType
<1> QED
  BY <1>2, <1>3, <1>4

-----------------------------------------------------------------------------
(* The shape of the state, and what is remembered as a success, for any    *)
(* number of processes.                                                    *)

(* What the type invariant says of each variable.                          *)
LEMMA StateFields ==
  ASSUME TypeOK, NEW p \in Procs
  PROVE  /\ proc[p] \in Flows /\ proc[p].cache \in Caches /\ proc[p].report \in Reports
         /\ file \in Caches
         /\ hour \in Times /\ hour \in Hours /\ hour \in Nat /\ hour >= 1
         /\ latest \in Versions /\ latest \in Releases /\ latest \in Nat /\ latest >= 1
         /\ installed \in Versions /\ installed \in Nat /\ best \in Nat
         /\ failed.version \in Versions /\ failed.version \in Nat
         /\ failed.hour \in Times /\ failed.hour \in Nat
         /\ proc[p].version \in Nat /\ proc[p].updated \in BOOLEAN /\ proc[p].told \in Versions
<1>1. proc[p] \in Flows
  BY DEF TypeOK
<1>2. /\ hour \in Hours /\ latest \in Releases /\ installed \in Releases /\ best \in Releases
      /\ failed.version \in Versions /\ failed.hour \in Times /\ file \in Caches
  BY DEF TypeOK
<1>3. hour >= 1 /\ latest >= 1
  BY <1>2 DEF Hours, Releases
<1> QED
  BY <1>1, <1>2, <1>3, Numbers, FlowFields

(* What a step of a process makes of its own flow, given what it does to   *)
(* the rest.                                                               *)
LEMMA FlowStep ==
  ASSUME UpdateInv, NEW p \in Procs, NEW g \in Flows, Become(p, g),
         file' \in Caches, installed' \in Releases, best' \in Releases, best' >= best,
         starts' \in 0 .. MaxStarts, failed' \in [version : Versions, hour : Times],
         excused' \in BOOLEAN, UNCHANGED <<config, hour, latest>>,
         file'.succeeded <= best', g.cache.succeeded <= best'
  PROVE  UpdateInv' /\ proc'[p] = g
<1>1. TypeOK /\ proc'[p] = g /\ proc' \in [Procs -> Flows]
      /\ \A q \in Procs : q # p => proc'[q] = proc[q]
  BY BecomeType DEF UpdateInv
<1>2. TypeOK'
  BY <1>1 DEF TypeOK
<1>3. ASSUME NEW q \in Procs PROVE proc'[q].cache.succeeded <= best'
  <2>1. CASE q = p
    BY <1>1, <2>1
  <2>2. CASE q # p
    <3>1. proc[q].cache.succeeded <= best /\ proc[q].cache.succeeded \in Nat /\ best \in Nat
      BY <1>1, StateFields, CacheFields DEF UpdateInv, SuccessIsInstalled
    <3>2. best' \in Nat /\ proc'[q] = proc[q]
      BY <1>1, <2>2, Numbers
    <3> QED
      BY <3>1, <3>2
  <2> QED
    BY <2>1, <2>2
<1> QED
  BY <1>1, <1>2, <1>3 DEF UpdateInv, SuccessIsInstalled

(* Most steps change the flow and at most the file.                        *)
LEMMA QuietStep ==
  ASSUME UpdateInv, NEW p \in Procs, NEW g \in Flows, Become(p, g), file' \in Caches,
         UNCHANGED <<config, hour, latest, installed, best, starts, failed>>,
         excused' \in BOOLEAN, file'.succeeded <= best, g.cache.succeeded <= best
  PROVE  UpdateInv' /\ proc'[p] = g
<1>1. best \in Nat
  BY StateFields DEF UpdateInv
<1>2. /\ installed' \in Releases /\ best' \in Releases /\ best' >= best
      /\ starts' \in 0 .. MaxStarts /\ failed' \in [version : Versions, hour : Times]
      /\ best' = best
  BY <1>1 DEF UpdateInv, TypeOK
<1> QED
  BY <1>2, FlowStep

(* What is remembered as installed was installed.                          *)
LEMMA SuccessWas ==
  ASSUME UpdateInv, NEW p \in Procs
  PROVE  /\ TypeOK /\ best \in Nat
         /\ file.succeeded <= best /\ proc[p].cache.succeeded <= best
         /\ NoCache.succeeded <= best /\ excused \in BOOLEAN
BY StateFields, NoCacheType DEF UpdateInv, SuccessIsInstalled, TypeOK

(* The places of the flow.                                                 *)
LEMMA InPlaces ==
  /\ "off" \in FlowPlaces /\ "load" \in FlowPlaces /\ "fetch" \in FlowPlaces /\ "save" \in FlowPlaces
  /\ "notice" \in FlowPlaces /\ "decide" \in FlowPlaces /\ "upgrade" \in FlowPlaces
  /\ "truncate" \in FlowPlaces /\ "saveAttempt" \in FlowPlaces /\ "tell" \in FlowPlaces /\ "exit" \in FlowPlaces
BY DEF FlowPlaces

(* A flow starts with what is installed.                                   *)
LEMMA StartedType ==
  ASSUME UpdateInv, NEW p \in Procs, Start(p)
  PROVE  /\ UpdateInv' /\ UNCHANGED <<config, hour, latest, file, failed, excused>>
         /\ proc'[p].at = "load"
<1> DEFINE g == Flow("load", "probe", installed, NoCache, NoReport, FALSE, 0)
<1>1. TypeOK /\ Become(p, g) /\ starts' = starts + 1 /\ starts < MaxStarts
      /\ UNCHANGED <<config, hour, latest, installed, file, best, failed, excused>>
  BY DEF Start, UpdateInv
<1>2. g \in Flows /\ g.at = "load" /\ g.cache = NoCache
  <2>1. installed \in Versions /\ NoCache \in Caches /\ NoReport \in Reports /\ 0 \in Versions
    BY <1>1, StateFields, Numbers, NoCacheType, ReportType
  <2> QED
    BY <2>1, InPlaces DEF Flow, Flows
<1> HIDE DEF g
<1>3. starts' \in 0 .. MaxStarts
  BY <1>1, Numbers DEF TypeOK
<1>4. /\ installed' \in Releases /\ best' \in Releases /\ best' >= best /\ file' \in Caches
      /\ failed' \in [version : Versions, hour : Times] /\ excused' \in BOOLEAN
      /\ file'.succeeded <= best' /\ g.cache.succeeded <= best'
  BY <1>1, <1>2, SuccessWas DEF TypeOK
<1>5. UpdateInv' /\ proc'[p] = g
  BY <1>1, <1>2, <1>3, <1>4, FlowStep
<1> QED
  BY <1>1, <1>2, <1>5

(* A flow that ends, is left or dies takes with it what it had not         *)
(* written.                                                                *)
LEMMA OffStep ==
  ASSUME UpdateInv, NEW p \in Procs, Exit(p) \/ JoinTimeout(p) \/ Interrupt(p)
  PROVE  /\ UpdateInv' /\ UNCHANGED <<config, hour, latest, file, failed>>
         /\ proc'[p].at = "off"
         /\ excused' = (excused \/ proc[p].at \in {"save", "truncate", "saveAttempt"})
<1>1. /\ Become(p, Off)
      /\ UNCHANGED <<config, hour, latest, installed, file, starts, best, failed>>
      /\ excused' = (excused \/ proc[p].at \in {"save", "truncate", "saveAttempt"})
  BY DEF Exit, JoinTimeout, Interrupt, Leave, UpdateInv, TypeOK
<1>2. excused' \in BOOLEAN /\ file' \in Caches /\ file'.succeeded <= best /\ Off.cache.succeeded <= best
  BY <1>1, SuccessWas, OffType DEF TypeOK
<1>3. UpdateInv' /\ proc'[p] = Off
  BY <1>1, <1>2, OffType, QuietStep
<1> QED
  BY <1>1, <1>3, OffType

(* A report from a cache.                                                  *)
LEMMA FromCacheType ==
  ASSUME TypeOK, NEW p \in Procs, NEW c \in Caches
  PROVE  /\ FromCache(p, c) \in Reports
         /\ FromCache(p, c).version = c.version /\ FromCache(p, c).checked = c.checked
         /\ FromCache(p, c).available = Newer(p, c.version)
<1>1. Newer(p, c.version) \in BOOLEAN
  BY DEF Newer
<1> QED
  BY <1>1, CacheFields DEF FromCache, Reports

(* A fresh cache is reported from, another is asked about.                 *)
LEMMA DoctorLoadType ==
  ASSUME UpdateInv, NEW p \in Procs, DoctorLoad(p)
  PROVE  /\ UpdateInv' /\ UNCHANGED <<config, hour, latest, file, failed, excused>>
         /\ proc'[p].version = proc[p].version
         /\ \/ proc'[p].at = "fetch" /\ proc'[p].cache = file
            \/ /\ proc'[p].at \in {"load", "notice", "decide", "tell"}
               /\ proc'[p].report = FromCache(p, file)
<1>1. TypeOK /\ proc[p] \in Flows /\ file \in Caches /\ file.succeeded <= best
      /\ proc[p].cache.succeeded <= best /\ excused \in BOOLEAN
  BY SuccessWas, StateFields
<1>2. UNCHANGED <<config, hour, latest, installed, file, starts, best, failed, excused>>
  BY DEF DoctorLoad
<1>3. CASE CacheFresh(file)
  <2> DEFINE g == Reported(p, FromCache(p, file))
  <2>1. Become(p, g)
    BY <1>3 DEF DoctorLoad
  <2>2. /\ g \in Flows /\ g.at \in {"load", "notice", "decide", "tell"}
        /\ g.version = proc[p].version /\ g.cache = proc[p].cache /\ g.report = FromCache(p, file)
    BY <1>1, FromCacheType, ReportedType
  <2> HIDE DEF g
  <2>3. UpdateInv' /\ proc'[p] = g
    BY <1>1, <1>2, <2>1, <2>2, QuietStep
  <2> QED
    BY <1>2, <2>2, <2>3
<1>4. CASE ~CacheFresh(file)
  <2> DEFINE g == Holds(proc[p], "fetch", file)
  <2>1. Become(p, g)
    BY <1>4 DEF DoctorLoad
  <2>2. g \in Flows /\ g.at = "fetch" /\ g.version = proc[p].version /\ g.cache = file
    BY <1>1, InPlaces DEF Holds, Flow, Flows
  <2> HIDE DEF g
  <2>3. UpdateInv' /\ proc'[p] = g
    BY <1>1, <1>2, <2>1, <2>2, QuietStep
  <2> QED
    BY <1>2, <2>2, <2>3
<1> QED
  BY <1>3, <1>4

(* A failed request is reported on from the memory of the cache.           *)
LEMMA FetchFailsType ==
  ASSUME UpdateInv, NEW p \in Procs, FetchFails(p)
  PROVE  /\ UpdateInv' /\ UNCHANGED <<config, hour, latest, file, failed, excused>>
         /\ proc[p].at = "fetch" /\ proc'[p].version = proc[p].version
         /\ proc'[p].at \in {"load", "notice", "decide", "tell"}
         /\ proc'[p].report = IF proc[p].cache.checked # 0 THEN FromCache(p, proc[p].cache)
                              ELSE NoReport
<1>1. TypeOK /\ proc[p] \in Flows /\ proc[p].cache \in Caches /\ file \in Caches
      /\ file.succeeded <= best /\ proc[p].cache.succeeded <= best /\ excused \in BOOLEAN
  BY SuccessWas, StateFields
<1>2. /\ UNCHANGED <<config, hour, latest, installed, file, starts, best, failed, excused>>
      /\ proc[p].at = "fetch"
  BY DEF FetchFails
<1> DEFINE r == IF proc[p].cache.checked # 0 THEN FromCache(p, proc[p].cache) ELSE NoReport
           g == Reported(p, r)
<1>3. Become(p, g)
  BY DEF FetchFails
<1>4. r \in Reports
  BY <1>1, FromCacheType, ReportType
<1>5. r = IF proc[p].cache.checked # 0 THEN FromCache(p, proc[p].cache) ELSE NoReport
  OBVIOUS
<1> HIDE DEF r
<1>6. /\ g \in Flows /\ g.at \in {"load", "notice", "decide", "tell"}
      /\ g.version = proc[p].version /\ g.cache = proc[p].cache /\ g.report = r
  BY <1>1, <1>4, ReportedType
<1> HIDE DEF g
<1>7. UpdateInv' /\ proc'[p] = g
  BY <1>1, <1>2, <1>3, <1>6, QuietStep
<1> QED
  BY <1>2, <1>5, <1>6, <1>7

(* A request that is answered begins by truncating the file.               *)
LEMMA FetchType ==
  ASSUME UpdateInv, NEW p \in Procs, Fetch(p)
  PROVE  /\ UpdateInv' /\ UNCHANGED <<config, hour, latest, failed, excused>>
         /\ file' = NoCache
         /\ proc[p].at = "fetch" /\ proc'[p].at = "save"
         /\ proc'[p].version = proc[p].version
         /\ proc'[p].report.version = latest /\ proc'[p].report.checked = hour
         /\ proc'[p].report.available <=> Newer(p, latest)
         /\ proc'[p].cache.version = latest /\ proc'[p].cache.checked = hour
         /\ proc'[p].cache.attempted = proc[p].cache.attempted
         /\ proc'[p].cache.attemptedAt = proc[p].cache.attemptedAt
         /\ proc'[p].cache.succeeded = proc[p].cache.succeeded
<1>1. TypeOK /\ proc[p] \in Flows /\ proc[p].cache \in Caches /\ excused \in BOOLEAN
      /\ latest \in Versions /\ hour \in Times
      /\ proc[p].cache.succeeded <= best /\ NoCache.succeeded <= best
      /\ proc[p].stage \in {"none", "probe", "auto", "notice"}
  BY SuccessWas, StateFields, FlowFields
<1> DEFINE c == proc[p].cache
           r == [version |-> latest, checked |-> hour, available |-> Newer(p, latest)]
           d == Cache(hour, latest, c.attemptedAt, c.attempted, c.succeeded, c.error)
           f == Finds(proc[p], "save", proc[p].stage, r)
           g == Holds(f, "save", d)
<1>2. /\ UNCHANGED <<config, hour, latest, installed, starts, best, failed, excused>>
      /\ proc[p].at = "fetch" /\ file' = NoCache /\ Become(p, g)
  BY DEF Fetch
<1>3. /\ r \in Reports /\ r.version = latest /\ r.checked = hour
      /\ r.available <=> Newer(p, latest)
  <2>1. Newer(p, latest) \in BOOLEAN
    BY DEF Newer
  <2> QED
    BY <1>1, <2>1 DEF Reports
<1>4. /\ d \in Caches /\ d.version = latest /\ d.checked = hour /\ d.attempted = c.attempted
      /\ d.attemptedAt = c.attemptedAt /\ d.succeeded = c.succeeded
  BY <1>1, CacheFields DEF Cache, Caches
<1> HIDE DEF r, d
<1>5. f \in Flows /\ f.version = proc[p].version /\ f.report = r
  BY <1>1, <1>3, InPlaces DEF Finds, Flow, Flows
<1> HIDE DEF f
<1>6. /\ g \in Flows /\ g.at = "save" /\ g.version = proc[p].version /\ g.cache = d
      /\ g.report = r
  BY <1>4, <1>5, InPlaces DEF Holds, Flow, Flows
<1> HIDE DEF g
<1>7. file' \in Caches /\ file'.succeeded <= best /\ g.cache.succeeded <= best
      /\ excused' \in BOOLEAN
  BY <1>1, <1>2, <1>4, <1>6, NoCacheType
<1>8. UpdateInv' /\ proc'[p] = g
  BY <1>2, <1>6, <1>7, QuietStep
<1> QED
  BY <1>2, <1>3, <1>4, <1>6, <1>8

(* Then the file has what the process knows.                               *)
LEMMA SaveType ==
  ASSUME UpdateInv, NEW p \in Procs, Save(p)
  PROVE  /\ UpdateInv' /\ UNCHANGED <<config, hour, latest, failed, excused>>
         /\ file' = proc[p].cache
         /\ proc[p].at = "save" /\ proc'[p].at \in {"load", "notice", "decide", "tell"}
         /\ proc'[p].version = proc[p].version /\ proc'[p].report = proc[p].report
<1>1. TypeOK /\ proc[p] \in Flows /\ proc[p].cache \in Caches /\ proc[p].report \in Reports
      /\ proc[p].cache.succeeded <= best /\ excused \in BOOLEAN
  BY SuccessWas, StateFields
<1> DEFINE g == Reported(p, proc[p].report)
<1>2. /\ UNCHANGED <<config, hour, latest, installed, starts, best, failed, excused>>
      /\ proc[p].at = "save" /\ file' = proc[p].cache /\ Become(p, g)
  BY DEF Save
<1>3. /\ g \in Flows /\ g.at \in {"load", "notice", "decide", "tell"}
      /\ g.version = proc[p].version /\ g.cache = proc[p].cache /\ g.report = proc[p].report
  BY <1>1, ReportedType
<1> HIDE DEF g
<1>4. file' \in Caches /\ file'.succeeded <= best /\ g.cache.succeeded <= best
      /\ excused' \in BOOLEAN
  BY <1>1, <1>2, <1>3
<1>5. UpdateInv' /\ proc'[p] = g
  BY <1>2, <1>3, <1>4, QuietStep
<1> QED
  BY <1>2, <1>3, <1>5

(* The notice is next, if there is a terminal to print it to.              *)
LEMMA ToNoticeType ==
  ASSUME TypeOK, NEW p \in Procs
  PROVE  /\ ToNotice(p) \in Flows
         /\ ToNotice(p).at = "load" \/ (ToNotice(p).at = "exit" /\ ~config.terminal)
         /\ ToNotice(p).version = proc[p].version /\ ToNotice(p).cache = proc[p].cache
<1> DEFINE at == IF config.terminal THEN "load" ELSE "exit"
<1>1. at \in FlowPlaces /\ (at = "load" \/ (at = "exit" /\ ~config.terminal))
  BY DEF FlowPlaces
<1>2. proc[p] \in Flows /\ ToNotice(p) = Moves(proc[p], at, "notice")
  BY DEF TypeOK, ToNotice
<1> HIDE DEF at
<1> QED
  BY <1>1, <1>2 DEF Moves, Flow, Flows

(* An update is begun for a release that is not known to have failed       *)
(* lately.                                                                 *)
LEMMA DecideType ==
  ASSUME UpdateInv, NEW p \in Procs, Decide(p)
  PROVE  /\ UpdateInv' /\ UNCHANGED <<config, hour, latest, file, failed, excused>>
         /\ proc[p].at = "decide" /\ proc'[p].version = proc[p].version
         /\ \/ proc'[p].at = "load"
            \/ proc'[p].at = "exit" /\ ~config.terminal
            \/ /\ proc'[p].at = "upgrade" /\ proc'[p].report = proc[p].report
               /\ proc[p].report.available
               /\ ~AutoUpdateAttemptFresh(file, proc[p].report.version)
               /\ proc'[p].cache.checked = proc[p].report.checked
               /\ proc'[p].cache.version = proc[p].report.version
               /\ proc'[p].cache.attempted = proc[p].report.version
<1>1. TypeOK /\ proc[p] \in Flows /\ proc[p].report \in Reports /\ file \in Caches
      /\ file.succeeded <= best /\ proc[p].cache.succeeded <= best /\ excused \in BOOLEAN
      /\ hour \in Times
  BY SuccessWas, StateFields
<1>2. /\ UNCHANGED <<config, hour, latest, installed, file, starts, best, failed, excused>>
      /\ proc[p].at = "decide"
  BY DEF Decide
<1>3. CASE /\ proc[p].report.available /\ config.managed
           /\ ~AutoUpdateAttemptFresh(file, proc[p].report.version)
  <2> DEFINE r == proc[p].report
             d == Cache(r.checked, r.version, hour, r.version, file.succeeded, file.error)
             g == Holds(proc[p], "upgrade", d)
  <2>1. Become(p, g)
    BY <1>3 DEF Decide
  <2>2. /\ d \in Caches /\ d.checked = r.checked /\ d.version = r.version
        /\ d.attempted = r.version /\ d.succeeded = file.succeeded
    BY <1>1, ReportType, CacheFields DEF Cache, Caches
  <2> HIDE DEF d
  <2>3. /\ g \in Flows /\ g.at = "upgrade" /\ g.version = proc[p].version /\ g.cache = d
        /\ g.report = r
    BY <1>1, <2>2, InPlaces DEF Holds, Flow, Flows
  <2> HIDE DEF g
  <2>4. file' \in Caches /\ file'.succeeded <= best /\ g.cache.succeeded <= best
        /\ excused' \in BOOLEAN
    BY <1>1, <1>2, <2>2, <2>3
  <2>5. UpdateInv' /\ proc'[p] = g
    BY <1>2, <2>1, <2>3, <2>4, QuietStep
  <2> QED
    BY <1>2, <1>3, <2>2, <2>3, <2>5
<1>4. CASE ~ /\ proc[p].report.available /\ config.managed
             /\ ~AutoUpdateAttemptFresh(file, proc[p].report.version)
  <2>1. Become(p, ToNotice(p))
    BY <1>4 DEF Decide
  <2>2. file' \in Caches /\ file'.succeeded <= best /\ ToNotice(p).cache.succeeded <= best
        /\ excused' \in BOOLEAN
    BY <1>1, <1>2, ToNoticeType
  <2>3. UpdateInv' /\ proc'[p] = ToNotice(p)
    BY <1>1, <1>2, <2>1, <2>2, ToNoticeType, QuietStep
  <2> QED
    BY <1>1, <1>2, <2>3, ToNoticeType
<1> QED
  BY <1>3, <1>4

(* A success is claimed only where the installed binary was seen.          *)
LEMMA UpgradeType ==
  ASSUME UpdateInv, NEW p \in Procs, Upgrade(p)
  PROVE  /\ UpdateInv' /\ UNCHANGED <<config, hour, latest, file>>
         /\ proc[p].at = "upgrade" /\ proc'[p].at = "truncate"
         /\ proc'[p].version = proc[p].version /\ proc'[p].report = proc[p].report
         /\ excused' = FALSE
         /\ proc'[p].cache.checked = proc[p].cache.checked
         /\ proc'[p].cache.version = proc[p].cache.version
         /\ proc'[p].cache.attempted = proc[p].cache.attempted
         /\ proc'[p].cache.attemptedAt = proc[p].cache.attemptedAt
         /\ \/ failed' = failed /\ proc'[p].cache.succeeded = proc[p].report.version
            \/ /\ failed'.version = proc[p].report.version
               /\ failed'.hour = proc[p].cache.attemptedAt
<1>1. /\ TypeOK /\ proc[p] \in Flows /\ proc[p].cache \in Caches
      /\ proc[p].report.version \in Versions /\ proc[p].report \in Reports
      /\ proc[p].cache.attemptedAt \in Times /\ proc[p].cache.succeeded \in Versions
      /\ proc[p].cache.checked \in Times /\ proc[p].cache.version \in Versions
      /\ proc[p].cache.attempted \in Versions
      /\ proc[p].stage \in {"none", "probe", "auto", "notice"} /\ proc[p].version \in Versions
      /\ proc[p].told \in Versions
      /\ file.succeeded <= best /\ proc[p].cache.succeeded <= best
      /\ file.succeeded \in Nat /\ proc[p].cache.succeeded \in Nat
      /\ proc[p].report.version \in Nat
      /\ best \in Nat /\ best \in Releases /\ installed \in Releases /\ latest \in Releases
  <2>1. TypeOK /\ file.succeeded <= best /\ proc[p].cache.succeeded <= best /\ best \in Nat
    BY SuccessWas
  <2>2. proc[p] \in Flows /\ file \in Caches
    BY <2>1, StateFields
  <2>3. best \in Releases /\ installed \in Releases /\ latest \in Releases
    BY <2>1 DEF TypeOK
  <2> QED
    BY <2>1, <2>2, <2>3, FlowFields, CacheFields, ReportType
<1>2. PICK ok \in BOOLEAN, answers \in BOOLEAN :
        LET f == proc[p]
            c == f.cache
            v == f.report.version
            done == ok /\ VerifyInstalledVersion(v, answers)
        IN  /\ installed' \in IF ok THEN installed .. latest ELSE {installed}
            /\ best' = IF installed' > best THEN installed' ELSE best
            /\ Become(p, Flow("truncate", f.stage, f.version,
                 Cache(c.checked, c.version, c.attemptedAt, c.attempted,
                       IF done THEN v ELSE c.succeeded, ~done),
                 f.report, done, f.told))
            /\ failed' = IF done THEN failed
                         ELSE [version |-> v, hour |-> c.attemptedAt]
            /\ excused' = FALSE
  BY DEF Upgrade
<1>3. UNCHANGED <<config, hour, latest, file, starts>> /\ proc[p].at = "upgrade"
  BY DEF Upgrade
<1> DEFINE v == proc[p].report.version
           done == ok /\ VerifyInstalledVersion(v, answers)
           s == IF done THEN v ELSE proc[p].cache.succeeded
           d == Cache(proc[p].cache.checked, proc[p].cache.version, proc[p].cache.attemptedAt,
                      proc[p].cache.attempted, s, ~done)
           g == Flow("truncate", proc[p].stage, proc[p].version, d, proc[p].report, done,
                     proc[p].told)
<1>4. /\ installed' \in IF ok THEN installed .. latest ELSE {installed}
      /\ best' = IF installed' > best THEN installed' ELSE best
      /\ Become(p, g) /\ excused' = FALSE
      /\ failed' = IF done THEN failed ELSE [version |-> v, hour |-> proc[p].cache.attemptedAt]
  BY <1>2
<1>5. installed' \in Releases
  BY <1>1, <1>4, Numbers DEF Releases
<1>6. best' \in Releases /\ best' >= best /\ installed' <= best'
  <2>1. installed' \in Nat
    BY <1>5, Numbers
  <2> QED
    BY <1>1, <1>4, <1>5, <2>1
<1>7. done => installed' >= v
  BY DEF VerifyInstalledVersion
<1>8. done \in BOOLEAN
  BY DEF VerifyInstalledVersion
<1> HIDE DEF done
<1>9. s \in Versions /\ s <= best'
  <2>1. installed' \in Nat /\ best' \in Nat
    BY <1>5, <1>6, Numbers
  <2>2. CASE done
    BY <1>1, <1>6, <1>7, <2>1, <2>2
  <2>3. CASE ~done
    BY <1>1, <1>6, <2>1, <2>3
  <2> QED
    BY <2>2, <2>3
<1>10. done => s = v
  OBVIOUS
<1> HIDE DEF s
<1>11. /\ d \in Caches /\ d.checked = proc[p].cache.checked
       /\ d.version = proc[p].cache.version /\ d.attempted = proc[p].cache.attempted
       /\ d.attemptedAt = proc[p].cache.attemptedAt /\ d.succeeded = s
  <2>1. (~done) \in BOOLEAN
    OBVIOUS
  <2> QED
    BY <1>1, <1>9, <2>1 DEF Cache, Caches
<1> HIDE DEF d
<1>12. /\ g \in Flows /\ g.at = "truncate" /\ g.version = proc[p].version
       /\ g.report = proc[p].report /\ g.cache = d
  BY <1>1, <1>8, <1>11, InPlaces DEF Flow, Flows
<1> HIDE DEF g
<1>13. failed' \in [version : Versions, hour : Times]
  BY <1>1, <1>4 DEF TypeOK
<1>14. file' \in Caches /\ starts' \in 0 .. MaxStarts /\ excused' \in BOOLEAN
  BY <1>1, <1>3, <1>4 DEF TypeOK
<1>15. file'.succeeded <= best' /\ g.cache.succeeded <= best'
  <2>1. best' \in Nat /\ file' = file
    BY <1>3, <1>6, Numbers
  <2>2. file'.succeeded <= best'
    BY <1>1, <1>6, <2>1
  <2> QED
    BY <1>9, <1>11, <1>12, <2>2
<1>16. UpdateInv' /\ proc'[p] = g
  BY <1>3, <1>4, <1>5, <1>6, <1>12, <1>13, <1>14, <1>15, FlowStep
<1>17. \/ failed' = failed /\ d.succeeded = v
       \/ failed'.version = v /\ failed'.hour = proc[p].cache.attemptedAt
  BY <1>4, <1>10, <1>11
<1> QED
  BY <1>3, <1>4, <1>11, <1>12, <1>16, <1>17

(* The outcome of an update truncates the file.                            *)
LEMMA TruncateType ==
  ASSUME UpdateInv, NEW p \in Procs, Truncate(p)
  PROVE  /\ UpdateInv' /\ UNCHANGED <<config, hour, latest, failed, excused>>
         /\ file' = NoCache /\ proc[p].at = "truncate" /\ proc'[p].at = "saveAttempt"
         /\ proc'[p].cache = proc[p].cache
<1>1. TypeOK /\ proc[p] \in Flows /\ proc[p].stage \in {"none", "probe", "auto", "notice"}
      /\ proc[p].cache.succeeded <= best /\ NoCache.succeeded <= best /\ excused \in BOOLEAN
  BY SuccessWas, StateFields, FlowFields
<1> DEFINE g == Moves(proc[p], "saveAttempt", proc[p].stage)
<1>2. /\ UNCHANGED <<config, hour, latest, installed, starts, best, failed, excused>>
      /\ proc[p].at = "truncate" /\ file' = NoCache /\ Become(p, g)
  BY DEF Truncate
<1>3. g \in Flows /\ g.at = "saveAttempt" /\ g.cache = proc[p].cache
  BY <1>1, InPlaces DEF Moves, Flow, Flows
<1> HIDE DEF g
<1>4. file' \in Caches /\ file'.succeeded <= best /\ g.cache.succeeded <= best
      /\ excused' \in BOOLEAN
  BY <1>1, <1>2, <1>3, NoCacheType
<1>5. UpdateInv' /\ proc'[p] = g
  BY <1>2, <1>3, <1>4, QuietStep
<1> QED
  BY <1>2, <1>3, <1>5

(* Then the file has the attempt.                                          *)
LEMMA SaveAttemptType ==
  ASSUME UpdateInv, NEW p \in Procs, SaveAttempt(p)
  PROVE  /\ UpdateInv' /\ UNCHANGED <<config, hour, latest, failed, excused>>
         /\ file' = proc[p].cache /\ proc[p].at = "saveAttempt"
         /\ \/ proc'[p].at = "load"
            \/ proc'[p].at = "exit" /\ (proc'[p].updated \/ ~config.terminal)
<1>1. TypeOK /\ proc[p] \in Flows /\ proc[p].stage \in {"none", "probe", "auto", "notice"}
      /\ proc[p].cache \in Caches /\ proc[p].cache.succeeded <= best /\ excused \in BOOLEAN
  BY SuccessWas, StateFields, FlowFields
<1> DEFINE g == IF proc[p].updated THEN Moves(proc[p], "exit", proc[p].stage) ELSE ToNotice(p)
<1>2. /\ UNCHANGED <<config, hour, latest, installed, starts, best, failed, excused>>
      /\ proc[p].at = "saveAttempt" /\ file' = proc[p].cache /\ Become(p, g)
  BY DEF SaveAttempt
<1>3. /\ g \in Flows /\ g.cache = proc[p].cache
      /\ \/ g.at = "load"
         \/ g.at = "exit" /\ (g.updated \/ ~config.terminal)
  <2>1. CASE proc[p].updated
    BY <1>1, <2>1, InPlaces DEF Moves, Flow, Flows
  <2>2. CASE ~proc[p].updated
    BY <1>1, <2>2, ToNoticeType
  <2> QED
    BY <2>1, <2>2
<1> HIDE DEF g
<1>4. file' \in Caches /\ file'.succeeded <= best /\ g.cache.succeeded <= best
      /\ excused' \in BOOLEAN
  BY <1>1, <1>2, <1>3
<1>5. UpdateInv' /\ proc'[p] = g
  BY <1>2, <1>3, <1>4, QuietStep
<1> QED
  BY <1>2, <1>3, <1>5

(* Without an automatic update nothing changes.                            *)
LEMMA SkipAutoUpdateType ==
  ASSUME UpdateInv, NEW p \in Procs, SkipAutoUpdate(p)
  PROVE  /\ UpdateInv' /\ UNCHANGED <<config, hour, latest, file, failed, excused>>
         /\ proc[p].at = "notice"
         /\ proc'[p].at = "load" \/ (proc'[p].at = "exit" /\ ~config.terminal)
<1>1. TypeOK /\ file \in Caches /\ file.succeeded <= best
      /\ proc[p].cache.succeeded <= best /\ excused \in BOOLEAN
  BY SuccessWas, StateFields
<1>2. /\ UNCHANGED <<config, hour, latest, installed, file, starts, best, failed, excused>>
      /\ proc[p].at = "notice" /\ Become(p, ToNotice(p))
  BY DEF SkipAutoUpdate
<1>3. file' \in Caches /\ file'.succeeded <= best /\ ToNotice(p).cache.succeeded <= best
      /\ excused' \in BOOLEAN
  BY <1>1, <1>2, ToNoticeType
<1>4. UpdateInv' /\ proc'[p] = ToNotice(p)
  BY <1>1, <1>2, <1>3, ToNoticeType, QuietStep
<1> QED
  BY <1>1, <1>2, <1>4, ToNoticeType

(* A notice names the release that was reported.                           *)
LEMMA TellType ==
  ASSUME UpdateInv, NEW p \in Procs, Tell(p)
  PROVE  /\ UpdateInv' /\ UNCHANGED <<config, hour, latest, file, failed, excused>>
         /\ proc[p].at = "tell" /\ proc'[p].at = "exit" /\ proc'[p].version = proc[p].version
         /\ proc'[p].told = IF proc[p].report.available /\ config.managed
                            THEN proc[p].report.version ELSE 0
<1>1. /\ TypeOK /\ proc[p] \in Flows /\ proc[p].stage \in {"none", "probe", "auto", "notice"}
      /\ proc[p].version \in Versions /\ proc[p].cache \in Caches /\ proc[p].report \in Reports
      /\ proc[p].report.version \in Versions /\ proc[p].updated \in BOOLEAN
      /\ file \in Caches /\ file.succeeded <= best /\ proc[p].cache.succeeded <= best
      /\ excused \in BOOLEAN /\ 0 \in Versions
  BY SuccessWas, StateFields, FlowFields, ReportType, Numbers
<1> DEFINE t == IF proc[p].report.available /\ config.managed THEN proc[p].report.version ELSE 0
           g == Flow("exit", proc[p].stage, proc[p].version, proc[p].cache, proc[p].report,
                     proc[p].updated, t)
<1>2. /\ UNCHANGED <<config, hour, latest, installed, file, starts, best, failed, excused>>
      /\ proc[p].at = "tell" /\ Become(p, g)
  BY DEF Tell
<1>3. t \in Versions
  BY <1>1
<1>4. t = IF proc[p].report.available /\ config.managed THEN proc[p].report.version ELSE 0
  OBVIOUS
<1> HIDE DEF t
<1>5. /\ g \in Flows /\ g.at = "exit" /\ g.version = proc[p].version
      /\ g.cache = proc[p].cache /\ g.told = t
  BY <1>1, <1>3, InPlaces DEF Flow, Flows
<1> HIDE DEF g
<1>6. file' \in Caches /\ file'.succeeded <= best /\ g.cache.succeeded <= best
      /\ excused' \in BOOLEAN
  BY <1>1, <1>2, <1>5
<1>7. UpdateInv' /\ proc'[p] = g
  BY <1>2, <1>5, <1>6, QuietStep
<1> QED
  BY <1>2, <1>4, <1>5, <1>7

(* Time, releases and package managers change no file and no process.      *)
LEMMA WorldType ==
  ASSUME UpdateInv, HourPasses \/ Publish \/ Reinstall
  PROVE  /\ UpdateInv' /\ UNCHANGED <<config, file, proc, failed, excused>>
         /\ latest' >= latest /\ latest' \in Nat
<1>1. /\ TypeOK /\ hour \in Nat /\ latest \in Nat /\ installed \in Nat /\ best \in Nat
      /\ hour >= 1 /\ latest >= 1 /\ latest <= MaxRelease
      /\ file.succeeded <= best /\ file.succeeded \in Nat
      /\ \A q \in Procs : proc[q].cache.succeeded <= best /\ proc[q].cache.succeeded \in Nat
  <2>1. TypeOK /\ SuccessIsInstalled
    BY DEF UpdateInv
  <2>2. hour \in Hours /\ latest \in Releases /\ installed \in Releases /\ best \in Releases
        /\ file \in Caches /\ \A q \in Procs : proc[q] \in Flows
    BY <2>1 DEF TypeOK
  <2>3. hour >= 1 /\ latest >= 1 /\ latest <= MaxRelease
    BY <2>2 DEF Hours, Releases
  <2>4. \A q \in Procs : proc[q].cache \in Caches
    BY <2>2, FlowFields
  <2> QED
    BY <2>1, <2>2, <2>3, <2>4, Numbers, CacheFields DEF SuccessIsInstalled
<1>2. CASE HourPasses
  <2>1. hour' = hour + 1 /\ hour < MaxHour
        /\ UNCHANGED <<config, latest, installed, file, starts, proc, best, failed, excused>>
    BY <1>2 DEF HourPasses
  <2>2. hour' \in Hours
    BY <1>1, <2>1, Numbers DEF Hours
  <2>3. TypeOK'
    BY <1>1, <2>1, <2>2 DEF TypeOK
  <2> QED
    BY <1>1, <2>1, <2>3 DEF UpdateInv, SuccessIsInstalled
<1>3. CASE Publish
  <2>1. latest' = latest + 1 /\ latest < MaxRelease
        /\ UNCHANGED <<config, hour, installed, file, starts, proc, best, failed, excused>>
    BY <1>3 DEF Publish
  <2>2. latest' \in Releases
    BY <1>1, <2>1, Numbers DEF Releases
  <2>3. TypeOK'
    BY <1>1, <2>1, <2>2 DEF TypeOK
  <2> QED
    BY <1>1, <2>1, <2>3 DEF UpdateInv, SuccessIsInstalled
<1>4. CASE Reinstall
  <2>1. installed' \in 1 .. latest /\ best' = (IF installed' > best THEN installed' ELSE best)
        /\ UNCHANGED <<config, hour, latest, file, starts, proc, failed, excused>>
    BY <1>4 DEF Reinstall
  <2>2. installed' \in Releases /\ installed' \in Nat
    BY <1>1, <2>1, Numbers DEF Releases
  <2>3. best' \in Releases /\ best' \in Nat /\ best' >= best
    BY <1>1, <2>1, <2>2 DEF TypeOK
  <2>4. TypeOK'
    BY <1>1, <2>1, <2>2, <2>3 DEF TypeOK
  <2>5. file.succeeded <= best' /\ \A q \in Procs : proc[q].cache.succeeded <= best'
    BY ONLY <1>1, <2>3
  <2> QED
    BY <1>1, <2>1, <2>4, <2>5 DEF UpdateInv, SuccessIsInstalled
<1> QED
  BY <1>2, <1>3, <1>4

(* The invariant holds at first.                                           *)
LEMMA UpdateInit == Init => UpdateInv
<1> SUFFICES ASSUME Init PROVE UpdateInv
  OBVIOUS
<1>1. /\ config \in [auto : BOOLEAN, terminal : BOOLEAN, managed : BOOLEAN]
      /\ hour = 1 /\ latest = 1 /\ installed = 1 /\ file = NoCache /\ starts = 0
      /\ proc = [p \in Procs |-> Off] /\ best = 1 /\ failed = [version |-> 0, hour |-> 0]
      /\ excused = FALSE
  BY DEF Init
<1>2. hour \in Hours /\ latest \in Releases /\ installed \in Releases /\ best \in Releases
      /\ starts \in 0 .. MaxStarts /\ failed \in [version : Versions, hour : Times]
  BY <1>1, Numbers
<1>3. proc \in [Procs -> Flows] /\ file \in Caches /\ excused \in BOOLEAN
  BY <1>1, OffType, NoCacheType
<1>4. TypeOK
  BY <1>1, <1>2, <1>3 DEF TypeOK
<1>5. file.succeeded <= best /\ \A p \in Procs : proc[p].cache.succeeded <= best
  BY <1>1, OffType, NoCacheType
<1> QED
  BY <1>4, <1>5 DEF UpdateInv, SuccessIsInstalled

(* Every step keeps it.                                                    *)
LEMMA UpdateStep ==
  ASSUME UpdateInv, [Next]_vars
  PROVE  UpdateInv'
<1>1. CASE HourPasses \/ Publish \/ Reinstall
  BY <1>1, WorldType
<1>2. ASSUME NEW p \in Procs, Step(p) PROVE UpdateInv'
  <2>1. CASE Start(p)
    BY <2>1, StartedType
  <2>2. CASE Exit(p) \/ JoinTimeout(p) \/ Interrupt(p)
    BY <2>2, OffStep
  <2>3. CASE DoctorLoad(p)
    BY <2>3, DoctorLoadType
  <2>4. CASE Fetch(p)
    BY <2>4, FetchType
  <2>5. CASE FetchFails(p)
    BY <2>5, FetchFailsType
  <2>6. CASE Save(p)
    BY <2>6, SaveType
  <2>7. CASE Decide(p)
    BY <2>7, DecideType
  <2>8. CASE Upgrade(p)
    BY <2>8, UpgradeType
  <2>9. CASE Truncate(p)
    BY <2>9, TruncateType
  <2>10. CASE SaveAttempt(p)
    BY <2>10, SaveAttemptType
  <2>11. CASE SkipAutoUpdate(p)
    BY <2>11, SkipAutoUpdateType
  <2>12. CASE Tell(p)
    BY <2>12, TellType
  <2> QED
    BY <1>2, <2>1, <2>2, <2>3, <2>4, <2>5, <2>6, <2>7, <2>8, <2>9, <2>10, <2>11, <2>12 DEF Step
<1>3. CASE UNCHANGED vars
  BY <1>3 DEF vars, UpdateInv, TypeOK, SuccessIsInstalled
<1> QED
  BY <1>1, <1>2, <1>3 DEF Next

(* The types of the state, for any number of processes.                    *)
THEOREM UpdateInvariant == Spec => []UpdateInv
<1>1. UpdateInv /\ [Next]_vars => UpdateInv'
  BY UpdateStep
<1> QED
  BY <1>1, UpdateInit, PTL DEF Spec

(* However many processes truncate and overwrite the file with what they   *)
(* read before: neither the file nor a process remembers a release as      *)
(* installed by an update unless a binary at least as new was installed.   *)
THEOREM ClaimedIsInstalled == Spec => []SuccessIsInstalled
<1>1. UpdateInv => SuccessIsInstalled
  BY DEF UpdateInv
<1> QED
  BY <1>1, UpdateInvariant, PTL

-----------------------------------------------------------------------------
(* What the file remembers, with one command at a time.                    *)

(* The numbers the invariant compares.                                     *)
LEMMA FlowNumbers ==
  ASSUME UpdateInv, NEW p \in Procs
  PROVE  /\ latest \in Nat /\ latest >= 1 /\ hour \in Nat /\ hour >= 1
         /\ failed.version \in Nat /\ failed.hour \in Nat
         /\ file.version \in Nat /\ file.checked \in Nat
         /\ file.attempted \in Nat /\ file.succeeded \in Nat
         /\ proc[p].cache.version \in Nat /\ proc[p].cache.checked \in Nat
         /\ proc[p].cache.attempted \in Nat /\ proc[p].cache.succeeded \in Nat
         /\ proc[p].report.version \in Nat /\ proc[p].version \in Nat
         /\ proc[p].report.available \in BOOLEAN /\ excused \in BOOLEAN
<1>1. TypeOK /\ excused \in BOOLEAN
  BY DEF UpdateInv, TypeOK
<1> QED
  BY <1>1, StateFields, CacheFields, ReportType

(* No flow has begun.                                                      *)
LEMMA FlowInit ==
  ASSUME Init, NEW p \in Procs
  PROVE  FlowInv(p)
<1>1. file = NoCache /\ proc[p] = Off /\ failed = [version |-> 0, hour |-> 0] /\ latest = 1
  BY DEF Init
<1>2. Memory(p) = NoCache /\ proc[p].at = "off"
  BY <1>1, OffType DEF Memory
<1>3. Sound(file) /\ failed.version <= latest
  BY <1>1, NoCacheType DEF Sound
<1>4. Recalls(Memory(p))
  BY <1>1, <1>2, NoCacheType DEF Recalls
<1> QED
  BY <1>2, <1>3, <1>4 DEF FlowInv

(* A flow that neither writes nor remembers: it has only the file.         *)
LEMMA FlowRests ==
  ASSUME NEW p \in Procs, Sound(file)', (failed.version <= latest)',
         proc'[p].at \in {"off", "load", "notice"}, excused' \/ Recalls(file)'
  PROVE  FlowInv(p)'
<1>1. Memory(p)' = file'
  BY DEF Memory
<1> QED
  BY <1>1 DEF FlowInv, Recalls

(* A flow that has its report of what the file says.                       *)
LEMMA FlowReports ==
  ASSUME NEW p \in Procs, Sound(file)', (failed.version <= latest)',
         proc'[p].at \in {"load", "notice", "decide", "tell"},
         proc'[p].report.version = file'.version,
         proc'[p].report.available <=> Newer(p, proc[p].report.version)',
         proc'[p].report.checked = 0 => proc'[p].report.version = 0,
         excused' \/ Recalls(file)'
  PROVE  FlowInv(p)'
<1>1. Memory(p)' = file'
  BY DEF Memory
<1>2. ReportInv(p)'
  BY <1>1 DEF ReportInv
<1> QED
  BY <1>1, <1>2 DEF FlowInv, Recalls

(* The world does not change what a flow knows.                            *)
LEMMA FlowWorld ==
  ASSUME UpdateInv, NEW p \in Procs, FlowInv(p), HourPasses \/ Publish \/ Reinstall
  PROVE  FlowInv(p)'
<1>1. /\ UNCHANGED <<config, file, proc, failed, excused>> /\ latest' >= latest
      /\ latest' \in Nat
  BY WorldType
<1>2. /\ latest \in Nat /\ failed.version \in Nat /\ file.version \in Nat
      /\ proc[p].cache.version \in Nat
  BY FlowNumbers
<1>3. ASSUME NEW c, c.version \in Nat, Sound(c)
      PROVE  /\ c.version <= latest'
             /\ c.checked = 0 => c.version = 0
             /\ c.version = 0 \/ failed.version <= c.version
  BY <1>1, <1>2, <1>3 DEF Sound
<1>4. Sound(file)' /\ (failed.version <= latest)'
  BY <1>1, <1>2, <1>3 DEF FlowInv, Sound
<1>5. proc[p].at \in {"save", "upgrade", "truncate", "saveAttempt"} => Sound(proc[p].cache)'
  BY <1>1, <1>2, <1>3 DEF FlowInv, Sound
<1>6. Memory(p)' = Memory(p)
  BY <1>1 DEF Memory
<1>7. /\ proc'[p].at = "fetch" => proc'[p].cache = file'
      /\ proc'[p].at \in {"save", "decide", "upgrade", "tell"} => ReportInv(p)'
      /\ proc'[p].at = "upgrade" => AttemptInv(p)'
      /\ proc'[p].at = "exit" => ToldInv(p)'
  BY <1>1, <1>6 DEF FlowInv, ReportInv, AttemptInv, ToldInv, Newer
<1>8. excused' \/ Recalls(Memory(p))'
  BY <1>1, <1>6 DEF FlowInv, Recalls
<1> QED
  BY <1>1, <1>4, <1>5, <1>7, <1>8 DEF FlowInv, Recalls

(* A flow that begins or ends leaves the file to the next.                 *)
LEMMA FlowGoes ==
  ASSUME UpdateInv, NEW p \in Procs, FlowInv(p),
         Start(p) \/ Exit(p) \/ JoinTimeout(p) \/ Interrupt(p)
  PROVE  FlowInv(p)'
<1>1. Sound(file) /\ failed.version <= latest /\ (excused \/ Recalls(Memory(p)))
  BY DEF FlowInv
<1>2. CASE Start(p)
  <2>1. /\ UNCHANGED <<config, hour, latest, file, failed, excused>>
        /\ proc'[p].at = "load" /\ proc[p].at = "off"
    BY <1>2, StartedType DEF Start
  <2>2. Memory(p) = file
    BY <2>1 DEF Memory
  <2>3. Sound(file)' /\ (failed.version <= latest)' /\ (excused' \/ Recalls(file)')
    BY <1>1, <2>1, <2>2 DEF Sound, Recalls
  <2> QED
    BY <2>1, <2>3, FlowRests
<1>3. CASE Exit(p) \/ JoinTimeout(p) \/ Interrupt(p)
  <2>1. /\ UNCHANGED <<config, hour, latest, file, failed>> /\ proc'[p].at = "off"
        /\ excused' = (excused \/ proc[p].at \in {"save", "truncate", "saveAttempt"})
    BY <1>3, OffStep
  <2>2. excused' \/ Recalls(file)
    BY <1>1, <2>1 DEF Memory
  <2>3. Sound(file)' /\ (failed.version <= latest)' /\ (excused' \/ Recalls(file)')
    BY <1>1, <2>1, <2>2 DEF Sound, Recalls
  <2> QED
    BY <2>1, <2>3, FlowRests
<1> QED
  BY <1>2, <1>3

(* Reading the cache, or failing to refresh it, reports what it says.      *)
LEMMA FlowAsks ==
  ASSUME UpdateInv, NEW p \in Procs, FlowInv(p), DoctorLoad(p) \/ FetchFails(p)
  PROVE  FlowInv(p)'
<1>1. Sound(file) /\ failed.version <= latest /\ (excused \/ Recalls(Memory(p)))
      /\ (proc[p].at = "fetch" => proc[p].cache = file) /\ TypeOK /\ file \in Caches
      /\ proc[p].cache \in Caches
  BY StateFields DEF FlowInv, UpdateInv
<1>2. /\ UNCHANGED <<config, hour, latest, file, failed, excused>>
      /\ proc'[p].version = proc[p].version /\ proc[p].at \in {"load", "fetch"}
  BY DoctorLoadType, FetchFailsType DEF DoctorLoad
<1>3. Memory(p) = file
  BY <1>2 DEF Memory
<1>4. Sound(file)' /\ (failed.version <= latest)' /\ (excused' \/ Recalls(file)')
  BY <1>1, <1>2, <1>3 DEF Sound, Recalls
<1>5. CASE proc'[p].at = "fetch" /\ proc'[p].cache = file
  <2>1. Memory(p)' = file'
    BY <1>5 DEF Memory
  <2> QED
    BY <1>2, <1>4, <1>5, <2>1 DEF FlowInv, Recalls
<1>6. CASE /\ proc'[p].at \in {"load", "notice", "decide", "tell"}
           /\ proc'[p].report = FromCache(p, file)
  <2>1. /\ proc'[p].report.version = file.version /\ proc'[p].report.checked = file.checked
        /\ proc'[p].report.available = Newer(p, file.version)
    BY <1>1, <1>6, FromCacheType
  <2>2. Newer(p, proc[p].report.version)' <=> Newer(p, file.version)
    BY <1>2, <2>1 DEF Newer
  <2>3. file.checked = 0 => file.version = 0
    BY <1>1 DEF Sound
  <2> QED
    BY <1>2, <1>4, <1>6, <2>1, <2>2, <2>3, FlowReports
<1>7. CASE /\ proc'[p].at \in {"load", "notice", "decide", "tell"} /\ proc[p].cache = file
           /\ file.checked = 0 /\ proc'[p].report = NoReport
  <2>1. file.version = 0
    BY <1>1, <1>7 DEF Sound
  <2>2. proc'[p].report.version = 0 /\ ~proc'[p].report.available
    BY <1>7, ReportType
  <2>3. ~Newer(p, proc[p].report.version)'
    BY <2>2 DEF Newer
  <2> QED
    BY <1>2, <1>4, <1>7, <2>1, <2>2, <2>3, FlowReports
<1>8. CASE DoctorLoad(p)
  BY <1>5, <1>6, <1>8, DoctorLoadType
<1>9. CASE FetchFails(p)
  BY <1>1, <1>6, <1>7, <1>9, FetchFailsType
<1> QED
  BY <1>8, <1>9

(* While the file is truncated the process remembers the failed attempt.   *)
LEMMA FlowFetches ==
  ASSUME UpdateInv, NEW p \in Procs, FlowInv(p), Fetch(p)
  PROVE  FlowInv(p)'
<1>1. Sound(file) /\ failed.version <= latest /\ (excused \/ Recalls(Memory(p)))
      /\ (proc[p].at = "fetch" => proc[p].cache = file)
  BY DEF FlowInv
<1>2. /\ UNCHANGED <<config, hour, latest, failed, excused>> /\ file' = NoCache
      /\ proc[p].at = "fetch" /\ proc'[p].at = "save" /\ proc'[p].version = proc[p].version
      /\ proc'[p].report.version = latest /\ proc'[p].report.checked = hour
      /\ proc'[p].report.available <=> Newer(p, latest)
      /\ proc'[p].cache.version = latest /\ proc'[p].cache.checked = hour
      /\ proc'[p].cache.attempted = file.attempted
      /\ proc'[p].cache.attemptedAt = file.attemptedAt
      /\ proc'[p].cache.succeeded = file.succeeded
  BY <1>1, FetchType
<1>3. Memory(p) = file /\ Memory(p)' = proc'[p].cache
  BY <1>2 DEF Memory
<1>4. /\ latest \in Nat /\ hour \in Nat /\ hour >= 1 /\ failed.version \in Nat
      /\ file.version \in Nat
  BY FlowNumbers
<1>5. Sound(file)' /\ (failed.version <= latest)' /\ Sound(proc[p].cache)'
  BY <1>1, <1>2, <1>4, NoCacheType DEF Sound
<1>6. ReportInv(p)'
  <2>1. Newer(p, latest) <=> Newer(p, proc[p].report.version)'
    BY <1>2 DEF Newer
  <2> QED
    BY <1>2, <1>3, <1>4, <2>1 DEF ReportInv
<1>7. Recalls(file) => Recalls(proc[p].cache)'
  <2>1. failed.version < file.version => failed.version < latest
    BY <1>1, <1>4 DEF Sound
  <2> QED
    BY <1>2, <2>1 DEF Recalls
<1> QED
  BY <1>1, <1>2, <1>3, <1>5, <1>6, <1>7 DEF FlowInv, Recalls

(* What the process remembered is in the file.                             *)
LEMMA FlowSaves ==
  ASSUME UpdateInv, NEW p \in Procs, FlowInv(p), Save(p)
  PROVE  FlowInv(p)'
<1>1. /\ UNCHANGED <<config, hour, latest, failed, excused>>
      /\ file' = proc[p].cache /\ proc[p].at = "save"
      /\ proc'[p].at \in {"load", "notice", "decide", "tell"}
      /\ proc'[p].version = proc[p].version /\ proc'[p].report = proc[p].report
  BY SaveType
<1>2. Memory(p) = proc[p].cache
  BY <1>1 DEF Memory
<1>3. Sound(proc[p].cache) /\ failed.version <= latest /\ ReportInv(p)
      /\ (excused \/ Recalls(proc[p].cache))
  BY <1>1, <1>2 DEF FlowInv
<1>4. Sound(file)' /\ (failed.version <= latest)' /\ (excused' \/ Recalls(file)')
  BY <1>1, <1>3 DEF Sound, Recalls
<1>5. /\ proc'[p].report.version = file'.version
      /\ proc'[p].report.available <=> Newer(p, proc[p].report.version)'
      /\ proc'[p].report.checked = 0 => proc'[p].report.version = 0
  BY <1>1, <1>2, <1>3 DEF ReportInv, Newer
<1> QED
  BY <1>1, <1>4, <1>5, FlowReports

(* A failed attempt is remembered by the process that made it.             *)
LEMMA FlowDecides ==
  ASSUME UpdateInv, NEW p \in Procs, FlowInv(p), Decide(p)
  PROVE  FlowInv(p)'
<1>1. /\ UNCHANGED <<config, hour, latest, file, failed, excused>>
      /\ proc[p].at = "decide" /\ proc'[p].version = proc[p].version
  BY DecideType
<1>2. Memory(p) = file
  BY <1>1 DEF Memory
<1>3. Sound(file) /\ failed.version <= latest /\ ReportInv(p) /\ (excused \/ Recalls(file))
  BY <1>1, <1>2 DEF FlowInv
<1>4. Sound(file)' /\ (failed.version <= latest)' /\ (excused' \/ Recalls(file)')
  BY <1>1, <1>3 DEF Sound, Recalls
<1>5. CASE proc'[p].at = "load"
  BY <1>4, <1>5, FlowRests
<1>6. CASE proc'[p].at = "exit" /\ ~config.terminal
  <2>1. Memory(p)' = file' /\ ToldInv(p)'
    BY <1>1, <1>6 DEF Memory, ToldInv
  <2> QED
    BY <1>4, <1>6, <2>1 DEF FlowInv, Recalls
<1>7. CASE /\ proc'[p].at = "upgrade" /\ proc'[p].report = proc[p].report
           /\ proc[p].report.available
           /\ proc'[p].cache.checked = proc[p].report.checked
           /\ proc'[p].cache.version = proc[p].report.version
           /\ proc'[p].cache.attempted = proc[p].report.version
  <2>1. Memory(p)' = file'
    BY <1>7 DEF Memory
  <2>2. /\ proc[p].report.version = file.version /\ proc[p].report.version # 0
        /\ proc[p].report.checked = 0 => proc[p].report.version = 0
    BY <1>2, <1>3, <1>7 DEF ReportInv, Newer
  <2>3. ReportInv(p)'
    BY <1>1, <1>2, <1>3, <1>7, <2>1 DEF ReportInv, Newer
  <2>4. AttemptInv(p)'
    BY <1>7, <2>2 DEF AttemptInv
  <2>5. Sound(proc[p].cache)'
    BY <1>1, <1>3, <1>7, <2>2 DEF Sound
  <2> QED
    BY <1>4, <1>7, <2>1, <2>3, <2>4, <2>5 DEF FlowInv, Recalls
<1> QED
  BY <1>5, <1>6, <1>7, DecideType

(* A failed attempt is in the memory that will be written; one that did    *)
(* not fail leaves the last failure older, or succeeds where that failed.  *)
LEMMA FlowUpgrades ==
  ASSUME UpdateInv, NEW p \in Procs, FlowInv(p), Upgrade(p)
  PROVE  FlowInv(p)'
<1>1. /\ UNCHANGED <<config, hour, latest, file>>
      /\ proc[p].at = "upgrade" /\ proc'[p].at = "truncate"
      /\ proc'[p].version = proc[p].version /\ proc'[p].report = proc[p].report
      /\ proc'[p].cache.checked = proc[p].cache.checked
      /\ proc'[p].cache.version = proc[p].cache.version
      /\ proc'[p].cache.attempted = proc[p].cache.attempted
      /\ proc'[p].cache.attemptedAt = proc[p].cache.attemptedAt
      /\ \/ failed' = failed /\ proc'[p].cache.succeeded = proc[p].report.version
         \/ /\ failed'.version = proc[p].report.version
            /\ failed'.hour = proc[p].cache.attemptedAt
  BY UpgradeType
<1>2. Memory(p) = file /\ Memory(p)' = proc'[p].cache
  BY <1>1 DEF Memory
<1>3. Sound(file) /\ Sound(proc[p].cache) /\ failed.version <= latest
      /\ ReportInv(p) /\ AttemptInv(p)
  BY <1>1 DEF FlowInv
<1>4. /\ proc[p].report.version = file.version /\ proc[p].report.version # 0
      /\ proc[p].cache.version = proc[p].report.version
      /\ proc[p].cache.attempted = proc[p].report.version
  BY <1>2, <1>3 DEF ReportInv, AttemptInv
<1>5. /\ latest \in Nat /\ failed.version \in Nat /\ file.version \in Nat
      /\ proc[p].report.version \in Nat
  BY FlowNumbers
<1>6. /\ failed'.version <= file.version
      /\ file.version <= latest /\ failed'.version <= latest
  BY <1>1, <1>3, <1>4, <1>5 DEF Sound
<1>7. Sound(file)' /\ (failed.version <= latest)' /\ Sound(proc[p].cache)'
  BY <1>1, <1>3, <1>4, <1>5, <1>6 DEF Sound
<1>8. Recalls(proc[p].cache)'
  <2>1. CASE /\ failed'.version = proc[p].report.version
             /\ failed'.hour = proc[p].cache.attemptedAt
    BY <1>1, <1>4, <2>1 DEF Recalls
  <2>2. CASE failed' = failed /\ proc'[p].cache.succeeded = proc[p].report.version
    <3>1. failed.version = file.version \/ failed.version < file.version
      BY <1>3, <1>4, <1>5 DEF Sound
    <3> QED
      BY <1>1, <1>4, <2>2, <3>1 DEF Recalls
  <2> QED
    BY <1>1, <2>1, <2>2
<1> QED
  BY <1>1, <1>2, <1>7, <1>8 DEF FlowInv, Recalls

(* And is in the file once it is written.                                  *)
LEMMA FlowWrites ==
  ASSUME UpdateInv, NEW p \in Procs, FlowInv(p), Truncate(p) \/ SaveAttempt(p)
  PROVE  FlowInv(p)'
<1>1. /\ proc[p].at \in {"truncate", "saveAttempt"}
      /\ UNCHANGED <<config, hour, latest, failed, excused>>
  BY TruncateType, SaveAttemptType
<1>2. Memory(p) = proc[p].cache
  BY <1>1 DEF Memory
<1>3. Sound(proc[p].cache) /\ failed.version <= latest /\ (excused \/ Recalls(proc[p].cache))
  BY <1>1, <1>2 DEF FlowInv
<1>4. CASE Truncate(p)
  <2>1. file' = NoCache /\ proc'[p].at = "saveAttempt" /\ proc'[p].cache = proc[p].cache
    BY <1>4, TruncateType
  <2>2. Memory(p)' = proc'[p].cache
    BY <2>1 DEF Memory
  <2>3. latest \in Nat /\ latest >= 1
    BY FlowNumbers
  <2>4. Sound(file)' /\ (failed.version <= latest)' /\ Sound(proc[p].cache)'
        /\ (excused' \/ Recalls(proc[p].cache)')
    BY <1>1, <1>3, <2>1, <2>3, NoCacheType DEF Sound, Recalls
  <2> QED
    BY <2>1, <2>2, <2>4 DEF FlowInv, Recalls
<1>5. CASE SaveAttempt(p)
  <2>1. /\ file' = proc[p].cache
        /\ \/ proc'[p].at = "load"
           \/ proc'[p].at = "exit" /\ (proc'[p].updated \/ ~config.terminal)
    BY <1>5, SaveAttemptType
  <2>2. Sound(file)' /\ (failed.version <= latest)' /\ (excused' \/ Recalls(file)')
    BY <1>1, <1>3, <2>1 DEF Sound, Recalls
  <2>3. CASE proc'[p].at = "load"
    BY <2>2, <2>3, FlowRests
  <2>4. CASE proc'[p].at = "exit" /\ (proc'[p].updated \/ ~config.terminal)
    <3>1. Memory(p)' = file' /\ ToldInv(p)'
      BY <1>1, <2>4 DEF Memory, ToldInv
    <3> QED
      BY <2>2, <2>4, <3>1 DEF FlowInv, Recalls
  <2> QED
    BY <2>1, <2>3, <2>4
<1> QED
  BY <1>4, <1>5

(* The last steps of a flow change nothing it must keep.                   *)
LEMMA FlowEnds ==
  ASSUME UpdateInv, NEW p \in Procs, FlowInv(p), SkipAutoUpdate(p) \/ Tell(p)
  PROVE  FlowInv(p)'
<1>1. /\ proc[p].at \in {"notice", "tell"}
      /\ UNCHANGED <<config, hour, latest, file, failed, excused>>
  BY SkipAutoUpdateType, TellType
<1>2. Memory(p) = file
  BY <1>1 DEF Memory
<1>3. Sound(file) /\ failed.version <= latest /\ (excused \/ Recalls(file))
  BY <1>2 DEF FlowInv
<1>4. Sound(file)' /\ (failed.version <= latest)' /\ (excused' \/ Recalls(file)')
  BY <1>1, <1>3 DEF Sound, Recalls
<1>5. CASE proc'[p].at = "load"
  BY <1>4, <1>5, FlowRests
<1>6. CASE proc'[p].at = "exit" /\ ToldInv(p)'
  <2>1. Memory(p)' = file'
    BY <1>6 DEF Memory
  <2> QED
    BY <1>4, <1>6, <2>1 DEF FlowInv, Recalls
<1>7. CASE SkipAutoUpdate(p)
  <2>1. ~config.terminal => ToldInv(p)'
    BY <1>1 DEF ToldInv
  <2> QED
    BY <1>5, <1>6, <1>7, <2>1, SkipAutoUpdateType
<1>8. CASE Tell(p)
  <2>1. /\ proc[p].at = "tell" /\ proc'[p].at = "exit" /\ proc'[p].version = proc[p].version
        /\ proc'[p].told = IF proc[p].report.available /\ config.managed
                           THEN proc[p].report.version ELSE 0
    BY <1>8, TellType
  <2>2. ReportInv(p)
    BY <2>1 DEF FlowInv
  <2>3. /\ proc[p].report.version = file.version
        /\ proc[p].report.available <=> Newer(p, file.version)
    BY <1>2, <2>2 DEF ReportInv
  <2>4. Newer(p, file.version)' <=> Newer(p, file.version)
    BY <1>1, <2>1 DEF Newer
  <2>5. ToldInv(p)'
    BY <1>1, <2>1, <2>3, <2>4 DEF ToldInv
  <2> QED
    BY <1>6, <2>1, <2>5
<1> QED
  BY <1>7, <1>8

(* Every step keeps what a flow knows.                                     *)
LEMMA FlowNext ==
  ASSUME NEW p, Procs = {p}, UpdateInv, FlowInv(p), [Next]_vars
  PROVE  FlowInv(p)'
<1>1. CASE HourPasses \/ Publish \/ Reinstall
  BY <1>1, FlowWorld
<1>2. CASE Step(p)
  <2>1. p \in Procs
    OBVIOUS
  <2>2. CASE Start(p) \/ Exit(p) \/ JoinTimeout(p) \/ Interrupt(p)
    BY <2>1, <2>2, FlowGoes
  <2>3. CASE DoctorLoad(p) \/ FetchFails(p)
    BY <2>1, <2>3, FlowAsks
  <2>4. CASE Fetch(p)
    BY <2>1, <2>4, FlowFetches
  <2>5. CASE Save(p)
    BY <2>1, <2>5, FlowSaves
  <2>6. CASE Decide(p)
    BY <2>1, <2>6, FlowDecides
  <2>7. CASE Upgrade(p)
    BY <2>1, <2>7, FlowUpgrades
  <2>8. CASE Truncate(p) \/ SaveAttempt(p)
    BY <2>1, <2>8, FlowWrites
  <2>9. CASE SkipAutoUpdate(p) \/ Tell(p)
    BY <2>1, <2>9, FlowEnds
  <2> QED
    BY <1>2, <2>2, <2>3, <2>4, <2>5, <2>6, <2>7, <2>8, <2>9 DEF Step
<1>3. CASE UNCHANGED vars
  <2>1. UNCHANGED <<config, latest, file, proc, failed, excused>>
    BY <1>3 DEF vars
  <2> QED
    BY <2>1 DEF FlowInv, Sound, Recalls, Memory, ReportInv, AttemptInv, ToldInv, Newer
<1> QED
  BY <1>1, <1>2, <1>3 DEF Next

(* The invariant of a flow that is alone: what it knows of releases and of *)
(* failed attempts is the file, or what it has yet to write.               *)
THEOREM FlowInvariant ==
  ASSUME NEW CONSTANT p, Procs = {p}
  PROVE  Spec => [](UpdateInv /\ FlowInv(p))
<1>1. Init => UpdateInv /\ FlowInv(p)
  BY UpdateInit, FlowInit
<1>2. UpdateInv /\ FlowInv(p) /\ [Next]_vars => (UpdateInv /\ FlowInv(p))'
  BY UpdateStep, FlowNext
<1> QED
  BY <1>1, <1>2, PTL DEF Spec

(* One command at a time: an interactive command whose update flow runs to *)
(* its end has updated szr, or has named the newest release the cache      *)
(* knows, whichever of the three calls of Doctor was answered.             *)
THEOREM NewerReleaseIsTold ==
  ASSUME NEW CONSTANT p, Procs = {p}
  PROVE  Spec => []KnownUpdateIsTold
<1>1. FlowInv(p) => KnownUpdateIsTold
  BY DEF FlowInv, ToldInv, KnownUpdateIsTold
<1> QED
  BY <1>1, FlowInvariant, PTL

(* One command at a time: a release whose update failed is not tried again *)
(* within the interval, as long as no process has gone away while the      *)
(* memory of the attempt was in the process alone.                         *)
THEOREM FailedUpdateWaits ==
  ASSUME NEW CONSTANT p, Procs = {p}
  PROVE  Spec => FailureWaits
<1>1. ASSUME UpdateInv, FlowInv(p), [Next]_vars, Retries(p), ~excused PROVE FALSE
  <2>1. p \in Procs /\ proc[p].at = "decide" /\ proc'[p].at = "upgrade"
    BY <1>1 DEF Retries
  <2>2. Decide(p)
    <3>1. CASE UNCHANGED vars
      BY <2>1, <3>1 DEF vars
    <3>2. CASE HourPasses \/ Publish \/ Reinstall
      BY <1>1, <2>1, <3>2, WorldType
    <3>3. CASE Step(p)
      <4>1. CASE Exit(p) \/ JoinTimeout(p) \/ Interrupt(p)
        BY <1>1, <2>1, <4>1, OffStep
      <4> QED
        BY <2>1, <3>3, <4>1 DEF Step, Start, DoctorLoad, Fetch, FetchFails, Save, Upgrade,
             Truncate, SaveAttempt, SkipAutoUpdate, Tell
    <3> QED
      BY <1>1, <3>1, <3>2, <3>3 DEF Next
  <2>3. /\ proc[p].report.available
        /\ ~AutoUpdateAttemptFresh(file, proc[p].report.version)
    BY <1>1, <2>1, <2>2, DecideType
  <2>4. Memory(p) = file
    BY <2>1 DEF Memory
  <2>5. /\ proc[p].report.version = file.version /\ proc[p].report.version # 0
        /\ Recalls(file)
    BY <1>1, <2>1, <2>3, <2>4 DEF FlowInv, ReportInv, Newer
  <2>6. file.version \in Nat /\ failed.version \in Nat
    BY <1>1, <2>1, FlowNumbers
  <2>7. ~(failed.version < file.version)
    BY <1>1, <2>5, <2>6 DEF Retries
  <2> QED
    BY <1>1, <2>3, <2>5, <2>7 DEF Recalls, AutoUpdateAttemptFresh, Retries
<1>2. UpdateInv /\ FlowInv(p) /\ [Next]_vars => [RetriesAreExcused]_vars
  BY <1>1 DEF RetriesAreExcused
<1> QED
  BY <1>2, FlowInvariant, PTL DEF Spec, FailureWaits

-----------------------------------------------------------------------------
(* Budgets.                                                                *)

(* A budget that has all its caps. *)
IsBudget(b) ==
  /\ b = [cap |-> b.cap, prefilter |-> b.prefilter]
  /\ \A c \in Caps : b.cap[c] \in Nat \ {0}

(* The caps keep this percentage of those of base, or gain no more.        *)
Above(base, b, percent) ==
  \A c \in Caps : \/ b.cap[c] * 100 >= base.cap[c] * percent
                  \/ c = "lines" /\ b.cap[c] = 40
Below(base, b, percent) ==
  \A c \in Caps : \/ (b.cap[c] - 1) * 100 < base.cap[c] * percent
                  \/ c = "lines" /\ b.cap[c] = 3

(* The larger and the smaller of two integers.                             *)
LEMMA OfTwo ==
  ASSUME NEW a \in Int, NEW b \in Int
  PROVE  /\ Larger(a, b) \in {a, b} /\ Larger(a, b) >= a /\ Larger(a, b) >= b
         /\ Smaller(a, b) \in {a, b} /\ Smaller(a, b) <= a /\ Smaller(a, b) <= b
BY DEF Larger, Smaller

(* A positive cap stays positive and is rounded up by less than one.       *)
LEMMA ScaleType ==
  ASSUME NEW v \in Nat \ {0}, NEW percent \in Nat \ {0}
  PROVE  LET s == ScaleIntCeil(v, percent, 100) IN
         s \in Nat \ {0} /\ s * 100 >= v * percent /\ (s - 1) * 100 < v * percent
<1> DEFINE w == v * percent
<1>1. w \in Nat \ {0}
  OBVIOUS
<1>2. ScaleIntCeil(v, percent, 100) = (w + 100 - 1) \div 100
  BY DEF ScaleIntCeil
<1> HIDE DEF w
<1>3. LET s == (w + 100 - 1) \div 100 IN
      s \in Nat \ {0} /\ s * 100 >= w /\ (s - 1) * 100 < w
  BY <1>1
<1> QED
  BY <1>2, <1>3 DEF w

(* FinalizeResolvedBudget changes no cap but lines, and fills the others   *)
(* if they are not set.                                                    *)
LEMMA FinalizeType ==
  ASSUME NEW b, b = [cap |-> b.cap, prefilter |-> b.prefilter],
         \A c \in Caps : b.cap[c] \in Int
  PROVE  LET f == FinalizeResolvedBudget(b) IN
         /\ IsBudget(f)
         /\ f.cap["lines"] = Larger(3, Smaller(40, b.cap["lines"])) /\ f.cap["lines"] \in 3 .. 40
         /\ \A c \in Caps \ {"lines"} : b.cap[c] > 0 => f.cap[c] = b.cap[c]
<1> DEFINE lines == Larger(3, Smaller(40, b.cap["lines"]))
           bytes == IF b.cap["bytes"] <= 0 THEN lines * 160 ELSE b.cap["bytes"]
           tokens == IF b.cap["tokens"] <= 0 THEN lines * 32 ELSE b.cap["tokens"]
           f == FinalizeResolvedBudget(b)
           caps == [lines |-> lines, bytes |-> bytes, tokens |-> tokens]
<1>1. b.cap["lines"] \in Int /\ b.cap["bytes"] \in Int /\ b.cap["tokens"] \in Int
  BY DEF Caps
<1>2. lines \in 3 .. 40
  BY <1>1 DEF Larger, Smaller
<1>3. bytes \in Nat \ {0} /\ tokens \in Nat \ {0}
  BY <1>1, <1>2
<1>4. f = [b EXCEPT !.cap = caps]
  BY DEF FinalizeResolvedBudget
<1> HIDE DEF lines, bytes, tokens, f
<1>5. f = [cap |-> caps, prefilter |-> b.prefilter]
  BY <1>4
<1>6. f.cap = caps /\ f.prefilter = b.prefilter
  BY <1>5
<1>7. caps["lines"] = lines /\ caps["bytes"] = bytes /\ caps["tokens"] = tokens
  OBVIOUS
<1> HIDE DEF caps
<1>8. IsBudget(f)
  BY <1>2, <1>3, <1>5, <1>6, <1>7 DEF IsBudget, Caps
<1>9. \A c \in Caps \ {"lines"} : b.cap[c] > 0 => f.cap[c] = b.cap[c]
  BY <1>1, <1>6, <1>7 DEF Caps, bytes, tokens
<1> QED
  BY <1>2, <1>6, <1>7, <1>8, <1>9 DEF f, lines

(* What is asked for over a budget is a budget.                            *)
LEMMA SuggestedType ==
  ASSUME NEW b, IsBudget(b), NEW target, \A c \in Caps : target[c] \in Int
  PROVE  IsBudget(Suggested(b, target))
<1> DEFINE caps == [c \in Caps |-> IF target[c] > 0 THEN target[c] ELSE b.cap[c]]
           s == [cap |-> caps, prefilter |-> b.prefilter]
<1>1. [b EXCEPT !.cap = [c \in Caps |-> IF target[c] > 0 THEN target[c] ELSE @[c]]] = s
  BY DEF IsBudget
<1>2. \A c \in Caps : s.cap[c] \in Int
  BY DEF IsBudget
<1>3. s = [cap |-> s.cap, prefilter |-> s.prefilter]
  OBVIOUS
<1>4. Suggested(b, target) = FinalizeResolvedBudget(s)
  BY <1>1 DEF Suggested
<1> HIDE DEF s
<1> QED
  BY <1>2, <1>3, <1>4, FinalizeType

(* The caps of a scaled budget, and of the larger and the smaller of two.  *)
LEMMA ScaledType ==
  ASSUME NEW b, IsBudget(b), NEW percent \in Nat \ {0}, NEW c \in Caps
  PROVE  LET s == ScaleBudgetByPercent(b, percent).cap[c] IN
         /\ s \in Nat \ {0} /\ s * 100 >= b.cap[c] * percent
         /\ (s - 1) * 100 < b.cap[c] * percent
<1>1. ScaleBudgetByPercent(b, percent).cap[c] = ScaleIntCeil(b.cap[c], percent, 100)
  BY DEF ScaleBudgetByPercent, CapsOnly
<1>2. b.cap[c] \in Nat \ {0}
  BY DEF IsBudget
<1> QED
  BY <1>1, <1>2, ScaleType

(* A budget that is tightened keeps its percentage of every cap, but for   *)
(* lines beyond the most there may be.                                     *)
LEMMA Tightened ==
  ASSUME NEW base, IsBudget(base), NEW wanted, IsBudget(wanted), NEW percent \in Nat \ {0}
  PROVE  LET f == FinalizeResolvedBudget(MaxBudget(wanted, ScaleBudgetByPercent(base, percent)))
         IN  IsBudget(f) /\ f.cap["lines"] \in 3 .. 40 /\ Above(base, f, percent)
<1> DEFINE s == ScaleBudgetByPercent(base, percent)
           m == MaxBudget(wanted, s)
           f == FinalizeResolvedBudget(m)
<1>1. \A c \in Caps : s.cap[c] \in Nat \ {0} /\ s.cap[c] * 100 >= base.cap[c] * percent
  BY ScaledType
<1>2. \A c \in Caps : wanted.cap[c] \in Nat \ {0} /\ base.cap[c] \in Nat \ {0}
  BY DEF IsBudget
<1> HIDE DEF s
<1>3. m = [cap |-> m.cap, prefilter |-> m.prefilter]
      /\ \A c \in Caps : m.cap[c] = Larger(wanted.cap[c], s.cap[c])
  BY DEF MaxBudget, CapsOnly
<1>4. \A c \in Caps : m.cap[c] \in Nat \ {0} /\ m.cap[c] >= s.cap[c]
  BY <1>1, <1>2, <1>3 DEF Larger
<1> HIDE DEF m
<1>5. /\ IsBudget(f) /\ f.cap["lines"] \in 3 .. 40
      /\ f.cap["lines"] = Larger(3, Smaller(40, m.cap["lines"]))
      /\ \A c \in Caps \ {"lines"} : f.cap[c] = m.cap[c]
  BY <1>3, <1>4, FinalizeType
<1> HIDE DEF f
<1>6. "lines" \in Caps
  BY DEF Caps
<1>7. f.cap["lines"] = 40 \/ f.cap["lines"] >= m.cap["lines"]
  BY <1>4, <1>5, <1>6 DEF Larger, Smaller
<1>8. ASSUME NEW c \in Caps
      PROVE  \/ f.cap[c] * 100 >= base.cap[c] * percent
             \/ c = "lines" /\ f.cap[c] = 40
  <2>1. f.cap[c] \in Nat /\ (f.cap[c] >= m.cap[c] \/ (c = "lines" /\ f.cap[c] = 40))
    BY <1>4, <1>5, <1>7 DEF IsBudget
  <2> DEFINE w == base.cap[c] * percent
  <2>2. w \in Nat /\ s.cap[c] * 100 >= w /\ m.cap[c] >= s.cap[c] /\ s.cap[c] \in Nat /\ m.cap[c] \in Nat
    BY <1>1, <1>2, <1>4
  <2> HIDE DEF w
  <2>3. f.cap[c] * 100 >= w \/ (c = "lines" /\ f.cap[c] = 40)
    BY <2>1, <2>2
  <2> QED
    BY <2>3 DEF w
<1> QED
  BY <1>5, <1>8 DEF Above, f, m, s

(* One that is loosened gains no more than its percentage, but for the few *)
(* lines there have to be.                                                 *)
LEMMA Loosened ==
  ASSUME NEW base, IsBudget(base), NEW wanted, IsBudget(wanted), NEW percent \in Nat \ {0}
  PROVE  LET f == FinalizeResolvedBudget(MinBudget(wanted, ScaleBudgetByPercent(base, percent)))
         IN  IsBudget(f) /\ f.cap["lines"] \in 3 .. 40 /\ Below(base, f, percent)
<1> DEFINE s == ScaleBudgetByPercent(base, percent)
           m == MinBudget(wanted, s)
           f == FinalizeResolvedBudget(m)
<1>1. \A c \in Caps : s.cap[c] \in Nat \ {0} /\ (s.cap[c] - 1) * 100 < base.cap[c] * percent
  BY ScaledType
<1>2. \A c \in Caps : wanted.cap[c] \in Nat \ {0} /\ base.cap[c] \in Nat \ {0}
  BY DEF IsBudget
<1> HIDE DEF s
<1>3. m = [cap |-> m.cap, prefilter |-> m.prefilter]
      /\ \A c \in Caps : m.cap[c] = MinPositive(wanted.cap[c], s.cap[c])
  BY DEF MinBudget, CapsOnly
<1>4. \A c \in Caps : m.cap[c] \in Nat \ {0} /\ m.cap[c] <= s.cap[c]
  BY <1>1, <1>2, <1>3 DEF MinPositive, Smaller
<1> HIDE DEF m
<1>5. /\ IsBudget(f) /\ f.cap["lines"] \in 3 .. 40
      /\ f.cap["lines"] = Larger(3, Smaller(40, m.cap["lines"]))
      /\ \A c \in Caps \ {"lines"} : f.cap[c] = m.cap[c]
  BY <1>3, <1>4, FinalizeType
<1> HIDE DEF f
<1>6. "lines" \in Caps
  BY DEF Caps
<1>7. f.cap["lines"] = 3 \/ f.cap["lines"] <= m.cap["lines"]
  BY <1>4, <1>5, <1>6 DEF Larger, Smaller
<1>8. ASSUME NEW c \in Caps
      PROVE  \/ (f.cap[c] - 1) * 100 < base.cap[c] * percent
             \/ c = "lines" /\ f.cap[c] = 3
  <2>1. f.cap[c] \in Nat /\ (f.cap[c] <= m.cap[c] \/ (c = "lines" /\ f.cap[c] = 3))
    BY <1>4, <1>5, <1>7 DEF IsBudget
  <2> DEFINE w == base.cap[c] * percent
  <2>2. w \in Nat /\ (s.cap[c] - 1) * 100 < w /\ m.cap[c] <= s.cap[c] /\ s.cap[c] \in Nat /\ m.cap[c] \in Nat
    BY <1>1, <1>2, <1>4
  <2> HIDE DEF w
  <2>3. (f.cap[c] - 1) * 100 < w \/ (c = "lines" /\ f.cap[c] = 3)
    BY <2>1, <2>2
  <2> QED
    BY <2>3 DEF w
<1> QED
  BY <1>5, <1>8 DEF Below, f, m, s

-----------------------------------------------------------------------------
(* Advice.                                                                 *)

IsSuggestion(s) ==
  /\ s.direction \in {"tighten", "loosen"} /\ s.confidence \in {"low", "medium", "high"}
  /\ \A c \in Caps : s.target[c] \in Int

(* What an adapted budget keeps of its base, by the way it moved.          *)
Within(base, b, direction, tighten, loosen) ==
  /\ IsBudget(b) /\ b.cap["lines"] \in 3 .. 40
  /\ direction = "tighten" => Above(base, b, 100 - tighten)
  /\ direction = "loosen" => Below(base, b, 100 + loosen)

(* A bound that holds for a percentage holds for a larger one.             *)
LEMMA BelowGrows ==
  ASSUME NEW base, IsBudget(base), NEW b, IsBudget(b), NEW m \in Nat, NEW n \in Nat, m <= n,
         Below(base, b, m)
  PROVE  Below(base, b, n)
<1> SUFFICES ASSUME NEW c \in Caps, ~(c = "lines" /\ b.cap[c] = 3)
             PROVE  (b.cap[c] - 1) * 100 < base.cap[c] * n
  BY DEF Below
<1> DEFINE k == base.cap[c]
           l == (b.cap[c] - 1) * 100
<1>1. k \in Nat /\ l \in Int /\ l < k * m
  BY DEF Below, IsBudget
<1> HIDE DEF k, l
<1>2. k * n = k * m + k * (n - m) /\ k * (n - m) >= 0 /\ k * m \in Nat
  BY <1>1
<1>3. l < k * n
  BY <1>1, <1>2
<1> QED
  BY <1>3 DEF k, l

(* adaptBudgetConservatively moves the caps no further than it may.        *)
LEMMA AdaptedType ==
  ASSUME NEW base, IsBudget(base), NEW s, IsSuggestion(s), NEW opts,
         opts.maxTighten \in 1 .. 99, NEW loosen \in Nat,
         LoosenPercent(s, opts) \in 100 .. 100 + loosen
  PROVE  LET a == AdaptBudgetConservatively(base, s, opts) IN
         /\ ~a.ok => a.budget = base
         /\ a.ok => Within(base, a.budget, s.direction, opts.maxTighten, loosen)
<1> DEFINE wanted == Suggested(base, s.target)
           least == ScaleBudgetByPercent(base, 100 - opts.maxTighten)
           most == ScaleBudgetByPercent(base, LoosenPercent(s, opts))
           tight == FinalizeResolvedBudget(MaxBudget(wanted, least))
           loose == FinalizeResolvedBudget(MinBudget(wanted, most))
           a == AdaptBudgetConservatively(base, s, opts)
<1>1. IsBudget(wanted)
  BY SuggestedType DEF IsSuggestion
<1>2. /\ 100 - opts.maxTighten \in Nat \ {0}
      /\ LoosenPercent(s, opts) \in Nat \ {0} /\ LoosenPercent(s, opts) <= 100 + loosen
      /\ LoosenPercent(s, opts) \in Nat /\ 100 + loosen \in Nat
  OBVIOUS
<1> HIDE DEF wanted
<1>3. IsBudget(tight) /\ tight.cap["lines"] \in 3 .. 40 /\ Above(base, tight, 100 - opts.maxTighten)
  BY <1>1, <1>2, Tightened
<1>4. IsBudget(loose) /\ loose.cap["lines"] \in 3 .. 40 /\ Below(base, loose, 100 + loosen)
  <2>1. IsBudget(loose) /\ loose.cap["lines"] \in 3 .. 40 /\ Below(base, loose, LoosenPercent(s, opts))
    BY <1>1, <1>2, Loosened
  <2> QED
    BY <1>2, <2>1, BelowGrows
<1>5. \E ok : a = [ok |-> ok, budget |-> IF ok THEN IF s.direction = "tighten" THEN tight ELSE loose
                                        ELSE base]
  BY DEF AdaptBudgetConservatively, wanted, least, most, tight, loose
<1> HIDE DEF tight, loose, a
<1>6. PICK ok : a = [ok |-> ok, budget |-> IF ok THEN IF s.direction = "tighten" THEN tight ELSE loose
                                         ELSE base]
  BY <1>5
<1>7. a.ok = ok /\ a.budget = IF ok THEN IF s.direction = "tighten" THEN tight ELSE loose ELSE base
  BY <1>6
<1>8. Within(base, tight, "tighten", opts.maxTighten, loosen)
      /\ Within(base, loose, "loosen", opts.maxTighten, loosen)
  BY <1>3, <1>4 DEF Within
<1>9. s.direction \in {"tighten", "loosen"}
  BY DEF IsSuggestion
<1> QED
  BY <1>7, <1>8, <1>9 DEF a

(* What the history may add to a cap.                                      *)
LEMMA HistoryPercent ==
  ASSUME NEW s, IsSuggestion(s)
  PROVE  LoosenPercent(s, HistoryOptions) \in 100 .. 100 + 75
BY DEF LoosenPercent, HistoryOptions, IsSuggestion, Larger

(* What the gateway may.                                                   *)
LEMMA GatewayPercent ==
  ASSUME NEW s, s.reason = "gateway_hint"
  PROVE  LoosenPercent(s, GatewayOptions) \in 100 .. 100 + 15
BY DEF LoosenPercent, GatewayOptions

(* One of the first m numbers is the largest of them.                      *)
Largest(values, m) == \E i \in 1 .. m : \A j \in 1 .. m : values[j] <= values[i]

(* There is one, as there is no least m without.                           *)
LEMMA LargestExists ==
  ASSUME NEW values \in Seq(Nat), values # <<>>
  PROVE  Largest(values, Len(values))
<1> DEFINE U == {m \in 1 .. Len(values) : ~Largest(values, m)}
<1>1. Len(values) \in Nat /\ Len(values) \in 1 .. Len(values)
  OBVIOUS
<1>2. U = {}
  <2>1. SUFFICES ASSUME U # {} PROVE FALSE
    OBVIOUS
  <2>2. U \in SUBSET Nat
    OBVIOUS
  <2> HIDE DEF U
  <2>3. PICK m \in U : \A k \in U : m <= k
    BY <2>1, <2>2, LeastNatural
  <2>4. m \in 1 .. Len(values) /\ ~Largest(values, m)
    BY DEF U
  <2>5. \A j \in 1 .. m : values[j] \in Nat
    BY <1>1, <2>4
  <2>6. m # 1
    <3>1. m = 1 => Largest(values, m)
      <4>1. \A j \in 1 .. 1 : j = 1 /\ values[1] <= values[1]
        BY <1>1
      <4> QED
        BY <4>1 DEF Largest
    <3> QED
      BY <2>4, <3>1
  <2>7. m - 1 \in 1 .. Len(values) /\ ~(m <= m - 1) /\ m \in Nat
    BY <1>1, <2>4, <2>6
  <2>8. Largest(values, m - 1)
    BY <2>3, <2>7 DEF U
  <2>9. PICK i \in 1 .. m - 1 : \A j \in 1 .. m - 1 : values[j] <= values[i]
    BY <2>8 DEF Largest
  <2>10. \A j \in 1 .. m : j \in 1 .. m - 1 \/ j = m
    BY <2>7
  <2>11. i \in 1 .. m /\ m \in 1 .. m /\ values[i] \in Nat /\ values[m] \in Nat
    BY <2>5, <2>7
  <2>12. CASE values[m] <= values[i]
    <3>1. \A j \in 1 .. m : values[j] <= values[i]
      BY <2>9, <2>10, <2>12
    <3> QED
      BY <2>4, <2>11, <3>1 DEF Largest
  <2>13. CASE values[i] <= values[m]
    <3>1. \A j \in 1 .. m : values[j] <= values[m]
      BY <2>5, <2>9, <2>10, <2>11, <2>13
    <3> QED
      BY <2>4, <2>11, <3>1 DEF Largest
  <2> QED
    BY <2>11, <2>12, <2>13
<1> QED
  BY <1>1, <1>2

(* The n-th smallest of some numbers is a number.                          *)
LEMMA NthType ==
  ASSUME NEW values \in Seq(Nat), NEW n \in 1 .. Len(values)
  PROVE  NthSmallest(values, n) \in Nat
<1> DEFINE range == {values[i] : i \in DOMAIN values}
           upTo(v) == {i \in DOMAIN values : values[i] <= v}
           enough == {v \in range : Cardinality(upTo(v)) >= n}
<1>1. Len(values) \in Nat /\ DOMAIN values = 1 .. Len(values) /\ range \in SUBSET Nat
      /\ n \in Nat /\ n <= Len(values) /\ values # <<>>
  OBVIOUS
<1>2. PICK i \in DOMAIN values : \A j \in DOMAIN values : values[j] <= values[i]
  BY <1>1, LargestExists DEF Largest
<1>3. upTo(values[i]) = 1 .. Len(values)
  BY <1>1, <1>2
<1>4. values[i] \in range
  BY <1>1
<1> HIDE DEF range, upTo
<1>5. Cardinality(1 .. Len(values)) = Len(values)
  <2>1. 1 \in Int /\ Len(values) \in Int
    BY <1>1
  <2>2. Cardinality(1 .. Len(values)) = IF 1 > Len(values) THEN 0 ELSE Len(values) - 1 + 1
    BY <2>1, FS_Interval
  <2> QED
    BY <1>1, <2>2
<1>6. values[i] \in enough
  BY <1>1, <1>3, <1>4, <1>5
<1>7. enough \in SUBSET Nat /\ enough # {}
  BY <1>1, <1>6
<1>8. NthSmallest(values, n) = CHOOSE v \in enough : \A w \in enough : v <= w
  BY DEF NthSmallest, upTo, range
<1> HIDE DEF enough
<1>9. \E v \in enough : \A w \in enough : v <= w
  BY <1>7, LeastNatural
<1>10. NthSmallest(values, n) \in enough
  BY <1>8, <1>9
<1> QED
  BY <1>7, <1>10

(* A percentile is a number, even of nothing.                              *)
LEMMA PercentileType ==
  ASSUME NEW values \in Seq(Nat), NEW target \in Nat
  PROVE  PercentileInts(values, target) \in Nat
<1> DEFINE index == (Len(values) * target + 99) \div 100
           n == Larger(1, Smaller(index, Len(values)))
<1>1. Len(values) \in Nat /\ Len(values) * target \in Nat
  OBVIOUS
<1>2. index \in Int
  <2> DEFINE w == Len(values) * target
  <2>1. w \in Nat
    BY <1>1
  <2> HIDE DEF w
  <2>2. (w + 99) \div 100 \in Int
    BY <2>1
  <2> QED
    BY <2>2 DEF w
<1>3. PercentileInts(values, target) = IF values = <<>> THEN 0 ELSE NthSmallest(values, n)
  BY DEF PercentileInts
<1> HIDE DEF index
<1>4. ASSUME values # <<>> PROVE n \in 1 .. Len(values)
  <2>1. Len(values) >= 1
    BY <1>4
  <2> QED
    BY <1>1, <1>2, <2>1 DEF Larger, Smaller
<1> HIDE DEF n
<1> QED
  BY <1>3, <1>4, NthType

-----------------------------------------------------------------------------
(* What the history suggests.                                              *)

Records == [raw : Nat, filtered : Nat, bytes : Nat, saved : Int,
            fallback : BOOLEAN, failed : BOOLEAN]

(* A suggestion says which way, how sure it is, and the caps.              *)
LEMMA SuggestionType ==
  ASSUME NEW direction \in {"tighten", "loosen"}, NEW reason, NEW samples \in Nat,
         NEW tokens \in Int, NEW bytes \in Int
  PROVE  IsSuggestion(Suggestion(direction, reason, samples, tokens, bytes))
<1> DEFINE t == Larger(tokens, 1)
           b == Larger(bytes, 1)
           lines == EstimateBudgetLines(b, t)
           confidence == SuggestionConfidence(samples)
           target == [lines |-> lines, bytes |-> b, tokens |-> t]
           s == Suggestion(direction, reason, samples, tokens, bytes)
<1>1. t \in Nat \ {0} /\ b \in Nat \ {0}
  BY DEF Larger
<1> HIDE DEF t, b
<1>2. lines \in Int
  BY <1>1 DEF EstimateBudgetLines, ScaleIntCeil, Larger, Smaller
<1>3. confidence \in {"low", "medium", "high"}
  BY DEF SuggestionConfidence
<1> HIDE DEF lines, confidence
<1>4. target["lines"] = lines /\ target["bytes"] = b /\ target["tokens"] = t
  OBVIOUS
<1>5. s = [direction |-> direction, reason |-> reason, confidence |-> confidence, target |-> target]
  BY DEF Suggestion, lines, confidence, t, b
<1> HIDE DEF target
<1>6. s.direction = direction /\ s.confidence = confidence /\ s.target = target
  BY <1>5
<1> HIDE DEF s
<1>7. IsSuggestion(s)
  BY <1>1, <1>2, <1>3, <1>4, <1>6 DEF IsSuggestion, Caps
<1> QED
  BY <1>7 DEF s

(* A field of all records, where it is a number.                           *)
LEMMA ColumnType ==
  ASSUME NEW rs \in Seq(Records), NEW f, \A r \in Records : r[f] \in Nat
  PROVE  Column(rs, f) \in Seq(Nat)
<1>1. Len(rs) \in Nat /\ DOMAIN rs = 1 .. Len(rs) /\ \A i \in 1 .. Len(rs) : rs[i] \in Records
  OBVIOUS
<1> HIDE DEF Records
<1>2. Column(rs, f) = [i \in 1 .. Len(rs) |-> rs[i][f]]
  BY <1>1 DEF Column
<1>3. \A i \in 1 .. Len(rs) : rs[i][f] \in Nat
  BY <1>1
<1>4. [i \in 1 .. Len(rs) |-> rs[i][f]] \in [1 .. Len(rs) -> Nat]
  BY <1>3
<1> QED
  BY <1>1, <1>2, <1>4

(* Scaling leaves a number.                                                *)
LEMMA ScaledInt ==
  ASSUME NEW v \in Nat
  PROVE  /\ ScaleIntCeil(v, 125, 100) \in Int /\ ScaleIntCeil(v, 150, 100) \in Int
         /\ ScaleIntCeil(v, 3, 2) \in Int /\ ScaleIntCeil(v, 3, 4) \in Int
BY DEF ScaleIntCeil

(* The larger of two integers is one.                                      *)
LEMMA LargerInt ==
  ASSUME NEW a \in Int, NEW b \in Int
  PROVE  Larger(a, b) \in Int
BY DEF Larger

(* buildBudgetSuggestion: whatever the records of a command are, what they *)
(* suggest is a suggestion, or nothing.                                    *)
LEMMA BuildType ==
  ASSUME NEW rs \in Seq(Records)
  PROVE  LET s == BuildBudgetSuggestion(rs) IN s = NoSuggestion \/ IsSuggestion(s)
<1> DEFINE n == Len(rs)
           raw50 == PercentileInts(Column(rs, "raw"), 50)
           filtered50 == PercentileInts(Column(rs, "filtered"), 50)
           filtered95 == PercentileInts(Column(rs, "filtered"), 95)
           bytes50 == PercentileInts(Column(rs, "bytes"), 50)
           bytes95 == PercentileInts(Column(rs, "bytes"), 95)
           t1(k) == Larger(ScaleIntCeil(filtered95, k, 100), Larger(filtered50 + 8, 24))
           b1(k) == Larger(ScaleIntCeil(bytes95, k, 100), Larger(bytes50 + 32, 96))
           t2 == Larger(ScaleIntCeil(filtered95, 3, 2), Larger(raw50 \div 6, 24))
           b2 == Larger(ScaleIntCeil(bytes95, 3, 2), Larger(t2 * 4, 96))
           t3 == Larger(ScaleIntCeil(filtered95, 3, 4), 24)
           b3 == Larger(ScaleIntCeil(bytes95, 3, 4), 96)
           s == BuildBudgetSuggestion(rs)
<1>1. n \in Nat
  OBVIOUS
<1>2. s \in {NoSuggestion, Suggestion("loosen", "fallback_heavy", n, t1(125), b1(125)),
             Suggestion("loosen", "fallback_heavy", n, t1(150), b1(150)),
             Suggestion("loosen", "aggressive_compression", n, t2, b2),
             Suggestion("tighten", "noisy", n, t3, b3)}
  BY DEF BuildBudgetSuggestion
<1>3. /\ Column(rs, "raw") \in Seq(Nat) /\ Column(rs, "filtered") \in Seq(Nat)
      /\ Column(rs, "bytes") \in Seq(Nat)
  BY ColumnType DEF Records
<1>4. raw50 \in Nat /\ filtered50 \in Nat /\ filtered95 \in Nat /\ bytes50 \in Nat /\ bytes95 \in Nat
  BY <1>3, PercentileType
<1> HIDE DEF n, raw50, filtered50, filtered95, bytes50, bytes95, s
<1>5. ASSUME NEW x \in {filtered95, bytes95}
      PROVE  /\ ScaleIntCeil(x, 125, 100) \in Int /\ ScaleIntCeil(x, 150, 100) \in Int
             /\ ScaleIntCeil(x, 3, 2) \in Int /\ ScaleIntCeil(x, 3, 4) \in Int
  <2>1. x \in Nat
    BY <1>4
  <2>2. ScaleIntCeil(x, 125, 100) \in Int
    BY <2>1, ScaledInt
  <2>3. ScaleIntCeil(x, 150, 100) \in Int
    BY <2>1, ScaledInt
  <2>4. ScaleIntCeil(x, 3, 2) \in Int
    BY <2>1, ScaledInt
  <2>5. ScaleIntCeil(x, 3, 4) \in Int
    BY <2>1, ScaledInt
  <2> QED
    BY <2>2, <2>3, <2>4, <2>5
<1>11. filtered50 + 8 \in Int /\ bytes50 + 32 \in Int
  BY <1>4
<1>12. raw50 \div 6 \in Int
  BY <1>4
<1>13. Larger(filtered50 + 8, 24) \in Int
  BY <1>11, LargerInt
<1>14. Larger(bytes50 + 32, 96) \in Int
  BY <1>11, LargerInt
<1>15. Larger(raw50 \div 6, 24) \in Int
  BY <1>12, LargerInt
<1>7. t1(125) \in Int /\ t1(150) \in Int /\ t2 \in Int /\ t3 \in Int
  <2>1. t1(125) \in Int
    BY ONLY <1>5, <1>13, LargerInt
  <2>2. t1(150) \in Int
    BY ONLY <1>5, <1>13, LargerInt
  <2>3. t2 \in Int
    BY ONLY <1>5, <1>15, LargerInt
  <2>4. t3 \in Int
    BY ONLY <1>5, LargerInt
  <2> QED
    BY <2>1, <2>2, <2>3, <2>4
<1>8. b1(125) \in Int /\ b1(150) \in Int /\ b3 \in Int
  BY ONLY <1>5, <1>14, LargerInt
<1>9. b2 \in Int
  <2> HIDE DEF t2
  <2>1. Larger(t2 * 4, 96) \in Int
    BY <1>7, LargerInt
  <2> QED
    BY ONLY <1>5, <2>1, LargerInt
<1> HIDE DEF t1, b1, t2, b2, t3, b3
<1>10. s = NoSuggestion \/ IsSuggestion(s)
  BY <1>1, <1>2, <1>7, <1>8, <1>9, SuggestionType
<1> QED
  BY <1>10 DEF s

(* FindBudgetSuggestion as well.                                           *)
LEMMA FindType ==
  ASSUME NEW rs \in Seq(Records), NEW lookback \in Nat
  PROVE  LET s == FindBudgetSuggestion(rs, lookback, 3) IN s = NoSuggestion \/ IsSuggestion(s)
<1> DEFINE from == Larger(1, Len(rs) - lookback + 1)
           recent == SubSeq(rs, from, Len(rs))
<1>1. Len(rs) \in Nat /\ from \in Nat \ {0}
  BY DEF Larger
<1> HIDE DEF from
<1>2. recent \in Seq(Records)
  BY <1>1
<1> HIDE DEF recent
<1>3. FindBudgetSuggestion(rs, lookback, 3)
        = IF recent = <<>> \/ Len(recent) < 3 THEN NoSuggestion ELSE BuildBudgetSuggestion(recent)
  BY DEF FindBudgetSuggestion, recent, from
<1> QED
  BY <1>2, <1>3, BuildType

-----------------------------------------------------------------------------
(* The bounds of adaptation.                                               *)

(* What is known of the files and of the runs.                             *)
Stored ==
  /\ records \in Seq(Records)
  /\ store \in Seq(HintRecords)
  /\ \A i \in DOMAIN store : store[i] \in AllHints

Moved(r) ==
  /\ r.advice = <<"gateway", "tighten">> => Above(r.base, r.budget, 90)
  /\ r.advice = <<"gateway", "loosen">> => Below(r.base, r.budget, 115)
  /\ r.advice = <<"history", "tighten">> => Above(r.base, r.budget, 80)
  /\ r.advice = <<"history", "loosen">> => Below(r.base, r.budget, 175)

Adapted ==
  /\ run = [q \in Runners |-> run[q]]
  /\ \A q \in Runners : run[q].on => IsBudget(run[q].budget) /\ Moved(run[q])

(* The hints of a file that still hold at an hour, and the one preferred.   *)
Holding(s, h) == {i \in DOMAIN s : s[i].expires > h}
Chosen(s, h) ==
  s[CHOOSE i \in Holding(s, h) :
      \A j \in Holding(s, h) :
        j # i => \/ Before(s[i], s[j])
                 \/ i < j /\ ~Before(s[j], s[i])]

(* Of the first m entries, i is the preferred one.                         *)
Best(s, h, i, m) ==
  /\ i \in Holding(s, h) /\ i <= m
  /\ \A j \in Holding(s, h) : j <= m /\ j # i =>
       Before(s[i], s[j]) \/ (i < j /\ ~Before(s[j], s[i]))

(* They are entries of the file, and have the fields that decide.          *)
LEMMA HoldingType ==
  ASSUME NEW s \in Seq(HintRecords), NEW h
  PROVE  /\ Len(s) \in Nat /\ Holding(s, h) \subseteq 1 .. Len(s)
         /\ \A i \in Holding(s, h) : s[i] \in HintRecords
         /\ \A i \in Holding(s, h) : s[i].exact \in BOOLEAN /\ s[i].expires \in Int
<1>1. Len(s) \in Nat /\ Holding(s, h) \subseteq 1 .. Len(s)
      /\ \A i \in 1 .. Len(s) : s[i] \in HintRecords
  BY DEF Holding
<1>2. \A g \in HintRecords : g.exact \in BOOLEAN /\ g.expires \in Int
  BY DEF HintRecords
<1> QED
  BY <1>1, <1>2

(* Of the hints that hold one is preferred.                                *)
LEMMA BestExists ==
  ASSUME NEW s \in Seq(HintRecords), NEW h, Holding(s, h) # {}
  PROVE  \E i \in Holding(s, h) : Best(s, h, i, Len(s))
<1>1. Len(s) \in Nat /\ Holding(s, h) \subseteq 1 .. Len(s)
      /\ \A i \in Holding(s, h) : s[i].exact \in BOOLEAN /\ s[i].expires \in Int
  BY HoldingType
<1> DEFINE Some(m) == \E j \in Holding(s, h) : j <= m
           U == {m \in 0 .. Len(s) : Some(m) /\ ~ \E i \in Holding(s, h) : Best(s, h, i, m)}
<1>2. U = {}
  <2>1. SUFFICES ASSUME U # {} PROVE FALSE
    OBVIOUS
  <2>2. U \in SUBSET Nat
    BY <1>1
  <2> HIDE DEF U
  <2>3. PICK m \in U : \A k \in U : m <= k
    BY <2>1, <2>2, LeastNatural
  <2>4. m \in 0 .. Len(s) /\ Some(m) /\ ~ \E i \in Holding(s, h) : Best(s, h, i, m)
    BY DEF U
  <2>5. m \in 1 .. Len(s) /\ m - 1 \in 0 .. Len(s) /\ ~(m <= m - 1)
    BY <1>1, <2>4
  <2>6. ~Some(m - 1) \/ \E i \in Holding(s, h) : Best(s, h, i, m - 1)
    BY <2>3, <2>5 DEF U
  <2>7. \A j \in Holding(s, h) : j \in Nat /\ (j <= m => j <= m - 1 \/ j = m)
    BY <1>1, <2>5
  <2>8. CASE m \notin Holding(s, h)
    <3>1. \A j \in Holding(s, h) : j <= m => j <= m - 1
      BY <2>7, <2>8
    <3>2. Some(m - 1)
      BY <2>4, <3>1
    <3>3. PICK i \in Holding(s, h) : Best(s, h, i, m - 1)
      BY <2>6, <3>2
    <3>4. i <= m
      BY <2>5, <2>7, <3>3 DEF Best
    <3>5. Best(s, h, i, m)
      BY <3>1, <3>3, <3>4 DEF Best
    <3> QED
      BY <2>4, <3>5
  <2>9. CASE m \in Holding(s, h) /\ ~Some(m - 1)
    <3>1. \A j \in Holding(s, h) : j <= m => j = m
      BY <2>7, <2>9
    <3>2. Best(s, h, m, m)
      BY <2>5, <2>9, <3>1 DEF Best
    <3> QED
      BY <2>4, <2>9, <3>2
  <2>10. CASE m \in Holding(s, h) /\ \E i \in Holding(s, h) : Best(s, h, i, m - 1)
    <3>1. PICK i \in Holding(s, h) : Best(s, h, i, m - 1)
      BY <2>10
    <3>2. i <= m - 1 /\ i < m /\ i # m /\ i <= m /\ i \in Nat
      BY <2>5, <2>7, <3>1 DEF Best
    <3>3. \A j \in Holding(s, h) : j <= m - 1 /\ j # i =>
             Before(s[i], s[j]) \/ (i < j /\ ~Before(s[j], s[i]))
      BY <3>1 DEF Best
    <3>4. CASE Before(s[m], s[i])
      <4>1. \A j \in Holding(s, h) : j <= m - 1 => Before(s[m], s[j])
        <5>1. SUFFICES ASSUME NEW j \in Holding(s, h), j <= m - 1 PROVE Before(s[m], s[j])
          OBVIOUS
        <5>2. j = i \/ Before(s[i], s[j]) \/ ~Before(s[j], s[i])
          BY <3>3, <5>1
        <5> QED
          BY <1>1, <2>10, <3>4, <5>2 DEF Before
      <4>2. Best(s, h, m, m)
        BY <2>5, <2>7, <2>10, <4>1 DEF Best
      <4> QED
        BY <2>4, <2>10, <4>2
    <3>5. CASE ~Before(s[m], s[i])
      <4>1. Best(s, h, i, m)
        BY <2>7, <3>2, <3>3, <3>5 DEF Best
      <4> QED
        BY <2>4, <4>1
    <3> QED
      BY <3>4, <3>5
  <2> QED
    BY <2>6, <2>8, <2>9, <2>10
<1>3. Some(Len(s)) /\ Len(s) \in 0 .. Len(s)
  BY <1>1
<1> HIDE DEF Some
<1> QED
  BY <1>2, <1>3

(* The one preferred is of the file, and none that holds comes before it.  *)
LEMMA ChosenType ==
  ASSUME NEW s \in Seq(HintRecords), NEW h, Holding(s, h) # {}
  PROVE  \E i \in Holding(s, h) :
           /\ Chosen(s, h) = s[i] /\ s[i] \in HintRecords
           /\ \A j \in Holding(s, h) : ~Before(s[j], s[i])
<1>1. Len(s) \in Nat /\ Holding(s, h) \subseteq 1 .. Len(s)
      /\ \A i \in Holding(s, h) : s[i] \in HintRecords /\ s[i].exact \in BOOLEAN /\ s[i].expires \in Int
  BY HoldingType
<1>2. \E i \in Holding(s, h) : \A j \in Holding(s, h) :
         j # i => Before(s[i], s[j]) \/ (i < j /\ ~Before(s[j], s[i]))
  <2>1. \A j \in Holding(s, h) : j <= Len(s)
    BY <1>1
  <2> QED
    BY <2>1, BestExists DEF Best
<1> DEFINE i == CHOOSE i \in Holding(s, h) : \A j \in Holding(s, h) :
                  j # i => Before(s[i], s[j]) \/ (i < j /\ ~Before(s[j], s[i]))
<1>3. i \in Holding(s, h) /\ \A j \in Holding(s, h) :
         j # i => Before(s[i], s[j]) \/ (i < j /\ ~Before(s[j], s[i]))
  BY <1>2
<1>4. Chosen(s, h) = s[i]
  BY DEF Chosen
<1> HIDE DEF i
<1>5. \A j \in Holding(s, h) : ~Before(s[j], s[i])
  <2>1. SUFFICES ASSUME NEW j \in Holding(s, h) PROVE ~Before(s[j], s[i])
    OBVIOUS
  <2>2. j = i \/ Before(s[i], s[j]) \/ ~Before(s[j], s[i])
    BY <1>3
  <2> QED
    BY <1>1, <1>3, <2>2 DEF Before
<1> QED
  BY <1>1, <1>3, <1>4, <1>5

(* A hint that is preferred stays so for as long as it holds: what is      *)
(* preferred later and held before is known to the outcomes as the same.   *)
LEMMA ChosenStays ==
  ASSUME NEW s \in Seq(HintRecords), NEW h \in Int, NEW k \in Int, h <= k,
         Holding(s, h) # {}, Chosen(s, h).expires > k
  PROVE  Holding(s, k) # {} /\ IdOf(Chosen(s, k)) = IdOf(Chosen(s, h))
<1>1. PICK i \in Holding(s, h) :
         /\ Chosen(s, h) = s[i] /\ s[i] \in HintRecords
         /\ \A j \in Holding(s, h) : ~Before(s[j], s[i])
  BY ChosenType
<1>2. i \in Holding(s, k)
  BY <1>1 DEF Holding
<1>3. PICK j \in Holding(s, k) :
         /\ Chosen(s, k) = s[j] /\ s[j] \in HintRecords
         /\ \A l \in Holding(s, k) : ~Before(s[l], s[j])
  BY <1>2, ChosenType
<1>4. j \in Holding(s, h)
  <2>1. \A l \in Holding(s, k) : s[l].expires \in Int /\ l \in DOMAIN s /\ s[l].expires > k
    BY HoldingType DEF Holding
  <2> QED
    BY <2>1 DEF Holding
<1>5. ~Before(s[j], s[i]) /\ ~Before(s[i], s[j])
  BY <1>1, <1>2, <1>3, <1>4
<1>6. /\ s[i].exact \in BOOLEAN /\ s[i].expires \in Int
      /\ s[j].exact \in BOOLEAN /\ s[j].expires \in Int
  BY <1>1, <1>4, HoldingType
<1>7. s[i].exact = s[j].exact /\ s[i].expires = s[j].expires
  BY <1>5, <1>6 DEF Before
<1> QED
  BY <1>1, <1>2, <1>3, <1>7 DEF IdOf

(* Lookup is the one preferred now.                                        *)
LEMMA LookupIsChosen ==
  /\ Candidates = Holding(store, clock) /\ Lookup = Chosen(store, clock)
  /\ Found <=> Holding(store, clock) # {}
BY DEF Candidates, Lookup, Found, Holding, Chosen

(* The hint found is one a gateway issued.                                 *)
LEMMA LookupType ==
  ASSUME Stored, Found
  PROVE  Lookup \in HintRecords /\ Lookup \in AllHints /\ IdOf(Lookup) \in Ids
<1>1. PICK i \in Holding(store, clock) :
         Lookup = store[i] /\ store[i] \in HintRecords
  BY ChosenType, LookupIsChosen DEF Stored
<1>2. store[i] \in AllHints
  BY <1>1 DEF Stored, Holding
<1> QED
  BY <1>1, <1>2 DEF Ids

-----------------------------------------------------------------------------
(* What a run starts with.                                                 *)

(* The gateway's advice is followed while its hint has not been taken back,*)
(* and within the gateway's bounds.                                        *)
LEMMA GatewayType ==
  ASSUME Stored, NEW base, IsBudget(base), NEW readable
  PROVE  LET a == GatewayAdapt(base, readable) IN
         /\ ~a.ok => a.budget = base
         /\ a.ok => /\ Found /\ ~TakenBack(readable)
                    /\ \E d \in {"tighten", "loosen"} :
                         a.advice = <<"gateway", d>> /\ Within(base, a.budget, d, 10, 15)
<1> DEFINE a == GatewayAdapt(base, readable)
           s == GatewaySuggestion
           g == AdaptBudgetConservatively(base, s, GatewayOptions)
           none == ~Found \/ Lookup.samples < MinSamples \/ TakenBack(readable)
<1>1. a = IF none THEN Refused(base) ELSE Advised("gateway", s, g)
  BY DEF GatewayAdapt
<1> HIDE DEF a
<1>2. CASE none
  BY <1>1, <1>2 DEF Refused, a
<1>3. CASE ~none
  <2>1. Lookup \in HintRecords
    BY <1>3, LookupType
  <2>2. s.direction \in {"tighten", "loosen"} /\ s.reason = "gateway_hint" /\ s.confidence = "low"
        /\ \A c \in Caps : s.target[c] \in Int
    BY <2>1 DEF GatewaySuggestion, HintRecords
  <2>3. IsSuggestion(s)
    BY <2>2 DEF IsSuggestion
  <2>4. GatewayOptions.maxTighten = 10
    BY DEF GatewayOptions
  <2>5. LoosenPercent(s, GatewayOptions) \in 100 .. 100 + 15
    BY <2>2, GatewayPercent
  <2> HIDE DEF s
  <2>6. (~g.ok => g.budget = base) /\ (g.ok => Within(base, g.budget, s.direction, 10, 15))
    BY <2>3, <2>4, <2>5, AdaptedType
  <2> HIDE DEF g, none
  <2>7. a.ok = g.ok /\ a.budget = g.budget /\ a.advice = <<"gateway", s.direction>>
    BY <1>1, <1>3 DEF Advised
  <2> QED
    BY <1>3, <2>2, <2>6, <2>7 DEF none, a
<1> QED
  BY <1>2, <1>3

(* The history's advice is followed within the history's bounds.           *)
LEMMA HistoryType ==
  ASSUME HintsAssumption, Stored, NEW base, IsBudget(base)
  PROVE  LET a == HistoryAdapt(base) IN
         /\ ~a.ok => a.budget = base
         /\ a.ok => \E d \in {"tighten", "loosen"} :
              a.advice = <<"history", d>> /\ Within(base, a.budget, d, 20, 75)
<1> DEFINE a == HistoryAdapt(base)
           s == FindBudgetSuggestion(records, Lookback, 3)
           g == AdaptBudgetConservatively(base, s, HistoryOptions)
           none == \/ ~Adaptive \/ s = NoSuggestion
                   \/ ConfidenceRank(s.confidence) < ConfidenceRank("medium")
<1>1. a = IF none THEN Refused(base) ELSE Advised("history", s, g)
  BY DEF HistoryAdapt
<1> HIDE DEF a
<1>2. CASE none
  BY <1>1, <1>2 DEF Refused, a
<1>3. CASE ~none
  <2>1. IsSuggestion(s)
    BY <1>3, FindType DEF Stored, HintsAssumption
  <2> HIDE DEF s
  <2>2. s.direction \in {"tighten", "loosen"}
    BY <2>1 DEF IsSuggestion
  <2>4. HistoryOptions.maxTighten = 20
    BY DEF HistoryOptions
  <2>5. LoosenPercent(s, HistoryOptions) \in 100 .. 100 + 75
    BY <2>1, HistoryPercent
  <2>6. (~g.ok => g.budget = base) /\ (g.ok => Within(base, g.budget, s.direction, 20, 75))
    BY <2>1, <2>4, <2>5, AdaptedType
  <2> HIDE DEF g, none
  <2>7. a.ok = g.ok /\ a.budget = g.budget /\ a.advice = <<"history", s.direction>>
    BY <1>1, <1>3 DEF Advised
  <2> QED
    BY <2>2, <2>6, <2>7 DEF a
<1> QED
  BY <1>2, <1>3

(* A budget within the limits on lines is left as it is by finalizing it,  *)
(* so its bounds are those of what is run.                                 *)
LEMMA FinalKeeps ==
  ASSUME NEW base, IsBudget(base), NEW b, NEW d \in {"tighten", "loosen"},
         NEW tighten \in {10, 20}, NEW loosen \in {15, 75},
         Within(base, b, d, tighten, loosen)
  PROVE  LET f == FinalizeResolvedBudget(b) IN
         /\ IsBudget(f)
         /\ d = "tighten" => Above(base, f, 100 - tighten)
         /\ d = "loosen" => Below(base, f, 100 + loosen)
<1> DEFINE f == FinalizeResolvedBudget(b)
<1>1. /\ b = [cap |-> b.cap, prefilter |-> b.prefilter]
      /\ \A c \in Caps : b.cap[c] \in Nat \ {0}
      /\ b.cap["lines"] \in 3 .. 40
      /\ d = "tighten" => Above(base, b, 100 - tighten)
      /\ d = "loosen" => Below(base, b, 100 + loosen)
  BY DEF Within, IsBudget
<1>2. /\ IsBudget(f) /\ f.cap["lines"] = Larger(3, Smaller(40, b.cap["lines"]))
      /\ \A c \in Caps \ {"lines"} : b.cap[c] > 0 => f.cap[c] = b.cap[c]
  BY <1>1, FinalizeType
<1> HIDE DEF f
<1>3. f.cap["lines"] = b.cap["lines"]
  BY <1>1, <1>2 DEF Larger, Smaller
<1>4. \A c \in Caps : f.cap[c] = b.cap[c]
  BY <1>1, <1>2, <1>3
<1>5. d = "tighten" => Above(base, f, 100 - tighten)
  BY <1>1, <1>4 DEF Above
<1>6. d = "loosen" => Below(base, f, 100 + loosen)
  BY <1>1, <1>4 DEF Below
<1> QED
  BY <1>2, <1>5, <1>6 DEF f

(* The budget that AdaptBudget chooses, as the run uses it.                *)
LEMMA AdaptType ==
  ASSUME HintsAssumption, Stored, NEW base, IsBudget(base), NEW readable
  PROVE  LET a == AdaptBudget(base, readable)
             advice == IF a.ok THEN a.advice ELSE <<"none", "none">>
             f == FinalizeResolvedBudget(a.budget)
         IN  /\ IsBudget(f)
             /\ Moved([base |-> base, advice |-> advice, budget |-> f])
             /\ advice[1] = "gateway" => Found /\ ~TakenBack(readable)
<1> DEFINE a == AdaptBudget(base, readable)
           g == GatewayAdapt(base, readable)
           h == HistoryAdapt(base)
           advice == IF a.ok THEN a.advice ELSE <<"none", "none">>
           f == FinalizeResolvedBudget(a.budget)
           r == [base |-> base, advice |-> advice, budget |-> f]
<1>1. a = IF g.ok THEN g ELSE h
  BY DEF AdaptBudget
<1>2. g.ok => /\ Found /\ ~TakenBack(readable)
              /\ \E d \in {"tighten", "loosen"} :
                   g.advice = <<"gateway", d>> /\ Within(base, g.budget, d, 10, 15)
  BY GatewayType
<1>3. /\ ~h.ok => h.budget = base
      /\ h.ok => \E d \in {"tighten", "loosen"} :
           h.advice = <<"history", d>> /\ Within(base, h.budget, d, 20, 75)
  BY HistoryType
<1> HIDE DEF a, g, h
<1>4. r.base = base /\ r.advice = advice /\ r.budget = f
  OBVIOUS
<1> HIDE DEF r
<1>5. CASE g.ok
  <2>1. PICK d \in {"tighten", "loosen"} :
           g.advice = <<"gateway", d>> /\ Within(base, g.budget, d, 10, 15)
    BY <1>2, <1>5
  <2>2. a = g /\ advice = <<"gateway", d>>
    BY <1>1, <1>5, <2>1
  <2>3. IsBudget(f) /\ (d = "tighten" => Above(base, f, 90)) /\ (d = "loosen" => Below(base, f, 115))
    <3>1. /\ IsBudget(f) /\ (d = "tighten" => Above(base, f, 100 - 10))
          /\ (d = "loosen" => Below(base, f, 100 + 15))
      BY <2>1, <2>2, FinalKeeps
    <3>2. 100 - 10 = 90 /\ 100 + 15 = 115
      OBVIOUS
    <3> QED
      BY <3>1, <3>2
  <2> HIDE DEF advice, f
  <2>4. Moved(r)
    BY <1>4, <2>2, <2>3 DEF Moved
  <2> QED
    BY <1>2, <1>5, <2>3, <2>4 DEF r, a, f, advice
<1>6. CASE ~g.ok /\ h.ok
  <2>1. PICK d \in {"tighten", "loosen"} :
           h.advice = <<"history", d>> /\ Within(base, h.budget, d, 20, 75)
    BY <1>3, <1>6
  <2>2. a = h /\ advice = <<"history", d>> /\ advice[1] # "gateway"
    BY <1>1, <1>6, <2>1
  <2>3. IsBudget(f) /\ (d = "tighten" => Above(base, f, 80)) /\ (d = "loosen" => Below(base, f, 175))
    <3>1. /\ IsBudget(f) /\ (d = "tighten" => Above(base, f, 100 - 20))
          /\ (d = "loosen" => Below(base, f, 100 + 75))
      BY <2>1, <2>2, FinalKeeps
    <3>2. 100 - 20 = 80 /\ 100 + 75 = 175
      OBVIOUS
    <3> QED
      BY <3>1, <3>2
  <2> HIDE DEF advice, f
  <2>4. Moved(r)
    BY <1>4, <2>2, <2>3 DEF Moved
  <2> QED
    BY <2>2, <2>3, <2>4 DEF r, a, f, advice
<1>7. CASE ~g.ok /\ ~h.ok
  <2>1. a.budget = base /\ advice = <<"none", "none">> /\ advice[1] # "gateway"
    BY <1>1, <1>3, <1>7
  <2>2. base = [cap |-> base.cap, prefilter |-> base.prefilter] /\ \A c \in Caps : base.cap[c] \in Int
    BY DEF IsBudget
  <2>3. IsBudget(f)
    BY <2>1, <2>2, FinalizeType
  <2> HIDE DEF advice, f
  <2>4. Moved(r)
    BY <1>4, <2>1 DEF Moved
  <2> QED
    BY <2>1, <2>3, <2>4 DEF r, a, f, advice
<1> QED
  BY <1>5, <1>6, <1>7

-----------------------------------------------------------------------------
(* What holds of the files and the runs, whoever runs.                     *)

(* A step that starts a run, by the record it leaves.                      *)
LEMMA StartType ==
  ASSUME HintsAssumption, Stored, Adapted, NEW q \in Runners, StartRun(q)
  PROVE  /\ Stored' /\ Adapted'
         /\ \A o \in Runners \ {q} : run'[o] = run[o]
         /\ run'[q].hint = IF run'[q].advice[1] = "gateway" THEN {IdOf(Lookup)} ELSE {}
         /\ \E readable \in BOOLEAN :
              /\ run'[q].advice[1] = "gateway" => Found /\ ~TakenBack(readable)
              /\ taken' = IF TakenBack(readable) THEN taken \cup {IdOf(Lookup)}
                          ELSE IF readable THEN taken
                          ELSE taken \ run'[q].hint
<1>1. PICK base \in Bases, readable \in BOOLEAN :
        LET a == AdaptBudget(base, readable)
            advice == IF a.ok THEN a.advice ELSE <<"none", "none">>
        IN  /\ run' = [run EXCEPT ![q] =
                 [on |-> TRUE, base |-> base, advice |-> advice,
                  hint |-> IF advice[1] = "gateway" THEN {IdOf(Lookup)} ELSE {},
                  budget |-> FinalizeResolvedBudget(a.budget)]]
            /\ taken' = IF TakenBack(readable) THEN taken \cup {IdOf(Lookup)}
                        ELSE IF readable THEN taken
                        ELSE taken \ run'[q].hint
  BY DEF StartRun
<1>2. IsBudget(base)
  <2>1. base = [cap |-> base.cap, prefilter |-> base.prefilter] /\ base.cap \in [Caps -> Nat \ {0}]
    BY DEF HintsAssumption
  <2> QED
    BY <2>1 DEF IsBudget
<1> DEFINE a == AdaptBudget(base, readable)
           advice == IF a.ok THEN a.advice ELSE <<"none", "none">>
           f == FinalizeResolvedBudget(a.budget)
           s == [base |-> base, advice |-> advice, budget |-> f]
           r == [on |-> TRUE, base |-> base, advice |-> advice,
                 hint |-> IF advice[1] = "gateway" THEN {IdOf(Lookup)} ELSE {}, budget |-> f]
<1>3. /\ IsBudget(f) /\ Moved(s)
      /\ advice[1] = "gateway" => Found /\ ~TakenBack(readable)
  BY <1>2, AdaptType
<1>4. run' = [run EXCEPT ![q] = r]
  BY <1>1
<1> HIDE DEF advice, f
<1>5. /\ r.base = base /\ r.advice = advice /\ r.budget = f
      /\ r.hint = IF advice[1] = "gateway" THEN {IdOf(Lookup)} ELSE {}
      /\ s.base = base /\ s.advice = advice /\ s.budget = f
  OBVIOUS
<1> HIDE DEF s, r
<1>6. IsBudget(r.budget) /\ Moved(r)
  BY <1>3, <1>5 DEF Moved
<1>7. run' = [o \in Runners |-> IF o = q THEN r ELSE run[o]]
  BY <1>4 DEF Adapted
<1>8. run'[q] = r /\ \A o \in Runners \ {q} : run'[o] = run[o]
  BY <1>7
<1>9. run' = [o \in Runners |-> run'[o]]
  BY <1>7
<1>10. Stored'
  BY DEF StartRun, Stored
<1>11. \A o \in Runners : run'[o].on => IsBudget(run'[o].budget) /\ Moved(run'[o])
  <2>1. SUFFICES ASSUME NEW o \in Runners, run'[o].on PROVE IsBudget(run'[o].budget) /\ Moved(run'[o])
    OBVIOUS
  <2>2. CASE o = q
    BY <1>6, <1>8, <2>2
  <2>3. CASE o # q
    BY <1>8, <2>1, <2>3 DEF Adapted
  <2> QED
    BY <2>2, <2>3
<1>12. Adapted'
  BY <1>9, <1>11 DEF Adapted
<1>13. /\ run'[q].hint = IF run'[q].advice[1] = "gateway" THEN {IdOf(Lookup)} ELSE {}
       /\ run'[q].advice[1] = "gateway" => Found /\ ~TakenBack(readable)
  BY <1>3, <1>5, <1>8
<1> QED
  BY <1>1, <1>8, <1>10, <1>12, <1>13

(* What a run leaves in the history is a record.                           *)
LEMMA RecordType ==
  ASSUME HintsAssumption, Adapted, NEW q \in Runners, run[q].on, NEW c \in Commands
  PROVE  RecordOf(q, c) \in Records
<1> DEFINE shown == IF c.fallback THEN c.raw ELSE Smaller(c.raw, run[q].budget.cap["tokens"])
           saved == IF c.raw = 0 THEN 0 ELSE ((c.raw - shown) * 100) \div c.raw
<1>1. c.raw \in Nat /\ c.fallback \in BOOLEAN /\ c.failed \in BOOLEAN
  BY DEF HintsAssumption
<1>2. run[q].budget.cap["tokens"] \in Nat
  BY DEF Adapted, IsBudget, Caps
<1>3. shown \in Nat
  BY <1>1, <1>2 DEF Smaller
<1> HIDE DEF shown
<1>4. saved \in Int
  <2> DEFINE w == (c.raw - shown) * 100
  <2>1. w \in Int
    BY <1>1, <1>3
  <2> HIDE DEF w
  <2>2. c.raw # 0 => w \div c.raw \in Int
    BY <1>1, <2>1
  <2> QED
    BY <2>2 DEF w
<1> HIDE DEF saved
<1>5. RecordOf(q, c) = [raw |-> c.raw, filtered |-> shown, bytes |-> shown * 4, saved |-> saved,
                        fallback |-> c.fallback, failed |-> c.failed]
  BY DEF RecordOf, shown, saved
<1> QED
  BY <1>1, <1>3, <1>4, <1>5 DEF Records

(* Nothing is stored or running at first.                                  *)
LEMMA StoredInit ==
  ASSUME HintsAssumption, HintsInit
  PROVE  Stored /\ Adapted
<1>1. Stored
  BY DEF HintsInit, Stored
<1>2. run = [q \in Runners |-> NoRun] /\ NoRun.on = FALSE
  BY DEF HintsInit, NoRun
<1> QED
  BY <1>1, <1>2 DEF Adapted

(* Every step keeps to it.                                                 *)
LEMMA StoredNext ==
  ASSUME HintsAssumption, Stored, Adapted, [HintsNext]_hintVars
  PROVE  Stored' /\ Adapted'
<1>1. CASE UNCHANGED hintVars
  BY <1>1 DEF hintVars, Stored, Adapted
<1>2. CASE ClockTicks
  BY <1>2 DEF ClockTicks, Stored, Adapted
<1>3. CASE Refresh
  <2>1. PICK e \in Envelopes : store' = e.hints
    BY <1>3 DEF Refresh
  <2>2. e.hints \in Seq(HintRecords)
    BY DEF HintsAssumption
  <2>3. \A i \in DOMAIN e.hints : e.hints[i] \in AllHints
    BY DEF AllHints, ToSet
  <2> QED
    BY <1>3, <2>1, <2>2, <2>3 DEF Refresh, Stored, Adapted
<1>4. ASSUME NEW q \in Runners, StartRun(q) PROVE Stored' /\ Adapted'
  BY <1>4, StartType
<1>5. ASSUME NEW q \in Runners, Finish(q) PROVE Stored' /\ Adapted'
  <2>1. run[q].on /\ run' = [run EXCEPT ![q] = NoRun] /\ store' = store
    BY <1>5 DEF Finish
  <2>2. \E c \in Commands :
          records' = IF Adaptive THEN Append(records, RecordOf(q, c)) ELSE records
    BY <1>5 DEF Finish
  <2>3. records' \in Seq(Records)
    <3>1. PICK c \in Commands :
            records' = IF Adaptive THEN Append(records, RecordOf(q, c)) ELSE records
      BY <2>2
    <3>2. RecordOf(q, c) \in Records
      BY <2>1, RecordType
    <3> QED
      BY <3>1, <3>2 DEF Stored
  <2>4. Stored'
    BY <2>1, <2>3 DEF Stored
  <2>5. run' = [o \in Runners |-> IF o = q THEN NoRun ELSE run[o]] /\ NoRun.on = FALSE
    BY <2>1 DEF Adapted, NoRun
  <2>6. Adapted'
    <3>1. run' = [o \in Runners |-> run'[o]]
      BY <2>5
    <3>2. \A o \in Runners : run'[o].on => o # q /\ run'[o] = run[o]
      BY <2>5
    <3> QED
      BY <3>1, <3>2 DEF Adapted
  <2> QED
    BY <2>4, <2>6
<1> QED
  BY <1>1, <1>2, <1>3, <1>4, <1>5 DEF HintsNext

(* The files hold hints and records, and every run keeps to the bounds of  *)
(* whoever advised it.                                                     *)
THEOREM HintsInvariant == ASSUME HintsAssumption PROVE HintsSpec => [](Stored /\ Adapted)
<1>1. HintsInit => Stored /\ Adapted
  BY StoredInit
<1>2. Stored /\ Adapted /\ [HintsNext]_hintVars => Stored' /\ Adapted'
  BY StoredNext
<1> QED
  BY <1>1, <1>2, PTL DEF HintsSpec

(* Whatever hints a gateway sends, whatever the history of the command and *)
(* however many processes run it, advice moves no cap of a budget further  *)
(* than the options of its source allow (budget_adaptation.go).            *)
THEOREM BudgetsStayCapped == ASSUME HintsAssumption PROVE HintsSpec => []AdaptationIsCapped
<1>1. Stored /\ Adapted => AdaptationIsCapped
  BY DEF Adapted, Moved, Above, Below, AdaptationIsCapped, Floor, Ceiling
<1> QED
  BY <1>1, HintsInvariant, PTL

-----------------------------------------------------------------------------
(* Hints that were taken back, where a run ends before the next starts.    *)

(* What was taken back is an issued hint, and its outcomes are still bad.  *)
TakenForCause ==
  /\ clock \in Nat /\ taken \subseteq Ids
  /\ \A i \in taken : ShouldRollback(outcomes[i])

(* A hint that was taken back is the one found for as long as it holds,    *)
(* and what is found while a run follows the gateway was not taken back.   *)
TakenStays(p) ==
  /\ \A i \in taken : i.expires > clock => Found /\ IdOf(Lookup) = i
  /\ run[p].on /\ run[p].advice[1] = "gateway" /\ Found => IdOf(Lookup) \notin taken

RollbackInv(p) == Stored /\ Adapted /\ TakenForCause /\ TakenStays(p)

(* Nothing has been taken back at first.                                   *)
LEMMA RollbackInit ==
  ASSUME HintsAssumption, NEW p, Runners = {p}, HintsInit
  PROVE  RollbackInv(p)
<1>1. clock = 1 /\ taken = {} /\ run[p] = NoRun /\ NoRun.on = FALSE
  BY DEF HintsInit, NoRun
<1> QED
  BY <1>1, StoredInit DEF RollbackInv, TakenForCause, TakenStays

(* As time passes what is found may expire, and nothing else changes.      *)
LEMMA RollbackHour ==
  ASSUME HintsAssumption, NEW p, Runners = {p}, RollbackInv(p), ClockTicks
  PROVE  TakenForCause' /\ TakenStays(p)'
<1>1. clock' = clock + 1 /\ clock \in Nat /\ clock' \in Int /\ clock <= clock' /\ store' = store
      /\ taken' = taken /\ run' = run /\ outcomes' = outcomes /\ store \in Seq(HintRecords)
  BY DEF RollbackInv, TakenForCause, Stored, ClockTicks
<1>2. TakenForCause'
  BY <1>1 DEF RollbackInv, TakenForCause, ShouldRollback
<1>3. /\ Lookup = Chosen(store, clock) /\ (Found <=> Holding(store, clock) # {})
      /\ Lookup' = Chosen(store, clock') /\ (Found' <=> Holding(store, clock') # {})
  BY <1>1 DEF Candidates, Lookup, Found, Holding, Chosen
<1>4. \A i \in Ids : i.expires \in Int
  <2>1. SUFFICES ASSUME NEW i \in Ids PROVE i.expires \in Int
    OBVIOUS
  <2>2. PICK h \in AllHints : i = IdOf(h)
    BY DEF Ids
  <2>3. PICK e \in Envelopes : \E j \in DOMAIN e.hints : h = e.hints[j]
    BY <2>2 DEF AllHints, ToSet
  <2>4. e.hints \in Seq(HintRecords)
    BY DEF HintsAssumption
  <2>5. h \in HintRecords
    BY <2>3, <2>4
  <2>6. h.expires \in Int
    BY <2>5 DEF HintRecords
  <2> QED
    BY <2>2, <2>6 DEF IdOf
<1>5. ASSUME NEW i \in taken, i.expires > clock'
      PROVE  Found' /\ IdOf(Lookup') = i /\ Found /\ IdOf(Lookup) = i
  <2>1. i.expires > clock
    BY <1>1, <1>4, <1>5 DEF RollbackInv, TakenForCause
  <2>2. Found /\ IdOf(Lookup) = i
    BY <2>1 DEF RollbackInv, TakenStays
  <2>3. Lookup.expires > clock'
    BY <1>5, <2>2 DEF IdOf
  <2> QED
    BY <1>1, <1>3, <2>2, <2>3, ChosenStays
<1>6. ASSUME run[p].on, run[p].advice[1] = "gateway", Found'
      PROVE  IdOf(Lookup') \notin taken
  <2>1. PICK k \in Holding(store, clock') : Chosen(store, clock') = store[k]
    BY <1>1, <1>3, <1>6, ChosenType
  <2>2. Lookup'.expires > clock'
    BY <1>3, <2>1 DEF Holding
  <2>3. IdOf(Lookup').expires > clock'
    BY <2>2 DEF IdOf
  <2>4. IdOf(Lookup') \in taken => Found /\ IdOf(Lookup) = IdOf(Lookup')
    BY <1>5, <2>3
  <2> QED
    BY <1>6, <2>4 DEF RollbackInv, TakenStays
<1>7. \A i \in taken' : i.expires > clock' => Found' /\ IdOf(Lookup') = i
  BY <1>1, <1>5
<1>8. run'[p].on /\ run'[p].advice[1] = "gateway" /\ Found' => IdOf(Lookup') \notin taken'
  BY <1>1, <1>6
<1> QED
  BY <1>2, <1>7, <1>8 DEF TakenStays, IdOf

(* Starting a run may take the hint found back, but then the run does not  *)
(* follow it; or it follows one that was, because the outcomes cannot be   *)
(* read, and then it is no longer counted as taken back.                   *)
LEMMA RollbackStart ==
  ASSUME HintsAssumption, NEW p, Runners = {p}, RollbackInv(p), StartRun(p)
  PROVE  TakenForCause' /\ TakenStays(p)' /\ run'[p].hint \cap taken' = {}
<1>1. clock' = clock /\ store' = store /\ outcomes' = outcomes
  BY DEF StartRun
<1>2. Lookup' = Lookup /\ Found' = Found
  BY <1>1 DEF Candidates, Lookup, Found
<1>3. PICK readable \in BOOLEAN :
        /\ run'[p].advice[1] = "gateway" => Found /\ ~TakenBack(readable)
        /\ taken' = IF TakenBack(readable) THEN taken \cup {IdOf(Lookup)}
                    ELSE IF readable THEN taken
                    ELSE taken \ run'[p].hint
  BY StartType DEF RollbackInv
<1>4. run'[p].hint = IF run'[p].advice[1] = "gateway" THEN {IdOf(Lookup)} ELSE {}
  BY StartType DEF RollbackInv
<1>5. TakenForCause'
  <2>1. TakenBack(readable) => IdOf(Lookup) \in Ids /\ ShouldRollback(outcomes[IdOf(Lookup)])
    BY LookupType DEF RollbackInv, TakenBack
  <2>2. taken' \subseteq Ids /\ \A i \in taken' : ShouldRollback(outcomes[i])
    BY <1>3, <2>1 DEF RollbackInv, TakenForCause
  <2> QED
    BY <1>1, <2>2 DEF RollbackInv, TakenForCause, ShouldRollback
<1>6. \A i \in taken : ShouldRollback(outcomes[i])
  BY DEF RollbackInv, TakenForCause
<1>7. run'[p].advice[1] = "gateway" => IdOf(Lookup) \notin taken'
  <2>1. SUFFICES ASSUME run'[p].advice[1] = "gateway" PROVE IdOf(Lookup) \notin taken'
    OBVIOUS
  <2>2. Found /\ ~TakenBack(readable) /\ run'[p].hint = {IdOf(Lookup)}
    BY <1>3, <1>4, <2>1
  <2>3. readable => IdOf(Lookup) \notin taken
    BY <1>6, <2>2 DEF TakenBack
  <2> QED
    BY <1>3, <2>2, <2>3
<1>8. \A i \in taken' : i.expires > clock => Found /\ IdOf(Lookup) = i
  <2>1. TakenBack(readable) => Found
    BY DEF TakenBack
  <2> QED
    BY <1>3, <2>1 DEF RollbackInv, TakenStays
<1>9. TakenStays(p)'
  BY <1>1, <1>2, <1>7, <1>8 DEF TakenStays, IdOf
<1> QED
  BY <1>4, <1>5, <1>7, <1>9

(* The outcome of a run is recorded for the hint that is found when it     *)
(* ends, which was not taken back.                                         *)
LEMMA RollbackFinish ==
  ASSUME HintsAssumption, NEW p, Runners = {p}, RollbackInv(p), Finish(p)
  PROVE  TakenForCause' /\ TakenStays(p)'
<1>1. /\ run[p].on /\ run' = [run EXCEPT ![p] = NoRun]
      /\ clock' = clock /\ store' = store /\ taken' = taken
      /\ \E harmful \in BOOLEAN : RecordOutcome(p, harmful)
  <2>1. PICK c \in Commands, repaired \in BOOLEAN : RecordOutcome(p, c.fallback \/ repaired)
    BY DEF Finish
  <2> QED
    BY <2>1 DEF Finish
<1>2. PICK harmful \in BOOLEAN :
        outcomes' = Noted(outcomes, IF run[p].advice[1] = "gateway" /\ Found
                                    THEN {IdOf(Lookup)} ELSE {}, harmful)
  BY <1>1 DEF RecordOutcome
<1>3. \A i \in taken : i \in Ids /\ ~(run[p].advice[1] = "gateway" /\ Found /\ IdOf(Lookup) = i)
  BY <1>1 DEF RollbackInv, TakenForCause, TakenStays
<1>4. \A i \in taken : outcomes'[i] = outcomes[i]
  BY <1>2, <1>3 DEF Noted
<1>5. TakenForCause'
  BY <1>1, <1>4 DEF RollbackInv, TakenForCause, ShouldRollback
<1>6. Lookup' = Lookup /\ Found' = Found
  BY <1>1 DEF Candidates, Lookup, Found
<1>7. ~run'[p].on
  <2>1. run'[p] = NoRun
    BY <1>1 DEF RollbackInv, Adapted
  <2> QED
    BY <2>1 DEF NoRun
<1> QED
  BY <1>1, <1>5, <1>6, <1>7 DEF RollbackInv, TakenStays, IdOf

(* Every step keeps it, and no step starts a run with such a hint.         *)
LEMMA RollbackNext ==
  ASSUME HintsAssumption, NEW p, Runners = {p}, RollbackInv(p), [HintsNext]_hintVars
  PROVE  /\ RollbackInv(p)'
         /\ run'[p].on /\ ~run[p].on => run'[p].hint \cap taken' = {}
<1>1. Stored' /\ Adapted'
  BY StoredNext DEF RollbackInv
<1>2. CASE UNCHANGED hintVars
  <2>1. TakenForCause' /\ TakenStays(p)' /\ run' = run
    BY <1>2 DEF RollbackInv, hintVars, TakenForCause, TakenStays, Found, Candidates, Lookup, ShouldRollback, IdOf
  <2> QED
    BY <1>1, <2>1 DEF RollbackInv
<1>3. CASE ClockTicks
  <2>1. run' = run
    BY <1>3 DEF ClockTicks
  <2> QED
    BY <1>1, <1>3, <2>1, RollbackHour DEF RollbackInv
<1>4. CASE Refresh
  <2>1. run' = run /\ taken' = {} /\ clock' = clock
    BY <1>4 DEF Refresh
  <2>2. TakenForCause' /\ TakenStays(p)'
    BY <2>1 DEF RollbackInv, TakenForCause, TakenStays
  <2> QED
    BY <1>1, <2>1, <2>2 DEF RollbackInv
<1>5. CASE StartRun(p)
  BY <1>1, <1>5, RollbackStart DEF RollbackInv
<1>6. CASE Finish(p)
  <2>1. ~(~run[p].on)
    BY <1>6 DEF Finish
  <2> QED
    BY <1>1, <1>6, <2>1, RollbackFinish DEF RollbackInv
<1> QED
  BY <1>2, <1>3, <1>4, <1>5, <1>6 DEF HintsNext

(* As long as the runs of the command follow one another, a hint that was  *)
(* found harmful is not applied again until another refresh installs       *)
(* hints or the outcomes cannot be read, whatever the gateway sent, however *)
(* long the runs take and whatever becomes of them                         *)
(* (gateway_budget_hints.go, shouldRollback).                              *)
THEOREM HintsTakenBackStay ==
  ASSUME HintsAssumption, NEW CONSTANT only, Runners = {only}
  PROVE  HintsSpec => RollbackSticks
<1>1. HintsInit => RollbackInv(only)
  BY RollbackInit
<1>2. RollbackInv(only) /\ [HintsNext]_hintVars => RollbackInv(only)'
  BY RollbackNext
<1>3. RollbackInv(only) /\ [HintsNext]_hintVars => [StartsWithoutTaken]_hintVars
  BY RollbackNext DEF StartsWithoutTaken
<1> QED
  BY <1>1, <1>2, <1>3, PTL DEF HintsSpec, RollbackSticks

-----------------------------------------------------------------------------
(* Command lines: walks past wrappers and their options.                   *)

SzrStops(argv, s) ==
  {k \in 1 .. Len(argv) : ~ (argv[k] \in Skipped(argv[s]))
                          /\ ~ (argv[k] \in Valued(argv[s], k - s) /\ k < Len(argv))}
SzrNext(argv, s) ==
  [k \in 1 .. Len(argv) |-> IF argv[k] \in Skipped(argv[s]) THEN k + 1 ELSE k + 2]
SzrEnd(argv, s, k) == WalkEnd(Len(argv), SzrStops(argv, s), SzrNext(argv, s), k)

OwnStops(argv, s) ==
  {k \in 1 .. Len(argv) : argv[k] \notin FlagsOf(argv[s]) \cup ValuedOf(argv[s])}
OwnNext(argv, s) ==
  [k \in 1 .. Len(argv) |-> IF argv[k] \in FlagsOf(argv[s]) \/ k = Len(argv) THEN k + 1 ELSE k + 2]
OwnEnd(argv, s, k) == WalkEnd(Len(argv), OwnStops(argv, s), OwnNext(argv, s), k)

AssignStops(argv) == {k \in DOMAIN argv : argv[k] \notin Assignments}
AssignNext(argv) == [k \in DOMAIN argv |-> k + 1]

(* Where the wrapper at s itself looks for its command.                    *)
Behind(argv, s) ==
  IF argv[s] = "env" THEN PastAssignments(argv, OptionsEnd(argv, s)) ELSE OptionsEnd(argv, s)

NoReading == Dashed \cup Assignments
Stripped == {"env", "command", "nice", "time"}

(* The walks past assignments.                                             *)
LEMMA PastAssignmentsType ==
  ASSUME NEW argv \in Seq(STRING), NEW k \in 1 .. Len(argv) + 1
  PROVE  /\ PastAssignments(argv, k) \in k .. Len(argv) + 1
         /\ PastAssignments(argv, k) <= Len(argv) =>
              argv[PastAssignments(argv, k)] \notin Assignments
         /\ PastAssignments(argv, k) =
              IF k > Len(argv) \/ argv[k] \notin Assignments THEN k ELSE PastAssignments(argv, k + 1)
<1> DEFINE n == Len(argv)
           S == AssignStops(argv)
           N == AssignNext(argv)
<1>1. n \in Nat /\ DOMAIN argv = 1 .. n
  OBVIOUS
<1>2. Ahead(n, S, N)
  BY <1>1 DEF Ahead, AssignStops, AssignNext
<1>3. \A i : PastAssignments(argv, i) = WalkEnd(n, S, N, i)
  BY DEF PastAssignments, AssignStops, AssignNext
<1>4. \A i \in 1 .. n : (i \in S <=> argv[i] \notin Assignments) /\ N[i] = i + 1
  BY <1>1 DEF AssignStops, AssignNext
<1>5. S \subseteq 1 .. n
  BY <1>1 DEF AssignStops
<1> HIDE DEF n, S, N
<1>6. k \in 1 .. n + 1
  BY DEF n
<1>7. WalkEnd(n, S, N, k) \in k .. n + 1
      /\ (WalkEnd(n, S, N, k) > n \/ WalkEnd(n, S, N, k) \in S)
  BY <1>1, <1>2, <1>6, WalkEndType
<1>8. WalkEnd(n, S, N, k) = IF k > n \/ k \in S THEN k ELSE WalkEnd(n, S, N, N[k])
  BY <1>1, <1>2, <1>6, WalkEndStep
<1>9. PastAssignments(argv, k) <= n => argv[PastAssignments(argv, k)] \notin Assignments
  <2> DEFINE e == WalkEnd(n, S, N, k)
  <2>1. e \in k .. n + 1 /\ (e > n \/ e \in S)
    BY <1>7
  <2> HIDE DEF e
  <2>2. e <= n => argv[e] \notin Assignments
    BY <1>1, <1>4, <1>5, <1>6, <2>1
  <2> QED
    BY <1>3, <2>2 DEF e
<1>10. k <= n => N[k] = k + 1 /\ (k \in S <=> argv[k] \notin Assignments)
  BY <1>1, <1>4, <1>6
<1>11. PastAssignments(argv, k) =
         IF k > n \/ argv[k] \notin Assignments THEN k ELSE PastAssignments(argv, k + 1)
  BY <1>1, <1>3, <1>6, <1>8, <1>10
<1> QED
  BY <1>3, <1>7, <1>9, <1>11 DEF n

(* The walk of a wrapper past its own options.                             *)
LEMMA OwnEndType ==
  ASSUME NEW argv \in Seq(STRING), NEW s \in 1 .. Len(argv), NEW k \in 1 .. Len(argv) + 1
  PROVE  /\ OwnEnd(argv, s, k) \in k .. Len(argv) + 1
         /\ OwnEnd(argv, s, k) > Len(argv) \/ OwnEnd(argv, s, k) \in OwnStops(argv, s)
         /\ OwnEnd(argv, s, k) =
              IF k > Len(argv) \/ k \in OwnStops(argv, s) THEN k
              ELSE OwnEnd(argv, s, OwnNext(argv, s)[k])
         /\ Ahead(Len(argv), OwnStops(argv, s), OwnNext(argv, s))
<1> DEFINE n == Len(argv)
           S == OwnStops(argv, s)
           N == OwnNext(argv, s)
<1>1. n \in Nat
  OBVIOUS
<1>2. Ahead(n, S, N)
  <2> SUFFICES ASSUME NEW i \in (1 .. n) \ S PROVE N[i] \in i + 1 .. n + 1
    BY DEF Ahead
  <2>1. N[i] = IF argv[i] \in FlagsOf(argv[s]) \/ i = n THEN i + 1 ELSE i + 2
    BY DEF OwnNext
  <2> HIDE DEF N
  <2> QED
    BY <1>1, <2>1
<1> HIDE DEF S, N, n
<1>3. k \in 1 .. n + 1
  BY DEF n
<1>4. WalkEnd(n, S, N, k) \in k .. n + 1
      /\ (WalkEnd(n, S, N, k) > n \/ WalkEnd(n, S, N, k) \in S)
  BY <1>1, <1>2, <1>3, WalkEndType
<1>5. WalkEnd(n, S, N, k) = IF k > n \/ k \in S THEN k ELSE WalkEnd(n, S, N, N[k])
  BY <1>1, <1>2, <1>3, WalkEndStep
<1>6. \A i : OwnEnd(argv, s, i) = WalkEnd(n, S, N, i)
  BY DEF OwnEnd, n, S, N
<1>7. OwnEnd(argv, s, k) = IF k > n \/ k \in S THEN k ELSE OwnEnd(argv, s, N[k])
  BY <1>5, <1>6
<1> QED
  BY <1>2, <1>4, <1>6, <1>7 DEF n, S, N

(* The walk of szr past the options of a wrapper.                          *)
LEMMA SzrAhead ==
  ASSUME NEW argv \in Seq(STRING), NEW s \in 1 .. Len(argv)
  PROVE  Ahead(Len(argv), SzrStops(argv, s), SzrNext(argv, s))
<1> SUFFICES ASSUME NEW i \in (1 .. Len(argv)) \ SzrStops(argv, s)
             PROVE  SzrNext(argv, s)[i] \in i + 1 .. Len(argv) + 1
  BY DEF Ahead
<1>1. SzrNext(argv, s)[i] = IF argv[i] \in Skipped(argv[s]) THEN i + 1 ELSE i + 2
  BY DEF SzrNext
<1>2. argv[i] \notin Skipped(argv[s]) => i < Len(argv)
  BY DEF SzrStops
<1>3. i \in 1 .. Len(argv) /\ Len(argv) \in Nat
  OBVIOUS
<1> QED
  BY <1>1, <1>2, <1>3

(* How the two walks compare at one word, for the wrappers szr strips.     *)
LEMMA OptionsAgree ==
  ASSUME LinesAssumption, NEW argv \in Seq(STRING), NEW s \in 1 .. Len(argv),
         argv[s] \in Stripped, NEW k \in s + 1 .. Len(argv)
  PROVE  /\ k \notin SzrStops(argv, s) /\ k \notin OwnStops(argv, s) =>
              SzrNext(argv, s)[k] = OwnNext(argv, s)[k]
         /\ k \notin SzrStops(argv, s) /\ k \in OwnStops(argv, s) =>
              argv[s] = "env" /\ argv[k] \in Assignments /\ SzrNext(argv, s)[k] = k + 1
         /\ k \notin SzrStops(argv, s) /\ argv[k] \notin Assignments => argv[k] \in Dashed
         /\ k \in SzrStops(argv, s) /\ k \notin OwnStops(argv, s) => argv[k] \in Dashed
         /\ k \in SzrStops(argv, s) /\ argv[s] = "env" => argv[k] \notin Assignments
         /\ argv[k] \in Valued(argv[s], k - s) => argv[k] \in Dashed
<1> DEFINE w == argv[s]
           x == argv[k]
           n == Len(argv)
<1>1. k \in 1 .. n /\ n \in Nat /\ s \in Nat /\ k \in Nat
  OBVIOUS
<1>2. /\ k \in SzrStops(argv, s) <=> x \notin Skipped(w) /\ ~ (x \in Valued(w, k - s) /\ k < n)
      /\ k \in OwnStops(argv, s) <=> x \notin FlagsOf(w) \cup ValuedOf(w)
      /\ SzrNext(argv, s)[k] = IF x \in Skipped(w) THEN k + 1 ELSE k + 2
      /\ OwnNext(argv, s)[k] = IF x \in FlagsOf(w) \/ k = n THEN k + 1 ELSE k + 2
  BY <1>1 DEF SzrStops, OwnStops, SzrNext, OwnNext
<1>3. Options \subseteq Dashed \ Assignments
  BY DEF LinesAssumption
<1> HIDE DEF w, x, n
<1>4. CASE w = "env"
  <2>1. Skipped(w) = Assignments \cup {"-uX"} /\ Valued(w, k - s) = {"-u"}
        /\ FlagsOf(w) = {"-i", "-uX"} /\ ValuedOf(w) = {"-u"}
    BY <1>4 DEF Skipped, Valued, FlagsOf, ValuedOf
  <2> QED
    BY <1>1, <1>2, <1>3, <1>4, <2>1 DEF Options, w, x, n
<1>5. CASE w = "command"
  <2>1. Skipped(w) = {"-p"} /\ Valued(w, k - s) = {} /\ FlagsOf(w) = {"-p"} /\ ValuedOf(w) = {}
    BY <1>5 DEF Skipped, Valued, FlagsOf, ValuedOf
  <2> QED
    BY <1>1, <1>2, <1>3, <1>5, <2>1 DEF Options, w, x, n
<1>6. CASE w = "nice"
  <2>1. Skipped(w) = {} /\ Valued(w, k - s) \subseteq {"-n"} /\ FlagsOf(w) = {} /\ ValuedOf(w) = {"-n"}
    BY <1>6 DEF Skipped, Valued, FlagsOf, ValuedOf
  <2> QED
    BY <1>1, <1>2, <1>3, <1>6, <2>1 DEF Options, w, x, n
<1>7. CASE w = "time"
  <2>1. Skipped(w) = {} /\ Valued(w, k - s) = {} /\ FlagsOf(w) = {"-p"} /\ ValuedOf(w) = {}
    BY <1>7 DEF Skipped, Valued, FlagsOf, ValuedOf
  <2> QED
    BY <1>1, <1>2, <1>3, <1>7, <2>1 DEF Options, w, x, n
<1> QED
  BY <1>4, <1>5, <1>6, <1>7 DEF w, Stripped

(* What szr's walk has passed is what the wrapper has passed, or words the *)
(* wrapper refuses.  k is a place of the walk: the wrapper's own walk from *)
(* there ends at e, or, for env, all is assignments from e on up to it.    *)
Passed(argv, s, k) ==
  LET e == OptionsEnd(argv, s)
  IN  \/ OwnEnd(argv, s, k) = e
      \/ /\ k \in e .. Behind(argv, s)
         /\ argv[s] = "env" => PastAssignments(argv, k) = Behind(argv, s)
         /\ argv[s] # "env" => k = e

(* Where a wrapper looks for its command.                                  *)
LEMMA BehindType ==
  ASSUME NEW argv \in Seq(STRING), NEW s \in 1 .. Len(argv)
  PROVE  /\ OptionsEnd(argv, s) = OwnEnd(argv, s, s + 1)
         /\ OptionsEnd(argv, s) \in s + 1 .. Len(argv) + 1
         /\ Behind(argv, s) \in OptionsEnd(argv, s) .. Len(argv) + 1
         /\ Behind(argv, s) \in s + 1 .. Len(argv) + 1
         /\ OptionsEnd(argv, s) > Len(argv) \/ OptionsEnd(argv, s) \in OwnStops(argv, s)
<1>1. OptionsEnd(argv, s) = OwnEnd(argv, s, s + 1)
  BY DEF OptionsEnd, OwnEnd, OwnStops, OwnNext
<1>2. s + 1 \in 1 .. Len(argv) + 1 /\ Len(argv) \in Nat /\ s \in Nat
  OBVIOUS
<1> DEFINE e == OptionsEnd(argv, s)
<1>3. e \in s + 1 .. Len(argv) + 1 /\ (e > Len(argv) \/ e \in OwnStops(argv, s))
  BY <1>1, <1>2, OwnEndType
<1> HIDE DEF e
<1>4. e \in 1 .. Len(argv) + 1
  BY <1>2, <1>3
<1>5. PastAssignments(argv, e) \in e .. Len(argv) + 1
  BY <1>4, PastAssignmentsType
<1>6. Behind(argv, s) = IF argv[s] = "env" THEN PastAssignments(argv, e) ELSE e
  BY DEF Behind, e
<1> DEFINE b == Behind(argv, s)
<1>7. b \in e .. Len(argv) + 1
  BY <1>2, <1>3, <1>5, <1>6
<1> HIDE DEF b
<1>8. b \in s + 1 .. Len(argv) + 1
  BY <1>2, <1>3, <1>7
<1> QED
  BY <1>1, <1>3, <1>7, <1>8 DEF e, b

(* A step of szr's walk from a place it has passed comes to another one,   *)
(* unless the wrapper refuses its command.                                 *)
LEMMA PassedStep ==
  ASSUME LinesAssumption, NEW argv \in Seq(STRING), NEW s \in 1 .. Len(argv),
         argv[s] \in Stripped,
         Behind(argv, s) <= Len(argv) => argv[Behind(argv, s)] \notin NoReading,
         NEW k \in s + 1 .. Len(argv), k \notin SzrStops(argv, s), Passed(argv, s, k)
  PROVE  Passed(argv, s, SzrNext(argv, s)[k])
<1> DEFINE e == OptionsEnd(argv, s)
           b == Behind(argv, s)
           m == SzrNext(argv, s)[k]
<1>1. /\ e \in s + 1 .. Len(argv) + 1 /\ b \in e .. Len(argv) + 1
      /\ Len(argv) \in Nat /\ s \in Nat /\ k \in 1 .. Len(argv) + 1 /\ ~ (k > Len(argv))
  BY BehindType
<1>2. b = IF argv[s] = "env" THEN PastAssignments(argv, e) ELSE e
  BY DEF Behind
<1>3. OwnEnd(argv, s, k) = IF k \in OwnStops(argv, s) THEN k
                           ELSE OwnEnd(argv, s, OwnNext(argv, s)[k])
  <2>1. k \in 1 .. Len(argv) + 1 /\ ~ (k > Len(argv))
    BY <1>1
  <2>2. OwnEnd(argv, s, k) =
          IF k > Len(argv) \/ k \in OwnStops(argv, s) THEN k
          ELSE OwnEnd(argv, s, OwnNext(argv, s)[k])
    BY <2>1, OwnEndType
  <2> QED
    BY <2>1, <2>2
<1>4. /\ k \notin OwnStops(argv, s) => m = OwnNext(argv, s)[k]
      /\ k \in OwnStops(argv, s) => argv[s] = "env" /\ argv[k] \in Assignments /\ m = k + 1
      /\ argv[k] \notin Assignments => argv[k] \in Dashed
  BY OptionsAgree
<1>5. b <= Len(argv) => argv[b] \notin NoReading
  OBVIOUS
<1>6. PastAssignments(argv, k) =
        IF argv[k] \notin Assignments THEN k ELSE PastAssignments(argv, k + 1)
  BY <1>1, PastAssignmentsType
<1>7. k + 1 \in 1 .. Len(argv) + 1 /\ PastAssignments(argv, k + 1) \in k + 1 .. Len(argv) + 1
  <2>1. k + 1 \in 1 .. Len(argv) + 1
    BY <1>1
  <2> QED
    BY <2>1, PastAssignmentsType
<1>8. Passed(argv, s, k) <=> \/ OwnEnd(argv, s, k) = e
                             \/ /\ k \in e .. b
                                /\ argv[s] = "env" => PastAssignments(argv, k) = b
                                /\ argv[s] # "env" => k = e
  BY DEF Passed
<1>9. Passed(argv, s, m) <=> \/ OwnEnd(argv, s, m) = e
                             \/ /\ m \in e .. b
                                /\ argv[s] = "env" => PastAssignments(argv, m) = b
                                /\ argv[s] # "env" => m = e
  BY DEF Passed
<1> HIDE DEF e, b, m
<1>10. CASE k \notin OwnStops(argv, s) /\ OwnEnd(argv, s, k) = e
  <2>1. OwnEnd(argv, s, k) = OwnEnd(argv, s, OwnNext(argv, s)[k]) /\ m = OwnNext(argv, s)[k]
    BY <1>3, <1>4, <1>10
  <2>2. OwnEnd(argv, s, m) = e
    BY <1>10, <2>1
  <2> QED
    BY <1>9, <2>2 DEF m
<1>11. CASE k \in e .. b /\ argv[s] = "env" /\ PastAssignments(argv, k) = b
  <2>1. CASE argv[k] \in Assignments
    <3>1. PastAssignments(argv, k + 1) = b /\ b >= k + 1 /\ k + 1 \in e .. b
      BY <1>1, <1>6, <1>7, <1>11, <2>1
    <3>2. CASE k \in OwnStops(argv, s)
      <4>1. m = k + 1 /\ argv[s] = "env"
        BY <1>4, <3>2
      <4>2. m \in e .. b /\ PastAssignments(argv, m) = b
        BY <3>1, <4>1
      <4> QED
        BY <1>9, <4>1, <4>2 DEF m
    <3>3. CASE k \notin OwnStops(argv, s)
      <4>1. argv[k] \in Options
        BY <1>1, <1>11, <3>3 DEF OwnStops, FlagsOf, ValuedOf, Options
      <4> QED
        BY <2>1, <4>1 DEF LinesAssumption
    <3> QED
      BY <3>2, <3>3
  <2>2. CASE argv[k] \notin Assignments
    <3>1. k = b /\ argv[b] \in Dashed /\ b <= Len(argv)
      BY <1>1, <1>4, <1>6, <1>11, <2>2
    <3> QED
      BY <1>5, <3>1 DEF NoReading
  <2> QED
    BY <2>1, <2>2
<1>12. CASE k \in OwnStops(argv, s) /\ OwnEnd(argv, s, k) = e
  <2>1. k = e /\ argv[s] = "env"
    BY <1>3, <1>4, <1>12
  <2>2. PastAssignments(argv, k) = b /\ k \in e .. b
    BY <1>1, <1>2, <2>1
  <2> QED
    BY <1>11, <2>1, <2>2
<1>13. CASE argv[s] # "env" /\ k = e
  <2>1. OwnEnd(argv, s, k) = e
    <3>1. e > Len(argv) \/ e \in OwnStops(argv, s)
      BY BehindType DEF e
    <3> QED
      BY <1>1, <1>3, <1>13, <3>1
  <2> QED
    BY <1>10, <1>12, <2>1
<1> QED
  BY <1>8, <1>10, <1>11, <1>12, <1>13 DEF m

(* Where szr's walk ends.                                                  *)
LEMMA SzrEndPassed ==
  ASSUME LinesAssumption, NEW argv \in Seq(STRING), NEW s \in 1 .. Len(argv),
         argv[s] \in Stripped,
         Behind(argv, s) <= Len(argv) => argv[Behind(argv, s)] \notin NoReading
  PROVE  LET z == SzrEnd(argv, s, s + 1)
         IN  /\ z \in s + 1 .. Len(argv) + 1
             /\ z > Len(argv) \/ z \in SzrStops(argv, s)
             /\ Passed(argv, s, z)
             /\ Operand(argv, s) =
                  IF z <= Len(argv) /\ (argv[z] \in Valued(argv[s], z - s) \/ argv[z] \in Dashed)
                  THEN 0 ELSE z
<1> DEFINE n == Len(argv)
           S == SzrStops(argv, s)
           N == SzrNext(argv, s)
           P == {k \in s + 1 .. n + 1 : Passed(argv, s, k)}
           z == SzrEnd(argv, s, s + 1)
<1>1. n \in Nat /\ s \in Nat /\ s + 1 \in s + 1 .. n + 1 /\ s + 1 .. n + 1 \subseteq 1 .. n + 1
  OBVIOUS
<1>2. Ahead(n, S, N)
  BY SzrAhead
<1>3. Passed(argv, s, s + 1)
  BY BehindType DEF Passed
<1>4. z = WalkEnd(n, S, N, s + 1)
  BY DEF SzrEnd
<1>5. Operand(argv, s) =
        IF z <= n /\ (argv[z] \in Valued(argv[s], z - s) \/ argv[z] \in Dashed) THEN 0 ELSE z
  BY DEF Operand, SzrEnd, SzrStops, SzrNext
<1>6. ASSUME NEW k \in P, k <= n, k \notin S PROVE N[k] \in P
  <2>1. k \in s + 1 .. n /\ Passed(argv, s, k) /\ k \in 1 .. n + 1
    BY <1>1, <1>6
  <2>2. Passed(argv, s, N[k])
    BY <1>6, <2>1, PassedStep
  <2>3. N[k] \in 1 .. n + 1 /\ N[k] > k
    <3> HIDE DEF S, N, n, P
    <3> QED BY <1>1, <1>2, <1>6, <2>1, AheadType
  <2> DEFINE x == N[k]
  <2> HIDE DEF x
  <2>4. x \in 1 .. n + 1 /\ x > k => x \in s + 1 .. n + 1
    BY <1>1, <2>1
  <2> QED
    BY <2>2, <2>3, <2>4 DEF x
<1>7. P \in SUBSET (1 .. n + 1) /\ s + 1 \in P
  BY <1>1, <1>3
<1>8. WalkEnd(n, S, N, s + 1) \in P
      /\ (WalkEnd(n, S, N, s + 1) > n \/ WalkEnd(n, S, N, s + 1) \in S)
  <2> HIDE DEF S, N, n, P
  <2> QED BY <1>1, <1>2, <1>6, <1>7, WalkStays
<1> HIDE DEF z
<1>9. z \in s + 1 .. n + 1 /\ Passed(argv, s, z) /\ (z > n \/ z \in S)
  BY <1>4, <1>8
<1> QED
  BY <1>5, <1>9 DEF z

(* Where szr finds a command, it is the one the wrapper runs.              *)
LEMMA OperandAgrees ==
  ASSUME LinesAssumption, NEW argv \in Seq(STRING), NEW s \in 1 .. Len(argv),
         argv[s] \in Stripped,
         Behind(argv, s) <= Len(argv) => argv[Behind(argv, s)] \notin NoReading,
         Operand(argv, s) # 0
  PROVE  Operand(argv, s) = Behind(argv, s)
<1> DEFINE n == Len(argv)
           e == OptionsEnd(argv, s)
           b == Behind(argv, s)
           z == SzrEnd(argv, s, s + 1)
<1>1. /\ z \in s + 1 .. n + 1 /\ (z > n \/ z \in SzrStops(argv, s)) /\ Passed(argv, s, z)
      /\ Operand(argv, s) = IF z <= n /\ (argv[z] \in Valued(argv[s], z - s) \/ argv[z] \in Dashed)
                            THEN 0 ELSE z
  BY SzrEndPassed
<1>2. e \in s + 1 .. n + 1 /\ b \in e .. n + 1
  BY BehindType
<1>3. b = IF argv[s] = "env" THEN PastAssignments(argv, e) ELSE e
  BY DEF Behind
<1>4. n \in Nat /\ s \in Nat
  OBVIOUS
<1>5. Passed(argv, s, z) => \/ OwnEnd(argv, s, z) = e
                            \/ /\ z \in e .. b
                               /\ argv[s] = "env" => PastAssignments(argv, z) = b
                               /\ argv[s] # "env" => z = e
  BY DEF Passed
<1> HIDE DEF e, b, z, n
<1>6. z \in 1 .. n + 1 /\ z \in Nat
  BY <1>1, <1>4
<1>7. OwnEnd(argv, s, z) = IF z > n \/ z \in OwnStops(argv, s) THEN z
                           ELSE OwnEnd(argv, s, OwnNext(argv, s)[z])
  BY <1>6, OwnEndType DEF n
<1>8. PastAssignments(argv, z) =
        IF z > n \/ argv[z] \notin Assignments THEN z ELSE PastAssignments(argv, z + 1)
  BY <1>6, PastAssignmentsType DEF n
<1>9. z > n \/ (z \in OwnStops(argv, s) /\ (argv[s] = "env" => argv[z] \notin Assignments))
  <2> SUFFICES ASSUME ~ (z > n)
               PROVE  z \in OwnStops(argv, s) /\ (argv[s] = "env" => argv[z] \notin Assignments)
    OBVIOUS
  <2>1. z \in s + 1 .. Len(argv)
    BY <1>1, <1>4, <1>6 DEF n
  <2>2. argv[z] \notin Dashed /\ z \in SzrStops(argv, s)
    BY <1>1, <1>4, <1>6
  <2> QED
    BY <2>1, <2>2, OptionsAgree
<1>10. OwnEnd(argv, s, z) = z
  BY <1>7, <1>9
<1>11. z \in e .. b /\ (argv[s] = "env" => PastAssignments(argv, z) = b) /\ (argv[s] # "env" => z = e)
  <2>1. CASE OwnEnd(argv, s, z) = e
    BY <1>2, <1>3, <1>4, <1>10, <2>1
  <2> QED
    BY <1>1, <1>5, <2>1
<1>12. z = b
  BY <1>3, <1>8, <1>9, <1>11
<1>13. Operand(argv, s) = z
  BY <1>1
<1> QED
  BY <1>12, <1>13 DEF b

(* szr takes one priority of nice, the first.                              *)
LEMMA NicePlaces ==
  ASSUME NEW argv \in Seq(STRING), NEW s \in 1 .. Len(argv), argv[s] = "nice"
  PROVE  \/ SzrEnd(argv, s, s + 1) = s + 1
         \/ SzrEnd(argv, s, s + 1) = s + 3 /\ argv[s + 1] = "-n"
<1> DEFINE n == Len(argv)
           S == SzrStops(argv, s)
           N == SzrNext(argv, s)
           P == {k \in 1 .. n + 1 : k = s + 1 \/ (k = s + 3 /\ argv[s + 1] = "-n")}
<1>1. n \in Nat /\ s \in Nat /\ s \in 1 .. n
  OBVIOUS
<1>2. Ahead(n, S, N)
  BY SzrAhead
<1>3. P \in SUBSET (1 .. n + 1) /\ s + 1 \in P
  BY <1>1
<1>4. ASSUME NEW k \in P, k <= n, k \notin S PROVE N[k] \in P
  <2>1. k \in 1 .. n /\ k \in Nat
    BY <1>1, <1>4
  <2>2. argv[k] \in Skipped(argv[s]) \/ (argv[k] \in Valued(argv[s], k - s) /\ k < n)
    BY <1>4, <2>1 DEF SzrStops
  <2>3. Skipped(argv[s]) = {} /\ Valued(argv[s], k - s) = IF k - s = 1 THEN {"-n"} ELSE {}
    BY DEF Skipped, Valued
  <2>4. k = s + 1 /\ argv[k] = "-n" /\ k < n
    BY <1>1, <2>1, <2>2, <2>3
  <2>5. N[k] = k + 2
    BY <2>1, <2>3 DEF SzrNext
  <2>6. k + 2 = s + 3 /\ k + 2 \in 1 .. n + 1
    BY <1>1, <2>1, <2>4
  <2> HIDE DEF N
  <2> QED
    BY <2>4, <2>5, <2>6
<1>5. WalkEnd(n, S, N, s + 1) \in P
  <2> HIDE DEF S, N, n, P
  <2> QED BY <1>1, <1>2, <1>3, <1>4, WalkStays
<1> QED
  BY <1>5 DEF SzrEnd

(* szr finds the command of a wrapper, unless an option in front of it is  *)
(* one it leaves alone.                                                    *)
LEMMA OperandFound ==
  ASSUME LinesAssumption, NEW argv \in Seq(STRING), NEW s \in 1 .. Len(argv),
         argv[s] \in Stripped,
         Behind(argv, s) <= Len(argv), argv[Behind(argv, s)] \notin NoReading,
         \A i \in s .. Behind(argv, s) - 1 : ~LeftAlone(argv, i)
  PROVE  Operand(argv, s) = Behind(argv, s)
<1> DEFINE n == Len(argv)
           e == OptionsEnd(argv, s)
           b == Behind(argv, s)
           z == SzrEnd(argv, s, s + 1)
           x == argv[z]
           w == argv[s]
<1>1. /\ z \in s + 1 .. n + 1 /\ (z > n \/ z \in SzrStops(argv, s)) /\ Passed(argv, s, z)
      /\ Operand(argv, s) = IF z <= n /\ (x \in Valued(w, z - s) \/ x \in Dashed) THEN 0 ELSE z
  BY SzrEndPassed
<1>2. SUFFICES ASSUME Operand(argv, s) = 0 PROVE FALSE
  BY OperandAgrees
<1>3. e \in s + 1 .. n + 1 /\ b \in e .. n + 1 /\ (e > n \/ e \in OwnStops(argv, s))
      /\ b <= n /\ argv[b] \notin NoReading
  BY BehindType
<1>4. b = IF w = "env" THEN PastAssignments(argv, e) ELSE e
  BY DEF Behind
<1>5. n \in Nat /\ s \in Nat /\ s > 0
  OBVIOUS
<1>6. Passed(argv, s, z) => \/ OwnEnd(argv, s, z) = e
                            \/ /\ z \in e .. b
                               /\ w = "env" => PastAssignments(argv, z) = b
                               /\ w # "env" => z = e
  BY DEF Passed
<1>7. \A i \in s .. b - 1 : ~LeftAlone(argv, i)
  OBVIOUS
<1>8. w = "nice" => z = s + 1 \/ (z = s + 3 /\ argv[s + 1] = "-n")
  BY NicePlaces
<1> HIDE DEF e, b, z, n
<1>9. z \in 1 .. n + 1 /\ z \in Nat
  BY <1>1, <1>5
<1>10. z <= n /\ z \in SzrStops(argv, s) /\ z \in s + 1 .. n
  BY <1>1, <1>2, <1>5, <1>9
<1>11. OwnEnd(argv, s, z) = IF z \in OwnStops(argv, s) THEN z
                            ELSE OwnEnd(argv, s, OwnNext(argv, s)[z])
  <2>1. ~ (z > n)
    BY <1>9, <1>10, <1>5
  <2> QED
    BY <1>9, <2>1, OwnEndType DEF n
<1>12. PastAssignments(argv, z) =
         IF x \notin Assignments THEN z ELSE PastAssignments(argv, z + 1)
  <2>1. ~ (z > n)
    BY <1>9, <1>10, <1>5
  <2> QED
    BY <1>9, <2>1, PastAssignmentsType DEF n
<1>13. x \in Dashed /\ (w = "env" => x \notin Assignments)
  BY <1>1, <1>2, <1>5, <1>9, <1>10, OptionsAgree DEF n
<1> HIDE DEF x
<1>14. z # b
  BY <1>3, <1>13 DEF x, NoReading
<1>15. z \notin e .. b \/ ~ (w = "env" => PastAssignments(argv, z) = b) \/ ~ (w # "env" => z = e)
  BY <1>4, <1>12, <1>13, <1>14
<1>16. OwnEnd(argv, s, z) = e
  BY <1>1, <1>6, <1>15
<1>17. z \notin OwnStops(argv, s)
  <2> SUFFICES ASSUME z \in OwnStops(argv, s) PROVE FALSE
    OBVIOUS
  <2>1. z = e
    BY <1>11, <1>16
  <2>2. z \in e .. b
    BY <1>3, <1>5, <2>1
  <2> QED
    BY <1>4, <1>15, <2>1, <2>2
<1>18. z < e
  <2>1. OwnEnd(argv, s, z) \in z .. n + 1
    BY <1>9, OwnEndType DEF n
  <2>2. z # e
    BY <1>3, <1>5, <1>9, <1>10, <1>17
  <2> QED
    BY <1>3, <1>5, <1>9, <1>16, <2>1, <2>2
<1>19. z \in s .. b - 1 /\ z < n
  BY <1>3, <1>5, <1>9, <1>10, <1>18
<1>20. ~LeftAlone(argv, z)
  BY <1>7, <1>19
<1>21. /\ x # "-i"
       /\ ~ (x = "-p" /\ \E k \in 1 .. z - 1 : argv[k] = "time")
       /\ ~ (x = "-n" /\ z > 2 /\ argv[z - 2] = "-n")
  BY <1>20 DEF LeftAlone, x
<1>22. /\ x \notin Skipped(w) /\ ~ (x \in Valued(w, z - s))
       /\ x \in FlagsOf(w) \cup ValuedOf(w)
  BY <1>5, <1>9, <1>10, <1>17, <1>19 DEF SzrStops, OwnStops, x, n
<1>23. w \in Stripped
  OBVIOUS
<1>24. CASE w = "env"
  BY <1>21, <1>22, <1>24 DEF Skipped, Valued, FlagsOf, ValuedOf
<1>25. CASE w = "command"
  BY <1>22, <1>25 DEF Skipped, FlagsOf, ValuedOf
<1>26. CASE w = "nice"
  <2>1. x = "-n" /\ z - s # 1
    BY <1>22, <1>26 DEF Valued, FlagsOf, ValuedOf
  <2>2. z = s + 3 /\ argv[s + 1] = "-n"
    BY <1>5, <1>8, <1>9, <1>26, <2>1
  <2>3. z > 2 /\ z - 2 = s + 1
    BY <1>5, <2>2
  <2> QED
    BY <1>21, <2>1, <2>2, <2>3
<1>27. CASE w = "time"
  <2>1. x = "-p"
    BY <1>22, <1>27 DEF FlagsOf, ValuedOf
  <2>2. s \in 1 .. z - 1 /\ argv[s] = "time"
    BY <1>5, <1>9, <1>10, <1>27
  <2> QED
    BY <1>21, <2>1, <2>2
<1> QED
  BY <1>23, <1>24, <1>25, <1>26, <1>27 DEF Stripped

-----------------------------------------------------------------------------
(* Command lines: the command behind all wrappers.                         *)

(* The walks of szr and of the wrappers over the commands in front.        *)
Width(argv, i) == TransparentWrapperWidth(argv, i)
InnerStops(argv) ==
  {i \in 1 .. Len(argv) : Width(argv, i) <= 0 \/ Width(argv, i) >= Len(argv) - i + 1}
InnerNext(argv) == [i \in 1 .. Len(argv) |-> i + Width(argv, i)]

RunStops(argv) == {i \in 1 .. Len(argv) : argv[i] \notin Wrappers \ NoReading}
RunNext(argv) == [i \in 1 .. Len(argv) |-> Behind(argv, i)]
RunEnd(argv, k) == WalkEnd(Len(argv), RunStops(argv), RunNext(argv), k)

(* Where szr looks behind a wrapper.                                       *)
LEMMA OperandType ==
  ASSUME NEW argv \in Seq(STRING), NEW s \in 1 .. Len(argv)
  PROVE  Operand(argv, s) \in {0} \cup (s + 1 .. Len(argv) + 1)
<1> DEFINE z == SzrEnd(argv, s, s + 1)
<1>1. Len(argv) \in Nat /\ s + 1 \in 1 .. Len(argv) + 1
  OBVIOUS
<1>2. z \in s + 1 .. Len(argv) + 1
  BY <1>1, SzrAhead, WalkEndType DEF SzrEnd
<1>3. Operand(argv, s) \in {0, z}
  BY DEF Operand, SzrEnd, SzrStops, SzrNext
<1> QED
  BY <1>2, <1>3

(* What a step of the walk over wrappers takes off.                        *)
LEMMA WidthType ==
  ASSUME LinesAssumption, NEW argv \in Seq(STRING), NEW s \in 1 .. Len(argv)
  PROVE  /\ Width(argv, s) \in Int
         /\ Width(argv, s) <= Len(argv) - s + 1
         /\ argv[s] \in Stripped => argv[s] \notin NoReading /\ Width(argv, s) = Operand(argv, s) - s
         /\ Width(argv, s) > 0 => argv[s] \in Assignments \/ argv[s] \in Stripped
<1>1. PastAssignments(argv, s) \in s .. Len(argv) + 1
  <2>1. s \in 1 .. Len(argv) + 1
    OBVIOUS
  <2> QED
    BY <2>1, PastAssignmentsType
<1>2. Operand(argv, s) \in {0} \cup (s + 1 .. Len(argv) + 1)
  BY OperandType
<1>3. s \in Nat /\ Len(argv) \in Nat /\ s <= Len(argv)
  OBVIOUS
<1>4. Stripped \subseteq Programs /\ Programs \cap NoReading = {}
  BY DEF Stripped, Programs, NoReading, LinesAssumption
<1>5. Width(argv, s) = IF argv[s] \in Assignments THEN PastAssignments(argv, s) - s
                       ELSE IF argv[s] \in Stripped THEN Operand(argv, s) - s ELSE 0
  BY DEF Width, TransparentWrapperWidth, Stripped
<1>6. argv[s] \in Stripped => argv[s] \notin NoReading /\ argv[s] \notin Assignments
  BY <1>4 DEF NoReading
<1> QED
  BY <1>1, <1>2, <1>3, <1>5, <1>6

(* The walk of szr over wrappers goes ahead, and so does the wrappers' own.*)
LEMMA CommandsAhead ==
  ASSUME LinesAssumption, NEW argv \in Seq(STRING)
  PROVE  /\ Ahead(Len(argv), InnerStops(argv), InnerNext(argv))
         /\ Ahead(Len(argv), RunStops(argv), RunNext(argv))
         /\ InnerAt(argv) \in 1 .. Len(argv) + 1
         /\ InnerAt(argv) > Len(argv) \/ InnerAt(argv) \in InnerStops(argv)
         /\ Len(argv) > 0 => InnerAt(argv) <= Len(argv)
<1>1. ASSUME NEW i \in (1 .. Len(argv)) \ InnerStops(argv)
      PROVE  InnerNext(argv)[i] \in i + 1 .. Len(argv)
  <2>1. InnerNext(argv)[i] = i + Width(argv, i)
    BY DEF InnerNext
  <2>2. Width(argv, i) \in Int /\ i \in Nat /\ Len(argv) \in Nat
    BY WidthType
  <2>3. ~ (Width(argv, i) <= 0) /\ ~ (Width(argv, i) >= Len(argv) - i + 1)
    BY DEF InnerStops
  <2> QED
    BY <2>1, <2>2, <2>3
<1>2. ASSUME NEW i \in (1 .. Len(argv)) \ RunStops(argv)
      PROVE  RunNext(argv)[i] \in i + 1 .. Len(argv) + 1
  BY BehindType DEF RunNext
<1>3. Ahead(Len(argv), InnerStops(argv), InnerNext(argv))
  <2> SUFFICES ASSUME NEW i \in (1 .. Len(argv)) \ InnerStops(argv)
               PROVE  InnerNext(argv)[i] \in i + 1 .. Len(argv) + 1
    BY DEF Ahead
  <2> DEFINE x == InnerNext(argv)[i]
  <2>1. x \in i + 1 .. Len(argv) /\ i \in Nat /\ Len(argv) \in Nat
    BY <1>1
  <2> HIDE DEF x
  <2>2. x \in i + 1 .. Len(argv) + 1
    BY <2>1
  <2> QED
    BY <2>2 DEF x
<1>4. Ahead(Len(argv), RunStops(argv), RunNext(argv))
  BY <1>2 DEF Ahead
<1>5. InnerAt(argv) = WalkEnd(Len(argv), InnerStops(argv), InnerNext(argv), 1)
  BY DEF InnerAt, InnerStops, InnerNext, Width
<1>6. Len(argv) \in Nat /\ 1 \in 1 .. Len(argv) + 1
  OBVIOUS
<1>7. InnerAt(argv) \in 1 .. Len(argv) + 1
      /\ (InnerAt(argv) > Len(argv) \/ InnerAt(argv) \in InnerStops(argv))
  BY <1>3, <1>5, <1>6, WalkEndType
<1>8. ASSUME Len(argv) > 0 PROVE InnerAt(argv) <= Len(argv)
  <2>1. 1 .. Len(argv) \in SUBSET (1 .. Len(argv) + 1) /\ 1 \in 1 .. Len(argv)
    BY <1>6, <1>8
  <2>2. ASSUME NEW k \in 1 .. Len(argv), k <= Len(argv), k \notin InnerStops(argv)
        PROVE  InnerNext(argv)[k] \in 1 .. Len(argv)
    <3> DEFINE x == InnerNext(argv)[k]
    <3>1. x \in k + 1 .. Len(argv)
      BY <1>1, <2>2
    <3> HIDE DEF x
    <3>2. x \in 1 .. Len(argv)
      BY <3>1
    <3> QED
      BY <3>2 DEF x
  <2>3. InnerAt(argv) \in 1 .. Len(argv)
    BY <1>3, <1>5, <1>6, <2>1, <2>2, WalkStays
  <2> QED
    BY <2>3
<1> QED
  BY <1>3, <1>4, <1>7, <1>8

(* The walk of the wrappers, turn by turn.                                 *)
LEMMA RunEndType ==
  ASSUME LinesAssumption, NEW argv \in Seq(STRING), NEW k \in 1 .. Len(argv)
  PROVE  /\ RunEnd(argv, k) \in k .. Len(argv) + 1
         /\ RunEnd(argv, k) = IF argv[k] \notin Wrappers \ NoReading THEN k
                              ELSE RunEnd(argv, Behind(argv, k))
         /\ Behind(argv, k) \in k + 1 .. Len(argv) + 1
         /\ Behind(argv, k) <= RunEnd(argv, Behind(argv, k))
         /\ Behind(argv, k) > Len(argv) => RunEnd(argv, Behind(argv, k)) > Len(argv)
<1> DEFINE n == Len(argv)
           S == RunStops(argv)
           N == RunNext(argv)
           b == Behind(argv, k)
<1>1. n \in Nat /\ k \in 1 .. n + 1 /\ ~ (k > n)
  OBVIOUS
<1>2. Ahead(n, S, N)
  BY CommandsAhead
<1>3. b \in k + 1 .. n + 1
  BY BehindType
<1>4. N[k] = b /\ (k \in S <=> argv[k] \notin Wrappers \ NoReading)
  BY DEF RunStops, RunNext
<1>5. \A j : RunEnd(argv, j) = WalkEnd(n, S, N, j)
  BY DEF RunEnd
<1> HIDE DEF S, N, b
<1>6. WalkEnd(n, S, N, k) = IF k > n \/ k \in S THEN k ELSE WalkEnd(n, S, N, N[k])
  <2> HIDE DEF n
  <2> QED BY <1>1, <1>2, WalkEndStep
<1>7. WalkEnd(n, S, N, k) \in k .. n + 1
  <2> HIDE DEF n
  <2> QED BY <1>1, <1>2, WalkEndType
<1>8. b \in 1 .. n + 1 /\ b \in Nat
  BY <1>1, <1>3
<1>9. WalkEnd(n, S, N, b) \in b .. n + 1
  <2> HIDE DEF n
  <2> QED BY <1>1, <1>2, <1>8, WalkEndType
<1>10. RunEnd(argv, k) \in k .. n + 1
  BY <1>5, <1>7
<1>11. RunEnd(argv, b) \in b .. n + 1
  BY <1>5, <1>9
<1>12. RunEnd(argv, k) = IF k \in S THEN k ELSE RunEnd(argv, b)
  BY <1>1, <1>4, <1>5, <1>6
<1>13. b <= RunEnd(argv, b) /\ (b > n => RunEnd(argv, b) > n)
  <2> DEFINE r == RunEnd(argv, b)
  <2>1. r \in b .. n + 1
    BY <1>11
  <2> HIDE DEF r, n
  <2>2. b <= r /\ (b > n => r > n)
    BY <1>1, <1>8, <2>1
  <2> QED
    BY <2>2 DEF r
<1> QED
  BY <1>3, <1>4, <1>10, <1>12, <1>13 DEF b

(* The program the wrappers run.                                           *)
LEMMA ProgramAtType ==
  ASSUME LinesAssumption, NEW argv \in Seq(STRING), ProgramAt(argv) # 0
  PROVE  /\ ProgramAt(argv) \in 1 .. Len(argv)
         /\ ProgramAt(argv) = RunEnd(argv, 1)
         /\ argv[ProgramAt(argv)] \notin NoReading
         /\ argv[ProgramAt(argv)] \notin Wrappers
<1> DEFINE n == Len(argv)
           e == RunEnd(argv, 1)
           p == ProgramAt(argv)
<1>1. p = IF e <= n /\ argv[e] \notin NoReading THEN e ELSE 0
  BY DEF ProgramAt, RunEnd, RunStops, RunNext, Behind, NoReading
<1>2. n \in Nat /\ 1 \in 1 .. n + 1
  OBVIOUS
<1>3. e = WalkEnd(n, RunStops(argv), RunNext(argv), 1)
  BY DEF RunEnd
<1>4. Ahead(n, RunStops(argv), RunNext(argv))
  BY CommandsAhead
<1>5. e \in 1 .. n + 1 /\ (e > n \/ e \in RunStops(argv))
  <2> HIDE DEF n, e
  <2> QED BY <1>2, <1>3, <1>4, WalkEndType
<1>6. e \in RunStops(argv) => argv[e] \notin Wrappers \ NoReading
  BY DEF RunStops
<1> HIDE DEF e, n, p
<1>7. p = e /\ e <= n /\ argv[e] \notin NoReading
  BY <1>1 DEF p
<1>8. e \in 1 .. n /\ argv[e] \notin Wrappers
  BY <1>2, <1>5, <1>6, <1>7
<1> QED
  BY <1>7, <1>8 DEF e, n, p

(* Where szr looks behind one wrapper on the way to the program.           *)
LEMMA OnTheWay ==
  ASSUME LinesAssumption, NEW argv \in Seq(STRING), ProgramAt(argv) # 0,
         NEW k \in 1 .. Len(argv), RunEnd(argv, k) = ProgramAt(argv)
  PROVE  /\ k <= ProgramAt(argv)
         /\ argv[k] \notin Assignments
         /\ k # ProgramAt(argv) =>
              /\ argv[k] \in Wrappers \ NoReading
              /\ Behind(argv, k) \in k + 1 .. ProgramAt(argv)
              /\ RunEnd(argv, Behind(argv, k)) = ProgramAt(argv)
              /\ argv[Behind(argv, k)] \notin NoReading
<1> DEFINE n == Len(argv)
           p == ProgramAt(argv)
           b == Behind(argv, k)
<1>1. p \in 1 .. n /\ argv[p] \notin NoReading /\ argv[p] \notin Wrappers /\ n \in Nat
  BY ProgramAtType
<1>2. /\ p \in k .. n + 1
      /\ p = IF argv[k] \notin Wrappers \ NoReading THEN k ELSE RunEnd(argv, b)
      /\ b \in k + 1 .. n + 1 /\ b <= RunEnd(argv, b)
  BY RunEndType
<1>3. Assignments \subseteq NoReading
  BY DEF NoReading
<1>4. k \in 1 .. n /\ k \in Nat
  OBVIOUS
<1>5. RunEnd(argv, k) = p
  OBVIOUS
<1> HIDE DEF n, p, b
<1>6. k <= p /\ argv[k] \notin Assignments
  BY <1>1, <1>2, <1>3, <1>4
<1>7. ASSUME k # p
      PROVE  /\ argv[k] \in Wrappers \ NoReading /\ b \in k + 1 .. p
             /\ RunEnd(argv, b) = p /\ argv[b] \notin NoReading
  <2>1. argv[k] \in Wrappers \ NoReading /\ RunEnd(argv, b) = p
    BY <1>2, <1>7
  <2>2. b \in k + 1 .. p /\ b \in 1 .. n
    BY <1>1, <1>2, <1>4, <2>1
  <2>3. RunEnd(argv, b) = IF argv[b] \notin Wrappers \ NoReading THEN b
                          ELSE RunEnd(argv, Behind(argv, b))
    BY <2>2, RunEndType DEF n
  <2>4. argv[b] \notin NoReading
    <3>1. argv[b] \in NoReading => RunEnd(argv, b) = b
      BY <2>3
    <3> QED
      BY <1>1, <2>1, <3>1
  <2> QED
    BY <2>1, <2>2, <2>4
<1> QED
  BY <1>6, <1>7 DEF p, b

(* What szr takes for the command is on the way to the program, and is the *)
(* program itself unless something in front of it is left alone.           *)
LEMMA InnerIsOnTheWay ==
  ASSUME LinesAssumption, NEW argv \in Seq(STRING), ProgramAt(argv) # 0
  PROVE  /\ InnerAt(argv) \in 1 .. ProgramAt(argv)
         /\ argv[InnerAt(argv)] \notin Assignments
         /\ (\A i \in 1 .. ProgramAt(argv) - 1 : ~LeftAlone(argv, i)) =>
              InnerAt(argv) = ProgramAt(argv)
<1> DEFINE n == Len(argv)
           p == ProgramAt(argv)
           S == InnerStops(argv)
           N == InnerNext(argv)
           P == {k \in 1 .. n : RunEnd(argv, k) = p}
           s == InnerAt(argv)
<1>1. p \in 1 .. n /\ p = RunEnd(argv, 1) /\ n \in Nat
  BY ProgramAtType
<1>2. Ahead(n, S, N) /\ (s > n \/ s \in S)
  BY CommandsAhead
<1>3. s = WalkEnd(n, S, N, 1)
  BY DEF InnerAt, InnerStops, InnerNext, Width
<1>4. P \in SUBSET (1 .. n + 1) /\ 1 \in P
  BY <1>1
<1>5. ASSUME NEW k \in P, k <= n, k \notin S PROVE N[k] \in P
  <2> DEFINE b == Behind(argv, k)
             w == Width(argv, k)
  <2>1. k \in 1 .. n /\ RunEnd(argv, k) = p /\ k \in Nat
    BY <1>1
  <2>2. w \in Int /\ ~ (w <= 0) /\ N[k] = k + w
    BY <1>5, <2>1, WidthType DEF InnerStops, InnerNext
  <2>3. w > 0
    BY <2>2
  <2>4. argv[k] \notin Assignments
    BY <2>1, OnTheWay
  <2>5. argv[k] \in Stripped /\ argv[k] \notin NoReading /\ w = Operand(argv, k) - k
    BY <2>1, <2>3, <2>4, WidthType
  <2>6. k # p
    <3>1. argv[p] \notin Wrappers
      BY ProgramAtType
    <3> QED
      BY <2>5, <3>1 DEF Stripped, Wrappers
  <2>7. b \in k + 1 .. p /\ RunEnd(argv, b) = p /\ argv[b] \notin NoReading
    BY <2>1, <2>6, OnTheWay
  <2>8. Operand(argv, k) \in {0, b}
    BY <2>1, <2>5, <2>7, OperandAgrees
  <2> HIDE DEF b, w
  <2>9. b \in 1 .. n
    BY <1>1, <2>1, <2>7
  <2>10. N[k] = b
    <3> DEFINE o == Operand(argv, k)
    <3>1. o \in {0, b} /\ w = o - k
      BY <2>5, <2>8
    <3> HIDE DEF o, N
    <3> QED BY <2>1, <2>2, <2>3, <2>9, <3>1
  <2> QED
    BY <2>7, <2>9, <2>10
<1>6. s \in P
  <2> HIDE DEF S, N, n, P, s
  <2> QED BY <1>1, <1>2, <1>3, <1>4, <1>5, WalkStays
<1>7. s \in 1 .. n /\ RunEnd(argv, s) = p
  BY <1>6
<1>8. s <= p /\ argv[s] \notin Assignments
  BY <1>7, OnTheWay
<1>9. ASSUME \A i \in 1 .. p - 1 : ~LeftAlone(argv, i), s # p PROVE FALSE
  <2> DEFINE b == Behind(argv, s)
             w == Width(argv, s)
  <2>1. argv[s] \in Wrappers \ NoReading /\ b \in s + 1 .. p /\ argv[b] \notin NoReading
    BY <1>7, <1>9, OnTheWay
  <2> HIDE DEF s, p, n, b, w
  <2>2. s \in 1 .. p - 1 /\ b \in 1 .. n /\ s \in Nat
    BY <1>1, <1>7, <1>8, <1>9, <2>1
  <2>3. argv[s] # "npx"
    BY <1>9, <2>2 DEF LeftAlone
  <2>4. argv[s] \in Stripped
    BY <2>1, <2>3 DEF Wrappers, Stripped
  <2>5. \A i \in s .. b - 1 : ~LeftAlone(argv, i)
    <3> SUFFICES ASSUME NEW i \in s .. b - 1 PROVE i \in 1 .. p - 1
      BY <1>9
    <3> QED
      BY <1>1, <2>1, <2>2
  <2>6. Operand(argv, s) = b
    <3>1. b <= Len(argv)
      BY <1>1, <2>2 DEF n
    <3> QED
      BY <1>7, <2>1, <2>4, <2>5, <3>1, OperandFound DEF b, n
  <2>7. w = b - s
    BY <1>7, <2>4, <2>6, WidthType DEF w, n
  <2>8. w <= 0 \/ w >= n - s + 1
    <3>1. ~ (s > n)
      BY <1>1, <1>7
    <3> QED
      BY <1>2, <3>1 DEF InnerStops, w, n
  <2> QED
    BY <1>1, <2>1, <2>2, <2>7, <2>8
<1>10. s \in 1 .. p
  BY <1>1, <1>7, <1>8
<1> QED
  BY <1>8, <1>9, <1>10 DEF s, p

(* The words of what was typed.                                            *)
LEMMA WordsType ==
  ASSUME LinesAssumption, NEW L, NEW way \in DOMAIN Typable, L \in Seq(Typable[way])
  PROVE  /\ L \in Seq([word : STRING, form : Forms])
         /\ Words(L) \in Seq(STRING)
         /\ Len(Words(L)) = Len(L)
         /\ \A i \in 1 .. Len(L) : Words(L)[i] = L[i].word
<1> DEFINE Lexemes == [word : STRING, form : Forms]
<1>1. Typable[way] \subseteq Lexemes
  BY DEF LinesAssumption
<1>2. L \in Seq(Lexemes)
  <2> DEFINE T == Typable[way]
  <2>1. L \in Seq(T) /\ T \subseteq Lexemes
    BY <1>1
  <2> HIDE DEF T, Lexemes
  <2>2. Len(L) \in Nat /\ L = [i \in 1 .. Len(L) |-> L[i]] /\ \A i \in 1 .. Len(L) : L[i] \in T
    BY <2>1
  <2>3. L \in [1 .. Len(L) -> Lexemes]
    BY <2>1, <2>2
  <2> QED
    BY <2>2, <2>3
<1>3. Words(L) = [i \in 1 .. Len(L) |-> L[i].word]
  <2>1. DOMAIN L = 1 .. Len(L)
    BY <1>2
  <2>2. Words(L) = [i \in DOMAIN L |-> L[i].word]
    BY DEF Words
  <2> QED
    BY <2>1, <2>2, Zenon
<1>4. \A i \in 1 .. Len(L) : L[i] \in Lexemes
  <2> HIDE DEF Lexemes
  <2> QED BY <1>2
<1>5. Len(L) \in Nat
  BY <1>2
<1>6. \A i \in 1 .. Len(L) : L[i].word \in STRING
  BY <1>4
<1> DEFINE w == [i \in 1 .. Len(L) |-> L[i].word]
<1>7. w \in [1 .. Len(L) -> STRING]
  BY <1>6
<1>8. w \in Seq(STRING) /\ Len(w) = Len(L)
  <2> HIDE DEF w
  <2> QED BY <1>5, <1>7
<1> QED
  BY <1>2, <1>3, <1>8

(* Looking through wrappers never goes past the program they run.          *)
LEMMA MatchedFits ==
  ASSUME LinesAssumption, LineTypeOK
  PROVE  MatchedIsWhatRuns
<1> DEFINE argv == Words(typed)
           n == Len(argv)
           p == ProgramAt(argv)
           s == InnerAt(argv)
           inner == StripTransparentPrefix(argv)
<1>1. argv \in Seq(STRING)
  BY WordsType DEF LineTypeOK
<1>2. SUFFICES ASSUME p # 0
               PROVE  /\ Len(inner) >= n - p + 1
                      /\ (\A i \in 1 .. p - 1 : ~LeftAlone(argv, i)) => inner = From(argv, p)
  BY DEF MatchedIsWhatRuns
<1>3. p \in 1 .. n /\ n \in Nat
  BY <1>1, <1>2, ProgramAtType
<1>4. s \in 1 .. p /\ ((\A i \in 1 .. p - 1 : ~LeftAlone(argv, i)) => s = p)
  BY <1>1, <1>2, InnerIsOnTheWay
<1>5. inner = From(argv, s)
  BY DEF StripTransparentPrefix
<1> HIDE DEF argv, p, s, inner
<1>6. s - 1 \in 0 .. n /\ s - 1 + 1 = s
  BY <1>3, <1>4
<1>7. Len(inner) = n - (s - 1)
  BY <1>1, <1>5, <1>6, SuffixType DEF From
<1>8. Len(inner) >= n - p + 1
  BY <1>3, <1>4, <1>7
<1> QED
  BY <1>4, <1>5, <1>8

(* What is typed is typed from what may be.                                *)
LEMMA TypedType ==
  ASSUME LineTypeOK, [LineNext]_lineVars
  PROVE  LineTypeOK'
<1>1. CASE LineNext
  <2>1. PICK l \in Typable[asked] : typed' = Append(typed, l)
    BY <1>1 DEF LineNext, Type
  <2>2. asked' = asked
    BY <1>1 DEF LineNext, Type
  <2> QED
    BY <2>1, <2>2 DEF LineTypeOK
<1>2. CASE UNCHANGED lineVars
  BY <1>2 DEF LineTypeOK, lineVars
<1> QED
  BY <1>1, <1>2

(* What is typed is always a sequence of lexemes of its kind.              *)
THEOREM LineTypeCorrect == LineSpec => []LineTypeOK
<1>1. LineInit => LineTypeOK
  BY DEF LineInit, LineTypeOK
<1>2. LineTypeOK /\ [LineNext]_lineVars => LineTypeOK'
  BY TypedType
<1> QED
  BY <1>1, <1>2, PTL DEF LineSpec

(* Whatever the argv, what szr takes for the command is no later than the  *)
(* program its wrappers run, and is that program unless a wrapper or an    *)
(* option is in front that szr leaves alone.                               *)
THEOREM CommandIsWhatRuns == LineSpec => []MatchedIsWhatRuns
<1>1. LineTypeOK => MatchedIsWhatRuns
  BY LinesAreLines, MatchedFits
<1> QED
  BY <1>1, LineTypeCorrect, PTL

-----------------------------------------------------------------------------
(* Command lines: what the shell makes of a line with words put in front.  *)

Spoken == STRING \cup Programs
Lexemes == [word : Spoken, form : Forms]
Expands(L, i) == Risky(L[i]) \/ (Assigns(L, i) /\ L[i].form = "bare" /\ L[i].word \in Tildes)
Role(L, i) == IF Operator(L[i]) THEN "operator" ELSE IF Assigns(L, i) THEN "assignment" ELSE "word"
Meant(L, i) == <<Role(L, i), L[i].word, Expands(L, i)>>

(* The meaning of a line, word by word.                                    *)
LEMMA MeaningType ==
  ASSUME NEW L \in Seq(Lexemes)
  PROVE  /\ Meaning(L) \in Seq({Meant(L, i) : i \in 1 .. Len(L)})
         /\ Len(Meaning(L)) = Len(L)
         /\ \A i \in 1 .. Len(L) : Meaning(L)[i] = Meant(L, i)
         /\ DOMAIN Meaning(L) = 1 .. Len(L)
<1> DEFINE V == {Meant(L, i) : i \in 1 .. Len(L)}
           m == [i \in 1 .. Len(L) |-> Meant(L, i)]
<1>1. DOMAIN L = 1 .. Len(L) /\ Len(L) \in Nat
  OBVIOUS
<1>2. Meaning(L) = [i \in DOMAIN L |-> Meant(L, i)]
  BY DEF Meaning, Meant, Role, Expands
<1>3. Meaning(L) = m
  BY <1>1, <1>2, Zenon
<1>4. m \in [1 .. Len(L) -> V]
  OBVIOUS
<1>5. \A i \in 1 .. Len(L) : m[i] = Meant(L, i)
  OBVIOUS
<1> HIDE DEF m, V
<1>6. m \in Seq(V) /\ Len(m) = Len(L) /\ DOMAIN m = 1 .. Len(L)
  BY <1>1, <1>4
<1> QED
  BY <1>3, <1>5, <1>6 DEF V

(* Words that begin a line, none of them assigned, leave the assignments   *)
(* of the rest as they are when that does not begin with one.              *)
LEMMA AssignsBehind ==
  ASSUME NEW H \in Seq(Lexemes), NEW L \in Seq(Lexemes), NEW M \in Seq(Lexemes),
         Len(H) > 0, Len(M) = Len(H) + Len(L),
         \A i \in 1 .. Len(H) : M[i] = H[i],
         \A i \in 1 .. Len(L) : M[i + Len(H)] = L[i],
         \A i \in 1 .. Len(H) : ~Names(H[i]) /\ ~Operator(H[i]),
         Len(L) > 0 => ~Names(L[1])
  PROVE  /\ \A i \in 1 .. Len(H) : ~Assigns(M, i)
         /\ \A i \in 1 .. Len(L) : Assigns(M, i + Len(H)) <=> Assigns(L, i)
<1> DEFINE h == Len(H)
           n == Len(L)
<1>1. h \in Nat /\ h > 0 /\ n \in Nat
  OBVIOUS
<1>2. /\ \A i \in 1 .. h : ~Names(M[i]) /\ ~Operator(M[i])
      /\ \A i \in 1 .. n : M[i + h] = L[i]
      /\ n > 0 => ~Names(L[1])
  OBVIOUS
<1> HIDE DEF h, n
<1>3. ASSUME NEW i \in 1 .. h PROVE ~Assigns(M, i)
  <2> SUFFICES ASSUME NEW k \in 1 .. i, \A j \in k .. i : Names(M[j]) PROVE FALSE
    BY DEF Assigns
  <2>1. Names(M[i])
    BY <1>1
  <2> QED
    BY <1>2, <2>1
<1>4. ASSUME NEW i \in 1 .. n, Assigns(M, i + h) PROVE Assigns(L, i)
  <2>1. PICK k \in 1 .. i + h : /\ k = 1 \/ Operator(M[k - 1])
                                /\ \A j \in k .. i + h : Names(M[j])
    BY <1>4 DEF Assigns
  <2>2. k > h + 1
    <3>1. ASSUME k <= h PROVE FALSE
      <4>1. Names(M[k]) /\ k \in 1 .. h
        BY <1>1, <2>1, <3>1
      <4> QED
        BY <1>2, <4>1
    <3>2. ASSUME k = h + 1 PROVE FALSE
      <4>1. Operator(M[h])
        BY <1>1, <2>1, <3>2
      <4>2. h \in 1 .. h
        BY <1>1
      <4> QED
        BY <1>2, <4>1, <4>2
    <3> QED
      BY <1>1, <3>1, <3>2
  <2> DEFINE q == k - h
  <2>3. q \in 2 .. i /\ q - 1 \in 1 .. n /\ q - 1 + h = k - 1 /\ k # 1
    BY <1>1, <2>2
  <2>4. Operator(L[q - 1])
    BY <1>2, <2>1, <2>3
  <2>5. ASSUME NEW j \in q .. i PROVE Names(L[j])
    <3>1. j + h \in k .. i + h /\ j \in 1 .. n
      BY <1>1, <2>3
    <3> QED
      BY <1>2, <2>1, <3>1
  <2>6. q \in 1 .. i
    BY <2>3
  <2> QED
    BY <2>4, <2>5, <2>6 DEF Assigns
<1>5. ASSUME NEW i \in 1 .. n, Assigns(L, i) PROVE Assigns(M, i + h)
  <2>1. PICK k \in 1 .. i : /\ k = 1 \/ Operator(L[k - 1])
                            /\ \A j \in k .. i : Names(L[j])
    BY <1>5 DEF Assigns
  <2>2. k # 1
    <3>1. Names(L[k]) /\ n > 0
      BY <1>1, <2>1
    <3> QED
      BY <1>2, <3>1
  <2>3. k - 1 \in 1 .. n /\ k - 1 + h = k + h - 1 /\ k + h \in 1 .. i + h
    BY <1>1, <2>2
  <2>4. Operator(M[k + h - 1])
    BY <1>2, <2>1, <2>2, <2>3
  <2>5. ASSUME NEW j \in k + h .. i + h PROVE Names(M[j])
    <3>1. j - h \in k .. i /\ j - h \in 1 .. n /\ j - h + h = j
      BY <1>1
    <3>2. M[j] = L[j - h]
      BY <1>2, <3>1
    <3> QED
      BY <2>1, <3>1, <3>2
  <2> DEFINE q == k + h
  <2>6. q \in 1 .. i + h /\ \A j \in q .. i + h : Names(M[j])
    BY <2>3, <2>5
  <2>7. Operator(M[q - 1])
    <3>1. q - 1 = k + h - 1
      BY <1>1
    <3> QED
      BY <2>4, <3>1
  <2> HIDE DEF q
  <2> QED
    BY <2>6, <2>7 DEF Assigns
<1> QED
  BY <1>3, <1>4, <1>5 DEF h, n

(* Programs in front of a line are words, and the line means what it did.  *)
LEMMA MeaningBehind ==
  ASSUME LinesAssumption, NEW H \in Seq(Lexemes), NEW L \in Seq(Lexemes), Len(H) > 0,
         \A i \in 1 .. Len(H) : H[i] = Bare(H[i].word) /\ H[i].word \in Programs,
         Len(L) > 0 => L[1].word \notin Assignments
  PROVE  Meaning(H \o L) = [i \in 1 .. Len(H) |-> Literal(H[i].word)] \o Meaning(L)
<1> DEFINE M == H \o L
           h == Len(H)
           n == Len(L)
           p == [i \in 1 .. h |-> Literal(H[i].word)]
           V == {Meant(L, i) : i \in 1 .. n} \cup {Literal(H[i].word) : i \in 1 .. h}
<1>1. /\ M \in Seq(Lexemes) /\ Len(M) = h + n /\ h \in Nat /\ h > 0 /\ n \in Nat
      /\ \A i \in 1 .. h : M[i] = H[i]
      /\ \A i \in 1 .. n : M[i + h] = L[i]
  <2> HIDE DEF Lexemes
  <2> QED OBVIOUS
<1>2. \A i \in 1 .. h : /\ H[i].form = "bare" /\ H[i].word \in Programs
                        /\ ~Names(H[i]) /\ ~Operator(H[i]) /\ ~Risky(H[i])
  <2> SUFFICES ASSUME NEW i \in 1 .. h
               PROVE  /\ H[i].form = "bare" /\ H[i].word \in Programs
                      /\ ~Names(H[i]) /\ ~Operator(H[i]) /\ ~Risky(H[i])
    OBVIOUS
  <2> DEFINE x == H[i]
  <2>1. x = Bare(x.word) /\ x.word \in Programs
    OBVIOUS
  <2> HIDE DEF x
  <2>2. x.form = "bare"
    <3>1. Bare(x.word).form = "bare"
      BY DEF Bare
    <3> QED
      BY <2>1, <3>1
  <2> QED
    BY <2>1, <2>2 DEF x, Names, Operator, Risky, LinesAssumption
<1>3. n > 0 => ~Names(L[1])
  BY DEF Names
<1>4. /\ \A i \in 1 .. h : ~Assigns(M, i)
      /\ \A i \in 1 .. n : Assigns(M, i + h) <=> Assigns(L, i)
  <2> HIDE DEF M
  <2> QED BY <1>1, <1>2, <1>3, AssignsBehind
<1>5. /\ Meaning(M) \in Seq({Meant(M, i) : i \in 1 .. Len(M)}) /\ Len(Meaning(M)) = Len(M)
      /\ \A i \in 1 .. Len(M) : Meaning(M)[i] = Meant(M, i)
  <2> HIDE DEF M
  <2> QED BY <1>1, MeaningType
<1>6. /\ Meaning(L) \in Seq({Meant(L, i) : i \in 1 .. n}) /\ Len(Meaning(L)) = n
      /\ \A i \in 1 .. n : Meaning(L)[i] = Meant(L, i)
  BY MeaningType
<1> HIDE DEF M, h, n
<1>7. ASSUME NEW i \in 1 .. h PROVE Meant(M, i) = Literal(H[i].word)
  <2>1. M[i] = H[i]
    BY <1>1
  <2>2. Role(M, i) = "word"
    BY <1>2, <1>4, <2>1 DEF Role
  <2>3. Expands(M, i) = FALSE
    BY <1>2, <1>4, <2>1 DEF Expands
  <2> QED
    BY <2>1, <2>2, <2>3 DEF Meant, Literal
<1>8. ASSUME NEW i \in 1 .. n PROVE Meant(M, i + h) = Meant(L, i)
  <2>1. M[i + h] = L[i]
    BY <1>1
  <2>2. Assigns(M, i + h) <=> Assigns(L, i)
    BY <1>4
  <2>3. Role(M, i + h) = Role(L, i)
    BY <2>1, <2>2 DEF Role
  <2>4. Expands(M, i + h) = Expands(L, i)
    BY <2>1, <2>2 DEF Expands
  <2> QED
    BY <2>1, <2>3, <2>4 DEF Meant
<1>9. p \in Seq({Literal(H[i].word) : i \in 1 .. h}) /\ Len(p) = h
      /\ \A i \in 1 .. h : p[i] = Literal(H[i].word)
  <2> DEFINE W == {Literal(H[i].word) : i \in 1 .. h}
  <2>1. p \in [1 .. h -> W] /\ \A i \in 1 .. h : p[i] = Literal(H[i].word)
    OBVIOUS
  <2> HIDE DEF p, W
  <2>2. p \in Seq(W) /\ Len(p) = h
    BY <1>1, <2>1, TupleIsSequence
  <2> QED
    BY <2>1, <2>2 DEF W
<1> DEFINE r == p \o Meaning(L)
<1>10. /\ Len(r) = h + n /\ DOMAIN r = 1 .. h + n /\ r = [i \in 1 .. h + n |-> r[i]]
       /\ \A i \in 1 .. h : r[i] = Literal(H[i].word)
       /\ \A i \in 1 .. n : r[i + h] = Meant(L, i)
  <2> DEFINE A == {Literal(H[i].word) : i \in 1 .. h}
             B == {Meant(L, i) : i \in 1 .. n}
             m == Meaning(L)
  <2>1. p \in Seq(A) /\ m \in Seq(B) /\ Len(p) = h /\ Len(m) = n
    BY <1>6, <1>9
  <2> HIDE DEF p, m, A, B
  <2>2. /\ p \o m \in Seq(A \cup B) /\ Len(p \o m) = h + n
        /\ \A i \in 1 .. h : (p \o m)[i] = p[i]
        /\ \A i \in 1 .. n : (p \o m)[i + h] = m[i]
    <3>1. /\ p \o m \in Seq(A \cup B) /\ Len(p \o m) = Len(p) + Len(m)
          /\ \A i \in 1 .. Len(p) : (p \o m)[i] = p[i]
          /\ \A i \in 1 .. Len(m) : (p \o m)[i + Len(p)] = m[i]
      <4>1. p \in Seq(A) /\ m \in Seq(B)
        BY <2>1
      <4>2. (\A i \in 1 .. Len(p) : p[i] \in A \cup B) /\ \A i \in 1 .. Len(m) : m[i] \in A \cup B
        BY <4>1, SequenceIsTuple
      <4> DEFINE C == A \cup B
      <4>3. p \in Seq(C) /\ m \in Seq(C)
        BY <4>1, <4>2, SequenceOfMore
      <4> HIDE DEF C
      <4>4. /\ p \o m \in Seq(C) /\ Len(p \o m) = Len(p) + Len(m)
            /\ \A i \in 1 .. Len(p) : (p \o m)[i] = p[i]
            /\ \A i \in 1 .. Len(m) : (p \o m)[i + Len(p)] = m[i]
        BY <4>3
      <4> QED
        BY <4>4 DEF C
    <3> QED
      BY <2>1, <3>1
  <2> DEFINE pm == p \o m
  <2>3. pm = [i \in 1 .. h + n |-> pm[i]] /\ DOMAIN pm = 1 .. h + n
    <3>1. pm \in Seq(A \cup B) /\ Len(pm) = h + n
      BY <2>2
    <3> HIDE DEF pm
    <3>2. pm = [i \in 1 .. Len(pm) |-> pm[i]] /\ DOMAIN pm = 1 .. Len(pm)
      BY <3>1, SequenceIsTuple
    <3> QED
      BY <3>1, <3>2
  <2> HIDE DEF pm
  <2> QED
    BY <1>6, <1>9, <2>2, <2>3 DEF pm, m
<1>11. \A i \in 1 .. h + n : Meaning(M)[i] = r[i]
  <2> SUFFICES ASSUME NEW i \in 1 .. h + n PROVE Meaning(M)[i] = r[i]
    OBVIOUS
  <2>1. Meaning(M)[i] = Meant(M, i)
    BY <1>1, <1>5
  <2> HIDE DEF r
  <2>2. CASE i <= h
    <3>1. i \in 1 .. h
      BY <1>1, <2>2
    <3> QED
      BY <1>7, <1>10, <2>1, <3>1
  <2>3. CASE i > h
    <3>1. i - h \in 1 .. n /\ i - h + h = i
      BY <1>1, <2>3
    <3>2. Meant(M, i - h + h) = Meant(L, i - h) /\ r[i - h + h] = Meant(L, i - h)
      BY <1>8, <1>10, <3>1
    <3> QED
      BY <2>1, <3>1, <3>2
  <2> QED
    BY <1>1, <2>2, <2>3
<1>12. Meaning(M) = [i \in 1 .. h + n |-> Meaning(M)[i]]
  <2> DEFINE x == Meaning(M)
             B == {Meant(M, i) : i \in 1 .. Len(M)}
  <2>1. x \in Seq(B) /\ Len(x) = h + n
    BY <1>1, <1>5
  <2> HIDE DEF x, B
  <2>2. x = [i \in 1 .. h + n |-> x[i]]
    BY <2>1, SequenceIsTuple
  <2> QED
    BY <2>2 DEF x
<1> HIDE DEF r
<1>13. Meaning(M) = r
  BY <1>10, <1>11, <1>12
<1> QED
  BY <1>13 DEF r, M, h

-----------------------------------------------------------------------------
(* Command lines: the rewrite for the hooks of agents.                     *)

(* Where the first command of a line ends.                                 *)
LEMMA SplitType ==
  ASSUME NEW L \in Seq(Lexemes)
  PROVE  \E cut \in 1 .. Len(L) + 1 :
           /\ SplitProducer(L) = [producer |-> SubSeq(L, 1, cut - 1), suffix |-> From(L, cut)]
           /\ cut <= Len(L) => Operator(L[cut]) /\ L[cut].word \in Cuts
           /\ cut > Len(L) => \A i \in 1 .. Len(L) : ~ (Operator(L[i]) /\ L[i].word \in Cuts)
<1> DEFINE n == Len(L)
           cuts == {i \in DOMAIN L : Operator(L[i]) /\ L[i].word \in Cuts}
           T == cuts \cup {n + 1}
<1>1. n \in Nat /\ DOMAIN L = 1 .. n
  OBVIOUS
<1>2. cuts \subseteq 1 .. n
  BY <1>1
<1>3. T \in SUBSET Nat /\ T # {} /\ n + 1 \in T /\ T \subseteq 1 .. n + 1
  BY <1>1, <1>2
<1>4. PICK c \in T : \A m \in T : c <= m
  <2> HIDE DEF T
  <2> QED BY <1>3, LeastNatural
<1>5. Min(T) = c
  <2>1. \A x \in T : (\A y \in T : x <= y) => x = c
    <3> SUFFICES ASSUME NEW x \in T, \A y \in T : x <= y PROVE x = c
      OBVIOUS
    <3>1. x <= c /\ c <= x /\ x \in Nat /\ c \in Nat
      BY <1>3, <1>4
    <3> QED
      BY <3>1
  <2> HIDE DEF T
  <2>2. Min(T) = CHOOSE x \in T : \A y \in T : x <= y
    BY DEF Min
  <2> QED
    BY <1>4, <2>1, <2>2
<1>6. SplitProducer(L) = [producer |-> SubSeq(L, 1, c - 1), suffix |-> From(L, c)]
  BY <1>5 DEF SplitProducer
<1>7. c \in 1 .. n + 1
  BY <1>3, <1>4
<1>8. c <= n => c \in cuts
  BY <1>1, <1>4
<1>9. c > n => cuts = {}
  <2> SUFFICES ASSUME c > n, NEW i \in cuts PROVE FALSE
    OBVIOUS
  <2>1. c <= i /\ i \in 1 .. n
    BY <1>2, <1>4
  <2> QED
    BY <1>1, <1>7, <2>1
<1>10. c > n => \A i \in 1 .. n : ~ (Operator(L[i]) /\ L[i].word \in Cuts)
  BY <1>1, <1>9
<1>11. c <= n => Operator(L[c]) /\ L[c].word \in Cuts
  BY <1>8
<1> HIDE DEF n
<1> QED
  BY <1>6, <1>7, <1>10, <1>11 DEF n

(* Where the words behind options begin.                                   *)
LEMMA PastOptionsType ==
  ASSUME NEW args \in Seq(STRING), NEW i \in 1 .. Len(args) + 1, NEW skipped, NEW valued
  PROVE  PastOptions(args, i, skipped, valued) \in i .. Len(args) + 1
<1> DEFINE n == Len(args)
           option(k) == args[k] # "--" /\ args[k] \in Dashed \cup skipped \cup valued
           S == {k \in 1 .. n : ~option(k)}
           N == [k \in 1 .. n |-> IF args[k] \in valued /\ k < n THEN k + 2 ELSE k + 1]
           end == WalkEnd(n, S, N, i)
           p == PastOptions(args, i, skipped, valued)
<1>1. n \in Nat /\ i \in 1 .. n + 1
  OBVIOUS
<1>2. Ahead(n, S, N)
  <2> SUFFICES ASSUME NEW k \in (1 .. n) \ S PROVE N[k] \in k + 1 .. n + 1
    BY DEF Ahead
  <2>1. N[k] = IF args[k] \in valued /\ k < n THEN k + 2 ELSE k + 1
    OBVIOUS
  <2> HIDE DEF N, S
  <2> QED
    BY <1>1, <2>1
<1>3. p = IF end <= n /\ args[end] = "--" THEN end + 1 ELSE end
  BY DEF PastOptions
<1>4. end \in i .. n + 1
  <2> HIDE DEF S, N, n
  <2> QED BY <1>1, <1>2, WalkEndType
<1> HIDE DEF end, p, n
<1>5. p \in i .. n + 1
  BY <1>1, <1>3, <1>4
<1> QED
  BY <1>5 DEF p, n

(* A command's first word may as well be put with what is in front of it.  *)
LEMMA FirstWordMoved ==
  ASSUME NEW S, NEW s \in Seq(S), Len(s) > 0, NEW a \in S
  PROVE  <<a, s[1]>> \o Tail(s) = <<a>> \o s
<1> DEFINE f == <<a, s[1]>>
           g == <<a>>
           t == Tail(s)
           l == f \o t
           r == g \o s
<1>1. Len(s) \in Nat /\ s[1] \in S
  OBVIOUS
<1>2. /\ f \in Seq(S) /\ Len(f) = 2 /\ f[1] = a /\ f[2] = s[1]
      /\ g \in Seq(S) /\ Len(g) = 1 /\ g[1] = a
  BY <1>1, PairType
<1>3. /\ t \in Seq(S) /\ Len(t) = Len(s) - 1
      /\ \A i \in 1 .. Len(s) - 1 : t[i] = s[i + 1]
  BY TailIsSequence
<1> HIDE DEF f, g, t
<1>4. /\ l \in Seq(S) /\ Len(l) = Len(f) + Len(t)
      /\ \A i \in 1 .. Len(f) : l[i] = f[i]
      /\ \A i \in 1 .. Len(t) : l[i + Len(f)] = t[i]
  <2>1. f \in Seq(S) /\ t \in Seq(S)
    BY <1>2, <1>3
  <2> QED
    BY <2>1
<1>5. /\ r \in Seq(S) /\ Len(r) = Len(g) + Len(s)
      /\ \A i \in 1 .. Len(g) : r[i] = g[i]
      /\ \A i \in 1 .. Len(s) : r[i + Len(g)] = s[i]
  <2>1. g \in Seq(S)
    BY <1>2
  <2> QED
    BY <2>1
<1> HIDE DEF l, r
<1>6. ASSUME NEW i \in 1 .. Len(s) + 1 PROVE l[i] = r[i]
  <2>1. CASE i = 1
    BY <1>1, <1>2, <1>4, <1>5, <2>1
  <2>2. CASE i = 2
    <3>1. l[2] = s[1]
      BY <1>2, <1>4
    <3>2. r[1 + Len(g)] = s[1]
      BY <1>1, <1>5
    <3> QED
      BY <1>2, <2>2, <3>1, <3>2
  <2>3. CASE i > 2
    <3>1. i - 2 \in 1 .. Len(s) - 1 /\ i - 2 + 1 = i - 1 /\ i - 2 + 2 = i
          /\ i - 1 \in 1 .. Len(s) /\ i - 1 + 1 = i
      BY <1>1, <2>3
    <3>2. l[i - 2 + Len(f)] = t[i - 2] /\ t[i - 2] = s[i - 2 + 1]
      BY <1>3, <1>4, <3>1
    <3>3. r[i - 1 + Len(g)] = s[i - 1]
      BY <1>5, <3>1
    <3> QED
      BY <1>2, <3>1, <3>2, <3>3
  <2> QED
    BY <1>1, <2>1, <2>2, <2>3
<1>7. Len(l) = Len(s) + 1 /\ Len(r) = Len(s) + 1
  BY <1>1, <1>2, <1>3, <1>4, <1>5
<1>8. l = r
  <2>1. \A i \in 1 .. Len(l) : l[i] = r[i]
    BY <1>6, <1>7
  <2> QED
    BY <1>4, <1>5, <1>7, <2>1, SameSequence
<1> QED
  BY <1>8 DEF f, g, t, l, r

(* What the rewrite makes of the words of a command.                       *)
OwnCommand(given) ==
  LET words == CanonicalRewriteWords(given)
      listing == words[1] \in {"ls", "tree"}
      args == IF listing /\ Len(words) = 1 THEN <<".">> ELSE Tail(words)
  IN  <<"szr", IF listing THEN "ls" ELSE words[1]>> \o args

LEMMA RewriteType ==
  ASSUME NEW given \in Seq(STRING), Len(given) > 0, AutoRewriteCommand(given).ok
  PROVE  /\ given[1] \in Programs
         /\ AutoRewriteCommand(given).structured =>
              /\ AutoRewriteCommand(given).args \in Seq(Spoken)
              /\ OwnCommand(given) = <<"szr">> \o AutoRewriteCommand(given).args
<1> DEFINE words == CanonicalRewriteWords(given)
           route == AutoRewriteCommand(given)
           p == PastOptions(given, 2, {}, NpxValued)
<1>1. words \in Seq(STRING)
  <2>1. Len(given) \in Nat /\ 2 \in 1 .. Len(given) + 1
    OBVIOUS
  <2>2. p \in 2 .. Len(given) + 1
    BY <2>1, PastOptionsType
  <2>3. words = IF given # <<>> /\ given[1] = "npx" THEN From(given, p) ELSE given
    BY DEF CanonicalRewriteWords
  <2> HIDE DEF p
  <2>4. p - 1 \in 0 .. Len(given) /\ p - 1 + 1 = p
    BY <2>1, <2>2
  <2>5. From(given, p) \in Seq(STRING)
    BY <2>4, SuffixType DEF From
  <2> QED
    BY <2>3, <2>5
<1>2. given[1] = "npx" \/ words = given
  BY DEF CanonicalRewriteWords
<1>3. route = IF words = <<>> THEN Unrouted
              ELSE IF words[1] \in {"ls", "tree"} THEN RewriteLS(words)
              ELSE IF words[1] = "tsc" THEN Structured(words)
              ELSE IF words[1] = "git" /\ Len(words) > 1
                      /\ words[2] \in {"status", "diff", "log", "show", "ls-files"} THEN Verbatim
              ELSE Unrouted
  BY DEF AutoRewriteCommand
<1>4. OwnCommand(given) =
        <<"szr", IF words[1] \in {"ls", "tree"} THEN "ls" ELSE words[1]>>
          \o (IF words[1] \in {"ls", "tree"} /\ Len(words) = 1 THEN <<".">> ELSE Tail(words))
  BY DEF OwnCommand
<1>5. route.ok
  OBVIOUS
<1> HIDE DEF words, route, p
<1>6. ~Unrouted.ok /\ ~Verbatim.structured /\ \A a : Structured(a).args = a
  BY DEF Unrouted, Verbatim, Structured
<1>7. words # <<>>
  BY <1>3, <1>5, <1>6
<1>8. Len(words) \in Nat /\ Len(words) > 0
  BY <1>1, <1>7
<1>9. words[1] \in {"ls", "tree", "tsc", "git"}
  BY <1>3, <1>5, <1>6
<1>10. given[1] \in Programs
  BY <1>2, <1>9 DEF Programs
<1>11. "ls" \in Spoken /\ "." \in Spoken /\ "szr" \in Spoken
  BY DEF Spoken, Programs
<1>12. words \in Seq(Spoken)
  <2>1. \A i \in 1 .. Len(words) : words[i] \in Spoken
    <3>1. \A i \in 1 .. Len(words) : words[i] \in STRING
      BY <1>1, SequenceIsTuple
    <3> QED
      BY <3>1 DEF Spoken
  <2> QED
    BY <1>1, <2>1, SequenceOfMore
<1>13. ASSUME route.structured
       PROVE  route.args \in Seq(Spoken) /\ OwnCommand(given) = <<"szr">> \o route.args
  <2>1. CASE words[1] \in {"ls", "tree"} /\ Len(words) = 1
    <3>1. route = RewriteLS(words)
      BY <1>3, <1>7, <2>1
    <3>2. RewriteLS(words) = Structured(<<"ls", ".">>)
      BY <2>1 DEF RewriteLS
    <3>3. route.args = <<"ls", ".">>
      BY <1>6, <3>1, <3>2
    <3>4. OwnCommand(given) = <<"szr", "ls">> \o <<".">>
      BY <1>4, <2>1
    <3>5. <<"szr", "ls">> \o <<".">> = <<"szr">> \o <<"ls", ".">>
      <4> DEFINE s == <<"ls", ".">>
      <4>1. s \in Seq(Spoken) /\ Len(s) > 0 /\ s[1] = "ls" /\ Tail(s) = <<".">>
        <5>1. "ls" \in Spoken /\ "." \in Spoken
          BY <1>11
        <5> QED
          BY <5>1, PairType, SecondType
      <4>2. "szr" \in Spoken
        BY <1>11
      <4> HIDE DEF s
      <4>3. <<"szr", s[1]>> \o Tail(s) = <<"szr">> \o s
        BY <4>1, <4>2, FirstWordMoved
      <4> QED
        BY <4>1, <4>3 DEF s
    <3>6. <<"ls", ".">> \in Seq(Spoken)
      <4>1. "ls" \in Spoken /\ "." \in Spoken
        BY <1>11
      <4> QED
        BY <4>1, PairType
    <3> QED
      BY <3>3, <3>4, <3>5, <3>6
  <2>2. CASE words[1] \in {"ls", "tree"} /\ Len(words) # 1
    <3>1. route = RewriteLS(words)
      BY <1>3, <1>7, <2>2
    <3>2. Len(words) = 2 /\ route = Structured(<<"ls", words[2]>>)
      BY <1>5, <1>6, <2>2, <3>1 DEF RewriteLS
    <3> DEFINE s == <<"ls", words[2]>>
    <3>3. route.args = s
      BY <1>6, <3>2
    <3>4. words[2] \in Spoken /\ Tail(words) = <<words[2]>>
      BY <1>12, <3>2, SecondType
    <3>5. s \in Seq(Spoken) /\ Len(s) > 0 /\ s[1] = "ls" /\ Tail(s) = <<words[2]>>
      <4>1. "ls" \in Spoken
        BY <1>11
      <4> QED
        BY <3>4, <4>1, PairType, SecondType
    <3>6. "szr" \in Spoken
      BY <1>11
    <3>7. OwnCommand(given) = <<"szr", "ls">> \o Tail(words)
      BY <1>4, <2>2
    <3> HIDE DEF s
    <3>8. <<"szr", s[1]>> \o Tail(s) = <<"szr">> \o s
      BY <3>5, <3>6, FirstWordMoved
    <3> QED
      BY <3>3, <3>4, <3>5, <3>7, <3>8
  <2>3. CASE words[1] \notin {"ls", "tree"}
    <3>1. route = Structured(words)
      BY <1>3, <1>5, <1>6, <1>7, <1>13, <2>3
    <3>2. OwnCommand(given) = <<"szr", words[1]>> \o Tail(words)
      BY <1>4, <2>3
    <3>3. <<"szr", words[1]>> \o Tail(words) = <<"szr">> \o words
      <4>1. "szr" \in Spoken
        BY <1>11
      <4> QED
        BY <1>8, <1>12, <4>1, FirstWordMoved
    <3> QED
      BY <1>6, <1>12, <3>1, <3>2, <3>3
  <2> QED
    BY <2>1, <2>2, <2>3
<1> QED
  BY <1>10, <1>13 DEF route

(* What is typed, as lexemes.                                              *)
LEMMA TypedIsSpoken ==
  ASSUME LinesAssumption, NEW L, NEW way \in DOMAIN Typable, L \in Seq(Typable[way])
  PROVE  L \in Seq(Lexemes)
<1> DEFINE T == [word : STRING, form : Forms]
<1>1. L \in Seq(T)
  BY WordsType
<1>2. T \subseteq Lexemes
  BY DEF Lexemes, Spoken
<1> HIDE DEF T
<1>3. \A i \in 1 .. Len(L) : L[i] \in Lexemes
  BY <1>1, <1>2, SequenceIsTuple
<1> QED
  BY <1>1, <1>3, SequenceOfMore

(* A command of szr's own, quoted word by word, is taken word by word.     *)
LEMMA QuotedMeaning ==
  ASSUME LinesAssumption, NEW args \in Seq(Spoken)
  PROVE  LET own == <<"szr">> \o args
         IN  Meaning(<<Bare("szr")>> \o JoinShellWords(args))
               = [i \in DOMAIN own |-> Literal(own[i])]
<1> DEFINE own == <<"szr">> \o args
           g == <<"szr">>
           H == <<Bare("szr")>>
           Q == JoinShellWords(args)
           M == H \o Q
           n == Len(args) + 1
<1>1. Len(args) \in Nat /\ \A i \in 1 .. Len(args) : args[i] \in Spoken
  OBVIOUS
<1>2. g \in Seq(Spoken) /\ Len(g) = 1 /\ g[1] = "szr"
  <2>1. "szr" \in Spoken
    BY DEF Spoken, Programs
  <2> QED
    BY <2>1, PairType
<1>3. H \in Seq(Lexemes) /\ Len(H) = 1 /\ H[1] = Bare("szr")
  <2>1. Bare("szr") \in Lexemes
    BY DEF Bare, Lexemes, Spoken, Programs, Forms
  <2> QED
    BY <2>1, PairType
<1>4. /\ Q \in Seq(Lexemes) /\ Len(Q) = Len(args)
      /\ \A i \in 1 .. Len(args) : Q[i] = QuoteShellWord(args[i])
  <2>1. Q = [i \in 1 .. Len(args) |-> QuoteShellWord(args[i])]
    <3>1. Q = [i \in DOMAIN args |-> QuoteShellWord(args[i])]
      BY DEF JoinShellWords
    <3>2. DOMAIN args = 1 .. Len(args)
      OBVIOUS
    <3> HIDE DEF Q
    <3> QED BY <3>1, <3>2, Zenon
  <2>2. \A w \in Spoken : QuoteShellWord(w) \in Lexemes
    BY DEF QuoteShellWord, Single, Bare, Lexemes, Forms
  <2> DEFINE q == [i \in 1 .. Len(args) |-> QuoteShellWord(args[i])]
  <2>3. q \in [1 .. Len(args) -> Lexemes]
    BY <1>1, <2>2
  <2>4. \A i \in 1 .. Len(args) : q[i] = QuoteShellWord(args[i])
    OBVIOUS
  <2> HIDE DEF q, Q
  <2>5. q \in Seq(Lexemes) /\ Len(q) = Len(args)
    BY <1>1, <2>3, TupleIsSequence
  <2> QED
    BY <2>1, <2>4, <2>5 DEF q
<1> HIDE DEF g, H, Q
<1>5. /\ own \in Seq(Spoken) /\ Len(own) = Len(g) + Len(args)
      /\ \A i \in 1 .. Len(g) : own[i] = g[i]
      /\ \A i \in 1 .. Len(args) : own[i + Len(g)] = args[i]
  <2>1. own = g \o args
    BY DEF g
  <2>2. g \in Seq(Spoken)
    BY <1>2
  <2> HIDE DEF own
  <2> QED
    BY <2>1, <2>2
<1>6. /\ M \in Seq(Lexemes) /\ Len(M) = Len(H) + Len(Q)
      /\ \A i \in 1 .. Len(H) : M[i] = H[i]
      /\ \A i \in 1 .. Len(Q) : M[i + Len(H)] = Q[i]
  <2>1. H \in Seq(Lexemes) /\ Q \in Seq(Lexemes)
    BY <1>3, <1>4
  <2> QED
    BY <2>1
<1> HIDE DEF own, M
<1>7. Len(own) = n /\ Len(M) = n /\ n \in Nat
  BY <1>1, <1>2, <1>3, <1>4, <1>5, <1>6
<1>8. own[1] = "szr" /\ M[1] = Bare("szr")
  BY <1>2, <1>3, <1>5, <1>6
<1>9. ASSUME NEW i \in 1 .. n, i # 1
      PROVE  own[i] \in Spoken /\ M[i] = QuoteShellWord(own[i])
  <2>1. i - 1 \in 1 .. Len(args) /\ i - 1 + 1 = i
    BY <1>1, <1>9
  <2>2. own[i - 1 + Len(g)] = args[i - 1] /\ M[i - 1 + Len(H)] = Q[i - 1]
    BY <1>4, <1>5, <1>6, <2>1
  <2> QED
    BY <1>1, <1>2, <1>3, <1>4, <2>1, <2>2
<1>10. ASSUME NEW i \in 1 .. n
       PROVE  ~Operator(M[i]) /\ ~Risky(M[i]) /\ M[i].word = own[i]
  <2>1. CASE i = 1
    <3>1. M[1].word = "szr" /\ M[1].form = "bare" /\ "szr" \notin Expanding
      <4>1. Bare("szr").word = "szr" /\ Bare("szr").form = "bare"
        BY DEF Bare
      <4>2. "szr" \notin Expanding
        BY DEF LinesAssumption, Programs
      <4> QED
        BY <1>8, <4>1, <4>2
    <3> QED
      BY <1>8, <2>1, <3>1 DEF Operator, Risky
  <2>2. CASE i # 1
    <3> DEFINE w == own[i]
    <3>1. M[i] = IF w \in Unplain THEN Single(w) ELSE Bare(w)
      BY <1>9, <2>2 DEF QuoteShellWord
    <3>2. Expanding \subseteq Unplain
      BY DEF LinesAssumption
    <3> HIDE DEF w
    <3>3. CASE w \in Unplain
      <4>1. M[i].word = w /\ M[i].form = "single"
        BY <3>1, <3>3 DEF Single
      <4> QED
        BY <4>1 DEF Operator, Risky, w
    <3>4. CASE w \notin Unplain
      <4>1. M[i].word = w /\ M[i].form = "bare"
        BY <3>1, <3>4 DEF Bare
      <4> QED
        BY <3>2, <3>4, <4>1 DEF Operator, Risky, w
    <3> QED
      BY <3>3, <3>4
  <2> QED
    BY <2>1, <2>2
<1>11. ASSUME NEW i \in 1 .. n PROVE ~Assigns(M, i)
  <2> SUFFICES ASSUME NEW k \in 1 .. i, k = 1 \/ Operator(M[k - 1]),
                      \A j \in k .. i : Names(M[j])
               PROVE  FALSE
    BY DEF Assigns
  <2>1. k = 1
    <3>1. k # 1 => k - 1 \in 1 .. n
      BY <1>7
    <3> QED
      BY <1>10, <3>1
  <2>2. Names(M[1])
    BY <1>7, <2>1
  <2>3. "szr" \notin Assignments /\ M[1].word = "szr"
    <3>1. Bare("szr").word = "szr"
      BY DEF Bare
    <3>2. "szr" \notin Assignments
      BY DEF LinesAssumption, Programs
    <3> QED
      BY <1>8, <3>1, <3>2
  <2> QED
    BY <2>2, <2>3 DEF Names
<1>12. \A i \in 1 .. n : Meant(M, i) = Literal(own[i])
  <2> SUFFICES ASSUME NEW i \in 1 .. n PROVE Meant(M, i) = Literal(own[i])
    OBVIOUS
  <2>1. Role(M, i) = "word"
    BY <1>10, <1>11 DEF Role
  <2>2. Expands(M, i) = FALSE
    BY <1>10, <1>11 DEF Expands
  <2> QED
    BY <1>10, <2>1, <2>2 DEF Meant, Literal
<1> DEFINE m == Meaning(M)
           V == {Meant(M, i) : i \in 1 .. Len(M)}
<1>13. m \in Seq(V) /\ Len(m) = n /\ \A i \in 1 .. n : m[i] = Meant(M, i)
  BY <1>6, <1>7, MeaningType
<1> HIDE DEF m, V
<1>14. m = [i \in 1 .. n |-> m[i]]
  BY <1>13, SequenceIsTuple
<1>15. DOMAIN own = 1 .. n
  BY <1>5, <1>7, SequenceIsTuple
<1>16. m = [i \in 1 .. n |-> Literal(own[i])]
  BY <1>12, <1>13, <1>14
<1> QED
  BY <1>15, <1>16, Zenon DEF m, M, own, H, Q

(* What is said of an agent's line, of lines without work for a shell.     *)
LEMMA HookFits ==
  ASSUME LinesAssumption, LineTypeOK
  PROVE  HookKeepsTheLine
<1> DEFINE L == typed
           n == Len(L)
           A == Analyze(L)
           parts == SplitProducer(L)
           given == Words(parts.producer)
           route == AutoRewriteCommand(given)
           szr == <<Bare("szr")>>
           proxied == <<Bare("szr"), Bare("proxy")>>
           shellWork == \E i \in DOMAIN L :
             Risky(L[i]) \/ (Operator(L[i]) /\ L[i].word \notin Cuts)
           own == OwnCommand(Words(L))
<1>1. L \in Seq(Lexemes) /\ n \in Nat /\ DOMAIN L = 1 .. n
  <2>1. L \in Seq(Lexemes)
    BY TypedIsSpoken DEF LineTypeOK
  <2> QED
    BY <2>1, SequenceIsTuple
<1>2. SUFFICES ASSUME Meaning(A) # <<>>, ~shellWork
               PROVE  \/ Meaning(A) = <<Literal("szr")>> \o Meaning(L)
                      \/ /\ Meaning(A) = <<Literal("szr"), Literal("proxy")>> \o Meaning(L)
                         /\ ~PlainCommand(Meaning(L))
                      \/ /\ PlainCommand(Meaning(L))
                         /\ Meaning(A) = [i \in DOMAIN own |-> Literal(own[i])]
  BY DEF HookKeepsTheLine, OwnCommand
<1>3. A # <<>>
  <2> SUFFICES ASSUME A = <<>> PROVE Meaning(A) = <<>>
    BY <1>2
  <2>1. <<>> \in Seq(Lexemes) /\ Len(<<>>) = 0
    OBVIOUS
  <2> DEFINE m == Meaning(<<>>)
             V == {Meant(<<>>, i) : i \in 1 .. Len(<<>>)}
  <2>2. m \in Seq(V) /\ Len(m) = Len(<<>>)
    BY <2>1, MeaningType
  <2> HIDE DEF m, V
  <2>3. m = <<>>
    BY <2>1, <2>2
  <2> QED
    BY <2>3 DEF m
<1>4. PICK cut \in 1 .. n + 1 :
        /\ parts = [producer |-> SubSeq(L, 1, cut - 1), suffix |-> From(L, cut)]
        /\ cut <= n => Operator(L[cut]) /\ L[cut].word \in Cuts
        /\ cut > n => \A i \in 1 .. n : ~ (Operator(L[i]) /\ L[i].word \in Cuts)
  BY <1>1, SplitType
<1>5. /\ given # <<>> /\ route.ok
      /\ parts.suffix # <<>> => ~route.structured /\ A = proxied \o L
      /\ parts.suffix = <<>> =>
           A = szr \o (IF route.structured THEN JoinShellWords(route.args) ELSE L)
  BY <1>3 DEF Analyze
<1> HIDE DEF L, n, A, parts, given, route, shellWork, own
<1>6. parts.producer = SubSeq(L, 1, cut - 1) /\ parts.suffix = From(L, cut)
  BY <1>4
<1>7. parts.suffix = <<>> <=> cut > n
  <2>1. cut - 1 \in 0 .. n /\ cut - 1 + 1 = cut
    BY <1>1
  <2>2. Len(From(L, cut)) = n - (cut - 1) /\ From(L, cut) \in Seq(Lexemes)
    BY <1>1, <2>1, SuffixType DEF From, n
  <2> QED
    BY <1>1, <1>6, <2>2
<1>8. /\ given \in Seq(STRING) /\ Len(given) = cut - 1 /\ Len(given) > 0
      /\ L[1].word = given[1] /\ n > 0
  <2> DEFINE q == SubSeq(L, 1, cut - 1)
             T == Typable[asked]
  <2>1. L \in Seq(T) /\ asked \in DOMAIN Typable
    BY DEF LineTypeOK, L
  <2>2. q \in Seq(T) /\ Len(q) = cut - 1 /\ \A i \in 1 .. cut - 1 : q[i] = L[i]
    <3> HIDE DEF T
    <3>1. L \in Seq(T) /\ cut \in 1 .. Len(L) + 1
      BY <2>1 DEF n
    <3> QED
      BY <3>1
  <2> HIDE DEF q
  <2>3. /\ Words(q) \in Seq(STRING) /\ Len(Words(q)) = Len(q)
        /\ \A i \in 1 .. Len(q) : Words(q)[i] = q[i].word
    BY <2>1, <2>2, WordsType
  <2>4. given = Words(q)
    BY <1>6 DEF given, q
  <2>5. Len(given) > 0
    BY <1>5, <2>3, <2>4
  <2> QED
    BY <1>1, <2>2, <2>3, <2>4, <2>5
<1>9. L[1].word \in Programs /\ L[1].word \notin Assignments
  <2>1. given[1] \in Programs
    BY <1>5, <1>8, RewriteType DEF route
  <2> QED
    BY <1>8, <2>1 DEF LinesAssumption
<1>10. Bare("szr") \in Lexemes /\ Bare("proxy") \in Lexemes
       /\ Bare("szr").word = "szr" /\ Bare("proxy").word = "proxy"
       /\ "szr" \in Programs /\ "proxy" \in Programs
  BY DEF Bare, Lexemes, Spoken, Programs, Forms
<1>11. szr \in Seq(Lexemes) /\ Len(szr) = 1 /\ szr[1] = Bare("szr")
       /\ proxied \in Seq(Lexemes) /\ Len(proxied) = 2
       /\ proxied[1] = Bare("szr") /\ proxied[2] = Bare("proxy")
  BY <1>10, PairType
<1> HIDE DEF szr, proxied
<1>12. CASE parts.suffix # <<>>
  <2>1. A = proxied \o L
    BY <1>5, <1>12
  <2>2. Meaning(proxied \o L) = [i \in 1 .. Len(proxied) |-> Literal(proxied[i].word)] \o Meaning(L)
    <3>1. \A i \in 1 .. Len(proxied) : proxied[i] = Bare(proxied[i].word) /\ proxied[i].word \in Programs
      <4> SUFFICES ASSUME NEW i \in 1 .. Len(proxied)
                   PROVE  proxied[i] = Bare(proxied[i].word) /\ proxied[i].word \in Programs
        OBVIOUS
      <4>1. i = 1 \/ i = 2
        BY <1>11
      <4> QED
        BY <1>10, <1>11, <4>1
    <3>2. /\ proxied \in Seq(Lexemes) /\ Len(proxied) > 0 /\ L \in Seq(Lexemes)
          /\ Len(L) > 0 => L[1].word \notin Assignments
      BY <1>1, <1>9, <1>11
    <3> QED
      BY <3>1, <3>2, MeaningBehind
  <2>3. [i \in 1 .. Len(proxied) |-> Literal(proxied[i].word)] = <<Literal("szr"), Literal("proxy")>>
    <3>1. \A i \in 1 .. 2 : Literal(proxied[i].word) = <<Literal("szr"), Literal("proxy")>>[i]
      BY <1>10, <1>11
    <3> QED
      BY <1>11, <3>1
  <2>4. ~PlainCommand(Meaning(L))
    <3>1. cut \in 1 .. n /\ Operator(L[cut])
      BY <1>1, <1>4, <1>7, <1>12
    <3>2. /\ Meaning(L)[cut] = Meant(L, cut) /\ DOMAIN Meaning(L) = 1 .. n
      BY <1>1, <3>1, MeaningType DEF n
    <3>3. Meant(L, cut)[1] = "operator"
      BY <3>1 DEF Meant, Role
    <3> QED
      BY <3>1, <3>2, <3>3 DEF PlainCommand
  <2> QED
    BY <2>1, <2>2, <2>3, <2>4
<1>13. CASE parts.suffix = <<>> /\ ~route.structured
  <2>1. A = szr \o L
    BY <1>5, <1>13
  <2>2. Meaning(szr \o L) = [i \in 1 .. Len(szr) |-> Literal(szr[i].word)] \o Meaning(L)
    <3>1. \A i \in 1 .. Len(szr) : szr[i] = Bare(szr[i].word) /\ szr[i].word \in Programs
      BY <1>10, <1>11
    <3>2. /\ szr \in Seq(Lexemes) /\ Len(szr) > 0 /\ L \in Seq(Lexemes)
          /\ Len(L) > 0 => L[1].word \notin Assignments
      BY <1>1, <1>9, <1>11
    <3> QED
      BY <3>1, <3>2, MeaningBehind
  <2>3. [i \in 1 .. Len(szr) |-> Literal(szr[i].word)] = <<Literal("szr")>>
    <3>1. \A i \in 1 .. 1 : Literal(szr[i].word) = <<Literal("szr")>>[i]
      BY <1>10, <1>11
    <3> QED
      BY <1>11, <3>1
  <2> QED
    BY <2>1, <2>2, <2>3
<1>14. CASE parts.suffix = <<>> /\ route.structured
  <2>1. cut = n + 1
    BY <1>1, <1>7, <1>14
  <2>2. \A i \in 1 .. n : ~Operator(L[i])
    BY <1>1, <1>2, <1>4, <2>1 DEF shellWork
  <2>3. PlainCommand(Meaning(L))
    <3> SUFFICES ASSUME NEW i \in 1 .. n PROVE Meaning(L)[i][1] # "operator"
      BY <1>1, MeaningType DEF PlainCommand, n
    <3>1. Meaning(L)[i] = Meant(L, i)
      BY <1>1, MeaningType DEF n
    <3>2. Meant(L, i)[1] # "operator"
      BY <2>2 DEF Meant, Role
    <3> QED
      BY <3>1, <3>2
  <2>4. given = Words(L)
    <3>1. SubSeq(L, 1, cut - 1) = L
      <4>1. cut - 1 = Len(L)
        BY <1>1, <2>1 DEF n
      <4>2. L \in Seq(Lexemes)
        BY <1>1
      <4>3. SubSeq(L, 1, Len(L)) = L
        BY <4>2
      <4> QED
        BY <4>1, <4>3
    <3> QED
      BY <1>6, <3>1 DEF given
  <2>5. route.args \in Seq(Spoken) /\ own = <<"szr">> \o route.args
    BY <1>5, <1>8, <1>14, <2>4, RewriteType DEF route, own
  <2>6. A = szr \o JoinShellWords(route.args)
    BY <1>5, <1>14
  <2>7. Meaning(<<Bare("szr")>> \o JoinShellWords(route.args)) = [i \in DOMAIN own |-> Literal(own[i])]
    <3>1. route.args \in Seq(Spoken) /\ own = <<"szr">> \o route.args
      BY <2>5
    <3> QED
      BY <3>1, QuotedMeaning
  <2> QED
    BY <2>3, <2>6, <2>7 DEF szr
<1> QED
  BY <1>12, <1>13, <1>14

(* A line rewritten for an agent's hook means szr in front of what was     *)
(* typed, or szr's own command for it with its words taken one by one.     *)
THEOREM HookMeansTheLine == LineSpec => []HookKeepsTheLine
<1>1. LineTypeOK => HookKeepsTheLine
  BY LinesAreLines, HookFits
<1> QED
  BY <1>1, LineTypeCorrect, PTL

-----------------------------------------------------------------------------
(* Command lines: lists of flags put into a command.                     *)

(* What a list of words is once others are put into it: h says where its   *)
(* own are, the first p where they were, the others are in X and none of   *)
(* them is behind one of Y that is behind the first p.                     *)
Widens(b, a, X, p, Y, h) ==
  /\ h \in [1 .. Len(b) -> 1 .. Len(a)]
  /\ \A i, j \in 1 .. Len(b) : i < j => h[i] < h[j]
  /\ \A i \in 1 .. Len(b) : a[h[i]] = b[i]
  /\ \A i \in 1 .. Len(b) : i <= p => h[i] = i
  /\ \A k \in 1 .. Len(a) : (\A i \in 1 .. Len(b) : h[i] # k) =>
       /\ k > p /\ a[k] \in X
       /\ \A i \in 1 .. Len(b) : p < i /\ h[i] < k => b[i] \notin Y

Widened(b, a, X, p, Y) == \E h : Widens(b, a, X, p, Y, h)

(* Nothing put in.                                                         *)
LEMMA WidenedSelf ==
  ASSUME NEW S, NEW b \in Seq(S), NEW X, NEW p, NEW Y
  PROVE  Widened(b, b, X, p, Y)
<1> DEFINE h == [i \in 1 .. Len(b) |-> i]
<1>1. Len(b) \in Nat
  OBVIOUS
<1>2. h \in [1 .. Len(b) -> 1 .. Len(b)] /\ \A i \in 1 .. Len(b) : h[i] = i
  OBVIOUS
<1> HIDE DEF h
<1>3. Widens(b, b, X, p, Y, h)
  BY <1>1, <1>2 DEF Widens
<1> QED
  BY <1>3 DEF Widened

(* More put in.                                                            *)
LEMMA WidenedTwice ==
  ASSUME NEW S, NEW a \in Seq(S), NEW b \in Seq(S), NEW c \in Seq(S), NEW X, NEW p \in Nat, NEW Y,
         Widened(b, c, X, p, Y), Widened(c, a, X, p, Y)
  PROVE  Widened(b, a, X, p, Y)
<1>1. PICK h : Widens(b, c, X, p, Y, h)
  BY DEF Widened
<1>2. PICK g : Widens(c, a, X, p, Y, g)
  BY DEF Widened
<1> DEFINE f == [i \in 1 .. Len(b) |-> g[h[i]]]
<1>3. Len(a) \in Nat /\ Len(b) \in Nat /\ Len(c) \in Nat
  OBVIOUS
<1>4. /\ \A i \in 1 .. Len(b) : h[i] \in 1 .. Len(c) /\ c[h[i]] = b[i] /\ (i <= p => h[i] = i)
      /\ \A i, j \in 1 .. Len(b) : i < j => h[i] < h[j]
  BY <1>1 DEF Widens
<1>5. /\ \A i \in 1 .. Len(c) : g[i] \in 1 .. Len(a) /\ a[g[i]] = c[i] /\ (i <= p => g[i] = i)
      /\ \A i, j \in 1 .. Len(c) : i < j => g[i] < g[j]
  BY <1>2 DEF Widens
<1>6. f \in [1 .. Len(b) -> 1 .. Len(a)] /\ \A i \in 1 .. Len(b) : f[i] = g[h[i]]
  BY <1>4, <1>5
<1> HIDE DEF f
<1>7. ASSUME NEW k \in 1 .. Len(a), \A i \in 1 .. Len(b) : f[i] # k
      PROVE  /\ k > p /\ a[k] \in X
             /\ \A i \in 1 .. Len(b) : p < i /\ f[i] < k => b[i] \notin Y
  <2>1. CASE \E j \in 1 .. Len(c) : g[j] = k
    <3>1. PICK j \in 1 .. Len(c) : g[j] = k
      BY <2>1
    <3>2. \A i \in 1 .. Len(b) : h[i] # j
      BY <1>6, <1>7, <3>1
    <3>3. /\ j > p /\ c[j] \in X
          /\ \A i \in 1 .. Len(b) : p < i /\ h[i] < j => b[i] \notin Y
      BY <1>1, <3>2 DEF Widens
    <3>4. k > p
      <4>1. ASSUME k <= p PROVE FALSE
        <5>1. k \in 1 .. Len(c) /\ k < j
          BY <1>3, <3>3, <4>1
        <5>2. g[k] = k /\ g[k] < g[j]
          BY <1>5, <4>1, <5>1
        <5> QED
          BY <1>3, <3>1, <5>2
      <4> QED
        BY <1>3, <4>1
    <3>5. ASSUME NEW i \in 1 .. Len(b), p < i, f[i] < k PROVE b[i] \notin Y
      <4>1. h[i] \in 1 .. Len(c) /\ g[h[i]] < g[j] /\ g[h[i]] \in 1 .. Len(a) /\ g[j] \in 1 .. Len(a)
        BY <1>4, <1>5, <1>6, <3>1, <3>5
      <4>2. ~ (j < h[i]) /\ j # h[i]
        <5>1. j < h[i] => g[j] < g[h[i]]
          BY <1>5, <4>1
        <5> QED
          BY <1>3, <4>1, <5>1
      <4>3. h[i] < j
        BY <1>3, <4>1, <4>2
      <4> QED
        BY <3>3, <3>5, <4>3
    <3> QED
      BY <1>5, <3>1, <3>3, <3>4, <3>5
  <2>2. CASE \A j \in 1 .. Len(c) : g[j] # k
    <3>1. /\ k > p /\ a[k] \in X
          /\ \A j \in 1 .. Len(c) : p < j /\ g[j] < k => c[j] \notin Y
      BY <1>2, <2>2 DEF Widens
    <3>2. ASSUME NEW i \in 1 .. Len(b), p < i, f[i] < k PROVE b[i] \notin Y
      <4>1. h[i] \in 1 .. Len(c) /\ g[h[i]] < k
        BY <1>4, <1>6, <3>2
      <4>2. p < h[i]
        <5>1. ASSUME h[i] <= p PROVE FALSE
          <6> DEFINE m == h[i]
          <6>1. m \in 1 .. Len(b) /\ m < i /\ m <= p
            BY <1>3, <3>2, <4>1, <5>1
          <6>2. h[m] = m /\ h[m] < h[i]
            BY <1>4, <6>1
          <6> QED
            BY <1>3, <4>1, <6>2
        <5> QED
          BY <1>3, <4>1, <5>1
      <4> QED
        BY <1>4, <3>1, <4>1, <4>2
    <3> QED
      BY <3>1, <3>2
  <2> QED
    BY <2>1, <2>2
<1>8. ASSUME NEW i \in 1 .. Len(b), NEW j \in 1 .. Len(b), i < j PROVE f[i] < f[j]
  BY <1>4, <1>5, <1>6, <1>8
<1>9. \A i \in 1 .. Len(b) : a[f[i]] = b[i] /\ (i <= p => f[i] = i)
  BY <1>4, <1>5, <1>6
<1>10. Widens(b, a, X, p, Y, f)
  BY <1>6, <1>7, <1>8, <1>9 DEF Widens
<1> QED
  BY <1>10 DEF Widened

(* Two lists one behind the other.                                         *)
LEMMA Joined ==
  ASSUME NEW S, NEW y \in Seq(S), NEW z \in Seq(S)
  PROVE  /\ y \o z \in Seq(S) /\ Len(y \o z) = Len(y) + Len(z)
         /\ \A i \in 1 .. Len(y) : (y \o z)[i] = y[i]
         /\ \A i \in 1 .. Len(z) : (y \o z)[i + Len(y)] = z[i]
OBVIOUS

(* A list of words put in at one place.                                    *)
LEMMA WidenedAt ==
  ASSUME NEW S, NEW b \in Seq(S), NEW l \in Seq(S), NEW q \in 1 .. Len(b),
         NEW X, NEW p \in Nat, p <= q, NEW Y, \A k \in 1 .. Len(l) : l[k] \in X,
         \A i \in p + 1 .. q : b[i] \notin Y
  PROVE  LET a == SubSeq(b, 1, q) \o l \o From(b, q + 1)
         IN  a \in Seq(S) /\ Len(a) = Len(b) + Len(l) /\ Widened(b, a, X, p, Y)
<1> DEFINE n == Len(b)
           m == Len(l)
           x == SubSeq(b, 1, q)
           y == x \o l
           z == From(b, q + 1)
           a == y \o z
           h == [i \in 1 .. n |-> IF i <= q THEN i ELSE i + m]
<1>1. n \in Nat /\ m \in Nat /\ q \in 1 .. n
  OBVIOUS
<1>2. x \in Seq(S) /\ Len(x) = q /\ \A i \in 1 .. q : x[i] = b[i]
  OBVIOUS
<1>3. z \in Seq(S) /\ Len(z) = n - q /\ \A i \in 1 .. n - q : z[i] = b[i + q]
  <2>1. q \in 0 .. Len(b)
    OBVIOUS
  <2> QED
    BY <2>1, SuffixType DEF From
<1> HIDE DEF x, z
<1>4. /\ y \in Seq(S) /\ Len(y) = q + m
      /\ \A i \in 1 .. q : y[i] = b[i]
      /\ \A i \in 1 .. m : y[i + q] = l[i]
  <2>1. /\ y \in Seq(S) /\ Len(y) = Len(x) + Len(l)
        /\ \A i \in 1 .. Len(x) : y[i] = x[i]
        /\ \A i \in 1 .. Len(l) : y[i + Len(x)] = l[i]
    BY <1>2
  <2> HIDE DEF y
  <2> QED
    BY <1>2, <2>1
<1> HIDE DEF y
<1>5. /\ a \in Seq(S) /\ Len(a) = n + m
      /\ \A i \in 1 .. q : a[i] = b[i]
      /\ \A i \in 1 .. m : a[i + q] = l[i]
      /\ \A i \in 1 .. n - q : a[i + q + m] = b[i + q]
  <2>1. /\ a \in Seq(S) /\ Len(a) = Len(y) + Len(z)
        /\ \A i \in 1 .. Len(y) : a[i] = y[i]
        /\ \A i \in 1 .. Len(z) : a[i + Len(y)] = z[i]
    <3>1. y \in Seq(S) /\ z \in Seq(S)
      BY <1>3, <1>4
    <3> QED
      BY <3>1, Joined
  <2> HIDE DEF a, n, m
  <2>2. Len(a) = n + m
    BY <1>1, <1>3, <1>4, <2>1
  <2>3. \A i \in 1 .. q : a[i] = b[i]
    BY <1>1, <1>4, <2>1
  <2>4. \A i \in 1 .. m : a[i + q] = l[i]
    <3>1. \A i \in 1 .. m : i + q \in 1 .. q + m
      BY <1>1
    <3> QED
      BY <1>4, <2>1, <3>1
  <2>5. \A i \in 1 .. n - q : a[i + q + m] = b[i + q]
    <3>1. \A i \in 1 .. n - q : i + (q + m) = i + q + m
      BY <1>1
    <3>2. \A i \in 1 .. n - q : a[i + (q + m)] = z[i]
      BY <1>3, <1>4, <2>1
    <3> QED
      BY <1>3, <3>1, <3>2
  <2> QED
    BY <2>1, <2>2, <2>3, <2>4, <2>5
<1> HIDE DEF a
<1>6. h \in [1 .. n -> 1 .. Len(a)] /\ \A i \in 1 .. n : h[i] = IF i <= q THEN i ELSE i + m
  <2> HIDE DEF n, m
  <2> QED BY <1>1, <1>5
<1> HIDE DEF h
<1>7. \A k \in 1 .. m : l[k] \in X
  OBVIOUS
<1>8. \A i \in p + 1 .. q : b[i] \notin Y
  OBVIOUS
<1>9. p \in Nat /\ p <= q
  OBVIOUS
<1>10. Len(b) = n
  OBVIOUS
<1> HIDE DEF n, m
<1>11. ASSUME NEW i \in 1 .. n PROVE a[h[i]] = b[i] /\ (i <= p => h[i] = i)
  <2>1. CASE i <= q
    BY <1>1, <1>5, <1>6, <2>1
  <2>2. CASE i > q
    <3>1. i - q \in 1 .. n - q /\ i - q + q = i /\ i - q + q + m = i + m
      BY <1>1, <2>2
    <3>2. a[i + m] = b[i]
      BY <1>5, <3>1
    <3> QED
      BY <1>1, <1>6, <1>9, <2>2, <3>2
  <2> QED
    BY <1>1, <2>1, <2>2
<1>12. ASSUME NEW k \in 1 .. Len(a), \A i \in 1 .. n : h[i] # k
       PROVE  /\ k > p /\ a[k] \in X
              /\ \A i \in 1 .. n : p < i /\ h[i] < k => b[i] \notin Y
  <2>1. k > q
    <3>1. k <= q => k \in 1 .. n /\ h[k] = k
      BY <1>1, <1>5, <1>6
    <3> QED
      BY <1>1, <1>5, <1>12, <3>1
  <2>2. k <= q + m
    <3>1. k > q + m => k - m \in 1 .. n /\ ~ (k - m <= q) /\ k - m + m = k
      BY <1>1, <1>5
    <3>2. k > q + m => h[k - m] = k
      BY <1>6, <3>1
    <3> QED
      BY <1>1, <1>5, <1>12, <3>1, <3>2
  <2>3. k - q \in 1 .. m /\ k - q + q = k
    BY <1>1, <1>5, <2>1, <2>2
  <2>4. a[k] \in X
    BY <1>5, <1>7, <2>3
  <2>5. ASSUME NEW i \in 1 .. n, p < i, h[i] < k PROVE b[i] \notin Y
    <3>1. i <= q
      BY <1>1, <1>5, <1>6, <2>2, <2>5
    <3>2. i \in p + 1 .. q
      BY <1>1, <1>9, <2>5, <3>1
    <3> QED
      BY <1>8, <3>2
  <2> QED
    BY <1>1, <1>5, <1>9, <2>1, <2>4, <2>5
<1>13. \A i, j \in 1 .. n : i < j => h[i] < h[j]
  BY <1>1, <1>6
<1>14. Widens(b, a, X, p, Y, h)
  BY <1>6, <1>10, <1>11, <1>12, <1>13 DEF Widens
<1>15. Widened(b, a, X, p, Y)
  BY <1>14 DEF Widened
<1> QED
  BY <1>5, <1>10, <1>15 DEF a, y, x, z, m

(* What one list of flags makes of a command.                              *)
LEMMA EditedType ==
  ASSUME LinesAssumption, NEW cur \in Seq(STRING), Len(cur) > 0,
         NEW e, e.add \in Seq(STRING), e.place \in Places,
         NEW X, \A k \in 1 .. Len(e.add) : e.add[k] \in X,
         NEW Y, Y \subseteq {"--"}, e.place = "end" => Y = {}
  PROVE  /\ Edited(cur, e) \in Seq(STRING) /\ Len(Edited(cur, e)) > 0
         /\ Widened(cur, Edited(cur, e), X, 1, Y)
<1> DEFINE n == Len(cur)
           slot == Slot(cur, e.place)
           T == {i \in 2 .. n : cur[i] = "--"}
<1>1. n \in Nat /\ n > 0
  OBVIOUS
<1>2. CASE slot = 0 \/ LeftOut(e, Tail(cur))
  <2>1. Edited(cur, e) = cur
    BY <1>2 DEF Edited
  <2>2. Widened(cur, cur, X, 1, Y)
    BY WidenedSelf
  <2> QED
    BY <2>1, <2>2
<1>3. CASE ~ (slot = 0 \/ LeftOut(e, Tail(cur)))
  <2>1. Edited(cur, e) = SubSeq(cur, 1, slot) \o e.add \o From(cur, slot + 1)
    BY <1>3 DEF Edited, Places
  <2>2. slot = IF e.place = "head" THEN 1
               ELSE IF e.place = "second" THEN IF n > 1 /\ cur[2] = "." THEN 2 ELSE 0
               ELSE IF e.place = "terminator" /\ T # {} THEN Min(T) - 1
               ELSE n
    BY DEF Slot
  <2> HIDE DEF slot
  <2>3. T \subseteq 2 .. n /\ \A i \in 2 .. n : cur[i] = "--" => i \in T
    OBVIOUS
  <2>4. T # {} => Min(T) \in T /\ \A i \in T : Min(T) <= i
    <3> SUFFICES ASSUME T # {} PROVE Min(T) \in T /\ \A i \in T : Min(T) <= i
      OBVIOUS
    <3>1. PICK t \in T : \A m \in T : t <= m
      <4>1. T \in SUBSET Nat
        BY <1>1
      <4> HIDE DEF T
      <4> QED BY <4>1, LeastNatural
    <3>2. Min(T) = CHOOSE x \in T : \A y \in T : x <= y
      BY DEF Min
    <3> HIDE DEF T
    <3> QED
      BY <3>1, <3>2
  <2> DEFINE least == Min(T)
  <2> HIDE DEF T, least, n
  <2> DEFINE Room == slot \in 1 .. n /\ 1 <= slot /\ \A i \in 1 + 1 .. slot : cur[i] \notin Y
  <2>5. Room
    <3>1. CASE e.place = "head"
      BY <1>1, <2>2, <3>1
    <3>2. CASE e.place = "second"
      <4>1. slot = 2 /\ n > 1 /\ cur[2] = "."
        BY <1>3, <2>2, <3>2
      <4>2. \A i \in 1 + 1 .. slot : i = 2
        BY <4>1
      <4>3. "." # "--"
        OBVIOUS
      <4>4. "." \notin Y
        BY <4>3
      <4>5. slot \in 1 .. n /\ 1 <= slot
        BY <1>1, <4>1
      <4> QED
        BY <4>1, <4>2, <4>4, <4>5
    <3>3. CASE e.place = "terminator" /\ T # {}
      <4>1. slot = least - 1 /\ least \in 2 .. n /\ \A i \in T : least <= i
        BY <2>2, <2>3, <2>4, <3>3 DEF least
      <4>2. \A i \in 1 + 1 .. slot : i \in 2 .. n /\ ~ (least <= i)
        BY <1>1, <4>1
      <4>3. slot \in 1 .. n /\ 1 <= slot
        BY <1>1, <4>1
      <4>4. \A i \in 1 + 1 .. slot : cur[i] # "--"
        BY <2>3, <4>1, <4>2
      <4>5. \A v : v # "--" => v \notin Y
        OBVIOUS
      <4>6. \A i \in 1 + 1 .. slot : cur[i] \notin Y
        BY <4>4, <4>5
      <4> QED
        BY <4>3, <4>6 DEF Room
    <3>4. CASE e.place = "terminator" /\ T = {}
      <4>1. slot = n
        BY <2>2, <3>4
      <4>2. \A i \in 1 + 1 .. slot : cur[i] # "--"
        BY <2>3, <3>4, <4>1
      <4>3. \A v : v # "--" => v \notin Y
        OBVIOUS
      <4>4. \A i \in 1 + 1 .. slot : cur[i] \notin Y
        BY <4>2, <4>3
      <4>5. slot \in 1 .. n /\ 1 <= slot
        BY <1>1, <4>1
      <4> QED
        BY <4>4, <4>5
    <3>5. CASE e.place = "end"
      <4>1. slot = n /\ Y = {}
        BY <2>2, <3>5
      <4> QED
        BY <1>1, <4>1
    <3>6. \/ e.place = "head" \/ e.place = "second" \/ e.place = "end"
          \/ e.place = "terminator" /\ T # {}
          \/ e.place = "terminator" /\ T = {}
      <4>1. e.place \in {"head", "second", "terminator", "end"}
        BY DEF Places
      <4> QED
        BY <4>1
    <3> HIDE DEF Room
    <3> QED
      BY <3>1, <3>2, <3>3, <3>4, <3>5, <3>6
  <2> DEFINE l == e.add
             a == SubSeq(cur, 1, slot) \o l \o From(cur, slot + 1)
  <2>6. l \in Seq(STRING) /\ \A k \in 1 .. Len(l) : l[k] \in X
    OBVIOUS
  <2>7. Len(l) \in Nat
    BY <2>6
  <2>8. slot \in 1 .. Len(cur) /\ 1 \in Nat
    BY <2>5 DEF n
  <2>9. a \in Seq(STRING) /\ Len(a) = Len(cur) + Len(l) /\ Widened(cur, a, X, 1, Y)
    <3> HIDE DEF l
    <3> QED BY <2>5, <2>6, <2>8, WidenedAt
  <2>10. Edited(cur, e) = a
    BY <2>1
  <2> HIDE DEF a, l
  <2>11. Len(a) > 0
    BY <1>1, <2>7, <2>9 DEF n
  <2> QED
    BY <2>9, <2>10, <2>11
<1> QED
  BY <1>2, <1>3

(* No list makes nothing of it.                                            *)
LEMMA NothingRewritten ==
  ASSUME NEW command
  PROVE  Rewritten(command, <<>>) = command
<1> DEFINE F(f) == [i \in 0 .. 0 |-> IF i = 0 THEN command ELSE Edited(f[i - 1], <<>>[i])]
           g == [i \in 0 .. 0 |-> command]
           after == CHOOSE f : f = F(f)
<1>1. Rewritten(command, <<>>) = after[0]
  <2>1. Len(<<>>) = 0
    OBVIOUS
  <2> QED
    BY <2>1 DEF Rewritten
<1>2. g = F(g)
  <2>1. \A i \in 0 .. 0 : i = 0
    OBVIOUS
  <2> QED
    BY <2>1
<1>3. after = F(after)
  <2> HIDE DEF F, g
  <2> QED BY <1>2
<1> HIDE DEF after
<1>4. after[0] = command
  <2>1. 0 \in 0 .. 0
    OBVIOUS
  <2> QED
    BY <1>3, <2>1
<1> QED
  BY <1>1, <1>4

(* What all the lists make of it.                                          *)
LEMMA RewrittenType ==
  ASSUME LinesAssumption, NEW command \in Seq(STRING), Len(command) > 0,
         NEW U, NEW edits \in Seq(U),
         NEW X, NEW Y, Y \subseteq {"--"},
         \A i \in 1 .. Len(edits) :
           /\ edits[i].add \in Seq(STRING) /\ edits[i].place \in Places
           /\ \A k \in 1 .. Len(edits[i].add) : edits[i].add[k] \in X
           /\ edits[i].place = "end" => Y = {}
  PROVE  /\ Rewritten(command, edits) \in Seq(STRING) /\ Len(Rewritten(command, edits)) > 0
         /\ Widened(command, Rewritten(command, edits), X, 1, Y)
<1> DEFINE N == Len(edits)
           D == {c \in Seq(STRING) : Len(c) > 0}
           F(f) == [i \in 0 .. N |-> IF i = 0 THEN command ELSE Edited(f[i - 1], edits[i])]
           step == [i \in 1 .. N |-> [c \in D |-> Edited(c, edits[i])]]
           after == CHOOSE f : f = F(f)
<1>1. N \in Nat
  OBVIOUS
<1>2. Rewritten(command, edits) = after[N]
  BY DEF Rewritten
<1>3. ASSUME NEW i \in 1 .. N, NEW c \in Seq(STRING), Len(c) > 0
      PROVE  /\ Edited(c, edits[i]) \in Seq(STRING) /\ Len(Edited(c, edits[i])) > 0
             /\ Widened(c, Edited(c, edits[i]), X, 1, Y)
  <2> DEFINE e == edits[i]
  <2>1. /\ e.add \in Seq(STRING) /\ e.place \in Places
        /\ \A k \in 1 .. Len(e.add) : e.add[k] \in X
        /\ e.place = "end" => Y = {}
    OBVIOUS
  <2> HIDE DEF e
  <2>2. /\ Edited(c, e) \in Seq(STRING) /\ Len(Edited(c, e)) > 0
        /\ Widened(c, Edited(c, e), X, 1, Y)
    BY <1>3, <2>1, EditedType
  <2> QED
    BY <2>2 DEF e
<1>4. command \in D
  OBVIOUS
<1>5. step \in [1 .. N -> [D -> D]]
  <2>1. ASSUME NEW i \in 1 .. N, NEW c \in D PROVE Edited(c, edits[i]) \in D
    BY <1>3
  <2> HIDE DEF D, N
  <2> QED
    BY <2>1
<1>6. PICK g \in [0 .. N -> D] :
        g[0] = command /\ \A i \in 1 .. N : g[i] = step[i][g[i - 1]]
  <2> HIDE DEF D, step, N
  <2>1. \E g \in [0 .. N -> D] : Steps(g, command, step, N)
    BY <1>1, <1>4, <1>5, StatesExist
  <2> QED
    BY <2>1 DEF Steps
<1>7. g = F(g)
  <2>1. ASSUME NEW i \in 0 .. N PROVE F(g)[i] = g[i]
    <3>1. CASE i = 0
      BY <1>6, <3>1
    <3>2. CASE i # 0
      <4>1. i \in 1 .. N /\ i - 1 \in 0 .. N
        BY <1>1, <3>2
      <4>2. g[i - 1] \in D
        <5> HIDE DEF D, step, N
        <5> QED BY <1>6, <4>1
      <4>3. step[i][g[i - 1]] = Edited(g[i - 1], edits[i])
        <5> HIDE DEF D, N
        <5> QED BY <4>1, <4>2
      <4>4. g[i] = step[i][g[i - 1]]
        BY <1>6, <4>1
      <4>5. F(g)[i] = Edited(g[i - 1], edits[i])
        BY <3>2, <4>1
      <4> QED
        BY <4>3, <4>4, <4>5
    <3> QED
      BY <3>1, <3>2
  <2>2. F(g) = [i \in 0 .. N |-> g[i]]
    BY <2>1
  <2> HIDE DEF F, D, N
  <2> QED
    BY <1>6, <2>2
<1>8. after = F(after)
  <2> HIDE DEF F, N
  <2> QED BY <1>7
<1> HIDE DEF after, step
<1>9. /\ after[0] = command
      /\ \A i \in 1 .. N : after[i] = Edited(after[i - 1], edits[i])
  <2>1. \A i \in 0 .. N : after[i] = IF i = 0 THEN command ELSE Edited(after[i - 1], edits[i])
    <3> HIDE DEF N
    <3> QED BY <1>8
  <2> HIDE DEF N
  <2>2. 0 \in 0 .. N /\ \A i \in 1 .. N : i \in 0 .. N /\ i # 0
    BY <1>1
  <2> QED
    BY <2>1, <2>2
<1> DEFINE Good(i) == after[i] \in Seq(STRING) /\ Len(after[i]) > 0 /\ Widened(command, after[i], X, 1, Y)
           B == {i \in 0 .. N : ~ Good(i)}
<1>10. Good(0)
  <2>1. Widened(command, command, X, 1, Y)
    BY WidenedSelf
  <2> QED
    BY <1>9, <2>1
<1>11. ASSUME NEW i \in 1 .. N, Good(i - 1) PROVE Good(i)
  <2> DEFINE c == after[i - 1]
             d == Edited(c, edits[i])
  <2>1. c \in Seq(STRING) /\ Len(c) > 0 /\ Widened(command, c, X, 1, Y)
    BY <1>11
  <2>2. d \in Seq(STRING) /\ Len(d) > 0 /\ Widened(c, d, X, 1, Y)
    <3> HIDE DEF c
    <3> QED BY <1>3, <2>1
  <2>3. after[i] = d
    BY <1>9
  <2> HIDE DEF c, d
  <2>4. Widened(command, d, X, 1, Y)
    BY <2>1, <2>2, WidenedTwice
  <2> QED
    BY <2>2, <2>3, <2>4
<1> HIDE DEF Good
<1>12. B = {}
  <2> SUFFICES ASSUME B # {} PROVE FALSE
    OBVIOUS
  <2>1. B \in SUBSET Nat
    BY <1>1
  <2>2. PICK i \in B : \A k \in B : i <= k
    <3> HIDE DEF B
    <3> QED BY <2>1, LeastNatural
  <2>3. i \in 0 .. N /\ ~ Good(i)
    OBVIOUS
  <2>4. i # 0
    BY <1>10, <2>3
  <2> HIDE DEF N
  <2>5. i \in 1 .. N /\ i - 1 \in 0 .. N /\ ~ (i <= i - 1)
    BY <1>1, <2>3, <2>4
  <2>6. Good(i - 1)
    BY <2>2, <2>5
  <2> QED
    BY <1>11, <2>3, <2>5, <2>6
<1>13. Good(N)
  <2>1. N \in 0 .. N
    BY <1>1
  <2> QED
    BY <1>12, <2>1
<1> QED
  BY <1>2, <1>13 DEF Good

(* What is put into the end of a line is put into the line.                *)
LEMMA SplicedType ==
  ASSUME NEW words \in Seq(STRING), NEW s \in 1 .. Len(words) + 1,
         NEW a \in Seq(STRING), NEW X, NEW Y, Widened(From(words, s), a, X, 1, Y)
  PROVE  /\ SubSeq(words, 1, s - 1) \o a \in Seq(STRING)
         /\ Widened(words, SubSeq(words, 1, s - 1) \o a, X, s, Y)
<1> DEFINE x == SubSeq(words, 1, s - 1)
           b == From(words, s)
           j == x \o a
           n == Len(words)
           m == Len(a)
           d == s - 1
<1>1. n \in Nat /\ m \in Nat /\ d \in 0 .. n /\ d + 1 = s /\ s \in 1 .. n + 1
  OBVIOUS
<1>2. x \in Seq(STRING) /\ Len(x) = d /\ \A i \in 1 .. d : x[i] = words[i]
  OBVIOUS
<1>3. Len(b) = n - d /\ \A i \in 1 .. n - d : b[i] = words[i + d]
  <2> HIDE DEF d
  <2> QED
    BY <1>1, SuffixType DEF From
<1>4. PICK g : Widens(b, a, X, 1, Y, g)
  BY DEF Widened
<1> HIDE DEF x, b
<1>5. /\ j \in Seq(STRING) /\ Len(j) = d + m
      /\ \A i \in 1 .. d : j[i] = words[i]
      /\ \A i \in 1 .. m : j[i + d] = a[i]
  <2>1. /\ j \in Seq(STRING) /\ Len(j) = Len(x) + Len(a)
        /\ \A i \in 1 .. Len(x) : j[i] = x[i]
        /\ \A i \in 1 .. Len(a) : j[i + Len(x)] = a[i]
    <3>1. x \in Seq(STRING) /\ a \in Seq(STRING)
      BY <1>2
    <3> QED
      BY <3>1, Joined
  <2> HIDE DEF j, d
  <2> QED
    BY <1>2, <2>1
<1>6. /\ g \in [1 .. n - d -> 1 .. m]
      /\ \A i, k \in 1 .. n - d : i < k => g[i] < g[k]
      /\ \A i \in 1 .. n - d : a[g[i]] = b[i]
      /\ \A i \in 1 .. n - d : i <= 1 => g[i] = i
      /\ \A k \in 1 .. m : (\A i \in 1 .. n - d : g[i] # k) =>
           /\ k > 1 /\ a[k] \in X
           /\ \A i \in 1 .. n - d : 1 < i /\ g[i] < k => b[i] \notin Y
  BY <1>3, <1>4 DEF Widens
<1> DEFINE h == [i \in 1 .. n |-> IF i <= d THEN i ELSE g[i - d] + d]
<1> HIDE DEF j, d, n, m
<1>7. ASSUME NEW i \in 1 .. n, ~ (i <= d)
      PROVE  i - d \in 1 .. n - d /\ i - d + d = i /\ g[i - d] \in 1 .. m /\ h[i] = g[i - d] + d
  BY <1>1, <1>6, <1>7
<1>8. \A i \in 1 .. n : i <= d => h[i] = i
  OBVIOUS
<1>9. h \in [1 .. n -> 1 .. Len(j)]
  <2>1. ASSUME NEW i \in 1 .. n PROVE (IF i <= d THEN i ELSE g[i - d] + d) \in 1 .. Len(j)
    BY <1>1, <1>5, <1>7, <2>1
  <2> QED
    BY <2>1
<1> HIDE DEF h
<1>10. ASSUME NEW i \in 1 .. n, NEW k \in 1 .. n, i < k PROVE h[i] < h[k]
  <2>1. CASE k <= d
    BY <1>1, <1>8, <1>10, <2>1
  <2>2. CASE i <= d /\ ~ (k <= d)
    BY <1>1, <1>7, <1>8, <2>2
  <2>3. CASE ~ (i <= d) /\ ~ (k <= d)
    <3>1. i - d < k - d
      BY <1>1, <1>10
    <3>2. g[i - d] < g[k - d]
      BY <1>6, <1>7, <2>3, <3>1
    <3> QED
      BY <1>1, <1>7, <2>3, <3>2
  <2> QED
    BY <1>1, <1>10, <2>1, <2>2, <2>3
<1>11. ASSUME NEW i \in 1 .. n PROVE j[h[i]] = words[i] /\ (i <= s => h[i] = i)
  <2>1. CASE i <= d
    <3>1. i \in 1 .. d
      BY <1>1, <2>1
    <3> QED
      BY <1>5, <1>8, <2>1, <3>1
  <2>2. CASE ~ (i <= d)
    <3>1. j[g[i - d] + d] = a[g[i - d]] /\ a[g[i - d]] = b[i - d] /\ b[i - d] = words[i - d + d]
      BY <1>3, <1>5, <1>6, <1>7, <2>2
    <3>2. i <= s => i - d <= 1
      BY <1>1
    <3>3. i <= s => g[i - d] = i - d
      BY <1>6, <1>7, <2>2, <3>2
    <3> QED
      BY <1>7, <2>2, <3>1, <3>3
  <2> QED
    BY <2>1, <2>2
<1>12. ASSUME NEW k \in 1 .. Len(j), \A i \in 1 .. n : h[i] # k
       PROVE  /\ k > s /\ j[k] \in X
              /\ \A i \in 1 .. n : s < i /\ h[i] < k => words[i] \notin Y
  <2> DEFINE q == k - d
  <2>1. ~ (k <= d)
    <3>1. k <= d => k \in 1 .. n
      BY <1>1, <1>5
    <3> QED
      BY <1>8, <1>12, <3>1
  <2>2. q \in 1 .. m /\ q + d = k
    BY <1>1, <1>5, <2>1
  <2> HIDE DEF q
  <2>3. ASSUME NEW i \in 1 .. n - d PROVE g[i] # q
    <3> DEFINE t == i + d
    <3>1. t \in 1 .. n /\ ~ (t <= d) /\ t - d = i
      BY <1>1
    <3> HIDE DEF t
    <3>2. h[t] = g[i] + d /\ g[i] \in 1 .. m
      BY <1>7, <3>1
    <3>3. g[i] + d # q + d
      BY <1>12, <2>2, <3>1, <3>2
    <3> QED
      BY <3>3
  <2>4. /\ q > 1 /\ a[q] \in X
        /\ \A i \in 1 .. n - d : 1 < i /\ g[i] < q => b[i] \notin Y
    BY <1>6, <2>2, <2>3
  <2>5. k > s /\ j[k] \in X
    <3>1. j[q + d] = a[q]
      BY <1>5, <2>2
    <3> QED
      BY <1>1, <2>2, <2>4, <3>1
  <2>6. ASSUME NEW i \in 1 .. n, s < i, h[i] < k PROVE words[i] \notin Y
    <3>1. ~ (i <= d) /\ 1 < i - d
      BY <1>1, <2>6
    <3>2. g[i - d] < q
      BY <1>1, <1>7, <2>2, <2>6, <3>1
    <3>3. b[i - d] \notin Y /\ b[i - d] = words[i - d + d]
      BY <1>3, <1>7, <2>4, <3>1, <3>2
    <3> QED
      BY <1>7, <3>1, <3>3
  <2> QED
    BY <2>5, <2>6
<1>13. Widens(words, j, X, s, Y, h)
  BY <1>9, <1>10, <1>11, <1>12 DEF Widens, n
<1> QED
  BY <1>5, <1>13 DEF Widened, j, x, d

(* A list of the numbers in V, in growing order.                           *)
Lists(h, n, V) ==
  /\ \A i \in 1 .. n : h[i] \in V
  /\ \A v \in V : \E i \in 1 .. n : h[i] = v
  /\ \A i, j \in 1 .. n : i < j => h[i] < h[j]

(* There is one such list only.                                            *)
LEMMA OneList ==
  ASSUME NEW V \in SUBSET Nat, NEW n \in Nat, NEW l \in Nat, NEW h, NEW g,
         Lists(h, n, V), Lists(g, l, V)
  PROVE  l = n /\ \A i \in 1 .. n : g[i] = h[i]
<1>0. /\ \A i, j \in 1 .. n : i < j => h[i] < h[j]
      /\ \A i, j \in 1 .. l : i < j => g[i] < g[j]
      /\ \A i \in 1 .. n : h[i] \in Nat /\ \E k \in 1 .. l : g[k] = h[i]
      /\ \A k \in 1 .. l : g[k] \in Nat /\ \E i \in 1 .. n : h[i] = g[k]
  BY DEF Lists
<1> DEFINE B == {i \in Nat : i >= 1 /\ i <= n /\ i <= l /\ g[i] # h[i]}
<1>1. B = {}
  <2> SUFFICES ASSUME B # {} PROVE FALSE
    OBVIOUS
  <2>1. PICK i \in B : \A k \in B : i <= k
    <3>1. B \in SUBSET Nat
      OBVIOUS
    <3> HIDE DEF B
    <3> QED BY <3>1, LeastNatural
  <2>2. i \in 1 .. n /\ i \in 1 .. l /\ g[i] # h[i] /\ h[i] \in Nat /\ g[i] \in Nat
    BY <1>0
  <2>3. ASSUME NEW k \in 1 .. i - 1 PROVE k \in 1 .. n /\ k \in 1 .. l /\ g[k] = h[k]
    <3>1. k \in 1 .. n /\ k \in 1 .. l /\ k \in Nat /\ k >= 1 /\ k <= n /\ k <= l /\ ~ (i <= k)
      BY <2>2
    <3>2. k \notin B
      BY <2>1, <3>1
    <3> QED
      BY <3>1, <3>2
  <2> HIDE DEF B
  <2>4. CASE h[i] < g[i]
    <3>1. PICK k \in 1 .. l : g[k] = h[i]
      BY <1>0, <2>2
    <3>2. k < i
      <4>1. i < k => g[i] < g[k]
        BY <1>0, <2>2
      <4>2. k \in Nat /\ i \in Nat /\ k # i /\ ~ (i < k)
        BY <2>2, <2>4, <3>1, <4>1
      <4> QED
        BY <4>2
    <3>3. k \in 1 .. i - 1
      BY <2>2, <3>2
    <3>4. h[k] = h[i] /\ h[k] < h[i]
      BY <1>0, <2>2, <2>3, <3>1, <3>2, <3>3
    <3> QED
      BY <2>2, <3>4
  <2>5. CASE g[i] < h[i]
    <3>1. PICK k \in 1 .. n : h[k] = g[i]
      BY <1>0, <2>2
    <3>2. k < i
      <4>1. i < k => h[i] < h[k]
        BY <1>0, <2>2
      <4>2. k \in Nat /\ i \in Nat /\ k # i /\ ~ (i < k)
        BY <2>2, <2>5, <3>1, <4>1
      <4> QED
        BY <4>2
    <3>3. k \in 1 .. i - 1
      BY <2>2, <3>2
    <3>4. g[k] = g[i] /\ g[k] < g[i]
      BY <1>0, <2>2, <2>3, <3>1, <3>2, <3>3
    <3> QED
      BY <2>2, <3>4
  <2> QED
    BY <2>2, <2>4, <2>5
<1>2. \A i \in 1 .. n : i \in 1 .. l => g[i] = h[i]
  BY <1>1
<1>3. \A i \in 1 .. l : i \in 1 .. n => g[i] = h[i]
  BY <1>1
<1> HIDE DEF B
<1>4. ~ (l < n)
  <2> SUFFICES ASSUME l < n PROVE FALSE
    OBVIOUS
  <2>1. l + 1 \in 1 .. n
    OBVIOUS
  <2>2. PICK k \in 1 .. l : g[k] = h[l + 1]
    BY <1>0, <2>1
  <2>3. k \in 1 .. n /\ k < l + 1
    OBVIOUS
  <2>4. g[k] = h[k] /\ h[k] < h[l + 1] /\ h[k] \in Nat
    BY <1>0, <1>3, <2>1, <2>3
  <2> QED
    BY <2>2, <2>4
<1>5. ~ (n < l)
  <2> SUFFICES ASSUME n < l PROVE FALSE
    OBVIOUS
  <2>1. n + 1 \in 1 .. l
    OBVIOUS
  <2>2. PICK k \in 1 .. n : h[k] = g[n + 1]
    BY <1>0, <2>1
  <2>3. k \in 1 .. l /\ k < n + 1
    OBVIOUS
  <2>4. g[k] = h[k] /\ g[k] < g[n + 1] /\ g[k] \in Nat
    BY <1>0, <1>2, <2>1, <2>3
  <2> QED
    BY <2>2, <2>4
<1>6. l = n
  BY <1>4, <1>5
<1> QED
  BY <1>2, <1>6

(* What was put in can be taken out again: the words that were there are   *)
(* all that is left then, in their order.                                  *)
LEMMA WidenedIsAdded ==
  ASSUME NEW S, NEW a \in Seq(S), NEW T, NEW b \in Seq(T), NEW X, NEW Y, NEW p \in Nat,
         Widened(b, a, X, p, Y)
  PROVE  FlagsAreAdded(b, a, X, p, Y)
<1> DEFINE n == Len(b)
           m == Len(a)
<1>1. n \in Nat /\ m \in Nat /\ DOMAIN a = 1 .. m
  OBVIOUS
<1>2. PICK h : Widens(b, a, X, p, Y, h)
  BY DEF Widened
<1>3. /\ h \in [1 .. n -> 1 .. m]
      /\ \A i, j \in 1 .. n : i < j => h[i] < h[j]
      /\ \A i \in 1 .. n : a[h[i]] = b[i]
      /\ \A i \in 1 .. n : i <= p => h[i] = i
      /\ \A k \in 1 .. m : (\A i \in 1 .. n : h[i] # k) =>
           /\ k > p /\ a[k] \in X
           /\ \A i \in 1 .. n : p < i /\ h[i] < k => b[i] \notin Y
  BY <1>2 DEF Widens
<1> HIDE DEF n, m
<1> DEFINE R == {k \in 1 .. m : \A i \in 1 .. n : h[i] # k}
           I == 1 .. m \ R
           q == KeepAt(a, I)
<1>4. \A i \in 1 .. n : h[i] \in I
  BY <1>3
<1>5. \A k \in I : k \in 1 .. m /\ \E i \in 1 .. n : h[i] = k
  OBVIOUS
<1>6. \A k \in R : /\ k \in 1 .. m /\ k > p /\ a[k] \in X
                   /\ \A i \in 1 .. n : h[i] # k
                   /\ \A i \in 1 .. n : p < i /\ h[i] < k => b[i] \notin Y
  BY <1>3
<1> HIDE DEF R, q
<1>7. q \in Seq(S) /\ \E g : Embeds(a, I, Len(a), q, g)
  BY KeepAtEmbeds DEF q
<1>8. PICK g : Embeds(a, I, Len(a), q, g)
  BY <1>7
<1> DEFINE l == Len(q)
<1>9. l \in Nat
  BY <1>7
<1>10. /\ g \in [1 .. l -> 1 .. m]
       /\ \A k \in 1 .. l : g[k] \in I /\ q[k] = a[g[k]]
       /\ \A j, k \in 1 .. l : j < k => g[j] < g[k]
       /\ \A i \in I : \E k \in 1 .. l : g[k] = i
  BY <1>5, <1>8 DEF Embeds, m
<1> HIDE DEF I, l
<1>11. I \in SUBSET Nat /\ Lists(h, n, I) /\ Lists(g, l, I)
  <2>1. I \in SUBSET Nat
    BY <1>1, <1>5
  <2>2. Lists(h, n, I)
    BY <1>3, <1>4, <1>5 DEF Lists
  <2>3. Lists(g, l, I)
    BY <1>10 DEF Lists
  <2> QED
    BY <2>1, <2>2, <2>3
<1>12. l = n /\ \A i \in 1 .. n : g[i] = h[i]
  BY <1>1, <1>9, <1>11, OneList
<1>13. q = b
  <2>1. Len(q) = Len(b)
    BY <1>12 DEF l, n
  <2>2. \A i \in 1 .. Len(q) : q[i] = b[i]
    <3>1. \A i \in 1 .. n : q[i] = a[g[i]] /\ a[g[i]] = a[h[i]] /\ a[h[i]] = b[i]
      BY <1>3, <1>10, <1>12
    <3> QED
      BY <1>12, <3>1 DEF l
  <2> QED
    BY <1>7, <2>1, <2>2, SameSequence
<1>14. DOMAIN a \ R = I
  BY <1>1 DEF I
<1>15. ASSUME NEW r \in R, NEW i \in (p + 1 .. r) \ R PROVE a[i] \notin Y
  <2>1. r \in 1 .. m /\ i \in 1 .. m /\ i # r /\ i > p /\ i <= r /\ i \in Nat /\ r \in Nat
    BY <1>1, <1>6
  <2>2. i \in I
    BY <2>1, <1>15 DEF I
  <2>3. PICK k \in 1 .. n : h[k] = i
    BY <1>5, <2>2 DEF I
  <2>4. h[k] < r
    BY <2>1, <2>3
  <2>5. p < k
    <3>1. k <= p => h[k] = k
      BY <1>3
    <3> QED
      BY <1>1, <2>1, <2>3, <3>1
  <2>6. b[k] \notin Y
    BY <1>6, <2>4, <2>5
  <2> QED
    BY <1>3, <2>3, <2>6
<1>16. R \in SUBSET {i \in p + 1 .. Len(a) : a[i] \in X}
  <2>1. ASSUME NEW r \in R PROVE r \in p + 1 .. Len(a) /\ a[r] \in X
    <3>1. r \in 1 .. m /\ r > p /\ a[r] \in X
      BY <1>6
    <3> QED
      BY <1>1, <3>1 DEF m
  <2> QED
    BY <2>1
<1>17. KeepAt(a, DOMAIN a \ R) = b
  BY <1>13, <1>14 DEF q
<1> QED
  BY <1>15, <1>16, <1>17 DEF FlagsAreAdded

(* The first profile that matches, if one does.                            *)
LEMMA MatchType ==
  ASSUME LinesAssumption, NEW command, NEW display
  PROVE  \/ MatchProfile(command, display) = Fallback
         \/ \E i \in DOMAIN Profiles : /\ MatchProfile(command, display) = Profiles[i]
                                       /\ MatchesProfile(Profiles[i], command, display)
<1> DEFINE hits == {i \in DOMAIN Profiles : MatchesProfile(Profiles[i], command, display)}
<1>1. MatchProfile(command, display) = IF hits = {} THEN Fallback ELSE Profiles[Min(hits)]
  BY DEF MatchProfile
<1>2. hits \subseteq DOMAIN Profiles /\ \A i \in hits : MatchesProfile(Profiles[i], command, display)
  OBVIOUS
<1>3. DOMAIN Profiles \subseteq Nat
  <2>1. Profiles \in Seq(Profile)
    BY DEF LinesAssumption
  <2>2. DOMAIN Profiles = 1 .. Len(Profiles)
    BY <2>1, SequenceIsTuple
  <2> QED
    BY <2>2
<1> HIDE DEF hits
<1>4. ASSUME hits # {} PROVE Min(hits) \in hits
  <2>1. PICK c \in hits : \A m \in hits : c <= m
    <3>1. hits \in SUBSET Nat
      BY <1>2, <1>3
    <3> QED
      BY <1>4, <3>1, LeastNatural
  <2>2. Min(hits) = CHOOSE x \in hits : \A y \in hits : x <= y
    BY DEF Min
  <2> QED
    BY <2>1, <2>2
<1> QED
  BY <1>1, <1>2, <1>4

(* What is known of a profile.                                             *)
LEMMA ProfileType ==
  ASSUME LinesAssumption, NEW i \in DOMAIN Profiles
  PROVE  /\ Profiles[i] \in Profile
         /\ Profiles[i].head \notin Assignments /\ Profiles[i].head # ""
         /\ Profiles[i].edits \in Seq(EditOf(Places \cup {"replace"}))
         /\ Replaces(Profiles[i]) => Profiles[i].source = "project"
<1>1. Profiles \in Seq(Profile)
  BY DEF LinesAssumption
<1>2. DOMAIN Profiles = 1 .. Len(Profiles) /\ \A j \in 1 .. Len(Profiles) : Profiles[j] \in Profile
  BY <1>1, SequenceIsTuple
<1>3. Profiles[i] \in Profile
  BY <1>2
<1>4. Profiles[i].head \notin Assignments /\ (Replaces(Profiles[i]) => Profiles[i].source = "project")
  BY DEF LinesAssumption
<1> DEFINE r == Profiles[i]
           T == Seq(EditOf(Places \cup {"replace"}))
<1> HIDE DEF r, T
<1>5. r.edits \in T /\ r.head # ""
  <2>1. r \in [name : STRING, by : {"command", "display", "head"}, head : STRING \ {""},
               edits : T, source : {"project", "builtin"}]
    BY <1>3 DEF Profile, r, T
  <2> QED
    BY <2>1
<1> QED
  BY <1>3, <1>4, <1>5 DEF r, T

(* What a profile that replaces nothing makes of a command.                *)
LEMMA PreparedType ==
  ASSUME LinesAssumption, NEW command \in Seq(STRING), Len(command) > 0,
         NEW p, p = Fallback \/ \E i \in DOMAIN Profiles : p = Profiles[i], ~Replaces(p)
  PROVE  /\ Prepare(p, command) \in Seq(STRING) /\ Len(Prepare(p, command)) > 0
         /\ Widened(command, Prepare(p, command), AddedBy(p), 1, Ends(p))
<1> DEFINE U == EditOf(Places \cup {"replace"})
           edits == p.edits
           X == AddedBy(p)
           Y == Ends(p)
<1>1. edits \in Seq(U)
  <2>1. CASE p = Fallback
    <3>1. edits = <<>>
      BY <2>1 DEF Fallback
    <3> QED
      BY <3>1
  <2>2. CASE \E i \in DOMAIN Profiles : p = Profiles[i]
    BY <2>2, ProfileType
  <2> QED
    BY <2>1, <2>2
<1>2. DOMAIN edits = 1 .. Len(edits) /\ \A i \in 1 .. Len(edits) : edits[i] \in U
  <2> HIDE DEF U, edits
  <2> QED BY <1>1, SequenceIsTuple
<1>3. Y \subseteq {"--"}
  BY DEF Ends
<1>4. ASSUME NEW i \in 1 .. Len(edits)
      PROVE  /\ edits[i].add \in Seq(STRING) /\ edits[i].place \in Places
             /\ \A k \in 1 .. Len(edits[i].add) : edits[i].add[k] \in X
             /\ edits[i].place = "end" => Y = {}
  <2> DEFINE e == edits[i]
             S == Seq(STRING)
  <2> HIDE DEF S
  <2>1. e.add \in S /\ e.place \in Places \cup {"replace"}
    <3>1. e \in [skip : SUBSET STRING, here : BOOLEAN, add : S, place : Places \cup {"replace"}]
      BY <1>2 DEF EditOf, S
    <3> HIDE DEF e
    <3> QED
      BY <3>1
  <2>2. e.place # "replace"
    BY <1>2 DEF Replaces
  <2>3. e.place = "end" => Y = {}
    BY <1>2 DEF Ends
  <2>4. ToSet(e.add) \subseteq X
    BY <1>2 DEF AddedBy
  <2>5. ASSUME NEW k \in 1 .. Len(e.add) PROVE e.add[k] \in X
    <3>1. DOMAIN e.add = 1 .. Len(e.add)
      <4> HIDE DEF e
      <4> QED BY <2>1, SequenceIsTuple DEF S
    <3>2. e.add[k] \in ToSet(e.add)
      BY <3>1 DEF ToSet
    <3> QED
      BY <2>4, <3>2
  <2> QED
    BY <2>1, <2>2, <2>3, <2>5 DEF S
<1>5. Prepare(p, command) = Rewritten(command, edits)
  BY DEF Prepare
<1> HIDE DEF U, edits, X, Y
<1>6. /\ Rewritten(command, edits) \in Seq(STRING) /\ Len(Rewritten(command, edits)) > 0
      /\ Widened(command, Rewritten(command, edits), X, 1, Y)
  BY <1>1, <1>3, <1>4, RewrittenType
<1> QED
  BY <1>5, <1>6 DEF X, Y

(* What the project prefers is an argv as well.                            *)
LEMMA PreferredType ==
  ASSUME LinesAssumption, NEW argv \in Seq(STRING)
  PROVE  Preferred(argv) \in Seq(STRING)
<1> DEFINE I == {i \in DOMAIN Preferences : Preferences[i].head = argv[1]}
           edits == KeepAt(Preferences, I)
<1>1. CASE argv = <<>>
  BY <1>1 DEF Preferred
<1>2. CASE argv # <<>>
  <2>1. Len(argv) > 0
    BY <1>2
  <2>2. Preferred(argv) = Rewritten(argv, edits)
    BY <1>2 DEF Preferred
  <2>3. Preferences \in Seq(Preference)
    BY DEF LinesAssumption
  <2> HIDE DEF I
  <2>4. edits \in Seq(Preference)
    BY <2>3, KeepAtEmbeds
  <2> HIDE DEF edits
  <2>5. \A i \in 1 .. Len(edits) : edits[i] \in Preference
    BY <2>4, SequenceIsTuple
  <2> DEFINE X == STRING
             Y == {}
  <2>6. ASSUME NEW i \in 1 .. Len(edits)
        PROVE  /\ edits[i].add \in Seq(STRING) /\ edits[i].place \in Places
               /\ \A k \in 1 .. Len(edits[i].add) : edits[i].add[k] \in X
               /\ edits[i].place = "end" => Y = {}
    <3> DEFINE e == edits[i]
               S == Seq(STRING)
    <3> HIDE DEF S
    <3>1. e.add \in S /\ e.place \in Places
      <4>1. e \in [head : STRING, skip : SUBSET STRING, here : BOOLEAN, add : S, place : Places]
        BY <2>5 DEF Preference, S
      <4> HIDE DEF e
      <4> QED
        BY <4>1
    <3> HIDE DEF e
    <3>2. \A k \in 1 .. Len(e.add) : e.add[k] \in STRING
      BY <3>1, SequenceIsTuple DEF S
    <3> QED
      BY <3>1, <3>2 DEF S, e
  <2>7. Y \subseteq {"--"}
    OBVIOUS
  <2> HIDE DEF X, Y
  <2>8. Rewritten(argv, edits) \in Seq(STRING)
    BY <2>1, <2>4, <2>6, <2>7, RewrittenType
  <2> QED
    BY <2>2, <2>8
<1> QED
  BY <1>1, <1>2

(* A command that is no shell and does not begin with a wrapper or an      *)
(* assignment is classified as its first word.                             *)
LEMMA HeadIsFirst ==
  ASSUME LinesAssumption, NEW args \in Seq(STRING), Len(args) > 0,
         args[1] \notin {"env", "command", "builtin", "npx"} \cup Assignments,
         ShellWrapperCommandIndex(args) = 0
  PROVE  ClassifiedHead(args) = args[1]
<1> DEFINE n == Len(args)
           S == {i \in DOMAIN args : args[i] \notin {"env", "command", "builtin"} \cup Assignments}
           N == [i \in DOMAIN args |-> IF args[i] = "env" THEN PastOptions(args, i + 1, Assignments, {"-u"})
                                       ELSE IF args[i] \in Assignments THEN PastAssignments(args, i)
                                       ELSE i + 1]
           T == {k \in DOMAIN args : args[k] # "npx"}
           M == [k \in DOMAIN args |-> PastOptions(args, k + 1, {}, NpxValued)]
<1>1. n \in Nat /\ n > 0 /\ DOMAIN args = 1 .. n /\ 1 \in 1 .. n + 1 /\ 1 \in 1 .. n
  OBVIOUS
<1>2. 1 \in S /\ 1 \in T
  BY <1>1
<1>3. StripCommandWrappers(args) = WalkEnd(n, S, N, 1)
  BY DEF StripCommandWrappers
<1>4. StripNodeToolWrappers(args, 1) = WalkEnd(n, T, M, 1)
  BY DEF StripNodeToolWrappers
<1>5. Ahead(n, S, N)
  <2> SUFFICES ASSUME NEW i \in (1 .. n) \ S PROVE N[i] \in i + 1 .. n + 1
    BY DEF Ahead
  <2>1. i \in 1 .. n /\ i + 1 \in 1 .. Len(args) + 1 /\ i \in 1 .. Len(args) + 1
    BY <1>1
  <2>2. PastOptions(args, i + 1, Assignments, {"-u"}) \in i + 1 .. n + 1
    BY <2>1, PastOptionsType
  <2>3. i + 1 \in i + 1 .. n + 1
    BY <1>1, <2>1
  <2>4. args[i] \in Assignments => PastAssignments(args, i) \in i + 1 .. n + 1
    <3> SUFFICES ASSUME args[i] \in Assignments PROVE PastAssignments(args, i) \in i + 1 .. n + 1
      OBVIOUS
    <3>1. ~ (i > Len(args))
      BY <1>1, <2>1
    <3>2. PastAssignments(args, i) = PastAssignments(args, i + 1)
      BY <2>1, <3>1, PastAssignmentsType
    <3>3. PastAssignments(args, i + 1) \in i + 1 .. n + 1
      BY <2>1, PastAssignmentsType
    <3> QED
      BY <3>2, <3>3
  <2>5. N[i] = IF args[i] = "env" THEN PastOptions(args, i + 1, Assignments, {"-u"})
               ELSE IF args[i] \in Assignments THEN PastAssignments(args, i)
               ELSE i + 1
    BY <1>1, <2>1
  <2> HIDE DEF N, n
  <2> QED
    BY <2>2, <2>3, <2>4, <2>5
<1>6. Ahead(n, T, M)
  <2> SUFFICES ASSUME NEW i \in (1 .. n) \ T PROVE M[i] \in i + 1 .. n + 1
    BY DEF Ahead
  <2>1. i \in 1 .. n /\ i + 1 \in 1 .. Len(args) + 1
    BY <1>1
  <2>2. PastOptions(args, i + 1, {}, NpxValued) \in i + 1 .. n + 1
    BY <2>1, PastOptionsType
  <2>3. M[i] = PastOptions(args, i + 1, {}, NpxValued)
    BY <1>1, <2>1
  <2> QED
    BY <2>2, <2>3
<1> HIDE DEF n, S, N, T, M
<1>7. WalkEnd(n, S, N, 1) = 1 /\ WalkEnd(n, T, M, 1) = 1
  BY <1>1, <1>2, <1>5, <1>6, WalkEndStep
<1> DEFINE at == StripNodeToolWrappers(args, StripCommandWrappers(args))
<1>8. at = 1
  BY <1>3, <1>4, <1>7
<1>9. ClassifiedHead(args) = IF at > Len(args) THEN "" ELSE args[at]
  BY DEF ClassifiedHead, HeadBehind
<1>10. ~ (at > Len(args))
  BY <1>1, <1>8 DEF n
<1> QED
  BY <1>8, <1>9, <1>10, Zenon

(* The words of a command behind its wrappers with what is put in front of *)
(* the profile's work.                                                     *)
LEMMA ArgvFits ==
  ASSUME LinesAssumption, NEW words \in Seq(STRING), NEW argv, argv = Preferred(words),
         ProgramAt(argv) # 0,
         StripTransparentPrefix(argv) = From(argv, ProgramAt(argv)),
         NEW profile, profile = MatchProfile(From(argv, ProgramAt(argv)), StripTransparentPrefix(words)),
         ~Replaces(profile)
  PROVE  FlagsAreAdded(argv, ExecArgv(words), AddedBy(profile), ProgramAt(argv), Ends(profile))
<1> DEFINE p == ProgramAt(argv)
           s == InnerAt(argv)
           n == Len(argv)
           inner == From(argv, p)
           prepared == Prepare(profile, inner)
           after == ExecArgv(words)
<1>0. argv \in Seq(STRING)
  BY PreferredType
<1>1. p \in 1 .. n /\ n \in Nat /\ s \in 1 .. p
  BY <1>0, ProgramAtType, InnerIsOnTheWay
<1>2. inner \in Seq(STRING) /\ Len(inner) = n - (p - 1)
  <2>1. p - 1 \in 0 .. n /\ p - 1 + 1 = p
    BY <1>1
  <2> QED
    BY <1>0, <2>1, SuffixType DEF From
<1>3. s = p
  <2>1. s - 1 \in 0 .. n /\ s - 1 + 1 = s
    BY <1>1
  <2>2. Len(From(argv, s)) = n - (s - 1)
    BY <1>0, <2>1, SuffixType DEF From
  <2>3. From(argv, s) = inner
    BY DEF StripTransparentPrefix
  <2> HIDE DEF s, p, n, inner
  <2> QED
    BY <1>1, <1>2, <2>2, <2>3
<1>4. after = SubSeq(argv, 1, p - 1) \o prepared
  BY <1>3 DEF ExecArgv, StripTransparentPrefix
<1>5. profile = Fallback \/ \E i \in DOMAIN Profiles : profile = Profiles[i]
  BY MatchType
<1>6. Len(inner) > 0
  <2> HIDE DEF p, s, inner, n
  <2> QED BY <1>1, <1>2
<1> HIDE DEF p, s, inner, prepared, after
<1>7. prepared \in Seq(STRING) /\ Widened(inner, prepared, AddedBy(profile), 1, Ends(profile))
  BY <1>2, <1>5, <1>6, PreparedType DEF prepared
<1>8. p \in 1 .. Len(argv) + 1 /\ p \in Nat
  BY <1>1
<1>9. after \in Seq(STRING) /\ Widened(argv, after, AddedBy(profile), p, Ends(profile))
  BY <1>0, <1>4, <1>7, <1>8, SplicedType DEF inner
<1>10. FlagsAreAdded(argv, after, AddedBy(profile), p, Ends(profile))
  BY <1>0, <1>8, <1>9, WidenedIsAdded
<1> QED
  BY <1>10 DEF after, p

(* A profile that was matched for what it does to a program belongs to it. *)
LEMMA ProgramsOwn ==
  ASSUME LinesAssumption, NEW argv \in Seq(STRING), ProgramAt(argv) # 0,
         NEW command, command = From(argv, ProgramAt(argv)),
         command[1] # "builtin", ShellWrapperCommandIndex(command) = 0
  PROVE  MatchProfile(command, command).head \in {"", command[1]}
<1> DEFINE p == ProgramAt(argv)
           n == Len(argv)
           profile == MatchProfile(command, command)
<1>1. p \in 1 .. n /\ n \in Nat /\ argv[p] \notin NoReading /\ argv[p] \notin Wrappers
  BY ProgramAtType
<1> HIDE DEF p
<1>2. command \in Seq(STRING) /\ Len(command) = n - (p - 1) /\ command[1] = argv[p]
  <2>1. p - 1 \in 0 .. n /\ p - 1 + 1 = p /\ 1 \in 1 .. n - (p - 1) /\ 1 + (p - 1) = p
    BY <1>1
  <2>2. command = SubSeq(argv, p, n)
    BY DEF From, p
  <2> DEFINE k == p - 1
  <2>3. k \in 0 .. Len(argv) /\ command = SubSeq(argv, k + 1, Len(argv))
    BY <2>1, <2>2
  <2> HIDE DEF k
  <2>4. /\ command \in Seq(STRING) /\ Len(command) = Len(argv) - k
        /\ \A i \in 1 .. Len(argv) - k : command[i] = argv[i + k]
    BY <2>3, SuffixType
  <2> QED
    BY <2>1, <2>4 DEF k
<1>3. Len(command) > 0
  <2> HIDE DEF n
  <2> QED BY <1>1, <1>2
<1>4. command[1] \notin {"env", "command", "builtin", "npx"} \cup Assignments
  BY <1>1, <1>2 DEF NoReading, Wrappers
<1>5. ClassifiedHead(command) = command[1]
  BY <1>2, <1>3, <1>4, HeadIsFirst
<1>6. profile = Fallback \/ \E i \in DOMAIN Profiles : profile = Profiles[i] /\ MatchesProfile(Profiles[i], command, command)
  BY MatchType
<1> HIDE DEF profile
<1>7. CASE profile = Fallback
  <2>1. profile.head = ""
    BY <1>7 DEF Fallback
  <2> QED
    BY <2>1 DEF profile
<1>8. CASE profile # Fallback
  <2>1. MatchesProfile(profile, command, command)
    BY <1>6, <1>8
  <2>2. profile.head = command[1]
    BY <1>5, <2>1 DEF MatchesProfile
  <2> QED
    BY <2>2 DEF profile
<1> QED
  BY <1>7, <1>8

(* A walk past assignments gets past no other word.                        *)
LEMMA AssignmentsOnly ==
  ASSUME NEW argv \in Seq(STRING), NEW k \in 1 .. Len(argv) + 1,
         NEW i \in k .. Len(argv), argv[i] \notin Assignments
  PROVE  PastAssignments(argv, k) <= i
<1> DEFINE n == Len(argv)
           S == AssignStops(argv)
           N == AssignNext(argv)
           P == k .. i
<1>1. n \in Nat /\ DOMAIN argv = 1 .. n /\ i \in 1 .. n /\ k \in 1 .. n
  OBVIOUS
<1>2. Ahead(n, S, N)
  BY <1>1 DEF Ahead, AssignStops, AssignNext
<1>3. PastAssignments(argv, k) = WalkEnd(n, S, N, k)
  BY DEF PastAssignments, AssignStops, AssignNext
<1>4. \A j \in 1 .. n : (j \in S <=> argv[j] \notin Assignments) /\ N[j] = j + 1
  BY <1>1 DEF AssignStops, AssignNext
<1> HIDE DEF S, N, n
<1>5. P \in SUBSET (1 .. n + 1) /\ k \in P
  BY <1>1
<1>6. ASSUME NEW j \in P, j <= n, j \notin S PROVE N[j] \in P
  <2>1. j \in 1 .. n /\ j # i
    BY <1>1, <1>4, <1>6
  <2>2. j + 1 \in P /\ N[j] = j + 1
    BY <1>1, <1>4, <2>1
  <2> QED
    BY <2>2
<1>7. WalkEnd(n, S, N, k) \in P
  <2> HIDE DEF P
  <2> QED BY <1>1, <1>2, <1>5, <1>6, WalkStays
<1> QED
  BY <1>1, <1>3, <1>7

(* Classification finds no head in assignments.                            *)
LEMMA NoHead ==
  ASSUME LinesAssumption, NEW args \in Seq(STRING), Len(args) > 0,
         \A i \in 1 .. Len(args) : args[i] \in Assignments
  PROVE  ClassifiedHead(args) = ""
<1> DEFINE n == Len(args)
           S == {i \in DOMAIN args : args[i] \notin {"env", "command", "builtin"} \cup Assignments}
           N == [i \in DOMAIN args |-> IF args[i] = "env" THEN PastOptions(args, i + 1, Assignments, {"-u"})
                                       ELSE IF args[i] \in Assignments THEN PastAssignments(args, i)
                                       ELSE i + 1]
           T == {k \in DOMAIN args : args[k] # "npx"}
           M == [k \in DOMAIN args |-> PastOptions(args, k + 1, {}, NpxValued)]
<1>1. n \in Nat /\ n > 0 /\ DOMAIN args = 1 .. n /\ 1 \in 1 .. n + 1 /\ n + 1 \in 1 .. n + 1
  OBVIOUS
<1>2. \A i \in 1 .. n : args[i] \in Assignments /\ args[i] # "env" /\ args[i] # "npx"
  BY DEF LinesAssumption, Programs
<1>3. \A i \in 1 .. n : PastAssignments(args, i) = n + 1
  <2> SUFFICES ASSUME NEW i \in 1 .. n PROVE PastAssignments(args, i) = n + 1
    OBVIOUS
  <2> DEFINE e == PastAssignments(args, i)
  <2>1. i \in 1 .. Len(args) + 1
    BY <1>1
  <2>2. e \in i .. n + 1 /\ (e <= n => args[e] \notin Assignments)
    BY <2>1, PastAssignmentsType
  <2> HIDE DEF e, n
  <2>3. ~ (e <= n)
    BY <1>1, <1>2, <2>2
  <2>4. e = n + 1
    BY <1>1, <2>2, <2>3
  <2> QED
    BY <2>4 DEF e
<1>4. \A i \in 1 .. n : i \notin S /\ N[i] = n + 1
  BY <1>1, <1>2, <1>3
<1>5. T = 1 .. n
  BY <1>1, <1>2
<1>6. StripCommandWrappers(args) = WalkEnd(n, S, N, 1)
  BY DEF StripCommandWrappers
<1>7. StripNodeToolWrappers(args, n + 1) = WalkEnd(n, T, M, n + 1)
  BY DEF StripNodeToolWrappers
<1> HIDE DEF n, S, N, T, M
<1>8. Ahead(n, S, N)
  <2> SUFFICES ASSUME NEW i \in (1 .. n) \ S PROVE N[i] \in i + 1 .. n + 1
    BY DEF Ahead
  <2>1. N[i] = n + 1
    BY <1>4
  <2>2. n + 1 \in i + 1 .. n + 1
    BY <1>1
  <2> QED
    BY <2>1, <2>2
<1>9. Ahead(n, T, M)
  BY <1>5 DEF Ahead
<1>10. WalkEnd(n, S, N, n + 1) = n + 1
  BY <1>1, <1>8, WalkEndStep
<1>11. WalkEnd(n, S, N, 1) = n + 1
  <2>1. 1 \in 1 .. n /\ ~ (1 > n)
    BY <1>1
  <2>2. WalkEnd(n, S, N, 1) = IF 1 > n \/ 1 \in S THEN 1 ELSE WalkEnd(n, S, N, N[1])
    BY <1>1, <1>8, WalkEndStep
  <2> QED
    BY <1>4, <1>10, <2>1, <2>2
<1>12. WalkEnd(n, T, M, n + 1) = n + 1
  BY <1>1, <1>9, WalkEndStep
<1>13. StripNodeToolWrappers(args, StripCommandWrappers(args)) = n + 1
  BY <1>6, <1>7, <1>11, <1>12
<1> DEFINE at == StripNodeToolWrappers(args, StripCommandWrappers(args))
<1>14. ClassifiedHead(args) = IF at > Len(args) THEN "" ELSE args[at]
  <2>1. args[1] \notin {"sh", "bash"}
    <3>1. args[1] \in Assignments
      BY <1>1 DEF n
    <3> QED
      BY <3>1 DEF LinesAssumption, Programs
  <2>2. ShellWrapperCommandIndex(args) = 0
    BY <2>1 DEF ShellWrapperCommandIndex
  <2> QED
    BY <2>2 DEF ClassifiedHead, HeadBehind
<1>15. at > Len(args)
  <2> HIDE DEF at
  <2>1. at = Len(args) + 1 /\ Len(args) \in Nat
    BY <1>13 DEF at, n
  <2> QED
    BY <2>1
<1> QED
  BY <1>14, <1>15, Zenon

(* What begins with an assignment behind all wrappers is nothing else, and *)
(* has no head.                                                            *)
LEMMA NothingBehind ==
  ASSUME LinesAssumption, NEW words \in Seq(STRING), Len(words) > 0,
         words[InnerAt(words)] \in Assignments
  PROVE  LET inner == From(words, InnerAt(words))
         IN  inner[1] \in Assignments /\ ClassifiedHead(inner) = ""
<1> DEFINE n == Len(words)
           s == InnerAt(words)
           inner == From(words, s)
<1>1. n \in Nat /\ s \in 1 .. n /\ s \in InnerStops(words)
  <2>1. s \in 1 .. n + 1 /\ (s > n \/ s \in InnerStops(words)) /\ s <= n
    BY CommandsAhead
  <2> HIDE DEF s
  <2> QED
    BY <2>1
<1>2. s - 1 \in 0 .. n /\ s - 1 + 1 = s
  <2> HIDE DEF s
  <2> QED BY <1>1
<1>3. /\ inner \in Seq(STRING) /\ Len(inner) = n - (s - 1)
      /\ \A i \in 1 .. n - (s - 1) : inner[i] = words[i + (s - 1)]
  BY <1>2, SuffixType DEF From
<1>5. words[s] \in Assignments
  OBVIOUS
<1> HIDE DEF inner
<1>6. Width(words, s) = PastAssignments(words, s) - s
  BY <1>5 DEF Width, TransparentWrapperWidth
<1>7. Width(words, s) <= 0 \/ Width(words, s) >= n - s + 1
  BY <1>1 DEF InnerStops
<1>8. s \in 1 .. n + 1 /\ s + 1 \in 1 .. n + 1 /\ ~ (s > n)
  <2> HIDE DEF s
  <2> QED BY <1>1
<1>9. PastAssignments(words, s) = PastAssignments(words, s + 1)
      /\ PastAssignments(words, s + 1) \in s + 1 .. n + 1
  BY <1>5, <1>8, PastAssignmentsType
<1> HIDE DEF s
<1>10. PastAssignments(words, s) = n + 1
  <2> DEFINE e == PastAssignments(words, s)
             w == Width(words, s)
  <2>1. w = e - s /\ (w <= 0 \/ w >= n - s + 1) /\ e \in s + 1 .. n + 1
    BY <1>6, <1>7, <1>9
  <2> HIDE DEF e, w, n
  <2>2. e = n + 1
    BY <1>1, <2>1
  <2> QED
    BY <2>2 DEF e
<1>11. \A i \in 1 .. Len(inner) : inner[i] \in Assignments
  <2> SUFFICES ASSUME NEW i \in 1 .. Len(inner) PROVE inner[i] \in Assignments
    OBVIOUS
  <2>1. i + (s - 1) \in s .. n /\ inner[i] = words[i + (s - 1)]
    BY <1>1, <1>3
  <2> DEFINE k == i + (s - 1)
  <2>2. k \in s .. Len(words) /\ inner[i] = words[k]
    BY <2>1
  <2> HIDE DEF k
  <2>3. words[k] \notin Assignments => PastAssignments(words, s) <= k
    BY <1>8, <2>2, AssignmentsOnly
  <2> QED
    BY <1>1, <1>10, <2>2, <2>3
<1>12. Len(inner) > 0 /\ inner[1] \in Assignments
  <2>1. Len(inner) > 0 /\ 1 \in 1 .. Len(inner)
    BY <1>1, <1>3
  <2> QED
    BY <1>11, <2>1
<1>13. ClassifiedHead(inner) = ""
  BY <1>3, <1>11, <1>12, NoHead
<1> QED
  BY <1>12, <1>13 DEF inner, s

(* The command a profile matches does not begin with an assignment.        *)
LEMMA MatchedBegins ==
  ASSUME LinesAssumption, NEW words \in Seq(STRING), Len(words) > 0, NEW p,
         NEW inner, inner = From(words, InnerAt(words)), MatchesProfile(p, inner, inner),
         p.head \notin Assignments, p.head # ""
  PROVE  words[InnerAt(words)] \notin Assignments
<1>1. p.head = inner[1] \/ p.head = ClassifiedHead(inner)
  BY DEF MatchesProfile
<1>2. words[InnerAt(words)] \in Assignments => inner[1] \in Assignments /\ ClassifiedHead(inner) = ""
  BY NothingBehind
<1> QED
  BY <1>1, <1>2

-----------------------------------------------------------------------------
(* Command lines: the last command of a shell's string.                    *)

Ops(L) == {i \in 1 .. Len(L) : Operator(L[i])}
Starts(L) == {i \in (1 .. Len(L)) \ Ops(L) : i = 1 \/ i - 1 \in Ops(L)}
SegmentEnd(L, i) == Min({k \in i .. Len(L) : k = Len(L) \/ k + 1 \in Ops(L)})
SegmentAt(L, i) ==
  [words |-> Words(SubSeq(L, i, SegmentEnd(L, i))), start |-> i,
   safe |-> \A k \in i .. SegmentEnd(L, i) : ~Risky(L[k])]

(* Where the last operator is.                                             *)
LEMMA LastCommandType ==
  ASSUME NEW L \in Seq(Lexemes), Accepted(L), Len(L) > 0
  PROVE  /\ LastCommandAt(L) \in 0 .. Len(L) - 1
         /\ LastCommandAt(L) # 0 => LastCommandAt(L) \in Ops(L)
         /\ \A i \in LastCommandAt(L) + 1 .. Len(L) : ~Operator(L[i])
<1> DEFINE n == Len(L)
           T == {0} \cup Ops(L)
<1>1. n \in Nat /\ DOMAIN L = 1 .. n /\ n > 0
  OBVIOUS
<1>2. Ops(L) \subseteq 1 .. n /\ \A i \in Ops(L) : i < n
  BY <1>1 DEF Ops, Accepted
<1>3. LastCommandAt(L) = Max(T)
  BY <1>1 DEF LastCommandAt, Ops
<1>4. PICK c \in T : \A m \in T : m <= c
  <2>1. T \in SUBSET Nat /\ T # {} /\ \A m \in T : m <= n
    BY <1>1, <1>2
  <2> HIDE DEF T, n
  <2> QED BY <1>1, <2>1, GreatestNatural
<1>5. T \subseteq Nat
  BY <1>2
<1> HIDE DEF T
<1>6. Max(T) = c
  <2>1. Max(T) = CHOOSE x \in T : \A y \in T : x >= y
    BY DEF Max
  <2>2. \A y \in T : c >= y
    BY <1>4, <1>5
  <2>3. \A x \in T : (\A y \in T : x >= y) => x = c
    <3> SUFFICES ASSUME NEW x \in T, \A y \in T : x >= y PROVE x = c
      OBVIOUS
    <3>1. x >= c /\ c >= x /\ x \in Nat /\ c \in Nat
      BY <1>5, <2>2
    <3> QED
      BY <3>1
  <2> QED
    BY <1>4, <2>1, <2>2, <2>3
<1>7. c \in 0 .. n - 1
  BY <1>1, <1>2, <1>5 DEF T
<1>8. c # 0 => c \in Ops(L)
  BY DEF T
<1>9. ASSUME NEW i \in c + 1 .. n, Operator(L[i]) PROVE FALSE
  <2>1. i \in 1 .. n /\ ~ (i <= c)
    BY <1>1, <1>7
  <2>2. i \in T
    BY <1>9, <2>1 DEF T, Ops
  <2> QED
    BY <1>4, <2>1, <2>2
<1> QED
  BY <1>3, <1>6, <1>7, <1>8, <1>9

(* The last segment reaches from the last operator to the end.             *)
LEMMA FinalType ==
  ASSUME NEW L \in Seq(Lexemes), Accepted(L), FinalCommandSegment(L).words # <<>>
  PROVE  /\ Len(L) > 0
         /\ FinalCommandSegment(L).start = LastCommandAt(L) + 1
         /\ FinalCommandSegment(L).words = Words(From(L, LastCommandAt(L) + 1))
         /\ FinalCommandSegment(L).safe =>
              \A k \in LastCommandAt(L) + 1 .. Len(L) : ~Risky(L[k])
<1> DEFINE n == Len(L)
           c == LastCommandAt(L)
           heads == Starts(L)
           last == FinalCommandSegment(L)
<1>1. n \in Nat
  OBVIOUS
<1>2. ParseShellSegments(L).segments = [i \in heads |-> SegmentAt(L, i)]
  BY DEF ParseShellSegments, Starts, Ops, SegmentAt, SegmentEnd
<1>3. DOMAIN ParseShellSegments(L).segments = heads
  BY <1>2
<1>4. heads # {} /\ last = ParseShellSegments(L).segments[Max(heads)]
  <2>1. last = IF /\ ParseShellSegments(L).ok /\ heads # {}
                  /\ \A i \in heads \ {Max(heads)} :
                       IsShellSetupSegment(ParseShellSegments(L).segments[i].words)
                  /\ ShellWrapperCommandIndex(ParseShellSegments(L).segments[Max(heads)].words) = 0
               THEN ParseShellSegments(L).segments[Max(heads)] ELSE NotWrapped
    BY <1>3 DEF FinalCommandSegment, LastOf
  <2>2. NotWrapped.words = <<>>
    BY DEF NotWrapped
  <2> QED
    BY <2>1, <2>2
<1>5. heads \subseteq 1 .. n
  BY DEF Starts
<1>6. n > 0
  BY <1>1, <1>4, <1>5
<1>7. /\ c \in 0 .. n - 1 /\ (c # 0 => c \in Ops(L))
      /\ \A i \in c + 1 .. n : ~Operator(L[i])
  BY <1>6, LastCommandType
<1> HIDE DEF c, last
<1>8. c + 1 \in heads
  <2>1. c + 1 \in 1 .. n /\ c + 1 \in c + 1 .. n /\ c + 1 - 1 = c /\ (c = 0 => c + 1 = 1)
    BY <1>1, <1>7
  <2>2. c + 1 \notin Ops(L)
    BY <1>7, <2>1 DEF Ops
  <2> DEFINE d == c + 1
  <2>3. d \in (1 .. n) \ Ops(L) /\ (d = 1 \/ d - 1 \in Ops(L))
    BY <1>7, <2>1, <2>2
  <2> HIDE DEF d
  <2> QED
    BY <2>3 DEF Starts, d
<1>9. \A i \in heads : i <= c + 1
  <2> SUFFICES ASSUME NEW i \in heads, ~ (i <= c + 1) PROVE FALSE
    OBVIOUS
  <2>1. i \in 1 .. n /\ (i = 1 \/ i - 1 \in Ops(L))
    BY DEF Starts
  <2>2. i - 1 \in c + 1 .. n /\ i # 1
    BY <1>1, <1>7, <2>1
  <2>3. Operator(L[i - 1])
    BY <2>1, <2>2 DEF Ops
  <2> QED
    BY <1>7, <2>2, <2>3
<1> HIDE DEF heads
<1>10. Max(heads) = c + 1
  <2>1. Max(heads) = CHOOSE x \in heads : \A y \in heads : x >= y
    BY DEF Max
  <2>2. c + 1 \in Nat /\ heads \subseteq Nat
    BY <1>1, <1>5, <1>7
  <2>3. \A y \in heads : c + 1 >= y
    BY <1>9, <2>2
  <2>4. \A x \in heads : (\A y \in heads : x >= y) => x = c + 1
    <3> SUFFICES ASSUME NEW x \in heads, \A y \in heads : x >= y PROVE x = c + 1
      OBVIOUS
    <3>1. x >= c + 1 /\ c + 1 >= x /\ x \in Nat
      BY <1>8, <2>2, <2>3
    <3> QED
      BY <2>2, <3>1
  <2> QED
    BY <1>8, <2>1, <2>3, <2>4
<1>11. last = SegmentAt(L, c + 1)
  BY <1>2, <1>4, <1>8, <1>10
<1>12. SegmentEnd(L, c + 1) = n
  <2> DEFINE K == {k \in c + 1 .. n : k = n \/ k + 1 \in Ops(L)}
  <2>1. K = {n}
    <3>1. n \in K
      BY <1>1, <1>7
    <3>2. ASSUME NEW k \in K PROVE k = n
      <4>1. k \in c + 1 .. n /\ (k = n \/ k + 1 \in Ops(L))
        OBVIOUS
      <4>2. k + 1 \in Ops(L) => k + 1 \in c + 1 .. n /\ Operator(L[k + 1])
        BY <1>1, <1>7, <4>1 DEF Ops
      <4> QED
        BY <1>7, <4>1, <4>2
    <3> HIDE DEF K
    <3> QED
      BY <3>1, <3>2
  <2>2. SegmentEnd(L, c + 1) = Min(K)
    BY DEF SegmentEnd
  <2> HIDE DEF K
  <2>3. Min({n}) = n
    <3>1. Min({n}) = CHOOSE x \in {n} : \A y \in {n} : x <= y
      BY DEF Min
    <3>2. n <= n
      BY <1>1
    <3> HIDE DEF n
    <3> QED
      BY <3>1, <3>2
  <2> QED
    BY <2>1, <2>2, <2>3
<1>13. last.words = Words(SubSeq(L, c + 1, n)) /\ last.start = c + 1
       /\ (last.safe => \A k \in c + 1 .. n : ~Risky(L[k]))
  BY <1>11, <1>12 DEF SegmentAt
<1> QED
  BY <1>6, <1>13 DEF last, c, From

(* In the last command of a line only assignments are before one.          *)
LEMMA LastAssigns ==
  ASSUME NEW M \in Seq(Lexemes), NEW c \in 0 .. Len(M), c # 0 => Operator(M[c]),
         \A i \in c + 1 .. Len(M) : ~Operator(M[i]), NEW i \in c + 1 .. Len(M)
  PROVE  Assigns(M, i) <=> \A j \in c + 1 .. i : Names(M[j])
<1>1. Len(M) \in Nat /\ c \in Nat /\ i \in 1 .. Len(M) /\ c + 1 \in 1 .. i /\ c + 1 - 1 = c
  OBVIOUS
<1>2. ASSUME Assigns(M, i) PROVE \A j \in c + 1 .. i : Names(M[j])
  <2>1. PICK k \in 1 .. i : /\ k = 1 \/ Operator(M[k - 1])
                            /\ \A j \in k .. i : Names(M[j])
    BY <1>2 DEF Assigns
  <2>2. k <= c + 1
    <3>1. ~ (k <= c + 1) => k # 1 /\ k - 1 \in c + 1 .. Len(M)
      BY <1>1
    <3> QED
      BY <2>1, <3>1
  <2> QED
    BY <1>1, <2>1, <2>2
<1>3. ASSUME \A j \in c + 1 .. i : Names(M[j]) PROVE Assigns(M, i)
  <2> DEFINE k == c + 1
  <2>1. k \in 1 .. i /\ (k = 1 \/ Operator(M[k - 1])) /\ \A j \in k .. i : Names(M[j])
    BY <1>1, <1>3
  <2> HIDE DEF k
  <2> QED
    BY <2>1 DEF Assigns
<1> QED
  BY <1>2, <1>3

(* A word that is quoted anew means what it did, when it is assigned or    *)
(* not as before.                                                          *)
QuotedAnew(L, i, M, m) ==
  /\ M[m] = QuoteShellWord(L[i].word) /\ ~Operator(L[i]) /\ ~Risky(L[i])
  /\ Assigns(M, m) <=> Assigns(L, i)
  /\ Assigns(L, i) => L[i] = Bare(L[i].word) /\ L[i].word \notin Unplain

LEMMA SameMeant ==
  ASSUME LinesAssumption, NEW L, NEW i, NEW M, NEW m, QuotedAnew(L, i, M, m)
  PROVE  Meant(M, m) = Meant(L, i)
<1> USE DEF QuotedAnew
<1> DEFINE w == L[i].word
<1>1. M[m] = IF w \in Unplain THEN Single(w) ELSE Bare(w)
  BY DEF QuoteShellWord
<1>2. Expanding \subseteq Unplain
  BY DEF LinesAssumption
<1> HIDE DEF w
<1>3. /\ M[m].word = w
      /\ M[m].form = IF w \in Unplain THEN "single" ELSE "bare"
  BY <1>1 DEF Single, Bare
<1>4. ~Operator(M[m]) /\ ~Risky(M[m])
  BY <1>2, <1>3 DEF Operator, Risky
<1>5. Role(M, m) = Role(L, i)
  BY <1>4 DEF Role
<1>6. Assigns(L, i) => M[m] = L[i]
  BY <1>1 DEF w
<1>7. Expands(M, m) = Expands(L, i)
  BY <1>4, <1>6 DEF Expands
<1> QED
  BY <1>3, <1>5, <1>7 DEF Meant, w


(* Nothing is added to what stays as it is.                                *)
LEMMA NothingAdded ==
  ASSUME NEW S, NEW b \in Seq(S), NEW X, NEW p, NEW Y
  PROVE  FlagsAreAdded(b, b, X, p, Y)
<1> DEFINE R == {}
<1>1. DOMAIN b \ R = DOMAIN b /\ DOMAIN b = 1 .. Len(b)
  OBVIOUS
<1>2. KeepAt(b, DOMAIN b \ R) = b
  BY <1>1, KeepAtAll
<1>3. /\ R \in SUBSET {i \in p + 1 .. Len(b) : b[i] \in X}
      /\ \A r \in R : \A i \in (p + 1 .. r) \ R : b[i] \notin Y
  OBVIOUS
<1> HIDE DEF R
<1> QED
  BY <1>2, <1>3 DEF FlagsAreAdded

(* A line with its end replaced by words, which are quoted.                *)
LEMMA QuotedSplice ==
  ASSUME LinesAssumption, NEW L \in Seq(Lexemes), NEW c \in 0 .. Len(L), NEW W \in Seq(STRING)
  PROVE  LET M == SubSeq(L, 1, c) \o JoinShellWords(W)
         IN  /\ M \in Seq(Lexemes) /\ Len(M) = c + Len(W)
             /\ \A i \in 1 .. c : M[i] = L[i]
             /\ \A i \in 1 .. Len(W) : M[i + c] = QuoteShellWord(W[i])
<1> DEFINE v == Len(W)
           H == SubSeq(L, 1, c)
           Q == JoinShellWords(W)
           M == H \o Q
<1>1. v \in Nat /\ c \in Nat
  OBVIOUS
<1>2. /\ Q \in Seq(Lexemes) /\ Len(Q) = v
      /\ \A i \in 1 .. v : Q[i] = QuoteShellWord(W[i])
  <2>1. DOMAIN W = 1 .. v
    OBVIOUS
  <2> DEFINE p == [i \in 1 .. v |-> QuoteShellWord(W[i])]
  <2>2. Q = p
    <3>1. Q = [i \in DOMAIN W |-> QuoteShellWord(W[i])]
      BY DEF JoinShellWords
    <3> HIDE DEF Q, v
    <3> QED BY <2>1, <3>1, Zenon
  <2>3. \A x \in STRING : QuoteShellWord(x) \in Lexemes
    BY DEF QuoteShellWord, Single, Bare, Lexemes, Spoken, Forms
  <2>4. \A i \in 1 .. v : W[i] \in STRING
    BY <2>1, SequenceIsTuple
  <2>5. p \in [1 .. v -> Lexemes]
    BY <2>3, <2>4
  <2>6. \A i \in 1 .. v : p[i] = QuoteShellWord(W[i])
    OBVIOUS
  <2> HIDE DEF p, Q, v
  <2>7. p \in Seq(Lexemes) /\ Len(p) = v
    BY <1>1, <2>5, TupleIsSequence
  <2> QED
    BY <2>2, <2>6, <2>7
<1>3. H \in Seq(Lexemes) /\ Len(H) = c /\ \A i \in 1 .. c : H[i] = L[i]
  OBVIOUS
<1> HIDE DEF H, Q
<1>4. /\ M \in Seq(Lexemes) /\ Len(M) = Len(H) + Len(Q)
      /\ \A i \in 1 .. Len(H) : M[i] = H[i]
      /\ \A i \in 1 .. Len(Q) : M[i + Len(H)] = Q[i]
  <2>1. H \in Seq(Lexemes) /\ Q \in Seq(Lexemes)
    BY <1>2, <1>3
  <2> QED
    BY <2>1, Joined
<1> HIDE DEF M, v
<1>5. /\ M \in Seq(Lexemes) /\ Len(M) = c + v
      /\ \A i \in 1 .. c : M[i] = L[i]
      /\ \A i \in 1 .. v : M[i + c] = QuoteShellWord(W[i])
  BY <1>2, <1>3, <1>4
<1> QED
  BY <1>5 DEF M, H, Q, v

(* Quoted words with others among them mean what they did with those words *)
(* among them, when none of the others is in front of the first word that  *)
(* is not assigned.                                                        *)
Literals(words) == {Literal(w) : w \in words}

LEMMA SplicedMeaning ==
  ASSUME LinesAssumption, NEW L \in Seq(Lexemes), AssignsBare(L),
         NEW c \in Nat, c < Len(L), c # 0 => Operator(L[c]),
         \A i \in c + 1 .. Len(L) : ~Operator(L[i]) /\ ~Risky(L[i]),
         NEW words \in Seq(STRING), Len(words) = Len(L) - c,
         \A i \in 1 .. Len(words) : words[i] = L[i + c].word,
         NEW s \in 1 .. Len(words), words[s] \notin Assignments,
         NEW W \in Seq(STRING), NEW X, NEW Y, Widened(words, W, X, s, Y),
         NEW M \in Seq(Lexemes), Len(M) = c + Len(W), \A i \in 1 .. c : M[i] = L[i],
         \A i \in 1 .. Len(W) : M[i + c] = QuoteShellWord(W[i])
  PROVE  Widened(Meaning(L), Meaning(M), Literals(X), c + s, Literals(Y))
<1> DEFINE n == Len(L)
           w == Len(words)
           v == Len(W)
<1>1. /\ n \in Nat /\ w \in Nat /\ v \in Nat /\ c \in 0 .. n - 1 /\ c \in Nat /\ n = c + w
      /\ s \in 1 .. w /\ DOMAIN L = 1 .. n
  OBVIOUS
<1>5. PICK h : Widens(words, W, X, s, Y, h)
  BY DEF Widened
<1> HIDE DEF n
<1>6. /\ Len(M) = c + v
      /\ \A i \in 1 .. c : M[i] = L[i]
      /\ \A i \in 1 .. v : M[i + c] = QuoteShellWord(W[i])
  OBVIOUS
<1>7. /\ h \in [1 .. w -> 1 .. v]
      /\ \A i, j \in 1 .. w : i < j => h[i] < h[j]
      /\ \A i \in 1 .. w : W[h[i]] = words[i]
      /\ \A i \in 1 .. w : i <= s => h[i] = i
      /\ \A k \in 1 .. v : (\A i \in 1 .. w : h[i] # k) =>
           /\ k > s /\ W[k] \in X
           /\ \A i \in 1 .. w : s < i /\ h[i] < k => words[i] \notin Y
  BY <1>5 DEF Widens
<1>8. \A i \in 1 .. w : words[i] = L[i + c].word
  OBVIOUS
<1>9. \A i \in c + 1 .. n : ~Operator(L[i]) /\ ~Risky(L[i])
  BY DEF n
<1> DEFINE g == [i \in 1 .. n |-> IF i <= c THEN i ELSE h[i - c] + c]
<1> HIDE DEF w, v
<1>10. ASSUME NEW i \in 1 .. n, ~ (i <= c)
       PROVE  i - c \in 1 .. w /\ i - c + c = i /\ h[i - c] \in 1 .. v /\ g[i] = h[i - c] + c
  BY <1>1, <1>7, <1>10
<1>11. \A i \in 1 .. n : i <= c => g[i] = i
  OBVIOUS
<1>12. g \in [1 .. n -> 1 .. c + v]
  <2>1. ASSUME NEW i \in 1 .. n PROVE (IF i <= c THEN i ELSE h[i - c] + c) \in 1 .. c + v
    BY <1>1, <1>10, <2>1
  <2> QED
    BY <2>1
<1> HIDE DEF g
<1>13. ASSUME NEW i \in 1 .. n, NEW k \in 1 .. n, i < k PROVE g[i] < g[k]
  <2>1. CASE k <= c
    BY <1>1, <1>11, <1>13, <2>1
  <2>2. CASE i <= c /\ ~ (k <= c)
    <3> DEFINE y == h[k - c]
    <3>1. g[i] = i /\ g[k] = y + c /\ y \in 1 .. v
      BY <1>10, <1>11, <2>2
    <3> HIDE DEF y
    <3> QED
      BY <1>1, <2>2, <3>1
  <2>3. CASE ~ (i <= c) /\ ~ (k <= c)
    <3>1. i - c < k - c
      BY <1>1, <1>13
    <3>2. h[i - c] < h[k - c]
      BY <1>7, <1>10, <2>3, <3>1
    <3> DEFINE x == h[i - c]
               y == h[k - c]
    <3>3. g[i] = x + c /\ x \in 1 .. v
      BY <1>10, <2>3
    <3>4. g[k] = y + c /\ y \in 1 .. v
      BY <1>10, <2>3
    <3>5. x < y
      BY <3>2
    <3> HIDE DEF x, y
    <3>6. x + c < y + c
      BY <1>1, <3>3, <3>4, <3>5
    <3> QED
      BY <3>3, <3>4, <3>6
  <2> QED
    BY <1>1, <1>13, <2>1, <2>2, <2>3
<1> DEFINE f == c + s
<1>14. ASSUME NEW i \in 1 .. n, i <= f PROVE g[i] = i
  <2>1. ~ (i <= c) => i - c <= s /\ i - c \in 1 .. w
    BY <1>1, <1>10, <1>14
  <2>2. ~ (i <= c) => h[i - c] = i - c
    BY <1>7, <2>1
  <2> QED
    BY <1>10, <1>11, <2>2
<1>15. ASSUME NEW i \in c + 1 .. n
       PROVE  i \in 1 .. n /\ g[i] \in c + 1 .. c + v /\ M[g[i]] = QuoteShellWord(L[i].word)
  <2> DEFINE x == i - c
  <2>1. i \in 1 .. n /\ ~ (i <= c)
    BY <1>1
  <2>2. x \in 1 .. w /\ x + c = i /\ h[x] \in 1 .. v /\ g[i] = h[x] + c
    BY <1>10, <2>1
  <2> HIDE DEF x
  <2>3. M[h[x] + c] = QuoteShellWord(W[h[x]]) /\ W[h[x]] = words[x] /\ words[x] = L[x + c].word
    BY <1>6, <1>7, <1>8, <2>2
  <2>4. g[i] \in c + 1 .. c + v
    <3> DEFINE y == h[x]
    <3>1. g[i] = y + c /\ y \in 1 .. v
      BY <2>2
    <3>2. \A t \in 1 .. v : t + c \in c + 1 .. c + v
      BY <1>1
    <3> HIDE DEF y
    <3> QED
      BY <3>1, <3>2
  <2> QED
    BY <2>1, <2>2, <2>3, <2>4
<1>16. f \in c + 1 .. n /\ L[f].word \notin Assignments /\ f \in Nat
  <2>1. s + c = f /\ s \in 1 .. w
    BY <1>1
  <2>2. L[s + c].word = words[s]
    BY <1>8, <2>1
  <2>3. f \in c + 1 .. n
    BY <1>1
  <2> QED
    BY <2>1, <2>2, <2>3
<1> HIDE DEF f
<1>17. \A x : ~Operator(QuoteShellWord(x)) /\ (x \notin Assignments => ~Names(QuoteShellWord(x)))
  <2> SUFFICES ASSUME NEW x
               PROVE  ~Operator(QuoteShellWord(x)) /\ (x \notin Assignments => ~Names(QuoteShellWord(x)))
    OBVIOUS
  <2> DEFINE y == QuoteShellWord(x)
  <2>1. y = IF x \in Unplain THEN Single(x) ELSE Bare(x)
    BY DEF QuoteShellWord
  <2>2. /\ Single(x).word = x /\ Single(x).form = "single"
        /\ Bare(x).word = x /\ Bare(x).form = "bare"
    BY DEF Single, Bare
  <2> HIDE DEF y
  <2>3. y.word = x /\ y.form \in {"single", "bare"}
    BY <2>1, <2>2
  <2> QED
    BY <2>3 DEF y, Operator, Names
<1>18. ASSUME NEW i \in 1 .. n
       PROVE  L[i].word \in Assignments =>
                /\ L[i] = Bare(L[i].word) /\ L[i].word \notin Unplain
                /\ Names(L[i]) /\ Names(QuoteShellWord(L[i].word))
  <2> DEFINE x == L[i]
             y == L[i].word
  <2>1. y \in Assignments => x = Bare(y) /\ y \notin Unplain
    BY <1>1 DEF AssignsBare
  <2>2. Bare(y).word = y /\ Bare(y).form = "bare"
    BY DEF Bare
  <2>3. y \notin Unplain => QuoteShellWord(y) = Bare(y)
    BY DEF QuoteShellWord
  <2> HIDE DEF y, x
  <2>4. y \in Assignments => Names(Bare(y))
    BY <2>2 DEF Names
  <2>5. y \in Assignments => x = Bare(y) /\ y \notin Unplain /\ Names(x) /\ Names(QuoteShellWord(y))
    BY <2>1, <2>3, <2>4
  <2> QED
    BY <2>5 DEF x, y
<1>19. \A i \in 1 .. n : Names(L[i]) <=> L[i].word \in Assignments
  BY <1>18 DEF Names
<1>20. \A i \in c + 1 .. c + v : ~Operator(M[i])
  <2> SUFFICES ASSUME NEW i \in c + 1 .. c + v PROVE ~Operator(M[i])
    OBVIOUS
  <2>1. i - c \in 1 .. v /\ i - c + c = i
    BY <1>1
  <2>2. M[i - c + c] = QuoteShellWord(W[i - c])
    BY <1>6, <2>1
  <2> QED
    BY <1>17, <2>1, <2>2
<1>21. c # 0 => Operator(L[c]) /\ Operator(M[c])
  <2>1. c # 0 => c \in 1 .. c
    BY <1>1
  <2> QED
    BY <1>6, <2>1
<1>22. ASSUME NEW i \in c + 1 .. n
       PROVE  Assigns(L, i) <=> \A j \in c + 1 .. i : L[j].word \in Assignments
  <2>1. Assigns(L, i) <=> \A j \in c + 1 .. i : Names(L[j])
    <3>1. c \in 0 .. Len(L) /\ n = Len(L)
      BY <1>1 DEF n
    <3> QED
      BY <1>9, <1>21, <3>1, LastAssigns
  <2>2. \A j \in c + 1 .. i : j \in 1 .. n
    BY <1>1
  <2> QED
    BY <1>19, <2>1, <2>2
<1>23. ASSUME NEW i \in c + 1 .. c + v
       PROVE  Assigns(M, i) <=> \A j \in c + 1 .. i : Names(M[j])
  <2>1. c \in 0 .. Len(M) /\ Len(M) = c + v
    <3>1. Len(M) = c + v
      BY <1>6
    <3>2. c \in 0 .. c + v
      BY <1>1
    <3> QED
      BY <3>1, <3>2
  <2> QED
    BY <1>6, <1>20, <1>21, <2>1, LastAssigns
<1>24. ASSUME NEW i \in 1 .. c PROVE Meant(M, i) = Meant(L, i)
  <2>1. \A j \in 1 .. i : M[j] = L[j]
    <3>1. \A j \in 1 .. i : j \in 1 .. c
      BY <1>1
    <3>2. \A j \in 1 .. c : M[j] = L[j]
      BY <1>6
    <3> QED
      BY <3>1, <3>2
  <2>2. M[i] = L[i] /\ i \in 1 .. i
    BY <1>1, <2>1
  <2>3. Assigns(M, i) <=> Assigns(L, i)
    <3>1. \A x \in 1 .. i : x = 1 \/ x - 1 \in 1 .. i
      BY <1>1
    <3>2. \A x \in 1 .. i : \A j \in x .. i : j \in 1 .. i
      BY <1>1
    <3>3. \A x \in 1 .. i : /\ x = 1 \/ Operator(M[x - 1]) <=> x = 1 \/ Operator(L[x - 1])
                            /\ (\A j \in x .. i : Names(M[j])) <=> \A j \in x .. i : Names(L[j])
      BY <2>1, <3>1, <3>2
    <3> QED
      BY <3>3 DEF Assigns
  <2>4. Role(M, i) = Role(L, i)
    BY <2>2, <2>3 DEF Role
  <2>5. Expands(M, i) = Expands(L, i)
    BY <2>2, <2>3 DEF Expands
  <2> QED
    BY <2>2, <2>4, <2>5 DEF Meant
<1>25. ASSUME NEW k \in 1 .. c + v, f <= k PROVE ~Assigns(M, k)
  <2>1. k \in c + 1 .. c + v /\ f \in c + 1 .. k /\ f \in 1 .. n
    BY <1>1, <1>16, <1>25
  <2>2. g[f] = f
    BY <1>14, <1>16, <2>1
  <2>3. ~Names(M[f])
    BY <1>15, <1>16, <1>17, <2>2
  <2> QED
    BY <1>23, <2>1, <2>3
<1>26. ASSUME NEW i \in c + 1 .. n PROVE Meant(M, g[i]) = Meant(L, i)
  <2>1. i \in 1 .. n /\ i \in c + 1 .. i /\ g[i] \in c + 1 .. c + v
    BY <1>1, <1>15
  <2>2. ~Operator(L[i]) /\ ~Risky(L[i]) /\ M[g[i]] = QuoteShellWord(L[i].word)
    BY <1>9, <1>15
  <2>3. Assigns(L, i) => L[i] = Bare(L[i].word) /\ L[i].word \notin Unplain
    BY <1>18, <1>22, <2>1
  <2>4. Assigns(M, g[i]) <=> Assigns(L, i)
    <3>1. CASE i <= f
      <4>1. g[i] = i /\ i \in c + 1 .. c + v
        BY <1>14, <2>1, <3>1
      <4>2. \A j \in c + 1 .. i : j \in 1 .. n /\ j \in c + 1 .. n /\ j <= f
        BY <1>1, <1>16, <3>1
      <4>3. \A j \in c + 1 .. i : Names(M[j]) <=> L[j].word \in Assignments
        <5> SUFFICES ASSUME NEW j \in c + 1 .. i PROVE Names(M[j]) <=> L[j].word \in Assignments
          OBVIOUS
        <5>1. g[j] = j /\ M[g[j]] = QuoteShellWord(L[j].word)
          BY <1>14, <1>15, <4>2
        <5> QED
          BY <1>17, <1>18, <4>2, <5>1
      <4> QED
        BY <1>22, <1>23, <4>1, <4>3
    <3>2. CASE ~ (i <= f)
      <4>1. f \in c + 1 .. i /\ f \in 1 .. n /\ f < i
        BY <1>1, <1>16, <2>1, <3>2
      <4>2. ~Assigns(L, i)
        BY <1>16, <1>22, <4>1
      <4>3. g[f] = f /\ g[f] < g[i]
        BY <1>13, <1>14, <1>16, <2>1, <4>1
      <4>4. g[i] \in 1 .. c + v /\ f <= g[i]
        BY <1>1, <1>16, <2>1, <4>3
      <4>5. ~Assigns(M, g[i])
        BY <1>25, <4>4
      <4> QED
        BY <4>2, <4>5
    <3> QED
      BY <3>1, <3>2
  <2> DEFINE m == g[i]
  <2> HIDE DEF m
  <2>5. QuotedAnew(L, i, M, m)
    BY <2>2, <2>3, <2>4 DEF QuotedAnew, m
  <2>6. Meant(M, m) = Meant(L, i)
    BY <2>5, SameMeant
  <2> QED
    BY <2>6 DEF m
<1>27. ASSUME NEW k \in 1 .. v, k > s PROVE Meant(M, k + c) = Literal(W[k])
  <2> DEFINE m == k + c
             x == W[k]
  <2>1. m \in 1 .. c + v /\ f <= m
    BY <1>1, <1>27 DEF f
  <2>2. M[m] = IF x \in Unplain THEN Single(x) ELSE Bare(x)
    BY <1>6 DEF QuoteShellWord
  <2> HIDE DEF m, x
  <2>3. ~Assigns(M, m)
    BY <1>25, <2>1
  <2>4. M[m].word = x /\ M[m].form = IF x \in Unplain THEN "single" ELSE "bare"
    BY <2>2 DEF Single, Bare
  <2>5. ~Operator(M[m]) /\ ~Risky(M[m])
    BY <2>4 DEF Operator, Risky, LinesAssumption
  <2>6. Role(M, m) = "word"
    BY <2>3, <2>5 DEF Role
  <2>7. Expands(M, m) = FALSE
    BY <2>3, <2>5 DEF Expands
  <2>8. Meant(M, m) = Literal(x)
    BY <2>4, <2>6, <2>7 DEF Meant, Literal
  <2> QED
    BY <2>8 DEF m, x
<1> DEFINE a == Meaning(M)
           b == Meaning(L)
<1>28. Len(a) = c + v /\ \A i \in 1 .. c + v : a[i] = Meant(M, i)
  BY <1>6, MeaningType
<1>29. Len(b) = n /\ \A i \in 1 .. n : b[i] = Meant(L, i)
  BY MeaningType DEF n
<1> HIDE DEF a, b
<1>30. \A i \in 1 .. n : a[g[i]] = b[i]
  <2> SUFFICES ASSUME NEW i \in 1 .. n PROVE a[g[i]] = b[i]
    OBVIOUS
  <2>1. g[i] \in 1 .. c + v
    BY <1>12
  <2>2. Meant(M, g[i]) = Meant(L, i)
    <3>1. CASE i <= c
      <4>1. i \in 1 .. c /\ g[i] = i
        BY <1>1, <1>11, <3>1
      <4> QED
        BY <1>24, <4>1
    <3>2. CASE ~ (i <= c)
      <4>1. i \in c + 1 .. n
        BY <1>1, <3>2
      <4> QED
        BY <1>26, <4>1
    <3> QED
      BY <3>1, <3>2
  <2> QED
    BY <1>28, <1>29, <2>1, <2>2
<1>31. ASSUME NEW k \in 1 .. c + v, \A i \in 1 .. n : g[i] # k
       PROVE  /\ k > f /\ a[k] \in Literals(X)
              /\ \A i \in 1 .. n : f < i /\ g[i] < k => b[i] \notin Literals(Y)
  <2> DEFINE q == k - c
  <2>1. ~ (k <= c)
    <3>1. k <= c => k \in 1 .. n
      BY <1>1
    <3> QED
      BY <1>11, <1>31, <3>1
  <2>2. q \in 1 .. v /\ q + c = k
    BY <1>1, <2>1
  <2> HIDE DEF q
  <2>3. ASSUME NEW i \in 1 .. w PROVE h[i] # q
    <3> DEFINE t == i + c
    <3>1. t \in 1 .. n /\ ~ (t <= c) /\ t - c = i
      BY <1>1
    <3> HIDE DEF t
    <3>2. g[t] = h[i] + c /\ h[i] \in 1 .. v
      BY <1>10, <3>1
    <3>3. h[i] + c # q + c
      BY <1>31, <2>2, <3>1, <3>2
    <3> QED
      BY <3>3
  <2>4. /\ q > s /\ W[q] \in X
        /\ \A i \in 1 .. w : s < i /\ h[i] < q => words[i] \notin Y
    BY <1>7, <2>2, <2>3
  <2>5. k > f
    BY <1>1, <2>2, <2>4 DEF f
  <2>6. a[k] \in Literals(X)
    <3>1. a[k] = Literal(W[q])
      BY <1>27, <1>28, <2>2, <2>4
    <3> QED
      BY <2>4, <3>1 DEF Literals
  <2>7. ASSUME NEW i \in 1 .. n, f < i, g[i] < k, b[i] \in Literals(Y) PROVE FALSE
    <3>1. ~ (i <= c) /\ s < i - c
      BY <1>1, <2>7 DEF f
    <3> DEFINE y == h[i - c]
    <3>0. i - c \in 1 .. w /\ i - c + c = i /\ y \in 1 .. v /\ g[i] = y + c
      BY <1>10, <3>1
    <3> HIDE DEF y
    <3>2. y < q
      BY <1>1, <2>2, <2>7, <3>0
    <3>3. words[i - c] \notin Y /\ words[i - c] = L[i].word
      BY <1>8, <2>4, <3>0, <3>1, <3>2 DEF y
    <3>4. PICK x \in Y : b[i] = Literal(x)
      BY <2>7 DEF Literals
    <3>5. b[i] = <<Role(L, i), L[i].word, Expands(L, i)>>
      BY <1>29 DEF Meant
    <3>6. L[i].word = x
      BY <3>4, <3>5 DEF Literal
    <3> QED
      BY <3>3, <3>6
  <2> QED
    BY <2>5, <2>6, <2>7
<1>32. Widens(b, a, Literals(X), f, Literals(Y), g)
  BY <1>12, <1>13, <1>14, <1>28, <1>29, <1>30, <1>31 DEF Widens
<1> QED
  BY <1>32 DEF Widened, a, b, f

(* What stands in a shell's string instead of a line.                      *)
LEMMA StringFits ==
  ASSUME LinesAssumption, NEW way \in DOMAIN Typable, NEW L \in Seq(Typable[way]),
         AssignsBare(L), Accepted(L),
         NEW inner, inner = StripTransparentPrefix(FinalCommandSegment(L).words),
         NEW profile, profile = MatchProfile(inner, inner),
         NEW added, added = IF profile.source = "project" THEN {} ELSE AddedBy(profile)
  PROVE  FlagsAreAdded(Meaning(L), Meaning(ExecString(L)), Literals(added),
                       LastCommandAt(L) + InnerAt(LastCommand(L)), Literals(Ends(profile)))
<1> DEFINE n == Len(L)
           c == LastCommandAt(L)
           last == FinalCommandSegment(L)
           words == last.words
           s == InnerAt(words)
           prepared == IF profile.source = "project" THEN inner ELSE Prepare(profile, inner)
           W == SubSeq(words, 1, s - 1) \o prepared
           M == ExecString(L)
           X == added
           Y == Ends(profile)
           at == c + InnerAt(LastCommand(L))
<1>1. M = IF words = <<>> \/ prepared = inner \/ ~last.safe THEN L
          ELSE SubSeq(L, 1, last.start - 1) \o JoinShellWords(W)
  BY DEF ExecString
<1>2. L \in Seq(Lexemes) /\ n \in Nat /\ DOMAIN L = 1 .. n
  <2>1. L \in Seq(Lexemes)
    BY TypedIsSpoken
  <2> QED
    BY <2>1, SequenceIsTuple
<1>3. SUFFICES ASSUME words # <<>>, prepared # inner, last.safe
               PROVE  FlagsAreAdded(Meaning(L), Meaning(M), Literals(X), at, Literals(Y))
  <2>1. ASSUME M = L PROVE FlagsAreAdded(Meaning(L), Meaning(M), Literals(X), at, Literals(Y))
    <3> DEFINE B == {Meant(L, i) : i \in 1 .. Len(L)}
               b == Meaning(L)
    <3>1. b \in Seq(B)
      BY <1>2, MeaningType
    <3> HIDE DEF b, B, X, Y, at, M
    <3>2. FlagsAreAdded(b, b, Literals(X), at, Literals(Y))
      BY <3>1, NothingAdded
    <3> QED
      BY <2>1, <3>2 DEF b
  <2> QED
    BY <1>1, <2>1
<1>4. /\ n > 0 /\ last.start = c + 1 /\ words = Words(From(L, c + 1))
      /\ \A k \in c + 1 .. n : ~Risky(L[k])
  BY <1>2, <1>3, FinalType
<1>5. /\ c \in 0 .. n - 1 /\ (c # 0 => c \in Ops(L))
      /\ \A i \in c + 1 .. n : ~Operator(L[i])
  BY <1>2, <1>4, LastCommandType
<1>6. at = c + s
  BY <1>4 DEF LastCommand
<1> DEFINE w == n - c
<1>7. words \in Seq(STRING) /\ Len(words) = w /\ w > 0 /\ \A i \in 1 .. w : words[i] = L[i + c].word
  <2> DEFINE T == Typable[way]
             t == From(L, c + 1)
  <2> HIDE DEF c, T
  <2>1. c \in 0 .. Len(L) /\ L \in Seq(T)
    BY <1>2, <1>5 DEF T
  <2>2. t \in Seq(T) /\ Len(t) = w /\ \A i \in 1 .. w : t[i] = L[i + c]
    BY <2>1, SuffixType DEF From
  <2> HIDE DEF t
  <2>3. /\ Words(t) \in Seq(STRING) /\ Len(Words(t)) = Len(t)
        /\ \A i \in 1 .. Len(t) : Words(t)[i] = t[i].word
    BY <2>2, WordsType DEF T
  <2>4. words = Words(t)
    BY <1>4 DEF t
  <2>5. w > 0
    BY <1>2, <1>5
  <2> QED
    BY <2>2, <2>3, <2>4, <2>5
<1>8. last.start - 1 = c
  <2> DEFINE x == last.start
  <2>1. x = c + 1 /\ c \in Nat
    BY <1>2, <1>4, <1>5
  <2> HIDE DEF x, c
  <2>2. x - 1 = c
    BY <2>1
  <2> QED
    BY <2>2 DEF x
<1>9. M = SubSeq(L, 1, c) \o JoinShellWords(W)
  BY <1>1, <1>3, <1>8
<1> HIDE DEF n, c, last, M, at
<1>10. s \in 1 .. Len(words) /\ Len(words) > 0
  <2>1. s \in 1 .. Len(words) + 1 /\ s <= Len(words)
    BY <1>7, CommandsAhead
  <2> HIDE DEF s, words
  <2> QED
    BY <1>7, <2>1
<1>11. inner = From(words, s)
  BY DEF StripTransparentPrefix, last
<1>12. inner \in Seq(STRING) /\ Len(inner) = Len(words) - (s - 1) /\ Len(inner) > 0
  <2> HIDE DEF s, words
  <2>1. s - 1 \in 0 .. Len(words) /\ s - 1 + 1 = s /\ Len(words) \in Nat
    BY <1>7, <1>10
  <2>2. inner \in Seq(STRING) /\ Len(inner) = Len(words) - (s - 1)
    BY <1>7, <1>11, <2>1, SuffixType DEF From
  <2> QED
    BY <1>10, <2>1, <2>2
<1>13. profile.source # "project" /\ prepared = Prepare(profile, inner) /\ X = AddedBy(profile)
  BY <1>3
<1>14. profile = Fallback \/ \E i \in DOMAIN Profiles :
         profile = Profiles[i] /\ MatchesProfile(Profiles[i], inner, inner)
  BY MatchType
<1> HIDE DEF words, s, prepared, X, Y
<1>15. ~Replaces(profile) /\ (profile # Fallback =>
         /\ MatchesProfile(profile, inner, inner) /\ profile.head \notin Assignments /\ profile.head # "")
  <2>1. CASE profile = Fallback
    <3>1. ~Replaces(Fallback)
      BY DEF Replaces, Fallback
    <3> QED
      BY <2>1, <3>1
  <2>2. CASE profile # Fallback
    <3>1. PICK i \in DOMAIN Profiles : profile = Profiles[i] /\ MatchesProfile(Profiles[i], inner, inner)
      BY <1>14, <2>2
    <3> QED
      BY <1>13, <3>1, ProfileType
  <2> QED
    BY <2>1, <2>2
<1>16. profile # Fallback
  <2>1. ASSUME profile = Fallback PROVE FALSE
    <3>1. profile.edits = <<>>
      <4>1. Fallback.edits = <<>>
        BY DEF Fallback
      <4> QED
        BY <2>1, <4>1
    <3>2. Rewritten(inner, <<>>) = inner
      BY NothingRewritten
    <3> QED
      BY <1>3, <1>13, <3>1, <3>2 DEF Prepare
  <2> QED
    BY <2>1
<1>17. prepared \in Seq(STRING) /\ Widened(inner, prepared, X, 1, Y)
  BY <1>12, <1>13, <1>14, <1>15, PreparedType DEF Y
<1>18. words[s] \notin Assignments
  BY <1>7, <1>10, <1>11, <1>15, <1>16, MatchedBegins DEF s
<1>19. W \in Seq(STRING) /\ Widened(words, W, X, s, Y)
  <2>1. s \in 1 .. Len(words) + 1
    <3>1. Len(words) \in Nat
      BY <1>7
    <3> QED
      BY <1>10, <3>1
  <2> QED
    BY <1>7, <1>11, <1>17, <2>1, SplicedType
<1> HIDE DEF W
<1>20. c \in Nat /\ c \in 0 .. Len(L) /\ c < Len(L) /\ Len(words) = Len(L) - c /\ s \in 1 .. Len(words)
       /\ (c # 0 => Operator(L[c]))
       /\ \A i \in 1 .. Len(words) : words[i] = L[i + c].word
  <2>1. c \in Nat /\ c \in 0 .. n /\ c < n
    BY <1>2, <1>5
  <2>2. c # 0 => Operator(L[c])
    BY <1>5 DEF Ops
  <2>3. Len(words) = n - c /\ \A i \in 1 .. Len(words) : words[i] = L[i + c].word
    BY <1>7
  <2> QED
    BY <1>10, <2>1, <2>2, <2>3 DEF n
<1>21. \A i \in c + 1 .. Len(L) : ~Operator(L[i]) /\ ~Risky(L[i])
  BY <1>4, <1>5 DEF n
<1>22. /\ M \in Seq(Lexemes) /\ Len(M) = c + Len(W)
       /\ \A i \in 1 .. c : M[i] = L[i]
       /\ \A i \in 1 .. Len(W) : M[i + c] = QuoteShellWord(W[i])
  BY <1>2, <1>9, <1>19, <1>20, QuotedSplice
<1>23. Widened(Meaning(L), Meaning(M), Literals(X), c + s, Literals(Y))
  BY <1>2, <1>7, <1>18, <1>19, <1>20, <1>21, <1>22, SplicedMeaning
<1>24. FlagsAreAdded(Meaning(L), Meaning(M), Literals(X), c + s, Literals(Y))
  <2> DEFINE A == {Meant(M, i) : i \in 1 .. Len(M)}
             B == {Meant(L, i) : i \in 1 .. Len(L)}
  <2>1. Meaning(M) \in Seq(A)
    BY <1>22, MeaningType
  <2>2. Meaning(L) \in Seq(B)
    BY <1>2, MeaningType
  <2>3. c + s \in Nat
    <3>1. s \in Nat
      BY <1>10
    <3> QED
      BY <1>20, <3>1
  <2> HIDE DEF A, B
  <2> QED
    BY <1>23, <2>1, <2>2, <2>3, WidenedIsAdded
<1> QED
  BY <1>6, <1>24 DEF M, X, Y, at

(* Both ways of asking together.                                           *)
LEMMA AddedFits ==
  ASSUME LinesAssumption, LineTypeOK
  PROVE  OnlyFlagsAreAdded
<1>1. ASSUME AssignsBare(typed) PROVE StringIsKept
  <2> DEFINE inner == StripTransparentPrefix(FinalCommandSegment(typed).words)
             profile == MatchProfile(inner, inner)
             added == IF profile.source = "project" THEN {} ELSE AddedBy(profile)
  <2>1. ASSUME Accepted(typed)
        PROVE  FlagsAreAdded(Meaning(typed), Meaning(ExecString(typed)), Literals(added),
                             LastCommandAt(typed) + InnerAt(LastCommand(typed)), Literals(Ends(profile)))
    <3>1. asked \in DOMAIN Typable /\ typed \in Seq(Typable[asked])
      BY DEF LineTypeOK
    <3> QED
      BY <1>1, <2>1, <3>1, StringFits
  <2> QED
    BY <2>1 DEF StringIsKept, Literals
<1> DEFINE words == Words(typed)
           argv == Preferred(words)
           p == ProgramAt(argv)
           command == From(argv, p)
           display == StripTransparentPrefix(words)
           profile == MatchProfile(command, display)
<1>2. words \in Seq(STRING)
  BY WordsType DEF LineTypeOK
<1> HIDE DEF words
<1>3. ASSUME p # 0, StripTransparentPrefix(argv) = command, ~Replaces(profile)
      PROVE  FlagsAreAdded(argv, ExecArgv(words), AddedBy(profile), p, Ends(profile))
  BY <1>2, <1>3, ArgvFits
<1>4. ASSUME p # 0, StripTransparentPrefix(argv) = command, argv = words,
             command[1] # "builtin", ShellWrapperCommandIndex(command) = 0
      PROVE  profile.head \in {"", command[1]}
  <2>1. display = command
    BY <1>4
  <2>2. MatchProfile(command, command).head \in {"", command[1]}
    <3>1. argv \in Seq(STRING)
      BY <1>2, <1>4
    <3> QED
      BY <1>4, <3>1, ProgramsOwn
  <2> QED
    BY <2>1, <2>2
<1> QED
  BY <1>1, <1>3, <1>4 DEF OnlyFlagsAreAdded, words

(* What runs in place of what was typed is what was typed, or that with    *)
(* flags of the matched profile behind the program's first word.           *)
THEOREM OnlyFlagsAdded == LineSpec => []OnlyFlagsAreAdded
<1>1. LineTypeOK => OnlyFlagsAreAdded
  BY LinesAreLines, AddedFits
<1> QED
  BY <1>1, LineTypeCorrect, PTL
=============================================================================
