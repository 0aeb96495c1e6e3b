----------------------------- MODULE UpdateCheck -----------------------------
(***************************************************************************)
(* The check for a newer release and the update of szr itself:             *)
(* internal/updates and the flow around a command in internal/cli/app.go.  *)
(*                                                                         *)
(* A command starts a probe in the background.  When it is done the        *)
(* process waits for the probe, but not for long, tries to update itself   *)
(* and tells an interactive user of a newer release.  All three ask Doctor,*)
(* which answers from a cache file while that is fresh and from the        *)
(* network otherwise.  The file also remembers the last attempt to update. *)
(* It is not locked and is written by truncating it: a process that goes   *)
(* away in between leaves it empty.                                        *)
(*                                                                         *)
(* Releases are numbered from 1; 0 stands for none.                        *)
(***************************************************************************)
EXTENDS Integers

CONSTANTS
  Procs,       \* szr processes
  MaxRelease,  \* bound: releases published
  MaxHour,     \* bound: hours that pass
  MaxStarts,   \* bound: commands run
  Interval     \* cfg.IntervalHours

Releases == 1 .. MaxRelease
Hours == 1 .. MaxHour

ASSUME UpdateAssumption ==
  /\ MaxRelease \in Nat \ {0} /\ MaxHour \in Nat \ {0}
  /\ MaxStarts \in Nat /\ Interval \in Nat \ {0}

VARIABLES
  config,     \* cfg.AutoUpdate, a terminal, and an install szr can upgrade
  hour,       \* the clock
  latest,     \* the latest release
  installed,  \* the installed binary
  file,       \* update-check.json
  starts,     \* how many commands were run
  proc,       \* the processes
  best,       \* history: the newest release that was ever installed
  failed,     \* history: the release and hour of the last failed attempt
  excused     \* history: the memory of that attempt was lost with the file

vars == <<config, hour, latest, installed, file, starts, proc, best, failed, excused>>

(* The file, or what loadCache makes of one that is missing or empty.      *)
Cache(checked, version, attemptedAt, attempted, succeeded, error) ==
  [checked |-> checked, version |-> version, attemptedAt |-> attemptedAt,
   attempted |-> attempted, succeeded |-> succeeded, error |-> error]
NoCache == Cache(0, 0, 0, 0, 0, FALSE)
NoReport == [version |-> 0, checked |-> 0, available |-> FALSE]

(* at: what the process does next; stage: which call of Doctor it is in;   *)
(* version: the release it runs; cache: the file as it was read, or as it  *)
(* will be written; report: what Doctor found; told: it printed the notice.*)
Flow(at, stage, version, cache, report, updated, told) ==
  [at |-> at, stage |-> stage, version |-> version, cache |-> cache, report |-> report,
   updated |-> updated, told |-> told]
Off == Flow("off", "none", 0, NoCache, NoReport, FALSE, 0)

(* A flow that moves on, with another cache, or with a report. *)
Moves(f, at, stage) == Flow(at, stage, f.version, f.cache, f.report, f.updated, f.told)
Holds(f, at, cache) == Flow(at, f.stage, f.version, cache, f.report, f.updated, f.told)
Finds(f, at, stage, report) == Flow(at, stage, f.version, f.cache, report, f.updated, f.told)

Init ==
  /\ config \in [auto : BOOLEAN, terminal : BOOLEAN, managed : BOOLEAN]
  /\ hour = 1 /\ latest = 1 /\ installed = 1
  /\ file = NoCache
  /\ starts = 0
  /\ proc = [p \in Procs |-> Off]
  /\ best = 1
  /\ failed = [version |-> 0, hour |-> 0]
  /\ excused = FALSE

Become(p, r) == proc' = [proc EXCEPT ![p] = r]

-----------------------------------------------------------------------------
(* The world.                                                              *)

HourPasses ==
  /\ hour < MaxHour
  /\ hour' = hour + 1
  /\ UNCHANGED <<config, latest, installed, file, starts, proc, best, failed, excused>>

Publish ==
  /\ latest < MaxRelease
  /\ latest' = latest + 1
  /\ UNCHANGED <<config, hour, installed, file, starts, proc, best, failed, excused>>

(* The user installs another release by hand, or with "szr self update",   *)
(* which leaves the cache alone.                                           *)
Reinstall ==
  /\ \E v \in 1 .. latest : v # installed /\ installed' = v
  /\ best' = IF installed' > best THEN installed' ELSE best
  /\ UNCHANGED <<config, hour, latest, file, starts, proc, failed, excused>>

-----------------------------------------------------------------------------
(* startUpdateFlow: a command whose updateFlowWanted holds, and the probe. *)
Start(p) ==
  /\ proc[p].at = "off" /\ starts < MaxStarts
  /\ config.auto \/ config.terminal
  /\ starts' = starts + 1
  /\ Become(p, Flow("load", "probe", installed, NoCache, NoReport, FALSE, 0))
  /\ UNCHANGED <<config, hour, latest, installed, file, best, failed, excused>>

Newer(p, v) == v # 0 /\ proc[p].version < v

(* Doctor has its report.  The probe is followed by AutoUpdate, and that   *)
(* by maybePrintUpdateNotice.                                              *)
Reported(p, r) ==
  CASE proc[p].stage = "probe" -> Finds(proc[p], IF config.auto THEN "load" ELSE "notice", "auto", r)
    [] proc[p].stage = "auto" -> Finds(proc[p], "decide", "auto", r)
    [] OTHER -> Finds(proc[p], "tell", "notice", r)

FromCache(p, c) ==
  [version |-> c.version, checked |-> c.checked, available |-> Newer(p, c.version)]

CacheFresh(c) == c.checked # 0 /\ hour - c.checked < Interval

(* Doctor reads the cache and answers from it while it is fresh.           *)
DoctorLoad(p) ==
  /\ proc[p].at = "load"
  /\ IF CacheFresh(file)
     THEN Become(p, Reported(p, FromCache(p, file)))
     ELSE Become(p, Holds(proc[p], "fetch", file))
  /\ UNCHANGED <<config, hour, latest, installed, file, starts, best, failed, excused>>

(* A fault for mutation: the stale cache is not asked.                     *)
FetchFailsBlank(p) ==
  /\ proc[p].at = "fetch"
  /\ Become(p, Reported(p, NoReport))
  /\ UNCHANGED <<config, hour, latest, installed, file, starts, best, failed, excused>>

(* liveDoctorCheck: no answer; a stale cache is better than none.          *)
FetchFails(p) ==
  /\ proc[p].at = "fetch"
  /\ LET c == proc[p].cache
     IN  Become(p, Reported(p, IF c.checked # 0 THEN FromCache(p, c) ELSE NoReport))
  /\ UNCHANGED <<config, hour, latest, installed, file, starts, best, failed, excused>>

(* recordLiveRelease: the release is entered into the cache as it was read *)
(* before the call, and the file is truncated.                             *)
Fetch(p) ==
  /\ proc[p].at = "fetch"
  /\ LET r == [version |-> latest, checked |-> hour, available |-> Newer(p, latest)]
         c == proc[p].cache
     IN  Become(p, Holds(Finds(proc[p], "save", proc[p].stage, r), "save",
                     Cache(hour, latest, c.attemptedAt, c.attempted, c.succeeded, c.error)))
  /\ file' = NoCache
  /\ UNCHANGED <<config, hour, latest, installed, starts, best, failed, excused>>

(* saveCache writes the truncated file. *)
Save(p) ==
  /\ proc[p].at = "save"
  /\ file' = proc[p].cache
  /\ Become(p, Reported(p, proc[p].report))
  /\ UNCHANGED <<config, hour, latest, installed, starts, best, failed, excused>>

-----------------------------------------------------------------------------
(* AutoUpdate.                                                             *)

(* A fault for mutation: only a success is remembered.                     *)
AttemptFreshBySuccess(c, v) == v # 0 /\ c.succeeded = v

AutoUpdateAttemptFresh(c, v) ==
  /\ v # 0
  /\ \/ c.succeeded = v
     \/ c.attempted = v /\ hour - c.attemptedAt < Interval

ToNotice(p) ==
  Moves(proc[p], IF config.terminal THEN "load" ELSE "exit", "notice")

(* Whether to try, by the report and by the file as it is now.             *)
Decide(p) ==
  /\ proc[p].at = "decide"
  /\ LET r == proc[p].report
         try == /\ r.available /\ config.managed
                /\ ~AutoUpdateAttemptFresh(file, r.version)
     IN  Become(p, IF try
                   THEN Holds(proc[p], "upgrade",
                          Cache(r.checked, r.version, hour, r.version, file.succeeded, file.error))
                   ELSE ToNotice(p))
  /\ UNCHANGED <<config, hour, latest, installed, file, starts, best, failed, excused>>

(* A fault for mutation: the package manager is believed.                  *)
VerifyByExitCode(v, answers) == TRUE

(* verifyInstalledVersion: the binary can be asked, and is not older.      *)
VerifyInstalledVersion(v, answers) == answers /\ installed' >= v

(* SelfUpdate runs the package manager: it fails, or it does not and leaves *)
(* some release that is out, the one that was there or a newer one.  The   *)
(* installed binary is asked for its version, which may fail.              *)
Upgrade(p) ==
  /\ proc[p].at = "upgrade"
  /\ \E ok \in BOOLEAN, answers \in BOOLEAN :
       /\ installed' \in IF ok THEN installed .. latest ELSE {installed}
       /\ best' = IF installed' > best THEN installed' ELSE best
       /\ LET f == proc[p]
              c == f.cache
              v == f.report.version
              done == ok /\ VerifyInstalledVersion(v, answers)
          IN  /\ Become(p, Flow("truncate", f.stage, f.version,
                      Cache(c.checked, c.version, c.attemptedAt, c.attempted,
                            IF done THEN v ELSE c.succeeded, ~done),
                      f.report, done, f.told))
              /\ failed' = IF done THEN failed
                           ELSE [version |-> v, hour |-> proc[p].cache.attemptedAt]
              /\ excused' = FALSE
  /\ UNCHANGED <<config, hour, latest, file, starts>>

(* saveCache truncates the file, and then writes it. *)
Truncate(p) ==
  /\ proc[p].at = "truncate"
  /\ file' = NoCache
  /\ Become(p, Moves(proc[p], "saveAttempt", proc[p].stage))
  /\ UNCHANGED <<config, hour, latest, installed, starts, best, failed, excused>>

SaveAttempt(p) ==
  /\ proc[p].at = "saveAttempt"
  /\ file' = proc[p].cache
  /\ Become(p, IF proc[p].updated THEN Moves(proc[p], "exit", proc[p].stage) ELSE ToNotice(p))
  /\ UNCHANGED <<config, hour, latest, installed, starts, best, failed, excused>>

(* Without auto update the flow goes straight to the notice. *)
SkipAutoUpdate(p) ==
  /\ proc[p].at = "notice"
  /\ Become(p, ToNotice(p))
  /\ UNCHANGED <<config, hour, latest, installed, file, starts, best, failed, excused>>

(* maybePrintUpdateNotice. *)
Tell(p) ==
  /\ proc[p].at = "tell"
  /\ LET r == proc[p].report
         f == proc[p]
     IN  Become(p, Flow("exit", f.stage, f.version, f.cache, r, f.updated,
                     IF r.available /\ config.managed THEN r.version ELSE 0))
  /\ UNCHANGED <<config, hour, latest, installed, file, starts, best, failed, excused>>

-----------------------------------------------------------------------------
Exit(p) ==
  /\ proc[p].at = "exit"
  /\ Become(p, Off)
  /\ UNCHANGED <<config, hour, latest, installed, file, starts, best, failed, excused>>

(* The process goes away with the file truncated, or without having        *)
(* written down what it tried.                                             *)
Leave(p) ==
  /\ Become(p, Off)
  /\ excused' = (excused \/ proc[p].at \in {"save", "truncate", "saveAttempt"})
  /\ UNCHANGED <<config, hour, latest, installed, file, starts, best, failed>>

(* updateFlowJoinTimeout: the command is done and the probe is not.        *)
JoinTimeout(p) == proc[p].stage = "probe" /\ Leave(p)

Interrupt(p) == proc[p].at # "off" /\ proc[p].stage # "probe" /\ Leave(p)

-----------------------------------------------------------------------------
Step(p) ==
  \/ Start(p) \/ Exit(p) \/ JoinTimeout(p) \/ Interrupt(p)
  \/ DoctorLoad(p) \/ Fetch(p) \/ FetchFails(p) \/ Save(p)
  \/ Decide(p) \/ Upgrade(p) \/ Truncate(p) \/ SaveAttempt(p) \/ SkipAutoUpdate(p) \/ Tell(p)

Next == HourPasses \/ Publish \/ Reinstall \/ \E p \in Procs : Step(p)

Spec == Init /\ [][Next]_vars

-----------------------------------------------------------------------------
(* An update is remembered as made only when the installed binary was seen *)
(* to be at least that release, also when processes overwrite the file of  *)
(* one another.                                                            *)
SuccessIsInstalled ==
  /\ file.succeeded <= best
  /\ \A p \in Procs : proc[p].cache.succeeded <= best

(* A step that tries the release again whose update failed last.           *)
Retries(p) ==
  /\ proc[p].at = "decide" /\ proc'[p].at = "upgrade"
  /\ proc[p].report.version = failed.version
  /\ hour - failed.hour < Interval
RetriesAreExcused == \A p \in Procs : Retries(p) => excused

(* With one process at a time, a release whose update failed is not tried  *)
(* again within the interval, unless a process went away while its memory  *)
(* of that was not in the file.                                            *)
FailureWaits == [][RetriesAreExcused]_vars

(* With one process at a time, an interactive command whose flow runs to   *)
(* its end has updated szr or named the newest release the cache knows.    *)
KnownUpdateIsTold ==
  \A p \in Procs :
    (/\ proc[p].at = "exit" /\ config.terminal /\ config.managed
     /\ Newer(p, file.version))
    => proc[p].updated \/ proc[p].told = file.version
=============================================================================
