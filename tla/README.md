# A verification of szr in TLA+

szr runs a command in place of an agent, captures its output, shows a reduced
form of it, and keeps what it needs to measure savings, to show a repeated
output by reference and to expand what it hid. Everything it keeps lies in
plain files of a state directory that any number of szr processes share without
a lock. This directory holds the TLA+ modules that model szr from the command
line it is given to the text it shows and the files it keeps, the TLC
configurations that check them, and proofs that TLAPS checks.

Paths below are relative to `src/`, the root of the Go repository.

## 1. The system

### Components

| component | where | state it keeps | operations |
|---|---|---|---|
| stream capture | `internal/engine/run.go`, `tee.go`, `engine_execute_record.go` | two collectors, a shared reducer, a shared tee file, the exit code | `runCommand`, two `copyStream` goroutines, `Finalize` |
| history store | `internal/history/store.go`, `store_lines.go`, `totals.go` | `history.jsonl`, `history-totals.json` | `Append` with `compact` and `archive`, `LoadAll`, `Totals`, `Clear` |
| session dedup and delta | `internal/dedup`, `internal/engine/dedup.go`, `dedup_delta.go`, `internal/cli/expand.go` | `index.jsonl`, one artifact file per stored output | lookup, verify, adopt or store, digest baseline, `Append` with `compact` and orphan removal, `szr expand` |
| execution pipeline | `internal/engine/engine_execute*.go`, `recovery*.go` | the record of one run | prepare, run, render, guard, recovery references, history, events |
| fast path | `internal/engine/fastpath.go` | none | relays tiny outputs unreduced |
| tee artifacts and index | `internal/engine/tee_retention.go`, `internal/teeindex`, `internal/cli/tee.go` | capture files, their index | promotion, retention by age, count and bytes, listing, opening, pruning |
| diagnostics | `internal/diagnostics` | outbox, status file | record, flush, upload, back-off |
| updates | `internal/updates`, `internal/cli/app.go` | release cache | background probe, notice, auto-update attempt |
| budget hints | `internal/budgethints`, `internal/engine/gateway_budget_hints.go`, `budget_adapt*.go` | hint cache, outcomes | refresh, lookup, outcome, rollback |
| JSONL reader | `internal/jsonl` | none | scan that skips oversized lines |
| classification, unwrap, match | `internal/engine/classification.go`, `*_unwrap.go`, `shell_words.go`, `match.go` | none | argv or shell string to profile, and the argv that is run |
| compression and render guards, verifier | `internal/engine/compression.go`, `output_guard.go`, `ultra_compact*.go`, `verify*.go` | none | text to text |
| filters | `internal/filters` | none between runs; a reducer keeps counters while it is fed | fed line by line, or given the whole output; result, preview, recovery |
| rules, profiles | `internal/rules`, `internal/profiles`, `custom_rule*.go` | trust file | load, match, prepare |
| rewrite, discover | `internal/rewrite`, `internal/discover` | none | a typed line to one that calls szr |
| installers, config, cli, bench | the directories of those names | configuration files | parse, edit, print |

### How they interact

The hook of an agent may first rewrite a typed line into one that calls szr
(`rewrite.Analyze`). `ExecuteStreaming` looks through wrappers and `sh -c` for
the command that matters, matches a profile, which may add flags, and puts the
command back where it was. The budget of the profile is tuned and adapted to
advice from the history or a gateway. `buildRunOptions` turns all that into the
options of a capture, and `runCommand` starts the command with two goroutines.
They write to their own collector and, through mutexes, to the reducer and the
tee of the run. The result decides what follows: `streamingCaptureIncomplete`
says whether the in-memory capture may stand for the raw output,
`DecideFastPath` whether that output is relayed, and `applySessionDedup`
whether a reference to an earlier run or a digest of the changes is shown
instead of the render. What a reducer made of the output goes through the
contract, the guards, the recovery suffix and the verifier, each of which may
cut it or add to it. After that the process appends a record to the history
and an entry to the indexes, and ends. No component calls back into an earlier
one; the processes meet only in the files.

### What is hard

* Two goroutines feed one reducer and one tee. Its own mutex makes a call of it
  atomic, not the check before the call.
* Buffering of a stream may stop while the reducer is still fed by the other,
  and yet the pipe has to be drained or the command hangs.
* The stores append with `O_APPEND`, and compact by reading the file, writing a
  temporary one and renaming it. Between the read and the rename other
  processes append, compact or clear. A process that opened the file before the
  rename appends to an inode nobody reads any more.
* A compaction touches two things one after the other, the file and the totals
  (history) or the index and the artifacts (dedup); a process may die between.
* A write that stops short leaves a line without its newline; the next append
  continues it and both records are lost.
* Nearly every error on these paths is swallowed: accounting must never fail
  the command.
* The stages that cut a text do not know of one another: what one adds, the next
  may remove, and what a reducer said of the text may no longer be true of it.
* A reducer may be cut off at any chunk, by being done or by a stop, and may be
  asked for its summary at any time; several exist twice, fed line by line and
  given the whole output.
* A line budget and a token budget cut the same list of failures.
* The uploader of diagnostics works on the outbox while events are enqueued, and
  counts the lines it has to remove.
* A probe for updates outlives the wait for it; the cache it writes is read, and
  truncated, by other processes.
* Words are taken out of a shell's string and quoted again.

### What makes each component correct

* Capture: what is taken for the raw output is the raw output; the reducer is
  fed each stream in order, once, completely unless it said it was done;
  buffering stops only when a summary is going to be shown; a tee file that is
  kept is the capped whole run; the run ends.
* History: no run is counted twice and none vanishes; the file stays bounded and
  keeps what was just recorded; clearing clears.
* Dedup: a reference that is shown expands, to the output of this very run; a
  digest is against the last run of the command and its baseline expands; no
  entry without its artifact, no artifact without an entry.
* Tee store: the output a run points to is there; an index entry has its file
  and a file its entry; the directory is within its caps.
* Diagnostics: an event that was accepted stays until the server has it; what is
  lost is counted; the outbox drains.
* Updates: success is remembered only of what is installed, a failed attempt is
  not repeated at once, a known update is told.
* Budgets: adaptation stays within its share, a hint taken back stays back.
* Pipeline: a failing run says something; a planned omission can be recovered;
  the facts the verifier vouches for are in what is shown.
* Reducers: what is hidden can be recovered, "+N more" is true, the streaming
  form says what the batch form says, and the name of what failed is the last
  thing to give way.
* Command lines: flags reach the program they are meant for and nothing else
  changes.

## 2. The modules

| module | builds on | content |
|---|---|---|
| `StreamCapture` | | one run: the goroutines, collectors, reducer, tee, wait and what the pipeline asks of the result |
| `StreamCapture_proof` | `StreamCapture` | the inductive invariant of a capture and what follows from it |
| `Loops` | | what a loop over a sequence comes to, turn by turn: the elements it keeps, the sum of the last so many, the place where a walk stops |
| `Foundations` | `Loops` | lemmas the proofs share: least and greatest members of a set of numbers, what a loop over a sequence keeps, sums of a sequence and of its beginnings, where a walk over positions ends |
| `HistoryStore` | `Loops` | the two files of the history and the processes on them |
| `DedupStore` | | the dedup index, the artifacts and the end of a run |
| `TeeStore` | `Loops` | the tee directory, its pruning and its index |
| `EventLedger` | | what the exporter of diagnostics promises: the abstract specification |
| `EventExporter` | `Loops`, instance of `EventLedger` | the outbox, the goroutine that uploads it, the status file; the mapping to the ledger |
| `UpdateCheck` | | the update flow around a command: probe, cache, attempt, notice |
| `Budgets` | | the budget of a profile, its tuning, its adaptation, the suggestion of the history |
| `BudgetHints` | `Budgets` | the hints of a gateway, their outcomes and rollback, the records of a command |
| `Rendering` | `Loops` | what the engine does to a rendered text: contract, ultra-compact form, guards, verifier |
| `RenderPipeline` | `Rendering` | a run from the prepared invocation to the text that is shown, stage by stage; the batch path |
| `LineReducers` | | the compact, declarative, failure, log and `go test` reducers |
| `SearchReducers`, `GitReducers`, `DiagnosticReducers` | `LineReducers` | find, grep and rg; git; compilers, test runners and build tools |
| `TableReducers` | `DiagnosticReducers` | tables, queries, cloud lists, Kubernetes |
| `HostReducers` | `TableReducers` | docker, compose, gh, glab |
| `PreviewReducers` | `HostReducers` | files, signatures, directories, trees, patches, environments, HTTP, cloud logs |
| `CommandLines` | `Loops` | wrappers, the string of a shell, the match, the argv that is run, the rewrite of hooks |
| `MCStreamCapture`, `MCHistoryStore`, `MCDedupStore`, `MCTeeStore`, `MCEventExporter`, `MCRenderPipeline`, `MCCommandLines` | the module of that name | sets, functions, symmetries and sample inputs for TLC |
| `MCFilters` | all reducers | one reducer is chosen and fed every short output, cut into chunks in every way |
| `MCRendering` | `MCFilters`, `MCRenderPipeline` | the pipeline or a reducer |
| `MCServices` | `UpdateCheck`, `BudgetHints`, `MCCommandLines`, instance of `BudgetHints` | one of the services around a run: updates, advice of a gateway, advice of the history, command lines |
| `HistoryStore_proof`, `DedupStore_proof`, `TeeStore_proof`, `EventExporter_proof`, `RenderPipeline_proof` | the module of that name, `Foundations` | the inductive invariants of the component and what follows from them |
| `Services_proof` | `UpdateCheck`, `BudgetHints`, `CommandLines`, `Foundations` | the same, for the updates, the hints and the command lines |

`RECURSIVE` operators are used in `TableReducers` (with what extends it) only;
the others are written so that they can be proved about.

Constants carry the name of the Go constant or configuration value where there
is one (`PreviewBytes` is `rawPreviewBytes`, `RetainRecords` the number of
records a compaction keeps). Operators named after a Go function translate that
function. A comment that begins with "Broken:" marks a variant of the operator
after it, with a plausible mistake in it, which is used only to see that the
properties notice.

### StreamCapture

A byte is its stream and its position in it, a chunk a number of bytes. The
builder of a collector is the sequence of positions it holds, so that loss,
repetition and reordering show. A goroutine goes through a chunk in the steps
another goroutine can come between:

| `pc` | `copyStream` (`run.go:372-410`) | action |
|---|---|---|
| `read` | `Read`, `collector.Consume` | `ReadChunk`, `ReadEOF`, `ReadError` |
| `tee` | `tee.Write` | `WriteTee` |
| `check` | `reducer.Done()` | `CheckReducer` |
| `feed` | `ConsumeStdout`/`ConsumeStderr` and the estimate | `FeedReducer` |
| `publish` | `publishPreview` | `Publish` |
| `tokens` | `DisableTokenAccounting` | `DisableTokens` |
| `stop` | `DisableBuffering` | `StopCollector` |

`main` walks through `Wait`, `ReduceLater`, `PublishLater` and `FinalizeTee`. What
a filter does is a choice: fed a chunk it may say it is done, and it may have a
usable summary or not. Nor is the text modelled: of the bytes of a chunk any
number of runes may be complete that the longest encoding allows (`Counted`), the
rest begins a rune (`pending`), and a stream that holds anything may be blank
(`BlankStreams`). So a preview can overflow while its tokens are few, and
`bypassRawContent` may fall back from a blank preferred stream to both
(`RelayedStreams`). `BypassKind` is the decision of `DecideFastPath` with its
empty preferred stream and, by `FailureExit`, the exit codes a profile calls
benign. The command writes, blocks on a full pipe nobody drains (`CommandBlocks`)
and exits. The tee is a sequence of bytes with one marker for what was dropped;
writes, the flush of the tail and the rename may fail.

### HistoryStore

`inodes` lists every file `history.jsonl` has been, the last one being the
file. A line has a kind (it parses, it is oversized, it is torn), a size and
whether its newline was written. `Open`, `Write`, `Stat`, `ReadLines`,
`Replace`, `ReadTotals` and `WriteTotals` are the system calls of `Append` in
order, `Truncate` and `RemoveTotals` those of `Clear`; `Load` is a `LoadAll`
that finds an oversized line. Each has the outcome of a failing call.
`Crash` ends a process at any of them, `Exit` at the end. `totals.count` says
how often each run is in the archived totals, which the Go code keeps as sums:
a run counted twice is a sum that is too large. Records are written once per
run, so a run has the number of its record. `waived`, `cleared` and `failed`
are history variables: the losses the code declares acceptable (a call failed,
a process died while archiving, the line was spoiled by an earlier write), what
the user cleared, and whether a call of the last `Append` failed.

### DedupStore

The index is a set of entries, with the number of lines that do not parse and
whether the last line was ended; readers sort by timestamp, so its order does not
matter. `Start` is the moment `applySessionDedup` has something worth
referencing; `Match`, `Adopt`, `Reject`, `Store`, `Baseline`, `Diff` are the
decision; `Open`, `Write`, `Stat`, `Compact`, `Rewrite`, `Sweep` the append;
`Show` the moment the user sees the result. `Damage` is somebody removing or
altering an artifact while no run looks at it. An output stands for its hash
and a timestamp for a run. Whether a reference is cheaper than the render is a
choice.

`recorded`, `damaged`, `leaked` and `cut` are history variables: entries whose
append succeeded, artifacts that somebody touched, artifacts whose removal or
recording failed or whose run died, and whether a line was ever cut short.

### TeeStore

`dir` lists the `.partial` and `.log` files from the least to the most recently
written, `index` the lines of `index.jsonl`. A run is a number, and so are its
file, its entry and its timestamp. `Start`, `Write`, `Keep` and `Drop` are the life
of a capture as the directory sees it; `Scan`, `RemoveExcess`, `DropEntries`,
`Truncate` and `Replace` are `pruneTeeDir`, one file-system call at a time;
`Retain`, `Defer`, `Cleanup` and `Index` decide what becomes of the file after
the render; `PruneCommand` and `Sweep` are `szr tee prune`, which ends in the
same `Replace`. `Hour` is an hour in which nobody writes, after which a partial
capture counts as stale. The recovery plan and the failure policy are one choice
(`persist` of `Retain`). `Replace` creates the index anew and writes its lines at
its own offset, so that with two processes lines are overwritten and holes
appear (`WriteAt`). `excused` is a history variable: the runs under whose file or
entry a call failed or a process died.

### EventExporter and EventLedger

`Enqueue` is `AppendRead` and `AppendWrite` under the mutex of the process, and
makes room at the front of the outbox. The goroutine takes a batch (`Flush`),
is answered or not (`Accepted`, `AnswerLost`, `Rejected`), and removes as many
lines as it sent (`RemoveRead`, `RemoveWrite`). `Open` takes the count of dropped
events over from the status file, `PersistStatus` writes it, `Close` flushes once
more, `Crash` ends a process anywhere. `limit` is the size of
the outbox, chosen in the initial state. `stored` and `drops` are history
variables. `Ledger` maps the outbox to the pending events of `EventLedger`, what
the server has to the delivered ones and the count of dropped events to the
refused ones: an exporter whose outbox is never short of
room implements the ledger (`ImplementsLedger`), lost answers, repeated batches,
failing files and deaths included. One whose outbox is short of room does not; see
`exporter_unsent`.

### UpdateCheck

A process goes through three stages, the probe in the background, the automatic
update and the notice, and each of them asks `Doctor`, whose steps are
`DoctorLoad`, `Fetch` or `FetchFails`, and `Save`. `Truncate` and `SaveAttempt`
are the two halves of writing the cache file. `JoinTimeout` is the end of a
command whose probe is late, `Interrupt` any other early end; both may leave the
file empty. The installed binary may be older than what a package manager says
it installed, or not answer at all (`VerifyInstalledVersion`). `best` (the
newest release ever seen installed), `failed` and `excused` are history
variables.

### Budgets and BudgetHints

`TunedBudget` is `ResolveBudgetWithAdapter` up to the adapter,
`FindBudgetSuggestion` what the history suggests, `AdaptBudgetConservatively` the
cautious step towards advice. `BudgetHints` has the file of hints (`Refresh`,
`Lookup`), a run between the choice of its budget (`StartRun`) and the recording
of its outcome (`Finish`), during which the file may be replaced, and, with
`Adaptive`, the records the next suggestion is made from, so that advice feeds on
runs it has itself changed. The file of outcomes may fail to open when a run
starts; then no hint is taken back (`TakenBack`), and `RollbackSticks` does not
hold the hint such a run applies against the code. An outcome belongs to a hint by
the hint's identifier and expiry, compared by value (see section 3). `evidence`
and `taken` are history variables: outcomes of the runs a hint was really applied
to, and the hints that were found harmful. The names of `BudgetHints` differ from
those of `UpdateCheck` (`Runners`, `clock`, `HintsSpec`), so that `MCServices` can
extend both.

### Rendering and RenderPipeline

A text is a sequence of lines; a line has a cost in tokens, a score and the
facts whose names it holds. `Rendering` has the functions that cut or replace a
text; how words are scored is abstracted, the comparisons and caps are not. A loop
over the lines is the set of the numbers of the lines it keeps, or a function of the
turn where it carries something on; a text is then those lines in their order.
`RenderPipeline` has the stages of `ExecuteStreaming` as actions in their order:
`RunCommand`, `Render`, `Escalate`, `Compact`, `Contract`, `Finalize`,
`RetainTee`, `WriteArtifact`, `Assemble`, `Verify`, `Complete`; `RenderExecution`
is the batch path. What a capture may look like (whole, previewed, stopped) comes
from the job; `StreamCapture` says which of these really occur. A reducer is
what it made of the output, and whether it asked for the output to be kept.

The verifier has the limits of its code. It reads facts line by line until there are
`MaxFacts` (64; `FactLines`), from the capture in memory if that is complete and
otherwise from the first `ArtifactLimit` tokens of the capture file (256 KB;
`ReadFailureArtifact`), and what it puts back is a line clipped to `RepairTokens`
(200 runes; `Collapsed`), which may no longer name what the line did. A count
(`SummaryCounts`) is wanted of a failure only, and only when no detail is named.
`Promised` is what all this vouches for, and what `CriticalFactsSurvive` asks of
the final text: not every fact of the output. A line has one set of facts that survive
a clipping, `head`, whatever the length it is clipped to.

Some of the data is coarser than in the code: the capture file holds the whole
output in one order, while `StreamCapture` has the interleaving and the cap of the
tee (`TeeMaxBytes`); a name longer than 120 characters, which the verifier skips,
is no fact; lines that are equal after clipping are one to the code's list of
missing lines and several to the model's, whose section is full a little sooner.

`Words` and `Jobs`, the names of facts and the runs there may be, are constants.
`JobsAssumption` says what a run is: lines that print alike are the same line, a
line is not blank, "..." is one token, and neither the command nor the reducer
prints a line that reads like a reference of szr to an artifact. A command that
prints such a line, `szr` called by `szr` for one, is outside of it: the engine would
take it for a reference of its own.

### The reducers

A line is a record of what the reducer's classifier sees in it: its text, the key
under which it is folded, its kind. The patterns by which a classifier recognises
a kind are abstracted; every count, limit, window, order and choice between lines
is not. A path has a rank, its place among the sorted paths, since both forms of
find sort what they keep. A streaming reducer is a record and a function that
feeds it a line; a summary is a function of the whole output. Each returns what it
shows (`shown`), how many entries it lists (`rows`), the number in its note of
what is left out (`more`), and whether it asks for the output to be kept (`plan`).
`MCFilters!FeedLine` prints a line, feeds it when its chunk is fed (`run.go:385`),
and asks for a preview, which for some reducers changes what they say later.

### CommandLines

A word has the properties that the code asks of its characters: whether it is an
assignment, begins with a dash, holds an expansion or a character to be quoted.
What is typed into a shell is a sequence of lexemes, a word and how it is
written. `StripTransparentPrefix`, `ClassifiedHead`, `FinalCommandSegment`,
`MatchProfile`, `ExecArgv`, `ExecString` and `Analyze` translate the functions of
those names. A loop that strips words is a walk over the places of a line
(`Loops!WalkEnd`), and a command is told by the place it begins at: `InnerAt` is
where `stripTransparentPrefix` leaves off.

What `Prepare` does is data: a profile has a sequence of edits, each a list of
words with the place it is put at and the words that make it superfluous
(`EditOf`). The places are behind the first word (`rg`, `ls`, `tree`), behind the
current directory (`find`), before a `--` or at the end (the rules of a project),
at the end (`go test`), and instead of the command (rules only). rg has three
edits, one of them for searches of the current directory only (`here`), which
looks for other operands the way `shouldInjectDefaultRipgrepExcludes` does. The
preferences of a project are edits too, applied to the whole argv before anything
is unwrapped (`Preferred`); they cannot replace a command (`validatePreference`).
In front of a `sh -c` they only add words behind the string, which are parameters
of the shell and not part of its line, so that `ExecString` has none. The lists of
the other profiles (grep, the JavaScript tools, PowerShell, git) are of these same
kinds with other words. A match looks at the command, at what was typed, or at
what that is classified as (`by`), which goes through the string of a shell in
turn.

`Meaning` and `ProgramAt` are the other side, what the shell and the wrappers make
of a line, written from their documentation; they are external. Which words have
which properties, the profiles, the preferences and what may be typed are
constants, of which `LinesAssumption` says what the code's tables and the shell's
grammar have in common: options and program names are no assignments, whatever
expands is quoted by `joinShellWords`, and only a rule of the project replaces a
command. An option with an attached value is one word. The only state is the line
typed so far.

## 3. What the runs check

| run | properties | shows |
|---|---|---|
| `capture_reducer` | `CaptureInv`, `CompleteCaptureIsWhole`, `ReducerSeesItsStreams`, `FastPathRelaysWhole`, `DonePreviewIsLast`, `RunEnds` | every stream preference, capture mode and early stop, both goroutines on one reducer |
| `capture_tee` | `KeptTeeHoldsRun` | both goroutines on one tee, with and without the reducer, writes and reads failing |
| `history_one` | `CountedOnce`, `RunsAccounted`, `ClearedIsGone`, `SortedWindow`, `AppendSettles` | one process after another, everything failing, deaths anywhere, clears, oversized and torn lines |
| `dedup_one` | `NoDangling`, `RefExpandsUncut`, `BaselineExpands`, `BaselineIsLastRun`, `ReferenceIsHonest`, `NoLeak` | one process after another, everything failing, deaths anywhere, artifacts damaged |
| `tee_one` | `ReferenceLives`, `EntryHasFile`, `FileHasEntry`, `BoundedAfterPrune` | one process after another, everything failing, deaths anywhere, silent hours, `szr tee prune` |
| `exporter_one` | `LossIsCounted`, `Drains`, `ImplementsLedger` | one process after another, an outbox with room and one without, lost answers, failing files, deaths |
| `services` | `SuccessIsInstalled`, `KnownUpdateIsTold`, `FailureWaits`, `AdaptationIsCapped`, `RollbackSticks`, `MatchedIsWhatRuns`, `OnlyFlagsAreAdded`, `HookKeepsTheLine` | the services around a run, one at a time: updates, budgets, command lines |
| `rendering` | `FailureIsInformative`, `CriticalFactsSurvive`, `OmissionIsRecoverable`, `HidingIsRecoverable`, `NotesAreTrue`, `StreamedIsBatch`, `NamesComeFirst` | jobs of every shape through the pipeline, and 72 reducers over every short output |
| `history_twice` (violated) | `CountedOnce` | two compactions archive the same runs |
| `dedup_race` (violated) | `RefExpands` | a rename over an entry just appended: the reference shown does not expand |
| `exporter_unsent` (violated) | `UnsentStays` | events that were never sent are removed with a batch that was |
| `command_quotes` (violated) | `StringIsKept` | an assignment before the last command of a shell's string is quoted away |

`PROJECT.json` names, for each property of a passing run, a changed definition
under which TLC finds the property violated.

Independent machines share a run: `services` and `rendering` choose one of
theirs in the initial state and leave the others at rest, so that their states
add up instead of multiplying.

### The violated runs

Each states what a comment or a document of the repository says and what the
code does otherwise; `PROJECT.json` quotes the lines.

* The history and the dedup index are safe to append to without a lock, but not
  to compact. In the history that counts runs twice; in the index it costs the
  entry a reference that is on the screen needs.
* `removeOutboxPrefix` removes as many lines as were sent. Lines that made room
  for new events while the batch was on its way were in front of them, so that
  as many unsent lines go, and are not counted as dropped. `LossIsCounted` holds
  nevertheless, since the lines that made room were counted.
* `sh -c "A='a b' go test"` is put back as `'A=a b' go test -json`. The words in
  front of the matched command are quoted like arguments, and a quoted word is
  no assignment. The parser notices expansions, but a tilde only at the
  beginning of a word, and it does not note that a word was quoted.
  `OnlyFlagsAreAdded` is the same property for strings whose assignments are bare
  and need no quotes.

### Known from the models, and not given a run of their own

Files and processes:

* With two processes `RunsAccounted` fails as well: a compaction renames its file
  over a record appended since it read, and one archive writes its totals over
  another's.
* `szr spread` reads the window and then the totals; a run archived in between
  is counted in both.
* With two processes, a run's log may be pruned by another before its entry is
  appended, and the entry then points to nothing; and an index rewritten in place
  loses what is appended meanwhile. `EntryHasFile` and `FileHasEntry` are checked
  for one process at a time.
* A partial capture nobody has written to for an hour is removed by whoever
  prunes, even when its command is merely silent. The run then has no capture.
* A process that dies between the removal of a file and the rewrite of the index
  leaves the entry, until `szr tee prune --missing`.
* A compaction under way while `Clear` truncates the file renames the old
  records back (`ClearedIsGone` with two processes).
* The error of the dedup `Append` is dropped (`dedup.go:88`). The reference is
  shown all the same and usually expands, through the older entry with the same
  hash. If an earlier write was cut short the append spoils that entry's line,
  and nothing expands. That is why `RefExpandsUncut` has its condition.
* The reference in a digest is to the newest entry with the baseline's output,
  and does not expand when somebody damaged that entry's artifact, though the
  baseline's own is intact; `BaselineExpands` excuses it.
* An artifact whose process died before it recorded an entry is removed by no
  compaction, since only the artifacts of entries that were dropped are
  visited. `NoLeak` excuses those, and shows that there are no others.
* An output above `MaxArtifactBytes` is stored cut, and referenced by the hash
  of the whole: `expand` prints the first part.
* When the index is not longer than the dedup window, a run's own compaction can
  drop the baseline of its digest (`dedup.go:88`), and the fingerprint that
  chooses a baseline folds case (`dedup_delta.go:64`): a digest of `ls -A`
  against `ls -a`.
* Captures of successful runs are kept and pruned by no successful run
  (`tee.go:188`).
* A read that fails with another error than EOF leaves a capture that counts as
  complete (`run.go:407`); a goroutine that returns on it leaves its pipe
  undrained (`run.go:408`).
* With two processes the outbox is read and rewritten without a lock, and the
  status file too: appends and counts of one are lost to the other.
* The error of appending a history record is ignored
  (`engine_execute_history.go:73`); an interrupted self-install leaves a partial
  binary (`selfinstall.go:101`).

The capture:

* Standard error that is not measured (`stdout_only` with a blank standard output)
  can be 96 tokens and more than 384 bytes when it is multibyte: the fast path
  then relays its preview, cut, without a note
  (`engine_execute_render.go:196-208`, `run.go:451-489`). The same happens to the
  other stream when the preferred one is empty. `FastPathRelaysWhole` names these
  two cases and holds for all others.

The pipeline:

* Without a capture file, what the display calls the full output is written from
  the in-memory preview (`engine_execute_artifacts.go:42-46` against
  `docs/ARCHITECTURE.md:44`; `FullOutputIsFull`, of which TLC gives a
  counterexample when it is asked). The verifier then checks against that.
  `OmissionIsRecoverable` asks of every artifact that it holds the whole output,
  and excepts exactly this case: a capture that was cut, and no file of it.
* The verifier says nothing of facts beyond the first 64, beyond the first 256 KB
  of a capture that is not in memory, or behind the 200th rune of a line it puts back
  (`verify.go:22,28,159,379`; `engine_execute_render_failure.go:46`).
* `szr proxy` applies the profile's flags, and the ultra-compact form when that
  is on (`engine_execute.go:100-102` against `cli/help.go:108`; `ProxyIsRaw`).
* A failing run without an error line is shown as "ok" by the ultra-compact form;
  what that form or the fallback on the preferred stream leaves out has no
  recovery plan.
* A reducer's empty render counts as a fallback when streaming and not in a
  batch.
* The shares in which caps may move are per hint; hints for different caps of
  opposite directions exceed them (`docs/GATEWAY_BUDGET_HINTS.md:40-41`). The
  outcome of a run is recorded for the hint that is in the file when it ends
  (`gateway_budget_hints.go:115`; `RollbackIsEarned`). For the same reason
  `RollbackSticks` fails with two processes: a harmless run that was started
  before a hint was taken back records its outcome afterwards, dilutes the share
  of harmful ones, and the hint is applied again.
* When the file of outcomes cannot be opened, a hint that was taken back is applied
  (`outcomes.go:63-66,72-78`).
* An outcome is matched to its hint with `==` on `time.Time` (`outcomes.go:95`).
  Both are read from JSON, and are equal by value for UTC and for offsets that
  share a location; an expiry with another offset (+05:30, say) is unequal to
  itself read twice, and its hint is never taken back. The model compares by
  value.

Command lines:

* `szr env -i rg foo`, `szr npx rg foo` and `env A=1 sh -c 'rg foo'` are
  classified as rg though the wrapper is not stripped, and the flags of rg go to
  the wrapper (`profiles/search/ripgrep.go:147-173`), which refuses them. The same goes
  for `env sh -c 'rg x'`, where `sh` gets `-n` and only checks the string for its
  syntax. `OnlyFlagsAreAdded` asks for the wrappers szr strips, and, for the first
  word of the program, leaves out shells behind wrappers.
* `nice -n 1 -n 2 go test` is left alone: `nicePrefixWidth` takes one priority
  (`prefix_unwrap.go:98`), nice itself takes the last of several. `LeftAlone` has it
  beside the options that are left alone on purpose.
* A flag that is appended after `--` is a path: `git log -- src`, `git status --
  x`, `go test` with `-args`. `OnlyFlagsAreAdded` keeps flags before a `--` for
  the lists that are not meant for the end.
* The hook quotes each argument of a command it has a form of its own for, so
  that `ls ~/x` and `ls $X` no longer expand and `tsc > f` has two more
  arguments. `HookKeepsTheLine` says nothing of lines with such words.

The reducers, where `docs/ARCHITECTURE.md:159` ("Every reducer that hides
meaningful content must have a predictable recovery path") or a count does not
hold; `HidingIsRecoverable`, `NotesAreTrue` and `NamesComeFirst` name the
reducers they are about and leave these cases out:

* No plan at all: changed lines before the summary of `git diff --stat` (a commit
  message that has them), git status, git branch, JavaScript tests and tooling, docker
  ps, docker logs, GitLab pipelines, `kubectl get -o json` cut by position, the
  fallbacks of most summaries, ultra-compact omissions, the other-output lines
  of `git push` and the like.
* Hidden without a count: entries and head lines of the failure reducer, loose
  lines of cargo, stack lines beyond a third of the limit in anchored blocks
  (cargo, pytest, C++, PHP), gradle warnings on success, BuildKit and compose
  blocks beyond their budget, capped terraform notes, S3 prefixes, rows beside the
  errors of SQL, lines clipped by the environment's width, members of a const
  block in a signature preview (`fs/read.go:155`).
* Off by one or counted twice: the log reader's `total > height`, a jest report
  at exactly its limit, the omitted count of a JSON query (counts its own note),
  a git stat cut at its limit less one, previews of code (count their note).
* A name that gives way: a gradle test that fails within two lines of another
  (`gradle/filter.go:72-73,98`), `cargo test` after the first name, the odd row
  of a table of exactly eight rows (`tabular/filter.go:178-181`), tool errors
  within the window of a linker error or a failed test.
* Parsed wrongly: a git diff line that holds `|` is taken for a stat, a removed
  line that begins with `-- ` for a header; `go test -json` stops at a line of
  64 KB; a second root of a tree is dropped; a success summary of git is fixed by
  its first preview, and a pull that stops early falls back
  (`success_paths_reducer.go:102-103`, `run.go:391`, `profiles/git/profile.go:286`).
* find and rg: what standard error says displaces the paths or goes unsaid.
* find names an example when there are more paths than it lists. What streams
  takes the least of the paths that came first, the batch form the least of all
  (`search/find.go:104,218-221`). `StreamedIsBatch` compares what is listed only
  as far as all is, and the counts always.

## 4. Bounds, and why they are enough

* Capture: up to three bytes per stream (four with the tee) in chunks of one or
  two, previews of two, tees of three: a stream can stay below every limit, meet
  it exactly, exceed it within a chunk and between chunks, and the tee can fill
  its head and then drop from its tail. `RunesPerToken = 2` makes an estimate that
  rounds, `RuneBytes = 2` a token of one to four bytes: one token is tiny
  (`BypassTokens = 1`) and may overflow the preview; the byte rule's limit is the
  preview itself (`BypassBytes = 2`), so the third byte decides. All option
  records that `buildRunOptions` can produce are initial states of the two runs
  taken together: the reducer without the tee, the tee without the reducer, and
  one profile with both, which is where the state space is largest.
* History: five records (four in the violated run, with two processes), of which
  an old file already holds up to two. A compaction keeps three (two) and may
  happen at every append, so it is done twice over. An ordinary line is short or
  longer than all a compaction may keep besides the newest; others are oversized
  or torn; one run belongs to an excluded command.
* Dedup: four runs, two exit codes, two outputs; a window of two and an index of
  three entries, so that the fourth append drops one, whose artifact may have
  been adopted by a later one; `dedup_race` has a window longer than its index.
  Two processes that interleave are in the violated run; with two processes the
  remaining properties fail for the reason it shows.
* Tee: four runs, outputs of one and two bytes by turns, caps of two files and
  three bytes: two outputs may be within both caps or above the second, and the
  third is above the first, so that one prune may have to remove one file or
  two, and the next finds an index it has already rewritten.
* Exporter: four events, batches of two, two processes one after the other; an
  outbox for all four and one for two lines of size one, in which the last event,
  of size three, does not fit at all. A batch can be half pruned while it is on its way.
* Updates: three releases, three hours with an interval of two, three commands
  (`MaxStarts`): an attempt can fail, be too early and be due again, each with a
  release published in between.
* Budgets: three envelopes of up to three hints that expire at different hours
  and point both ways, three tuned budgets, five runs with rollback after two
  (the code's constants for these are larger); raw sizes on both sides of the caps.
* Command lines: up to four lexemes, out of one word of every kind the code
  tells apart in every way of writing it that matters. A wrapper with an option,
  its value and the program, three wrappers and the program, or a setup segment,
  an operator and a command with its assignment fit into four; more wrappers
  walk on in the same way, and for lines of any length there are the theorems.
  The profiles put lists of one and two words at each of the places; the preferences
  add before a `--` and at the end.
* Pipeline: two limits of the verifier are smaller than in the code (ten facts,
  and 300 tokens of a capture that are read back), so that outputs exceed each.
  Sixteen outputs on both sides of each threshold, six reductions, nine profiles,
  nine invocations. The other thresholds are those of the code, in tokens.
* Reducers: up to five lines of the kinds a reducer tells apart, with a line
  budget of three (`FindLines`, that of find, is four, below which it has no
  example to show) and the other budgets small enough to be met: `MaxLines` and
  the rest are the code's numbers scaled down, so that every one of them is
  reached, met and exceeded within five lines.

`MaxRuns`, `MaxOutput`, `MaxLegacy`, `MaxEvents`, `MaxStarts`, `MaxRelease`,
`MaxHour`, `MaxClock`, `MaxFed` and `MaxTyped` are the only bounds that the
code does not have. Processes, places and outputs are symmetric where the cfg
says so; commands are not, since `Fingerprint` tells them apart, and no liveness
property is checked under symmetry. Deadlock is checked where the model runs on
and off in the runs whose last step the bound does not let anything follow
(the stores with a last run, the exporter, services, pipeline and reducers, whose
behaviours end when all has been recorded, printed, shown or typed).

## 5. Fairness

Two properties need it. For `RunEnds`, `FairSpec` of `StreamCapture` has weak
fairness of each goroutine's steps, of the command's exit and of the main
goroutine. The Go scheduler runs every goroutine that can run, which is the first
and the last. The second says that a command which is not stuck in a write
exits: a proxied command that never exits is not szr's to end. A blocked command
exits only once its pipe has been drained, and it is there that the property can
fail: a `copyStream` that stopped reading instead of discarding would leave the
command blocked. Reads may not fail in that run: `copyStream` does return on a
failed read, with the pipe undrained.

`Drains` says that an exporter that stays open empties its outbox. It needs weak
fairness of what a goroutine has begun and nobody can take from it (`AppendWrite`,
`PersistStatus`), which is the scheduler's. `Flush`, `RemoveRead` and
`RemoveWrite` are strongly fair: the ticker ticks again and again, but each of
them can be disabled meanwhile by an append that holds the mutex, or fail. The
mutex of Go is handed to whoever waits long enough, and a disk that is asked
again and again is assumed to answer in the end. `Accepted` is strongly fair for
the same reason: a server that refuses for ever keeps every outbox full.

## 6. What is proved

Theorems hold for all values of the constants that the named assumptions of the
modules allow: the sizes and counts are natural numbers, positive where the code
divides by them, allocates with them or compares with them as a limit; the fault
switches are Booleans; options, hints and outputs are records of their shape.
The assumptions are evaluated by TLC on the instances of the runs
(`HintsAssumption`, which differs between the instances, is a hypothesis of the
theorems about `BudgetHints`, and `MCServices` assumes it of both).

"One process at a time" below is the hypothesis `OneAtATime` (no two processes
differ) or `Procs = {p}`. It says that processes follow one another: each may
die anywhere, every call of it may fail, and the next finds what it left. Where
it is not named, a theorem holds for any number of processes that interleave at
will. It is needed exactly where the violated runs, or section 3, show that two
processes break the property.

| module | theorem | says | needs |
|---|---|---|---|
| `StreamCapture_proof` | `CaptureInvariant` | `[]CaptureInv` | |
| | `CaptureTypes` | `[]TypeOK` | |
| | `CompleteCapture` | `[]CompleteCaptureIsWhole` | |
| | `ReducerFed` | `[]ReducerSeesItsStreams` | |
| | `StoppedCapture` | `[]StoppedCaptureHasSummary` | |
| | `CutPastFastPath` | `[]CutIsPastFastPath` | |
| | `FastPath` | `[]FastPathRelaysWhole` | |
| | `DonePreview` | `DonePreviewIsLast` (action property) | |
| | `TeeInvariant` | `[]TeeFollows` | |
| | `KeptTee` | `[]KeptTeeHoldsRun` | |
| `HistoryStore_proof` | `HistoryOrder` | `[]HistoryInv` | |
| | `WindowIsSorted` | `[]SortedWindow` | |
| | `StoreInvariant` | `[]StoreInv` | one process |
| | `RunsAreCountedOnce` | `[]CountedOnce` | one process |
| | `NoRunIsLost` | `[]RunsAccounted` | one process |
| | `ClearedStaysGone` | `[]ClearedIsGone` | one process |
| | `AppendsSettle` | `AppendSettles` (action property) | one process |
| `DedupStore_proof` | `DedupTypes` | `[]TypeOK` | |
| | `DedupRecords` | `[](ControlInv /\ RecordInv)` | |
| | `ReferencesAreHonest` | `[]ReferenceIsHonest` | |
| | `DedupInvariant` | `[]DedupInv` | one process |
| | `NothingDangles`, `NothingLeaks` | `[]NoDangling`, `[]NoLeak` | one process |
| | `ReferencesExpand`, `BaselinesExpand` | `[]RefExpandsUncut`, `[]BaselineExpands` | one process |
| | `BaselinesAreLastRuns` | `[]BaselineIsLastRun` | one process |
| `TeeStore_proof` | `TeeInvariant` | `[]TeeInv(p)` | one process |
| | `ShownOutputIsThere` | `[]ReferenceLives` | one process |
| | `EntriesHaveFiles`, `FilesHaveEntries` | `[]EntryHasFile`, `[]FileHasEntry` | one process |
| | `PruningBounds` | `BoundedAfterPrune` (action property) | one process |
| `EventExporter_proof` | `ExporterTypes` | `[]TypeOK` | |
| | `ExporterInvariant` | `[]OneProcessInv(p)` | one process |
| | `LostEventsAreCounted` | `[]LossIsCounted` | one process |
| | `LedgerIsImplemented` | `ImplementsLedger`, that is `Ledger!Spec` (refinement) | one process |
| `RenderPipeline_proof` | `PipelineInvariant` | `[]PipelineInv` | |
| | `FailuresInform` | `[]FailureIsInformative` | |
| | `FactsSurvive` | `[]CriticalFactsSurvive` | |
| | `OmissionsRecover` | `[]OmissionIsRecoverable` | |
| `Services_proof` | `UpdateInvariant` | `[]UpdateInv` | |
| | `ClaimedIsInstalled` | `[]SuccessIsInstalled` | |
| | `FlowInvariant` | `[]FlowInv(p)` | one process |
| | `NewerReleaseIsTold` | `[]KnownUpdateIsTold` | one process |
| | `FailedUpdateWaits` | `FailureWaits` (action property) | one process |
| | `HintsInvariant` | `[](Stored /\ Adapted)` | |
| | `BudgetsStayCapped` | `[]AdaptationIsCapped` | |
| | `HintsTakenBackStay` | `RollbackSticks` (action property) | one process |
| | `LineTypeCorrect` | `[]LineTypeOK` | |
| | `CommandIsWhatRuns` | `[]MatchedIsWhatRuns` | |
| | `OnlyFlagsAdded` | `[]OnlyFlagsAreAdded` | |
| | `HookMeansTheLine` | `[]HookKeepsTheLine` | |

Each proof has one step per action, and under it one per conjunct the action can
disturb. `Foundations` has what they share. Induction is out of the prover's reach
where it would need a predicate for a parameter; the least member of a set
(`LeastNatural`, from the well-foundedness of the natural numbers) takes its
place: the set of the turns at which a claim about a loop fails has no least
member, so it is empty. That is why the loops that proofs are about are functions
of the number of turns (`Loops`, `NthSmallest` of `Budgets`). A walk is a function
of the place it is at, and the same argument from the greatest place shows that it
ends (`WalksExist`), and that it stays in a set of places which its steps do not
leave (`WalkStays`).

### StreamCapture

`StreamCapture_proof` holds for all values of the constants, that is for every
profile, limit, chunking, length of output and interleaving. It assumes only
the ASSUMEs of `StreamCapture`: the sizes are natural numbers, positive where
the code divides by them or allocates with them, the fault switches are
Booleans, and the profiles are option records.

The invariant is `CaptureInv`, which `capture_reducer` checks as well. It has
four parts:

* `TypeOK`. Besides types it has the order of a collector's counters.
* `CollectorsFollow`. Of a collector that is not truncated, the builder is
  exactly the bytes read so far; one that captures all is never truncated; one
  that only previews is truncated before it exceeds its limit. The property
  `CompleteCaptureIsWhole` is about the end of a run and says nothing of how a
  collector got there, so it is not inductive.
* `ReducerFollows`. What the shared reducer was fed of a stream is what that
  stream's goroutine has read but for the chunk it is handling (`Pending`),
  unless the reducer is done. This is what an interleaving could break: the
  check and the feed are two steps, and the other goroutine's feed between
  them changes `done`. Since `done` is never reset, a goroutine that saw it
  false may skip a chunk only if it is true by now.
* `StoppedCaptureHasSummary`: buffering of a stream stops early only under a
  reducer that is done and has a usable summary. It is inductive together with
  the others, and checked with them as a part of `CaptureInv`.

Each action's preservation of each part is a lemma or a step; the lemmas on
`Consume`, `Span` and the reducer come first.

| theorem | says |
|---|---|
| `CaptureInvariant` | `Spec => []CaptureInv` |
| `CaptureTypes` | `Spec => []TypeOK` |
| `CompleteCapture` | `Spec => []CompleteCaptureIsWhole` |
| `ReducerFed` | `Spec => []ReducerSeesItsStreams` |
| `StoppedCapture` | `Spec => []StoppedCaptureHasSummary` |
| `CutPastFastPath` | `Spec => []CutIsPastFastPath` |
| `FastPath` | `Spec => []FastPathRelaysWhole` |
| `DonePreview` | `Spec => DonePreviewIsLast` |
| `TeeInvariant` | `Spec => []TeeFollows` |
| `KeptTee` | `Spec => []KeptTeeHoldsRun` |

`FastPath` needs an invariant of its own, relative to `CaptureInv`:
`CutIsPastFastPath`. A collector is cut when a preview overflows or when buffering
stops early. A measured stream is cut only past the fast path: what overflows a
preview has more bytes than any rule calls tiny, and an early stop waits for it.
The fast path measures only the preferred streams in bytes, but both in tokens.
The other stream feeds no reducer, so its tokens are counted to the end, and it is
cut after exactly a preview. If each of its runes is one byte, an overflow is more
tokens than any rule calls tiny (this is `FastPathAssumption`, the one fact about
the tables of `fastpath.go` that is used); if not, the relayed preview may be all
there is, which is the exception that `FastPathRelaysWhole` names. The estimate
divides, so the lemmas before it are about quotients. `DonePreview` rests on
`DoneIsPublished`: once a preview says the reducer is done nothing is parsed any
more, so no preview is newer.

`KeptTee` says that a capture that is kept has the whole run, or its beginning, one
marker and its end, in the order in which the bytes came. The tee is one file for two
streams, so its invariant `TeeFollows` is about all that was ever offered to it
(`seen`). That sequence interleaves the two streams as far as each goroutine has
written them (`Interleaves`: every byte once, each stream in its order), which each
`WriteTee` extends by one chunk of one stream. What is on disk and in the buffer are the
beginning and the end of it (`TeeHolds`), as long as nothing failed: a write that only
fills the head, one that fills it and starts the tail, one that drops from
the front of the tail, and the flush are the cases, and the lemmas before it are about
cutting and joining sequences. TLC has checked `TeeFollows` on the instance of
`capture_tee`.

### HistoryStore

`OrderInv` says that every file there has ever been, and everything a compaction
keeps, lists its runs in order. A process that still appends to a file that was
renamed away, or renames an old batch over a newer file, breaks no order, so it
holds for any number of processes. It is what makes the last records of the file
the last runs.

The counts need more. `Alone` says what the process at work knows: the file it
opened is the file; the batch it is about to rename is that of the file as it is;
once renamed, what it kept is the file, and the totals it read are those on
disk, or none if they could not be read. Without it nothing excludes a batch
archived twice, which is what `history_twice` shows. `CountInv` then separates, for
every run, being in the file, being about to be archived and having been counted;
`RunsAccounted` is inductive beside it, and what was cleared is apart from all
three.

`AppendsSettle` says that an `Append` none of whose calls failed leaves a file
below the trigger, or of a single line, with the record it appended in the window,
and without oversized lines if the process knew of one. `Settling` is what holds
on the way there: until the rename the record ends the file, and from the rename
on the file is in order; what ends the file is kept first by a compaction, and
what is kept fits, which the lemmas on sums over the last lines show. Without
other processes nothing comes between. TLC has checked `SettleInv` on the instance
of `history_one`.

### DedupStore

`ControlInv` is the control state: what a process holds (`run`, `entry`, `found`,
`batch`) at each of its steps. `RecordInv` says that a run records one entry at
most and that, while no line was cut short, every index and every compaction
holds only recorded entries and every lookup found one; with `Honest`, it gives
`ReferenceIsHonest` for any number of processes: whatever they do to each other's
index, a reference is to a run of the same output, exit code and place.

That it expands is the one-process part. `AloneInv` says that what a process stored or
adopted is still intact when it shows it, that its entry is in the index unless a
write was cut, and that the compaction under way drops no artifact of an entry
it keeps. `NewestInv` says that the index is the newest part of what was recorded,
so that the baseline a digest was made against is in the index or expired, and
nothing of the same fingerprint came between.

### TeeStore

`Tidy` says that a run has one file of a kind. `RunInv` follows the file of the
running process through capture, pruning and decision: while it is pruned
around, its own log is the newest file (`Here`), and a pruning never selects the
newest one. `PruneInv` relates what was removed to what the rewritten index
will hold, up to the write at an offset (`Replace`). `EntryHasFile` and
`FileHasEntry` are inductive beside these. For `BoundedAfterPrune`, `BoundInv` says
that until some file would not go the counts of a pruning are those of the
directory; the lemmas before it are about sums of sizes and about the oldest
files.

### EventExporter

`LossIsCounted` is about how many events are lost, and neither the lost nor the counted
ones grow in step: events that made room are counted before they are gone,
and of a batch that was half pruned the wrong lines go later. `Doomed` collects all
that is or will be lost by what is under way, and `LossInv` bounds its size by the
count. `SendInv` has the reason why this is enough: what is left of a batch in
the outbox is at its front (`Overlap`), so that removing as many lines as were
sent takes, in place of each line that made room, one unsent line at most.

`LedgerIsImplemented` maps `Init` to the ledger's and each step to a step of the
ledger or a stutter. Its invariant `RoomyInv` says that while there is room a
batch is a prefix of the outbox and an append extends it.

### UpdateCheck

`SuccessIsInstalled` is inductive with the types, for processes that truncate and
overwrite each other's file: what is written was read from the file or is the
result of the process's own verified upgrade. The rest is about one memory.
`Memory` is the file, or what the process that has yet to write it holds, and
`Recalls` says that it has the last failed attempt, or a later success, or names a
newer release; a process that goes away with the memory is excused. `ReportInv`,
`AttemptInv` and `ToldInv` are what the flow knows at its steps.

### BudgetHints

`Stored` and `Adapted` say that every hint, record and budget has its shape, and
that a running budget is within the share of its adviser. The lemmas follow
`AdaptBudgetConservatively` through its scaling, rounding and limits, and
`BuildBudgetSuggestion` through its percentiles; that a percentile is one of the
recorded numbers comes from `NthSmallest`. The theorem holds for every history,
not only for those that adapted budgets produce.

`RollbackSticks` needs to know that a hint which was taken back remains the one
`Lookup` finds as long as it holds (`TakenStays`): the file changes only by a
`Refresh`, which installs other hints, and as time passes `Lookup` prefers what
expires last. No outcome is recorded for a hint that is not applied, so that
`TakenForCause`, its share of harmful runs, stays as well.

### CommandLines

The properties are about one line, so nothing has to be carried from step to step:
`LineTypeOK` is the invariant, and the work is to show that every line of that type has
them, of any length, over any words and any profiles that `LinesAssumption` allows.

* `CommandIsWhatRuns`. szr and a wrapper walk past the wrapper's options in different
  ways. Every place that szr's walk passes is one the wrapper's own walk is at, or an
  assignment behind its options (`OptionsAgree`, `PassedStep`). So where szr finds
  a command, it is the wrapper's (`OperandAgrees`), and where it gives up there is an
  option that szr leaves alone (`OperandFound`). Over several wrappers, each place that
  szr takes for a command on its way inwards is one from which the wrappers still get to
  their program (`InnerIsOnTheWay`), an invariant of the walk by `WalkStays`.
* `OnlyFlagsAdded`. `Widened` says that a list of words is another with words put
  in, all from a given set, behind a given place and not behind a given word:
  there is an order-preserving map of the old places to the new. It is kept when a
  list is put in (`WidenedAt`, `EditedType`), by one list after another
  (`WidenedTwice`, `RewrittenType`), and when a prefix is put in front
  (`SplicedType`). For a shell's string the words are quoted anew on the way, so
  it has to be shown that the last segment reaches to the end of the line
  (`FinalType`), that it had nothing to expand (`safe`), that its words mean the
  same with the quotes they get (`SameMeant`, `LastAssigns`, `SplicedMeaning`),
  and that a command of assignments only, or of none, matches no profile
  (`NoHead`, `NothingBehind`).
* `HookMeansTheLine`. Words in front of a line move the roles of all words in it; they
  keep them when what is put in front is no assignment and the line begins with a
  word (`MeaningBehind`, `FirstWordMoved`); the arguments of a form of szr's own are
  literals because each is quoted or has nothing to quote (`QuotedMeaning`).

The proof of the first found the repeated priority of nice of section 3, which takes six
words and is beyond the bound of the run; TLC finds it when given six. `NoHead` rests on
what `LinesAssumption` says of profiles: the name one matches is neither empty nor an
assignment.

### RenderPipeline

The theorems hold for every output, of any length, whatever the reducer
made of it and whatever a capture kept of it, under `JobsAssumption`. They are about
the last texts of a chain of ten stages of which each may replace what the one
before made, so the invariant follows what a text still has to have at each stage:

* `TypeInv`: besides types, no text has a reference before `Assemble` gives
  it one. A reference is then one szr wrote.
* `CaptureInv`: a capture that is not truncated is the output; in one that is, lines
  that print alike are gaps together, which is what the guards on failures need
  when they compare what is left with what there was.
* `RecoveryInv`: a plan has its artifact from `WriteArtifact` on and its
  reference from `Assemble` on, where the text is cut to make room for it
  (`FitSuffix`). `Verify` and `Complete` come after that: the repair only appends, and
  the last guard may put the whole output in the text's place, but nothing less.
* `FactsInv`: once the verifier has run, the text names every fact it vouches for
  (`Promised` of what it read), unless the section it repairs with was full, and no
  guard after it takes away what it named. That the capture file it
  may have read is still there is part of `RecoveryInv`.
* `ContentInv`: from `ensureInformativeFailureRender` (`Finalize`) on, a failing run
  of which anything is in memory says something, through suffix, verifier and
  completion.

The lemmas say of each operator which lines it keeps and what of a text is in its
result: a line that a selection drops because one with the same `id` is there
already is named by the first of that `id`; what a preview leaves out it marks;
the ultra-compact form and the contract keep a line that is not a mark if there
was one. TLC checks `PipelineInv` on the instance of `rendering` as well.

### Only model-checked

* Liveness: `RunEnds` and `Drains`. The prover does not reach fairness.
* The reducers: `HidingIsRecoverable`, `NotesAreTrue`, `StreamedIsBatch`,
  `NamesComeFirst`. They are about 72 programs that fold over an output with a state
  of their own, `TableReducers`, with what extends it, by recursion, which the
  provers do not handle.

## 7. Plan

Done, in the order in which it matters to a user of szr: `StreamCapture` with its
proof, `HistoryStore`, `DedupStore`, `TeeStore`; `EventExporter` with its ledger;
`RenderPipeline`; `UpdateCheck`, `BudgetHints`; the reducers; `CommandLines`.

Left to model:

1. `JsonlScan`: the reader against a reference definition over bounded inputs.
2. Abstract specifications: a log with lifetime totals that `HistoryStore`
   implements for one process, a map from outputs to runs for `DedupStore`, one
   stream for `StreamCapture` (what was read is what is held).
3. The deadlock of a read error whose pipe stays undrained, in `StreamCapture`.

Left to prove: reducer by reducer, that what streams is what the batch form shows.

## 8. What is not modelled, and why

* How text is recognised: the patterns of classifiers, which words score, how
  facts are found in a line, ANSI escapes, UTF-8, clipping of a line. A line
  comes with what the code sees in it.
* The tables of `internal/profiles`: which command gets which reducer, options
  and flags. What its `Prepare` functions do is in `CommandLines`, with five profiles of
  every kind.
* In `internal/engine/classification.go` the global options of git and the facts
  about JavaScript runners; in `internal/rewrite` the options of find and grep.
* Loading, matching and trust of rule files; the configuration; the flags of the
  command line: parsing without state. Configured switches are constants.
* Installers and selfinstall edit the files of other programs one after another.
* Reports (`internal/history/summary.go`, `szr spread`) are arithmetic over
  records; what is counted where is in `HistoryStore`.
* Transcript scans (`internal/discover`), benchmarks, development and packaging
  commands, and the thin public API.
* Within the modelled parts, the wording of markers, previews and references,
  JSON encoding, file modes and the computation of the line diff.

The components and the lines each definition stands for are listed in
`PROJECT.json`.
