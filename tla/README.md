# A verification project for covsel

covsel records which source files (and which blocks of them) every test of a
project executes, keeps that in a *coverage map*, and later selects the tests a
change can affect. Its one guarantee is in its README (line 106): *"We never skip a
test whose behavior your change could alter -- and when we can't be sure, we run
it."* This project states that guarantee, and what the parts of the program owe to
it, as TLA+ modules that TLC checks on small instances and, for the most important
invariants, TLAPS proves for every instance.

Paths below are relative to `src/packages/`; `watch.ts:291` means line 291 of
`core/src/watch.ts` unless another package is named.

## 1. The system

### Components

| component | state it keeps | operations | correct when |
|---|---|---|---|
| watch loop (`watch.ts`) | batch of changed paths, "unnamed" flag, instant of the batch's first change, debounce timer, running/stopped flags, the promise of the caller | change and error handlers, timer, cycle, abort | no change is lost; no batch waits past `maxWaitMs`; it never wakes itself; it resolves, with nothing left running |
| recording (`commands.ts` `recordMap`, `recordWholeRun`) | entries, failures, scopes, the tree sampled at the start | one recorder call per test file, or one for the suite; ingest; assemble; write | a map is written only if complete, and claims a commit only if it describes it |
| store (`store.ts`, `schema.ts`) | one JSON file | read, inspect, write | anything but a complete map of this schema reads as none |
| block extraction (`blocks.ts`) | none | hash every function, the module skeleton, the load fingerprint; credit an execution | a change to what a test executed changes a hash it recorded |
| git (`git.ts`) | none (git's) | diff, status, merge-base, ignore filter | every path whose content differs from the base is listed |
| policy, selector (`policy.ts`, `selector.ts`) | none | full run or not; mandatory tests; hits | every doubt is a full run |
| selection (`commands.ts` `selectAffected`) | none | diff base, axes, whole files, units | the guarantee above |
| mapping (`mapper.ts`, `source-map.ts`, `istanbul.ts`) | list of allowed gaps | V8 and Istanbul coverage to files and blocks | executed code is credited or the recording fails |
| windows, shards (`combine.ts`, `merge.ts`) | none | fold windows, merge maps | the result claims no more than every part |
| boundary server (`adapter-harness/src/boundary-server.ts`) | the open test (none, reserved, open), units, protocol errors | begin, end, watchdog, exit | a unit holds the coverage of its own test only; a lost test fails the recording |
| boot/delta coverage (`boot-delta-coverage.ts`) | seen dumps, boot shape, marker in the target | start, endTest | a delta is never taken for a boot shape |
| archive (`archive.ts`) | maps named by instant and commit | publish, prune, fetch | the best usable map of an ancestor is found |
| inspector sessions (`remote-coverage-session.ts`, `inspector-observer.ts`) | pending requests, socket | start, take, close | a reply answers its own request |
| dependency and inventory axes (`dependencies.ts`, `inventory.ts`, `test-inventory.ts`) | none | compare installed packages, external tests | only changes it can name are narrowed |
| per-test recorder (`adapter-harness/src/per-test-recorder.ts`, `spawn-detached.ts`) | a session, a process group, its timers | record one test with one harness process | a test ends, recorded whole or failed, with nothing left running |
| runner adapters (`adapter-*`) | runner processes | hand over a selection, take a recording | what is selected is run, and its failure is the run's |
| command line (`cli/src/index.ts`) | none | record, merge, publish, fetch, run, watch | a green run of a selection is a green suite |
| setup, conformance, benchmarks, CI action | none of their own | - | see `PROJECT.json` |

### How they interact

The command line calls `recordMap` with an adapter's *recorder*; the recorder runs
tests in other processes and returns *units* (a test, its files, its blocks,
possibly its scope). `recordMap` turns them into a map and `LocalStore` writes it.
`selectAffected` reads the map, asks git what changed since the commit the map
names, and combines policy, selector and discovery. `watchAffected` calls
`selectAffected`, runs the selection and, after a green run, records. Developers, CI
and git change the work tree, HEAD and the configuration at any time.

### What is hard

* *Interleaving*: changes reach the watch loop while a cycle awaits a selection, a
  run or a recording; developers commit while a recording runs; a harness begins the
  next test while the last one's coverage is still being read.
* *Staleness*: a map is read long after it was written, against another commit,
  another configuration, another suite.
* *Partial failure*: one test file of many fails, git fails, a write is cut short.
* *Time*: the debounce and its ceiling, watchdogs, same-millisecond file names.

`PROJECT.json` lists each hazard with the line where it bites and the properties
that cover it.

## 2. The modules

| module | models | extends |
|---|---|---|
| `Watch` | `watchAffected` | - |
| `RunOnChange` | the abstract contract of a watch loop | - |
| `Blocks` | what hashes keep apart, what an execution is credited with | - |
| `Selection` | diff, discovery, policy, selector, `selectAffected`, as operators | `Blocks` |
| `CoverageMap` | recording, store and selection while the repository moves | `Selection` |
| `Explain` | `covsel explain`, and what selection makes of the same map | `CoverageMap` |
| `Inventory` | installed packages, two readings of them compared | - |
| `Sharing` | `combineWindows`, `mergeMaps` | `Selection`, `Inventory` |
| `Axes` | shards, merge and selection while sources, packages and external tests move | `Sharing` |
| `Mapping` | scripts to files, packages and blocks; where a source map leads | - |
| `Projection` | ranges of a bundle projected to its sources | - |
| `BootUnion` | a dump united with the boot, a snapshot less another | - |
| `Credits` | what the three of them answer, one input at a time | `Mapping` (instantiates the others) |
| `BoundaryServer` | recording one invocation of a cooperating harness | - |
| `ServerWindow` | recording an application server by its dumps, over an inspector | - |
| `PerTest` | recording with one harness process a test | - |
| `Runners` | a selection handed to a runner, a recording taken from it | - |
| `Archive` | a directory of maps, as operators | - |
| `Pipeline` | jobs that record, merge, publish, fetch and run | `Runners`, `Archive` |
| `MCWatch`, `MCCoverageMap`, `MCAxes`, `MCCredits`, `MCBoundaryServer`, `MCPerTest`, `MCPipeline` | values for TLC | the module of the name (`Explain`) |
| `MCAxesPlain` | the same with the hypotheses of the theorems as assumptions TLC evaluates | `MCAxes` |
| `WatchProofs`, `CoverageMapProofs`, `AxesProofs`, `CreditsProofs`, `BoundaryProofs`, `PerTestProofs`, `PipelineProofs`, `ServerWindowProofs` | theorems | see section 4 |

### Watch

The loop is single-threaded: an action is what runs between two `await`s.

* `main` is where `watchAffected` itself stands (`create`, `watching`, `settle`,
  `waiting`, `done`); `source` is the watch source; `phase` is where a cycle stands,
  and `running` is `phase # "idle"`. `stopped`, `code` and `settle` are the variables
  of those names; `settle` is `unset` until the promise exists, then `set`, then
  `fired`.
* `pending`, `unnamed`, `timer` are the variables of those names; `age` is the time
  since `batchStartedAt`. Time is in ticks; `age` is capped at `MaxWait`, past which
  `Math.max(0, ..)` makes every age alike.
* `events` is what the platform has to deliver. It is a set: the platform may
  reorder, coalesce and omit names, and the loop keeps no count either.
* `unseen` is a history variable: tracked paths written since a diff was last read.

`Deliver` and `WatcherFails` are the two handlers, `Fire` the timer callback,
`BeginCycle` .. `EndCycle` the pieces of `cycle` and `runOnce`, `Stop`, `Finish` and
`Scheduled` the closures `stop`, `finish` and `schedule`. The mapping from code to
definitions is in `PROJECT.json`.

`RunOnChange` is what a caller may rely on: live, stopped, resolved; one look in
flight at a time; a look sees everything changed before it. `Watch` implements it
with the refinement mapping `Contract`.

### Blocks, Selection, CoverageMap

A tree maps a path to its content, or to `Absent`. A content gives a value to each
*part* of a file: the statements that run on load, the rest of the skeleton
(`decl`), each function body, and two parts that are only white space (`literal`,
inside literals of top-level statements; `lines`, line ends the language reads).
`Spans` says which parts a block's hash keeps apart. So the model knows exactly what
the canonical form of `blocks.ts` forgets, without any characters.

`Selection` is pure: given configuration, map, commit tree, HEAD tree and work tree it
returns the `AffectedResult`. Globs are sets of paths. Of git it has what the code reads:
`git diff --name-status` names each file, `git status --porcelain` (run without
`--untracked-files=all`) a directory no file of which is known by one line, `?? dir/`
(`Unknown`; `Folders` are the directories that may be), and both keep git's quotes (`Quoted`).

`CoverageMap` adds time. Developers `Edit`, `Commit`, `MoveHead` (checkout, or reset
with the work tree kept), `Prune` a commit, `Configure`. A recording is
`StartRecording` (discovery, configuration, `isDirtyWorkTree`), `RunTests` per file,
`Ingest`, `ReportNothing`, `RunFails` or `InvocationFails`, `FinishRecording`
(`assembleMap` reads HEAD, the store is written) and `Crash`. `ran` holds for each
test file the tree it ran on: its coverage is mapped, and its sources hashed, at
`Ingest`, from the disk as it then is. `ranOn` in an entry is history. `Select` is
what `selectAffected` would answer in the current state, `SelectSince(c)` with
`--since`.

`WholeRun` chooses between the two shapes of a recorder; `Windows` and `Declared` let
recorders see less than everything, `HasBlocks` lets some record no blocks.
`Interference` says whether developers may touch the repository while a recording
runs.

What a test does is the assumption the guarantee rests on: a unit loads
`Loads(u, tree)` and calls `Calls(u, tree, f)`, and its behaviour depends on what it
executed, on its own file, on the sentinels, and on the paths the recording could
not observe. A test that reads data files needs `alwaysRun`, as the documentation of
covsel says.

### BoundaryServer

`recordRun` of `adapter-harness/src/boundary-server.ts`, with as many handlers in
flight as there are requests. An action is what a handler does between two `await`s.

* `slot`, `units`, `protocolErrors` are the variables of the closure: `slot` names a
  window, `Units` are the windows that were recorded, `errors` says whether any error
  was pushed. `win[w].at` is where the handlers of window `w` stand: `starting` and `open`
  are the two states of the type `Window` in the code; after `/end` the window is out of
  the slot and goes on through `settling`, `taken`, `mapping` to `recorded` or `closed`.
* `main` is where `recordRun` stands; in its `finally` it holds the window it closes.
* `precise` and `counts` are the one V8 that every window reads.
* `client` and `harness` are the harness, which is external. One that `waits` posts a
  request only when the last one was answered and stops when refused, as `protocol.ts`
  asks; one that does not posts anything at any time. Both may crash, hang in a test, or
  go on for a moment after a kill.

Refused requests of every other kind (method, content type, token, malformed or
unfinished body) are `BodyFails`. The work an application goes on doing after it
answered (what `settleMs` is for) is not modelled: the code promises nothing about it.

### Explain

`explainPath` as operators on the state of `CoverageMap`: who covers a file, the verdict on
each of its blocks as they now are, and what runs whatever changes. `ExplainForetells`
relates it to `SelectAffected`: a test that an edit of the file selects was named by it.

### Inventory, Sharing, Axes

The three axes of a selection, composed. `Inventory` reads an installed tree (links from
importers and store entries to store entries, the manager's marker) into the inventory and
the edges that a map records, and says what follows from two of them
(`dependencies.ts`): packages by name, or a fall to a full run. `Sharing` folds windows onto
one run and the maps of shards; each field of an entry may be unknown in one of them, and
what the operators are about is that one's silence is not taken for another's.

In `Axes`, `Edit`, `Install`, `InstallFlat`, `Advance` (external tests) and `Ask` (the
inventory is configured) move the world; `Record` is one shard's recording by one of several
recorders, `Merge` is `mergeMaps`. `SelectAffected` is all of `selectAffected`, and
`NextIsFullRun` the second derivation of its answer behind `covsel status`. A unit's run is
history in its entry: what ran, on which tree, with which packages. Assumptions: every edit
is committed and a recording starts clean (`CoverageMap` has the rest), it starts only when
the lockfile is what is installed, and the configuration is constant but for `asks`. There
may be any number of manifests and of lockfiles in other directories (`Manifests`,
`NestedLocks`): `dependencies.ts` knows them by their basename and compares the manifests one
by one, but checks only the root's lockfile against what is installed.

### Mapping, Projection, BootUnion, Credits

Pure. `Mapping` resolves the name a source map gives (relative, scheme, file url, bare) by
the readings of `source-map.ts`, against the disk and published text, and credits files,
packages and blocks as `mapper.ts` does, refusals included. A name's `of` is ghost: the file
it was built from. `Projection` is `project.ts`: the segments a range covers, its regions in
each source, and `executedAt` over them. `BootUnion` is the union and the subtraction of
counts. `Credits` asks them: an initial state is one input out of the constants (disks,
observations, layouts of a bundle, ranges, dumps, snapshots), its only step writes the
answer, and the properties relate the two. What any input satisfies is its assumption
(`CreditsAssumption`: V8's ranges nest, a script has one map, a build publishes the text it
read or none); `NamesTellTheTruth` is what the credits rest on beyond it.

### ServerWindow

One recording of a server that dumps its coverage (`boot-delta-coverage.ts`) over an
inspector session (`remote-coverage-session.ts`), as the Playwright fixture drives it.

* `server` is the process: pid, counters (`ran`, `fresh` before the first dump) and the boot
  marker in its memory. `first` is ghost, what its first dump held. `dir` is the coverage
  directory; a dump's name is pid, millisecond and thread, and a second dump of one name
  overwrites the first.
* `queue` holds calls the server has not answered. A caller that gives up leaves its call
  (`live` = FALSE): the server still does it, which is how a dump lands in someone else's
  window.
* `worker.at` is where the session stands: `pid`, `marker`, `claim`, `boot`, `name` are the
  calls of `start`, `idle`/`test` between them, `waiting` and `window` those of `endTest`.
* `run` is the recording: observations so far, and whether a window failed, which fails it.

`Evaluate` is the server answering a call, `Open` a worker connecting, `GotPid` ..
`GotWindow` the continuations after each answer, `StartFails` and `TriggerFails` timeouts,
refusals and closed sockets, `WorkerEnds` a close or a death. `ServerEnds`, `ServerStarts`,
`ForeignRuns`, `ForeignDump`, `ClearDirectory`, `Tick` and `PageAppears` are the surroundings:
a child process or worker thread runs code for a test, and writes its dump when it ends, in
that test, in a later one or never (`test.silent` is ghost, that it has not); `Writing` is
Node putting a dump in its file. A child process has another pid than the server and a
thread another thread number, so what they write is never written over the server's dumps:
that is assumed (`ServerWindowAssumption`, the guard of `ForeignDump`), not shown.

### PerTest

`createPerTestRecorder` with `spawnDetached`. `alive` holds the processes of each test's
harness, its child and others: a process says whether it is in the group, has the output open
and ends on SIGTERM, and goes on while later tests run unless it ends or a signal to its
group (`signal`, of each test) reaches it. `at` is where
`recordMap` stands in a test, `status`, `escalate` and `timedOut` are the child as
`spawn-detached.ts` sees it; `sockets` are sessions that are connected, `pending` and
`counted` the server's work. A server may die, `session.take` may fail with its socket or
time out with it (`TakeFails`, which closes the session), and covsel may be interrupted at
any point (`Interrupt`: SIGTERM to the group of a harness that is waited for, and exit).
`Closed` is Node's `close`: the child has exited and nobody has the output open, whoever
else is alive, and the SIGKILL that was due is taken back.

### Runners, Archive, Pipeline

`Runners` is what each adapter makes of a selection (files whole, exact titles, patterns that
a title ends in), the status of several invocations, and what a recording makes of a run.
`Archive` is `archive.ts` as operators on a function from names, `[at, commit]`, to a map or
`Torn`. In `Pipeline` jobs run the commands of the CLI at commits of a fixed history;
publishing goes file by file (`Unlink`, `Write`, `Close`, `Prune`) and goes on without a file
that cannot be removed (`WillNotGo`), a fetch lists the archive and then reads it (`Fetch`,
`Install`), and `Kill` may come between any two steps. A job's checkout has the commit alone
or all of them, and clocks say anything. Files are the grain of its selection; `CoverageMap`
has the blocks.

## 3. The runs

| run | instance | shows |
|---|---|---|
| `WatchLoop` | a source, an ignored output, a store path; debounce 2, ceiling 3 | type invariant, no lost change, armed backlog, bounded wait, quiet once resolved, every change selected, comes to rest, implements `RunOnChange` |
| `WatchFailOpen` | git may fail, no initial run, ceiling 1 below the debounce, a callback may abort | every change selected |
| `MapLifecycle` | three units in two test files, two sources, a sentinel; 3 edits, 2 commits; file-by-file recording | type invariant, no affected test skipped, the commit claim, exact blocks |
| `WholeRun` | one invocation, narrower scopes, two configurations, a test file that goes | no affected test skipped, reconciliation, explain foretells selection |
| `Axes` | a source with two functions, a file two isolates run, a test file, two external tests, two copies of a package, a manifest that may be gone and a nested one, a lockfile that may be gone; 5 kinds of recorder; 2 changes, 2 shards | no skipped test ran a source, a package or a definition that differs now; status agrees with selection |
| `Credits` | every way a map may name a source and have gone stale; all segments and ranges of a bundle of 3 offsets; all reports of 3 nested spans | credited files, packages and blocks, projected ranges, unions and differences hold what ran |
| `Boundary` | two tests, two windows, harnesses that wait and that do not | type invariant, one window at a time, exact units, nothing missing from an accepted run, every window closed, every recording settled |
| `ServerWindow` | two workers, two tests, two server processes that share a pid, a foreign dump | units hold all that ran but in isolates that outlive the window, a delta is never taken for the boot, the boot dump stands, a worker never waits for ever |
| `PerTest` | two tests; harnesses of one or two processes of each kind; a death, an interrupt | each test ends, recorded whole or failed, with its session closed, what holds the output gone, and the signals it was sent obeyed |
| `Pipeline` | three commits, two test files of two tests, two jobs, five kinds of adapter, keep 1, one death, one file that cannot be removed | a green selected run is a green suite; one reading of a commit and a bounded archive, but for jobs at once and files that stay |
| `QuotedPaths` | a source whose name git quotes | violation: an affected test is skipped |
| `OpaqueBump` | a native package is bumped | violation: a test that ran it is skipped |

**Bounds.** The watch loop has three paths, one of each kind the code tells apart
(tracked, ignored, noise); the debounce is 2 so that a timer can be reset halfway,
the ceiling 3 so that one reset fits and two do not, and 1 in `WatchFailOpen` so
that the ceiling decides alone. Nothing else is bounded: events and pending are sets.

For maps, two commits are the recorded one and another; three edits are enough to
edit, commit, edit and undo; the source `a` has one function that is called, one that
is not and lies in an initialiser, a load part and a declaration part, which are the
distinctions `selectExecutedBlocks` makes. `Calls` and `Loads` depend on the tree: an
edit of `a` makes it import `b`, and in `WholeRun` b itself may go and come back, alone in a
directory that git may not know. In `Axes`, two shards are the smallest number that can
disagree, two changes let one fall between them and one after, and two copies of one name
are what a lockfile can move.

For the boundary server, two windows are enough for a begin or an end that meets another
test's window in any of its states, and one request being read at a time suffices
because a handler that awaits is not reading: any number of them overlap. In
`ServerWindow` two workers let a session meet the marker, the dumps and the unanswered calls
of one before it, and two processes of one pid a restart that looks like no restart.
`PerTest` has two tests so that work and processes of one may reach into the next. In
`Pipeline` a commit, one after it that breaks a test and one on a branch are the three
relations of a map to HEAD; the theorems of section 4 have none of these bounds.

`Credits` leaves out two kinds of input by its constants, since they go wrong as the code
stands: `BareNames`, `Mixed` (section 6). Windows with ranges of count 0, which V8 reports for
every branch not taken, are among its inputs; `BootKept` says what a union makes of them. Its
scripts are a bundle of one source and at most one other name, with or without that source run
as it stands beside it; the theorems have any.

**Fairness** of the watch loop. Straight-line code goes on (`MainStep`), a timer that is
due fires and time passes, the platform delivers what it queued, and a selection, a
run and a recording end (`CycleStep`). The last is an assumption on the caller's
`run` and `record`: a run that never ends holds the loop, in the code as in the model.
Nothing is assumed of the user: `EveryChangeSelected` holds while writes never stop.
For the boundary server: a body arrives or times out (`BODY_TIMEOUT_MS`), a call of a
session is answered or times out (`timeoutMs`), the watchdog fires, a killed harness dies
(`spawn-detached.ts` goes on to SIGKILL). Of the harness only that it moves on *between*
tests: one that hangs in a test is what the watchdog is for, and `Settles` and
`WindowsEnd` hold in spite of it. For the server window: a call is answered or times out
(`TIMEOUT_MS`, `timeoutMs`), the wait past the last dump goes on when the clock does; the
server owes nothing. For the per-test recorder: timers fire, promises settle, a process that
was sent a signal it obeys ends, and a live server does its work; a harness need not end.
`CoverageMap`, `Axes` and `Pipeline` have only safety properties, and `Credits` no history.

**Deadlock** is checked in the watch, boundary and server-window runs (a resolved loop and a
recording that is over stutter explicitly) and not in the others, where a repository or a
pipeline that reached its bounds, an answered case and a recording that is over may stop.

**Violations.** `QuotedPaths` and `OpaqueBump` each show a disagreement between the code and
what a comment says of it; `findings` in `PROJECT.json` quotes the line. Section 6 has these
and others that are kept out of the passing runs by a named constant: in `SelectionSound`
two white space parts are left out (`LiteralsCount` and `LineEndsCount` state them),
`Quoted` is empty and `Interference` off, in `Boundary` `StartDangles` is FALSE. So the
passing runs say: but for these, no affected test is skipped.

## 4. The proofs

`WatchProofs` proves, for every set of paths, debounce and ceiling, that the type
invariant, `ChangeAccounted`, `BacklogArmed`, `WaitBounded` and `ResolvedIsQuiet` are
invariants, and `KeepsContract`: every step of the loop is a step or a stutter of
`RunOnChange`. The inductive invariant `IInv` adds `Bookkeeping`, what ties control
together: before the loop waits nothing is collected, armed or settled; a stopped loop
has its source closed and no timer; a cycle in flight has no timer; a promise fires only
once the loop is stopped and idle; and a loop that is done is idle, without a timer or an
open source, and was stopped unless nothing is left unseen. Without these, `Fire` could
begin a cycle in a stopped loop, and `Finish` could settle too early.

`CoverageMapProofs` proves for every repository, every recorder, every configuration
and every number of edits and commits, from `CoverageMapAssumption` and `~Interference`:
`TypeOK`, `MapDescribesCommit`, and, when git quotes no name and no test file or sentinel is
in a directory that git may list by its name alone (`OnlySourcesFolded`), `SelectionSound`.
A source may be in one: either the recorded commit had it, and then the diff from there
names it, or it had not, and then no recorded test ran it. The
argument: while a recording runs the tree does not move, and if it was clean it is
HEAD's tree, so every entry credits what its unit executed on that tree (`Faithful`)
and the units of one file come together (`Together`); the store keeps that for the
commit it names. A selection that skips a unit read a diff that starts at that very
tree (`SkippedIsUntouched`): a file that moved is in the diff (`MovedIsListed`), within
the observed scope, so in the entry; its recorded hashes are then all still there, and
equal hashes mean equal parts (`HashesTell`).

It goes on for recordings: blocks are recorded only where the configuration asks for them
(`Grain`), only of files the entry has (`BlocksOfFiles`), and a whole-suite recording keeps
asking for what it discovered (`Asked`). So a map of one invocation is complete
(`WholeRunIsReconciled`), a selection by blocks names a block that changed
(`SelectionIsExact`), and `explain` is right about the next edit of a file
(`ExplainForetellsSelection`, which supposes `OnlySourcesFolded` as well): an edit of nothing
but blocks it calls uncovered selects no test by that file, tests it lists at the grain of
files are selected, and what it says forces a full run does. For a source that is gone it can
only bound the hits: should the file come back as it was recorded nothing is selected, as TLC
showed of an earlier `SourceForetold`.

`BoundaryProofs` proves `TypeOK` and `OneWindow` for harnesses of both kinds, every set of
tests, and any number of windows and of handlers in flight. The inductive invariant adds
`Reported` (a window that is past `/end` has an outcome, and a recorded one did not fail)
and `SlotLive` (the slot never names a window that was reported ended): without the second,
an `/end` could give a new outcome to a window that is recorded already. `MoveKeeps`
carries the argument, since nearly every action moves one window to its next phase.

It goes on for a harness that waits for its responses: what
its client is at, the requests being read and the last window agree (`Turn`: idle,
beginning, testing, ending or stopped), every older window has come to its end
(`OthersFinal`), the one V8 counts for the window that is open (`Exact`), and a window that
ended without a unit was of a failed test or there is an error (`Blame`). So a unit holds
its own test (`UnitsAreOfTheirTest`) and an accepted run has lost none (`NoTestIsLost`).
Without `Turn` a begin could meet the coverage of a test whose `/end` is still being read.

`AxesProofs` has the other two axes and the merge. Its invariant says what is true of *every*
entry, of a shard or of a map merged in any order: the runs it is made of (`past`, ghost) are
the witnesses of its fields. Its files hold what each run loaded and its blocks what ran in
them, where it has any; its packages what was resolved, with the copies installed when it ran;
and the map's commit, manifest, lockfile and external inventories are those of all its shards
or unknown (`Invariance`, which supposes nothing but `AxesAssumption`). A test that is left
out then ran nothing that differs now: in its files (`FilesAreNotMissed`), in what is
installed (`PackagesAreNotMissed`), by the inventory of its suite (`VersionsAreNotMissed`),
and `status` announces just the full runs that `affected` makes (`StatusAgreesAlways`). The
last two hold as they stand. The first supposes that git quotes no name and that a recorder
has blocks of all sources a test loads or of none (`BlocksOfAllOrNone`); the second that
imports are plain (`ImportsArePlain`: no alias, no package without an identity), that there is
no lockfile but the root's (`NestedLocks = {}`) and that a name a test comes to resolve was
not in the tree before (`NewNamesAreNew`). Each hypothesis is there because TLC found the
property violated without it (section 6), and the run checks it on its own instance
(`MCAxesPlain`). Entries that a package pulls in are the least set closed under its links
(`ReachedFrom`), so the argument needs no induction.

`CreditsProofs` proves the properties of `Credits` for every input, not the cases of
`MCCredits`: any number of scripts, names, segments and ranges, spans of any length. Code that
ran and is projected: a region that says it did not and is the narrowest belongs to a range
around the code, since nothing else may lie in its span; the range that says it ran is
inside that one, so its region is too, and is as narrow (`RegionsTell`). A union keeps what
the window tells, because a span is its own narrowest range and the window's narrowest
range around it is in the maximum, and what the boot tells unless the window has that very
span with a count of 0 (`UnionTells`). Of an entry that is written every script
is mapped and no name that matters is missing (`BuiltIsCredited`, `NeverForeign`), so each
leads to what it stands for or to a file with its text (`LocatedIsRight`); blocks are of the
text that stands there now, since only a name with that text gives any
(`BlocksAreCredited`). Suppositions are those the run has as constants: names of the
repository's code are no bare names and guesses lead to files of their sort
(`NamesTellTheTruth`), and, for blocks, a source ran in one script (`~Mixed`).

`PerTestProofs` proves for any tests, harnesses, deaths and interrupts that what is recorded
of a test is all the server did for it (`RecordsAreWhole`) and that no session outlives its
test, whether that passed, timed out or could not be spawned or read, but one that connected
and then failed to start (`SessionsAreClosed`). Its invariant needs the group of a test that
is yet to run to be without a signal (`NotSignalled`), since recordings before it sent some
and processes of theirs may still be alive.

`PipelineProofs` is about jobs that share an archive. A publisher that is to remove the older
readings of its commit knows every one, unless another published it too or one would not go
(`Supersedes`, `AloneAtIt`), hence `OneReadingOfACommit`. Every map a job may read, its own, a
shard or an archived one, credits a test with all it reads or with nothing, knows all tests of
a file or none, and names only a commit at which they passed (`MapsInv`): recordings give that
(`RecordingDescribes`), merges keep it (`MergeDescribes`), and a map that is torn or gone
reads as none. A test that passed there and fails at HEAD reads something that moved, so it or
its file is selected (`BrokenIsSelected`); every adapter's invocations run what is selected,
and the worst status shows a failure (`SelectedAreRun`). Together: `GreenRunIsGreen`, for
every repository, adapter and history of jobs. It rests on `PipelineAssumption` and
`RunnersAssumption`: a test passes or fails by what it reads, a title matches its own pattern,
and tests are recorded on a clean tree. `ArchiveStaysBounded` counts files: a file that
pruning leaves is told from the others by how many are newer (`PruneLeavesKeep`,
`NewestIsAnOrder`), so there are `Keep` at most, and while a job prunes, what it has neither
yet to remove, nor failed to, nor seen arrive only gets less (`Bounded`, in `FilesInv` with
the types of jobs, maps and names). It supposes of commits what `byNewest` supposes of
strings, that they are ordered.

`ServerWindowProofs` takes the server's dumps from two tests of two workers to any number of
tests, workers, processes and foreign dumps. Its invariant has a part for each thing that can
be late: a call somebody waits for is the last one posted (`Waited`); the process remembers
its first dump, or that one is being made, and no dump can be asked for before the clock is
past the one remembered (`Memory`); what the session knows at each of its calls (`Session`:
`AtPid`, `AtMarker`, `AtClaim`, `AtBoot`, `AtName`, `Ready`); and where the coverage of the
test is, in the counters or in the one new dump (`Held`). Without `Memory` a dump that a dead
worker asked for could land on the name of the boot. Hence `TheBootIsWhole`,
`TheBootDumpStands` and `RecordedUnitsHoldAll`: a dump too few or too many in a window fails
`OwnDump`, and a window that failed fails the run; of an isolate that has written no dump by
then (`silent`) the theorem says nothing, as the code can say nothing. `LastDump` is where the
names of dumps, sorted by instant, get their greatest one (a least element of a set of
numbers, by the library's well-founded induction).

Only model-checked: liveness (`EveryChangeSelected`, `ComesToRest`, the fairness of
`RunOnChange`, `WindowsEnd`, `Settles`, `WorkerGoesOn`, `RecordSettles`), which is out of the
prover's reach. `CreditsProofs` takes the readings of a name, the segments and the ranges as
they are; that VLQ and V8 yield them is outside the model.

## 5. Not modelled, and the limits of what is

* The index: a work tree is either like HEAD or not; a staged deletion of a file that is
  on disk again is not told apart.
* `git status` failing inside `diffChanges` (swallowed like a failing `git diff`), and a
  work tree outside git.
* A selection is evaluated at one instant (in `CoverageMap`; the watch loop repeats it
  after every later change).
* The text of things: source maps (VLQ), lockfiles, configuration files, the syntax tree and
  probe offsets of `blocks.ts` (`executedAt` there defaults to "executed", which only widens
  a credit), Istanbul's reports beyond how they map to files.
* Of the Playwright adapter the browser window and the server session that older fixtures
  open for each test (`openServer`, `closeServer`); the shims inside the other runners.
* Run templates, `doctor`, `impact` and `init`: they print or write once and no state of
  theirs is read back. Conformance checks are tests; benchmarks and the CI action only drive
  the program.
* A test file imported by another, an added file that shadows an import, and generated
  sources that git ignores are outside the assumption on tests above.

## 6. Known disagreements

Where the code, as it stands, does not do what a comment or a document says. The first two
are runs; the others were found the same way and are kept out of the runs by the constant
or definition named, with which they can be seen again.

| where | what | seen with |
|---|---|---|
| `git.ts:223`, `241-242` | paths that git quotes are listed under a name nothing matches | run `QuotedPaths` |
| `inventory.ts:100-106`, `dependencies.ts:315` | a package without JavaScript moves and nothing falls open | run `OpaqueBump` |
| `git.ts:212-215`, `265` | a new file in a directory git knows nothing of is listed as the directory: a new sentinel or test file there is not seen, against lines 244-246 | `MapLifecycle.cfg` with `Folders <- NewSentinel`, `Contents <- SentinelEdits`, `MaxEdits = 2`, `SelectionSound` |
| `dependencies.ts:180-183`, `239-255` | a nested lockfile is accounted for by its basename although only the root's is compared with what is installed | `Axes.cfg` with `Manifests = {man}`, `NestedLocks = {sub}`, `PackagesCount` |
| `watch.ts:325` | a callback that aborts before the promise exists: the call never resolves | `WatchFailOpen.cfg`, property `ResolvesOnceStopped` |
| `blocks.ts:276` | white space inside a literal of a top-level statement changes no hash | `MapLifecycle.cfg` with `Contents <- Spacing`, `LiteralsCount` |
| `blocks.ts:105` | so does a line end the language reads | the same, `LineEndsCount` |
| `commands.ts:210`, `570` | a commit made during a recording is the one the map names | `Interference = TRUE`, `MapDescribesCommit` |
| `git.ts:262` | `--since` with a ref that is not there is no full run | `DiffFailureFallsOpen` |
| `boundary-server.ts:198` | a session that connected and failed to start is never closed; the per-test recorder's `session.start()` is outside its `try` too | `StartDangles = TRUE`, `WindowsEnd` |
| `source-map.ts:17-25` | a bare name in a map may be read as another file of the repository | `BareNames = TRUE`, `FilesHold` |
| `mapper.ts`, `projectedBlocks` | a source that ran in several scripts keeps the blocks of those that can be read | `Mixed = TRUE`, `BlocksHold` |
| `boot-delta-coverage.ts:303-307` | a range that a window's dump says did not run overrides the boot that ran it, against lines 25-26 | `Credits.cfg` with `BootInEvery` |
| `boot-delta-coverage.ts:33-38` | what a child process or worker thread runs for a test and does not dump in its window is in no unit, and fails nothing (the comment says so itself; its caller's unit still counts as measured) | `ServerWindow.cfg` with `NothingIsSilent` |
| `merge.ts:191-202`, `combine.ts` | a merged entry keeps blocks if both shards have any, though a shard may have none of *this* file: its run of the file is forgotten | `Axes.cfg` on `MCAxes` with `Behaviours <- MixedBehaviours`, `FilesCount` |
| `dependencies.ts:315` | a name a test newly resolves that the tree had before (an optional dependency that arrives) is in no entry, and its change is passed over | the same with `Contents <- LateContents`, `Committed <- LateCommitted`, `PackagesCount` |
| `per-test-recorder.ts:64-67` | a process that left the group and holds the output open holds the recording past its timeout | an `Other` with `grouped = FALSE`, `holds = TRUE` among the `Harnesses`, `RecordSettles` |
| `spawn-detached.ts:118` | the SIGKILL is taken back at `close`: a process of the group that has closed its output and ignores SIGTERM outlives a test that timed out, against lines 13-16 and 36-39 | `PerTest.cfg` with `GroupIsKilled` |

Also met, without a definition of their own: an import by an alias resolves a package under a
name the inventory does not list it by; of a file whose tests are split over shards, a shard
that is lost takes its tests along, since the map knows the file (`commands.ts:1012-1017`); a
publish may prune the very map it wrote when its instant is older than `keep` others
(`archive.ts:216`); two jobs that publish one commit at once leave two readings, as does one
whose older file cannot be removed (`archive.ts:206-208`, against the promise of lines
180-181), and one that dies between removal and write leaves none, which costs a full run and
nothing else; files that cannot be removed leave an archive of more than `keep`
(`archive.ts:228-230` says so); `status` derives the next selection without `blocked`
(`commands.ts:1399-1404`); `explain` calls a load block covered by units of the module block
although an edit of an inline function does not select them, and the module block of a file
that is only imported uncovered; "the worst exit code" of several invocations is the last one
that is not 0; the `node:test` adapter runs a file whole and by name when both were selected;
an interrupt sends SIGTERM once, and a harness that ignores it outlives covsel.

## 7. Plan

1. (done) `Watch`, `RunOnChange`; `Blocks`, `Selection`, `CoverageMap`, `Explain`.
2. (done) `BoundaryServer`, `ServerWindow`, `PerTest`.
3. (done) `Inventory`, `Sharing`, `Axes`; `Mapping`, `Projection`, `BootUnion`.
4. (done) `Runners`, `Archive`, `Pipeline`.
5. (done) Proofs of the watch loop, of recording, selection and explanation, of the merge and
   its three axes, of credits, of the boundary server's safety, of the per-test recorder's, of
   the server window's, that a green selected run is a green suite, and that an archive is
   bounded.
6. Next: type invariants and the remaining action properties as theorems where a component
   has none; the legacy server session of the Playwright fixture; a selection that reads its
   inputs at several instants.
