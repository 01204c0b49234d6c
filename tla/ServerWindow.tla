---------------------------- MODULE ServerWindow ----------------------------
(***************************************************************************)
(* One Playwright recording of an application server started under         *)
(* NODE_V8_COVERAGE: the worker's session over the inspector               *)
(* (remote-coverage-session.ts), the boot dump and one dump per test that  *)
(* it has the server write (boot-delta-coverage.ts), and the observations  *)
(* the fixture makes of them (adapter-playwright).                         *)
(*                                                                         *)
(* A step is what one side does between two awaits.  The server answers    *)
(* calls in the order they were posted, also those nobody waits for any    *)
(* more.  A worker may die at any point and another one take its place;    *)
(* the server may crash, exit and be started again.                        *)
(***************************************************************************)
EXTENDS Naturals, Sequences, FiniteSets, FiniteSetsExt, Functions, SequencesExt

CONSTANTS
  Code,           \* what a test may have the server run
  BootCode,       \* what the server ran before anything attached to it
  Isolate,        \* what a child process or a worker thread of the server runs
  Page,           \* what a further page of the test runs
  Pid,            \* pids of server processes; a dead one's may be used again
  MaxTests, MaxWorkers, MaxProcesses, MaxForeign   \* bounds

ASSUME ServerWindowAssumption ==
  /\ MaxTests \in Nat /\ MaxWorkers \in Nat /\ MaxProcesses \in Nat \ {0} /\ MaxForeign \in Nat
  /\ {Isolate, Page} \cap (Code \cup BootCode) = {} /\ Isolate # Page /\ Pid \cap {"child", "unset", "pending", "no answer"} = {}

VARIABLES
  server,     \* the process: its pid, counters and memory
  first,      \* ghost: what the first dump of this process held
  queue,      \* calls the server has not answered; live: somebody waits for the answer
  dir,        \* the coverage directory: dump names and their contents
  clock,      \* the millisecond; it matters only against the names of dumps
  worker,     \* the worker's session: RemoteBootDeltaSession, its link and BootDeltaCoverage
  answer,     \* the answer that has reached the worker
  test,       \* the test in the worker: what ran for it, whether pages appeared, and
              \* whether an isolate that ran code for it has not written its dump
  run         \* the recording: observations so far, and whether a window failed

vars == <<server, first, queue, dir, clock, worker, answer, test, run>>
serverVars == <<server, first>>

Child == "child"            \* the pid of a child process
Name(pid, ts, thread) == [pid |-> pid, ts |-> ts, thread |-> thread]
NoAnswer == Name("no answer", 0, 0)
Unset == Name("unset", 0, 0)            \* readBootMarker resolves to undefined
Pending == Name("pending", 0, 0)        \* PENDING_BOOT_MARKER
Never == 0                              \* lastDumpTs is undefined

Names == [pid : Pid \cup {Child}, ts : Nat, thread : {0, 1}]
Dumps == [whole : BOOLEAN, ran : SUBSET (Code \cup BootCode)]
NoDump == [whole |-> FALSE, ran |-> {}]

Starting == {"pid", "marker", "claim", "boot", "name"}
Asking == Starting \cup {"window"}

Servers == [up : BOOLEAN, pid : Pid, fresh : BOOLEAN, ran : SUBSET (Code \cup BootCode),
            marker : {Unset, Pending} \cup Names, n : 1 .. MaxProcesses]
Posted == [op : {"pid", "marker", "write", "dump"}, live : BOOLEAN, name : {Unset, Pending} \cup Names]
Workers == [at : {"off", "idle", "test", "waiting"} \cup Asking, ok : BOOLEAN, linked : BOOLEAN,
            pid : Pid, seen : SUBSET Names, boot : Dumps, lastTs : Nat, n : 0 .. MaxWorkers]
Tests == [ran : SUBSET (Code \cup {Isolate, Page}), appeared : BOOLEAN, silent : BOOLEAN,
          n : 0 .. MaxTests]
Units == [ran : SUBSET (Code \cup BootCode \cup {Isolate, Page}), silent : BOOLEAN,
          credit : SUBSET (Code \cup BootCode)]

TypeOK ==
  /\ server \in Servers /\ first \in Dumps /\ queue \in Seq(Posted)
  /\ DOMAIN dir \subseteq Names /\ \A n \in DOMAIN dir : dir[n] \in Dumps
  /\ clock \in Nat
  /\ worker \in Workers /\ answer \in {NoAnswer, Unset, Pending} \cup Names
  /\ test \in Tests /\ run \in [units : SUBSET Units, failed : BOOLEAN]

Process(pid, n) == [up |-> TRUE, pid |-> pid, fresh |-> TRUE, ran |-> BootCode,
                    marker |-> Unset, n |-> n]

NoWorker(n) == [at |-> "off", ok |-> FALSE, linked |-> FALSE, pid |-> CHOOSE p \in Pid : TRUE,
                seen |-> {}, boot |-> NoDump, lastTs |-> Never, n |-> n]

Init ==
  /\ \E pid \in Pid : server = Process(pid, 1)
  /\ first = NoDump /\ queue = <<>> /\ dir = <<>> /\ clock = 1
  /\ worker = NoWorker(0) /\ answer = NoAnswer
  /\ test = [ran |-> {}, appeared |-> FALSE, silent |-> FALSE, n |-> 0]
  /\ run = [units |-> {}, failed |-> FALSE]

-----------------------------------------------------------------------------
(* The server, V8 and the pages of the test (external).                    *)

Ran(c) == test' = [test EXCEPT !.ran = @ \cup {c}]

Execute(c) ==
  /\ server.up /\ worker.at = "test"
  /\ server' = [server EXCEPT !.ran = @ \cup {c}] /\ Ran(c)
  /\ UNCHANGED <<first, queue, dir, clock, worker, answer, run>>

\* A dump holds what ran since the last one; it is written over one of that name.
Written == [whole |-> server.fresh, ran |-> server.ran]
Writing(name, dump) ==
  [n \in DOMAIN dir \cup {name} |-> IF n = name THEN dump ELSE dir[n]]

\* takeCoverage(): a dump named after the millisecond, and the counters are reset.
TakeCoverage ==
  /\ dir' = Writing(Name(server.pid, clock, 0), Written)
  /\ first' = IF server.fresh THEN Written ELSE first
  /\ server' = [server EXCEPT !.ran = {}, !.fresh = FALSE]

\* A child process or a worker thread of the server runs code for the test.
ForeignRuns ==
  /\ server.up /\ worker.at = "test"
  /\ test' = [test EXCEPT !.ran = @ \cup {Isolate}, !.silent = TRUE]
  /\ UNCHANGED <<serverVars, queue, dir, clock, worker, answer, run>>

\* It inherits the directory, and writes what it ran when it ends, under a pid or a
\* thread of its own: during the test, during a later one or never.  What ends may
\* have run nothing for this test, or be one of several that did.
ForeignDump ==
  /\ server.up
  /\ Cardinality({n \in DOMAIN dir : n.pid = Child \/ n.thread = 1}) < MaxForeign
  /\ \E n \in {Name(Child, clock, 0), Name(server.pid, clock, 1)} \ DOMAIN dir : dir' = Writing(n, NoDump)
  /\ \E silent \in {test.silent, FALSE} : test' = [test EXCEPT !.silent = silent]
  /\ UNCHANGED <<serverVars, queue, clock, worker, answer, run>>

\* A popup, or context.newPage(): its first scripts ran before anything could see them.
PageAppears ==
  /\ worker.at = "test" /\ ~test.appeared
  /\ test' = [test EXCEPT !.appeared = TRUE, !.ran = @ \cup {Page}]
  /\ UNCHANGED <<serverVars, queue, dir, clock, worker, answer, run>>

\* Time goes on; it is followed only while it decides what a dump is called.
Tick ==
  /\ worker.at \in {"waiting", "window"}
  /\ \E n \in DOMAIN dir : n.ts = clock /\ n.pid = server.pid /\ n.thread = 0
  /\ clock' = clock + 1
  /\ UNCHANGED <<serverVars, queue, dir, worker, answer, test, run>>

\* Killed, or ended in order: then Node writes what was not written yet.  To end
\* in order is assumed to take a millisecond.
ServerEnds ==
  /\ server.up
  /\ \/ UNCHANGED <<dir, clock>>
     \/ /\ dir' = Writing(Name(server.pid, clock + 1, 0), Written)
        /\ clock' = clock + 1
  /\ server' = [Process(server.pid, server.n) EXCEPT !.up = FALSE] /\ first' = NoDump
  /\ queue' = <<>> /\ worker' = [worker EXCEPT !.linked = FALSE]
  /\ UNCHANGED <<answer, test, run>>

ServerStarts ==
  /\ ~server.up /\ server.n < MaxProcesses /\ worker.at = "off"
  /\ \E pid \in Pid : server' = Process(pid, server.n + 1)
  /\ clock' = IF \E n \in DOMAIN dir : n.ts = clock THEN clock + 1 ELSE clock
  /\ UNCHANGED <<first, queue, dir, worker, answer, test, run>>

\* Between two workers, somebody empties the directory.
ClearDirectory ==
  /\ worker.at = "off" /\ dir # <<>>
  /\ dir' = <<>>
  /\ UNCHANGED <<serverVars, queue, clock, worker, answer, test, run>>

-----------------------------------------------------------------------------
(* InspectorLink.                                                          *)

\* The answer of a call that timed out, or whose socket is gone, is dropped.
Deliver(call, value) == answer' = IF call.live THEN value ELSE answer

\* The server evaluates the next call, also one that nobody waits for.
Evaluate ==
  LET call == Head(queue) IN
    /\ server.up /\ queue # <<>>
    /\ queue' = Tail(queue)
    /\ \/ /\ call.op = "pid"
          /\ Deliver(call, Name(server.pid, 0, 0)) /\ UNCHANGED <<serverVars, dir>>
       \/ /\ call.op = "marker"
          /\ Deliver(call, server.marker) /\ UNCHANGED <<serverVars, dir>>
       \/ /\ call.op = "write"
          /\ server' = [server EXCEPT !.marker = call.name]
          /\ Deliver(call, Unset) /\ UNCHANGED <<first, dir>>
       \/ /\ call.op = "dump"
          /\ TakeCoverage /\ Deliver(call, Unset)
    /\ UNCHANGED <<clock, worker, test, run>>

\* post: the call is on its way, and the worker waits for it.  Without a socket
\* it fails at once, which is what Failed then does.
Post(w, at, op, name) ==
  /\ worker' = [w EXCEPT !.at = at]
  /\ queue' = IF w.linked THEN Append(queue, [op |-> op, live |-> TRUE, name |-> name]) ELSE queue

Unheard == [i \in DOMAIN queue |-> [queue[i] EXCEPT !.live = FALSE]]

\* close(): nobody hears the calls in flight; the server may drop them.
Unlinked == queue' \in {Unheard, <<>>}

-----------------------------------------------------------------------------
(* BootDeltaCoverage, and the session that drives it.                      *)

Added == DOMAIN dir \ worker.seen

\* Mutant: dumps of other processes and threads are passed over.
OwnDumpBlind(n) == {m \in Added : m.pid = worker.pid /\ m.thread = 0} = {n}

\* ownDump: the one dump that is new since the last read, and nothing beside it.
OwnDump(n) == Added = {n} /\ n.pid = worker.pid /\ n.thread = 0

\* Mutant: the clock may still be at the millisecond of the last dump.
WaitedAtLeast == clock >= worker.lastTs

\* waitPast.
WaitedPast == clock > worker.lastTs

MaxOwnDumpTs(files) == Max({Never} \cup {n.ts : n \in {m \in files : m.pid = worker.pid /\ m.thread = 0}})

\* The worker starts, and its session connects, or cannot.
Open ==
  /\ worker.at = "off" /\ worker.n < MaxWorkers
  /\ \/ /\ server.up
        /\ Post([NoWorker(worker.n + 1) EXCEPT !.linked = TRUE], "pid", "pid", Unset)
     \/ /\ worker' = [NoWorker(worker.n + 1) EXCEPT !.at = "idle"]
        /\ UNCHANGED queue
  /\ UNCHANGED <<serverVars, dir, clock, answer, test, run>>

Heard(at) == worker.at = at /\ answer # NoAnswer /\ answer' = NoAnswer

GotPid ==
  /\ Heard("pid")
  /\ Post([worker EXCEPT !.pid = answer.pid, !.seen = DOMAIN dir], "marker", "marker", Unset)
  /\ UNCHANGED <<serverVars, dir, clock, test, run>>

\* Mutant: the marker is written only once the boot dump is there.
ClaimBootLate == Post(worker, "boot", "dump", Unset)

\* The boot is claimed before the dump that resets the counters is asked for.
ClaimBoot == Post(worker, "claim", "write", Pending)

\* start() has failed and the session was closed; the worker's tests go on without it.
NotStarted == [NoWorker(worker.n) EXCEPT !.at = "idle"]

\* A process that was booted before has its boot dump read, or the start fails.
GotMarker ==
  /\ Heard("marker")
  /\ \/ /\ answer = Unset
        /\ ClaimBoot
     \/ /\ answer # Unset /\ answer \in worker.seen
        /\ worker' = [worker EXCEPT !.at = "idle", !.ok = TRUE, !.boot = dir[answer],
                                    !.lastTs = MaxOwnDumpTs(worker.seen)]
        /\ UNCHANGED queue
     \/ /\ answer # Unset /\ answer \notin worker.seen
        /\ worker' = NotStarted /\ Unlinked
  /\ UNCHANGED <<serverVars, dir, clock, test, run>>

GotClaim ==
  /\ Heard("claim")
  /\ Post(worker, "boot", "dump", Unset)
  /\ UNCHANGED <<serverVars, dir, clock, test, run>>

\* nextDump, for the boot; its name becomes the marker.
GotBoot ==
  /\ Heard("boot")
  /\ \/ \E n \in Added :
          /\ OwnDump(n)
          /\ Post([worker EXCEPT !.seen = DOMAIN dir, !.boot = dir[n], !.lastTs = n.ts],
                  "name", "write", n)
     \/ /\ \A n \in Added : ~OwnDump(n)
        /\ worker' = NotStarted /\ Unlinked
  /\ UNCHANGED <<serverVars, dir, clock, test, run>>

GotName ==
  /\ Heard("name")
  /\ worker' = [worker EXCEPT !.at = "idle", !.ok = TRUE]
  /\ UNCHANGED <<serverVars, queue, dir, clock, test, run>>

\* A call of start() times out, is refused, or has lost its socket: the session
\* is closed, and every test of this worker has a failed window.
StartFails ==
  /\ worker.at \in Starting /\ answer = NoAnswer
  /\ worker' = NotStarted /\ Unlinked
  /\ UNCHANGED <<serverVars, dir, clock, answer, test, run>>

-----------------------------------------------------------------------------
(* The fixture: one test after another, and what becomes of its windows.   *)

BeginTest ==
  /\ worker.at = "idle" /\ test.n < MaxTests
  /\ worker' = [worker EXCEPT !.at = "test"]
  /\ test' = [ran |-> {}, appeared |-> FALSE, silent |-> FALSE, n |-> test.n + 1]
  /\ UNCHANGED <<serverVars, queue, dir, clock, answer, run>>

WindowFails == run' = [units |-> {}, failed |-> TRUE]

NoTest == [ran |-> {}, appeared |-> FALSE, silent |-> FALSE, n |-> test.n]

Unit(credit) == [ran |-> test.ran \cup BootCode, silent |-> test.silent, credit |-> credit]

\* close(): what ran in a further page cannot be told, so the window fails.
BrowserObserved == ~test.appeared

\* The record of the test: a unit when both windows produced something.  The
\* browser may have no coverage to give, a script may not be mapped.
Observe(credit) ==
  \/ /\ BrowserObserved
     /\ ~run.failed /\ run' = [run EXCEPT !.units = @ \cup {Unit(credit)}]
  \/ WindowFails

\* endTest; a worker whose session did not start has nothing to end.
EndTest ==
  /\ worker.at = "test"
  /\ worker' = [worker EXCEPT !.at = IF worker.ok THEN "waiting" ELSE "idle"]
  /\ IF worker.ok THEN UNCHANGED <<run, test>> ELSE WindowFails /\ test' = NoTest
  /\ UNCHANGED <<serverVars, queue, dir, clock, answer>>

Trigger ==
  /\ worker.at = "waiting" /\ WaitedPast
  /\ Post(worker, "window", "dump", Unset)
  /\ UNCHANGED <<serverVars, dir, clock, answer, test, run>>

\* The window's dump is read and united with boot's; or it cannot be told whose it is.
GotWindow ==
  /\ Heard("window")
  /\ \/ \E n \in Added :
          /\ OwnDump(n)
          /\ worker' = [worker EXCEPT !.at = "idle", !.seen = DOMAIN dir, !.lastTs = n.ts]
          /\ Observe(worker.boot.ran \cup dir[n].ran)
     \/ /\ \A n \in Added : ~OwnDump(n)
        /\ worker' = [worker EXCEPT !.at = "idle", !.seen = DOMAIN dir]
        /\ WindowFails
  /\ test' = NoTest
  /\ UNCHANGED <<serverVars, queue, dir, clock>>

\* Mutant: a call has no deadline of its own.
TriggerWaits ==
  /\ worker.at = "window" /\ answer = NoAnswer /\ ~worker.linked
  /\ worker' = [worker EXCEPT !.at = "idle"] /\ queue' = Unheard
  /\ WindowFails /\ test' = NoTest
  /\ UNCHANGED <<serverVars, dir, clock, answer>>

\* The trigger times out, is refused, or there is no socket any more.
TriggerFails ==
  /\ worker.at = "window" /\ answer = NoAnswer
  /\ worker' = [worker EXCEPT !.at = "idle"] /\ queue' = Unheard
  /\ WindowFails /\ test' = NoTest
  /\ UNCHANGED <<serverVars, dir, clock, answer>>

\* A test in another worker drives the same server; its own windows fail.
OtherWorker ==
  /\ worker.at = "test" /\ ~run.failed
  /\ WindowFails
  /\ UNCHANGED <<serverVars, queue, dir, clock, worker, answer, test>>

\* The worker is done and closes its session, or it dies with the test it was at.
WorkerEnds ==
  /\ worker.at # "off"
  /\ worker' = NoWorker(worker.n) /\ Unlinked
  /\ answer' = NoAnswer /\ test' = NoTest
  /\ UNCHANGED <<serverVars, dir, clock, run>>

Done == worker.at = "off" /\ worker.n = MaxWorkers /\ UNCHANGED vars

-----------------------------------------------------------------------------
Hear == GotPid \/ GotMarker \/ GotClaim \/ GotBoot \/ GotName \/ GotWindow

Next ==
  \/ \E c \in Code : Execute(c)
  \/ ForeignRuns \/ ForeignDump \/ PageAppears \/ Tick \/ ServerEnds \/ ServerStarts \/ ClearDirectory
  \/ Evaluate \/ Open \/ Hear \/ StartFails
  \/ BeginTest \/ EndTest \/ Trigger \/ TriggerFails \/ OtherWorker \/ WorkerEnds \/ Done

\* Every call is answered or times out (timeoutMs), and the clock moves on.
Fairness == WF_vars(Hear \/ StartFails \/ TriggerFails) /\ WF_vars(Trigger) /\ WF_vars(Tick)

Spec == Init /\ [][Next]_vars /\ Fairness

-----------------------------------------------------------------------------
\* What recordRun makes of it: nothing, once any window of any test failed.
Recorded == run.units

\* A unit that is recorded holds all the server ran before the first test and
\* during this one, and no test that ran code in a further page is recorded, nor
\* one that ran code in an isolate which wrote a dump of it: whatever timed out,
\* died or was restarted meanwhile (AmbiguousCoverageError).  Of an isolate that
\* outlives the window of its test a unit says nothing.
UnitsHoldAll ==
  \A u \in Recorded : u.ran \ (IF u.silent THEN {Isolate} ELSE {}) \subseteq u.credit

\* What does not hold: that isolates which outlive their test fail its window too.
NothingIsSilent == \A u \in Recorded : u.ran \subseteq u.credit

\* A session that started reads as boot the first dump its server ever wrote, and
\* not one that only holds what ran since (start(), PENDING_BOOT_MARKER).
BootIsWhole == worker.ok /\ worker.linked => worker.boot = first /\ worker.boot.whole

\* The dump a process remembers as its boot is never overwritten by a later one,
\* so that the next session can read it (waitPast, maxOwnDumpTs).
BootDumpStands ==
  [][server.marker \in DOMAIN dir /\ server'.n = server.n /\ dir' # <<>>
       => dir'[server.marker] = dir[server.marker]]_vars

\* Whatever the server does, the worker never waits for ever (TIMEOUT_MS).
WorkerGoesOn == worker.at \in Asking \cup {"waiting"} ~> worker.at \in {"idle", "off"}
=============================================================================
