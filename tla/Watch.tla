------------------------------- MODULE Watch -------------------------------
(***************************************************************************)
(* The watch loop, packages/core/src/watch.ts: the working tree is watched *)
(* and every debounced batch of changes is turned into one selection, one  *)
(* run and, after a green run, possibly one recording.                     *)
(*                                                                         *)
(* The loop is one JavaScript activity: a step is what runs between two    *)
(* awaits, so the handlers of the watch source, the timer callback and the *)
(* continuations of a cycle interleave but never overlap.  The tree is     *)
(* edited by others at any time, and the platform delivers a change some   *)
(* time after it was made, in any order, possibly without naming it.       *)
(***************************************************************************)
EXTENDS Integers

CONSTANTS
  Path,            \* repo-relative paths that may be written
  Noise,           \* those in .git or in the store directory (isNoise)
  Ignored,         \* those git ignores (filterUnignored)
  Artifacts,       \* those a run or a recording writes
  Unnamed,         \* a change the platform reports without a path
  Debounce,        \* debounceMs, in clock ticks
  MaxWait,         \* maxWaitMs, in clock ticks
  InitialRun,      \* init.initialRun
  Records,         \* init.record was given
  GitMayFail,      \* git check-ignore may leave a batch unanswered
  CallbackAborts   \* onEvent may abort the signal while it reports `watching'

ASSUME WatchAssumption ==
  /\ Noise \subseteq Path /\ Ignored \subseteq Path
  /\ Artifacts \subseteq Noise \cup Ignored
  /\ Unnamed \notin Path
  /\ Debounce \in Nat /\ MaxWait \in Nat
  /\ {InitialRun, Records, GitMayFail, CallbackAborts} \subseteq BOOLEAN

VARIABLES
  main,      \* where watchAffected itself is
  source,    \* the watch source
  phase,     \* where the cycle is; running = (phase # "idle")
  stopped, code, settle, result,
  pending, unnamed,   \* the batch being collected
  age,       \* ticks since batchStartedAt, NoBatch when it is undefined
  timer,     \* ticks until the debounce timer fires, Off when it is undefined
  events,    \* changes the platform has yet to deliver
  unseen     \* history: paths a diff would show, written since a diff was read

ctlVars   == <<main, source, stopped, code, settle, result>>
batchVars == <<pending, unnamed, age, timer>>
vars == <<main, source, phase, stopped, code, settle, result,
          pending, unnamed, age, timer, events, unseen>>

Off == -1
NoBatch == -1
Tracked == Path \ (Noise \cup Ignored)   \* what a selection would act on
Change == Path \cup {Unnamed}

AtMost(a, b)  == IF a < b THEN a ELSE b
AtLeast(a, b) == IF a > b THEN a ELSE b

TypeOK ==
  /\ main \in {"create", "watching", "settle", "waiting", "done"}
  /\ source \in {"none", "open", "closed"}
  /\ phase \in {"idle", "selecting", "selected", "running", "recording"}
  /\ stopped \in BOOLEAN
  /\ code \in {0, 1} /\ result \in {-1, 0, 1}
  /\ settle \in {"unset", "set", "fired"}
  /\ pending \subseteq Path \ Noise
  /\ unnamed \in BOOLEAN
  /\ age \in NoBatch .. MaxWait
  /\ timer \in Off .. Debounce
  /\ events \subseteq Change
  /\ unseen \subseteq Tracked

Init ==
  /\ main = "create" /\ source = "none" /\ phase = "idle"
  /\ stopped = FALSE /\ code = 0 /\ settle = "unset" /\ result = -1
  /\ pending = {} /\ unnamed = FALSE /\ age = NoBatch /\ timer = Off
  /\ events = {} /\ unseen = {}

-----------------------------------------------------------------------------
(* finish, stop, schedule: the closures every handler ends in.             *)

\* Mutant: settles although a cycle is still in flight.
FinishEagerly(stp, ph) == IF settle = "set" /\ stp THEN "fired" ELSE settle

\* settle after finish(), given what stopped and phase have become.
Finish(stp, ph) == IF settle = "set" /\ stp /\ ph = "idle" THEN "fired" ELSE settle

\* Mutant: leaves the timer armed.
StopArmed ==
  /\ stopped' = TRUE
  /\ source' = "closed"
  /\ settle' = Finish(TRUE, phase)
  /\ UNCHANGED timer

\* stop(): idempotent, it clears the timer, closes the source and finishes.
Stop ==
  /\ stopped' = TRUE
  /\ timer' = Off
  /\ source' = "closed"
  /\ settle' = Finish(TRUE, phase)

\* Mutant: a quiet period with no ceiling.
DelayUncapped(a) == Debounce

\* The delay schedule() gives the timer for a batch that started a ticks ago.
Delay(a) == AtLeast(0, AtMost(Debounce, MaxWait - AtLeast(a, 0)))

\* The timer after schedule(), which does nothing while a cycle is running.
Scheduled(ph, a) == IF stopped \/ ph # "idle" THEN timer ELSE Delay(a)

-----------------------------------------------------------------------------
(* A cycle.  From taking the batch to calling select() nothing is awaited.  *)

\* What filterUnignored leaves of the batch: all of it when git cannot answer.
Unignored(batch) ==
  {batch \ Ignored} \cup (IF GitMayFail THEN {batch} ELSE {})

\* Mutant: trusts the names it has, although a change came without one.
BeginCycleByName(initial) ==
  /\ phase = "idle" /\ ~stopped
  /\ pending' = {} /\ unnamed' = FALSE /\ age' = NoBatch
  /\ \E relevant \in Unignored(pending) :
       phase' = IF ~initial /\ relevant = {} THEN "idle" ELSE "selecting"

BeginCycle(initial) ==
  /\ phase = "idle" /\ ~stopped
  /\ pending' = {} /\ unnamed' = FALSE /\ age' = NoBatch
  /\ \E relevant \in Unignored(pending) :
       phase' = IF ~initial /\ ~unnamed /\ relevant = {} THEN "idle" ELSE "selecting"

\* Mutant: waits for the next change to schedule what was collected.
EndCycleOnly ==
  /\ phase' = "idle"
  /\ settle' = Finish(stopped, "idle")
  /\ UNCHANGED <<main, source, stopped, code, result, batchVars, events>>

\* The finally of cycle(): later changes were only collected, so it schedules.
EndCycle ==
  /\ phase' = "idle"
  /\ timer' = IF ~stopped /\ (pending # {} \/ unnamed) THEN Delay(age) ELSE timer
  /\ settle' = Finish(stopped, "idle")
  /\ UNCHANGED <<main, source, stopped, code, result, pending, unnamed, age, events>>

\* select() reads the diff; when it throws, fallOpen runs the whole suite.
ReadDiff ==
  /\ phase = "selecting"
  /\ phase' = "selected"
  /\ unseen' = {}
  /\ UNCHANGED <<ctlVars, batchVars, events>>

StartRun ==
  /\ phase = "selected"
  /\ phase' = "running"
  /\ UNCHANGED <<ctlVars, batchVars, events, unseen>>

\* The run failed to start, exited non-zero, or nothing records after it.
RunEnds ==
  /\ phase = "running"
  /\ EndCycle
  /\ UNCHANGED unseen

RunEndsGreen ==
  /\ phase = "running" /\ Records
  /\ phase' = "recording"
  /\ UNCHANGED <<ctlVars, batchVars, events, unseen>>

RecordEnds ==
  /\ phase = "recording"
  /\ EndCycle
  /\ UNCHANGED unseen

-----------------------------------------------------------------------------
(* The handlers and the timer.                                             *)

\* A change that counts joins the batch and arms the timer again.
Collect(e) ==
  /\ unnamed' = (unnamed \/ e = Unnamed)
  /\ pending' = pending \cup ({e} \ {Unnamed})
  /\ age' = AtLeast(age, 0)
  /\ timer' = Scheduled(phase, age')

\* Mutants: collects what the store and git write; ignores changes while a
\* cycle is running.
DeliverNoise(e) ==
  /\ main = "waiting" /\ source = "open" /\ ~stopped
  /\ e \in events
  /\ events' = events \ {e}
  /\ Collect(e)
  /\ UNCHANGED <<ctlVars, phase, unseen>>

DeliverIdle(e) ==
  /\ main = "waiting" /\ source = "open" /\ ~stopped
  /\ e \in events
  /\ events' = events \ {e}
  /\ IF e \in Noise \/ phase # "idle" THEN UNCHANGED batchVars ELSE Collect(e)
  /\ UNCHANGED <<ctlVars, phase, unseen>>

\* handlers.change
Deliver(e) ==
  /\ main = "waiting" /\ source = "open" /\ ~stopped
  /\ e \in events
  /\ events' = events \ {e}
  /\ IF e \in Noise THEN UNCHANGED batchVars ELSE Collect(e)
  /\ UNCHANGED <<ctlVars, phase, unseen>>

\* handlers.error
WatcherFails ==
  /\ main = "waiting" /\ ~stopped
  /\ code' = 1
  /\ Stop
  /\ UNCHANGED <<main, phase, result, pending, unnamed, age, events, unseen>>

\* The abort listener.
Abort ==
  /\ main = "waiting" /\ ~stopped
  /\ Stop
  /\ UNCHANGED <<main, phase, code, result, pending, unnamed, age, events, unseen>>

Fire ==
  /\ main = "waiting" /\ timer = 0
  /\ timer' = Off
  /\ BeginCycle(FALSE)
  /\ UNCHANGED <<ctlVars, events, unseen>>

\* Time passes; a timer that is due fires before any more of it does.
Tick ==
  /\ main = "waiting" /\ timer # 0
  /\ timer > 0 \/ (age # NoBatch /\ age < MaxWait)
  /\ timer' = IF timer > 0 THEN timer - 1 ELSE timer
  /\ age' = IF age = NoBatch THEN age ELSE AtMost(age + 1, MaxWait)
  /\ UNCHANGED <<ctlVars, phase, pending, unnamed, events, unseen>>

-----------------------------------------------------------------------------
(* watchAffected from its call to its result.                              *)

CannotWatch ==
  /\ main = "create"
  /\ main' = "done" /\ result' = 1
  /\ UNCHANGED <<source, phase, stopped, code, settle, batchVars, events, unseen>>

\* The source is there; the signal may have aborted before the call.
Established ==
  /\ main = "create"
  /\ \/ /\ main' = "watching" /\ source' = "open"
        /\ UNCHANGED <<stopped, timer, settle, result>>
     \/ /\ Stop
        /\ main' = "done" /\ result' = code
  /\ UNCHANGED <<phase, code, pending, unnamed, age, events, unseen>>

\* emit({ kind: 'watching' }): the caller's code runs here.
EmitWatching ==
  /\ main = "watching"
  /\ main' = "settle"
  /\ \/ UNCHANGED <<source, stopped, timer, settle>>
     \/ CallbackAborts /\ Stop
  /\ UNCHANGED <<phase, code, result, pending, unnamed, age, events, unseen>>

\* The promise `idle' is created, then cycle(true) or nothing.
StartLoop ==
  /\ main = "settle"
  /\ main' = "waiting" /\ settle' = "set"
  /\ IF InitialRun /\ ~stopped THEN BeginCycle(TRUE)
     ELSE UNCHANGED <<phase, pending, unnamed, age>>
  /\ UNCHANGED <<source, stopped, code, result, timer, events, unseen>>

Resolve ==
  /\ main = "waiting" /\ settle = "fired"
  /\ main' = "done" /\ result' = code
  /\ UNCHANGED <<source, phase, stopped, code, settle, batchVars, events, unseen>>

Resolved == main = "done" /\ UNCHANGED vars

-----------------------------------------------------------------------------
(* The rest of the world.                                                  *)

\* Someone writes p; the platform will report it, by name or not.
Write(p) ==
  /\ source = "open"
  /\ \E e \in {p, Unnamed} : events' = events \cup {e}
  /\ unseen' = unseen \cup ({p} \cap Tracked)
  /\ UNCHANGED <<ctlVars, phase, batchVars>>

\* A run writes its output, a recording the map.
WriteArtifact ==
  /\ source = "open" /\ phase \in {"running", "recording"}
  /\ \E p \in Artifacts : events' = events \cup {p}
  /\ UNCHANGED <<ctlVars, phase, batchVars, unseen>>

UserWrites == \E p \in Path : Write(p)
CycleStep == ReadDiff \/ StartRun \/ RunEnds \/ RunEndsGreen \/ RecordEnds
MainStep == CannotWatch \/ Established \/ EmitWatching \/ StartLoop \/ Resolve

Next ==
  \/ CannotWatch \/ Established \/ EmitWatching \/ StartLoop \/ Resolve \/ Resolved
  \/ \E e \in Change : Deliver(e)
  \/ WatcherFails \/ Abort \/ Fire \/ Tick
  \/ ReadDiff \/ StartRun \/ RunEnds \/ RunEndsGreen \/ RecordEnds
  \/ \E p \in Path : Write(p)
  \/ WriteArtifact

\* Straight-line code goes on, timers fire, the platform delivers every change
\* it queued, and a selection, a run and a recording end.
Fairness ==
  /\ WF_vars(MainStep) /\ WF_vars(CycleStep)
  /\ WF_vars(Fire) /\ WF_vars(Tick)
  /\ \A e \in Change : WF_vars(Deliver(e))

Spec == Init /\ [][Next]_vars /\ Fairness

-----------------------------------------------------------------------------
(* What the loop promises.                                                 *)

\* No change is lost between the platform and a selection: while the loop is
\* live, a written path the next diff would show is still to be delivered, or
\* is in the batch, or a cycle is about to read the diff (watch.ts, change and
\* cycle: a batch is taken and cleared before the diff is read).
ChangeAccounted ==
  \A p \in unseen : ~stopped =>
    \/ {p, Unnamed} \cap events # {}
    \/ p \in pending \/ unnamed
    \/ phase = "selecting"

\* A batch nobody is running always has a timer: changes collected during a run
\* do not wait for the next change (the finally of cycle).
BacklogArmed ==
  phase = "idle" /\ ~stopped /\ (pending # {} \/ unnamed) => timer # Off

\* However changes keep resetting the quiet period, a batch never waits past
\* MaxWait from its first change (schedule, maxWaitMs).
WaitBounded ==
  timer # Off => timer <= AtLeast(0, MaxWait - AtLeast(age, 0))

\* A resolved watch leaves nothing behind: no run in flight, no timer keeping
\* the process alive, no open watcher (finish and stop).
ResolvedIsQuiet ==
  main = "done" => phase = "idle" /\ timer = Off /\ source # "open"

\* Every tracked change is followed by a selection that sees it, even when
\* writes never stop (watch.ts:79-85: the loop must not be held off for ever).
EveryChangeSelected ==
  \A p \in Tracked : (p \in unseen) ~> (p \notin unseen \/ stopped)

\* A loop in which only runs and recordings write comes to rest: neither their
\* output nor the map wakes the watcher that caused it (isNoise, cycle).
ComesToRest == <>[][UserWrites => WriteArtifact]_vars => <>[](phase = "idle")

\* `Resolves with an exit code once the signal aborts, or 1 if the watcher
\* failed' (watch.ts:153).
ResolvesOnceStopped == stopped ~> (main = "done")

\* The loop does what its contract says: the timer, the batch and the platform
\* are how it does it (RunOnChange; Resolve from live only before it waits).
Contract == INSTANCE RunOnChange WITH
  mode <- IF main = "done" THEN "resolved" ELSE IF stopped THEN "stopped" ELSE "live",
  inFlight <- phase # "idle"

ImplementsContract == Contract!Spec

=============================================================================
