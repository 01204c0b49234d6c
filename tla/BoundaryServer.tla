--------------------------- MODULE BoundaryServer ---------------------------
(***************************************************************************)
(* Recording one invocation of a cooperating harness,                      *)
(* packages/adapter-harness/src/boundary-server.ts: the harness posts      *)
(* /begin and /end around each test, and the coverage the application      *)
(* server collected between the two becomes the unit of that test.         *)
(*                                                                         *)
(* A step is what a handler does between two awaits.  The slot names the   *)
(* window that is reserved or open; a window whose test has ended is taken *)
(* and closed outside the slot.  One V8 in the application server counts   *)
(* for every window: a start or a take resets it, a stop ends counting.    *)
(***************************************************************************)
EXTENDS Naturals, Sequences, FiniteSets

CONSTANTS
  Test,           \* ids a harness may post
  Harnesses,      \* of TRUE (waits for each response, as protocol.ts asks), FALSE
  StartDangles,   \* a start may fail after its connection was made
  Outcome,        \* what a test may be reported as
  MaxWindows,     \* bound on tests begun
  MaxRequests     \* bound on requests being read at once

ASSUME BoundaryAssumption ==
  /\ Outcome \subseteq {"passed", "failed", "skipped"}
  /\ Harnesses \subseteq BOOLEAN /\ StartDangles \in BOOLEAN
  /\ MaxWindows \in Nat /\ MaxRequests \in Nat \ {0}

VARIABLES
  waits,      \* the kind of this harness
  client,     \* what a waiting harness is doing, and with which test
  harness,    \* running, killed, passed or failed (its exit)
  reading,    \* requests whose body is being read
  win,        \* every window reserved so far
  slot,       \* the window in the slot, None when it is undefined
  errors,     \* protocolErrors is not empty
  main,       \* where recordRun is, and the open window its finally closes
  ok,         \* it returns its units rather than throwing
  precise, counts   \* the application's V8: counting, and tests counted

clientVars == <<waits, client, harness>>
v8Vars == <<precise, counts>>
vars == <<clientVars, reading, win, slot, errors, main, ok, v8Vars>>

None == 0
NoTest == "none"

Window == 1 .. Len(win)
Units == {w \in Window : win[w].at = "recorded"}   \* live: the array recordRun returns

TypeOK ==
  /\ waits \in BOOLEAN
  /\ client \in [at : {"idle", "begin", "test", "end", "stop"}, id : Test \cup {NoTest}]
  /\ harness \in {"running", "killed", "passed", "failed"}
  /\ reading \subseteq [id : Test, outcome : Outcome \cup {NoTest}]
  /\ win \in Seq([id : Test, outcome : Outcome \cup {NoTest}, ran : SUBSET Test,
                  executed : BOOLEAN,
                  at : {"starting", "open", "settling", "taken", "mapping", "skipping",
                        "closing", "dangling", "closed", "recorded"}])
  /\ \A w \in Units : win[w].outcome \in {"passed", "skipped"}
  /\ slot \in {None} \cup Window
  /\ errors \in BOOLEAN /\ precise \in BOOLEAN /\ counts \subseteq Test
  /\ main \in [at : {"waiting", "closing", "done"}, holds : {None} \cup Window]
  /\ ok \in BOOLEAN

Init ==
  /\ waits \in Harnesses
  /\ client = [at |-> "idle", id |-> NoTest] /\ harness = "running"
  /\ reading = {} /\ win = <<>> /\ slot = None /\ errors = FALSE
  /\ main = [at |-> "waiting", holds |-> None] /\ ok = FALSE
  /\ precise = FALSE /\ counts = {}

-----------------------------------------------------------------------------
(* The harness (external: modelled from the protocol it is asked to keep).  *)

\* Killed, it has a moment before SIGKILL and may use it.
Alive == {"running", "killed"}

Post(id, outcome) ==
  LET r == [id |-> id, outcome |-> outcome] IN
    /\ harness \in Alive /\ r \notin reading /\ Cardinality(reading) < MaxRequests
    /\ reading' = reading \cup {r}
    /\ UNCHANGED <<waits, harness, win, slot, errors, main, ok, v8Vars>>

\* A harness that waits posts one request at a time; any other posts at will.
PostBegin(id) ==
  /\ Len(win) + Cardinality({r \in reading : r.outcome = NoTest}) < MaxWindows
  /\ IF waits THEN client.at = "idle" /\ client' = [at |-> "begin", id |-> id]
     ELSE UNCHANGED client
  /\ Post(id, NoTest)

PostEnd(id, outcome) ==
  /\ IF waits THEN client = [at |-> "test", id |-> id] /\ client' = [at |-> "end", id |-> id]
     ELSE UNCHANGED client
  /\ Post(id, outcome)

\* The test makes the application run code.  This is followed only for a harness
\* that waits: nothing is claimed of what a window of another one holds.
Execute(id) ==
  /\ harness \in Alive /\ waits /\ client = [at |-> "test", id |-> id]
  /\ counts' = IF precise THEN counts \cup {id} ELSE counts
  /\ win' = [w \in Window |->
               IF w = slot /\ win[w].id = id THEN [win[w] EXCEPT !.executed = TRUE] ELSE win[w]]
  /\ UNCHANGED <<clientVars, reading, slot, errors, main, ok, precise>>

\* It may fail or crash at any moment, but does not pass over a response it waits for.
Exit ==
  /\ harness \in Alive
  /\ \/ harness' = "failed"
     \/ harness' = "passed" /\ (waits => client.at \notin {"begin", "end"})
  /\ UNCHANGED <<waits, client, reading, win, slot, errors, main, ok, v8Vars>>

\* The response reaches the harness that waits for it; refused, it stops.
Respond(accepted) ==
  client' = IF ~waits THEN client
            ELSE IF ~accepted THEN [client EXCEPT !.at = "stop"]
            ELSE IF client.at = "begin" THEN [client EXCEPT !.at = "test"]
            ELSE [at |-> "idle", id |-> NoTest]

At(w, at) == win' = [win EXCEPT ![w].at = at]
Refuse == errors' = TRUE /\ Respond(FALSE)

-----------------------------------------------------------------------------
(* handleRequest, handleBegin.                                             *)

\* The body does not arrive, or is not what the protocol says.
BodyFails(r) ==
  /\ r \in reading
  /\ reading' = reading \ {r}
  /\ Refuse
  /\ UNCHANGED <<waits, harness, win, slot, main, ok, v8Vars>>

\* Mutant: a window that is still being opened does not count.
HandleBeginOverlapping(r) ==
  /\ r \in reading /\ r.outcome = NoTest
  /\ reading' = reading \ {r}
  /\ \/ /\ slot # None /\ win[slot].at # "starting"
        /\ Refuse
        /\ UNCHANGED <<win, slot>>
     \/ /\ slot # None => win[slot].at = "starting"
        /\ win' = Append(win, [id |-> r.id, outcome |-> NoTest, ran |-> {},
                               executed |-> FALSE, at |-> "starting"])
        /\ slot' = Len(win) + 1
        /\ UNCHANGED <<client, errors>>
  /\ UNCHANGED <<waits, harness, main, ok, v8Vars>>

\* Refused while another window is reserved or open; else it reserves the slot.
HandleBegin(r) ==
  /\ r \in reading /\ r.outcome = NoTest
  /\ reading' = reading \ {r}
  /\ \/ /\ slot # None
        /\ Refuse
        /\ UNCHANGED <<win, slot>>
     \/ /\ slot = None
        /\ win' = Append(win, [id |-> r.id, outcome |-> NoTest, ran |-> {},
                               executed |-> FALSE, at |-> "starting"])
        /\ slot' = Len(win) + 1
        /\ UNCHANGED <<client, errors>>
  /\ UNCHANGED <<waits, harness, main, ok, v8Vars>>

\* session.start() resolves: the window opens, unless the reservation is gone.
Started(w) ==
  /\ win[w].at = "starting"
  /\ precise' = TRUE /\ counts' = {}
  /\ IF slot = w THEN At(w, "open") /\ Respond(TRUE) ELSE At(w, "closing") /\ Respond(FALSE)
  /\ UNCHANGED <<waits, harness, reading, slot, errors, main, ok>>

StartFails(w) ==
  /\ win[w].at = "starting"
  /\ \E at \in {"closed"} \cup (IF StartDangles THEN {"dangling"} ELSE {}) : At(w, at)
  /\ slot' = IF slot = w THEN None ELSE slot
  /\ Refuse
  /\ UNCHANGED <<waits, harness, reading, main, ok, v8Vars>>

\* Mutants: the stuck harness is left running; its window is left open.
WatchdogSpares(w) ==
  /\ win[w].at = "open"
  /\ At(w, "closing")
  /\ slot' = None /\ errors' = TRUE
  /\ UNCHANGED <<clientVars, reading, main, ok, v8Vars>>

WatchdogLeaks(w) ==
  /\ win[w].at = "open"
  /\ At(w, "dangling")
  /\ slot' = None /\ errors' = TRUE
  /\ harness' = IF harness = "running" THEN "killed" ELSE harness
  /\ UNCHANGED <<waits, client, reading, main, ok, v8Vars>>

\* testTimeoutMs after the window opened, if nothing cleared it meanwhile.
Watchdog(w) ==
  /\ win[w].at = "open"
  /\ At(w, "closing")
  /\ slot' = None /\ errors' = TRUE
  /\ harness' = IF harness = "running" THEN "killed" ELSE harness
  /\ UNCHANGED <<waits, client, reading, main, ok, v8Vars>>

-----------------------------------------------------------------------------
(* handleEnd.                                                              *)

Ended(r) ==
  IF win[slot].at # "open" THEN win[slot].at
  ELSE IF r.outcome = "skipped" THEN "skipping" ELSE "settling"

\* Mutant: the next test may begin before the coverage of this one is read.
HandleEndEager(r) ==
  /\ r \in reading /\ r.outcome # NoTest
  /\ reading' = reading \ {r}
  /\ \/ /\ slot # None => win[slot].at = "starting" \/ win[slot].id # r.id
        /\ Refuse
        /\ UNCHANGED <<win, slot>>
     \/ /\ slot # None /\ win[slot].at # "starting" /\ win[slot].id = r.id
        /\ win' = [win EXCEPT ![slot].outcome = r.outcome, ![slot].at = Ended(r)]
        /\ slot' = None /\ Respond(TRUE)
        /\ UNCHANGED errors
  /\ UNCHANGED <<waits, harness, main, ok, v8Vars>>

\* Refused unless its test is the open one.  The slot is cleared before the
\* coverage is read; a window that recordRun is closing already stays with it.
HandleEnd(r) ==
  /\ r \in reading /\ r.outcome # NoTest
  /\ reading' = reading \ {r}
  /\ \/ /\ slot # None => win[slot].at = "starting" \/ win[slot].id # r.id
        /\ Refuse
        /\ UNCHANGED <<win, slot>>
     \/ /\ slot # None /\ win[slot].at # "starting" /\ win[slot].id = r.id
        /\ win' = [win EXCEPT ![slot].outcome = r.outcome, ![slot].at = Ended(r)]
        /\ slot' = None
        /\ UNCHANGED <<client, errors>>
  /\ UNCHANGED <<waits, harness, main, ok, v8Vars>>

\* session.take(), after settleMs if that is configured.
Take(w) ==
  /\ win[w].at = "settling"
  /\ win' = [win EXCEPT ![w].at = "taken", ![w].ran = counts]
  /\ counts' = {}
  /\ UNCHANGED <<clientVars, reading, slot, errors, main, ok, precise>>

TakeFails(w) ==
  /\ win[w].at = "settling"
  /\ At(w, "closing")
  /\ Refuse
  /\ UNCHANGED <<waits, harness, reading, slot, main, ok, v8Vars>>

\* session.close(), and what follows it: mapping, an empty unit, or nothing.
Close(w) ==
  /\ win[w].at \in {"taken", "skipping", "closing"}
  /\ precise' = FALSE /\ counts' = {}
  /\ At(w, CASE win[w].at = "taken" -> "mapping"
             [] win[w].at = "skipping" -> "recorded"
             [] OTHER -> "closed")
  /\ IF win[w].at = "skipping" THEN Respond(TRUE) ELSE UNCHANGED client
  /\ UNCHANGED <<waits, harness, reading, slot, errors, main, ok>>

\* Mutant: a failed test leaves a unit too.
MapAll(w) ==
  /\ win[w].at = "mapping"
  /\ At(w, "recorded")
  /\ Respond(TRUE)
  /\ UNCHANGED <<waits, harness, reading, slot, errors, main, ok, v8Vars>>

\* The unit of a test that did not fail; a failed test leaves none.
MapCoverage(w) ==
  /\ win[w].at = "mapping"
  /\ At(w, IF win[w].outcome = "failed" THEN "closed" ELSE "recorded")
  /\ Respond(TRUE)
  /\ UNCHANGED <<waits, harness, reading, slot, errors, main, ok, v8Vars>>

MapFails(w) ==
  /\ win[w].at = "mapping" /\ win[w].outcome # "failed"
  /\ At(w, "closed")
  /\ Refuse
  /\ UNCHANGED <<waits, harness, reading, slot, main, ok, v8Vars>>

-----------------------------------------------------------------------------
(* recordRun, once the harness is gone.                                    *)

\* The finally: an open window is closed in the slot, a reservation dropped.
Finally ==
  IF slot # None /\ win[slot].at = "open"
  THEN At(slot, "closing") /\ main' = [at |-> "closing", holds |-> slot] /\ UNCHANGED slot
  ELSE slot' = None /\ main' = [at |-> "done", holds |-> None] /\ UNCHANGED win

\* Mutant: a test the harness left open is no error.
ExitSeenBlind ==
  /\ main.at = "waiting" /\ harness \in {"passed", "failed"}
  /\ ok' = (~errors /\ harness = "passed")
  /\ Finally
  /\ UNCHANGED <<clientVars, reading, errors, v8Vars>>

ExitSeen ==
  /\ main.at = "waiting" /\ harness \in {"passed", "failed"}
  /\ errors' = (errors \/ slot # None)
  /\ ok' = (~errors' /\ harness = "passed")
  /\ Finally
  /\ UNCHANGED <<clientVars, reading, v8Vars>>

\* The window it held has closed; whatever is in the slot goes.
Return ==
  /\ main.at = "closing" /\ win[main.holds].at = "closed"
  /\ slot' = None /\ main' = [at |-> "done", holds |-> None]
  /\ UNCHANGED <<clientVars, reading, win, errors, ok, v8Vars>>

Done == main.at = "done" /\ reading = {} /\ UNCHANGED vars

-----------------------------------------------------------------------------
Request == [id : Test, outcome : Outcome \cup {NoTest}]

Handle(r) == BodyFails(r) \/ HandleBegin(r) \/ HandleEnd(r)

Proceed(w) ==
  Started(w) \/ StartFails(w) \/ Take(w) \/ TakeFails(w) \/ Close(w) \/ MapCoverage(w) \/ MapFails(w)

Next ==
  \/ \E id \in Test : PostBegin(id) \/ Execute(id) \/ \E o \in Outcome : PostEnd(id, o)
  \/ Exit \/ ExitSeen \/ Return \/ Done
  \/ \E r \in Request : Handle(r)
  \/ \E w \in Window : Proceed(w) \/ Watchdog(w)

\* covsel's own steps are taken: a request is read or times out (readJsonBody),
\* a call of a session is answered or times out (timeoutMs), a timer fires.  A
\* killed harness dies (spawn-detached.ts goes on to SIGKILL).
Fairness ==
  /\ \A r \in Request : WF_vars(Handle(r))
  /\ \A w \in 1 .. MaxWindows : WF_vars(w \in Window /\ Proceed(w))
                             /\ WF_vars(w \in Window /\ Watchdog(w))
  /\ WF_vars(ExitSeen) /\ WF_vars(Return)
  /\ WF_vars(harness = "killed" /\ Exit)

\* A harness between two tests, or refused, goes on or ends; in a test it may hang.
HarnessFairness ==
  WF_vars(/\ client.at \in {"idle", "stop"}
          /\ Exit \/ \E id \in Test : PostBegin(id))

Spec == Init /\ [][Next]_vars /\ Fairness /\ HarnessFairness

-----------------------------------------------------------------------------
\* While the harness runs, the one window that is being opened or is open is the
\* one in the slot, whatever requests arrive together: two tests never share the
\* application (the reservation in handleBegin, the watchdog's reset of the slot).
OneWindow ==
  main.at = "waiting" =>
    {w \in Window : win[w].at \in {"starting", "open"}} = {slot} \ {None}

\* A harness that waits for its responses gets, for every test it reported as
\* passed, what the application ran for that test and for no other.
UnitsAreExact ==
  waits => \A w \in Units : win[w].outcome = "passed" =>
             win[w].ran = IF win[w].executed THEN {win[w].id} ELSE {}

\* A run that waited and is not rejected left no test open and has a unit for
\* each test reported as passed or skipped.
NothingMissing ==
  waits /\ main.at = "done" /\ ok =>
    \A w \in Window : win[w].outcome # NoTest /\ (win[w].outcome # "failed" => w \in Units)

\* Every window that is reserved comes to its end, with its session closed: an
\* open session can keep the process from exiting (comment at the finally).
WindowsEnd ==
  \A w \in 1 .. MaxWindows :
    w \in Window ~> (w \in Window /\ win[w].at \in {"closed", "recorded"})

\* recordRun settles even when a test hangs: the watchdog kills the harness.
Settles == waits ~> main.at = "done"
=============================================================================
