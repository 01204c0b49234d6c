------------------------------ MODULE PerTest ------------------------------
(***************************************************************************)
(* Recording with one harness process a test (per-test-recorder.ts,        *)
(* spawn-detached.ts, RemoteCoverageSession): a coverage session on the    *)
(* application server is opened, the harness is run in a process group of  *)
(* its own, and the session is read and closed once it has ended.          *)
(*                                                                         *)
(* A harness has processes: the child, which was spawned, and others that  *)
(* it started.  It may hang, pass a signal by, or leave a process behind   *)
(* that goes on while later tests run; the server may die; and covsel may  *)
(* be interrupted.  A test makes the server work, some of it before the    *)
(* harness can pass and some of it whenever (config.ts, settleMs).         *)
(***************************************************************************)
EXTENDS Naturals, Sequences, FiniteSets

CONSTANTS
  Test,
  Order,         \* the tests, as recordMap goes over them
  Child, Other,  \* the process that is spawned, and one that it starts
  Harnesses,     \* sets of processes [is, grouped, holds, obeys]: whether each is in the
                 \* group, has the output open, and ends on SIGTERM
  Prompt, Late,  \* the server's work for each test, before and after its answer
  Settles,       \* settleMs is set, to what late work takes
  MaxDeaths, MaxInterrupts   \* bounds

ASSUME PerTestAssumption ==
  /\ Order \in Seq(Test) /\ Settles \in BOOLEAN
  /\ \A i, j \in DOMAIN Order : Order[i] = Order[j] => i = j
  /\ \A h \in Harnesses : \E p \in h : p.is = Child /\ p.grouped /\ p.holds

VARIABLES
  at,         \* where recordMap is
  next,       \* the test it is at, in Order
  alive,      \* the processes of each test's harness
  signal,     \* what its group was last sent
  status,     \* with what the child of the test has exited: "0", another code, or none
  escalate,   \* whether a SIGKILL is due
  timedOut,
  sockets,    \* tests whose session is connected
  pending, counted,   \* the server's work: to do, and done since the last start
  scripts,    \* what was taken
  units,      \* what is recorded of each test that did not fail
  unstarted,  \* ghost: tests whose session failed to start
  deaths, interrupts  \* how many there were

child == <<alive, signal, status, escalate>>
server == <<sockets, pending, counted, deaths>>
recording == <<units, unstarted>>
vars == <<at, next, child, timedOut, server, scripts, recording, interrupts>>

Work == UNION {Prompt[t] \cup Late[t] : t \in Test}
T == Order[next]
Done == at = "interrupted" \/ next > Len(Order)

-----------------------------------------------------------------------------
Init ==
  /\ at = "next" /\ next = 1
  /\ alive = [t \in Test |-> {}]
  /\ signal = [t \in Test |-> "none"] /\ status = "none" /\ escalate = FALSE /\ timedOut = FALSE
  /\ sockets = {} /\ pending = {} /\ counted = {} /\ scripts = {}
  /\ units = [t \in {} |-> {}] /\ unstarted = {}
  /\ deaths = 0 /\ interrupts = 0

\* The test ends, recorded or not, and the next one begins (recordMap).
Ends(failed, unit) ==
  /\ at' = "next" /\ next' = next + 1
  /\ units' = IF failed THEN units ELSE [t \in DOMAIN units \cup {T} |-> IF t = T THEN unit ELSE units[t]]

\* session.start: what was counted before is forgotten.
Start ==
  /\ at = "next" /\ next <= Len(Order)
  /\ sockets' = sockets \cup {T} /\ counted' = {}
  /\ at' = "spawn" /\ timedOut' = FALSE
  /\ UNCHANGED <<next, child, pending, deaths, scripts, recording, interrupts>>

\* No server, or one that stops answering once connected.
StartFails ==
  /\ at = "next" /\ next <= Len(Order)
  /\ \E connected \in {{}, {T}} : sockets' = sockets \cup connected
  /\ unstarted' = unstarted \cup {T} /\ Ends(TRUE, {})
  /\ UNCHANGED <<child, timedOut, pending, counted, deaths, scripts, interrupts>>

\* spawnDetached
Spawn ==
  /\ at = "spawn"
  /\ \E h \in Harnesses : alive' = [alive EXCEPT ![T] = h]
  /\ status' = "none" /\ escalate' = FALSE
  /\ at' = "awaiting"
  /\ pending' = pending \cup Prompt[T] \cup Late[T]
  /\ UNCHANGED <<next, signal, timedOut, sockets, counted, deaths, scripts, recording, interrupts>>

SpawnFails ==
  /\ at = "spawn"
  /\ status' = "none"
  /\ at' = "settling"
  /\ UNCHANGED <<next, alive, signal, escalate, timedOut, server, scripts, recording, interrupts>>

-----------------------------------------------------------------------------
(* The harness and the server.                                             *)

Gone(t, p, code) ==
  /\ alive' = [alive EXCEPT ![t] = @ \ {p}]
  /\ status' = IF at = "awaiting" /\ t = T /\ p.is = Child THEN code ELSE status

\* A process comes to its end, whenever that is: the harness passes once the
\* server has answered.
Exits(t, p, code) ==
  /\ p \in alive[t]
  /\ p.is = Child /\ code = "0" => pending \cap Prompt[t] = {}
  /\ Gone(t, p, code)
  /\ UNCHANGED <<at, next, signal, escalate, timedOut, server, scripts, recording, interrupts>>

\* Mutant: the child is signalled and not its group.
KillChild(p) == p.is = Child

\* killProcessGroup: the processes that a signal reaches.
KillGroup(p) == p.grouped

\* A signal takes effect; a process that catches SIGTERM may exit with 0.
Dies(t, p, code) ==
  /\ p \in alive[t] /\ KillGroup(p)
  /\ signal[t] = "kill" \/ (signal[t] = "term" /\ p.obeys)
  /\ signal[t] = "kill" => code = "1"
  /\ Gone(t, p, code)
  /\ UNCHANGED <<at, next, signal, escalate, timedOut, server, scripts, recording, interrupts>>

Works(w) ==
  /\ w \in pending
  /\ pending' = pending \ {w} /\ counted' = counted \cup {w}
  /\ UNCHANGED <<at, next, child, timedOut, sockets, deaths, scripts, recording, interrupts>>

\* The server dies and is started again.
ServerDies ==
  /\ deaths < MaxDeaths /\ deaths' = deaths + 1
  /\ sockets' = {} /\ pending' = {} /\ counted' = {}
  /\ UNCHANGED <<at, next, child, timedOut, scripts, recording, interrupts>>

-----------------------------------------------------------------------------
(* The recorder waits for the harness, with a watchdog.                    *)

\* The watchdog: kill(), SIGTERM now and SIGKILL later.
TimesOut ==
  /\ at = "awaiting" /\ ~timedOut /\ timedOut' = TRUE
  /\ signal' = [signal EXCEPT ![T] = "term"] /\ escalate' = TRUE
  /\ UNCHANGED <<at, next, alive, status, server, scripts, recording, interrupts>>

Escalates ==
  /\ at = "awaiting" /\ escalate
  /\ signal' = [signal EXCEPT ![T] = "kill"] /\ escalate' = FALSE
  /\ UNCHANGED <<at, next, alive, status, timedOut, server, scripts, recording, interrupts>>

\* `close': the child has exited and nobody has its output open.  Both timers go,
\* the SIGKILL that was due with them.
Closed ==
  /\ at = "awaiting" /\ \A p \in alive[T] : p.is # Child /\ ~p.holds
  /\ at' = "settling" /\ escalate' = FALSE
  /\ UNCHANGED <<next, alive, status, signal, timedOut, server, scripts, recording, interrupts>>

\* The wait of settleMs, and session.take.
Take ==
  /\ at = "settling" /\ T \in sockets
  /\ Settles => pending \cap Late[T] = {}
  /\ scripts' = counted
  /\ at' = "taken"
  /\ UNCHANGED <<next, child, timedOut, server, recording, interrupts>>

\* The socket is gone, or the answer does not come in time; the session is closed
\* all the same.  What take throws is thrown, whatever the harness did.
TakeFails ==
  /\ at = "settling"
  /\ sockets' = sockets \ {T}
  /\ Ends(TRUE, {})
  /\ UNCHANGED <<child, timedOut, pending, counted, deaths, scripts, unstarted, interrupts>>

\* session.close; and then a test that did not pass in time is not recorded.
Close ==
  /\ at = "taken"
  /\ sockets' = sockets \ {T}
  /\ Ends(timedOut \/ status # "0", scripts)
  /\ UNCHANGED <<child, timedOut, pending, counted, deaths, scripts, unstarted, interrupts>>

\* forwardSignalsTo: the group of a harness that is waited for is sent SIGTERM, and
\* covsel dies of the signal.
Interrupt ==
  /\ ~Done /\ interrupts < MaxInterrupts
  /\ interrupts' = interrupts + 1
  /\ signal' = IF at = "awaiting" THEN [signal EXCEPT ![T] = "term"] ELSE signal
  /\ at' = "interrupted" /\ escalate' = FALSE
  /\ sockets' = {}
  /\ UNCHANGED <<next, alive, status, timedOut, pending, counted, deaths, scripts, recording>>

-----------------------------------------------------------------------------
Next ==
  \/ Start \/ StartFails \/ Spawn \/ SpawnFails \/ TimesOut \/ Escalates \/ Closed
  \/ Take \/ TakeFails \/ Close \/ Interrupt \/ ServerDies
  \/ \E t \in Test, p \in UNION Harnesses, code \in {"0", "1"} : Exits(t, p, code) \/ Dies(t, p, code)
  \/ \E w \in Work : Works(w)

\* Node's timers fire and its promises settle, a signal arrives, and a server at
\* work gets on with it.  A harness need not end.
Spec ==
  /\ Init /\ [][Next]_vars
  /\ WF_vars(Start \/ Spawn \/ SpawnFails \/ Closed \/ Take \/ TakeFails \/ Close)
  /\ WF_vars(TimesOut) /\ WF_vars(Escalates)
  /\ \A t \in Test, p \in UNION Harnesses : WF_vars(\E code \in {"0", "1"} : Dies(t, p, code))
  /\ \A w \in Work : WF_vars(Works(w))

\* A test is recorded only as one that passed in time, with all the server did for
\* it, late work included when it is waited for.
Recorded(t) ==
  t \in DOMAIN units =>
    Prompt[t] \cup (IF Settles THEN Late[t] ELSE {}) \subseteq units[t]

\* Its session is gone, and of its harness what the recorder waits for, unless it
\* was interrupted: the child, and who has the output open.  Of the group, whoever
\* was sent a signal that ends it is gone too.
Released(t) ==
  /\ t \notin sockets
  /\ \A p \in alive[t] :
       /\ at = "interrupted" \/ (p.is # Child /\ ~p.holds)
       /\ p.grouped => signal[t] = "none" \/ (signal[t] = "term" /\ ~p.obeys)

\* A recording does not wait for ever on a harness that is stuck
\* (per-test-recorder.ts:64-67): whatever the harness and those of earlier tests do,
\* the test ends, recorded whole or failed, with its session closed and the signals it
\* was sent obeyed.  A process of the group that ignores SIGTERM and has closed its
\* output may outlive even a test that timed out: `close' takes the SIGKILL back.
RecordSettles ==
  \A i \in 1 .. Len(Order) :
    LET t == Order[i] IN
      (at = "awaiting" /\ next = i) ~>
        ((next > i \/ at = "interrupted") /\ Recorded(t) /\ Released(t))

\* What does not hold: that no process of the group survives a timeout
\* (spawn-detached.ts:13-16, 36-39).
GroupIsKilled ==
  \A i \in 1 .. Len(Order) :
    LET t == Order[i] IN
      (at = "awaiting" /\ next = i /\ timedOut) ~> (at = "interrupted" \/ ~\E p \in alive[t] : p.grouped)
=============================================================================
