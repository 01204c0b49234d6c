--------------------------- MODULE PerTestProofs ---------------------------
(***************************************************************************)
(* Proofs about PerTest, for any tests, harnesses and number of failures:  *)
(* what is recorded of a test is all that the server did for it, and no    *)
(* session outlives its test but one that failed to start.                 *)
(***************************************************************************)
EXTENDS PerTest, TLAPS

Passed == status = "0" /\ ~timedOut
Recording == {"spawn", "awaiting", "settling", "taken"}

\* The server's work for the test under way is to be done or counted, as long as
\* the session is the one that was started.
WorkIsThere ==
  (at = "awaiting" \/ (at = "settling" /\ Passed)) /\ T \in sockets =>
    Prompt[T] \cup Late[T] \subseteq pending \cup counted

\* A harness that passed in time had all its answers.
PassedIsAnswered ==
  /\ at \in {"awaiting", "settling"} /\ Passed => Prompt[T] \cap pending = {}
  /\ at = "awaiting" /\ (signal[T] # "none" \/ escalate) => timedOut

\* The group of a test that is yet to be run was sent nothing.
NotSignalled ==
  /\ next \in Nat \ {0} /\ (at \in Recording => next <= Len(Order))
  /\ DOMAIN signal = Test
  /\ \A i \in DOMAIN Order : i > next \/ (i = next /\ at \in {"next", "spawn"}) => signal[Order[i]] = "none"

ScriptsAreWhole ==
  at = "taken" /\ Passed => Prompt[T] \cup (IF Settles THEN Late[T] ELSE {}) \subseteq scripts

\* What is recorded of a test is all the server did before the harness passed, and
\* with settleMs what it did later (per-test-recorder.ts:87-101).
RecordedIsWhole == \A t \in DOMAIN units : Recorded(t)

\* A connected session is of the test under way, or of one whose session failed to start.
SessionsAccounted == \A t \in sockets : t \in unstarted \/ (at \in Recording /\ t = T)

IInv == NotSignalled /\ WorkIsThere /\ PassedIsAnswered /\ ScriptsAreWhole /\ RecordedIsWhole /\ SessionsAccounted

-----------------------------------------------------------------------------
\* The invariant holds before the first test.
LEMMA InitIInv == Init => IInv
<1>. SUFFICES ASSUME Init PROVE IInv
  OBVIOUS
<1>1. Len(Order) \in Nat /\ DOMAIN Order = 1 .. Len(Order) /\ \A i \in DOMAIN Order : Order[i] \in Test
  BY PerTestAssumption
<1>2. NotSignalled
  BY <1>1 DEF Init, NotSignalled, Recording
<1>. QED
  BY <1>2 DEF Init, IInv, WorkIsThere, PassedIsAnswered, ScriptsAreWhole, RecordedIsWhole, SessionsAccounted,
              Recording

\* The test under way is one of the tests, and is run once.
LEMMA UnderWay ==
  ASSUME NotSignalled, at \in Recording
  PROVE  /\ next \in DOMAIN Order /\ T \in Test
         /\ \A i \in DOMAIN Order : Order[i] = T => i = next
  BY PerTestAssumption DEF NotSignalled, T

\* A step that signals nobody, and goes on with the test or to its end, keeps NotSignalled.
LEMMA SignalsKept ==
  ASSUME NotSignalled, signal' = signal,
         \/ next' = next /\ (at \in {"next", "spawn"} \/ at' \notin {"next", "spawn"})
         \/ next' = next + 1,
         at' \in Recording => next' = next /\ next <= Len(Order)
  PROVE  NotSignalled'
<1>1. next' \in Nat \ {0}
  BY DEF NotSignalled
<1>2. Len(Order) \in Nat /\ DOMAIN Order = 1 .. Len(Order)
  BY PerTestAssumption
<1>. QED
  BY <1>1, <1>2 DEF NotSignalled

\* A signal to the group of the test under way does as well.
LEMMA SignalKeeps ==
  ASSUME NotSignalled, at = "awaiting", next' = next, at' \in {"awaiting", "interrupted"},
         NEW what, signal' = [signal EXCEPT ![T] = what]
  PROVE  NotSignalled' /\ signal'[T] = what
<1>1. next \in DOMAIN Order /\ T \in Test /\ \A i \in DOMAIN Order : Order[i] = T => i = next
  BY UnderWay DEF Recording
<1>2. Len(Order) \in Nat /\ DOMAIN Order = 1 .. Len(Order) /\ \A i \in DOMAIN Order : Order[i] \in Test
  BY PerTestAssumption
<1>. QED
  BY <1>1, <1>2 DEF NotSignalled, Recording

\* A test that ends leaves its unit, or none.
LEMMA EndsKeeps ==
  ASSUME IInv, NEW failed \in BOOLEAN, NEW unit, Ends(failed, unit), signal' = signal,
         ~failed => Prompt[T] \cup (IF Settles THEN Late[T] ELSE {}) \subseteq unit,
         unstarted \subseteq unstarted', sockets' \subseteq sockets \cup {T},
         T \in sockets' => T \in unstarted'
  PROVE  IInv'
<1>1. at' = "next"
  BY DEF Ends
<1>2. WorkIsThere' /\ PassedIsAnswered' /\ ScriptsAreWhole'
  BY <1>1 DEF WorkIsThere, PassedIsAnswered, ScriptsAreWhole
<1>0. NotSignalled'
  BY <1>1, SignalsKept DEF Ends, IInv, Recording
<1>3. RecordedIsWhole'
  <2>. SUFFICES ASSUME NEW t \in DOMAIN units' PROVE Recorded(t)'
    BY DEF RecordedIsWhole
  <2>1. CASE failed
    BY <2>1 DEF Ends, IInv, RecordedIsWhole, Recorded
  <2>2. CASE ~failed /\ t = T
    BY <2>2 DEF Ends, Recorded
  <2>3. CASE ~failed /\ t # T
    BY <2>3 DEF Ends, IInv, RecordedIsWhole, Recorded
  <2>. QED
    BY <2>1, <2>2, <2>3
<1>4. SessionsAccounted'
  <2>. SUFFICES ASSUME NEW t \in sockets' PROVE t \in unstarted'
    BY DEF SessionsAccounted
  <2>1. CASE t = T
    BY <2>1
  <2>2. CASE t # T
    BY <2>2 DEF IInv, SessionsAccounted
  <2>. QED
    BY <2>1, <2>2
<1>. QED
  BY <1>0, <1>2, <1>3, <1>4 DEF IInv

\* Every step keeps the invariant.
LEMMA NextIInv == IInv /\ [Next]_vars => IInv'
<1>. SUFFICES ASSUME IInv, [Next]_vars PROVE IInv'
  OBVIOUS
<1>. USE DEF child, server, recording, T, Passed
<1>1. CASE Start
  <2>. USE <1>1 DEF Start, IInv
  <2>1. WorkIsThere' /\ PassedIsAnswered' /\ ScriptsAreWhole'
    BY DEF WorkIsThere, PassedIsAnswered, ScriptsAreWhole
  <2>2. RecordedIsWhole'
    BY DEF RecordedIsWhole, Recorded
  <2>3. SessionsAccounted'
    BY DEF SessionsAccounted, Recording
  <2>0. NotSignalled'
    BY SignalsKept DEF NotSignalled, Recording
  <2>. QED
    BY <2>0, <2>1, <2>2, <2>3
<1>2. CASE StartFails
  BY <1>2, EndsKeeps DEF StartFails
<1>3. CASE Spawn
  <2>. USE <1>3 DEF Spawn, IInv
  <2>3. signal[T] = "none"
    BY UnderWay DEF NotSignalled, Recording
  <2>1. WorkIsThere' /\ PassedIsAnswered' /\ ScriptsAreWhole'
    BY <2>3 DEF WorkIsThere, PassedIsAnswered, ScriptsAreWhole
  <2>2. RecordedIsWhole'
    BY DEF RecordedIsWhole, Recorded
  <2>4. SessionsAccounted'
    BY DEF SessionsAccounted, Recording
  <2>0. NotSignalled'
    BY SignalsKept DEF NotSignalled, Recording
  <2>. QED
    BY <2>0, <2>1, <2>2, <2>4
<1>4. CASE SpawnFails
  <2>. USE <1>4 DEF SpawnFails, IInv
  <2>1. WorkIsThere' /\ PassedIsAnswered' /\ ScriptsAreWhole'
    BY DEF WorkIsThere, PassedIsAnswered, ScriptsAreWhole
  <2>2. RecordedIsWhole'
    BY DEF RecordedIsWhole, Recorded
  <2>3. SessionsAccounted'
    BY DEF SessionsAccounted, Recording
  <2>0. NotSignalled'
    BY SignalsKept DEF NotSignalled, Recording
  <2>. QED
    BY <2>0, <2>1, <2>2, <2>3
<1>5. ASSUME NEW t \in Test, NEW p \in UNION Harnesses, NEW code \in {"0", "1"},
             Exits(t, p, code) \/ Dies(t, p, code)
      PROVE  IInv'
  <2>. USE <1>5 DEF Exits, Dies, Gone, IInv
  <2>1. WorkIsThere' /\ ScriptsAreWhole'
    BY DEF WorkIsThere, ScriptsAreWhole, PassedIsAnswered
  <2>2. PassedIsAnswered'
    BY DEF PassedIsAnswered
  <2>3. RecordedIsWhole'
    BY DEF RecordedIsWhole, Recorded
  <2>4. SessionsAccounted'
    BY DEF SessionsAccounted, Recording
  <2>0. NotSignalled'
    BY DEF NotSignalled, Recording
  <2>. QED
    BY <2>0, <2>1, <2>2, <2>3, <2>4
<1>6. ASSUME NEW w \in Work, Works(w) PROVE IInv'
  <2>. USE <1>6 DEF Works, IInv
  <2>1. WorkIsThere' /\ PassedIsAnswered' /\ ScriptsAreWhole'
    BY DEF WorkIsThere, PassedIsAnswered, ScriptsAreWhole
  <2>2. RecordedIsWhole'
    BY DEF RecordedIsWhole, Recorded
  <2>3. SessionsAccounted'
    BY DEF SessionsAccounted, Recording
  <2>0. NotSignalled'
    BY DEF NotSignalled, Recording
  <2>. QED
    BY <2>0, <2>1, <2>2, <2>3
<1>7. CASE ServerDies
  <2>. USE <1>7 DEF ServerDies, IInv
  <2>1. WorkIsThere' /\ PassedIsAnswered' /\ ScriptsAreWhole'
    BY DEF WorkIsThere, PassedIsAnswered, ScriptsAreWhole
  <2>2. RecordedIsWhole' /\ SessionsAccounted'
    BY DEF RecordedIsWhole, Recorded, SessionsAccounted
  <2>0. NotSignalled'
    BY DEF NotSignalled, Recording
  <2>. QED
    BY <2>0, <2>1, <2>2
<1>8. CASE TimesOut \/ Escalates
  <2>. USE <1>8 DEF TimesOut, Escalates, IInv
  <2>0. NotSignalled'
    BY SignalKeeps
  <2>1. WorkIsThere' /\ PassedIsAnswered' /\ ScriptsAreWhole'
    BY DEF WorkIsThere, PassedIsAnswered, ScriptsAreWhole
  <2>2. RecordedIsWhole'
    BY DEF RecordedIsWhole, Recorded
  <2>3. SessionsAccounted'
    BY DEF SessionsAccounted, Recording
  <2>. QED
    BY <2>0, <2>1, <2>2, <2>3
<1>14. CASE Closed
  <2>. USE <1>14 DEF Closed, IInv
  <2>0. NotSignalled'
    BY DEF NotSignalled, Recording
  <2>1. WorkIsThere' /\ PassedIsAnswered' /\ ScriptsAreWhole'
    BY DEF WorkIsThere, PassedIsAnswered, ScriptsAreWhole
  <2>2. RecordedIsWhole'
    BY DEF RecordedIsWhole, Recorded
  <2>3. SessionsAccounted'
    BY DEF SessionsAccounted, Recording
  <2>. QED
    BY <2>0, <2>1, <2>2, <2>3
<1>9. CASE Take
  <2>. USE <1>9 DEF Take, IInv
  <2>1. WorkIsThere' /\ PassedIsAnswered'
    BY DEF WorkIsThere, PassedIsAnswered
  <2>2. ScriptsAreWhole'
    BY DEF WorkIsThere, PassedIsAnswered, ScriptsAreWhole
  <2>3. RecordedIsWhole'
    BY DEF RecordedIsWhole, Recorded
  <2>4. SessionsAccounted'
    BY DEF SessionsAccounted, Recording
  <2>0. NotSignalled'
    BY DEF NotSignalled, Recording
  <2>. QED
    BY <2>0, <2>1, <2>2, <2>3, <2>4
<1>10. CASE TakeFails
  BY <1>10, EndsKeeps DEF TakeFails
<1>11. CASE Close
  <2>1. ~(timedOut \/ status # "0") => Prompt[T] \cup (IF Settles THEN Late[T] ELSE {}) \subseteq scripts
    BY <1>11 DEF Close, IInv, ScriptsAreWhole
  <2>. QED
    BY <1>11, <2>1, EndsKeeps DEF Close
<1>12. CASE Interrupt
  <2>. USE <1>12 DEF Interrupt, IInv
  <2>0. NotSignalled'
    <3>1. CASE at = "awaiting"
      BY <3>1, SignalKeeps
    <3>2. CASE at # "awaiting"
      BY <3>2, SignalsKept DEF Recording
    <3>. QED
      BY <3>1, <3>2
  <2>1. WorkIsThere' /\ PassedIsAnswered' /\ ScriptsAreWhole'
    BY DEF WorkIsThere, PassedIsAnswered, ScriptsAreWhole
  <2>2. RecordedIsWhole' /\ SessionsAccounted'
    BY DEF RecordedIsWhole, Recorded, SessionsAccounted
  <2>. QED
    BY <2>0, <2>1, <2>2
<1>13. CASE UNCHANGED vars
  BY <1>13 DEF vars, IInv, NotSignalled, WorkIsThere, PassedIsAnswered, ScriptsAreWhole, RecordedIsWhole, Recorded,
               SessionsAccounted, Recording
<1>. QED
  BY <1>1, <1>2, <1>3, <1>4, <1>5, <1>6, <1>7, <1>8, <1>9, <1>10, <1>11, <1>12, <1>13, <1>14 DEF Next

\* The invariant holds in every reachable state.
THEOREM Invariance == Spec => []IInv
  BY InitIInv, NextIInv, PTL DEF Spec

\* For every harness and server, with any failures, a recorded test passed in time
\* and its unit holds all the work the server did for it.
THEOREM RecordsAreWhole == Spec => []RecordedIsWhole
<1>1. IInv => RecordedIsWhole
  BY DEF IInv
<1>. QED
  BY Invariance, <1>1, PTL

\* A session that is still connected is of the test under way, or of one whose session
\* failed to start: whether a test passes, times out or cannot be read, the finally of
\* recordOneTest closes its session (per-test-recorder.ts:96-99).
THEOREM SessionsAreClosed == Spec => []SessionsAccounted
<1>1. IInv => SessionsAccounted
  BY DEF IInv
<1>. QED
  BY Invariance, <1>1, PTL
=============================================================================
