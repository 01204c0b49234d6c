--------------------------- MODULE BoundaryProofs ---------------------------
(* What the boundary server guarantees for every harness, every set of      *)
(* tests and any number of windows: proofs about module BoundaryServer.     *)
EXTENDS BoundaryServer, TLAPS

\* The phases of a window, and of one that is being opened or is open.
Phase == {"starting", "open", "settling", "taken", "mapping", "skipping",
          "closing", "dangling", "closed", "recorded"}
Busy(at) == at \in {"starting", "open"}

WindowRecord == [id : Test, outcome : Outcome \cup {NoTest}, ran : SUBSET Test,
                 executed : BOOLEAN, at : Phase]

\* TypeOK in three parts: the harness, the windows, the rest.
HarnessType ==
  /\ waits \in BOOLEAN
  /\ client \in [at : {"idle", "begin", "test", "end", "stop"}, id : Test \cup {NoTest}]
  /\ harness \in {"running", "killed", "passed", "failed"}
  /\ reading \subseteq [id : Test, outcome : Outcome \cup {NoTest}]
WindowType ==
  /\ win \in Seq(WindowRecord)
  /\ slot \in {None} \cup Window
  /\ main \in [at : {"waiting", "closing", "done"}, holds : {None} \cup Window]
FlagType ==
  /\ errors \in BOOLEAN /\ precise \in BOOLEAN /\ counts \subseteq Test
  /\ ok \in BOOLEAN

\* A window whose coverage is being mapped or is recorded was reported ended, and
\* a recorded one did not fail.
Reported ==
  \A w \in Window :
    /\ win[w].at \in {"taken", "settling", "mapping"} => win[w].outcome \in Outcome
    /\ win[w].at = "skipping" => win[w].outcome = "skipped"
    /\ win[w].at = "recorded" => win[w].outcome \in {"passed", "skipped"}

\* What the slot names has not been reported ended.
SlotLive == slot # None => win[slot].at \in {"starting", "open", "closing", "closed"}

\* The inductive invariant: types, what a recorded window was reported as, what
\* the slot may name, and that while the harness runs it is the one busy window.
IInv == HarnessType /\ WindowType /\ FlagType /\ Reported /\ SlotLive /\ OneWindow

\* The parts say what TypeOK says.
LEMMA TypeParts == HarnessType /\ WindowType /\ FlagType /\ Reported => TypeOK
  BY DEF TypeOK, HarnessType, WindowType, FlagType, Reported, WindowRecord, Phase, Units, Window

\* recordRun starts in a state of the invariant.
LEMMA InitIInv == Init => IInv
<1> SUFFICES ASSUME Init PROVE IInv
  OBVIOUS
<1>1. win \in Seq(WindowRecord) /\ Window = {}
  BY DEF Init, Window
<1>2. HarnessType
  BY BoundaryAssumption DEF Init, HarnessType
<1>3. WindowType
  BY <1>1 DEF Init, WindowType
<1>4. FlagType
  BY DEF Init, FlagType
<1>5. Reported /\ SlotLive /\ OneWindow
  BY <1>1 DEF Init, Reported, SlotLive, OneWindow
<1> QED
  BY <1>2, <1>3, <1>4, <1>5 DEF IInv

\* Moving one window to another phase changes no other window and no length.
LEMMA AtMoves ==
  ASSUME win \in Seq(WindowRecord), NEW w \in Window, NEW at \in Phase, At(w, at)
  PROVE  /\ win' \in Seq(WindowRecord)
         /\ Window' = Window
         /\ win'[w] = [win[w] EXCEPT !.at = at]
         /\ \A v \in Window : v # w => win'[v] = win[v]
<1>1. win[w] \in WindowRecord
  BY DEF Window
<1>2. [win[w] EXCEPT !.at = at] \in WindowRecord
  BY <1>1 DEF WindowRecord
<1>3. win' = [win EXCEPT ![w] = [win[w] EXCEPT !.at = at]]
  BY DEF At
<1> QED
  BY <1>2, <1>3 DEF Window

\* A response leaves the client well typed.
LEMMA RespondType ==
  ASSUME HarnessType, NEW accepted \in BOOLEAN, Respond(accepted)
  PROVE  client' \in [at : {"idle", "begin", "test", "end", "stop"}, id : Test \cup {NoTest}]
  BY DEF HarnessType, Respond

\* Steps that leave windows, slot and recordRun alone keep what is said of them.
LEMMA Unmoved ==
  ASSUME IInv, UNCHANGED <<win, slot, main>>
  PROVE  WindowType' /\ Reported' /\ SlotLive' /\ OneWindow'
  BY DEF IInv, WindowType, Reported, SlotLive, OneWindow, Window

\* A window that moves on keeps the slot the one busy window, if the slot is
\* emptied when the window in it stops being busy and set when one becomes busy.
LEMMA MoveKeeps ==
  ASSUME IInv, NEW w \in Window, NEW at \in Phase, At(w, at),
         slot' \in {None, slot}, slot' = w => at \in {"starting", "open", "closing", "closed"},
         main'.at = "waiting" => main.at = "waiting",
         main' \in [at : {"waiting", "closing", "done"}, holds : {None} \cup Window],
         at \in {"taken", "settling", "mapping"} => win[w].outcome \in Outcome,
         at = "skipping" => win[w].outcome = "skipped",
         at = "recorded" => win[w].outcome \in {"passed", "skipped"},
         main.at = "waiting" =>
           IF Busy(at) THEN Busy(win[w].at) /\ slot' = slot
           ELSE IF Busy(win[w].at) THEN slot' = None ELSE slot' = slot
  PROVE  WindowType' /\ Reported' /\ SlotLive' /\ OneWindow'
<1>0. win \in Seq(WindowRecord) /\ slot \in {None} \cup Window /\ win[w] \in WindowRecord
  BY DEF IInv, WindowType, Window
<1>1. /\ win' \in Seq(WindowRecord) /\ Window' = Window
      /\ win'[w] = [win[w] EXCEPT !.at = at]
      /\ \A v \in Window : v # w => win'[v] = win[v]
  BY <1>0, AtMoves
<1>2. win'[w].at = at /\ win'[w].outcome = win[w].outcome
  BY <1>0, <1>1 DEF WindowRecord
<1>3. WindowType'
  BY <1>0, <1>1 DEF WindowType
<1>4. Reported'
  BY <1>1, <1>2 DEF IInv, Reported
<1>6. SlotLive'
  BY <1>0, <1>1, <1>2 DEF IInv, SlotLive
<1>5. OneWindow'
  <2> SUFFICES ASSUME main'.at = "waiting"
               PROVE  {v \in Window' : win'[v].at \in {"starting", "open"}} = {slot'} \ {None}
    BY DEF OneWindow
  <2>1. main.at = "waiting" /\ {v \in Window : Busy(win[v].at)} = {slot} \ {None}
    BY DEF IInv, OneWindow, Busy
  <2>2. \A v \in Window : Busy(win'[v].at) <=> IF v = w THEN Busy(at) ELSE Busy(win[v].at)
    BY <1>1, <1>2
  <2>3. {v \in Window : Busy(win'[v].at)} = {slot'} \ {None}
    <3>1. CASE Busy(at)
      BY <2>1, <2>2, <3>1
    <3>2. CASE ~Busy(at) /\ Busy(win[w].at)
      BY <2>1, <2>2, <3>2
    <3>3. CASE ~Busy(at) /\ ~Busy(win[w].at)
      BY <2>1, <2>2, <3>3
    <3> QED
      BY <3>1, <3>2, <3>3
  <2> QED
    BY <1>1, <2>3 DEF Busy
<1> QED
  BY <1>3, <1>4, <1>5, <1>6

\* A stuttering step keeps the invariant.
LEMMA Stutter ==
  ASSUME IInv, UNCHANGED vars
  PROVE  IInv'
<1>1. HarnessType' /\ FlagType' /\ UNCHANGED <<win, slot, main>>
  BY DEF IInv, vars, clientVars, v8Vars, HarnessType, FlagType
<1> QED
  BY <1>1, Unmoved DEF IInv

-----------------------------------------------------------------------------
\* The harness posts, runs its test or exits.
LEMMA HarnessKeeps ==
  ASSUME IInv, \/ \E id \in Test : PostBegin(id) \/ Execute(id)
                                   \/ \E o \in Outcome : PostEnd(id, o)
               \/ Exit
  PROVE  IInv'
<1>1. ASSUME NEW id \in Test, PostBegin(id) PROVE IInv'
  <2>1. HarnessType' /\ FlagType' /\ UNCHANGED <<win, slot, main>>
    BY <1>1 DEF IInv, PostBegin, Post, HarnessType, FlagType, v8Vars
  <2> QED
    BY <2>1, Unmoved DEF IInv
<1>2. ASSUME NEW id \in Test, NEW o \in Outcome, PostEnd(id, o) PROVE IInv'
  <2>1. HarnessType' /\ FlagType' /\ UNCHANGED <<win, slot, main>>
    BY <1>2 DEF IInv, PostEnd, Post, HarnessType, FlagType, v8Vars
  <2> QED
    BY <2>1, Unmoved DEF IInv
<1>3. ASSUME NEW id \in Test, Execute(id) PROVE IInv'
  <2>1. win \in Seq(WindowRecord) /\ UNCHANGED <<slot, main>>
    BY <1>3 DEF IInv, WindowType, Execute
  <2>2. \A w \in Window : win[w] \in WindowRecord
                          /\ [win[w] EXCEPT !.executed = TRUE] \in WindowRecord
    <3> SUFFICES ASSUME NEW w \in Window
                 PROVE  win[w] \in WindowRecord /\ [win[w] EXCEPT !.executed = TRUE] \in WindowRecord
      OBVIOUS
    <3>1. win[w] \in WindowRecord
      BY <2>1 DEF Window
    <3> QED
      BY <3>1 DEF WindowRecord
  <2>3. win' \in Seq(WindowRecord) /\ Window' = Window
    BY <1>3, <2>1, <2>2 DEF Execute, Window
  <2>4. \A w \in Window : win'[w].at = win[w].at /\ win'[w].outcome = win[w].outcome
    <3> SUFFICES ASSUME NEW w \in Window
                 PROVE  win'[w].at = win[w].at /\ win'[w].outcome = win[w].outcome
      OBVIOUS
    <3>1. win'[w] \in {win[w], [win[w] EXCEPT !.executed = TRUE]}
      BY <1>3 DEF Execute
    <3> QED
      BY <2>2, <3>1 DEF WindowRecord
  <2>5. WindowType' /\ Reported' /\ SlotLive' /\ OneWindow'
    BY <2>1, <2>3, <2>4 DEF IInv, WindowType, Reported, SlotLive, OneWindow
  <2>6. HarnessType' /\ FlagType'
    BY <1>3 DEF IInv, Execute, HarnessType, FlagType, clientVars
  <2> QED
    BY <2>5, <2>6 DEF IInv
<1>4. ASSUME Exit PROVE IInv'
  <2>1. HarnessType' /\ FlagType' /\ UNCHANGED <<win, slot, main>>
    BY <1>4 DEF IInv, Exit, HarnessType, FlagType, v8Vars
  <2> QED
    BY <2>1, Unmoved DEF IInv
<1> QED
  BY <1>1, <1>2, <1>3, <1>4

-----------------------------------------------------------------------------
\* Requests: refused, or a window reserved, or the open one ended.
LEMMA HandleKeeps ==
  ASSUME IInv, NEW r \in Request, Handle(r)
  PROVE  IInv'
<1>0. /\ win \in Seq(WindowRecord) /\ slot \in {None} \cup Window
      /\ r.id \in Test /\ r.outcome \in Outcome \cup {NoTest}
  BY DEF IInv, WindowType, Request
<1>1. CASE BodyFails(r)
  <2>1. HarnessType' /\ FlagType' /\ UNCHANGED <<win, slot, main>>
    BY <1>1, RespondType DEF IInv, BodyFails, Refuse, HarnessType, FlagType, v8Vars
  <2> QED
    BY <2>1, Unmoved DEF IInv
<1>2. CASE HandleBegin(r)
  <2>1. CASE slot # None
    <3>1. HarnessType' /\ FlagType' /\ UNCHANGED <<win, slot, main>>
      BY <1>2, <2>1, RespondType DEF IInv, HandleBegin, Refuse, HarnessType, FlagType, v8Vars
    <3> QED
      BY <3>1, Unmoved DEF IInv
  <2>2. CASE slot = None
    <3> DEFINE new == [id |-> r.id, outcome |-> NoTest, ran |-> {},
                       executed |-> FALSE, at |-> "starting"]
    <3>1. win' = Append(win, new) /\ slot' = Len(win) + 1 /\ main' = main
      BY <1>2, <2>2 DEF HandleBegin
    <3>2. new \in WindowRecord
      BY <1>0 DEF WindowRecord, Phase
    <3>3. /\ win' \in Seq(WindowRecord) /\ Window' = Window \cup {slot'}
          /\ slot' \notin Window /\ slot' # None
          /\ win'[slot'] = new /\ \A w \in Window : win'[w] = win[w]
      BY <1>0, <3>1, <3>2 DEF Window, None
    <3>4. WindowType'
      BY <3>1, <3>3 DEF IInv, WindowType
    <3>5. Reported'
      BY <3>3 DEF IInv, Reported
    <3>6. SlotLive'
      BY <3>3 DEF SlotLive
    <3>8. OneWindow'
      <4> SUFFICES ASSUME main'.at = "waiting"
                   PROVE  {v \in Window' : win'[v].at \in {"starting", "open"}} = {slot'} \ {None}
        BY DEF OneWindow
      <4>1. \A v \in Window : win[v].at \notin {"starting", "open"}
        BY <2>2, <3>1 DEF IInv, OneWindow
      <4>2. new.at = "starting"
        OBVIOUS
      <4> HIDE DEF new
      <4>3. \A v \in Window' : win'[v].at \in {"starting", "open"} <=> v = slot'
        BY <3>3, <4>1, <4>2
      <4> QED
        BY <3>3, <4>3
    <3>7. HarnessType' /\ FlagType'
      BY <1>2, <2>2 DEF IInv, HandleBegin, HarnessType, FlagType, v8Vars
    <3> QED
      BY <3>4, <3>5, <3>6, <3>7, <3>8 DEF IInv
  <2> QED
    BY <2>1, <2>2
<1>3. CASE HandleEnd(r)
  <2>1. CASE UNCHANGED <<win, slot>>
    <3>1. HarnessType' /\ FlagType' /\ UNCHANGED <<win, slot, main>>
      BY <1>3, <2>1, RespondType DEF IInv, HandleEnd, Refuse, HarnessType, FlagType, v8Vars
    <3> QED
      BY <3>1, Unmoved DEF IInv
  <2>2. CASE ~UNCHANGED <<win, slot>>
    <3>1. /\ slot # None /\ win[slot].at # "starting" /\ slot' = None /\ main' = main
          /\ win' = [win EXCEPT ![slot].outcome = r.outcome, ![slot].at = Ended(r)]
          /\ r.outcome # NoTest
      BY <1>3, <2>2 DEF HandleEnd
    <3>2. slot \in Window /\ r.outcome \in Outcome /\ win[slot] \in WindowRecord
      BY <1>0, <3>1 DEF Window
    <3>3. win[slot].at \in {"open", "closing", "closed"}
      BY <3>1 DEF IInv, SlotLive
    <3>4. /\ Ended(r) \in {"skipping", "settling", "closing", "closed"}
          /\ Ended(r) = "skipping" => r.outcome = "skipped"
      BY <3>3 DEF Ended
    <3> DEFINE ended == [win[slot] EXCEPT !.outcome = r.outcome, !.at = Ended(r)]
    <3>5. ended \in WindowRecord /\ ended.at = Ended(r) /\ ended.outcome = r.outcome
      BY <3>2, <3>4 DEF WindowRecord, Phase
    <3>6. win' = [win EXCEPT ![slot] = ended]
      BY <3>1, <3>2, <1>0 DEF Window, WindowRecord
    <3> HIDE DEF ended
    <3>7. /\ win' \in Seq(WindowRecord) /\ Window' = Window
          /\ win'[slot] = ended /\ \A w \in Window : w # slot => win'[w] = win[w]
      BY <1>0, <3>2, <3>5, <3>6 DEF Window
    <3>8. WindowType' /\ SlotLive'
      BY <3>1, <3>7 DEF IInv, WindowType, SlotLive
    <3>9. Reported'
      BY <3>2, <3>4, <3>5, <3>7 DEF IInv, Reported
    <3>10. OneWindow'
      <4> SUFFICES ASSUME main.at = "waiting"
                   PROVE  {v \in Window' : win'[v].at \in {"starting", "open"}} = {}
        BY <3>1 DEF OneWindow
      <4>1. \A v \in Window : win[v].at \in {"starting", "open"} => v = slot
        BY DEF IInv, OneWindow
      <4> QED
        BY <3>4, <3>5, <3>7, <4>1
    <3>11. HarnessType' /\ FlagType'
      BY <1>3, <2>2 DEF IInv, HandleEnd, HarnessType, FlagType, v8Vars
    <3> QED
      BY <3>8, <3>9, <3>10, <3>11 DEF IInv
  <2> QED
    BY <2>1, <2>2
<1> QED
  BY <1>1, <1>2, <1>3 DEF Handle

-----------------------------------------------------------------------------
\* A window moves on, or its watchdog fires.
LEMMA ProceedKeeps ==
  ASSUME IInv, NEW w \in Window, Proceed(w) \/ Watchdog(w)
  PROVE  IInv'
<1>0. /\ win[w].outcome \in Outcome \cup {NoTest} /\ win[w].ran \subseteq Test
      /\ slot \in {None} \cup Window /\ w # None
      /\ main.at = "waiting" => (Busy(win[w].at) <=> slot = w)
      /\ main \in [at : {"waiting", "closing", "done"}, holds : {None} \cup Window]
  <2>1. win[w] \in WindowRecord /\ slot \in {None} \cup Window /\ w # None
    BY DEF IInv, WindowType, Window, None
  <2>2. main.at = "waiting" => (Busy(win[w].at) <=> slot = w)
    BY <2>1 DEF IInv, OneWindow, Busy
  <2> QED
    BY <2>1, <2>2 DEF IInv, WindowType, WindowRecord
<1>1. CASE Started(w)
  <2>1. HarnessType' /\ FlagType' /\ UNCHANGED <<slot, main>> /\ win[w].at = "starting"
    BY <1>1, RespondType DEF IInv, Started, HarnessType, FlagType
  <2>2. CASE slot = w
    <3>1. At(w, "open")
      BY <1>1, <2>2 DEF Started
    <3>2. WindowType' /\ Reported' /\ SlotLive' /\ OneWindow'
      BY <1>0, <2>1, <2>2, <3>1, MoveKeeps DEF Phase, Busy, IInv
    <3> QED
      BY <2>1, <3>2 DEF IInv
  <2>3. CASE slot # w
    <3>1. At(w, "closing")
      BY <1>1, <2>3 DEF Started
    <3>2. WindowType' /\ Reported' /\ SlotLive' /\ OneWindow'
      BY <1>0, <2>1, <2>3, <3>1, MoveKeeps DEF Phase, Busy, IInv
    <3> QED
      BY <2>1, <3>2 DEF IInv
  <2> QED
    BY <2>2, <2>3
<1>2. CASE StartFails(w)
  <2>1. HarnessType' /\ FlagType' /\ win[w].at = "starting" /\ main' = main
    BY <1>2, RespondType DEF IInv, StartFails, Refuse, HarnessType, FlagType, v8Vars
  <2>2. PICK at \in {"closed", "dangling"} : At(w, at)
    BY <1>2 DEF StartFails
  <2>3. slot' = IF slot = w THEN None ELSE slot
    BY <1>2 DEF StartFails
  <2>4. WindowType' /\ Reported' /\ SlotLive' /\ OneWindow'
    BY <1>0, <2>1, <2>2, <2>3, MoveKeeps DEF Phase, Busy
  <2> QED
    BY <2>1, <2>4 DEF IInv
<1>3. CASE Watchdog(w)
  <2>1. HarnessType' /\ FlagType' /\ win[w].at = "open" /\ main' = main /\ slot' = None
    BY <1>3 DEF IInv, Watchdog, HarnessType, FlagType, v8Vars
  <2>2. WindowType' /\ Reported' /\ SlotLive' /\ OneWindow'
    BY <1>0, <1>3, <2>1, MoveKeeps DEF Phase, Busy, Watchdog
  <2> QED
    BY <2>1, <2>2 DEF IInv
<1>4. CASE Take(w)
  <2>1. HarnessType' /\ FlagType' /\ win[w].at = "settling" /\ UNCHANGED <<slot, main>>
    BY <1>4 DEF IInv, Take, HarnessType, FlagType, clientVars
  <2>2. win \in Seq(WindowRecord) /\ win[w] \in WindowRecord /\ counts \subseteq Test
    BY DEF IInv, WindowType, FlagType, Window
  <2> DEFINE taken == [win[w] EXCEPT !.at = "taken", !.ran = counts]
  <2>3. /\ taken \in WindowRecord /\ taken.at = "taken"
        /\ taken.outcome = win[w].outcome
    BY <2>2 DEF WindowRecord, Phase
  <2>4. win' = [win EXCEPT ![w] = taken]
    BY <1>4, <2>2 DEF Take, Window, WindowRecord
  <2> HIDE DEF taken
  <2>5. /\ win' \in Seq(WindowRecord) /\ Window' = Window
        /\ win'[w] = taken /\ \A v \in Window : v # w => win'[v] = win[v]
    BY <2>2, <2>3, <2>4 DEF Window
  <2>6. WindowType'
    BY <2>1, <2>5 DEF IInv, WindowType
  <2>7. Reported'
    BY <2>1, <2>3, <2>5 DEF IInv, Reported
  <2>8. SlotLive'
    BY <1>0, <2>1, <2>5 DEF IInv, SlotLive
  <2>9. OneWindow'
    <3>1. \A v \in Window : win'[v].at \in {"starting", "open"} <=> win[v].at \in {"starting", "open"}
      BY <2>1, <2>3, <2>5
    <3> QED
      BY <2>1, <2>5, <3>1 DEF IInv, OneWindow
  <2> QED
    BY <2>1, <2>6, <2>7, <2>8, <2>9 DEF IInv
<1>5. CASE TakeFails(w)
  <2>1. HarnessType' /\ FlagType' /\ win[w].at = "settling" /\ UNCHANGED <<slot, main>>
    BY <1>5, RespondType DEF IInv, TakeFails, Refuse, HarnessType, FlagType, v8Vars
  <2>2. WindowType' /\ Reported' /\ SlotLive' /\ OneWindow'
    BY <1>0, <1>5, <2>1, MoveKeeps DEF Phase, Busy, TakeFails
  <2> QED
    BY <2>1, <2>2 DEF IInv
<1>6. CASE Close(w)
  <2>1. HarnessType' /\ FlagType' /\ UNCHANGED <<slot, main>>
    BY <1>6, RespondType DEF IInv, Close, HarnessType, FlagType
  <2> DEFINE next == CASE win[w].at = "taken" -> "mapping"
                       [] win[w].at = "skipping" -> "recorded"
                       [] OTHER -> "closed"
  <2>2. /\ win[w].at \in {"taken", "skipping", "closing"} /\ At(w, next)
        /\ next \in Phase /\ ~Busy(next) /\ ~Busy(win[w].at)
    BY <1>6 DEF Close, Phase, Busy
  <2>3. /\ next = "mapping" => win[w].outcome \in Outcome
        /\ next = "recorded" => win[w].outcome = "skipped"
        /\ next \in {"mapping", "recorded", "closed"}
        /\ next # "closed" => slot # w
    BY <1>0, <2>2 DEF IInv, Reported, SlotLive
  <2> HIDE DEF next
  <2>4. WindowType' /\ Reported' /\ SlotLive' /\ OneWindow'
    BY <1>0, <2>1, <2>2, <2>3, MoveKeeps
  <2> QED
    BY <2>1, <2>4 DEF IInv
<1>7. CASE MapCoverage(w)
  <2>1. HarnessType' /\ FlagType' /\ win[w].at = "mapping" /\ UNCHANGED <<slot, main>>
    BY <1>7, RespondType DEF IInv, MapCoverage, HarnessType, FlagType, v8Vars
  <2> DEFINE next == IF win[w].outcome = "failed" THEN "closed" ELSE "recorded"
  <2>2. At(w, next) /\ next \in Phase /\ ~Busy(next) /\ ~Busy(win[w].at)
    BY <1>7, <2>1 DEF MapCoverage, Phase, Busy
  <2>3. /\ next = "recorded" => win[w].outcome \in {"passed", "skipped"}
        /\ next \in {"recorded", "closed"} /\ slot # w
    BY <1>0, <2>1, BoundaryAssumption DEF IInv, Reported, SlotLive
  <2> HIDE DEF next
  <2>4. WindowType' /\ Reported' /\ SlotLive' /\ OneWindow'
    BY <1>0, <2>1, <2>2, <2>3, MoveKeeps
  <2> QED
    BY <2>1, <2>4 DEF IInv
<1>8. CASE MapFails(w)
  <2>1. HarnessType' /\ FlagType' /\ win[w].at = "mapping" /\ UNCHANGED <<slot, main>>
    BY <1>8, RespondType DEF IInv, MapFails, Refuse, HarnessType, FlagType, v8Vars
  <2>2. WindowType' /\ Reported' /\ SlotLive' /\ OneWindow'
    BY <1>0, <1>8, <2>1, MoveKeeps DEF Phase, Busy, MapFails
  <2> QED
    BY <2>1, <2>2 DEF IInv
<1> QED
  BY <1>1, <1>2, <1>3, <1>4, <1>5, <1>6, <1>7, <1>8 DEF Proceed

-----------------------------------------------------------------------------
\* recordRun sees the harness gone, closes what is open, and returns.
LEMMA MainKeeps ==
  ASSUME IInv, ExitSeen \/ Return \/ Done
  PROVE  IInv'
<1>0. win \in Seq(WindowRecord) /\ slot \in {None} \cup Window
  BY DEF IInv, WindowType
<1>1. CASE ExitSeen
  <2>1. HarnessType' /\ FlagType'
    BY <1>1 DEF IInv, ExitSeen, HarnessType, FlagType, clientVars, v8Vars
  <2>2. CASE slot # None /\ win[slot].at = "open"
    <3>1. At(slot, "closing") /\ slot' = slot /\ main' = [at |-> "closing", holds |-> slot]
      BY <1>1, <2>2 DEF ExitSeen, Finally
    <3>2. slot \in Window
      BY <1>0, <2>2
    <3>3. WindowType' /\ Reported' /\ SlotLive' /\ OneWindow'
      <4>1. "closing" \in Phase /\ ~Busy("closing") /\ main'.at # "waiting"
        BY <3>1 DEF Phase, Busy
      <4>2. /\ win' \in Seq(WindowRecord) /\ Window' = Window
            /\ win'[slot] = [win[slot] EXCEPT !.at = "closing"]
            /\ \A v \in Window : v # slot => win'[v] = win[v]
        BY <1>0, <3>1, <3>2, <4>1, AtMoves
      <4>3. win'[slot].at = "closing"
        BY <1>0, <3>2, <4>2 DEF WindowRecord, Window
      <4>4. WindowType' /\ SlotLive' /\ OneWindow'
        BY <3>1, <3>2, <4>1, <4>2, <4>3 DEF WindowType, SlotLive, OneWindow
      <4>5. Reported'
        BY <4>2, <4>3 DEF IInv, Reported
      <4> QED
        BY <4>4, <4>5
    <3> QED
      BY <2>1, <3>3 DEF IInv
  <2>3. CASE ~(slot # None /\ win[slot].at = "open")
    <3>1. slot' = None /\ main' = [at |-> "done", holds |-> None] /\ win' = win
      BY <1>1, <2>3 DEF ExitSeen, Finally
    <3>2. WindowType' /\ Reported' /\ SlotLive' /\ OneWindow'
      BY <1>0, <3>1 DEF IInv, WindowType, Reported, SlotLive, OneWindow, Window
    <3> QED
      BY <2>1, <3>2 DEF IInv
  <2> QED
    BY <2>2, <2>3
<1>2. CASE Return
  <2>1. HarnessType' /\ FlagType'
    BY <1>2 DEF IInv, Return, HarnessType, FlagType, clientVars, v8Vars
  <2>2. slot' = None /\ main' = [at |-> "done", holds |-> None] /\ win' = win
    BY <1>2 DEF Return
  <2>3. WindowType' /\ Reported' /\ SlotLive' /\ OneWindow'
    BY <1>0, <2>2 DEF IInv, WindowType, Reported, SlotLive, OneWindow, Window
  <2> QED
    BY <2>1, <2>3 DEF IInv
<1>3. CASE Done
  BY <1>3, Stutter DEF Done
<1> QED
  BY <1>1, <1>2, <1>3

\* Every step keeps the invariant.
LEMMA StepKeeps == IInv /\ [Next]_vars => IInv'
<1> SUFFICES ASSUME IInv, [Next]_vars PROVE IInv'
  OBVIOUS
<1>1. CASE UNCHANGED vars
  BY <1>1, Stutter
<1>2. CASE Next
  BY <1>2, HarnessKeeps, HandleKeeps, ProceedKeeps, MainKeeps DEF Next
<1> QED
  BY <1>1, <1>2

-----------------------------------------------------------------------------
\* The inductive invariant holds in every reachable state.
THEOREM Invariance == Spec => []IInv
BY InitIInv, StepKeeps, PTL DEF Spec

\* Harness, windows, slot and recordRun keep to their types, and a recorded
\* window was reported as passed or skipped.
THEOREM TypeCorrect == Spec => []TypeOK
<1>1. IInv => TypeOK
  BY TypeParts DEF IInv
<1> QED
  BY <1>1, Invariance, PTL

\* Whatever requests arrive together, from whatever harness, the one window that
\* is being opened or is open is the one in the slot.
THEOREM OneWindowAtATime == Spec => []OneWindow
<1>1. IInv => OneWindow
  BY DEF IInv
<1> QED
  BY <1>1, Invariance, PTL

-----------------------------------------------------------------------------
(* What a harness that waits for its responses gets: the unit of a test is   *)
(* what the application ran for it, and an accepted run has a unit for every *)
(* test it reported.                                                         *)

Last == Len(win)
Final == {"closed", "recorded"}

\* What the application ran for the test of a window.
Ran(w) == IF win[w].executed THEN {win[w].id} ELSE {}

\* A harness that waits is at one window at a time: the last.
OthersFinal ==
  /\ \A w \in Window : w # Last => win[w].at \in Final
  /\ slot \in {None, Last}

\* Where such a harness is, the requests that are read and the last window agree.
Idle == reading = {} /\ \A w \in Window : win[w].at \in Final

Beginning ==
  \/ reading = {[id |-> client.id, outcome |-> NoTest]} /\ \A w \in Window : win[w].at \in Final
  \/ reading = {} /\ Last \in Window /\ win[Last].at = "starting" /\ win[Last].id = client.id

Testing ==
  /\ reading = {} /\ Last \in Window /\ win[Last].id = client.id
  /\ win[Last].at \in {"open", "closing", "closed"} /\ win[Last].outcome = NoTest

Ending ==
  /\ Last \in Window
  /\ \/ /\ \E o \in Outcome : reading = {[id |-> client.id, outcome |-> o]}
        /\ win[Last].at \in {"open", "closing", "closed"}
     \/ /\ reading = {}
        /\ win[Last].at \in {"settling", "taken", "mapping", "skipping", "closing", "closed"}

Stopped ==
  /\ reading = {} /\ errors
  /\ \A w \in Window : win[w].at \in Final \cup {"open", "closing", "dangling"}

Turn ==
  /\ client.at = "idle" => Idle
  /\ client.at = "begin" => Beginning
  /\ client.at = "test" => Testing
  /\ client.at = "end" => Ending
  /\ client.at = "stop" => Stopped

\* The one V8 counts for the window that is open or about to be taken.
Exact ==
  \A w \in Window :
    /\ win[w].at = "starting" => win[w].outcome = NoTest /\ ~win[w].executed
    /\ win[w].at \in {"open", "settling"} => precise /\ counts = Ran(w)
    /\ win[w].at \in {"taken", "mapping"} => win[w].ran = Ran(w)
    /\ win[w].at = "recorded" /\ win[w].outcome = "passed" => win[w].ran = Ran(w)

\* A window that leaves no unit is of a failed test, or there was an error.
Blame ==
  \A w \in Window :
    /\ win[w].at \in {"closing", "dangling"} => errors
    /\ win[w].at = "closed" => errors \/ win[w].outcome = "failed"
    /\ win[w].at = "closed" /\ slot = w => errors
    /\ win[w].at \in {"starting", "open"} => slot = w \/ errors

\* recordRun waits as long as the harness lives; a harness that passed waits for
\* nothing; and a run that was accepted has ended well.
Accepted ==
  /\ harness \in Alive => main.at = "waiting"
  /\ main.at = "closing" => errors
  /\ harness = "passed" => client.at \notin {"begin", "end"}
  /\ ok => /\ harness = "passed" /\ client.at = "idle"
           /\ \A w \in Window : win[w].at = "closed" => win[w].outcome = "failed"

WInv == waits => OthersFinal /\ Turn /\ Exact /\ Blame /\ Accepted

-----------------------------------------------------------------------------
\* recordRun starts in a state of the invariant.
LEMMA InitWInv == Init => WInv
  BY DEF Init, WInv, Window, OthersFinal, Turn, Idle, Exact, Blame, Accepted

\* A window that moves to another phase keeps the rest of its record, and every
\* other window stays as it is.
LEMMA AtFields ==
  ASSUME IInv, NEW w \in Window, NEW at \in Phase, At(w, at)
  PROVE  /\ Window' = Window /\ Last' = Last /\ Last \in Window
         /\ win'[w].at = at /\ win'[w].id = win[w].id /\ win'[w].outcome = win[w].outcome
         /\ win'[w].ran = win[w].ran /\ Ran(w)' = Ran(w)
         /\ \A v \in Window : v # w => win'[v] = win[v]
<1>1. win \in Seq(WindowRecord) /\ win[w] \in WindowRecord
  BY DEF IInv, WindowType, Window
<1>2. Window' = Window /\ win'[w] = [win[w] EXCEPT !.at = at]
      /\ \A v \in Window : v # w => win'[v] = win[v]
  BY <1>1, AtMoves
<1>3. Last' = Last /\ Last \in Window
  BY <1>1 DEF At, Window, Last
<1>4. /\ win'[w].at = at /\ win'[w].id = win[w].id /\ win'[w].outcome = win[w].outcome
      /\ win'[w].ran = win[w].ran /\ win'[w].executed = win[w].executed
  BY <1>1, <1>2 DEF WindowRecord
<1> QED
  BY <1>2, <1>3, <1>4 DEF Ran

\* Steps that leave the windows, the requests, the V8 and recordRun alone.
LEMMA Quiet ==
  ASSUME WInv, UNCHANGED vars
  PROVE  WInv'
  BY DEF WInv, vars, clientVars, v8Vars, Window, Last, Ran, OthersFinal, Turn, Idle, Beginning,
         Testing, Ending, Stopped, Exact, Blame, Accepted

-----------------------------------------------------------------------------
\* A harness that waits posts, or exits.
LEMMA PostsKeep ==
  ASSUME IInv, WInv, waits,
         \/ \E id \in Test : PostBegin(id) \/ \E o \in Outcome : PostEnd(id, o)
         \/ Exit
  PROVE  WInv'
<1>1. UNCHANGED <<win, slot, errors, main, ok, precise, counts, waits>>
  BY DEF PostBegin, PostEnd, Post, Exit, v8Vars
<1>2. Window' = Window /\ Last' = Last /\ \A w \in Window : Ran(w)' = Ran(w)
  BY <1>1 DEF Window, Last, Ran
<1>3. OthersFinal' /\ Exact' /\ Blame'
  BY <1>1, <1>2 DEF WInv, OthersFinal, Exact, Blame
<1>4. ASSUME NEW id \in Test, PostBegin(id) PROVE Turn' /\ Accepted'
  <2>1. /\ client.at = "idle" /\ client' = [at |-> "begin", id |-> id] /\ harness \in Alive
        /\ reading' = reading \cup {[id |-> id, outcome |-> NoTest]} /\ harness' = harness
    BY <1>4 DEF PostBegin, Post
  <2>2. Beginning'
    BY <1>1, <1>2, <2>1 DEF WInv, Turn, Idle, Beginning
  <2> QED
    BY <1>1, <1>2, <2>1, <2>2 DEF WInv, Turn, Accepted, Alive
<1>5. ASSUME NEW id \in Test, NEW o \in Outcome, PostEnd(id, o) PROVE Turn' /\ Accepted'
  <2>1. /\ client = [at |-> "test", id |-> id] /\ client' = [at |-> "end", id |-> id]
        /\ harness \in Alive
        /\ reading' = reading \cup {[id |-> id, outcome |-> o]} /\ harness' = harness
    BY <1>5 DEF PostEnd, Post
  <2>2. Ending'
    BY <1>1, <1>2, <2>1 DEF WInv, Turn, Testing, Ending
  <2> QED
    BY <1>1, <1>2, <2>1, <2>2 DEF WInv, Turn, Accepted, Alive
<1>6. ASSUME Exit PROVE Turn' /\ Accepted'
  <2>1. UNCHANGED <<client, reading>> /\ harness \in Alive /\ harness' \in {"failed", "passed"}
        /\ (harness' = "passed" => client.at \notin {"begin", "end"})
    BY <1>6 DEF Exit
  <2>2. Turn'
    BY <1>1, <1>2, <2>1 DEF WInv, Turn, Idle, Beginning, Testing, Ending, Stopped
  <2>3. Accepted'
    BY <1>1, <1>2, <2>1 DEF WInv, Accepted, Alive
  <2> QED
    BY <2>2, <2>3
<1> QED
  BY <1>1, <1>3, <1>4, <1>5, <1>6 DEF WInv

\* What the application runs for a test is counted for its window.
LEMMA ExecuteKeeps ==
  ASSUME IInv, WInv, waits, NEW id \in Test, Execute(id)
  PROVE  WInv'
<1>1. UNCHANGED <<client, reading, slot, errors, main, ok, precise, waits, harness>>
  BY DEF Execute, clientVars
<1>2. /\ Last \in Window /\ client.at = "test" /\ client.id = id /\ win[Last].id = id
      /\ harness \in Alive /\ main.at = "waiting"
  BY DEF WInv, Turn, Testing, Execute, Accepted
<1>3. win[Last].at = "open" => slot = Last /\ slot # None
  BY <1>2 DEF IInv, OneWindow
<1>4. \A w \in Window : win[w] \in WindowRecord
  BY DEF IInv, WindowType, Window
<1>5. Window' = Window /\ Last' = Last
  BY DEF Execute, Window, Last, IInv, WindowType
<1>6. \A w \in Window :
        /\ win'[w].at = win[w].at /\ win'[w].id = win[w].id
        /\ win'[w].outcome = win[w].outcome /\ win'[w].ran = win[w].ran
        /\ win'[w].executed = (win[w].executed \/ (w = slot /\ win[w].id = id))
  <2> SUFFICES ASSUME NEW w \in Window
               PROVE  /\ win'[w].at = win[w].at /\ win'[w].id = win[w].id
                      /\ win'[w].outcome = win[w].outcome /\ win'[w].ran = win[w].ran
                      /\ win'[w].executed = (win[w].executed \/ (w = slot /\ win[w].id = id))
    OBVIOUS
  <2>1. win'[w] = IF w = slot /\ win[w].id = id THEN [win[w] EXCEPT !.executed = TRUE] ELSE win[w]
    BY DEF Execute
  <2> QED
    BY <1>4, <2>1 DEF WindowRecord
<1>7. OthersFinal' /\ Turn' /\ Blame' /\ Accepted'
  BY <1>1, <1>5, <1>6 DEF WInv, OthersFinal, Turn, Idle, Beginning, Testing, Ending, Stopped, Blame, Accepted
<1>8. Exact'
  <2> SUFFICES ASSUME NEW w \in Window
               PROVE  /\ win'[w].at = "starting" => win'[w].outcome = NoTest /\ ~win'[w].executed
                      /\ win'[w].at \in {"open", "settling"} => precise' /\ counts' = Ran(w)'
                      /\ win'[w].at \in {"taken", "mapping"} => win'[w].ran = Ran(w)'
                      /\ win'[w].at = "recorded" /\ win'[w].outcome = "passed" => win'[w].ran = Ran(w)'
    BY <1>5 DEF Exact
  <2>1. win[w].at # "open" => win[w].at \in Final \cup {"closing"}
    BY <1>2 DEF WInv, OthersFinal, Turn, Testing, Final
  <2>2. CASE win[w].at = "open"
    <3>1. w = Last /\ w = slot /\ precise /\ counts = Ran(w)
      BY <1>3, <2>2 DEF WInv, OthersFinal, Final, Exact
    <3>2. counts' = counts \cup {id} /\ Ran(w)' = {id}
      BY <1>2, <1>6, <3>1 DEF Execute, Ran
    <3> QED
      BY <1>1, <1>2, <1>6, <2>2, <3>1, <3>2 DEF Ran
  <2>3. CASE win[w].at # "open" /\ w # slot
    <3>1. Ran(w)' = Ran(w)
      BY <1>6, <2>3 DEF Ran
    <3> QED
      BY <1>6, <2>1, <2>3, <3>1 DEF WInv, Exact, Final
  <2>4. CASE win[w].at # "open" /\ w = slot
    <3>1. FALSE
      BY <1>2, <2>1, <2>4 DEF IInv, OneWindow, Final, WindowType, Window, None
    <3> QED
      BY <3>1
  <2> QED
    BY <2>2, <2>3, <2>4
<1> QED
  BY <1>1, <1>7, <1>8 DEF WInv

-----------------------------------------------------------------------------
\* A request is refused, or reserves a window, or ends the open one.
LEMMA RequestsKeep ==
  ASSUME IInv, WInv, waits, NEW r \in Request, Handle(r)
  PROVE  WInv'
<1>0. UNCHANGED <<waits, harness, main, ok, precise, counts>> /\ r \in reading
  BY DEF Handle, BodyFails, HandleBegin, HandleEnd, v8Vars
<1>1. client.at \in {"begin", "end"} /\ reading = {r} /\ reading' = {}
  BY DEF IInv, HarnessType, WInv, Turn, Idle, Beginning, Testing, Ending, Stopped, Handle, BodyFails, HandleBegin, HandleEnd
<1>2. ASSUME UNCHANGED <<win, slot>>, Refuse PROVE WInv'
  <2>1. /\ client' = [client EXCEPT !.at = "stop"] /\ errors'
        /\ Window' = Window /\ Last' = Last /\ \A w \in Window : Ran(w)' = Ran(w)
    BY <1>2 DEF Refuse, Respond, Window, Last, Ran
  <2>2. client'.at = "stop"
    BY <2>1 DEF IInv, HarnessType
  <2>3. OthersFinal' /\ Exact' /\ Blame'
    BY <1>0, <1>2, <2>1 DEF WInv, OthersFinal, Exact, Blame
  <2>4. Turn'
    <3>1. \A w \in Window : win[w].at \in Final \cup {"open", "closing"}
      BY <1>1 DEF WInv, OthersFinal, Turn, Beginning, Ending, Final
    <3> QED
      BY <1>1, <1>2, <2>1, <2>2, <3>1 DEF Turn, Stopped
  <2>5. Accepted'
    BY <1>0, <1>1, <1>2, <2>1, <2>2 DEF WInv, Accepted
  <2> QED
    BY <1>0, <2>3, <2>4, <2>5 DEF WInv
<1>3. CASE BodyFails(r)
  BY <1>2, <1>3 DEF BodyFails
<1>4. ASSUME HandleBegin(r) PROVE WInv'
  <2>1. CASE slot # None
    BY <1>2, <1>4, <2>1 DEF HandleBegin
  <2>2. CASE slot = None
    <3> DEFINE new == [id |-> r.id, outcome |-> NoTest, ran |-> {},
                       executed |-> FALSE, at |-> "starting"]
    <3>1. /\ win' = Append(win, new) /\ slot' = Len(win) + 1
          /\ UNCHANGED <<client, errors>> /\ r.outcome = NoTest
      BY <1>4, <2>2 DEF HandleBegin
    <3>2. win \in Seq(WindowRecord)
      BY DEF IInv, WindowType
    <3>3. /\ Window' = Window \cup {Last'} /\ Last' \notin Window /\ slot' = Last'
          /\ win'[Last'] = new /\ \A w \in Window : win'[w] = win[w]
      BY <3>1, <3>2 DEF Window, Last
    <3>4. new.at = "starting" /\ new.id = r.id /\ new.outcome = NoTest /\ ~new.executed
      OBVIOUS
    <3> HIDE DEF new
    <3>5. client.at = "begin" /\ r.id = client.id /\ \A w \in Window : win[w].at \in Final
      <4>1. client.at = "end" => r.outcome # NoTest
        BY <1>1, BoundaryAssumption DEF WInv, Turn, Ending, NoTest
      <4>2. client.at = "begin"
        BY <1>1, <3>1, <4>1
      <4> QED
        BY <1>1, <4>2 DEF WInv, Turn, Beginning
    <3>6. OthersFinal'
      BY <3>3, <3>5 DEF OthersFinal
    <3>7. Turn'
      BY <1>1, <3>1, <3>3, <3>4, <3>5 DEF Turn, Beginning
    <3>8. Exact'
      BY <1>0, <3>3, <3>4, <3>5 DEF WInv, Exact, Final, Ran
    <3>9. Blame'
      <4>1. ASSUME NEW w \in Window
            PROVE  /\ w # slot' /\ win'[w].at \in Final
                   /\ win'[w].at = "closed" => errors' \/ win'[w].outcome = "failed"
        BY <3>1, <3>3, <3>5 DEF WInv, Blame
      <4>2. win'[slot'].at = "starting" /\ Window' = Window \cup {slot'}
        BY <3>3, <3>4
      <4> QED
        BY <4>1, <4>2 DEF Blame, Final
    <3>10. Accepted'
      BY <1>0, <3>1, <3>5 DEF WInv, Accepted
    <3> QED
      BY <1>0, <3>6, <3>7, <3>8, <3>9, <3>10 DEF WInv
  <2> QED
    BY <2>1, <2>2
<1>5. ASSUME HandleEnd(r) PROVE WInv'
  <2>1. CASE UNCHANGED <<win, slot>>
    <3>1. Refuse
      BY <1>5, <2>1, <1>1 DEF HandleEnd
    <3> QED
      BY <1>2, <2>1, <3>1
  <2>2. CASE ~UNCHANGED <<win, slot>>
    <3>1. /\ slot # None /\ win[slot].at # "starting" /\ slot' = None
          /\ win[slot].id = r.id /\ UNCHANGED <<client, errors>>
          /\ win' = [win EXCEPT ![slot].outcome = r.outcome, ![slot].at = Ended(r)]
          /\ r.outcome # NoTest
      BY <1>5, <2>2 DEF HandleEnd
    <3>2. /\ slot \in Window /\ win[slot] \in WindowRecord /\ win \in Seq(WindowRecord)
          /\ r.outcome \in Outcome
      BY <3>1 DEF IInv, WindowType, Window, Request
    <3>3. win[slot].at \in {"open", "closing", "closed"}
      BY <3>1 DEF IInv, SlotLive
    <3>4. /\ win[slot].at = "open" => Ended(r) \in {"skipping", "settling"}
          /\ win[slot].at # "open" => Ended(r) = win[slot].at
      BY DEF Ended
    <3>5. /\ Window' = Window /\ Last' = Last
          /\ win'[slot].at = Ended(r) /\ win'[slot].id = win[slot].id
          /\ win'[slot].outcome = r.outcome
          /\ win'[slot].ran = win[slot].ran /\ win'[slot].executed = win[slot].executed
          /\ \A w \in Window : w # slot => win'[w] = win[w]
      BY <3>1, <3>2 DEF Window, Last, WindowRecord
    <3>6. client.at = "end" /\ Last \in Window
      BY <1>1, <3>1 DEF WInv, Turn, Beginning, Ending
    <3>7. main.at = "waiting" => win[slot].at = "open"
      BY <3>1, <3>2, <3>3 DEF IInv, OneWindow
    <3>8. OthersFinal'
      BY <3>1, <3>3, <3>4, <3>5 DEF WInv, OthersFinal, Final
    <3>9. Turn'
      BY <1>1, <3>1, <3>3, <3>4, <3>5, <3>6 DEF WInv, OthersFinal, Turn, Ending, Final
    <3>10. Exact'
      BY <1>0, <3>3, <3>4, <3>5 DEF WInv, Exact, Ran
    <3>11. Blame'
      <4>1. \A w \in Window : w # slot'
        BY <3>1 DEF Window, None
      <4>2. win[slot].at \in {"closing", "closed"} => errors
        BY <3>2 DEF WInv, Blame
      <4> QED
        BY <3>1, <3>2, <3>3, <3>4, <3>5, <4>1, <4>2 DEF WInv, Blame
    <3>12. Accepted'
      BY <1>0, <3>1, <3>6 DEF WInv, Accepted
    <3> QED
      BY <1>0, <3>8, <3>9, <3>10, <3>11, <3>12 DEF WInv
  <2> QED
    BY <2>1, <2>2
<1> QED
  BY <1>3, <1>4, <1>5 DEF Handle

-----------------------------------------------------------------------------
\* A window moves on, or its watchdog fires.
LEMMA WindowsKeep ==
  ASSUME IInv, WInv, waits, NEW w \in Window, Proceed(w) \/ Watchdog(w)
  PROVE  WInv'
<1>0. /\ win \in Seq(WindowRecord) /\ win[w] \in WindowRecord /\ w # None
      /\ slot \in {None, Last}
  BY DEF IInv, WindowType, Window, None, WInv, OthersFinal
<1>9. UNCHANGED <<waits, reading, main, ok>>
  BY DEF Proceed, Started, StartFails, Take, TakeFails, Close, MapCoverage, MapFails, Watchdog, v8Vars, clientVars
<1>1. win[w].at \notin Final
  BY DEF Proceed, Started, StartFails, Take, TakeFails, Close, MapCoverage, MapFails, Watchdog, Final
<1>2. w = Last /\ ~ok
  BY <1>1 DEF WInv, OthersFinal, Turn, Idle, Accepted
<1>3. \A v \in Window : v # w => win[v].at \in Final
  BY <1>2 DEF WInv, OthersFinal
<1>4. ASSUME NEW at \in Phase, At(w, at), slot' \in {None, slot},
             at \in {"open", "settling"} => precise' /\ counts' = Ran(w),
             at = "mapping" => win[w].ran = Ran(w),
             at = "recorded" /\ win[w].outcome = "passed" => win[w].ran = Ran(w),
             at \in {"closing", "dangling"} => errors', errors => errors',
             at = "closed" => errors' \/ (win[w].outcome = "failed" /\ slot' # w),
             at = "open" => slot' = w, at \notin {"starting", "taken"}
      PROVE  OthersFinal' /\ Exact' /\ Blame'
  <2>1. /\ Window' = Window /\ Last' = Last
        /\ win'[w].at = at /\ win'[w].outcome = win[w].outcome
        /\ win'[w].ran = win[w].ran /\ Ran(w)' = Ran(w)
        /\ \A v \in Window : v # w => win'[v] = win[v]
    BY <1>4, AtFields
  <2>2. OthersFinal'
    BY <1>0, <1>2, <1>3, <1>4, <2>1 DEF OthersFinal
  <2>3. Exact'
    BY <1>3, <1>4, <2>1 DEF WInv, Exact, Final, Ran
  <2>4. Blame'
    <3>1. \A v \in Window : v # w => v # slot'
      BY <1>0, <1>2, <1>4 DEF Window, None
    <3> QED
      BY <1>3, <1>4, <2>1, <3>1 DEF WInv, Blame, Final
  <2> QED
    BY <2>2, <2>3, <2>4
<1>5. CASE Started(w)
  <2>1. /\ win[w].at = "starting" /\ precise' /\ counts' = {} /\ UNCHANGED <<slot, errors, harness>>
    BY <1>5 DEF Started
  <2>2. client.at = "begin" /\ reading = {} /\ win[w].id = client.id
    BY <1>2, <2>1 DEF IInv, HarnessType, WInv, Turn, Idle, Beginning, Testing, Ending, Stopped, Final
  <2>3. win[w].outcome = NoTest /\ ~win[w].executed
    BY <2>1 DEF WInv, Exact
  <2>4. CASE slot = w
    <3>1. At(w, "open") /\ client' = [client EXCEPT !.at = "test"]
      BY <1>5, <2>2, <2>4 DEF Started, Respond
    <3>2. client'.at = "test" /\ client'.id = client.id
      BY <3>1 DEF IInv, HarnessType
    <3>3. OthersFinal' /\ Exact' /\ Blame'
      BY <1>4, <2>1, <2>3, <2>4, <3>1 DEF Phase, Ran
    <3>4. Turn'
      <4>1. /\ Last' = Last /\ Window' = Window /\ win'[w].at = "open"
            /\ win'[w].id = win[w].id /\ win'[w].outcome = NoTest
        BY <2>3, <3>1, AtFields DEF Phase
      <4> QED
        BY <1>2, <1>9, <2>2, <3>2, <4>1 DEF Turn, Testing
    <3> QED
      BY <1>2, <1>9, <2>1, <3>2, <3>3, <3>4 DEF WInv, Accepted
  <2>5. CASE slot # w
    <3>1. At(w, "closing") /\ client' = [client EXCEPT !.at = "stop"] /\ errors
      BY <1>5, <2>1, <2>5 DEF Started, Respond, WInv, Blame
    <3>2. client'.at = "stop"
      BY <3>1 DEF IInv, HarnessType
    <3>3. OthersFinal' /\ Exact' /\ Blame'
      BY <1>4, <2>1, <3>1 DEF Phase
    <3>4. Turn'
      <4>1. /\ Window' = Window /\ win'[w].at = "closing" /\ \A v \in Window : v # w => win'[v] = win[v]
        BY <3>1, AtFields DEF Phase
      <4> QED
        BY <1>3, <1>9, <2>1, <2>2, <3>1, <3>2, <4>1 DEF Turn, Stopped
    <3> QED
      BY <1>2, <1>9, <2>1, <3>2, <3>3, <3>4 DEF WInv, Accepted
  <2> QED
    BY <2>4, <2>5
<1>6. ASSUME NEW at \in {"closed", "dangling", "closing"}, At(w, at), Refuse,
             slot' \in {None, slot}, reading = {}, UNCHANGED <<harness, precise, counts>>
      PROVE  WInv'
  <2>1. client' = [client EXCEPT !.at = "stop"] /\ errors'
    BY <1>6 DEF Refuse, Respond
  <2>2. client'.at = "stop"
    BY <2>1 DEF IInv, HarnessType
  <2>3. OthersFinal' /\ Exact' /\ Blame'
    BY <1>4, <1>6, <2>1 DEF Phase
  <2>4. Turn'
    <3>1. /\ Window' = Window /\ win'[w].at = at /\ \A v \in Window : v # w => win'[v] = win[v]
      BY <1>6, AtFields DEF Phase
    <3> QED
      BY <1>3, <1>6, <1>9, <2>1, <2>2, <3>1 DEF Turn, Stopped, Final
  <2> QED
    BY <1>2, <1>6, <1>9, <2>1, <2>2, <2>3, <2>4 DEF WInv, Accepted
<1>7. win[w].at \in {"starting", "settling", "taken", "mapping", "skipping"} => reading = {}
  BY <1>2 DEF IInv, HarnessType, WInv, Turn, Idle, Beginning, Testing, Ending, Stopped, Final
<1>8. win[w].at \in {"settling", "taken", "mapping", "skipping"} => client.at = "end" /\ slot # w
  BY <1>0, <1>2 DEF IInv, HarnessType, SlotLive, WInv, Turn, Idle, Beginning, Testing, Ending, Stopped, Final
<1>10. CASE StartFails(w)
  <2>1. PICK at \in {"closed", "dangling"} : At(w, at)
    BY <1>10 DEF StartFails
  <2> QED
    BY <1>6, <1>7, <1>10, <2>1 DEF StartFails, v8Vars
<1>11. CASE TakeFails(w)
  BY <1>6, <1>7, <1>11 DEF TakeFails, v8Vars
<1>12. CASE MapFails(w)
  BY <1>6, <1>7, <1>12 DEF MapFails, v8Vars
<1>13. ASSUME NEW at \in {"closing", "closed"}, At(w, at), errors', slot' \in {None, slot},
              win[w].at \in {"open", "closing"}, client' = client,
              harness' \in Alive => harness \in Alive, harness' = "passed" => harness = "passed"
       PROVE  WInv'
  <2>1. OthersFinal' /\ Exact' /\ Blame'
    BY <1>4, <1>13 DEF Phase
  <2>2. Turn'
    <3>1. /\ Last' = Last /\ Window' = Window /\ win'[w].at = at
          /\ win'[w].id = win[w].id /\ win'[w].outcome = win[w].outcome
          /\ \A v \in Window : v # w => win'[v] = win[v]
      BY <1>13, AtFields DEF Phase
    <3>2. client.at \in {"test", "end", "stop"}
      BY <1>2, <1>13 DEF IInv, HarnessType, WInv, Turn, Idle, Beginning, Final
    <3> QED
      BY <1>2, <1>3, <1>9, <1>13, <3>1, <3>2 DEF WInv, Turn, Testing, Ending, Stopped, Final
  <2>3. Accepted'
    BY <1>2, <1>9, <1>13 DEF WInv, Accepted
  <2> QED
    BY <1>9, <2>1, <2>2, <2>3 DEF WInv
<1>14. CASE Watchdog(w)
  BY <1>13, <1>14 DEF Watchdog, Alive, clientVars
<1>15. CASE Take(w)
  <2>1. /\ win[w].at = "settling" /\ counts' = {} /\ counts = Ran(w)
        /\ UNCHANGED <<client, harness, slot, errors>>
    BY <1>15 DEF Take, clientVars, WInv, Exact
  <2>2. /\ Window' = Window /\ Last' = Last /\ win'[w].at = "taken" /\ win'[w].ran = Ran(w)
        /\ win'[w].id = win[w].id /\ Ran(w)' = Ran(w)
        /\ \A v \in Window : v # w => win'[v] = win[v]
    <3> DEFINE rec == [win[w] EXCEPT !.at = "taken", !.ran = counts]
    <3>1. /\ rec.at = "taken" /\ rec.ran = counts /\ rec.id = win[w].id
          /\ rec.executed = win[w].executed
      BY <1>0 DEF WindowRecord
    <3>2. win' = [win EXCEPT ![w] = rec]
      BY <1>0, <1>15 DEF Take, Window, WindowRecord
    <3> HIDE DEF rec
    <3>3. Len(win') = Len(win) /\ win'[w] = rec /\ \A v \in Window : v # w => win'[v] = win[v]
      BY <1>0, <3>2 DEF Window
    <3>4. Ran(w)' = Ran(w)
      BY <3>1, <3>3 DEF Ran
    <3> QED
      BY <2>1, <3>1, <3>3, <3>4 DEF Window, Last
  <2>3. OthersFinal'
    BY <1>0, <1>3, <2>1, <2>2, <1>2 DEF OthersFinal
  <2>4. Turn'
    BY <1>2, <1>7, <1>8, <1>9, <2>1, <2>2 DEF Turn, Ending
  <2>5. Exact'
    BY <1>3, <2>2 DEF WInv, Exact, Final, Ran
  <2>6. Blame'
    BY <2>1, <2>2, <1>3 DEF WInv, Blame, Final
  <2> QED
    BY <1>2, <1>9, <2>1, <2>3, <2>4, <2>5, <2>6 DEF WInv, Accepted
<1>16. ASSUME NEW at \in Final, At(w, at), Respond(TRUE), client.at = "end", reading = {},
              slot # w, UNCHANGED <<slot, errors, harness>>,
              at = "closed" => win[w].outcome = "failed",
              at = "recorded" /\ win[w].outcome = "passed" => win[w].ran = Ran(w)
       PROVE  WInv'
  <2>1. client'.at = "idle"
    BY <1>16 DEF Respond
  <2>2. OthersFinal' /\ Exact' /\ Blame'
    BY <1>4, <1>16 DEF Phase, Final
  <2>3. Turn'
    <3>1. /\ Window' = Window /\ win'[w].at = at /\ \A v \in Window : v # w => win'[v] = win[v]
      BY <1>16, AtFields DEF Phase, Final
    <3> QED
      BY <1>3, <1>9, <1>16, <2>1, <3>1 DEF Turn, Idle
  <2> QED
    BY <1>2, <1>9, <1>16, <2>1, <2>2, <2>3 DEF WInv, Accepted
<1>17. CASE MapCoverage(w)
  <2>1. win[w].at = "mapping" /\ win[w].ran = Ran(w) /\ Respond(TRUE) /\ UNCHANGED <<slot, errors, harness>>
    BY <1>17 DEF MapCoverage, WInv, Exact
  <2>2. CASE win[w].outcome = "failed"
    BY <1>7, <1>8, <1>16, <1>17, <2>1, <2>2 DEF MapCoverage, Final
  <2>3. CASE win[w].outcome # "failed"
    BY <1>7, <1>8, <1>16, <1>17, <2>1, <2>3 DEF MapCoverage, Final
  <2> QED
    BY <2>2, <2>3
<1>18. CASE Close(w)
  <2>1. UNCHANGED <<slot, errors, harness>>
    BY <1>18 DEF Close
  <2>2. CASE win[w].at = "skipping"
    <3>1. At(w, "recorded") /\ Respond(TRUE) /\ win[w].outcome = "skipped"
      BY <1>18, <2>2 DEF Close, IInv, Reported
    <3> QED
      BY <1>7, <1>8, <1>16, <2>1, <2>2, <3>1 DEF Final
  <2>3. CASE win[w].at = "closing"
    <3>1. At(w, "closed") /\ client' = client /\ errors
      BY <1>18, <2>3 DEF Close, WInv, Blame
    <3> QED
      BY <1>13, <2>1, <2>3, <3>1
  <2>4. CASE win[w].at = "taken"
    <3>1. At(w, "mapping") /\ client' = client /\ win[w].ran = Ran(w)
      BY <1>18, <2>4 DEF Close, WInv, Exact
    <3>2. OthersFinal' /\ Exact' /\ Blame'
      BY <1>4, <2>1, <3>1 DEF Phase
    <3>3. /\ Window' = Window /\ Last' = Last /\ win'[w].at = "mapping" /\ win'[w].id = win[w].id
      BY <3>1, AtFields DEF Phase
    <3>4. Turn'
      BY <1>2, <1>7, <1>8, <1>9, <2>4, <3>1, <3>3 DEF Turn, Ending
    <3> QED
      BY <1>2, <1>9, <2>1, <3>1, <3>2, <3>4 DEF WInv, Accepted
  <2> QED
    BY <1>18, <2>2, <2>3, <2>4 DEF Close
<1> QED
  BY <1>5, <1>10, <1>11, <1>12, <1>14, <1>15, <1>17, <1>18 DEF Proceed

-----------------------------------------------------------------------------
\* recordRun sees the harness gone, closes what is open, and returns.
LEMMA ReturnsKeep ==
  ASSUME IInv, WInv, waits, ExitSeen \/ Return \/ Done
  PROVE  WInv'
<1>0. /\ win \in Seq(WindowRecord) /\ slot \in {None, Last} /\ slot \in {None} \cup Window
      /\ None \notin Window
  BY DEF IInv, WindowType, Window, None, WInv, OthersFinal
<1>1. CASE ExitSeen
  <2>1. /\ UNCHANGED <<waits, client, harness, reading, precise, counts>> /\ main'.at # "waiting"
        /\ harness \in {"passed", "failed"} /\ errors' = (errors \/ slot # None)
        /\ ok' = (~errors' /\ harness = "passed") /\ harness \notin Alive
    BY <1>1 DEF ExitSeen, Finally, clientVars, v8Vars, Alive
  <2>2. CASE slot # None /\ win[slot].at = "open"
    <3>1. At(slot, "closing") /\ slot' = slot /\ errors' /\ ~ok'
      BY <1>1, <2>1, <2>2 DEF ExitSeen, Finally
    <3>2. slot \in Window /\ slot = Last
      BY <1>0, <2>2
    <3>3. /\ Window' = Window /\ Last' = Last /\ win'[slot].at = "closing"
          /\ win'[slot].id = win[slot].id /\ win'[slot].outcome = win[slot].outcome
          /\ \A v \in Window : v # slot => win'[v] = win[v]
      BY <3>1, <3>2, AtFields DEF Phase
    <3>4. \A v \in Window : v # slot => win[v].at \in Final
      BY <3>2 DEF WInv, OthersFinal
    <3>5. OthersFinal' /\ Exact' /\ Blame'
      BY <2>1, <3>1, <3>2, <3>3, <3>4 DEF WInv, OthersFinal, Exact, Blame, Final, Ran
    <3>6. Turn'
      <4>1. client.at \in {"test", "end", "stop"}
        BY <2>2, <3>2 DEF IInv, HarnessType, WInv, Turn, Idle, Beginning, Final
      <4> QED
        BY <2>1, <2>2, <3>1, <3>2, <3>3, <3>4, <4>1 DEF WInv, Turn, Testing, Ending, Stopped, Final
    <3> QED
      BY <2>1, <3>1, <3>5, <3>6 DEF WInv, Accepted
  <2>3. CASE ~(slot # None /\ win[slot].at = "open")
    <3>0. slot' = None /\ main' = [at |-> "done", holds |-> None] /\ win' = win
      BY <1>1, <2>3 DEF ExitSeen, Finally
    <3>1. /\ slot' = None /\ win' = win /\ main'.at = "done" /\ Window' = Window /\ Last' = Last
          /\ \A w \in Window : Ran(w)' = Ran(w)
      BY <3>0 DEF Window, Last, Ran
    <3>2. OthersFinal' /\ Exact'
      BY <2>1, <3>1 DEF WInv, OthersFinal, Exact
    <3>3. Blame'
      BY <1>0, <2>1, <3>1 DEF WInv, Blame
    <3>4. Turn'
      BY <2>1, <3>1 DEF WInv, Turn, Idle, Beginning, Testing, Ending, Stopped
    <3>5. ok' => client.at = "idle"
      <4>1. SUFFICES ASSUME ok', client.at # "idle" PROVE FALSE
        OBVIOUS
      <4>2. harness = "passed" /\ ~errors /\ slot = None /\ client.at = "test"
        BY <2>1, <4>1 DEF IInv, HarnessType, WInv, Accepted, Turn, Stopped
      <4>3. Last \in Window /\ win[Last].at \in {"open", "closing", "closed"} /\ win[Last].outcome = NoTest
        BY <4>2 DEF WInv, Turn, Testing
      <4> QED
        BY <1>0, <4>2, <4>3 DEF WInv, Blame, NoTest
    <3>6. Accepted'
      BY <2>1, <3>1, <3>5 DEF WInv, Accepted, Blame
    <3> QED
      BY <2>1, <3>2, <3>3, <3>4, <3>6 DEF WInv
  <2> QED
    BY <2>2, <2>3
<1>2. CASE Return
  <2>1. /\ slot' = None /\ win' = win /\ Window' = Window /\ Last' = Last /\ main'.at # "waiting"
        /\ \A w \in Window : Ran(w)' = Ran(w)
        /\ UNCHANGED <<waits, client, harness, reading, errors, ok, precise, counts>>
        /\ main.at = "closing" /\ errors /\ main'.at = "done"
    BY <1>2 DEF WInv, Accepted, Return, clientVars, v8Vars, Window, Last, Ran
  <2>2. OthersFinal' /\ Exact' /\ Turn' /\ Accepted'
    BY <2>1 DEF WInv, OthersFinal, Exact, Turn, Idle, Beginning, Testing, Ending, Stopped, Accepted
  <2>3. Blame'
    BY <1>0, <2>1 DEF WInv, Blame
  <2> QED
    BY <2>1, <2>2, <2>3 DEF WInv
<1>3. CASE Done
  BY <1>3, Quiet DEF Done
<1> QED
  BY <1>1, <1>2, <1>3

\* Every step keeps the invariant.
LEMMA StepKeepsW == IInv /\ WInv /\ [Next]_vars => WInv'
<1> SUFFICES ASSUME IInv, WInv, [Next]_vars PROVE WInv'
  OBVIOUS
<1>1. CASE UNCHANGED vars
  BY <1>1, Quiet
<1>2. CASE Next /\ ~waits
  <2>1. waits' = waits
    BY <1>2 DEF Next, PostBegin, PostEnd, Post, Execute, Exit, ExitSeen, Return, Done, Handle, BodyFails,
       HandleBegin, HandleEnd, Proceed, Started, StartFails, Take, TakeFails, Close, MapCoverage,
       MapFails, Watchdog, clientVars, vars
  <2> QED
    BY <1>2, <2>1 DEF WInv
<1>3. CASE Next /\ waits
  BY <1>3, PostsKeep, ExecuteKeeps, RequestsKeep, WindowsKeep, ReturnsKeep DEF Next
<1> QED
  BY <1>1, <1>2, <1>3

-----------------------------------------------------------------------------
\* The invariant of a waiting harness holds in every reachable state.
THEOREM WaitingInvariance == Spec => []WInv
BY Invariance, InitWInv, StepKeepsW, PTL DEF Spec

\* Whatever fails and whenever, the unit of a test that passed is what the
\* application ran for that test, and for no other (boundary-server.ts:258-335).
THEOREM UnitsAreOfTheirTest == Spec => []UnitsAreExact
<1>1. WInv => UnitsAreExact
  BY DEF WInv, Exact, UnitsAreExact, Units, Ran
<1> QED
  BY <1>1, WaitingInvariance, PTL

\* A run that is not rejected has a unit for every test that was begun and did not
\* fail: a test that was lost on the way fails the recording.
THEOREM NoTestIsLost == Spec => []NothingMissing
<1>1. IInv /\ WInv => NothingMissing
  <2> SUFFICES ASSUME IInv, WInv, waits, ok, NEW w \in Window
               PROVE  win[w].outcome # NoTest /\ (win[w].outcome # "failed" => w \in Units)
    BY DEF NothingMissing
  <2>1. win[w].at \in Final /\ (win[w].at = "closed" => win[w].outcome = "failed")
    BY DEF WInv, Accepted, Turn, Idle
  <2> QED
    BY <2>1 DEF IInv, Reported, Final, Units, NoTest
<1> QED
  BY <1>1, Invariance, WaitingInvariance, PTL
=============================================================================
