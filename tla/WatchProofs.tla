---------------------------- MODULE WatchProofs ----------------------------
(* What the watch loop guarantees for every set of paths, every debounce    *)
(* and every ceiling: proofs about module Watch.                            *)
EXTENDS Watch, TLAPS

\* Before the loop waits, nothing has been collected and nothing is armed;
\* what is stopped has no timer and no open source; what has settled is idle.
Bookkeeping ==
  /\ main \in {"create", "watching", "settle"} =>
       /\ phase = "idle" /\ pending = {} /\ ~unnamed
       /\ age = NoBatch /\ timer = Off /\ settle = "unset"
  /\ main \in {"create", "watching"} => ~stopped
  /\ main = "create" => source = "none" /\ unseen = {}
  /\ main # "create" => source # "none" \/ main = "done"
  /\ stopped => source = "closed" /\ timer = Off
  /\ phase # "idle" => timer = Off
  /\ settle = "fired" => stopped /\ phase = "idle"
  /\ main = "done" => source # "open" /\ phase = "idle" /\ timer = Off
  /\ main = "done" => stopped \/ unseen = {}

\* TypeOK in four parts, by the kind of value.
ControlType ==
  /\ main \in {"create", "watching", "settle", "waiting", "done"}
  /\ source \in {"none", "open", "closed"}
  /\ phase \in {"idle", "selecting", "selected", "running", "recording"}
  /\ settle \in {"unset", "set", "fired"}
FlagType  == stopped \in BOOLEAN /\ unnamed \in BOOLEAN
ClockType ==
  /\ code \in {0, 1} /\ result \in {-1, 0, 1}
  /\ age \in NoBatch .. MaxWait
  /\ timer \in Off .. Debounce
BatchType ==
  /\ pending \subseteq Path \ Noise
  /\ events \subseteq Change
  /\ unseen \subseteq Tracked

\* The inductive invariant behind the safety properties of Watch.
IInv ==
  /\ ControlType /\ FlagType /\ ClockType /\ BatchType
  /\ Bookkeeping
  /\ ChangeAccounted
  /\ BacklogArmed
  /\ WaitBounded

\* The parts say what TypeOK says.
LEMMA TypeParts == TypeOK <=> ControlType /\ FlagType /\ ClockType /\ BatchType
  BY DEF TypeOK, ControlType, FlagType, ClockType, BatchType

\* The delay schedule() computes fits the timer and respects the ceiling.
LEMMA DelayRange ==
  ASSUME NEW a \in NoBatch .. MaxWait
  PROVE  /\ Delay(a) \in 0 .. Debounce
         /\ Delay(a) <= AtLeast(0, MaxWait - AtLeast(a, 0))
  BY WatchAssumption DEF Delay, AtLeast, AtMost, NoBatch

\* watchAffected starts in a state of the invariant.
LEMMA InitIInv == Init => IInv
<1> SUFFICES ASSUME Init PROVE IInv
  OBVIOUS
<1>1. ControlType
  BY DEF Init, ControlType
<1>2. FlagType
  BY DEF Init, FlagType
<1>3. ClockType
  BY WatchAssumption DEF Init, ClockType, Off, NoBatch
<1>4. BatchType
  BY DEF Init, BatchType
<1>5. Bookkeeping
  BY DEF Init, Bookkeeping
<1>6. ChangeAccounted /\ BacklogArmed /\ WaitBounded
  BY DEF Init, ChangeAccounted, BacklogArmed, WaitBounded
<1> QED
  BY <1>1, <1>2, <1>3, <1>4, <1>5, <1>6 DEF IInv

\* Every step of the loop, of its platform and of its caller keeps it.
LEMMA StepIInv == IInv /\ [Next]_vars => IInv'
<1> SUFFICES ASSUME IInv, [Next]_vars PROVE IInv'
  OBVIOUS
<1> USE WatchAssumption
    DEF IInv, ControlType, FlagType, ClockType, BatchType, Bookkeeping,
        ChangeAccounted, BacklogArmed, WaitBounded,
        Off, NoBatch, Tracked, Change, ctlVars, batchVars
<1>1. CASE CannotWatch
  BY <1>1 DEF CannotWatch
<1>2. CASE Established
  <2>1. ControlType'
    BY <1>2 DEF Established, Stop, Finish
  <2>2. FlagType'
    BY <1>2 DEF Established, Stop, Finish
  <2>3. ClockType'
    BY <1>2 DEF Established, Stop, Finish
  <2>4. BatchType'
    BY <1>2 DEF Established, Stop, Finish
  <2>5. Bookkeeping'
    BY <1>2 DEF Established, Stop, Finish
  <2>6. ChangeAccounted'
    BY <1>2 DEF Established, Stop, Finish
  <2>7. BacklogArmed' /\ WaitBounded'
    BY <1>2 DEF Established, Stop, Finish
  <2> QED
    BY <2>1, <2>2, <2>3, <2>4, <2>5, <2>6, <2>7
<1>3. CASE EmitWatching
  <2>1. ControlType'
    BY <1>3 DEF EmitWatching, Stop, Finish
  <2>2. FlagType'
    BY <1>3 DEF EmitWatching, Stop, Finish
  <2>3. ClockType'
    BY <1>3 DEF EmitWatching, Stop, Finish
  <2>4. BatchType'
    BY <1>3 DEF EmitWatching, Stop, Finish
  <2>5. Bookkeeping'
    BY <1>3 DEF EmitWatching, Stop, Finish
  <2>6. ChangeAccounted'
    BY <1>3 DEF EmitWatching, Stop, Finish
  <2>7. BacklogArmed' /\ WaitBounded'
    BY <1>3 DEF EmitWatching, Stop, Finish
  <2> QED
    BY <2>1, <2>2, <2>3, <2>4, <2>5, <2>6, <2>7
<1>4. CASE StartLoop
  BY <1>4 DEF StartLoop, BeginCycle, Unignored
<1>5. CASE Resolve
  BY <1>5 DEF Resolve
<1>6. CASE Resolved
  BY <1>6 DEF Resolved, vars
<1>7. ASSUME NEW e \in Change, Deliver(e) PROVE IInv'
  <2>1. ControlType'
    BY <1>7, DelayRange DEF Deliver, Collect, Scheduled, AtLeast
  <2>2. FlagType'
    BY <1>7, DelayRange DEF Deliver, Collect, Scheduled, AtLeast
  <2>3. ClockType'
    BY <1>7, DelayRange DEF Deliver, Collect, Scheduled, AtLeast
  <2>4. BatchType'
    BY <1>7, DelayRange DEF Deliver, Collect, Scheduled, AtLeast
  <2>5. Bookkeeping'
    BY <1>7, DelayRange DEF Deliver, Collect, Scheduled, AtLeast
  <2>6. ChangeAccounted'
    <3> SUFFICES ASSUME NEW p \in unseen, ~stopped
                 PROVE  \/ {p, Unnamed} \cap events' # {}
                        \/ p \in pending' \/ unnamed'
                        \/ phase = "selecting"
      BY <1>7 DEF Deliver
    <3>1. CASE p \in pending \/ unnamed \/ phase = "selecting"
      BY <1>7, <3>1 DEF Deliver, Collect
    <3>2. ASSUME NEW q \in {p, Unnamed}, q \in events, q # e
          PROVE  {p, Unnamed} \cap events' # {}
      BY <1>7, <3>2 DEF Deliver
    <3>3. CASE e \in {p, Unnamed}
      <4>1. e \notin Noise
        BY <3>3
      <4>2. unnamed' = (unnamed \/ e = Unnamed) /\ pending' = pending \cup ({e} \ {Unnamed})
        BY <1>7, <4>1 DEF Deliver, Collect
      <4> QED
        BY <3>3, <4>2
    <3> QED
      BY <3>1, <3>2, <3>3
  <2>7. BacklogArmed' /\ WaitBounded'
    BY <1>7, DelayRange DEF Deliver, Collect, Scheduled, AtLeast
  <2> QED
    BY <2>1, <2>2, <2>3, <2>4, <2>5, <2>6, <2>7
<1>8. CASE WatcherFails
  BY <1>8 DEF WatcherFails, Stop, Finish
<1>9. CASE Abort
  BY <1>9 DEF Abort, Stop, Finish
<1>10. CASE Fire
  <2>1. ControlType'
    BY <1>10 DEF Fire, BeginCycle, Unignored
  <2>2. FlagType'
    BY <1>10 DEF Fire, BeginCycle, Unignored
  <2>3. ClockType'
    BY <1>10 DEF Fire, BeginCycle, Unignored
  <2>4. BatchType'
    BY <1>10 DEF Fire, BeginCycle, Unignored
  <2>5. Bookkeeping'
    BY <1>10 DEF Fire, BeginCycle, Unignored
  <2>6. ChangeAccounted'
    BY <1>10 DEF Fire, BeginCycle, Unignored
  <2>7. BacklogArmed' /\ WaitBounded'
    BY <1>10 DEF Fire, BeginCycle, Unignored
  <2> QED
    BY <2>1, <2>2, <2>3, <2>4, <2>5, <2>6, <2>7
<1>11. CASE Tick
  BY <1>11 DEF Tick, AtMost, AtLeast
<1>12. CASE ReadDiff
  BY <1>12 DEF ReadDiff
<1>13. CASE StartRun
  BY <1>13 DEF StartRun
<1>14. CASE RunEnds
  BY <1>14, DelayRange DEF RunEnds, EndCycle, Finish
<1>15. CASE RunEndsGreen
  BY <1>15 DEF RunEndsGreen
<1>16. CASE RecordEnds
  BY <1>16, DelayRange DEF RecordEnds, EndCycle, Finish
<1>17. ASSUME NEW p \in Path, Write(p) PROVE IInv'
  BY <1>17 DEF Write
<1>18. CASE WriteArtifact
  BY <1>18 DEF WriteArtifact
<1>19. CASE UNCHANGED vars
  BY <1>19 DEF vars
<1>20. QED
  BY <1>1, <1>2, <1>3, <1>4, <1>5, <1>6, <1>7, <1>8, <1>9, <1>10, <1>11, <1>12,
     <1>13, <1>14, <1>15, <1>16, <1>17, <1>18, <1>19
  DEF Next

\* The inductive invariant holds in every state the loop reaches.
THEOREM Invariance == Spec => []IInv
  BY InitIInv, StepIInv, PTL DEF Spec

-----------------------------------------------------------------------------
(* What a reader takes from it.                                             *)

\* Every variable keeps to its values: no timer beyond the debounce, no batch
\* older than the ceiling counts, nothing of the store in a batch.
THEOREM TypeCorrect == Spec => []TypeOK
<1>1. IInv => TypeOK
  BY TypeParts DEF IInv
<1> QED
  BY <1>1, Invariance, PTL

\* While the loop is live every written path the next diff would show is still
\* on its way, in the batch, or about to be read (ChangeAccounted).
THEOREM NothingLost == Spec => []ChangeAccounted
<1>1. IInv => ChangeAccounted
  BY DEF IInv
<1> QED
  BY <1>1, Invariance, PTL

\* Changes collected while a cycle ran never wait for the next change.
THEOREM BacklogIsArmed == Spec => []BacklogArmed
<1>1. IInv => BacklogArmed
  BY DEF IInv
<1> QED
  BY <1>1, Invariance, PTL

\* No stream of changes holds a run off past maxWaitMs.
THEOREM WaitIsBounded == Spec => []WaitBounded
<1>1. IInv => WaitBounded
  BY DEF IInv
<1> QED
  BY <1>1, Invariance, PTL

\* A watch that has resolved has no run, no timer and no watcher left.
THEOREM QuietOnceResolved == Spec => []ResolvedIsQuiet
<1>1. IInv => ResolvedIsQuiet
  BY DEF IInv, Bookkeeping, ResolvedIsQuiet
<1> QED
  BY <1>1, Invariance, PTL

-----------------------------------------------------------------------------
(* The loop takes only the steps its contract allows; that it takes them in *)
(* time (the fairness of the contract) is left to TLC.                      *)

\* A watch begins live, with nothing in flight and nothing unseen.
LEMMA InitContract == Init => Contract!Init
  BY DEF Init, Contract!Init

\* Each step is one of the contract's or leaves what the contract sees alone.
LEMMA StepContract == IInv /\ [Next]_vars => [Contract!Next]_(Contract!vars)
<1> SUFFICES ASSUME IInv, [Next]_vars PROVE [Contract!Next]_(Contract!vars)
  OBVIOUS
<1> USE DEF IInv, ControlType, FlagType, BatchType, Bookkeeping, ctlVars, batchVars,
            Contract!vars
<1>1. CASE CannotWatch
  BY <1>1 DEF CannotWatch, Contract!Next, Contract!Resolve
<1>2. CASE Established
  <2>1. main = "create" /\ ~stopped /\ phase = "idle" /\ phase' = phase /\ unseen' = unseen
    BY <1>2 DEF Established
  <2>2. CASE main' = "watching" /\ stopped' = stopped
    BY <2>1, <2>2
  <2>3. CASE main' = "done"
    BY <2>1, <2>3 DEF Contract!Next, Contract!Resolve
  <2> QED
    BY <1>2, <2>2, <2>3 DEF Established
<1>3. CASE EmitWatching
  BY <1>3 DEF EmitWatching, Stop, Contract!Next, Contract!Stop
<1>4. CASE StartLoop
  BY <1>4 DEF StartLoop, BeginCycle, Contract!Next, Contract!Begin
<1>5. CASE Resolve
  BY <1>5 DEF Resolve, Contract!Next, Contract!Resolve
<1>6. CASE Resolved
  BY <1>6 DEF Resolved, vars
<1>7. ASSUME NEW e \in Change, Deliver(e) PROVE [Contract!Next]_(Contract!vars)
  BY <1>7 DEF Deliver
<1>8. CASE WatcherFails
  BY <1>8 DEF WatcherFails, Stop, Contract!Next, Contract!Stop
<1>9. CASE Abort
  BY <1>9 DEF Abort, Stop, Contract!Next, Contract!Stop
<1>10. CASE Fire
  BY <1>10 DEF Fire, BeginCycle, Contract!Next, Contract!Begin
<1>11. CASE Tick
  BY <1>11 DEF Tick
<1>12. CASE ReadDiff
  BY <1>12 DEF ReadDiff, Contract!Next, Contract!Look
<1>13. CASE StartRun
  BY <1>13 DEF StartRun
<1>14. CASE RunEnds
  BY <1>14 DEF RunEnds, EndCycle, Contract!Next, Contract!End
<1>15. CASE RunEndsGreen
  BY <1>15 DEF RunEndsGreen
<1>16. CASE RecordEnds
  BY <1>16 DEF RecordEnds, EndCycle, Contract!Next, Contract!End
<1>17. ASSUME NEW p \in Path, Write(p) PROVE [Contract!Next]_(Contract!vars)
  <2>1. main # "done"
    BY <1>17 DEF Write
  <2>2. CASE p \in Tracked
    BY <1>17, <2>1, <2>2 DEF Write, Contract!Next, Contract!Change
  <2>3. CASE p \notin Tracked
    BY <1>17, <2>3 DEF Write
  <2> QED
    BY <2>2, <2>3
<1>18. CASE WriteArtifact
  BY <1>18 DEF WriteArtifact
<1>19. CASE UNCHANGED vars
  BY <1>19 DEF vars
<1>20. QED
  BY <1>1, <1>2, <1>3, <1>4, <1>5, <1>6, <1>7, <1>8, <1>9, <1>10, <1>11, <1>12,
     <1>13, <1>14, <1>15, <1>16, <1>17, <1>18, <1>19
  DEF Next

\* Every behaviour of the loop is one its contract allows, as far as safety
\* goes: one look at a time, none begun after a stop, none left in flight.
THEOREM KeepsContract == Spec => Contract!Init /\ [][Contract!Next]_(Contract!vars)
  BY InitContract, StepContract, Invariance, PTL DEF Spec
=============================================================================
