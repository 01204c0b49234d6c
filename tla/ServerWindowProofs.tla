------------------------- MODULE ServerWindowProofs -------------------------
(***************************************************************************)
(* What TLAPS proves of recording a server by its dumps: for any number of *)
(* workers, tests, server processes and foreign dumps, a session never     *)
(* takes a later dump for the boot, and a unit holds all that ran.         *)
(***************************************************************************)
EXTENDS ServerWindow, WellFoundedInduction, SequenceTheorems, TLAPS

Calls == DOMAIN queue
Own(n) == n.pid = server.pid /\ n.thread = 0
OwnNames == {Name(server.pid, ts, 0) : ts \in 0 .. clock}

\* A name by which a process may remember its boot: that of its first dump.
IsBoot(n) ==
  /\ n \in Names /\ Own(n) /\ n.ts <= clock
  /\ ~server.fresh /\ first.whole
  /\ n \in DOMAIN dir => dir[n] = first

\* A call that somebody waits for is the last, and not answered yet.
Waited ==
  /\ \A i \in Calls : queue[i].live => /\ i = Len(queue) /\ answer = NoAnswer
                                       /\ worker.linked /\ worker.at \in Asking
  /\ answer # NoAnswer => worker.at \in Asking
  /\ worker.at = "pid" /\ answer # NoAnswer => answer.pid \in Pid
  /\ worker.linked => server.up /\ worker.at # "off"
  /\ ~server.up => queue = <<>>
  /\ worker.ok => worker.at \in {"idle", "test", "waiting", "window"}
  /\ worker.linked /\ ~worker.ok => worker.at \in Starting
  /\ worker.ok \/ worker.at \in Starting => worker.linked \/ ~server.up
  /\ worker.at \in {"waiting", "window"} => worker.ok
  /\ worker.seen \subseteq DOMAIN dir
  /\ worker.at = "off" => worker.seen = {}

\* What the directory, the memory of the process and the calls on their way hold.
Memory ==
  /\ \A n \in DOMAIN dir : n.ts <= clock
  /\ server.marker \in {Unset, Pending} \/ IsBoot(server.marker)
  /\ ~server.fresh => server.marker # Unset
  /\ \A i \in Calls :
       /\ queue[i].op = "write" => queue[i].name = Pending \/ IsBoot(queue[i].name)
       /\ queue[i].op = "dump" => /\ server.marker # Unset
                                  /\ server.marker # Pending => server.marker.ts < clock
                                  /\ \A k \in Calls : queue[k].op # "write"

\* The worker has seen every dump of the process.
Known == worker.pid = server.pid /\ \A m \in DOMAIN dir : Own(m) => m \in worker.seen
Asked(op, name) ==
  /\ answer = NoAnswer /\ Len(queue) = 1
  /\ queue[1].live /\ queue[1].op = op /\ queue[1].name = name
Told(value) == answer = value /\ queue = <<>>

AtPid ==
  /\ answer # NoAnswer => Told(Name(server.pid, 0, 0))
  /\ \A i \in Calls : queue[i].live => queue[i].op = "pid"
AtMarker == Known /\ (Asked("marker", Unset) \/ Told(server.marker))
AtClaim ==
  /\ Known /\ server.fresh
  /\ \/ Asked("write", Pending) /\ server.marker = Unset
     \/ Told(Unset) /\ server.marker = Pending
AtBoot ==
  /\ worker.pid = server.pid /\ server.marker = Pending
  /\ \/ Asked("dump", Unset) /\ server.fresh /\ Known
     \/ /\ Told(Unset)
        /\ \E n \in OwnNames : /\ IsBoot(n)
                            /\ \A m \in DOMAIN dir : Own(m) => (m \in worker.seen \/ m = n) /\ m.ts <= n.ts
\* The worker has read the boot.
Booted == worker.pid = server.pid /\ worker.boot = first /\ first.whole
Dated == \A m \in worker.seen : Own(m) => m.ts <= worker.lastTs
AtName ==
  /\ Booted /\ Known /\ Dated
  /\ \E n \in OwnNames : /\ IsBoot(n) /\ n.ts <= worker.lastTs
                         /\ \/ Asked("write", n)
                            \/ Told(Unset) /\ server.marker = n
Ready ==
  /\ Booted /\ IsBoot(server.marker) /\ server.marker.ts <= worker.lastTs
  /\ \A m \in DOMAIN dir : Own(m) => m \in worker.seen \/ server.marker.ts <= m.ts
  /\ \A i \in Calls : queue[i].op = "dump"

Session ==
  worker.linked =>
    /\ worker.at = "pid" => AtPid
    /\ worker.at = "marker" => AtMarker
    /\ worker.at = "claim" => AtClaim
    /\ worker.at = "boot" => AtBoot
    /\ worker.at = "name" => AtName
    /\ worker.ok => Ready

BootInv == Waited /\ Memory /\ Session

-----------------------------------------------------------------------------
(* What the dump of a window holds.                                        *)

Seen == test.ran \ {Isolate, Page}

\* What ran at boot is in the first dump, and in what a session takes for it.
BootHeld ==
  /\ server.fresh => BootCode \subseteq server.ran
  /\ first.whole => BootCode \subseteq first.ran
  /\ worker.at = "marker" /\ answer \in DOMAIN dir => BootCode \subseteq dir[answer].ran
  /\ worker.at = "marker" => answer \notin Names \/ (answer.ts <= clock /\ answer.thread = 0 /\ answer.pid \in Pid)
  /\ worker.at = "name" /\ answer # NoAnswer => BootCode \subseteq worker.boot.ran
  /\ worker.ok => BootCode \subseteq worker.boot.ran

\* What the test ran is still in the counters, and every dump has been seen;
\* or it is in a dump that nobody has seen.
InCounters ==
  /\ Seen \subseteq server.ran
  /\ \A m \in DOMAIN dir : Own(m) => m \in worker.seen
InDump ==
  \E n \in DOMAIN dir \ worker.seen :
    /\ n.pid = worker.pid /\ n.thread = 0 /\ n.ts <= clock
    /\ Seen \subseteq dir[n].ran
    /\ worker.linked => \A m \in DOMAIN dir : Own(m) => m = n \/ (m \in worker.seen /\ m.ts <= n.ts)

Held ==
  worker.ok /\ ~run.failed =>
    /\ worker.linked /\ worker.at \in {"idle", "test", "waiting"} =>
         /\ \A m \in DOMAIN dir : Own(m) => m \in worker.seen
         /\ queue = <<>>
    /\ worker.linked => Dated
    /\ worker.linked /\ worker.at \in {"test", "waiting"} => Seen \subseteq server.ran
    /\ worker.at = "window" =>
         \/ answer = NoAnswer /\ ~worker.linked
         \/ Asked("dump", Unset) /\ InCounters /\ worker.lastTs < clock
         \/ Told(Unset) /\ InDump
    /\ worker.at \in {"test", "waiting", "window"} /\ Page \in test.ran => test.appeared
    /\ worker.at \in {"test", "waiting", "window"} /\ Isolate \in test.ran /\ ~test.silent =>
         \E m \in DOMAIN dir \ worker.seen : m.pid = Child \/ m.thread = 1

UnitsInv == BootHeld /\ Held /\ UnitsHoldAll
IInv == TypeOK /\ BootInv /\ UnitsInv

\* Numbers are well founded, as a relation the library can be asked about.
LEMMA NatIsWellFounded ==
  \E R : IsWellFoundedOn(R, Nat) /\ \A x, y \in Nat : <<x, y>> \in R <=> x < y
  <1> DEFINE R == OpToRel(<, Nat)
  <1>1. R = {ss \in Nat \X Nat : ss[1] < ss[2]}
    BY DEF OpToRel
  <1>2. IsWellFoundedOn(R, Nat)
    BY NatLessThanWellFounded
  <1> HIDE DEF R
  <1>3. \A x, y \in Nat : <<x, y>> \in R <=> x < y
    BY <1>1
  <1> QED BY <1>2, <1>3

\* A set of numbers that is not empty has a least element.
LEMMA Least ==
  ASSUME NEW T \in SUBSET Nat, T # {} PROVE \E m \in T : \A n \in T : ~(n < m)
  <1>1. PICK R : IsWellFoundedOn(R, Nat) /\ \A x, y \in Nat : <<x, y>> \in R <=> x < y
    BY NatIsWellFounded
  <1>2. T \subseteq Nat
    OBVIOUS
  <1>3. \E m \in T : \A n \in T : ~(<<n, m>> \in R)
    <2> USE <1>1, <1>2
    <2> HIDE <1>2
    <2> QED BY ONLY IsWellFoundedOn(R, Nat), T \subseteq Nat, T # {}, WFMin
  <1> QED BY <1>1, <1>2, <1>3

\* A bounded one has a greatest.
LEMMA BoundedHasMax ==
  ASSUME NEW b \in Nat, NEW S \in SUBSET Nat, S # {}, \A x \in S : x <= b
  PROVE  \E x \in S : \A y \in S : x >= y
  <1> DEFINE T == {n \in Nat : \E x \in S : n = b - x}
  <1>2. PICK z \in S : z \in Nat /\ z <= b
    OBVIOUS
  <1>3. b - z \in T
    BY <1>2
  <1>4. PICK m \in T : \A n \in T : ~(n < m)
    BY <1>3, Least
  <1>5. PICK x \in S : m = b - x
    BY <1>4
  <1>6. ASSUME NEW y \in S PROVE x >= y
    <2>1. b - y \in T /\ x \in Nat /\ y \in Nat
      OBVIOUS
    <2> QED BY <1>4, <1>5, <2>1
  <1> QED BY <1>6

\* MaxOwnDumpTs: nothing that was seen is later, and it is no later than the clock.
LEMMA LastDump ==
  ASSUME NEW S \in SUBSET Names, clock \in Nat, \A n \in S : n.ts <= clock
  PROVE  /\ MaxOwnDumpTs(S) \in Nat
         /\ \A n \in S : n.pid = worker.pid /\ n.thread = 0 => n.ts <= MaxOwnDumpTs(S)
  <1> DEFINE own == {m \in S : m.pid = worker.pid /\ m.thread = 0}
             T == {Never} \cup {n.ts : n \in own}
  <1>1. T \in SUBSET Nat /\ T # {} /\ \A x \in T : x <= clock
    BY DEF Names, Never
  <1>2. \A n \in own : n.ts \in T
    OBVIOUS
  <1>3. MaxOwnDumpTs(S) = Max(T)
    BY DEF MaxOwnDumpTs
  <1> HIDE DEF T
  <1>4. \E x \in T : \A y \in T : x >= y
    BY ONLY <1>1, clock \in Nat, BoundedHasMax
  <1>5. Max(T) \in T /\ \A y \in T : Max(T) >= y
    BY <1>4 DEF Max
  <1> QED BY <1>1, <1>2, <1>3, <1>5

\* The bounds are numbers.
LEMMA Bounds == MaxTests \in Nat /\ MaxWorkers \in Nat /\ MaxProcesses \in Nat /\ MaxProcesses # 0
  BY ServerWindowAssumption

\* The queue holds calls, whatever is done to it.
LEMMA PostType ==
  ASSUME queue \in Seq(Posted), NEW op \in {"pid", "marker", "write", "dump"},
         NEW name \in {Unset, Pending} \cup Names
  PROVE  Append(queue, [op |-> op, live |-> TRUE, name |-> name]) \in Seq(Posted)
  <1>1. [op |-> op, live |-> TRUE, name |-> name] \in Posted
    BY DEF Posted
  <1> QED BY <1>1

LEMMA UnheardType ==
  ASSUME queue \in Seq(Posted)
  PROVE  Unheard \in Seq(Posted) /\ <<>> \in Seq(Posted)
  <1>1. ASSUME NEW i \in DOMAIN queue
        PROVE  queue[i] \in Posted /\ [queue[i] EXCEPT !.live = FALSE] \in Posted
    <2>1. queue[i] \in Posted
      OBVIOUS
    <2> QED BY <2>1 DEF Posted
  <1>2. Len(queue) \in Nat /\ DOMAIN queue = 1 .. Len(queue)
    OBVIOUS
  <1>3. \A n \in Nat : [1 .. n -> Posted] \subseteq Seq(Posted)
    OBVIOUS
  <1>4. Unheard \in [1 .. Len(queue) -> Posted]
    BY <1>1, <1>2 DEF Unheard
  <1> QED BY <1>2, <1>3, <1>4

LEMMA TailType ==
  ASSUME queue \in Seq(Posted), queue # <<>>
  PROVE  Head(queue) \in Posted /\ Tail(queue) \in Seq(Posted)
  OBVIOUS

LEMMA NoWorkerType ==
  ASSUME server \in Servers, NEW n \in 0 .. MaxWorkers
  PROVE  NoWorker(n) \in Workers
  <1>1. server.pid \in Pid
    BY DEF Servers
  <1>2. (CHOOSE p \in Pid : TRUE) \in Pid
    BY <1>1
  <1>3. NoDump \in Dumps
    BY DEF NoDump, Dumps
  <1> QED BY <1>2, <1>3 DEF NoWorker, Workers, Never

\* No step makes anything of a wrong type.
LEMMA TypeStep ==
  ASSUME TypeOK, Waited, Memory, [Next]_vars PROVE TypeOK'
  <1>1. server \in Servers /\ first \in Dumps
    BY DEF TypeOK
  <1>2. queue \in Seq(Posted)
    BY DEF TypeOK
  <1>3. DOMAIN dir \subseteq Names /\ \A n \in DOMAIN dir : dir[n] \in Dumps
    BY DEF TypeOK
  <1>4. clock \in Nat
    BY DEF TypeOK
  <1>5. worker \in Workers
    BY DEF TypeOK
  <1>6. answer \in {NoAnswer, Unset, Pending} \cup Names
    BY DEF TypeOK
  <1>7. test \in Tests
    BY DEF TypeOK
  <1>8. run \in [units : SUBSET Units, failed : BOOLEAN]
    BY DEF TypeOK
  <1>9. NotStarted \in Workers
    <2>1. NoWorker(worker.n) \in Workers
      BY <1>1, <1>5, NoWorkerType DEF Workers
    <2> HIDE DEF NoWorker
    <2> QED BY <2>1 DEF NotStarted, Workers
  <1>10. ASSUME NEW c \in Code, Execute(c) PROVE TypeOK'
    <2>1. server' \in Servers
      BY <1>10, <1>1 DEF Execute, Servers
    <2>2. test' \in Tests
      BY <1>10, <1>7 DEF Execute, Ran, Tests
    <2> QED BY <1>10, <2>1, <2>2 DEF TypeOK, Execute
  <1>11. ASSUME ForeignDump PROVE TypeOK'
    <2>1. (DOMAIN dir \subseteq Names /\ \A n \in DOMAIN dir : dir[n] \in Dumps)'
      BY <1>11, <1>3, <1>1, <1>4 DEF ForeignDump, Writing, Names, Dumps, Servers, Name, NoDump
    <2>2. test' \in Tests
      BY <1>11, <1>7 DEF ForeignDump, Tests
    <2> QED BY <1>11, <2>1, <2>2 DEF TypeOK, ForeignDump, serverVars
  <1>11a. ASSUME ForeignRuns PROVE TypeOK'
    <2>1. test' \in Tests
      BY <1>11a, <1>7 DEF ForeignRuns, Tests
    <2> QED BY <1>11a, <2>1 DEF TypeOK, ForeignRuns, serverVars
  <1>12. ASSUME PageAppears PROVE TypeOK'
    <2>1. test' \in Tests
      BY <1>12, <1>7 DEF PageAppears, Tests
    <2> QED BY <1>12, <2>1 DEF TypeOK, PageAppears, serverVars
  <1>13. ASSUME Tick PROVE TypeOK'
    <2>1. clock' \in Nat
      BY <1>13, <1>4 DEF Tick, serverVars
    <2> QED BY <1>13 DEF TypeOK, Tick, serverVars
  <1>14. ASSUME ServerEnds PROVE TypeOK'
    <2>1. (DOMAIN dir \subseteq Names /\ \A n \in DOMAIN dir : dir[n] \in Dumps)'
      BY <1>14, <1>3, <1>1, <1>4 DEF ServerEnds, Writing, Written, Names, Dumps, Servers, Name
    <2>2. clock' \in Nat
      BY <1>14, <1>4 DEF ServerEnds
    <2>3. server' \in Servers
      BY <1>14, <1>1 DEF ServerEnds, Process, Servers
    <2>4. first' \in Dumps
      BY <1>14 DEF ServerEnds, Dumps, NoDump
    <2>5. queue' \in Seq(Posted)
      BY <1>14 DEF ServerEnds
    <2>6. worker' \in Workers
      BY <1>14, <1>5 DEF ServerEnds, Workers
    <2> QED BY <1>14, <2>1, <2>3, <2>4, <2>6 DEF TypeOK, ServerEnds
  <1>15. ASSUME ServerStarts PROVE TypeOK'
    <2>1. server' \in Servers
      <3>1. PICK pid \in Pid : server' = Process(pid, server.n + 1)
        BY <1>15 DEF ServerStarts
      <3>2. server.n + 1 \in 1 .. MaxProcesses
        <4>1. server.n \in 1 .. MaxProcesses
          BY <1>1 DEF Servers
        <4>2. server.n < MaxProcesses
          BY <1>15 DEF ServerStarts
        <4> QED BY <4>1, <4>2, Bounds
      <3> QED BY <3>1, <3>2 DEF Process, Servers
    <2>2. clock' \in Nat
      BY <1>15, <1>4 DEF ServerStarts, Process
    <2> QED BY <1>15, <2>1 DEF TypeOK, ServerStarts
  <1>16. ASSUME ClearDirectory PROVE TypeOK'
    <2>1. (DOMAIN dir \subseteq Names /\ \A n \in DOMAIN dir : dir[n] \in Dumps)'
      BY <1>16 DEF ClearDirectory
    <2> QED BY <1>16 DEF TypeOK, ClearDirectory, serverVars
  <1>17. ASSUME Evaluate PROVE TypeOK'
    <2>1. queue' \in Seq(Posted)
      BY <1>17, <1>2 DEF Evaluate
    <2>2. answer' \in {NoAnswer, Unset, Pending} \cup Names
      BY <1>17, <1>6, <1>1 DEF Evaluate, Deliver, Names, Name, Servers
    <2>3. server' \in Servers
      BY <1>17, <1>1, TailType, <1>2 DEF Evaluate, TakeCoverage, serverVars, Servers, Posted
    <2>4. first' \in Dumps
      BY <1>17, <1>1 DEF Evaluate, TakeCoverage, Written, serverVars, Dumps, Servers
    <2>5. (DOMAIN dir \subseteq Names /\ \A n \in DOMAIN dir : dir[n] \in Dumps)'
      BY <1>17, <1>3, <1>1, <1>4 DEF Evaluate, TakeCoverage, Writing, Written, Names, Dumps, Servers, Name
    <2> QED BY <1>17, <2>2, <2>3, <2>4, <2>5 DEF TypeOK, Evaluate
  <1>18. ASSUME Open PROVE TypeOK'
    <2>1. worker' \in Workers
      <3>1. worker.n + 1 \in 0 .. MaxWorkers
        <4>1. worker.n \in 0 .. MaxWorkers
          BY <1>5 DEF Workers
        <4>2. worker.n < MaxWorkers
          BY <1>18 DEF Open
        <4> QED BY <4>1, <4>2, Bounds
      <3>2. NoWorker(worker.n + 1) \in Workers
        BY <3>1, <1>1, NoWorkerType
      <3>3. \/ worker' = [NoWorker(worker.n + 1) EXCEPT !.linked = TRUE, !.at = "pid"]
            \/ worker' = [NoWorker(worker.n + 1) EXCEPT !.at = "idle"]
        BY <1>18 DEF Open, Post
      <3> HIDE DEF NoWorker
      <3> QED BY <3>2, <3>3 DEF Workers, Asking, Starting
    <2>2. queue' \in Seq(Posted)
      BY <1>18, <1>2, PostType DEF Open, Post
    <2> QED BY <1>18, <2>1, <2>2 DEF TypeOK, Open, serverVars
  <1>19. ASSUME GotPid PROVE TypeOK'
    <2>1. worker' \in Workers
      <3>1. answer.pid \in Pid /\ DOMAIN dir \in SUBSET Names
        BY <1>19, <1>3 DEF GotPid, Heard, Waited
      <3>2. worker' = [worker EXCEPT !.pid = answer.pid, !.seen = DOMAIN dir, !.at = "marker"]
        BY <1>19 DEF GotPid, Post
      <3> QED BY <3>1, <3>2, <1>5 DEF Workers, Asking, Starting
    <2>2. queue' \in Seq(Posted)
      BY <1>19, <1>2, PostType DEF GotPid, Post
    <2>3. answer' \in {NoAnswer, Unset, Pending} \cup Names
      BY <1>19 DEF GotPid, Heard
    <2> QED BY <1>19, <2>1, <2>2, <2>3 DEF TypeOK, GotPid, serverVars
  <1>20. ASSUME GotMarker PROVE TypeOK'
    <2>1. worker' \in Workers
      <3>1. CASE answer = Unset /\ ClaimBoot
        BY <3>1, <1>5 DEF ClaimBoot, Post, Workers, Asking, Starting
      <3>2. CASE /\ answer \in worker.seen
                 /\ worker' = [worker EXCEPT !.at = "idle", !.ok = TRUE, !.boot = dir[answer],
                                             !.lastTs = MaxOwnDumpTs(worker.seen)]
        <4>1. dir[answer] \in Dumps
          BY <3>2, <1>3 DEF Waited
        <4>2. MaxOwnDumpTs(worker.seen) \in Nat
          BY <1>3, <1>4, LastDump DEF Waited, Memory
        <4> QED BY <3>2, <4>1, <4>2, <1>5 DEF Workers
      <3>3. CASE worker' = NotStarted
        BY <3>3, <1>9
      <3> QED BY <1>20, <3>1, <3>2, <3>3 DEF GotMarker
    <2>2. queue' \in Seq(Posted)
      BY <1>20, <1>2, PostType, UnheardType DEF GotMarker, ClaimBoot, Post, Unlinked
    <2>3. answer' \in {NoAnswer, Unset, Pending} \cup Names
      BY <1>20 DEF GotMarker, Heard
    <2> QED BY <1>20, <2>1, <2>2, <2>3 DEF TypeOK, GotMarker, serverVars
  <1>21. ASSUME GotClaim PROVE TypeOK'
    <2>1. worker' \in Workers
      BY <1>21, <1>5 DEF GotClaim, Post, Workers, Asking, Starting
    <2>2. queue' \in Seq(Posted)
      BY <1>21, <1>2, PostType DEF GotClaim, Post
    <2>3. answer' \in {NoAnswer, Unset, Pending} \cup Names
      BY <1>21 DEF GotClaim, Heard
    <2> QED BY <1>21, <2>1, <2>2, <2>3 DEF TypeOK, GotClaim, serverVars
  <1>22. ASSUME GotBoot PROVE TypeOK'
    <2>1. worker' \in Workers
      <3>1. ASSUME NEW n \in Added,
                   worker' = [worker EXCEPT !.seen = DOMAIN dir, !.boot = dir[n], !.lastTs = n.ts, !.at = "name"]
            PROVE  worker' \in Workers
        <4>1. n \in DOMAIN dir /\ dir[n] \in Dumps /\ n.ts \in Nat /\ DOMAIN dir \in SUBSET Names
          BY <1>3 DEF Added, Names
        <4> QED BY <3>1, <4>1, <1>5 DEF Workers, Asking, Starting
      <3>2. CASE worker' = NotStarted
        BY <3>2, <1>9
      <3>3. \A n : [worker EXCEPT !.seen = DOMAIN dir, !.boot = dir[n], !.lastTs = n.ts, !.at = "name"]
                     = [[worker EXCEPT !.seen = DOMAIN dir, !.boot = dir[n], !.lastTs = n.ts] EXCEPT !.at = "name"]
        BY <1>5 DEF Workers
      <3> QED BY <1>22, <3>1, <3>2 DEF GotBoot, Post
    <2>2. queue' \in Seq(Posted)
      <3>1. \A n \in Added : n \in Names
        BY <1>3 DEF Added
      <3> QED BY <1>22, <3>1, <1>2, PostType, UnheardType DEF GotBoot, Post, Unlinked
    <2>3. answer' \in {NoAnswer, Unset, Pending} \cup Names
      BY <1>22 DEF GotBoot, Heard
    <2> QED BY <1>22, <2>1, <2>2, <2>3 DEF TypeOK, GotBoot, serverVars
  <1>23. ASSUME GotName PROVE TypeOK'
    <2>1. worker' \in Workers
      BY <1>23, <1>5 DEF GotName, Workers
    <2>2. answer' \in {NoAnswer, Unset, Pending} \cup Names
      BY <1>23 DEF GotName, Heard
    <2> QED BY <1>23, <2>1, <2>2 DEF TypeOK, GotName, serverVars
  <1>24. ASSUME GotWindow PROVE TypeOK'
    <2>1. worker' \in Workers
      <3>1. ASSUME NEW n \in Added, worker' = [worker EXCEPT !.at = "idle", !.seen = DOMAIN dir,
      !.lastTs = n.ts]
            PROVE  worker' \in Workers
        <4>1. n.ts \in Nat /\ DOMAIN dir \in SUBSET Names
          BY <1>3 DEF Added, Names
        <4> QED BY <3>1, <4>1, <1>5 DEF Workers
      <3>2. CASE worker' = [worker EXCEPT !.at = "idle", !.seen = DOMAIN dir]
        BY <3>2, <1>3, <1>5 DEF Workers
      <3> QED BY <1>24, <3>1, <3>2 DEF GotWindow
    <2>2. answer' \in {NoAnswer, Unset, Pending} \cup Names
      BY <1>24 DEF GotWindow, Heard
    <2>3. test' \in Tests
      BY <1>24, <1>7 DEF GotWindow, NoTest, Tests
    <2>4. run' \in [units : SUBSET Units, failed : BOOLEAN]
      <3>1. ASSUME NEW n \in Added, Observe(worker.boot.ran \cup dir[n].ran)
            PROVE  run' \in [units : SUBSET Units, failed : BOOLEAN]
        <4>1. Unit(worker.boot.ran \cup dir[n].ran) \in Units
          <5>1. worker.boot.ran \subseteq Code \cup BootCode /\ dir[n].ran \subseteq Code \cup BootCode
            BY <1>3, <1>5 DEF Added, Dumps, Workers
          <5>2. test.ran \subseteq Code \cup {Isolate, Page} /\ test.silent \in BOOLEAN
            BY <1>7 DEF Tests
          <5> QED BY <5>1, <5>2 DEF Unit, Units
        <4>2. CASE run' = [run EXCEPT !.units = @ \cup {Unit(worker.boot.ran \cup dir[n].ran)}]
          BY <4>1, <4>2, <1>8
        <4>3. CASE WindowFails
          BY <4>3 DEF WindowFails
        <4> QED BY <3>1, <4>2, <4>3 DEF Observe
      <3>2. CASE WindowFails
        BY <3>2 DEF WindowFails
      <3> QED BY <1>24, <3>1, <3>2 DEF GotWindow
    <2> QED BY <1>24, <2>1, <2>2, <2>3, <2>4 DEF TypeOK, GotWindow, serverVars
  <1>25. ASSUME StartFails PROVE TypeOK'
    <2>1. worker' \in Workers
      BY <1>25, <1>9 DEF StartFails
    <2>2. queue' \in Seq(Posted)
      BY <1>25, <1>2, UnheardType DEF StartFails, Unlinked
    <2> QED BY <1>25, <2>1, <2>2 DEF TypeOK, StartFails, serverVars
  <1>26. ASSUME BeginTest PROVE TypeOK'
    <2>1. worker' \in Workers
      BY <1>26, <1>5 DEF BeginTest, Workers
    <2>2. test' \in Tests
      <3>1. test.n \in 0 .. MaxTests /\ test.n < MaxTests
        BY <1>26, <1>7 DEF BeginTest, Tests
      <3>2. test.n + 1 \in 0 .. MaxTests
        BY <3>1, Bounds
      <3> QED BY <1>26, <3>2 DEF BeginTest, Tests
    <2> QED BY <1>26, <2>1, <2>2 DEF TypeOK, BeginTest, serverVars
  <1>27. ASSUME EndTest PROVE TypeOK'
    <2>1. worker' \in Workers
      BY <1>27, <1>5 DEF EndTest, Workers
    <2>2. run' \in [units : SUBSET Units, failed : BOOLEAN]
      <3>1. run' = run \/ run' = [units |-> {}, failed |-> TRUE]
        BY <1>27 DEF EndTest, WindowFails
      <3>2. CASE run' = run
        BY <3>2, <1>8
      <3>3. CASE run' = [units |-> {}, failed |-> TRUE]
        BY <3>3
      <3> QED BY <3>1, <3>2, <3>3
    <2>3. test' \in Tests
      <3>1. test' = test \/ test' = [ran |-> {}, appeared |-> FALSE, silent |-> FALSE, n |-> test.n]
        BY <1>27 DEF EndTest, NoTest
      <3>2. CASE test' = test
        BY <3>2, <1>7
      <3>3. CASE test' = [ran |-> {}, appeared |-> FALSE, silent |-> FALSE, n |-> test.n]
        BY <3>3, <1>7 DEF Tests
      <3> QED BY <3>1, <3>2, <3>3
    <2> QED BY <1>27, <2>1, <2>2, <2>3 DEF TypeOK, EndTest, serverVars
  <1>28. ASSUME Trigger PROVE TypeOK'
    <2>1. worker' \in Workers
      BY <1>28, <1>5 DEF Trigger, Post, Workers, Asking
    <2>2. queue' \in Seq(Posted)
      BY <1>28, <1>2, PostType DEF Trigger, Post
    <2> QED BY <1>28, <2>1, <2>2 DEF TypeOK, Trigger, serverVars
  <1>29. ASSUME TriggerFails PROVE TypeOK'
    <2>1. worker' \in Workers
      BY <1>29, <1>5 DEF TriggerFails, Workers
    <2>2. queue' \in Seq(Posted)
      BY <1>29, <1>2, UnheardType DEF TriggerFails
    <2>3. test' \in Tests
      BY <1>29, <1>7 DEF TriggerFails, NoTest, Tests
    <2>4. run' \in [units : SUBSET Units, failed : BOOLEAN]
      BY <1>29 DEF TriggerFails, WindowFails
    <2> QED BY <1>29, <2>1, <2>2, <2>3, <2>4 DEF TypeOK, TriggerFails, serverVars
  <1>30. ASSUME OtherWorker PROVE TypeOK'
    <2>1. run' \in [units : SUBSET Units, failed : BOOLEAN]
      BY <1>30 DEF OtherWorker, WindowFails
    <2> QED BY <1>30, <2>1 DEF TypeOK, OtherWorker, serverVars
  <1>31. ASSUME WorkerEnds PROVE TypeOK'
    <2>1. worker' \in Workers
      BY <1>31, <1>1, <1>5, NoWorkerType DEF WorkerEnds, Workers
    <2>2. queue' \in Seq(Posted)
      BY <1>31, <1>2, UnheardType DEF WorkerEnds, Unlinked
    <2>3. answer' \in {NoAnswer, Unset, Pending} \cup Names
      BY <1>31 DEF WorkerEnds
    <2>4. test' \in Tests
      BY <1>31, <1>7 DEF WorkerEnds, NoTest, Tests
    <2> QED BY <1>31, <2>1, <2>2, <2>4 DEF TypeOK, WorkerEnds, serverVars
  <1>32. ASSUME Done \/ UNCHANGED vars PROVE TypeOK'
    <2> QED BY <1>32 DEF TypeOK, Done, vars
  <1> QED
    BY <1>10, <1>11, <1>11a, <1>12, <1>13, <1>14, <1>15, <1>16, <1>17, <1>18, <1>19, <1>20, <1>21, <1>22, <1>23,
       <1>24, <1>25, <1>26, <1>27, <1>28, <1>29, <1>30, <1>31, <1>32 DEF Next, Hear

-----------------------------------------------------------------------------
(* The queue of calls.                                                     *)

\* close(), or a call given up: what is left of the queue nobody waits for.
LEMMA NobodyHears ==
  ASSUME queue \in Seq(Posted), Unlinked
  PROVE  /\ DOMAIN queue' \subseteq Calls /\ (queue = <<>> => queue' = <<>>)
         /\ \A i \in DOMAIN queue' : /\ ~queue'[i].live
                                     /\ queue'[i].op = queue[i].op /\ queue'[i].name = queue[i].name
  <1>1. ASSUME NEW i \in Calls
        PROVE  LET c == [queue[i] EXCEPT !.live = FALSE]
               IN  ~c.live /\ c.op = queue[i].op /\ c.name = queue[i].name
    <2>1. queue[i] \in Posted
      BY DEF Calls
    <2> QED BY <2>1 DEF Posted
  <1>2. CASE queue' = <<>>
    BY <1>2
  <1>3. CASE queue' = Unheard
    <2>1. DOMAIN Unheard = Calls /\ \A i \in Calls : Unheard[i] = [queue[i] EXCEPT !.live = FALSE]
      BY DEF Unheard, Calls
    <2>2. queue = <<>> => Unheard = <<>>
      BY UnheardType, <2>1 DEF Calls
    <2> QED BY <1>1, <1>3, <2>1, <2>2
  <1> QED BY <1>2, <1>3 DEF Unlinked

\* The server takes the first call; if somebody waits for it, it was the only one.
LEMMA FirstCall ==
  ASSUME queue \in Seq(Posted), queue # <<>>, Waited
  PROVE  /\ 1 \in Calls /\ Head(queue) = queue[1] /\ queue[1] \in Posted
         /\ \A i \in DOMAIN Tail(queue) : i + 1 \in Calls /\ Tail(queue)[i] = queue[i + 1]
         /\ Len(Tail(queue)) = Len(queue) - 1 /\ Tail(queue) \in Seq(Posted)
         /\ queue[1].live => Tail(queue) = <<>>
  <1>1. 1 \in Calls /\ Head(queue) = queue[1] /\ Len(Tail(queue)) = Len(queue) - 1
    BY DEF Calls
  <1>2. \A i \in DOMAIN Tail(queue) : i + 1 \in Calls /\ Tail(queue)[i] = queue[i + 1]
    BY DEF Calls
  <1>3. queue[1] \in Posted /\ Tail(queue) \in Seq(Posted)
    OBVIOUS
  <1>4. queue[1].live => Len(queue) = 1
    BY <1>1 DEF Waited
  <1>5. Len(queue) = 1 => Tail(queue) = <<>>
    <2> SUFFICES ASSUME Len(queue) = 1 PROVE Tail(queue) = <<>>
      OBVIOUS
    <2>1. Len(Tail(queue)) = 0
      BY <1>1
    <2> QED BY ONLY <2>1, <1>3, EmptySeq
  <1> QED BY <1>1, <1>2, <1>3, <1>4, <1>5

\* A call that is posted comes after the others.
LEMMA LastCall ==
  ASSUME queue \in Seq(Posted), NEW c, queue' = Append(queue, c)
  PROVE  /\ DOMAIN queue' = Calls \cup {Len(queue) + 1} /\ Len(queue') = Len(queue) + 1
         /\ \A i \in Calls : queue'[i] = queue[i] /\ i # Len(queue) + 1
         /\ queue'[Len(queue) + 1] = c
         /\ queue = <<>> => Len(queue') = 1 /\ queue'[1] = c
  BY DEF Calls

\* However calls are posted, given up and answered, one is waited for at most.
LEMMA WaitedStep ==
  ASSUME TypeOK, BootInv, [Next]_vars PROVE Waited'
  <1>1. worker \in Workers /\ server \in Servers /\ queue \in Seq(Posted)
    BY DEF TypeOK
  <1>2. Waited
    BY DEF BootInv
  <1>3. ASSUME NEW c \in Code, Execute(c) PROVE Waited'
    BY <1>3, <1>2 DEF Execute, Waited, Calls
  <1>4. ASSUME ForeignDump PROVE Waited'
    BY <1>4, <1>2 DEF ForeignDump, Writing, serverVars, Waited, Calls
  <1>4a. ASSUME ForeignRuns PROVE Waited'
    BY <1>4a, <1>2 DEF ForeignRuns, serverVars, Waited, Calls
  <1>5. ASSUME PageAppears PROVE Waited'
    BY <1>5, <1>2 DEF PageAppears, serverVars, Waited, Calls
  <1>6. ASSUME Tick PROVE Waited'
    BY <1>6, <1>2 DEF Tick, serverVars, Waited, Calls
  <1>7. ASSUME ServerEnds PROVE Waited'
    BY <1>7, <1>2 DEF ServerEnds, Writing, Waited, Calls
  <1>8. ASSUME ServerStarts PROVE Waited'
    BY <1>8, <1>2 DEF ServerStarts, Waited, Starting, Calls
  <1>9. ASSUME ClearDirectory PROVE Waited'
    BY <1>9, <1>2 DEF ClearDirectory, serverVars, Waited, Calls
  <1>10. ASSUME Evaluate PROVE Waited'
    <2>1. queue' = Tail(queue) /\ server.up /\ server'.up = server.up /\ worker' = worker
      BY <1>10, <1>1 DEF Evaluate, TakeCoverage, serverVars, Servers
    <2>2. DOMAIN dir \subseteq DOMAIN dir'
      BY <1>10 DEF Evaluate, TakeCoverage, Writing
    <2>3. \/ ~queue[1].live /\ answer' = answer
          \/ queue[1].live /\ (worker.at = "pid" => answer'.pid \in Pid)
      <3>1. CASE ~queue[1].live
        BY <3>1, <1>10 DEF Evaluate, Deliver
      <3>2. CASE queue[1].live
        <4>1. worker.linked /\ 1 \in Calls
          BY <3>2, <1>10, <1>1, <1>2, FirstCall DEF Evaluate, Waited
        <4>2. worker.at = "pid" => queue[1].op = "pid"
          BY <4>1, <3>2 DEF BootInv, Session, AtPid
        <4>3. worker.at = "pid" => answer' = Name(server.pid, 0, 0)
          BY <4>2, <3>2, <1>10 DEF Evaluate, Deliver
        <4> QED BY <3>2, <4>3, <1>1 DEF Name, Servers
      <3> QED BY <3>1, <3>2
    <2> QED BY <2>1, <2>2, <2>3, <1>10, <1>2, FirstCall DEF Evaluate, Waited, Calls
  <1>11. ASSUME Open PROVE Waited'
    <2>1. CASE server.up /\ Post([NoWorker(worker.n + 1) EXCEPT !.linked = TRUE], "pid", "pid", Unset)
      BY <1>11, <1>2, <2>1 DEF Open, Post, NoWorker, serverVars, Waited, Asking, Starting, Calls
    <2>2. CASE worker' = [NoWorker(worker.n + 1) EXCEPT !.at = "idle"] /\ UNCHANGED queue
      BY <1>11, <1>2, <2>2 DEF Open, NoWorker, serverVars, Waited, Asking, Starting, Calls
    <2> QED BY <1>11, <2>1, <2>2 DEF Open
  <1>12. ASSUME GotPid PROVE Waited'
    BY <1>12, <1>2 DEF GotPid, Heard, Post, serverVars, Waited, Asking, Starting, Calls
  <1>13. ASSUME GotMarker PROVE Waited'
    <2>1. CASE ClaimBoot
      BY <1>13, <1>2, <2>1 DEF GotMarker, Heard, ClaimBoot, Post, serverVars, Waited, Asking, Starting, Calls
    <2>2. CASE /\ worker' = [worker EXCEPT !.at = "idle", !.ok = TRUE, !.boot = dir[answer],
                                         !.lastTs = MaxOwnDumpTs(worker.seen)]
               /\ UNCHANGED queue
      BY <1>13, <1>2, <2>2 DEF GotMarker, Heard, serverVars, Waited, Starting, Calls
    <2>3. CASE worker' = NotStarted /\ Unlinked
      BY NobodyHears, <1>13, <1>1, <1>2, <2>3
         DEF GotMarker, Heard, NotStarted, NoWorker, serverVars, Waited, Starting, Calls
    <2> QED BY <1>13, <2>1, <2>2, <2>3 DEF GotMarker
  <1>14. ASSUME GotClaim PROVE Waited'
    BY <1>14, <1>2 DEF GotClaim, Heard, Post, serverVars, Waited, Asking, Starting, Calls
  <1>15. ASSUME GotBoot PROVE Waited'
    <2>1. ASSUME NEW n, Post([worker EXCEPT !.seen = DOMAIN dir, !.boot = dir[n], !.lastTs = n.ts], "name",
    "write", n)
          PROVE  Waited'
      BY LastCall, <1>15, <1>1, <1>2, <2>1
         DEF GotBoot, Heard, Post, serverVars, Waited, Workers, Asking, Starting, Calls
    <2>2. CASE worker' = NotStarted /\ Unlinked
      BY NobodyHears, <1>15, <1>1, <1>2, <2>2
         DEF GotBoot, Heard, NotStarted, NoWorker, serverVars, Waited, Starting, Calls
    <2> QED BY <1>15, <2>1, <2>2 DEF GotBoot
  <1>16. ASSUME GotName PROVE Waited'
    BY <1>16, <1>2 DEF GotName, Heard, serverVars, Waited, Starting, Calls
  <1>17. ASSUME GotWindow PROVE Waited'
    BY <1>17, <1>1, <1>2 DEF GotWindow, Heard, serverVars, Waited, Workers, Calls
  <1>18. ASSUME StartFails PROVE Waited'
    BY NobodyHears, <1>18, <1>1, <1>2 DEF StartFails, NotStarted, NoWorker, serverVars, Waited, Starting,
                                          Calls
  <1>19. ASSUME BeginTest PROVE Waited'
    BY <1>19, <1>2 DEF BeginTest, serverVars, Waited, Asking, Starting, Calls
  <1>20. ASSUME EndTest PROVE Waited'
    BY <1>20, <1>2 DEF EndTest, serverVars, Waited, Asking, Starting, Calls
  <1>21. ASSUME Trigger PROVE Waited'
    BY <1>21, <1>2 DEF Trigger, Post, serverVars, Waited, Asking, Starting, Calls
  <1>22. ASSUME TriggerFails PROVE Waited'
    BY NobodyHears, <1>22, <1>1, <1>2 DEF Unlinked, TriggerFails, serverVars, Waited, Calls
  <1>23. ASSUME OtherWorker PROVE Waited'
    BY <1>23, <1>2 DEF OtherWorker, serverVars, Waited, Calls
  <1>24. ASSUME WorkerEnds PROVE Waited'
    BY NobodyHears, <1>24, <1>1, <1>2 DEF WorkerEnds, NoWorker, serverVars, Waited, Starting, Calls
  <1>25. ASSUME Done \/ UNCHANGED vars PROVE Waited'
    BY <1>25, <1>2 DEF Done, vars, Waited, Calls
  <1> QED
    BY <1>3, <1>4, <1>4a, <1>5, <1>6, <1>7, <1>8, <1>9, <1>10, <1>11, <1>12, <1>13, <1>14, <1>15, <1>16, <1>17,
       <1>18, <1>19, <1>20, <1>21, <1>22, <1>23, <1>24, <1>25 DEF Next, Hear

\* A marker that names a dump is neither unset nor pending.
LEMMA Distinct ==
  /\ Unset # Pending /\ Unset # NoAnswer /\ Pending # NoAnswer
  /\ Unset \notin Names /\ Pending \notin Names /\ NoAnswer \notin Names /\ Child \notin Pid
  BY ServerWindowAssumption DEF Unset, Pending, NoAnswer, Name, Names, Child

\* The one dump that is new when the boot was asked for is the first of the process.
LEMMA BootIsNew ==
  ASSUME TypeOK, BootInv, worker.linked, worker.at = "boot", answer # NoAnswer,
         NEW n \in Added, OwnDump(n)
  PROVE  /\ queue = <<>> /\ answer = Unset /\ IsBoot(n) /\ n \in OwnNames /\ dir[n] = first
         /\ worker.pid = server.pid /\ \A m \in DOMAIN dir : Own(m) => m.ts <= n.ts
  <1>1. AtBoot
    BY DEF BootInv, Session
  <1>2. worker.pid = server.pid /\ Told(Unset)
    BY <1>1 DEF AtBoot, Asked
  <1>3. PICK b \in OwnNames : /\ IsBoot(b)
                              /\ \A m \in DOMAIN dir : Own(m) => (m \in worker.seen \/ m = b) /\ m.ts <= b.ts
    BY <1>1 DEF AtBoot, Asked
  <1>4. n \in DOMAIN dir \ worker.seen /\ Own(n)
    BY <1>2 DEF Added, OwnDump, Own
  <1>5. n = b
    BY <1>3, <1>4
  <1> QED BY <1>2, <1>3, <1>4, <1>5 DEF Told, IsBoot

\* The memory of the process stands while no dump of its own is written.
LEMMA MemoryKept ==
  ASSUME TypeOK, Memory, clock' \in Nat, clock <= clock', first' = first,
         server'.pid = server.pid, server'.fresh = server.fresh, server'.marker = server.marker,
         \A n \in DOMAIN dir' : n.ts <= clock' /\ (Own(n) => n \in DOMAIN dir /\ dir'[n] = dir[n]),
         \A i \in DOMAIN queue' : /\ i \in Calls
                                  /\ queue'[i].op = queue[i].op /\ queue'[i].name = queue[i].name
  PROVE  Memory'
  <1>1. clock \in Nat
    BY DEF TypeOK
  <1>2. ASSUME NEW n, IsBoot(n)
        PROVE  /\ n \in Names /\ n.pid = server'.pid /\ n.thread = 0 /\ n.ts <= clock'
               /\ ~server'.fresh /\ first'.whole /\ (n \in DOMAIN dir' => dir'[n] = first')
               /\ \A t \in {clock, clock'} : n.ts < clock => n.ts < clock'
    BY <1>1, <1>2 DEF IsBoot, Own, Names
  <1>3. server'.marker \in {Unset, Pending} \/ IsBoot(server.marker)
    BY DEF Memory
  <1>4. \A n \in DOMAIN dir' : n.ts <= clock'
    OBVIOUS
  <1>5. ~server'.fresh => server'.marker # Unset
    BY DEF Memory
  <1>6. ASSUME NEW i \in DOMAIN queue'
        PROVE  /\ queue'[i].op = "write" => queue'[i].name = Pending \/ IsBoot(queue[i].name)
               /\ queue'[i].op = "dump" => /\ server'.marker # Unset
                                           /\ server'.marker # Pending => server'.marker.ts < clock'
                                           /\ \A k \in DOMAIN queue' : queue'[k].op # "write"
    <2>1. /\ i \in Calls /\ queue'[i].op = queue[i].op /\ queue'[i].name = queue[i].name
          /\ \A k \in DOMAIN queue' : k \in Calls /\ queue'[k].op = queue[k].op
      OBVIOUS
    <2>2. queue[i].op = "write" => queue[i].name = Pending \/ IsBoot(queue[i].name)
      BY <2>1 DEF Memory
    <2>3. queue[i].op = "dump" => /\ server.marker # Unset
                                  /\ server.marker # Pending => server.marker.ts < clock
                                  /\ \A k \in Calls : queue[k].op # "write"
      BY <2>1 DEF Memory
    <2> QED BY <2>1, <2>2, <2>3, <1>2, <1>3
  <1> HIDE DEF IsBoot
  <1>7. \A n : IsBoot(n) => IsBoot(n)'
    BY <1>2 DEF IsBoot, Own
  <1>8. server'.marker \in {Unset, Pending} \/ IsBoot(server.marker)'
    BY <1>2, <1>3 DEF IsBoot, Own
  <1>9. \A i \in DOMAIN queue' : queue'[i].op = "write" => queue'[i].name = Pending \/ IsBoot(queue[i].name)'
    BY <1>2, <1>6 DEF IsBoot, Own
  <1> QED BY <1>4, <1>5, <1>6, <1>8, <1>9 DEF Memory, Calls

\* What the process remembers stays the first dump it wrote.
LEMMA MemoryStep ==
  ASSUME TypeOK, BootInv, [Next]_vars PROVE Memory'
  <1>1. server \in Servers /\ queue \in Seq(Posted) /\ clock \in Nat /\ DOMAIN dir \subseteq Names
    BY DEF TypeOK
  <1>2. Waited /\ Memory /\ worker \in Workers
    BY DEF BootInv, TypeOK
  <1>3. ASSUME NEW c \in Code, Execute(c) PROVE Memory'
    BY <1>3, <1>1, <1>2 DEF Execute, Ran, Memory, IsBoot, Own, Servers, Calls
  <1>4. ASSUME ForeignDump PROVE Memory'
    <2>1. PICK n \in {Name(Child, clock, 0), Name(server.pid, clock, 1)} \ DOMAIN dir : dir' = Writing(n,
    NoDump)
      BY <1>4 DEF ForeignDump
    <2>2. ~Own(n) /\ n.ts = clock
      <3>1. server.pid # Child
        BY <1>1, Distinct DEF Servers
      <3> HIDE DEF Child
      <3> QED BY <2>1, <3>1 DEF Own, Name
    <2>3. \A m \in DOMAIN dir' : m = n \/ (m \in DOMAIN dir /\ dir'[m] = dir[m])
      BY <2>1 DEF Writing
    <2> HIDE DEF Own
    <2> QED BY <1>4, <1>1, <1>2, <2>2, <2>3, MemoryKept DEF ForeignDump, serverVars, Memory, Calls
  <1>4a. ASSUME ForeignRuns PROVE Memory'
    BY <1>4a, <1>1, <1>2 DEF ForeignRuns, serverVars, Memory, IsBoot, Own, Servers, Calls
  <1>5. ASSUME PageAppears PROVE Memory'
    BY <1>5, <1>1, <1>2 DEF PageAppears, serverVars, Memory, IsBoot, Own, Servers, Calls
  <1>6. ASSUME Tick PROVE Memory'
    <2>1. \A n \in DOMAIN dir : n.ts \in Nat /\ n.ts <= clock
      BY <1>1, <1>2 DEF Memory, Names
    <2>2. \A n \in DOMAIN dir : n.ts <= clock + 1
      BY <1>1, <2>1
    <2> QED BY <1>6, <1>1, <1>2, <2>2, MemoryKept DEF Tick, serverVars, Calls
  <1>7. ASSUME ServerEnds PROVE Memory'
    <2>1. \A n \in DOMAIN dir : n.ts \in Nat /\ n.ts <= clock
      BY <1>1, <1>2 DEF Memory, Names
    <2>2. \A n \in DOMAIN dir' : n.ts <= clock'
      BY <1>7, <1>1, <2>1 DEF ServerEnds, Writing, Name
    <2>3. server'.marker = Unset /\ server'.fresh /\ queue' = <<>>
      BY <1>7 DEF ServerEnds, Process
    <2> QED BY <2>2, <2>3 DEF Memory, Calls
  <1>8. ASSUME ServerStarts PROVE Memory'
    <2>1. \A n \in DOMAIN dir : n.ts \in Nat /\ n.ts <= clock
      BY <1>1, <1>2 DEF Memory, Names
    <2>2. \A n \in DOMAIN dir' : n.ts <= clock'
      BY <1>8, <1>1, <2>1 DEF ServerStarts
    <2>3. server'.marker = Unset /\ server'.fresh /\ queue' = <<>>
      BY <1>8, <1>2 DEF ServerStarts, Process, Waited
    <2> QED BY <2>2, <2>3 DEF Memory, Calls
  <1>9. ASSUME ClearDirectory PROVE Memory'
    BY <1>9, <1>1, <1>2 DEF ClearDirectory, serverVars, Memory, IsBoot, Own, Servers, Calls
  <1>10. ASSUME Evaluate PROVE Memory'
    <2>1. queue' = Tail(queue) /\ UNCHANGED clock
      BY <1>10 DEF Evaluate
    <2>2. CASE UNCHANGED serverVars /\ UNCHANGED dir
      BY <2>1, <2>2, <1>10, <1>1, <1>2, FirstCall DEF Evaluate, serverVars, Memory, IsBoot, Own, Calls
    <2>3. CASE queue[1].op = "write" /\ server' = [server EXCEPT !.marker = queue[1].name] /\ UNCHANGED <<first, dir>>
      <3>1. \A i \in Calls : queue[i].op # "dump"
        BY <2>3, <1>10, <1>1, <1>2, FirstCall DEF Evaluate, Memory
      <3> QED BY <2>1, <2>3, <3>1, <1>10, <1>1, <1>2, FirstCall, Distinct
                 DEF Evaluate, Memory, IsBoot, Own, Servers, Calls
    <2>4. CASE queue[1].op = "dump" /\ TakeCoverage
      <3> DEFINE new == Name(server.pid, clock, 0)
      <3>1. /\ server.marker # Unset /\ (server.marker # Pending => server.marker.ts < clock)
            /\ \A k \in Calls : queue[k].op # "write"
        BY <2>4, <1>10, <1>1, <1>2, FirstCall DEF Evaluate, Memory
      <3>2. /\ server'.pid = server.pid /\ server'.marker = server.marker /\ ~server'.fresh
            /\ DOMAIN dir' = DOMAIN dir \cup {new} /\ \A m \in DOMAIN dir : m # new => dir'[m] = dir[m]
            /\ first' = IF server.fresh THEN Written ELSE first
        BY <2>4, <1>1 DEF TakeCoverage, Writing, Servers
      <3>3. new.ts = clock
        BY DEF Name
      <3>4. server.marker = Pending \/ (IsBoot(server.marker) /\ server.marker # new)
        <4>1. server.marker = Pending \/ IsBoot(server.marker)
          BY <3>1, <1>2 DEF Memory
        <4>2. IsBoot(server.marker) => server.marker # Pending
          BY Distinct DEF IsBoot
        <4> QED BY <4>1, <4>2, <3>1, <3>3, <1>1
      <3>5. server'.marker = Pending \/ IsBoot(server.marker)'
        <4>1. CASE IsBoot(server.marker) /\ server.marker # new
          BY <4>1, <3>2, <2>1 DEF IsBoot, Own
        <4> QED BY <3>2, <3>4, <4>1
      <3>6. \A n \in DOMAIN dir' : n.ts <= clock'
        BY <3>2, <3>3, <2>1, <1>1, <1>2 DEF Memory
      <3>7. \A i \in DOMAIN queue' : queue'[i].op # "write"
        BY <3>1, <2>1, <1>1, <1>2, <1>10, FirstCall DEF Evaluate
      <3>8. server'.marker # Unset /\ (server'.marker # Pending => server'.marker.ts < clock')
        BY <3>1, <3>2, <2>1
      <3> QED BY <3>5, <3>6, <3>7, <3>8 DEF Memory, Calls
    <2> QED BY <1>10, <1>1, <1>2, <2>2, <2>3, <2>4, FirstCall DEF Evaluate
  <1>11. ASSUME Open PROVE Memory'
    <2>1. queue' = queue \/ queue' = Append(queue, [op |-> "pid", live |-> TRUE, name |-> Unset])
      BY <1>11 DEF Open, Post
    <2> QED BY <2>1, <1>11, <1>1, <1>2, LastCall DEF Open, serverVars, Memory, IsBoot, Own, Calls
  <1>12. ASSUME GotPid PROVE Memory'
    BY <1>12, <1>1, <1>2 DEF GotPid, Heard, Post, serverVars, Memory, IsBoot, Own, Servers, Calls
  <1>13. ASSUME GotMarker PROVE Memory'
    <2>1. CASE answer = Unset /\ ClaimBoot
      <3>1. queue' = queue \/ (worker.linked /\ queue' = Append(queue, [op |-> "write", live |-> TRUE,
      name |-> Pending]))
        BY <2>1 DEF ClaimBoot, Post
      <3>2. worker.linked => queue = <<>>
        BY <1>13, <2>1 DEF GotMarker, Heard, BootInv, Session, AtMarker, Asked, Told
      <3> QED BY <3>1, <3>2, <1>13, <1>1, <1>2, LastCall DEF GotMarker, serverVars, Memory, IsBoot, Own, Calls
    <2>2. CASE UNCHANGED queue
      BY <2>2, <1>13, <1>1, <1>2 DEF GotMarker, serverVars, Memory, IsBoot, Own, Calls
    <2>3. CASE Unlinked
      BY <2>3, <1>13, <1>1, <1>2, NobodyHears DEF GotMarker, serverVars, Memory, IsBoot, Own, Calls
    <2> QED BY <1>13, <2>1, <2>2, <2>3 DEF GotMarker
  <1>14. ASSUME GotClaim PROVE Memory'
    <2>1. CASE queue' = queue
      BY <2>1, <1>14, <1>1, <1>2 DEF GotClaim, serverVars, Memory, IsBoot, Own, Calls
    <2>2. CASE worker.linked /\ queue' = Append(queue, [op |-> "dump", live |-> TRUE, name |-> Unset])
      <3>1. queue = <<>> /\ server.marker = Pending
        BY <1>14, <2>2 DEF GotClaim, Heard, BootInv, Session, AtClaim, Asked, Told
      <3>2. Pending # Unset
        BY DEF Pending, Unset, Name
      <3> QED BY <2>2, <3>1, <3>2, <1>14, <1>1, <1>2, LastCall DEF GotClaim, serverVars, Memory, Calls
    <2> QED BY <1>14, <2>1, <2>2 DEF GotClaim, Post
  <1>15. ASSUME GotBoot PROVE Memory'
    <2>5. UNCHANGED <<server, first, dir, clock>>
      BY <1>15 DEF GotBoot, serverVars
    <2>1. CASE queue' = queue
      BY <2>1, <2>5, <1>1, <1>2 DEF Memory, IsBoot, Own, Calls
    <2>2. ASSUME NEW n \in Added, OwnDump(n), worker.linked, queue' = Append(queue, [op |-> "write",
    live |-> TRUE, name |-> n])
          PROVE  Memory'
      <3>1. queue = <<>> /\ IsBoot(n)
        BY <1>15, <2>2, BootIsNew DEF GotBoot, Heard, TypeOK
      <3>2. \A i \in DOMAIN queue' : queue'[i].op = "write" /\ queue'[i].name = n
        BY <2>2, <3>1, <1>1, LastCall DEF Calls
      <3> QED BY <3>1, <3>2, <2>5, <1>2 DEF Memory, IsBoot, Own, Calls
    <2>3. CASE Unlinked
      BY <2>3, <2>5, <1>1, <1>2, NobodyHears DEF Memory, IsBoot, Own, Calls
    <2>4. worker \in Workers => \A n : [worker EXCEPT !.seen = DOMAIN dir, !.boot = dir[n],
    !.lastTs = n.ts].linked = worker.linked
      BY DEF Workers
    <2> QED BY <1>15, <1>2, <2>1, <2>2, <2>3, <2>4 DEF GotBoot, Post
  <1>16. ASSUME GotName PROVE Memory'
    BY <1>16, <1>1, <1>2 DEF GotName, Heard, serverVars, Memory, IsBoot, Own, Servers, Calls
  <1>17. ASSUME GotWindow PROVE Memory'
    BY <1>17, <1>1, <1>2 DEF GotWindow, Heard, OwnDump, Added, Observe, WindowFails, BrowserObserved, Unit,
                             NoTest, serverVars, Memory, IsBoot, Own, Servers, Calls
  <1>18. ASSUME StartFails PROVE Memory'
    BY NobodyHears, <1>18, <1>1, <1>2 DEF StartFails, NotStarted, NoWorker, serverVars, Memory, IsBoot, Own,
                                          Servers, Calls
  <1>19. ASSUME BeginTest PROVE Memory'
    BY <1>19, <1>1, <1>2 DEF BeginTest, serverVars, Memory, IsBoot, Own, Servers, Calls
  <1>20. ASSUME EndTest PROVE Memory'
    BY <1>20, <1>1, <1>2 DEF EndTest, WindowFails, NoTest, serverVars, Memory, IsBoot, Own, Servers, Calls
  <1>21. ASSUME Trigger PROVE Memory'
    <2>1. CASE queue' = queue
      BY <2>1, <1>21, <1>1, <1>2 DEF Trigger, serverVars, Memory, IsBoot, Own, Calls
    <2>2. CASE worker.linked /\ queue' = Append(queue, [op |-> "dump", live |-> TRUE, name |-> Unset])
      <3>1. Ready /\ clock > worker.lastTs
        BY <1>21, <2>2, <1>2 DEF Trigger, WaitedPast, BootInv, Session, Waited
      <3>2. /\ server.marker # Unset /\ server.marker.ts < clock
            /\ \A i \in Calls : queue[i].op = "dump"
        BY <3>1, <1>1, <1>2, Distinct DEF Ready, IsBoot, Names, Workers
      <3> QED BY <2>2, <3>2, <1>21, <1>1, <1>2, LastCall DEF Trigger, serverVars, Memory, IsBoot, Own, Calls
    <2> QED BY <1>21, <2>1, <2>2 DEF Trigger, Post
  <1>22. ASSUME TriggerFails PROVE Memory'
    BY NobodyHears, <1>22, <1>1, <1>2 DEF Unlinked, TriggerFails, WindowFails, NoTest, serverVars, Memory,
                                          IsBoot, Own, Servers, Calls
  <1>23. ASSUME OtherWorker PROVE Memory'
    BY <1>23, <1>1, <1>2 DEF OtherWorker, WindowFails, serverVars, Memory, IsBoot, Own, Servers, Calls
  <1>24. ASSUME WorkerEnds PROVE Memory'
    BY NobodyHears, <1>24, <1>1, <1>2 DEF WorkerEnds, NoWorker, NoTest, serverVars, Memory, IsBoot, Own,
                                          Servers, Calls
  <1>25. ASSUME Done \/ UNCHANGED vars PROVE Memory'
    BY <1>25, <1>1, <1>2 DEF Done, vars, Memory, IsBoot, Own, Servers, Calls
  <1> QED
    BY <1>3, <1>4, <1>4a, <1>5, <1>6, <1>7, <1>8, <1>9, <1>10, <1>11, <1>12, <1>13, <1>14, <1>15, <1>16, <1>17,
       <1>18, <1>19, <1>20, <1>21, <1>22, <1>23, <1>24, <1>25 DEF Next, Hear

-----------------------------------------------------------------------------
(* How far the session of the worker has come.                             *)

\* What a process remembers as its boot stays so while its own dumps stand.
LEMMA BootStays ==
  ASSUME clock \in Nat, clock' \in Nat, clock <= clock', first' = first,
         server'.pid = server.pid, server'.fresh = server.fresh,
         NEW n, IsBoot(n), n \in DOMAIN dir' => n \in DOMAIN dir /\ dir'[n] = dir[n]
  PROVE  IsBoot(n)'
  BY DEF IsBoot, Own, Names

\* Nor does a session notice that.
LEMMA SessionKept ==
  ASSUME TypeOK, BootInv, clock' \in Nat, clock <= clock', UNCHANGED <<first, queue, worker, answer>>,
         server'.pid = server.pid, server'.fresh = server.fresh, server'.marker = server.marker,
         \A n \in DOMAIN dir' : Own(n) => n \in DOMAIN dir /\ dir'[n] = dir[n]
  PROVE  Session'
  <1>1. clock \in Nat /\ Session
    BY DEF TypeOK, BootInv
  <1>2. ASSUME NEW n, IsBoot(n) PROVE IsBoot(n)'
    <2>1. Own(n)
      BY <1>2 DEF IsBoot
    <2> QED BY <1>1, <1>2, <2>1, BootStays
  <1>3. OwnNames \subseteq OwnNames'
    BY <1>1 DEF OwnNames
  <1> SUFFICES ASSUME worker.linked PROVE Session'
    BY DEF Session
  <1>4. worker.at = "pid" => AtPid'
    BY <1>1 DEF Session, AtPid, Told, Calls
  <1>5. Known => Known'
    BY DEF Known, Own
  <1>6. worker.at = "marker" => AtMarker'
    BY <1>1, <1>5 DEF Session, AtMarker, Told, Asked
  <1>7. worker.at = "claim" => AtClaim'
    BY <1>1, <1>5 DEF Session, AtClaim, Told, Asked
  <1>8. worker.at = "boot" => AtBoot'
    <2> SUFFICES ASSUME AtBoot PROVE AtBoot'
      BY <1>1 DEF Session
    <2>1. CASE Asked("dump", Unset) /\ server.fresh /\ Known
      BY <2>1, <1>5 DEF AtBoot, Asked
    <2>2. ASSUME Told(Unset), NEW n \in OwnNames, IsBoot(n),
                 \A m \in DOMAIN dir : Own(m) => (m \in worker.seen \/ m = n) /\ m.ts <= n.ts
          PROVE  AtBoot'
      <3>1. IsBoot(n)' /\ n \in OwnNames'
        BY <2>2, <1>2, <1>3
      <3>2. (\A m \in DOMAIN dir : Own(m) => (m \in worker.seen \/ m = n) /\ m.ts <= n.ts)'
        BY <2>2 DEF Own
      <3> QED BY <2>2, <3>1, <3>2 DEF AtBoot, Told
    <2> QED BY <2>1, <2>2 DEF AtBoot
  <1>9. worker.at = "name" => AtName'
    <2> SUFFICES ASSUME AtName PROVE AtName'
      BY <1>1 DEF Session
    <2>1. PICK n \in OwnNames : /\ IsBoot(n) /\ n.ts <= worker.lastTs
                                /\ Asked("write", n) \/ (Told(Unset) /\ server.marker = n)
      BY DEF AtName
    <2>2. IsBoot(n)' /\ n \in OwnNames'
      BY <2>1, <1>2, <1>3
    <2>3. Booted' /\ Known' /\ Dated'
      BY <1>5 DEF AtName, Booted, Dated, Own
    <2> QED BY <2>1, <2>2, <2>3 DEF AtName, Told, Asked
  <1>10. worker.ok => Ready'
    <2> SUFFICES ASSUME Ready PROVE Ready'
      BY <1>1 DEF Session
    <2>1. IsBoot(server.marker)'
      BY <1>2 DEF Ready
    <2> QED BY <2>1 DEF Ready, Booted, Own, Calls
  <1> QED BY <1>4, <1>6, <1>7, <1>8, <1>9, <1>10 DEF Session

\* What an answer of the server changes, for a worker that is linked to it.
LEMMA EvaluatedSession ==
  ASSUME TypeOK, BootInv, Evaluate, worker.linked
  PROVE  Session'
  <1>1. /\ worker \in Workers /\ server \in Servers /\ queue \in Seq(Posted)
        /\ clock \in Nat /\ DOMAIN dir \subseteq Names
    BY DEF TypeOK
  <1>2. Waited /\ Memory /\ Session
    BY DEF BootInv
  <1>3. queue # <<>> /\ queue' = Tail(queue) /\ UNCHANGED <<clock, worker>>
    BY DEF Evaluate
  <1>4. worker.at = "pid" => AtPid'
    <2> SUFFICES ASSUME worker.at = "pid" PROVE AtPid'
      OBVIOUS
    <2>1. AtPid
      BY <1>2 DEF Session
    <2>2. answer = NoAnswer /\ 1 \in Calls
      BY <2>1, <1>1, <1>2, <1>3, FirstCall DEF AtPid, Told
    <2>3. CASE queue[1].live
      <3>1. queue' = <<>> /\ queue[1].op = "pid"
        BY <2>1, <2>2, <2>3, <1>1, <1>2, <1>3, FirstCall DEF AtPid
      <3>2. answer' = Name(server.pid, 0, 0) /\ UNCHANGED server
        BY <3>1, <2>3, <1>1, <1>2, <1>3, FirstCall DEF Evaluate, Deliver, serverVars
      <3> QED BY <3>1, <3>2 DEF AtPid, Told, Calls
    <2>4. CASE ~queue[1].live
      <3>1. answer' = answer
        BY <2>4, <1>1, <1>2, <1>3, FirstCall DEF Evaluate, Deliver
      <3> QED BY <3>1, <2>1, <2>2, <1>1, <1>2, <1>3, FirstCall DEF AtPid, Calls
    <2> QED BY <2>3, <2>4
  <1>5. worker.at = "marker" => AtMarker'
    <2> SUFFICES ASSUME worker.at = "marker" PROVE AtMarker'
      OBVIOUS
    <2>1. Known /\ Asked("marker", Unset)
      BY <1>2, <1>3 DEF Session, AtMarker, Told
    <2>2. queue' = <<>> /\ answer' = server.marker /\ UNCHANGED <<server, first, dir>>
      BY <2>1, <1>1, <1>2, <1>3, FirstCall DEF Asked, Evaluate, Deliver, serverVars
    <2> QED BY <2>1, <2>2, <1>3 DEF AtMarker, Known, Own, Told
  <1>6. worker.at = "claim" => AtClaim'
    <2> SUFFICES ASSUME worker.at = "claim" PROVE AtClaim'
      OBVIOUS
    <2>1. Known /\ server.fresh /\ Asked("write", Pending)
      BY <1>2, <1>3 DEF Session, AtClaim, Told
    <2>2. queue' = <<>> /\ answer' = Unset /\ server' = [server EXCEPT !.marker = Pending] /\ UNCHANGED <<first, dir>>
      BY <2>1, <1>1, <1>2, <1>3, FirstCall DEF Asked, Evaluate, Deliver
    <2> QED BY <2>1, <2>2, <1>1, <1>3 DEF AtClaim, Known, Own, Told, Servers
  <1>7. worker.at = "boot" => AtBoot'
    <2> SUFFICES ASSUME worker.at = "boot" PROVE AtBoot'
      OBVIOUS
    <2>9. PICK new : new = Name(server.pid, clock, 0)
      OBVIOUS
    <2>1. Known /\ server.fresh /\ server.marker = Pending /\ Asked("dump", Unset)
      BY <1>2, <1>3 DEF Session, AtBoot, Told
    <2>2. queue' = <<>> /\ answer' = Unset /\ TakeCoverage
      BY <2>1, <1>1, <1>2, <1>3, FirstCall DEF Asked, Evaluate, Deliver
    <2>3. /\ server'.pid = server.pid /\ server'.marker = Pending /\ ~server'.fresh /\ first' = Written
          /\ DOMAIN dir' = DOMAIN dir \cup {new} /\ dir'[new] = Written
      BY <2>1, <2>2, <2>9, <1>1 DEF TakeCoverage, Writing, Servers
    <2>4. Written.whole
      BY <2>1 DEF Written
    <2>5. new \in Names /\ new.pid = server.pid /\ new.thread = 0 /\ new.ts = clock
      BY <2>9, <1>1 DEF Name, Names, Servers
    <2>6. IsBoot(new)'
      BY <2>3, <2>4, <2>5, <1>1, <1>3 DEF IsBoot, Own
    <2>7. new \in OwnNames'
      BY <2>3, <2>9, <1>1, <1>3 DEF OwnNames
    <2>8. (\A m \in DOMAIN dir : Own(m) => (m \in worker.seen \/ m = new) /\ m.ts <= new.ts)'
      BY <2>1, <2>3, <2>5, <1>1, <1>2, <1>3 DEF Known, Own, Memory
    <2> QED BY <2>1, <2>2, <2>3, <2>6, <2>7, <2>8, <1>3 DEF AtBoot, Told, Known
  <1>8. worker.at = "name" => AtName'
    <2> SUFFICES ASSUME worker.at = "name" PROVE AtName'
      OBVIOUS
    <2>1. PICK n \in OwnNames : IsBoot(n) /\ n.ts <= worker.lastTs /\ Asked("write", n)
      BY <1>2, <1>3 DEF Session, AtName, Told
    <2>2. Booted /\ Known /\ Dated
      BY <1>2 DEF Session, AtName
    <2>3. queue' = <<>> /\ answer' = Unset /\ server' = [server EXCEPT !.marker = n] /\ UNCHANGED <<first,
    dir>>
      BY <2>1, <1>1, <1>2, <1>3, FirstCall DEF Asked, Evaluate, Deliver
    <2>4. server'.pid = server.pid /\ server'.fresh = server.fresh /\ server'.marker = n
      BY <2>3, <1>1 DEF Servers
    <2>5. IsBoot(n)' /\ n \in OwnNames'
      BY <2>1, <2>3, <2>4, <1>3 DEF IsBoot, Own, OwnNames
    <2>6. Booted' /\ Known' /\ Dated'
      BY <2>2, <2>3, <2>4, <1>3 DEF Booted, Known, Dated, Own
    <2> QED BY <2>1, <2>3, <2>4, <2>5, <2>6, <1>3 DEF AtName, Told
  <1>9. worker.ok => Ready'
    <2> SUFFICES ASSUME worker.ok PROVE Ready'
      OBVIOUS
    <2> DEFINE new == Name(server.pid, clock, 0)
    <2>1. Ready
      BY <1>2 DEF Session
    <2>2. queue[1].op = "dump" /\ 1 \in Calls
      BY <2>1, <1>1, <1>2, <1>3, FirstCall DEF Ready
    <2>3. TakeCoverage
      BY <2>2, <1>1, <1>2, <1>3, FirstCall DEF Evaluate
    <2>4. /\ IsBoot(server.marker) /\ server.marker \in Names /\ ~server.fresh
          /\ \A m \in DOMAIN dir : m.ts \in Nat
      BY <2>1, <1>1 DEF Ready, IsBoot, Names
    <2>5. server.marker.ts < clock
      BY <2>2, <2>4, <1>2, Distinct DEF Memory
    <2>6. /\ server'.pid = server.pid /\ server'.marker = server.marker /\ ~server'.fresh /\ first' = first
          /\ DOMAIN dir' = DOMAIN dir \cup {new} /\ \A m \in DOMAIN dir : m # new => dir'[m] = dir[m]
      BY <2>3, <2>4, <1>1 DEF TakeCoverage, Writing, Servers
    <2>7. new.ts = clock /\ server.marker # new
      <3>1. new.ts = clock
        BY DEF Name
      <3> QED BY <3>1, <2>5, <1>1
    <2> HIDE DEF new
    <2>8. IsBoot(server.marker)'
      BY <2>4, <2>6, <2>7, <1>3 DEF IsBoot, Own
    <2>9. \A i \in DOMAIN queue' : queue'[i].op = "dump"
      BY <2>1, <1>1, <1>2, <1>3, FirstCall DEF Ready
    <2>10. server.marker.ts <= clock
      BY <2>4 DEF IsBoot
    <2> QED BY <2>1, <2>6, <2>7, <2>8, <2>9, <2>10, <1>3 DEF Ready, Booted, Own, Calls
  <1> QED BY <1>3, <1>4, <1>5, <1>6, <1>7, <1>8, <1>9 DEF Session

\* Every answer, and every step of others, leaves a session where it should be.
LEMMA SessionStep ==
  ASSUME TypeOK, BootInv, [Next]_vars PROVE Session'
  <1>1. /\ worker \in Workers /\ server \in Servers /\ queue \in Seq(Posted)
        /\ clock \in Nat /\ DOMAIN dir \subseteq Names
    BY DEF TypeOK
  <1>2. Waited /\ Memory /\ Session
    BY DEF BootInv
  <1>3. ASSUME NEW c \in Code, Execute(c) PROVE Session'
    BY <1>3, <1>1, SessionKept DEF Execute, Servers
  <1>4. ASSUME ForeignDump PROVE Session'
    <2>1. PICK n \in {Name(Child, clock, 0), Name(server.pid, clock, 1)} \ DOMAIN dir : dir' = Writing(n,
    NoDump)
      BY <1>4 DEF ForeignDump
    <2>2. ~Own(n)
      <3>1. server.pid # Child
        BY <1>1, Distinct DEF Servers
      <3> HIDE DEF Child
      <3> QED BY <2>1, <3>1 DEF Own, Name
    <2>3. \A m \in DOMAIN dir' : m = n \/ (m \in DOMAIN dir /\ dir'[m] = dir[m])
      BY <2>1 DEF Writing
    <2> HIDE DEF Own
    <2> QED BY <1>4, <1>1, <2>2, <2>3, SessionKept DEF ForeignDump, serverVars
  <1>4a. ASSUME ForeignRuns PROVE Session'
    BY <1>4a, <1>1, SessionKept DEF ForeignRuns, serverVars
  <1>5. ASSUME PageAppears PROVE Session'
    BY <1>5, <1>1, SessionKept DEF PageAppears, serverVars
  <1>6. ASSUME Tick PROVE Session'
    BY <1>6, <1>1, SessionKept DEF Tick, serverVars
  <1>7. ASSUME ServerEnds \/ ServerStarts \/ ClearDirectory \/ StartFails \/ WorkerEnds PROVE Session'
    <2>1. ~worker'.linked
      <3>1. CASE ServerEnds
        BY <3>1, <1>1 DEF ServerEnds, Workers
      <3>2. CASE ServerStarts \/ ClearDirectory
        BY <3>2, <1>2 DEF ServerStarts, ClearDirectory, Waited
      <3>3. CASE StartFails
        BY <3>3 DEF StartFails, NotStarted, NoWorker
      <3>4. CASE WorkerEnds
        BY <3>4 DEF WorkerEnds, NoWorker
      <3> QED BY <1>7, <3>1, <3>2, <3>3, <3>4
    <2> QED BY <2>1 DEF Session
  <1>8. ASSUME Evaluate PROVE Session'
    <2>1. CASE ~worker.linked
      BY <2>1, <1>8 DEF Evaluate, Session
    <2>2. CASE worker.linked
      BY <2>2, <1>8, EvaluatedSession
    <2> QED BY <2>1, <2>2
  <1>9. ASSUME Open PROVE Session'
    <2> SUFFICES ASSUME worker'.linked PROVE Session'
      BY DEF Session
    <2>1. /\ worker' = [[NoWorker(worker.n + 1) EXCEPT !.linked = TRUE] EXCEPT !.at = "pid"]
          /\ queue' = Append(queue, [op |-> "pid", live |-> TRUE, name |-> Unset])
      BY <1>9 DEF Open, Post, NoWorker
    <2>2. worker'.at = "pid" /\ ~worker'.ok
      BY <2>1 DEF NoWorker
    <2>3. AtPid'
      BY <2>1, <1>9, <1>1, <1>2, LastCall DEF Open, Waited, AtPid, Asking, Starting, Calls
    <2> QED BY <2>2, <2>3 DEF Session
  <1>10. ASSUME GotPid PROVE Session'
    <2> SUFFICES ASSUME worker.linked PROVE Session'
      BY <1>10, <1>1 DEF GotPid, Post, Workers, Session
    <2>1. answer = Name(server.pid, 0, 0) /\ queue = <<>> /\ ~worker.ok
      BY <1>10, <1>2 DEF GotPid, Heard, Session, AtPid, Told, Waited
    <2>2. /\ worker'.at = "marker" /\ worker'.pid = server.pid /\ worker'.seen = DOMAIN dir /\ ~worker'.ok
          /\ queue' = Append(queue, [op |-> "marker", live |-> TRUE, name |-> Unset])
      BY <1>10, <1>1, <2>1 DEF GotPid, Post, Workers, Name
    <2>3. Asked("marker", Unset)'
      BY <1>10, <1>1, <2>1, <2>2, LastCall DEF GotPid, Heard, Asked
    <2>4. Known'
      BY <1>10, <2>2 DEF GotPid, serverVars, Known, Own
    <2> QED BY <2>2, <2>3, <2>4 DEF Session, AtMarker
  <1>11. ASSUME GotMarker PROVE Session'
    <2> SUFFICES ASSUME worker.linked, worker'.linked PROVE Session'
      BY <1>11, <1>1 DEF GotMarker, ClaimBoot, Post, NotStarted, NoWorker, Workers, Session
    <2>1. Known /\ answer = server.marker /\ queue = <<>> /\ ~worker.ok
      BY <1>11, <1>2 DEF GotMarker, Heard, Session, AtMarker, Told, Asked, Waited
    <2>2. UNCHANGED <<server, first, dir, clock>> /\ answer' = NoAnswer
      BY <1>11 DEF GotMarker, Heard, serverVars
    <2>3. CASE answer = Unset /\ ClaimBoot
      <3>1. /\ worker' = [worker EXCEPT !.at = "claim"]
            /\ queue' = Append(queue, [op |-> "write", live |-> TRUE, name |-> Pending])
        BY <2>3 DEF ClaimBoot, Post
      <3>2. server.fresh
        BY <2>1, <2>3, <1>1, <1>2 DEF Memory, Servers
      <3>3. Asked("write", Pending)' /\ server.marker = Unset
        BY <3>1, <2>1, <2>2, <2>3, <1>1, LastCall DEF Asked
      <3>4. Known'
        BY <3>1, <2>1, <2>2, <1>1 DEF Known, Own, Workers
      <3> QED BY <3>1, <3>2, <3>3, <3>4, <2>1, <2>2, <1>1 DEF Session, AtClaim, Workers
    <2>4. CASE /\ answer # Unset /\ answer \in worker.seen /\ UNCHANGED queue
               /\ worker' = [worker EXCEPT !.at = "idle", !.ok = TRUE, !.boot = dir[answer],
                                           !.lastTs = MaxOwnDumpTs(worker.seen)]
      <3>1. answer \in DOMAIN dir /\ IsBoot(answer)
        BY <2>1, <2>4, <1>1, <1>2, Distinct DEF Waited, Memory
      <3>2. answer.ts <= MaxOwnDumpTs(worker.seen)
        BY <3>1, <2>1, <2>4, <1>1, <1>2, LastDump DEF Waited, Memory, IsBoot, Own, Known
      <3>3. dir[answer] = first /\ first.whole
        BY <3>1 DEF IsBoot
      <3>4. IsBoot(server.marker)' /\ server'.marker = answer
        BY <3>1, <2>1, <2>2 DEF IsBoot, Own
      <3>5. Booted' /\ worker'.lastTs = MaxOwnDumpTs(worker.seen) /\ worker'.seen = worker.seen /\ worker'.at = "idle"
        BY <2>1, <2>2, <2>4, <3>3, <1>1 DEF Booted, Known, Workers
      <3>6. Ready'
        BY <2>1, <2>2, <2>4, <3>2, <3>4, <3>5 DEF Ready, Known, Own, Calls
      <3> QED BY <3>5, <3>6 DEF Session
    <2> QED BY <1>11, <2>3, <2>4 DEF GotMarker, NotStarted, NoWorker
  <1>12. ASSUME GotClaim PROVE Session'
    <2> SUFFICES ASSUME worker.linked PROVE Session'
      BY <1>12, <1>1 DEF GotClaim, Post, Workers, Session
    <2>1. Known /\ server.fresh /\ server.marker = Pending /\ queue = <<>> /\ ~worker.ok
      BY <1>12, <1>2 DEF GotClaim, Heard, Session, AtClaim, Told, Asked, Waited
    <2>2. /\ worker' = [worker EXCEPT !.at = "boot"] /\ UNCHANGED <<server, first, dir, clock>>
          /\ queue' = Append(queue, [op |-> "dump", live |-> TRUE, name |-> Unset]) /\ answer' = NoAnswer
      BY <1>12 DEF GotClaim, Heard, Post, serverVars
    <2>3. Asked("dump", Unset)'
      BY <2>1, <2>2, <1>1, LastCall DEF Asked
    <2>4. Known' /\ worker'.pid = server.pid
      BY <2>1, <2>2, <1>1 DEF Known, Own, Workers
    <2> QED BY <2>1, <2>2, <2>3, <2>4, <1>1 DEF Session, AtBoot, Workers
  <1>13. ASSUME GotBoot PROVE Session'
    <2>1. UNCHANGED <<server, first, dir, clock>> /\ answer' = NoAnswer
      BY <1>13 DEF GotBoot, Heard, serverVars
    <2>2. CASE worker' = NotStarted
      BY <2>2 DEF NotStarted, NoWorker, Session
    <2>3. ASSUME NEW n \in Added, OwnDump(n),
                 Post([worker EXCEPT !.seen = DOMAIN dir, !.boot = dir[n], !.lastTs = n.ts], "name", "write", n)
          PROVE  Session'
      <3>1. /\ worker'.at = "name" /\ worker'.ok = worker.ok /\ worker'.linked = worker.linked
            /\ worker'.pid = worker.pid /\ worker'.seen = DOMAIN dir /\ worker'.boot = dir[n] /\ worker'.lastTs = n.ts
            /\ worker.linked => queue' = Append(queue, [op |-> "write", live |-> TRUE, name |-> n])
        BY <2>3, <1>1 DEF Post, Workers
      <3> SUFFICES ASSUME worker.linked PROVE Session'
        BY <3>1 DEF Session
      <3>2. /\ queue = <<>> /\ IsBoot(n) /\ n \in OwnNames /\ dir[n] = first /\ worker.pid = server.pid
            /\ \A m \in DOMAIN dir : Own(m) => m.ts <= n.ts
        BY <1>13, <2>3, BootIsNew DEF GotBoot, Heard
      <3>3. ~worker.ok
        BY <1>13, <1>2 DEF GotBoot, Heard, Waited
      <3>4. Asked("write", n)'
        BY <2>1, <3>1, <3>2, <1>1, LastCall DEF Asked
      <3>5. IsBoot(n)' /\ n \in OwnNames' /\ n.ts <= n.ts
        BY <2>1, <3>2, <1>1 DEF IsBoot, Own, OwnNames, Names
      <3>6. Booted' /\ Known' /\ Dated'
        BY <2>1, <3>1, <3>2 DEF Booted, Known, Dated, Own, IsBoot
      <3> QED BY <3>1, <3>3, <3>4, <3>5, <3>6 DEF Session, AtName
    <2> QED BY <1>13, <2>2, <2>3 DEF GotBoot
  <1>14. ASSUME GotName PROVE Session'
    <2>1. /\ UNCHANGED <<server, first, dir, clock, queue>>
          /\ worker' = [worker EXCEPT !.at = "idle", !.ok = TRUE]
      BY <1>14 DEF GotName, serverVars
    <2> SUFFICES ASSUME worker.linked PROVE Session'
      BY <2>1, <1>1 DEF Workers, Session
    <2>2. Booted /\ Known /\ queue = <<>> /\ IsBoot(server.marker) /\ server.marker.ts <= worker.lastTs
      BY <1>14, <1>2 DEF GotName, Heard, Session, AtName, Told, Asked
    <2>3. Booted' /\ worker'.seen = worker.seen /\ worker'.lastTs = worker.lastTs /\ worker'.at = "idle"
      BY <2>1, <2>2, <1>1 DEF Booted, Workers
    <2>4. IsBoot(server.marker)'
      BY <2>1, <2>2 DEF IsBoot, Own
    <2> QED BY <2>1, <2>2, <2>3, <2>4 DEF Session, Ready, Known, Own, Calls
  <1>15. ASSUME GotWindow PROVE Session'
    <2>1. UNCHANGED <<server, first, dir, clock, queue>>
      BY <1>15 DEF GotWindow, serverVars
    <2>2. /\ worker'.at = "idle" /\ worker'.seen = DOMAIN dir /\ worker'.linked = worker.linked
          /\ worker'.pid = worker.pid /\ worker'.boot = worker.boot
          /\ \/ worker'.lastTs = worker.lastTs
             \/ \E n \in Added : OwnDump(n) /\ worker'.lastTs = n.ts
      BY <1>15, <1>1 DEF GotWindow, Workers
    <2> SUFFICES ASSUME worker.linked PROVE Session'
      BY <2>2 DEF Session
    <2>3. Ready
      BY <1>15, <1>2 DEF GotWindow, Heard, Session, Waited
    <2>4. server.marker.ts <= worker'.lastTs
      BY <2>2, <2>3 DEF Ready, Booted, Added, OwnDump, Own
    <2>5. IsBoot(server.marker)'
      BY <2>1, <2>3 DEF Ready, IsBoot, Own
    <2> QED BY <2>1, <2>2, <2>3, <2>4, <2>5 DEF Session, Ready, Booted, Own, Calls
  <1>16. ASSUME BeginTest \/ EndTest \/ TriggerFails PROVE Session'
    <2>1. /\ UNCHANGED <<server, first, dir, clock>>
          /\ worker'.at \notin Starting /\ worker'.ok = worker.ok /\ worker'.linked = worker.linked
          /\ worker'.pid = worker.pid /\ worker'.seen = worker.seen
          /\ worker'.boot = worker.boot /\ worker'.lastTs = worker.lastTs
      BY <1>16, <1>1 DEF BeginTest, EndTest, TriggerFails, serverVars, Workers, Starting
    <2>2. \A i \in DOMAIN queue' : i \in Calls /\ queue'[i].op = queue[i].op
      BY <1>16, <1>1, NobodyHears DEF BeginTest, EndTest, TriggerFails, Unlinked, Calls
    <2> SUFFICES ASSUME worker.linked, worker.ok PROVE Ready'
      BY <2>1 DEF Session, Starting
    <2>3. Ready
      BY <1>2 DEF Session
    <2>4. IsBoot(server.marker)'
      BY <2>1, <2>3 DEF Ready, IsBoot, Own
    <2> QED BY <2>1, <2>2, <2>3, <2>4 DEF Ready, Booted, Own, Calls
  <1>17. ASSUME Trigger PROVE Session'
    <2>1. UNCHANGED <<server, first, dir, clock>> /\ worker' = [worker EXCEPT !.at = "window"]
      BY <1>17 DEF Trigger, Post, serverVars
    <2> SUFFICES ASSUME worker.linked PROVE Session'
      BY <2>1, <1>1 DEF Workers, Session
    <2>2. Ready
      BY <1>17, <1>2 DEF Trigger, Session, Waited
    <2>3. queue' = Append(queue, [op |-> "dump", live |-> TRUE, name |-> Unset])
      BY <1>17 DEF Trigger, Post
    <2>4. \A i \in DOMAIN queue' : queue'[i].op = "dump"
      BY <2>2, <2>3, <1>1, LastCall DEF Ready, Calls
    <2>5. IsBoot(server.marker)'
      BY <2>1, <2>2 DEF Ready, IsBoot, Own
    <2> QED BY <2>1, <2>2, <2>4, <2>5, <1>1 DEF Session, Ready, Booted, Own, Calls, Workers
  <1>18. ASSUME OtherWorker \/ Done \/ UNCHANGED vars PROVE Session'
    BY <1>18, <1>1, SessionKept DEF OtherWorker, Done, vars, serverVars
  <1> QED
    BY <1>3, <1>4, <1>4a, <1>5, <1>6, <1>7, <1>8, <1>9, <1>10, <1>11, <1>12, <1>13, <1>14, <1>15, <1>16, <1>17, <1>18
       DEF Next, Hear

\* The boot holds what ran at boot.
LEMMA BootHeldStep ==
  ASSUME TypeOK, BootInv, BootHeld, [Next]_vars PROVE BootHeld'
  <1>1. /\ server \in Servers /\ queue \in Seq(Posted) /\ clock \in Nat /\ DOMAIN dir \subseteq Names
        /\ worker \in Workers /\ answer \in {NoAnswer, Unset, Pending} \cup Names
    BY DEF TypeOK
  <1>2. Waited /\ Memory /\ Session /\ BootHeld
    BY DEF BootInv
  <1>3. ASSUME NEW c \in Code, Execute(c) PROVE BootHeld'
    BY <1>3, <1>1, <1>2 DEF Execute, Ran, BootHeld, Servers, Workers, Waited
  <1>4. ASSUME ForeignDump PROVE BootHeld'
    <2>1. PICK n \in {Name(Child, clock, 0), Name(server.pid, clock, 1)} \ DOMAIN dir : dir' = Writing(n,
    NoDump)
      BY <1>4 DEF ForeignDump
    <2>2. n \in Names /\ (n.pid \notin Pid \/ n.thread # 0)
      <3>1. Child \notin Pid /\ server.pid \in Pid
        BY <1>1, Distinct DEF Servers
      <3>2. CASE n = Name(Child, clock, 0)
        BY <3>1, <3>2, <1>1 DEF Name, Names
      <3>3. CASE n = Name(server.pid, clock, 1)
        BY <3>1, <3>3, <1>1 DEF Name, Names
      <3> QED BY <2>1, <3>2, <3>3
    <2>3. DOMAIN dir' = DOMAIN dir \cup {n} /\ \A m \in DOMAIN dir : dir'[m] = dir[m]
      BY <2>1 DEF Writing
    <2>4. worker.at = "marker" => answer # n
      BY <2>2, <1>2 DEF BootHeld
    <2> QED BY <1>4, <1>2, <2>3, <2>4 DEF ForeignDump, serverVars, BootHeld
  <1>4a. ASSUME ForeignRuns PROVE BootHeld'
    BY <1>4a, <1>1, <1>2 DEF ForeignRuns, serverVars, BootHeld, Servers, Workers, Waited
  <1>5. ASSUME PageAppears PROVE BootHeld'
    BY <1>5, <1>1, <1>2 DEF PageAppears, serverVars, BootHeld, Servers, Workers, Waited
  <1>6. ASSUME Tick PROVE BootHeld'
    BY <1>6, <1>1, <1>2 DEF Tick, serverVars, BootHeld, Servers, Workers, Waited
  <1>7. ASSUME ServerEnds PROVE BootHeld'
    <2>1. server'.ran = BootCode /\ ~first'.whole /\ clock <= clock' /\ clock' \in Nat
      BY <1>7, <1>1 DEF ServerEnds, Process, NoDump
    <2>2. /\ worker'.at = worker.at /\ worker'.ok = worker.ok /\ worker'.boot = worker.boot
          /\ answer' = answer
      BY <1>7, <1>1 DEF ServerEnds, Workers
    <2>3. \A m \in DOMAIN dir' : m.ts = clock + 1 \/ (m \in DOMAIN dir /\ dir'[m] = dir[m])
      BY <1>7 DEF ServerEnds, Writing, Name
    <2>4. answer \notin Names \/ answer.ts \in Nat
      BY DEF Names
    <2>5. DOMAIN dir' \subseteq Names
      BY <1>7, TypeStep DEF BootInv, TypeOK, Next
    <2>6. worker.at = "marker" /\ answer \in Names => answer.ts <= clock' /\ answer.ts # clock + 1
      BY <2>1, <2>4, <1>1, <1>2 DEF BootHeld
    <2> QED BY <1>2, <2>1, <2>2, <2>3, <2>5, <2>6 DEF BootHeld
  <1>8. ASSUME ServerStarts PROVE BootHeld'
    BY <1>8, <1>1, <1>2 DEF ServerStarts, Process, BootHeld, Servers, Workers, Waited
  <1>9. ASSUME ClearDirectory PROVE BootHeld'
    BY <1>9, <1>1, <1>2 DEF ClearDirectory, serverVars, BootHeld, Servers, Workers, Waited
  <1>10. ASSUME Evaluate PROVE BootHeld'
    <2>1. queue # <<>> /\ server.up /\ UNCHANGED <<clock, worker>>
      BY <1>10 DEF Evaluate
    <2>2. /\ server'.fresh => server.fresh /\ server.ran = server'.ran
          /\ first' = first \/ (first' = Written /\ (Written.whole => server.fresh) /\ Written.ran = server.ran)
      BY <1>10, <1>1 DEF Evaluate, TakeCoverage, Written, serverVars, Servers
    <2>3. (server'.fresh => BootCode \subseteq server'.ran) /\ (first'.whole => BootCode \subseteq first'.ran)
      BY <2>2, <1>2 DEF BootHeld
    <2>4. worker.at = "marker" =>
            /\ answer' \in DOMAIN dir' => BootCode \subseteq dir'[answer'].ran
            /\ answer' \notin Names \/ (answer'.ts <= clock' /\ answer'.thread = 0 /\ answer'.pid \in Pid)
      <3> SUFFICES ASSUME worker.at = "marker"
                   PROVE  /\ answer' \in DOMAIN dir' => BootCode \subseteq dir'[answer'].ran
                          /\ answer' \notin Names \/ (answer'.ts <= clock' /\ answer'.thread = 0 /\ answer'.pid \in Pid)
        OBVIOUS
      <3>1. AtMarker
        BY <2>1, <1>2 DEF Session, Waited, Starting
      <3>2. answer' = server.marker /\ UNCHANGED dir
        BY <3>1, <2>1, <1>1, <1>2, <1>10, FirstCall DEF AtMarker, Told, Asked, Evaluate, Deliver
      <3>3. CASE server.marker \in {Unset, Pending}
        BY <3>2, <3>3, <1>1, Distinct
      <3>4. CASE IsBoot(server.marker)
        BY <3>2, <3>4, <2>1, <1>1, <1>2 DEF IsBoot, Own, BootHeld, Servers
      <3> QED BY <3>3, <3>4, <1>2 DEF Memory
    <2>5. worker.at = "name" => BootCode \subseteq worker.boot.ran
      BY <2>1, <1>2 DEF Session, Waited, Starting, AtName, Booted, BootHeld
    <2> QED BY <2>1, <2>3, <2>4, <2>5, <1>2 DEF BootHeld
  <1>11. ASSUME Open PROVE BootHeld'
    BY <1>11, <1>1, <1>2 DEF Open, Post, NoWorker, serverVars, BootHeld, Servers, Workers, Waited
  <1>12. ASSUME GotPid PROVE BootHeld'
    <2>1. worker'.at = "marker" /\ worker'.ok = worker.ok /\ worker'.boot = worker.boot /\ answer' = NoAnswer
      BY <1>12, <1>1 DEF GotPid, Heard, Post, Workers
    <2> QED BY <2>1, <1>12, <1>1, <1>2, Distinct DEF GotPid, serverVars, BootHeld
  <1>13. ASSUME GotMarker PROVE BootHeld'
    <2>1. UNCHANGED <<server, first, dir, clock>> /\ worker.at = "marker"
      BY <1>13 DEF GotMarker, Heard, serverVars
    <2>2. CASE ClaimBoot
      BY <2>1, <2>2, <1>1, <1>2 DEF ClaimBoot, Post, BootHeld, Workers
    <2>3. CASE /\ answer \in worker.seen
               /\ worker' = [worker EXCEPT !.at = "idle", !.ok = TRUE, !.boot = dir[answer],
                                           !.lastTs = MaxOwnDumpTs(worker.seen)]
      <3>1. worker'.at = "idle" /\ worker'.boot = dir[answer] /\ answer \in DOMAIN dir
        BY <2>3, <1>1, <1>2 DEF Workers, Waited
      <3> QED BY <2>1, <3>1, <1>2 DEF BootHeld
    <2>4. CASE worker' = NotStarted
      BY <2>1, <2>4, <1>2 DEF NotStarted, NoWorker, BootHeld
    <2> QED BY <1>13, <2>2, <2>3, <2>4 DEF GotMarker
  <1>14. ASSUME GotClaim PROVE BootHeld'
    BY <1>14, <1>1, <1>2 DEF GotClaim, Heard, Post, serverVars, BootHeld, Servers, Workers, Waited
  <1>15. ASSUME GotBoot PROVE BootHeld'
    BY <1>15, <1>1, <1>2 DEF GotBoot, Heard, OwnDump, Added, Post, NotStarted, NoWorker, Unlinked,
                             serverVars, BootHeld, Servers, Workers, Waited
  <1>16. ASSUME GotName PROVE BootHeld'
    BY <1>16, <1>1, <1>2 DEF GotName, Heard, serverVars, BootHeld, Servers, Workers, Waited
  <1>17. ASSUME GotWindow PROVE BootHeld'
    BY <1>17, <1>1, <1>2 DEF GotWindow, Heard, OwnDump, Added, Observe, WindowFails, BrowserObserved, Unit,
                             NoTest, serverVars, BootHeld, Servers, Workers, Waited
  <1>18. ASSUME StartFails PROVE BootHeld'
    BY <1>18, <1>1, <1>2 DEF StartFails, NotStarted, NoWorker, Unlinked, serverVars, BootHeld, Servers,
                             Workers, Waited
  <1>19. ASSUME BeginTest PROVE BootHeld'
    BY <1>19, <1>1, <1>2 DEF BeginTest, serverVars, BootHeld, Servers, Workers, Waited
  <1>20. ASSUME EndTest PROVE BootHeld'
    BY <1>20, <1>1, <1>2 DEF EndTest, WindowFails, NoTest, serverVars, BootHeld, Servers, Workers, Waited
  <1>21. ASSUME Trigger PROVE BootHeld'
    BY <1>21, <1>1, <1>2 DEF Trigger, WaitedPast, Post, serverVars, BootHeld, Servers, Workers, Waited
  <1>22. ASSUME TriggerFails PROVE BootHeld'
    BY <1>22, <1>1, <1>2 DEF TriggerFails, WindowFails, NoTest, serverVars, BootHeld, Servers, Workers, Waited
  <1>23. ASSUME OtherWorker PROVE BootHeld'
    BY <1>23, <1>1, <1>2 DEF OtherWorker, WindowFails, serverVars, BootHeld, Servers, Workers, Waited
  <1>24. ASSUME WorkerEnds PROVE BootHeld'
    BY <1>24, <1>1, <1>2 DEF WorkerEnds, NoWorker, Unlinked, NoTest, serverVars, BootHeld, Servers, Workers,
                             Waited
  <1>25. ASSUME Done \/ UNCHANGED vars PROVE BootHeld'
    BY <1>25, <1>1, <1>2 DEF Done, vars, BootHeld, Servers, Workers, Waited
  <1> QED
    BY <1>3, <1>4, <1>4a, <1>5, <1>6, <1>7, <1>8, <1>9, <1>10, <1>11, <1>12, <1>13, <1>14, <1>15, <1>16, <1>17,
       <1>18, <1>19, <1>20, <1>21, <1>22, <1>23, <1>24, <1>25 DEF Next, Hear

\* What the test ran stays where its window looks for it.
LEMMA HeldStep ==
  ASSUME TypeOK, BootInv, Held, [Next]_vars PROVE Held'
  <1>1. /\ server \in Servers /\ queue \in Seq(Posted) /\ clock \in Nat /\ DOMAIN dir \subseteq Names
        /\ worker \in Workers /\ test \in Tests
    BY DEF TypeOK
  <1>2. Waited /\ Memory /\ Session /\ Held
    BY DEF BootInv
  <1>3. ASSUME NEW c \in Code, Execute(c) PROVE Held'
    <2>1. /\ worker.at = "test" /\ UNCHANGED <<dir, queue, worker, answer, run>>
          /\ server'.pid = server.pid /\ server'.ran = server.ran \cup {c}
          /\ test'.ran = test.ran \cup {c} /\ test'.appeared = test.appeared /\ test'.silent = test.silent
      BY <1>3, <1>1 DEF Execute, Ran, Servers, Tests
    <2>2. c # Isolate /\ c # Page
      BY ServerWindowAssumption
    <2> QED BY <2>1, <2>2, <1>2 DEF Held, Dated, Seen, Own
  <1>4. ASSUME ForeignDump PROVE Held'
    <2>1. PICK n \in {Name(Child, clock, 0), Name(server.pid, clock, 1)} \ DOMAIN dir : dir' = Writing(n,
    NoDump)
      BY <1>4 DEF ForeignDump
    <2>2. ~Own(n) /\ (n.pid = Child \/ n.thread = 1)
      <3>1. server.pid # Child
        BY <1>1, Distinct DEF Servers
      <3> HIDE DEF Child
      <3> QED BY <2>1, <3>1 DEF Own, Name
    <2>3. /\ DOMAIN dir' = DOMAIN dir \cup {n} /\ \A m \in DOMAIN dir : dir'[m] = dir[m] /\ m # n
          /\ n \notin worker.seen
      BY <2>1, <1>2 DEF Writing, Waited
    <2>4. /\ UNCHANGED <<server, queue, clock, worker, answer, run>>
          /\ Seen' = Seen /\ test'.ran = test.ran /\ test'.appeared = test.appeared
      BY <1>4, <1>1 DEF ForeignDump, serverVars, Seen, Tests
    <2>5. (\A m \in DOMAIN dir : Own(m) => m \in worker.seen)
            => (\A m \in DOMAIN dir : Own(m) => m \in worker.seen)'
      BY <2>2, <2>3, <2>4 DEF Own
    <2>6. InCounters => InCounters'
      BY <2>4, <2>5 DEF InCounters
    <2>7. InDump => InDump'
      <3> SUFFICES ASSUME InDump PROVE InDump'
        OBVIOUS
      <3>1. PICK b \in DOMAIN dir \ worker.seen :
                   /\ b.pid = worker.pid /\ b.thread = 0 /\ b.ts <= clock
                   /\ Seen \subseteq dir[b].ran
                   /\ worker.linked => \A m \in DOMAIN dir : Own(m) => m = b \/ (m \in worker.seen /\ m.ts <= b.ts)
        BY DEF InDump
      <3>2. b \in (DOMAIN dir \ worker.seen)' /\ Seen' \subseteq dir'[b].ran
        BY <2>3, <2>4, <3>1
      <3>3. worker'.linked => (\A m \in DOMAIN dir : Own(m) => m = b \/ (m \in worker.seen /\ m.ts <= b.ts))'
        BY <2>2, <2>3, <2>4, <3>1 DEF Own
      <3> QED BY <2>4, <3>1, <3>2, <3>3 DEF InDump
    <2>8. \E m \in DOMAIN dir' \ worker'.seen : m.pid = Child \/ m.thread = 1
      BY <2>2, <2>3, <2>4
    <2>9. Dated => Dated'
      BY <2>4 DEF Dated, Own
    <2> HIDE DEF Own
    <2> QED BY <2>4, <2>5, <2>6, <2>7, <2>8, <2>9, <1>2 DEF Held, Asked, Told
  <1>4a. ASSUME ForeignRuns PROVE Held'
    <2>1. /\ UNCHANGED <<server, dir, queue, clock, worker, answer, run>>
          /\ test'.ran = test.ran \cup {Isolate} /\ test'.appeared = test.appeared /\ test'.silent = TRUE
      BY <1>4a, <1>1 DEF ForeignRuns, serverVars, Tests
    <2>2. Seen' = Seen
      BY <2>1 DEF Seen
    <2>3. (Page \in test'.ran) <=> (Page \in test.ran)
      BY <2>1, ServerWindowAssumption
    <2> QED BY <2>1, <2>2, <2>3, <1>2 DEF Held, InCounters, InDump, Asked, Told, Dated, Own
  <1>5. ASSUME PageAppears PROVE Held'
    <2>1. /\ UNCHANGED <<server, dir, queue, clock, worker, answer, run>>
          /\ test'.ran = test.ran \cup {Page} /\ test'.appeared = TRUE /\ test'.silent = test.silent
      BY <1>5, <1>1 DEF PageAppears, serverVars, Tests
    <2>2. Seen' = Seen
      BY <2>1 DEF Seen
    <2>3. (Isolate \in test'.ran) <=> (Isolate \in test.ran)
      BY <2>1, ServerWindowAssumption
    <2> QED BY <2>1, <2>2, <2>3, <1>2 DEF Held, InCounters, InDump, Asked, Told, Dated, Own
  <1>6. ASSUME Tick PROVE Held'
    <2>1. UNCHANGED <<server, queue, dir, worker, answer, test, run>> /\ clock' = clock + 1
      BY <1>6 DEF Tick, serverVars
    <2>2. worker.lastTs \in Nat /\ \A m \in DOMAIN dir : m.ts \in Nat
      BY <1>1 DEF Workers, Names
    <2>3. InDump => InDump'
      BY <2>1, <2>2, <1>1 DEF InDump, Seen, Own
    <2>4. InCounters => InCounters'
      BY <2>1 DEF InCounters, Seen, Own
    <2>5. worker.lastTs < clock => worker.lastTs < clock'
      BY <2>1, <2>2, <1>1
    <2> QED BY <2>1, <2>3, <2>4, <2>5, <1>2 DEF Held, Asked, Told, Dated, Seen, Own
  <1>7. ASSUME ServerEnds PROVE Held'
    <2>1. /\ UNCHANGED <<answer, test, run>> /\ queue' = <<>> /\ ~worker'.linked
          /\ worker'.at = worker.at /\ worker'.ok = worker.ok /\ worker'.seen = worker.seen /\ worker'.pid = worker.pid
          /\ clock <= clock' /\ clock' \in Nat
      BY <1>7, <1>1 DEF ServerEnds, Workers
    <2>2. /\ DOMAIN dir \subseteq DOMAIN dir'
          /\ \A m \in DOMAIN dir : m.ts <= clock => dir'[m] = dir[m]
      BY <1>7, <1>1 DEF ServerEnds, Writing, Name
    <2>3. InDump => InDump'
      BY <2>1, <2>2, <1>1 DEF InDump, Seen, Names
    <2> QED BY <2>1, <2>2, <2>3, <1>2 DEF Held, Asked, Told
  <1>8. ASSUME ServerStarts PROVE Held'
    BY <1>8, <1>1, <1>2 DEF ServerStarts, Process, Held, InCounters, InDump, Asked, Told, Dated, Seen, Own,
                            Servers, Workers, Waited, Tests, Starting, Asking
  <1>9. ASSUME ClearDirectory PROVE Held'
    BY <1>9, <1>1, <1>2 DEF ClearDirectory, serverVars, Held, InCounters, InDump, Asked, Told, Dated, Seen,
                            Own, Servers, Workers, Waited, Tests, Starting, Asking
  <1>10. ASSUME Evaluate PROVE Held'
    <2>1. queue # <<>> /\ server.up /\ queue' = Tail(queue) /\ UNCHANGED <<clock, worker, test, run>>
      BY <1>10 DEF Evaluate
    <2> SUFFICES ASSUME worker.ok, ~run.failed PROVE Held'
      BY <2>1 DEF Held
    <2>2. worker.linked /\ worker.at = "window"
      BY <2>1, <1>2 DEF Waited, Held
    <2>3. Asked("dump", Unset) /\ InCounters /\ worker.lastTs < clock /\ Dated /\ worker.pid = server.pid
      BY <2>1, <2>2, <1>2 DEF Held, Told, Session, Ready, Booted
    <2>4. queue' = <<>> /\ answer' = Unset /\ TakeCoverage
      BY <2>1, <2>3, <1>1, <1>2, <1>10, FirstCall DEF Asked, Evaluate, Deliver
    <2>5. PICK new : new = Name(server.pid, clock, 0)
      OBVIOUS
    <2>6. new.pid = server.pid /\ new.thread = 0 /\ new.ts = clock
      BY <2>5 DEF Name
    <2>7. new \notin worker.seen
      BY <2>3, <2>6, <1>1 DEF Dated, Own, Workers
    <2>8. /\ server'.pid = server.pid /\ DOMAIN dir' = DOMAIN dir \cup {new} /\ dir'[new].ran = server.ran
      BY <2>4, <2>5, <1>1 DEF TakeCoverage, Writing, Written, Servers
    <2>9. InDump'
      <3>1. new \in (DOMAIN dir \ worker.seen)' /\ Seen' \subseteq dir'[new].ran
        BY <2>1, <2>3, <2>7, <2>8 DEF InCounters, Seen
      <3>2. (\A m \in DOMAIN dir : Own(m) => m = new \/ (m \in worker.seen /\ m.ts <= new.ts))'
        BY <2>1, <2>3, <2>6, <2>8, <1>2 DEF InCounters, Own, Memory
      <3>3. new.pid = worker'.pid /\ new.thread = 0 /\ new.ts <= clock'
        BY <2>1, <2>3, <2>6, <1>1
      <3> QED BY <3>1, <3>2, <3>3 DEF InDump
    <2>10. Dated'
      BY <2>1, <2>3, <2>8 DEF Dated, Own
    <2>11. Isolate \in test.ran /\ ~test.silent =>
             \E m \in DOMAIN dir' \ worker'.seen : m.pid = Child \/ m.thread = 1
      BY <2>1, <2>2, <2>8, <1>2 DEF Held
    <2> QED BY <2>1, <2>2, <2>4, <2>9, <2>10, <2>11, <1>2 DEF Held, Told
  <1>11. ASSUME Open PROVE Held'
    BY <1>11, <1>1, <1>2 DEF Open, Post, NoWorker, serverVars, Held, InCounters, InDump, Asked, Told, Dated,
                             Seen, Own, Servers, Workers, Waited, Tests, Starting, Asking
  <1>12. ASSUME GotPid PROVE Held'
    BY <1>12, <1>1, <1>2 DEF GotPid, Heard, Post, serverVars, Held, InCounters, InDump, Asked, Told, Dated,
                             Seen, Own, Servers, Workers, Waited, Tests, Starting, Asking
  <1>13. ASSUME GotMarker PROVE Held'
    <2>1. UNCHANGED <<server, dir, test, run>> /\ worker.at = "marker" /\ ~worker.ok /\ answer # NoAnswer
      BY <1>13, <1>2 DEF GotMarker, Heard, serverVars, Waited
    <2>2. CASE ClaimBoot \/ worker' = NotStarted
      BY <2>1, <2>2, <1>1 DEF ClaimBoot, Post, NotStarted, NoWorker, Held, Workers
    <2>3. CASE /\ UNCHANGED queue
               /\ worker' = [worker EXCEPT !.at = "idle", !.ok = TRUE, !.boot = dir[answer],
                                           !.lastTs = MaxOwnDumpTs(worker.seen)]
      <3>1. /\ worker'.at = "idle" /\ worker'.linked = worker.linked /\ worker'.seen = worker.seen
            /\ worker'.lastTs = MaxOwnDumpTs(worker.seen)
        BY <2>3, <1>1 DEF Workers
      <3>2. worker.linked => Known /\ queue = <<>>
        BY <2>1, <1>2 DEF Session, AtMarker, Told, Asked
      <3>3. \A n \in worker.seen : n.pid = worker.pid /\ n.thread = 0 => n.ts <= MaxOwnDumpTs(worker.seen)
        BY <1>1, <1>2, LastDump DEF Waited, Memory
      <3> QED BY <2>1, <2>3, <3>1, <3>2, <3>3 DEF Held, Known, Dated, Own
    <2> QED BY <1>13, <2>2, <2>3 DEF GotMarker
  <1>14. ASSUME GotClaim PROVE Held'
    BY <1>14, <1>1, <1>2 DEF GotClaim, Heard, Post, serverVars, Held, InCounters, InDump, Asked, Told, Dated,
                             Seen, Own, Servers, Workers, Waited, Tests, Starting, Asking
  <1>15. ASSUME GotBoot PROVE Held'
    BY <1>15, <1>1, <1>2 DEF GotBoot, Heard, OwnDump, Added, Post, NotStarted, NoWorker, Unlinked,
                             serverVars, Held, InCounters, InDump, Asked, Told, Dated, Seen, Own, Servers, Workers, Waited, Tests, Starting, Asking
  <1>16. ASSUME GotName PROVE Held'
    <2>1. UNCHANGED <<server, dir, queue, test, run>> /\ worker.at = "name" /\ answer # NoAnswer
      BY <1>16 DEF GotName, Heard, serverVars
    <2>2. /\ worker'.at = "idle" /\ worker'.linked = worker.linked /\ worker'.seen = worker.seen
          /\ worker'.lastTs = worker.lastTs
      BY <1>16, <1>1 DEF GotName, Workers
    <2>3. worker.linked => Known /\ Dated /\ queue = <<>>
      BY <2>1, <1>2 DEF Session, AtName, Told, Asked
    <2> QED BY <2>1, <2>2, <2>3 DEF Held, Known, Dated, Own
  <1>17. ASSUME GotWindow PROVE Held'
    <2>1. UNCHANGED <<server, dir, queue>> /\ worker.at = "window" /\ answer # NoAnswer /\ worker'.at = "idle"
      BY <1>17, <1>1 DEF GotWindow, Heard, serverVars, Workers
    <2>2. CASE WindowFails
      BY <2>2 DEF WindowFails, Held
    <2>3. ASSUME NEW n \in Added, OwnDump(n), ~run.failed,
                 worker' = [worker EXCEPT !.at = "idle", !.seen = DOMAIN dir, !.lastTs = n.ts]
          PROVE  Held'
      <3>1. worker'.linked = worker.linked /\ worker'.seen = DOMAIN dir /\ worker'.lastTs = n.ts
        BY <2>3, <1>1 DEF Workers
      <3>2. queue = <<>> /\ InDump
        BY <2>1, <2>3, <1>2 DEF Waited, Held, Asked, Told
      <3>3. worker.linked => \A m \in DOMAIN dir : Own(m) => m = n \/ m.ts <= n.ts
        BY <2>3, <3>2 DEF InDump, OwnDump, Added
      <3>4. n.ts <= n.ts
        BY <2>3, <1>1 DEF Added, Names
      <3> QED BY <2>1, <3>1, <3>2, <3>3, <3>4 DEF Held, Dated, Own
    <2> QED BY <1>17, <2>2, <2>3 DEF GotWindow, Observe
  <1>18. ASSUME StartFails PROVE Held'
    BY <1>18, <1>1, <1>2 DEF StartFails, NotStarted, NoWorker, Unlinked, serverVars, Held, InCounters,
                             InDump, Asked, Told, Dated, Seen, Own, Servers, Workers, Waited, Tests,
                             Starting, Asking
  <1>19. ASSUME BeginTest PROVE Held'
    BY <1>19, <1>1, <1>2 DEF BeginTest, serverVars, Held, InCounters, InDump, Asked, Told, Dated, Seen, Own,
                             Servers, Workers, Waited, Tests, Starting, Asking
  <1>20. ASSUME EndTest PROVE Held'
    BY <1>20, <1>1, <1>2 DEF EndTest, WindowFails, NoTest, serverVars, Held, InCounters, InDump, Asked, Told,
                             Dated, Seen, Own, Servers, Workers, Waited, Tests, Starting, Asking
  <1>21. ASSUME Trigger PROVE Held'
    BY <1>21, <1>1, <1>2 DEF Trigger, WaitedPast, Post, serverVars, Held, InCounters, InDump, Asked, Told,
                             Dated, Seen, Own, Servers, Workers, Waited, Tests, Starting, Asking
  <1>22. ASSUME TriggerFails PROVE Held'
    BY <1>22, <1>1, <1>2 DEF TriggerFails, WindowFails, NoTest, serverVars, Held, InCounters, InDump, Asked,
                             Told, Dated, Seen, Own, Servers, Workers, Waited, Tests, Starting, Asking
  <1>23. ASSUME OtherWorker PROVE Held'
    BY <1>23, <1>1, <1>2 DEF OtherWorker, WindowFails, serverVars, Held, InCounters, InDump, Asked, Told,
                             Dated, Seen, Own, Servers, Workers, Waited, Tests, Starting, Asking
  <1>24. ASSUME WorkerEnds PROVE Held'
    BY <1>24, <1>1, <1>2 DEF WorkerEnds, NoWorker, Unlinked, NoTest, serverVars, Held, InCounters, InDump,
                             Asked, Told, Dated, Seen, Own, Servers, Workers, Waited, Tests, Starting, Asking
  <1>25. ASSUME Done \/ UNCHANGED vars PROVE Held'
    BY <1>25, <1>1, <1>2 DEF Done, vars, Held, InCounters, InDump, Asked, Told, Dated, Seen, Own, Servers,
                             Workers, Waited, Tests, Starting, Asking
  <1> QED
    BY <1>3, <1>4, <1>4a, <1>5, <1>6, <1>7, <1>8, <1>9, <1>10, <1>11, <1>12, <1>13, <1>14, <1>15, <1>16, <1>17,
       <1>18, <1>19, <1>20, <1>21, <1>22, <1>23, <1>24, <1>25 DEF Next, Hear

\* The unit of a window is credited with all that ran for the test, and at boot.
LEMMA WindowHoldsAll ==
  ASSUME TypeOK, BootInv, BootHeld, Held, GotWindow, ~run.failed, BrowserObserved,
         NEW n \in Added, OwnDump(n)
  PROVE  (test.ran \cup BootCode) \ (IF test.silent THEN {Isolate} ELSE {})
           \subseteq worker.boot.ran \cup dir[n].ran
  <1>1. worker.at = "window" /\ answer # NoAnswer /\ worker.ok
    BY DEF GotWindow, Heard, BootInv, Waited
  <1>2. InDump
    BY <1>1 DEF Held, Asked
  <1>3. Seen \subseteq dir[n].ran
    BY <1>2 DEF InDump, OwnDump, Added
  <1>4. BootCode \subseteq worker.boot.ran
    BY <1>1 DEF BootHeld
  <1>5. Isolate \in test.ran => test.silent
    <2> SUFFICES ASSUME Isolate \in test.ran, ~test.silent PROVE FALSE
      OBVIOUS
    <2>1. PICK m \in DOMAIN dir \ worker.seen : m.pid = Child \/ m.thread = 1
      BY <1>1 DEF Held
    <2>2. n.pid = Child \/ n.thread = 1
      BY <2>1 DEF OwnDump, Added
    <2>3. worker.pid \in Pid
      BY DEF TypeOK, Workers
    <2> QED BY <2>2, <2>3, Distinct DEF OwnDump
  <1>6. Page \notin test.ran
    BY <1>1 DEF Held, BrowserObserved
  <1> QED BY <1>3, <1>4, <1>5, <1>6 DEF Seen

\* A window that did not fail gives a unit that holds all.
LEMMA UnitsStep ==
  ASSUME TypeOK, BootInv, BootHeld, Held, UnitsHoldAll, [Next]_vars PROVE UnitsHoldAll'
  <1>1. CASE UNCHANGED run
    BY <1>1 DEF UnitsHoldAll, Recorded
  <1>2. CASE WindowFails
    BY <1>2 DEF WindowFails, UnitsHoldAll, Recorded
  <1>3. ASSUME GotWindow, ~WindowFails PROVE UnitsHoldAll'
    <2>1. PICK n \in Added : OwnDump(n) /\ Observe(worker.boot.ran \cup dir[n].ran)
      BY <1>3 DEF GotWindow
    <2>2. /\ BrowserObserved /\ ~run.failed
          /\ run' = [run EXCEPT !.units = @ \cup {Unit(worker.boot.ran \cup dir[n].ran)}]
      BY <2>1, <1>3 DEF Observe
    <2>3. (test.ran \cup BootCode) \ (IF test.silent THEN {Isolate} ELSE {})
            \subseteq worker.boot.ran \cup dir[n].ran
      BY <1>3, <2>1, <2>2, WindowHoldsAll
    <2>4. run'.units = run.units \cup {Unit(worker.boot.ran \cup dir[n].ran)}
      BY <2>2 DEF TypeOK
    <2> QED BY <2>3, <2>4 DEF UnitsHoldAll, Recorded, Unit
  <1>4. GotWindow \/ UNCHANGED run \/ WindowFails
    BY DEF Next, Hear, vars, Execute, ForeignRuns, ForeignDump, PageAppears, Tick, ServerEnds, ServerStarts,
           ClearDirectory,
           Evaluate, Open, GotPid, GotMarker, GotClaim, GotBoot, GotName, StartFails, BeginTest, EndTest,
           Trigger, TriggerFails, OtherWorker, WorkerEnds, Done
  <1> QED BY <1>1, <1>2, <1>3, <1>4

-----------------------------------------------------------------------------
\* The invariant holds at first, and after every step.
LEMMA InitHolds == Init => IInv
  <1> SUFFICES ASSUME Init PROVE IInv
    OBVIOUS
  <1>1. PICK pid \in Pid : server = Process(pid, 1)
    BY DEF Init
  <1>2. /\ first = NoDump /\ queue = <<>> /\ DOMAIN dir = {} /\ clock = 1 /\ worker = NoWorker(0) /\ answer = NoAnswer
        /\ test = [ran |-> {}, appeared |-> FALSE, silent |-> FALSE, n |-> 0] /\ run = [units |-> {}, failed |-> FALSE]
    BY DEF Init
  <1>3. TypeOK
    <2>1. server \in Servers /\ first \in Dumps
      <3>1. 1 \in 1 .. MaxProcesses
        BY Bounds
      <3> QED BY <1>1, <1>2, <3>1 DEF Process, Servers, Dumps, NoDump
    <2>2. worker \in Workers
      BY <1>2, <2>1, NoWorkerType, Bounds
    <2>3. test \in Tests /\ run \in [units : SUBSET Units, failed : BOOLEAN]
      BY <1>2, Bounds DEF Tests
    <2>4. queue \in Seq(Posted)
      BY <1>2
    <2> QED BY <1>2, <2>1, <2>2, <2>3, <2>4 DEF TypeOK
  <1>4. worker.at = "off" /\ ~worker.ok /\ ~worker.linked /\ worker.seen = {} /\ Calls = {}
    BY <1>2 DEF NoWorker, Calls
  <1>5. server.up /\ server.fresh /\ server.ran = BootCode /\ server.marker = Unset
    BY <1>1 DEF Process
  <1>6. BootInv
    BY <1>2, <1>4, <1>5 DEF BootInv, Waited, Memory, Session, Starting
  <1>7. BootHeld /\ Held
    BY <1>2, <1>4, <1>5 DEF BootHeld, Held, NoDump
  <1>8. UnitsHoldAll
    BY <1>2 DEF UnitsHoldAll, Recorded
  <1> QED BY <1>3, <1>6, <1>7, <1>8 DEF IInv, UnitsInv

LEMMA NextHolds == IInv /\ [Next]_vars => IInv'
  <1> SUFFICES ASSUME IInv, [Next]_vars PROVE IInv'
    OBVIOUS
  <1>1. TypeOK /\ BootInv /\ Waited /\ Memory /\ BootHeld /\ Held /\ UnitsHoldAll
    BY DEF IInv, UnitsInv, BootInv
  <1>2. TypeOK'
    BY <1>1, TypeStep
  <1>3. BootInv'
    BY <1>1, WaitedStep, MemoryStep, SessionStep DEF BootInv
  <1>4. UnitsInv'
    BY <1>1, BootHeldStep, HeldStep, UnitsStep DEF UnitsInv
  <1> QED BY <1>2, <1>3, <1>4 DEF IInv

\* Whatever workers, servers and the directory do, the invariant holds.
THEOREM ServerInvariant == Spec => []IInv
  BY InitHolds, NextHolds, PTL DEF Spec

\* Every process of the server, worker and test has its type in every state.
THEOREM ServerTypes == Spec => []TypeOK
  <1>1. IInv => TypeOK
    BY DEF IInv
  <1> QED BY <1>1, ServerInvariant, PTL

\* start(): whatever other workers left behind, and wherever they died, a session
\* that started has for its boot the first dump its server wrote, and a whole one.
THEOREM TheBootIsWhole == Spec => []BootIsWhole
  <1>1. IInv => BootIsWhole
    BY DEF IInv, BootInv, Session, Ready, Booted, BootIsWhole
  <1> QED BY <1>1, ServerInvariant, PTL

\* endTest() and the observation made of it: no unit is recorded that misses what the
\* server ran at boot or for the test, or whose test ran something in a further page, or
\* in a child process or worker thread that wrote its dump in the window; of one that
\* outlives the window (boot-delta-coverage.ts) it says nothing.
THEOREM RecordedUnitsHoldAll == Spec => []UnitsHoldAll
  <1>1. IInv => UnitsHoldAll
    BY DEF IInv, UnitsInv
  <1> QED BY <1>1, ServerInvariant, PTL

\* waitPast() and maxOwnDumpTs(): the dump a process remembers as its boot is never
\* written over by a later one, asked for by this worker, by one that is gone or by the end.
THEOREM TheBootDumpStands == Spec => BootDumpStands
  <1> DEFINE Stands == server.marker \in DOMAIN dir /\ server'.n = server.n /\ dir' # <<>>
                         => dir'[server.marker] = dir[server.marker]
  <1>1. ASSUME IInv, [Next]_vars, server.marker \in DOMAIN dir, dir' # <<>>
        PROVE  dir'[server.marker] = dir[server.marker]
    <2>1. /\ clock \in Nat /\ server \in Servers /\ queue \in Seq(Posted) /\ DOMAIN dir \subseteq Names
          /\ Waited /\ Memory
      BY <1>1 DEF IInv, TypeOK, BootInv
    <2>2. server.marker \in Names /\ server.marker # Pending /\ server.marker.ts \in Nat /\ server.marker.ts <= clock
      BY <1>1, <2>1, Distinct DEF Memory, Names
    <2>3. CASE Evaluate
      <3>1. CASE UNCHANGED dir
        BY <3>1
      <3>2. CASE queue[1].op = "dump" /\ TakeCoverage
        <4>1. server.marker.ts < clock
          BY <2>1, <2>2, <2>3, <3>2, FirstCall DEF Evaluate, Memory
        <4>2. server.marker # Name(server.pid, clock, 0)
          BY <4>1, <2>1 DEF Name
        <4> QED BY <1>1, <3>2, <4>2 DEF TakeCoverage, Writing
      <3> QED BY <2>1, <2>3, <3>1, <3>2, FirstCall DEF Evaluate
    <2>4. CASE ServerEnds
      <3>1. server.marker # Name(server.pid, clock + 1, 0)
        BY <2>1, <2>2 DEF Name
      <3> QED BY <1>1, <2>4, <3>1 DEF ServerEnds, Writing
    <2>5. CASE ForeignDump
      BY <1>1, <2>5 DEF ForeignDump, Writing
    <2>6. CASE UNCHANGED dir \/ ClearDirectory
      BY <1>1, <2>6 DEF ClearDirectory
    <2>7. Evaluate \/ ServerEnds \/ ForeignDump \/ ClearDirectory \/ UNCHANGED dir
      BY <1>1 DEF Next, Hear, vars, Execute, ForeignRuns, PageAppears, Tick, ServerStarts, Open, GotPid, GotMarker,
                  GotClaim,
                  GotBoot, GotName, GotWindow, StartFails, BeginTest, EndTest, Trigger, TriggerFails,
                  OtherWorker,
                  WorkerEnds, Done
    <2> QED BY <2>3, <2>4, <2>5, <2>6, <2>7
  <1>2. IInv /\ [Next]_vars => [Stands]_vars
    BY <1>1
  <1> QED BY <1>2, ServerInvariant, PTL DEF Spec, BootDumpStands
=============================================================================
