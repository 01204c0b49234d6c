--------------------------- MODULE PipelineProofs ---------------------------
(***************************************************************************)
(* What TLAPS proves of jobs that share an archive: for any number of      *)
(* jobs, records, publishes and deaths, clocks and commits, a commit has   *)
(* two readings in the archive only if two jobs published it at once or an *)
(* older reading could not be removed; for every repository, adapter, set of jobs and history of their records,    *)
(* merges, publishes and deaths, a run of what covsel selects is as good   *)
(* as the whole suite; and a publish leaves as many files as it may keep,  *)
(* those that came meanwhile and those that could not be removed.          *)
(***************************************************************************)
EXTENDS Pipeline, FiniteSetTheorems, TLAPS

\* A job is a record of these fields.
Fields == {"at", "map", "todo", "listed", "extra"}
Shape == DOMAIN job = Job /\ \A w \in Job : DOMAIN job[w] = Fields

\* A job that is to remove the older readings of its commit knows them all, and
\* is alone at it, but for the commits that were published at once, or over a
\* reading that would not go.
Supersedes ==
  \A w \in Job : job[w].at = "remove" =>
    \A n \in DOMAIN archive :
      n.commit = job[w].map.commit => n \in job[w].todo \/ n.commit \in overlaid

AloneAtIt ==
  \A v, w \in Job :
    v # w /\ job[v].at \in Publishing /\ job[w].at \in Publishing
          /\ job[v].map.commit = job[w].map.commit => job[w].map.commit \in overlaid

ArchiveInv == Shape /\ Supersedes /\ AloneAtIt /\ OneReading

-----------------------------------------------------------------------------
\* Before anything is published there is nothing to supersede.
LEMMA InitArchiveInv == Init => ArchiveInv
  <1> SUFFICES ASSUME Init PROVE ArchiveInv
    OBVIOUS
  <1>1. DOMAIN archive = {}
    BY DEF Init
  <1>2. Shape
    BY DEF Init, Shape, Waiting, Fields
  <1> QED BY <1>1, <1>2 DEF Init, ArchiveInv, Supersedes, AloneAtIt, OneReading, Waiting, Publishing

\* A step of one job that takes no name to the archive, and does not begin to
\* publish, leaves the invariant be.
LEMMA MoveKeeps ==
  ASSUME ArchiveInv, NEW w \in Job, NEW j,
         DOMAIN j = Fields, Set(w, j), overlaid \subseteq overlaid', DOMAIN archive' \subseteq DOMAIN archive,
         j.at \in Publishing => job[w].at \in Publishing /\ j.map = job[w].map,
         j.at = "remove" => /\ job[w].at = "remove"
                            /\ \A n \in DOMAIN archive' \cap job[w].todo :
                                 n \in j.todo \/ n.commit \in overlaid'
  PROVE  ArchiveInv'
  <1>1. \A v \in Job : job'[v] = IF v = w THEN j ELSE job[v]
    BY DEF ArchiveInv, Shape, Set
  <1>2. Shape'
    BY <1>1 DEF ArchiveInv, Shape, Set
  <1>3. Supersedes'
    BY <1>1 DEF ArchiveInv, Supersedes, Publishing
  <1>4. AloneAtIt'
    BY <1>1 DEF ArchiveInv, AloneAtIt
  <1>5. OneReading'
    BY DEF ArchiveInv, OneReading
  <1> QED BY <1>2, <1>3, <1>4, <1>5 DEF ArchiveInv

LEMMA StepArchiveInv == ArchiveInv /\ [Next]_vars => ArchiveInv'
  <1> SUFFICES ASSUME ArchiveInv, [Next]_vars PROVE ArchiveInv'
    OBVIOUS
  <1>0. \A w \in Job : DOMAIN job[w] = Fields
    BY DEF ArchiveInv, Shape
  <1>1. CASE UNCHANGED vars
    BY <1>1 DEF vars, bounds, ArchiveInv, Shape, Supersedes, AloneAtIt, OneReading
  <1>2. ASSUME NEW w \in Job, Publish(w) PROVE ArchiveInv'
    <2> DEFINE j == [job[w] EXCEPT !.at = "remove", !.todo = Superseded(archive, job[w].map)]
    <2>1. /\ j.at = "remove" /\ j.map = job[w].map /\ j.todo = Superseded(archive, job[w].map)
          /\ DOMAIN j = Fields
      BY <1>0 DEF Fields
    <2>2. archive' = archive /\ overlaid \subseteq overlaid'
      BY <1>2 DEF Publish
    <2> HIDE DEF j
    <2>3. job' = [job EXCEPT ![w] = j]
      BY <1>2 DEF Publish, Set, j
    <2>4. \A v \in Job : job'[v] = IF v = w THEN j ELSE job[v]
      BY <2>3 DEF ArchiveInv, Shape
    <2>5. Shape'
      BY <2>1, <2>3, <2>4 DEF ArchiveInv, Shape
    <2>6. Supersedes'
      BY <2>1, <2>2, <2>4 DEF ArchiveInv, Supersedes, Superseded
    <2>7. ASSUME NEW v \in Job \ {w}, job[v].at \in Publishing, job[v].map.commit = job[w].map.commit
          PROVE job[w].map.commit \in overlaid'
      BY <1>2, <2>7 DEF Publish
    <2>8. AloneAtIt'
      BY <2>1, <2>2, <2>4, <2>7 DEF ArchiveInv, AloneAtIt
    <2>9. OneReading'
      BY <2>2 DEF ArchiveInv, OneReading
    <2> QED BY <2>5, <2>6, <2>8, <2>9 DEF ArchiveInv
  <1>3. ASSUME NEW w \in Job, Write(w) PROVE ArchiveInv'
    <2> DEFINE name == ArchiveName(job[w].map)
    <2>1. /\ job[w].at = "remove" /\ job[w].todo = {} /\ overlaid' = overlaid
          /\ DOMAIN archive' = DOMAIN archive \cup {name}
      BY <1>3 DEF Write, Written
    <2>2. name.commit = job[w].map.commit
      BY DEF ArchiveName
    <2> HIDE DEF name
    <2>3. /\ DOMAIN job' = Job
          /\ \A v \in Job : /\ job'[v].map = job[v].map
                            /\ job'[v].todo = job[v].todo
                            /\ job'[v].at = IF v = w THEN "writing" ELSE job[v].at
                            /\ DOMAIN job'[v] = Fields
      <3>1. job' = [v \in Job |->
                      IF v = w THEN [job[v] EXCEPT !.at = "writing"]
                      ELSE [job[v] EXCEPT !.extra =
                              IF job[v].at = "pruning" THEN @ \cup {ArchiveName(job[w].map)} ELSE @]]
        BY <1>3 DEF Write
      <3>2. \A v \in Job : job'[v] = IF v = w THEN [job[v] EXCEPT !.at = "writing"]
                      ELSE [job[v] EXCEPT !.extra =
                              IF job[v].at = "pruning" THEN @ \cup {ArchiveName(job[w].map)} ELSE @]
        BY <3>1
      <3> QED BY <1>0, <3>1, <3>2 DEF Fields
    <2>4. Shape'
      BY <2>3 DEF Shape
    <2>5. Supersedes'
      <3> SUFFICES ASSUME NEW v \in Job, job'[v].at = "remove", NEW n \in DOMAIN archive',
                          n.commit = job'[v].map.commit
                   PROVE  n \in job'[v].todo \/ n.commit \in overlaid'
        BY DEF Supersedes
      <3>1. v # w /\ job[v].at = "remove"
        BY <2>3
      <3>2. CASE n \in DOMAIN archive
        BY <2>1, <2>3, <3>1, <3>2 DEF ArchiveInv, Supersedes
      <3>3. CASE n = name
        BY <2>1, <2>2, <2>3, <3>1, <3>3 DEF ArchiveInv, AloneAtIt, Publishing
      <3> QED BY <2>1, <3>2, <3>3
    <2>6. AloneAtIt'
      BY <2>1, <2>3 DEF ArchiveInv, AloneAtIt, Publishing
    <2>7. \A n \in DOMAIN archive : n.commit = name.commit => n.commit \in overlaid
      BY <2>1, <2>2 DEF ArchiveInv, Supersedes
    <2>8. OneReading'
      BY <2>1, <2>7 DEF ArchiveInv, OneReading
    <2> QED BY <2>4, <2>5, <2>6, <2>8 DEF ArchiveInv
  <1>4. ASSUME NEW w \in Job, Unlink(w) PROVE ArchiveInv'
    <2>1. PICK n \in job[w].todo : Removed(n) /\ Set(w, [job[w] EXCEPT !.todo = @ \ {n}])
      BY <1>4 DEF Unlink
    <2> DEFINE j == [job[w] EXCEPT !.todo = @ \ {n}]
    <2>2. /\ j.at = job[w].at /\ j.map = job[w].map /\ j.todo = job[w].todo \ {n}
          /\ DOMAIN j = Fields
      BY <1>0 DEF Fields
    <2>3. DOMAIN archive' = DOMAIN archive \ {n}
      BY <2>1 DEF Removed
    <2>4. Set(w, j) /\ UNCHANGED overlaid
      BY <1>4, <2>1 DEF Unlink
    <2> HIDE DEF j
    <2> QED BY <2>2, <2>3, <2>4, MoveKeeps
  <1>4a. ASSUME NEW w \in Job, WillNotGo(w) PROVE ArchiveInv'
    <2>1. PICK n \in job[w].todo \cap DOMAIN archive :
            IF job[w].at = "remove"
            THEN /\ Set(w, [job[w] EXCEPT !.todo = @ \ {n}])
                 /\ overlaid' = overlaid \cup {n.commit}
            ELSE /\ Set(w, [job[w] EXCEPT !.todo = @ \ {n}, !.extra = @ \cup {n}])
                 /\ UNCHANGED overlaid
      BY <1>4a DEF WillNotGo
    <2> DEFINE i == [job[w] EXCEPT !.todo = @ \ {n}]
               j == [job[w] EXCEPT !.todo = @ \ {n}, !.extra = @ \cup {n}]
    <2>2. /\ i.at = job[w].at /\ i.map = job[w].map /\ i.todo = job[w].todo \ {n}
          /\ j.at = job[w].at /\ j.map = job[w].map
          /\ DOMAIN i = Fields /\ DOMAIN j = Fields
      BY <1>0 DEF Fields
    <2>3. archive' = archive
      BY <1>4a DEF WillNotGo
    <2>4. CASE job[w].at = "remove"
      <3>1. Set(w, i) /\ overlaid' = overlaid \cup {n.commit}
        BY <2>1, <2>4
      <3> HIDE DEF i
      <3> QED BY <2>2, <2>3, <2>4, <3>1, MoveKeeps
    <2>5. CASE job[w].at # "remove"
      <3>1. Set(w, j) /\ UNCHANGED overlaid
        BY <2>1, <2>5
      <3> HIDE DEF j
      <3> QED BY <2>2, <2>3, <2>5, <3>1, MoveKeeps
    <2> QED BY <2>4, <2>5
  <1>5. ASSUME NEW w \in Job, Close(w) PROVE ArchiveInv'
    <2> DEFINE j == [job[w] EXCEPT !.at = "prune"]
    <2>1. /\ j.at = "prune" /\ j.map = job[w].map
          /\ DOMAIN j = Fields
      BY <1>0 DEF Fields
    <2>2. DOMAIN archive' \subseteq DOMAIN archive /\ Set(w, j) /\ UNCHANGED overlaid /\ job[w].at = "writing"
      BY <1>5 DEF Close, Written
    <2> HIDE DEF j
    <2> QED BY <2>1, <2>2, MoveKeeps DEF Publishing
  <1>6. ASSUME NEW w \in Job, Prune(w) PROVE ArchiveInv'
    <2> DEFINE j == [job[w] EXCEPT !.at = "pruning", !.todo = Stale(archive, Keep), !.extra = {}]
    <2>1. /\ j.at = "pruning" /\ j.map = job[w].map
          /\ DOMAIN j = Fields
      BY <1>0 DEF Fields
    <2>2. archive' = archive /\ Set(w, j) /\ UNCHANGED overlaid /\ job[w].at = "prune"
      BY <1>6 DEF Prune
    <2> HIDE DEF j
    <2> QED BY <2>1, <2>2, MoveKeeps DEF Publishing
  <1>7. ASSUME NEW w \in Job, NEW m, archive' = archive, UNCHANGED overlaid, Set(w, [Waiting EXCEPT !.map = m])
        PROVE ArchiveInv'
    <2> DEFINE j == [Waiting EXCEPT !.map = m]
    <2>1. /\ j.at = "idle"
          /\ DOMAIN j = Fields
      BY DEF Waiting, Fields
    <2> HIDE DEF j
    <2> QED BY <1>7, <2>1, MoveKeeps DEF Publishing, j
  <1>8. ASSUME NEW w \in Job, NEW m, archive' = archive, UNCHANGED overlaid, Idle(w),
               Set(w, [job[w] EXCEPT !.map = m])
        PROVE ArchiveInv'
    <2> DEFINE j == [job[w] EXCEPT !.map = m]
    <2>1. /\ j.at = "idle"
          /\ DOMAIN j = Fields
      BY <1>0, <1>8 DEF Idle, Fields
    <2> HIDE DEF j
    <2> QED BY <1>8, <2>1, MoveKeeps DEF Publishing, j
  <1>9. ASSUME NEW w \in Job, NEW at, NEW l, archive' = archive, UNCHANGED overlaid, at = "fetch",
               Set(w, [job[w] EXCEPT !.at = at, !.listed = l])
        PROVE ArchiveInv'
    <2> DEFINE j == [job[w] EXCEPT !.at = at, !.listed = l]
    <2>1. /\ j.at = "fetch"
          /\ DOMAIN j = Fields
      BY <1>0, <1>9 DEF Fields
    <2> HIDE DEF j
    <2> QED BY <1>9, <2>1, MoveKeeps DEF Publishing, j
  <1>10. ASSUME NEW w \in Job, NEW forced \in BOOLEAN, Install(w, forced) PROVE ArchiveInv'
    <2>1. archive' = archive /\ overlaid' = overlaid /\ job[w].at = "fetch"
      BY <1>10 DEF Install
    <2>2. CASE \E m : Set(w, [Waiting EXCEPT !.map = m])
      BY <2>1, <2>2, <1>7
    <2>3. CASE Set(w, [job[w] EXCEPT !.listed = Tail(@)])
      <3> DEFINE j == [job[w] EXCEPT !.listed = Tail(@)]
      <3>1. /\ j.at = "fetch"
            /\ DOMAIN j = Fields
        BY <1>0, <2>1 DEF Fields
      <3> HIDE DEF j
      <3> QED BY <2>1, <2>3, <3>1, MoveKeeps DEF Publishing, j
    <2> QED BY <1>10, <2>2, <2>3 DEF Install, Fetched
  <1>11. ASSUME NEW w \in Job,
                \/ \E c \in Commit, files \in Parts, at \in Instant : Record(w, c, files, at)
                \/ \E maps \in SUBSET shards : Merge(w, maps)
                \/ Start(w)
         PROVE ArchiveInv'
    BY <1>8, <1>11 DEF Record, Merge, Start
  <1>12. ASSUME NEW w \in Job, \E c \in Commit, has \in Depths : Fetch(w, c, has \cup {c})
         PROVE ArchiveInv'
    BY <1>9, <1>12 DEF Fetch
  <1>13. ASSUME NEW w \in Job, Upload(w) PROVE ArchiveInv'
    BY <1>13 DEF Upload, ArchiveInv, Shape, Supersedes, AloneAtIt, OneReading
  <1>14. ASSUME NEW w \in Job, Published(w) \/ Kill(w) PROVE ArchiveInv'
    BY <1>7, <1>14 DEF Published, Kill
  <1> QED BY <1>1, <1>2, <1>3, <1>4, <1>4a, <1>5, <1>6, <1>10, <1>11, <1>12, <1>13, <1>14 DEF Next

-----------------------------------------------------------------------------
\* What a publisher knows of its commit, in every reachable state: publishMap
\* (archive.ts) lists the older readings before it removes them one by one.
THEOREM PublishersKnow == Spec => []ArchiveInv
  BY InitArchiveInv, StepArchiveInv, PTL DEF Spec

\* However many jobs record, publish, fetch and die, and whatever their clocks
\* say, a commit has one reading at most, unless two jobs published it at once or
\* one went on over a reading that rmSync (archive.ts) could not remove.
THEOREM OneReadingOfACommit == Spec => []OneReading
  <1>1. ArchiveInv => OneReading
    BY DEF ArchiveInv
  <1> QED BY <1>1, PublishersKnow, PTL

-----------------------------------------------------------------------------
(***************************************************************************)
(* The maps of the jobs, and the tests their runs leave out.               *)
(***************************************************************************)
\* The tests a key of a map stands for.
TestsOf(k) == IF k \in File THEN {u \in Unit : FileOf[u] = k} ELSE {k}

\* A map credits a test with all it reads, or with nothing; it knows every test of
\* a file or none; and the tests it holds passed at the commit it names.
Credits(m) ==
  \A k \in DOMAIN m.entries : m.entries[k] = {} \/ \A u \in TestsOf(k) : Reads[u] \subseteq m.entries[k]
Together(m) ==
  \A k \in DOMAIN m.entries, u \in Unit :
    FileOf[u] = Holder(k) => \E other \in DOMAIN m.entries : u \in TestsOf(other)
Passed(m) ==
  m.commit \in Commit => \A k \in DOMAIN m.entries : TestsOf(k) \cap Fails(m.commit) = {}
Describes(m) ==
  DOMAIN m.entries \subseteq File \cup Unit /\ Credits(m) /\ Together(m) /\ Passed(m)

Sound(m) == m \in {NoMap, Torn} \/ Describes(m)

MapsInv ==
  /\ adapter \in Adapters
  /\ \A w \in Job : Sound(job[w].map)
  /\ \A n \in DOMAIN archive : Sound(archive[n])
  /\ \A m \in shards : Describes(m)

-----------------------------------------------------------------------------
(* What a recording and a merge make of the maps.                          *)

\* A run of whole files that does not fail ran every test in them, and they pass.
LEMMA RecordedPass ==
  ASSUME NEW a, NEW files, NEW failing, ~RecordFails(a, files, failing),
         NEW u \in Unit, FileOf[u] \in files
  PROVE  u \notin failing
  <1> DEFINE r == IF a = "suffix" THEN files ELSE {FileOf[u]}
  <1>1. r \in (IF a = "suffix" THEN {files} ELSE {{f} : f \in files}) /\ FileOf[u] \in r
    OBVIOUS
  <1> HIDE DEF r
  <1>2. Status(a, Invocation(r, Unfiltered), failing) = 0
    BY <1>1 DEF RecordFails
  <1>3. u \in Runs(a, Invocation(r, Unfiltered))
    BY <1>1 DEF Runs, Invocation
  <1> QED BY <1>2, <1>3 DEF Status

\* What one file of a recording brings to its map.
UnitsOf(a, f) == IF a \in {"file", "harness"} THEN FileUnit(f, Reads) ELSE TestUnits(f, Reads)

LEMMA RecordingDescribes ==
  ASSUME NEW a, NEW c \in Commit, NEW at, NEW files \in Parts, ~RecordFails(a, files, Fails(c))
  PROVE  Describes(Map(c, at, RecordFiles(a, files, Reads)))
  <1> DEFINE units == {UnitsOf(a, f) : f \in files}
             E == RecordFiles(a, files, Reads)
             m == Map(c, at, E)
  <1>1. files \subseteq File /\ File \cap Unit = {} /\ FileOf \in [Unit -> File]
    BY PipelineAssumption, RunnersAssumption
  <1>2. E = [k \in UNION {DOMAIN e : e \in units} |-> (CHOOSE e \in units : k \in DOMAIN e)[k]]
    BY DEF RecordFiles, UnitsOf
  <1>3. m.commit = c /\ m.entries = E
    BY DEF Map
  <1> HIDE DEF E, m
  <1>4. \A k : k \in DOMAIN E <=> \E f \in files : k \in DOMAIN UnitsOf(a, f)
    BY <1>2
  <1>5. \A k \in DOMAIN E : \E f \in files : k \in DOMAIN UnitsOf(a, f) /\ E[k] = UnitsOf(a, f)[k]
    <2> SUFFICES ASSUME NEW k \in DOMAIN E
                 PROVE  \E f \in files : k \in DOMAIN UnitsOf(a, f) /\ E[k] = UnitsOf(a, f)[k]
      OBVIOUS
    <2> DEFINE e == CHOOSE e \in units : k \in DOMAIN e
    <2>1. \E e1 \in units : k \in DOMAIN e1
      BY <1>4
    <2>2. e \in units /\ k \in DOMAIN e
      BY <2>1
    <2>3. E[k] = e[k]
      BY <1>2
    <2> HIDE DEF e
    <2> QED BY <2>2, <2>3
  <1>6. CASE a \in {"file", "harness"}
    <2>1. \A f \in files : DOMAIN UnitsOf(a, f) = {f} /\ UnitsOf(a, f)[f] = UNION {Reads[u] : u \in {v \in Unit : FileOf[v] = f}}
      BY <1>6 DEF FileUnit, UnitsOf
    <2>2. DOMAIN E = files
      <3>1. ASSUME NEW k \in DOMAIN E PROVE k \in files
        <4>1. PICK f \in files : k \in DOMAIN UnitsOf(a, f)
          BY <1>4
        <4> QED BY <2>1, <4>1
      <3>2. \A k \in files : k \in DOMAIN E
        BY <1>4, <2>1
      <3> HIDE DEF E
      <3> QED BY <3>1, <3>2
    <2>3. Credits(m)
      <3> SUFFICES ASSUME NEW k \in files, NEW u \in TestsOf(k) PROVE Reads[u] \subseteq E[k]
        BY <1>3, <2>2 DEF Credits
      <3>1. k \in DOMAIN E /\ u \in {v \in Unit : FileOf[v] = k}
        BY <1>1, <2>2 DEF TestsOf
      <3>2. PICK f \in files : k \in DOMAIN UnitsOf(a, f) /\ E[k] = UnitsOf(a, f)[k]
        BY <1>5, <3>1
      <3>3. f = k /\ E[k] = UNION {Reads[v] : v \in {v \in Unit : FileOf[v] = k}}
        BY <2>1, <3>2
      <3> QED BY <3>1, <3>3
    <2>4. Together(m)
      BY <1>1, <1>3, <2>2 DEF Together, TestsOf, Holder
    <2>5. Passed(m)
      BY <1>1, <1>3, <2>2, RecordedPass DEF Passed, TestsOf
    <2> QED BY <1>1, <1>3, <2>2, <2>3, <2>4, <2>5 DEF Describes, m, E
  <1>7. CASE a \notin {"file", "harness"}
    <2>1. \A f \in files : /\ DOMAIN UnitsOf(a, f) = {v \in Unit : FileOf[v] = f}
                           /\ \A u \in DOMAIN UnitsOf(a, f) : UnitsOf(a, f)[u] = Reads[u]
      BY <1>7 DEF TestUnits, UnitsOf
    <2>2. DOMAIN E = {u \in Unit : FileOf[u] \in files}
      <3>1. ASSUME NEW k \in DOMAIN E PROVE k \in Unit /\ FileOf[k] \in files
        <4>1. PICK f \in files : k \in DOMAIN UnitsOf(a, f)
          BY <1>4
        <4> QED BY <2>1, <4>1
      <3>2. \A k \in Unit : FileOf[k] \in files => k \in DOMAIN E
        BY <1>4, <2>1
      <3> QED BY <3>1, <3>2
    <2>3. \A k \in DOMAIN E : TestsOf(k) = {k} /\ Holder(k) = FileOf[k] /\ E[k] = Reads[k]
      BY <1>1, <1>5, <2>1, <2>2 DEF TestsOf, Holder
    <2>4. Credits(m)
      BY <1>3, <2>3 DEF Credits
    <2>5. Together(m)
      BY <1>3, <2>2, <2>3 DEF Together
    <2>6. Passed(m)
      BY <1>3, <2>2, <2>3, RecordedPass DEF Passed
    <2> QED BY <1>3, <2>2, <2>4, <2>5, <2>6 DEF Describes, m, E
  <1> QED BY <1>6, <1>7

LEMMA MergeDescribes ==
  ASSUME NEW maps, maps # {}, \A m \in maps : Describes(m)
  PROVE  Describes(MergeMaps(maps))
  <1> DEFINE commits == {m.commit : m \in maps}
             All(k) == {m.entries[k] : m \in {n \in maps : k \in DOMAIN n.entries}}
             merged == MergeMaps(maps)
  <1>1. /\ merged.commit = IF \E c \in commits : commits = {c} THEN CHOOSE c \in commits : TRUE ELSE NoCommit
        /\ DOMAIN merged.entries = UNION {DOMAIN m.entries : m \in maps}
        /\ \A k \in DOMAIN merged.entries : merged.entries[k] = IF {} \in All(k) THEN {} ELSE UNION All(k)
    BY DEF MergeMaps, Map
  <1> HIDE DEF merged
  <1>2. \A k \in DOMAIN merged.entries : \E m \in maps : k \in DOMAIN m.entries
    BY <1>1
  <1>3. \A m \in maps : DOMAIN m.entries \subseteq DOMAIN merged.entries
    BY <1>1
  <1>4. Credits(merged)
    <2> SUFFICES ASSUME NEW k \in DOMAIN merged.entries, merged.entries[k] # {},
                        NEW u \in TestsOf(k)
                 PROVE  Reads[u] \subseteq merged.entries[k]
      BY DEF Credits
    <2>1. PICK m \in maps : k \in DOMAIN m.entries
      BY <1>2
    <2>2. m.entries[k] \in All(k)
      BY <2>1
    <2>3. merged.entries[k] = UNION All(k) /\ {} \notin All(k)
      BY <1>1
    <2>4. Reads[u] \subseteq m.entries[k]
      BY <2>1, <2>2, <2>3 DEF Describes, Credits
    <2> QED BY <2>2, <2>3, <2>4
  <1>5. Together(merged)
    BY <1>2, <1>3 DEF Describes, Together
  <1>6. Passed(merged)
    <2> SUFFICES ASSUME merged.commit \in Commit
                 PROVE  \A m \in maps : m.commit = merged.commit
      BY <1>2 DEF Passed, Describes
    <2>1. \E c \in commits : commits = {c}
      BY <1>1, PipelineAssumption
    <2> QED BY <1>1, <2>1
  <1> QED BY <1>2, <1>4, <1>5, <1>6 DEF Describes, merged

-----------------------------------------------------------------------------
LEMMA InitMapsInv == Init => MapsInv
  BY DEF Init, MapsInv, Waiting, Sound

\* A step of one job whose map stays sound, and that brings nothing to the archive.
LEMMA MapStep ==
  ASSUME Shape, MapsInv, NEW w \in Job, NEW j, Set(w, j), Sound(j.map),
         UNCHANGED <<adapter, shards>>, \A n \in DOMAIN archive' : Sound(archive'[n])
  PROVE  MapsInv'
  <1>1. \A v \in Job : job'[v] = IF v = w THEN j ELSE job[v]
    BY DEF Shape, Set
  <1>2. \A m : Sound(m)' <=> Sound(m)
    OBVIOUS
  <1> QED BY <1>1 DEF MapsInv

LEMMA StepMapsInv == Shape /\ MapsInv /\ [Next]_vars => MapsInv'
  <1> SUFFICES ASSUME Shape, MapsInv, [Next]_vars PROVE MapsInv'
    OBVIOUS
  <1>0. \A w \in Job : DOMAIN job[w] = Fields /\ Sound(job[w].map)
    BY DEF Shape, MapsInv
  <1>1. CASE UNCHANGED vars
    BY <1>1 DEF vars, MapsInv
  <1>2. ASSUME NEW w \in Job, NEW m, Sound(m), UNCHANGED <<adapter, archive, shards>>,
               \/ Set(w, [job[w] EXCEPT !.map = m])
               \/ Set(w, [Waiting EXCEPT !.map = m])
        PROVE  MapsInv'
    <2> DEFINE i == [job[w] EXCEPT !.map = m]
               j == [Waiting EXCEPT !.map = m]
    <2>1. i.map = m /\ j.map = m
      BY <1>0 DEF Fields, Waiting
    <2> HIDE DEF i, j
    <2>2. Set(w, i) \/ Set(w, j)
      BY <1>2 DEF i, j
    <2>3. \A n \in DOMAIN archive' : Sound(archive'[n])
      BY <1>2 DEF MapsInv
    <2> QED BY <1>2, <2>1, <2>2, <2>3, MapStep
  <1>3. ASSUME NEW w \in Job, NEW j, Set(w, j), j.map = job[w].map, UNCHANGED <<adapter, shards>>,
               \A n \in DOMAIN archive' : Sound(archive'[n])
        PROVE  MapsInv'
    BY <1>0, <1>3, MapStep
  <1>4. ASSUME NEW w \in Job, \E c \in Commit, files \in Parts, at \in Instant : Record(w, c, files, at)
        PROVE  MapsInv'
    <2>1. PICK c \in Commit, files \in Parts, at \in Instant : Record(w, c, files, at)
      BY <1>4
    <2> DEFINE m == Map(c, at, RecordFiles(adapter, files, Reads))
    <2>2. Sound(m)
      BY <2>1, RecordingDescribes DEF Record, Sound
    <2>3. UNCHANGED <<adapter, archive, shards>> /\ Set(w, [job[w] EXCEPT !.map = m])
      BY <2>1 DEF Record
    <2> HIDE DEF m
    <2> QED BY <1>2, <2>2, <2>3
  <1>5. ASSUME NEW w \in Job, \E maps \in SUBSET shards : Merge(w, maps) PROVE MapsInv'
    <2>1. PICK maps \in SUBSET shards : Merge(w, maps)
      BY <1>5
    <2>2. Sound(MergeMaps(maps))
      BY <2>1, MergeDescribes DEF Merge, MapsInv, Sound
    <2>3. UNCHANGED <<adapter, archive, shards>> /\ Set(w, [job[w] EXCEPT !.map = MergeMaps(maps)])
      BY <2>1 DEF Merge
    <2> QED BY <1>2, <2>2, <2>3
  <1>6. ASSUME NEW w \in Job, Start(w) PROVE MapsInv'
    <2>1. Sound(NoMap)
      BY DEF Sound
    <2> QED BY <1>2, <1>6, <2>1 DEF Start
  <1>7. ASSUME NEW w \in Job, Published(w) \/ Kill(w) PROVE MapsInv'
    <2>1. Sound(Torn)
      BY DEF Sound
    <2> QED BY <1>0, <1>2, <1>7, <2>1 DEF Published, Kill
  <1>8. ASSUME NEW w \in Job, NEW forced \in BOOLEAN, Install(w, forced) PROVE MapsInv'
    <2>1. UNCHANGED <<adapter, archive, shards>>
      BY <1>8 DEF Install
    <2>2. \A n \in DOMAIN archive' : Sound(archive'[n])
      BY <2>1 DEF MapsInv
    <2>3. \A n : Sound(ReadArchivedMap(archive, n))
      BY DEF ReadArchivedMap, MapsInv, Sound
    <2>4. CASE Set(w, [job[w] EXCEPT !.listed = Tail(@)])
      <3> DEFINE j == [job[w] EXCEPT !.listed = Tail(@)]
      <3>1. j.map = job[w].map
        BY <1>0 DEF Fields
      <3> HIDE DEF j
      <3>2. Set(w, j)
        BY <2>4 DEF j
      <3> QED BY <1>3, <2>1, <2>2, <3>1, <3>2
    <2>5. CASE \E m : Sound(m) /\ Set(w, [Waiting EXCEPT !.map = m])
      BY <1>2, <2>1, <2>5
    <2> QED BY <1>0, <1>8, <2>3, <2>4, <2>5 DEF Install, Fetched
  <1>9. ASSUME NEW w \in Job, \E c \in Commit, has \in Depths : Fetch(w, c, has \cup {c})
        PROVE  MapsInv'
    <2>1. PICK l : /\ UNCHANGED <<adapter, archive, shards>>
                   /\ Set(w, [job[w] EXCEPT !.at = "fetch", !.listed = l])
      BY <1>9 DEF Fetch
    <2> DEFINE j == [job[w] EXCEPT !.at = "fetch", !.listed = l]
    <2>2. j.map = job[w].map
      BY <1>0 DEF Fields
    <2>3. \A n \in DOMAIN archive' : Sound(archive'[n])
      BY <2>1 DEF MapsInv
    <2> HIDE DEF j
    <2>4. Set(w, j)
      BY <2>1 DEF j
    <2> QED BY <1>3, <2>1, <2>2, <2>3, <2>4
  <1>10. ASSUME NEW w \in Job, Upload(w) PROVE MapsInv'
    BY <1>10 DEF Upload, MapsInv, Sound
  <1>11. ASSUME NEW w \in Job, Publish(w) PROVE MapsInv'
    <2> DEFINE j == [job[w] EXCEPT !.at = "remove", !.todo = Superseded(archive, job[w].map)]
    <2>1. j.map = job[w].map
      BY <1>0 DEF Fields
    <2> HIDE DEF j
    <2>2. UNCHANGED <<adapter, archive, shards>> /\ Set(w, j)
      BY <1>11 DEF Publish, j
    <2> QED BY <1>3, <2>1, <2>2 DEF MapsInv
  <1>12. ASSUME NEW w \in Job, Unlink(w) PROVE MapsInv'
    <2>1. PICK n \in job[w].todo : Removed(n) /\ Set(w, [job[w] EXCEPT !.todo = @ \ {n}])
      BY <1>12 DEF Unlink
    <2> DEFINE j == [job[w] EXCEPT !.todo = @ \ {n}]
    <2>2. j.map = job[w].map
      BY <1>0 DEF Fields
    <2>3. \A k \in DOMAIN archive' : Sound(archive'[k])
      BY <2>1 DEF Removed, MapsInv
    <2> HIDE DEF j
    <2>4. UNCHANGED <<adapter, shards>> /\ Set(w, j)
      BY <1>12, <2>1 DEF Unlink, j
    <2> QED BY <1>3, <2>2, <2>3, <2>4
  <1>12a. ASSUME NEW w \in Job, WillNotGo(w) PROVE MapsInv'
    <2>1. PICK n : \/ Set(w, [job[w] EXCEPT !.todo = @ \ {n}])
                   \/ Set(w, [job[w] EXCEPT !.todo = @ \ {n}, !.extra = @ \cup {n}])
      BY <1>12a DEF WillNotGo
    <2> DEFINE i == [job[w] EXCEPT !.todo = @ \ {n}]
               j == [job[w] EXCEPT !.todo = @ \ {n}, !.extra = @ \cup {n}]
    <2>2. i.map = job[w].map /\ j.map = job[w].map
      BY <1>0 DEF Fields
    <2> HIDE DEF i, j
    <2>3. UNCHANGED <<adapter, archive, shards>> /\ (Set(w, i) \/ Set(w, j))
      BY <1>12a, <2>1 DEF WillNotGo, i, j
    <2> QED BY <1>3, <2>2, <2>3 DEF MapsInv
  <1>13. ASSUME NEW w \in Job, Write(w) PROVE MapsInv'
    <2>1. \A v \in Job : job'[v].map = job[v].map
      <3>1. job' = [v \in Job |->
                      IF v = w THEN [job[v] EXCEPT !.at = "writing"]
                      ELSE [job[v] EXCEPT !.extra =
                              IF job[v].at = "pruning" THEN @ \cup {ArchiveName(job[w].map)} ELSE @]]
        BY <1>13 DEF Write
      <3>2. \A v \in Job : job'[v] = IF v = w THEN [job[v] EXCEPT !.at = "writing"]
                      ELSE [job[v] EXCEPT !.extra =
                              IF job[v].at = "pruning" THEN @ \cup {ArchiveName(job[w].map)} ELSE @]
        BY <3>1
      <3> QED BY <1>0, <3>2 DEF Fields
    <2>2. \A n \in DOMAIN archive' : Sound(archive'[n])
      BY <1>13 DEF Write, Written, MapsInv, Sound
    <2>3. UNCHANGED <<adapter, shards>>
      BY <1>13 DEF Write
    <2> QED BY <2>1, <2>2, <2>3 DEF MapsInv
  <1>14. ASSUME NEW w \in Job, Close(w) PROVE MapsInv'
    <2> DEFINE j == [job[w] EXCEPT !.at = "prune"]
    <2>1. j.map = job[w].map
      BY <1>0 DEF Fields
    <2>2. \A n \in DOMAIN archive' : Sound(archive'[n])
      BY <1>0, <1>14 DEF Close, Written, MapsInv
    <2> HIDE DEF j
    <2>3. UNCHANGED <<adapter, shards>> /\ Set(w, j)
      BY <1>14 DEF Close, j
    <2> QED BY <1>3, <2>1, <2>2, <2>3
  <1>15. ASSUME NEW w \in Job, Prune(w) PROVE MapsInv'
    <2> DEFINE j == [job[w] EXCEPT !.at = "pruning", !.todo = Stale(archive, Keep), !.extra = {}]
    <2>1. j.map = job[w].map
      BY <1>0 DEF Fields
    <2> HIDE DEF j
    <2>2. UNCHANGED <<adapter, archive, shards>> /\ Set(w, j)
      BY <1>15 DEF Prune, j
    <2> QED BY <1>3, <2>1, <2>2 DEF MapsInv
  <1> QED BY <1>1, <1>4, <1>5, <1>6, <1>7, <1>8, <1>9, <1>10, <1>11, <1>12, <1>12a, <1>13,
            <1>14, <1>15 DEF Next

-----------------------------------------------------------------------------
(* What a run selects, and what the adapter makes of it.                   *)

\* A status of 0 is that of every invocation.
LEMMA WorstIsZero ==
  ASSUME NEW statuses, DOMAIN statuses \subseteq {1, 2}, WorstStatus(statuses) = 0,
         NEW i \in DOMAIN statuses
  PROVE  statuses[i] = 0
  <1> DEFINE failed == {k \in DOMAIN statuses : statuses[k] # 0}
  <1>1. failed = {} \/ \E k \in failed : \A l \in failed : l <= k
    <2>1. CASE 2 \in failed
      BY <2>1
    <2>2. CASE 2 \notin failed
      BY <2>2
    <2> QED BY <2>1, <2>2
  <1>2. failed # {} => (CHOOSE k \in failed : \A l \in failed : l <= k) \in failed
    BY <1>1
  <1>3. failed = {}
    BY <1>2 DEF WorstStatus
  <1> QED BY <1>3

LEMMA InTwoHolds ==
  ASSUME NEW whole, NEW named, NEW titles
  PROVE  /\ DOMAIN InTwo(whole, named, titles) \subseteq {1, 2}
         /\ whole # {} => \E i \in DOMAIN InTwo(whole, named, titles) :
                            InTwo(whole, named, titles)[i] = Invocation(whole, Unfiltered)
         /\ named # {} => \E i \in DOMAIN InTwo(whole, named, titles) :
                            InTwo(whole, named, titles)[i] = Invocation(named, titles)
  <1> DEFINE x == Invocation(whole, Unfiltered)
             y == Invocation(named, titles)
  <1>1. x.files = whole /\ y.files = named
    BY DEF Invocation
  <1> HIDE DEF x, y
  <1>2. InTwo(whole, named, titles) =
          (IF whole = {} THEN <<>> ELSE <<x>>) \o (IF named = {} THEN <<>> ELSE <<y>>)
    BY <1>1 DEF InTwo, x, y
  <1>3. CASE whole = {} /\ named = {}
    BY <1>2, <1>3
  <1>4. CASE whole = {} /\ named # {}
    <2>1. InTwo(whole, named, titles) = <<y>>
      BY <1>2, <1>4
    <2> QED BY <1>4, <2>1 DEF y
  <1>5. CASE whole # {} /\ named = {}
    <2>1. InTwo(whole, named, titles) = <<x>>
      BY <1>2, <1>5
    <2> QED BY <1>5, <2>1 DEF x
  <1>6. CASE whole # {} /\ named # {}
    <2> DEFINE z == <<x>> \o <<y>>
    <2>1. InTwo(whole, named, titles) = z
      BY <1>2, <1>6
    <2>2. <<x>> \in Seq({x, y}) /\ <<y>> \in Seq({x, y})
      OBVIOUS
    <2>3. DOMAIN z = {1, 2} /\ z[1] = x /\ z[2] = y
      BY <2>2
    <2> QED BY <2>1, <2>3 DEF x, y
  <1> QED BY <1>3, <1>4, <1>5, <1>6

\* A test that is to run by its file or by its own name is run by an invocation,
\* and one that fails shows in the status.
LEMMA SelectedAreRun ==
  ASSUME NEW a \in {"file", "name", "suffix", "node", "harness"}, NEW selected, NEW failing,
         selected \subseteq File \cup Unit,
         NEW u \in Unit, u \in selected \/ FileOf[u] \in selected,
         RunSelected(a, selected, failing) = 0
  PROVE  u \notin failing
  <1> DEFINE invs == RunSelection(a, selected)
  <1>1. FileOf[u] \in File /\ u \notin File /\ <<TitleOf[u], TitleOf[u]>> \in EndsIn
    BY RunnersAssumption
  <1>2. DOMAIN invs \subseteq {1, 2} /\ \E i \in DOMAIN invs : u \in Runs(a, invs[i])
    <2>1. CASE a \in {"file", "harness"}
      <3>1. FileOf[u] \in {Holder(k) : k \in selected}
        BY <1>1 DEF Holder
      <3>2. invs = <<Invocation({Holder(k) : k \in selected}, Unfiltered)>>
        BY <2>1 DEF RunSelection, FormatSelection
      <3>3. DOMAIN invs = {1} /\ invs[1] = Invocation({Holder(k) : k \in selected}, Unfiltered)
        BY <3>2
      <3> HIDE DEF invs
      <3>4. u \in Runs(a, invs[1])
        BY <3>1, <3>3 DEF Runs, Invocation
      <3> QED BY <3>3, <3>4
    <2>2. ASSUME NEW named, a \in {"name", "suffix", "node"},
                 invs = InTwo(Whole(selected), named, Titles(selected)),
                 FileOf[u] \in Whole(selected) \/ (u \in selected /\ FileOf[u] \in named)
          PROVE  DOMAIN invs \subseteq {1, 2} /\ \E i \in DOMAIN invs : u \in Runs(a, invs[i])
      <3> HIDE DEF invs
      <3>1. DOMAIN invs \subseteq {1, 2}
        BY <2>2, InTwoHolds
      <3>2. CASE FileOf[u] \in Whole(selected)
        <4>1. PICK i \in DOMAIN invs : invs[i] = Invocation(Whole(selected), Unfiltered)
          BY <2>2, <3>2, InTwoHolds
        <4> QED BY <3>1, <3>2, <4>1 DEF Runs, Invocation
      <3>3. CASE u \in selected /\ FileOf[u] \in named
        <4>1. PICK i \in DOMAIN invs : invs[i] = Invocation(named, Titles(selected))
          BY <2>2, <3>3, InTwoHolds
        <4>2. TitleOf[u] \in Titles(selected)
          BY <3>3 DEF Titles
        <4>3. Matches(a, TitleOf[u], Titles(selected))
          BY <1>1, <4>2 DEF Matches
        <4>4. u \in Runs(a, Invocation(named, Titles(selected)))
          BY <3>3, <4>3 DEF Runs, Invocation
        <4> QED BY <3>1, <4>1, <4>4
      <3> QED BY <2>2, <3>2, <3>3
    <2>3. FileOf[u] \in Whole(selected) \/ (u \in selected /\ FileOf[u] \in Named(selected) \ Whole(selected))
      BY <1>1 DEF Whole, Named
    <2>4. CASE a \in {"name", "suffix"}
      <3>1. invs = InTwo(Whole(selected), Named(selected) \ Whole(selected), Titles(selected))
        BY <2>4 DEF RunSelection, RunMochaSelection
      <3> HIDE DEF invs
      <3> QED BY <2>2, <2>3, <2>4, <3>1
    <2>5. CASE a = "node"
      <3>1. invs = InTwo(Whole(selected), Named(selected), Titles(selected))
        BY <2>5 DEF RunSelection, RunNodeTestSelection
      <3> HIDE DEF invs
      <3> QED BY <2>2, <2>3, <2>5, <3>1
    <2> QED BY <2>1, <2>4, <2>5
  <1>3. PICK i \in DOMAIN invs : u \in Runs(a, invs[i])
    BY <1>2
  <1> DEFINE statuses == [k \in DOMAIN invs |-> Status(a, invs[k], failing)]
  <1>4. WorstStatus(statuses) = 0
    BY DEF RunSelected
  <1> HIDE DEF invs
  <1>5. statuses[i] = 0
    <2>1. DOMAIN statuses = DOMAIN invs
      OBVIOUS
    <2> HIDE DEF statuses
    <2> QED BY <1>2, <1>4, <2>1, WorstIsZero
  <1> QED BY <1>3, <1>5 DEF Status

\* A test that passed where the map was recorded and fails at HEAD is selected, or
\* its file is.
LEMMA BrokenIsSelected ==
  ASSUME NEW m, Describes(m), NEW head \in Commit, NEW has \in SUBSET Commit,
         NEW u \in Fails(head), ~SelectAffected(m, head, has).fullRun
  PROVE  /\ SelectAffected(m, head, has).selected \subseteq File \cup Unit
         /\ \/ u \in SelectAffected(m, head, has).selected
            \/ FileOf[u] \in SelectAffected(m, head, has).selected
  <1> DEFINE changed == {f \in Source \cup File : Tree[m.commit][f] # Tree[head][f]}
             keys == DOMAIN m.entries
             whole == (changed \cap File)
                      \cup {f \in File : \A k \in keys : Holder(k) # f}
                      \cup {f \in File : \E k \in keys : Holder(k) = f /\ m.entries[k] = {}}
             selected == whole \cup {k \in keys : m.entries[k] \cap changed # {} /\ Holder(k) \notin whole}
  <1>1. m.commit \in has /\ SelectAffected(m, head, has).selected = selected
    BY DEF SelectAffected, Selection
  <1>2. u \in Unit /\ FileOf[u] \in File /\ u \notin File /\ Reads[u] \subseteq Source
    BY RunnersAssumption, PipelineAssumption DEF Fails
  <1>3. keys \subseteq File \cup Unit
    BY DEF Describes
  <1>4. selected \subseteq File \cup Unit
    BY <1>3
  <1>5. ASSUME FileOf[u] \notin whole PROVE u \in selected \/ FileOf[u] \in selected
    <2>1. \E k \in keys : Holder(k) = FileOf[u]
      BY <1>2, <1>5
    <2>2. PICK k \in keys : u \in TestsOf(k)
      BY <1>2, <2>1 DEF Describes, Together
    <2>3. Holder(k) = FileOf[u] /\ (k = u \/ k = FileOf[u])
      BY <1>2, <1>3, <2>2 DEF TestsOf, Holder
    <2>4. u \notin Fails(m.commit)
      BY <1>1, <2>2 DEF Describes, Passed
    <2>5. PICK f \in Reads[u] \cup {FileOf[u]} :
            <<u, f, Tree[head][f]>> \in Breaks /\ <<u, f, Tree[m.commit][f]>> \notin Breaks
      BY <1>2, <2>4 DEF Fails
    <2>6. f \in changed
      BY <1>2, <2>5
    <2>7. f \in Reads[u]
      BY <1>2, <1>5, <2>5, <2>6
    <2>8. m.entries[k] # {}
      BY <1>2, <1>5, <2>3
    <2>9. f \in m.entries[k]
      BY <2>2, <2>7, <2>8 DEF Describes, Credits
    <2>10. k \in selected
      BY <1>5, <2>3, <2>6, <2>9
    <2> QED BY <2>3, <2>10
  <1> QED BY <1>1, <1>4, <1>5

-----------------------------------------------------------------------------
\* Every map a job may read, its own, a shard or an archived one, describes the
\* commit it names, in every reachable state.
THEOREM MapsAreSound == Spec => []MapsInv
  <1>1. Init /\ [][Next]_vars => []Shape
    BY PublishersKnow, PTL DEF Spec, ArchiveInv
  <1> QED BY <1>1, InitMapsInv, StepMapsInv, PTL DEF Spec

\* covsel run exits with 0 only where the whole suite passes, whichever shard, job
\* or commit its map came from, for every adapter and whoever else died meanwhile.
THEOREM GreenRunIsGreen == Spec => []GreenIsGreen
  <1>1. MapsInv => GreenIsGreen
    <2> SUFFICES ASSUME MapsInv, NEW w \in Job, NEW c \in Commit, NEW has \in Depths,
                        RunAffected(job[w].map, c, has \cup {c}) = 0, NEW u \in Fails(c)
                 PROVE  FALSE
      BY DEF GreenIsGreen, Fails
    <2> DEFINE m == job[w].map
               sel == SelectAffected(m, c, has \cup {c})
    <2>1. adapter \in {"file", "name", "suffix", "node", "harness"}
      BY PipelineAssumption DEF MapsInv
    <2>2. u \in Unit /\ FileOf[u] \in File
      BY RunnersAssumption DEF Fails
    <2>3. RunAffectedSelection(adapter, sel, Fails(c)) = 0
      BY DEF RunAffected
    <2>4. Sound(m) /\ has \cup {c} \in SUBSET Commit
      BY DEF MapsInv, Depths
    <2>5. m \in {NoMap, Torn} => sel.fullRun
      BY DEF SelectAffected, Selection
    <2> HIDE DEF m, sel
    <2>6. CASE sel.fullRun
      <3>1. Status(adapter, Invocation(File, Unfiltered), Fails(c)) = 0
        BY <2>3, <2>6 DEF RunAffectedSelection
      <3>2. u \in Runs(adapter, Invocation(File, Unfiltered))
        BY <2>2 DEF Runs, Invocation
      <3> QED BY <3>1, <3>2 DEF Status
    <2>7. CASE ~sel.fullRun
      <3>1. RunSelected(adapter, sel.selected, Fails(c)) = 0
        BY <2>3, <2>7 DEF RunAffectedSelection
      <3>2. Describes(m)
        BY <2>4, <2>5, <2>7 DEF Sound
      <3>3. /\ sel.selected \subseteq File \cup Unit
            /\ u \in sel.selected \/ FileOf[u] \in sel.selected
        BY <2>4, <2>7, <3>2, BrokenIsSelected DEF sel
      <3> QED BY <2>1, <2>2, <3>1, <3>3, SelectedAreRun
    <2> QED BY <2>6, <2>7
  <1> QED BY <1>1, MapsAreSound, PTL

-----------------------------------------------------------------------------
(***************************************************************************)
(* How many files a publish leaves.                                        *)
(***************************************************************************)
ArchiveNames == [at : Instant, commit : Commit]

\* byNewest orders the names of an archive, strictly and all of them.
LEMMA NewestIsAnOrder ==
  /\ \A m, n \in ArchiveNames : m # n => ByNewest(m, n) \/ ByNewest(n, m)
  /\ \A n \in ArchiveNames : ~ByNewest(n, n)
  /\ \A l, m, n \in ArchiveNames : ByNewest(l, m) /\ ByNewest(m, n) => ByNewest(l, n)
  <1>1. \A n \in ArchiveNames : n.at \in Nat /\ n.commit \in Commit
    BY PipelineAssumption DEF ArchiveNames
  <1>2. ASSUME NEW m \in ArchiveNames, NEW n \in ArchiveNames, m # n
        PROVE  ByNewest(m, n) \/ ByNewest(n, m)
    <2>1. m.at # n.at \/ m.commit # n.commit
      BY <1>2 DEF ArchiveNames
    <2>2. m.commit # n.commit => Earlier(m.commit, n.commit) \/ Earlier(n.commit, m.commit)
      BY <1>1, PipelineAssumption
    <2>3. m.at = n.at \/ m.at > n.at \/ n.at > m.at
      BY <1>1
    <2> QED BY <2>1, <2>2, <2>3 DEF ByNewest
  <1>3. ASSUME NEW n \in ArchiveNames PROVE ~ByNewest(n, n)
    <2>1. ~Earlier(n.commit, n.commit)
      BY <1>1, PipelineAssumption
    <2>2. ~(n.at > n.at)
      BY <1>1
    <2> QED BY <2>1, <2>2 DEF ByNewest
  <1>4. ASSUME NEW l \in ArchiveNames, NEW m \in ArchiveNames, NEW n \in ArchiveNames,
               ByNewest(l, m), ByNewest(m, n)
        PROVE  ByNewest(l, n)
    <2>1. Earlier(l.commit, m.commit) /\ Earlier(m.commit, n.commit) => Earlier(l.commit, n.commit)
      BY <1>1, PipelineAssumption
    <2>2. l.at > m.at /\ m.at > n.at => l.at > n.at
      BY <1>1
    <2> QED BY <1>4, <2>1, <2>2 DEF ByNewest
  <1> QED BY <1>2, <1>3, <1>4

\* No more than keep files are left when the oldest of them go: a file that
\* stays is told from the others by how many are newer.
LEMMA PruneLeavesKeep ==
  ASSUME NEW names \in SUBSET ArchiveNames, IsFiniteSet(names), NEW keep \in Nat
  PROVE  Cardinality(names \ Oldest(names, keep)) <= keep
  <1> DEFINE newer(n) == {m \in names : ByNewest(m, n)}
             kept == names \ Oldest(names, keep)
             rank == [n \in kept |-> Cardinality(newer(n))]
  <1>1. \A n : IsFiniteSet(newer(n)) /\ Cardinality(newer(n)) \in Nat
    BY FS_Subset, FS_CardinalityType
  <1>2. ASSUME NEW m \in names, NEW n \in names, ByNewest(m, n)
        PROVE  Cardinality(newer(m)) < Cardinality(newer(n))
    <2>1. newer(m) \in SUBSET newer(n)
      BY <1>2, NewestIsAnOrder
    <2>2. m \in newer(n) /\ m \notin newer(m)
      BY <1>2, NewestIsAnOrder
    <2> HIDE DEF newer
    <2>3. Cardinality(newer(m)) <= Cardinality(newer(n)) /\ Cardinality(newer(m)) # Cardinality(newer(n))
      BY <1>1, <2>1, <2>2, FS_Subset
    <2> QED BY <1>1, <2>3
  <1>3. \A n \in kept : n \in names /\ rank[n] \in 0 .. keep - 1
    <2> SUFFICES ASSUME NEW n \in kept PROVE n \in names /\ Cardinality(newer(n)) \in 0 .. keep - 1
      OBVIOUS
    <2>1. n \in names /\ ~(Cardinality(newer(n)) >= keep)
      BY DEF Oldest
    <2> QED BY <1>1, <2>1
  <1>4. \A m, n \in kept : rank[m] = rank[n] => m = n
    <2> SUFFICES ASSUME NEW m \in kept, NEW n \in kept, m # n,
                        Cardinality(newer(m)) = Cardinality(newer(n))
                 PROVE  FALSE
      OBVIOUS
    <2>1. m \in names /\ n \in names
      OBVIOUS
    <2>2. ByNewest(m, n) \/ ByNewest(n, m)
      BY <2>1, NewestIsAnOrder
    <2> HIDE DEF newer, kept
    <2> QED BY <1>1, <1>2, <2>1, <2>2
  <1>5. rank \in Injection(kept, 0 .. keep - 1)
    <2>1. rank \in [kept -> 0 .. keep - 1]
      BY <1>3
    <2> HIDE DEF rank, kept
    <2> QED BY <1>4, <2>1 DEF Injection, IsInjective
  <1>6. IsFiniteSet(0 .. keep - 1) /\ Cardinality(0 .. keep - 1) <= keep
    <2>1. keep - 1 \in Int /\ 0 \in Int
      OBVIOUS
    <2>2. /\ IsFiniteSet(0 .. keep - 1)
          /\ Cardinality(0 .. keep - 1) = IF 0 > keep - 1 THEN 0 ELSE (keep - 1) - 0 + 1
      BY <2>1, FS_Interval
    <2> QED BY <2>2
  <1> HIDE DEF rank, kept
  <1>7. IsFiniteSet(kept) /\ Cardinality(kept) <= Cardinality(0 .. keep - 1)
    BY <1>5, <1>6, FS_Injection
  <1>8. Cardinality(kept) \in Nat /\ Cardinality(0 .. keep - 1) \in Nat
    BY <1>6, <1>7, FS_CardinalityType
  <1> QED BY <1>6, <1>7, <1>8 DEF kept

-----------------------------------------------------------------------------
\* A map that can be read says when it was recorded, and perhaps of what.
Dated(m) == m.at \in Instant /\ m.commit \in Commit \cup {NoCommit}

\* What a job that is pruning has neither listed to go nor seen arrive.
Staying(w) == DOMAIN archive \ (job[w].todo \cup job[w].extra)
Bounded(w) == IsFiniteSet(job[w].extra) /\ Cardinality(Staying(w)) <= Keep

FilesInv ==
  /\ TypeOK
  /\ \A w \in Job : job[w].map \in {NoMap, Torn} \/ Dated(job[w].map)
  /\ \A m \in shards : Dated(m)
  /\ IsFiniteSet(DOMAIN archive)
  /\ \A w \in Job : job[w].at = "pruning" => Bounded(w)

LEMMA InitFilesInv == Init => FilesInv
  <1> SUFFICES ASSUME Init PROVE FilesInv
    OBVIOUS
  <1>1. DOMAIN archive = {} /\ shards = {} /\ adapter \in Adapters /\ overlaid = {}
    BY DEF Init
  <1>2. \A w \in Job : job[w].at = "idle" /\ job[w].map = NoMap
    BY DEF Init, Waiting
  <1> QED BY <1>1, <1>2, FS_EmptySet DEF FilesInv, TypeOK, Publishing

\* What stays of fewer files is no more.
LEMMA FewerStay ==
  ASSUME NEW S, IsFiniteSet(S), NEW T \in SUBSET S, Cardinality(S) <= Keep
  PROVE  Cardinality(T) <= Keep
  <1>1. IsFiniteSet(T) /\ Cardinality(T) <= Cardinality(S)
    BY FS_Subset
  <1>2. Cardinality(T) \in Nat /\ Cardinality(S) \in Nat /\ Keep \in Nat
    BY <1>1, FS_CardinalityType, PipelineAssumption
  <1> QED BY <1>1, <1>2

\* A step of one job that takes no name to the archive.
LEMMA FilesStep ==
  ASSUME Shape, FilesInv, NEW w \in Job, NEW j, Set(w, j),
         j.at \in {"idle", "fetch"} \cup Publishing, j.at \in Publishing => ~Refused(j.map),
         j.map \in {NoMap, Torn} \/ Dated(j.map),
         UNCHANGED adapter, overlaid' \subseteq Commit, \A m \in shards' : Dated(m),
         DOMAIN archive' \subseteq DOMAIN archive,
         \A n \in DOMAIN archive' : archive'[n] # Torn => ArchiveName(archive'[n]) = n,
         j.at = "pruning" => /\ IsFiniteSet(j.extra)
                             /\ Cardinality(DOMAIN archive' \ (j.todo \cup j.extra)) <= Keep
  PROVE  FilesInv'
  <1>1. \A v \in Job : job'[v] = IF v = w THEN j ELSE job[v]
    BY DEF Shape, Set
  <1>2. TypeOK'
    BY <1>1 DEF FilesInv, TypeOK
  <1>3. IsFiniteSet(DOMAIN archive')
    BY FS_Subset DEF FilesInv
  <1>4. ASSUME NEW v \in Job, job'[v].at = "pruning" PROVE Bounded(v)'
    <2>1. CASE v = w
      BY <1>1, <1>4, <2>1 DEF Bounded, Staying
    <2>2. CASE v # w
      <3>1. job'[v] = job[v] /\ Bounded(v)
        BY <1>1, <1>4, <2>2 DEF FilesInv
      <3>2. Staying(v)' \in SUBSET Staying(v)
        BY <3>1 DEF Staying
      <3>3. IsFiniteSet(Staying(v))
        BY FS_Subset DEF FilesInv, Staying
      <3> QED BY <3>1, <3>2, <3>3, FewerStay DEF Bounded
    <2> QED BY <2>1, <2>2
  <1>5. \A v \in Job : job'[v].map \in {NoMap, Torn} \/ Dated(job'[v].map)
    BY <1>1 DEF FilesInv
  <1> QED BY <1>2, <1>3, <1>4, <1>5 DEF FilesInv, Dated

\* The earliest of some instants is one of them.
LEMMA MergeIsDated ==
  ASSUME NEW maps, maps # {}, \A m \in maps : Dated(m)
  PROVE  Dated(MergeMaps(maps))
  <1> DEFINE ats == {m.at : m \in maps}
             commits == {m.commit : m \in maps}
  <1>1. ats \in SUBSET Instant /\ ats \in SUBSET Nat /\ ats # {}
    <2>1. \A m \in maps : m.at \in Instant
      BY DEF Dated
    <2>2. ats \subseteq Instant /\ ats # {}
      BY <2>1
    <2>3. Instant \subseteq Nat
      BY PipelineAssumption
    <2> HIDE DEF ats
    <2> QED BY <2>2, <2>3
  <1>2. MergeMaps(maps).at = Min(ats) /\ MergeMaps(maps).commit \in commits \cup {NoCommit}
    <2>1. MergeMaps(maps).commit =
            IF \E c \in commits : commits = {c} THEN CHOOSE c \in commits : TRUE ELSE NoCommit
      BY DEF MergeMaps, Map
    <2>2. MergeMaps(maps).at = Min(ats)
      BY DEF MergeMaps, Map
    <2> QED BY <2>1, <2>2
  <1>3. commits \subseteq Commit \cup {NoCommit}
    BY DEF Dated
  <1> HIDE DEF ats
  <1>4. PICK x \in ats : \A y \in ats : ~(<<y, x>> \in OpToRel(<, Nat))
    BY <1>1, WFMin, NatLessThanWellFounded
  <1>5. ASSUME NEW y \in ats PROVE x <= y
    <2>1. <<y, x>> \in Nat \X Nat /\ ~(<<y, x>> \in OpToRel(<, Nat))
      BY <1>1, <1>4
    <2>2. ~(y < x)
      BY <2>1 DEF OpToRel
    <2>3. x \in Nat /\ y \in Nat
      BY <1>1, <1>4
    <2> QED BY <2>2, <2>3
  <1>6. Min(ats) \in ats
    BY <1>5 DEF Min
  <1> QED BY <1>1, <1>2, <1>3, <1>6 DEF Dated

LEMMA StepFilesInv == Shape /\ FilesInv /\ [Next]_vars => FilesInv'
  <1> SUFFICES ASSUME Shape, FilesInv, [Next]_vars PROVE FilesInv'
    OBVIOUS
  <1>0. /\ \A w \in Job : /\ DOMAIN job[w] = Fields
                          /\ job[w].at \in {"idle", "fetch"} \cup Publishing
                          /\ job[w].at \in Publishing => ~Refused(job[w].map)
                          /\ job[w].map \in {NoMap, Torn} \/ Dated(job[w].map)
        /\ overlaid \subseteq Commit
        /\ \A m \in shards : Dated(m)
        /\ \A n \in DOMAIN archive : archive[n] # Torn => ArchiveName(archive[n]) = n
        /\ DOMAIN archive \in SUBSET ArchiveNames /\ IsFiniteSet(DOMAIN archive)
    BY DEF Shape, FilesInv, TypeOK, ArchiveNames
  <1>1. CASE UNCHANGED vars
    BY <1>1 DEF vars, FilesInv, TypeOK, Bounded, Staying, Dated
  \* A step that leaves the archive and the shards, and a job that does not publish.
  <1>2. ASSUME NEW w \in Job, NEW j, Set(w, j), j.at \in {"idle", "fetch"},
               j.map \in {NoMap, Torn} \/ Dated(j.map),
               UNCHANGED <<adapter, archive, shards, overlaid>>
        PROVE  FilesInv'
    BY <1>0, <1>2, FilesStep DEF Publishing
  <1>3. ASSUME NEW w \in Job, NEW m, m \in {NoMap, Torn} \/ Dated(m), Idle(w),
               Set(w, [job[w] EXCEPT !.map = m]), UNCHANGED <<adapter, archive, shards, overlaid>>
        PROVE  FilesInv'
    <2> DEFINE j == [job[w] EXCEPT !.map = m]
    <2>1. j.map = m /\ j.at = "idle"
      BY <1>0, <1>3 DEF Fields, Idle
    <2> HIDE DEF j
    <2>2. Set(w, j)
      BY <1>3 DEF j
    <2> QED BY <1>2, <1>3, <2>1, <2>2
  <1>4. ASSUME NEW w \in Job, NEW m, m \in {NoMap, Torn} \/ Dated(m),
               Set(w, [Waiting EXCEPT !.map = m]), UNCHANGED <<adapter, archive, shards, overlaid>>
        PROVE  FilesInv'
    <2> DEFINE j == [Waiting EXCEPT !.map = m]
    <2>1. j.map = m /\ j.at = "idle"
      BY DEF Waiting
    <2> HIDE DEF j
    <2>2. Set(w, j)
      BY <1>4 DEF j
    <2> QED BY <1>2, <1>4, <2>1, <2>2
  <1>5. ASSUME NEW w \in Job, \E c \in Commit, files \in Parts, at \in Instant : Record(w, c, files, at)
        PROVE  FilesInv'
    <2>1. PICK c \in Commit, files \in Parts, at \in Instant : Record(w, c, files, at)
      BY <1>5
    <2> DEFINE m == Map(c, at, RecordFiles(adapter, files, Reads))
    <2>2. Dated(m)
      BY DEF Map, Dated
    <2>3. Idle(w) /\ UNCHANGED <<adapter, archive, shards, overlaid>> /\ Set(w, [job[w] EXCEPT !.map = m])
      BY <2>1 DEF Record
    <2> HIDE DEF m
    <2> QED BY <1>3, <2>2, <2>3
  <1>6. ASSUME NEW w \in Job, \E maps \in SUBSET shards : Merge(w, maps) PROVE FilesInv'
    <2>1. PICK maps \in SUBSET shards : Merge(w, maps)
      BY <1>6
    <2>2. Dated(MergeMaps(maps))
      BY <1>0, <2>1, MergeIsDated DEF Merge
    <2> QED BY <1>3, <2>1, <2>2 DEF Merge
  <1>7. ASSUME NEW w \in Job, Start(w) PROVE FilesInv'
    BY <1>3, <1>7 DEF Start
  <1>8. ASSUME NEW w \in Job, Published(w) \/ Kill(w) PROVE FilesInv'
    BY <1>0, <1>4, <1>8 DEF Published, Kill
  <1>9. ASSUME NEW w \in Job, NEW forced \in BOOLEAN, Install(w, forced) PROVE FilesInv'
    <2>1. job[w].at = "fetch" /\ UNCHANGED <<adapter, archive, shards, overlaid>>
      BY <1>9 DEF Install
    <2>2. ASSUME NEW n, ReadArchivedMap(archive, n) # NoMap
          PROVE  Dated(ReadArchivedMap(archive, n))
      <3>1. n \in DOMAIN archive /\ archive[n] # Torn /\ ReadArchivedMap(archive, n) = archive[n]
        BY <2>2 DEF ReadArchivedMap
      <3>2. ArchiveName(archive[n]) = n /\ n \in ArchiveNames
        BY <1>0, <3>1
      <3>3. archive[n].at = n.at /\ archive[n].commit = n.commit
        BY <3>2 DEF ArchiveName
      <3> QED BY <3>1, <3>2, <3>3 DEF Dated, ArchiveNames
    <2>3. CASE Set(w, [job[w] EXCEPT !.listed = Tail(@)])
      <3> DEFINE j == [job[w] EXCEPT !.listed = Tail(@)]
      <3>1. j.map = job[w].map /\ j.at = "fetch"
        BY <1>0, <2>1 DEF Fields
      <3> HIDE DEF j
      <3>2. Set(w, j)
        BY <2>3 DEF j
      <3> QED BY <1>0, <1>2, <2>1, <3>1, <3>2
    <2>4. CASE \E m : (m \in {NoMap, Torn} \/ Dated(m)) /\ Set(w, [Waiting EXCEPT !.map = m])
      BY <1>4, <2>1, <2>4
    <2> QED BY <1>0, <1>9, <2>2, <2>3, <2>4 DEF Install, Fetched
  <1>10. ASSUME NEW w \in Job, \E c \in Commit, has \in Depths : Fetch(w, c, has \cup {c})
         PROVE  FilesInv'
    <2>1. PICK l : /\ UNCHANGED <<adapter, archive, shards, overlaid>>
                   /\ Set(w, [job[w] EXCEPT !.at = "fetch", !.listed = l])
      BY <1>10 DEF Fetch
    <2> DEFINE j == [job[w] EXCEPT !.at = "fetch", !.listed = l]
    <2>2. j.map = job[w].map /\ j.at = "fetch"
      BY <1>0 DEF Fields
    <2> HIDE DEF j
    <2>3. Set(w, j)
      BY <2>1 DEF j
    <2> QED BY <1>0, <1>2, <2>1, <2>2, <2>3
  <1>11. ASSUME NEW w \in Job, Upload(w) PROVE FilesInv'
    <2>1. \A m \in shards' : Dated(m)
      BY <1>0, <1>11 DEF Upload
    <2>2. UNCHANGED <<adapter, archive, job, overlaid>>
      BY <1>11 DEF Upload
    <2> QED BY <2>1, <2>2 DEF FilesInv, TypeOK, Bounded, Staying, Dated
  <1>12. ASSUME NEW w \in Job, Publish(w) PROVE FilesInv'
    <2> DEFINE j == [job[w] EXCEPT !.at = "remove", !.todo = Superseded(archive, job[w].map)]
    <2>1. j.map = job[w].map /\ j.at = "remove"
      BY <1>0 DEF Fields
    <2> HIDE DEF j
    <2>2. Set(w, j) /\ UNCHANGED <<adapter, archive, shards>> /\ ~Refused(j.map)
      BY <1>12, <2>1 DEF Publish, j
    <2>3. job[w].map.commit \in Commit
      BY <1>0, <2>1, <2>2 DEF Refused, Dated
    <2>4. overlaid' \subseteq Commit
      BY <1>0, <1>12, <2>3 DEF Publish
    <2> QED BY <1>0, <2>1, <2>2, <2>4, FilesStep DEF Publishing
  <1>13. ASSUME NEW w \in Job, Unlink(w) PROVE FilesInv'
    <2>1. PICK n \in job[w].todo : Removed(n) /\ Set(w, [job[w] EXCEPT !.todo = @ \ {n}])
      BY <1>13 DEF Unlink
    <2> DEFINE j == [job[w] EXCEPT !.todo = @ \ {n}]
    <2>2. j.map = job[w].map /\ j.at = job[w].at /\ j.todo = job[w].todo \ {n} /\ j.extra = job[w].extra
      BY <1>0 DEF Fields
    <2> HIDE DEF j
    <2>3. /\ DOMAIN archive' = DOMAIN archive \ {n}
          /\ \A k \in DOMAIN archive' : archive'[k] = archive[k]
      BY <2>1 DEF Removed
    <2>4. Set(w, j) /\ UNCHANGED <<adapter, shards, overlaid>>
      BY <1>13, <2>1 DEF Unlink, j
    <2>5. ASSUME j.at = "pruning"
          PROVE  IsFiniteSet(j.extra) /\ Cardinality(DOMAIN archive' \ (j.todo \cup j.extra)) <= Keep
      <3>1. Bounded(w) /\ IsFiniteSet(Staying(w))
        BY <1>0, <2>2, <2>5, FS_Subset DEF FilesInv, Staying
      <3>2. DOMAIN archive' \ (j.todo \cup j.extra) \in SUBSET Staying(w)
        BY <2>2, <2>3 DEF Staying
      <3> QED BY <2>2, <3>1, <3>2, FewerStay DEF Bounded
    <2>6. \A k \in DOMAIN archive' : archive'[k] # Torn => ArchiveName(archive'[k]) = k
      BY <1>0, <2>3
    <2> QED BY <1>0, <2>2, <2>3, <2>4, <2>5, <2>6, FilesStep
  <1>13a. ASSUME NEW w \in Job, WillNotGo(w) PROVE FilesInv'
    <2>1. PICK n \in job[w].todo \cap DOMAIN archive :
            IF job[w].at = "remove"
            THEN /\ Set(w, [job[w] EXCEPT !.todo = @ \ {n}])
                 /\ overlaid' = overlaid \cup {n.commit}
            ELSE /\ Set(w, [job[w] EXCEPT !.todo = @ \ {n}, !.extra = @ \cup {n}])
                 /\ UNCHANGED overlaid
      BY <1>13a DEF WillNotGo
    <2>2. /\ job[w].at \in {"remove", "pruning"} /\ UNCHANGED <<adapter, archive, shards>>
          /\ n.commit \in Commit
      BY <1>0, <1>13a DEF WillNotGo, ArchiveNames
    <2> DEFINE i == [job[w] EXCEPT !.todo = @ \ {n}]
               j == [job[w] EXCEPT !.todo = @ \ {n}, !.extra = @ \cup {n}]
    <2>3. /\ i.map = job[w].map /\ i.at = job[w].at
          /\ j.map = job[w].map /\ j.at = job[w].at
          /\ j.todo = job[w].todo \ {n} /\ j.extra = job[w].extra \cup {n}
      BY <1>0 DEF Fields
    <2>4. CASE job[w].at = "remove"
      <3>1. Set(w, i) /\ overlaid' \subseteq Commit
        BY <1>0, <2>1, <2>2, <2>4
      <3> HIDE DEF i
      <3> QED BY <1>0, <2>2, <2>3, <2>4, <3>1, FilesStep
    <2>5. CASE job[w].at # "remove"
      <3>1. Set(w, j) /\ UNCHANGED overlaid
        BY <2>1, <2>5
      <3>2. Bounded(w) /\ IsFiniteSet(Staying(w))
        BY <1>0, <2>2, <2>5, FS_Subset DEF FilesInv, Staying
      <3>3. DOMAIN archive' \ (j.todo \cup j.extra) \in SUBSET Staying(w)
        BY <2>2, <2>3 DEF Staying
      <3>4. IsFiniteSet(j.extra) /\ Cardinality(DOMAIN archive' \ (j.todo \cup j.extra)) <= Keep
        BY <2>3, <3>2, <3>3, FewerStay, FS_AddElement DEF Bounded
      <3> HIDE DEF j
      <3> QED BY <1>0, <2>2, <2>3, <3>1, <3>4, FilesStep
    <2> QED BY <2>4, <2>5
  <1>14. ASSUME NEW w \in Job, Close(w) PROVE FilesInv'
    <2> DEFINE j == [job[w] EXCEPT !.at = "prune"]
    <2>1. j.map = job[w].map /\ j.at = "prune"
      BY <1>0 DEF Fields
    <2>2. job[w].at = "writing" /\ UNCHANGED <<adapter, shards, overlaid>> /\ Set(w, j)
      BY <1>14 DEF Close
    <2> HIDE DEF j
    <2>3. /\ DOMAIN archive' \subseteq DOMAIN archive
          /\ \A k \in DOMAIN archive' : archive'[k] # Torn => ArchiveName(archive'[k]) = k
      BY <1>0, <1>14 DEF Close, Written
    <2> QED BY <1>0, <2>1, <2>2, <2>3, FilesStep DEF Publishing
  <1>15. ASSUME NEW w \in Job, Prune(w) PROVE FilesInv'
    <2> DEFINE j == [job[w] EXCEPT !.at = "pruning", !.todo = Stale(archive, Keep), !.extra = {}]
    <2>1. j.map = job[w].map /\ j.at = "pruning" /\ j.todo = Stale(archive, Keep) /\ j.extra = {}
      BY <1>0 DEF Fields
    <2> HIDE DEF j
    <2>2. job[w].at = "prune" /\ UNCHANGED <<adapter, archive, shards, overlaid>> /\ Set(w, j)
      BY <1>15 DEF Prune, j
    <2>3. Cardinality(DOMAIN archive \ Stale(archive, Keep)) <= Keep
      BY <1>0, PipelineAssumption, PruneLeavesKeep DEF Stale
    <2>4. DOMAIN archive' \ (j.todo \cup j.extra) = DOMAIN archive \ Stale(archive, Keep)
      BY <2>1, <2>2
    <2>5. IsFiniteSet(j.extra)
      BY <2>1, FS_EmptySet
    <2> QED BY <1>0, <2>1, <2>2, <2>3, <2>4, <2>5, FilesStep DEF Publishing
  <1>16. ASSUME NEW w \in Job, Write(w) PROVE FilesInv'
    <2> DEFINE name == ArchiveName(job[w].map)
    <2>1. job[w].at = "remove" /\ UNCHANGED <<adapter, shards, overlaid>> /\ Written(name, Torn)
      BY <1>16 DEF Write
    <2>2. name \in ArchiveNames
      BY <1>0, <2>1 DEF Refused, Dated, Publishing, ArchiveName, ArchiveNames
    <2>3. \A v \in Job : /\ job'[v].map = job[v].map
                         /\ job'[v].todo = job[v].todo
                         /\ job'[v].at = IF v = w THEN "writing" ELSE job[v].at
                         /\ v # w => job'[v].extra = IF job[v].at = "pruning" THEN job[v].extra \cup {name}
                                                     ELSE job[v].extra
      <3>1. job' = [v \in Job |->
                      IF v = w THEN [job[v] EXCEPT !.at = "writing"]
                      ELSE [job[v] EXCEPT !.extra =
                              IF job[v].at = "pruning" THEN @ \cup {name} ELSE @]]
        BY <1>16 DEF Write
      <3>2. \A v \in Job : job'[v] = IF v = w THEN [job[v] EXCEPT !.at = "writing"]
                      ELSE [job[v] EXCEPT !.extra =
                              IF job[v].at = "pruning" THEN @ \cup {name} ELSE @]
        BY <3>1
      <3> HIDE DEF name
      <3> QED BY <1>0, <3>2 DEF Fields
    <2> HIDE DEF name
    <2>4. /\ DOMAIN archive' = DOMAIN archive \cup {name}
          /\ \A n \in DOMAIN archive' : archive'[n] = IF n = name THEN Torn ELSE archive[n]
      BY <2>1 DEF Written
    <2>5. TypeOK'
      BY <1>0, <2>1, <2>2, <2>3, <2>4 DEF FilesInv, TypeOK, ArchiveNames, Publishing
    <2>6. IsFiniteSet(DOMAIN archive')
      BY <1>0, <2>4, FS_AddElement
    <2>7. ASSUME NEW v \in Job, job'[v].at = "pruning" PROVE Bounded(v)'
      <3>1. v # w /\ job[v].at = "pruning" /\ job'[v].extra = job[v].extra \cup {name} /\ job'[v].todo = job[v].todo
        BY <2>3, <2>7
      <3>2. Bounded(v) /\ IsFiniteSet(Staying(v))
        BY <1>0, <3>1, FS_Subset DEF FilesInv, Staying
      <3>3. Staying(v)' \in SUBSET Staying(v)
        BY <2>4, <3>1 DEF Staying
      <3>4. IsFiniteSet(job'[v].extra)
        BY <3>1, <3>2, FS_AddElement DEF Bounded
      <3> QED BY <3>2, <3>3, <3>4, FewerStay DEF Bounded
    <2> QED BY <1>0, <2>1, <2>3, <2>5, <2>6, <2>7 DEF FilesInv, Dated
  <1> QED BY <1>1, <1>5, <1>6, <1>7, <1>8, <1>9, <1>10, <1>11, <1>12, <1>13, <1>13a,
            <1>14, <1>15, <1>16 DEF Next

-----------------------------------------------------------------------------
\* In every reachable state the archive and the jobs are of their types, and a job
\* that is pruning (the loop over listArchive(dir).slice(keep) of publishMap) has
\* no more than Keep files that it neither has yet to remove, nor could not remove,
\* nor saw arrive.
THEOREM FilesAreCounted == Spec => []FilesInv
  <1>1. Init /\ [][Next]_vars => []Shape
    BY PublishersKnow, PTL DEF Spec, ArchiveInv
  <1> QED BY <1>1, InitFilesInv, StepFilesInv, PTL DEF Spec

\* When publishMap is done the archive has Keep files at most, torn ones included,
\* those that other jobs wrote since it listed them, and those that it could not
\* remove: for every number of jobs
\* that publish, prune and die at once, and whatever their clocks say.
THEOREM ArchiveStaysBounded == Spec => ArchiveBounded
  <1>1. FilesInv /\ [Next]_vars =>
          [\A w \in Job : Published(w) => Cardinality(DOMAIN archive) <= Keep + Cardinality(job[w].extra)]_vars
    <2> SUFFICES ASSUME FilesInv, NEW w \in Job, Published(w)
                 PROVE  Cardinality(DOMAIN archive) <= Keep + Cardinality(job[w].extra)
      OBVIOUS
    <2> DEFINE extra == job[w].extra
    <2>1. job[w].todo = {} /\ Bounded(w) /\ IsFiniteSet(DOMAIN archive)
      BY DEF Published, FilesInv
    <2>2. IsFiniteSet(extra) /\ IsFiniteSet(Staying(w)) /\ Cardinality(Staying(w)) <= Keep
      BY <2>1, FS_Subset DEF Bounded, Staying
    <2>3. DOMAIN archive \in SUBSET (Staying(w) \cup extra)
      BY <2>1 DEF Staying
    <2> HIDE DEF extra
    <2>4. /\ IsFiniteSet(Staying(w) \cup extra)
          /\ Cardinality(Staying(w) \cup extra)
               = Cardinality(Staying(w)) + Cardinality(extra) - Cardinality(Staying(w) \cap extra)
      BY <2>2, FS_Union
    <2>5. Cardinality(DOMAIN archive) <= Cardinality(Staying(w) \cup extra)
      BY <2>3, <2>4, FS_Subset
    <2>6. IsFiniteSet(Staying(w) \cap extra)
      BY <2>2, FS_Intersection
    <2>7. /\ Cardinality(DOMAIN archive) \in Nat /\ Cardinality(Staying(w)) \in Nat
          /\ Cardinality(extra) \in Nat /\ Cardinality(Staying(w) \cap extra) \in Nat
          /\ Cardinality(Staying(w) \cup extra) \in Nat /\ Keep \in Nat
      BY <2>1, <2>2, <2>4, <2>6, FS_CardinalityType, PipelineAssumption
    <2>8. Cardinality(DOMAIN archive) <= Keep + Cardinality(extra)
      BY <2>2, <2>4, <2>5, <2>7
    <2> QED BY <2>8 DEF extra
  <1> QED BY <1>1, FilesAreCounted, PTL DEF Spec, ArchiveBounded
=============================================================================
