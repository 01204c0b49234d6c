------------------------------ MODULE Pipeline ------------------------------
(***************************************************************************)
(* Jobs that share an archive: some record the suite, or a shard of it, at *)
(* a commit and publish the map; others fetch a map, at another commit,    *)
(* and run what covsel affected leaves of the suite (the record, merge,    *)
(* publish, fetch and run commands of cli/src/index.ts).                   *)
(*                                                                         *)
(* A job has a local map, and checks out a commit, with or without the     *)
(* others, before each command.  It may be killed at any moment, between   *)
(* any two files it touches; clocks of two machines differ.                *)
(* Selection is what Selection.tla says, at file granularity.              *)
(***************************************************************************)
EXTENDS Runners, Archive

CONSTANTS
  Job, Commit,
  Ancestors,    \* the ancestors of each commit, itself included
  Source,       \* paths that are not test files
  Tree,         \* [Commit -> [Source \cup File -> versions]]
  Reads,        \* the sources each test executes
  Breaks,       \* <<test, path, version>>: what fails it
  Adapters,
  Instant,      \* what a clock may say
  Keep,         \* --keep
  Parts,        \* the test files that one job may record
  MaxRecords, MaxShards, MaxKills, MaxStuck,   \* bounds
  MaxPublishes  \* and one for the projects of each adapter

ASSUME PipelineAssumption ==
  /\ Keep \in Nat \ {0} /\ Instant \subseteq Nat /\ NoCommit \notin Commit
  /\ Adapters \subseteq {"file", "name", "suffix", "node", "harness"}
  /\ Parts \subseteq (SUBSET File) \ {{}} /\ Reads \in [Unit -> SUBSET Source] /\ Source \cap File = {}
  /\ \A c, d \in Commit : c # d => (Earlier(c, d) <=> ~Earlier(d, c))
  /\ \A c \in Commit : ~Earlier(c, c)
  /\ \A b, c, d \in Commit : Earlier(b, c) /\ Earlier(c, d) => Earlier(b, d)

VARIABLES
  adapter,    \* of the project
  archive,    \* the directory the jobs share
  shards,     \* maps that jobs have uploaded
  job,        \* the local map of each job and what it is at, with what is left to do;
              \* extra is ghost: files that came after it listed the archive, or stay
  records, publishes, kills, stuck,   \* how many there were
  overlaid    \* ghost: commits that two jobs published at once, or one over a
              \* reading that would not go

bounds == <<records, publishes, kills, stuck>>
vars == <<adapter, archive, shards, job, bounds, overlaid>>

Depths == {{}, Commit}      \* fetch-depth: the commit itself, or all of them

Map(commit, at, entries) == [commit |-> commit, at |-> at, entries |-> entries]
Waiting == [at |-> "idle", map |-> NoMap, todo |-> {}, listed |-> <<>>, extra |-> {}]
Publishing == {"remove", "write", "writing", "prune", "pruning"}

TypeOK ==
  /\ adapter \in Adapters
  /\ \A n \in DOMAIN archive :
       /\ n \in [at : Instant, commit : Commit]
       /\ archive[n] # Torn => ArchiveName(archive[n]) = n
  /\ \A w \in Job :
       /\ job[w].at \in {"idle", "fetch"} \cup Publishing
       /\ job[w].at \in Publishing => ~Refused(job[w].map)
  /\ overlaid \subseteq Commit

-----------------------------------------------------------------------------
(* The tests.                                                              *)

Fails(c) ==
  {u \in Unit : \E f \in Reads[u] \cup {FileOf[u]} : <<u, f, Tree[c][f]>> \in Breaks}

\* The merge of two recordings of one test; one that saw nothing says nothing.
MergeMaps(maps) ==
  LET commits == {m.commit : m \in maps}
      All(k) == {m.entries[k] : m \in {n \in maps : k \in DOMAIN n.entries}}
  IN  Map(IF \E c \in commits : commits = {c} THEN CHOOSE c \in commits : TRUE ELSE NoCommit,
          Min({m.at : m \in maps}),
          [k \in UNION {DOMAIN m.entries : m \in maps} |->
             IF {} \in All(k) THEN {} ELSE UNION All(k)])

Selection(fullRun, selected) == [fullRun |-> fullRun, selected |-> selected]

\* selectAffected: the map's own commit is what the diff is taken from.
SelectAffected(map, head, has) ==
  IF map \in {NoMap, Torn} \/ map.commit \notin has \/ DOMAIN map.entries = {} THEN Selection(TRUE, {})
  ELSE LET changed == {f \in Source \cup File : Tree[map.commit][f] # Tree[head][f]}
           keys == DOMAIN map.entries
           whole == (changed \cap File)
                    \cup {f \in File : \A k \in keys : Holder(k) # f}
                    \cup {f \in File : \E k \in keys : Holder(k) = f /\ map.entries[k] = {}}
       IN  Selection(FALSE, whole \cup {k \in keys : /\ map.entries[k] \cap changed # {}
                                                     /\ Holder(k) \notin whole})

\* The status of covsel run in a checkout.
RunAffected(map, head, has) ==
  RunAffectedSelection(adapter, SelectAffected(map, head, has), Fails(head))

-----------------------------------------------------------------------------
(* Jobs.                                                                   *)

Idle(w) == job[w].at = "idle"
Set(w, j) == job' = [job EXCEPT ![w] = j]
Removed(n) == archive' = [m \in DOMAIN archive \ {n} |-> archive[m]]
Written(n, content) == archive' = [m \in DOMAIN archive \cup {n} |-> IF m = n THEN content ELSE archive[m]]

\* Another job takes its place, with nothing but the checkout.
Start(w) ==
  /\ Idle(w) /\ job[w].map # NoMap
  /\ Set(w, [job[w] EXCEPT !.map = NoMap])
  /\ UNCHANGED <<adapter, archive, shards, bounds, overlaid>>

\* recordMap, on a clean tree: a test that fails leaves the local map as it was.
Record(w, head, files, at) ==
  /\ Idle(w) /\ records < MaxRecords
  /\ ~RecordFails(adapter, files, Fails(head))
  /\ Set(w, [job[w] EXCEPT !.map = Map(head, at, RecordFiles(adapter, files, Reads))])
  /\ records' = records + 1
  /\ UNCHANGED <<adapter, archive, shards, publishes, kills, stuck, overlaid>>

Upload(w) ==
  /\ Idle(w) /\ job[w].map \notin {NoMap, Torn} \cup shards /\ Cardinality(shards) < MaxShards
  /\ shards' = shards \cup {job[w].map}
  /\ UNCHANGED <<adapter, archive, job, bounds, overlaid>>

\* cmdMerge
Merge(w, maps) ==
  /\ Idle(w) /\ maps # {}
  /\ Set(w, [job[w] EXCEPT !.map = MergeMaps(maps)])
  /\ UNCHANGED <<adapter, archive, shards, bounds, overlaid>>

\* cmdPublish and publishMap, file by file.
Publish(w) ==
  /\ Idle(w) /\ ~Refused(job[w].map)
  /\ publishes < MaxPublishes[adapter] /\ publishes' = publishes + 1
  /\ Set(w, [job[w] EXCEPT !.at = "remove", !.todo = Superseded(archive, job[w].map)])
  /\ overlaid' = IF \E v \in Job \ {w} : job[v].at \in Publishing /\ job[v].map.commit = job[w].map.commit
                 THEN overlaid \cup {job[w].map.commit} ELSE overlaid
  /\ UNCHANGED <<adapter, archive, shards, records, kills, stuck>>

\* A file that is gone already is no failure.
Unlink(w) ==
  /\ job[w].at \in {"remove", "pruning"}
  /\ \E n \in job[w].todo :
       /\ Removed(n)
       /\ Set(w, [job[w] EXCEPT !.todo = @ \ {n}])
  /\ UNCHANGED <<adapter, shards, bounds, overlaid>>

\* A file that will not go: the publish goes on without it.
WillNotGo(w) ==
  /\ job[w].at \in {"remove", "pruning"} /\ stuck < MaxStuck
  /\ stuck' = stuck + 1
  /\ \E n \in job[w].todo \cap DOMAIN archive :
       IF job[w].at = "remove"
       THEN /\ Set(w, [job[w] EXCEPT !.todo = @ \ {n}])
            /\ overlaid' = overlaid \cup {n.commit}
       ELSE /\ Set(w, [job[w] EXCEPT !.todo = @ \ {n}, !.extra = @ \cup {n}])
            /\ UNCHANGED overlaid
  /\ UNCHANGED <<adapter, archive, shards, records, publishes, kills>>

Write(w) ==
  /\ job[w].at = "remove" /\ job[w].todo = {}
  /\ LET name == ArchiveName(job[w].map) IN
       /\ Written(name, Torn)
       /\ job' = [v \in Job |-> IF v = w THEN [job[v] EXCEPT !.at = "writing"]
                               ELSE [job[v] EXCEPT !.extra = IF job[v].at = "pruning" THEN @ \cup {name} ELSE @]]
  /\ UNCHANGED <<adapter, shards, bounds, overlaid>>

\* What is written to a file that another job has pruned meanwhile is gone with it.
Close(w) ==
  /\ job[w].at = "writing"
  /\ IF ArchiveName(job[w].map) \in DOMAIN archive
     THEN Written(ArchiveName(job[w].map), job[w].map) ELSE UNCHANGED archive
  /\ Set(w, [job[w] EXCEPT !.at = "prune"])
  /\ UNCHANGED <<adapter, shards, bounds, overlaid>>

Prune(w) ==
  /\ job[w].at = "prune"
  /\ Set(w, [job[w] EXCEPT !.at = "pruning", !.todo = Stale(archive, Keep), !.extra = {}])
  /\ UNCHANGED <<adapter, archive, shards, bounds, overlaid>>

Published(w) ==
  /\ job[w].at = "pruning" /\ job[w].todo = {}
  /\ Set(w, [Waiting EXCEPT !.map = job[w].map])
  /\ UNCHANGED <<adapter, archive, shards, bounds, overlaid>>

\* cmdFetch and fetchMap: the archive is listed once, and then read.
Fetch(w, head, has) ==
  /\ Idle(w) /\ archive # <<>>
  /\ Set(w, [job[w] EXCEPT !.at = "fetch",
                           !.listed = ChooseArchivedMap(ListArchive(archive), has, Ancestors[head])])
  /\ UNCHANGED <<adapter, archive, shards, bounds, overlaid>>

Fetched(w, map) == Set(w, [Waiting EXCEPT !.map = map])

\* The local map stays when it is newer, unless --force, or when nothing can be read.
Install(w, forced) ==
  /\ job[w].at = "fetch"
  /\ LET local == job[w].map
         read == ReadArchivedMap(archive, Head(job[w].listed))
     IN  CASE job[w].listed = <<>> -> Fetched(w, local)
           [] job[w].listed # <<>> /\ read = NoMap -> Set(w, [job[w] EXCEPT !.listed = Tail(@)])
           [] OTHER -> Fetched(w, IF ~forced /\ local \notin {NoMap, Torn} /\ local.at > read.at
                                  THEN local ELSE read)
  /\ UNCHANGED <<adapter, archive, shards, bounds, overlaid>>

\* A job dies; what it was writing stays as it is.
Kill(w) ==
  /\ ~Idle(w) /\ kills < MaxKills
  /\ kills' = kills + 1
  /\ Set(w, [Waiting EXCEPT !.map = IF job[w].at = "fetch" THEN Torn ELSE job[w].map])
  /\ UNCHANGED <<adapter, archive, shards, records, publishes, stuck, overlaid>>

-----------------------------------------------------------------------------
Init ==
  /\ adapter \in Adapters
  /\ archive = <<>> /\ shards = {}
  /\ job = [w \in Job |-> Waiting]
  /\ records = 0 /\ publishes = 0 /\ kills = 0 /\ stuck = 0 /\ overlaid = {}

Next ==
  \E w \in Job :
    \/ \E c \in Commit, files \in Parts, at \in Instant : Record(w, c, files, at)
    \/ \E c \in Commit, has \in Depths : Fetch(w, c, has \cup {c})
    \/ \E maps \in SUBSET shards : Merge(w, maps)
    \/ \E forced \in BOOLEAN : Install(w, forced)
    \/ Start(w) \/ Upload(w) \/ Publish(w) \/ Unlink(w) \/ WillNotGo(w)
    \/ Write(w) \/ Close(w) \/ Prune(w) \/ Published(w) \/ Kill(w)

Spec == Init /\ [][Next]_vars

-----------------------------------------------------------------------------
\* A run that exits with 0 at a commit is a commit at which every test
\* passes, those it left out included: whichever shard, job or commit its map was
\* recorded at, and whoever published, pruned or died meanwhile.
GreenIsGreen ==
  \A w \in Job, c \in Commit, has \in Depths :
    Idle(w) /\ RunAffected(job[w].map, c, has \cup {c}) = 0 => Fails(c) = {}

\* An archive has one reading of a commit at most (publishMap: re-recording a
\* commit supersedes the older reading), unless two jobs published it at once, or
\* one went on over an older reading that could not be removed.
OneReading ==
  \A m, n \in DOMAIN archive : m.commit = n.commit /\ m # n => m.commit \in overlaid

\* A publish leaves no more than Keep files, those that other jobs wrote after it
\* listed them, and those it could not remove, whatever earlier publishers left
\* behind when they died.
ArchiveBounded ==
  [][\A w \in Job : Published(w) => Cardinality(DOMAIN archive) <= Keep + Cardinality(job[w].extra)]_vars
=============================================================================
