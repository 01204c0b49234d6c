-------------------------------- MODULE Axes --------------------------------
(***************************************************************************)
(* covsel affected with all three of its axes: the diff, the installed     *)
(* packages (dependencies.ts) and the tests that live outside the          *)
(* repository (test-inventory.ts), over maps that shards recorded and      *)
(* merged (selectAffected, recordMap and assembleMap, commands.ts).        *)
(*                                                                         *)
(* Every edit is committed and every recording starts from a clean tree:   *)
(* CoverageMap has the rest.  A commit is named by its tree.  The          *)
(* configuration does not change, but for whether it names an inventory.   *)
(***************************************************************************)
EXTENDS Sharing

CONSTANTS
  Contents,     \* what each path may hold
  Committed,    \* what each holds at first
  Manifests,    \* every package.json: [deps, rest, layout], or Absent
  Lock,         \* the root's lockfile: the links an install makes of it
  NestedLocks,  \* files of a lockfile's name in other directories
  External,     \* units that only the inventory names
  Root,         \* the importer whose tests these are
  Uses,         \* the packages each unit uses, by the names it knows
  Behaviours,   \* what a run of each unit may execute: in each of two isolates,
                \* the sources that load and the functions of them that run
  Recorders,    \* their windows, whether they see packages, the units they are blind to
  Splits,       \* the parts of the suite a shard may be given
  Suites,       \* [ok, source, version]: answers of the inventory command
  Unversioned,  \* the version of a test whose owner tracks none
  Config,
  NoMap,
  MaxChanges, MaxShards   \* bounds

\* isDependencyFile: by its base name, wherever it is.
DependencyFiles == Manifests \cup {Lock} \cup NestedLocks

\* Manifests and lockfiles are sentinels, as they are by default, and no scripts; what a package requires by its own name is itself.  A path of the
\* inventory's is no path on disk (commands.ts:987), and the tests of one file are
\* recorded together.
ASSUME AxesAssumption ==
  /\ DOMAIN Committed = Path /\ \A f \in Path : Committed[f] \in Contents[f]
  /\ DependencyFiles \subseteq Path \cap Config.sentinels /\ Config.testGlobs \subseteq Path
  /\ Lock \notin Manifests \cup NestedLocks /\ Manifests \cap NestedLocks = {}
  /\ Committed[Lock] # Absent /\ \A links \in Contents[Lock] \ {Absent} : \A l \in links : l.from # l.to
  /\ External \subseteq Unit /\ Root \in Importer
  /\ \A x \in External, u \in Unit \ External : TestOf[x] # TestOf[u]
  /\ \A u \in Unit : \A ran \in Behaviours[u] : DOMAIN ran # {} /\ \A i \in DOMAIN ran :
       DOMAIN ran[i] \subseteq Path \ DependencyFiles /\ \A f \in DOMAIN ran[i] : ran[i][f] \subseteq Fn
  /\ \A part \in Splits : \A u, v \in Unit \ External : TestOf[u] = TestOf[v] /\ u \in part => v \in part
  /\ (\E s \in Suites : s.ok) /\ \A s \in Suites : DOMAIN s.version \subseteq External
  /\ MaxChanges \in Nat /\ MaxShards \in Nat

VARIABLES
  tree,        \* the repository
  installed,   \* node_modules
  suite,       \* the external tests as they now are
  asks,        \* config.inventory is set
  shards,      \* maps that were recorded and not merged yet
  map,         \* the map that selections read
  changes      \* how much has changed so far

vars == <<tree, installed, suite, asks, shards, map, changes>>

-----------------------------------------------------------------------------
(* What changes.                                                           *)

Changed == changes < MaxChanges /\ changes' = changes + 1

Edit(f, content) ==
  /\ Changed /\ content # tree[f]
  /\ tree' = [tree EXCEPT ![f] = content]
  /\ UNCHANGED <<installed, suite, asks, shards, map>>

\* pnpm install; the store keeps what nothing links to any more.
Install(store) ==
  /\ tree[Lock] # Absent
  /\ installed' = [managers |-> {"pnpm"}, marker |-> tree[Lock], links |-> tree[Lock], store |-> store]
  /\ installed' # installed
  /\ Changed
  /\ UNCHANGED <<tree, suite, asks, shards, map>>

\* npm install over it, or instead of it: flat, and another marker.
InstallFlat(over) ==
  /\ tree[Lock] # Absent
  /\ installed' = [managers |-> IF over THEN installed.managers \cup {"npm"} ELSE {"npm"},
                   marker |-> installed.marker, links |-> tree[Lock], store |-> FALSE]
  /\ installed' # installed
  /\ Changed
  /\ UNCHANGED <<tree, suite, asks, shards, map>>

\* External tests come, go and change; so does what drives them, and the command
\* that lists them fails.
Advance(next) ==
  /\ Changed /\ next # suite
  /\ suite' = next
  /\ UNCHANGED <<tree, installed, asks, shards, map>>

Ask ==
  /\ Changed
  /\ asks' = ~asks
  /\ UNCHANGED <<tree, installed, suite, shards, map>>

-----------------------------------------------------------------------------
(* Recording and merging.                                                  *)

TestFiles == DiscoverTestFiles(Config, tree)
ExternalUnits == IF asks THEN DOMAIN suite.version ELSE {}
SuiteUnits == {u \in Unit \ External : TestOf[u] \in TestFiles} \cup ExternalUnits

\* What one window sees of a run: a recorder has an isolate for each of its
\* windows, blocks in some of them, and units it is blind to.
Window(r, i, u, ran) ==
  LET loaded == IF u \in r.blind THEN {} ELSE {f \in DOMAIN ran[i] : IsSource(Config, f)} IN
    [files    |-> loaded,
     blocks   |-> [f \in Path |-> IF f \in loaded /\ r.windows[i].blocks
                                  THEN SelectExecutedBlocks(tree[f], ran[i][f]) ELSE {}],
     packages |-> IF ~r.packages THEN NoPackages
                  ELSE {NameOf[l.to] : l \in {k \in Resolved(installed.links, Root, Uses[u]) :
                                               k.to \in Observable}},
     observes |-> r.windows[i].observes]

RecordedUnit(r, u, ran) == CombineObservations({Window(r, i, u, ran) : i \in DOMAIN ran})

Present == {f \in Path : tree[f] # Absent}
Loads(ran) == UNION {DOMAIN ran[i] : i \in DOMAIN ran}
Parts(ran, f) == UNION {Executed(ran[i][f]) : i \in {j \in DOMAIN ran : f \in DOMAIN ran[j]}}

\* History: what a run depended on.
Run(u, ran) ==
  [parts |-> [f \in Loads(ran) |-> Parts(ran, f)],
   on |-> tree,
   edges |-> Resolved(installed.links, Root, Uses[u]),
   version |-> IF u \in External THEN suite.version[u] ELSE Unversioned,
   source |-> suite.source]

EntryOf(r, u, ran) ==
  LET unit == RecordedUnit(r, u, ran) IN
    [files |-> unit.files, blocks |-> unit.blocks, packages |-> unit.packages,
     ran |-> {Run(u, ran)}]

\* assembleMap
AssembleMap(r, behaviour) ==
  LET entries == [u \in DOMAIN behaviour |-> EntryOf(r, u, behaviour[u])] IN
    [commit        |-> tree,
     granularity   |-> IF Config.granularity # "file" /\ \E u \in DOMAIN entries : HasBlocks(entries[u])
                       THEN "block" ELSE "file",
     config        |-> RecordedConfig(Config),
     observed      |-> AgreedScope({RecordedUnit(r, u, behaviour[u]).observes : u \in DOMAIN behaviour}),
     dependencies  |-> IF r.packages THEN ReadInstalledInventory(installed) ELSE NoDependencies,
     testInventory |-> IF asks THEN [source |-> suite.source, version |-> suite.version]
                       ELSE NoInventory,
     entries       |-> entries]

\* A shard records some of the suite, from an install of the lockfile.  The
\* inventory is read first, and nothing is recorded without it.
Record(r, units) ==
  /\ Cardinality(shards) < MaxShards /\ map = NoMap
  /\ units # {}
  /\ asks => suite.ok
  /\ installed.links = tree[Lock]
  /\ \E behaviour \in [units -> UNION {Behaviours[u] : u \in units}] :
       /\ \A u \in units : behaviour[u] \in Behaviours[u] /\ Loads(behaviour[u]) \subseteq Present
       /\ shards' = shards \cup {AssembleMap(r, behaviour)}
  /\ UNCHANGED <<tree, installed, suite, asks, map, changes>>

\* covsel merge; the map of a single job comes through it unchanged.
Merge ==
  /\ shards # {}
  /\ map' = MergeMaps(shards)
  /\ shards' = {}
  /\ UNCHANGED <<tree, installed, suite, asks, changes>>

-----------------------------------------------------------------------------
(* The package axis: dependencyChange.                                     *)

DependencyOnlyManifestChange(before, after) ==
  /\ Absent \notin {before, after}
  /\ before.rest = after.rest /\ before.deps # after.deps

Answer(kind, accounted, packages) == [kind |-> kind, accounted |-> accounted, packages |-> packages]
NotAsked == Answer("not asked", {}, {})
FallsOpen == Answer("falls open", {}, {})

DependencyChange(diff) ==
  LET files == DOMAIN diff \cap DependencyFiles
      recorded == map.dependencies
      now == ReadInstalledInventory(installed)
      packages == ChangedPackages(recorded.inventory, now.inventory)
  IN  CASE files = {} \/ recorded = NoDependencies \/ DOMAIN map.entries = {} -> NotAsked
        [] \E m \in files \cap Manifests :
             ~DependencyOnlyManifestChange(map.commit[m], tree[m]) -> NotAsked
        [] OTHER ->
             IF \/ ~TreeIsProvablyCurrent(recorded, installed, tree[Lock])
                \/ now = NoDependencies
                \/ now.manager # recorded.manager
                \/ ~(packages \subseteq DOMAIN recorded.inventory)
             THEN FallsOpen
             ELSE Answer("accounted", files, packages)

\* packageAffected: no answer when an entry has none to give.
PackageAffected(packages) ==
  {u \in DOMAIN map.entries : map.entries[u].packages \cap packages # {}}
Unanswered(packages) ==
  packages # {} /\ \E u \in DOMAIN map.entries : map.entries[u].packages = NoPackages

-----------------------------------------------------------------------------
(* The inventory axis: testInventoryChange.                                *)

\* Mutant: a test without a version is the test that was recorded.
MovedByVersion(recorded) ==
  {u \in DOMAIN suite.version : u \notin DOMAIN recorded \/ recorded[u] # suite.version[u]}

\* Tests that are new, have changed, or cannot say.
Moved(recorded) ==
  {u \in DOMAIN suite.version :
     \/ suite.version[u] = Unversioned
     \/ u \notin DOMAIN recorded \/ recorded[u] # suite.version[u]}

RecordedVersions ==
  IF map.testInventory = NoInventory THEN <<>> ELSE map.testInventory.version

InventoryFallsOpen ==
  IF ~asks THEN map.testInventory # NoInventory
  ELSE \/ ~suite.ok
       \/ map.testInventory # NoInventory /\ map.testInventory.source # suite.source

-----------------------------------------------------------------------------
(* selectAffected.                                                         *)

Chosen(fullRun, files, units) == [fullRun |-> fullRun, files |-> files, units |-> units]

\* A full run names the external tests too, as they are or as they were recorded.
AllTests ==
  LET named == IF asks /\ suite.ok THEN DOMAIN suite.version
               ELSE IF map # NoMap THEN DOMAIN RecordedVersions ELSE {}
  IN  Chosen(TRUE, TestFiles, named)

KnownFiles ==
  {TestOf[u] : u \in (IF asks THEN DOMAIN suite.version ELSE {}) \cup DOMAIN RecordedVersions}

InSuite == TestFiles \cup KnownFiles

WholeTestFiles(diff) ==
  (Mandatory(Config, diff) \cap InSuite)
  \cup (TestFiles \cap Config.alwaysRun)
  \cup {f \in TestFiles : \A u \in DOMAIN map.entries : TestOf[u] # f}
  \cup {f \in InSuite : \E u \in DOMAIN map.entries : TestOf[u] = f /\ MeasuredNothing(map.entries[u])}

Narrowed(diff, fileChanges, packages) ==
  LET whole == WholeTestFiles(diff)
      asked == IF asks THEN Moved(RecordedVersions) ELSE {}
      unmapped == IF asks THEN DOMAIN suite.version \ DOMAIN map.entries ELSE {}
      hit == Affected(Config, map, fileChanges, tree) \cup PackageAffected(packages)
  IN  Chosen(FALSE, whole,
        {u \in hit \cup asked \cup unmapped : TestOf[u] \in InSuite \ whole})

SelectAffected ==
  IF map = NoMap \/ map.commit = NoCommit \/ (TestFiles = {} /\ AllTests.units = {})
  THEN AllTests
  ELSE LET diff == DiffChanges(map.commit, tree, tree)
           deps == DependencyChange(diff)
           fileChanges == [f \in DOMAIN diff \ deps.accounted |-> diff[f]]
       IN  IF \/ deps.kind = "falls open"
              \/ DOMAIN map.entries # {} /\ InventoryFallsOpen
              \/ FullRunForced(Config, map, fileChanges)
              \/ Unanswered(deps.packages)
           THEN AllTests
           ELSE Narrowed(diff, fileChanges, deps.packages)

-----------------------------------------------------------------------------
(* covsel status: what the next selection would be (nextSelection).        *)

\* Mutant: the policy is asked about the files the package axis speaks for.
NextIsFullRunByDiff ==
  \/ map = NoMap \/ (TestFiles = {} /\ ~asks)
  \/ map.commit = NoCommit
  \/ LET diff == DiffChanges(map.commit, tree, tree) IN
       \/ DependencyChange(diff).kind = "falls open"
       \/ DOMAIN map.entries # {} /\ InventoryFallsOpen
       \/ FullRunForced(Config, map, diff)

NextIsFullRun ==
  \/ map = NoMap \/ (TestFiles = {} /\ ~asks)
  \/ map.commit = NoCommit
  \/ LET diff == DiffChanges(map.commit, tree, tree)
         deps == DependencyChange(diff)
     IN  \/ deps.kind = "falls open"
         \/ DOMAIN map.entries # {} /\ InventoryFallsOpen
         \/ FullRunForced(Config, map, [f \in DOMAIN diff \ deps.accounted |-> diff[f]])

-----------------------------------------------------------------------------
Init ==
  /\ tree = Committed
  /\ installed = [managers |-> {"pnpm"}, marker |-> tree[Lock], links |-> tree[Lock], store |-> TRUE]
  /\ suite = (CHOOSE s \in Suites : s.ok) /\ asks \in BOOLEAN
  /\ shards = {} /\ map = NoMap /\ changes = 0

Next ==
  \/ \E f \in Path : \E content \in Contents[f] : Edit(f, content)
  \/ \E store \in BOOLEAN : Install(store)
  \/ \E over \in BOOLEAN : InstallFlat(over)
  \/ \E next \in Suites : Advance(next)
  \/ Ask
  \/ \E r \in Recorders : \E part \in Splits : Record(r, part \cap SuiteUnits)
  \/ Merge

Spec == Init /\ [][Next]_vars

-----------------------------------------------------------------------------
\* What a selection leaves out.  One whose inventory command fails can name no
\* external test that it has not seen: it runs all it knows of, and says so.
Skipped ==
  IF asks /\ ~suite.ok /\ SelectAffected.fullRun THEN {}
  ELSE {u \in SuiteUnits : TestOf[u] \notin SelectAffected.files /\ u \notin SelectAffected.units}

\* A test that is left out was recorded, and in every run of it that the map is
\* made of, whichever shard and isolate it was in, no source says anything else in
\* the parts of it that the run executed, white space aside: no shard's silence
\* stands for another's (merge.ts, combine.ts).
FilesCount ==
  \A u \in Skipped :
    /\ map # NoMap /\ u \in DOMAIN map.entries
    /\ \A run \in map.entries[u].ran :
         /\ u \notin External => tree[TestOf[u]] = run.on[TestOf[u]]
         /\ \A f \in DOMAIN run.parts : IsSource(Config, f) =>
              /\ tree[f] # Absent
              /\ \A p \in run.parts[f] \ {"literal", "lines"} : tree[f][p] = run.on[f][p]

\* Nor has the lockfile moved anything that decides which copy of a package its
\* imports get, nor has a setting of any manifest moved, nor anything of a lockfile
\* that no install is checked against (dependencies.ts: these files are downgraded
\* only to the names of packages).
PackagesCount ==
  \A u \in Skipped :
    /\ map # NoMap /\ u \in DOMAIN map.entries
    /\ \A run \in map.entries[u].ran :
        /\ \A m \in Manifests : tree[m] # run.on[m] =>
             Absent \notin {tree[m], run.on[m]} /\ tree[m].rest = run.on[m].rest
        /\ \A l \in NestedLocks : tree[l] = run.on[l]
        /\ tree[Lock] # run.on[Lock] =>
             tree[Lock] # Absent /\ Resolved(tree[Lock], Root, Uses[u]) = run.edges

\* Nor its own definition, nor the harness that drives it (test-inventory.ts).
SuiteCounts ==
  \A u \in Skipped \cap External :
    /\ suite.ok /\ map # NoMap /\ u \in DOMAIN map.entries
    /\ \A run \in map.entries[u].ran :
         /\ suite.version[u] = run.version /\ run.version # Unversioned
         /\ suite.source = run.source

\* Status and selection decide alone, and never differently: `two derivations of
\* one answer is the standing hazard here' (commands.ts:1436).  Where an inventory
\* is configured and nothing at all is discovered, status has no answer.
StatusAgrees ==
  TestFiles # {} \/ ~asks \/ AllTests.units # {} => (NextIsFullRun <=> SelectAffected.fullRun)

-----------------------------------------------------------------------------
(* What is proved supposes of a project what Axes.cfg gives it: without any  *)
(* of these the code does leave a test out that it should not.               *)

Sources(ran) == {f \in Loads(ran) : IsSource(Config, f)}

\* A recorder has blocks of every source that a test loads, or of none of them:
\* a merge asks only whether an entry has any (merge.ts:194).
BlocksOfAllOrNone ==
  \A r \in Recorders, u \in Unit : \A ran \in Behaviours[u] :
    {f \in Sources(ran) : \E i \in DOMAIN ran : f \in DOMAIN ran[i] /\ ~r.windows[i].blocks}
      \in {{}, Sources(ran)}

\* Whatever a test resolves goes by its own name, and coverage can name it.
ImportsArePlain ==
  \A links \in Contents[Lock] \ {Absent}, u \in Unit : \A l \in Resolved(links, Root, Uses[u]) :
    SurvivesResolution(l) /\ IdentityOf(l) /\ l.to \in Observable

\* A name that a test resolves in one tree, and did not in another, is one that
\* the other does not have at all.
NewNamesAreNew ==
  \A old, new \in Contents[Lock] \ {Absent}, u \in Unit : \A l \in Resolved(new, Root, Uses[u]) :
    \/ \E k \in Resolved(old, Root, Uses[u]) : k.name = l.name
    \/ \A k \in Vouched(old) : k.name # l.name
=============================================================================
