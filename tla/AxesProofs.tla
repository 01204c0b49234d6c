----------------------------- MODULE AxesProofs -----------------------------
(* A selection by all three axes leaves out no test that has moved, and what *)
(* status says of it is what it does: proofs about Axes for every repository *)
(* and its history of edits, installs and inventories, every recorder, and   *)
(* any number of shards.                                                     *)
EXTENDS Axes, FiniteSetTheorems, TLAPS

IsTree(t) == DOMAIN t = Path /\ \A f \in Path : t[f] \in Contents[f]

-----------------------------------------------------------------------------
(* The invariant.                                                           *)

\* Whatever parts of a file a run executed, some block among the hashes tells
\* when one of them moves.
Tells(run, f, hashes) ==
  \A p \in run.parts[f] \ {"literal", "lines"} :
    \E b \in Block : p \in Spans[b] /\ Hash(b, run.on[f]) \in hashes

\* What an entry says of a run it is made of.
Credits(e, run) ==
  \A f \in DOMAIN run.parts :
    /\ f \in Path \ DependencyFiles /\ run.on[f] # Absent
    /\ IsSource(Config, f) /\ e.files # {} => f \in e.files
    /\ BlocksOfAllOrNone /\ IsSource(Config, f) /\ e.blocks[f] # {} => Tells(run, f, e.blocks[f])

Names(e, run) ==
  e.packages # NoPackages =>
    \A l \in run.edges : l.to \in Observable => NameOf[l.to] \in e.packages

Describes(u, e) ==
  \A run \in e.ran :
    /\ IsTree(run.on) /\ run.on[Lock] # Absent
    /\ run.edges = Resolved(run.on[Lock], Root, Uses[u])
    /\ Credits(e, run) /\ Names(e, run)

\* An entry with blocks has them of all its files, if recorders have so.
Whole(e) ==
  BlocksOfAllOrNone /\ HasBlocks(e) => e.files # {} /\ \A f \in e.files : e.blocks[f] # {}

\* What the packages of an installed lockfile are recorded as.
Listing(links) == [n \in {l.name : l \in Vouched(links)} |-> Edges(links, n)]

\* A map's entries describe their runs; its commit, packages and inventory are
\* those of all of them; and it has all tests of a file, or none.
OnCommit(m) ==
  m.commit # NoCommit =>
    /\ \A u \in DOMAIN m.entries : \A run \in m.entries[u].ran : run.on = m.commit
    /\ m.dependencies # NoDependencies =>
         "inventory" \in DOMAIN m.dependencies /\ m.dependencies.inventory = Listing(m.commit[Lock])

OfInventory(m) ==
  m.testInventory # NoInventory =>
    \A u \in DOMAIN m.entries \cap External : \A run \in m.entries[u].ran :
      /\ u \in DOMAIN m.testInventory.version
      /\ run.version = m.testInventory.version[u] /\ run.source = m.testInventory.source

Together(m) ==
  \A u, v \in Unit \ External : u \in DOMAIN m.entries /\ TestOf[u] = TestOf[v] => v \in DOMAIN m.entries

MapSound(m) ==
  /\ DOMAIN m.entries \subseteq Unit
  /\ \A u \in DOMAIN m.entries : Describes(u, m.entries[u])
  /\ OnCommit(m) /\ OfInventory(m) /\ Together(m)

\* Of a shard, whose entries may meet others of their tests.
ShardSound(m) == MapSound(m) /\ \A u \in DOMAIN m.entries : Whole(m.entries[u])

\* A map that has an inventory of packages has the packages of every entry.
Answerable(m) ==
  m.dependencies # NoDependencies => \A u \in DOMAIN m.entries : m.entries[u].packages # NoPackages

\* An install of pnpm's alone is of the lockfile its marker copies.
InstalledSound ==
  /\ installed.managers \in {{"pnpm"}, {"npm"}, {"pnpm", "npm"}}
  /\ installed.managers = {"pnpm"} => installed.links = installed.marker
  /\ installed.links # Absent

IInv ==
  /\ IsTree(tree) /\ suite \in Suites /\ InstalledSound
  /\ IsFiniteSet(shards) /\ \A m \in shards : ShardSound(m)
  /\ map # NoMap => MapSound(map) /\ Answerable(map)

-----------------------------------------------------------------------------
(* Blocks, windows and entries.                                             *)

\* A run of a file leaves some block, and each part it executed is in one of
\* those it leaves.
LEMMA ExecutedIsHashed ==
  ASSUME NEW content, NEW ran \in SUBSET Fn, NEW p \in Executed(ran) \ {"literal", "lines"}
  PROVE  \E b \in Block : p \in Spans[b] /\ Hash(b, content) \in SelectExecutedBlocks(content, ran)
<1>1. PICK b \in ran \cup {IF ran = {} THEN LOAD_BLOCK ELSE MODULE_BLOCK} : b \in Block /\ p \in Spans[b]
  BY BlocksAssumption DEF Executed, Block, Spans, LOAD_BLOCK, MODULE_BLOCK
<1> QED
  BY <1>1 DEF SelectExecutedBlocks

\* What one window has of a run.
LEMMA WindowHas ==
  ASSUME NEW r, NEW i, NEW u, NEW ran, u \notin r.blind
  PROVE  LET w == Window(r, i, u, ran) IN
           /\ w.files = {f \in DOMAIN ran[i] : IsSource(Config, f)}
           /\ \A f \in Path :
                w.blocks[f] = IF f \in w.files /\ r.windows[i].blocks
                              THEN SelectExecutedBlocks(tree[f], ran[i][f]) ELSE {}
  BY DEF Window

\* Nothing, where its recorder is blind to the test.
LEMMA BlindHasNothing ==
  ASSUME NEW r, NEW i, NEW u, NEW ran, u \in r.blind
  PROVE  LET w == Window(r, i, u, ran) IN w.files = {} /\ \A f \in Path : w.blocks[f] = {}
  BY DEF Window

\* An entry that is recorded tells of its run, and has the blocks of all its
\* files or of none of them.
LEMMA RecordedIsSound ==
  ASSUME IsTree(tree), installed.links = tree[Lock], installed.links # Absent,
         NEW r \in Recorders, NEW u \in Unit, NEW ran \in Behaviours[u], Loads(ran) \subseteq Present
  PROVE  Describes(u, EntryOf(r, u, ran)) /\ Whole(EntryOf(r, u, ran))
<1> DEFINE e == EntryOf(r, u, ran)
           run == Run(u, ran)
           w(i) == Window(r, i, u, ran)
           Windows == {w(i) : i \in DOMAIN ran}
<1>1. /\ e.files = UNION {v.files : v \in Windows}
      /\ e.blocks = [f \in Path |-> KnownBlocks(Windows, f)]
      /\ e.packages = UnionOfPackages(Windows)
      /\ e.ran = {run}
  BY DEF EntryOf, RecordedUnit, CombineObservations
<1>2. /\ run.parts = [f \in Loads(ran) |-> Parts(ran, f)] /\ run.on = tree
      /\ run.edges = Resolved(tree[Lock], Root, Uses[u])
  BY DEF Run
<1>3. /\ DOMAIN ran # {}
      /\ \A i \in DOMAIN ran : /\ DOMAIN ran[i] \subseteq Path \ DependencyFiles
                               /\ \A f \in DOMAIN ran[i] : ran[i][f] \in SUBSET Fn
  BY AxesAssumption
<1> HIDE DEF e, run, w
<1>4. ASSUME u \in r.blind PROVE e.files = {} /\ \A f \in Path : e.blocks[f] = {}
  BY <1>1, <1>4, BlindHasNothing DEF w, KnownBlocks
<1>5. ASSUME u \notin r.blind
      PROVE  e.files = Sources(ran)
  BY <1>1, <1>5, WindowHas DEF w, Sources, Loads
<1>6. ASSUME u \notin r.blind, NEW f \in Path, e.blocks[f] # {}
      PROVE  /\ f \in Sources(ran)
             /\ \A i \in DOMAIN ran : f \in DOMAIN ran[i] =>
                  r.windows[i].blocks /\ SelectExecutedBlocks(tree[f], ran[i][f]) \subseteq e.blocks[f]
  <2>1. /\ \A v \in Windows : f \in v.files => v.blocks[f] # {}
        /\ e.blocks[f] = UNION {v.blocks[f] : v \in Windows}
    BY <1>1, <1>6 DEF KnownBlocks
  <2>2. PICK j \in DOMAIN ran : w(j).blocks[f] # {}
    BY <1>6, <2>1
  <2>3. f \in w(j).files
    BY <1>6, <2>2, WindowHas DEF w
  <2>4. f \in Sources(ran)
    BY <1>6, <2>3, WindowHas DEF w, Sources, Loads
  <2>5. ASSUME NEW i \in DOMAIN ran, f \in DOMAIN ran[i]
        PROVE  r.windows[i].blocks /\ SelectExecutedBlocks(tree[f], ran[i][f]) \subseteq e.blocks[f]
    <3>1. f \in w(i).files
      BY <1>6, <2>4, <2>5, WindowHas DEF w, Sources
    <3>2. w(i).blocks[f] # {} /\ w(i).blocks[f] \subseteq e.blocks[f]
      BY <2>1, <2>5, <3>1
    <3> QED
      BY <1>6, <3>1, <3>2, WindowHas DEF w
  <2> QED
    BY <2>4, <2>5
<1>7. Credits(e, run)
  <2> SUFFICES ASSUME NEW f \in Loads(ran)
               PROVE  /\ f \in Path \ DependencyFiles /\ tree[f] # Absent
                      /\ IsSource(Config, f) /\ e.files # {} => f \in e.files
                      /\ IsSource(Config, f) /\ e.blocks[f] # {} => Tells(run, f, e.blocks[f])
    BY <1>2 DEF Credits
  <2>1. f \in Path \ DependencyFiles /\ tree[f] # Absent
    BY <1>3 DEF Loads, Present
  <2>2. IsSource(Config, f) /\ e.files # {} => f \in e.files
    BY <1>4, <1>5 DEF Sources
  <2>3. ASSUME e.blocks[f] # {} PROVE Tells(run, f, e.blocks[f])
    <3> SUFFICES ASSUME NEW p \in Parts(ran, f) \ {"literal", "lines"}
                 PROVE  \E b \in Block : p \in Spans[b] /\ Hash(b, tree[f]) \in e.blocks[f]
      BY <1>2 DEF Tells
    <3>1. PICK i \in DOMAIN ran : f \in DOMAIN ran[i] /\ p \in Executed(ran[i][f])
      BY DEF Parts
    <3>2. SelectExecutedBlocks(tree[f], ran[i][f]) \subseteq e.blocks[f]
      BY <1>4, <1>6, <2>1, <2>3, <3>1
    <3> QED
      BY <1>3, <3>1, <3>2, ExecutedIsHashed
  <2> QED
    BY <2>1, <2>2, <2>3
<1>8. Names(e, run)
  <2> SUFFICES ASSUME e.packages # NoPackages, NEW l \in run.edges, l.to \in Observable
               PROVE  NameOf[l.to] \in e.packages
    BY DEF Names
  <2>1. e.packages = UNION {v.packages : v \in Windows} /\ \A v \in Windows : v.packages # NoPackages
    BY <1>1 DEF UnionOfPackages
  <2>2. PICK i \in DOMAIN ran : TRUE
    BY <1>3
  <2>3. w(i).packages # NoPackages /\ w(i).packages \subseteq e.packages
    BY <2>1
  <2>4. w(i).packages = {NameOf[k.to] : k \in {k \in run.edges : k.to \in Observable}}
    BY <1>2, <2>3 DEF w, Window
  <2> QED
    BY <2>3, <2>4
<1>9. Describes(u, e)
  BY <1>1, <1>2, <1>7, <1>8 DEF Describes
<1>10. Whole(e)
  <2> SUFFICES ASSUME BlocksOfAllOrNone, NEW f \in Path, e.blocks[f] # {}, NEW g
               PROVE  e.files # {} /\ (g \in e.files => e.blocks[g] # {})
    BY DEF Whole, HasBlocks
  <2>1. u \notin r.blind
    BY <1>4
  <2>2. /\ f \in Sources(ran)
        /\ \A i \in DOMAIN ran : f \in DOMAIN ran[i] => r.windows[i].blocks
    BY <1>6, <2>1
  <2>3. \A g1 \in Sources(ran) : \A i \in DOMAIN ran : g1 \in DOMAIN ran[i] => r.windows[i].blocks
    BY <2>2 DEF BlocksOfAllOrNone
  <2>4. ASSUME g \in Sources(ran) PROVE e.blocks[g] # {}
    <3>1. g \in Path
      BY <1>3, <2>4 DEF Sources, Loads
    <3>2. ASSUME NEW i \in DOMAIN ran, g \in w(i).files PROVE w(i).blocks[g] # {}
      <4>1. w(i).blocks[g] = SelectExecutedBlocks(tree[g], ran[i][g])
        BY <2>1, <2>3, <2>4, <3>1, <3>2, WindowHas DEF w
      <4>2. Hash(IF ran[i][g] = {} THEN LOAD_BLOCK ELSE MODULE_BLOCK, tree[g]) \in w(i).blocks[g]
        BY <4>1 DEF SelectExecutedBlocks
      <4> QED
        BY <4>2
    <3>3. PICK i \in DOMAIN ran : g \in w(i).files
      BY <2>1, <2>4, WindowHas DEF w, Sources, Loads
    <3>4. e.blocks[g] = UNION {v.blocks[g] : v \in Windows}
      BY <1>1, <3>1, <3>2 DEF KnownBlocks
    <3> QED
      BY <3>2, <3>3, <3>4
  <2> QED
    BY <1>5, <2>1, <2>2, <2>4
<1> QED
  BY <1>9, <1>10 DEF e

-----------------------------------------------------------------------------
(* Merging.                                                                 *)

\* Entries that tell of their runs, and have blocks of all their files or of
\* none, make one that tells of the runs of each.
LEMMA MergedIsSound ==
  ASSUME NEW u, NEW es, \A e \in es : Describes(u, e) /\ Whole(e)
  PROVE  Describes(u, MergeEntries(es))
<1> DEFINE m == MergeEntries(es)
<1> SUFFICES ASSUME NEW e \in es, NEW run \in e.ran
             PROVE  Credits(m, run) /\ Names(m, run)
  <2>1. m.ran = UNION {e.ran : e \in es}
    BY DEF MergeEntries
  <2> QED
    BY <2>1 DEF Describes
<1>1. Credits(e, run) /\ Names(e, run) /\ Whole(e)
  BY DEF Describes
<1>2. m.files # {} => e.files # {} /\ e.files \subseteq m.files
  BY DEF MergeEntries, MergeFiles, MeasuredNothing
<1>3. ASSUME NEW f \in Path, m.blocks[f] # {}
      PROVE  HasBlocks(e) /\ e.blocks[f] \subseteq m.blocks[f]
  BY <1>3 DEF MergeEntries, NoBlocks
<1>4. m.packages # NoPackages => e.packages # NoPackages /\ e.packages \subseteq m.packages
  BY DEF MergeEntries, UnionOfPackages
<1> HIDE DEF m
<1>5. Names(m, run)
  BY <1>1, <1>4 DEF Names
<1>6. Credits(m, run)
  <2> SUFFICES ASSUME NEW f \in DOMAIN run.parts, IsSource(Config, f)
               PROVE  /\ m.files # {} => f \in m.files
                      /\ BlocksOfAllOrNone /\ m.blocks[f] # {} => Tells(run, f, m.blocks[f])
    BY <1>1 DEF Credits
  <2>1. f \in Path /\ (m.files # {} => f \in m.files)
    BY <1>1, <1>2 DEF Credits
  <2>2. ASSUME BlocksOfAllOrNone, m.blocks[f] # {} PROVE Tells(run, f, m.blocks[f])
    <3>1. HasBlocks(e) /\ e.blocks[f] \subseteq m.blocks[f]
      BY <1>3, <2>1, <2>2
    <3>2. f \in e.files /\ e.blocks[f] # {}
      BY <1>1, <2>2, <3>1 DEF Credits, Whole
    <3>3. Tells(run, f, e.blocks[f])
      BY <1>1, <2>2, <3>2 DEF Credits
    <3> QED
      BY <3>1, <3>3 DEF Tells
  <2> QED
    BY <2>1, <2>2
<1> QED
  BY <1>5, <1>6 DEF m

\* What all agree on is what each of them says.
LEMMA AgreedByEach ==
  ASSUME NEW S, IsFiniteSet(S), NEW f, NEW T, NEW none, Agreed(T, none) # none,
         \A x \in S : f[x] \in T, \A v \in T : \E x \in S : v = f[x]
  PROVE  \A x \in S : f[x] = Agreed(T, none)
<1> DEFINE g == [x \in S |-> f[x]]
<1>1. IsFiniteSet(T)
  <2>1. g \in Surjection(S, T)
    BY DEF Surjection
  <2> QED
    BY <2>1, FS_Surjection
<1>2. PICK v : T = {v}
  <2>1. Cardinality(T) = 1
    BY DEF Agreed
  <2> QED
    BY <1>1, <2>1, FS_Singleton
<1>3. Cardinality(T) = 1
  BY DEF Agreed
<1>4. Agreed(T, none) = v
  BY <1>2, <1>3 DEF Agreed
<1> QED
  BY <1>2, <1>4

\* Trees that list the same packages have all of them in common.
LEMMA SharedIsAll ==
  ASSUME NEW maps, maps # {}, NEW links,
         \A m \in maps : m.dependencies # NoDependencies =>
           "inventory" \in DOMAIN m.dependencies /\ m.dependencies.inventory = Listing(links),
         AgreedDependencies(maps) # NoDependencies
  PROVE  LET d == AgreedDependencies(maps) IN "inventory" \in DOMAIN d /\ d.inventory = Listing(links)
<1> DEFINE deps == {m.dependencies : m \in maps}
           first == CHOOSE d \in deps : TRUE
           shared == {n \in DOMAIN first.inventory :
                        \A d \in deps : n \in DOMAIN d.inventory /\ d.inventory[n] = first.inventory[n]}
<1>1. first \in deps
  OBVIOUS
<1>2. /\ NoDependencies \notin deps
      /\ AgreedDependencies(maps) = [first EXCEPT !.inventory = [n \in shared |-> first.inventory[n]]]
  BY DEF AgreedDependencies
<1>3. \A d \in deps : "inventory" \in DOMAIN d /\ d.inventory = Listing(links)
  BY <1>2
<1>4. shared = DOMAIN Listing(links) /\ first.inventory = Listing(links)
  BY <1>1, <1>3
<1>5. Listing(links) = [n \in DOMAIN Listing(links) |-> Listing(links)[n]]
  BY DEF Listing
<1> HIDE DEF deps, first, shared
<1> QED
  BY <1>1, <1>2, <1>3, <1>4, <1>5

\* Sound shards make a sound map.
LEMMA MergeIsSound ==
  ASSUME NEW maps, IsFiniteSet(maps), maps # {}, \A m \in maps : ShardSound(m)
  PROVE  MapSound(MergeMaps(maps)) /\ Answerable(MergeMaps(maps))
<1> DEFINE units == UNION {DOMAIN m.entries : m \in maps}
           of(u) == {m.entries[u] : m \in {n \in maps : u \in DOMAIN n.entries}}
           all == MergeMaps(maps)
<1>1. /\ DOMAIN all.entries = units
      /\ \A u \in units : all.entries[u] = MergeEntries(of(u))
  BY DEF MergeMaps
<1>2. /\ all.commit = Agreed({m.commit : m \in maps}, NoCommit)
      /\ all.testInventory = Agreed({m.testInventory : m \in maps}, NoInventory)
      /\ all.dependencies = IF units # {} /\ \A u \in units : all.entries[u].packages # NoPackages
                            THEN AgreedDependencies(maps) ELSE NoDependencies
  BY <1>1 DEF MergeMaps
<1> HIDE DEF all
<1>3. \A m \in maps : MapSound(m) /\ \A u \in DOMAIN m.entries : Whole(m.entries[u])
  BY DEF ShardSound
<1>4. Answerable(all)
  BY <1>1, <1>2 DEF Answerable
<1>5. units \subseteq Unit /\ Together(all)
  <2>1. units \subseteq Unit
    BY <1>3 DEF MapSound
  <2>2. ASSUME NEW u \in Unit \ External, NEW v \in Unit \ External, u \in units, TestOf[u] = TestOf[v]
        PROVE  v \in units
    BY <1>3, <2>2 DEF MapSound, Together
  <2> QED
    BY <1>1, <2>1, <2>2 DEF Together
<1>6. ASSUME NEW u \in units PROVE Describes(u, all.entries[u])
  <2>1. \A e \in of(u) : Describes(u, e) /\ Whole(e)
    BY <1>3 DEF MapSound
  <2> QED
    BY <1>1, <2>1, MergedIsSound
<1>7. ASSUME NEW u \in units, NEW run \in all.entries[u].ran
      PROVE  \E m \in maps : u \in DOMAIN m.entries /\ run \in m.entries[u].ran
  <2>1. \A es : MergeEntries(es).ran = UNION {e.ran : e \in es}
    BY DEF MergeEntries
  <2>2. run \in UNION {e.ran : e \in of(u)}
    BY <1>1, <1>7, <2>1
  <2> QED
    BY <2>2
<1>8. OnCommit(all)
  <2> SUFFICES ASSUME all.commit # NoCommit
               PROVE  /\ \A u \in units : \A run \in all.entries[u].ran : run.on = all.commit
                      /\ all.dependencies # NoDependencies =>
                           /\ "inventory" \in DOMAIN all.dependencies
                           /\ all.dependencies.inventory = Listing(all.commit[Lock])
    BY <1>1 DEF OnCommit
  <2> DEFINE c == [m \in maps |-> m.commit]
             said == {m.commit : m \in maps}
  <2>1. /\ all.commit = Agreed(said, NoCommit) /\ all.commit # NoCommit
        /\ (\A m \in maps : c[m] \in said) /\ \A v \in said : \E m \in maps : v = c[m]
    BY <1>2
  <2> HIDE DEF c, said
  <2>2. \A m \in maps : c[m] = all.commit
    BY <2>1, AgreedByEach
  <2>3. \A m \in maps : m.commit = all.commit
    BY <2>2 DEF c
  <2>4. \A u \in units : \A run \in all.entries[u].ran : run.on = all.commit
    BY <1>3, <1>7, <2>3 DEF MapSound, OnCommit
  <2>5. ASSUME all.dependencies # NoDependencies
        PROVE  /\ "inventory" \in DOMAIN all.dependencies
               /\ all.dependencies.inventory = Listing(all.commit[Lock])
    <3>1. all.dependencies = AgreedDependencies(maps)
      BY <1>2, <2>5
    <3>2. \A m \in maps : m.dependencies # NoDependencies =>
            /\ "inventory" \in DOMAIN m.dependencies
            /\ m.dependencies.inventory = Listing(all.commit[Lock])
      BY <1>3, <2>3 DEF MapSound, OnCommit
    <3> QED
      BY <2>5, <3>1, <3>2, SharedIsAll
  <2> QED
    BY <2>4, <2>5
<1>9. OfInventory(all)
  <2> SUFFICES ASSUME all.testInventory # NoInventory,
                      NEW u \in units \cap External, NEW run \in all.entries[u].ran
               PROVE  /\ u \in DOMAIN all.testInventory.version
                      /\ run.version = all.testInventory.version[u]
                      /\ run.source = all.testInventory.source
    BY <1>1 DEF OfInventory
  <2> DEFINE c == [m \in maps |-> m.testInventory]
             said == {m.testInventory : m \in maps}
  <2>1. /\ all.testInventory = Agreed(said, NoInventory) /\ all.testInventory # NoInventory
        /\ (\A m \in maps : c[m] \in said) /\ \A v \in said : \E m \in maps : v = c[m]
    BY <1>2
  <2> HIDE DEF c, said
  <2>2. \A m \in maps : c[m] = all.testInventory
    BY <2>1, AgreedByEach
  <2>3. PICK m \in maps : u \in DOMAIN m.entries /\ run \in m.entries[u].ran
    BY <1>7
  <2>4. m.testInventory = all.testInventory
    BY <2>2 DEF c
  <2> QED
    BY <1>3, <2>3, <2>4 DEF MapSound, OfInventory
<1> QED
  BY <1>1, <1>4, <1>5, <1>6, <1>8, <1>9 DEF MapSound, all

-----------------------------------------------------------------------------
(* Every step keeps the invariant.                                          *)

\* Nothing is recorded of the repository as it is committed first.
LEMMA InitIInv == Init => IInv
<1> SUFFICES ASSUME Init PROVE IInv
  OBVIOUS
<1>1. IsTree(tree)
  BY AxesAssumption DEF Init, IsTree
<1>2. suite \in Suites
  BY AxesAssumption DEF Init
<1>3. InstalledSound
  BY AxesAssumption DEF Init, InstalledSound
<1>4. IsFiniteSet(shards)
  BY FS_EmptySet DEF Init
<1> QED
  BY <1>1, <1>2, <1>3, <1>4 DEF Init, IInv

\* The units of a shard have all tests of a file, or none.
LEMMA SplitsAreTogether ==
  ASSUME suite \in Suites, NEW part \in Splits
  PROVE  /\ part \cap SuiteUnits \subseteq Unit
         /\ \A u, v \in Unit \ External :
              u \in part \cap SuiteUnits /\ TestOf[u] = TestOf[v] => v \in part \cap SuiteUnits
<1>1. DOMAIN suite.version \subseteq External /\ External \subseteq Unit
  BY AxesAssumption
<1>2. \A u \in Unit \ External : u \in SuiteUnits <=> TestOf[u] \in TestFiles
  BY <1>1 DEF SuiteUnits, ExternalUnits
<1>3. SuiteUnits \subseteq Unit
  BY <1>1 DEF SuiteUnits, ExternalUnits
<1> QED
  BY <1>2, <1>3, AxesAssumption

\* A shard that is recorded is sound.
LEMMA AssembledIsSound ==
  ASSUME IInv, installed.links = tree[Lock], NEW r \in Recorders, NEW part \in Splits,
         NEW behaviour, DOMAIN behaviour = part \cap SuiteUnits,
         \A u \in DOMAIN behaviour : behaviour[u] \in Behaviours[u] /\ Loads(behaviour[u]) \subseteq Present
  PROVE  ShardSound(AssembleMap(r, behaviour))
<1> DEFINE m == AssembleMap(r, behaviour)
<1>1. /\ DOMAIN m.entries = DOMAIN behaviour
      /\ \A u \in DOMAIN behaviour : m.entries[u] = EntryOf(r, u, behaviour[u])
      /\ m.commit = tree
      /\ m.dependencies = IF r.packages THEN ReadInstalledInventory(installed) ELSE NoDependencies
      /\ m.testInventory = IF asks THEN [source |-> suite.source, version |-> suite.version]
                           ELSE NoInventory
  BY DEF AssembleMap
<1> HIDE DEF m
<1>2. DOMAIN m.entries \subseteq Unit /\ Together(m)
  BY <1>1, SplitsAreTogether DEF IInv, Together
<1>3. ASSUME NEW u \in DOMAIN m.entries
      PROVE  /\ Describes(u, m.entries[u]) /\ Whole(m.entries[u])
             /\ m.entries[u].ran = {Run(u, behaviour[u])}
  <2>1. Describes(u, EntryOf(r, u, behaviour[u])) /\ Whole(EntryOf(r, u, behaviour[u]))
    BY <1>1, <1>2, RecordedIsSound DEF IInv, InstalledSound
  <2>2. EntryOf(r, u, behaviour[u]).ran = {Run(u, behaviour[u])}
    BY DEF EntryOf
  <2> QED
    BY <1>1, <2>1, <2>2
<1>4. OnCommit(m)
  <2>1. \A u \in DOMAIN m.entries : \A run \in m.entries[u].ran : run.on = m.commit
    BY <1>1, <1>3 DEF Run
  <2>2. ASSUME m.dependencies # NoDependencies
        PROVE  "inventory" \in DOMAIN m.dependencies /\ m.dependencies.inventory = Listing(tree[Lock])
    <3> DEFINE names == IF installed.store THEN {l.name : l \in Vouched(tree[Lock])} ELSE {}
    <3>1. /\ m.dependencies = [manager |-> CHOOSE k \in installed.managers : TRUE,
                               marker |-> installed.marker,
                               inventory |-> [n \in names |-> Edges(tree[Lock], n)]]
          /\ names # {}
      BY <1>1, <2>2 DEF ReadInstalledInventory
    <3>2. names = {l.name : l \in Vouched(tree[Lock])}
      BY <3>1
    <3> QED
      BY <3>1, <3>2 DEF Listing
  <2> QED
    BY <1>1, <2>1, <2>2 DEF OnCommit
<1>5. OfInventory(m)
  <2> SUFFICES ASSUME asks, NEW u \in DOMAIN behaviour \cap External
               PROVE  LET run == Run(u, behaviour[u]) IN
                        /\ u \in DOMAIN suite.version
                        /\ run.version = suite.version[u] /\ run.source = suite.source
    BY <1>1, <1>3 DEF OfInventory
  <2>1. u \in ExternalUnits
    BY DEF SuiteUnits
  <2> QED
    BY <2>1 DEF ExternalUnits, Run
<1> QED
  BY <1>2, <1>3, <1>4, <1>5 DEF ShardSound, MapSound, m

\* Developers, installs and inventories leave the maps alone; a recording adds a
\* sound shard, and a merge makes one of them.
LEMMA StepIInv == IInv /\ [Next]_vars => IInv'
<1> SUFFICES ASSUME IInv, [Next]_vars PROVE IInv'
  OBVIOUS
<1>1. ASSUME NEW f \in Path, NEW content \in Contents[f], Edit(f, content) PROVE IInv'
  BY <1>1 DEF Edit, IInv, IsTree, InstalledSound
<1>2. ASSUME NEW store \in BOOLEAN, Install(store) PROVE IInv'
  BY <1>2 DEF Install, IInv, InstalledSound
<1>3. ASSUME NEW over \in BOOLEAN, InstallFlat(over) PROVE IInv'
  BY <1>3 DEF InstallFlat, IInv, InstalledSound
<1>4. ASSUME NEW next \in Suites, Advance(next) PROVE IInv'
  BY <1>4 DEF Advance, IInv, InstalledSound
<1>5. CASE Ask
  BY <1>5 DEF Ask, IInv, InstalledSound
<1>6. ASSUME NEW r \in Recorders, NEW part \in Splits, Record(r, part \cap SuiteUnits) PROVE IInv'
  <2>1. /\ installed.links = tree[Lock] /\ map = NoMap
        /\ UNCHANGED <<tree, installed, suite, asks, map, changes>>
    BY <1>6 DEF Record
  <2>2. PICK behaviour :
          /\ DOMAIN behaviour = part \cap SuiteUnits
          /\ \A u \in DOMAIN behaviour :
               behaviour[u] \in Behaviours[u] /\ Loads(behaviour[u]) \subseteq Present
          /\ shards' = shards \cup {AssembleMap(r, behaviour)}
    BY <1>6 DEF Record
  <2>3. ShardSound(AssembleMap(r, behaviour))
    BY <2>1, <2>2, AssembledIsSound
  <2>4. IsFiniteSet(shards') /\ \A m \in shards' : ShardSound(m)
    BY <2>2, <2>3, FS_AddElement DEF IInv
  <2> QED
    BY <2>1, <2>4 DEF IInv, InstalledSound
<1>7. CASE Merge
  <2>1. /\ shards # {} /\ map' = MergeMaps(shards) /\ shards' = {}
        /\ UNCHANGED <<tree, installed, suite, asks, changes>>
    BY <1>7 DEF Merge
  <2>2. MapSound(map') /\ Answerable(map')
    BY <2>1, MergeIsSound DEF IInv
  <2> QED
    BY <2>1, <2>2, FS_EmptySet DEF IInv, InstalledSound
<1>8. CASE UNCHANGED vars
  BY <1>8 DEF vars, IInv, InstalledSound
<1> QED
  BY <1>1, <1>2, <1>3, <1>4, <1>5, <1>6, <1>7, <1>8 DEF Next

\* The invariant holds in every state that is reached.
THEOREM Invariance == Spec => []IInv
<1>1. IInv /\ [Next]_vars => IInv'
  BY StepIInv
<1> QED
  BY InitIInv, <1>1, PTL DEF Spec

-----------------------------------------------------------------------------
(* What a selection that is no full run has established.                    *)

Diff == DiffChanges(map.commit, tree, tree)
Deps == DependencyChange(Diff)
FileChanges == [f \in DOMAIN Diff \ Deps.accounted |-> Diff[f]]

\* A full run leaves out nothing that is in the suite.
LEMMA FullRunSkipsNothing ==
  ASSUME SelectAffected = AllTests
  PROVE  Skipped = {}
<1> SUFFICES ASSUME NEW u \in Skipped PROVE FALSE
  OBVIOUS
<1>1. AllTests.fullRun /\ AllTests.files = TestFiles
  BY DEF AllTests, Chosen
<1>2. /\ ~(asks /\ ~suite.ok)
      /\ u \in SuiteUnits /\ TestOf[u] \notin TestFiles /\ u \notin AllTests.units
  BY <1>1 DEF Skipped
<1>3. asks /\ u \in DOMAIN suite.version
  BY <1>2 DEF SuiteUnits, ExternalUnits
<1> QED
  BY <1>2, <1>3 DEF AllTests, Chosen

\* A selection is a full run, or says which tests it chose.
LEMMA FullOrNarrowed ==
  \/ SelectAffected = AllTests
  \/ /\ map # NoMap /\ map.commit # NoCommit
     /\ Deps.kind # "falls open" /\ ~(DOMAIN map.entries # {} /\ InventoryFallsOpen)
     /\ ~FullRunForced(Config, map, FileChanges) /\ ~Unanswered(Deps.packages)
     /\ SelectAffected = Narrowed(Diff, FileChanges, Deps.packages)
  BY DEF SelectAffected, Diff, Deps, FileChanges

\* A test that is left out has an entry that measured something, and none of the
\* three axes chose it.
LEMMA SkippedIsUntouched ==
  ASSUME IInv, NEW u \in Skipped
  PROVE  /\ map # NoMap /\ map.commit # NoCommit /\ u \in DOMAIN map.entries
         /\ Deps.kind # "falls open" /\ ~InventoryFallsOpen /\ ~FullRunForced(Config, map, FileChanges)
         /\ TestOf[u] \in InSuite \ WholeTestFiles(Diff) /\ (u \notin External => TestOf[u] \in TestFiles)
         /\ u \notin Affected(Config, map, FileChanges, tree) /\ u \notin PackageAffected(Deps.packages)
         /\ u \in External => asks /\ u \in DOMAIN suite.version /\ u \notin Moved(RecordedVersions)
         /\ map.entries[u].files # {}
<1> DEFINE whole == WholeTestFiles(Diff)
<1>1. /\ map # NoMap /\ map.commit # NoCommit
      /\ Deps.kind # "falls open" /\ ~(DOMAIN map.entries # {} /\ InventoryFallsOpen)
      /\ ~FullRunForced(Config, map, FileChanges)
      /\ SelectAffected = Narrowed(Diff, FileChanges, Deps.packages)
  BY FullRunSkipsNothing, FullOrNarrowed
<1>2. DOMAIN map.entries # {}
  BY <1>1 DEF FullRunForced
<1>3. u \in SuiteUnits /\ TestOf[u] \notin SelectAffected.files /\ u \notin SelectAffected.units
  BY DEF Skipped
<1>4. /\ SelectAffected.files = whole
      /\ SelectAffected.units =
           {v \in (Affected(Config, map, FileChanges, tree) \cup PackageAffected(Deps.packages))
                  \cup (IF asks THEN Moved(RecordedVersions) ELSE {})
                  \cup (IF asks THEN DOMAIN suite.version \ DOMAIN map.entries ELSE {}) :
              TestOf[v] \in InSuite \ whole}
  BY <1>1 DEF Narrowed, Chosen
<1> HIDE DEF whole
<1>5. /\ u \in Unit
      /\ u \in External => asks /\ u \in DOMAIN suite.version
      /\ u \notin External => TestOf[u] \in TestFiles
  <2>1. DOMAIN suite.version \subseteq External /\ External \subseteq Unit
    BY AxesAssumption DEF IInv
  <2> QED
    BY <1>3, <2>1 DEF SuiteUnits, ExternalUnits
<1>6. TestOf[u] \in InSuite
  BY <1>5 DEF InSuite, KnownFiles
<1>7. /\ u \notin Affected(Config, map, FileChanges, tree) /\ u \notin PackageAffected(Deps.packages)
      /\ u \in External => u \notin Moved(RecordedVersions) /\ u \in DOMAIN map.entries
  BY <1>3, <1>4, <1>5, <1>6
<1>8. ASSUME u \notin External PROVE u \in DOMAIN map.entries
  <2>1. TestOf[u] \notin {f \in TestFiles : \A v \in DOMAIN map.entries : TestOf[v] # f}
    BY <1>3, <1>4 DEF whole, WholeTestFiles
  <2>2. PICK v \in DOMAIN map.entries : TestOf[v] = TestOf[u]
    BY <1>5, <1>8, <2>1
  <2>3. v \in Unit \ External
    BY <1>1, <1>5, <1>8, <2>2, AxesAssumption DEF IInv, MapSound
  <2> QED
    BY <1>1, <1>5, <1>8, <2>2, <2>3 DEF IInv, MapSound, Together
<1>9. map.entries[u].files # {}
  BY <1>3, <1>4, <1>6, <1>7, <1>8 DEF whole, WholeTestFiles, MeasuredNothing
<1> QED
  BY <1>1, <1>2, <1>3, <1>4, <1>5, <1>6, <1>7, <1>8, <1>9 DEF whole

-----------------------------------------------------------------------------
(* The files.                                                               *)

\* When git quotes no name, a diff has the paths whose contents differ, and those
\* that are still there as added or modified.
LEMMA DiffTells ==
  ASSUME Quoted = {}, NEW from, NEW disk, NEW f \in Path
  PROVE  LET moved == DiffChanges(from, disk, disk) IN
           /\ f \in DOMAIN moved <=> from[f] # disk[f]
           /\ f \in DOMAIN moved /\ disk[f] # Absent => moved[f] \in {"added", "modified"}
<1> DEFINE moved == DiffChanges(from, disk, disk)
           lines == CommittedLines(from, disk)
           kinds == {line[2] : line \in {l \in lines : l[1] = f}}
<1>1. WorkingLines(disk, disk) = {}
  BY DEF WorkingLines, Kind
<1>2. \A l \in lines : \E g \in Path : \E k \in Kind(from[g], disk[g]) : l = <<g, k>>
  BY DEF CommittedLines, Name
<1>3. \A k \in Kind(from[f], disk[f]) : <<f, k>> \in lines
  <2> SUFFICES ASSUME NEW k \in Kind(from[f], disk[f]) PROVE <<f, k>> \in lines
    OBVIOUS
  <2>1. <<f, k>> \in {<<Name(f), j>> : j \in Kind(from[f], disk[f])}
    BY DEF Name
  <2> QED
    BY <2>1 DEF CommittedLines
<1>4. \A l \in lines : l[1] = f => l[2] \in Kind(from[f], disk[f])
  <2> SUFFICES ASSUME NEW l \in lines, l[1] = f PROVE l[2] \in Kind(from[f], disk[f])
    OBVIOUS
  <2>1. PICK g \in Path : \E k \in Kind(from[g], disk[g]) : l = <<g, k>>
    BY <1>2
  <2>2. PICK k \in Kind(from[g], disk[g]) : l = <<g, k>>
    BY <2>1
  <2>3. l[1] = g /\ l[2] = k
    BY <2>2
  <2> QED
    BY <2>2, <2>3
<1>5. moved = [n \in {line[1] : line \in lines} |-> Strongest({line[2] : line \in {l \in lines : l[1] = n}})]
  BY <1>1 DEF DiffChanges
<1> HIDE DEF lines, moved
<1>6. f \in DOMAIN moved => from[f] # disk[f]
  <2>1. f \in DOMAIN moved => \E l \in lines : l[1] = f
    BY <1>5
  <2>2. from[f] = disk[f] => Kind(from[f], disk[f]) = {}
    BY DEF Kind
  <2> QED
    BY <1>4, <2>1, <2>2
<1>7. ASSUME from[f] # disk[f]
      PROVE  /\ f \in DOMAIN moved
             /\ disk[f] # Absent => moved[f] \in {"added", "modified"}
  <2>1. PICK k \in Kind(from[f], disk[f]) : disk[f] # Absent => k \in {"added", "modified"}
    BY <1>7 DEF Kind
  <2>2. <<f, k>> \in lines /\ <<f, k>>[1] = f /\ <<f, k>>[2] = k
    BY <1>3, <2>1
  <2>3. f \in {line[1] : line \in lines} /\ k \in kinds
    BY <2>2
  <2>4. k \in {"added", "modified"} => Strongest(kinds) \in {"added", "modified"}
    BY <2>3 DEF Strongest
  <2> QED
    BY <1>5, <2>1, <2>3, <2>4
<1> QED
  BY <1>6, <1>7 DEF moved

\* A file that still has a block's hash says in the block's parts what it said.
LEMMA HashTells ==
  ASSUME NEW old, NEW new, NEW b \in Block, Hash(b, old) \in BlockHashesOf(new), NEW p \in Spans[b]
  PROVE  new[p] = old[p]
<1>1. PICK c \in Block : Hash(b, old) = Hash(c, new)
  BY DEF BlockHashesOf
<1>2. b = c
  BY <1>1 DEF Hash
<1>3. [q \in Spans[b] |-> old[q]] = [q \in Spans[b] |-> new[q]]
  BY <1>1, <1>2 DEF Hash
<1> QED
  BY <1>3

\* The package axis speaks for manifests and lockfiles alone.
LEMMA AccountedFiles == Deps.accounted \subseteq DependencyFiles
  BY DEF Deps, DependencyChange, NotAsked, FallsOpen, Answer

\* No source a test ran, nor its own file, has moved if it is left out.
LEMMA FilesAreCounted == Quoted = {} /\ BlocksOfAllOrNone /\ IInv => FilesCount
<1> SUFFICES ASSUME Quoted = {}, BlocksOfAllOrNone, IInv, NEW u \in Skipped
             PROVE  /\ map # NoMap /\ u \in DOMAIN map.entries
                    /\ \A run \in map.entries[u].ran :
                         /\ u \notin External => tree[TestOf[u]] = run.on[TestOf[u]]
                         /\ \A f \in DOMAIN run.parts : IsSource(Config, f) =>
                              /\ tree[f] # Absent
                              /\ \A p \in run.parts[f] \ {"literal", "lines"} : tree[f][p] = run.on[f][p]
  BY DEF FilesCount
<1> DEFINE e == map.entries[u]
<1>1. /\ map # NoMap /\ map.commit # NoCommit /\ u \in DOMAIN map.entries
      /\ TestOf[u] \in InSuite \ WholeTestFiles(Diff) /\ (u \notin External => TestOf[u] \in TestFiles)
      /\ u \notin Affected(Config, map, FileChanges, tree) /\ e.files # {}
  BY SkippedIsUntouched
<1> SUFFICES ASSUME NEW run \in e.ran
             PROVE  /\ u \notin External => tree[TestOf[u]] = run.on[TestOf[u]]
                    /\ \A f \in DOMAIN run.parts : IsSource(Config, f) =>
                         /\ tree[f] # Absent
                         /\ \A p \in run.parts[f] \ {"literal", "lines"} : tree[f][p] = run.on[f][p]
  BY <1>1
<1>2. run.on = map.commit /\ Credits(e, run)
  BY <1>1 DEF IInv, MapSound, OnCommit, Describes
<1>3. ASSUME u \notin External, tree[TestOf[u]] # run.on[TestOf[u]] PROVE FALSE
  <2>1. TestOf[u] \in Config.testGlobs /\ tree[TestOf[u]] # Absent /\ TestOf[u] \in Path
    BY <1>1, <1>3, AxesAssumption DEF TestFiles, DiscoverTestFiles
  <2>2. TestOf[u] \in DOMAIN Diff /\ Diff[TestOf[u]] \in {"added", "modified"}
    BY <1>2, <1>3, <2>1, DiffTells DEF Diff
  <2>3. TestOf[u] \in Mandatory(Config, Diff)
    BY <2>1, <2>2 DEF Mandatory
  <2> QED
    BY <1>1, <2>3 DEF WholeTestFiles
<1>4. ASSUME NEW f \in DOMAIN run.parts, IsSource(Config, f)
      PROVE  /\ tree[f] # Absent
             /\ \A p \in run.parts[f] \ {"literal", "lines"} : tree[f][p] = run.on[f][p]
  <2>1. f \in Path \ DependencyFiles /\ run.on[f] # Absent /\ f \in e.files
    BY <1>1, <1>2, <1>4 DEF Credits
  <2>2. CASE tree[f] = run.on[f]
    BY <2>1, <2>2
  <2>3. CASE tree[f] # run.on[f]
    <3>1. f \in DOMAIN FileChanges
      BY <1>2, <2>1, <2>3, DiffTells, AccountedFiles DEF Diff, FileChanges
    <3>2. ~HitBy(Config, map, tree, u, f)
      BY <1>1, <2>1, <3>1 DEF Affected
    <3>3. tree[f] # Absent /\ e.blocks[f] # {} /\ e.blocks[f] \subseteq BlockHashesOf(tree[f])
      BY <1>1, <3>2 DEF HitBy, Annotated, ChangedBlockHashes, RecordedHashes
    <3>4. Tells(run, f, e.blocks[f])
      BY <1>2, <1>4, <3>3 DEF Credits
    <3> QED
      BY <3>3, <3>4, HashTells DEF Tells
  <2> QED
    BY <2>2, <2>3
<1> QED
  BY <1>3, <1>4

-----------------------------------------------------------------------------
(* The inventory, and what status says.                                     *)

\* No external test that is left out has another version, or another harness.
LEMMA SuiteIsCounted == IInv => SuiteCounts
<1> SUFFICES ASSUME IInv, NEW u \in Skipped \cap External
             PROVE  /\ suite.ok /\ map # NoMap /\ u \in DOMAIN map.entries
                    /\ \A run \in map.entries[u].ran :
                         /\ suite.version[u] = run.version /\ run.version # Unversioned
                         /\ suite.source = run.source
  BY DEF SuiteCounts
<1>1. /\ map # NoMap /\ u \in DOMAIN map.entries /\ ~InventoryFallsOpen
      /\ asks /\ u \in DOMAIN suite.version /\ u \notin Moved(RecordedVersions)
  BY SkippedIsUntouched
<1>2. /\ suite.version[u] # Unversioned
      /\ u \in DOMAIN RecordedVersions /\ RecordedVersions[u] = suite.version[u]
  BY <1>1 DEF Moved
<1>3. map.testInventory # NoInventory /\ RecordedVersions = map.testInventory.version
  BY <1>2 DEF RecordedVersions
<1>4. suite.ok /\ map.testInventory.source = suite.source
  BY <1>1, <1>3 DEF InventoryFallsOpen
<1> QED
  BY <1>1, <1>2, <1>3, <1>4 DEF IInv, MapSound, OfInventory

\* Status says that a selection is a full run when it is.
LEMMA StatusIsRight == IInv => StatusAgrees
<1> SUFFICES ASSUME IInv, TestFiles # {} \/ ~asks \/ AllTests.units # {}
             PROVE  NextIsFullRun <=> SelectAffected.fullRun
  BY DEF StatusAgrees
<1>1. AllTests.fullRun /\ \A d, f, p : ~Narrowed(d, f, p).fullRun
  BY DEF AllTests, Narrowed, Chosen
<1>2. map # NoMap => ~Unanswered(Deps.packages)
  <2> SUFFICES ASSUME map # NoMap, Deps.packages # {}
               PROVE  \A u \in DOMAIN map.entries : map.entries[u].packages # NoPackages
    BY DEF Unanswered
  <2>1. map.dependencies # NoDependencies
    BY DEF Deps, DependencyChange, NotAsked, FallsOpen, Answer
  <2> QED
    BY <2>1 DEF IInv, Answerable
<1>3. ASSUME map # NoMap, TestFiles = {}, ~asks, AllTests.units # {}
      PROVE  \/ DOMAIN map.entries # {} /\ InventoryFallsOpen
             \/ FullRunForced(Config, map, FileChanges)
  BY <1>3 DEF AllTests, Chosen, RecordedVersions, InventoryFallsOpen, FullRunForced
<1> QED
  BY <1>1, <1>2, <1>3 DEF NextIsFullRun, SelectAffected, Diff, Deps, FileChanges

-----------------------------------------------------------------------------
(* The packages.                                                            *)

\* What is reached has where it starts, and all that is led to from it.
LEMMA ReachedIsClosed ==
  ASSUME NEW start, NEW links
  PROVE  /\ start \subseteq ReachedFrom(start, links)
         /\ \A l \in links : l.from \in ReachedFrom(start, links) => l.to \in ReachedFrom(start, links)
  BY DEF ReachedFrom

\* It is in every such set.
LEMMA ReachedIsLeast ==
  ASSUME NEW start, NEW links, NEW s, start \subseteq s, \A l \in links : l.from \in s => l.to \in s
  PROVE  ReachedFrom(start, links) \subseteq s
<1> DEFINE places == start \cup {l.to : l \in links}
<1>1. /\ s \cap places \in SUBSET places /\ start \subseteq s \cap places
      /\ \A l \in links : l.from \in s \cap places => l.to \in s \cap places
  OBVIOUS
<1> QED
  BY <1>1 DEF ReachedFrom

\* What a test resolves is recorded under its name, if the test's imports are plain.
LEMMA ResolvedIsListed ==
  ASSUME ImportsArePlain, NEW links \in Contents[Lock] \ {Absent}, NEW u \in Unit,
         NEW l \in Resolved(links, Root, Uses[u])
  PROVE  l \in Edges(links, l.name) /\ l \in Vouched(links)
<1> DEFINE used == {k \in links : k.name \in Uses[u]}
           reached == ReachedFrom({Root}, used)
           known == reached \cap ({Root} \cup Pinned)
<1>1. Resolved(links, Root, Uses[u]) = {k \in used : k.from \in reached}
  BY DEF Resolved
<1>2. /\ Root \in reached
      /\ \A k \in used : k.from \in reached => k.to \in reached
  BY ReachedIsClosed
<1> HIDE DEF reached
<1>3. \A k \in used : k.from \in known => k.to \in known
  BY <1>1, <1>2 DEF ImportsArePlain, IdentityOf
<1>4. reached \subseteq known
  <2>1. {Root} \subseteq known
    BY <1>2
  <2> HIDE DEF known
  <2> QED
    BY <1>3, <2>1, ReachedIsLeast DEF reached
<1>5. l.from \in {Root} \cup Pinned /\ Root \in Importer /\ l.from # l.to
  BY <1>1, <1>4, AxesAssumption
<1>6. reached \subseteq PackageDirs(links)
  <2>1. /\ Importer \subseteq PackageDirs(links)
        /\ \A k \in links : k.from \in PackageDirs(links) => k.to \in PackageDirs(links)
    BY ReachedIsClosed DEF PackageDirs
  <2>2. /\ {Root} \subseteq PackageDirs(links)
        /\ \A k \in used : k.from \in PackageDirs(links) => k.to \in PackageDirs(links)
    BY <2>1, AxesAssumption
  <2> QED
    BY <2>2, ReachedIsLeast DEF reached
<1>7. l \in Vouched(links)
  BY <1>1, <1>5, <1>6 DEF Vouched, Siblings, ImportsArePlain
<1> QED
  BY <1>5, <1>7 DEF Edges

\* If no name a test resolved has other edges, and every name it resolves was
\* listed, it resolves what it did.
LEMMA SameEdgesSameImports ==
  ASSUME ImportsArePlain, NewNamesAreNew,
         NEW old \in Contents[Lock] \ {Absent}, NEW new \in Contents[Lock] \ {Absent}, NEW u \in Unit,
         \A l \in Resolved(old, Root, Uses[u]) : Edges(old, l.name) = Edges(new, l.name),
         \A l \in Resolved(new, Root, Uses[u]) : \E k \in Vouched(old) : k.name = l.name
  PROVE  Resolved(new, Root, Uses[u]) = Resolved(old, Root, Uses[u])
<1> DEFINE used(links) == {k \in links : k.name \in Uses[u]}
           reached(links) == ReachedFrom({Root}, used(links))
           both == reached(old) \cap reached(new)
<1>1. \A links : Resolved(links, Root, Uses[u]) = {k \in used(links) : k.from \in reached(links)}
  BY DEF Resolved
<1>2. \A links : /\ Root \in reached(links)
                 /\ \A k \in used(links) : k.from \in reached(links) => k.to \in reached(links)
  BY ReachedIsClosed
<1>3. \A links, s : Root \in s /\ (\A k \in used(links) : k.from \in s => k.to \in s)
                      => reached(links) \subseteq s
  BY ReachedIsLeast
<1> HIDE DEF reached
<1>4. \A links, n : \A l \in Edges(links, n) : l.from # l.to => l \in links
  BY DEF Edges, Vouched, Siblings, Link
<1>5. ASSUME NEW l \in Resolved(old, Root, Uses[u]) PROVE l \in used(new)
  <2>1. l \in Edges(new, l.name) /\ l \in used(old) /\ l.from # l.to
    BY <1>1, <1>5, ResolvedIsListed, AxesAssumption
  <2> QED
    BY <1>4, <2>1
<1>6. ASSUME NEW l \in Resolved(new, Root, Uses[u]) PROVE l \in used(old)
  <2>1. PICK k \in Resolved(old, Root, Uses[u]) : k.name = l.name
    BY <1>6 DEF NewNamesAreNew
  <2>2. l \in Edges(new, l.name) /\ l \in used(new) /\ l.from # l.to
    BY <1>1, <1>6, ResolvedIsListed, AxesAssumption
  <2>3. l \in Edges(old, l.name)
    BY <2>1, <2>2
  <2> QED
    BY <1>4, <2>2, <2>3
<1>7. reached(old) \subseteq both
  <2>1. \A k \in used(old) : k.from \in both => k.to \in both
    BY <1>1, <1>2, <1>5
  <2> QED
    BY <1>2, <1>3, <2>1
<1>8. reached(new) \subseteq both
  <2>1. \A k \in used(new) : k.from \in both => k.to \in both
    BY <1>1, <1>2, <1>6
  <2> QED
    BY <1>2, <1>3, <2>1
<1> QED
  BY <1>1, <1>5, <1>6, <1>7, <1>8

\* The package axis speaks for files that have moved only if of no manifest among
\* them anything but its dependencies moved, and the installed tree is of the
\* root's lockfile and has no name that the map does not know.
LEMMA AccountedMeans ==
  ASSUME InstalledSound, NEW f \in Deps.accounted
  PROVE  /\ \A m \in DOMAIN Diff \cap Manifests : DependencyOnlyManifestChange(map.commit[m], tree[m])
         /\ map.dependencies # NoDependencies
         /\ tree[Lock] # Absent
         /\ Deps.packages = ChangedPackages(map.dependencies.inventory, Listing(tree[Lock]))
         /\ Deps.packages \subseteq DOMAIN map.dependencies.inventory
<1> DEFINE now == ReadInstalledInventory(installed)
           recorded == map.dependencies
           packages == ChangedPackages(recorded.inventory, now.inventory)
<1>1. /\ \A m \in DOMAIN Diff \cap Manifests : DependencyOnlyManifestChange(map.commit[m], tree[m])
      /\ recorded # NoDependencies
      /\ TreeIsProvablyCurrent(recorded, installed, tree[Lock]) /\ now # NoDependencies
      /\ now.manager = recorded.manager /\ packages \subseteq DOMAIN recorded.inventory
      /\ Deps.packages = packages
  BY DEF Deps, DependencyChange, DependencyFiles, NotAsked, FallsOpen, Answer
<1> HIDE DEF packages, recorded
<1>2. /\ Cardinality(installed.managers) = 1 /\ "pnpm" \in installed.managers
      /\ installed.marker = tree[Lock]
  BY <1>1 DEF TreeIsProvablyCurrent, ReadInstalledInventory
<1>3. installed.managers = {"pnpm"}
  <2>1. installed.managers # {"pnpm", "npm"}
    <3>1. \A x, y : {x, y} = {x} => x = y
      OBVIOUS
    <3>2. PICK x : installed.managers = {x}
      <4>1. IsFiniteSet({"pnpm", "npm"}) /\ IsFiniteSet({"pnpm"}) /\ IsFiniteSet({"npm"})
        <5>1. IsFiniteSet({"pnpm"} \cup {"npm"}) /\ {"pnpm"} \cup {"npm"} = {"pnpm", "npm"}
          BY FS_Singleton, FS_AddElement
        <5> QED
          BY <5>1, FS_Singleton
      <4>2. IsFiniteSet(installed.managers)
        BY <4>1 DEF InstalledSound
      <4> QED
        BY <1>2, <4>2, FS_Singleton
    <3> QED
      BY <3>1, <3>2
  <2> QED
    BY <1>2, <2>1 DEF InstalledSound
<1>4. installed.links = tree[Lock] /\ tree[Lock] # Absent
  BY <1>2, <1>3 DEF InstalledSound
<1>5. now.inventory = Listing(tree[Lock])
  <2> DEFINE names == IF installed.store THEN {l.name : l \in Vouched(tree[Lock])} ELSE {}
  <2>1. /\ now = [manager |-> CHOOSE k \in installed.managers : TRUE,
                  marker |-> installed.marker,
                  inventory |-> [n \in names |-> Edges(tree[Lock], n)]]
        /\ names # {}
    BY <1>1, <1>4 DEF ReadInstalledInventory
  <2> QED
    BY <2>1 DEF Listing
<1> QED
  BY <1>1, <1>4, <1>5 DEF packages, recorded

\* No copy of a package that a test resolved has moved if it is left out.
LEMMA PackagesAreCounted ==
  Quoted = {} /\ NestedLocks = {} /\ ImportsArePlain /\ NewNamesAreNew /\ IInv => PackagesCount
<1> SUFFICES ASSUME Quoted = {}, NestedLocks = {}, ImportsArePlain, NewNamesAreNew, IInv, NEW u \in Skipped
             PROVE  /\ map # NoMap /\ u \in DOMAIN map.entries
                    /\ \A run \in map.entries[u].ran :
                         /\ \A m \in Manifests : tree[m] # run.on[m] =>
                              /\ Absent \notin {tree[m], run.on[m]}
                              /\ tree[m].rest = run.on[m].rest
                         /\ tree[Lock] # run.on[Lock] =>
                              tree[Lock] # Absent /\ Resolved(tree[Lock], Root, Uses[u]) = run.edges
  BY DEF PackagesCount
<1> DEFINE e == map.entries[u]
<1>1. /\ map # NoMap /\ map.commit # NoCommit /\ u \in DOMAIN map.entries
      /\ ~FullRunForced(Config, map, FileChanges) /\ u \notin PackageAffected(Deps.packages)
  BY SkippedIsUntouched
<1>2. \A f \in Manifests \cup {Lock} : tree[f] # map.commit[f] => f \in Deps.accounted /\ f \in DOMAIN Diff
  <2> SUFFICES ASSUME NEW f \in Manifests \cup {Lock}, tree[f] # map.commit[f]
               PROVE  f \in Deps.accounted /\ f \in DOMAIN Diff
    OBVIOUS
  <2>1. f \in Path \cap Config.sentinels
    BY AxesAssumption DEF DependencyFiles
  <2>2. f \in DOMAIN Diff
    BY <2>1, DiffTells DEF Diff
  <2> QED
    BY <1>1, <2>1, <2>2 DEF FullRunForced, FileChanges
<1>3. InstalledSound /\ MapSound(map) /\ u \in Unit
  BY <1>1 DEF IInv, MapSound
<1> SUFFICES ASSUME NEW run \in e.ran
             PROVE  /\ \A m \in Manifests : tree[m] # run.on[m] =>
                         /\ Absent \notin {tree[m], run.on[m]}
                         /\ tree[m].rest = run.on[m].rest
                    /\ tree[Lock] # run.on[Lock] =>
                         tree[Lock] # Absent /\ Resolved(tree[Lock], Root, Uses[u]) = run.edges
  BY <1>1
<1>4. /\ run.on = map.commit /\ IsTree(run.on) /\ run.on[Lock] # Absent
      /\ run.edges = Resolved(run.on[Lock], Root, Uses[u]) /\ Names(e, run)
      /\ map.dependencies # NoDependencies => map.dependencies.inventory = Listing(run.on[Lock])
  BY <1>1, <1>3 DEF MapSound, OnCommit, Describes
<1>5. ASSUME NEW m \in Manifests, tree[m] # run.on[m]
      PROVE  /\ Absent \notin {tree[m], run.on[m]}
             /\ tree[m].rest = run.on[m].rest
  BY <1>2, <1>3, <1>4, <1>5, AccountedMeans DEF DependencyOnlyManifestChange
<1>6. ASSUME tree[Lock] # run.on[Lock]
      PROVE  tree[Lock] # Absent /\ Resolved(tree[Lock], Root, Uses[u]) = run.edges
  <2> DEFINE old == run.on[Lock]
             new == tree[Lock]
  <2>1. /\ new # Absent
        /\ Deps.packages = ChangedPackages(Listing(old), Listing(new))
        /\ Deps.packages \subseteq DOMAIN Listing(old)
        /\ map.dependencies # NoDependencies
    BY <1>2, <1>3, <1>4, <1>6, AccountedMeans
  <2>2. old \in Contents[Lock] \ {Absent} /\ new \in Contents[Lock] \ {Absent}
    BY <1>4, <2>1, AxesAssumption DEF IInv, IsTree, DependencyFiles
  <2>3. e.packages # NoPackages /\ e.packages \cap Deps.packages = {}
    BY <1>1, <2>1 DEF IInv, Answerable, PackageAffected
  <2> HIDE DEF old, new
  <2>4. \A links, n : n \in DOMAIN Listing(links) <=> \E k \in Vouched(links) : k.name = n
    BY DEF Listing
  <2>5. \A links : \A n \in DOMAIN Listing(links) : Listing(links)[n] = Edges(links, n)
    BY DEF Listing
  <2>6. ASSUME NEW l \in Resolved(old, Root, Uses[u]) PROVE Edges(old, l.name) = Edges(new, l.name)
    <3>1. l \in Vouched(old) /\ l.to \in Observable /\ NameOf[l.to] = l.name
      BY <1>3, <2>2, <2>6, ResolvedIsListed DEF Vouched, SurvivesResolution
    <3>2. l.name \in e.packages
      BY <1>4, <2>3, <2>6, <3>1 DEF Names, old
    <3>3. l.name \in DOMAIN Listing(old) /\ l.name \notin Deps.packages
      BY <2>3, <2>4, <3>1, <3>2
    <3>4. l.name \in DOMAIN Listing(new) /\ Listing(old)[l.name] = Listing(new)[l.name]
      BY <2>1, <3>3 DEF ChangedPackages
    <3> QED
      BY <2>5, <3>3, <3>4
  <2>7. ASSUME NEW l \in Resolved(new, Root, Uses[u]) PROVE \E k \in Vouched(old) : k.name = l.name
    <3>1. l.name \in DOMAIN Listing(new)
      BY <1>3, <2>2, <2>4, <2>7, ResolvedIsListed
    <3>2. l.name \in DOMAIN Listing(old)
      BY <2>1, <3>1 DEF ChangedPackages
    <3> QED
      BY <2>4, <3>2
  <2>8. Resolved(new, Root, Uses[u]) = Resolved(old, Root, Uses[u])
    BY <1>3, <2>2, <2>6, <2>7, SameEdgesSameImports
  <2> QED
    BY <1>4, <2>1, <2>8 DEF old, new
<1> QED
  BY <1>5, <1>6

-----------------------------------------------------------------------------
(* What a reader takes from it.                                             *)

\* Whatever is edited, installed, listed and merged, a test is left out only if
\* no source has moved in a part that it executed, in any run of it in any shard,
\* nor has its own file: where git quotes no name, and recorders have blocks of
\* all that a test loads, or of none of it.
THEOREM FilesAreNotMissed == Quoted = {} /\ BlocksOfAllOrNone => (Spec => []FilesCount)
<1> SUFFICES ASSUME Quoted = {}, BlocksOfAllOrNone PROVE Spec => []FilesCount
  OBVIOUS
<1>1. IInv => FilesCount
  BY FilesAreCounted
<1> QED
  BY <1>1, Invariance, PTL

\* And only if every package it resolved is the copy that it was, and no manifest
\* says anything new but dependencies, where its imports go by the names of packages
\* that coverage can see, and there is no lockfile but the root's.
THEOREM PackagesAreNotMissed ==
  Quoted = {} /\ NestedLocks = {} /\ ImportsArePlain /\ NewNamesAreNew => (Spec => []PackagesCount)
<1> SUFFICES ASSUME Quoted = {}, NestedLocks = {}, ImportsArePlain, NewNamesAreNew
             PROVE  Spec => []PackagesCount
  OBVIOUS
<1>1. IInv => PackagesCount
  BY PackagesAreCounted
<1> QED
  BY <1>1, Invariance, PTL

\* And, of an external test, only if the inventory still gives it the version and
\* the harness that every run of it had.
THEOREM VersionsAreNotMissed == Spec => []SuiteCounts
<1>1. IInv => SuiteCounts
  BY SuiteIsCounted
<1> QED
  BY <1>1, Invariance, PTL

\* Status and selection, each from its own derivation, agree on the full run.
THEOREM StatusAgreesAlways == Spec => []StatusAgrees
<1>1. IInv => StatusAgrees
  BY StatusIsRight
<1> QED
  BY <1>1, Invariance, PTL
=============================================================================
