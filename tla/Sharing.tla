------------------------------ MODULE Sharing ------------------------------
(***************************************************************************)
(* Several observations made one: the windows onto one run of a test       *)
(* (combine.ts) and the maps of shards that ran the suite in parts         *)
(* (merge.ts).                                                             *)
(*                                                                         *)
(* Maps are as in Selection, with two more fields: dependencies, and the   *)
(* inventory of external tests.  An entry's packages are a set of names,   *)
(* or NoPackages when it says nothing of them; its blocks of a file are    *)
(* the empty set when it has none.  ran is history: the runs it is made of.*)
(***************************************************************************)
EXTENDS Selection, Inventory

CONSTANTS NoPackages, NoInventory, NoConfig

NoBlocks == [f \in Path |-> {}]
HasBlocks(e) == \E f \in Path : e.blocks[f] # {}

UnionOfPackages(es) ==
  IF \E e \in es : e.packages = NoPackages THEN NoPackages ELSE UNION {e.packages : e \in es}

\* agreedScope: what all were watched for, or nothing.
AgreedScope(scopes) == IF Cardinality(scopes) = 1 THEN CHOOSE s \in scopes : TRUE ELSE {}

-----------------------------------------------------------------------------
(* combineObservations.                                                    *)

\* Mutant: blocks are kept where any window has them.
KnownBlocksOfAny(windows, f) == UNION {w.blocks[f] : w \in windows}

\* A window that saw a file run and has no blocks of it knows nothing of them.
KnownBlocks(windows, f) ==
  IF \E w \in windows : f \in w.files /\ w.blocks[f] = {} THEN {}
  ELSE UNION {w.blocks[f] : w \in windows}

CombineObservations(windows) ==
  [files    |-> UNION {w.files : w \in windows},
   blocks   |-> [f \in Path |-> KnownBlocks(windows, f)],
   packages |-> UnionOfPackages(windows),
   observes |-> UNION {w.observes : w \in windows}]

-----------------------------------------------------------------------------
(* mergeMaps.                                                              *)

\* Mutant: a shard that saw nothing of a test adds nothing.
MergeFilesOfAny(es) == UNION {e.files : e \in es}

MergeFiles(es) == IF \E e \in es : MeasuredNothing(e) THEN {} ELSE UNION {e.files : e \in es}

MergeEntries(es) ==
  [files    |-> MergeFiles(es),
   blocks   |-> IF \A e \in es : HasBlocks(e)
                THEN [f \in Path |-> UNION {e.blocks[f] : e \in es}] ELSE NoBlocks,
   packages |-> UnionOfPackages(es),
   ran      |-> UNION {e.ran : e \in es}]

\* One tree for all of them, and of that what all saw alike.
AgreedDependencies(maps) ==
  LET deps == {m.dependencies : m \in maps}
      first == CHOOSE d \in deps : TRUE
      shared == {n \in DOMAIN first.inventory :
                   \A d \in deps : n \in DOMAIN d.inventory /\ d.inventory[n] = first.inventory[n]}
  IN  IF NoDependencies \in deps
         \/ (\E d \in deps : <<d.manager, d.marker>> # <<first.manager, first.marker>>)
         \/ shared = {}
      THEN NoDependencies
      ELSE [first EXCEPT !.inventory = [n \in shared |-> first.inventory[n]]]

\* agreedConfig, agreedTestInventory and the commit: the one value all of them have.
Agreed(values, none) == IF Cardinality(values) = 1 THEN CHOOSE v \in values : TRUE ELSE none

MergeMaps(maps) ==
  LET units == UNION {DOMAIN m.entries : m \in maps}
      entries == [u \in units |->
                    MergeEntries({m.entries[u] : m \in {n \in maps : u \in DOMAIN n.entries}})]
  IN  [commit        |-> Agreed({m.commit : m \in maps}, NoCommit),
       granularity   |-> IF \A m \in maps : m.granularity = "block" THEN "block" ELSE "file",
       config        |-> Agreed({m.config : m \in maps}, NoConfig),
       observed      |-> AgreedScope({m.observed : m \in maps}),
       dependencies  |-> IF units # {} /\ \A u \in units : entries[u].packages # NoPackages
                         THEN AgreedDependencies(maps) ELSE NoDependencies,
       testInventory |-> Agreed({m.testInventory : m \in maps}, NoInventory),
       entries       |-> entries]
=============================================================================
