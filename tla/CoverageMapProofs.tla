------------------------- MODULE CoverageMapProofs -------------------------
(* A selection never skips a test whose code moved, is exact where it goes   *)
(* by blocks, and is what explain foretells; a whole run is complete: proofs *)
(* about CoverageMap and Explain for every repository, every recorder and    *)
(* every history, provided that nobody changes the repository while a        *)
(* recording runs.                                                           *)
EXTENDS Explain, SequenceTheorems, TLAPS

-----------------------------------------------------------------------------
(* The diff and the hashes.                                                 *)

\* A line of either listing puts its name in the diff, with its kind among those
\* of which the most inclusive is kept.
LEMMA LineIsKept ==
  ASSUME NEW from, NEW to, NEW disk, NEW n, NEW kind,
         <<n, kind>> \in CommittedLines(from, to) \cup WorkingLines(to, disk)
  PROVE  /\ n \in DOMAIN DiffChanges(from, to, disk)
         /\ kind \in {"added", "modified"} => DiffChanges(from, to, disk)[n] \in {"added", "modified"}
<1> DEFINE lines == CommittedLines(from, to) \cup WorkingLines(to, disk)
           kinds == {line[2] : line \in {l \in lines : l[1] = n}}
<1>1. n \in {line[1] : line \in lines} /\ kind \in kinds
  <2>1. <<n, kind>> \in {l \in lines : l[1] = n} /\ <<n, kind>>[1] = n /\ <<n, kind>>[2] = kind
    OBVIOUS
  <2> QED
    BY <2>1
<1>2. DiffChanges(from, to, disk) =
        [m \in {line[1] : line \in lines} |-> Strongest({line[2] : line \in {l \in lines : l[1] = m}})]
  BY DEF DiffChanges
<1>3. kind \in {"added", "modified"} => Strongest(kinds) \in {"added", "modified"}
  BY <1>1 DEF Strongest
<1> HIDE DEF lines
<1> QED
  BY <1>1, <1>2, <1>3

\* When git quotes no name, a path whose content is not what it was where the
\* diff starts is in the diff, and one that is still there is listed as added or
\* modified; but a path that is new may be listed by its directory alone.
LEMMA MovedIsListed ==
  ASSUME Quoted = {}, NEW from, NEW to, NEW disk, NEW f \in Path, from[f] # disk[f]
  PROVE  LET changes == DiffChanges(from, to, disk) IN
           /\ f \notin UNION Folders \/ from[f] # Absent => f \in DOMAIN changes
           /\ f \notin UNION Folders /\ disk[f] # Absent => changes[f] \in {"added", "modified"}
           /\ f \in DOMAIN changes
              \/ \E D \in SUBSET UNION Folders : f \in D /\ <<"folder", D>> \in DOMAIN changes
<1> DEFINE changes == DiffChanges(from, to, disk)
<1>1. Name(f) = f
  BY DEF Name
<1>2. ASSUME from[f] # to[f]
      PROVE  \E kind : /\ <<f, kind>> \in CommittedLines(from, to)
                       /\ to[f] # Absent => kind \in {"added", "modified"}
  <2>1. PICK kind \in Kind(from[f], to[f]) : to[f] # Absent => kind \in {"added", "modified"}
    BY <1>2 DEF Kind
  <2>2. <<f, kind>> \in {<<Name(f), k>> : k \in Kind(from[f], to[f])}
    BY <1>1, <2>1
  <2> QED
    BY <2>1, <2>2 DEF CommittedLines
<1>3. ASSUME to[f] # disk[f]
      PROVE  \E kind : /\ <<StatusName(f, to), kind>> \in WorkingLines(to, disk)
                       /\ disk[f] # Absent => kind \in {"added", "modified"}
  <2>1. PICK kind \in Kind(to[f], disk[f]) : disk[f] # Absent => kind \in {"added", "modified"}
    BY <1>3 DEF Kind
  <2>2. <<StatusName(f, to), kind>> \in {<<StatusName(f, to), k>> : k \in Kind(to[f], disk[f])}
    BY <2>1
  <2> QED
    BY <2>1, <2>2 DEF WorkingLines
<1>4. /\ f \notin UNION Folders \/ to[f] # Absent => StatusName(f, to) = f
      /\ StatusName(f, to) # f => StatusName(f, to) = <<"folder", Unknown(f, to)>> /\ f \in Unknown(f, to)
      /\ Unknown(f, to) \in SUBSET UNION Folders
  BY <1>1 DEF StatusName, Unknown
<1>5. CASE to[f] = disk[f]
  <2>1. PICK kind : <<f, kind>> \in CommittedLines(from, to) /\ (to[f] # Absent => kind \in {"added", "modified"})
    BY <1>2, <1>5
  <2>2. <<f, kind>> \in CommittedLines(from, to) \cup WorkingLines(to, disk)
    BY <2>1
  <2> QED
    BY <1>5, <2>1, <2>2, LineIsKept
<1>6. CASE to[f] # disk[f]
  <2>1. PICK kind : /\ <<StatusName(f, to), kind>> \in WorkingLines(to, disk)
                    /\ disk[f] # Absent => kind \in {"added", "modified"}
    BY <1>3, <1>6
  <2>2. <<StatusName(f, to), kind>> \in CommittedLines(from, to) \cup WorkingLines(to, disk)
    BY <2>1
  <2>3. /\ StatusName(f, to) \in DOMAIN changes
        /\ disk[f] # Absent => changes[StatusName(f, to)] \in {"added", "modified"}
    BY <2>1, <2>2, LineIsKept
  <2>4. from[f] # Absent /\ to[f] = Absent => f \in DOMAIN changes
    <3> SUFFICES ASSUME from[f] # Absent, to[f] = Absent PROVE f \in DOMAIN changes
      OBVIOUS
    <3>1. PICK k : <<f, k>> \in CommittedLines(from, to) \cup WorkingLines(to, disk)
      BY <1>2
    <3> QED
      BY <3>1, LineIsKept
  <2> HIDE DEF changes
  <2>5. CASE StatusName(f, to) = f
    <3>1. f \in DOMAIN changes /\ (disk[f] # Absent => changes[f] \in {"added", "modified"})
      BY <2>3, <2>5
    <3> QED
      BY <3>1 DEF changes
  <2>6. CASE StatusName(f, to) # f
    <3>1. <<"folder", Unknown(f, to)>> \in DOMAIN changes /\ f \in Unknown(f, to)
      BY <1>4, <2>3, <2>6
    <3>2. f \in UNION Folders /\ to[f] = Absent
      BY <1>4, <2>6
    <3>3. \E D \in SUBSET UNION Folders : f \in D /\ <<"folder", D>> \in DOMAIN changes
      BY <1>4, <3>1
    <3>4. from[f] # Absent => f \in DOMAIN changes
      BY <2>4, <3>2
    <3> QED
      BY <3>2, <3>3, <3>4 DEF changes
  <2> QED
    BY <2>5, <2>6
<1> QED
  BY <1>5, <1>6

\* When git quotes no name, a path that a recording did not observe and whose
\* content has moved leaves a line in the diff that the policy finds unobserved;
\* and a path that is itself listed is observed only where it is in the scope.
LEMMA ObservedIsInScope ==
  ASSUME Quoted = {}, NEW from, NEW to, NEW disk, NEW scope, NEW f \in Path,
         \A n \in DOMAIN DiffChanges(from, to, disk) : Observes(scope, n), from[f] # disk[f]
  PROVE  f \in scope
<1>1. <<"folder", {}>> \notin Path /\ \A D \in SUBSET Path : <<"folder", D>> \notin Path
  BY CoverageMapAssumption
<1>2. UNION Folders \subseteq Path
  BY CoverageMapAssumption
<1>3. CASE f \in DOMAIN DiffChanges(from, to, disk)
  <2>1. scope = Path \/ f \in Path \cap scope \/ \E D \in SUBSET (Path \cap scope) : f = <<"folder", D>>
    BY <1>3 DEF Observes
  <2> QED
    BY <1>1, <2>1
<1>4. CASE \E D \in SUBSET UNION Folders : f \in D /\ <<"folder", D>> \in DOMAIN DiffChanges(from, to, disk)
  <2>1. PICK D \in SUBSET UNION Folders : f \in D /\ <<"folder", D>> \in DOMAIN DiffChanges(from, to, disk)
    BY <1>4
  <2>2. \/ scope = Path \/ <<"folder", D>> \in Path
        \/ \E E \in SUBSET (Path \cap scope) : <<"folder", D>> = <<"folder", E>>
    BY <2>1 DEF Observes
  <2> QED
    BY <1>1, <1>2, <2>1, <2>2
<1> QED
  BY <1>3, <1>4, MovedIsListed

\* If a file still has every hash an execution recorded, it still says what the
\* execution read of it, white space aside.
LEMMA HashesTell ==
  ASSUME NEW old, NEW new, NEW called \in SUBSET Fn,
         SelectExecutedBlocks(old, called) \subseteq BlockHashesOf(new)
  PROVE  \A p \in {"load"} \cup called : new[p] = old[p]
<1> SUFFICES ASSUME NEW p \in {"load"} \cup called PROVE new[p] = old[p]
  OBVIOUS
<1>1. PICK b \in called \cup {IF called = {} THEN LOAD_BLOCK ELSE MODULE_BLOCK} :
        b \in Block /\ p \in Spans[b]
  BY BlocksAssumption DEF Block, Spans, LOAD_BLOCK, MODULE_BLOCK
<1>2. PICK c \in Block : Hash(b, old) = Hash(c, new)
  BY <1>1 DEF SelectExecutedBlocks, BlockHashesOf
<1>3. b = c
  BY <1>2 DEF Hash
<1>4. [q \in Spans[b] |-> old[q]] = [q \in Spans[b] |-> new[q]]
  BY <1>2, <1>3 DEF Hash
<1> QED
  BY <1>1, <1>4

-----------------------------------------------------------------------------
(* The invariant.                                                           *)

\* Entries recorded on one tree, by a recorder that read it back unchanged.
Faithful(es, on, cfg) ==
  \A u \in DOMAIN es :
    /\ es[u].ranOn = on
    /\ es[u].files = CreditedFiles(u, on, cfg, es[u].scope)
    /\ \A f \in es[u].files :
         es[u].blocks[f] \in {{}, SelectExecutedBlocks(on[f], Calls(u, on, f))}

\* The units of a file are recorded together.
Together(es) ==
  \A u, v \in Unit : u \in DOMAIN es /\ TestOf[u] = TestOf[v] => v \in DOMAIN es

\* While it records, the repository stands still; what it has so far describes
\* the tree it started from, which is a commit's unless it was dirty.
RecordingInv ==
  phase = "recording" =>
    /\ ~dirty => tree = HeadTree
    /\ \A f \in DOMAIN ran : ran[f] = tree
    /\ Faithful(entries, tree, recConfig)
    /\ Together(entries)

\* The map describes its commit's tree, and claims no wider a scope than every
\* entry was watched for.
StoreInv ==
  Usable =>
    /\ store.commit # NoCommit =>
         Faithful(store.entries, history[store.commit].tree, store.config)
    /\ Together(store.entries)
    /\ \A u \in DOMAIN store.entries : store.observed \subseteq store.entries[u].scope

IInv == TypeOK /\ RecordingInv /\ StoreInv

\* A repository with no map and no recording satisfies the invariant.
LEMMA InitIInv == Init => IInv
<1> SUFFICES ASSUME Init PROVE IInv
  OBVIOUS
<1>1. tree \in Tree
  <2>1. \A f \in Path : (CHOOSE c \in Contents[f] : c # Absent) \in Contents[f]
    BY CoverageMapAssumption
  <2> QED
    BY <2>1 DEF Init, Tree
<1>2. Commits = {1} /\ history[1] = [tree |-> tree, past |-> {1}]
  BY DEF Init, Commits
<1>3. TypeOK
  <2>1. head \in Commits /\ head \in present /\ present \subseteq Commits
    BY <1>2 DEF Init
  <2>2. /\ history \in Seq([tree : Tree, past : SUBSET Nat])
        /\ \A c \in Commits : history[c].past \subseteq 1 .. c
    BY <1>1, <1>2 DEF Init
  <2>3. config \in Configs /\ edits \in 0 .. MaxEdits
    BY CoverageMapAssumption DEF Init
  <2>4. /\ phase \in {"idle", "recording"} /\ {dirty, failed} \subseteq BOOLEAN
        /\ recConfig \in Configs \cup {NoConfig} /\ (phase = "recording" => recConfig \in Configs)
    BY DEF Init
  <2>5. /\ todo \subseteq Path /\ DOMAIN ran \subseteq Path \ todo
        /\ DOMAIN entries \subseteq Unit
    BY DEF Init, NoEntries
  <2>6. store.state = "absent"
    BY DEF Init
  <2> QED
    BY <1>1, <2>1, <2>2, <2>3, <2>4, <2>5, <2>6 DEF TypeOK, Usable
<1>4. RecordingInv /\ StoreInv
  BY DEF Init, RecordingInv, StoreInv, Usable
<1> QED
  BY <1>3, <1>4 DEF IInv

-----------------------------------------------------------------------------
(* What it implies.                                                         *)

\* A unit a selection skips has an entry, faithful to the map's commit, and
\* nothing in the diff touches it.
LEMMA SkippedIsUntouched ==
  ASSUME IInv, NEW u \in SkippedUnits
  PROVE  /\ Usable /\ store.commit \in Commits
         /\ u \in DOMAIN store.entries
         /\ RecordedConfig(config) = store.config
         /\ LET changes == DiffChanges(RanOn(u), HeadTree, tree) IN
              /\ RanOn(u) = history[store.commit].tree
              /\ DOMAIN changes \cap config.sentinels = {}
              /\ \A n \in DOMAIN changes : Observes(store.observed, n)
              /\ TestOf[u] \notin Mandatory(config, changes)
              /\ \A f \in store.entries[u].files \cap DOMAIN changes :
                   ~HitBy(config, store, tree, u, f)
<1> DEFINE from == history[store.commit].tree
           changes == DiffChanges(from, HeadTree, tree)
           suite == DiscoverTestFiles(config, tree)
<1>1. u \in Unit /\ TestOf[u] \in suite /\ ~Select.fullRun
      /\ TestOf[u] \notin Select.files /\ u \notin Select.units
  BY DEF SkippedUnits, Skips
<1>2. Usable /\ Trusted(store, present) /\ ~FullRunForced(config, store, changes)
      /\ Select = Selected(config, store, changes, tree)
  <2>1. FullRun(config, tree).fullRun
    BY DEF FullRun
  <2>2. Usable /\ Trusted(store, present) /\ Select = SelectFrom(config, store, from, HeadTree, tree)
    BY <1>1, <2>1 DEF Select
  <2> QED
    BY <1>1, <2>1, <2>2 DEF SelectFrom
<1>3. store.commit \in Commits
  BY <1>2 DEF Trusted, IInv, TypeOK
<1>4. store.commit # NoCommit
  BY <1>3, CoverageMapAssumption DEF Commits
<1>5. TestOf[u] \notin WholeFiles(config, store, changes, tree)
  BY <1>1, <1>2 DEF Selected
<1>6. \E v \in DOMAIN store.entries : TestOf[v] = TestOf[u]
  BY <1>1, <1>5 DEF WholeFiles
<1>7. u \in DOMAIN store.entries
  <2>1. PICK v \in DOMAIN store.entries : TestOf[v] = TestOf[u]
    BY <1>6
  <2>2. v \in Unit
    BY <1>2, <2>1 DEF IInv, TypeOK
  <2> QED
    BY <1>1, <1>2, <2>1, <2>2 DEF IInv, StoreInv, Together
<1>8. RanOn(u) = from
  BY <1>2, <1>4, <1>7 DEF IInv, StoreInv, Faithful, RanOn
<1>9. TestOf[u] \notin Mandatory(config, changes)
  BY <1>1, <1>5 DEF WholeFiles
<1>10. u \notin Affected(config, store, changes, tree)
  BY <1>1, <1>2, <1>5 DEF Selected
<1>11. \A f \in store.entries[u].files \cap DOMAIN changes : ~HitBy(config, store, tree, u, f)
  BY <1>7, <1>10 DEF Affected
<1>12. /\ RecordedConfig(config) = store.config
       /\ DOMAIN changes \cap config.sentinels = {}
       /\ \A n \in DOMAIN changes : Observes(store.observed, n)
  BY <1>2 DEF FullRunForced
<1> HIDE DEF suite
<1> QED
  BY <1>2, <1>3, <1>7, <1>8, <1>9, <1>11, <1>12

\* What the hypothesis says of one path.
LEMMA NoneIsFolded ==
  ASSUME OnlySourcesFolded, NEW cfg \in Configs, NEW f \in cfg.testGlobs \cup cfg.sentinels
  PROVE  f \notin UNION Folders
<1>1. (UNION Folders) \cap (cfg.testGlobs \cup cfg.sentinels) = {}
  BY DEF OnlySourcesFolded
<1> HIDE DEF OnlySourcesFolded
<1> QED
  BY <1>1

\* A skipped test is one whose recording still describes what it would do.
LEMMA SkipIsSound == Quoted = {} /\ OnlySourcesFolded /\ IInv => SelectionSound
<1> SUFFICES ASSUME Quoted = {}, OnlySourcesFolded, IInv, NEW u \in SkippedUnits
             PROVE  /\ u \in DOMAIN store.entries
                    /\ Unmoved(u, Part \ {"literal", "lines"})
                    /\ \A f \in {TestOf[u]} \cup (config.sentinels \cap Path)
                                 \cup (Path \ store.observed) : tree[f] = RanOn(u)[f]
  BY DEF SelectionSound
<1> DEFINE on == RanOn(u)
           changes == DiffChanges(on, HeadTree, tree)
           entry == store.entries[u]
<1>1. /\ Usable /\ store.commit \in Commits
      /\ u \in DOMAIN store.entries
      /\ RecordedConfig(config) = store.config
      /\ on = history[store.commit].tree
      /\ DOMAIN changes \cap config.sentinels = {}
      /\ \A n \in DOMAIN changes : Observes(store.observed, n)
      /\ TestOf[u] \notin Mandatory(config, changes)
      /\ \A f \in entry.files \cap DOMAIN changes : ~HitBy(config, store, tree, u, f)
  BY SkippedIsUntouched
<1>2. u \in Unit /\ TestOf[u] \in Path /\ TestOf[u] \in DiscoverTestFiles(config, tree)
  BY CoverageMapAssumption DEF SkippedUnits
<1>3. on \in Tree
  <2>1. history[store.commit] \in [tree : Tree, past : SUBSET Nat]
    BY <1>1, ElementOfSeq DEF IInv, TypeOK, Commits
  <2> QED
    BY <1>1, <2>1
<1>4. \A f \in Path : f \notin UNION Folders \/ on[f] # Absent =>
        f \in DOMAIN changes \/ tree[f] = on[f]
  BY MovedIsListed
<1>0. \A f \in config.testGlobs \cup config.sentinels : f \notin UNION Folders
  BY NoneIsFolded DEF IInv, TypeOK
<1>5. tree[TestOf[u]] = on[TestOf[u]]
  <2> SUFFICES ASSUME TestOf[u] \in DOMAIN changes, tree[TestOf[u]] # on[TestOf[u]]
               PROVE  FALSE
    BY <1>2, <1>4, <1>0 DEF DiscoverTestFiles
  <2>1. TestOf[u] \in config.testGlobs /\ tree[TestOf[u]] # Absent
    BY <1>2 DEF DiscoverTestFiles
  <2>2. changes[TestOf[u]] \in {"added", "modified"}
    BY <1>2, <1>0, <2>1, MovedIsListed
  <2> QED
    BY <1>1, <2>1, <2>2 DEF Mandatory
<1>6. /\ \A f \in config.sentinels \cap Path : tree[f] = on[f]
      /\ \A f \in Path \ store.observed : tree[f] = on[f]
  <2>1. \A f \in config.sentinels \cap Path : tree[f] = on[f]
    BY <1>1, <1>4, <1>0
  <2>2. \A f \in Path : tree[f] # on[f] => f \in store.observed
    BY <1>1, ObservedIsInScope
  <2> QED
    BY <2>1, <2>2
<1>7. Unmoved(u, Part \ {"literal", "lines"})
  <2> SUFFICES ASSUME NEW f \in Loads(u, on), IsSource(config, f)
               PROVE  /\ tree[f] # Absent
                      /\ \A p \in Executed(Calls(u, on, f)) \cap (Part \ {"literal", "lines"}) :
                           tree[f][p] = on[f][p]
    BY DEF Unmoved
  <2>1. f \in Path /\ on[f] # Absent /\ Calls(u, on, f) \in SUBSET Fn
    BY <1>2, <1>3, CoverageMapAssumption
  <2>2. CASE tree[f] = on[f]
    BY <2>1, <2>2
  <2>3. CASE tree[f] # on[f]
    <3>1. f \in DOMAIN changes /\ f \in store.observed
      BY <1>1, <1>4, <2>1, <2>3, ObservedIsInScope
    <3>2. store.commit # NoCommit
      BY <1>1, CoverageMapAssumption DEF Commits
    <3>3. IsSource(store.config, f)
      BY <1>1 DEF IsSource, RecordedConfig
    <3>4. f \in entry.files
      BY <1>1, <3>1, <3>2, <3>3 DEF IInv, StoreInv, Faithful, CreditedFiles
    <3>5. ~HitBy(config, store, tree, u, f)
      BY <1>1, <3>1, <3>4
    <3>6. /\ tree[f] # Absent /\ entry.blocks[f] # {}
          /\ entry.blocks[f] \subseteq BlockHashesOf(tree[f])
      BY <1>1, <3>5 DEF HitBy, Annotated, ChangedBlockHashes, RecordedHashes
    <3>7. entry.blocks[f] = SelectExecutedBlocks(on[f], Calls(u, on, f))
      BY <1>1, <3>2, <3>4, <3>6 DEF IInv, StoreInv, Faithful
    <3>8. \A p \in {"load"} \cup Calls(u, on, f) : tree[f][p] = on[f][p]
      <4>1. SelectExecutedBlocks(on[f], Calls(u, on, f)) \subseteq BlockHashesOf(tree[f])
        BY <3>6, <3>7
      <4> HIDE DEF on
      <4> QED
        BY <2>1, <4>1, HashesTell
    <3> QED
      BY <3>6, <3>8 DEF Executed
  <2> QED
    BY <2>2, <2>3
<1> QED
  BY <1>1, <1>5, <1>6, <1>7

-----------------------------------------------------------------------------
(* Every step keeps the invariant, when nobody interferes with a recording. *)

\* Developers move the checkout only while nothing is recorded; a recording moves
\* nothing but itself and, at its end, the store.
LEMMA StepIInv == ~Interference /\ IInv /\ [Next]_vars => IInv'
<1> SUFFICES ASSUME ~Interference, IInv, [Next]_vars PROVE IInv'
  OBVIOUS
<1> USE CoverageMapAssumption DEF IInv, repoVars, recVars, Usable
<1>1. ASSUME NEW f \in Path, NEW content \in Contents[f], Edit(f, content) PROVE IInv'
  <2>1. /\ phase = "idle" /\ edits' \in 0 .. MaxEdits
        /\ tree' = [tree EXCEPT ![f] = content]
        /\ UNCHANGED <<head, history, present, config, store, recVars>>
    BY <1>1 DEF Edit, Quiet, TypeOK
  <2>2. tree' \in Tree
    BY <2>1 DEF TypeOK, Tree
  <2>3. TypeOK'
    BY <2>1, <2>2 DEF TypeOK, Commits
  <2>4. RecordingInv' /\ StoreInv'
    BY <2>1 DEF RecordingInv, StoreInv
  <2> QED
    BY <2>3, <2>4
<1>2. CASE Commit
  <2> DEFINE new == Len(history) + 1
             commit == [tree |-> tree, past |-> history[head].past \cup {new}]
  <2>1. /\ phase = "idle" /\ new \in Nat /\ new = Len(history) + 1
        /\ history' = Append(history, commit) /\ head' = new /\ present' = present \cup {new}
        /\ UNCHANGED <<tree, config, edits, store, recVars>>
    BY <1>2 DEF Commit, Quiet, TypeOK
  <2>2. commit \in [tree : Tree, past : SUBSET Nat] /\ commit.past \subseteq 1 .. new
    BY DEF TypeOK, Commits
  <2>3. /\ history' \in Seq([tree : Tree, past : SUBSET Nat])
        /\ Commits' = Commits \cup {new}
        /\ \A c \in Commits : history'[c] = history[c]
        /\ history'[new] = commit
    BY <2>1, <2>2 DEF TypeOK, Commits
  <2> HIDE DEF new, commit
  <2>4. TypeOK'
    BY <2>1, <2>2, <2>3 DEF TypeOK
  <2>5. RecordingInv'
    BY <2>1 DEF RecordingInv
  <2>6. StoreInv'
    BY <2>1, <2>3 DEF StoreInv, TypeOK
  <2> QED
    BY <2>4, <2>5, <2>6
<1>3. ASSUME NEW c \in Commits, MoveHead(c) PROVE IInv'
  <2>1. /\ phase = "idle" /\ head' = c /\ c \in present /\ tree' \in {history[c].tree, tree}
        /\ UNCHANGED <<history, present, config, edits, store, recVars>>
    BY <1>3 DEF MoveHead, Quiet
  <2>2. history[c] \in [tree : Tree, past : SUBSET Nat]
    BY ElementOfSeq DEF TypeOK, Commits
  <2>3. TypeOK'
    BY <2>1, <2>2 DEF TypeOK, Commits
  <2>4. RecordingInv' /\ StoreInv'
    BY <2>1 DEF RecordingInv, StoreInv
  <2> QED
    BY <2>3, <2>4
<1>4. ASSUME NEW c \in Commits, Prune(c) PROVE IInv'
  BY <1>4 DEF Prune, TypeOK, RecordingInv, StoreInv, Commits, HeadTree
<1>5. ASSUME NEW cfg \in Configs, Configure(cfg) PROVE IInv'
  BY <1>5 DEF Configure, TypeOK, RecordingInv, StoreInv, Commits, HeadTree
<1>6. CASE StartRecording
  <2>1. StoreInv' /\ UNCHANGED <<repoVars, store>>
    BY <1>6 DEF StartRecording, StoreInv
  <2>2. dirty' \in BOOLEAN /\ (~dirty' => tree' = HeadTree')
    BY <1>6 DEF StartRecording, IsDirtyWorkTree, HeadTree
  <2>3. todo' \subseteq Path
    BY <1>6 DEF StartRecording, DiscoverTestFiles, TypeOK
  <2>4. DOMAIN ran' = {} /\ DOMAIN entries' = {} /\ failed' = FALSE
    BY <1>6 DEF StartRecording, NoEntries
  <2>5. TypeOK'
    BY <1>6, <2>2, <2>3, <2>4 DEF StartRecording, TypeOK, Commits
  <2>6. RecordingInv'
    BY <2>2, <2>4 DEF RecordingInv, Faithful, Together
  <2> QED
    BY <2>1, <2>5, <2>6
<1>7. ASSUME NEW f \in Path, RunTests(f) PROVE IInv'
  BY <1>7 DEF RunTests, TypeOK, RecordingInv, StoreInv, Commits, HeadTree
<1>8. ASSUME NEW f \in Path, Ingest(f) PROVE IInv'
  <2> DEFINE us == UnitsOf(f)
  <2>1. /\ phase = "recording" /\ f \in DOMAIN ran /\ ran[f] = tree
        /\ ran' = [g \in DOMAIN ran \ {f} |-> ran[g]]
        /\ UNCHANGED <<repoVars, store, phase, dirty, recConfig, todo>>
    BY <1>8 DEF Ingest, RecordingInv
  <2>2. PICK scope :
          \/ /\ entries' = [u \in DOMAIN entries \cup us |->
                              IF u \in us THEN EntryOf(u, tree, tree, recConfig, scope[u])
                              ELSE entries[u]]
             /\ failed' = failed
          \/ failed' = TRUE /\ entries' = entries
    BY <1>8, <2>1 DEF Ingest
  <2>3. StoreInv'
    BY <2>1 DEF StoreInv
  <2>4. us \subseteq Unit /\ (\A u, v \in Unit : TestOf[u] = TestOf[v] /\ u \in us => v \in us)
    BY DEF UnitsOf
  <2>5. DOMAIN entries' \subseteq Unit /\ {dirty', failed'} \subseteq BOOLEAN
    BY <2>1, <2>2, <2>4 DEF TypeOK
  <2>6. TypeOK'
    BY <2>1, <2>5 DEF TypeOK, Commits
  <2>7. \A u, sc : LET e == EntryOf(u, tree, tree, recConfig, sc) IN
          /\ e.ranOn = tree
          /\ e.files = CreditedFiles(u, tree, recConfig, e.scope)
          /\ \A g \in e.files : g \in Path =>
               e.blocks[g] \in {{}, SelectExecutedBlocks(tree[g], Calls(u, tree, g))}
    BY DEF EntryOf
  <2>8. \A sc : \A u \in us : \A g \in CreditedFiles(u, tree, recConfig, sc) : g \in Path
    BY <2>4 DEF CreditedFiles, TypeOK
  <2>9. Faithful(entries', tree, recConfig)
    <3>1. Faithful(entries, tree, recConfig)
      BY <2>1 DEF RecordingInv
    <3> SUFFICES ASSUME NEW u \in DOMAIN entries'
                 PROVE  /\ entries'[u].ranOn = tree
                        /\ entries'[u].files = CreditedFiles(u, tree, recConfig, entries'[u].scope)
                        /\ \A g \in entries'[u].files :
                             entries'[u].blocks[g] \in {{}, SelectExecutedBlocks(tree[g], Calls(u, tree, g))}
      BY DEF Faithful
    <3>2. CASE entries'[u] = entries[u] /\ u \in DOMAIN entries
      BY <3>1, <3>2 DEF Faithful
    <3>3. CASE u \in us /\ entries'[u] = EntryOf(u, tree, tree, recConfig, scope[u])
      <4>1. entries'[u].files = CreditedFiles(u, tree, recConfig, entries'[u].scope)
            /\ entries'[u].ranOn = tree
        BY <2>7, <3>3
      <4> QED
        BY <2>7, <2>8, <3>3, <4>1
    <3> QED
      BY <2>2, <3>2, <3>3
  <2>10. Together(entries')
    BY <2>1, <2>2, <2>4 DEF RecordingInv, Together
  <2>11. RecordingInv'
    BY <2>1, <2>9, <2>10 DEF RecordingInv, HeadTree
  <2> QED
    BY <2>3, <2>6, <2>11
<1>9. ASSUME NEW f \in Path, ReportNothing(f) PROVE IInv'
  BY <1>9 DEF ReportNothing, TypeOK, RecordingInv, StoreInv, Commits, HeadTree
<1>10. ASSUME NEW f \in Path, RunFails(f) PROVE IInv'
  BY <1>10 DEF RunFails, TypeOK, RecordingInv, StoreInv, Commits, HeadTree
<1>11. CASE InvocationFails
  BY <1>11 DEF InvocationFails, RecordingOver, NoEntries, TypeOK, RecordingInv, StoreInv,
     Commits, HeadTree
<1>12. CASE FinishRecording
  <2>1. /\ phase = "recording" /\ phase' = "idle" /\ UNCHANGED repoVars
        /\ store' = IF failed THEN store ELSE AssembleMap
        /\ recConfig' = NoConfig /\ todo' = {} /\ dirty' = FALSE /\ failed' = FALSE
        /\ DOMAIN ran' = {} /\ DOMAIN entries' = {}
    BY <1>12 DEF FinishRecording, RecordingOver, NoEntries
  <2>2. RecordingInv'
    BY <2>1 DEF RecordingInv
  <2>3. CASE failed
    BY <2>1, <2>2, <2>3 DEF TypeOK, StoreInv, Commits
  <2>4. CASE ~failed
    <3>1. /\ store'.state = "usable"
          /\ store'.commit = IF dirty THEN NoCommit ELSE head
          /\ store'.config = RecordedConfig(recConfig)
          /\ store'.observed = AgreedScope(entries)
          /\ store'.entries = entries
      BY <2>1, <2>4 DEF AssembleMap
    <3>2. TypeOK'
      BY <2>1, <3>1 DEF TypeOK, Commits
    <3>3. \A u \in DOMAIN entries : AgreedScope(entries) \subseteq entries[u].scope
      BY DEF AgreedScope
    <3>4. ~dirty => Faithful(entries, history[head].tree, RecordedConfig(recConfig))
      BY <2>1 DEF RecordingInv, HeadTree, Faithful, CreditedFiles, IsSource, RecordedConfig
    <3>5. StoreInv'
      BY <2>1, <3>1, <3>3, <3>4 DEF StoreInv, RecordingInv
    <3> QED
      BY <2>2, <3>2, <3>5
  <2> QED
    BY <2>3, <2>4 DEF TypeOK
<1>13. CASE Crash
  <2>1. /\ phase' = "idle" /\ UNCHANGED repoVars
        /\ store' = store \/ store'.state = "unusable"
        /\ recConfig' = NoConfig /\ todo' = {} /\ dirty' = FALSE /\ failed' = FALSE
        /\ DOMAIN ran' = {} /\ DOMAIN entries' = {}
    BY <1>13 DEF Crash, RecordingOver, NoEntries
  <2>2. TypeOK'
    BY <2>1 DEF TypeOK, Commits
  <2>3. RecordingInv' /\ StoreInv'
    BY <2>1 DEF RecordingInv, StoreInv
  <2> QED
    BY <2>2, <2>3
<1>14. CASE UNCHANGED vars
  BY <1>14 DEF vars, TypeOK, RecordingInv, StoreInv, Commits, HeadTree
<1> QED
  BY <1>1, <1>2, <1>3, <1>4, <1>5, <1>6, <1>7, <1>8, <1>9, <1>10, <1>11, <1>12, <1>13, <1>14
  DEF Next, Developer, Recording

\* The inductive invariant holds in every state reached without interference.
THEOREM Invariance == ~Interference => (Spec => []IInv)
<1> SUFFICES ASSUME ~Interference PROVE Spec => []IInv
  OBVIOUS
<1>1. IInv /\ [Next]_vars => IInv'
  BY StepIInv
<1> QED
  BY InitIInv, <1>1, PTL DEF Spec

-----------------------------------------------------------------------------
(* What a reader takes from it.                                             *)

\* The store, the checkout and the recording keep to their values.
THEOREM TypeCorrect == ~Interference => (Spec => []TypeOK)
<1> SUFFICES ASSUME ~Interference PROVE Spec => []TypeOK
  OBVIOUS
<1>1. IInv => TypeOK
  BY DEF IInv
<1> QED
  BY <1>1, Invariance, PTL

\* A map that names a commit was recorded, every entry of it, on that commit's
\* tree (the claim of assembleMap), when nobody changed the tree meanwhile.
THEOREM CommitIsDescribed == ~Interference => (Spec => []MapDescribesCommit)
<1> SUFFICES ASSUME ~Interference PROVE Spec => []MapDescribesCommit
  OBVIOUS
<1>1. IInv => MapDescribesCommit
  BY DEF IInv, StoreInv, Faithful, MapDescribesCommit, RanOn
<1> QED
  BY <1>1, Invariance, PTL

\* The guarantee of the tool: whatever was edited, committed, checked out,
\* pruned or reconfigured since, a test is skipped only if nothing it executed,
\* nor its own file, a sentinel or an unobserved path, has changed.  It needs a
\* repository with no name git would quote, and no test file or sentinel in a
\* directory that git status may list by its name alone.
THEOREM NeverSkipsAffected ==
  ~Interference /\ Quoted = {} /\ OnlySourcesFolded => (Spec => []SelectionSound)
<1> SUFFICES ASSUME ~Interference, Quoted = {}, OnlySourcesFolded PROVE Spec => []SelectionSound
  OBVIOUS
<1>1. IInv => SelectionSound
  BY SkipIsSound
<1> QED
  BY <1>1, Invariance, PTL

-----------------------------------------------------------------------------
(* A selection by blocks is exact, and a whole run is complete.             *)

Measured(es) == \E u \in DOMAIN es : \E f \in Path : es[u].blocks[f] # {}

\* Blocks are recorded only when the configuration asks for them, and a map that
\* has some says so.
Grain ==
  /\ phase = "recording" /\ Measured(entries) => recConfig.granularity # "file"
  /\ Usable /\ Measured(store.entries) =>
       store.granularity = "block" /\ store.config.granularity # "file"

\* What one invocation was asked for is to be run, ran, or is recorded; or the
\* recording has failed.
Asked ==
  phase = "recording" /\ WholeRun /\ ~failed =>
    DiscoverTestFiles(recConfig, tree)
      \subseteq todo \cup DOMAIN ran \cup {TestOf[u] : u \in DOMAIN entries}

\* An entry has blocks of the files it credits, and of no other.
Placed(es) == \A u \in DOMAIN es : \A f \in Path : es[u].blocks[f] # {} => f \in es[u].files

BlocksOfFiles ==
  /\ phase = "recording" => Placed(entries)
  /\ Usable => Placed(store.entries)

RInv == Grain /\ Asked /\ BlocksOfFiles

-----------------------------------------------------------------------------
\* There is neither map nor recording at first.
LEMMA InitRInv == Init => RInv
  BY DEF Init, RInv, Grain, Asked, BlocksOfFiles, Usable

\* Every step keeps the invariant, when nobody interferes with a recording.
LEMMA StepRInv == ~Interference /\ IInv /\ RInv /\ [Next]_vars => RInv'
<1> SUFFICES ASSUME ~Interference, IInv, RInv, [Next]_vars PROVE RInv'
  OBVIOUS
<1> USE DEF RInv, repoVars, recVars, Usable
<1>1. CASE Developer
  <2>1. UNCHANGED <<store, recVars>>
    BY <1>1 DEF Developer, Edit, Commit, MoveHead, Prune, Configure
  <2>2. phase = "recording" => UNCHANGED tree
    BY <1>1 DEF Developer, Edit, Commit, MoveHead, Prune, Configure, Quiet
  <2> QED
    BY <2>1, <2>2 DEF Grain, Asked, BlocksOfFiles, Measured, Placed, DiscoverTestFiles
<1>2. CASE StartRecording
  <2>1. DOMAIN entries' = {} /\ UNCHANGED <<store, tree>>
        /\ recConfig' = config /\ todo' = DiscoverTestFiles(config, tree)
    BY <1>2 DEF StartRecording, NoEntries
  <2> QED
    BY <2>1 DEF Grain, Asked, BlocksOfFiles, Measured, Placed, DiscoverTestFiles
<1>3. ASSUME NEW f \in Path, RunTests(f) PROVE RInv'
  <2>1. /\ todo' = todo \ {f} /\ DOMAIN ran' = DOMAIN ran \cup {f}
        /\ UNCHANGED <<tree, store, phase, recConfig, entries, failed>>
    BY <1>3 DEF RunTests
  <2> QED
    BY <2>1 DEF Grain, Asked, BlocksOfFiles, Measured, Placed, DiscoverTestFiles
<1>4. ASSUME NEW f \in Path, Ingest(f) PROVE RInv'
  <2> DEFINE us == UnitsOf(f)
  <2>1. /\ phase = "recording" /\ f \in DOMAIN ran /\ us # {}
        /\ DOMAIN ran' = DOMAIN ran \ {f}
        /\ UNCHANGED <<tree, store, phase, recConfig, todo>>
    BY <1>4 DEF Ingest
  <2>2. PICK scope :
          \/ /\ entries' = [u \in DOMAIN entries \cup us |->
                              IF u \in us THEN EntryOf(u, ran[f], tree, recConfig, scope[u])
                              ELSE entries[u]]
             /\ failed' = failed
          \/ failed' = TRUE /\ entries' = entries
    BY <1>4 DEF Ingest
  <2>3. CASE failed' = TRUE /\ entries' = entries
    BY <2>1, <2>3 DEF Grain, Asked, BlocksOfFiles, Measured, Placed
  <2>4. CASE /\ entries' = [u \in DOMAIN entries \cup us |->
                              IF u \in us THEN EntryOf(u, ran[f], tree, recConfig, scope[u])
                              ELSE entries[u]]
             /\ failed' = failed
    <3>1. \A u \in us : TestOf[u] = f
      BY DEF UnitsOf
    <3>2. Asked'
      BY <2>1, <2>4, <3>1 DEF Asked, DiscoverTestFiles
    <3>3. recConfig.granularity = "file" =>
            \A u, sc : \A g \in Path : EntryOf(u, ran[f], tree, recConfig, sc).blocks[g] = {}
      BY DEF EntryOf
    <3>4. Grain'
      BY <2>1, <2>4, <3>3 DEF Grain, Measured
    <3>5. \A u, sc : \A g \in Path : LET e == EntryOf(u, ran[f], tree, recConfig, sc) IN
            e.blocks[g] # {} => g \in e.files
      BY DEF EntryOf
    <3>6. BlocksOfFiles'
      BY <2>1, <2>4, <3>5 DEF BlocksOfFiles, Placed
    <3> QED
      BY <3>2, <3>4, <3>6
  <2> QED
    BY <2>2, <2>3, <2>4
<1>5. ASSUME NEW f \in Path, ReportNothing(f) \/ RunFails(f) PROVE RInv'
  <2>1. /\ failed' = (failed \/ WholeRun) \/ failed' = TRUE
        /\ UNCHANGED <<tree, store, phase, recConfig, todo, entries>>
    BY <1>5 DEF ReportNothing, RunFails
  <2> QED
    BY <2>1 DEF Grain, Asked, BlocksOfFiles, Measured, Placed
<1>6. CASE InvocationFails
  BY <1>6 DEF InvocationFails, RecordingOver, Grain, Asked, BlocksOfFiles, Measured, Placed
<1>7. CASE FinishRecording
  <2>1. phase' = "idle" /\ store' = IF failed THEN store ELSE AssembleMap
    BY <1>7 DEF FinishRecording, RecordingOver
  <2>2. CASE failed
    BY <2>1, <2>2 DEF Grain, Asked, BlocksOfFiles, Measured, Placed
  <2>3. CASE ~failed
    <3>1. /\ store'.entries = entries /\ store'.config.granularity = recConfig.granularity
          /\ store'.granularity = IF recConfig.granularity # "file" /\ HasSomeBlocks(entries)
                                  THEN "block" ELSE "file"
      BY <2>1, <2>3 DEF AssembleMap, RecordedConfig
    <3>2. HasSomeBlocks(entries) <=> Measured(entries)
      BY DEF HasSomeBlocks, Measured
    <3>3. phase = "recording"
      BY <1>7 DEF FinishRecording
    <3> QED
      BY <2>1, <3>1, <3>2, <3>3 DEF Grain, Asked, BlocksOfFiles, Measured, Placed
  <2> QED
    BY <2>2, <2>3
<1>8. CASE Crash
  BY <1>8 DEF Crash, RecordingOver, Grain, Asked, BlocksOfFiles, Measured, Placed
<1>9. CASE UNCHANGED vars
  BY <1>9 DEF vars, Grain, Asked, BlocksOfFiles, Measured, Placed, DiscoverTestFiles
<1> QED
  BY <1>1, <1>2, <1>3, <1>4, <1>5, <1>6, <1>7, <1>8, <1>9 DEF Next, Recording

\* The invariant holds in every state reached without interference.
THEOREM RecordingInvariance == ~Interference => (Spec => []RInv)
<1> SUFFICES ASSUME ~Interference PROVE Spec => []RInv
  OBVIOUS
<1>1. IInv /\ RInv /\ [Next]_vars => RInv'
  BY StepRInv
<1>2. Spec => []IInv
  BY Invariance
<1> QED
  BY InitRInv, <1>1, <1>2, PTL DEF Spec

-----------------------------------------------------------------------------
\* A recording driven as one invocation becomes a map only if every test file that
\* was discovered is in it (recordWholeRun, the reconciliation).
THEOREM WholeRunIsReconciled == ~Interference => (Spec => WholeRunReconciled)
<1> SUFFICES ASSUME ~Interference PROVE Spec => WholeRunReconciled
  OBVIOUS
<1>1. RInv /\ [Next]_vars =>
        [store' # store /\ store'.state = "usable" /\ WholeRun =>
           DiscoverTestFiles(recConfig, tree) \subseteq {TestOf[u] : u \in DOMAIN store'.entries}]_vars
  <2> SUFFICES ASSUME RInv, [Next]_vars, store' # store, store'.state = "usable", WholeRun
               PROVE  DiscoverTestFiles(recConfig, tree) \subseteq {TestOf[u] : u \in DOMAIN store'.entries}
    OBVIOUS
  <2>1. FinishRecording
    <3>1. ~Developer /\ ~UNCHANGED vars
      BY DEF vars, Developer, Edit, Commit, MoveHead, Prune, Configure
    <3>2. ~StartRecording /\ ~InvocationFails /\ ~Crash
      BY DEF StartRecording, InvocationFails, Crash
    <3>3. \A f \in Path : ~RunTests(f) /\ ~Ingest(f) /\ ~ReportNothing(f) /\ ~RunFails(f)
      BY DEF RunTests, Ingest, ReportNothing, RunFails
    <3> QED
      BY <3>1, <3>2, <3>3 DEF Next, Recording
  <2>2. /\ phase = "recording" /\ todo = {} /\ DOMAIN ran = {} /\ ~failed
        /\ store'.entries = entries
    BY <2>1 DEF FinishRecording, AssembleMap
  <2> QED
    BY <2>2 DEF RInv, Asked
<1>2. Spec => []RInv
  BY RecordingInvariance
<1> QED
  BY <1>1, <1>2, PTL DEF Spec, WholeRunReconciled

\* A file that has not every hash an execution recorded says something else in one
\* of the blocks it recorded.
LEMMA MissingHashTells ==
  ASSUME NEW old, NEW new, NEW called \in SUBSET Fn,
         NEW h \in SelectExecutedBlocks(old, called), h \notin BlockHashesOf(new)
  PROVE  \E p \in Spans[h[1]] : new[p] # old[p]
<1>1. PICK b \in called \cup {IF called = {} THEN LOAD_BLOCK ELSE MODULE_BLOCK} : h = Hash(b, old)
  BY DEF SelectExecutedBlocks
<1>2. b \in Block
  BY DEF Block
<1>3. Hash(b, old) # Hash(b, new)
  BY <1>1, <1>2 DEF BlockHashesOf
<1>4. [p \in Spans[b] |-> old[p]] # [p \in Spans[b] |-> new[p]]
  BY <1>3 DEF Hash
<1>5. h[1] = b
  BY <1>1 DEF Hash
<1> QED
  BY <1>4, <1>5

\* A unit with blocks is selected for a change to one of them.
LEMMA SelectedIsHit == IInv /\ RInv => BlocksAreExact
<1> SUFFICES ASSUME IInv, RInv, NEW u \in Select.units,
                    \A f \in store.entries[u].files : store.entries[u].blocks[f] # {}
             PROVE  \E f \in store.entries[u].files :
                      \/ tree[f] = Absent
                      \/ \E b \in {h[1] : h \in store.entries[u].blocks[f]} :
                           \E p \in Spans[b] : tree[f][p] # RanOn(u)[f][p]
  BY DEF BlocksAreExact
<1> DEFINE from == history[store.commit].tree
           changes == DiffChanges(from, HeadTree, tree)
<1>1. Usable /\ Trusted(store, present) /\ ~FullRunForced(config, store, changes)
      /\ Select = Selected(config, store, changes, tree)
  <2>1. FullRun(config, tree).units = {}
    BY DEF FullRun
  <2>2. Usable /\ Trusted(store, present) /\ Select = SelectFrom(config, store, from, HeadTree, tree)
    BY <2>1 DEF Select
  <2> QED
    BY <2>1, <2>2 DEF SelectFrom
<1>2. store.commit \in Commits /\ store.commit # NoCommit
  <2>1. store.commit \in Commits
    BY <1>1 DEF Trusted, IInv, TypeOK
  <2> QED
    BY <2>1, CoverageMapAssumption DEF Commits
<1>3. u \in Affected(config, store, changes, tree)
  BY <1>1 DEF Selected
<1>4. PICK f \in store.entries[u].files : HitBy(config, store, tree, u, f)
  BY <1>3 DEF Affected
<1>5. u \in DOMAIN store.entries /\ u \in Unit
  BY <1>1, <1>3 DEF Affected, IInv, TypeOK
<1>6. /\ RanOn(u) = from /\ store.entries[u].blocks[f] = SelectExecutedBlocks(from[f], Calls(u, from, f))
      /\ f \in CreditedFiles(u, from, store.config, store.entries[u].scope)
  BY <1>1, <1>2, <1>4, <1>5 DEF IInv, StoreInv, Faithful, RanOn
<1>7. from \in Tree
  <2>1. history[store.commit] \in [tree : Tree, past : SUBSET Nat]
    BY <1>2, ElementOfSeq DEF IInv, TypeOK, Commits
  <2> QED
    BY <2>1
<1>8. f \in Path /\ Calls(u, from, f) \in SUBSET Fn
  BY <1>5, <1>6, <1>7, CoverageMapAssumption DEF CreditedFiles
<1>9. store.granularity = "block" /\ config.granularity # "file" /\ RecordedHashes(store, f) # {}
  <2>1. Measured(store.entries)
    BY <1>4, <1>5, <1>8 DEF Measured
  <2>2. RecordedConfig(config) = store.config
    BY <1>1 DEF FullRunForced
  <2> QED
    BY <1>1, <1>4, <1>5, <2>1, <2>2 DEF RInv, Grain, RecordedConfig, RecordedHashes
<1>10. CASE tree[f] = Absent
  BY <1>4, <1>10
<1>11. CASE tree[f] # Absent
  <2>1. PICK h \in store.entries[u].blocks[f] : h \notin BlockHashesOf(tree[f])
    BY <1>4, <1>9, <1>11 DEF HitBy, Annotated, ChangedBlockHashes
  <2> HIDE DEF from
  <2>2. \E p \in Spans[h[1]] : tree[f][p] # from[f][p]
    BY <1>6, <1>8, <2>1, MissingHashTells
  <2> QED
    BY <1>4, <1>6, <2>1, <2>2
<1> QED
  BY <1>10, <1>11

\* Where a test's blocks were recorded, only a change to what one of them says
\* selects it: an edit of a function it did not call does not, nor one undone.
THEOREM SelectionIsExact == ~Interference => (Spec => []BlocksAreExact)
<1> SUFFICES ASSUME ~Interference PROVE Spec => []BlocksAreExact
  OBVIOUS
<1> QED
  BY Invariance, RecordingInvariance, SelectedIsHit, PTL

-----------------------------------------------------------------------------
(* Explain foretells selection.                                             *)

\* A hash of a file as it is, which the file no longer has once it is edited, is
\* that of a block the edit moves.
LEMMA LostHashMoved ==
  ASSUME NEW f, NEW content, NEW h \in BlockHashesOf(tree[f]), h \notin BlockHashesOf(content)
  PROVE  \E b \in MovedBy(f, content) : h = Hash(b, tree[f])
  BY DEF BlockHashesOf, MovedBy

\* What explain says of a source is what an edit of it hits.
LEMMA SourceIsForetold ==
  ASSUME RInv, Usable, store.config = RecordedConfig(config), tree \in Tree,
         NEW f \in Path, NEW content \in Contents[f] \ {Absent, tree[f]}
  PROVE  SourceForetold(f, content)
<1> DEFINE disk == [tree EXCEPT ![f] = content]
           moved == MovedBy(f, content)
           hit == HitOn(disk, f)
           said == {Verdict(f, b) : b \in moved}
           es == store.entries
<1>1. disk[f] = content /\ content # Absent
  BY DEF Tree
<1>2. \A u \in DOMAIN es : es[u].blocks[f] # {} => f \in es[u].files
  BY DEF RInv, BlocksOfFiles, Placed
<1>3. CoveredBy(f) = {u \in DOMAIN es : f \in es[u].files}
  BY <1>2 DEF CoveredBy
<1>4. \A d : HitOn(d, f) = {u \in CoveredBy(f) : HitBy(config, store, d, u, f)}
  BY <1>3 DEF HitOn
<1>5. RecordedHashes(store, f) # {} => config.granularity # "file"
  <2>1. RecordedHashes(store, f) # {} => Measured(es)
    BY DEF RecordedHashes, Measured
  <2> QED
    BY <2>1 DEF RInv, Grain, RecordedConfig
<1>6. \A d : Annotated(config, store, d, f)
               <=> store.granularity = "block" /\ RecordedHashes(store, f) # {} /\ d[f] # Absent
  BY <1>5 DEF Annotated
<1>7. CASE HasBlockDetail(f)
  <2>1. ASSUME moved # {}, said = {"uncovered"}, NEW u \in hit PROVE FALSE
    <3>1. \A b \in moved : Verdict(f, b) = "uncovered"
      BY <2>1
    <3>2. \A b \in moved : RanBlock(f, b) = {}
      BY <3>1 DEF Verdict
    <3>3. FileOnly(f) = {} /\ ChangedBlockHashes(store, tree, f) = {}
      BY <2>1, <3>1, <3>2 DEF Verdict
    <3>4. u \in CoveredBy(f) /\ HitBy(config, store, disk, u, f) /\ u \in DOMAIN es
      BY <1>3, <1>4, <2>1
    <3>5. Annotated(config, store, disk, f) /\ es[u].blocks[f] # {}
      BY <1>1, <1>6, <1>7, <3>3, <3>4 DEF HasBlockDetail, FileOnly
    <3>6. PICK h \in es[u].blocks[f] : h \in ChangedBlockHashes(store, disk, f)
      BY <3>4, <3>5 DEF HitBy
    <3>7. h \in RecordedHashes(store, f) /\ h \notin BlockHashesOf(content)
      BY <1>1, <3>6 DEF ChangedBlockHashes
    <3>8. h \in BlockHashesOf(tree[f])
      BY <3>3, <3>7 DEF ChangedBlockHashes
    <3>9. PICK b \in moved : h = Hash(b, tree[f])
      BY <3>7, <3>8, LostHashMoved
    <3>10. u \in RanBlock(f, b)
      BY <3>4, <3>6, <3>9 DEF RanBlock, Ran
    <3> QED
      BY <3>2, <3>10
  <2>2. FileOnly(f) \subseteq hit
    BY <1>4 DEF FileOnly, HitBy
  <2> QED
    BY <1>7, <2>1, <2>2 DEF SourceForetold
<1>8. CASE ~HasBlockDetail(f) /\ tree[f] # Absent
  <2>1. hit = CoveredBy(f)
    BY <1>4, <1>6, <1>8 DEF HasBlockDetail, HitBy
  <2> QED
    BY <1>8, <2>1 DEF SourceForetold
<1>9. CASE ~HasBlockDetail(f) /\ tree[f] = Absent
  <2>1. hit \subseteq CoveredBy(f) /\ HitOn(tree, f) = CoveredBy(f)
    BY <1>4, <1>6, <1>9 DEF HitBy
  <2> QED
    BY <1>9, <2>1 DEF SourceForetold
<1> QED
  BY <1>7, <1>8, <1>9

\* And what it says runs whenever, or runs everything, does so.
LEMMA ExplainIsRight == Quoted = {} /\ OnlySourcesFolded /\ IInv /\ RInv => ExplainForetells
<1> SUFFICES ASSUME Quoted = {}, OnlySourcesFolded, IInv, RInv,
                    Usable, phase = "idle", Trusted(store, present), store.config = RecordedConfig(config),
                    NEW f \in Path
             PROVE  /\ RunsAlways(f) /\ f \in DiscoverTestFiles(config, tree) =>
                         Select.fullRun \/ f \in Select.files
                    /\ \A content \in Contents[f] \ {Absent, tree[f]} :
                         /\ IsSource(config, f) => SourceForetold(f, content)
                         /\ ForcesFullRun(f) /\ content # history[store.commit].tree[f] =>
                              SelectOn([tree EXCEPT ![f] = content]).fullRun
  BY DEF ExplainForetells
<1> DEFINE from == history[store.commit].tree
<1>1. tree \in Tree /\ \A cfg, t : FullRun(cfg, t).fullRun
  BY DEF IInv, TypeOK, FullRun
<1>2. ASSUME RunsAlways(f), f \in DiscoverTestFiles(config, tree)
      PROVE  Select.fullRun \/ f \in Select.files
  <2>1. Select = SelectFrom(config, store, from, HeadTree, tree)
    BY <1>2 DEF Select
  <2>2. \A changes : f \in Selected(config, store, changes, tree).files
    BY <1>2 DEF Selected, WholeFiles, RunsAlways, Unrecorded, Unmeasured
  <2> QED
    BY <1>1, <2>1, <2>2 DEF SelectFrom
<1>3. ASSUME NEW content \in Contents[f] \ {Absent, tree[f]}, ForcesFullRun(f), content # from[f]
      PROVE  SelectOn([tree EXCEPT ![f] = content]).fullRun
  <2> DEFINE disk == [tree EXCEPT ![f] = content]
             changes == DiffChanges(from, HeadTree, disk)
  <2>1. disk[f] = content /\ content # from[f]
    BY <1>1, <1>3 DEF Tree
  <2> HIDE DEF disk
  <2>2. ASSUME f \in config.sentinels PROVE FullRunForced(config, store, changes)
    <3>1. f \notin UNION Folders
      BY <2>2, NoneIsFolded DEF IInv, TypeOK
    <3>2. f \in DOMAIN changes
      BY <1>3, <2>1, <3>1, MovedIsListed
    <3> HIDE DEF changes
    <3> QED
      BY <2>2, <3>2 DEF FullRunForced
  <2>3. ASSUME ~Observes(store.observed, f) PROVE FullRunForced(config, store, changes)
    <3>1. ~\A n \in DOMAIN changes : Observes(store.observed, n)
      <4>1. f \notin store.observed
        BY <2>3 DEF Observes
      <4> QED
        BY <1>3, <2>1, <4>1, ObservedIsInScope
    <3> HIDE DEF changes
    <3> QED
      BY <3>1 DEF FullRunForced
  <2>4. FullRunForced(config, store, changes)
    <3> HIDE DEF changes
    <3> QED
      BY <1>3, <2>2, <2>3 DEF ForcesFullRun
  <2> QED
    BY <1>1, <2>4 DEF SelectOn, SelectFrom, disk
<1> QED
  BY <1>1, <1>2, <1>3, SourceIsForetold

\* Whatever was edited, committed, pruned or reconfigured since a recording that
\* nobody interfered with, what covsel explain says of a path is what selection
\* does once it is edited, where git quotes no name and every test file and
\* sentinel is listed by its own.
THEOREM ExplainForetellsSelection ==
  ~Interference /\ Quoted = {} /\ OnlySourcesFolded => (Spec => []ExplainForetells)
<1> SUFFICES ASSUME ~Interference, Quoted = {}, OnlySourcesFolded PROVE Spec => []ExplainForetells
  OBVIOUS
<1>1. IInv /\ RInv => ExplainForetells
  BY ExplainIsRight
<1> QED
  BY <1>1, Invariance, RecordingInvariance, PTL
=============================================================================
