---------------------------- MODULE CoverageMap ----------------------------
(***************************************************************************)
(* The life of a coverage map: a recording runs the suite and writes the   *)
(* map (recordMap, commands.ts; LocalStore, store.ts), the repository      *)
(* moves on, and a later selection reads the map against the tree as it is *)
(* then (selectAffected).                                                  *)
(*                                                                         *)
(* A recording takes its steps while developers take theirs: it looks at   *)
(* the work tree first, runs each test file, reads the covered sources     *)
(* back from disk to hash them, and reads HEAD when it is done.            *)
(***************************************************************************)
EXTENDS Selection, Sequences

CONSTANTS
  Contents,         \* the contents each path may be given
  Configs,          \* configurations a developer may choose
  NoConfig,         \* no recording is going on
  Loads(_, _),      \* Loads(u, tree): files that load when u runs on tree
  Calls(_, _, _),   \* Calls(u, tree, f): the functions of f it then runs
  Windows,          \* for each unit, the scopes its recording may report
  Declared,         \* recorder.observes
  HasBlocks,        \* units whose recorder captures blocks
  WholeRun,         \* the recorder has recordRun: one invocation for the suite
  Interference,     \* the repository may be changed while a recording runs
  MaxEdits,         \* bound on edits
  MaxCommits        \* bound on commits

Tree == [Path -> UNION {Contents[f] : f \in Path}]

ASSUME CoverageMapAssumption ==
  /\ TestOf \in [Unit -> Path]
  /\ Quoted \subseteq Path /\ \A f \in Path : <<"quoted", f>> \notin Path
  /\ Folders \subseteq SUBSET Path /\ \A D \in SUBSET Path : <<"folder", D>> \notin Path
  /\ \A f \in Path : \E c \in Contents[f] : c # Absent
  /\ \A u \in Unit : Windows[u] \subseteq SUBSET Path
  /\ Declared \subseteq Path
  /\ NoConfig \notin Configs
  /\ \A cfg \in Configs : cfg.testGlobs \subseteq Path
  /\ {WholeRun, Interference} \subseteq BOOLEAN
  /\ MaxEdits \in Nat /\ MaxCommits \in Nat \ {0}
  /\ NoCommit \notin Nat
  /\ \A u \in Unit, t \in Tree :
       /\ Loads(u, t) \subseteq {f \in Path : t[f] # Absent}
       /\ \A f \in Path : Calls(u, t, f) \subseteq Fn

VARIABLES
  tree, head, history, present,   \* the checkout: work tree, HEAD, and the
                                  \* commits, of which only present are here
  config, store, edits,
  phase, dirty, recConfig,        \* the recording in progress
  todo, ran, entries, failed

repoVars == <<tree, head, history, present, config, edits>>
recVars  == <<phase, dirty, recConfig, todo, ran, entries, failed>>
vars == <<repoVars, store, recVars>>

Commits == 1 .. Len(history)
HeadTree == history[head].tree
NoEntries == [u \in {} |-> {}]
Usable == store.state = "usable"

\* Developers wait for a recording to end, unless they interfere.
Quiet == Interference \/ phase = "idle"

TypeOK ==
  /\ tree \in Tree
  /\ head \in Commits /\ head \in present /\ present \subseteq Commits
  /\ history \in Seq([tree : Tree, past : SUBSET Nat])
  /\ \A c \in Commits : history[c].past \subseteq 1 .. c
  /\ config \in Configs /\ edits \in 0 .. MaxEdits
  /\ phase \in {"idle", "recording"}
  /\ {dirty, failed} \subseteq BOOLEAN
  /\ recConfig \in Configs \cup {NoConfig} /\ (phase = "recording" => recConfig \in Configs)
  /\ todo \subseteq Path /\ DOMAIN ran \subseteq Path \ todo
  /\ DOMAIN entries \subseteq Unit
  /\ store.state \in {"absent", "unusable", "usable"}
  /\ Usable => store.commit \in Commits \cup {NoCommit} /\ DOMAIN store.entries \subseteq Unit

Init ==
  /\ tree = [f \in Path |-> CHOOSE c \in Contents[f] : c # Absent]
  /\ head = 1 /\ history = <<[tree |-> tree, past |-> {1}]>>
  /\ present = {1}
  /\ config \in Configs /\ edits = 0
  /\ store = [state |-> "absent"]
  /\ phase = "idle" /\ dirty = FALSE /\ recConfig = NoConfig
  /\ todo = {} /\ ran = NoEntries /\ entries = NoEntries /\ failed = FALSE

-----------------------------------------------------------------------------
(* The repository, as developers and CI move it.                            *)

Edit(f, content) ==
  /\ Quiet /\ edits < MaxEdits
  /\ content # tree[f]
  /\ tree' = [tree EXCEPT ![f] = content]
  /\ edits' = edits + 1
  /\ UNCHANGED <<head, history, present, config, store, recVars>>

Commit ==
  /\ Quiet /\ tree # HeadTree
  /\ LET new == Len(history) + 1 IN
       /\ new <= MaxCommits
       /\ history' = Append(history, [tree |-> tree, past |-> history[head].past \cup {new}])
       /\ head' = new
       /\ present' = present \cup {new}
  /\ UNCHANGED <<tree, config, edits, store, recVars>>

\* checkout and reset --hard take the commit's tree, reset --soft leaves it.
MoveHead(c) ==
  /\ Quiet /\ c \in present \ {head}
  /\ head' = c
  /\ tree' \in {history[c].tree, tree}
  /\ UNCHANGED <<history, present, config, edits, store, recVars>>

\* A shallow clone, or a pruned history.
Prune(c) ==
  /\ c \in present \ {head}
  /\ present' = present \ {c}
  /\ UNCHANGED <<tree, head, history, config, edits, store, recVars>>

Configure(cfg) ==
  /\ cfg # config
  /\ config' = cfg
  /\ UNCHANGED <<tree, head, history, present, edits, store, recVars>>

-----------------------------------------------------------------------------
(* recordMap.                                                              *)

UnitsOf(f) == {u \in Unit : TestOf[u] = f}

\* What a recorder credits a unit with: files that loaded on the tree it ran on,
\* hashed from the disk as it is when the coverage is mapped.
CreditedFiles(u, on, cfg, scope) == {f \in Loads(u, on) \cap scope : IsSource(cfg, f)}

EntryOf(u, on, disk, cfg, scope) ==
  LET credited == CreditedFiles(u, on, cfg, scope) IN
    [files  |-> credited,
     blocks |-> [f \in Path |->
                   IF u \in HasBlocks /\ cfg.granularity # "file" /\ f \in credited
                   THEN SelectExecutedBlocks(disk[f], Calls(u, on, f)) ELSE {}],
     scope  |-> scope,
     ranOn  |-> on]   \* history: the tree the test ran on

\* Discovery and the configuration are read, then the work tree is sampled.
StartRecording ==
  /\ phase = "idle"
  /\ DiscoverTestFiles(config, tree) # {}
  /\ phase' = "recording"
  /\ recConfig' = config
  /\ todo' = DiscoverTestFiles(config, tree)
  /\ dirty' = IsDirtyWorkTree(HeadTree, tree)
  /\ ran' = NoEntries /\ entries' = NoEntries /\ failed' = FALSE
  /\ UNCHANGED <<repoVars, store>>

\* Mutant: the file stays on the list.
RunTestsAgain(f) ==
  /\ phase = "recording" /\ f \in todo
  /\ WholeRun \/ DOMAIN ran = {}
  /\ ran' = [g \in DOMAIN ran \cup {f} |-> IF g = f THEN tree ELSE ran[g]]
  /\ UNCHANGED <<repoVars, store, phase, dirty, recConfig, todo, entries, failed>>

\* A test file runs; one at a time unless one invocation runs them all.
RunTests(f) ==
  /\ phase = "recording" /\ f \in todo
  /\ WholeRun \/ DOMAIN ran = {}
  /\ todo' = todo \ {f}
  /\ ran' = [g \in DOMAIN ran \cup {f} |-> IF g = f THEN tree ELSE ran[g]]
  /\ UNCHANGED <<repoVars, store, phase, dirty, recConfig, entries, failed>>

\* Its coverage comes back and is ingested: every unit or, when a unit claims
\* more than the recorder declared or a covered source is gone, none.
Ingest(f) ==
  /\ phase = "recording" /\ f \in DOMAIN ran /\ UnitsOf(f) # {}
  /\ WholeRun => todo = {}
  /\ \E scope \in [UnitsOf(f) -> UNION {Windows[u] : u \in UnitsOf(f)}] :
       /\ \A u \in UnitsOf(f) : scope[u] \in Windows[u]
       /\ IF /\ \A u \in UnitsOf(f) : scope[u] \subseteq Declared
             /\ \A u \in UnitsOf(f) :
                  \A g \in CreditedFiles(u, ran[f], recConfig, scope[u]) : tree[g] # Absent
          THEN /\ entries' = [u \in DOMAIN entries \cup UnitsOf(f) |->
                                IF u \in UnitsOf(f)
                                THEN EntryOf(u, ran[f], tree, recConfig, scope[u])
                                ELSE entries[u]]
               /\ UNCHANGED failed
          ELSE failed' = TRUE /\ UNCHANGED entries
  /\ ran' = [g \in DOMAIN ran \ {f} |-> ran[g]]
  /\ UNCHANGED <<repoVars, store, phase, dirty, recConfig, todo>>

\* Mutant: a whole run is not reconciled.
ReportNothingSilently(f) ==
  /\ phase = "recording" /\ f \in DOMAIN ran
  /\ WholeRun => todo = {}
  /\ ran' = [g \in DOMAIN ran \ {f} |-> ran[g]]
  /\ UNCHANGED <<repoVars, store, phase, dirty, recConfig, todo, entries, failed>>

\* The recorder returns nothing for the file.  A whole run is reconciled against
\* what was asked for; file by file, the file is simply left out of the map.
ReportNothing(f) ==
  /\ phase = "recording" /\ f \in DOMAIN ran
  /\ WholeRun => todo = {}
  /\ failed' = (failed \/ WholeRun)
  /\ ran' = [g \in DOMAIN ran \ {f} |-> ran[g]]
  /\ UNCHANGED <<repoVars, store, phase, dirty, recConfig, todo, entries>>

\* A test failed, or its executed scripts cannot be mapped.
RunFails(f) ==
  /\ phase = "recording" /\ ~WholeRun /\ f \in DOMAIN ran
  /\ failed' = TRUE
  /\ ran' = [g \in DOMAIN ran \ {f} |-> ran[g]]
  /\ UNCHANGED <<repoVars, store, phase, dirty, recConfig, todo, entries>>

\* The recording leaves nothing behind but what it wrote.
RecordingOver ==
  /\ phase' = "idle" /\ dirty' = FALSE /\ recConfig' = NoConfig
  /\ todo' = {} /\ ran' = NoEntries /\ entries' = NoEntries /\ failed' = FALSE

\* The one invocation rejects: the suite is one unit of success.
InvocationFails ==
  /\ phase = "recording" /\ WholeRun /\ entries = NoEntries /\ ~failed
  /\ RecordingOver
  /\ UNCHANGED <<repoVars, store>>

\* agreedScope: what every entry was watched for, or nothing.
AgreedScope(es) ==
  IF DOMAIN es = {} THEN Declared
  ELSE IF \A u, v \in DOMAIN es : es[u].scope = es[v].scope
       THEN es[CHOOSE u \in DOMAIN es : TRUE].scope ELSE {}

HasSomeBlocks(es) == \E u \in DOMAIN es : \E f \in Path : es[u].blocks[f] # {}

\* assembleMap: HEAD is read now, unless the tree was dirty at the start.
AssembleMap ==
  [state |-> "usable",
   commit |-> IF dirty THEN NoCommit ELSE head,
   granularity |-> IF recConfig.granularity # "file" /\ HasSomeBlocks(entries)
                   THEN "block" ELSE "file",
   config |-> RecordedConfig(recConfig),
   observed |-> AgreedScope(entries),
   entries |-> entries]

\* Any failure, and nothing is written.
FinishRecording ==
  /\ phase = "recording" /\ todo = {} /\ DOMAIN ran = {}
  /\ store' = IF failed THEN store ELSE AssembleMap
  /\ RecordingOver
  /\ UNCHANGED repoVars

\* The process dies: while it records, or while writeFileSync writes the map.
Crash ==
  /\ phase = "recording"
  /\ \/ UNCHANGED store
     \/ /\ todo = {} /\ DOMAIN ran = {} /\ ~failed
        /\ store' = [state |-> "unusable"]
  /\ RecordingOver
  /\ UNCHANGED repoVars

Developer ==
  \/ \E f \in Path : \E content \in Contents[f] : Edit(f, content)
  \/ Commit
  \/ \E c \in Commits : MoveHead(c) \/ Prune(c)
  \/ \E cfg \in Configs : Configure(cfg)

Recording ==
  \/ StartRecording
  \/ \E f \in Path : RunTests(f) \/ Ingest(f) \/ ReportNothing(f) \/ RunFails(f)
  \/ InvocationFails \/ FinishRecording \/ Crash

Next == Developer \/ Recording

Spec == Init /\ [][Next]_vars

-----------------------------------------------------------------------------
(* selectAffected, at any moment.                                          *)

Select ==
  IF DiscoverTestFiles(config, tree) = {} \/ ~Usable \/ ~Trusted(store, present)
  THEN FullRun(config, tree)
  ELSE SelectFrom(config, store, history[store.commit].tree, HeadTree, tree)

\* With --since the diff starts where the two histories part; a git diff that
\* fails, as it does for a ref that names no commit here, adds nothing.
MergeBase(c) ==
  LET common == history[c].past \cap history[head].past IN
    CHOOSE b \in common : \A d \in common : d <= b

SelectSince(c) ==
  IF DiscoverTestFiles(config, tree) = {} \/ ~Usable THEN FullRun(config, tree)
  ELSE SelectFrom(config, store,
         IF c \in present THEN history[MergeBase(c)].tree ELSE HeadTree, HeadTree, tree)

-----------------------------------------------------------------------------
(* What a selection promises.                                              *)

RanOn(u) == store.entries[u].ranOn

\* The files a unit loaded that count as sources still say, in the parts the
\* unit executed, what they said when it was recorded.
Unmoved(u, parts) ==
  \A f \in Loads(u, RanOn(u)) : IsSource(config, f) =>
    /\ tree[f] # Absent
    /\ \A p \in Executed(Calls(u, RanOn(u), f)) \cap parts : tree[f][p] = RanOn(u)[f][p]

\* The units a selection leaves out although they are in the suite.
SkippedUnits ==
  {u \in Unit : TestOf[u] \in DiscoverTestFiles(config, tree) /\ Skips(Select, u)}

\* No test file or sentinel is in a directory git may list by its name alone.
OnlySourcesFolded ==
  \A cfg \in Configs : (UNION Folders) \cap (cfg.testGlobs \cup cfg.sentinels) = {}

\* A test is skipped only if it was recorded, and nothing it ran, nor its own
\* file, nor a sentinel, nor a path the recording could not see, differs from
\* the tree it was recorded on (README.md:106, fail-open.md:33).
SelectionSound ==
  \A u \in SkippedUnits :
    /\ u \in DOMAIN store.entries
    /\ Unmoved(u, Part \ {"literal", "lines"})
    /\ \A f \in {TestOf[u]} \cup (config.sentinels \cap Path) \cup (Path \ store.observed) :
         tree[f] = RanOn(u)[f]

\* White space inside a literal of a file a test only loads is a real change
\* (blocks.ts:80-86).
LiteralsCount == \A u \in SkippedUnits : Unmoved(u, {"literal"})

\* So is a line end the language reads.
LineEndsCount == \A u \in SkippedUnits : Unmoved(u, {"lines"})

\* `A commit is a claim that this map describes that commit's tree'
\* (commands.ts:203-204): every test of the map ran on that tree.
MapDescribesCommit ==
  Usable /\ store.commit # NoCommit =>
    \A u \in DOMAIN store.entries : RanOn(u) = history[store.commit].tree

\* `Falls open to a full run when .. the diff cannot be computed'
\* (commands.ts:873-874).
DiffFailureFallsOpen == \A c \in Commits \ present : SelectSince(c).fullRun

\* Where a test's blocks were recorded, only a change to what one of them says
\* selects it: editing a function it did not call, or undoing an edit, does not.
BlocksAreExact ==
  \A u \in Select.units :
    (\A f \in store.entries[u].files : store.entries[u].blocks[f] # {}) =>
      \E f \in store.entries[u].files :
        \/ tree[f] = Absent
        \/ \E b \in {h[1] : h \in store.entries[u].blocks[f]} :
             \E p \in Spans[b] : tree[f][p] # RanOn(u)[f][p]

\* A recording driven as one invocation becomes a map only if every test file
\* covsel discovered is in it (recordWholeRun, the reconciliation).
WholeRunReconciled ==
  [][store' # store /\ store'.state = "usable" /\ WholeRun =>
       DiscoverTestFiles(recConfig, tree) \subseteq {TestOf[u] : u \in DOMAIN store'.entries}]_vars

=============================================================================
