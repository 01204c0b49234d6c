----------------------------- MODULE Selection -----------------------------
(***************************************************************************)
(* What covsel affected decides, from a coverage map, a configuration, the *)
(* commits of the checkout and the work tree: packages/core/src, the diff  *)
(* (git.ts), the policy (policy.ts), the selector (selector.ts) and their  *)
(* composition (selectAffected, commands.ts).                              *)
(*                                                                         *)
(* A tree maps every path to its content, or to Absent.  Dependencies and  *)
(* test inventories are the other two axes of a selection; neither is      *)
(* configured here.                                                        *)
(***************************************************************************)
EXTENDS Blocks, Integers

CONSTANTS
  Path,      \* repo-relative paths git does not ignore
  Quoted,    \* those git lists in quotes, for a character in their names
  Folders,   \* directories, each as its paths, git may know no file of
  Absent,    \* the content of a path that is not there
  Unit,      \* test units
  TestOf,    \* the test file of each unit
  NoCommit   \* the commit of a map that names none

-----------------------------------------------------------------------------
(* diffChanges (git.ts): committed changes, then the work tree's.          *)

\* What one listing says of a path, if anything.
Kind(old, new) ==
  IF old = new THEN {}
  ELSE {IF old = Absent THEN "added" ELSE IF new = Absent THEN "deleted" ELSE "modified"}

\* A line of a listing names a path as it stands there: quotes are kept.
Name(f) == IF f \in Quoted THEN <<"quoted", f>> ELSE f

\* git status names a directory it knows no file of by one line, `?? dir/'.
Unknown(f, head) == UNION {D \in Folders : f \in D /\ \A g \in D : head[g] = Absent}
StatusName(f, head) ==
  IF f \in Unknown(f, head) THEN <<"folder", Unknown(f, head)>> ELSE Name(f)

\* The lines of git diff --name-status, and of git status --porcelain.
CommittedLines(from, head) ==
  UNION {{<<Name(f), kind>> : kind \in Kind(from[f], head[f])} : f \in Path}
WorkingLines(head, tree) ==
  UNION {{<<StatusName(f, head), kind>> : kind \in Kind(head[f], tree[f])} : f \in Path}

\* A name in several lines keeps the most inclusive kind (record).
Strongest(kinds) ==
  IF "added" \in kinds THEN "added"
  ELSE IF "modified" \in kinds THEN "modified" ELSE "deleted"

\* Every name listed, with its kind; from is the tree the diff starts at.
DiffChanges(from, head, tree) ==
  LET lines == CommittedLines(from, head) \cup WorkingLines(head, tree) IN
    [n \in {line[1] : line \in lines} |->
       Strongest({line[2] : line \in {l \in lines : l[1] = n}})]

\* Mutant: untracked files are not looked at.
IsDirtyTracked(head, tree) == \E f \in Path : head[f] # Absent /\ head[f] # tree[f]

\* isDirtyWorkTree: git status has something to say.
IsDirtyWorkTree(head, tree) == head # tree

-----------------------------------------------------------------------------
(* Discovery and configuration (discover.ts, config.ts).                   *)

DiscoverTestFiles(cfg, tree) ==
  {f \in cfg.testGlobs \ cfg.testIgnore : tree[f] # Absent}

\* makeSourceFilter: a covered path counts if it is a source and not a test.
IsSource(cfg, f) == f \in cfg.sourceGlobs \ cfg.testGlobs

\* recordedConfig: the fields whose values shape what a map means.
RecordedConfig(cfg) ==
  [sourceGlobs |-> cfg.sourceGlobs, testGlobs |-> cfg.testGlobs,
   testIgnore |-> cfg.testIgnore, granularity |-> cfg.granularity]

-----------------------------------------------------------------------------
(* The policy and the selector.  A map's entries are indexed by unit; an   *)
(* entry credits files, and for each of them a set of block hashes, empty  *)
(* when the recording has none for it.                                     *)

\* Mutant: what the recording could not see is read as covered by nothing.
FullRunForcedBlind(cfg, map, changes) ==
  \/ DOMAIN map.entries = {}
  \/ map.config # RecordedConfig(cfg)
  \/ DOMAIN changes \cap cfg.sentinels # {}

\* unobservedChange: ** matches whatever a listing names, src/** all directories
\* below src.
Observes(scope, n) ==
  \/ scope = Path
  \/ n \in Path \cap scope
  \/ \E D \in SUBSET (Path \cap scope) : n = <<"folder", D>>

\* FailOpenPolicy.evaluate
FullRunForced(cfg, map, changes) ==
  \/ DOMAIN map.entries = {}
  \/ map.config # RecordedConfig(cfg)
  \/ DOMAIN changes \cap cfg.sentinels # {}
  \/ \E n \in DOMAIN changes : ~Observes(map.observed, n)

\* FailOpenPolicy.mandatory: changed test files, whatever the map says.
Mandatory(cfg, changes) ==
  {f \in DOMAIN changes \cap cfg.testGlobs : changes[f] \in {"added", "modified"}}

\* annotateChangedBlocks: which changes are refined by blocks, and the hashes
\* recorded for a file that its current content no longer has.
RecordedHashes(map, f) == UNION {map.entries[u].blocks[f] : u \in DOMAIN map.entries}

Annotated(cfg, map, tree, f) ==
  /\ map.granularity = "block" /\ cfg.granularity # "file"
  /\ RecordedHashes(map, f) # {}
  /\ tree[f] # Absent

ChangedBlockHashes(map, tree, f) == RecordedHashes(map, f) \ BlockHashesOf(tree[f])

\* Mutant: any changed block of the file, not one the entry ran.
HitByAny(cfg, map, tree, u, f) ==
  ~Annotated(cfg, map, tree, f) \/ ChangedBlockHashes(map, tree, f) # {}

\* FileSelector.affected, for one file an entry credits and the diff names.
HitBy(cfg, map, tree, u, f) ==
  \/ ~Annotated(cfg, map, tree, f)
  \/ map.entries[u].blocks[f] = {}
  \/ map.entries[u].blocks[f] \cap ChangedBlockHashes(map, tree, f) # {}

Affected(cfg, map, changes, tree) ==
  {u \in DOMAIN map.entries :
     \E f \in map.entries[u].files \cap DOMAIN changes : HitBy(cfg, map, tree, u, f)}

MeasuredNothing(entry) == entry.files = {}

-----------------------------------------------------------------------------
(* selectAffected.                                                         *)

FullRun(cfg, tree) ==
  [fullRun |-> TRUE, files |-> DiscoverTestFiles(cfg, tree), units |-> {}]

\* Test files that run whole: changed, declared, unmapped, or unmeasured.
WholeFiles(cfg, map, changes, tree) ==
  LET suite == DiscoverTestFiles(cfg, tree) IN
    (Mandatory(cfg, changes) \cap suite)
    \cup (suite \cap cfg.alwaysRun)
    \cup {f \in suite : \A u \in DOMAIN map.entries : TestOf[u] # f}
    \cup {f \in suite : \E u \in DOMAIN map.entries :
                          TestOf[u] = f /\ MeasuredNothing(map.entries[u])}

\* Units of files in the suite that do not run whole anyway.
Selected(cfg, map, changes, tree) ==
  LET whole == WholeFiles(cfg, map, changes, tree) IN
    [fullRun |-> FALSE,
     files |-> whole,
     units |-> {u \in Affected(cfg, map, changes, tree) :
                  TestOf[u] \in DiscoverTestFiles(cfg, tree) \ whole}]

\* The choice between the two, given the tree the diff starts at.
SelectFrom(cfg, map, from, head, tree) ==
  LET changes == DiffChanges(from, head, tree) IN
    IF FullRunForced(cfg, map, changes) THEN FullRun(cfg, tree)
    ELSE Selected(cfg, map, changes, tree)

\* diffBase without --since: the map's own commit, which this checkout must have.
Trusted(map, present) == map.commit \in present

\* Whether a selection skips a unit.
Skips(sel, u) == ~sel.fullRun /\ TestOf[u] \notin sel.files /\ u \notin sel.units
=============================================================================
