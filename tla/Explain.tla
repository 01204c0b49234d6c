------------------------------ MODULE Explain ------------------------------
(***************************************************************************)
(* covsel explain: the coverage map read in the other direction, for a     *)
(* path (explainPath, commands.ts).  It says what covers a file, and each  *)
(* of its blocks as they now are, what runs whenever, and which changes    *)
(* force a full run; selectAffected is what decides, from its own reading. *)
(***************************************************************************)
EXTENDS CoverageMap

\* Units whose entry credits the file, and those that name no block of it.
CoveredBy(f) ==
  {u \in DOMAIN store.entries : f \in store.entries[u].files \/ store.entries[u].blocks[f] # {}}
FileOnly(f) == {u \in CoveredBy(f) : store.entries[u].blocks[f] = {}}

Ran(f, hash) == {u \in DOMAIN store.entries : hash \in store.entries[u].blocks[f]}

\* A file's blocks are explained when some entry names one and it can be read.
HasBlockDetail(f) ==
  store.granularity = "block" /\ RecordedHashes(store, f) # {} /\ tree[f] # Absent

\* A unit that ran the module block ran the load block too.
RanBlock(f, b) ==
  Ran(f, Hash(b, tree[f]))
  \cup (IF b = LOAD_BLOCK THEN Ran(f, Hash(MODULE_BLOCK, tree[f])) ELSE {})

\* Mutant: blocks that have changed since the recording account for nothing.
VerdictUndrifted(f, b) ==
  CASE RanBlock(f, b) # {} -> "covered"
    [] FileOnly(f) # {} -> "file-level"
    [] OTHER -> "uncovered"

Verdict(f, b) ==
  CASE RanBlock(f, b) # {} -> "covered"
    [] RanBlock(f, b) = {} /\ FileOnly(f) # {} -> "file-level"
    [] RanBlock(f, b) = {} /\ FileOnly(f) = {} /\ ChangedBlockHashes(store, tree, f) # {} -> "unmatched"
    [] OTHER -> "uncovered"

\* What runs at every selection: tests without an entry, with an empty one, or
\* declared to.
Unrecorded(f) == \A u \in DOMAIN store.entries : TestOf[u] # f
Unmeasured(f) == \E u \in DOMAIN store.entries : TestOf[u] = f /\ MeasuredNothing(store.entries[u])
RunsAlways(f) == f \in config.alwaysRun \/ Unrecorded(f) \/ Unmeasured(f)

\* fullRunTrigger of a path that is no configuration, and `observed'.
ForcesFullRun(f) == f \in config.sentinels \/ ~Observes(store.observed, f)

-----------------------------------------------------------------------------
(* What is explained of a file, and what selection does once it is edited.  *)

SelectOn(disk) == SelectFrom(config, store, history[store.commit].tree, HeadTree, disk)

HitOn(disk, f) ==
  {u \in DOMAIN store.entries : f \in store.entries[u].files /\ HitBy(config, store, disk, u, f)}

\* The blocks that an edit of a file moves.
MovedBy(f, content) == {b \in Block : Hash(b, content) # Hash(b, tree[f])}

SourceForetold(f, content) ==
  LET moved == MovedBy(f, content)
      hit == HitOn([tree EXCEPT ![f] = content], f)
      said == {Verdict(f, b) : b \in moved}
  IN  IF HasBlockDetail(f)
      THEN /\ moved # {} /\ said = {"uncovered"} => hit = {}
           /\ "file-level" \in said => FileOnly(f) \subseteq hit
      ELSE IF tree[f] # Absent THEN hit = CoveredBy(f)
      ELSE hit \subseteq CoveredBy(f) /\ HitOn(tree, f) = CoveredBy(f)

\* Explain foretells selection.  Once a file is edited, or while it is gone, the
\* tests that explain says cover it are selected; of a block it calls `uncovered' an edit selects
\* none; what it says always runs does; and what it says forces a full run does
\* so (commands.ts:1630-1643, explain may not answer from its own copy).
ExplainForetells ==
  Usable /\ phase = "idle" /\ Trusted(store, present) /\ store.config = RecordedConfig(config) =>
    \A f \in Path :
      /\ RunsAlways(f) /\ f \in DiscoverTestFiles(config, tree) => Select.fullRun \/ f \in Select.files
      /\ \A content \in Contents[f] \ {Absent, tree[f]} :
           /\ IsSource(config, f) => SourceForetold(f, content)
           /\ ForcesFullRun(f) /\ content # history[store.commit].tree[f] =>
                SelectOn([tree EXCEPT ![f] = content]).fullRun
=============================================================================
