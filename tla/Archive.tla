------------------------------ MODULE Archive ------------------------------
(***************************************************************************)
(* A directory of coverage maps, each in a file named after the instant it *)
(* was recorded and the commit it is of (archive.ts).  An archive maps the *)
(* names of its files, [at, commit], to a map or to Torn.                  *)
(***************************************************************************)
EXTENDS Naturals, Sequences, FiniteSets, FiniteSetsExt, SequencesExt

CONSTANTS
  Earlier(_, _),   \* an order of the commits, to break ties by
  Torn,            \* a file that is not a usable map: cut off, or of another schema
  NoMap, NoCommit

ASSUME ArchiveAssumption == Torn # NoMap

ArchiveName(map) == [at |-> map.at, commit |-> map.commit]

ByNewest(m, n) == m.at > n.at \/ (m.at = n.at /\ Earlier(m.commit, n.commit))

\* listArchive: every file with a name of an archive, whatever is in it.
ListArchive(archive) == SetToSortSeq(DOMAIN archive, ByNewest)

\* Mutant: a map is replaced where it is written over.
ReplacedByName(archive, map) == DOMAIN archive \cap {ArchiveName(map)}

\* What publishMap removes first: the files of the same commit.
Superseded(archive, map) == {n \in DOMAIN archive : n.commit = map.commit}

\* The files that at least keep newer ones come before.
Oldest(names, keep) == {n \in names : Cardinality({m \in names : ByNewest(m, n)}) >= keep}

\* Mutant: only usable maps are counted.
StaleUsable(archive, keep) == Oldest({n \in DOMAIN archive : archive[n] # Torn}, keep)

\* What it prunes last: all but the newest.
Stale(archive, keep) == Oldest(DOMAIN archive, keep)

Refused(map) == map \in {NoMap, Torn} \/ map.commit = NoCommit

\* readArchivedMap: NoMap for a file that is gone, torn, or of another commit.
ReadArchivedMap(archive, name) ==
  IF name \in DOMAIN archive /\ archive[name] # Torn /\ archive[name].commit = name.commit
  THEN archive[name] ELSE NoMap

\* chooseArchivedMap, and again without a file that turns out to be unusable: the
\* ancestors of HEAD, then the other commits that are there, each newest first.
ChooseArchivedMap(candidates, has, ancestors) ==
  LET present == SelectSeq(candidates, LAMBDA n : n.commit \in has)
  IN  SelectSeq(present, LAMBDA n : n.commit \in ancestors)
      \o SelectSeq(present, LAMBDA n : n.commit \notin ancestors)
=============================================================================
