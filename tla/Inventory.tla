----------------------------- MODULE Inventory -----------------------------
(***************************************************************************)
(* The packages that are installed, as a recording and a later selection   *)
(* read them: readInstalledInventory (inventory.ts) and what may be        *)
(* concluded from two readings (dependencies.ts).                          *)
(*                                                                         *)
(* A node_modules holds links, [from, name, to]: the importer or the store *)
(* entry it belongs to, the name a specifier resolves by, and the store    *)
(* entry, or the workspace package, that is loaded.  An installed tree is  *)
(*   managers  whose install markers are there                             *)
(*   marker    what pnpm's marker says: the lockfile it installed          *)
(*   links     the links that are reached from the importers, and others   *)
(*   store     whether packages sit in a store, or flat in node_modules    *)
(***************************************************************************)
EXTENDS Naturals, FiniteSets

CONSTANTS
  Importer,     \* directories with a node_modules of their own; the first is the root
  Entry,        \* entries of the store
  NameOf,       \* the package each entry holds
  Pinned,       \* entries whose name says what is in them (not file:, link:)
  Observable,   \* entries that declare a version and ship JavaScript
  NoDependencies

ASSUME InventoryAssumption ==
  /\ Importer \cap Entry = {}
  /\ Pinned \subseteq Entry /\ Observable \subseteq Entry

Link(from, name, to) == [from |-> from, name |-> name, to |-> to]

\* A store entry holds the package beside the packages it depends on.
Siblings(links) == links \cup {Link(e, NameOf[e], e) : e \in Entry}

\* What is reached from some node_modules over links: the least set that has
\* them and what each of its own leads to.
ReachedFrom(start, links) ==
  LET places == start \cup {l.to : l \in links}
      Closed(s) == start \subseteq s /\ \A l \in links : l.from \in s => l.to \in s
  IN  {p \in places : \A s \in SUBSET places : Closed(s) => p \in s}

\* The node_modules that are walked: nothing leads to what the store forgot to prune.
PackageDirs(links) == ReachedFrom(Importer, links)

\* The link leads to the package that its name says, so coverage can name it too.
SurvivesResolution(l) == l.to \in Entry /\ NameOf[l.to] = l.name

IdentityOf(l) == l.to \in Pinned

Vouched(links) ==
  LET walked == PackageDirs(links) IN
    {l \in Siblings(links) :
       /\ l.from \in walked
       /\ SurvivesResolution(l)
       /\ l.to \in Observable
       /\ IdentityOf(l) /\ l.from \in Pinned \cup Importer}

\* Mutant: which copies there are, not who gets which.
EdgesByCopy(links, name) == {l.to : l \in {k \in Vouched(links) : k.name = name}}

\* An entry's link to itself is kept only where no other names the copy.
Edges(links, name) ==
  LET edges == {l \in Vouched(links) : l.name = name} IN
    {l \in edges : l.from = l.to => \A k \in edges : k.to = l.to => k.from = k.to}

\* Flat layouts give a package no identity; two markers prove nothing.
ReadInstalledInventory(installed) ==
  LET names == IF installed.store THEN {l.name : l \in Vouched(installed.links)} ELSE {} IN
    IF Cardinality(installed.managers) # 1 \/ names = {} THEN NoDependencies
    ELSE [manager |-> CHOOSE m \in installed.managers : TRUE,
          marker |-> installed.marker,
          inventory |-> [n \in names |-> Edges(installed.links, n)]]

-----------------------------------------------------------------------------
\* Mutant: a tree that shows a difference is read without the proof.
TreeIsTaken(deps, installed, lockfile) == deps.manager = "pnpm"

\* Only pnpm's marker is a copy of the lockfile.
TreeIsProvablyCurrent(deps, installed, lockfile) ==
  deps.manager = "pnpm" /\ "pnpm" \in installed.managers /\ installed.marker = lockfile

ChangedPackages(before, after) ==
  {n \in DOMAIN before \cup DOMAIN after :
     n \in DOMAIN before \cap DOMAIN after => before[n] # after[n]}
-----------------------------------------------------------------------------
\* What code of the root that uses some packages is given for their names, and
\* what these are given in turn.
Resolved(links, root, names) ==
  LET used == {l \in links : l.name \in names}
      reached == ReachedFrom({root}, used)
  IN  {l \in used : l.from \in reached}
=============================================================================
