------------------------------ MODULE Runners ------------------------------
(***************************************************************************)
(* How a selection is handed to a test runner, and a recording taken from  *)
(* it: the adapters, and runSelected and runAffectedSelection              *)
(* (commands.ts) above them.                                               *)
(*                                                                         *)
(* A selection names test files, and units by their titles.  An adapter is *)
(*   "file"     vitest, jest, generic: whole files, one recording for each *)
(*   "name"     mocha, cucumber: a pattern of exact titles                 *)
(*   "suffix"   Playwright: a pattern that a title may end in              *)
(*   "node"     node:test: exact titles, files running whole included      *)
(*   "harness"  ids, which are the files here, in a template of the project*)
(***************************************************************************)
EXTENDS Naturals, Sequences, FiniteSets, SequencesExt

CONSTANTS
  File,      \* test files
  Unit,      \* tests in them
  FileOf, TitleOf,
  EndsIn     \* <<title, name>>: the title a runner composes ends in the name

ASSUME RunnersAssumption ==
  /\ File \cap Unit = {}
  /\ FileOf \in [Unit -> File] /\ \A u \in Unit : <<TitleOf[u], TitleOf[u]>> \in EndsIn

\* The file of a recorded unit, which is a file, or a test.
Holder(key) == IF key \in File THEN key ELSE FileOf[key]

-----------------------------------------------------------------------------
\* An invocation: files, and titles to narrow them by unless it is Unfiltered.
Unfiltered == {"every title"}
Invocation(files, titles) == [files |-> files, titles |-> titles]

Matches(adapter, title, names) ==
  IF adapter = "suffix" THEN \E n \in names : <<title, n>> \in EndsIn ELSE title \in names

\* The tests an invocation runs.
Runs(adapter, inv) ==
  {u \in Unit : /\ FileOf[u] \in inv.files
                /\ inv.titles = Unfiltered \/ Matches(adapter, TitleOf[u], inv.titles)}

Whole(selected) == selected \cap File
Named(selected) == {FileOf[u] : u \in selected \cap Unit}
Titles(selected) == {TitleOf[u] : u \in selected \cap Unit}

\* formatSelection, appended to the command: the files, each of them once.
FormatSelection(selected) ==
  IF selected = {} THEN <<>> ELSE <<Invocation({Holder(k) : k \in selected}, Unfiltered)>>

\* Whole files first, then those with named tests, with one pattern for them all.
InTwo(whole, named, titles) ==
  LET unlessEmpty(inv) == IF inv.files = {} THEN <<>> ELSE <<inv>>
  IN  unlessEmpty(Invocation(whole, Unfiltered)) \o unlessEmpty(Invocation(named, titles))

\* mocha and cucumber, and Playwright: a file that runs whole is not filtered too.
RunMochaSelection(selected) ==
  InTwo(Whole(selected), Named(selected) \ Whole(selected), Titles(selected))

RunNodeTestSelection(selected) == InTwo(Whole(selected), Named(selected), Titles(selected))

RunSelection(adapter, selected) ==
  CASE adapter \in {"file", "harness"} -> FormatSelection(selected)
    [] adapter \in {"name", "suffix"} -> RunMochaSelection(selected)
    [] adapter = "node" -> RunNodeTestSelection(selected)

\* Mutant: the status of the last invocation is the status of the run.
LastStatus(statuses) == IF statuses = <<>> THEN 0 ELSE Last(statuses)

\* The last status that is not 0.
WorstStatus(statuses) ==
  LET failed == {i \in DOMAIN statuses : statuses[i] # 0} IN
    IF failed = {} THEN 0 ELSE statuses[CHOOSE i \in failed : \A k \in failed : k <= i]

\* One invocation: 1 when a test it runs fails.
Status(adapter, inv, failing) == IF Runs(adapter, inv) \cap failing = {} THEN 0 ELSE 1

\* runSelected: an empty selection invokes nothing.
RunSelected(adapter, selected, failing) ==
  LET invs == RunSelection(adapter, selected)
  IN  WorstStatus([i \in DOMAIN invs |-> Status(adapter, invs[i], failing)])

\* runAffectedSelection: a full run is the command as it is.
RunAffectedSelection(adapter, sel, failing) ==
  IF sel.fullRun THEN Status(adapter, Invocation(File, Unfiltered), failing)
  ELSE RunSelected(adapter, sel.selected, failing)

-----------------------------------------------------------------------------
\* record: one run a file, or recordRun, Playwright's: one run for them all.
\* Nothing is recorded when one of them fails.
RecordFails(adapter, files, failing) ==
  LET runs == IF adapter = "suffix" THEN {files} ELSE {{f} : f \in files}
  IN  \E r \in runs : Status(adapter, Invocation(r, Unfiltered), failing) # 0

\* A unit for the file, with all that its run reports, and a unit for each test,
\* with what its window does.
FileUnit(f, reads) == [k \in {f} |-> UNION {reads[u] : u \in {v \in Unit : FileOf[v] = f}}]
TestUnits(f, reads) == [u \in {v \in Unit : FileOf[v] = f} |-> reads[u]]

RecordFiles(adapter, files, reads) ==
  LET units == {IF adapter \in {"file", "harness"} THEN FileUnit(f, reads) ELSE TestUnits(f, reads) : f \in files}
  IN  [k \in UNION {DOMAIN e : e \in units} |-> (CHOOSE e \in units : k \in DOMAIN e)[k]]
=============================================================================
