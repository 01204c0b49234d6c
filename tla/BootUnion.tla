----------------------------- MODULE BootUnion -----------------------------
(***************************************************************************)
(* What a window's dump says on top of the boot dump                       *)
(* (boot-delta-coverage.ts), and what two snapshots of precise coverage    *)
(* say of the test between them (inspector-observer.ts).                   *)
(*                                                                         *)
(* A report of one script is a function from spans of it, <<start, end>>,  *)
(* to execution counts; which functions its spans belong to is kept apart  *)
(* where it matters.  A set of scripts is a function from urls to reports. *)
(***************************************************************************)
EXTENDS Integers, FiniteSets, FiniteSetsExt, Functions

Unknown == -1

Width(span) == span[2] - span[1]
Contains(outer, inner) == outer[1] <= inner[1] /\ inner[2] <= outer[2]
Narrowest(spans) == CHOOSE s \in spans : \A t \in spans : Width(s) <= Width(t)

\* The count of the narrowest range of the delta around a span it has no range for.
EnclosingDeltaCount(delta, span) ==
  LET around == {s \in DOMAIN delta : Contains(s, span) /\ s # span}
  IN  IF around = {} THEN Unknown ELSE delta[Narrowest(around)]

\* Mutant: a range the delta has no count for keeps the count of the boot.
CountFlat(boot, delta, span) == IF span \in DOMAIN delta THEN delta[span] ELSE boot[span]

\* The count of one range of the boot in the merged script.
Count(boot, delta, span) ==
  IF span \in DOMAIN delta THEN delta[span]
  ELSE Max({EnclosingDeltaCount(delta, span), boot[span]})

\* Every range of the boot, and the ranges only the delta has.
MergeScript(boot, delta) ==
  [s \in DOMAIN boot \cup DOMAIN delta |->
     IF s \in DOMAIN boot THEN Count(boot, delta, s) ELSE delta[s]]

UnionWithBoot(boot, delta) ==
  [url \in DOMAIN boot \cup DOMAIN delta |->
     CASE url \notin DOMAIN delta -> boot[url]
       [] url \notin DOMAIN boot -> delta[url]
       [] OTHER -> MergeScript(boot[url], delta[url])]

\* Mutant: a range that was not found had not run.
DeltaScriptUnfound(before, found, after, functionOf) ==
  LET grown == [s \in DOMAIN after |-> IF s \in found THEN after[s] - before[s] ELSE 0]
  IN  Restrict(grown, {s \in DOMAIN grown :
                         \E t \in DOMAIN grown : functionOf[t] = functionOf[s] /\ grown[t] > 0})

\* By how much each count grew; a range that the index of its function did not
\* lead to counts in full.  A function none of whose ranges ran is left out.
DeltaScript(before, found, after, functionOf) ==
  LET grown == [s \in DOMAIN after |-> after[s] - (IF s \in found THEN before[s] ELSE 0)]
  IN  Restrict(grown, {s \in DOMAIN grown :
                         \E t \in DOMAIN grown : functionOf[t] = functionOf[s] /\ grown[t] > 0})
-----------------------------------------------------------------------------
\* Whether a report says that code ran: the narrowest range around it did.
Tells(span, report) ==
  LET around == {s \in DOMAIN report : Contains(s, span)}
  IN  around # {} /\ report[Narrowest(around)] > 0
=============================================================================
