--------------------------- MODULE MCCoverageMap ---------------------------
(* Values for checking CoverageMap with TLC: a source a with a declared      *)
(* function f and one, g, in a top-level initialiser, a source b that a      *)
(* loads once it is edited to import it, two test files (one may go) and a   *)
(* sentinel.  The edits of a are one to each of its parts.                   *)
EXTENDS Explain, TLC
CONSTANTS a, b, t1, t2, pkg, f, g, called, loaded, other

MCPath == {a, b, t1, t2, pkg}
\* a has a name git quotes, as src/my file.ts.
MCQuoted == {a}
\* b is alone in its directory: deleted and committed, then written anew, git
\* status lists the directory.
BMayBeNew == {{b}}
MCUnit == {called, loaded, other}
MCTestOf == called :> t1 @@ loaded :> t1 @@ other :> t2

Base == [p \in Part |-> 0]
Edited(p) == [Base EXCEPT ![p] = 1]
\* Edits to the parts of a and to the files around it.
CodeEdits == a :> ({Base, Absent} \cup {Edited(p) : p \in {"load", "decl", f, g}})
             @@ b :> {Base} @@ t1 :> {Base, Edited("load")}
             @@ t2 :> {Base} @@ pkg :> {Base}
OtherEdits == a :> {Base, Edited(f), Edited("decl")} @@ b :> {Base, Edited("decl"), [Base EXCEPT !["decl"] = 2], Absent} @@ t1 :> {Base}
              @@ t2 :> {Base, Absent} @@ pkg :> {Base, Edited("load")}
\* The white space edits alone.
Spacing == a :> {Base, Edited("literal"), Edited("lines")}
           @@ b :> {Base} @@ t1 :> {Base} @@ t2 :> {Base} @@ pkg :> {Base}
\* A sentinel that comes and goes, alone in its directory.
NewSentinel == {{pkg}}
SentinelEdits == [CodeEdits EXCEPT ![pkg] = {Base, Absent}]

\* called calls f of a, loaded only imports a, other calls g of b.
MCLoads(u, t) ==
  {h \in IF u = other THEN {b}
         ELSE IF t[a] # Absent /\ t[a]["load"] = 1 THEN {a, b} ELSE {a} : t[h] # Absent}
MCCalls(u, t, h) ==
  CASE u = called /\ h = a -> {f}
    [] u = other /\ h = b -> {g}
    [] OTHER -> {}

Cfg == [sourceGlobs |-> {a, b}, testGlobs |-> {t1, t2}, testIgnore |-> {},
        granularity |-> "block", alwaysRun |-> {}, sentinels |-> {pkg}]
OneConfig == {Cfg}
MCConfigs == {Cfg, [Cfg EXCEPT !.sourceGlobs = {a}, !.granularity = "file",
                               !.alwaysRun = {t2}, !.sentinels = {}]}

Everything == [u \in MCUnit |-> {MCPath}]
\* A recorder that sees no blocks in an importer.
SomeBlocks == {called, other}
\* All but the sentinel; t2 may be watched for less, or claim more.
Narrow == {a, b, t1, t2}
SomeNarrow == called :> {Narrow} @@ loaded :> {Narrow} @@ other :> {Narrow, {a}, MCPath}
=============================================================================
