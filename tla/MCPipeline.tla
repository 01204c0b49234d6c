----------------------------- MODULE MCPipeline -----------------------------
(* Values for checking Pipeline with TLC: a commit, one after it that breaks  *)
(* a test, and one on a branch; two test files with two tests each.           *)
EXTENDS Pipeline, TLC
CONSTANTS c1, c2, c3, F, G, u1, u2, u3, u4, s1, s2, j1, j2

MCCommit == {c1, c2, c3}
MCAncestors == c1 :> {c1} @@ c2 :> {c1, c2} @@ c3 :> {c1, c3}
MCEarlier(c, d) == <<c, d>> \in {<<c1, c2>>, <<c1, c3>>, <<c2, c3>>}
MCFileOf == u1 :> F @@ u2 :> F @@ u3 :> G @@ u4 :> G
MCTitleOf == u1 :> "n" @@ u2 :> "m" @@ u3 :> "n" @@ u4 :> "m n"
MCEndsIn == {<<x, x>> : x \in {"n", "m", "m n"}} \cup {<<"m n", "n">>}
MCReads == u1 :> {} @@ u2 :> {s2} @@ u3 :> {s1, s2} @@ u4 :> {s2}
Base == [p \in {s1, s2, F, G} |-> 1]
MCTree == c1 :> Base @@ c2 :> [Base EXCEPT ![s1] = 2, ![F] = 2] @@ c3 :> [Base EXCEPT ![s2] = 2]
MCBreaks == {<<u1, F, 2>>, <<u2, s2, 2>>, <<u3, s2, 2>>}
MCParts == {{F}, {G}}
MCAdapters == {"file", "name", "suffix", "node", "harness"}
MCMaxPublishes == [a \in MCAdapters |-> IF a = "name" THEN 2 ELSE 1]
Jobs == Permutations(Job)
=============================================================================
