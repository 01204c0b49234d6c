----------------------------- MODULE MCPerTest -----------------------------
(* Values for checking PerTest with TLC: two tests, and harnesses that leave  *)
(* a process with their output open, or one that has closed it, and that end  *)
(* on a signal or ignore it.                                                  *)
EXTENDS PerTest, TLC
CONSTANTS t1, t2, a, b, c

MCOrder == <<t1, t2>>
MCPrompt == t1 :> {a} @@ t2 :> {b}
MCLate == t1 :> {c} @@ t2 :> {}
Process(is, holds) == [is : {is}, grouped : {TRUE}, holds : holds, obeys : BOOLEAN]
MCHarnesses ==
  {{p} : p \in Process(Child, {TRUE})}
  \cup {{p, q} : p \in Process(Child, {TRUE}), q \in Process(Other, BOOLEAN)}
=============================================================================
