--------------------------- MODULE MCBoundaryServer ---------------------------
(* Model values of BoundaryServer for TLC; see the README for the bounds.  *)
EXTENDS BoundaryServer

Waiting == {TRUE}
AnyHarness == BOOLEAN
AnyOutcome == {"passed", "failed", "skipped"}
=============================================================================
