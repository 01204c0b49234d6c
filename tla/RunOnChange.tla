---------------------------- MODULE RunOnChange ----------------------------
(***************************************************************************)
(* What a watch loop promises its caller, with no timer, no batch and no   *)
(* platform: packages/core/src/watch.ts, the contract stated over          *)
(* watchAffected.  A live loop that knows of unseen changes looks at all   *)
(* of them together, one look at a time; once it is stopped it lets the    *)
(* look in flight end, starts no other, and resolves.                      *)
(***************************************************************************)
CONSTANT Tracked     \* paths a selection would act on

VARIABLES
  mode,      \* live, then stopped, then resolved
  inFlight,  \* a selection and its run are going on
  unseen     \* tracked paths changed since the last look

vars == <<mode, inFlight, unseen>>

Init == mode = "live" /\ inFlight = FALSE /\ unseen = {}

Change ==
  /\ mode # "resolved"
  /\ \E p \in Tracked : unseen' = unseen \cup {p}
  /\ UNCHANGED <<mode, inFlight>>

Begin ==
  /\ mode = "live" /\ ~inFlight
  /\ inFlight' = TRUE
  /\ UNCHANGED <<mode, unseen>>

Look ==
  /\ inFlight
  /\ unseen' = {}
  /\ UNCHANGED <<mode, inFlight>>

End ==
  /\ inFlight
  /\ inFlight' = FALSE
  /\ UNCHANGED <<mode, unseen>>

Stop ==
  /\ mode = "live"
  /\ mode' = "stopped"
  /\ UNCHANGED <<inFlight, unseen>>

\* From live: the watcher could not be established, or nobody wanted it.
Resolve ==
  /\ mode # "resolved" /\ ~inFlight
  /\ mode' = "resolved"
  /\ UNCHANGED <<inFlight, unseen>>

Next == Change \/ Begin \/ Look \/ End \/ Stop \/ Resolve

Fairness ==
  /\ WF_vars(unseen # {} /\ Begin)
  /\ WF_vars(Look)
  /\ WF_vars(End)
  /\ WF_vars(mode = "stopped" /\ Resolve)

Spec == Init /\ [][Next]_vars /\ Fairness
=============================================================================
