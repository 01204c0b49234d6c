------------------------------ MODULE MCWatch ------------------------------
(* Values for checking Watch with TLC: one source file, one file git        *)
(* ignores (what a run writes) and one in the store (what a recording       *)
(* writes).                                                                 *)
EXTENDS Watch
CONSTANTS src, out, map
MCPath == {src, out, map}
MCNoise == {map}
MCIgnored == {out}
MCArtifacts == {out, map}
=============================================================================
