---------------------------- MODULE MCReproduce ----------------------------
(***************************************************************************)
(* Two routes, one without adversaries, three runs of which two may be     *)
(* interrupted, and one update of the parameters: enough for a folder that *)
(* is half generated or half removed by one run, evaluated by the next and *)
(* completed by the third.                                                 *)
(***************************************************************************)
EXTENDS Reproduce

MCPairs == {FP}

\* All stages, and the choices the warnings of the script suggest.
MCStageSets == {
  {"table2", "scenarios", "detection", "figure7", "figures", "figure4",
   "fingerprint", "blocks"},
  {"detection"}, {"scenarios", "detection"}, {"figure7"}, {"fingerprint"}}

=============================================================================
