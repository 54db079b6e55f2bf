---------------------------- MODULE MCRolloutScripts ----------------------------
(* The same, with what the theorems of Rollout_proofs ask of a script      *)
(* evaluated on the scripts of the code.                                   *)
EXTENDS MCRollout

(* AnchoredPhases, OrderlyPhases and CoveredPhases are what their names    *)
(* say, so InstalledIsThere, OrderlyTeardownEnds and RemovedIsGone apply.  *)
ASSUME ScriptsAreSound ==
  /\ \A r \in AnchoredRollouts : Anchored(r)
  /\ \A r \in OrderlyRollouts : Orderly(r)
  /\ \A r \in CoveredRollouts : Covered(r)
=============================================================================
