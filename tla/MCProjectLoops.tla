----------------------------- MODULE MCProjectLoops -----------------------------
(* Numbers of users for TLC: out of range, one, two.                       *)
EXTENDS ProjectLoops

UpToTwo == {-1, 0, 1, 2}
=============================================================================
