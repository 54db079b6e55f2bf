----------------------------- MODULE PhaseContract -----------------------------
(***************************************************************************)
(* What the reconcile loop takes for granted of a phase when it treats a   *)
(* run of its script as one step: an install never takes away, a teardown  *)
(* never builds, either of them ends well only when it is done, and to     *)
(* tear down what is not there is an error.                                *)
(* Terminating namespaces, the garbage collector and the controllers that  *)
(* provide what is awaited do not show.                                    *)
(***************************************************************************)
EXTENDS PhaseLevels

VARIABLES
  doing,    \* what the worker does with the phase
  level,    \* how much of what it installs is there to stay
  outcome,  \* how the last run ended
  found     \* there was something to take down

vars == <<doing, level, outcome, found>>

Init == doing = "rest" /\ level = "none" /\ outcome = "nothing" /\ found = TRUE

StartInstall ==
  /\ doing = "rest"
  /\ doing' = "install"
  /\ UNCHANGED <<level, outcome, found>>

(* Passes build on what the passes before them have left.                  *)
Build ==
  /\ doing = "install"
  /\ level' \in AtLeast(level)
  /\ UNCHANGED <<doing, outcome, found>>

Installed ==
  /\ doing = "install"
  /\ level = "full"
  /\ doing' = "rest" /\ outcome' = "installed"
  /\ UNCHANGED <<level, found>>

(* The Workshop may be deleted between two passes.                         *)
StartTeardown ==
  /\ doing \in {"rest", "install"}
  /\ doing' = "teardown"
  /\ found' = (level # "none")
  /\ UNCHANGED <<level, outcome>>

(* The process dies, and comes back to what it has left.                   *)
Restart ==
  /\ doing = "teardown"
  /\ found' = (level # "none")
  /\ UNCHANGED <<doing, level, outcome>>

TakeDown ==
  /\ doing = "teardown"
  /\ level' \in AtMost(level)
  /\ UNCHANGED <<doing, outcome, found>>

Removed ==
  /\ doing = "teardown"
  /\ found
  /\ level = "none"
  /\ doing' = "rest" /\ outcome' = "removed"
  /\ UNCHANGED <<level, found>>

(* A teardown that fails is given up where it is.                          *)
GiveUp ==
  /\ doing = "teardown"
  /\ level' \in AtMost(level)
  /\ doing' = "rest" /\ outcome' \in {"failed", "notFound"}
  /\ UNCHANGED found

Next ==
  \/ StartInstall
  \/ Build
  \/ Installed
  \/ StartTeardown
  \/ Restart
  \/ TakeDown
  \/ Removed
  \/ GiveUp

Spec == Init /\ [][Next]_vars
=============================================================================
