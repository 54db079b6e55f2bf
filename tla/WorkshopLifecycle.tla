--------------------------- MODULE WorkshopLifecycle ---------------------------
(***************************************************************************)
(* What the operator promises about one Workshop and the things built for  *)
(* it, with no cache, queue or phases: the finalizer is on the object      *)
(* before anything is built, stays until the operator lets the object go,  *)
(* and nothing that was built is taken away from a Workshop in service.    *)
(***************************************************************************)

VARIABLES
  stage,   \* the Workshop object at the API server
  built    \* something of what the operator installs exists

vars == <<stage, built>>

(* declared: no finalizer yet; guarded: in service, with the finalizer;    *)
(* terminating: with the finalizer and a deletion mark.                    *)
Stages == {"absent", "declared", "guarded", "terminating"}

Init == stage = "absent" /\ built = FALSE

Move(from, to) == stage = from /\ stage' = to /\ UNCHANGED built

Declare == Move("absent", "declared")
Withdraw == Move("declared", "absent")
Guard == Move("declared", "guarded")
Terminate == Move("guarded", "terminating")
Release == Move("terminating", "absent")

(* Something is built while the finalizer is on the object, which may have *)
(* been marked for deletion since the pass began.                          *)
Build ==
  /\ stage \in {"guarded", "terminating"}
  /\ built' = TRUE
  /\ UNCHANGED stage

(* The last of it goes, never under a Workshop in service.  A pass started *)
(* from a stale cache may do so after the object itself has gone.          *)
CleanUp ==
  /\ stage # "guarded"
  /\ built' = FALSE
  /\ UNCHANGED stage

Next ==
  \/ Declare
  \/ Withdraw
  \/ Guard
  \/ Terminate
  \/ Release
  \/ Build
  \/ CleanUp

Spec == Init /\ [][Next]_vars
=============================================================================
