---------------------------- MODULE WorkshopPhases ----------------------------
(***************************************************************************)
(* The thirteen component phases of Reconcile and handleDelete, as the     *)
(* reconcile loop sees them: their order, what switches each one on, which *)
(* of them can ask to be run again or fail again, and how their teardowns  *)
(* differ.                                                                 *)
(***************************************************************************)

(* Reconcile installs in this order, and handleDelete tears down in the    *)
(* same order, not in the reverse one.                                     *)
PhaseOrder ==
  <<"User", "Portal", "Project", "Bookbag", "Nexus", "Gitea", "Pipelines",
    "GitOps", "CodeReady", "ServiceMesh", "Serverless", "Vault", "CertManager">>

PhaseNames ==
  {"User", "Portal", "Project", "Bookbag", "Nexus", "Gitea", "Pipelines",
   "GitOps", "CodeReady", "ServiceMesh", "Serverless", "Vault", "CertManager"}

(* Users and the portal have no switch.                                    *)
AlwaysRun == {"User", "Portal"}

(* Every other phase has a switch of its own in spec.infrastructure; the   *)
(* service mesh is also installed for Serverless, which needs it.          *)
SwitchesOf(p) ==
  CASE p \in AlwaysRun     -> {}
    [] p = "ServiceMesh"   -> {"ServiceMesh", "Serverless"}
    [] OTHER               -> {p}

(* The phases that return a result with Requeue set: they wait for an      *)
(* install plan or for a deployment.                                       *)
Waiting ==
  {"Nexus", "Gitea", "Pipelines", "GitOps", "CodeReady", "ServiceMesh", "CertManager"}

(* reconcileUser deletes the users the spec no longer asks for, and stops  *)
(* at the first part of one that is not there; addGitOps makes roles in    *)
(* projects that may not exist.                                            *)
FailingAgain == {"User", "GitOps"}

(* deleteProject looks for the first namespace that does not exist and     *)
(* stops there without an error; every other teardown deletes what it      *)
(* expects to find, and a Delete that finds nothing is an error.           *)
ToleratesNothing == {"Project"}

(* Teardowns that list or get first and delete only what that shows.       *)
LeavingThings == {"User", "Portal", "Project", "Vault"}

(* deleteProject counts up from 1 and has no end of its own: with projects *)
(* on and no staging name it deletes nothing and meets no error.           *)
NeverReturning == {"Project"}
=============================================================================
