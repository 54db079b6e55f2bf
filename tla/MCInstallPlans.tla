---------------------------- MODULE MCInstallPlans ----------------------------
(* Instances for TLC: subscriptions of the code, by their packages.        *)
EXTENDS InstallPlans

(* Service mesh and pipelines share openshift-operators; CodeReady asks    *)
(* for approval, serverless never does, and each has its own namespace.    *)
ApprovalOf(s) ==
  CASE s = "pipelines" -> "ifUnreadable"
    [] s = "serverless" -> "never"
    [] OTHER -> "always"
HomeOf(s) ==
  CASE s = "codeready" -> "workspaces"
    [] s = "serverless" -> "openshift-serverless"
    [] OTHER -> "openshift-operators"

MCApproval == [s \in Subscriptions |-> ApprovalOf(s)]
MCNamespaceOf == [s \in Subscriptions |-> HomeOf(s)]

(* The spec may name no version for CodeReady, and change its mind.        *)
MCRequests == [s \in Subscriptions |-> IF s = "codeready" THEN {0, 1} ELSE {1}]

(* One operator through two lives of the Workshop and an edit, two that    *)
(* OLM resolves together, and the one nobody asks approval for.            *)
JustCodeReady == <<"codeready">>
AloneAndShared == {JustCodeReady, <<"pipelines", "mesh">>, <<"serverless">>}
PipelinesOnly == {<<"pipelines">>}

ForCodeReady(n) == [o \in Orders |-> IF o = JustCodeReady THEN n ELSE 0]
TwoLives == [o \in Orders |-> IF o = JustCodeReady THEN 2 ELSE 1]
OneEach == [o \in Orders |-> 1]
OneForCodeReady == ForCodeReady(1)
NoneAtAll == ForCodeReady(0)
=============================================================================
