------------------------------- MODULE MCRollout -------------------------------
(* The scripts of the component reconcilers as instances of Rollout.       *)
EXTENDS Rollout, ComponentPlans, TLC

OnePhase == {"Nexus"}

NoHome == <<"outside">>

(* The scripts, as tables.                                                 *)
Tabulated(f) == f @@ <<>>

Installs == Tabulated([r \in Rollouts |-> InstallScript(r) \o <<>>])
Teardowns == Tabulated([r \in Rollouts |-> TeardownScript(r) \o <<>>])
Named == ApiObjects(Rollouts)
Homes == Tabulated(HomesOf(Named, NoHome))
NamedNamespaces == NamespacesAmong(Named)

(* The constants of Rollout.                                               *)
MCInstallOf == Installs
MCTeardownOf == Teardowns
MCObjects == Named
MCNamespaces == NamedNamespaces
MCHome == Homes
MCDependents == OwnedByWorkshop \cap Named
=============================================================================
