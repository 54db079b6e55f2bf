------------------------------ MODULE ProjectLoops ------------------------------
(***************************************************************************)
(* The two loops over the users' projects (controllers/project_            *)
(* reconciler.go), with a number of users, a name and a switch that the    *)
(* user may edit between and during passes.  A loop counts upwards without *)
(* a limit of its own: it is the cache that tells it where the projects    *)
(* end, and an error of the API server that ends the teardown.             *)
(***************************************************************************)
EXTENDS Integers, Sequences

CONSTANTS
  Names,       \* staging names a spec may give
  NoName,      \* the empty one
  Numbers,     \* numbers of users a spec may give
  Beyond,      \* an id past all of these: so are all after it, and the model's
               \*   loops stay at it
  MaxLives,    \* bound: times the user creates the Workshop
  MaxEdits,    \* bound: times it is edited
  MaxFaults    \* bound: failed calls and crashes

ASSUME ProjectLoopsAssumption ==
  /\ NoName \in Names
  /\ Numbers \subseteq Int
  /\ Beyond \in Nat
  /\ Beyond > 1
  /\ \A n \in Numbers : n < Beyond
  /\ MaxLives \in Nat /\ MaxEdits \in Nat /\ MaxFaults \in Nat

Ids == 1..Beyond
Project == Names \X Ids
Specs == [users : Numbers, enabled : BOOLEAN, staging : Names]

(* What a project consists of, in the order of creation.                   *)
Made == <<"namespace", "project", "default", "argocd">>
Unmade == <<"argocd", "default", "project", "namespace">>
Roles == {"project", "default", "argocd"}

VARIABLES
  workshop,    \* "none", "live" or "deleting"
  spec,        \* its spec
  namespaces,  \* the state of each namespace
  bindings,    \* the role bindings in it
  seen,        \* the namespaces the cache shows
  mode,        \* what the worker is doing
  held,        \* the spec its pass goes by
  id,          \* the loop's count
  call,        \* its place within a project
  ended,       \* how the last pass ended
  lives, edits, faults

vars == <<workshop, spec, namespaces, bindings, seen, mode, held, id, call, ended,
          lives, edits, faults>>

TypeOK ==
  /\ workshop \in {"none", "live", "deleting"}
  /\ spec \in Specs
  /\ namespaces \in [Project -> {"none", "there", "terminating"}]
  /\ bindings \in [Project -> SUBSET Roles]
  /\ \A p \in Project : namespaces[p] = "none" => bindings[p] = {}
  /\ seen \subseteq Project
  /\ mode \in {"rest", "install", "teardown"}
  /\ held \in Specs
  /\ id \in Ids
  /\ call \in 1..4
  /\ ended \in {"nothing", "installed", "removed", "failed"}
  /\ lives \in Nat /\ edits \in Nat /\ faults \in Nat

Init ==
  /\ workshop = "none"
  /\ spec \in Specs
  /\ namespaces = [p \in Project |-> "none"]
  /\ bindings = [p \in Project |-> {}]
  /\ seen = {}
  /\ mode = "rest"
  /\ held = spec
  /\ id = 1
  /\ call = 1
  /\ ended = "nothing"
  /\ lives = 0 /\ edits = 0 /\ faults = 0

user == <<workshop, spec, lives, edits>>
cluster == <<namespaces, bindings>>
worker == <<mode, held, id, call, ended>>

-----------------------------------------------------------------------------
(* The user, the namespace controller and the cache.                       *)

CreateWorkshop ==
  /\ workshop = "none"
  /\ lives < MaxLives
  /\ lives' = lives + 1
  /\ workshop' = "live"
  /\ spec' \in Specs
  /\ UNCHANGED <<edits, cluster, seen, worker, faults>>

EditWorkshop ==
  /\ workshop = "live"
  /\ edits < MaxEdits
  /\ edits' = edits + 1
  /\ spec' \in Specs
  /\ UNCHANGED <<workshop, lives, cluster, seen, worker, faults>>

DeleteWorkshop ==
  /\ workshop = "live"
  /\ workshop' = "deleting"
  /\ UNCHANGED <<spec, lives, edits, cluster, seen, worker, faults>>

Vanish(p) ==
  /\ namespaces[p] = "terminating"
  /\ namespaces' = [namespaces EXCEPT ![p] = "none"]
  /\ bindings' = [bindings EXCEPT ![p] = {}]
  /\ UNCHANGED <<user, seen, worker, faults>>

CacheCatchesUp(p) ==
  /\ (p \in seen) # (namespaces[p] # "none")
  /\ seen' = IF p \in seen THEN seen \ {p} ELSE seen \cup {p}
  /\ UNCHANGED <<user, cluster, worker, faults>>

-----------------------------------------------------------------------------
(* The passes.                                                             *)

current == <<held.staging, id>>

Onwards ==
  /\ id' = IF id < Beyond THEN id + 1 ELSE id
  /\ call' = 1
  /\ UNCHANGED <<mode, held, ended, user>>

(* The finalizer goes however a teardown has ended.                        *)
EndAs(end) ==
  /\ mode' = "rest"
  /\ ended' = end
  /\ id' = 1
  /\ call' = 1
  /\ workshop' = IF mode = "teardown" THEN "none" ELSE workshop
  /\ UNCHANGED <<spec, lives, edits, held>>

(* Mutant: a project done with is not left.                                *)
NextCallForEver == call' = call + 1 /\ UNCHANGED <<mode, held, id, ended, user>>

NextCall ==
  IF call = 4 THEN Onwards
  ELSE call' = call + 1 /\ UNCHANGED <<mode, held, id, ended, user>>

Begin ==
  /\ mode = "rest"
  /\ workshop # "none"
  /\ mode' = IF workshop = "live" THEN "install" ELSE "teardown"
  /\ held' = spec
  /\ UNCHANGED <<user, cluster, seen, id, call, ended, faults>>

(* The ids the loop adds, or deletes, a project for.                       *)
InReach == IF mode = "install" THEN id <= held.users ELSE id >= held.users

(* Neither loop has anything to do for a phase without a name, and goes on *)
(* to the next id.                                                         *)
TurnsIdle ==
  /\ mode # "rest"
  /\ held.enabled /\ InReach
  /\ held.staging = NoName
  /\ Onwards
  /\ UNCHANGED <<cluster, seen, faults>>

(* Mutant: the teardown's loop goes on past the last project.              *)
LookEndlessly ==
  /\ mode # "rest"
  /\ ~(held.enabled /\ InReach)
  /\ IF current \in seen \/ mode = "teardown" THEN Onwards ELSE EndAs("installed")
  /\ UNCHANGED <<cluster, seen, faults>>

(* Elsewhere a Get tells whether there are more, in which case there is    *)
(* nothing to do for this one.                                             *)
Look ==
  /\ mode # "rest"
  /\ ~(held.enabled /\ InReach)
  /\ IF current \in seen
     THEN Onwards
     ELSE IF mode = "install" THEN EndAs("installed") ELSE EndAs("removed")
  /\ UNCHANGED <<cluster, seen, faults>>

Adding == mode = "install" /\ held.enabled /\ InReach /\ held.staging # NoName

(* The API server's part of a Create, which a namespace on its way out     *)
(* refuses, and of a Delete, which refuses what is not there.              *)
CanCreate ==
  Made[call] = "namespace" \/ namespaces[current] = "there"

Created ==
  IF Made[call] = "namespace"
  THEN /\ namespaces' = [namespaces EXCEPT ![current] = IF @ = "none" THEN "there" ELSE @]
       /\ UNCHANGED bindings
  ELSE /\ bindings' = [bindings EXCEPT ![current] = @ \cup {Made[call]}]
       /\ UNCHANGED namespaces

(* Mutant: any error is taken for AlreadyExists.                           *)
CreateSwallowingErrors ==
  /\ Adding
  /\ IF CanCreate THEN Created ELSE UNCHANGED cluster
  /\ NextCall
  /\ UNCHANGED <<seen, faults>>

(* addProject and manageRoles.                                             *)
Create ==
  /\ Adding
  /\ IF CanCreate THEN Created /\ NextCall ELSE UNCHANGED cluster /\ EndAs("failed")
  /\ UNCHANGED <<seen, faults>>

Deleting == mode = "teardown" /\ held.enabled /\ InReach /\ held.staging # NoName

CanDelete ==
  IF Unmade[call] = "namespace" THEN namespaces[current] = "there"
  ELSE Unmade[call] \in bindings[current]

Dropped ==
  IF Unmade[call] = "namespace"
  THEN namespaces' = [namespaces EXCEPT ![current] = "terminating"] /\ UNCHANGED bindings
  ELSE /\ bindings' = [bindings EXCEPT ![current] = @ \ {Unmade[call]}]
       /\ UNCHANGED namespaces

(* deleteProjectNamespace and deleteManageRoles.                           *)
Delete ==
  /\ Deleting
  /\ IF CanDelete THEN Dropped /\ NextCall ELSE UNCHANGED cluster /\ EndAs("failed")
  /\ UNCHANGED <<seen, faults>>

-----------------------------------------------------------------------------
Fault == faults < MaxFaults /\ faults' = faults + 1 /\ UNCHANGED seen

(* A Get that fails goes for one that has found something.                 *)
LookFails ==
  /\ mode # "rest"
  /\ ~(held.enabled /\ InReach)
  /\ Onwards
  /\ UNCHANGED cluster
  /\ Fault

(* Another call fails, or its answer is lost.                              *)
CallFails ==
  /\ \/ Adding /\ (UNCHANGED cluster \/ (CanCreate /\ Created))
     \/ Deleting /\ (UNCHANGED cluster \/ (CanDelete /\ Dropped))
  /\ EndAs("failed")
  /\ Fault

(* The process dies.                                                       *)
Crash ==
  /\ mode # "rest"
  /\ mode' = "rest"
  /\ ended' = "failed"
  /\ id' = 1
  /\ call' = 1
  /\ UNCHANGED <<user, cluster, held>>
  /\ Fault

-----------------------------------------------------------------------------
User == CreateWorkshop \/ EditWorkshop \/ DeleteWorkshop

Work == TurnsIdle \/ Look \/ Create \/ Delete

Failure == LookFails \/ CallFails \/ Crash

Next ==
  \/ User
  \/ \E p \in Project : Vanish(p) \/ CacheCatchesUp(p)
  \/ Begin
  \/ Work
  \/ Failure

Spec == Init /\ [][Next]_vars

(* The worker runs.  Nothing need be known of the cache for what follows.  *)
FairSpec == Spec /\ WF_vars(Work)

-----------------------------------------------------------------------------
(* Properties.                                                             *)

Complete(p) == namespaces[p] = "there" /\ bindings[p] = Roles

(* A pass that ends well has a project, none of it on its way out, for     *)
(* every user of the spec it went by, whatever earlier specs, lives and    *)
(* teardowns have left and however little the cache knows of it.           *)
EveryUserHasAProject ==
  /\ mode = "rest" /\ ended = "installed"
  /\ held.enabled /\ held.staging # NoName
  => \A i \in Ids : i <= held.users => Complete(<<held.staging, i>>)

(* Every loop comes to an end, but for the teardown of a phase that is     *)
(* switched on without a name: with one user at most, or after a Get that  *)
(* failed, it counts on for ever.                                          *)
Endless == mode = "teardown" /\ held.enabled /\ held.staging = NoName /\ InReach

LoopsEnd == mode # "rest" ~> mode = "rest" \/ Endless
=============================================================================
