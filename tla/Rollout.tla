-------------------------------- MODULE Rollout --------------------------------
(***************************************************************************)
(* How a phase builds and takes down its objects, one call to the API      *)
(* server at a time: the add... and delete... functions of the component   *)
(* reconcilers (controllers/*_reconciler.go).  All of them are scripts of  *)
(* the same few kinds of step, so the scripts are parameters here, and     *)
(* ComponentPlans has those of the code.  A Create that finds the object   *)
(* there goes on; any other failure ends the pass, and the next pass runs  *)
(* the script from its start.  A Delete that finds nothing is a failure,   *)
(* and a failed teardown is given up: the finalizer goes all the same.     *)
(***************************************************************************)
EXTENDS Naturals, Sequences, PhaseLevels

CONSTANTS
  Rollouts,      \* names of the scripts
  AnchoredRollouts, \* those of which Anchored, below, is claimed
  CoveredRollouts,  \* those of which Covered is
  OrderlyRollouts,  \* those of which Orderly is
  InstallOf,     \* InstallOf[r]: the steps that build r
  TeardownOf,    \* TeardownOf[r]: the steps that take it down
  Objects,       \* the API objects the scripts name, namespaces included
  Namespaces,    \* those of them that are namespaces
  Home,          \* Home[o]: the namespace of o that a script has to create
  Outside,       \* the home of cluster-scoped objects and of objects in
                 \*   namespaces that are always there
  Dependents,    \* objects that carry an owner reference to the Workshop
  MaxFaults,     \* bound: failed calls and crashes
  MaxLives       \* bound: times the user creates the Workshop

Ops == {"create", "createIfMissing", "await", "ask", "insist",
        "delete", "deleteIfFound", "look", "require"}

Step == [op : Ops, obj : Objects, brings : SUBSET Objects, skip : Nat]

ASSUME RolloutAssumption ==
  /\ InstallOf \in [Rollouts -> Seq(Step)]
  /\ TeardownOf \in [Rollouts -> Seq(Step)]
  /\ Namespaces \subseteq Objects
  /\ Home \in [Objects -> Namespaces \cup {Outside}]
  /\ \A n \in Namespaces : Home[n] = Outside
  /\ Outside \notin Objects
  /\ Dependents \subseteq Objects \ Namespaces
  /\ \A o \in Dependents : Home[o] = Outside
  /\ \A r \in Rollouts : \A i \in 1..Len(TeardownOf[r]) :
       TeardownOf[r][i].op = "look" => i + TeardownOf[r][i].skip <= Len(TeardownOf[r])
  /\ MaxFaults \in Nat
  /\ MaxLives \in Nat

VARIABLES
  rollout,   \* the script of this behaviour
  exists,    \* the objects at the API server
  dying,     \* those on their way out: namespaces marked for deletion, and
             \*   dependents of a Workshop that is no more
  mode,      \* what the worker is doing
  at,        \* its place in the script
  ended,     \* how the last script ended
  basis,     \* what the teardown set out from
  faults,    \* faults so far
  lives      \* times the Workshop has been created

vars == <<rollout, exists, dying, mode, at, ended, basis, faults, lives>>

-----------------------------------------------------------------------------
Script == IF mode = "teardown" THEN TeardownOf[rollout] ELSE InstallOf[rollout]
step == Script[at]

Stepping(m, op) == mode = m /\ at <= Len(Script) /\ step.op = op

(* The objects the operator creates itself, and with them those that       *)
(* others provide for it.                                                  *)
Owned(r) ==
  {InstallOf[r][i].obj :
     i \in {j \in 1..Len(InstallOf[r]) : InstallOf[r][j].op \in {"create", "createIfMissing"}}}
Needed(r) ==
  UNION {{InstallOf[r][i].obj} \cup InstallOf[r][i].brings : i \in 1..Len(InstallOf[r])}

Whole(r) == Needed(r) \subseteq exists \ dying

(* What exists and is not about to go with its namespace.                  *)
Staying(o) == o \in exists /\ o \notin dying /\ Home[o] \notin dying

(* Nothing of what it creates is there to stay.                            *)
Bare(r) == \A o \in Owned(r) : ~Staying(o)

(* The API server admits a new object only into a namespace that exists    *)
(* and is not terminating.                                                 *)
Admits(o) == Home[o] = Outside \/ (Home[o] \in exists /\ Home[o] \notin dying)

TypeOK ==
  /\ rollout \in Rollouts
  /\ exists \subseteq Objects
  /\ dying \subseteq exists
  /\ mode \in {"install", "teardown", "rest"}
  /\ at \in 1..Len(Script) + 1
  /\ ended \in {"nothing", "installed", "removed", "failed", "notFound"}
  /\ basis \in {"full", "partial", "nothing", "restarted"}
  /\ faults \in 0..MaxFaults
  /\ lives \in Nat

Init ==
  /\ rollout \in Rollouts
  /\ exists = {}
  /\ dying = {}
  /\ mode = "rest"
  /\ at = 1
  /\ ended = "nothing"
  /\ basis = "partial"
  /\ faults = 0
  /\ lives = 0

-----------------------------------------------------------------------------
(* The passes.                                                             *)

Advance == at' = at + 1 /\ UNCHANGED <<mode, ended, basis>>
Retry == at' = 1 /\ UNCHANGED <<mode, ended, basis>>
Give(up) == mode' = "rest" /\ at' = 1 /\ ended' = up

NothingElse == UNCHANGED <<rollout, faults, lives>>

(* The Workshop is created, or created again under the same name: it is    *)
(* another object, so what is left of its predecessor's dependents is the  *)
(* garbage collector's.                                                    *)
Begin ==
  /\ mode = "rest"
  /\ ended # "installed"
  /\ lives < MaxLives
  /\ lives' = lives + 1
  /\ mode' = "install"
  /\ dying' = dying \cup (exists \cap Dependents)
  /\ UNCHANGED <<rollout, exists, at, ended, basis, faults>>

(* Its spec is edited, or the informer resyncs.                            *)
Resync ==
  /\ mode = "rest"
  /\ ended = "installed"
  /\ mode' = "install"
  /\ UNCHANGED <<rollout, exists, dying, at, ended, basis, faults, lives>>

(* It is deleted: the next pass is a teardown, whatever the passes before  *)
(* it have got to.                                                         *)
Finalize ==
  /\ \/ mode = "rest" /\ ended = "installed"
     \/ mode = "install" /\ at = 1
  /\ mode' = "teardown"
  /\ at' = 1
  /\ basis' = IF Whole(rollout) THEN "full" ELSE IF Bare(rollout) THEN "nothing" ELSE "partial"
  /\ UNCHANGED <<rollout, exists, dying, ended, faults, lives>>

(* Mutants: any error is taken for AlreadyExists; AlreadyExists is an      *)
(* error like any other.                                                   *)
CreateSwallowingErrors ==
  /\ Stepping("install", "create")
  /\ exists' = IF Admits(step.obj) THEN exists \cup {step.obj} ELSE exists
  /\ Advance
  /\ UNCHANGED dying
  /\ NothingElse

CreateIntolerant ==
  /\ Stepping("install", "create")
  /\ IF Admits(step.obj) /\ step.obj \notin exists
     THEN exists' = exists \cup {step.obj} /\ Advance
     ELSE UNCHANGED exists /\ Retry
  /\ UNCHANGED dying
  /\ NothingElse

(* r.Create, tolerating AlreadyExists; also of a namespace that is         *)
(* terminating, and of a dependent of another Workshop.                    *)
Create ==
  /\ Stepping("install", "create")
  /\ IF Admits(step.obj)
     THEN exists' = exists \cup {step.obj} /\ Advance
     ELSE UNCHANGED exists /\ Retry
  /\ UNCHANGED dying
  /\ NothingElse

(* r.Get, and r.Create if that does not find it.  What a Get shows is the  *)
(* cache, which may not know yet that an object is gone, or has come.      *)
CreateIfMissing ==
  /\ Stepping("install", "createIfMissing")
  /\ \/ Advance /\ UNCHANGED exists
     \/ Admits(step.obj) /\ exists' = exists \cup {step.obj} /\ Advance
  /\ UNCHANGED dying
  /\ NothingElse

(* ApproveInstallPlan and GetDeploymentStatus: go on if what another       *)
(* controller was to provide is there, or ask for another pass.            *)
Await ==
  /\ Stepping("install", "await")
  /\ IF step.obj \in exists THEN Advance ELSE Retry
  /\ UNCHANGED <<exists, dying>>
  /\ NothingElse

(* The other controller provides it, and whatever comes with it.           *)
Provide ==
  /\ Stepping("install", "await")
  /\ Admits(step.obj)
  /\ step.obj \notin exists
  /\ exists' = exists \cup {o \in {step.obj} \cup step.brings : Admits(o)}
  /\ UNCHANGED <<dying, mode, at, ended, basis>>
  /\ NothingElse

(* A request over HTTP, that an account be made or a workspace started: a  *)
(* refusal is passed over, so the pass goes on whether it was granted or   *)
(* not, and the next pass asks again.                                      *)
Ask ==
  /\ Stepping("install", "ask")
  /\ \/ UNCHANGED exists
     \/ Admits(step.obj) /\ exists' = exists \cup {step.obj}
  /\ Advance
  /\ UNCHANGED dying
  /\ NothingElse

Granted == Ask /\ exists' # exists

(* A request about an account that is taken to be there: a refusal is      *)
(* passed over, but from the answer that there is none the code takes the  *)
(* first entry of an empty list, and the process dies.                     *)
Insist ==
  /\ Stepping("install", "insist")
  /\ Advance \/ (step.obj \notin exists /\ Retry)
  /\ UNCHANGED <<exists, dying>>
  /\ NothingElse

(* Mutant: the last step is left out.                                      *)
InstallEndsOneEarly ==
  /\ mode = "install"
  /\ at >= Len(Script)
  /\ Give("installed")
  /\ UNCHANGED <<exists, dying, basis>>
  /\ NothingElse

InstallEnds ==
  /\ mode = "install"
  /\ at > Len(Script)
  /\ Give("installed")
  /\ UNCHANGED <<exists, dying, basis>>
  /\ NothingElse

(* The API server's part of r.Delete: a namespace is marked, anything else *)
(* goes at once.  Marking a namespace again is a conflict.                 *)
Removed(o) ==
  IF o \in Namespaces
  THEN dying' = dying \cup {o} /\ UNCHANGED exists
  ELSE exists' = exists \ {o} /\ dying' = dying \ {o}

Deletable(o) == o \in exists /\ (o \in Namespaces => o \notin dying)

(* r.Delete: a conflict is an error, and so is not found.                  *)
Delete ==
  /\ Stepping("teardown", "delete")
  /\ IF Deletable(step.obj)
     THEN Removed(step.obj) /\ Advance
     ELSE UNCHANGED <<exists, dying, basis>> /\ Give("notFound")
  /\ NothingElse

(* r.Get, and r.Delete if that finds it, in the cache.                     *)
DeleteIfFound ==
  /\ Stepping("teardown", "deleteIfFound")
  /\ \/ Deletable(step.obj) /\ Removed(step.obj) /\ Advance
     \/ ~Deletable(step.obj) /\ Give("notFound") /\ UNCHANGED <<exists, dying, basis>>
     \/ Advance /\ UNCHANGED <<exists, dying>>
  /\ NothingElse

(* Mutant: the loop is left one step too far.                              *)
LookPastNext ==
  /\ Stepping("teardown", "look")
  /\ \/ Advance
     \/ /\ at' = at + 2 + step.skip
        /\ UNCHANGED <<mode, ended, basis>>
  /\ UNCHANGED <<exists, dying>>
  /\ NothingElse

(* A loop over the users looks with r.Get whether to go on, and stops when *)
(* the cache does not show the object.                                     *)
Look ==
  /\ Stepping("teardown", "look")
  /\ \/ Advance
     \/ /\ at' = at + 1 + step.skip
        /\ UNCHANGED <<mode, ended, basis>>
  /\ UNCHANGED <<exists, dying>>
  /\ NothingElse

(* A teardown that ends by patching finalizers off objects it has deleted: *)
(* it fails unless they are still there.                                   *)
Require ==
  /\ Stepping("teardown", "require")
  /\ Advance \/ (Give("notFound") /\ UNCHANGED basis)
  /\ UNCHANGED <<exists, dying>>
  /\ NothingElse

TeardownEnds ==
  /\ mode = "teardown"
  /\ at > Len(Script)
  /\ Give("removed")
  /\ UNCHANGED <<exists, dying, basis>>
  /\ NothingElse

(* The namespace controller is done with a namespace, or the garbage       *)
(* collector with a dependent.                                             *)
Vanish(o) ==
  /\ o \in dying
  /\ exists' = {q \in exists : q # o /\ Home[q] # o}
  /\ dying' = dying \ {o}
  /\ UNCHANGED <<mode, at, ended, basis>>
  /\ NothingElse

-----------------------------------------------------------------------------
(* Faults.                                                                 *)

Fault == faults < MaxFaults /\ faults' = faults + 1 /\ UNCHANGED <<rollout, lives>>

(* A call of an install pass fails, or its answer is lost.                 *)
InstallCallFails ==
  /\ mode = "install"
  /\ \/ UNCHANGED exists
     \/ /\ \/ Stepping("install", "create")
           \/ Stepping("install", "createIfMissing")
           \/ Stepping("install", "ask")
        /\ Admits(step.obj)
        /\ exists' = exists \cup {step.obj}
  /\ Retry
  /\ UNCHANGED dying
  /\ Fault

(* A call of a teardown fails, or its answer is lost: the rest is skipped. *)
TeardownCallFails ==
  /\ mode = "teardown"
  /\ \/ UNCHANGED <<exists, dying>>
     \/ /\ Stepping("teardown", "delete") \/ Stepping("teardown", "deleteIfFound")
        /\ Deletable(step.obj)
        /\ Removed(step.obj)
  /\ Give("failed")
  /\ UNCHANGED basis
  /\ Fault

(* The process dies in a teardown: the finalizer is still on the object,   *)
(* and the script starts again.  (In an install pass this is no different  *)
(* from a failed call.)                                                    *)
TeardownCrash ==
  /\ mode = "teardown"
  /\ at' = 1
  /\ basis' = IF Bare(rollout) THEN "nothing"
               ELSE IF basis = "full" THEN "restarted" ELSE basis
  /\ UNCHANGED <<exists, dying, mode, ended>>
  /\ Fault

-----------------------------------------------------------------------------
User == Begin \/ Resync \/ Finalize

InstallStep == Create \/ CreateIfMissing \/ Await \/ Ask \/ Insist \/ InstallEnds

TeardownStep == Delete \/ DeleteIfFound \/ Look \/ Require \/ TeardownEnds

Failure == InstallCallFails \/ TeardownCallFails \/ TeardownCrash

Next ==
  \/ User
  \/ InstallStep
  \/ Provide
  \/ TeardownStep
  \/ \E o \in Objects : Vanish(o)
  \/ Failure

Spec == Init /\ [][Next]_vars

(* The worker runs, what is on its way out goes, and the others provide    *)
(* what is awaited, and grant what is asked for again and again: strongly, *)
(* since the passes come by only now and then.                             *)
Fairness ==
  /\ WF_vars(InstallStep)
  /\ WF_vars(TeardownStep)
  /\ WF_vars(\E o \in Objects : Vanish(o))
  /\ SF_vars(Provide)
  /\ SF_vars(Granted)

FairSpec == Spec /\ Fairness

-----------------------------------------------------------------------------
(* What a script must be like for the properties below to hold.            *)

Steps(script, ops) == {i \in 1..Len(script) : script[i].op \in ops}
Creations(r) == Steps(InstallOf[r], {"create"})
Deletions(r) == Steps(TeardownOf[r], {"delete", "deleteIfFound"})

(* Not all it creates is in namespaces of others, every namespace it       *)
(* creates is home to something it creates, nothing it creates goes with   *)
(* the Workshop, and it leaves nothing out that a stale cache still shows. *)
Anchored(r) ==
  /\ \E i \in Creations(r) : Home[InstallOf[r][i].obj] = Outside
  /\ Steps(InstallOf[r], {"createIfMissing"}) = {}
  /\ \A i \in Creations(r) :
       /\ InstallOf[r][i].obj \notin Dependents
       /\ InstallOf[r][i].obj \in Namespaces =>
            \E j \in Creations(r) : Home[InstallOf[r][j].obj] = InstallOf[r][i].obj

(* For everything it creates, but for what goes with the Workshop, the     *)
(* teardown has a step that deletes it or its namespace, whatever the      *)
(* cache shows, and that no loop left early skips.                         *)
Skipped(r, i) ==
  \E j \in Steps(TeardownOf[r], {"look"}) : j < i /\ i <= j + TeardownOf[r][j].skip
Covered(r) ==
  \A o \in Owned(r) \ Dependents : \E i \in Steps(TeardownOf[r], {"delete"}) :
    TeardownOf[r][i].obj \in {o, Home[o]} /\ ~Skipped(r, i)

(* What the teardown insists on deleting is of the installation, and no    *)
(* earlier step deletes it or its namespace.                               *)
Orderly(r) ==
  /\ Steps(TeardownOf[r], {"look", "require"}) = {}
  /\ \A i \in Deletions(r) :
       LET o == TeardownOf[r][i].obj
       IN  /\ o \in Needed(r)
           /\ Home[o] \in Needed(r) \cup {Outside}
           /\ \A j \in Deletions(r) : j < i => TeardownOf[r][j].obj \notin {o, Home[o]}

-----------------------------------------------------------------------------
(* Properties.                                                             *)

(* A pass that ends without an error has really built everything, also     *)
(* when it ran over the remains of an earlier teardown whose namespaces    *)
(* were still terminating, which Create takes for existing ones: if the    *)
(* script anchors its namespaces.                                          *)
InstalledMeansThere ==
  /\ rollout \in AnchoredRollouts
  /\ mode = "rest" /\ ended = "installed"
  => \A o \in Owned(rollout) : Staying(o)

(* A teardown that runs to its end forgets nothing: what the passes before *)
(* it built is gone, or in a namespace that is going, or goes with the     *)
(* Workshop: if the teardown covers the install.                           *)
RemovedMeansGone ==
  /\ rollout \in CoveredRollouts
  /\ mode = "rest" /\ ended = "removed"
  => \A o \in Owned(rollout) \ Dependents : ~Staying(o)

(* A teardown of a full installation does run to its end, unless a call    *)
(* fails: no step of it deletes what an earlier step, or the namespace it  *)
(* was in, has already taken away: if it is orderly.                       *)
FullTeardownEnds ==
  rollout \in OrderlyRollouts /\ mode = "rest" /\ ended = "notFound" => basis # "full"

(* An install gets there, or the user deletes the Workshop, whatever an    *)
(* earlier life left behind.                                               *)
InstallConverges == mode = "install" ~> mode # "install"

(* "... don't remove the finalizer so that we can retry during the next    *)
(* reconciliation" (workshop_controller.go:121): the teardown of a full    *)
(* installation that is run again after a crash is to finish the job.      *)
RetryFinishesTheJob ==
  mode = "rest" /\ ended \in {"removed", "notFound"} /\ basis = "restarted"
    => \A o \in Owned(rollout) : ~Staying(o)

-----------------------------------------------------------------------------
(* The refinement mapping to what the reconcile loop knows of a phase.     *)
(* Scripts of which not all is claimed count as phases nothing is done     *)
(* with.                                                                   *)

Contracted == rollout \in AnchoredRollouts \cap CoveredRollouts

Level ==
  IF Bare(rollout) THEN "none"
  ELSE IF \A o \in Owned(rollout) : Staying(o) THEN "full"
  ELSE "partial"

Doing == IF Contracted THEN mode ELSE "rest"
Extent == IF Contracted THEN Level ELSE "none"
Outcome == IF Contracted THEN ended ELSE "nothing"
Found == Contracted => basis # "nothing"

Contract == INSTANCE PhaseContract
              WITH doing <- Doing, level <- Extent, outcome <- Outcome, found <- Found

(* Call by call, with namespaces that terminate under its feet, calls that *)
(* fail or lose their answers, and whatever earlier lives left behind, a   *)
(* phase does to what it has built only what the reconcile loop expects of *)
(* one: an install takes nothing away and ends well only when everything   *)
(* stays, a teardown builds nothing and ends well only when nothing stays  *)
(* and something did.                                                      *)
KeepsContract == Contract!Spec
=============================================================================
