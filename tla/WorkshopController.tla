-------------------------- MODULE WorkshopController --------------------------
(***************************************************************************)
(* The reconcile loop of the workshop operator                             *)
(* (controllers/workshop_controller.go, controllers/finalizer.go) for one  *)
(* Workshop custom resource: the resource at the API server, the informer  *)
(* cache the manager's client reads it from, the work queue, the single    *)
(* worker, and the thirteen component phases seen from outside.  A phase   *)
(* is one step here; what it does inside is the subject of the component   *)
(* modules.                                                                *)
(***************************************************************************)
EXTENDS Naturals, Sequences, PhaseLevels

CONSTANTS
  Phases,       \* the phases, in the order Reconcile and handleDelete run them
  Flags,        \* Flags[p]: the spec flags any of which switches phase p on
  AlwaysOn,     \* the phases that run whatever the spec says
  MayRequeue,   \* the phases that can ask to be run again (waits, approvals)
  Stubborn,     \* the phases that can fail again and again with no call failing
  Lenient,      \* the phases whose teardown tolerates that nothing is there
  Careless,     \* the phases whose teardown can succeed and leave things behind
  MayHang,      \* the phases whose teardown may never return
  Specs,        \* the Workshop specs users write: each a set of flags
  MaxVersions,  \* bound: users write while the history is shorter than this
  MaxFaults     \* bound: failed calls, lost replies, waits and crashes

Phase == {Phases[i] : i \in 1..Len(Phases)}

AllFlags == UNION {Flags[p] : p \in Phase}

ASSUME ControllerAssumption ==
  /\ Phases \in Seq(STRING)
  /\ Len(Phases) > 0
  /\ AlwaysOn \subseteq Phase /\ MayRequeue \subseteq Phase /\ Stubborn \subseteq Phase
  /\ Lenient \subseteq Phase /\ Careless \subseteq Phase /\ MayHang \subseteq Phase
  /\ Specs \subseteq SUBSET AllFlags
  /\ MaxVersions \in Nat
  /\ MaxFaults \in Nat

VARIABLES
  versions,   \* every version of the Workshop the API server has held, in order
  seen,       \* the version the informer cache shows (its resourceVersion)
  dirty,      \* the request is in the work queue
  delayed,    \* the request waits in the rate limiter or for RequeueAfter
  pc,         \* where the worker is in Reconcile
  at,         \* the phase the worker is at, an index into Phases
  held,       \* the version the worker holds in its variable `workshop`
  footprint,  \* footprint[p]: how much of what phase p installs its script has
              \*   asked for and no teardown has taken back
  faults      \* faults so far

vars == <<versions, seen, dirty, delayed, pc, at, held, footprint, faults>>
apiVars == <<versions, footprint>>
queueVars == <<dirty, delayed>>
workerVars == <<pc, at, held>>

-----------------------------------------------------------------------------
(* A version of the custom resource.  uid 0 is "no such object".           *)
Version == [uid : Nat, deleting : BOOLEAN, finalizer : BOOLEAN, wants : SUBSET AllFlags]

Nothing == [uid |-> 0, deleting |-> FALSE, finalizer |-> FALSE, wants |-> {}]

Latest == Len(versions)
cr == versions[Latest]
cached == versions[seen]
workshop == versions[held]

Exists(v) == v.uid # 0

(* Exists, is not marked for deletion, and carries the finalizer.          *)
Guarded(v) == Exists(v) /\ v.finalizer /\ ~v.deleting

Enabled(p, wants) == p \in AlwaysOn \/ Flags[p] \cap wants # {}

Locations == {"idle", "fetch", "dispatch", "adopt", "install", "teardown", "release"}

TypeOK ==
  /\ versions \in Seq(Version) /\ Latest > 0
  /\ seen \in 1..Latest
  /\ dirty \in BOOLEAN
  /\ delayed \in BOOLEAN
  /\ pc \in Locations
  /\ at \in 1..Len(Phases)
  /\ held \in 1..Latest
  /\ footprint \in [Phase -> Levels]
  /\ faults \in 0..MaxFaults

Init ==
  /\ versions = <<Nothing>>
  /\ seen = 1
  /\ dirty = FALSE
  /\ delayed = FALSE
  /\ pc = "idle"
  /\ at = 1
  /\ held = 1
  /\ footprint = [p \in Phase |-> "none"]
  /\ faults = 0

-----------------------------------------------------------------------------
(* Users of the API server.                                                *)

Write(v) == versions' = Append(versions, v)

UserWrite(v) ==
  /\ Latest < MaxVersions
  /\ Write(v)
  /\ UNCHANGED <<seen, dirty, delayed, pc, at, held, footprint, faults>>

CreateWorkshop(wants) ==
  /\ ~Exists(cr)
  /\ UserWrite([uid |-> Latest, deleting |-> FALSE, finalizer |-> FALSE, wants |-> wants])

EditWorkshop(wants) ==
  /\ Exists(cr)
  /\ wants # cr.wants
  /\ UserWrite([cr EXCEPT !.wants = wants])

(* A Delete removes an object without finalizers, and marks one with.      *)
DeleteWorkshop ==
  /\ Exists(cr)
  /\ ~cr.deleting
  /\ UserWrite(IF cr.finalizer THEN [cr EXCEPT !.deleting = TRUE] ELSE Nothing)

-----------------------------------------------------------------------------
(* The informer and the work queue.                                        *)

(* The watch moves the cache forward, past versions it missed when it had  *)
(* to list again, and its event handler enqueues the request.              *)
WatchEvent(v) ==
  /\ seen < v
  /\ seen' = v
  /\ dirty' = (dirty \/ Exists(cached) \/ Exists(versions[v]))
  /\ UNCHANGED <<versions, delayed, pc, at, held, footprint, faults>>

DelayOver ==
  /\ delayed
  /\ delayed' = FALSE
  /\ dirty' = TRUE
  /\ UNCHANGED <<versions, seen, pc, at, held, footprint, faults>>

Dequeue ==
  /\ pc = "idle"
  /\ dirty
  /\ dirty' = FALSE
  /\ pc' = "fetch"
  /\ UNCHANGED <<versions, seen, delayed, at, held, footprint, faults>>

(* Reconcile returns: nothing to do, or again (an error, Requeue or        *)
(* RequeueAfter) once the delay is over.                                   *)
Return(again) ==
  /\ pc' = "idle"
  /\ at' = 1
  /\ held' = 1
  /\ delayed' = (delayed \/ again)
  /\ UNCHANGED <<seen, dirty>>

Goto(l, i, h) ==
  /\ pc' = l
  /\ at' = i
  /\ held' = h
  /\ UNCHANGED <<seen, dirty, delayed>>

NoFault == UNCHANGED faults
Fault == faults < MaxFaults /\ faults' = faults + 1

-----------------------------------------------------------------------------
(* The worker: Reconcile, one call to the API server at a time.            *)

(* Get the Workshop, from the cache.  Not found: done.                     *)
Fetch ==
  /\ pc = "fetch"
  /\ IF Exists(cached) THEN Goto("dispatch", 1, seen) ELSE Return(FALSE)
  /\ NoFault
  /\ UNCHANGED apiVars

(* Mutant: the phases run without the finalizer having been added first.   *)
DispatchWithoutAdopting ==
  /\ pc = "dispatch"
  /\ CASE workshop.deleting /\ workshop.finalizer   -> Goto("teardown", 1, held)
       [] workshop.deleting /\ ~workshop.finalizer  -> Return(FALSE)
       [] ~workshop.deleting                        -> Goto("install", 1, held)
  /\ NoFault
  /\ UNCHANGED apiVars

(* Get the console route, then branch on the deletion mark and the         *)
(* finalizer of the version held.                                          *)
Dispatch ==
  /\ pc = "dispatch"
  /\ CASE workshop.deleting /\ workshop.finalizer   -> Goto("teardown", 1, held)
       [] workshop.deleting /\ ~workshop.finalizer  -> Return(FALSE)
       [] ~workshop.deleting /\ workshop.finalizer  -> Goto("install", 1, held)
       [] ~workshop.deleting /\ ~workshop.finalizer -> Goto("adopt", 1, held)
  /\ NoFault
  /\ UNCHANGED apiVars

(* A Get that fails: return the error.                                     *)
ReadFails ==
  /\ pc \in {"fetch", "dispatch"}
  /\ Return(TRUE)
  /\ Fault
  /\ UNCHANGED apiVars

(* Mutant: the Update carries no resourceVersion.                          *)
NoPrecondition == TRUE

(* Update refuses a version that is no longer the latest (a conflict, or   *)
(* not found when the object is gone).                                     *)
NoConflict == held = Latest

(* Mutant: a refused Update is logged, and the pass goes on.               *)
AddFinalizerIgnoringConflict ==
  /\ pc = "adopt"
  /\ IF NoConflict
     THEN /\ Write([workshop EXCEPT !.finalizer = TRUE])
          /\ Goto("install", 1, Latest + 1)
     ELSE /\ Goto("install", 1, held)
          /\ UNCHANGED versions
  /\ NoFault
  /\ UNCHANGED footprint

(* addFinalizer: the Update writes back the version held with the          *)
(* finalizer added, and leaves the new version in `workshop`.              *)
AddFinalizer ==
  /\ pc = "adopt"
  /\ IF NoConflict
     THEN /\ Write([workshop EXCEPT !.finalizer = TRUE])
          /\ Goto("install", 1, Latest + 1)
     ELSE /\ Return(TRUE)
          /\ UNCHANGED versions
  /\ NoFault
  /\ UNCHANGED footprint

(* The Update fails, or is applied and its answer lost.                    *)
AddFinalizerFails ==
  /\ pc = "adopt"
  /\ UNCHANGED versions \/ (NoConflict /\ Write([workshop EXCEPT !.finalizer = TRUE]))
  /\ Return(TRUE)
  /\ Fault
  /\ UNCHANGED footprint

(* A run of phase p that does not end well leaves more than it found, or   *)
(* less when it is a teardown: PhaseContract, which Rollout implements.    *)
Leave(p, levels) == \E l \in levels : footprint' = [footprint EXCEPT ![p] = l]

(* Mutants: the last phase is not the end of the pass; a finished pass     *)
(* asks for another one.                                                   *)
InstallPhaseNoEnd ==
  /\ pc = "install"
  /\ IF Enabled(Phases[at], workshop.wants)
     THEN Leave(Phases[at], {"full"})
     ELSE UNCHANGED footprint
  /\ IF at > Len(Phases) THEN Return(FALSE) ELSE Goto("install", at + 1, held)
  /\ NoFault
  /\ UNCHANGED versions

InstallPhaseAlwaysAgain ==
  /\ pc = "install"
  /\ IF Enabled(Phases[at], workshop.wants)
     THEN Leave(Phases[at], {"full"})
     ELSE UNCHANGED footprint
  /\ IF at = Len(Phases) THEN Return(TRUE) ELSE Goto("install", at + 1, held)
  /\ NoFault
  /\ UNCHANGED versions

(* The phase succeeds: its script has run to the end.  A phase that the    *)
(* spec leaves out does nothing.                                           *)
InstallPhase ==
  /\ pc = "install"
  /\ IF Enabled(Phases[at], workshop.wants)
     THEN Leave(Phases[at], {"full"})
     ELSE UNCHANGED footprint
  /\ IF at = Len(Phases) THEN Return(FALSE) ELSE Goto("install", at + 1, held)
  /\ NoFault
  /\ UNCHANGED versions

(* A call the phase makes fails, and it returns the error: so does         *)
(* Reconcile, and later phases do not run.                                 *)
InstallPhaseFails ==
  /\ pc = "install"
  /\ Enabled(Phases[at], workshop.wants)
  /\ Leave(Phases[at], AtLeast(footprint[Phases[at]]))
  /\ Return(TRUE)
  /\ Fault
  /\ UNCHANGED versions

(* The phase returns an error though every call is answered as it should:  *)
(* it deletes what an earlier pass left half made, and what is not there   *)
(* is an error to it.  Nothing bounds how often.                           *)
InstallPhaseFailsAgain ==
  /\ pc = "install"
  /\ Phases[at] \in Stubborn
  /\ Enabled(Phases[at], workshop.wants)
  /\ Leave(Phases[at], AtLeast(footprint[Phases[at]]))
  /\ Return(TRUE)
  /\ NoFault
  /\ UNCHANGED versions

(* Mutant: the result's Requeue is dropped, as the User phase's is.        *)
InstallPhaseWaitsUnheard ==
  /\ pc = "install"
  /\ Phases[at] \in MayRequeue
  /\ Enabled(Phases[at], workshop.wants)
  /\ Leave(Phases[at], AtLeast(footprint[Phases[at]]) \ {"none"})
  /\ Return(FALSE)
  /\ Fault
  /\ UNCHANGED versions

(* The phase asks to be run again: it waits for an install plan or for a   *)
(* deployment.                                                             *)
InstallPhaseWaits ==
  /\ pc = "install"
  /\ Phases[at] \in MayRequeue
  /\ Enabled(Phases[at], workshop.wants)
  /\ Leave(Phases[at], AtLeast(footprint[Phases[at]]) \ {"none"})
  /\ Return(TRUE)
  /\ Fault
  /\ UNCHANGED versions

(* handleDelete: the teardown of one phase succeeds.  What is already gone *)
(* is an error, except to the lenient phases; a careless one takes a read  *)
(* that failed, or showed too little, for there being nothing to delete.   *)
TeardownPhase ==
  /\ pc = "teardown"
  /\ footprint[Phases[at]] # "none" \/ Phases[at] \in Lenient
  /\ Leave(Phases[at], IF Phases[at] \in Careless
                       THEN AtMost(footprint[Phases[at]])
                       ELSE {"none"})
  /\ IF at = Len(Phases) THEN Goto("release", 1, held) ELSE Goto("teardown", at + 1, held)
  /\ NoFault
  /\ UNCHANGED versions

(* The teardown of a phase returns an error: handleDelete skips the rest,  *)
(* and Reconcile ignores its result and goes on to remove the finalizer.   *)
TeardownPhaseFails ==
  /\ pc = "teardown"
  /\ Leave(Phases[at], AtMost(footprint[Phases[at]]))
  /\ Goto("release", 1, held)
  /\ NoFault
  /\ UNCHANGED versions

(* Remove the finalizer: the API server then removes the object, which     *)
(* carries a deletion mark and no finalizer any more.                      *)
RemoveFinalizer ==
  /\ pc = "release"
  /\ IF NoConflict
     THEN Write(Nothing) /\ Return(FALSE)
     ELSE UNCHANGED versions /\ Return(TRUE)
  /\ NoFault
  /\ UNCHANGED footprint

RemoveFinalizerFails ==
  /\ pc = "release"
  /\ UNCHANGED versions \/ (NoConflict /\ Write(Nothing))
  /\ Return(TRUE)
  /\ Fault
  /\ UNCHANGED footprint

(* The process dies (a panic, an eviction) and starts again: the queue and *)
(* the worker start empty, the informer lists the current objects and      *)
(* enqueues them.                                                          *)
Crash ==
  /\ seen' = Latest
  /\ dirty' = Exists(cr)
  /\ delayed' = FALSE
  /\ pc' = "idle"
  /\ at' = 1
  /\ held' = 1
  /\ Fault
  /\ UNCHANGED apiVars

-----------------------------------------------------------------------------
User ==
  \/ \E wants \in Specs : CreateWorkshop(wants) \/ EditWorkshop(wants)
  \/ DeleteWorkshop

Informer == \E v \in 1..Latest : WatchEvent(v)

Worker ==
  \/ Fetch
  \/ Dispatch
  \/ AddFinalizer
  \/ InstallPhase
  \/ TeardownPhase
  \/ TeardownPhaseFails
  \/ RemoveFinalizer

Failure ==
  \/ ReadFails
  \/ AddFinalizerFails
  \/ InstallPhaseFails
  \/ InstallPhaseFailsAgain
  \/ InstallPhaseWaits
  \/ RemoveFinalizerFails
  \/ Crash

Next ==
  \/ User
  \/ Informer
  \/ DelayOver
  \/ Dequeue
  \/ Worker
  \/ Failure

Spec == Init /\ [][Next]_vars

(* The one worker is in a teardown that may never return: deleteProject    *)
(* counts on until a call stops it.                                        *)
Hanging == pc = "teardown" /\ Phases[at] \in MayHang

(* The watch delivers, the delaying queue's timer fires, and the worker    *)
(* goroutine runs, except that nothing makes it return from a teardown     *)
(* that may hang; nobody makes the user write, and faults are finite.      *)
Fairness ==
  /\ WF_vars(Informer)
  /\ WF_vars(DelayOver)
  /\ WF_vars(Dequeue)
  /\ WF_vars(Worker /\ ~Hanging)

FairSpec == Spec /\ Fairness

-----------------------------------------------------------------------------
(* Properties.                                                             *)

(* While the worker installs, the API server holds that same Workshop with *)
(* its finalizer: nothing is ever built for an object that could vanish    *)
(* without a teardown, however stale the cache the pass was started from   *)
(* (Reconcile adds the finalizer before the first phase, and the object    *)
(* can only lose it to this worker's own, conflict-checked Update).        *)
FinalizerGuardsInstall ==
  pc = "install" => cr.uid = workshop.uid /\ cr.finalizer

(* A teardown never runs against a Workshop that is in service, i.e. has   *)
(* its finalizer and no deletion mark: not for a stale cache, and not for  *)
(* a Workshop of the same name created after the one being torn down.      *)
TeardownSparesTheLive ==
  pc \in {"teardown", "release"} => ~Guarded(cr)

(* The operator's Updates replace the whole object, yet never undo what a  *)
(* user wrote: a new version of the same object that the worker writes     *)
(* asks for what the version before it asked for, and does not resurrect   *)
(* a deleted one.                                                          *)
NoLostEdit ==
  [][pc' # pc /\ Exists(cr') => cr'.wants = cr.wants /\ cr'.uid = cr.uid
                                /\ cr'.deleting = cr.deleting]_vars

(* Nothing is on its way to the worker.                                    *)
Quiet == pc = "idle" /\ ~dirty /\ ~delayed /\ seen = Latest

Converged ==
  /\ ~cr.deleting
  /\ Exists(cr) =>
       /\ cr.finalizer
       /\ \A p \in Phase : Enabled(p, cr.wants) => footprint[p] = "full"

(* Level-triggering loses no wake-up: whenever the operator has come to    *)
(* rest, the latest spec is fully installed, or a deletion carried out,    *)
(* whatever edits, failures, waits and crashes went before.                *)
RestMeansConverged == Quiet => Converged

(* What the comment above the teardown promises: "If the finalization      *)
(* logic fails, don't remove the finalizer so that we can retry during the *)
(* next reconciliation" (workshop_controller.go:121).                      *)
FinalizerKeptUntilClean ==
  [][cr.finalizer /\ ~cr'.finalizer => \A p \in Phase : footprint[p] = "none"]_vars

(* Once the user stops writing, calls stop failing and waits end, it comes *)
(* to rest: no requeue, conflict or stale read keeps it going by itself.   *)
(* The two ways in which this code does not come to rest are exceptions:   *)
(* the worker never returns from deleteProject (project_reconciler.go:132),*)
(* or a phase fails in every pass over what an earlier one left half made  *)
(* (user_reconciler.go:214).                                               *)
EventuallyAtRest ==
  \/ <>[]Quiet
  \/ <>[]Hanging
  \/ []<><<InstallPhaseFailsAgain>>_vars

-----------------------------------------------------------------------------
(* The refinement mapping to what the operator promises about the object   *)
(* and the things built for it.                                            *)

Stage ==
  CASE ~Exists(cr)                                  -> "absent"
    [] Exists(cr) /\ ~cr.finalizer                  -> "declared"
    [] Exists(cr) /\ cr.finalizer /\ ~cr.deleting   -> "guarded"
    [] Exists(cr) /\ cr.finalizer /\ cr.deleting    -> "terminating"

Built == \E p \in Phase : footprint[p] # "none"

Lifecycle == INSTANCE WorkshopLifecycle WITH stage <- Stage, built <- Built

(* Every step of the reconcile loop, faults and stale reads included, is a *)
(* step of the lifecycle or leaves object and footprint as they were.      *)
KeepsLifecycle == Lifecycle!Spec
=============================================================================
