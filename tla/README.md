# Verification of the workshop operator

TLA+ models of the Stakater workshop operator (a Kubernetes operator in Go that sets up an
OpenShift cluster for a workshop), checked with TLC and proved about with TLAPS.  All paths below
are relative to the repository (`src/`).

## 1. Inventory

### The system

A cluster administrator writes one `Workshop` custom resource (`api/v1/workshop_types.go`): how many
users, with what prefix, and which infrastructure.  The operator (`main.go`) runs one controller with
one worker.  `Reconcile` (`controllers/workshop_controller.go`) runs thirteen component phases one
after the other, always from the first; each phase creates its objects one API call at a time and some
wait for what other controllers provide.  When the Workshop is deleted, a finalizer keeps it until
`handleDelete` has run the thirteen teardowns, in the same order as the installs.

Everything interacts through the API server.  The operator *reads* (Get, List) from an informer cache
that runs behind and *writes* to the API server directly.  Watch events put the Workshop's key into a
work queue; an error or a `Requeue` result puts it back after a delay.

| Component | State it keeps | Operations | Hard behaviour | What makes it correct |
|---|---|---|---|---|
| Reconcile loop (`workshop_controller.go`, `finalizer.go`) | Workshop object, cache, queue, the copy held by the worker | fetch, add finalizer, install phases, tear down, remove finalizer | stale reads, conflicts, edits in mid-pass, failures, restarts | nothing is built without a finalizer; no live Workshop is torn down; no edit is lost; at rest the spec is installed |
| Users (`user_reconciler.go`) | OpenShift users, role bindings, identities, mappings; one htpasswd secret | list, add, delete, compare and replace the secret | stale or failed lists, half-made users, a secret replaced in two calls | after a good pass exactly the users of the spec exist; the secret names no others, and all of them unless a command failed or its text deceived the count |
| Portal, Project, Bookbag, Nexus, Gitea, Pipelines, GitOps, CodeReady, ServiceMesh, Serverless, Vault, CertManager (`*_reconciler.go`) | namespaces and the objects in them, cluster-scoped objects, subscriptions | create, wait, delete, call by call | namespaces still terminating, garbage collection, calls cut off anywhere, teardown in installation order | a good install has really built everything; a teardown misses nothing and does not trip over itself; installs converge |
| Install plans (`installplan.go`) | OLM's subscriptions and plans, and the cache's copies | subscribe, look, read the plan, approve | stale copies of earlier lives and versions, plans shared by several operators, new versions in the catalogue | what a phase waits for is approved; nothing is that no spec named; in the end it is installed |
| Updates in place (`portal`, `bookbag`, `gitops`, `servicemesh_reconciler.go`) | objects that list the users | create, get, compare, update | stale copies, conflicts, other writers | a good pass has the object up to date; others' writes survive |
| Vault's constraints (`vault_reconciler.go:115`, `:203`) | one object that two functions share | look, copy, delete | who comes first, what the cache shows | there after a pass, gone after a teardown, with the right accounts |
| Loops over projects (`project_reconciler.go`) | the users' projects | count up, add, look, delete | edits of number and name, projects that terminate, where the loop stops | every user has a project; loops end |
| HTTP requests (`gitea`, `codeready_reconciler.go`) | accounts and workspaces at the servers | ask | refusals nobody looks at, an empty answer | the pass gets through |
| Deployment watch (`common/kubernetes/k8s_helpers.go`) | a Deployment's status | wait | a wait of minutes on the only worker | what is awaited is noticed |
| Object constructors (`common/*`) | none | fill in object literals | none | not modelled |
| Manifests (`charts/`, `bundle/`, `deploy/`, `config/`, `hack/`) | none | none | none | not modelled |

The hazards, each at its line and with the properties that cover it, are listed in `PROJECT.json`.

## 2. Modules

| Module | Models |
|---|---|
| `WorkshopLifecycle` | abstract: what the operator promises about one Workshop and what is built for it |
| `WorkshopPhases` | the table of the thirteen phases: order, switches, which ask to be run again or can fail for ever, which teardowns tolerate that nothing is there, leave things or may not return |
| `PhaseLevels` | how much of a phase is there, and how a run of its script may change that |
| `PhaseContract` | abstract: what the reconcile loop takes for granted of a phase |
| `WorkshopController` | the reconcile loop; implements `WorkshopLifecycle` |
| `UserRoster` | abstract: what the user phase promises about accounts and logins |
| `WorkshopUsers` | the user phase, call by call; implements `UserRoster` |
| `Rollout` | how any other phase builds and takes down its objects, call by call, for scripts given as constants; implements `PhaseContract` |
| `ComponentPlans` | the scripts of the twelve other phases, as in the code |
| `InstallPlans` | subscriptions, install plans, OLM and `ApproveInstallPlan`, read through the cache |
| `InPlaceUpdates` | Create, Get, compare and Update of one object, in the five ways of the reconcilers |
| `VaultConstraints` | the security context constraints that two functions share |
| `ProjectLoops` | the two loops over the users' projects |
| `MCWorkshopController`, `MCWorkshopUsers`, `MCRollout`, `MCRolloutScripts`, `MCInstallPlans`, `MCVaultConstraints`, `MCProjectLoops` | instances for TLC |
| `WorkshopController_proofs`, `WorkshopUsers_proofs`, `Rollout_proofs`, `ComponentPlans_proofs`, `InstallPlans_proofs`, `InPlaceUpdates_proofs`, `VaultConstraints_proofs`, `ProjectLoops_proofs` | theorems and proofs |

The modules detail one another: a phase is one step of `WorkshopController`, a script of single calls in
`Rollout`, and `PhaseContract` is what joins them (the operators of `PhaseLevels` are what a failed run may
leave in the one, and what a single call may do in the other); a wait for an operator, one step there, is
the dialogue of `InstallPlans`; the `create` of an object that may be updated is the whole of
`InPlaceUpdates`; `createIfMissing` and the loops' `look` are detailed in `VaultConstraints` and
`ProjectLoops`.

### How state and actions correspond to the code

**WorkshopController.** `versions` is the history of the object at the API server and an index into it is a
resourceVersion; `seen` is the cache's version and `held` the version in the worker's variable `workshop`.
`Fetch` is the first `r.Get`; `Dispatch` the read of the console route and the branch on deletion mark and
finalizer; `AddFinalizer` and `RemoveFinalizer` are the two `r.Update` calls with the conflict check of the
API server; `InstallPhase...` is one `if result, err := r.reconcileX(...)` block; `TeardownPhase...` one
block of `handleDelete`.  `InstallPhaseFailsAgain` is a phase that returns an error with every call answered
as it should be, which nothing bounds: `reconcileUser` over a half-made user it has to delete, `addGitOps`
over projects that do not exist (`Stubborn`).  A teardown that succeeds leaves nothing, except of the phases
that list or get first and take a failed or stale answer for "nothing to do" (`Careless`); one may never
return (`MayHang`: `deleteProject`).  `Return` is what controller-runtime's `reconcileHandler` does with the
result.  The three `WatchEvent`, `DelayOver`, `Dequeue` are the informer, the delaying queue and the
worker's loop; `Crash` is the end of the process and its restart. `footprint` says of each phase how much
its script has asked for and not taken back, in the levels of `PhaseLevels`: a run of the install may leave
any level that is `AtLeast` the one it found, a run of the teardown any that is `AtMost` it.  Terminating
namespaces and garbage collection are the subject of `Rollout`.

**WorkshopUsers.** One action per API call of `addUser`, `deleteOpenshiftUser`, `createUserHtpasswd`
and `deleteUserHtpasswd`, in their order, for one user after another in any order (the code ranges over
a map and a list).  `cachedUsers` and `cachedSecret` are what List and Get show.  `ListFails` is the
error that is only logged, `CommandsFail` an htpasswd command whose error is only logged too, so that
the secret is made without some of its users.  The Gets of `addUser` and `deleteOpenshiftUser` only feed the
content of an identity and are part of the call after them.  `OutOfDate` is the comparison of the spec's number
with `strings.Count` of the prefix over the whole text of the secret: the users under the prefix, of each of
whom the line has it once at least, and any number of times more by `accidental` (in a hash, in a name of
another prefix).  `NameOf` gives the names; two prefixes may share some (`user` + 11, `user1` + 1).
`blind`, `garbled` and `interrupted` observe: a pass is blind when something it read
differed from what was there (or a read failed), and `interrupted` collects the users in the middle of
whose calls some pass was cut off; it is garbled when a command failed or the count was right only by
accident.  The Workshop's own lifecycle is reduced to `cr` and `due`; it is
detailed in `WorkshopController`.  For `UserRoster`, the aim of a pass is the users of the spec it was
started with (none for a teardown), the logins are those for whom the secret was made, and it is
trusted as long as it is neither `blind` nor `garbled`.

**Rollout and ComponentPlans.** A script is a sequence of steps, each one call of the code: `create`
(Create that takes AlreadyExists for success), `createIfMissing` (Get from the cache, then Create),
`await` (ApproveInstallPlan, GetDeploymentStatus: go on or be run again), `delete` (Delete whose
not-found is an error), `deleteIfFound`, `look` (the loops that ask with Get whether to go on),
`require` (the teardowns that patch finalizers off what they have just deleted).  Creating into a
terminating namespace is refused, as by the API server; deleting a namespace only marks it; `Vanish` is
the namespace controller, or the garbage collector taking what a former Workshop owned (`Dependents`:
the redis volume claim and deployment, the portal deployment and route).  `Provide` is the other
controllers.  The teardown runs after an install that was cut off at any call, and a new life of the
Workshop starts over whatever the last one left.  `ask` is a request over HTTP whose refusal nobody looks
at, so the pass goes on either way; `insist` is the one that takes an account to be there (from an empty
list of accounts it takes the first, and the process dies).  For `PhaseContract`, the level is how much of
what the install script creates is there to stay (`Level`: what is terminating, or in a namespace that is,
does not count, nor do requests over HTTP), and `basis` tells whether a teardown found anything; phases whose
scripts do not have the shapes needed (Portal, Serverless, Vault, Project, GitOps) take no part in it.

**InstallPlans.** `Subscribe` is the phase's `r.Create`, `Look` and `ReadPlan` the two `GetObject` calls of
`ApproveInstallPlan` with the decisions made on them, `Approve` its `r.Update`, which the API server
refuses if the copy was of an earlier state of the plan.  `Approval[s]` says how the phase of a
subscription uses it: always (CodeReady, service mesh, ...), only if the subscription cannot be read back
(Pipelines, `ReadBack`) or never (serverless).  OLM resolves all subscriptions of a namespace into one
plan, installs what is approved and then proposes newer versions (`Resolve`, `Install`); `Publish` is the
catalogue; `relied` observes of which life of the Workshop the copy was that the pass went by.

**InPlaceUpdates.** `Create`, `Get` (with the comparison) and `Update` are the three branches of the code
after `r.Create`; `kind` says what is compared and what is written back: `exact` (policy, AppProject),
`list` (member roll, roles for Jaeger: the same, but an empty list is never found equal to the absent one
that is read back), `contained` (argocd-cm, compared by `IsIntersectMap`), `always` (the cluster secret,
compared by a field that is never filled in on reading) and `overwrite` (deployments: the new object is
written, without a resourceVersion, so it is never refused).  `blind` observes that the copy was not the
latest.

**VaultConstraints.** `Look` and `Create` are the `r.Get` and `r.Create` in `addVaultServer` and
`addVaultAgentInjector`, one function after the other (`turn`); `LookAgain` and `Delete` those of the two
teardowns.  `deceived` and `passedBy` observe what the cache hid.

**ProjectLoops.** `id` is the variable of both loops, `call` the place among the four calls for one
project; a Get that fails counts as found (`LookFails`).  `Beyond` stands for all ids past every number a
spec may give: a loop that gets there stays there, which is how a loop without an end shows.

## 3. Runs

| Run | Question | Bounds | Distinct states |
|---|---|---|---|
| `Controller` | all properties of the loop, liveness and refinement of `WorkshopLifecycle` included | 4 phases (one that always runs, the lenient one, one that waits, two that share a switch; one of them stubborn, two careless, one that may hang), 2 specs, users write until there are 5 versions, 2 faults | 102,369 |
| `Controller_cleanup` | finding 1 | all 13 phases, 1 fault | stops at the violation |
| `Users_safety` | what a good pass has established; nesting; accounts and secret only ever move towards the spec (refinement of `UserRoster`) | 2 prefixes (symmetric), 1 or 2 users, 3 edits, 1 fault, the prefix at most once by accident in the secret | about 2.2 million |
| `Users_liveness` | passes end, for numbers out of range too | 2 prefixes, -1, 0 or 1 users, 3 edits, 1 fault, 1 accident | 153,013 |
| `Rollout_safety` | a good install has built everything; a finished teardown misses nothing; that of a full installation does not trip over itself; a run does to what is built only what the reconcile loop takes for granted (refinement of `PhaseContract`) | 13 scripts (CodeReady's with and without OAuth), 2 users, 3 lives, 3 faults | 344,612 |
| `Rollout_liveness` | installs converge; the premises of the theorems on the real scripts | 13 scripts, 2 users, 2 lives, 1 fault | 43,664 |
| `Rollout_retry` | finding 2 | Nexus, 1 life, 1 fault | stops at the violation |
| `InstallPlans` | what is approved, what is never installed, what is in the end | CodeReady alone in its namespace (2 lives, 1 edit, with and without a version), Pipelines and mesh together, serverless; 2 versions, 2 plans, 1 fault | 465,021 |
| `InstallPlans_pipelines` | finding 3 | Pipelines alone, no fault | stops at the violation |
| `InPlaceUpdates` | a good pass brings the object up to date; others' writes stay; it gets there | the 5 kinds, 2 users, 2 lives, 2 edits, 1 write of others, 1 fault | 342,664 |
| `Vault_constraints` | the constraints are there, or gone, and list the server | both accounts, 3 lives, 2 faults | 1,816 |
| `Project_loops` | every user has a project; loops end | one name and the empty one, -1 to 2 users, 2 lives, 1 edit, 1 fault | 239,462 |

Why the bounds are enough.  The loop treats a phase only by its switches and by whether it waits or is
lenient, stubborn, careless or may hang: the four phases have every kind.  Five versions allow a
Workshop to be created, adopted, edited, deleted and created anew under one pass's feet.  With two users and
two prefixes a pass has one to keep, one to delete and one to add; two edits and a deletion take the spec
through every kind of change.  A second life shows what the remains of a first do, a third what the remains
of remains do.  One fault in the user phase already gives every interruption; further ones only repeat it at
another place.  One accident is enough to make the count of one user right for two, or of none for one; the
names of the two prefixes of the instance differ, and the theorems cover prefixes that share some.  In
`InstallPlans` two versions give one that a spec names and a newer one it does not, and
two plans an old and a new one; the third plan would only repeat the step from first to second.  In
`InPlaceUpdates` two edits take the number up and down past a copy in flight, and one write of others makes
such a copy old; its order among the worker's calls is free.  In `Project_loops` one name that is not empty
is enough, as names do not interact.  What the bounds leave open is settled by the theorems for the
properties they cover.  Deadlock is not checked: users stop writing at the bounds, and at rest nothing has
to happen.

### Results that do not hold, and where they are recorded

1. *Finding, `FinalizerKeptUntilClean`.*  The comment at `controllers/workshop_controller.go:121` promises
   that the finalizer stays if finalization fails; line 127 discards the teardown's result.
2. *Finding, `RetryFinishesTheJob`.*  The retry of that comment could not finish the job: a teardown run
   again gives up at the first object its predecessor deleted.
3. *Finding, `PipelinesApproved`.*  Under the comment "Approve the installation" the check of the error is
   the wrong way round (`controllers/pipelines_reconciler.go:51`): the plan is approved only if the
   subscription cannot be read, and then the pass ends in an error.
4. `FullTeardownEnds` leaves out Project and Bookbag (their loops always run one user too far and end with
   not found), GitOps and ServiceMesh (they patch objects they have deleted) and Vault (a stale Get of the
   security context constraints leads to a second Delete).  As `handleDelete` stops at the first error,
   everything after Project stays in the cluster whenever Project is enabled.  A teardown of CodeReady
   without OAuth fails as well if some user's workspace was refused, which nobody notices: the property is
   about full installations.
5. `InstalledMeansThere` leaves out Serverless (nothing is put into the Knative namespaces, so a
   terminating one is taken for installed), Portal (objects of a former Workshop are taken for existing and
   then collected) and Vault (a stale Get shows the deleted constraints).
6. `RemovedMeansGone` leaves out Project and GitOps (the loop may stop early on a stale Get) and Vault; and
   of all scripts what was only asked for over HTTP: with OAuth nobody deletes the users' workspaces.
7. `EventuallySettles` has an exception in its statement: a half-made user that is to be deleted fails every
   later pass at its first call.  `EventuallyAtRest` makes the same one for the loop as a whole
   (`InstallPhaseFailsAgain` infinitely often).
8. GitOps never converges without Project, whose namespaces it puts roles into; the model runs its script
   after that of Project.
9. `ApprovedWhenDone` excludes a pass that went by the copy of a subscription of an earlier life: that one
   says "installed", and the phase goes on.  It and `EventuallyInstalled` are about specs that name a
   version, and the one the subscription was created with: an empty name is on no plan's list, and a
   subscription is never updated after an edit.
10. `OnlyWhatWasAsked` is about operators alone in their namespace: those that share one are approved and
   upgraded together, whatever their specs say.  Of the operators that are approved these are CodeReady
   (namespace `workspaces`) and Elasticsearch (`openshift-operators-redhat`); GitOps, service mesh, Jaeger,
   Kiali and Pipelines share `openshift-operators`.
11. `ServerIsListed` says nothing of the agent injector, whose account is listed only if the server's
   function passed the constraints by, and excludes that case for the server.
12. `PassBringsUpToDate` excludes passes by an old copy, which may take it for up to date, and of the config
   map it says only that the wanted entries are there: entries no longer wanted are never removed.
   `OthersAreKept` leaves out the config map and the deployments, where others' writes are overwritten.
13. `LoopsEnd` excludes the teardown of a project phase that is switched on without a name: with at most one
   user, or after a Get that failed, it counts on for ever, on the only worker.  `EventuallyAtRest` therefore
   excludes a worker that stays in such a teardown, and the fairness of the worker does not say it returns.
   That a Workshop marked for deletion goes in the end does not hold either.
14. No property is stated of what the teardown of the project phase deletes: only the projects from the last
   user on, after which it ends in an error (`project_reconciler.go:140`).
15. `PassSettlesSecret` excludes what the code does not establish: a secret some user is missing from as an
   htpasswd command failed (`user_reconciler.go:142`), and one of an earlier spec that is kept because the
   prefix is in its text as often as there are to be users (`:164`).  Of these it says that the secret
   exists and names no more users under the prefix than there are to be.
16. `PassSettlesUsers`, `PassSettlesSecret` and `RemovalSettles` are about passes that saw the cluster as it
   was; a teardown whose List fails succeeds and leaves the users (`Careless` in the loop).

For the scripts each exclusion is named in `ComponentPlans` (`AnchoredPhases`, `OrderlyPhases`,
`CoveredPhases`); `KeepsContract` is about the seven phases (CodeReady with and without OAuth)
that are both anchored and covered.  The reconcile loop treats the other five in the same way, and for them is
wrong in what items 4 to 6 say.

### Fairness

`WorkshopController`: weak fairness of the informer's delivery (a watch delivers, or lists again), of the
delay's timer, of the worker picking up a request and of the worker's fault-free step, but not of its return
from a teardown that may hang; none for users, and faults are bounded, which says that calls do not fail for
ever.  `InstallPhaseFailsAgain` is no fault and not bounded.  `WorkshopUsers`: weak fairness of the
pass and of the cache.  `Rollout`: weak fairness of the worker's install and teardown steps and of the
namespace controller and garbage collector; strong fairness of `Provide`, because the waiting pass
is only now and then at the step that waits, while the other controllers work all the time; and strong
fairness of `Granted`, that a request made again and again is granted some time, which is only assumed of
servers the script has waited for.  `InstallPlans`: weak fairness of OLM, of the informers and of the
worker, whose passes come again after an error and at the informer's resync.  `InPlaceUpdates` and
`VaultConstraints`: weak fairness of the worker and of the cache.  `ProjectLoops`: weak fairness of the
worker alone.

## 4. Theorems

All are proved for every value of the constants that satisfies the named assumption of the module.

**Reconcile loop** (`WorkshopController_proofs`, from `ControllerAssumption`): `TypeCorrect`,
`InstallIsGuarded`, `LiveIsSpared`, `RestIsConverged`, `EditsSurvive` and `ImplementsLifecycle`.  None of
these is inductive.  The invariant is `IInv == TypeOK /\ HistorySound /\ CacheSound /\ HeldSound /\
WakeUpsKept`.  `CacheSound` says what a version between the cache's and the latest tells about the latest:
one in service means that the same object is still there with its finalizer, one with a deletion mark that
no Workshop is in service. `HeldSound` carries that over to the version the worker holds, which the cache
may have left behind. `WakeUpsKept` says that without a request in the queue the worker holds what the cache
shows or what it wrote itself, and that the phases behind it are installed.

**User phase** (`WorkshopUsers_proofs`, from `UsersAssumption`): `UsersTypeCorrect`, `ObjectsAlwaysNest`,
`UsersAreSettled`, `SecretIsSettled`, `RemovalIsSettled`, for any prefixes and numbers, also negative ones.
`CallsMade` adds to nesting which calls for the current user have been made, and `RestThere` that a deletion
that has begun finds the rest; hence a user is whole unless a loop is at it or `interrupted` names it
(`Whole`).  `Progress` says how far a pass with a true list has got: which users are there is, at every call,
what is sought but for those in `missing` or `todo`.  A user counts from `addUser`'s first call to
`deleteOpenshiftUser`'s last, so the opposite order of the calls is what makes a list by users complete, and
what is not listed empty (`AbsentIsEmpty`).  `SecretIsSettled` supposes nothing of the text of a secret: a
count that equals the number, with any number of accidents, bounds the names under the prefix, and where
there was no accident and no gap it makes them the ones wanted (`UpToDateIsRight`, from `NumberedCount`, a
bijection with `1..n`).  `ImplementsRoster` is the refinement of `UserRoster`.  That even a misled pass
moves every account towards its spec rests on `Aims`: whatever a pass has read, what it is still to delete
is not sought, and what it is still to add is.  That a pass which was not misled ends only where
it was going (`Reached`) is `Progress` at the pass's last step.

**Scripts** (`Rollout_proofs`, from `RolloutAssumption`): `RolloutTypeCorrect` holds for all scripts.  The
others hold for every script of a certain shape, however long, with any number of faults and lives:
`InstalledIsThere` for scripts that are `Anchored`, `RemovedIsGone` for `Covered`, `OrderlyTeardownEnds` for
`Orderly` ones, and `PhasesKeepContract`, the refinement of `PhaseContract`, for those that are anchored and
covered.  The invariants are what a pass has behind it (`BuiltSoFar`, `GoneSoFar`), what is still before it
(`StillToDelete`), that nothing is in a namespace that does not exist (`HomesThere`): an object that stays
vouches for its namespace, which is why an empty namespace is not covered; and, for the contract, that a
teardown which found nothing does not get past its first Delete of something the phase creates
(`FoundNothing`).  `RunsAddUp` says that what single calls may do adds up to what the reconcile loop lets a
whole run do.

**The code's scripts** (`ComponentPlans_proofs`, from `PlansAssumption`: at least one user): the scripts of
`ComponentPlans` have these shapes for every number of users, hence `CodeInstalledIsThere` (nine phases),
`CodeRemovedIsGone` (nine), `CodeTeardownEnds` (seven) and `CodeKeepsContract` (seven), the theorems of
`Rollout_proofs` for the phases as they are coded.  A script is put together from lists of steps, from one
list per user (`PerUserScript`) and by concatenation (`ConcatScript`).  What the shapes ask for is proved of
the pieces and carried over to the whole: what an install creates and asks for (`Installing`), what a
teardown deletes (`Removing`), that it deletes everything once and a namespace after what is in it (`Tidy`),
and that no look leads beyond the end (`Reach`).  No induction over the number of users is needed, since
`PerUser` gives the i-th step by division. TLC evaluates the same shapes for two users (`ScriptsAreSound` in
`MCRolloutScripts`).

**Install plans** (`InstallPlans_proofs`, from `InstallPlansAssumption`): `PlansTypeCorrect`,
`OnlyAskedForIsInstalled`, `PassesApprove`, for any subscriptions, orders of phases and versions.  The first
rests on `AskedBefore` (every version that is requested, held, started with or approved is one some spec
has named), `OneEach` (a plan lists one version of a subscription), `CopiesAgree` (plans never change what
they list, so an old copy lists the same), `UpdateListed` and `ApprovedAsked`.  The second rests on
`LivesInOrder` (cached copies are of no later life), `ReferencesHold` and `StartFirst` (the first plan of a
subscription is for the version it starts with) and `SettledSoFar` (what a pass has behind it is approved).

**Updates in place** (`InPlaceUpdates_proofs`): `UpdatesTypeCorrect`, `PassesBringUpToDate`, `OthersStay`.
The last rests on `CopiesAreTrue`: a copy of the object's revision is the object, so an Update the API server
accepts starts from what is there.

**Vault's constraints** (`VaultConstraints_proofs`): `VaultTypeCorrect`, `PassesAndTeardownsEndWell`,
`ServerStaysListed`, for any number of functions that share them.

**Loops over projects** (`ProjectLoops_proofs`): `LoopsTypeCorrect`, `PassesServeEveryUser`, for any names
and numbers of users.  The invariant is what the loop has behind it: every project before `id` is complete,
and within the current one everything before `call`.

**Only model-checked.** Liveness (`EventuallyAtRest`, `EventuallySettles`, `InstallConverges`,
`EventuallyInstalled`, `ThereInTheEnd`, `EventuallySuits`, `LoopsEnd`): out of the prover's reach.

## 5. What is not modelled

- Tokens, passwords and the devfile, which are fetched over HTTP and not kept; a token exchange whose answer
  has none ends the process (`controllers/codeready_reconciler.go:392`), as `insist` does.
- The content of objects other than what the properties are about: most are never updated when the spec
  changes (the passwords of Argo CD, `gitops_reconciler.go:189`, or the mesh users' binding,
  `servicemesh_reconciler.go:175`).  In `Rollout` the Get that follows AlreadyExists counts as part of the
  create; its failure is a fault.
- Two Workshops: they share the users' label, the secret and all namespaces.
- The loop of Bookbag's install past the last user, which reads names nothing has
  (`bookbag_reconciler.go:48` and `:75`) and writes nothing.
- Finalizers of custom resources and volume claims: what is not a namespace is gone when deleted.  A
  UserIdentityMapping's effect on its user and identity.
- The seven-minute watch of a Deployment, log output, metrics, leader election, manifests, vendored code
  (other than the behaviour of controller-runtime described above), the constructors under `common/`.

## 6. Plan

Done: the reconcile loop with its abstraction and proofs; the user phase, implementing its own; the scripts
of the other phases with their requests over HTTP, the contract between them and the reconcile loop, and the
proof that the scripts of the code keep it; install plans; updates in place; Vault's constraints; the
loops over projects.

Next, in this order:

1. The reconcile loop with a phase's script instead of its one step, shown to implement `WorkshopController`
   by way of `PhaseContract`.
2. `InstallPlans` as the detail of the `await` step of `Rollout`, shown by a refinement.
3. Two Workshops sharing users and secret, should that be meant to work.
