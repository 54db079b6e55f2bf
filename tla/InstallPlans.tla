------------------------------ MODULE InstallPlans ------------------------------
(***************************************************************************)
(* How the operators the workshop needs get installed: the phases create   *)
(* OLM subscriptions that ask for manual approval, OLM answers with an     *)
(* install plan, and ApproveInstallPlan (controllers/installplan.go)       *)
(* approves it.  The subscription and the plan are read from a cache that  *)
(* runs behind; OLM, the catalogue and the user move at any moment.        *)
(***************************************************************************)
EXTENDS Naturals, Sequences

CONSTANTS
  Subscriptions, \* those the phases create
  Orders,        \* the orders in which a pass may get to them: for each
                 \*   choice of phases that are enabled, that of the code
  Approval,      \* Approval[s]: when the phase of s calls ApproveInstallPlan
  NamespaceOf,   \* OLM resolves the subscriptions of a namespace together
  Latest,        \* bound: versions an operator will ever have, 1..Latest
  Requests,      \* Requests[s]: the versions a spec may name, None among them
                 \*   for a spec that names none
  MaxPlans,      \* bound: install plans OLM generates
  MaxLives,      \* bounds, by order: times the user creates the Workshop,
  MaxEdits,      \*   times it is edited,
  MaxFaults      \*   failed calls and crashes

None == 0                    \* "" for a version, nil for a reference
Version == 1..Latest

ASSUME InstallPlansAssumption ==
  /\ Orders \subseteq Seq(Subscriptions)
  /\ Approval \in [Subscriptions -> {"always", "ifUnreadable", "never"}]
  /\ Latest \in Nat \ {0}
  /\ Requests \in [Subscriptions -> SUBSET (0..Latest)]
  /\ MaxPlans \in Nat
  /\ MaxLives \in [Orders -> Nat]
  /\ MaxEdits \in [Orders -> Nat]
  /\ MaxFaults \in [Orders -> Nat]

VARIABLES
  order,       \* the subscriptions of the phases that are enabled, in turn
  workshop,    \* "none", "live" or "deleting"
  lives,       \* times it has been created
  requested,   \* the version the spec names for each subscription
  everAsked,   \* the versions it has named so far
  catalogue,   \* the newest version published
  sub,         \* the subscriptions at the API server
  seenSub,     \* and in the cache
  plan,        \* the install plans at the API server
  seenPlan,    \* and in the cache
  pc,          \* the worker's next call
  turn,        \* the subscription it is at
  asked,       \* the versions its copy of the spec names
  heldRef,     \* the plan it found in the subscription
  relied,      \* for each subscription, the life of the copy this pass went by
  done,        \* the last pass ended well
  edits, faults

vars == <<order, workshop, lives, requested, everAsked, catalogue, sub, seenSub, plan, seenPlan,
          pc, turn, asked, heldRef, relied, done, edits, faults>>

user == <<order, workshop, lives, requested, everAsked, edits>>
olm == <<catalogue, plan>>
cache == <<seenSub, seenPlan>>
worker == <<pc, turn, asked, heldRef, relied, done>>

-----------------------------------------------------------------------------
(* A subscription belongs to the life of the Workshop that created it, and *)
(* a plan lists versions for the subscriptions of such a life.             *)
Subscription ==
  [life : Nat, starting : 0..Latest, installed : 0..Latest, ref : 0..MaxPlans]
Absent == [life |-> 0, starting |-> None, installed |-> None, ref |-> None]

(* What the spec of a Workshop names; what it says of phases that are not  *)
(* enabled does not matter.                                                *)
Enabled(s) == \E i \in 1..Len(order) : order[i] = s
Specs ==
  {r \in [Subscriptions -> 0..Latest] :
     \A s \in Subscriptions : r[s] \in (IF Enabled(s) THEN Requests[s] ELSE {None})}

Name == [sub : Subscriptions, life : Nat, version : Version]
Phase == {"none", "pending", "approved", "complete", "gone"}
Plan == [names : SUBSET Name, phase : Phase]

TypeOK ==
  /\ order \in Orders
  /\ workshop \in {"none", "live", "deleting"}
  /\ lives \in Nat
  /\ requested \in Specs
  /\ everAsked \in [Subscriptions -> SUBSET (0..Latest)]
  /\ catalogue \in Version
  /\ sub \in [Subscriptions -> Subscription]
  /\ seenSub \in [Subscriptions -> Subscription]
  /\ plan \in [1..MaxPlans -> Plan]
  /\ seenPlan \in [1..MaxPlans -> Plan]
  /\ pc \in {"rest", "subscribe", "readBack", "look", "plan", "update"}
  /\ turn \in 1..Len(order) + 1
  /\ pc \in {"readBack", "look", "plan", "update"} => turn <= Len(order)
  /\ asked \in Specs
  /\ heldRef \in 0..MaxPlans
  /\ pc \in {"plan", "update"} => heldRef # None
  /\ relied \in [Subscriptions -> Nat]
  /\ done \in BOOLEAN
  /\ edits \in Nat
  /\ faults \in Nat

Init ==
  /\ order \in Orders
  /\ workshop = "none"
  /\ lives = 0
  /\ requested \in Specs
  /\ everAsked = [s \in Subscriptions |-> {}]
  /\ catalogue = 1
  /\ sub = [s \in Subscriptions |-> Absent]
  /\ seenSub = sub
  /\ plan = [p \in 1..MaxPlans |-> [names |-> {}, phase |-> "none"]]
  /\ seenPlan = plan
  /\ pc = "rest"
  /\ turn = 1
  /\ asked = requested
  /\ heldRef = None
  /\ relied = [s \in Subscriptions |-> 0]
  /\ done = FALSE
  /\ edits = 0
  /\ faults = 0

-----------------------------------------------------------------------------
(* The user.                                                               *)

Request(r) ==
  /\ requested' = r
  /\ everAsked' = [s \in Subscriptions |-> everAsked[s] \cup {r[s]}]

CreateWorkshop ==
  /\ workshop = "none"
  /\ lives < MaxLives[order]
  /\ workshop' = "live"
  /\ lives' = lives + 1
  /\ Request(requested)
  /\ UNCHANGED <<order, edits, sub, faults, olm, cache, worker>>

EditWorkshop ==
  /\ workshop = "live"
  /\ edits < MaxEdits[order]
  /\ edits' = edits + 1
  /\ \E r \in Specs : r # requested /\ Request(r)
  /\ UNCHANGED <<order, workshop, lives, sub, faults, olm, cache, worker>>

DeleteWorkshop ==
  /\ workshop = "live"
  /\ workshop' = "deleting"
  /\ UNCHANGED <<order, lives, requested, everAsked, edits, sub, faults, olm, cache, worker>>

-----------------------------------------------------------------------------
(* OLM.  A subscription is to get the version it starts with, or the       *)
(* newest if it names none; once installed, the newest that comes.         *)

Target(s) ==
  IF sub[s].installed # None THEN catalogue
  ELSE IF sub[s].starting # None THEN sub[s].starting
  ELSE catalogue

ToInstall(s) ==
  /\ sub[s] # Absent
  /\ Target(s) <= catalogue
  /\ sub[s].installed < Target(s)

TargetName(s) == [sub |-> s, life |-> sub[s].life, version |-> Target(s)]

Proposed(s) == sub[s].ref # None /\ TargetName(s) \in plan[sub[s].ref].names

(* One plan for all subscriptions of the namespace that have a version to  *)
(* come, as soon as there is one without such a plan.                      *)
Resolve(s) ==
  /\ ToInstall(s)
  /\ ~Proposed(s)
  /\ \E p \in 1..MaxPlans :
       LET group == {t \in Subscriptions : NamespaceOf[t] = NamespaceOf[s] /\ ToInstall(t)}
       IN  /\ plan[p].phase = "none"
           /\ \A q \in 1..p-1 : plan[q].phase # "none"
           /\ plan' = [plan EXCEPT ![p] =
                        [names |-> {TargetName(t) : t \in group}, phase |-> "pending"]]
           /\ sub' = [t \in Subscriptions |->
                        IF t \in group THEN [sub[t] EXCEPT !.ref = p] ELSE sub[t]]
  /\ UNCHANGED <<catalogue, faults, user, cache, worker>>

Install(p) ==
  /\ plan[p].phase = "approved"
  /\ plan' = [plan EXCEPT ![p].phase = "complete"]
  /\ sub' = [s \in Subscriptions |->
               LET new == {n \in plan[p].names :
                             /\ n.sub = s
                             /\ n.life = sub[s].life
                             /\ n.version > sub[s].installed}
               IN  IF new = {} THEN sub[s]
                   ELSE [sub[s] EXCEPT !.installed = (CHOOSE n \in new : TRUE).version]]
  /\ UNCHANGED <<catalogue, faults, user, cache, worker>>

(* A plan goes with the subscriptions it was made for.                     *)
Collect(p) ==
  /\ plan[p].phase \in {"pending", "approved", "complete"}
  /\ \A n \in plan[p].names : sub[n.sub].life # n.life
  /\ plan' = [plan EXCEPT ![p] = [names |-> {}, phase |-> "gone"]]
  /\ UNCHANGED <<catalogue, sub, faults, user, cache, worker>>

Publish ==
  /\ catalogue < Latest
  /\ catalogue' = catalogue + 1
  /\ UNCHANGED <<plan, sub, faults, user, cache, worker>>

-----------------------------------------------------------------------------
(* The informers of the worker's client.                                   *)

SubscriptionSeen(s) ==
  /\ seenSub[s] # sub[s]
  /\ seenSub' = [seenSub EXCEPT ![s] = sub[s]]
  /\ UNCHANGED <<seenPlan, sub, faults, user, olm, worker>>

PlanSeen(p) ==
  /\ seenPlan[p] # plan[p]
  /\ seenPlan' = [seenPlan EXCEPT ![p] = plan[p]]
  /\ UNCHANGED <<seenSub, sub, faults, user, olm, worker>>

-----------------------------------------------------------------------------
(* The worker.                                                             *)

At(call) == pc = call /\ turn <= Len(order)
current == order[turn]

Retry == pc' = "rest" /\ done' = FALSE /\ heldRef' = None /\ turn' = 1
NextSubscription ==
  pc' = "subscribe" /\ turn' = turn + 1 /\ heldRef' = None /\ UNCHANGED done

Call(c) == pc' = c /\ UNCHANGED <<turn, heldRef, done>>

(* What the phase makes of a nil from ApproveInstallPlan.  That of         *)
(* Pipelines returns the error that made it call.                          *)
GoOn == IF Approval[current] = "ifUnreadable" THEN Retry ELSE NextSubscription

(* A pass begins: something happened to the Workshop, the last pass is to  *)
(* be repeated, or the informer resyncs.                                   *)
BeginPass ==
  /\ workshop = "live"
  /\ pc = "rest"
  /\ pc' = "subscribe"
  /\ turn' = 1
  /\ asked' = requested
  /\ relied' = [s \in Subscriptions |-> 0]
  /\ UNCHANGED <<heldRef, done, sub, faults, user, olm, cache>>

(* r.Create, tolerating AlreadyExists.                                     *)
Subscribe ==
  /\ At("subscribe")
  /\ sub' = [sub EXCEPT ![current] =
               IF @ # Absent THEN @
               ELSE [Absent EXCEPT !.life = lives, !.starting = asked[current]]]
  /\ CASE Approval[current] = "never" -> NextSubscription
       [] Approval[current] = "always" -> Call("look")
       [] Approval[current] = "ifUnreadable" -> Call("readBack")
  /\ UNCHANGED <<asked, relied, faults, user, olm, cache>>

(* addPipelines goes on if the subscription can be read back, and calls    *)
(* ApproveInstallPlan if it cannot, for whatever reason.                   *)
ReadBack ==
  /\ At("readBack")
  /\ \/ /\ IF seenSub[current] = Absent THEN Call("look") ELSE NextSubscription
        /\ UNCHANGED faults
     \/ /\ faults < MaxFaults[order]
        /\ faults' = faults + 1
        /\ Call("look")
  /\ UNCHANGED <<asked, relied, sub, user, olm, cache>>

(* ApproveInstallPlan: the subscription ...                                *)
Satisfies(s, csv) == IF csv = None THEN s.installed # None ELSE s.installed = csv

(* Mutant: a reference that is not there yet is not checked for.           *)
LookUnchecked ==
  /\ At("look")
  /\ LET found == seenSub[current]
     IN  /\ relied' = [relied EXCEPT ![current] = found.life]
         /\ IF found = Absent THEN Retry
            ELSE IF Satisfies(found, asked[current]) THEN GoOn
            ELSE heldRef' = found.ref /\ pc' = "plan" /\ UNCHANGED <<turn, done>>
  /\ UNCHANGED <<asked, sub, faults, user, olm, cache>>

Look ==
  /\ At("look")
  /\ LET found == seenSub[current]
     IN  /\ relied' = [relied EXCEPT ![current] = found.life]
         /\ IF found = Absent THEN Retry
            ELSE IF Satisfies(found, asked[current]) THEN GoOn
            ELSE IF found.ref = None THEN Retry
            ELSE heldRef' = found.ref /\ pc' = "plan" /\ UNCHANGED <<turn, done>>
  /\ UNCHANGED <<asked, sub, faults, user, olm, cache>>

(* Mutant: the list is compared as a whole.                                *)
ListsAlone(p, csv) == \A n \in p.names : n.version = csv /\ n.sub = current

(* ... the plan it refers to ...                                           *)
Lists(p, csv) == \E n \in p.names : n.version = csv /\ n.sub = current

(* Mutants: the version is not looked for; the check for approval is       *)
(* inverted.                                                               *)
ReadPlanOfAnyVersion ==
  /\ At("plan")
  /\ LET found == seenPlan[heldRef]
     IN  IF found.phase \in {"none", "gone"} THEN Retry
         ELSE IF found.phase = "pending" THEN Call("update")
         ELSE GoOn
  /\ UNCHANGED <<asked, relied, sub, faults, user, olm, cache>>

ReadPlanInverted ==
  /\ At("plan")
  /\ LET found == seenPlan[heldRef]
     IN  IF found.phase \in {"none", "gone"} THEN Retry
         ELSE IF Lists(found, asked[current]) /\ found.phase # "pending"
         THEN Call("update")
         ELSE GoOn
  /\ UNCHANGED <<asked, relied, sub, faults, user, olm, cache>>

ReadPlan ==
  /\ At("plan")
  /\ LET found == seenPlan[heldRef]
     IN  IF found.phase \in {"none", "gone"} THEN Retry
         ELSE IF Lists(found, asked[current]) /\ found.phase = "pending"
         THEN Call("update")
         ELSE GoOn
  /\ UNCHANGED <<asked, relied, sub, faults, user, olm, cache>>

(* ... and its approval: an Update with the resourceVersion of the copy,    *)
(* which was a plan still pending.                                         *)
Approve ==
  /\ At("update")
  /\ IF plan[heldRef].phase = "pending"
     THEN plan' = [plan EXCEPT ![heldRef].phase = "approved"] /\ GoOn
     ELSE UNCHANGED plan /\ Retry
  /\ UNCHANGED <<catalogue, asked, relied, sub, faults, user, cache>>

PassEnds ==
  /\ pc = "subscribe"
  /\ turn > Len(order)
  /\ pc' = "rest"
  /\ turn' = 1
  /\ done' = TRUE
  /\ UNCHANGED <<asked, heldRef, relied, sub, faults, user, olm, cache>>

(* The teardowns delete the subscriptions, or some of them: the first that *)
(* fails is the last.                                                      *)
TearDown ==
  /\ workshop = "deleting"
  /\ pc = "rest"
  /\ workshop' = "none"
  /\ \E D \in SUBSET Subscriptions :
       sub' = [s \in Subscriptions |-> IF s \in D THEN Absent ELSE sub[s]]
  /\ done' = FALSE
  /\ UNCHANGED <<order, lives, requested, everAsked, edits, pc, turn, asked, heldRef, relied,
                 faults, olm, cache>>

(* A call fails, or the process dies.  That the answer to a write is lost  *)
(* comes to the same as a failure just after it.                           *)
CallFails ==
  /\ pc # "rest"
  /\ faults < MaxFaults[order]
  /\ faults' = faults + 1
  /\ Retry
  /\ UNCHANGED <<asked, relied, sub, user, olm, cache>>

-----------------------------------------------------------------------------
WorkerStep ==
  BeginPass \/ Subscribe \/ ReadBack \/ Look \/ ReadPlan \/ Approve \/ PassEnds \/ TearDown

OlmStep ==
  \/ \E s \in Subscriptions : Resolve(s)
  \/ \E p \in 1..MaxPlans : Install(p)

CacheStep ==
  \/ \E s \in Subscriptions : SubscriptionSeen(s)
  \/ \E p \in 1..MaxPlans : PlanSeen(p)

Next ==
  \/ CreateWorkshop \/ EditWorkshop \/ DeleteWorkshop
  \/ OlmStep
  \/ \E p \in 1..MaxPlans : Collect(p)
  \/ Publish
  \/ CacheStep
  \/ WorkerStep
  \/ CallFails

Spec == Init /\ [][Next]_vars

(* OLM resolves and installs, the informers deliver, and the worker runs,  *)
(* again whenever a pass failed and at every resync.                       *)
Fairness == WF_vars(OlmStep) /\ WF_vars(CacheStep) /\ WF_vars(WorkerStep)

FairSpec == Spec /\ Fairness

-----------------------------------------------------------------------------
(* Properties.                                                             *)

(* The version is in, or in a plan that is approved.                       *)
OnItsWay(s, csv) ==
  \/ sub[s].installed >= csv
  \/ \E p \in 1..MaxPlans :
       /\ plan[p].phase \in {"approved", "complete"}
       /\ [sub |-> s, life |-> sub[s].life, version |-> csv] \in plan[p].names

(* A subscription that asks from its start for the version that the pass   *)
(* wants.                                                                  *)
AskedFromTheStart(s) ==
  sub[s] # Absent /\ asked[s] # None /\ sub[s].starting = asked[s]

(* A pass that ends well has the version approved for each subscription it *)
(* asks approval for, unless its copy of the subscription was of an        *)
(* earlier life: a subscription or a plan that is merely behind does no    *)
(* harm.                                                                   *)
ApprovedWhenDone ==
  \A s \in Subscriptions :
    /\ pc = "rest" /\ done
    /\ Approval[s] = "always"
    /\ AskedFromTheStart(s)
    /\ relied[s] = sub[s].life
    => OnItsWay(s, asked[s])

(* An operator that shares its namespace with none is only ever installed  *)
(* at a version the spec has named: newer ones stay in plans that nobody   *)
(* approves, also when the worker reads old plans.                         *)
Alone(s) == \A t \in Subscriptions : NamespaceOf[t] = NamespaceOf[s] => t = s

OnlyWhatWasAsked ==
  \A s \in Subscriptions :
    Alone(s) /\ sub[s].installed # None => sub[s].installed \in everAsked[s]

(* The version a subscription started with gets installed in the end,      *)
(* whatever was read in between (as far as the bound on plans lets OLM     *)
(* propose it).                                                            *)
PlanToCome(s) == Proposed(s) \/ \E p \in 1..MaxPlans : plan[p].phase = "none"

EventuallyInstalled ==
  \A s \in Subscriptions :
    Approval[s] = "always" =>
      <>[](/\ workshop = "live"
           /\ requested[s] \in 1..catalogue
           /\ sub[s].starting = requested[s]
           /\ PlanToCome(s)
           => sub[s].installed >= requested[s])

(* "Approve the installation" (pipelines_reconciler.go:52).                *)
PipelinesApproved ==
  \A s \in Subscriptions :
    /\ pc = "rest" /\ done
    /\ Approval[s] = "ifUnreadable"
    /\ AskedFromTheStart(s)
    => OnItsWay(s, asked[s])
=============================================================================
