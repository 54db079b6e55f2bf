-------------------------- MODULE InstallPlans_proofs --------------------------
(***************************************************************************)
(* Theorems about InstallPlans for every set of subscriptions, namespaces  *)
(* and orders, and for any number of versions, plans, lives, edits and     *)
(* faults.                                                                 *)
(***************************************************************************)
EXTENDS InstallPlans, SequenceTheorems, TLAPS

LEMMA OrderTyped ==
  ASSUME TypeOK
  PROVE  /\ order \in Seq(Subscriptions)
         /\ Len(order) \in Nat
         /\ \A i \in 1..Len(order) : order[i] \in Subscriptions
<1>1. order \in Seq(Subscriptions)
  BY InstallPlansAssumption DEF TypeOK
<1> QED
  BY <1>1, ElementOfSeq, LenProperties

LEMMA CurrentTyped ==
  ASSUME TypeOK, turn <= Len(order)
  PROVE  current \in Subscriptions
<1>1. turn \in 1..Len(order)
  BY OrderTyped DEF TypeOK
<1> QED
  BY <1>1, OrderTyped DEF current

LEMMA AbsentTyped == Absent \in Subscription /\ Absent.installed = None /\ Absent.life = 0
BY InstallPlansAssumption DEF Absent, Subscription, None

LEMMA AskedTyped ==
  ASSUME TypeOK, NEW s \in Subscriptions
  PROVE  asked[s] \in 0..Latest /\ requested[s] \in 0..Latest
BY DEF TypeOK, Specs

(* The fields of a subscription and of a name.                             *)
LEMMA SubTyped ==
  ASSUME TypeOK, NEW s \in Subscriptions
  PROVE  /\ sub[s] \in Subscription
         /\ sub[s].life \in Nat /\ sub[s].starting \in 0..Latest
         /\ sub[s].installed \in 0..Latest /\ sub[s].ref \in 0..MaxPlans
BY DEF TypeOK, Subscription

LEMMA NamesTyped ==
  ASSUME TypeOK, NEW p \in 1..MaxPlans, NEW n \in plan[p].names
  PROVE  n \in Name /\ n.sub \in Subscriptions /\ n.life \in Nat /\ n.version \in Version
BY DEF TypeOK, Plan, Name

LEMMA TargetTyped ==
  ASSUME TypeOK, NEW s \in Subscriptions, ToInstall(s)
  PROVE  Target(s) \in Version /\ TargetName(s) \in Name
<1>1. Target(s) \in 0..Latest
  BY InstallPlansAssumption, SubTyped DEF Target, TypeOK, Version
<1>2. Target(s) \in Version
  BY <1>1, SubTyped, InstallPlansAssumption DEF ToInstall, Version
<1> QED
  BY <1>2, SubTyped DEF TargetName, Name

(* What Resolve, Install and Subscribe make of the subscriptions and plans. *)
Group(s) == {t \in Subscriptions : NamespaceOf[t] = NamespaceOf[s] /\ ToInstall(t)}

ResolvedAs(s, p) ==
  /\ plan[p].phase = "none"
  /\ plan' = [plan EXCEPT ![p] =
               [names |-> {TargetName(t) : t \in Group(s)}, phase |-> "pending"]]
  /\ sub' = [t \in Subscriptions |-> IF t \in Group(s) THEN [sub[t] EXCEPT !.ref = p] ELSE sub[t]]

LEMMA ResolveEffect ==
  ASSUME NEW s \in Subscriptions, Resolve(s)
  PROVE  /\ \E p \in 1..MaxPlans : ResolvedAs(s, p)
         /\ UNCHANGED <<catalogue, faults, user, cache, worker>>
BY DEF Resolve, ResolvedAs, Group

LEMMA ResolvedTyped ==
  ASSUME TypeOK, NEW s \in Subscriptions, NEW p \in 1..MaxPlans, ResolvedAs(s, p)
  PROVE  plan' \in [1..MaxPlans -> Plan] /\ sub' \in [Subscriptions -> Subscription]
<1>1. {TargetName(t) : t \in Group(s)} \subseteq Name
  BY TargetTyped DEF Group
<1>2. [names |-> {TargetName(t) : t \in Group(s)}, phase |-> "pending"] \in Plan
  BY <1>1 DEF Plan, Phase
<1>3. plan' \in [1..MaxPlans -> Plan]
  BY <1>2 DEF ResolvedAs, TypeOK
<1>4. p \in 0..MaxPlans
  BY InstallPlansAssumption
<1>5. ASSUME NEW t \in Subscriptions PROVE [sub[t] EXCEPT !.ref = p] \in Subscription
  BY <1>4, SubTyped DEF Subscription
<1> QED
  BY <1>3, <1>5, SubTyped DEF ResolvedAs

New(s, p) == {n \in plan[p].names : n.sub = s /\ n.life = sub[s].life /\ n.version > sub[s].installed}

LEMMA InstallEffect ==
  ASSUME TypeOK, NEW p \in 1..MaxPlans, Install(p)
  PROVE  /\ plan[p].phase = "approved"
         /\ plan' = [plan EXCEPT ![p].phase = "complete"]
         /\ UNCHANGED <<catalogue, faults, user, cache, worker>>
         /\ sub' \in [Subscriptions -> Subscription]
         /\ \A s \in Subscriptions :
              \/ sub'[s] = sub[s]
              \/ \E n \in plan[p].names :
                   /\ n.sub = s /\ n.life = sub[s].life /\ n.version > sub[s].installed
                   /\ sub'[s] = [sub[s] EXCEPT !.installed = n.version]
<1>1. sub' = [s \in Subscriptions |->
                IF New(s, p) = {} THEN sub[s]
                ELSE [sub[s] EXCEPT !.installed = (CHOOSE n \in New(s, p) : TRUE).version]]
  BY DEF Install, New
<1>2. ASSUME NEW s \in Subscriptions
      PROVE  /\ sub'[s] \in Subscription
             /\ \/ sub'[s] = sub[s]
                \/ \E n \in plan[p].names :
                     /\ n.sub = s /\ n.life = sub[s].life /\ n.version > sub[s].installed
                     /\ sub'[s] = [sub[s] EXCEPT !.installed = n.version]
  <2>1. CASE New(s, p) = {}
    BY <1>1, <2>1, SubTyped
  <2>2. CASE New(s, p) # {}
    <3> DEFINE n == CHOOSE m \in New(s, p) : TRUE
    <3>1. n \in New(s, p)
      BY <2>2
    <3>2. /\ n \in plan[p].names
          /\ n.sub = s /\ n.life = sub[s].life /\ n.version > sub[s].installed
      BY <3>1 DEF New
    <3>3. sub'[s] = [sub[s] EXCEPT !.installed = n.version]
      BY <1>1, <2>2
    <3>4. n.version \in 0..Latest
      BY <3>2, NamesTyped DEF Version
    <3>5. [sub[s] EXCEPT !.installed = n.version] \in Subscription
      BY <3>4, SubTyped DEF Subscription
    <3> HIDE DEF n
    <3> QED
      BY <3>2, <3>3, <3>5
  <2> QED
    BY <2>1, <2>2
<1> QED
  BY <1>1, <1>2 DEF Install
-----------------------------------------------------------------------------
(* The worker's part of the state.                                         *)
WorkerTyped ==
  /\ pc \in {"rest", "subscribe", "readBack", "look", "plan", "update"}
  /\ turn \in 1..Len(order) + 1
  /\ pc \in {"readBack", "look", "plan", "update"} => turn <= Len(order)
  /\ heldRef \in 0..MaxPlans
  /\ pc \in {"plan", "update"} => heldRef # None
  /\ done \in BOOLEAN

LEMMA RetryTyped == ASSUME TypeOK, Retry, order' = order PROVE WorkerTyped'
<1>1. Len(order) \in Nat
  BY OrderTyped
<1>2. turn' \in 1..Len(order') + 1 /\ heldRef' \in 0..MaxPlans
  BY <1>1, InstallPlansAssumption DEF Retry, None
<1> QED
  BY <1>2 DEF Retry, WorkerTyped

LEMMA NextTyped ==
  ASSUME TypeOK, NextSubscription, turn <= Len(order), order' = order
  PROVE  WorkerTyped'
<1>1. Len(order) \in Nat
  BY OrderTyped
<1>2. turn' \in 1..Len(order') + 1 /\ heldRef' \in 0..MaxPlans
  BY <1>1, InstallPlansAssumption DEF NextSubscription, None, TypeOK
<1>3. pc' = "subscribe" /\ done' \in BOOLEAN
  BY DEF NextSubscription, TypeOK
<1> QED
  BY <1>2, <1>3 DEF WorkerTyped

LEMMA CallTyped ==
  ASSUME TypeOK, NEW c \in {"readBack", "look", "plan", "update"}, Call(c), turn <= Len(order),
         c \in {"plan", "update"} => heldRef # None, order' = order
  PROVE  WorkerTyped'
BY DEF Call, WorkerTyped, TypeOK

LEMMA GoOnTyped ==
  ASSUME TypeOK, GoOn, turn <= Len(order), order' = order
  PROVE  WorkerTyped'
BY RetryTyped, NextTyped DEF GoOn

LEMMA SubscribeEffect ==
  ASSUME TypeOK, Subscribe
  PROVE  /\ current \in Subscriptions /\ turn <= Len(order) /\ pc = "subscribe"
         /\ UNCHANGED <<asked, relied, faults, user, olm, cache>>
         /\ sub' \in [Subscriptions -> Subscription]
         /\ \A s \in Subscriptions :
              \/ sub'[s] = sub[s]
              \/ /\ s = current /\ sub[s] = Absent
                 /\ sub'[s] = [Absent EXCEPT !.life = lives, !.starting = asked[s]]
         /\ \/ NextSubscription /\ Approval[current] = "never"
            \/ Call("look") /\ Approval[current] = "always"
            \/ Call("readBack") /\ Approval[current] = "ifUnreadable"
<1>1. turn <= Len(order) /\ current \in Subscriptions
  BY CurrentTyped DEF Subscribe, At
<1>2. [Absent EXCEPT !.life = lives, !.starting = asked[current]] \in Subscription
  BY <1>1, AbsentTyped, AskedTyped DEF TypeOK, Subscription
<1>3. Approval[current] \in {"always", "ifUnreadable", "never"}
  BY <1>1, InstallPlansAssumption
<1>4. \/ NextSubscription /\ Approval[current] = "never"
      \/ Call("look") /\ Approval[current] = "always"
      \/ Call("readBack") /\ Approval[current] = "ifUnreadable"
  BY <1>3 DEF Subscribe
<1>5. sub' = [sub EXCEPT ![current] =
               IF @ # Absent THEN @
               ELSE [Absent EXCEPT !.life = lives, !.starting = asked[current]]]
  BY DEF Subscribe
<1>6. sub' \in [Subscriptions -> Subscription]
  BY <1>1, <1>2, <1>5 DEF TypeOK
<1>7. ASSUME NEW s \in Subscriptions
      PROVE  \/ sub'[s] = sub[s]
             \/ /\ s = current /\ sub[s] = Absent
                /\ sub'[s] = [Absent EXCEPT !.life = lives, !.starting = asked[s]]
  BY <1>1, <1>5 DEF TypeOK
<1> QED
  BY <1>1, <1>4, <1>6, <1>7 DEF Subscribe, At

(* What Look makes of what it finds.                                       *)
LEMMA LookEffect ==
  ASSUME TypeOK, Look
  PROVE  /\ current \in Subscriptions /\ turn <= Len(order) /\ pc = "look"
         /\ UNCHANGED <<asked, sub, faults, user, olm, cache>>
         /\ relied' = [relied EXCEPT ![current] = seenSub[current].life]
         /\ \/ Retry
            \/ GoOn /\ Satisfies(seenSub[current], asked[current]) /\ seenSub[current] # Absent
            \/ /\ seenSub[current] # Absent /\ seenSub[current].ref # None
               /\ heldRef' = seenSub[current].ref /\ pc' = "plan" /\ UNCHANGED <<turn, done>>
BY CurrentTyped DEF Look, At

LEMMA HeldRefTyped ==
  ASSUME TypeOK, pc \in {"plan", "update"}
  PROVE  heldRef \in 1..MaxPlans
BY InstallPlansAssumption DEF TypeOK, None

LEMMA ReadPlanEffect ==
  ASSUME TypeOK, ReadPlan
  PROVE  /\ current \in Subscriptions /\ turn <= Len(order) /\ pc = "plan"
         /\ heldRef \in 1..MaxPlans
         /\ UNCHANGED <<asked, relied, sub, faults, user, olm, cache>>
         /\ \/ Retry
            \/ /\ seenPlan[heldRef].phase \notin {"none", "gone"}
               /\ \/ /\ Call("update")
                     /\ Lists(seenPlan[heldRef], asked[current])
                     /\ seenPlan[heldRef].phase = "pending"
                  \/ /\ GoOn
                     /\ ~ (/\ Lists(seenPlan[heldRef], asked[current])
                           /\ seenPlan[heldRef].phase = "pending")
BY CurrentTyped, HeldRefTyped DEF ReadPlan, At

LEMMA ApproveEffect ==
  ASSUME TypeOK, Approve
  PROVE  /\ current \in Subscriptions /\ turn <= Len(order) /\ pc = "update"
         /\ heldRef \in 1..MaxPlans
         /\ UNCHANGED <<catalogue, asked, relied, sub, faults, user, cache>>
         /\ plan' \in [1..MaxPlans -> Plan]
         /\ \/ Retry /\ plan' = plan
            \/ /\ GoOn
               /\ plan[heldRef].phase = "pending"
               /\ plan' = [plan EXCEPT ![heldRef].phase = "approved"]
<1>1. pc = "update" /\ turn <= Len(order)
  BY DEF Approve, At
<1>2. heldRef \in 1..MaxPlans /\ current \in Subscriptions
  BY <1>1, HeldRefTyped, CurrentTyped
<1>3. [plan EXCEPT ![heldRef].phase = "approved"] \in [1..MaxPlans -> Plan]
  BY <1>2 DEF TypeOK, Plan, Phase
<1> QED
  BY <1>1, <1>2, <1>3 DEF Approve, TypeOK
-----------------------------------------------------------------------------
LEMMA SpecsKept == ASSUME order' = order PROVE Specs' = Specs
BY DEF Specs, Enabled

(* The rest of the state, by who writes it.                                *)
UserTyped ==
  /\ order \in Orders
  /\ workshop \in {"none", "live", "deleting"}
  /\ lives \in Nat /\ edits \in Nat
  /\ requested \in Specs
  /\ everAsked \in [Subscriptions -> SUBSET (0..Latest)]

ServerTyped ==
  /\ catalogue \in Version
  /\ sub \in [Subscriptions -> Subscription]
  /\ plan \in [1..MaxPlans -> Plan]

CacheTyped ==
  /\ seenSub \in [Subscriptions -> Subscription]
  /\ seenPlan \in [1..MaxPlans -> Plan]

PassTyped ==
  /\ asked \in Specs
  /\ relied \in [Subscriptions -> Nat]
  /\ faults \in Nat

LEMMA TypeParts == TypeOK <=> UserTyped /\ ServerTyped /\ CacheTyped /\ WorkerTyped /\ PassTyped
BY DEF TypeOK, UserTyped, ServerTyped, CacheTyped, WorkerTyped, PassTyped

LEMMA UserKept == ASSUME TypeOK, UNCHANGED user PROVE UserTyped'
BY SpecsKept DEF TypeOK, user, UserTyped

LEMMA CacheKept == ASSUME TypeOK, UNCHANGED cache PROVE CacheTyped'
BY DEF TypeOK, cache, CacheTyped

LEMMA WorkerKept == ASSUME TypeOK, UNCHANGED <<order, worker>> PROVE WorkerTyped'
BY DEF TypeOK, worker, WorkerTyped

LEMMA PassKept == ASSUME TypeOK, UNCHANGED <<order, asked, relied, faults>> PROVE PassTyped'
BY SpecsKept DEF TypeOK, PassTyped

LEMMA ServerKept == ASSUME TypeOK, UNCHANGED <<catalogue, sub, plan>> PROVE ServerTyped'
BY DEF TypeOK, ServerTyped

LEMMA RequestTyped ==
  ASSUME TypeOK, NEW r \in Specs, Request(r)
  PROVE  /\ requested' \in Specs
         /\ everAsked' \in [Subscriptions -> SUBSET (0..Latest)]
<1>1. \A s \in Subscriptions : everAsked[s] \cup {r[s]} \in SUBSET (0..Latest)
  BY DEF TypeOK, Specs
<1> QED
  BY <1>1 DEF Request

LEMMA TypeInit == Init => TypeOK
<1> SUFFICES ASSUME Init PROVE TypeOK
  OBVIOUS
<1>1. order \in Orders /\ order \in Seq(Subscriptions) /\ Len(order) \in Nat
  BY InstallPlansAssumption, LenProperties DEF Init
<1>2. turn \in 1..Len(order) + 1 /\ heldRef \in 0..MaxPlans
  BY <1>1, InstallPlansAssumption DEF Init, None
<1>3. [names |-> {}, phase |-> "none"] \in Plan
  BY DEF Plan, Phase
<1>4. ServerTyped /\ CacheTyped
  BY <1>3, AbsentTyped, InstallPlansAssumption DEF Init, Version, ServerTyped, CacheTyped
<1>5. UserTyped
  BY <1>1 DEF Init, UserTyped
<1>6. PassTyped
  BY DEF Init, PassTyped
<1>7. WorkerTyped
  <2>1. pc = "rest" /\ done \in BOOLEAN
    BY DEF Init
  <2> QED
    BY <1>2, <2>1 DEF WorkerTyped
<1> QED
  BY <1>4, <1>5, <1>6, <1>7, TypeParts

LEMMA TypeStep == TypeOK /\ [Next]_vars => TypeOK'
<1> SUFFICES ASSUME TypeOK, [Next]_vars PROVE TypeOK'
  OBVIOUS
<1>0. ASSUME UserTyped', ServerTyped', CacheTyped', WorkerTyped', PassTyped' PROVE TypeOK'
  BY <1>0 DEF TypeOK, UserTyped, ServerTyped, CacheTyped, WorkerTyped, PassTyped
<1>1. ASSUME UNCHANGED <<order, olm, cache, worker, faults, sub>>
      PROVE  ServerTyped' /\ CacheTyped' /\ WorkerTyped' /\ PassTyped'
  BY <1>1, ServerKept, CacheKept, WorkerKept, PassKept DEF olm, worker
<1>2. CASE CreateWorkshop
  <2>1. UserTyped'
    BY <1>2, SpecsKept, RequestTyped DEF CreateWorkshop, TypeOK, UserTyped
  <2> QED
    BY <1>0, <1>1, <1>2, <2>1 DEF CreateWorkshop
<1>3. CASE EditWorkshop
  <2>1. UserTyped'
    BY <1>3, SpecsKept, RequestTyped DEF EditWorkshop, TypeOK, UserTyped
  <2> QED
    BY <1>0, <1>1, <1>3, <2>1 DEF EditWorkshop
<1>4. CASE DeleteWorkshop
  <2>1. UserTyped'
    BY <1>4, SpecsKept DEF DeleteWorkshop, TypeOK, UserTyped
  <2> QED
    BY <1>0, <1>1, <1>4, <2>1 DEF DeleteWorkshop
<1>5. ASSUME ServerTyped', UNCHANGED <<faults, user, cache, worker>> PROVE TypeOK'
  BY <1>0, <1>5, UserKept, CacheKept, WorkerKept, PassKept DEF user, worker
<1>6. ASSUME NEW s \in Subscriptions, Resolve(s) PROVE TypeOK'
  BY <1>5, <1>6, ResolveEffect, ResolvedTyped DEF ServerTyped, TypeOK
<1>7. ASSUME NEW p \in 1..MaxPlans, Install(p) PROVE TypeOK'
  <2>1. plan' \in [1..MaxPlans -> Plan]
    <3>1. [plan EXCEPT ![p].phase = "complete"] \in [1..MaxPlans -> Plan]
      BY DEF TypeOK, Plan, Phase
    <3> QED
      BY <1>7, <3>1, InstallEffect
  <2> QED
    BY <1>5, <1>7, <2>1, InstallEffect DEF ServerTyped, TypeOK
<1>8. ASSUME NEW p \in 1..MaxPlans, Collect(p) PROVE TypeOK'
  <2>1. [names |-> {}, phase |-> "gone"] \in Plan
    BY DEF Plan, Phase
  <2> QED
    BY <1>5, <1>8, <2>1 DEF Collect, ServerTyped, TypeOK
<1>9. CASE Publish
  <2>1. catalogue' \in Version
    BY <1>9, InstallPlansAssumption DEF Publish, TypeOK, Version
  <2> QED
    BY <1>5, <1>9, <2>1 DEF Publish, ServerTyped, TypeOK
<1>10. CASE CacheStep
  <2>1. UNCHANGED <<sub, faults, user, olm, worker>>
    BY <1>10 DEF CacheStep, SubscriptionSeen, PlanSeen
  <2>2. CacheTyped'
    BY <1>10 DEF CacheStep, SubscriptionSeen, PlanSeen, CacheTyped, TypeOK
  <2> QED
    BY <1>0, <2>1, <2>2, UserKept, ServerKept, WorkerKept, PassKept DEF user, olm, worker
<1>11. ASSUME WorkerTyped', PassTyped', ServerTyped', UNCHANGED <<user, cache>> PROVE TypeOK'
  BY <1>0, <1>11, UserKept, CacheKept
<1>12. CASE BeginPass
  <2>1. WorkerTyped'
    <3>1. Len(order) \in Nat
      BY OrderTyped
    <3>2. turn' \in 1..Len(order') + 1 /\ pc' = "subscribe" /\ UNCHANGED <<heldRef, done>>
      BY <1>12, <3>1 DEF BeginPass, user
    <3> QED
      BY <3>2 DEF TypeOK, WorkerTyped
  <2>2. PassTyped'
    BY <1>12, SpecsKept DEF BeginPass, user, TypeOK, PassTyped
  <2> QED
    BY <1>11, <1>12, <2>1, <2>2, ServerKept DEF BeginPass, olm
<1>13. CASE Subscribe
  <2>1. UNCHANGED <<asked, relied, faults, user, olm, cache>> /\ sub' \in [Subscriptions -> Subscription]
    BY <1>13, SubscribeEffect
  <2>2. WorkerTyped'
    BY <1>13, <2>1, SubscribeEffect, NextTyped, CallTyped DEF user
  <2> QED
    BY <1>11, <2>1, <2>2, PassKept DEF user, olm, ServerTyped, TypeOK
<1>14. CASE ReadBack
  <2>1. UNCHANGED <<asked, relied, sub, user, olm, cache>>
    BY <1>14 DEF ReadBack
  <2>2. WorkerTyped'
    BY <1>14, <2>1, NextTyped, CallTyped DEF user, ReadBack, At
  <2>3. faults' \in Nat
    BY <1>14 DEF ReadBack, TypeOK
  <2>4. PassTyped'
    BY <2>1, <2>3, SpecsKept DEF PassTyped, TypeOK, user
  <2> QED
    BY <1>11, <2>1, <2>2, <2>4, ServerKept DEF user, olm
<1>15. CASE Look
  <2>1. /\ UNCHANGED <<asked, sub, faults, user, olm, cache>>
        /\ current \in Subscriptions /\ turn <= Len(order)
        /\ relied' = [relied EXCEPT ![current] = seenSub[current].life]
    BY <1>15, LookEffect
  <2>2. seenSub[current].life \in Nat /\ seenSub[current].ref \in 0..MaxPlans
    BY <2>1 DEF TypeOK, Subscription
  <2>3. PassTyped'
    BY <2>1, <2>2, SpecsKept DEF TypeOK, PassTyped, user
  <2>4. ASSUME heldRef' = seenSub[current].ref, heldRef' # None, pc' = "plan", UNCHANGED <<turn, done>>
        PROVE  WorkerTyped'
    <3>1. /\ heldRef' \in 0..MaxPlans /\ heldRef' # None
          /\ turn' \in 1..Len(order') + 1 /\ turn' <= Len(order')
      <4>1. turn \in 1..Len(order) + 1 /\ order' = order
        BY <2>1 DEF TypeOK, user
      <4> QED
        BY <2>1, <2>2, <2>4, <4>1
    <3>2. done' \in BOOLEAN /\ pc' = "plan"
      <4>1. done \in BOOLEAN
        BY DEF TypeOK
      <4> QED
        BY <2>4, <4>1
    <3> QED
      BY <3>1, <3>2 DEF WorkerTyped
  <2>5. WorkerTyped'
    <3>1. order' = order
      BY <2>1 DEF user
    <3>2. \/ Retry \/ GoOn
          \/ heldRef' = seenSub[current].ref /\ heldRef' # None /\ pc' = "plan" /\ UNCHANGED <<turn, done>>
      BY <1>15, LookEffect
    <3>3. CASE Retry
      BY <3>1, <3>3, RetryTyped
    <3>4. CASE GoOn
      BY <2>1, <3>1, <3>4, GoOnTyped
    <3> QED
      BY <2>4, <3>2, <3>3, <3>4
  <2> QED
    BY <1>11, <2>1, <2>3, <2>5, ServerKept DEF olm
<1>16. CASE ReadPlan
  <2>1. UNCHANGED <<asked, relied, sub, faults, user, olm, cache>> /\ turn <= Len(order)
    BY <1>16, ReadPlanEffect
  <2>2. heldRef # None
    BY <1>16, ReadPlanEffect DEF None
  <2>3. WorkerTyped'
    BY <1>16, <2>1, <2>2, ReadPlanEffect, RetryTyped, GoOnTyped, CallTyped DEF user
  <2> QED
    BY <1>11, <2>1, <2>3, PassKept, ServerKept DEF user, olm
<1>17. CASE Approve
  <2>1. /\ UNCHANGED <<catalogue, asked, relied, sub, faults, user, cache>> /\ turn <= Len(order)
        /\ plan' \in [1..MaxPlans -> Plan]
    BY <1>17, ApproveEffect
  <2>2. WorkerTyped'
    BY <1>17, <2>1, ApproveEffect, RetryTyped, GoOnTyped DEF user
  <2> QED
    BY <1>11, <2>1, <2>2, PassKept DEF user, ServerTyped, TypeOK
<1>18. CASE PassEnds
  <2>1. WorkerTyped'
    <3>1. Len(order) \in Nat
      BY OrderTyped
    <3>2. turn' \in 1..Len(order') + 1 /\ pc' = "rest" /\ heldRef' = heldRef /\ done' = TRUE
      BY <1>18, <3>1 DEF PassEnds, user
    <3> QED
      BY <3>2 DEF TypeOK, WorkerTyped
  <2> QED
    BY <1>11, <1>18, <2>1, PassKept, ServerKept DEF PassEnds, user, olm
<1>19. CASE TearDown
  <2>1. PICK D \in SUBSET Subscriptions : sub' = [s \in Subscriptions |-> IF s \in D THEN Absent ELSE sub[s]]
    BY <1>19 DEF TearDown
  <2>2. ServerTyped'
    BY <1>19, <2>1, SubTyped, AbsentTyped DEF TearDown, olm, ServerTyped, TypeOK
  <2>3. UserTyped'
    BY <1>19, SpecsKept DEF TearDown, UserTyped, TypeOK
  <2>4. WorkerTyped'
    BY <1>19 DEF TearDown, WorkerTyped, TypeOK
  <2> QED
    BY <1>0, <1>19, <2>2, <2>3, <2>4, PassKept, CacheKept DEF TearDown
<1>20. CASE CallFails
  <2>1. faults' \in Nat
    BY <1>20 DEF CallFails, TypeOK
  <2>2. WorkerTyped'
    BY <1>20, RetryTyped DEF CallFails, user
  <2>3. PassTyped'
    BY <1>20, <2>1, SpecsKept DEF CallFails, PassTyped, TypeOK, user
  <2> QED
    BY <1>11, <1>20, <2>2, <2>3, ServerKept DEF CallFails, olm
<1>21. CASE UNCHANGED vars
  BY <1>5, <1>21, ServerKept DEF vars, user, cache, worker
<1> QED
  BY <1>2, <1>3, <1>4, <1>6, <1>7, <1>8, <1>9, <1>10, <1>12, <1>13, <1>14, <1>15, <1>16, <1>17,
     <1>18, <1>19, <1>20, <1>21 DEF Next, OlmStep, WorkerStep

(* The state is well formed: in particular no plan is read or updated that *)
(* no subscription referred to.                                            *)
THEOREM PlansTypeCorrect == Spec => []TypeOK
BY TypeInit, TypeStep, PTL DEF Spec
-----------------------------------------------------------------------------
(* The course of a plan: what it lists stays until it goes, and so does    *)
(* its approval.                                                           *)
PlanKept(p) ==
  /\ plan[p].phase # "none" => plan'[p].phase # "none"
  /\ plan[p].phase = "gone" => plan'[p].phase = "gone"
  /\ plan[p].phase # "none" /\ plan'[p].phase # "gone" => plan'[p].names = plan[p].names
  /\ plan[p].phase \in {"approved", "complete"} =>
       plan'[p].phase \in {"approved", "complete", "gone"}

LEMMA PlansMove ==
  ASSUME TypeOK, [Next]_vars, NEW q \in 1..MaxPlans
  PROVE  PlanKept(q)
<1>1. ASSUME plan' = plan PROVE PlanKept(q)
  BY <1>1 DEF PlanKept
<1>2. ASSUME NEW s \in Subscriptions, NEW p \in 1..MaxPlans, ResolvedAs(s, p) PROVE PlanKept(q)
  BY <1>2 DEF ResolvedAs, PlanKept, TypeOK
<1>3. ASSUME NEW p \in 1..MaxPlans, Install(p) PROVE PlanKept(q)
  <2>1. plan[p].phase = "approved" /\ plan' = [plan EXCEPT ![p].phase = "complete"]
    BY <1>3, InstallEffect
  <2> QED
    BY <2>1 DEF PlanKept, TypeOK, Plan
<1>4. ASSUME NEW p \in 1..MaxPlans, Collect(p) PROVE PlanKept(q)
  BY <1>4 DEF Collect, PlanKept, TypeOK
<1>5. CASE Approve
  <2>1. CASE plan' = plan
    BY <1>1, <2>1
  <2>2. CASE /\ plan[heldRef].phase = "pending" /\ heldRef \in 1..MaxPlans
             /\ plan' = [plan EXCEPT ![heldRef].phase = "approved"]
    BY <2>2 DEF PlanKept, TypeOK, Plan
  <2> QED
    BY <1>5, <2>1, <2>2, ApproveEffect
<1>6. CASE \/ CreateWorkshop \/ EditWorkshop \/ DeleteWorkshop \/ Publish \/ CacheStep
           \/ BeginPass \/ Subscribe \/ ReadBack \/ Look \/ ReadPlan \/ PassEnds \/ TearDown
           \/ CallFails \/ UNCHANGED vars
  <2>1. plan' = plan
    BY <1>6
    DEF CreateWorkshop, EditWorkshop, DeleteWorkshop, Publish, CacheStep, SubscriptionSeen, PlanSeen,
        BeginPass, Subscribe, ReadBack, Look, ReadPlan, PassEnds, TearDown, CallFails, vars, olm
  <2> QED
    BY <1>1, <2>1
<1>7. ASSUME NEW s \in Subscriptions, Resolve(s) PROVE PlanKept(q)
  BY <1>2, <1>7, ResolveEffect
<1> QED
  BY <1>3, <1>4, <1>5, <1>6, <1>7 DEF Next, OlmStep, WorkerStep

(* Versions that were asked for.                                           *)
LEMMA EverGrows ==
  ASSUME TypeOK, [Next]_vars, NEW s \in Subscriptions
  PROVE  everAsked[s] \subseteq everAsked'[s]
<1>1. CASE CreateWorkshop \/ EditWorkshop
  BY <1>1 DEF CreateWorkshop, EditWorkshop, Request, TypeOK
<1>2. CASE ~(CreateWorkshop \/ EditWorkshop)
  <2>1. everAsked' = everAsked
    BY <1>2, ResolveEffect, InstallEffect
    DEF Next, OlmStep, Collect, DeleteWorkshop, Publish, CacheStep, SubscriptionSeen, PlanSeen,
        WorkerStep, BeginPass, Subscribe, ReadBack, Look, ReadPlan, Approve, PassEnds, TearDown,
        CallFails, vars, user
  <2> QED
    BY <2>1
<1> QED
  BY <1>1, <1>2

AskedBefore ==
  /\ pc # "rest" => workshop # "none"
  /\ \A s \in Subscriptions :
       /\ workshop # "none" => requested[s] \in everAsked[s]
       /\ pc # "rest" => asked[s] \in everAsked[s]

LEMMA AskedBeforeStep == TypeOK /\ AskedBefore /\ [Next]_vars => AskedBefore'
<1> SUFFICES ASSUME TypeOK, AskedBefore, [Next]_vars PROVE AskedBefore'
  OBVIOUS
<1> USE DEF AskedBefore
<1>1. ASSUME UNCHANGED <<workshop, requested, everAsked, asked>>, pc # "rest" \/ pc' = "rest"
      PROVE  AskedBefore'
  BY <1>1
<1>2. CASE CreateWorkshop \/ EditWorkshop
  BY <1>2 DEF CreateWorkshop, EditWorkshop, Request, worker, TypeOK
<1>3. CASE DeleteWorkshop
  BY <1>3 DEF DeleteWorkshop, worker
<1>4. CASE BeginPass
  BY <1>4 DEF BeginPass, user
<1>5. CASE TearDown
  BY <1>5 DEF TearDown
<1>6. CASE Publish \/ CacheStep \/ (\E p \in 1..MaxPlans : Collect(p)) \/ UNCHANGED vars
  BY <1>6 DEF Publish, CacheStep, SubscriptionSeen, PlanSeen, Collect, user, worker, vars
<1>7. CASE OlmStep
  <2>1. UNCHANGED <<user, worker>>
    BY <1>7, ResolveEffect, InstallEffect DEF OlmStep
  <2> QED
    BY <2>1 DEF user, worker
<1>8. CASE Subscribe \/ ReadBack \/ Look \/ ReadPlan \/ Approve \/ PassEnds \/ CallFails
  <2>1. UNCHANGED <<workshop, requested, everAsked, asked>> /\ pc # "rest"
    BY <1>8 DEF Subscribe, ReadBack, Look, ReadPlan, Approve, PassEnds, CallFails, At, user
  <2> QED
    BY <1>1, <2>1
<1> QED
  BY <1>2, <1>3, <1>4, <1>5, <1>6, <1>7, <1>8 DEF Next, WorkerStep
-----------------------------------------------------------------------------
(* A plan lists subscriptions of one namespace, each once.                 *)
OneEach ==
  \A p \in 1..MaxPlans : \A m, n \in plan[p].names :
    /\ NamespaceOf[m.sub] = NamespaceOf[n.sub]
    /\ m.sub = n.sub => m = n

LEMMA OneEachStep == TypeOK /\ OneEach /\ [Next]_vars => OneEach'
<1> SUFFICES ASSUME TypeOK, OneEach, [Next]_vars, NEW q \in 1..MaxPlans,
                    NEW m \in plan'[q].names, NEW n \in plan'[q].names
             PROVE  NamespaceOf[m.sub] = NamespaceOf[n.sub] /\ (m.sub = n.sub => m = n)
  BY DEF OneEach
<1>1. CASE plan'[q].names = plan[q].names
  BY <1>1 DEF OneEach
<1>2. ASSUME NEW s \in Subscriptions, Resolve(s), plan'[q].names # plan[q].names
      PROVE  NamespaceOf[m.sub] = NamespaceOf[n.sub] /\ (m.sub = n.sub => m = n)
  <2>1. PICK p \in 1..MaxPlans : ResolvedAs(s, p)
    BY <1>2, ResolveEffect
  <2>2. plan'[q].names = {TargetName(t) : t \in Group(s)}
    BY <1>2, <2>1 DEF ResolvedAs, TypeOK
  <2> QED
    BY <2>2 DEF Group, TargetName
<1>3. ASSUME NEW p \in 1..MaxPlans, Install(p) PROVE plan'[q].names = plan[q].names
  <2>1. plan' = [plan EXCEPT ![p].phase = "complete"]
    BY <1>3, InstallEffect
  <2> QED
    BY <2>1 DEF TypeOK, Plan
<1>4. ASSUME NEW p \in 1..MaxPlans, Collect(p)
      PROVE  plan'[q].names = plan[q].names \/ plan'[q].names = {}
  BY <1>4 DEF Collect, TypeOK
<1>5. ASSUME Approve PROVE plan'[q].names = plan[q].names
  <2>1. CASE plan' = plan
    BY <2>1
  <2>2. CASE heldRef \in 1..MaxPlans /\ plan' = [plan EXCEPT ![heldRef].phase = "approved"]
    BY <2>2 DEF TypeOK, Plan
  <2> QED
    BY <1>5, <2>1, <2>2, ApproveEffect
<1>6. CASE ~OlmStep /\ ~Approve /\ ~(\E p \in 1..MaxPlans : Collect(p))
  <2>1. plan' = plan
    BY <1>6
    DEF Next, CreateWorkshop, EditWorkshop, DeleteWorkshop, Publish, CacheStep, SubscriptionSeen,
        PlanSeen, WorkerStep, BeginPass, Subscribe, ReadBack, Look, ReadPlan, PassEnds, TearDown,
        CallFails, vars, olm
  <2> QED
    BY <1>1, <2>1
<1> QED
  BY <1>1, <1>2, <1>3, <1>4, <1>5, <1>6 DEF OlmStep

(* The cache's copy of a plan is of what it lists, until it goes, and of   *)
(* an approval that was given.                                             *)
CopiesAgree ==
  \A p \in 1..MaxPlans :
    /\ seenPlan[p].phase \notin {"none", "gone"} =>
         /\ plan[p].phase # "none"
         /\ plan[p].phase # "gone" => plan[p].names = seenPlan[p].names
    /\ seenPlan[p].phase \in {"approved", "complete"} =>
         plan[p].phase \in {"approved", "complete", "gone"}

LEMMA SeenPlansMove ==
  ASSUME TypeOK, [Next]_vars, NEW q \in 1..MaxPlans
  PROVE  seenPlan'[q] = seenPlan[q] \/ (seenPlan'[q] = plan[q] /\ plan' = plan)
<1>1. ASSUME NEW p \in 1..MaxPlans, PlanSeen(p)
      PROVE  seenPlan'[q] = seenPlan[q] \/ (seenPlan'[q] = plan[q] /\ plan' = plan)
  BY <1>1 DEF PlanSeen, TypeOK, olm
<1>2. CASE ~(\E p \in 1..MaxPlans : PlanSeen(p))
  <2>1. seenPlan' = seenPlan
    <3>1. CASE OlmStep
      BY <3>1, ResolveEffect, InstallEffect DEF OlmStep, cache
    <3>2. CASE ~OlmStep
      BY <1>2, <3>2
      DEF Next, Collect, CreateWorkshop, EditWorkshop, DeleteWorkshop, Publish, CacheStep,
          SubscriptionSeen, WorkerStep, BeginPass, Subscribe, ReadBack, Look, ReadPlan, Approve,
          PassEnds, TearDown, CallFails, vars, cache
    <3> QED
      BY <3>1, <3>2
  <2> QED
    BY <2>1
<1> QED
  BY <1>1, <1>2

LEMMA CopiesStep == TypeOK /\ CopiesAgree /\ [Next]_vars => CopiesAgree'
<1> SUFFICES ASSUME TypeOK, CopiesAgree, [Next]_vars, NEW p \in 1..MaxPlans
             PROVE  /\ seenPlan'[p].phase \notin {"none", "gone"} =>
                         /\ plan'[p].phase # "none"
                         /\ plan'[p].phase # "gone" => plan'[p].names = seenPlan'[p].names
                    /\ seenPlan'[p].phase \in {"approved", "complete"} =>
                         plan'[p].phase \in {"approved", "complete", "gone"}
  BY DEF CopiesAgree
<1>1. PlanKept(p)
  BY PlansMove
<1>2. CASE seenPlan'[p] = seenPlan[p]
  BY <1>1, <1>2 DEF CopiesAgree, PlanKept
<1>3. CASE seenPlan'[p] = plan[p] /\ plan' = plan
  BY <1>3
<1> QED
  BY <1>2, <1>3, SeenPlansMove
-----------------------------------------------------------------------------
(* What may happen to a subscription in a step.                            *)
LEMMA SubsMove ==
  ASSUME TypeOK, [Next]_vars, NEW s \in Subscriptions
  PROVE  \/ sub'[s] = sub[s]
         \/ \E p \in 1..MaxPlans, t \in Subscriptions :
              /\ Resolve(t) /\ ResolvedAs(t, p) /\ s \in Group(t)
              /\ sub'[s] = [sub[s] EXCEPT !.ref = p]
         \/ \E p \in 1..MaxPlans : \E n \in plan[p].names :
              /\ Install(p) /\ plan[p].phase = "approved"
              /\ n.sub = s /\ n.life = sub[s].life /\ n.version > sub[s].installed
              /\ sub'[s] = [sub[s] EXCEPT !.installed = n.version]
         \/ TearDown /\ sub'[s] = Absent
         \/ /\ Subscribe /\ s = current /\ sub[s] = Absent
            /\ sub'[s] = [Absent EXCEPT !.life = lives, !.starting = asked[s]]
<1> DEFINE Moves ==
      \/ sub'[s] = sub[s]
      \/ \E p \in 1..MaxPlans, t \in Subscriptions :
           /\ Resolve(t) /\ ResolvedAs(t, p) /\ s \in Group(t)
           /\ sub'[s] = [sub[s] EXCEPT !.ref = p]
      \/ \E p \in 1..MaxPlans : \E n \in plan[p].names :
           /\ Install(p) /\ plan[p].phase = "approved"
           /\ n.sub = s /\ n.life = sub[s].life /\ n.version > sub[s].installed
           /\ sub'[s] = [sub[s] EXCEPT !.installed = n.version]
      \/ TearDown /\ sub'[s] = Absent
      \/ /\ Subscribe /\ s = current /\ sub[s] = Absent
         /\ sub'[s] = [Absent EXCEPT !.life = lives, !.starting = asked[s]]
<1>1. ASSUME NEW t \in Subscriptions, Resolve(t) PROVE Moves
  <2>1. PICK p \in 1..MaxPlans : ResolvedAs(t, p)
    BY <1>1, ResolveEffect
  <2>2. sub'[s] = IF s \in Group(t) THEN [sub[s] EXCEPT !.ref = p] ELSE sub[s]
    BY <2>1 DEF ResolvedAs
  <2> QED
    BY <1>1, <2>1, <2>2
<1>2. ASSUME NEW p \in 1..MaxPlans, Install(p) PROVE Moves
  BY <1>2, InstallEffect
<1>3. CASE TearDown
  BY <1>3 DEF TearDown
<1>4. CASE Subscribe
  BY <1>4, SubscribeEffect
<1>5. CASE ~OlmStep /\ ~TearDown /\ ~Subscribe
  <2>1. sub' = sub
    BY <1>5
    DEF Next, CreateWorkshop, EditWorkshop, DeleteWorkshop, Collect, Publish, CacheStep,
        SubscriptionSeen, PlanSeen, WorkerStep, BeginPass, ReadBack, Look, ReadPlan, Approve,
        PassEnds, CallFails, vars
  <2> QED
    BY <2>1
<1>6. Moves
  BY <1>1, <1>2, <1>3, <1>4, <1>5 DEF OlmStep
<1> QED
  BY <1>6

-----------------------------------------------------------------------------
(* The worker goes to update a plan only if it lists what the spec names.  *)
UpdateListed ==
  pc = "update" =>
    /\ plan[heldRef].phase # "none"
    /\ plan[heldRef].phase # "gone" => Lists(plan[heldRef], asked[current])

(* The step before the worker is at a call of ApproveInstallPlan.          *)
LEMMA AtUpdate ==
  ASSUME TypeOK, [Next]_vars, pc' = "update"
  PROVE  /\ UNCHANGED <<order, turn, heldRef, asked, relied>>
         /\ pc = "update" \/ (pc = "plan" /\ ReadPlan /\ Call("update"))
<1>1. CASE WorkerStep \/ CallFails
  <2>1. CASE ReadPlan
    <3>1. Call("update")
      BY <2>1, ReadPlanEffect DEF Retry, GoOn, NextSubscription
    <3> QED
      BY <2>1, <3>1, ReadPlanEffect DEF Call, user
  <2>2. CASE Subscribe
    BY <2>2, SubscribeEffect DEF NextSubscription, Call
  <2>3. CASE TearDown \/ BeginPass \/ PassEnds \/ CallFails
    BY <2>3 DEF TearDown, BeginPass, PassEnds, CallFails, Retry
  <2>4. CASE ReadBack
    BY <2>4 DEF ReadBack, NextSubscription, Call
  <2>5. CASE Look
    BY <2>5, LookEffect DEF Retry, GoOn, NextSubscription
  <2>6. CASE Approve
    BY <2>6, ApproveEffect DEF Retry, GoOn, NextSubscription
  <2> QED
    BY <1>1, <2>1, <2>2, <2>3, <2>4, <2>5, <2>6 DEF WorkerStep
<1>2. CASE ~WorkerStep /\ ~CallFails
  <2>1. UNCHANGED <<order, worker>>
    <3>1. CASE OlmStep
      BY <3>1, ResolveEffect, InstallEffect DEF OlmStep, user
    <3>2. CASE ~OlmStep
      BY <1>2, <3>2
      DEF Next, CreateWorkshop, EditWorkshop, DeleteWorkshop, Collect, Publish, CacheStep,
          SubscriptionSeen, PlanSeen, user, worker, vars
    <3> QED
      BY <3>1, <3>2
  <2> QED
    BY <2>1 DEF worker
<1> QED
  BY <1>1, <1>2

LEMMA UpdateListedStep == TypeOK /\ CopiesAgree /\ UpdateListed /\ [Next]_vars => UpdateListed'
<1> SUFFICES ASSUME TypeOK, CopiesAgree, UpdateListed, [Next]_vars, pc' = "update"
             PROVE  /\ plan'[heldRef'].phase # "none"
                    /\ plan'[heldRef'].phase # "gone" => Lists(plan[heldRef], asked[current])'
  BY DEF UpdateListed
<1>1. UNCHANGED <<order, turn, heldRef, asked>> /\ current' = current
  BY AtUpdate DEF current
<1>2. heldRef \in 1..MaxPlans
  BY HeldRefTyped, AtUpdate
<1>3. PlanKept(heldRef)
  BY <1>2, PlansMove
<1>4. /\ plan[heldRef].phase # "none"
      /\ plan[heldRef].phase # "gone" => Lists(plan[heldRef], asked[current])
  <2>1. CASE pc = "update"
    BY <2>1 DEF UpdateListed
  <2>2. CASE ReadPlan /\ Call("update")
    <3>1. /\ seenPlan[heldRef].phase \notin {"none", "gone"}
          /\ Lists(seenPlan[heldRef], asked[current])
      BY <2>2, ReadPlanEffect DEF Retry, GoOn, NextSubscription, Call
    <3> QED
      BY <1>2, <3>1 DEF CopiesAgree, Lists
  <2> QED
    BY <2>1, <2>2, AtUpdate
<1> QED
  BY <1>1, <1>3, <1>4 DEF PlanKept, Lists

-----------------------------------------------------------------------------
(* A plan that is approved lists for an operator that shares its namespace *)
(* with none only what was asked for.                                      *)
ApprovedAsked ==
  \A p \in 1..MaxPlans :
    plan[p].phase \in {"approved", "complete"} =>
      \A n \in plan[p].names : Alone(n.sub) => n.version \in everAsked[n.sub]

Asking == AskedBefore /\ OneEach /\ CopiesAgree /\ UpdateListed /\ ApprovedAsked

LEMMA ApprovedAskedStep == TypeOK /\ Asking /\ [Next]_vars => ApprovedAsked'
<1> SUFFICES ASSUME TypeOK, Asking, [Next]_vars, NEW q \in 1..MaxPlans,
                    plan'[q].phase \in {"approved", "complete"},
                    NEW n \in plan'[q].names, Alone(n.sub)
             PROVE  n.version \in everAsked'[n.sub]
  BY DEF ApprovedAsked, Alone
<1>1. ASSUME plan[q].phase \in {"approved", "complete"} PROVE n.version \in everAsked'[n.sub]
  <2>1. n \in plan[q].names
    BY <1>1, PlansMove DEF PlanKept
  <2>2. n.sub \in Subscriptions /\ n.version \in everAsked[n.sub]
    BY <1>1, <2>1, NamesTyped DEF Asking, ApprovedAsked
  <2> QED
    BY <2>2, EverGrows
<1>2. CASE Approve /\ plan[q].phase \notin {"approved", "complete"}
  <2>1. /\ pc = "update" /\ heldRef = q /\ plan[q].phase = "pending"
        /\ plan' = [plan EXCEPT ![q].phase = "approved"]
    BY <1>2, ApproveEffect DEF TypeOK
  <2>2. n \in plan[q].names
    BY <2>1, PlansMove DEF PlanKept
  <2>3. PICK m \in plan[q].names : m.version = asked[current] /\ m.sub = current
    BY <2>1 DEF Asking, UpdateListed, Lists
  <2>4. n.sub \in Subscriptions /\ current \in Subscriptions
    BY <1>2, <2>2, NamesTyped, ApproveEffect
  <2>5. n = m
    BY <2>2, <2>3, <2>4 DEF Alone, Asking, OneEach
  <2>6. asked[current] \in everAsked[current]
    BY <2>1, <2>4 DEF Asking, AskedBefore
  <2> QED
    BY <2>3, <2>4, <2>5, <2>6, EverGrows
<1>3. CASE ~Approve
  <2>1. ASSUME NEW s \in Subscriptions, Resolve(s) PROVE plan[q].phase \in {"approved", "complete"}
    <3>1. PICK p \in 1..MaxPlans : ResolvedAs(s, p)
      BY <2>1, ResolveEffect
    <3> QED
      BY <3>1 DEF ResolvedAs, TypeOK
  <2>2. ASSUME NEW p \in 1..MaxPlans, Install(p) PROVE plan[q].phase \in {"approved", "complete"}
    <3>1. plan[p].phase = "approved" /\ plan' = [plan EXCEPT ![p].phase = "complete"]
      BY <2>2, InstallEffect
    <3> QED
      BY <3>1 DEF TypeOK, Plan
  <2>3. ASSUME NEW p \in 1..MaxPlans, Collect(p) PROVE plan[q].phase \in {"approved", "complete"}
    BY <2>3 DEF Collect, TypeOK
  <2>4. CASE ~OlmStep /\ ~(\E p \in 1..MaxPlans : Collect(p))
    <3>1. plan' = plan
      BY <1>3, <2>4
      DEF Next, CreateWorkshop, EditWorkshop, DeleteWorkshop, Publish, CacheStep, SubscriptionSeen,
          PlanSeen, WorkerStep, BeginPass, Subscribe, ReadBack, Look, ReadPlan, PassEnds, TearDown,
          CallFails, vars, olm
    <3> QED
      BY <1>1, <3>1
  <2> QED
    BY <1>1, <2>1, <2>2, <2>3, <2>4 DEF OlmStep
<1> QED
  BY <1>1, <1>2, <1>3

LEMMA OnlyAskedStep == TypeOK /\ Asking /\ OnlyWhatWasAsked /\ [Next]_vars => OnlyWhatWasAsked'
<1> SUFFICES ASSUME TypeOK, Asking, OnlyWhatWasAsked, [Next]_vars, NEW s \in Subscriptions,
                    Alone(s), sub'[s].installed # None
             PROVE  sub'[s].installed \in everAsked'[s]
  BY DEF OnlyWhatWasAsked, Alone
<1>1. ASSUME sub'[s].installed = sub[s].installed PROVE sub'[s].installed \in everAsked'[s]
  BY <1>1, EverGrows DEF OnlyWhatWasAsked
<1>2. ASSUME NEW p \in 1..MaxPlans, NEW n \in plan[p].names, plan[p].phase = "approved", n.sub = s,
             sub'[s] = [sub[s] EXCEPT !.installed = n.version]
      PROVE  sub'[s].installed \in everAsked'[s]
  <2>1. n.version \in everAsked[s]
    BY <1>2 DEF Asking, ApprovedAsked
  <2>2. sub'[s].installed = n.version
    BY <1>2, SubTyped DEF Subscription
  <2> QED
    BY <2>1, <2>2, EverGrows
<1>3. ASSUME NEW p \in 1..MaxPlans, sub'[s] = [sub[s] EXCEPT !.ref = p]
      PROVE  sub'[s].installed = sub[s].installed
  BY <1>3, SubTyped DEF Subscription
<1>4. sub'[s] # Absent /\ sub'[s] # [Absent EXCEPT !.life = lives, !.starting = asked[s]]
  <2>1. [Absent EXCEPT !.life = lives, !.starting = asked[s]].installed = None
    BY DEF Absent
  <2> QED
    BY <2>1, AbsentTyped
<1> QED
  BY <1>1, <1>2, <1>3, <1>4, SubsMove

(* An operator that shares its namespace with none gets only versions that *)
(* the spec has named, whatever OLM proposes and however old the worker's  *)
(* copies are.                                                             *)
THEOREM OnlyAskedForIsInstalled == Spec => []OnlyWhatWasAsked
<1>1. Init => Asking /\ OnlyWhatWasAsked
  BY DEF Init, Asking, AskedBefore, OneEach, CopiesAgree, UpdateListed, ApprovedAsked,
         OnlyWhatWasAsked, Absent
<1>2. TypeOK /\ Asking /\ [Next]_vars => Asking'
  BY AskedBeforeStep, OneEachStep, CopiesStep, UpdateListedStep, ApprovedAskedStep DEF Asking
<1> QED
  BY <1>1, <1>2, OnlyAskedStep, PlansTypeCorrect, PTL DEF Spec
-----------------------------------------------------------------------------
(* A life of the Workshop is not lived twice: what cache, plans and worker *)
(* know of the present one is of subscriptions that are still there.       *)
LivesBegun == workshop # "none" => lives # 0

SubLife(s) ==
  /\ sub[s].life <= lives /\ (sub[s].life = 0 => sub[s] = Absent)
  /\ seenSub[s].life <= lives /\ (seenSub[s].life = 0 => seenSub[s] = Absent)
  /\ workshop # "none" /\ seenSub[s].life = lives => sub[s].life = lives
  /\ pc # "rest" /\ relied[s] = lives => sub[s].life = lives

NameLife(n) ==
  /\ n.life # 0 /\ n.life <= lives
  /\ workshop # "none" /\ n.life = lives => sub[n.sub].life = lives

LivesInOrder ==
  /\ LivesBegun
  /\ \A s \in Subscriptions : SubLife(s)
  /\ \A p \in 1..MaxPlans : \A n \in plan[p].names : NameLife(n)

(* The plan p lists something for the subscription as it is.               *)
RefersTo(s, p) ==
  /\ plan[p].phase \notin {"none", "gone"}
  /\ \E n \in plan[p].names : n.sub = s /\ n.life = sub[s].life

(* What a subscription and its copy in the cache refer to is a plan, and a *)
(* copy of the subscription as it is shows no later state.                 *)
ReferencesHold ==
  \A s \in Subscriptions :
    /\ sub[s].ref # None => RefersTo(s, sub[s].ref)
    /\ sub[s].life # 0 /\ seenSub[s].life = sub[s].life =>
         /\ seenSub[s].starting = sub[s].starting
         /\ seenSub[s].installed <= sub[s].installed
         /\ seenSub[s].ref # None => RefersTo(s, seenSub[s].ref)

(* Nothing older than the version a subscription starts with is installed  *)
(* or proposed, and nothing newer before that is installed.                *)
StartFirst ==
  /\ \A s \in Subscriptions :
       sub[s].starting # None /\ sub[s].installed # None => sub[s].installed >= sub[s].starting
  /\ \A p \in 1..MaxPlans : \A n \in plan[p].names :
       n.life = sub[n.sub].life /\ sub[n.sub].starting # None =>
         n.version = sub[n.sub].starting \/ sub[n.sub].installed >= sub[n.sub].starting

(* The plan the worker is at is that of the subscription it has read.      *)
InHand == pc \in {"plan", "update"}

HeldIsReferred ==
  InHand /\ sub[current].life # 0 /\ relied[current] = sub[current].life =>
    RefersTo(current, heldRef)

(* What the pass has done with so far.                                     *)
Settled(s) ==
  /\ Approval[s] = "always"
  /\ AskedFromTheStart(s)
  /\ relied[s] = sub[s].life
  => OnItsWay(s, asked[s])

SettledSoFar ==
  pc # "rest" \/ done =>
    \A s \in Subscriptions : Settled(s) \/ (InHand /\ s = current)

-----------------------------------------------------------------------------
(* The plan lists nothing but what it listed, or what Resolve makes it.    *)
LEMMA NamesMove ==
  ASSUME TypeOK, [Next]_vars, NEW q \in 1..MaxPlans, NEW n \in plan'[q].names
  PROVE  \/ n \in plan[q].names
         \/ \E t \in Subscriptions : OlmStep /\ ToInstall(t) /\ n = TargetName(t)
<1>1. ASSUME NEW s \in Subscriptions, Resolve(s)
      PROVE  \/ n \in plan[q].names
             \/ \E t \in Subscriptions : OlmStep /\ ToInstall(t) /\ n = TargetName(t)
  <2>1. PICK p \in 1..MaxPlans : ResolvedAs(s, p)
    BY <1>1, ResolveEffect
  <2>2. CASE p = q
    <3>1. n \in {TargetName(t) : t \in Group(s)}
      BY <2>1, <2>2 DEF ResolvedAs, TypeOK
    <3>2. OlmStep
      BY <1>1 DEF OlmStep
    <3> QED
      BY <3>1, <3>2 DEF Group
  <2>3. CASE p # q
    BY <2>1, <2>3 DEF ResolvedAs, TypeOK
  <2> QED
    BY <2>2, <2>3
<1>2. ASSUME NEW p \in 1..MaxPlans, Install(p) PROVE n \in plan[q].names
  <2>1. plan' = [plan EXCEPT ![p].phase = "complete"]
    BY <1>2, InstallEffect
  <2> QED
    BY <2>1 DEF TypeOK, Plan
<1>3. ASSUME NEW p \in 1..MaxPlans, Collect(p) PROVE n \in plan[q].names
  BY <1>3 DEF Collect, TypeOK
<1>4. CASE Approve
  <2>1. CASE plan' = plan
    BY <2>1
  <2>2. CASE heldRef \in 1..MaxPlans /\ plan' = [plan EXCEPT ![heldRef].phase = "approved"]
    BY <2>2 DEF TypeOK, Plan
  <2> QED
    BY <1>4, <2>1, <2>2, ApproveEffect
<1>5. CASE ~OlmStep /\ ~Approve /\ ~(\E p \in 1..MaxPlans : Collect(p))
  <2>1. plan' = plan
    BY <1>5
    DEF Next, CreateWorkshop, EditWorkshop, DeleteWorkshop, Publish, CacheStep, SubscriptionSeen,
        PlanSeen, WorkerStep, BeginPass, Subscribe, ReadBack, Look, ReadPlan, PassEnds, TearDown,
        CallFails, vars, olm
  <2> QED
    BY <2>1
<1> QED
  BY <1>1, <1>2, <1>3, <1>4, <1>5 DEF OlmStep

(* The life of a subscription, and the version it starts with, are its     *)
(* own: they change only as it is deleted or created.                      *)
LEMMA LifeMoves ==
  ASSUME TypeOK, LivesInOrder, [Next]_vars, NEW s \in Subscriptions
  PROVE  \/ sub'[s] = sub[s]
         \/ /\ sub'[s] = Absent /\ TearDown
         \/ /\ Subscribe /\ s = current /\ sub[s] = Absent
            /\ sub'[s] = [Absent EXCEPT !.life = lives, !.starting = asked[s]]
         \/ /\ OlmStep /\ sub[s].life # 0
            /\ sub'[s].life = sub[s].life /\ sub'[s].starting = sub[s].starting
            /\ sub'[s].installed >= sub[s].installed
<1>1. ASSUME NEW p \in 1..MaxPlans, NEW t \in Subscriptions, Resolve(t), s \in Group(t),
             sub'[s] = [sub[s] EXCEPT !.ref = p]
      PROVE  /\ OlmStep /\ sub[s].life # 0
             /\ sub'[s].life = sub[s].life /\ sub'[s].starting = sub[s].starting
             /\ sub'[s].installed >= sub[s].installed
  <2>1. sub[s] # Absent
    BY <1>1 DEF Group, ToInstall
  <2> QED
    BY <1>1, <2>1, SubTyped DEF OlmStep, LivesInOrder, SubLife, Subscription
<1>2. ASSUME NEW p \in 1..MaxPlans, NEW n \in plan[p].names, Install(p),
             n.life = sub[s].life, n.version > sub[s].installed,
             sub'[s] = [sub[s] EXCEPT !.installed = n.version]
      PROVE  /\ OlmStep /\ sub[s].life # 0
             /\ sub'[s].life = sub[s].life /\ sub'[s].starting = sub[s].starting
             /\ sub'[s].installed >= sub[s].installed
  <2>1. n.life # 0
    BY DEF LivesInOrder, NameLife
  <2>2. n.version \in Nat /\ sub[s].installed \in Nat
    BY NamesTyped, SubTyped DEF Version
  <2>3. sub'[s].life = sub[s].life /\ sub'[s].starting = sub[s].starting /\ sub'[s].installed = n.version
    BY <1>2, SubTyped DEF Subscription
  <2> QED
    BY <1>2, <2>1, <2>2, <2>3 DEF OlmStep
<1> QED
  BY <1>1, <1>2, SubsMove

LEMMA WorkshopMoves ==
  ASSUME TypeOK, AskedBefore, [Next]_vars
  PROVE  \/ lives' = lives /\ workshop' = workshop
         \/ EditWorkshop \/ DeleteWorkshop \/ TearDown
         \/ /\ CreateWorkshop /\ lives' = lives + 1 /\ pc' = "rest"
            /\ UNCHANGED <<sub, seenSub, plan>>
<1>1. CASE CreateWorkshop
  <2>1. pc = "rest"
    BY <1>1 DEF CreateWorkshop, AskedBefore
  <2> QED
    BY <1>1, <2>1 DEF CreateWorkshop, worker, olm, cache
<1>2. CASE ~CreateWorkshop /\ ~EditWorkshop /\ ~DeleteWorkshop /\ ~TearDown
  BY <1>2, ResolveEffect, InstallEffect
  DEF Next, OlmStep, Collect, Publish, CacheStep, SubscriptionSeen, PlanSeen,
      WorkerStep, BeginPass, Subscribe, ReadBack, Look, ReadPlan, Approve, PassEnds,
      CallFails, vars, user
<1> QED
  BY <1>1, <1>2
LEMMA SeenSubsMove ==
  ASSUME TypeOK, [Next]_vars, NEW s \in Subscriptions
  PROVE  \/ seenSub'[s] = seenSub[s]
         \/ seenSub'[s] = sub[s] /\ UNCHANGED <<sub, plan, workshop, lives, worker>>
<1>1. ASSUME NEW t \in Subscriptions, SubscriptionSeen(t)
      PROVE  \/ seenSub'[s] = seenSub[s]
             \/ seenSub'[s] = sub[s] /\ UNCHANGED <<sub, plan, workshop, lives, worker>>
  BY <1>1 DEF SubscriptionSeen, TypeOK, olm, user
<1>2. CASE ~(\E t \in Subscriptions : SubscriptionSeen(t))
  <2>1. seenSub' = seenSub
    <3>1. CASE OlmStep
      BY <3>1, ResolveEffect, InstallEffect DEF OlmStep, cache
    <3>2. CASE ~OlmStep
      BY <1>2, <3>2
      DEF Next, Collect, CreateWorkshop, EditWorkshop, DeleteWorkshop, Publish, CacheStep,
          PlanSeen, WorkerStep, BeginPass, Subscribe, ReadBack, Look, ReadPlan, Approve,
          PassEnds, TearDown, CallFails, vars, cache
    <3> QED
      BY <3>1, <3>2
  <2> QED
    BY <2>1
<1> QED
  BY <1>1, <1>2

(* The pass goes on, or a new one begins.                                  *)
LEMMA PassMoves ==
  ASSUME TypeOK, [Next]_vars, pc' # "rest"
  PROVE  \/ BeginPass
         \/ /\ pc # "rest" /\ UNCHANGED <<order, asked>>
            /\ relied' = relied \/ Look
<1>1. CASE WorkerStep \/ CallFails
  BY <1>1 DEF WorkerStep, CallFails, Retry, Subscribe, ReadBack, Look, ReadPlan, Approve, PassEnds,
              TearDown, At, user
<1>2. CASE OlmStep
  BY <1>2, ResolveEffect, InstallEffect DEF OlmStep, user, worker
<1>3. CASE ~WorkerStep /\ ~CallFails /\ ~OlmStep
  BY <1>3
  DEF Next, CreateWorkshop, EditWorkshop, DeleteWorkshop, Collect, Publish, CacheStep,
      SubscriptionSeen, PlanSeen, user, worker, vars
<1> QED
  BY <1>1, <1>2, <1>3

LEMMA LivesStep == TypeOK /\ AskedBefore /\ LivesInOrder /\ [Next]_vars => LivesInOrder'
<1> SUFFICES ASSUME TypeOK, AskedBefore, LivesInOrder, [Next]_vars PROVE LivesInOrder'
  OBVIOUS
<1>0. lives \in Nat
  BY DEF TypeOK
<1>1. \/ /\ lives' = lives /\ (workshop' # "none" => workshop # "none")
         /\ TearDown => workshop' = "none" /\ pc' = "rest"
      \/ /\ lives' = lives + 1 /\ pc' = "rest"
         /\ UNCHANGED <<sub, seenSub, plan>>
  BY WorkshopMoves DEF EditWorkshop, DeleteWorkshop, TearDown
<1>2. LivesBegun'
  BY <1>0, <1>1 DEF LivesInOrder, LivesBegun
<1>3. ASSUME NEW s \in Subscriptions PROVE SubLife(s)'
  <2>0. SubLife(s) /\ LivesBegun
    BY DEF LivesInOrder
  <2>1. /\ sub[s].life \in Nat /\ seenSub[s].life \in Nat
    BY SubTyped DEF TypeOK, Subscription
  <2>2. CASE lives' = lives + 1 /\ pc' = "rest" /\ UNCHANGED <<sub, seenSub, plan>>
    BY <1>0, <2>0, <2>1, <2>2 DEF SubLife
  <2>3. CASE /\ lives' = lives /\ (workshop' # "none" => workshop # "none")
             /\ TearDown => workshop' = "none" /\ pc' = "rest"
    <3>1. /\ sub'[s].life <= lives /\ (sub'[s].life = 0 => sub'[s] = Absent)
          /\ sub[s].life = lives => sub'[s].life = lives \/ TearDown
      <4>1. CASE sub'[s] = Absent
        <5>1. TearDown \/ sub'[s].life = sub[s].life
          BY <4>1, LifeMoves
        <5> QED
          BY <1>0, <4>1, <5>1, AbsentTyped
      <4>2. CASE sub'[s] = [Absent EXCEPT !.life = lives, !.starting = asked[s]] /\ Subscribe
        <5>1. sub'[s].life = lives
          BY <4>2 DEF Absent
        <5>2. lives # 0
          BY <2>0, <4>2, SubscribeEffect DEF AskedBefore, LivesBegun
        <5> QED
          BY <1>0, <5>1, <5>2
      <4> QED
        BY <2>0, <2>1, <4>1, <4>2, LifeMoves DEF SubLife
    <3>2. /\ seenSub'[s].life <= lives /\ (seenSub'[s].life = 0 => seenSub'[s] = Absent)
          /\ workshop' # "none" /\ seenSub'[s].life = lives => sub'[s].life = lives
      <4>1. CASE seenSub'[s] = seenSub[s]
        BY <2>0, <2>3, <3>1, <4>1 DEF SubLife
      <4>2. CASE seenSub'[s] = sub[s] /\ UNCHANGED <<sub, plan, workshop, lives, worker>>
        BY <2>0, <4>2 DEF SubLife
      <4> QED
        BY <4>1, <4>2, SeenSubsMove
    <3>3. pc' # "rest" /\ relied'[s] = lives => sub'[s].life = lives
      <4>1. SUFFICES ASSUME pc' # "rest", relied'[s] = lives PROVE sub'[s].life = lives
        OBVIOUS
      <4>2. CASE BeginPass
        <5>1. relied'[s] = 0 /\ workshop # "none"
          BY <4>2 DEF BeginPass
        <5> QED
          BY <2>0, <4>1, <5>1 DEF LivesBegun
      <4>3. CASE pc # "rest" /\ relied' = relied
        BY <2>0, <2>3, <3>1, <4>1, <4>3 DEF SubLife
      <4>4. CASE pc # "rest" /\ Look
        <5>1. relied'[s] = relied[s] \/ relied'[s] = seenSub[s].life
          BY <4>4, LookEffect DEF TypeOK
        <5>2. workshop # "none"
          BY <4>4 DEF AskedBefore
        <5>3. sub[s].life = lives
          BY <2>0, <4>1, <4>4, <5>1, <5>2 DEF SubLife
        <5> QED
          BY <4>4, <5>3, LookEffect
      <4> QED
        BY <4>1, <4>2, <4>3, <4>4, PassMoves
    <3> QED
      BY <2>3, <3>1, <3>2, <3>3 DEF SubLife
  <2> QED
    BY <1>1, <2>2, <2>3
<1>4. ASSUME NEW q \in 1..MaxPlans, NEW n \in plan'[q].names PROVE NameLife(n)'
  <2>1. CASE n \in plan[q].names
    <3>1. NameLife(n) /\ n.sub \in Subscriptions /\ n.life \in Nat /\ SubLife(n.sub)
      BY <2>1, NamesTyped DEF LivesInOrder
    <3>2. CASE lives' = lives + 1
      BY <1>0, <3>1, <3>2 DEF NameLife
    <3>3. CASE /\ lives' = lives /\ (workshop' # "none" => workshop # "none")
               /\ TearDown => workshop' = "none"
      <4>1. sub[n.sub].life = lives => sub'[n.sub].life = lives \/ TearDown
        <5>1. CASE sub'[n.sub] = [Absent EXCEPT !.life = lives, !.starting = asked[n.sub]]
          BY <5>1 DEF Absent
        <5> QED
          BY <3>1, <5>1, LifeMoves
      <4> QED
        BY <3>1, <3>3, <4>1 DEF NameLife
    <3> QED
      BY <1>1, <3>2, <3>3
  <2>2. ASSUME NEW t \in Subscriptions, OlmStep, ToInstall(t), n = TargetName(t) PROVE NameLife(n)'
    <3>1. n.life = sub[t].life /\ n.sub = t /\ SubLife(t) /\ sub[t] # Absent
      BY <2>2 DEF TargetName, ToInstall, LivesInOrder
    <3>2. sub'[t].life = sub[t].life
      BY <2>2, <3>1, ResolveEffect, ResolvedTyped, SubTyped DEF OlmStep, ResolvedAs, Subscription, Install
    <3>3. lives' = lives /\ workshop' = workshop
      BY <2>2, ResolveEffect, InstallEffect DEF OlmStep, user
    <3> QED
      BY <3>1, <3>2, <3>3 DEF NameLife, SubLife
  <2> QED
    BY <2>1, <2>2, NamesMove
<1> QED
  BY <1>2, <1>3, <1>4 DEF LivesInOrder
-----------------------------------------------------------------------------
(* A plan that lists something for a subscription as it is does not go.    *)
LEMMA RefersKept ==
  ASSUME TypeOK, [Next]_vars, NEW s \in Subscriptions, NEW p \in 1..MaxPlans, RefersTo(s, p),
         sub'[s].life = sub[s].life
  PROVE  RefersTo(s, p)'
<1>1. PICK n \in plan[p].names : n.sub = s /\ n.life = sub[s].life
  BY DEF RefersTo
<1>2. PlanKept(p) /\ plan[p].phase \notin {"none", "gone"}
  BY PlansMove DEF RefersTo
<1>3. plan'[p].phase # "gone"
  <2>1. ASSUME NEW t \in Subscriptions, Resolve(t) PROVE plan'[p].phase # "gone"
    <3>1. PICK q \in 1..MaxPlans : ResolvedAs(t, q)
      BY <2>1, ResolveEffect
    <3> QED
      BY <1>2, <3>1 DEF ResolvedAs, TypeOK
  <2>2. ASSUME NEW q \in 1..MaxPlans, Install(q) PROVE plan'[p].phase # "gone"
    <3>1. plan' = [plan EXCEPT ![q].phase = "complete"]
      BY <2>2, InstallEffect
    <3> QED
      BY <1>2, <3>1 DEF TypeOK, Plan
  <2>3. ASSUME NEW q \in 1..MaxPlans, Collect(q) PROVE plan'[p].phase # "gone"
    <3>1. q # p
      BY <1>1, <2>3 DEF Collect
    <3> QED
      BY <1>2, <2>3, <3>1 DEF Collect, TypeOK
  <2>4. CASE Approve
    <3>1. CASE plan' = plan
      BY <1>2, <3>1
    <3>2. CASE heldRef \in 1..MaxPlans /\ plan' = [plan EXCEPT ![heldRef].phase = "approved"]
      BY <1>2, <3>2 DEF TypeOK, Plan
    <3> QED
      BY <2>4, <3>1, <3>2, ApproveEffect
  <2>5. CASE ~OlmStep /\ ~Approve /\ ~(\E q \in 1..MaxPlans : Collect(q))
    <3>1. plan' = plan
      BY <2>5
      DEF Next, CreateWorkshop, EditWorkshop, DeleteWorkshop, Publish, CacheStep, SubscriptionSeen,
          PlanSeen, WorkerStep, BeginPass, Subscribe, ReadBack, Look, ReadPlan, PassEnds, TearDown,
          CallFails, vars, olm
    <3> QED
      BY <1>2, <3>1
  <2> QED
    BY <2>1, <2>2, <2>3, <2>4, <2>5 DEF OlmStep
<1>4. plan'[p].phase # "none" /\ plan'[p].names = plan[p].names
  BY <1>2, <1>3 DEF PlanKept
<1> QED
  BY <1>1, <1>3, <1>4 DEF RefersTo

LEMMA RefTyped ==
  ASSUME TypeOK, NEW s \in Subscriptions
  PROVE  /\ sub[s].ref # None => sub[s].ref \in 1..MaxPlans
         /\ seenSub[s].ref # None => seenSub[s].ref \in 1..MaxPlans
<1>1. sub[s].ref \in 0..MaxPlans /\ seenSub[s].ref \in 0..MaxPlans
  BY DEF TypeOK, Subscription
<1> QED
  BY <1>1, InstallPlansAssumption DEF None

LEMMA InstalledNat ==
  ASSUME TypeOK, [Next]_vars, NEW s \in Subscriptions
  PROVE  sub[s].installed \in Nat /\ sub'[s].installed \in Nat /\ seenSub[s].installed \in Nat
<1>1. TypeOK'
  BY TypeStep
<1>2. sub[s] \in Subscription /\ sub'[s] \in Subscription /\ seenSub[s] \in Subscription
  BY <1>1 DEF TypeOK
<1>3. \A x \in Subscription : x.installed \in Nat
  BY DEF Subscription
<1> QED
  BY <1>2, <1>3

LEMMA ReferencesStep ==
  TypeOK /\ AskedBefore /\ LivesInOrder /\ ReferencesHold /\ [Next]_vars => ReferencesHold'
<1> SUFFICES ASSUME TypeOK, AskedBefore, LivesInOrder, ReferencesHold, [Next]_vars,
                    NEW s \in Subscriptions
             PROVE  /\ (sub[s].ref # None => RefersTo(s, sub[s].ref))'
                    /\ (sub[s].life # 0 /\ seenSub[s].life = sub[s].life =>
                          /\ seenSub[s].starting = sub[s].starting
                          /\ seenSub[s].installed <= sub[s].installed
                          /\ seenSub[s].ref # None => RefersTo(s, seenSub[s].ref))'
  BY DEF ReferencesHold
<1>0. SubLife(s) /\ LivesBegun
  BY DEF LivesInOrder
<1>1. (sub[s].ref # None => RefersTo(s, sub[s].ref))'
  <2>1. ASSUME sub'[s].ref = sub[s].ref, sub'[s].life = sub[s].life
        PROVE  (sub[s].ref # None => RefersTo(s, sub[s].ref))'
    <3>1. sub[s].ref # None => RefersTo(s, sub[s].ref)'
      <4>1. SUFFICES ASSUME sub[s].ref # None PROVE RefersTo(s, sub[s].ref)'
        OBVIOUS
      <4>2. PICK p \in 1..MaxPlans : p = sub[s].ref
        BY <4>1, RefTyped
      <4>3. RefersTo(s, p)
        BY <4>1, <4>2 DEF ReferencesHold
      <4>4. RefersTo(s, p)'
        BY <2>1, <4>3, RefersKept
      <4> QED
        BY <2>1, <4>2, <4>4
    <3> QED
      BY <2>1, <3>1
  <2>2. ASSUME NEW p \in 1..MaxPlans, NEW t \in Subscriptions, ResolvedAs(t, p), s \in Group(t),
               sub'[s] = [sub[s] EXCEPT !.ref = p]
        PROVE  RefersTo(s, sub[s].ref)'
    <3>1. sub'[s].ref = p /\ sub'[s].life = sub[s].life
      BY <2>2, SubTyped DEF Subscription
    <3>2. plan'[p].phase = "pending" /\ TargetName(s) \in plan'[p].names
      BY <2>2 DEF ResolvedAs, TypeOK
    <3>3. TargetName(s).sub = s /\ TargetName(s).life = sub'[s].life
      BY <3>1 DEF TargetName
    <3> QED
      BY <3>1, <3>2, <3>3 DEF RefersTo
  <2>3. ASSUME NEW v, sub'[s] = [sub[s] EXCEPT !.installed = v]
        PROVE  sub'[s].ref = sub[s].ref /\ sub'[s].life = sub[s].life
    BY <2>3, SubTyped DEF Subscription
  <2>4. CASE sub'[s] = Absent \/ sub'[s] = [Absent EXCEPT !.life = lives, !.starting = asked[s]]
    <3>1. sub'[s].ref = None
      <4>1. Absent.ref = None
        BY DEF Absent
      <4>2. [Absent EXCEPT !.life = lives, !.starting = asked[s]].ref = None
        BY DEF Absent
      <4> QED
        BY <2>4, <4>1, <4>2
    <3> QED
      BY <3>1
  <2> QED
    BY <2>1, <2>2, <2>3, <2>4, SubsMove
<1>2. (sub[s].life # 0 /\ seenSub[s].life = sub[s].life =>
         /\ seenSub[s].starting = sub[s].starting
         /\ seenSub[s].installed <= sub[s].installed
         /\ seenSub[s].ref # None => RefersTo(s, seenSub[s].ref))'
  <2>1. CASE seenSub'[s] = sub[s] /\ UNCHANGED <<sub, plan, workshop, lives, worker>>
    BY <1>1, <2>1, SubTyped
  <2>2. CASE seenSub'[s] = seenSub[s]
    <3>1. SUFFICES ASSUME sub'[s].life # 0, seenSub[s].life = sub'[s].life
                   PROVE  /\ seenSub[s].starting = sub'[s].starting
                          /\ seenSub[s].installed <= sub'[s].installed
                          /\ seenSub[s].ref # None => RefersTo(s, seenSub[s].ref)'
      BY <2>2
    <3>2. /\ sub'[s].life = sub[s].life /\ sub'[s].starting = sub[s].starting
          /\ sub'[s].installed >= sub[s].installed
      <4>1. CASE /\ Subscribe /\ sub[s] = Absent
                 /\ sub'[s] = [Absent EXCEPT !.life = lives, !.starting = asked[s]]
        <5>1. sub'[s].life = lives /\ workshop # "none"
          BY <4>1, SubscribeEffect DEF Absent, AskedBefore
        <5>2. sub[s].life = lives
          BY <1>0, <3>1, <5>1 DEF SubLife
        <5> QED
          BY <1>0, <4>1, <5>1, <5>2, AbsentTyped DEF LivesBegun
      <4>2. CASE sub'[s] = Absent
        BY <3>1, <4>2, AbsentTyped
      <4>3. CASE sub'[s] = sub[s]
        BY <4>3, InstalledNat
      <4> QED
        BY <4>1, <4>2, <4>3, LifeMoves
    <3>3. /\ seenSub[s].starting = sub[s].starting
          /\ seenSub[s].installed <= sub[s].installed
          /\ seenSub[s].ref # None => RefersTo(s, seenSub[s].ref)
      BY <3>1, <3>2 DEF ReferencesHold
    <3>4. seenSub[s].ref # None => RefersTo(s, seenSub[s].ref)'
      <4>1. SUFFICES ASSUME seenSub[s].ref # None PROVE RefersTo(s, seenSub[s].ref)'
        OBVIOUS
      <4>2. PICK p \in 1..MaxPlans : p = seenSub[s].ref
        BY <4>1, RefTyped
      <4>3. RefersTo(s, p)'
        BY <3>2, <3>3, <4>1, <4>2, RefersKept
      <4> QED
        BY <2>2, <4>2, <4>3
    <3>5. /\ seenSub[s].installed \in Nat /\ sub[s].installed \in Nat
          /\ sub'[s].installed \in Nat
      BY InstalledNat
    <3> QED
      BY <3>2, <3>3, <3>4, <3>5
  <2> QED
    BY <2>1, <2>2, SeenSubsMove
<1> QED
  BY <1>1, <1>2
-----------------------------------------------------------------------------
LEMMA StartingNat ==
  ASSUME TypeOK, NEW s \in Subscriptions
  PROVE  sub[s].starting \in Nat
<1>1. \A x \in Subscription : x.starting \in Nat
  BY DEF Subscription
<1> QED
  BY <1>1 DEF TypeOK

LEMMA StartFirstStep ==
  TypeOK /\ AskedBefore /\ LivesInOrder /\ StartFirst /\ [Next]_vars => StartFirst'
<1> SUFFICES ASSUME TypeOK, AskedBefore, LivesInOrder, StartFirst, [Next]_vars PROVE StartFirst'
  OBVIOUS
<1>1. ASSUME NEW s \in Subscriptions, sub'[s].starting # None, sub'[s].installed # None
      PROVE  sub'[s].installed >= sub'[s].starting
  <2>1. ASSUME sub'[s].starting = sub[s].starting, sub'[s].installed = sub[s].installed
        PROVE  sub'[s].installed >= sub'[s].starting
    BY <1>1, <2>1 DEF StartFirst
  <2>2. ASSUME NEW p, sub'[s] = [sub[s] EXCEPT !.ref = p]
        PROVE  sub'[s].starting = sub[s].starting /\ sub'[s].installed = sub[s].installed
    BY <2>2, SubTyped DEF Subscription
  <2>3. ASSUME NEW p \in 1..MaxPlans, NEW n \in plan[p].names, n.sub = s, n.life = sub[s].life,
               n.version > sub[s].installed, sub'[s] = [sub[s] EXCEPT !.installed = n.version]
        PROVE  sub'[s].installed >= sub'[s].starting
    <3>1. sub'[s].installed = n.version /\ sub'[s].starting = sub[s].starting
      BY <2>3, SubTyped DEF Subscription
    <3>2. n.version = sub[s].starting \/ sub[s].installed >= sub[s].starting
      BY <1>1, <2>3, <3>1 DEF StartFirst
    <3>3. n.version \in Nat /\ sub[s].installed \in Nat /\ sub[s].starting \in Nat
      BY NamesTyped, InstalledNat, StartingNat DEF Version
    <3> QED
      BY <2>3, <3>1, <3>2, <3>3
  <2>4. sub'[s] # Absent /\ sub'[s] # [Absent EXCEPT !.life = lives, !.starting = asked[s]]
    <3>1. [Absent EXCEPT !.life = lives, !.starting = asked[s]].installed = None
      BY DEF Absent
    <3> QED
      BY <1>1, <3>1, AbsentTyped
  <2> QED
    BY <2>1, <2>2, <2>3, <2>4, SubsMove
<1>2. ASSUME NEW q \in 1..MaxPlans, NEW n \in plan'[q].names,
             n.life = sub'[n.sub].life, sub'[n.sub].starting # None
      PROVE  n.version = sub'[n.sub].starting \/ sub'[n.sub].installed >= sub'[n.sub].starting
  <2>1. CASE n \in plan[q].names
    <3>1. n.sub \in Subscriptions /\ NameLife(n) /\ LivesBegun /\ SubLife(n.sub)
      BY <2>1, NamesTyped DEF LivesInOrder
    <3>2. sub'[n.sub] # Absent
      BY <1>2, <3>1 DEF NameLife, Absent
    <3>3. ~(/\ Subscribe /\ sub[n.sub] = Absent
            /\ sub'[n.sub] = [Absent EXCEPT !.life = lives, !.starting = asked[n.sub]])
      <4>1. SUFFICES ASSUME Subscribe, sub[n.sub] = Absent,
                            sub'[n.sub] = [Absent EXCEPT !.life = lives, !.starting = asked[n.sub]]
                     PROVE  FALSE
        OBVIOUS
      <4>2. n.life = lives
        BY <1>2, <4>1 DEF Absent
      <4>3. workshop # "none"
        BY <4>1, SubscribeEffect DEF AskedBefore
      <4> QED
        BY <3>1, <4>1, <4>2, <4>3, AbsentTyped DEF NameLife, LivesBegun
    <3>4. /\ sub'[n.sub].life = sub[n.sub].life /\ sub'[n.sub].starting = sub[n.sub].starting
          /\ sub'[n.sub].installed >= sub[n.sub].installed
      <4>1. CASE sub'[n.sub] = sub[n.sub]
        BY <3>1, <4>1, InstalledNat
      <4> QED
        BY <3>1, <3>2, <3>3, <4>1, LifeMoves
    <3>5. n.version = sub[n.sub].starting \/ sub[n.sub].installed >= sub[n.sub].starting
      BY <1>2, <2>1, <3>4 DEF StartFirst
    <3> QED
      BY <3>1, <3>4, <3>5, InstalledNat, StartingNat
  <2>2. ASSUME NEW t \in Subscriptions, OlmStep, ToInstall(t), n = TargetName(t)
        PROVE  n.version = sub'[n.sub].starting \/ sub'[n.sub].installed >= sub'[n.sub].starting
    <3>1. n.sub = t /\ n.version = Target(t) /\ sub[t] # Absent
      BY <2>2 DEF TargetName, ToInstall
    <3>2. ~TearDown
      BY <2>2, ResolveEffect, InstallEffect DEF OlmStep, TearDown, user, AskedBefore
    <3>3. sub'[t].starting = sub[t].starting /\ sub'[t].installed >= sub[t].installed
      <4>1. CASE sub'[t] = sub[t]
        BY <4>1, InstalledNat
      <4> QED
        BY <3>1, <3>2, <4>1, LifeMoves
    <3>4. CASE sub[t].installed # None
      <4>1. sub[t].installed >= sub[t].starting
        BY <1>2, <3>1, <3>3, <3>4 DEF StartFirst
      <4> QED
        BY <3>1, <3>3, <4>1, InstalledNat, StartingNat
    <3>5. CASE sub[t].installed = None
      BY <1>2, <3>1, <3>3, <3>5 DEF Target
    <3> QED
      BY <3>4, <3>5
  <2> QED
    BY <2>1, <2>2, NamesMove
<1> QED
  BY <1>1, <1>2 DEF StartFirst

-----------------------------------------------------------------------------
(* The step before the worker has a plan in hand.                          *)
LEMMA InHandMoves ==
  ASSUME TypeOK, [Next]_vars, InHand'
  PROVE  \/ /\ Look /\ seenSub[current].ref # None /\ heldRef' = seenSub[current].ref
            /\ UNCHANGED <<order, turn, asked>>
         \/ InHand /\ UNCHANGED <<order, turn, heldRef, asked, relied>>
<1>1. CASE WorkerStep \/ CallFails
  <2>1. CASE ReadPlan
    <3>1. Call("update") /\ pc = "plan"
      BY <1>1, <2>1, ReadPlanEffect DEF Retry, GoOn, NextSubscription, InHand
    <3> QED
      BY <2>1, <3>1, ReadPlanEffect DEF Call, user, InHand
  <2>2. CASE Subscribe
    BY <2>2, SubscribeEffect DEF NextSubscription, Call, InHand
  <2>3. CASE TearDown \/ BeginPass \/ PassEnds \/ CallFails
    BY <2>3 DEF TearDown, BeginPass, PassEnds, CallFails, Retry, InHand
  <2>4. CASE ReadBack
    BY <2>4 DEF ReadBack, NextSubscription, Call, InHand
  <2>5. CASE Look
    BY <2>5, LookEffect DEF Retry, GoOn, NextSubscription, InHand, user
  <2>6. CASE Approve
    BY <2>6, ApproveEffect DEF Retry, GoOn, NextSubscription, InHand
  <2> QED
    BY <1>1, <2>1, <2>2, <2>3, <2>4, <2>5, <2>6 DEF WorkerStep
<1>2. CASE ~WorkerStep /\ ~CallFails
  <2>1. UNCHANGED <<order, worker>>
    <3>1. CASE OlmStep
      BY <3>1, ResolveEffect, InstallEffect DEF OlmStep, user
    <3>2. CASE ~OlmStep
      BY <1>2, <3>2
      DEF Next, CreateWorkshop, EditWorkshop, DeleteWorkshop, Collect, Publish, CacheStep,
          SubscriptionSeen, PlanSeen, user, worker, vars
    <3> QED
      BY <3>1, <3>2
  <2> QED
    BY <2>1 DEF worker, InHand
<1> QED
  BY <1>1, <1>2

LEMMA HandTyped ==
  ASSUME TypeOK, InHand
  PROVE  current \in Subscriptions /\ heldRef \in 1..MaxPlans
<1>1. turn <= Len(order) /\ pc \in {"plan", "update"}
  BY DEF InHand, TypeOK
<1> QED
  BY <1>1, CurrentTyped, HeldRefTyped

LEMMA HeldStep ==
  TypeOK /\ AskedBefore /\ LivesInOrder /\ ReferencesHold /\ HeldIsReferred /\ [Next]_vars
    => HeldIsReferred'
<1> SUFFICES ASSUME TypeOK, AskedBefore, LivesInOrder, ReferencesHold, HeldIsReferred, [Next]_vars,
                    InHand', (sub[current].life # 0 /\ relied[current] = sub[current].life)'
             PROVE  RefersTo(current, heldRef)'
  BY DEF HeldIsReferred
<1>1. current' = current
  BY InHandMoves DEF current
<1>2. CASE Look /\ seenSub[current].ref # None /\ heldRef' = seenSub[current].ref
  <2>1. current \in Subscriptions /\ UNCHANGED <<sub, plan>> /\ relied'[current] = seenSub[current].life
    BY <1>2, LookEffect DEF olm, TypeOK
  <2>2. RefersTo(current, seenSub[current].ref)
    BY <1>1, <1>2, <2>1 DEF ReferencesHold
  <2> QED
    BY <1>1, <1>2, <2>1, <2>2 DEF RefersTo
<1>3. CASE InHand /\ UNCHANGED <<order, turn, heldRef, asked, relied>>
  <2>1. current \in Subscriptions /\ heldRef \in 1..MaxPlans
    BY <1>3, HandTyped
  <2>2. sub'[current].life = sub[current].life
    <3>1. ~TearDown /\ ~Subscribe
      BY <1>3 DEF InHand, TearDown, Subscribe, At
    <3> QED
      BY <2>1, <3>1, LifeMoves
  <2>3. RefersTo(current, heldRef)
    BY <1>1, <1>3, <2>2 DEF HeldIsReferred
  <2>4. RefersTo(current, heldRef)'
    <3>1. PICK s \in Subscriptions, p \in 1..MaxPlans : s = current /\ p = heldRef
      BY <2>1
    <3>2. RefersTo(s, p)'
      BY <2>2, <2>3, <3>1, RefersKept
    <3> QED
      BY <1>1, <1>3, <3>1, <3>2
  <2> QED
    BY <2>4
<1> QED
  BY <1>2, <1>3, InHandMoves
-----------------------------------------------------------------------------
(* What is on its way to a subscription arrives, or stays on its way.      *)
LEMMA OnItsWayKept ==
  ASSUME TypeOK, LivesInOrder, [Next]_vars, NEW s \in Subscriptions, OnItsWay(s, asked[s]),
         asked' = asked, sub'[s].life = sub[s].life, sub'[s].installed >= sub[s].installed
  PROVE  OnItsWay(s, asked[s])'
<1>1. CASE sub[s].installed >= asked[s]
  <2>1. asked[s] \in Nat
    BY AskedTyped
  <2>2. sub'[s].installed >= asked[s]
    BY <1>1, <2>1, InstalledNat
  <2> QED
    BY <2>2 DEF OnItsWay
<1>2. CASE ~(sub[s].installed >= asked[s])
  <2>1. PICK p \in 1..MaxPlans :
          /\ plan[p].phase \in {"approved", "complete"}
          /\ [sub |-> s, life |-> sub[s].life, version |-> asked[s]] \in plan[p].names
    BY <1>2 DEF OnItsWay
  <2>2. RefersTo(s, p)
    BY <2>1 DEF RefersTo
  <2>3. plan'[p].phase \notin {"none", "gone"}
    BY <2>2, RefersKept DEF RefersTo
  <2>4. plan'[p].phase \in {"approved", "complete"} /\ plan'[p].names = plan[p].names
    BY <2>1, <2>3, PlansMove DEF PlanKept
  <2> QED
    BY <2>1, <2>4 DEF OnItsWay
<1> QED
  BY <1>1, <1>2

(* A plan that lists a version for a subscription as it is, and is         *)
(* approved, has it on its way.                                            *)
LEMMA ListedIsOnItsWay ==
  ASSUME TypeOK, OneEach, NEW s \in Subscriptions, NEW p \in 1..MaxPlans, RefersTo(s, p),
         NEW n \in plan[p].names, n.sub = s
  PROVE  n = [sub |-> s, life |-> sub[s].life, version |-> n.version]
<1>1. PICK m \in plan[p].names : m.sub = s /\ m.life = sub[s].life
  BY DEF RefersTo
<1>2. n = m
  BY <1>1 DEF OneEach
<1>3. n \in Name
  BY NamesTyped
<1> QED
  BY <1>1, <1>2, <1>3 DEF Name

(* Only a subscription that is listed needs a plan.                        *)
LEMMA UnlistedIsInstalled ==
  ASSUME TypeOK, StartFirst, NEW s \in Subscriptions, NEW p \in 1..MaxPlans, RefersTo(s, p),
         AskedFromTheStart(s), \A n \in plan[p].names : ~(n.version = asked[s] /\ n.sub = s)
  PROVE  sub[s].installed >= asked[s]
<1>1. PICK n \in plan[p].names : n.sub = s /\ n.life = sub[s].life
  BY DEF RefersTo
<1>2. sub[s].starting = asked[s] /\ sub[s].starting # None
  BY DEF AskedFromTheStart
<1> QED
  BY <1>1, <1>2 DEF StartFirst

Sound ==
  /\ AskedBefore /\ OneEach /\ CopiesAgree /\ UpdateListed
  /\ LivesInOrder /\ ReferencesHold /\ StartFirst /\ HeldIsReferred

(* The worker is done with the plan in hand.                               *)
LEMMA ReadPlanSettles ==
  ASSUME TypeOK, Sound, ReadPlan, NextSubscription, AskedFromTheStart(current),
         relied[current] = sub[current].life
  PROVE  OnItsWay(current, asked[current])
<1>1. /\ current \in Subscriptions /\ heldRef \in 1..MaxPlans /\ pc = "plan"
      /\ seenPlan[heldRef].phase \notin {"none", "gone"}
      /\ ~(Lists(seenPlan[heldRef], asked[current]) /\ seenPlan[heldRef].phase = "pending")
  BY ReadPlanEffect DEF Retry, NextSubscription, Call
<1>2. RefersTo(current, heldRef)
  <2>1. sub[current].life # 0
    BY <1>1 DEF Sound, LivesInOrder, SubLife, AskedFromTheStart
  <2> QED
    BY <1>1, <2>1 DEF Sound, HeldIsReferred, InHand
<1>3. plan[heldRef].names = seenPlan[heldRef].names
  BY <1>1, <1>2 DEF Sound, CopiesAgree, RefersTo
<1>4. CASE Lists(plan[heldRef], asked[current])
  <2>1. seenPlan[heldRef].phase \in {"approved", "complete"}
    <3>1. seenPlan[heldRef].phase \in Phase
      BY <1>1 DEF TypeOK, Plan
    <3> QED
      BY <1>1, <1>3, <1>4, <3>1 DEF Lists, Phase
  <2>2. plan[heldRef].phase \in {"approved", "complete"}
    BY <1>1, <1>2, <2>1 DEF Sound, CopiesAgree, RefersTo
  <2>3. PICK n \in plan[heldRef].names : n.version = asked[current] /\ n.sub = current
    BY <1>4 DEF Lists
  <2>4. n = [sub |-> current, life |-> sub[current].life, version |-> asked[current]]
    BY <1>1, <1>2, <2>3, ListedIsOnItsWay DEF Sound
  <2> QED
    BY <1>1, <2>2, <2>3, <2>4 DEF OnItsWay
<1>5. CASE ~Lists(plan[heldRef], asked[current])
  BY <1>1, <1>2, <1>5, UnlistedIsInstalled DEF Lists, OnItsWay, Sound
<1> QED
  BY <1>4, <1>5

LEMMA ApproveSettles ==
  ASSUME TypeOK, Sound, Approve, NextSubscription, NEW s \in Subscriptions, s = current,
         AskedFromTheStart(s), relied[s] = sub[s].life
  PROVE  OnItsWay(s, asked[s])'
<1>1. /\ current \in Subscriptions /\ heldRef \in 1..MaxPlans /\ pc = "update"
      /\ plan[heldRef].phase = "pending"
      /\ plan' = [plan EXCEPT ![heldRef].phase = "approved"]
      /\ UNCHANGED <<asked, sub>>
  BY ApproveEffect DEF Retry, NextSubscription
<1>2. RefersTo(current, heldRef)
  <2>1. sub[current].life # 0
    BY <1>1 DEF Sound, LivesInOrder, SubLife, AskedFromTheStart
  <2> QED
    BY <1>1, <2>1 DEF Sound, HeldIsReferred, InHand
<1>3. PICK n \in plan[heldRef].names : n.version = asked[current] /\ n.sub = current
  BY <1>1 DEF Sound, UpdateListed, Lists
<1>4. n = [sub |-> current, life |-> sub[current].life, version |-> asked[current]]
  BY <1>1, <1>2, <1>3, ListedIsOnItsWay DEF Sound
<1>5. plan'[heldRef].phase = "approved" /\ plan'[heldRef].names = plan[heldRef].names
  BY <1>1 DEF TypeOK, Plan
<1> QED
  BY <1>1, <1>3, <1>4, <1>5 DEF OnItsWay

-----------------------------------------------------------------------------
LEMMA SettledStep == TypeOK /\ Sound /\ SettledSoFar /\ [Next]_vars => SettledSoFar'
<1> SUFFICES ASSUME TypeOK, Sound, SettledSoFar, [Next]_vars, pc' # "rest" \/ done',
                    NEW s \in Subscriptions, ~(InHand' /\ s = current'),
                    Approval[s] = "always", AskedFromTheStart(s)', relied'[s] = sub'[s].life
             PROVE  OnItsWay(s, asked[s])'
  BY DEF SettledSoFar, Settled
<1>0. LivesInOrder /\ SubLife(s) /\ LivesBegun /\ AskedBefore
  BY DEF Sound, LivesInOrder
<1>1. sub'[s] # Absent /\ asked'[s] # None /\ sub'[s].starting = asked'[s]
  BY DEF AskedFromTheStart
<1>2. sub'[s].life # 0
  <2>1. SubLife(s)'
    BY <1>0, LivesStep DEF LivesInOrder
  <2> QED
    BY <1>1, <2>1 DEF SubLife
<1>3. ~TearDown /\ ~CallFails
  BY DEF TearDown, CallFails, Retry
<1>4. ASSUME relied'[s] = relied[s], asked' = asked, ~BeginPass
      PROVE  /\ sub'[s].life = sub[s].life /\ sub'[s].installed >= sub[s].installed
             /\ AskedFromTheStart(s) /\ relied[s] = sub[s].life
  <2>1. ~(/\ Subscribe /\ sub[s] = Absent
          /\ sub'[s] = [Absent EXCEPT !.life = lives, !.starting = asked[s]])
    <3>1. SUFFICES ASSUME Subscribe, sub[s] = Absent,
                          sub'[s] = [Absent EXCEPT !.life = lives, !.starting = asked[s]]
                   PROVE  FALSE
      OBVIOUS
    <3>2. sub'[s].life = lives
      BY <3>1 DEF Absent
    <3>3. pc # "rest"
      BY <3>1, SubscribeEffect
    <3> QED
      BY <1>0, <1>2, <1>4, <3>1, <3>2, <3>3, AbsentTyped DEF SubLife
  <2>2. CASE sub'[s] = sub[s]
    <3>1. sub'[s].installed >= sub[s].installed
      BY <2>2, InstalledNat
    <3>2. AskedFromTheStart(s)
      BY <1>1, <1>4, <2>2 DEF AskedFromTheStart
    <3> QED
      BY <1>4, <2>2, <3>1, <3>2
  <2>3. CASE /\ sub[s].life # 0
             /\ sub'[s].life = sub[s].life /\ sub'[s].starting = sub[s].starting
             /\ sub'[s].installed >= sub[s].installed
    BY <1>1, <1>4, <2>3, AbsentTyped DEF AskedFromTheStart
  <2> QED
    BY <1>0, <1>1, <1>3, <2>1, <2>2, <2>3, LifeMoves
<1>5. ASSUME relied'[s] = relied[s], asked' = asked, ~BeginPass, pc # "rest" \/ done,
             ~(InHand /\ s = current)
      PROVE  OnItsWay(s, asked[s])'
  <2>1. OnItsWay(s, asked[s])
    BY <1>4, <1>5 DEF SettledSoFar, Settled
  <2> QED
    BY <1>0, <1>4, <1>5, <2>1, OnItsWayKept
<1>6. CASE BeginPass
  BY <1>2, <1>6 DEF BeginPass
<1>7. CASE Subscribe \/ ReadBack \/ PassEnds
  <2>1. UNCHANGED <<relied, asked>> /\ pc # "rest" /\ ~InHand /\ ~BeginPass
    BY <1>7 DEF Subscribe, ReadBack, PassEnds, At, InHand, BeginPass
  <2> QED
    BY <1>5, <2>1
<1>8. CASE Look
  <2>1. /\ pc = "look" /\ asked' = asked /\ sub' = sub /\ plan' = plan /\ ~BeginPass /\ ~InHand
        /\ relied' = [relied EXCEPT ![current] = seenSub[current].life]
    BY <1>8, LookEffect DEF olm, BeginPass, InHand
  <2>2. CASE s # current
    BY <1>5, <2>1, <2>2 DEF TypeOK
  <2>3. CASE s = current
    <3>1. relied'[s] = seenSub[s].life
      BY <2>1, <2>3 DEF TypeOK
    <3>2. ~Retry
      BY DEF Retry
    <3>3. ~(pc' = "plan" /\ UNCHANGED turn)
      BY <1>8, <2>3 DEF InHand, current, Look, user
    <3>4. Satisfies(seenSub[s], asked[s])
      BY <1>8, <2>3, <3>2, <3>3, LookEffect
    <3>5. seenSub[s].installed = asked[s]
      BY <1>1, <2>1, <3>4 DEF Satisfies
    <3>6. sub[s].installed >= asked[s]
      BY <1>2, <2>1, <3>1, <3>5, InstalledNat DEF Sound, ReferencesHold
    <3> QED
      BY <2>1, <3>6 DEF OnItsWay
  <2> QED
    BY <2>2, <2>3
<1>9. CASE ReadPlan
  <2>1. pc = "plan" /\ UNCHANGED <<asked, relied, sub, order>> /\ ~BeginPass /\ InHand
    BY <1>9, ReadPlanEffect DEF BeginPass, InHand, user
  <2>2. CASE s # current
    BY <1>5, <2>1, <2>2
  <2>3. CASE s = current
    <3>1. NextSubscription
      <4>1. ~Retry
        BY DEF Retry
      <4>2. ~Call("update")
        BY <2>1, <2>3 DEF Call, InHand, current
      <4> QED
        BY <1>9, <4>1, <4>2, ReadPlanEffect DEF GoOn
    <3>2. OnItsWay(s, asked[s])
      BY <1>4, <1>9, <2>1, <2>3, <3>1, ReadPlanSettles
    <3> QED
      BY <1>0, <1>4, <2>1, <3>2, OnItsWayKept
  <2> QED
    BY <2>2, <2>3
<1>10. CASE Approve
  <2>1. pc = "update" /\ UNCHANGED <<asked, relied, sub, order>> /\ ~BeginPass /\ InHand
    BY <1>10, ApproveEffect DEF BeginPass, InHand, user
  <2>2. CASE s # current
    BY <1>5, <2>1, <2>2
  <2>3. CASE s = current
    <3>1. NextSubscription
      <4>1. ~Retry
        BY DEF Retry
      <4> QED
        BY <1>10, <4>1, ApproveEffect DEF GoOn
    <3> QED
      BY <1>4, <1>10, <2>1, <2>3, <3>1, ApproveSettles
  <2> QED
    BY <2>2, <2>3
<1>11. CASE ~WorkerStep
  <2>1. UNCHANGED <<order, worker>>
    <3>1. CASE OlmStep
      BY <3>1, ResolveEffect, InstallEffect DEF OlmStep, user
    <3>2. CASE ~OlmStep
      BY <1>3, <1>11, <3>2
      DEF Next, CreateWorkshop, EditWorkshop, DeleteWorkshop, Collect, Publish, CacheStep,
          SubscriptionSeen, PlanSeen, user, worker, vars
    <3> QED
      BY <3>1, <3>2
  <2>2. /\ UNCHANGED <<relied, asked>> /\ (pc # "rest" \/ done)
        /\ ~(InHand /\ s = current) /\ ~BeginPass
    BY <1>11, <2>1 DEF worker, InHand, current, WorkerStep
  <2> QED
    BY <1>5, <2>2
<1> QED
  BY <1>3, <1>6, <1>7, <1>8, <1>9, <1>10, <1>11 DEF WorkerStep

(* A pass that ends well has every version it wants, and asks approval     *)
(* for, installed or in a plan that is approved, however far its copies    *)
(* were behind, as long as they were of the subscription as it is.         *)
THEOREM PassesApprove == Spec => []ApprovedWhenDone
<1>1. Init => Sound /\ SettledSoFar
  <2> SUFFICES ASSUME Init PROVE Sound /\ SettledSoFar
    OBVIOUS
  <2>1. AskedBefore /\ OneEach /\ CopiesAgree /\ UpdateListed
    BY DEF Init, AskedBefore, OneEach, CopiesAgree, UpdateListed
  <2>2. LivesInOrder
    BY AbsentTyped DEF Init, LivesInOrder, LivesBegun, SubLife
  <2>3. Absent.ref = None /\ Absent.installed = None
    BY DEF Absent
  <2>4. ReferencesHold /\ StartFirst /\ HeldIsReferred
    BY <2>3, AbsentTyped DEF Init, ReferencesHold, StartFirst, HeldIsReferred, InHand
  <2>5. SettledSoFar
    BY DEF Init, SettledSoFar
  <2> QED
    BY <2>1, <2>2, <2>4, <2>5 DEF Sound
<1>2. TypeOK /\ Sound /\ [Next]_vars => Sound'
  BY AskedBeforeStep, OneEachStep, CopiesStep, UpdateListedStep, LivesStep, ReferencesStep,
     StartFirstStep, HeldStep DEF Sound
<1>3. SettledSoFar => ApprovedWhenDone
  BY DEF SettledSoFar, Settled, ApprovedWhenDone, InHand
<1> QED
  BY <1>1, <1>2, <1>3, SettledStep, PlansTypeCorrect, PTL DEF Spec
=============================================================================
