-------------------------- MODULE ProjectLoops_proofs --------------------------
(***************************************************************************)
(* Theorems about ProjectLoops for every set of names, numbers of users    *)
(* and every number of lives, edits and faults.                            *)
(***************************************************************************)
EXTENDS ProjectLoops, TLAPS

LEMMA MadeCalls ==
  ASSUME NEW c \in 1..4
  PROVE  \/ c = 1 /\ Made[c] = "namespace"
         \/ c = 2 /\ Made[c] = "project"
         \/ c = 3 /\ Made[c] = "default"
         \/ c = 4 /\ Made[c] = "argocd"
<1>1. c = 1 \/ c = 2 \/ c = 3 \/ c = 4
  OBVIOUS
<1> QED
  BY <1>1 DEF Made

(* The states of the namespaces, and the bindings in them.                 *)
ClusterTyped ==
  /\ namespaces \in [Project -> {"none", "there", "terminating"}]
  /\ bindings \in [Project -> SUBSET Roles]
  /\ \A p \in Project : namespaces[p] = "none" => bindings[p] = {}

LEMMA HeldTyped ==
  ASSUME TypeOK
  PROVE  held.users \in Int /\ held.users < Beyond /\ held.staging \in Names
<1>1. held.users \in Numbers /\ held.staging \in Names
  BY DEF TypeOK, Specs
<1> QED
  BY <1>1, ProjectLoopsAssumption

LEMMA CurrentTyped == ASSUME TypeOK PROVE current \in Project
BY DEF TypeOK, current, Project, Specs

LEMMA CreatedTyped == ASSUME TypeOK, CanCreate, Created PROVE ClusterTyped'
<1>0. current \in Project
  BY CurrentTyped
<1>1. CASE Made[call] = "namespace"
  <2>1. namespaces' = [namespaces EXCEPT ![current] = IF @ = "none" THEN "there" ELSE @]
        /\ bindings' = bindings
    BY <1>1 DEF Created
  <2> QED
    BY <1>0, <2>1 DEF TypeOK, ClusterTyped
<1>2. CASE Made[call] # "namespace"
  <2>1. /\ bindings' = [bindings EXCEPT ![current] = @ \cup {Made[call]}]
        /\ namespaces' = namespaces
        /\ namespaces[current] = "there"
    BY <1>2 DEF Created, CanCreate
  <2>2. Made[call] \in Roles
    BY <1>2, MadeCalls DEF TypeOK, Roles
  <2> QED
    BY <1>0, <2>1, <2>2 DEF TypeOK, ClusterTyped
<1> QED
  BY <1>1, <1>2

LEMMA DroppedTyped == ASSUME TypeOK, CanDelete, Dropped PROVE ClusterTyped'
<1>0. current \in Project
  BY CurrentTyped
<1>1. CASE Unmade[call] = "namespace"
  BY <1>0, <1>1 DEF Dropped, TypeOK, ClusterTyped
<1>2. CASE Unmade[call] # "namespace"
  <2>1. /\ bindings' = [bindings EXCEPT ![current] = @ \ {Unmade[call]}]
        /\ namespaces' = namespaces
    BY <1>2 DEF Dropped
  <2> QED
    BY <1>0, <2>1 DEF TypeOK, ClusterTyped
<1> QED
  BY <1>1, <1>2

(* Where the worker is, as the end of a pass and a step of it leave it.    *)
WorkerTyped ==
  /\ workshop \in {"none", "live", "deleting"}
  /\ spec \in Specs
  /\ mode \in {"rest", "install", "teardown"}
  /\ held \in Specs
  /\ id \in Ids
  /\ call \in 1..4
  /\ ended \in {"nothing", "installed", "removed", "failed"}
  /\ lives \in Nat /\ edits \in Nat

LEMMA EndAsTyped ==
  ASSUME TypeOK, NEW e \in {"nothing", "installed", "removed", "failed"}, EndAs(e)
  PROVE  WorkerTyped'
<1>1. 1 \in Ids /\ 1 \in 1..4
  BY ProjectLoopsAssumption DEF Ids
<1> QED
  BY <1>1 DEF TypeOK, EndAs, WorkerTyped

LEMMA OnwardsTyped ==
  ASSUME TypeOK, Onwards
  PROVE  WorkerTyped'
<1>1. id' \in Ids /\ call' \in 1..4
  BY ProjectLoopsAssumption DEF TypeOK, Onwards, Ids
<1> QED
  BY <1>1 DEF TypeOK, Onwards, WorkerTyped, user

LEMMA NextCallTyped ==
  ASSUME TypeOK, NextCall
  PROVE  WorkerTyped'
<1>1. CASE call = 4
  BY <1>1, OnwardsTyped DEF NextCall
<1>2. CASE call # 4
  BY <1>2 DEF TypeOK, NextCall, WorkerTyped, user
<1> QED
  BY <1>1, <1>2

LEMMA ClusterKept == ASSUME TypeOK, UNCHANGED cluster PROVE ClusterTyped'
BY DEF TypeOK, cluster, ClusterTyped

LEMMA TypeInit == Init => TypeOK
<1> SUFFICES ASSUME Init PROVE TypeOK
  OBVIOUS
<1>1. id \in Ids
  BY ProjectLoopsAssumption DEF Init, Ids
<1> QED
  BY <1>1 DEF Init, TypeOK

LEMMA TypeStep == TypeOK /\ [Next]_vars => TypeOK'
<1> SUFFICES ASSUME TypeOK, [Next]_vars PROVE TypeOK'
  OBVIOUS
<1>0. ASSUME WorkerTyped', ClusterTyped', seen' \subseteq Project, faults' \in Nat
      PROVE  TypeOK'
  BY <1>0 DEF TypeOK, WorkerTyped, ClusterTyped
<1>1. CASE User
  BY <1>1 DEF User, CreateWorkshop, EditWorkshop, DeleteWorkshop, TypeOK, cluster, worker
<1>2. ASSUME NEW p \in Project, Vanish(p) PROVE TypeOK'
  BY <1>2 DEF Vanish, TypeOK, user, worker
<1>3. ASSUME NEW p \in Project, CacheCatchesUp(p) PROVE TypeOK'
  BY <1>3 DEF CacheCatchesUp, TypeOK, user, cluster, worker
<1>4. CASE Begin
  BY <1>4 DEF Begin, TypeOK, user, cluster
<1>5. CASE TurnsIdle
  BY <1>0, <1>5, OnwardsTyped, ClusterKept DEF TurnsIdle, TypeOK
<1>6. CASE Look
  BY <1>0, <1>6, OnwardsTyped, EndAsTyped, ClusterKept DEF Look, TypeOK
<1>7. CASE Create
  BY <1>0, <1>7, NextCallTyped, EndAsTyped, CreatedTyped, ClusterKept DEF Create, TypeOK
<1>8. CASE Delete
  BY <1>0, <1>8, NextCallTyped, EndAsTyped, DroppedTyped, ClusterKept DEF Delete, TypeOK
<1>9. ASSUME Fault PROVE faults' \in Nat /\ seen' \subseteq Project
  BY <1>9 DEF Fault, TypeOK
<1>10. CASE LookFails
  BY <1>0, <1>9, <1>10, OnwardsTyped, ClusterKept DEF LookFails, TypeOK
<1>11. CASE CallFails
  BY <1>0, <1>9, <1>11, EndAsTyped, CreatedTyped, DroppedTyped, ClusterKept DEF CallFails, TypeOK
<1>12. CASE Crash
  <2>1. WorkerTyped'
    <3>1. 1 \in Ids /\ 1 \in 1..4
      BY ProjectLoopsAssumption DEF Ids
    <3> QED
      BY <1>12, <3>1 DEF Crash, TypeOK, WorkerTyped, user
  <2>2. ClusterTyped'
    BY <1>12, ClusterKept DEF Crash
  <2> QED
    BY <1>0, <1>9, <1>12, <2>1, <2>2 DEF Crash, TypeOK
<1>13. CASE UNCHANGED vars
  BY <1>13 DEF vars, TypeOK
<1> QED
  BY <1>1, <1>2, <1>3, <1>4, <1>5, <1>6, <1>7, <1>8, <1>10, <1>11, <1>12, <1>13
  DEF Next, Work, Failure

(* The loops' state is well formed: no role binding outlives its namespace *)
(* and the count stays within the ids.                                     *)
THEOREM LoopsTypeCorrect == Spec => []TypeOK
BY TypeInit, TypeStep, PTL DEF Spec
-----------------------------------------------------------------------------
(* How far an install pass has got: the projects before the one it is at   *)
(* are complete, and so is the one it is at up to the call it is at.       *)
Installing == mode = "install" /\ held.enabled /\ held.staging # NoName

DoneUpTo(n) == {Made[c] : c \in 2..(n - 1)}

DoneSoFar ==
  Installing =>
    /\ \A i \in Ids : i < id /\ i <= held.users => Complete(<<held.staging, i>>)
    /\ call > 2 => namespaces[current] = "there" /\ DoneUpTo(call) \subseteq bindings[current]

FromTheStart == mode = "rest" => id = 1 /\ call = 1

Progress == FromTheStart /\ DoneSoFar /\ EveryUserHasAProject

(* Calls that do not belong to an install pass leave what is there alone.  *)
CompleteKept(p) ==
  /\ namespaces[p] = "there" => namespaces'[p] = "there"
  /\ namespaces[p] = "there" => bindings[p] \subseteq bindings'[p]

LEMMA ProgressKept ==
  ASSUME TypeOK, TypeOK', Progress, UNCHANGED <<mode, held, id, call, ended>>,
         \A p \in Project : CompleteKept(p)
  PROVE  Progress'
<1>1. ASSUME NEW i \in Ids PROVE <<held.staging, i>> \in Project
  BY DEF TypeOK, Specs, Project
<1>2. current \in Project /\ current' = current
  BY CurrentTyped DEF current
<1>3. ASSUME NEW p \in Project, Complete(p) PROVE Complete(p)'
  BY <1>3 DEF CompleteKept, Complete, TypeOK
<1>4. DoneSoFar'
  <2>1. SUFFICES ASSUME Installing
        PROVE /\ \A i \in Ids : i < id /\ i <= held.users => Complete(<<held.staging, i>>)'
              /\ call > 2 => namespaces'[current] = "there" /\ DoneUpTo(call) \subseteq bindings'[current]
    BY <1>2 DEF DoneSoFar, Installing, DoneUpTo, Complete
  <2>2. \A i \in Ids : i < id /\ i <= held.users => Complete(<<held.staging, i>>)
    BY <2>1 DEF Progress, DoneSoFar
  <2>3. call > 2 => namespaces[current] = "there" /\ DoneUpTo(call) \subseteq bindings[current]
    BY <2>1 DEF Progress, DoneSoFar
  <2>4. CompleteKept(current)
    BY <1>2
  <2> QED
    BY <1>1, <1>3, <2>2, <2>3, <2>4 DEF CompleteKept
<1>5. EveryUserHasAProject'
  BY <1>1, <1>3 DEF Progress, EveryUserHasAProject, Complete
<1>6. FromTheStart'
  BY DEF Progress, FromTheStart
<1> QED
  BY <1>4, <1>5, <1>6 DEF Progress

LEMMA EndAsProgress ==
  ASSUME TypeOK, Progress, NEW e \in {"failed", "removed"}, EndAs(e)
  PROVE  Progress'
BY DEF EndAs, Progress, FromTheStart, DoneSoFar, Installing, EveryUserHasAProject

(* The API server takes a Create of an install pass.                       *)
LEMMA CreatedKeeps ==
  ASSUME TypeOK, Adding, CanCreate, Created
  PROVE  \A p \in Project : CompleteKept(p)
<1>0. current \in Project
  BY CurrentTyped
<1>1. CASE Made[call] = "namespace"
  BY <1>0, <1>1 DEF Created, CompleteKept, TypeOK
<1>2. CASE Made[call] # "namespace"
  BY <1>0, <1>2 DEF Created, CompleteKept, TypeOK
<1> QED
  BY <1>1, <1>2

(* What it leaves of the project, and of those before it.                  *)
LEMMA CreateProgress ==
  ASSUME TypeOK, TypeOK', Progress, Adding, CanCreate, Created, NextCall
  PROVE  Progress'
<1>0. current \in Project
  BY CurrentTyped
<1>1. Installing /\ id <= held.users /\ id < Beyond
  <2>1. Installing /\ id <= held.users
    BY DEF Adding, InReach, Installing
  <2> QED
    BY <2>1, HeldTyped, ProjectLoopsAssumption DEF TypeOK, Ids
<1>2. UNCHANGED <<mode, held, ended>>
  BY DEF NextCall, Onwards
<1>3. \A p \in Project : CompleteKept(p)
  BY CreatedKeeps
<1>4. ASSUME NEW i \in Ids, i < id PROVE Complete(<<held.staging, i>>)'
  <2>1. <<held.staging, i>> \in Project /\ i <= held.users
    BY <1>1, <1>4, HeldTyped, ProjectLoopsAssumption DEF TypeOK, Project, Ids
  <2>2. Complete(<<held.staging, i>>)
    BY <1>1, <1>4, <2>1 DEF Progress, DoneSoFar
  <2>3. ASSUME NEW p \in Project, Complete(p) PROVE Complete(p)'
    BY <1>3, <2>3 DEF CompleteKept, Complete, TypeOK
  <2> QED
    BY <1>2, <2>1, <2>2, <2>3
<1>5. call > 1 => /\ namespaces'[current] = "there"
                  /\ DoneUpTo(call + 1) \subseteq bindings'[current]
  <2>1. SUFFICES ASSUME call > 1
                 PROVE  namespaces'[current] = "there" /\ DoneUpTo(call + 1) \subseteq bindings'[current]
    OBVIOUS
  <2>2. call \in 2..4 /\ Made[call] # "namespace"
    BY <2>1, MadeCalls DEF TypeOK
  <2>3. namespaces[current] = "there" /\ namespaces' = namespaces
    BY <2>2 DEF CanCreate, Created
  <2>4. bindings'[current] = bindings[current] \cup {Made[call]}
    BY <1>0, <2>2 DEF Created, TypeOK
  <2>5. DoneUpTo(call) \subseteq bindings[current]
    <3>1. CASE call > 2
      BY <1>1, <3>1 DEF Progress, DoneSoFar
    <3>2. CASE call = 2
      BY <3>2 DEF DoneUpTo
    <3> QED
      BY <2>2, <3>1, <3>2
  <2>6. DoneUpTo(call + 1) = DoneUpTo(call) \cup {Made[call]}
    BY <2>2 DEF DoneUpTo
  <2> QED
    BY <2>3, <2>4, <2>5, <2>6
<1>6. CASE call = 4
  <2>1. id' = id + 1 /\ call' = 1
    BY <1>1, <1>6 DEF NextCall, Onwards, TypeOK, Ids
  <2>2. DoneUpTo(call + 1) = Roles
    <3>1. DoneUpTo(5) = {Made[2], Made[3], Made[4]}
      BY DEF DoneUpTo
    <3> QED
      BY <1>6, <3>1 DEF Made, Roles
  <2>3. namespaces'[current] = "there" /\ bindings'[current] = Roles
    <3>1. bindings'[current] \subseteq Roles
      BY <1>0 DEF TypeOK
    <3> QED
      BY <1>5, <1>6, <2>2, <3>1
  <2>4. ASSUME NEW i \in Ids, i < id' PROVE Complete(<<held.staging, i>>)'
    <3>1. i < id \/ i = id
      BY <2>1, <2>4, ProjectLoopsAssumption DEF TypeOK, Ids
    <3>2. CASE i < id
      BY <1>4, <3>2
    <3>3. CASE i = id
      BY <1>2, <2>3, <3>3 DEF Complete, current
    <3> QED
      BY <3>1, <3>2, <3>3
  <2>5. DoneSoFar'
    BY <2>1, <2>4 DEF DoneSoFar
  <2> QED
    BY <1>1, <1>2, <2>5 DEF Progress, FromTheStart, EveryUserHasAProject, Installing
<1>7. CASE call # 4
  <2>1. id' = id /\ call' = call + 1
    BY <1>7 DEF NextCall
  <2>2. current' = current
    BY <1>2, <2>1 DEF current
  <2>3. call' > 2 => call > 1
    BY <2>1 DEF TypeOK
  <2>4. \A i \in Ids : (i < id /\ i <= held.users => Complete(<<held.staging, i>>))'
    BY <1>2, <1>4, <2>1
  <2>5. (call > 2 => namespaces[current] = "there" /\ DoneUpTo(call) \subseteq bindings[current])'
    BY <1>5, <2>1, <2>2, <2>3 DEF DoneUpTo
  <2>6. DoneSoFar'
    BY <2>4, <2>5 DEF DoneSoFar
  <2> QED
    BY <1>1, <1>2, <2>6 DEF Progress, FromTheStart, EveryUserHasAProject, Installing
<1> QED
  BY <1>6, <1>7
LEMMA ProgressStep == TypeOK /\ TypeOK' /\ Progress /\ [Next]_vars => Progress'
<1> SUFFICES ASSUME TypeOK, TypeOK', Progress, [Next]_vars PROVE Progress'
  OBVIOUS
<1>1. ASSUME UNCHANGED <<mode, held, id, call, ended, namespaces, bindings>>
      PROVE  Progress'
  BY <1>1 DEF Progress, FromTheStart, DoneSoFar, EveryUserHasAProject, Installing, Complete,
              current, DoneUpTo
<1>2. ASSUME ~Installing', FromTheStart', ~(mode' = "rest" /\ ended' = "installed")
      PROVE  Progress'
  BY <1>2 DEF Progress, DoneSoFar, EveryUserHasAProject
<1>3. CASE User \/ UNCHANGED vars
  BY <1>1, <1>3 DEF User, CreateWorkshop, EditWorkshop, DeleteWorkshop, cluster, worker, vars
<1>4. ASSUME NEW p \in Project, Vanish(p) PROVE Progress'
  <2>1. \A q \in Project : CompleteKept(q)
    BY <1>4 DEF Vanish, CompleteKept, TypeOK
  <2> QED
    BY <1>4, <2>1, ProgressKept DEF Vanish, worker
<1>5. ASSUME NEW p \in Project, CacheCatchesUp(p) PROVE Progress'
  BY <1>1, <1>5 DEF CacheCatchesUp, cluster, worker
<1>6. CASE Begin
  <2>1. id' = 1 /\ call' = 1 /\ mode' # "rest"
    BY <1>6 DEF Begin, Progress, FromTheStart
  <2>2. DoneSoFar'
    <3>1. \A i \in Ids : ~(i < 1)
      BY DEF Ids
    <3> QED
      BY <2>1, <3>1 DEF DoneSoFar
  <2> QED
    BY <2>1, <2>2 DEF Progress, FromTheStart, EveryUserHasAProject
<1>7. ASSUME Onwards, mode # "rest", UNCHANGED cluster, ~(Installing /\ InReach)
      PROVE  Progress'
  <2>1. CASE ~Installing
    BY <1>2, <1>7, <2>1 DEF Onwards, Installing, FromTheStart, Progress, user
  <2>2. CASE Installing /\ id > held.users
    <3>1. ASSUME NEW i \in Ids, i <= held.users PROVE Complete(<<held.staging, i>>)'
      <4>1. i < id
        BY <2>2, <3>1, HeldTyped DEF TypeOK, Ids
      <4>2. Complete(<<held.staging, i>>)
        BY <2>2, <3>1, <4>1 DEF Progress, DoneSoFar
      <4> QED
        BY <1>7, <4>2 DEF Complete, cluster, Onwards
    <3>2. call' = 1 /\ UNCHANGED <<mode, held>>
      BY <1>7 DEF Onwards
    <3>3. DoneSoFar'
      BY <3>1, <3>2 DEF DoneSoFar
    <3> QED
      BY <2>2, <3>2, <3>3 DEF Progress, FromTheStart, EveryUserHasAProject, Installing
  <2>3. Installing => id > held.users
    BY <1>7, HeldTyped, ProjectLoopsAssumption DEF InReach, Installing, TypeOK, Ids
  <2> QED
    BY <2>1, <2>2, <2>3
<1>8. CASE TurnsIdle
  BY <1>7, <1>8 DEF TurnsIdle, Installing
<1>9. CASE Look
  <2>1. ~(Installing /\ InReach)
    BY <1>9 DEF Look, Installing
  <2>2. CASE EndAs("installed") /\ mode = "install"
    <3>1. ASSUME held.enabled, held.staging # NoName, NEW i \in Ids, i <= held.users
          PROVE  Complete(<<held.staging, i>>)'
      <4>1. Installing /\ id > held.users
        BY <2>1, <2>2, <3>1, HeldTyped, ProjectLoopsAssumption DEF InReach, Installing, TypeOK, Ids
      <4>2. i < id
        BY <3>1, <4>1, HeldTyped DEF TypeOK, Ids
      <4>3. Complete(<<held.staging, i>>)
        BY <3>1, <4>1, <4>2 DEF Progress, DoneSoFar
      <4> QED
        BY <1>9, <2>2, <4>3 DEF Look, Complete, cluster, EndAs
    <3>2. mode' = "rest" /\ id' = 1 /\ call' = 1 /\ held' = held
      BY <2>2 DEF EndAs
    <3> QED
      BY <3>1, <3>2 DEF Progress, FromTheStart, DoneSoFar, Installing, EveryUserHasAProject
  <2>3. CASE EndAs("removed")
    BY <2>3, EndAsProgress
  <2> QED
    BY <1>7, <1>9, <2>1, <2>2, <2>3 DEF Look
<1>10. CASE Create
  BY <1>10, CreateProgress, EndAsProgress DEF Create
<1>11. CASE Delete
  <2>1. mode = "teardown"
    BY <1>11 DEF Delete, Deleting
  <2>2. CASE EndAs("failed")
    BY <2>2, EndAsProgress
  <2>3. CASE mode' = mode
    BY <1>2, <2>1, <2>3 DEF Installing, FromTheStart
  <2> QED
    BY <1>11, <2>2, <2>3 DEF Delete, NextCall, Onwards
<1>12. CASE LookFails
  BY <1>7, <1>12 DEF LookFails, Installing
<1>13. CASE CallFails
  BY <1>13, EndAsProgress DEF CallFails
<1>14. CASE Crash
  BY <1>2, <1>14 DEF Crash, Installing, FromTheStart
<1> QED
  BY <1>3, <1>4, <1>5, <1>6, <1>8, <1>9, <1>10, <1>11, <1>12, <1>13, <1>14
  DEF Next, Work, Failure

(* A pass that ends well has a whole project for every user of the spec it *)
(* went by, whatever the cache showed and whatever was there before.       *)
THEOREM PassesServeEveryUser == Spec => []EveryUserHasAProject
<1>1. Init => Progress
  <2>1. \A i \in Ids : ~(i < 1)
    BY DEF Ids
  <2> QED
    BY <2>1 DEF Init, Progress, FromTheStart, DoneSoFar, Installing, EveryUserHasAProject
<1>2. Progress => EveryUserHasAProject
  BY DEF Progress
<1> QED
  BY <1>1, <1>2, ProgressStep, LoopsTypeCorrect, PTL DEF Spec
=============================================================================
