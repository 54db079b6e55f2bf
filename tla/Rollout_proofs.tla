---------------------------- MODULE Rollout_proofs ----------------------------
(***************************************************************************)
(* Theorems about Rollout for every set of scripts, every number of        *)
(* faults and of lives.  What the components' own scripts have to be like  *)
(* is Anchored, Covered and Orderly of Rollout; MCRolloutScripts has TLC   *)
(* evaluate for which of them that is so.                                  *)
(***************************************************************************)
EXTENDS Rollout, TLAPS

(* The bookkeeping the other invariants rest on.                           *)
Kept ==
  /\ TypeOK
  /\ dying \subseteq Namespaces \cup Dependents
  /\ mode = "rest" => at = 1

(* The script at hand is one, and so are its steps.                        *)
LEMMA ScriptTyped ==
  ASSUME TypeOK
  PROVE  /\ Script \in Seq(Step)
         /\ Len(Script) \in Nat
         /\ \A i \in 1..Len(Script) : Script[i] \in Step
BY RolloutAssumption DEF TypeOK, Script

LEMMA StepTyped ==
  ASSUME TypeOK, at <= Len(Script)
  PROVE  /\ step \in Step
         /\ step.obj \in Objects
         /\ step.brings \subseteq Objects
         /\ step.skip \in Nat
<1>1. at \in 1..Len(Script)
  BY ScriptTyped DEF TypeOK
<1>2. step \in Step
  BY <1>1, ScriptTyped DEF step
<1> QED
  BY <1>2 DEF Step

(* A step of a pass leaves room for the place it moves on to.              *)
LEMMA PlaceTyped ==
  ASSUME TypeOK, at <= Len(Script)
  PROVE  /\ 1 \in 1..Len(Script) + 1
         /\ at + 1 \in 1..Len(Script) + 1
         /\ step.op = "look" /\ mode = "teardown" => at + 1 + step.skip \in 1..Len(Script) + 1
<1>1. at \in 1..Len(Script)
  BY ScriptTyped DEF TypeOK
<1>2. step.skip \in Nat
  BY StepTyped
<1>3. ASSUME step.op = "look", mode = "teardown"
      PROVE  at + step.skip <= Len(Script)
  BY <1>1, <1>3, RolloutAssumption DEF TypeOK, Script, step
<1> QED
  BY <1>1, <1>2, <1>3, ScriptTyped

(* No step changes the script.                                             *)
LEMMA RolloutKept == [Next]_vars => rollout' = rollout
BY DEF Next, User, InstallStep, TeardownStep, Failure, Begin, Resync, Finalize, Create,
       CreateIfMissing, Await, Ask, Insist, Provide, InstallEnds, Delete, DeleteIfFound, Look, Require,
       TeardownEnds, Vanish, InstallCallFails, TeardownCallFails, TeardownCrash,
       NothingElse, Fault, vars

LEMMA KeptInit == Init => Kept
<1> SUFFICES ASSUME Init PROVE Kept
  OBVIOUS
<1>1. Len(InstallOf[rollout]) \in Nat
  BY RolloutAssumption DEF Init
<1> QED
  BY <1>1, RolloutAssumption DEF Init, Kept, TypeOK, Script

LEMMA KeptStep == Kept /\ [Next]_vars => Kept'
<1> SUFFICES ASSUME Kept, [Next]_vars PROVE Kept'
  OBVIOUS
<1> USE DEF Kept
<1>0. /\ TypeOK
      /\ Len(InstallOf[rollout]) \in Nat
      /\ Len(TeardownOf[rollout]) \in Nat
  BY RolloutAssumption DEF TypeOK
<1>1. CASE Begin
  BY <1>0, <1>1 DEF Begin, TypeOK, Script
<1>2. CASE Resync
  BY <1>0, <1>2 DEF Resync, TypeOK, Script
<1>3. CASE Finalize
  BY <1>0, <1>3 DEF Finalize, TypeOK, Script
<1>4. CASE Create
  BY <1>0, <1>4, StepTyped, PlaceTyped
     DEF Create, Stepping, Advance, Retry, NothingElse, TypeOK, Script
<1>4a. CASE CreateIfMissing
  BY <1>0, <1>4a, StepTyped, PlaceTyped
     DEF CreateIfMissing, Stepping, Advance, NothingElse, TypeOK, Script
<1>5. CASE Await \/ Insist
  BY <1>0, <1>5, PlaceTyped
     DEF Await, Insist, Stepping, Advance, Retry, NothingElse, TypeOK, Script
<1>5a. CASE Ask
  BY <1>0, <1>5a, StepTyped, PlaceTyped
     DEF Ask, Stepping, Advance, NothingElse, TypeOK, Script
<1>6. CASE Provide
  BY <1>0, <1>6, StepTyped DEF Provide, Stepping, NothingElse, TypeOK, Script
<1>7. CASE InstallEnds
  BY <1>0, <1>7 DEF InstallEnds, Give, NothingElse, TypeOK, Script
<1>8. CASE Delete
  BY <1>0, <1>8, PlaceTyped
     DEF Delete, Deletable, Removed, Stepping, Advance, Give, NothingElse, TypeOK, Script
<1>9. CASE DeleteIfFound
  BY <1>0, <1>9, PlaceTyped
     DEF DeleteIfFound, Deletable, Removed, Stepping, Advance, Give, NothingElse, TypeOK, Script
<1>10. CASE Look
  BY <1>0, <1>10, PlaceTyped DEF Look, Stepping, Advance, NothingElse, TypeOK, Script
<1>11. CASE Require
  BY <1>0, <1>11, PlaceTyped DEF Require, Stepping, Advance, Give, NothingElse, TypeOK, Script
<1>12. CASE TeardownEnds
  BY <1>0, <1>12 DEF TeardownEnds, Give, NothingElse, TypeOK, Script
<1>13. ASSUME NEW n \in Objects, Vanish(n)
       PROVE  Kept'
  <2>1. \A m \in dying : Home[m] = Outside
    BY RolloutAssumption
  <2>2. n # Outside
    BY RolloutAssumption
  <2>3. dying' \subseteq exists' /\ exists' \subseteq Objects
    BY <1>13, <2>1, <2>2 DEF Vanish, TypeOK
  <2> QED
    BY <1>0, <1>13, <2>3 DEF Vanish, NothingElse, TypeOK, Script
<1>14. CASE InstallCallFails
  <2>1. faults' \in 0..MaxFaults
    BY <1>14, RolloutAssumption DEF InstallCallFails, Fault, TypeOK
  <2> QED
    BY <1>0, <1>14, <2>1, StepTyped DEF InstallCallFails, Stepping, Retry, Fault, TypeOK, Script
<1>15. CASE TeardownCallFails
  <2>1. faults' \in 0..MaxFaults
    BY <1>15, RolloutAssumption DEF TeardownCallFails, Fault, TypeOK
  <2> QED
    BY <1>0, <1>15, <2>1
       DEF TeardownCallFails, Deletable, Removed, Stepping, Give, Fault, TypeOK, Script
<1>16. CASE TeardownCrash
  <2>1. faults' \in 0..MaxFaults
    BY <1>16, RolloutAssumption DEF TeardownCrash, Fault, TypeOK
  <2> QED
    BY <1>0, <1>16, <2>1 DEF TeardownCrash, Fault, TypeOK, Script
<1>17. CASE UNCHANGED vars
  BY <1>17 DEF vars, TypeOK, Script
<1> QED
  BY <1>1, <1>2, <1>3, <1>4, <1>4a, <1>5, <1>5a, <1>6, <1>7, <1>8, <1>9, <1>10, <1>11, <1>12,
     <1>13,      <1>14, <1>15, <1>16, <1>17
     DEF Next, User, InstallStep, TeardownStep, Failure

(* The worker's place is always one of the script it is running, and only  *)
(* things that exist are terminating.                                      *)
THEOREM RolloutTypeCorrect == Spec => []TypeOK
<1>1. Spec => []Kept
  BY KeptInit, KeptStep, PTL DEF Spec
<1> QED
  BY <1>1, PTL DEF Kept

-----------------------------------------------------------------------------
(* The steps of the two scripts are about objects.                         *)
LEMMA InstallTyped ==
  ASSUME NEW r \in Rollouts, NEW i \in 1..Len(InstallOf[r])
  PROVE  InstallOf[r][i] \in Step /\ InstallOf[r][i].obj \in Objects
<1>1. InstallOf[r] \in Seq(Step)
  BY RolloutAssumption
<1>2. InstallOf[r][i] \in Step
  BY <1>1
<1> QED
  BY <1>2 DEF Step

LEMMA TeardownTyped ==
  ASSUME NEW r \in Rollouts, NEW i \in 1..Len(TeardownOf[r])
  PROVE  TeardownOf[r][i] \in Step /\ TeardownOf[r][i].obj \in Objects
<1>1. TeardownOf[r] \in Seq(Step)
  BY RolloutAssumption
<1>2. TeardownOf[r][i] \in Step
  BY <1>1
<1> QED
  BY <1>2 DEF Step

(* Nothing is in a namespace that is not there.                            *)
HomesThere == \A o \in exists : Home[o] = Outside \/ Home[o] \in exists

(* What an install pass has behind it is there, and will stay: objects     *)
(* other than namespaces, each of which vouches for the namespace it is in.*)
BuiltSoFar ==
  rollout \in AnchoredRollouts /\ mode = "install" =>
    \A i \in Creations(rollout) :
      i < at /\ InstallOf[rollout][i].obj \notin Namespaces => Staying(InstallOf[rollout][i].obj)

Grounded == Kept /\ HomesThere

LEMMA HomesThereStep == Kept /\ HomesThere /\ [Next]_vars => HomesThere'
<1> SUFFICES ASSUME Kept, HomesThere, [Next]_vars PROVE HomesThere'
  OBVIOUS
<1> USE DEF HomesThere
<1>0. /\ TypeOK
      /\ \A o \in Objects : Home[o] \in Namespaces \cup {Outside}
      /\ exists \subseteq Objects
  BY RolloutAssumption DEF Kept, TypeOK
<1>1. ASSUME UNCHANGED exists PROVE HomesThere'
  BY <1>1
<1>2. ASSUME NEW new \in SUBSET Objects, \A o \in new : Admits(o), exists' = exists \cup new
      PROVE  HomesThere'
  BY <1>2 DEF Admits
<1>3. ASSUME NEW o \in Objects, o \in exists, Removed(o) PROVE HomesThere'
  BY <1>0, <1>3 DEF Removed
<1>4. CASE Create \/ CreateIfMissing \/ Ask
  BY <1>0, <1>1, <1>2, <1>4, StepTyped DEF Create, CreateIfMissing, Ask, Stepping
<1>5. CASE Provide
  <2>1. {o \in {step.obj} \cup step.brings : Admits(o)} \in SUBSET Objects
    BY <1>0, <1>5, StepTyped DEF Provide, Stepping
  <2> QED
    BY <1>2, <1>5, <2>1 DEF Provide
<1>6. CASE Delete \/ DeleteIfFound
  BY <1>0, <1>1, <1>3, <1>6, StepTyped DEF Delete, DeleteIfFound, Deletable, Stepping
<1>7. ASSUME NEW n \in Objects, Vanish(n) PROVE HomesThere'
  <2>1. \A o \in Objects : Home[o] \in Namespaces => Home[Home[o]] = Outside
    BY RolloutAssumption
  <2> QED
    BY <1>0, <1>7, <2>1, RolloutAssumption DEF Vanish
<1>8. CASE InstallCallFails
  BY <1>0, <1>1, <1>2, <1>8, StepTyped DEF InstallCallFails, Stepping
<1>9. CASE TeardownCallFails
  BY <1>0, <1>1, <1>3, <1>9, StepTyped DEF TeardownCallFails, Deletable, Stepping
<1>10. CASE \/ User \/ Await \/ Insist \/ InstallEnds \/ Look \/ Require \/ TeardownEnds
            \/ TeardownCrash \/ UNCHANGED vars
  BY <1>1, <1>10
     DEF User, Begin, Resync, Finalize, Await, Insist, InstallEnds, Look, Require, TeardownEnds,
         TeardownCrash, vars
<1> QED
  BY <1>4, <1>5, <1>6, <1>7, <1>8, <1>9, <1>10 DEF Next, InstallStep, TeardownStep, Failure

(* As long as nothing is deleted, what stays goes on staying; what         *)
(* vanishes takes only what was leaving.                                   *)
LEMMA StayingKept ==
  ASSUME NEW o \in Objects, Staying(o),
         \/ exists \subseteq exists' /\ dying' = dying
         \/ \E n \in Objects : Vanish(n)
  PROVE  Staying(o)'
BY DEF Staying, Vanish

(* Nothing starts to stay without a Create or a Provide.                   *)
LEMMA StayingNotGained ==
  ASSUME NEW o \in Objects, Staying(o)',
         \/ exists' = exists /\ dying' = dying
         \/ \E n \in Objects : Vanish(n)
  PROVE  Staying(o)
BY DEF Staying, Vanish

LEMMA BuiltSoFarStep ==
  ASSUME \A r \in AnchoredRollouts : Anchored(r)
  PROVE  Kept /\ BuiltSoFar /\ [Next]_vars => BuiltSoFar'
<1> SUFFICES ASSUME Kept, BuiltSoFar, [Next]_vars, (rollout \in AnchoredRollouts)', mode' = "install",
                    NEW i \in Creations(rollout)', (i < at)',
                    (InstallOf[rollout][i].obj \notin Namespaces)'
             PROVE  Staying(InstallOf[rollout][i].obj)'
  BY DEF BuiltSoFar
<1>0. /\ TypeOK
      /\ rollout' = rollout
      /\ rollout \in AnchoredRollouts
      /\ Creations(rollout)' = Creations(rollout)
  BY DEF Next, User, InstallStep, TeardownStep, Failure, Begin, Resync, Finalize, Create,
  CreateIfMissing,
         Await, Ask, Insist, Provide, InstallEnds, Delete, DeleteIfFound, Look, Require, TeardownEnds,
         Vanish, InstallCallFails, TeardownCallFails, TeardownCrash, NothingElse,
         Fault, vars, Kept, Creations, Steps
<1>a. /\ i \in Creations(rollout)
      /\ i \in 1..Len(InstallOf[rollout])
      /\ InstallOf[rollout][i].op = "create"
  BY <1>0 DEF Creations, Steps
<1>b. InstallOf[rollout][i].obj \in Objects
  BY <1>0, <1>a, InstallTyped DEF TypeOK
<1> SUFFICES ASSUME NEW o \in Objects, o = InstallOf[rollout][i].obj
             PROVE  Staying(o)'
  BY <1>0, <1>b DEF Staying
<1>1. /\ i \in Creations(rollout)
      /\ i \in 1..Len(InstallOf[rollout])
      /\ InstallOf[rollout][i].op = "create"
      /\ o \notin Namespaces
      /\ o \notin Dependents
  BY <1>0, <1>a DEF TypeOK, Anchored
<1>2. ASSUME mode = "install", i < at PROVE Staying(o)
  BY <1>0, <1>1, <1>2 DEF BuiltSoFar
<1>3. ASSUME mode = "install", at' = at, UNCHANGED dying, exists \subseteq exists'
      PROVE  Staying(o)'
  BY <1>1, <1>2, <1>3, StayingKept
<1>4. CASE Begin \/ Resync
  BY <1>0, <1>1, <1>4 DEF Begin, Resync, Kept
<1>5. CASE Create
  <2>1. mode = "install" /\ at \in Nat /\ exists \subseteq exists' /\ dying' = dying
    BY <1>0, <1>5 DEF Create, Stepping, TypeOK
  <2>2. CASE i < at
    BY <1>1, <1>2, <2>1, <2>2, StayingKept
  <2>3. CASE i = at
    <3>1. step.obj = o
      BY <2>1, <2>3 DEF step, Script
    <3>2. o \in exists' /\ Admits(o)
      BY <1>0, <1>1, <1>5, <2>1, <2>3, <3>1 DEF Create, Retry
    <3>3. o \notin dying /\ Outside \notin dying
      BY <1>1, RolloutAssumption DEF Kept
    <3> QED
      BY <1>0, <2>1, <3>2, <3>3 DEF Admits, Staying
  <2> QED
    BY <1>1, <1>5, <2>1, <2>2, <2>3 DEF Create, Advance, Retry
<1>5a. CASE CreateIfMissing
  <2>1. InstallOf[rollout][at].op = "createIfMissing" /\ mode = "install"
    BY <1>0, <1>5a DEF CreateIfMissing, Stepping, step, Script, TypeOK
  <2>2. at \in 1..Len(InstallOf[rollout])
    BY <1>0, <1>5a, <2>1, ScriptTyped DEF CreateIfMissing, Stepping, Script, TypeOK
  <2> QED
    BY <1>0, <2>1, <2>2 DEF Steps, Anchored, TypeOK
<1>6. CASE Await \/ Ask \/ Insist
  <2>1. /\ InstallOf[rollout][at].op \in {"await", "ask", "insist"}
        /\ mode = "install" /\ at \in Nat
        /\ exists \subseteq exists' /\ dying' = dying
    BY <1>0, <1>6 DEF Await, Ask, Insist, Stepping, step, Script, TypeOK
  <2>2. i < at
    BY <1>1, <1>6, <2>1 DEF Await, Ask, Insist, Advance, Retry
  <2> QED
    BY <1>0, <1>1, <1>2, <2>1, <2>2, StayingKept
<1>7. CASE Provide
  BY <1>1, <1>3, <1>7 DEF Provide, Stepping
<1>8. CASE InstallCallFails
  BY <1>1, <1>8 DEF InstallCallFails, Retry
<1>9. ASSUME NEW n \in Objects, Vanish(n) PROVE Staying(o)'
  BY <1>0, <1>1, <1>2, <1>9, StayingKept DEF Vanish
<1>10. CASE InstallEnds \/ Finalize \/ TeardownStep \/ TeardownCallFails \/ TeardownCrash
  BY <1>10
     DEF InstallEnds, Finalize, TeardownStep, Delete, DeleteIfFound, Look, Require,
         TeardownEnds, TeardownCallFails, TeardownCrash, Give, Advance, Stepping
<1>11. CASE UNCHANGED vars
  BY <1>3, <1>11 DEF vars
<1> QED
  BY <1>0, <1>4, <1>5, <1>5a, <1>6, <1>7, <1>8, <1>9, <1>10, <1>11
     DEF Next, User, InstallStep, Failure

LEMMA GroundedAlways == Spec => []Grounded
<1>1. Init => Grounded
  <2>1. Init => HomesThere
    BY DEF Init, HomesThere
  <2> QED
    BY <2>1, KeptInit DEF Grounded
<1>2. Grounded /\ [Next]_vars => Grounded'
  BY KeptStep, HomesThereStep DEF Grounded
<1> QED
  BY <1>1, <1>2, PTL DEF Spec

(* For scripts that anchor their namespaces: a pass that ends without an   *)
(* error has built everything, and none of it is on its way out, whatever  *)
(* an earlier teardown was still taking away meanwhile.                    *)
THEOREM InstalledIsThere ==
  ASSUME \A r \in AnchoredRollouts : Anchored(r)
  PROVE  Spec => []InstalledMeansThere
<1>1. Init => BuiltSoFar /\ InstalledMeansThere
  BY DEF Init, BuiltSoFar, InstalledMeansThere
<1>2. InstalledMeansThere /\ BuiltSoFar /\ Grounded /\ [Next]_vars => InstalledMeansThere'
  <2> SUFFICES ASSUME InstalledMeansThere, BuiltSoFar, Grounded, [Next]_vars,
                      (rollout \in AnchoredRollouts)',
                      mode' = "rest", ended' = "installed",
                      NEW o \in Owned(rollout)'
               PROVE  Staying(o)'
    BY DEF InstalledMeansThere
  <2>0. TypeOK /\ Kept /\ rollout \in Rollouts /\ rollout' = rollout
        /\ rollout \in AnchoredRollouts
    BY RolloutKept DEF Grounded, Kept, TypeOK
  <2>1. CASE InstallEnds
    <3>1. o \in Owned(rollout) /\ exists' = exists /\ dying' = dying
      BY <2>1 DEF InstallEnds, NothingElse, Owned
    <3>2. PICK i \in Creations(rollout) : InstallOf[rollout][i].obj = o
      BY <2>0, <3>1 DEF Owned, Creations, Steps, Anchored
    <3>3. \A j \in Creations(rollout) :
            /\ j < at
            /\ InstallOf[rollout][j].obj \in Objects
            /\ InstallOf[rollout][j].obj \notin Namespaces => Staying(InstallOf[rollout][j].obj)
      <4>1. at > Len(InstallOf[rollout]) /\ mode = "install" /\ at \in Nat
        BY <2>0, <2>1 DEF InstallEnds, Script, TypeOK
      <4>2. \A j \in Creations(rollout) : j < at /\ InstallOf[rollout][j].obj \in Objects
        BY <2>0, <4>1, InstallTyped, RolloutAssumption DEF Creations, Steps
      <4> QED
        BY <2>0, <4>1, <4>2 DEF BuiltSoFar
    <3>4. CASE o \notin Namespaces
      BY <3>1, <3>2, <3>3, <3>4, StayingKept
    <3>5. CASE o \in Namespaces
      <4>1. PICK j \in Creations(rollout) : Home[InstallOf[rollout][j].obj] = o
        BY <2>0, <3>2, <3>5 DEF Anchored
      <4>2. o # Outside /\ Outside \notin dying /\ Home[o] = Outside
        BY <2>0, <3>5, RolloutAssumption DEF Kept
      <4>3. InstallOf[rollout][j].obj \notin Namespaces
        BY <4>1, <4>2, RolloutAssumption
      <4>4. Staying(InstallOf[rollout][j].obj)
        BY <3>3, <4>3
      <4>5. o \in exists /\ o \notin dying
        BY <4>1, <4>2, <4>4 DEF Staying, Grounded, HomesThere
      <4> QED
        BY <3>1, <4>2, <4>5 DEF Staying
    <3> QED
      BY <3>4, <3>5
  <2>2. ASSUME mode = "rest", ended = "installed", rollout' = rollout,
               \/ exists \subseteq exists' /\ dying' = dying
               \/ \E n \in Objects : Vanish(n)
        PROVE  Staying(o)'
    <3>1. o \in Owned(rollout)
      BY <2>2 DEF Owned
    <3>2. o \in Objects
      BY <2>0, <3>1, InstallTyped DEF Owned
    <3> QED
      BY <2>2, <3>1, <3>2, StayingKept DEF InstalledMeansThere
  <2>3. ASSUME NEW n \in Objects, Vanish(n) PROVE Staying(o)'
    BY <2>2, <2>3 DEF Vanish, NothingElse
  <2>4. CASE UNCHANGED vars
    BY <2>2, <2>4 DEF vars
  <2>5. CASE \/ User \/ Create \/ CreateIfMissing \/ Await \/ Ask \/ Insist \/ Provide
             \/ TeardownStep \/ Failure
    BY <2>5
       DEF User, Begin, Resync, Finalize, Create, CreateIfMissing, Await, Ask, Insist, Provide,
           TeardownStep, Delete,
           DeleteIfFound, Look, Require, TeardownEnds, Failure, InstallCallFails,
           TeardownCallFails, TeardownCrash, Give, Advance, Retry, Stepping
  <2> QED
    BY <2>1, <2>3, <2>4, <2>5 DEF Next, InstallStep
<1>3. Grounded /\ BuiltSoFar /\ [Next]_vars => BuiltSoFar'
  BY BuiltSoFarStep DEF Grounded
<1> QED
  BY <1>1, <1>2, <1>3, GroundedAlways, PTL DEF Spec

-----------------------------------------------------------------------------
Gone(o) == o \notin exists \/ o \in dying

(* What a teardown has behind it, and did not skip, is gone or going.      *)
GoneSoFar ==
  mode = "teardown" =>
    \A i \in Steps(TeardownOf[rollout], {"delete"}) :
      i < at /\ ~Skipped(rollout, i) => Gone(TeardownOf[rollout][i].obj)

(* Nothing comes back without a Create or a Provide.                       *)
LEMMA GoneKept ==
  ASSUME NEW o \in Objects, Gone(o), Kept,
         \/ exists' = exists /\ dying' = dying
         \/ \E n \in Objects : Vanish(n)
         \/ \E q \in Objects : Removed(q)
  PROVE  Gone(o)'
<1>1. ASSUME NEW q \in Objects, Removed(q) PROVE Gone(o)'
  BY <1>1 DEF Gone, Removed
<1>2. ASSUME NEW n \in Objects, Vanish(n) PROVE Gone(o)'
  BY <1>2 DEF Gone, Vanish
<1> QED
  BY <1>1, <1>2 DEF Gone

LEMMA GoneSoFarStep == Kept /\ GoneSoFar /\ [Next]_vars => GoneSoFar'
<1> SUFFICES ASSUME Kept, GoneSoFar, [Next]_vars, mode' = "teardown",
                    NEW i \in Steps(TeardownOf[rollout], {"delete"})', (i < at)',
                    ~Skipped(rollout, i)'
             PROVE  Gone(TeardownOf[rollout][i].obj)'
  BY DEF GoneSoFar
<1>0. /\ TypeOK
      /\ rollout' = rollout
      /\ rollout \in Rollouts
      /\ Skipped(rollout, i)' = Skipped(rollout, i)
  BY DEF Next, User, InstallStep, TeardownStep, Failure, Begin, Resync, Finalize, Create,
  CreateIfMissing,
         Await, Ask, Insist, Provide, InstallEnds, Delete, DeleteIfFound, Look, Require, TeardownEnds,
         Vanish, InstallCallFails, TeardownCallFails, TeardownCrash, NothingElse,
         Fault, vars, Kept, TypeOK, Steps, Skipped
<1>1. /\ i \in Steps(TeardownOf[rollout], {"delete"})
      /\ i \in 1..Len(TeardownOf[rollout])
      /\ TeardownOf[rollout][i].op = "delete"
      /\ ~Skipped(rollout, i)
  BY <1>0 DEF Steps
<1>2. TeardownOf[rollout][i].obj \in Objects
  BY <1>0, <1>1, TeardownTyped
<1> SUFFICES ASSUME NEW o \in Objects, o = TeardownOf[rollout][i].obj
             PROVE  Gone(o)'
  BY <1>0, <1>2 DEF Gone
<1>3. ASSUME mode = "teardown", i < at PROVE Gone(o)
  BY <1>1, <1>3 DEF GoneSoFar
<1>4. CASE Finalize \/ TeardownCrash
  <2>1. at' = 1
    BY <1>4 DEF Finalize, TeardownCrash
  <2> QED
    BY <1>1, <2>1
<1>5. CASE Delete
  <2>1. /\ mode = "teardown" /\ at \in 1..Len(Script) /\ at' = at + 1
        /\ step.obj = TeardownOf[rollout][at].obj /\ step.obj \in Objects
    BY <1>0, <1>5, StepTyped, ScriptTyped
       DEF Delete, Stepping, Advance, Give, step, Script, TypeOK
  <2>2. Removed(step.obj)
    BY <1>5, <2>1 DEF Delete, Give
  <2>3. CASE i < at
    BY <1>3, <2>1, <2>2, <2>3, GoneKept
  <2>4. CASE i = at
    BY <2>1, <2>2, <2>4 DEF Removed, Gone
  <2> QED
    BY <1>0, <1>1, <2>1, <2>3, <2>4 DEF TypeOK
<1>5a. CASE DeleteIfFound
  <2>1. /\ mode = "teardown" /\ at \in 1..Len(Script) /\ at' = at + 1
        /\ TeardownOf[rollout][at].op = "deleteIfFound" /\ step.obj \in Objects
    BY <1>0, <1>5a, StepTyped, ScriptTyped
       DEF DeleteIfFound, Stepping, Advance, Give, step, Script, TypeOK
  <2>2. (exists' = exists /\ dying' = dying) \/ Removed(step.obj)
    BY <1>5a DEF DeleteIfFound
  <2>3. i < at
    BY <1>1, <2>1
  <2> QED
    BY <1>3, <2>1, <2>2, <2>3, GoneKept
<1>6. CASE Look
  <2>1. /\ mode = "teardown" /\ at \in 1..Len(Script) /\ Script = TeardownOf[rollout]
        /\ step = TeardownOf[rollout][at] /\ step.op = "look" /\ step.skip \in Nat
    BY <1>0, <1>6, StepTyped, ScriptTyped DEF Look, Stepping, step, Script, TypeOK
  <2>2. i # at
    BY <1>1, <2>1
  <2>3. i < at
    <3>1. CASE at' = at + 1
      BY <1>1, <2>1, <2>2, <3>1
    <3>2. CASE at' = at + 1 + step.skip
      <4>1. ~(at < i /\ i <= at + step.skip)
        BY <1>1, <2>1 DEF Skipped, Steps
      <4> QED
        BY <1>1, <2>1, <2>2, <3>2, <4>1
    <3> QED
      BY <1>6, <3>1, <3>2 DEF Look, Advance
  <2> QED
    BY <1>3, <1>6, <2>1, <2>3, GoneKept DEF Look
<1>7. CASE Require
  <2>1. /\ mode = "teardown" /\ at \in 1..Len(Script) /\ at' = at + 1
        /\ TeardownOf[rollout][at].op = "require"
    BY <1>0, <1>7, ScriptTyped DEF Require, Stepping, Advance, Give, step, Script, TypeOK
  <2>2. i < at
    BY <1>1, <2>1
  <2> QED
    BY <1>3, <1>7, <2>1, <2>2, GoneKept DEF Require
<1>8. ASSUME NEW n \in Objects, Vanish(n) PROVE Gone(o)'
  BY <1>0, <1>1, <1>3, <1>8, GoneKept DEF Vanish
<1>9. CASE UNCHANGED vars
  BY <1>0, <1>1, <1>3, <1>9, GoneKept DEF vars
<1>10. CASE Begin \/ Resync \/ InstallStep \/ Provide \/ InstallCallFails
            \/ TeardownEnds \/ TeardownCallFails
  BY <1>10
     DEF Begin, Resync, InstallStep, Create, CreateIfMissing, Await, Ask, Insist, InstallEnds, Provide,
         InstallCallFails,
         TeardownEnds, TeardownCallFails, Give, Advance, Retry, Stepping
<1> QED
  BY <1>4, <1>5, <1>5a, <1>6, <1>7, <1>8, <1>9, <1>10 DEF Next, User, TeardownStep, Failure

(* For scripts whose teardown has a step for whatever they create: a       *)
(* teardown that runs to its end has left nothing behind, however little   *)
(* or much the passes before it had built.                                 *)
THEOREM RemovedIsGone ==
  ASSUME \A r \in CoveredRollouts : Covered(r)
  PROVE  Spec => []RemovedMeansGone
<1>1. Init => GoneSoFar /\ RemovedMeansGone
  BY DEF Init, GoneSoFar, RemovedMeansGone
<1>2. Kept /\ GoneSoFar /\ [Next]_vars => GoneSoFar'
  BY GoneSoFarStep
<1>3. RemovedMeansGone /\ GoneSoFar /\ Grounded /\ [Next]_vars => RemovedMeansGone'
  <2> SUFFICES ASSUME RemovedMeansGone, GoneSoFar, Grounded, [Next]_vars,
                      (rollout \in CoveredRollouts)',
                      mode' = "rest", ended' = "removed",
                      NEW o \in (Owned(rollout) \ Dependents)', Staying(o)'
               PROVE  FALSE
    BY DEF RemovedMeansGone
  <2>0. TypeOK /\ Kept /\ rollout \in Rollouts /\ rollout' = rollout
        /\ rollout \in CoveredRollouts
    BY RolloutKept DEF Grounded, Kept, TypeOK
  <2>1. ASSUME rollout' = rollout PROVE o \in Owned(rollout) \ Dependents /\ o \in Objects
    BY <2>0, <2>1, InstallTyped DEF Owned
  <2>2. CASE TeardownEnds
    <3>1. /\ o \in Owned(rollout) \ Dependents /\ o \in Objects
          /\ Staying(o) /\ mode = "teardown" /\ at > Len(TeardownOf[rollout])
      BY <2>1, <2>2, StayingNotGained DEF TeardownEnds, NothingElse, Script
    <3>2. PICK i \in Steps(TeardownOf[rollout], {"delete"}) :
            TeardownOf[rollout][i].obj \in {o, Home[o]} /\ ~Skipped(rollout, i)
      BY <2>0, <3>1 DEF Covered
    <3>3. /\ i < at
          /\ TeardownOf[rollout][i].obj \in Objects
      BY <2>0, <3>1, TeardownTyped, RolloutAssumption DEF Steps, TypeOK
    <3>4. Gone(TeardownOf[rollout][i].obj)
      BY <3>1, <3>2, <3>3 DEF GoneSoFar
    <3>5. o \in exists => Home[o] = Outside \/ Home[o] \in exists
      BY DEF Grounded, HomesThere
    <3>6. Outside \notin Objects
      BY RolloutAssumption
    <3> QED
      BY <3>1, <3>2, <3>3, <3>4, <3>5, <3>6 DEF Gone, Staying
  <2>3. ASSUME mode = "rest", ended = "removed", rollout' = rollout,
               \/ exists' = exists /\ dying' = dying
               \/ \E n \in Objects : Vanish(n)
        PROVE  FALSE
    BY <2>1, <2>3, StayingNotGained DEF RemovedMeansGone
  <2>4. ASSUME NEW n \in Objects, Vanish(n) PROVE FALSE
    BY <2>3, <2>4 DEF Vanish, NothingElse
  <2>5. CASE UNCHANGED vars
    BY <2>3, <2>5 DEF vars
  <2>6. CASE User \/ InstallStep \/ Provide \/ Delete \/ DeleteIfFound \/ Look \/ Require
             \/ Failure
    BY <2>6
       DEF User, Begin, Resync, Finalize, InstallStep, Create, CreateIfMissing, Await,
           Ask, Insist, InstallEnds, Provide,
           Delete, DeleteIfFound, Look, Require, Failure, InstallCallFails,
           TeardownCallFails, TeardownCrash, Give, Advance, Retry, Stepping
  <2> QED
    BY <2>2, <2>4, <2>5, <2>6 DEF Next, TeardownStep
<1>4. Grounded => Kept
  BY DEF Grounded
<1> QED
  BY <1>1, <1>2, <1>3, <1>4, GroundedAlways, PTL DEF Spec

-----------------------------------------------------------------------------
(* What a teardown of a full installation has yet to insist on deleting is *)
(* there, and so is the namespace it is in.                                *)
StillToDelete ==
  rollout \in OrderlyRollouts /\ mode = "teardown" /\ basis = "full" =>
    \A i \in Deletions(rollout) :
      i >= at => Staying(TeardownOf[rollout][i].obj)

(* A Delete disturbs only the object itself, and what is in it.            *)
LEMMA StayingSpared ==
  ASSUME Kept, NEW o \in Objects, Staying(o), NEW q \in Objects, Removed(q),
         q # o, Home[o] # q
  PROVE  Staying(o)'
BY DEF Staying, Removed

LEMMA StillToDeleteStep ==
  ASSUME \A r \in OrderlyRollouts : Orderly(r)
  PROVE  Kept /\ StillToDelete /\ [Next]_vars => StillToDelete'
<1> SUFFICES ASSUME Kept, StillToDelete, [Next]_vars, (rollout \in OrderlyRollouts)', mode' = "teardown", basis' = "full",
                    NEW i \in Deletions(rollout)', (i >= at)'
             PROVE  Staying(TeardownOf[rollout][i].obj)'
  BY DEF StillToDelete
<1>0. /\ TypeOK
      /\ rollout' = rollout
      /\ rollout \in OrderlyRollouts
      /\ rollout \in Rollouts
  BY DEF Next, User, InstallStep, TeardownStep, Failure, Begin, Resync, Finalize, Create,
  CreateIfMissing,
         Await, Ask, Insist, Provide, InstallEnds, Delete, DeleteIfFound, Look, Require, TeardownEnds,
         Vanish, InstallCallFails, TeardownCallFails, TeardownCrash, NothingElse,
         Fault, vars, Kept, TypeOK
<1>1. /\ i \in Deletions(rollout)
      /\ i \in 1..Len(TeardownOf[rollout])
  BY <1>0 DEF Deletions, Steps
<1>2. TeardownOf[rollout][i].obj \in Objects
  BY <1>0, <1>1, TeardownTyped
<1> SUFFICES ASSUME NEW o \in Objects, o = TeardownOf[rollout][i].obj
             PROVE  Staying(o)'
  BY <1>0, <1>2 DEF Staying
<1>3. ASSUME mode = "teardown", basis = "full", i >= at PROVE Staying(o)
  BY <1>0, <1>1, <1>3 DEF StillToDelete
<1>4. /\ o \in Needed(rollout)
      /\ Home[o] \in Needed(rollout) \cup {Outside}
      /\ \A j \in Deletions(rollout) : j < i => TeardownOf[rollout][j].obj \notin {o, Home[o]}
  BY <1>0, <1>1 DEF Orderly
<1>5. CASE Finalize
  <2>1. Needed(rollout) \subseteq exists \ dying
    BY <1>5 DEF Finalize, Whole
  <2>2. Outside \notin dying
    BY RolloutAssumption DEF Kept
  <2>3. exists' = exists /\ dying' = dying
    BY <1>5 DEF Finalize
  <2> QED
    BY <1>4, <2>1, <2>2, <2>3 DEF Staying
<1>6. CASE Delete \/ DeleteIfFound
  <2>1. /\ mode = "teardown" /\ basis = "full" /\ at \in 1..Len(TeardownOf[rollout])
        /\ at' = at + 1
        /\ step.obj = TeardownOf[rollout][at].obj /\ step.obj \in Objects
        /\ at \in Deletions(rollout)
    BY <1>0, <1>6, StepTyped, ScriptTyped
       DEF Delete, DeleteIfFound, Stepping, Advance, Give, step, Script, Deletions, Steps,
           TypeOK
  <2>2. at < i
    BY <1>1, <2>1
  <2>3. step.obj # o /\ Home[o] # step.obj
    BY <1>4, <2>1, <2>2
  <2>4. Staying(o)
    BY <1>1, <1>3, <2>1, <2>2
  <2>5. (exists' = exists /\ dying' = dying) \/ Removed(step.obj)
    BY <1>6 DEF Delete, DeleteIfFound
  <2> QED
    BY <2>1, <2>3, <2>4, <2>5, StayingSpared, StayingKept
<1>7. ASSUME NEW n \in Objects, Vanish(n) PROVE Staying(o)'
  BY <1>0, <1>1, <1>3, <1>7, StayingKept DEF Vanish
<1>8. CASE UNCHANGED vars
  BY <1>0, <1>1, <1>3, <1>8, StayingKept DEF vars
<1>9. CASE Look \/ Require
  <2>1. at \in Steps(TeardownOf[rollout], {"look", "require"})
    BY <1>0, <1>9, ScriptTyped DEF Look, Require, Stepping, step, Script, Steps, TypeOK
  <2> QED
    BY <1>0, <2>1 DEF Orderly
<1>10. CASE \/ Begin \/ Resync \/ InstallStep \/ Provide \/ InstallCallFails
            \/ TeardownEnds \/ TeardownCallFails \/ TeardownCrash
  BY <1>10
     DEF Begin, Resync, InstallStep, Create, CreateIfMissing, Await, Ask, Insist, InstallEnds, Provide,
         InstallCallFails,
         TeardownEnds, TeardownCallFails, TeardownCrash, Give, Advance, Retry, Stepping
<1> QED
  BY <1>5, <1>6, <1>7, <1>8, <1>9, <1>10 DEF Next, User, TeardownStep, Failure

(* For scripts that delete only what they installed, and nothing whose     *)
(* object or namespace an earlier step deletes: unless a call fails, the   *)
(* teardown of a full installation never finds an object missing.          *)
THEOREM OrderlyTeardownEnds ==
  ASSUME \A r \in OrderlyRollouts : Orderly(r)
  PROVE  Spec => []FullTeardownEnds
<1>1. Init => StillToDelete /\ FullTeardownEnds
  BY DEF Init, StillToDelete, FullTeardownEnds
<1>2. Kept /\ StillToDelete /\ [Next]_vars => StillToDelete'
  BY StillToDeleteStep
<1>3. FullTeardownEnds /\ StillToDelete /\ Kept /\ [Next]_vars => FullTeardownEnds'
  <2> SUFFICES ASSUME FullTeardownEnds, StillToDelete, Kept, [Next]_vars,
                      (rollout \in OrderlyRollouts)',
                      mode' = "rest", ended' = "notFound", basis' = "full"
               PROVE  FALSE
    BY DEF FullTeardownEnds
  <2>0. TypeOK /\ rollout \in Rollouts /\ rollout' = rollout
        /\ rollout \in OrderlyRollouts
    BY RolloutKept DEF Kept, TypeOK
  <2>1. CASE Delete \/ DeleteIfFound
    <3>1. /\ mode = "teardown" /\ basis = "full"
          /\ at \in Deletions(rollout)
          /\ step.obj = TeardownOf[rollout][at].obj
          /\ step.obj \notin exists \ dying
      BY <2>0, <2>1, ScriptTyped
         DEF Delete, DeleteIfFound, Deletable, Stepping, Advance, Give, step, Script,
             Deletions, Steps, TypeOK
    <3>2. Staying(step.obj)
      BY <2>0, <3>1 DEF StillToDelete, Deletions, Steps, TypeOK
    <3> QED
      BY <3>1, <3>2 DEF Staying
  <2>2. CASE Require
    <3>1. at \in Steps(TeardownOf[rollout], {"look", "require"})
      BY <2>0, <2>2, ScriptTyped DEF Require, Stepping, step, Script, Steps, TypeOK
    <3> QED
      BY <2>0, <3>1 DEF Orderly
  <2>3. CASE UNCHANGED vars
    BY <2>3 DEF vars, FullTeardownEnds
  <2>4. ASSUME NEW n \in Objects, Vanish(n) PROVE FALSE
    BY <2>0, <2>4 DEF Vanish, FullTeardownEnds
  <2>5. CASE User \/ InstallStep \/ Provide \/ Look \/ TeardownEnds \/ Failure
    BY <2>5
       DEF User, Begin, Resync, Finalize, InstallStep, Create, CreateIfMissing, Await,
           Ask, Insist, InstallEnds, Provide,
           Look, TeardownEnds, Failure, InstallCallFails,
           TeardownCallFails, TeardownCrash, Give, Advance, Retry, Stepping
  <2> QED
    BY <2>1, <2>2, <2>3, <2>4, <2>5 DEF Next, TeardownStep
<1>4. Spec => []Kept
  BY KeptInit, KeptStep, PTL DEF Spec
<1> QED
  BY <1>1, <1>2, <1>3, <1>4, PTL DEF Spec

-----------------------------------------------------------------------------
(* The contract.  As long as what is installed comes and goes one way      *)
(* only, so does its level.                                                *)
LEMMA LevelRises ==
  ASSUME rollout' = rollout,
         \A o \in Owned(rollout) : Staying(o) => Staying(o)'
  PROVE  Level' \in AtLeast(Level)
<1>1. Owned(rollout)' = Owned(rollout)
  BY DEF Owned
<1> QED
  BY <1>1 DEF Level, Bare, AtLeast, Levels

LEMMA LevelFalls ==
  ASSUME rollout' = rollout,
         \A o \in Owned(rollout) : Staying(o)' => Staying(o)
  PROVE  Level' \in AtMost(Level)
<1>1. Owned(rollout)' = Owned(rollout)
  BY DEF Owned
<1> QED
  BY <1>1 DEF Level, Bare, AtMost, Levels

LEMMA LevelStays ==
  ASSUME rollout' = rollout,
         \A o \in Owned(rollout) : Staying(o)' <=> Staying(o)
  PROVE  Level' = Level
<1>1. Owned(rollout)' = Owned(rollout)
  BY DEF Owned
<1> QED
  BY <1>1 DEF Level, Bare

(* What the calls of a run may do to the level, one after the other, is    *)
(* what the reconcile loop lets a whole run do in one step.                *)
LEMMA RunsAddUp ==
  ASSUME NEW level \in Levels
  PROVE  /\ level \in AtLeast(level) /\ level \in AtMost(level)
         /\ \A mid \in AtLeast(level) : AtLeast(mid) \subseteq AtLeast(level)
         /\ \A mid \in AtMost(level) : AtMost(mid) \subseteq AtMost(level)
BY DEF Levels, AtLeast, AtMost

LEMMA LevelTyped == Level \in AtMost(Level)
BY DEF Level, AtMost, Levels

(* A Delete, whoever it is of, lets nothing stay that did not before.      *)
LEMMA NotGainedByRemoval ==
  ASSUME NEW o \in Objects, NEW q \in Objects, Removed(q), Staying(o)', Kept
  PROVE  Staying(o)
<1>1. Home[o] \in Namespaces \cup {Outside} /\ q # Outside
  BY RolloutAssumption
<1> QED
  BY <1>1 DEF Staying, Removed

(* An anchored script creates something outside of any namespace, so it    *)
(* is not bare when it is whole, and nothing it creates is a dependent's,  *)
(* so it loses nothing when a Workshop begins.                             *)
LEMMA AnchoredOwns ==
  ASSUME NEW r \in Rollouts, Anchored(r)
  PROVE  /\ Owned(r) \subseteq Objects
         /\ Owned(r) \cap Dependents = {}
         /\ \E o \in Owned(r) : Home[o] = Outside
<1>1. Owned(r) \subseteq Objects
  BY InstallTyped DEF Owned
<1>2. Owned(r) \cap Dependents = {}
  BY DEF Owned, Anchored, Creations, Steps
<1>3. \E o \in Owned(r) : Home[o] = Outside
  BY DEF Owned, Anchored, Creations, Steps
<1> QED
  BY <1>1, <1>2, <1>3

(* A step of the teardown that cannot pass over what it deletes.           *)
Telling(r, i) ==
  /\ ~Skipped(r, i)
  /\ TeardownOf[r][i].obj \in Owned(r)
  /\ Home[TeardownOf[r][i].obj] = Outside

LEMMA TellingIsThere ==
  ASSUME NEW r \in Rollouts, Anchored(r), Covered(r)
  PROVE  \E i \in Steps(TeardownOf[r], {"delete"}) : Telling(r, i)
<1>1. PICK o \in Owned(r) : Home[o] = Outside
  BY AnchoredOwns
<1>2. o \in Owned(r) \ Dependents
  BY AnchoredOwns
<1>3. PICK i \in Steps(TeardownOf[r], {"delete"}) :
        TeardownOf[r][i].obj \in {o, Home[o]} /\ ~Skipped(r, i)
  BY <1>2 DEF Covered
<1>4. TeardownOf[r][i].obj \in Objects /\ Outside \notin Objects
  BY TeardownTyped, RolloutAssumption DEF Steps
<1> QED
  BY <1>1, <1>3, <1>4 DEF Telling

(* A teardown that found nothing finds nothing as it goes on, and does not *)
(* get past such a step.                                                   *)
FoundNothing ==
  Contracted /\ mode = "teardown" /\ basis = "nothing" =>
    /\ Bare(rollout)
    /\ \A i \in Steps(TeardownOf[rollout], {"delete"}) : Telling(rollout, i) => at <= i

LEMMA FoundNothingStep ==
  ASSUME \A r \in AnchoredRollouts : Anchored(r)
  PROVE  Kept /\ FoundNothing /\ [Next]_vars => FoundNothing'
<1> SUFFICES ASSUME Kept, FoundNothing, [Next]_vars, Contracted', mode' = "teardown",
                    basis' = "nothing"
             PROVE  /\ Bare(rollout)'
                    /\ \A i \in Steps(TeardownOf[rollout], {"delete"}) :
                         Telling(rollout, i) => at' <= i
  <2>1. [Next]_vars => rollout' = rollout
    BY RolloutKept
  <2> QED
    BY <2>1 DEF FoundNothing, Steps, Telling, Skipped, Owned
<1>0. /\ TypeOK
      /\ rollout' = rollout
      /\ rollout \in Rollouts
      /\ rollout \in AnchoredRollouts
      /\ Contracted
  BY RolloutKept DEF Kept, TypeOK, Contracted
<1>1. /\ Owned(rollout) \subseteq Objects
      /\ Owned(rollout) \cap Dependents = {}
      /\ Owned(rollout)' = Owned(rollout)
  BY <1>0, AnchoredOwns DEF Owned
<1>2. \A i \in Steps(TeardownOf[rollout], {"delete"}) : i \in Nat /\ 1 <= i
  BY <1>0, ScriptTyped DEF Steps
<1>3. ASSUME Bare(rollout), exists' = exists, dying' = dying
      PROVE  Bare(rollout)'
  BY <1>1, <1>3, StayingNotGained DEF Bare
<1>4. CASE Finalize
  <2>1. Bare(rollout) /\ at' = 1 /\ exists' = exists /\ dying' = dying
    BY <1>4 DEF Finalize
  <2> QED
    BY <1>2, <1>3, <2>1
<1>5. CASE TeardownCrash
  <2>1. Bare(rollout) /\ at' = 1 /\ exists' = exists /\ dying' = dying
    BY <1>0, <1>5 DEF TeardownCrash, FoundNothing
  <2> QED
    BY <1>2, <1>3, <2>1
<1>6. CASE Delete
  <2>1. /\ mode = "teardown" /\ basis = "nothing" /\ at \in 1..Len(TeardownOf[rollout])
        /\ at' = at + 1
        /\ step.obj = TeardownOf[rollout][at].obj /\ step.obj \in Objects
        /\ Deletable(step.obj) /\ Removed(step.obj)
    BY <1>0, <1>6, StepTyped, ScriptTyped
       DEF Delete, Stepping, Advance, Give, step, Script, TypeOK
  <2>2. Bare(rollout)
    BY <1>0, <2>1 DEF FoundNothing
  <2>3. ASSUME Telling(rollout, at) PROVE FALSE
    <3>1. /\ step.obj \in Owned(rollout) /\ Home[step.obj] = Outside
          /\ Outside \notin dying
      BY <2>1, <2>3, RolloutAssumption DEF Telling, Kept
    <3>2. step.obj \in exists /\ step.obj \notin dying
      BY <1>1, <2>1, <3>1 DEF Deletable, Kept
    <3> QED
      BY <2>2, <3>1, <3>2 DEF Bare, Staying
  <2>4. Bare(rollout)'
    BY <1>1, <2>1, <2>2, NotGainedByRemoval DEF Bare
  <2>5. ASSUME NEW i \in Steps(TeardownOf[rollout], {"delete"}), Telling(rollout, i)
        PROVE  at' <= i
    <3>1. at <= i /\ at # i
      BY <1>0, <2>1, <2>3, <2>5 DEF FoundNothing
    <3> QED
      BY <1>2, <2>1, <3>1
  <2> QED
    BY <2>4, <2>5
<1>7. CASE DeleteIfFound \/ Look \/ Require
  <2>1. /\ mode = "teardown" /\ basis = "nothing" /\ at \in 1..Len(TeardownOf[rollout])
        /\ step = TeardownOf[rollout][at]
        /\ step.op \in {"deleteIfFound", "look", "require"}
        /\ step.obj \in Objects /\ step.skip \in Nat
        /\ at' = at + 1 \/ (step.op = "look" /\ at' = at + 1 + step.skip)
        /\ (exists' = exists /\ dying' = dying) \/ Removed(step.obj)
    BY <1>0, <1>7, StepTyped, ScriptTyped
       DEF DeleteIfFound, Look, Require, Stepping, Advance, Give, step, Script, TypeOK
  <2>2. Bare(rollout)
    BY <1>0, <2>1 DEF FoundNothing
  <2>3. Bare(rollout)'
    BY <1>1, <1>3, <2>1, <2>2, NotGainedByRemoval DEF Bare
  <2>4. ASSUME NEW i \in Steps(TeardownOf[rollout], {"delete"}), Telling(rollout, i)
        PROVE  at' <= i
    <3>1. at <= i /\ at # i
      BY <1>0, <2>1, <2>4 DEF FoundNothing, Steps
    <3>2. ASSUME step.op = "look" PROVE ~(at < i /\ i <= at + step.skip)
      BY <2>1, <2>4, <3>2 DEF Telling, Skipped, Steps
    <3> QED
      BY <1>2, <2>1, <3>1, <3>2
  <2> QED
    BY <2>3, <2>4
<1>8. ASSUME mode = "teardown", basis = "nothing", at' = at,
             \/ exists' = exists /\ dying' = dying
             \/ \E n \in Objects : Vanish(n)
      PROVE  /\ Bare(rollout)'
             /\ \A i \in Steps(TeardownOf[rollout], {"delete"}) :
                  Telling(rollout, i) => at' <= i
  BY <1>0, <1>1, <1>8, StayingNotGained DEF FoundNothing, Bare
<1>9. ASSUME NEW n \in Objects, Vanish(n)
      PROVE  mode = "teardown" /\ basis = "nothing" /\ at' = at
  BY <1>9 DEF Vanish
<1>10. CASE UNCHANGED vars
  BY <1>8, <1>10 DEF vars
<1>11. CASE Begin \/ Resync \/ InstallStep \/ Provide \/ InstallCallFails
            \/ TeardownEnds \/ TeardownCallFails
  BY <1>11
     DEF Begin, Resync, InstallStep, Create, CreateIfMissing, Await, Ask, Insist, InstallEnds,
         Provide, InstallCallFails, TeardownEnds, TeardownCallFails, Give, Advance, Retry,
         Stepping
<1> QED
  BY <1>4, <1>5, <1>6, <1>7, <1>8, <1>9, <1>10, <1>11 DEF Next, User, TeardownStep, Failure

(* Every step of the script at hand is a step of the contract, or none.    *)
LEMMA ContractStep ==
  ASSUME \A r \in AnchoredRollouts : Anchored(r),
         \A r \in CoveredRollouts : Covered(r)
  PROVE  /\ Kept /\ FoundNothing /\ [Next]_vars
         /\ InstalledMeansThere' /\ RemovedMeansGone'
         => [Contract!Next]_(Contract!vars)
<1> SUFFICES ASSUME Kept, FoundNothing, [Next]_vars, InstalledMeansThere', RemovedMeansGone'
             PROVE  [Contract!Next]_(Contract!vars)
  OBVIOUS
<1>0. TypeOK /\ rollout \in Rollouts /\ rollout' = rollout /\ Contracted' = Contracted
  BY RolloutKept DEF Kept, TypeOK, Contracted
<1>1. CASE ~Contracted
  BY <1>0, <1>1 DEF Contract!vars, Doing, Extent, Outcome, Found
<1> SUFFICES ASSUME Contracted
             PROVE  \/ Contract!Next
                    \/ mode' = mode /\ Level' = Level /\ ended' = ended
                       /\ (basis' # "nothing") = (basis # "nothing")
  BY <1>0, <1>1 DEF Contract!vars, Doing, Extent, Outcome, Found
<1>2. /\ Anchored(rollout) /\ Covered(rollout)
      /\ rollout \in AnchoredRollouts /\ rollout \in CoveredRollouts
  BY DEF Contracted
<1>3. /\ Doing = mode /\ Doing' = mode'
      /\ Extent = Level /\ Extent' = Level'
      /\ Outcome = ended /\ Outcome' = ended'
      /\ Found = (basis # "nothing") /\ Found' = (basis' # "nothing")
  BY <1>0 DEF Doing, Extent, Outcome, Found
<1>4. /\ Owned(rollout) \subseteq Objects
      /\ Owned(rollout) \cap Dependents = {}
      /\ \E o \in Owned(rollout) : Home[o] = Outside
      /\ Outside \notin Objects /\ Outside \notin dying
  BY <1>0, <1>2, AnchoredOwns, RolloutAssumption DEF Kept
<1>5. Level = "none" <=> Bare(rollout)
  BY DEF Level
<1>6. ASSUME exists' = exists, dying' = dying PROVE Level' = Level
  BY <1>0, <1>6, LevelStays DEF Staying
<1>7. ASSUME exists \subseteq exists', dying' = dying PROVE Level' \in AtLeast(Level)
  BY <1>0, <1>4, <1>7, LevelRises, StayingKept
<1>8. ASSUME \/ exists' = exists /\ dying' = dying
             \/ \E o \in Objects : Removed(o)
      PROVE  Level' \in AtMost(Level)
  BY <1>0, <1>4, <1>8, LevelFalls, StayingNotGained, NotGainedByRemoval
<1>9. CASE Begin
  <2>1. \A o \in Owned(rollout) : Staying(o)' <=> Staying(o)
    BY <1>4, <1>9, RolloutAssumption DEF Begin, Staying
  <2>2. Level' = Level
    BY <1>0, <2>1, LevelStays
  <2>3. Contract!StartInstall
    BY <1>3, <1>9, <2>2 DEF Begin, Contract!StartInstall
  <2> QED
    BY <2>3 DEF Contract!Next
<1>10. CASE Resync
  <2>1. Contract!StartInstall
    BY <1>3, <1>6, <1>10 DEF Resync, Contract!StartInstall
  <2> QED
    BY <2>1 DEF Contract!Next
<1>11. CASE Finalize
  <2>1. Whole(rollout) => ~Bare(rollout)
    <3>1. Owned(rollout) \subseteq Needed(rollout)
      BY DEF Owned, Needed
    <3> QED
      BY <1>4, <3>1 DEF Whole, Bare, Staying
  <2>2. (basis' # "nothing") = (Level # "none")
    BY <1>5, <1>11, <2>1 DEF Finalize
  <2>3. Contract!StartTeardown
    BY <1>3, <1>6, <1>11, <2>2 DEF Finalize, Contract!StartTeardown
  <2> QED
    BY <2>3 DEF Contract!Next
<1>12. CASE Create \/ CreateIfMissing \/ Await \/ Ask \/ Insist \/ Provide \/ InstallCallFails
  <2>1. /\ mode = "install" /\ mode' = mode /\ ended' = ended /\ basis' = basis
        /\ exists \subseteq exists' /\ dying' = dying
    BY <1>12
       DEF Create, CreateIfMissing, Await, Ask, Insist, Provide, InstallCallFails, Stepping,
           Advance, Retry
  <2>2. Contract!Build
    BY <1>3, <1>7, <2>1 DEF Contract!Build, Contract!AtLeast, Contract!Levels, AtLeast, Levels
  <2> QED
    BY <2>2 DEF Contract!Next
<1>13. CASE InstallEnds
  <2>1. \A o \in Owned(rollout) : Staying(o)
    BY <1>0, <1>2, <1>13
       DEF InstallEnds, Give, InstalledMeansThere, Owned, Staying
  <2>2. Level = "full"
    BY <1>4, <2>1 DEF Level, Bare
  <2>3. Contract!Installed
    BY <1>3, <1>6, <1>13, <2>2 DEF InstallEnds, Give, Contract!Installed
  <2> QED
    BY <2>3 DEF Contract!Next
<1>14. CASE Delete \/ DeleteIfFound \/ Look \/ Require \/ TeardownCallFails
  <2>1. /\ mode = "teardown" /\ basis' = basis
        /\ \/ mode' = mode /\ ended' = ended
           \/ mode' = "rest" /\ ended' \in {"failed", "notFound"}
        /\ \/ exists' = exists /\ dying' = dying
           \/ \E o \in Objects : Removed(o)
    BY <1>0, <1>14, StepTyped
       DEF Delete, DeleteIfFound, Look, Require, TeardownCallFails, Stepping, Deletable,
           Advance, Give
  <2>2. CASE mode' = mode /\ ended' = ended
    <3>1. Contract!TakeDown
      BY <1>3, <1>8, <2>1, <2>2
         DEF Contract!TakeDown, Contract!AtMost, Contract!Levels, AtMost, Levels
    <3> QED
      BY <3>1 DEF Contract!Next
  <2>3. CASE mode' = "rest" /\ ended' \in {"failed", "notFound"}
    <3>1. Contract!GiveUp
      BY <1>3, <1>8, <2>1, <2>3
         DEF Contract!GiveUp, Contract!AtMost, Contract!Levels, AtMost, Levels
    <3> QED
      BY <3>1 DEF Contract!Next
  <2> QED
    BY <2>1, <2>2, <2>3
<1>15. CASE TeardownEnds
  <2>1. Bare(rollout)
    <3>1. \A o \in Owned(rollout) : ~Staying(o)'
      BY <1>0, <1>2, <1>4, <1>15
         DEF TeardownEnds, Give, RemovedMeansGone, Owned
    <3> QED
      BY <1>15, <3>1 DEF TeardownEnds, Bare, Staying
  <2>2. basis # "nothing"
    <3>1. PICK i \in Steps(TeardownOf[rollout], {"delete"}) : Telling(rollout, i)
      BY <1>0, <1>2, TellingIsThere
    <3>2. i \in Nat /\ i <= Len(TeardownOf[rollout]) /\ Len(TeardownOf[rollout]) \in Nat
      BY <1>0, RolloutAssumption DEF Steps
    <3>3. at \in Nat /\ at > Len(TeardownOf[rollout]) /\ mode = "teardown"
      BY <1>0, <1>15 DEF TeardownEnds, Script, TypeOK
    <3> QED
      BY <3>1, <3>2, <3>3 DEF FoundNothing
  <2>3. Contract!Removed
    BY <1>3, <1>5, <1>6, <1>15, <2>1, <2>2 DEF TeardownEnds, Give, Contract!Removed
  <2> QED
    BY <2>3 DEF Contract!Next
<1>16. ASSUME NEW n \in Objects, Vanish(n)
       PROVE  mode' = mode /\ Level' = Level /\ ended' = ended
              /\ (basis' # "nothing") = (basis # "nothing")
  <2>1. \A o \in Owned(rollout) : Staying(o)' <=> Staying(o)
    BY <1>4, <1>16, StayingKept, StayingNotGained
  <2>2. Level' = Level
    BY <1>0, <2>1, LevelStays
  <2> QED
    BY <1>16, <2>2 DEF Vanish
<1>17. CASE TeardownCrash
  <2>1. (basis' # "nothing") = (Level # "none")
    <3>1. basis = "nothing" => Bare(rollout)
      BY <1>17 DEF TeardownCrash, FoundNothing
    <3> QED
      BY <1>5, <1>17, <3>1 DEF TeardownCrash
  <2>2. Contract!Restart
    BY <1>3, <1>6, <1>17, <2>1 DEF TeardownCrash, Contract!Restart
  <2> QED
    BY <2>2 DEF Contract!Next
<1>18. CASE UNCHANGED vars
  BY <1>6, <1>18 DEF vars
<1> QED
  BY <1>9, <1>10, <1>11, <1>12, <1>13, <1>14, <1>15, <1>16, <1>17, <1>18
     DEF Next, User, InstallStep, TeardownStep, Failure

(* For scripts that anchor their namespaces and cover what they create,    *)
(* every behaviour, with any number of faults and lives, is one of the     *)
(* contract: a phase may be taken for one whose install only adds and ends *)
(* only when everything stays, and whose teardown only removes, ends well  *)
(* only when nothing stays, and cannot end well when it found nothing.     *)
THEOREM PhasesKeepContract ==
  ASSUME \A r \in AnchoredRollouts : Anchored(r),
         \A r \in CoveredRollouts : Covered(r)
  PROVE  Spec => KeepsContract
<1>1. Init => Contract!Init
  <2> SUFFICES ASSUME Init PROVE Contract!Init
    OBVIOUS
  <2>1. Level = "none"
    BY DEF Init, Level, Bare, Staying
  <2> QED
    BY <2>1 DEF Init, Contract!Init, Doing, Extent, Outcome, Found
<1>2. Init => FoundNothing
  BY DEF Init, FoundNothing
<1>3. Kept /\ FoundNothing /\ [Next]_vars => FoundNothing'
  BY FoundNothingStep
<1>4. /\ Kept /\ FoundNothing /\ [Next]_vars
      /\ InstalledMeansThere' /\ RemovedMeansGone'
      => [Contract!Next]_(Contract!vars)
  BY ContractStep
<1>5. Spec => []InstalledMeansThere
  BY InstalledIsThere
<1>6. Spec => []RemovedMeansGone
  BY RemovedIsGone
<1>7. Spec => []Kept
  BY KeptInit, KeptStep, PTL DEF Spec
<1> QED
  BY <1>1, <1>2, <1>3, <1>4, <1>5, <1>6, <1>7, PTL DEF Spec, KeepsContract, Contract!Spec
=============================================================================
