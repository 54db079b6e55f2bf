------------------------- MODULE ComponentPlans_proofs -------------------------
(***************************************************************************)
(* The scripts of the code have the shapes that the theorems of            *)
(* Rollout_proofs ask for, whatever the number of users, and so these      *)
(* theorems hold of the code's own phases.                                 *)
(***************************************************************************)
EXTENDS ComponentPlans, SequenceTheorems, TLAPS

CONSTANTS MaxFaults, MaxLives

VARIABLES rollout, exists, dying, mode, at, ended, basis, faults, lives

(* What is in no namespace of the operator's is at home nowhere.           *)
Nowhere == CHOOSE o : o \notin ApiObjects(PlanNames)

(* Rollout for the scripts of the code.                                    *)
Code == INSTANCE Rollout_proofs
          WITH Rollouts <- PlanNames,
               AnchoredRollouts <- AnchoredPhases,
               CoveredRollouts <- CoveredPhases,
               OrderlyRollouts <- OrderlyPhases,
               InstallOf <- [p \in PlanNames |-> InstallScript(p)],
               TeardownOf <- [p \in PlanNames |-> TeardownScript(p)],
               Objects <- ApiObjects(PlanNames),
               Namespaces <- NamespacesAmong(ApiObjects(PlanNames)),
               Home <- HomesOf(ApiObjects(PlanNames), Nowhere),
               Outside <- Nowhere,
               Dependents <- OwnedByWorkshop \cap ApiObjects(PlanNames)

Ops == {"create", "createIfMissing", "await", "ask", "insist",
        "delete", "deleteIfFound", "look", "require"}

StepOver(objects) ==
  [op : Ops, obj : objects, brings : SUBSET objects, skip : Nat]

IsScript(s) == s \in Seq(StepOver(ObjectsOf(s)))

(* The objects of the steps of some kinds, and those of a list.            *)
Acts(s, ops) == {s[i].obj : i \in {j \in 1..Len(s) : s[j].op \in ops}}
Among(os) == {os[i] : i \in 1..Len(os)}

-----------------------------------------------------------------------------
(* How scripts are put together.                                           *)
LEMMA ScriptSteps ==
  ASSUME NEW s, IsScript(s)
  PROVE  /\ Len(s) \in Nat
         /\ \A i \in 1..Len(s) :
              /\ s[i] \in StepOver(ObjectsOf(s))
              /\ s[i].op \in Ops /\ s[i].skip \in Nat
              /\ s[i].obj \in ObjectsOf(s) /\ s[i].brings \subseteq ObjectsOf(s)
<1>1. Len(s) \in Nat /\ \A i \in 1..Len(s) : s[i] \in StepOver(ObjectsOf(s))
  BY DEF IsScript
<1> QED
  BY <1>1 DEF StepOver

LEMMA ScriptOver ==
  ASSUME NEW s, IsScript(s), NEW objects, ObjectsOf(s) \subseteq objects
  PROVE  s \in Seq(StepOver(objects))
<1>1. StepOver(ObjectsOf(s)) \subseteq StepOver(objects)
  BY DEF StepOver
<1> QED
  BY <1>1 DEF IsScript

LEMMA ConcatPlaces ==
  ASSUME NEW s, IsScript(s), NEW t, IsScript(t)
  PROVE  /\ Len(s) \in Nat /\ Len(t) \in Nat /\ Len(s \o t) = Len(s) + Len(t)
         /\ \A i \in 1..Len(s) : (s \o t)[i] = s[i] /\ i \in 1..Len(s \o t)
         /\ \A i \in 1..Len(t) : (s \o t)[Len(s) + i] = t[i] /\ Len(s) + i \in 1..Len(s \o t)
         /\ \A i \in 1..Len(s \o t) :
              i \in 1..Len(s) \/ \E j \in 1..Len(t) : i = Len(s) + j
<1>1. Len(s \o t) = Len(s) + Len(t) /\ Len(s) \in Nat /\ Len(t) \in Nat
  BY DEF IsScript
<1>2. \A i \in 1..Len(s) : (s \o t)[i] = s[i]
  BY DEF IsScript
<1>3. \A i \in 1..Len(t) : (s \o t)[Len(s) + i] = t[i]
  BY DEF IsScript
<1>4. ASSUME NEW i \in 1..Len(s \o t), i \notin 1..Len(s)
      PROVE  \E j \in 1..Len(t) : i = Len(s) + j
  <2>1. i - Len(s) \in 1..Len(t) /\ i = Len(s) + (i - Len(s))
    BY <1>1, <1>4
  <2> QED
    BY <2>1
<1> QED
  BY <1>1, <1>2, <1>3, <1>4

LEMMA ConcatLength ==
  ASSUME NEW s, IsScript(s), NEW t, IsScript(t)
  PROVE  Len(s \o t) = Len(s) + Len(t)
BY ConcatPlaces

LEMMA ConcatLast ==
  ASSUME NEW s, IsScript(s), NEW t, IsScript(t), Len(t) = 1
  PROVE  /\ \A i \in 1..Len(s) : (s \o t)[i] = s[i]
         /\ (s \o t)[Len(s) + 1] = t[1]
<1>1. 1 \in 1..Len(t)
  OBVIOUS
<1>2. \A i \in 1..Len(t) : (s \o t)[Len(s) + i] = t[i]
  BY DEF IsScript
<1>3. \A i \in 1..Len(s) : (s \o t)[i] = s[i]
  BY ConcatPlaces
<1> QED
  BY <1>1, <1>2, <1>3

LEMMA ConcatScript ==
  ASSUME NEW s, IsScript(s), NEW t, IsScript(t)
  PROVE  /\ IsScript(s \o t)
         /\ ObjectsOf(s \o t) = ObjectsOf(s) \cup ObjectsOf(t)
         /\ \A ops : Acts(s \o t, ops) = Acts(s, ops) \cup Acts(t, ops)
<1>1. ObjectsOf(s \o t) = ObjectsOf(s) \cup ObjectsOf(t)
  <2>1. ASSUME NEW i \in 1..Len(s \o t)
        PROVE  \/ \E j \in 1..Len(s) : (s \o t)[i] = s[j]
               \/ \E j \in 1..Len(t) : (s \o t)[i] = t[j]
    BY <2>1, ConcatPlaces
  <2>2. ObjectsOf(s \o t) \subseteq ObjectsOf(s) \cup ObjectsOf(t)
    BY <2>1 DEF ObjectsOf
  <2>3. ObjectsOf(s) \subseteq ObjectsOf(s \o t)
    BY ConcatPlaces DEF ObjectsOf
  <2>4. ObjectsOf(t) \subseteq ObjectsOf(s \o t)
    <3>1. \A j \in 1..Len(t) : \E i \in 1..Len(s \o t) : (s \o t)[i] = t[j]
      BY ConcatPlaces
    <3> QED
      BY <3>1 DEF ObjectsOf
  <2> QED
    BY <2>2, <2>3, <2>4
<1>2. IsScript(s \o t)
  <2>1. /\ s \in Seq(StepOver(ObjectsOf(s \o t)))
        /\ t \in Seq(StepOver(ObjectsOf(s \o t)))
    BY <1>1, ScriptOver
  <2> QED
    BY <2>1 DEF IsScript
<1>3. ASSUME NEW ops PROVE Acts(s \o t, ops) = Acts(s, ops) \cup Acts(t, ops)
  <2>1. ASSUME NEW i \in 1..Len(s \o t)
        PROVE  \/ \E j \in 1..Len(s) : (s \o t)[i] = s[j]
               \/ \E j \in 1..Len(t) : (s \o t)[i] = t[j]
    BY <2>1, ConcatPlaces
  <2>2. Acts(s \o t, ops) \subseteq Acts(s, ops) \cup Acts(t, ops)
    BY <2>1 DEF Acts
  <2>3. Acts(s, ops) \subseteq Acts(s \o t, ops)
    BY ConcatPlaces DEF Acts
  <2>4. Acts(t, ops) \subseteq Acts(s \o t, ops)
    <3>1. \A j \in 1..Len(t) : \E i \in 1..Len(s \o t) : (s \o t)[i] = t[j]
      BY ConcatPlaces
    <3> QED
      BY <3>1 DEF Acts
  <2> QED
    BY <2>2, <2>3, <2>4
<1> QED
  BY <1>1, <1>2, <1>3

LEMMA MakesScript ==
  ASSUME NEW os, Len(os) \in Nat
  PROVE  /\ IsScript(Makes(os))
         /\ Len(Makes(os)) = Len(os)
         /\ ObjectsOf(Makes(os)) = Among(os)
         /\ \A ops : Acts(Makes(os), ops) = IF "create" \in ops THEN Among(os) ELSE {}
<1>1. /\ Len(Makes(os)) = Len(os)
      /\ \A i \in 1..Len(os) :
           Makes(os)[i].op = "create" /\ Makes(os)[i].obj = os[i] /\ Makes(os)[i].brings = {}
  BY DEF Makes, Make, Does
<1>2. ObjectsOf(Makes(os)) = Among(os)
  BY <1>1 DEF ObjectsOf, Among
<1>3. Makes(os) \in Seq(StepOver(Among(os)))
  BY <1>1 DEF Makes, Make, Does, StepOver, Ops, Among
<1>4. ASSUME NEW ops PROVE Acts(Makes(os), ops) = IF "create" \in ops THEN Among(os) ELSE {}
  BY <1>1 DEF Acts, Among
<1> QED
  BY <1>1, <1>2, <1>3, <1>4 DEF IsScript

LEMMA DropsScript ==
  ASSUME NEW os, Len(os) \in Nat
  PROVE  /\ IsScript(Drops(os))
         /\ Len(Drops(os)) = Len(os)
         /\ ObjectsOf(Drops(os)) = Among(os)
         /\ \A ops : Acts(Drops(os), ops) = IF "delete" \in ops THEN Among(os) ELSE {}
<1>1. /\ Len(Drops(os)) = Len(os)
      /\ \A i \in 1..Len(os) :
           Drops(os)[i].op = "delete" /\ Drops(os)[i].obj = os[i] /\ Drops(os)[i].brings = {}
  BY DEF Drops, Drop, Does
<1>2. ObjectsOf(Drops(os)) = Among(os)
  BY <1>1 DEF ObjectsOf, Among
<1>3. Drops(os) \in Seq(StepOver(Among(os)))
  BY <1>1 DEF Drops, Drop, Does, StepOver, Ops, Among
<1>4. ASSUME NEW ops PROVE Acts(Drops(os), ops) = IF "delete" \in ops THEN Among(os) ELSE {}
  BY <1>1 DEF Acts, Among
<1> QED
  BY <1>1, <1>2, <1>3, <1>4 DEF IsScript

LEMMA OneStep ==
  ASSUME NEW op \in Ops, NEW o, NEW more, NEW skip \in Nat
  PROVE  /\ IsScript(<<Does(op, o, more, skip)>>)
         /\ Len(<<Does(op, o, more, skip)>>) = 1
         /\ ObjectsOf(<<Does(op, o, more, skip)>>) = {o} \cup more
         /\ \A ops : Acts(<<Does(op, o, more, skip)>>, ops) = IF op \in ops THEN {o} ELSE {}
<1> DEFINE s == <<Does(op, o, more, skip)>>
<1>1. /\ Len(s) = 1 /\ \A i \in 1..Len(s) : s[i] = Does(op, o, more, skip)
  OBVIOUS
<1>2. ObjectsOf(s) = {o} \cup more
  BY <1>1 DEF ObjectsOf, Does
<1>3. Does(op, o, more, skip) \in StepOver({o} \cup more)
  BY DEF Does, StepOver
<1>4. IsScript(s)
  BY <1>2, <1>3 DEF IsScript
<1>5. ASSUME NEW ops PROVE Acts(s, ops) = IF op \in ops THEN {o} ELSE {}
  BY <1>1 DEF Acts, Does
<1> QED
  BY <1>1, <1>2, <1>4, <1>5

-----------------------------------------------------------------------------
(* The steps of all users, one user after the other.                       *)
LEMMA Places ==
  ASSUME NEW k \in 1..8, NEW n \in Nat
  PROVE  /\ \A i \in 1..k * n :
              ((i - 1) \div k) + 1 \in 1..n /\ ((i - 1) % k) + 1 \in 1..k
         /\ \A id \in 1..n : \A c \in 1..k :
              /\ k * (id - 1) + c \in 1..k * n
              /\ (((k * (id - 1) + c) - 1) \div k) + 1 = id
              /\ (((k * (id - 1) + c) - 1) % k) + 1 = c
<1>1. CASE k = 1
  BY <1>1
<1>2. CASE k = 2
  BY <1>2
<1>3. CASE k = 3
  BY <1>3
<1>4. CASE k = 4
  BY <1>4
<1>5. CASE k = 5
  BY <1>5
<1>6. CASE k = 6
  BY <1>6
<1>7. CASE k = 7
  BY <1>7
<1>8. CASE k = 8
  BY <1>8
<1> QED
  BY <1>1, <1>2, <1>3, <1>4, <1>5, <1>6, <1>7, <1>8

LEMMA OneEach ==
  ASSUME NEW n \in Nat, NEW F
  PROVE  Len(PerUser(F, 1, n)) = n /\ \A i \in 1..n : PerUser(F, 1, n)[i] = F[i][1]
<1>1. 1 * n = n
  OBVIOUS
<1> DEFINE s == [i \in 1..1 * n |-> F[((i - 1) \div 1) + 1][((i - 1) % 1) + 1]]
<1>2. PerUser(F, 1, n) = s
  BY DEF PerUser
<1>3. Len(s) = 1 * n
  BY <1>1
<1>4. \A i \in 1..1 * n : s[i] = F[((i - 1) \div 1) + 1][((i - 1) % 1) + 1]
  OBVIOUS
<1> HIDE DEF s
<1>5. ASSUME NEW i \in 1..n PROVE s[i] = F[i][1]
  <2>1. ((i - 1) \div 1) + 1 = i /\ ((i - 1) % 1) + 1 = 1
    OBVIOUS
  <2> QED
    BY <1>1, <1>4, <2>1
<1> QED
  BY <1>1, <1>2, <1>3, <1>5

(* s has precisely the steps of F[1] to F[n].                              *)
StepsOf(s, F, n) ==
  /\ \A i \in 1..Len(s) : \E id \in 1..n : \E c \in 1..Len(F[id]) : s[i] = F[id][c]
  /\ \A id \in 1..n : \A c \in 1..Len(F[id]) : \E i \in 1..Len(s) : s[i] = F[id][c]

LEMMA PerUserSteps ==
  ASSUME NEW k \in 1..8, NEW n \in Nat, NEW F, \A id \in 1..n : Len(F[id]) = k
  PROVE  /\ k * n \in Nat
         /\ Len(PerUser(F, k, n)) = k * n
         /\ PerUser(F, k, n) = [i \in 1..k * n |-> PerUser(F, k, n)[i]]
         /\ StepsOf(PerUser(F, k, n), F, n)
<1>1. k * n \in Nat
  OBVIOUS
<1>2. Len(PerUser(F, k, n)) = k * n
  BY <1>1 DEF PerUser
<1>3. \A i \in 1..k * n :
        PerUser(F, k, n)[i] = F[((i - 1) \div k) + 1][((i - 1) % k) + 1]
  BY DEF PerUser
<1>4. ASSUME NEW i \in 1..k * n
      PROVE  \E id \in 1..n : \E c \in 1..Len(F[id]) : PerUser(F, k, n)[i] = F[id][c]
  <2>1. ((i - 1) \div k) + 1 \in 1..n /\ ((i - 1) % k) + 1 \in 1..k
    BY Places
  <2> QED
    BY <1>3, <2>1
<1>5. ASSUME NEW id \in 1..n, NEW c \in 1..Len(F[id])
      PROVE  \E i \in 1..k * n : PerUser(F, k, n)[i] = F[id][c]
  <2>1. /\ k * (id - 1) + c \in 1..k * n
        /\ (((k * (id - 1) + c) - 1) \div k) + 1 = id
        /\ (((k * (id - 1) + c) - 1) % k) + 1 = c
    BY Places
  <2>2. PerUser(F, k, n)[k * (id - 1) + c] = F[id][c]
    BY <1>3, <2>1
  <2> QED
    BY <2>1, <2>2
<1>6. PerUser(F, k, n) = [i \in 1..k * n |-> PerUser(F, k, n)[i]]
  BY DEF PerUser
<1> QED
  BY <1>1, <1>2, <1>4, <1>5, <1>6 DEF StepsOf

LEMMA PerUserScript ==
  ASSUME NEW k \in 1..8, NEW n \in Nat, NEW F,
         \A id \in 1..n : IsScript(F[id]) /\ Len(F[id]) = k
  PROVE  /\ IsScript(PerUser(F, k, n))
         /\ Len(PerUser(F, k, n)) = k * n
         /\ \A o : o \in ObjectsOf(PerUser(F, k, n)) <=> \E id \in 1..n : o \in ObjectsOf(F[id])
         /\ \A ops, o : o \in Acts(PerUser(F, k, n), ops)
              <=> \E id \in 1..n : o \in Acts(F[id], ops)
<1> DEFINE s == PerUser(F, k, n)
           length == k * n
<1>0. /\ length \in Nat
      /\ Len(s) = length
      /\ s = [i \in 1..length |-> s[i]]
      /\ StepsOf(s, F, n)
  BY PerUserSteps
<1>a. ASSUME IsScript(s),
             \A o : o \in ObjectsOf(s) <=> \E id \in 1..n : o \in ObjectsOf(F[id]),
             \A ops, o : o \in Acts(s, ops) <=> \E id \in 1..n : o \in Acts(F[id], ops)
      PROVE  /\ IsScript(PerUser(F, k, n))
             /\ Len(PerUser(F, k, n)) = k * n
             /\ \A o : o \in ObjectsOf(PerUser(F, k, n))
                  <=> \E id \in 1..n : o \in ObjectsOf(F[id])
             /\ \A ops, o : o \in Acts(PerUser(F, k, n), ops)
                  <=> \E id \in 1..n : o \in Acts(F[id], ops)
  BY <1>0, <1>a
<1> HIDE DEF s, length
<1>1. /\ \A i \in 1..Len(s) : \E id \in 1..n : \E c \in 1..Len(F[id]) : s[i] = F[id][c]
      /\ \A id \in 1..n : \A c \in 1..Len(F[id]) : \E i \in 1..Len(s) : s[i] = F[id][c]
  BY <1>0 DEF StepsOf
<1>2. \A o : o \in ObjectsOf(s) <=> \E id \in 1..n : o \in ObjectsOf(F[id])
  <2>1. ASSUME NEW o \in ObjectsOf(s) PROVE \E id \in 1..n : o \in ObjectsOf(F[id])
    <3>1. PICK i \in 1..Len(s) : o \in {s[i].obj} \cup s[i].brings
      BY DEF ObjectsOf
    <3>2. PICK id \in 1..n : \E c \in 1..Len(F[id]) : s[i] = F[id][c]
      BY <1>1
    <3> QED
      BY <3>1, <3>2 DEF ObjectsOf
  <2>2. ASSUME NEW id \in 1..n, NEW o \in ObjectsOf(F[id]) PROVE o \in ObjectsOf(s)
    <3>1. PICK c \in 1..Len(F[id]) : o \in {F[id][c].obj} \cup F[id][c].brings
      BY DEF ObjectsOf
    <3>2. PICK i \in 1..Len(s) : s[i] = F[id][c]
      BY <1>1
    <3> QED
      BY <3>1, <3>2 DEF ObjectsOf
  <2> QED
    BY <2>1, <2>2
<1>3. ASSUME NEW ops PROVE \A o : o \in Acts(s, ops) <=> \E id \in 1..n : o \in Acts(F[id], ops)
  <2>1. ASSUME NEW o \in Acts(s, ops) PROVE \E id \in 1..n : o \in Acts(F[id], ops)
    <3>1. PICK i \in 1..Len(s) : s[i].op \in ops /\ o = s[i].obj
      BY DEF Acts
    <3>2. PICK id \in 1..n : \E c \in 1..Len(F[id]) : s[i] = F[id][c]
      BY <1>1
    <3> QED
      BY <3>1, <3>2 DEF Acts
  <2>2. ASSUME NEW id \in 1..n, NEW o \in Acts(F[id], ops) PROVE o \in Acts(s, ops)
    <3>1. PICK c \in 1..Len(F[id]) : F[id][c].op \in ops /\ o = F[id][c].obj
      BY DEF Acts
    <3> QED
      BY <1>1, <3>1 DEF Acts
  <2> QED
    BY <2>1, <2>2
<1>4. IsScript(s)
  <2>1. ASSUME NEW i \in 1..Len(s) PROVE s[i] \in StepOver(ObjectsOf(s))
    <3>1. PICK id \in 1..n : \E c \in 1..Len(F[id]) : s[i] = F[id][c]
      BY <1>1
    <3>2. ObjectsOf(F[id]) \subseteq ObjectsOf(s)
      BY <1>2
    <3>3. F[id] \in Seq(StepOver(ObjectsOf(s)))
      BY <3>2, ScriptOver
    <3> QED
      BY <3>1, <3>3
  <2>2. s \in [1..length -> StepOver(ObjectsOf(s))]
    BY <1>0, <2>1
  <2> QED
    BY <1>0, <2>2 DEF IsScript
<1> QED
  BY <1>a, <1>2, <1>3, <1>4

-----------------------------------------------------------------------------
(* The shapes, said by what the steps of a script are about.               *)
HomeOf(o) == IF o[1] = Cluster THEN Nowhere ELSE NS(o[1])
IsNamespace(o) == o[1] = Cluster /\ o[2] = "namespace"

LEMMA NowhereIsNone == Nowhere \notin ApiObjects(PlanNames)
<1>1. {o \in ApiObjects(PlanNames) : o \notin o} \notin ApiObjects(PlanNames)
  OBVIOUS
<1> QED
  BY <1>1 DEF Nowhere

LEMMA ScriptObjects ==
  ASSUME NEW p \in PlanNames
  PROVE  /\ ObjectsOf(InstallScript(p)) \subseteq ApiObjects(PlanNames)
         /\ ObjectsOf(TeardownScript(p)) \subseteq ApiObjects(PlanNames)
BY DEF ApiObjects

LEMMA HomesAre ==
  ASSUME NEW o \in ApiObjects(PlanNames)
  PROVE  /\ HomesOf(ApiObjects(PlanNames), Nowhere)[o] = HomeOf(o)
         /\ o \in NamespacesAmong(ApiObjects(PlanNames)) <=> IsNamespace(o)
BY DEF HomesOf, HomeOf, NamespacesAmong, IsNamespace

LEMMA NoSuchSteps ==
  ASSUME NEW s, NEW ops, Acts(s, ops) = {}
  PROVE  Code!Steps(s, ops) = {}
<1> SUFFICES ASSUME NEW i \in Code!Steps(s, ops) PROVE FALSE
  OBVIOUS
<1>1. s[i].obj \in Acts(s, ops)
  BY DEF Acts, Code!Steps
<1> QED
  BY <1>1

LEMMA AnchoredBySets ==
  ASSUME NEW p \in PlanNames, IsScript(InstallScript(p)),
         NEW made, made = Acts(InstallScript(p), {"create"}),
         Acts(InstallScript(p), {"createIfMissing"}) = {},
         \E o \in made : o[1] = Cluster,
         \A o \in made :
           /\ o \notin OwnedByWorkshop
           /\ IsNamespace(o) => \E q \in made : HomeOf(q) = o
  PROVE  Code!Anchored(p)
<1> DEFINE s == InstallScript(p)
<1>1. made \subseteq ApiObjects(PlanNames)
  BY ScriptObjects, ScriptSteps DEF Acts
<1>2. \A i \in Code!Creations(p) : s[i].obj \in made
  BY DEF Code!Creations, Code!Steps, Acts
<1>3. \A o \in made : \E i \in Code!Creations(p) : s[i].obj = o
  BY DEF Code!Creations, Code!Steps, Acts
<1>4. \E i \in Code!Creations(p) : HomeOf(s[i].obj) = Nowhere
  BY <1>3 DEF HomeOf
<1>5. Code!Steps(s, {"createIfMissing"}) = {}
  BY NoSuchSteps
<1>6. \A i \in Code!Creations(p) : IsNamespace(s[i].obj) =>
        \E j \in Code!Creations(p) : HomeOf(s[j].obj) = s[i].obj
  <2> TAKE i \in Code!Creations(p)
  <2> HAVE IsNamespace(s[i].obj)
  <2>1. PICK q \in made : HomeOf(q) = s[i].obj
    BY <1>2
  <2> QED
    BY <1>3, <2>1
<1> QED
  BY <1>1, <1>2, <1>4, <1>5, <1>6, HomesAre DEF Code!Anchored

LEMMA CoveredBySets ==
  ASSUME NEW p \in PlanNames, IsScript(InstallScript(p)), IsScript(TeardownScript(p)),
         Acts(TeardownScript(p), {"look"}) = {},
         \A o \in Acts(InstallScript(p), {"create", "createIfMissing"}) :
           \/ o \in OwnedByWorkshop
           \/ o \in Acts(TeardownScript(p), {"delete"})
           \/ HomeOf(o) \in Acts(TeardownScript(p), {"delete"})
  PROVE  Code!Covered(p)
<1> DEFINE s == InstallScript(p)
           t == TeardownScript(p)
<1>1. Acts(s, {"create", "createIfMissing"}) \subseteq ApiObjects(PlanNames)
  BY ScriptObjects, ScriptSteps DEF Acts
<1>2. Code!Owned(p) = Acts(s, {"create", "createIfMissing"})
  BY DEF Code!Owned, Acts
<1>3. \A q \in Acts(t, {"delete"}) : \E i \in Code!Steps(t, {"delete"}) : t[i].obj = q
  BY DEF Code!Steps, Acts
<1>4. \A i : ~Code!Skipped(p, i)
  BY NoSuchSteps DEF Code!Skipped
<1> SUFFICES ASSUME NEW o \in Code!Owned(p) \ (OwnedByWorkshop \cap ApiObjects(PlanNames))
             PROVE  \E i \in Code!Steps(t, {"delete"}) : t[i].obj \in {o, HomeOf(o)}
  BY <1>1, <1>2, <1>4, HomesAre DEF Code!Covered
<1> QED
  BY <1>1, <1>2, <1>3

Deleting == {"delete", "deleteIfFound"}

(* No step deletes what is in what an earlier one has deleted, or that     *)
(* itself.                                                                 *)
Apart(later, earlier) ==
  earlier # later /\ (later[1] # Cluster => earlier # NS(later[1]))

InOrder(s) ==
  \A i, j \in 1..Len(s) :
    j < i /\ s[i].op \in Deleting /\ s[j].op \in Deleting => Apart(s[i].obj, s[j].obj)

LEMMA ConcatInOrder ==
  ASSUME NEW s, IsScript(s), InOrder(s), NEW t, IsScript(t), InOrder(t),
         \A o \in Acts(t, Deleting) : \A q \in Acts(s, Deleting) : Apart(o, q)
  PROVE  InOrder(s \o t)
<1> SUFFICES ASSUME NEW i \in 1..Len(s \o t), NEW j \in 1..Len(s \o t), j < i,
                    (s \o t)[i].op \in Deleting, (s \o t)[j].op \in Deleting
             PROVE  Apart((s \o t)[i].obj, (s \o t)[j].obj)
  BY DEF InOrder
<1>1. CASE i \in 1..Len(s)
  <2>1. j \in 1..Len(s)
    BY <1>1, ConcatPlaces
  <2> QED
    BY <1>1, <2>1, ConcatPlaces DEF InOrder
<1>2. ASSUME NEW b \in 1..Len(t), i = Len(s) + b
      PROVE  Apart((s \o t)[i].obj, (s \o t)[j].obj)
  <2>1. (s \o t)[i] = t[b]
    BY <1>2, ConcatPlaces
  <2>2. CASE j \in 1..Len(s)
    <3>1. (s \o t)[j] = s[j]
      BY <2>2, ConcatPlaces
    <3>2. s[j].obj \in Acts(s, Deleting) /\ t[b].obj \in Acts(t, Deleting)
      BY <2>1, <2>2, <3>1 DEF Acts
    <3> QED
      BY <2>1, <3>1, <3>2
  <2>3. ASSUME NEW a \in 1..Len(t), j = Len(s) + a
        PROVE  Apart((s \o t)[i].obj, (s \o t)[j].obj)
    <3>1. (s \o t)[j] = t[a] /\ a < b
      BY <1>2, <2>3, ConcatPlaces
    <3> QED
      BY <2>1, <3>1 DEF InOrder
  <2>4. j \in 1..Len(s) \/ \E a \in 1..Len(t) : j = Len(s) + a
    BY ConcatPlaces
  <2> QED
    BY <2>2, <2>3, <2>4
<1>3. i \in 1..Len(s) \/ \E b \in 1..Len(t) : i = Len(s) + b
  BY ConcatPlaces
<1> QED
  BY <1>1, <1>2, <1>3

LEMMA DropsInOrder ==
  ASSUME NEW os, Len(os) \in Nat,
         \A i, j \in 1..Len(os) : j < i => Apart(os[i], os[j])
  PROVE  InOrder(Drops(os))
<1>1. /\ Len(Drops(os)) = Len(os)
      /\ \A i \in 1..Len(os) : Drops(os)[i].obj = os[i]
  BY DEF Drops, Drop, Does
<1> QED
  BY <1>1 DEF InOrder

LEMMA OneInOrder ==
  ASSUME NEW s, Len(s) = 1
  PROVE  InOrder(s)
BY DEF InOrder

LEMMA OrderlyBySets ==
  ASSUME NEW p \in PlanNames, IsScript(TeardownScript(p)),
         Acts(TeardownScript(p), {"look", "require"}) = {},
         InOrder(TeardownScript(p)),
         \A o \in Acts(TeardownScript(p), Deleting) :
           /\ o \in ObjectsOf(InstallScript(p))
           /\ o[1] # Cluster => NS(o[1]) \in ObjectsOf(InstallScript(p))
  PROVE  Code!Orderly(p)
<1> DEFINE t == TeardownScript(p)
<1>1. Acts(t, Deleting) \subseteq ApiObjects(PlanNames)
  BY ScriptObjects, ScriptSteps DEF Acts
<1>2. Code!Needed(p) = ObjectsOf(InstallScript(p))
  BY DEF Code!Needed, ObjectsOf
<1>3. Code!Steps(t, {"look", "require"}) = {}
  BY NoSuchSteps
<1>4. \A i \in Code!Deletions(p) :
        /\ i \in 1..Len(t) /\ t[i].op \in Deleting
        /\ t[i].obj \in Acts(t, Deleting)
        /\ t[i].obj \in ApiObjects(PlanNames)
  BY <1>1 DEF Code!Deletions, Code!Steps, Acts, Deleting
<1>5. ASSUME NEW i \in Code!Deletions(p)
      PROVE  /\ t[i].obj \in Code!Needed(p)
             /\ HomeOf(t[i].obj) \in Code!Needed(p) \cup {Nowhere}
             /\ \A j \in Code!Deletions(p) :
                  j < i => t[j].obj \notin {t[i].obj, HomeOf(t[i].obj)}
  <2>1. t[i].obj \in Code!Needed(p) /\ HomeOf(t[i].obj) \in Code!Needed(p) \cup {Nowhere}
    BY <1>2, <1>4 DEF HomeOf
  <2>2. ASSUME NEW j \in Code!Deletions(p), j < i
        PROVE  t[j].obj \notin {t[i].obj, HomeOf(t[i].obj)}
    <3>1. Apart(t[i].obj, t[j].obj)
      BY <1>4, <2>2 DEF InOrder
    <3>2. t[j].obj # Nowhere
      BY <1>4, NowhereIsNone
    <3> QED
      BY <3>1, <3>2 DEF Apart, HomeOf
  <2> QED
    BY <2>1, <2>2
<1> QED
  BY <1>3, <1>4, <1>5, HomesAre DEF Code!Orderly

-----------------------------------------------------------------------------
(* What scripts do, put together from what their parts do.                 *)

(* The script creates `made`, whatever a cache shows, it deletes nothing   *)
(* and looks at nothing, and it asks for `asked` or gets it.               *)
Installing(s, made, asked) ==
  /\ IsScript(s)
  /\ Acts(s, {"create"}) = made
  /\ Acts(s, {"createIfMissing"}) = {}
  /\ Acts(s, {"look"}) = {}
  /\ asked \subseteq ObjectsOf(s)

(* The script deletes `gone`, whatever a cache shows, and what it finds of *)
(* `found`.                                                                *)
Removing(s, gone, found) ==
  /\ IsScript(s)
  /\ Acts(s, {"delete"}) = gone
  /\ Acts(s, {"deleteIfFound"}) = found

Sightless(s) == Acts(s, {"look"}) = {}

Tidy(s) == Sightless(s) /\ Acts(s, {"require"}) = {} /\ InOrder(s)

LEMMA ActsTogether ==
  ASSUME NEW s
  PROVE  /\ Acts(s, {"create", "createIfMissing"})
              = Acts(s, {"create"}) \cup Acts(s, {"createIfMissing"})
         /\ Acts(s, {"look", "require"}) = Acts(s, {"look"}) \cup Acts(s, {"require"})
         /\ Acts(s, Deleting) = Acts(s, {"delete"}) \cup Acts(s, {"deleteIfFound"})
<1>1. ASSUME NEW a, NEW b
      PROVE  Acts(s, {a, b}) = Acts(s, {a}) \cup Acts(s, {b})
  BY DEF Acts
<1> QED
  BY <1>1 DEF Deleting

LEMMA InstallsInTurn ==
  ASSUME NEW s, NEW made, NEW asked, Installing(s, made, asked),
         NEW t, NEW alsoMade, NEW alsoAsked, Installing(t, alsoMade, alsoAsked)
  PROVE  Installing(s \o t, made \cup alsoMade, asked \cup alsoAsked)
<1>1. IsScript(s) /\ IsScript(t)
  BY DEF Installing
<1> QED
  BY <1>1, ConcatScript DEF Installing

Joined(f, n) == UNION {f[id] : id \in 1..n}

LEMMA InstallsForAll ==
  ASSUME NEW k \in 1..8, NEW n \in Nat, NEW F, NEW made, NEW asked,
         \A id \in 1..n : Installing(F[id], made[id], asked[id]) /\ Len(F[id]) = k
  PROVE  Installing(PerUser(F, k, n), Joined(made, n),
                    Joined(asked, n))
<1>1. \A id \in 1..n : IsScript(F[id]) /\ Len(F[id]) = k
  BY DEF Installing
<1>2. /\ IsScript(PerUser(F, k, n))
      /\ \A o : o \in ObjectsOf(PerUser(F, k, n)) <=> \E id \in 1..n : o \in ObjectsOf(F[id])
      /\ \A ops, o : o \in Acts(PerUser(F, k, n), ops) <=> \E id \in 1..n : o \in Acts(F[id], ops)
  BY <1>1, PerUserScript
<1>3. \A id \in 1..n :
        /\ Acts(F[id], {"create"}) = made[id] /\ Acts(F[id], {"createIfMissing"}) = {}
        /\ Acts(F[id], {"look"}) = {} /\ asked[id] \subseteq ObjectsOf(F[id])
  BY DEF Installing
<1> DEFINE s == PerUser(F, k, n)
<1> HIDE DEF s
<1>4. \A op, o : o \in Acts(s, {op}) <=> \E id \in 1..n : o \in Acts(F[id], {op})
  BY <1>2 DEF s
<1>5. Acts(s, {"create"}) = Joined(made, n)
  <2>1. ASSUME NEW o PROVE o \in Acts(s, {"create"}) <=> \E id \in 1..n : o \in made[id]
    <3>1. o \in Acts(s, {"create"}) <=> \E id \in 1..n : o \in Acts(F[id], {"create"})
      BY <1>4
    <3> QED
      BY <1>3, <3>1
  <2> QED
    BY <2>1 DEF Joined
<1>6. Acts(s, {"createIfMissing"}) = {} /\ Acts(s, {"look"}) = {}
  BY <1>3, <1>4
<1>7. Joined(asked, n) \subseteq ObjectsOf(s)
  BY <1>2, <1>3 DEF s, Joined
<1> QED
  BY <1>2, <1>5, <1>6, <1>7 DEF Installing, s

LEMMA RemovesInTurn ==
  ASSUME NEW s, NEW gone, NEW found, Removing(s, gone, found),
         NEW t, NEW alsoGone, NEW alsoFound, Removing(t, alsoGone, alsoFound)
  PROVE  Removing(s \o t, gone \cup alsoGone, found \cup alsoFound)
<1>1. IsScript(s) /\ IsScript(t)
  BY DEF Removing
<1> QED
  BY <1>1, ConcatScript DEF Removing

LEMMA SightlessInTurn ==
  ASSUME NEW s, IsScript(s), Sightless(s), NEW t, IsScript(t), Sightless(t)
  PROVE  Sightless(s \o t)
BY ConcatScript DEF Sightless

LEMMA TidyInTurn ==
  ASSUME NEW s, NEW gone, NEW found, Removing(s, gone, found), Tidy(s),
         NEW t, NEW alsoGone, NEW alsoFound, Removing(t, alsoGone, alsoFound), Tidy(t),
         \A o \in alsoGone \cup alsoFound : \A q \in gone \cup found : Apart(o, q)
  PROVE  Tidy(s \o t)
<1>1. IsScript(s) /\ IsScript(t)
  BY DEF Removing
<1>2. \A o \in Acts(t, Deleting) : \A q \in Acts(s, Deleting) : Apart(o, q)
  BY ActsTogether DEF Removing
<1>3. InOrder(s \o t)
  BY <1>1, <1>2, ConcatInOrder DEF Tidy
<1> QED
  BY <1>1, <1>3, ConcatScript DEF Tidy, Sightless

LEMMA RemovesForAll ==
  ASSUME NEW k \in 1..8, NEW n \in Nat, NEW F, NEW gone,
         \A id \in 1..n : Removing(F[id], gone[id], {}) /\ Len(F[id]) = k
  PROVE  /\ Removing(PerUser(F, k, n), Joined(gone, n), {})
         /\ (\A id \in 1..n : Sightless(F[id])) => Sightless(PerUser(F, k, n))
<1>1. \A id \in 1..n : IsScript(F[id]) /\ Len(F[id]) = k
  BY DEF Removing
<1>2. /\ IsScript(PerUser(F, k, n))
      /\ \A ops, o : o \in Acts(PerUser(F, k, n), ops) <=> \E id \in 1..n : o \in Acts(F[id], ops)
  BY <1>1, PerUserScript
<1>3. \A id \in 1..n :
        Acts(F[id], {"delete"}) = gone[id] /\ Acts(F[id], {"deleteIfFound"}) = {}
  BY DEF Removing
<1> DEFINE s == PerUser(F, k, n)
<1> HIDE DEF s
<1>4. \A op, o : o \in Acts(s, {op}) <=> \E id \in 1..n : o \in Acts(F[id], {op})
  BY <1>2 DEF s
<1>5. Acts(s, {"delete"}) = Joined(gone, n)
  <2>1. ASSUME NEW o PROVE o \in Acts(s, {"delete"}) <=> \E id \in 1..n : o \in gone[id]
    <3>1. o \in Acts(s, {"delete"}) <=> \E id \in 1..n : o \in Acts(F[id], {"delete"})
      BY <1>4
    <3> QED
      BY <1>3, <3>1
  <2> QED
    BY <2>1 DEF Joined
<1>6. Acts(s, {"deleteIfFound"}) = {}
  BY <1>3, <1>4
<1>7. ASSUME \A id \in 1..n : Sightless(F[id]) PROVE Acts(s, {"look"}) = {}
  BY <1>4, <1>7 DEF Sightless
<1> QED
  BY <1>2, <1>5, <1>6, <1>7 DEF Removing, Sightless, s

(* Single steps.                                                           *)
LEMMA SingleSteps ==
  ASSUME NEW o, NEW more, NEW skip \in Nat
  PROVE  /\ Installing(<<Make(o)>>, {o}, {})
         /\ Installing(<<WaitFor(o, more)>>, {}, {o} \cup more)
         /\ Installing(<<Request(o)>>, {}, {o})
         /\ Installing(<<RelyOn(o)>>, {}, {o})
         /\ Removing(<<Drop(o)>>, {o}, {}) /\ Tidy(<<Drop(o)>>)
         /\ Removing(<<DropIfFound(o)>>, {}, {o}) /\ Tidy(<<DropIfFound(o)>>)
         /\ Removing(<<Need(o)>>, {}, {}) /\ Sightless(<<Need(o)>>)
         /\ Removing(<<LookAt(o, skip)>>, {}, {})
<1>1. ASSUME NEW op \in Ops, NEW what, NEW i \in Nat
      PROVE  /\ IsScript(<<Does(op, o, what, i)>>)
             /\ ObjectsOf(<<Does(op, o, what, i)>>) = {o} \cup what
             /\ \A ops : Acts(<<Does(op, o, what, i)>>, ops) = IF op \in ops THEN {o} ELSE {}
             /\ InOrder(<<Does(op, o, what, i)>>)
  <2>1. /\ IsScript(<<Does(op, o, what, i)>>)
        /\ Len(<<Does(op, o, what, i)>>) = 1
        /\ ObjectsOf(<<Does(op, o, what, i)>>) = {o} \cup what
        /\ \A ops : Acts(<<Does(op, o, what, i)>>, ops) = IF op \in ops THEN {o} ELSE {}
    BY OneStep
  <2> QED
    BY <2>1, OneInOrder
<1>2. Installing(<<Make(o)>>, {o}, {})
  <2>1. "create" \in Ops
    BY DEF Ops
  <2> QED
    BY <1>1, <2>1 DEF Installing, Make
<1>3. Installing(<<WaitFor(o, more)>>, {}, {o} \cup more)
  <2>1. "await" \in Ops
    BY DEF Ops
  <2> QED
    BY <1>1, <2>1 DEF Installing, WaitFor
<1>4. Installing(<<Request(o)>>, {}, {o})
  <2>1. "ask" \in Ops
    BY DEF Ops
  <2> QED
    BY <1>1, <2>1 DEF Installing, Request
<1>5. Installing(<<RelyOn(o)>>, {}, {o})
  <2>1. "insist" \in Ops
    BY DEF Ops
  <2> QED
    BY <1>1, <2>1 DEF Installing, RelyOn
<1>6. Removing(<<Drop(o)>>, {o}, {}) /\ Tidy(<<Drop(o)>>)
  <2>1. "delete" \in Ops
    BY DEF Ops
  <2> QED
    BY <1>1, <2>1 DEF Removing, Tidy, Sightless, Drop
<1>7. Removing(<<DropIfFound(o)>>, {}, {o}) /\ Tidy(<<DropIfFound(o)>>)
  <2>1. "deleteIfFound" \in Ops
    BY DEF Ops
  <2> QED
    BY <1>1, <2>1 DEF Removing, Tidy, Sightless, DropIfFound
<1>8. Removing(<<Need(o)>>, {}, {}) /\ Sightless(<<Need(o)>>)
  <2>1. "require" \in Ops
    BY DEF Ops
  <2> QED
    BY <1>1, <2>1 DEF Removing, Sightless, Need
<1>9. Removing(<<LookAt(o, skip)>>, {}, {})
  <2>1. "look" \in Ops
    BY DEF Ops
  <2> QED
    BY <1>1, <2>1 DEF Removing, LookAt
<1> QED
  BY <1>2, <1>3, <1>4, <1>5, <1>6, <1>7, <1>8, <1>9

LEMMA ListOfMakes ==
  ASSUME NEW os, Len(os) \in Nat
  PROVE  Installing(Makes(os), Among(os), {}) /\ Len(Makes(os)) = Len(os)
BY MakesScript DEF Installing

LEMMA ListOfDrops ==
  ASSUME NEW os, Len(os) \in Nat
  PROVE  /\ Removing(Drops(os), Among(os), {}) /\ Len(Drops(os)) = Len(os)
         /\ Sightless(Drops(os))
         /\ (\A i, j \in 1..Len(os) : j < i => Apart(os[i], os[j])) => Tidy(Drops(os))
BY DropsScript, DropsInOrder DEF Removing, Tidy, Sightless
-----------------------------------------------------------------------------
(* Lists.                                                                  *)
LEMMA Lists ==
  /\ \A a, b :
       Len(<<a, b>>) = 2 /\ Among(<<a, b>>) = {a, b}
  /\ \A a, b, c :
       Len(<<a, b, c>>) = 3 /\ Among(<<a, b, c>>) = {a, b, c}
  /\ \A a, b, c, d :
       Len(<<a, b, c, d>>) = 4 /\ Among(<<a, b, c, d>>) = {a, b, c, d}
  /\ \A a, b, c, d, e :
       Len(<<a, b, c, d, e>>) = 5 /\ Among(<<a, b, c, d, e>>) = {a, b, c, d, e}
  /\ \A a, b, c, d, e, f :
       Len(<<a, b, c, d, e, f>>) = 6 /\ Among(<<a, b, c, d, e, f>>) = {a, b, c, d, e, f}
  /\ \A a, b, c, d, e, f, g :
       Len(<<a, b, c, d, e, f, g>>) = 7 /\ Among(<<a, b, c, d, e, f, g>>) = {a, b, c, d, e, f, g}
  /\ \A a, b, c, d, e, f, g, h :
       Len(<<a, b, c, d, e, f, g, h>>) = 8
         /\ Among(<<a, b, c, d, e, f, g, h>>) = {a, b, c, d, e, f, g, h}
<1>2. ASSUME NEW a, NEW b
      PROVE  Len(<<a, b>>) = 2 /\ Among(<<a, b>>) = {a, b}
  BY DEF Among
<1>3. ASSUME NEW a, NEW b, NEW c
      PROVE  Len(<<a, b, c>>) = 3 /\ Among(<<a, b, c>>) = {a, b, c}
  BY DEF Among
<1>4. ASSUME NEW a, NEW b, NEW c, NEW d
      PROVE  Len(<<a, b, c, d>>) = 4 /\ Among(<<a, b, c, d>>) = {a, b, c, d}
  BY DEF Among
<1>5. ASSUME NEW a, NEW b, NEW c, NEW d, NEW e
      PROVE  Len(<<a, b, c, d, e>>) = 5 /\ Among(<<a, b, c, d, e>>) = {a, b, c, d, e}
  BY DEF Among
<1>6. ASSUME NEW a, NEW b, NEW c, NEW d, NEW e, NEW f
      PROVE  Len(<<a, b, c, d, e, f>>) = 6 /\ Among(<<a, b, c, d, e, f>>) = {a, b, c, d, e, f}
  BY DEF Among
<1>7. ASSUME NEW a, NEW b, NEW c, NEW d, NEW e, NEW f, NEW g
      PROVE  Len(<<a, b, c, d, e, f, g>>) = 7
             /\ Among(<<a, b, c, d, e, f, g>>) = {a, b, c, d, e, f, g}
  BY DEF Among
<1>8. ASSUME NEW a, NEW b, NEW c, NEW d, NEW e, NEW f, NEW g, NEW h
      PROVE  Len(<<a, b, c, d, e, f, g, h>>) = 8
             /\ Among(<<a, b, c, d, e, f, g, h>>) = {a, b, c, d, e, f, g, h}
  BY DEF Among
<1> QED
  BY <1>2, <1>3, <1>4, <1>5, <1>6, <1>7, <1>8

LEMMA MadeLists ==
  /\ \A a, b :
       /\ Installing(Makes(<<a, b>>), {a, b}, {})
       /\ Len(Makes(<<a, b>>)) = 2
  /\ \A a, b, c :
       /\ Installing(Makes(<<a, b, c>>), {a, b, c}, {})
       /\ Len(Makes(<<a, b, c>>)) = 3
  /\ \A a, b, c, d :
       /\ Installing(Makes(<<a, b, c, d>>), {a, b, c, d}, {})
       /\ Len(Makes(<<a, b, c, d>>)) = 4
  /\ \A a, b, c, d, e :
       /\ Installing(Makes(<<a, b, c, d, e>>), {a, b, c, d, e}, {})
       /\ Len(Makes(<<a, b, c, d, e>>)) = 5
  /\ \A a, b, c, d, e, f :
       /\ Installing(Makes(<<a, b, c, d, e, f>>), {a, b, c, d, e, f}, {})
       /\ Len(Makes(<<a, b, c, d, e, f>>)) = 6
  /\ \A a, b, c, d, e, f, g :
       /\ Installing(Makes(<<a, b, c, d, e, f, g>>), {a, b, c, d, e, f, g}, {})
       /\ Len(Makes(<<a, b, c, d, e, f, g>>)) = 7
  /\ \A a, b, c, d, e, f, g, h :
       /\ Installing(Makes(<<a, b, c, d, e, f, g, h>>), {a, b, c, d, e, f, g, h}, {})
       /\ Len(Makes(<<a, b, c, d, e, f, g, h>>)) = 8
<1>2. ASSUME NEW a, NEW b
      PROVE  /\ Installing(Makes(<<a, b>>), {a, b}, {})
             /\ Len(Makes(<<a, b>>)) = 2
  <2>1. Len(<<a, b>>) = 2 /\ Among(<<a, b>>) = {a, b}
    BY Lists
  <2> QED
    BY <2>1, ListOfMakes
<1>3. ASSUME NEW a, NEW b, NEW c
      PROVE  /\ Installing(Makes(<<a, b, c>>), {a, b, c}, {})
             /\ Len(Makes(<<a, b, c>>)) = 3
  <2>1. Len(<<a, b, c>>) = 3 /\ Among(<<a, b, c>>) = {a, b, c}
    BY Lists
  <2> QED
    BY <2>1, ListOfMakes
<1>4. ASSUME NEW a, NEW b, NEW c, NEW d
      PROVE  /\ Installing(Makes(<<a, b, c, d>>), {a, b, c, d}, {})
             /\ Len(Makes(<<a, b, c, d>>)) = 4
  <2>1. Len(<<a, b, c, d>>) = 4 /\ Among(<<a, b, c, d>>) = {a, b, c, d}
    BY Lists
  <2> QED
    BY <2>1, ListOfMakes
<1>5. ASSUME NEW a, NEW b, NEW c, NEW d, NEW e
      PROVE  /\ Installing(Makes(<<a, b, c, d, e>>), {a, b, c, d, e}, {})
             /\ Len(Makes(<<a, b, c, d, e>>)) = 5
  <2>1. Len(<<a, b, c, d, e>>) = 5 /\ Among(<<a, b, c, d, e>>) = {a, b, c, d, e}
    BY Lists
  <2> QED
    BY <2>1, ListOfMakes
<1>6. ASSUME NEW a, NEW b, NEW c, NEW d, NEW e, NEW f
      PROVE  /\ Installing(Makes(<<a, b, c, d, e, f>>), {a, b, c, d, e, f}, {})
             /\ Len(Makes(<<a, b, c, d, e, f>>)) = 6
  <2>1. Len(<<a, b, c, d, e, f>>) = 6 /\ Among(<<a, b, c, d, e, f>>) = {a, b, c, d, e, f}
    BY Lists
  <2> QED
    BY <2>1, ListOfMakes
<1>7. ASSUME NEW a, NEW b, NEW c, NEW d, NEW e, NEW f, NEW g
      PROVE  /\ Installing(Makes(<<a, b, c, d, e, f, g>>), {a, b, c, d, e, f, g}, {})
             /\ Len(Makes(<<a, b, c, d, e, f, g>>)) = 7
  <2>1. Len(<<a, b, c, d, e, f, g>>) = 7 /\ Among(<<a, b, c, d, e, f, g>>) = {a, b, c, d, e, f, g}
    BY Lists
  <2> QED
    BY <2>1, ListOfMakes
<1>8. ASSUME NEW a, NEW b, NEW c, NEW d, NEW e, NEW f, NEW g, NEW h
      PROVE  /\ Installing(Makes(<<a, b, c, d, e, f, g, h>>), {a, b, c, d, e, f, g, h}, {})
             /\ Len(Makes(<<a, b, c, d, e, f, g, h>>)) = 8
  <2>1. Len(<<a, b, c, d, e, f, g, h>>) = 8
        /\ Among(<<a, b, c, d, e, f, g, h>>) = {a, b, c, d, e, f, g, h}
    BY Lists
  <2> QED
    BY <2>1, ListOfMakes
<1> QED
  BY <1>2, <1>3, <1>4, <1>5, <1>6, <1>7, <1>8

LEMMA DroppedLists ==
  /\ \A a, b :
       /\ Removing(Drops(<<a, b>>), {a, b}, {})
       /\ Sightless(Drops(<<a, b>>)) /\ Len(Drops(<<a, b>>)) = 2
  /\ \A a, b, c :
       /\ Removing(Drops(<<a, b, c>>), {a, b, c}, {})
       /\ Sightless(Drops(<<a, b, c>>)) /\ Len(Drops(<<a, b, c>>)) = 3
  /\ \A a, b, c, d :
       /\ Removing(Drops(<<a, b, c, d>>), {a, b, c, d}, {})
       /\ Sightless(Drops(<<a, b, c, d>>)) /\ Len(Drops(<<a, b, c, d>>)) = 4
  /\ \A a, b, c, d, e :
       /\ Removing(Drops(<<a, b, c, d, e>>), {a, b, c, d, e}, {})
       /\ Sightless(Drops(<<a, b, c, d, e>>)) /\ Len(Drops(<<a, b, c, d, e>>)) = 5
  /\ \A a, b, c, d, e, f :
       /\ Removing(Drops(<<a, b, c, d, e, f>>), {a, b, c, d, e, f}, {})
       /\ Sightless(Drops(<<a, b, c, d, e, f>>)) /\ Len(Drops(<<a, b, c, d, e, f>>)) = 6
  /\ \A a, b, c, d, e, f, g :
       /\ Removing(Drops(<<a, b, c, d, e, f, g>>), {a, b, c, d, e, f, g}, {})
       /\ Sightless(Drops(<<a, b, c, d, e, f, g>>)) /\ Len(Drops(<<a, b, c, d, e, f, g>>)) = 7
  /\ \A a, b, c, d, e, f, g, h :
       /\ Removing(Drops(<<a, b, c, d, e, f, g, h>>), {a, b, c, d, e, f, g, h}, {})
       /\ Sightless(Drops(<<a, b, c, d, e, f, g, h>>))
            /\ Len(Drops(<<a, b, c, d, e, f, g, h>>)) = 8
<1>2. ASSUME NEW a, NEW b
      PROVE  /\ Removing(Drops(<<a, b>>), {a, b}, {})
             /\ Sightless(Drops(<<a, b>>)) /\ Len(Drops(<<a, b>>)) = 2
  <2>1. Len(<<a, b>>) = 2 /\ Among(<<a, b>>) = {a, b}
    BY Lists
  <2> QED
    BY <2>1, ListOfDrops
<1>3. ASSUME NEW a, NEW b, NEW c
      PROVE  /\ Removing(Drops(<<a, b, c>>), {a, b, c}, {})
             /\ Sightless(Drops(<<a, b, c>>)) /\ Len(Drops(<<a, b, c>>)) = 3
  <2>1. Len(<<a, b, c>>) = 3 /\ Among(<<a, b, c>>) = {a, b, c}
    BY Lists
  <2> QED
    BY <2>1, ListOfDrops
<1>4. ASSUME NEW a, NEW b, NEW c, NEW d
      PROVE  /\ Removing(Drops(<<a, b, c, d>>), {a, b, c, d}, {})
             /\ Sightless(Drops(<<a, b, c, d>>)) /\ Len(Drops(<<a, b, c, d>>)) = 4
  <2>1. Len(<<a, b, c, d>>) = 4 /\ Among(<<a, b, c, d>>) = {a, b, c, d}
    BY Lists
  <2> QED
    BY <2>1, ListOfDrops
<1>5. ASSUME NEW a, NEW b, NEW c, NEW d, NEW e
      PROVE  /\ Removing(Drops(<<a, b, c, d, e>>), {a, b, c, d, e}, {})
             /\ Sightless(Drops(<<a, b, c, d, e>>)) /\ Len(Drops(<<a, b, c, d, e>>)) = 5
  <2>1. Len(<<a, b, c, d, e>>) = 5 /\ Among(<<a, b, c, d, e>>) = {a, b, c, d, e}
    BY Lists
  <2> QED
    BY <2>1, ListOfDrops
<1>6. ASSUME NEW a, NEW b, NEW c, NEW d, NEW e, NEW f
      PROVE  /\ Removing(Drops(<<a, b, c, d, e, f>>), {a, b, c, d, e, f}, {})
             /\ Sightless(Drops(<<a, b, c, d, e, f>>)) /\ Len(Drops(<<a, b, c, d, e, f>>)) = 6
  <2>1. Len(<<a, b, c, d, e, f>>) = 6 /\ Among(<<a, b, c, d, e, f>>) = {a, b, c, d, e, f}
    BY Lists
  <2> QED
    BY <2>1, ListOfDrops
<1>7. ASSUME NEW a, NEW b, NEW c, NEW d, NEW e, NEW f, NEW g
      PROVE  /\ Removing(Drops(<<a, b, c, d, e, f, g>>), {a, b, c, d, e, f, g}, {})
             /\ Sightless(Drops(<<a, b, c, d, e, f, g>>))
                  /\ Len(Drops(<<a, b, c, d, e, f, g>>)) = 7
  <2>1. Len(<<a, b, c, d, e, f, g>>) = 7 /\ Among(<<a, b, c, d, e, f, g>>) = {a, b, c, d, e, f, g}
    BY Lists
  <2> QED
    BY <2>1, ListOfDrops
<1>8. ASSUME NEW a, NEW b, NEW c, NEW d, NEW e, NEW f, NEW g, NEW h
      PROVE  /\ Removing(Drops(<<a, b, c, d, e, f, g, h>>), {a, b, c, d, e, f, g, h}, {})
             /\ Sightless(Drops(<<a, b, c, d, e, f, g, h>>))
                  /\ Len(Drops(<<a, b, c, d, e, f, g, h>>)) = 8
  <2>1. Len(<<a, b, c, d, e, f, g, h>>) = 8
        /\ Among(<<a, b, c, d, e, f, g, h>>) = {a, b, c, d, e, f, g, h}
    BY Lists
  <2> QED
    BY <2>1, ListOfDrops
<1> QED
  BY <1>2, <1>3, <1>4, <1>5, <1>6, <1>7, <1>8

LEMMA TidyLists ==
  /\ \A a, b :
       /\ Apart(b, a)
       => Tidy(Drops(<<a, b>>))
  /\ \A a, b, c :
       /\ Apart(b, a)
       /\ Apart(c, a) /\ Apart(c, b)
       => Tidy(Drops(<<a, b, c>>))
  /\ \A a, b, c, d :
       /\ Apart(b, a)
       /\ Apart(c, a) /\ Apart(c, b)
       /\ Apart(d, a) /\ Apart(d, b) /\ Apart(d, c)
       => Tidy(Drops(<<a, b, c, d>>))
  /\ \A a, b, c, d, e, f, g :
       /\ Apart(b, a)
       /\ Apart(c, a) /\ Apart(c, b)
       /\ Apart(d, a) /\ Apart(d, b) /\ Apart(d, c)
       /\ Apart(e, a) /\ Apart(e, b) /\ Apart(e, c) /\ Apart(e, d)
       /\ Apart(f, a) /\ Apart(f, b) /\ Apart(f, c) /\ Apart(f, d) /\ Apart(f, e)
       /\ Apart(g, a) /\ Apart(g, b) /\ Apart(g, c) /\ Apart(g, d) /\ Apart(g, e) /\ Apart(g, f)
       => Tidy(Drops(<<a, b, c, d, e, f, g>>))
<1>2. ASSUME NEW a, NEW b,
             /\ Apart(b, a)
      PROVE  Tidy(Drops(<<a, b>>))
  <2> DEFINE os == <<a, b>>
  <2>1. Len(os) = 2
    OBVIOUS
  <2>2. os[1] = a /\ os[2] = b
    OBVIOUS
  <2> HIDE DEF os
  <2>3. \A i, j \in 1..Len(os) : j < i => Apart(os[i], os[j])
    BY <1>2, <2>1, <2>2
  <2>4. Tidy(Drops(os))
    BY <2>1, <2>3, ListOfDrops
  <2> QED
    BY <2>4 DEF os
<1>3. ASSUME NEW a, NEW b, NEW c,
             /\ Apart(b, a)
             /\ Apart(c, a) /\ Apart(c, b)
      PROVE  Tidy(Drops(<<a, b, c>>))
  <2> DEFINE os == <<a, b, c>>
  <2>1. Len(os) = 3
    OBVIOUS
  <2>2. os[1] = a /\ os[2] = b /\ os[3] = c
    OBVIOUS
  <2> HIDE DEF os
  <2>3. \A i, j \in 1..Len(os) : j < i => Apart(os[i], os[j])
    BY <1>3, <2>1, <2>2
  <2>4. Tidy(Drops(os))
    BY <2>1, <2>3, ListOfDrops
  <2> QED
    BY <2>4 DEF os
<1>4. ASSUME NEW a, NEW b, NEW c, NEW d,
             /\ Apart(b, a)
             /\ Apart(c, a) /\ Apart(c, b)
             /\ Apart(d, a) /\ Apart(d, b) /\ Apart(d, c)
      PROVE  Tidy(Drops(<<a, b, c, d>>))
  <2> DEFINE os == <<a, b, c, d>>
  <2>1. Len(os) = 4
    OBVIOUS
  <2>2. os[1] = a /\ os[2] = b /\ os[3] = c /\ os[4] = d
    OBVIOUS
  <2> HIDE DEF os
  <2>3. \A i, j \in 1..Len(os) : j < i => Apart(os[i], os[j])
    BY <1>4, <2>1, <2>2
  <2>4. Tidy(Drops(os))
    BY <2>1, <2>3, ListOfDrops
  <2> QED
    BY <2>4 DEF os
<1>7. ASSUME NEW a, NEW b, NEW c, NEW d, NEW e, NEW f, NEW g,
             /\ Apart(b, a)
             /\ Apart(c, a) /\ Apart(c, b)
             /\ Apart(d, a) /\ Apart(d, b) /\ Apart(d, c)
             /\ Apart(e, a) /\ Apart(e, b) /\ Apart(e, c) /\ Apart(e, d)
             /\ Apart(f, a) /\ Apart(f, b) /\ Apart(f, c) /\ Apart(f, d) /\ Apart(f, e)
             /\ Apart(g, a) /\ Apart(g, b) /\ Apart(g, c) /\ Apart(g, d) /\ Apart(g, e)
                  /\ Apart(g, f)
      PROVE  Tidy(Drops(<<a, b, c, d, e, f, g>>))
  <2> DEFINE os == <<a, b, c, d, e, f, g>>
  <2>1. Len(os) = 7
    OBVIOUS
  <2>2. os[1] = a /\ os[2] = b /\ os[3] = c /\ os[4] = d /\ os[5] = e /\ os[6] = f /\ os[7] = g
    OBVIOUS
  <2> HIDE DEF os
  <2>3. \A i, j \in 1..Len(os) : j < i => Apart(os[i], os[j])
    BY <1>7, <2>1, <2>2
  <2>4. Tidy(Drops(os))
    BY <2>1, <2>3, ListOfDrops
  <2> QED
    BY <2>4 DEF os
<1> QED
  BY <1>2, <1>3, <1>4, <1>7
-----------------------------------------------------------------------------
(* Steps in a row.                                                         *)
LEMMA RowsGrow ==
  /\ \A a, b : <<a>> \o <<b>> = <<a, b>>
  /\ \A a, b, c : <<a, b>> \o <<c>> = <<a, b, c>>
  /\ \A a, b, c, d : <<a, b, c>> \o <<d>> = <<a, b, c, d>>
  /\ \A a, b, c, d, e : <<a, b, c, d>> \o <<e>> = <<a, b, c, d, e>>
  /\ \A a, b, c, d, e, f : <<a, b, c, d, e>> \o <<f>> = <<a, b, c, d, e, f>>
  /\ \A a, b, c, d, e, f, g : <<a, b, c, d, e, f>> \o <<g>> = <<a, b, c, d, e, f, g>>
<1>2. ASSUME NEW a, NEW b
      PROVE  <<a>> \o <<b>> = <<a, b>>
  <2> DEFINE S == {a, b}
  <2>1. <<a>> \in Seq(S) /\ <<b>> \in Seq(S) /\ <<a, b>> \in Seq(S)
    OBVIOUS
  <2>2. Len(<<a>> \o <<b>>) = 2 /\ Len(<<a, b>>) = 2
    OBVIOUS
  <2>3. \A i \in 1..2 : (<<a>> \o <<b>>)[i] = <<a, b>>[i]
    OBVIOUS
  <2>4. <<a>> \o <<b>> \in Seq(S)
    BY <2>1
  <2> QED
    BY <2>1, <2>2, <2>3, <2>4, SeqEqual
<1>3. ASSUME NEW a, NEW b, NEW c
      PROVE  <<a, b>> \o <<c>> = <<a, b, c>>
  <2> DEFINE S == {a, b, c}
  <2>1. <<a, b>> \in Seq(S) /\ <<c>> \in Seq(S) /\ <<a, b, c>> \in Seq(S)
    OBVIOUS
  <2>2. Len(<<a, b>> \o <<c>>) = 3 /\ Len(<<a, b, c>>) = 3
    OBVIOUS
  <2>3. \A i \in 1..3 : (<<a, b>> \o <<c>>)[i] = <<a, b, c>>[i]
    OBVIOUS
  <2>4. <<a, b>> \o <<c>> \in Seq(S)
    BY <2>1
  <2> QED
    BY <2>1, <2>2, <2>3, <2>4, SeqEqual
<1>4. ASSUME NEW a, NEW b, NEW c, NEW d
      PROVE  <<a, b, c>> \o <<d>> = <<a, b, c, d>>
  <2> DEFINE S == {a, b, c, d}
  <2>1. <<a, b, c>> \in Seq(S) /\ <<d>> \in Seq(S) /\ <<a, b, c, d>> \in Seq(S)
    OBVIOUS
  <2>2. Len(<<a, b, c>> \o <<d>>) = 4 /\ Len(<<a, b, c, d>>) = 4
    OBVIOUS
  <2>3. \A i \in 1..4 : (<<a, b, c>> \o <<d>>)[i] = <<a, b, c, d>>[i]
    OBVIOUS
  <2>4. <<a, b, c>> \o <<d>> \in Seq(S)
    BY <2>1
  <2> QED
    BY <2>1, <2>2, <2>3, <2>4, SeqEqual
<1>5. ASSUME NEW a, NEW b, NEW c, NEW d, NEW e
      PROVE  <<a, b, c, d>> \o <<e>> = <<a, b, c, d, e>>
  <2> DEFINE S == {a, b, c, d, e}
  <2>1. <<a, b, c, d>> \in Seq(S) /\ <<e>> \in Seq(S) /\ <<a, b, c, d, e>> \in Seq(S)
    OBVIOUS
  <2>2. Len(<<a, b, c, d>> \o <<e>>) = 5 /\ Len(<<a, b, c, d, e>>) = 5
    OBVIOUS
  <2>3. \A i \in 1..5 : (<<a, b, c, d>> \o <<e>>)[i] = <<a, b, c, d, e>>[i]
    OBVIOUS
  <2>4. <<a, b, c, d>> \o <<e>> \in Seq(S)
    BY <2>1
  <2> QED
    BY <2>1, <2>2, <2>3, <2>4, SeqEqual
<1>6. ASSUME NEW a, NEW b, NEW c, NEW d, NEW e, NEW f
      PROVE  <<a, b, c, d, e>> \o <<f>> = <<a, b, c, d, e, f>>
  <2> DEFINE S == {a, b, c, d, e, f}
  <2>1. <<a, b, c, d, e>> \in Seq(S) /\ <<f>> \in Seq(S) /\ <<a, b, c, d, e, f>> \in Seq(S)
    OBVIOUS
  <2>2. Len(<<a, b, c, d, e>> \o <<f>>) = 6 /\ Len(<<a, b, c, d, e, f>>) = 6
    OBVIOUS
  <2>3. \A i \in 1..6 : (<<a, b, c, d, e>> \o <<f>>)[i] = <<a, b, c, d, e, f>>[i]
    OBVIOUS
  <2>4. <<a, b, c, d, e>> \o <<f>> \in Seq(S)
    BY <2>1
  <2> QED
    BY <2>1, <2>2, <2>3, <2>4, SeqEqual
<1>7. ASSUME NEW a, NEW b, NEW c, NEW d, NEW e, NEW f, NEW g
      PROVE  <<a, b, c, d, e, f>> \o <<g>> = <<a, b, c, d, e, f, g>>
  <2> DEFINE S == {a, b, c, d, e, f, g}
  <2>1. <<a, b, c, d, e, f>> \in Seq(S) /\ <<g>> \in Seq(S) /\ <<a, b, c, d, e, f, g>> \in Seq(S)
    OBVIOUS
  <2>2. Len(<<a, b, c, d, e, f>> \o <<g>>) = 7 /\ Len(<<a, b, c, d, e, f, g>>) = 7
    OBVIOUS
  <2>3. \A i \in 1..7 : (<<a, b, c, d, e, f>> \o <<g>>)[i] = <<a, b, c, d, e, f, g>>[i]
    OBVIOUS
  <2>4. <<a, b, c, d, e, f>> \o <<g>> \in Seq(S)
    BY <2>1
  <2> QED
    BY <2>1, <2>2, <2>3, <2>4, SeqEqual
<1> QED
  BY <1>2, <1>3, <1>4, <1>5, <1>6, <1>7

LEMMA InstallsRow2 ==
  ASSUME NEW s1, NEW m1, NEW q1, Installing(<<s1>>, m1, q1),
         NEW s2, NEW m2, NEW q2, Installing(<<s2>>, m2, q2)
  PROVE  Installing(<<s1, s2>>,
                    m1 \cup m2, q1 \cup q2)
<1>2. Installing(<<s1, s2>>,
                m1 \cup m2, q1 \cup q2)
  <2>1. Installing(<<s1>> \o <<s2>>,
                   m1 \cup m2, q1 \cup q2)
    BY InstallsInTurn
  <2>2. <<s1>> \o <<s2>> = <<s1, s2>>
    BY RowsGrow
  <2> QED
    BY <2>1, <2>2
<1> QED
  BY <1>2

LEMMA InstallsRow3 ==
  ASSUME NEW s1, NEW m1, NEW q1, Installing(<<s1>>, m1, q1),
         NEW s2, NEW m2, NEW q2, Installing(<<s2>>, m2, q2),
         NEW s3, NEW m3, NEW q3, Installing(<<s3>>, m3, q3)
  PROVE  Installing(<<s1, s2, s3>>,
                    m1 \cup m2 \cup m3, q1 \cup q2 \cup q3)
<1>2. Installing(<<s1, s2>>,
                m1 \cup m2, q1 \cup q2)
  <2>1. Installing(<<s1>> \o <<s2>>,
                   m1 \cup m2, q1 \cup q2)
    BY InstallsInTurn
  <2>2. <<s1>> \o <<s2>> = <<s1, s2>>
    BY RowsGrow
  <2> QED
    BY <2>1, <2>2
<1>3. Installing(<<s1, s2, s3>>,
                m1 \cup m2 \cup m3, q1 \cup q2 \cup q3)
  <2>1. Installing(<<s1, s2>> \o <<s3>>,
                   m1 \cup m2 \cup m3, q1 \cup q2 \cup q3)
    BY <1>2, InstallsInTurn
  <2>2. <<s1, s2>> \o <<s3>> = <<s1, s2, s3>>
    BY RowsGrow
  <2> QED
    BY <2>1, <2>2
<1> QED
  BY <1>3

LEMMA InstallsRow4 ==
  ASSUME NEW s1, NEW m1, NEW q1, Installing(<<s1>>, m1, q1),
         NEW s2, NEW m2, NEW q2, Installing(<<s2>>, m2, q2),
         NEW s3, NEW m3, NEW q3, Installing(<<s3>>, m3, q3),
         NEW s4, NEW m4, NEW q4, Installing(<<s4>>, m4, q4)
  PROVE  Installing(<<s1, s2, s3, s4>>,
                    m1 \cup m2 \cup m3 \cup m4, q1 \cup q2 \cup q3 \cup q4)
<1>2. Installing(<<s1, s2>>,
                m1 \cup m2, q1 \cup q2)
  <2>1. Installing(<<s1>> \o <<s2>>,
                   m1 \cup m2, q1 \cup q2)
    BY InstallsInTurn
  <2>2. <<s1>> \o <<s2>> = <<s1, s2>>
    BY RowsGrow
  <2> QED
    BY <2>1, <2>2
<1>3. Installing(<<s1, s2, s3>>,
                m1 \cup m2 \cup m3, q1 \cup q2 \cup q3)
  <2>1. Installing(<<s1, s2>> \o <<s3>>,
                   m1 \cup m2 \cup m3, q1 \cup q2 \cup q3)
    BY <1>2, InstallsInTurn
  <2>2. <<s1, s2>> \o <<s3>> = <<s1, s2, s3>>
    BY RowsGrow
  <2> QED
    BY <2>1, <2>2
<1>4. Installing(<<s1, s2, s3, s4>>,
                m1 \cup m2 \cup m3 \cup m4, q1 \cup q2 \cup q3 \cup q4)
  <2>1. Installing(<<s1, s2, s3>> \o <<s4>>,
                   m1 \cup m2 \cup m3 \cup m4, q1 \cup q2 \cup q3 \cup q4)
    BY <1>3, InstallsInTurn
  <2>2. <<s1, s2, s3>> \o <<s4>> = <<s1, s2, s3, s4>>
    BY RowsGrow
  <2> QED
    BY <2>1, <2>2
<1> QED
  BY <1>4

LEMMA InstallsRow7 ==
  ASSUME NEW s1, NEW m1, NEW q1, Installing(<<s1>>, m1, q1),
         NEW s2, NEW m2, NEW q2, Installing(<<s2>>, m2, q2),
         NEW s3, NEW m3, NEW q3, Installing(<<s3>>, m3, q3),
         NEW s4, NEW m4, NEW q4, Installing(<<s4>>, m4, q4),
         NEW s5, NEW m5, NEW q5, Installing(<<s5>>, m5, q5),
         NEW s6, NEW m6, NEW q6, Installing(<<s6>>, m6, q6),
         NEW s7, NEW m7, NEW q7, Installing(<<s7>>, m7, q7)
  PROVE  Installing(<<s1, s2, s3, s4, s5, s6, s7>>,
                    m1 \cup m2 \cup m3 \cup m4 \cup m5 \cup m6 \cup m7, q1 \cup q2 \cup q3
                        \cup q4 \cup q5 \cup q6 \cup q7)
<1>2. Installing(<<s1, s2>>,
                m1 \cup m2, q1 \cup q2)
  <2>1. Installing(<<s1>> \o <<s2>>,
                   m1 \cup m2, q1 \cup q2)
    BY InstallsInTurn
  <2>2. <<s1>> \o <<s2>> = <<s1, s2>>
    BY RowsGrow
  <2> QED
    BY <2>1, <2>2
<1>3. Installing(<<s1, s2, s3>>,
                m1 \cup m2 \cup m3, q1 \cup q2 \cup q3)
  <2>1. Installing(<<s1, s2>> \o <<s3>>,
                   m1 \cup m2 \cup m3, q1 \cup q2 \cup q3)
    BY <1>2, InstallsInTurn
  <2>2. <<s1, s2>> \o <<s3>> = <<s1, s2, s3>>
    BY RowsGrow
  <2> QED
    BY <2>1, <2>2
<1>4. Installing(<<s1, s2, s3, s4>>,
                m1 \cup m2 \cup m3 \cup m4, q1 \cup q2 \cup q3 \cup q4)
  <2>1. Installing(<<s1, s2, s3>> \o <<s4>>,
                   m1 \cup m2 \cup m3 \cup m4, q1 \cup q2 \cup q3 \cup q4)
    BY <1>3, InstallsInTurn
  <2>2. <<s1, s2, s3>> \o <<s4>> = <<s1, s2, s3, s4>>
    BY RowsGrow
  <2> QED
    BY <2>1, <2>2
<1>5. Installing(<<s1, s2, s3, s4, s5>>,
                m1 \cup m2 \cup m3 \cup m4 \cup m5, q1 \cup q2 \cup q3 \cup q4 \cup q5)
  <2>1. Installing(<<s1, s2, s3, s4>> \o <<s5>>,
                   m1 \cup m2 \cup m3 \cup m4 \cup m5, q1 \cup q2 \cup q3 \cup q4 \cup q5)
    BY <1>4, InstallsInTurn
  <2>2. <<s1, s2, s3, s4>> \o <<s5>> = <<s1, s2, s3, s4, s5>>
    BY RowsGrow
  <2> QED
    BY <2>1, <2>2
<1>6. Installing(<<s1, s2, s3, s4, s5, s6>>,
                m1 \cup m2 \cup m3 \cup m4 \cup m5 \cup m6, q1 \cup q2 \cup q3 \cup q4
                    \cup q5 \cup q6)
  <2>1. Installing(<<s1, s2, s3, s4, s5>> \o <<s6>>,
                   m1 \cup m2 \cup m3 \cup m4 \cup m5 \cup m6, q1 \cup q2 \cup q3 \cup q4
                       \cup q5 \cup q6)
    BY <1>5, InstallsInTurn
  <2>2. <<s1, s2, s3, s4, s5>> \o <<s6>> = <<s1, s2, s3, s4, s5, s6>>
    BY RowsGrow
  <2> QED
    BY <2>1, <2>2
<1>7. Installing(<<s1, s2, s3, s4, s5, s6, s7>>,
                m1 \cup m2 \cup m3 \cup m4 \cup m5 \cup m6 \cup m7, q1 \cup q2 \cup q3
                    \cup q4 \cup q5 \cup q6 \cup q7)
  <2>1. Installing(<<s1, s2, s3, s4, s5, s6>> \o <<s7>>,
                   m1 \cup m2 \cup m3 \cup m4 \cup m5 \cup m6 \cup m7, q1 \cup q2 \cup q3
                       \cup q4 \cup q5 \cup q6 \cup q7)
    BY <1>6, InstallsInTurn
  <2>2. <<s1, s2, s3, s4, s5, s6>> \o <<s7>> = <<s1, s2, s3, s4, s5, s6, s7>>
    BY RowsGrow
  <2> QED
    BY <2>1, <2>2
<1> QED
  BY <1>7

LEMMA NeedsRow2 ==
  ASSUME NEW o1, NEW o2
  PROVE  Removing(<<Need(o1), Need(o2)>>, {}, {}) /\ Sightless(<<Need(o1), Need(o2)>>)
<1>1. \A o : IsScript(<<Need(o)>>) /\ Removing(<<Need(o)>>, {}, {}) /\ Sightless(<<Need(o)>>)
  BY SingleSteps DEF Removing
<1>2. Removing(<<Need(o1), Need(o2)>>, {}, {}) /\ Sightless(<<Need(o1), Need(o2)>>)
  <2>1. Removing(<<Need(o1)>> \o <<Need(o2)>>, {} \cup {}, {} \cup {})
    BY <1>1, RemovesInTurn
  <2>2. IsScript(<<Need(o1)>>) /\ Sightless(<<Need(o1)>>)
    BY <1>1 DEF Removing
  <2>3. Sightless(<<Need(o1)>> \o <<Need(o2)>>)
    BY <1>1, <2>2, SightlessInTurn
  <2>4. <<Need(o1)>> \o <<Need(o2)>> = <<Need(o1), Need(o2)>>
    BY RowsGrow
  <2> QED
    BY <2>1, <2>3, <2>4
<1> QED
  BY <1>2

LEMMA NeedsRow4 ==
  ASSUME NEW o1, NEW o2, NEW o3, NEW o4
  PROVE  Removing(<<Need(o1), Need(o2), Need(o3), Need(o4)>>, {}, {})
         /\ Sightless(<<Need(o1), Need(o2), Need(o3), Need(o4)>>)
<1>1. \A o : IsScript(<<Need(o)>>) /\ Removing(<<Need(o)>>, {}, {}) /\ Sightless(<<Need(o)>>)
  BY SingleSteps DEF Removing
<1>2. Removing(<<Need(o1), Need(o2)>>, {}, {}) /\ Sightless(<<Need(o1), Need(o2)>>)
  <2>1. Removing(<<Need(o1)>> \o <<Need(o2)>>, {} \cup {}, {} \cup {})
    BY <1>1, RemovesInTurn
  <2>2. IsScript(<<Need(o1)>>) /\ Sightless(<<Need(o1)>>)
    BY <1>1 DEF Removing
  <2>3. Sightless(<<Need(o1)>> \o <<Need(o2)>>)
    BY <1>1, <2>2, SightlessInTurn
  <2>4. <<Need(o1)>> \o <<Need(o2)>> = <<Need(o1), Need(o2)>>
    BY RowsGrow
  <2> QED
    BY <2>1, <2>3, <2>4
<1>3. Removing(<<Need(o1), Need(o2), Need(o3)>>, {}, {})
      /\ Sightless(<<Need(o1), Need(o2), Need(o3)>>)
  <2>1. Removing(<<Need(o1), Need(o2)>> \o <<Need(o3)>>, {} \cup {}, {} \cup {})
    BY <1>2, <1>1, RemovesInTurn
  <2>2. IsScript(<<Need(o1), Need(o2)>>) /\ Sightless(<<Need(o1), Need(o2)>>)
    BY <1>2, <1>1 DEF Removing
  <2>3. Sightless(<<Need(o1), Need(o2)>> \o <<Need(o3)>>)
    BY <1>1, <2>2, SightlessInTurn
  <2>4. <<Need(o1), Need(o2)>> \o <<Need(o3)>> = <<Need(o1), Need(o2), Need(o3)>>
    BY RowsGrow
  <2> QED
    BY <2>1, <2>3, <2>4
<1>4. Removing(<<Need(o1), Need(o2), Need(o3), Need(o4)>>, {}, {})
      /\ Sightless(<<Need(o1), Need(o2), Need(o3), Need(o4)>>)
  <2>1. Removing(<<Need(o1), Need(o2), Need(o3)>> \o <<Need(o4)>>, {} \cup {}, {} \cup {})
    BY <1>3, <1>1, RemovesInTurn
  <2>2. IsScript(<<Need(o1), Need(o2), Need(o3)>>) /\ Sightless(<<Need(o1), Need(o2), Need(o3)>>)
    BY <1>3, <1>1 DEF Removing
  <2>3. Sightless(<<Need(o1), Need(o2), Need(o3)>> \o <<Need(o4)>>)
    BY <1>1, <2>2, SightlessInTurn
  <2>4. <<Need(o1), Need(o2), Need(o3)>> \o <<Need(o4)>> = <<Need(o1), Need(o2), Need(o3),
                                                             Need(o4)>>
    BY RowsGrow
  <2> QED
    BY <2>1, <2>3, <2>4
<1> QED
  BY <1>4


-----------------------------------------------------------------------------
(* How far the loops lead.                                                 *)
Reach(s, far) == \A i \in 1..Len(s) : s[i].op = "look" => i + s[i].skip <= far

LEMMA SightlessReach ==
  ASSUME NEW s, Sightless(s), NEW far
  PROVE  Reach(s, far)
<1> SUFFICES ASSUME NEW i \in 1..Len(s), s[i].op = "look" PROVE FALSE
  BY DEF Reach
<1>1. s[i].obj \in Acts(s, {"look"})
  BY DEF Acts
<1> QED
  BY <1>1 DEF Sightless

LEMMA ReachInTurn ==
  ASSUME NEW s, IsScript(s), NEW far, Reach(s, far), NEW t, IsScript(t), Sightless(t)
  PROVE  Reach(s \o t, far)
<1> SUFFICES ASSUME NEW i \in 1..Len(s \o t), (s \o t)[i].op = "look"
             PROVE  i + (s \o t)[i].skip <= far
  BY DEF Reach
<1>1. CASE i \in 1..Len(s)
  BY <1>1, ConcatPlaces DEF Reach
<1>2. ASSUME NEW j \in 1..Len(t), i = Len(s) + j PROVE FALSE
  <2>1. t[j].op = "look"
    BY <1>2, ConcatPlaces
  <2> QED
    BY <2>1 DEF Acts, Sightless
<1>3. i \in 1..Len(s) \/ \E j \in 1..Len(t) : i = Len(s) + j
  BY ConcatPlaces
<1> QED
  BY <1>1, <1>2, <1>3

-----------------------------------------------------------------------------
(* The shapes, from what the scripts do.                                   *)
LEMMA AnchoredWhen ==
  ASSUME NEW p \in PlanNames, NEW made, NEW asked, Installing(InstallScript(p), made, asked),
         \E o \in made : o[1] = Cluster,
         \A o \in made :
           /\ o \notin OwnedByWorkshop
           /\ IsNamespace(o) => \E q \in made : HomeOf(q) = o
  PROVE  Code!Anchored(p)
BY AnchoredBySets DEF Installing

LEMMA CoveredWhen ==
  ASSUME NEW p \in PlanNames, NEW made, NEW asked, Installing(InstallScript(p), made, asked),
         NEW gone, NEW found, Removing(TeardownScript(p), gone, found),
         Sightless(TeardownScript(p)),
         \A o \in made : o \in OwnedByWorkshop \/ o \in gone \/ HomeOf(o) \in gone
  PROVE  Code!Covered(p)
<1>1. Acts(InstallScript(p), {"create", "createIfMissing"}) = made
  BY ActsTogether DEF Installing
<1> QED
  BY <1>1, CoveredBySets DEF Installing, Removing, Sightless

LEMMA OrderlyWhen ==
  ASSUME NEW p \in PlanNames, NEW made, NEW asked, Installing(InstallScript(p), made, asked),
         NEW gone, NEW found, Removing(TeardownScript(p), gone, found),
         Tidy(TeardownScript(p)),
         \A o \in gone \cup found :
           o \in made \cup asked /\ (o[1] # Cluster => NS(o[1]) \in made \cup asked)
  PROVE  Code!Orderly(p)
<1>1. made \cup asked \subseteq ObjectsOf(InstallScript(p))
  BY ScriptSteps DEF Installing, Acts
<1>2. Acts(TeardownScript(p), {"look", "require"}) = {}
  BY ActsTogether DEF Tidy, Sightless
<1>3. Acts(TeardownScript(p), Deleting) = gone \cup found
  BY ActsTogether DEF Removing
<1>4. IsScript(TeardownScript(p)) /\ InOrder(TeardownScript(p))
  BY DEF Removing, Tidy
<1> QED
  BY <1>1, <1>2, <1>3, <1>4, OrderlyBySets

-----------------------------------------------------------------------------
(* What the scripts of each phase do.                                      *)
LEMMA Globs ==
  /\ \A a : Glob(a)[1] = Cluster
  /\ \A a, b : a # b => Glob(a) # Glob(b) /\ Apart(Glob(a), Glob(b))
BY DEF Apart, Glob

(* Portal.                                                                 *)
RedisObjects ==
  {Glob("redis secret"), Glob("redis pvc"), Glob("redis deployment"), Glob("redis service")}
DistributionObjects ==
  {Glob("portal deployment"), Glob("portal service"), Glob("portal route")}
PortalObjects == RedisObjects \cup DistributionObjects

LEMMA PortalScripts ==
  /\ Installing(PortalInstall, PortalObjects, {})
  /\ Removing(PortalTeardown, PortalObjects \ {Glob("portal deployment")},
              {Glob("portal deployment")})
  /\ Tidy(PortalTeardown)
<1>1. Installing(PortalInstall, PortalObjects, {})
  <2>1. Installing(RedisInstall, RedisObjects, {})
    BY MadeLists DEF RedisInstall, RedisObjects
  <2>2. Installing(DistributionInstall, DistributionObjects, {})
    BY MadeLists DEF DistributionInstall, DistributionObjects
  <2>3. Installing(PortalInstall, PortalObjects, {} \cup {})
    BY <2>1, <2>2, InstallsInTurn DEF PortalInstall, PortalObjects
  <2> QED
    BY <2>3
<1> DEFINE first == Drops(<<Glob("portal route"), Glob("portal service")>>)
           second == <<DropIfFound(Glob("portal deployment"))>>
           third == Drops(<<Glob("redis service"), Glob("redis deployment"), Glob("redis pvc"),
                            Glob("redis secret")>>)
<1>2. Removing(first, {Glob("portal route"), Glob("portal service")}, {}) /\ Tidy(first)
  <2>1. Apart(Glob("portal service"), Glob("portal route"))
    BY DEF Apart, Glob
  <2> QED
    BY <2>1, DroppedLists, TidyLists
<1>3. Removing(second, {}, {Glob("portal deployment")}) /\ Tidy(second)
  BY SingleSteps
<1>4. Removing(third, RedisObjects, {}) /\ Tidy(third)
  <2>1. /\ Removing(third, {Glob("redis service"), Glob("redis deployment"), Glob("redis pvc"),
                            Glob("redis secret")}, {})
    BY DroppedLists
  <2>2. \A a, b : a # b => Apart(Glob(a), Glob(b))
    BY DEF Apart, Glob
  <2>3. Tidy(third)
    BY <2>2, TidyLists
  <2>4. RedisObjects = {Glob("redis service"), Glob("redis deployment"), Glob("redis pvc"),
                        Glob("redis secret")}
    BY DEF RedisObjects
  <2> QED
    BY <2>1, <2>3, <2>4
<1> HIDE DEF first, second, third
<1>5. /\ Removing(first \o second, {Glob("portal route"), Glob("portal service")} \cup {},
                  {} \cup {Glob("portal deployment")})
      /\ Tidy(first \o second)
  <2>1. \A o \in {} \cup {Glob("portal deployment")} :
          \A q \in {Glob("portal route"), Glob("portal service")} \cup {} : Apart(o, q)
    BY Globs
  <2> QED
    BY <1>2, <1>3, <2>1, RemovesInTurn, TidyInTurn
<1>6. /\ Removing(first \o second, {Glob("portal route"), Glob("portal service")},
                  {Glob("portal deployment")})
      /\ Tidy(first \o second)
  BY <1>5
<1>7. \A o \in RedisObjects \cup {} :
        \A q \in {Glob("portal route"), Glob("portal service")}
                  \cup {Glob("portal deployment")} : Apart(o, q)
  BY Globs DEF RedisObjects
<1>8. /\ Removing((first \o second) \o third,
                  {Glob("portal route"), Glob("portal service")} \cup RedisObjects,
                  {Glob("portal deployment")} \cup {})
      /\ Tidy((first \o second) \o third)
  BY <1>4, <1>6, <1>7, RemovesInTurn, TidyInTurn
<1>9. /\ PortalObjects \ {Glob("portal deployment")}
           = {Glob("portal route"), Glob("portal service")} \cup RedisObjects
      /\ {Glob("portal deployment")} \cup {} = {Glob("portal deployment")}
  BY Globs DEF PortalObjects, RedisObjects, DistributionObjects
<1>10. PortalTeardown = (first \o second) \o third
  BY DEF PortalTeardown, DistributionTeardown, RedisTeardown, first, second, third
<1> QED
  BY <1>1, <1>8, <1>9, <1>10

LEMMA PortalShape == Code!Covered("Portal") /\ Code!Orderly("Portal")
<1>1. InstallScript("Portal") = PortalInstall /\ TeardownScript("Portal") = PortalTeardown
  BY DEF InstallScript, TeardownScript, InstallPlan, TeardownPlan
<1>2. "Portal" \in PlanNames
  BY DEF PlanNames
<1>3. Glob("portal deployment") \in OwnedByWorkshop
  BY DEF OwnedByWorkshop
<1>4. Code!Covered("Portal")
  <2>1. \A o \in PortalObjects :
          o \in OwnedByWorkshop \/ o \in PortalObjects \ {Glob("portal deployment")}
    BY <1>3
  <2>2. Sightless(PortalTeardown)
    BY PortalScripts DEF Tidy
  <2> QED
    BY <1>1, <1>2, <2>1, <2>2, PortalScripts, CoveredWhen
<1>5. \A o \in PortalObjects : o[1] = Cluster
  BY Globs DEF PortalObjects, RedisObjects, DistributionObjects
<1>6. Glob("portal deployment") \in PortalObjects
  BY DEF PortalObjects, DistributionObjects
<1>7. \A o \in (PortalObjects \ {Glob("portal deployment")}) \cup {Glob("portal deployment")} :
        o \in PortalObjects \cup {} /\ (o[1] # Cluster => NS(o[1]) \in PortalObjects \cup {})
  BY <1>5, <1>6
<1> QED
  BY <1>1, <1>2, <1>4, <1>7, PortalScripts, OrderlyWhen

(* Nexus and Gitea.                                                        *)
AnsibleObjects(n) ==
  {NS(n), GlobOf(n, "crd"), In(n, "sa"), GlobOf(n, "clusterrole"), GlobOf(n, "crb"),
   In(n, "operator"), In(n, "cr")}

LEMMA AnsibleScripts ==
  ASSUME NEW n, n # Cluster
  PROVE  /\ Installing(AnsibleInstall(n), AnsibleObjects(n), {In(n, "server")})
         /\ Removing(AnsibleTeardown(n), AnsibleObjects(n), {})
         /\ Tidy(AnsibleTeardown(n))
<1> DEFINE made == Makes(<<NS(n), GlobOf(n, "crd"), In(n, "sa"), GlobOf(n, "clusterrole"),
                           GlobOf(n, "crb"), In(n, "operator"), In(n, "cr")>>)
           waited == <<WaitFor(In(n, "server"), {})>>
<1>1. Installing(made, AnsibleObjects(n), {})
  BY MadeLists DEF AnsibleObjects
<1>2. Installing(waited, {}, {In(n, "server")} \cup {})
  BY SingleSteps
<1>3. Installing(made \o waited, AnsibleObjects(n) \cup {}, {} \cup ({In(n, "server")} \cup {}))
  BY <1>1, <1>2, InstallsInTurn
<1>4. Installing(made \o waited, AnsibleObjects(n), {In(n, "server")})
  BY <1>3
<1>5. Removing(AnsibleTeardown(n),
               {In(n, "cr"), In(n, "operator"), GlobOf(n, "crb"), GlobOf(n, "clusterrole"),
                In(n, "sa"), GlobOf(n, "crd"), NS(n)}, {})
  BY DroppedLists DEF AnsibleTeardown
<1>6. {In(n, "cr"), In(n, "operator"), GlobOf(n, "crb"), GlobOf(n, "clusterrole"),
       In(n, "sa"), GlobOf(n, "crd"), NS(n)} = AnsibleObjects(n)
  BY DEF AnsibleObjects
<1>7. Tidy(AnsibleTeardown(n))
  <2>1. \A a, b : a # b => Apart(In(n, a), In(n, b)) \/ b = "namespace"
    BY DEF Apart, In, NS
  <2>2. \A a, b : b # "namespace" => Apart(In(n, a), GlobOf(n, b))
        /\ Apart(GlobOf(n, b), In(n, a))
    BY DEF Apart, In, GlobOf, NS
  <2>3. \A a, b : a # b => Apart(GlobOf(n, a), GlobOf(n, b))
    BY DEF Apart, GlobOf
  <2>4. \A a : Apart(NS(n), In(n, a)) /\ (a # "namespace" => Apart(NS(n), GlobOf(n, a)))
    BY DEF Apart, In, GlobOf, NS
  <2> QED
    BY <2>1, <2>2, <2>3, <2>4, TidyLists DEF AnsibleTeardown
<1> QED
  BY <1>4, <1>5, <1>6, <1>7 DEF AnsibleInstall

LEMMA Namespaced ==
  ASSUME NEW n, n # Cluster
  PROVE  /\ NS(n)[1] = Cluster /\ NS(n) \notin OwnedByWorkshop
         /\ \A a : /\ In(n, a)[1] = n /\ In(n, a) \notin OwnedByWorkshop
                   /\ ~IsNamespace(In(n, a)) /\ HomeOf(In(n, a)) = NS(n)
                   /\ GlobOf(n, a)[1] = Cluster /\ GlobOf(n, a) \notin OwnedByWorkshop
                   /\ a # "namespace" => ~IsNamespace(GlobOf(n, a))
         /\ \A id, a : /\ InFor(n, id, a)[1] = n /\ InFor(n, id, a) \notin OwnedByWorkshop
                       /\ ~IsNamespace(InFor(n, id, a)) /\ HomeOf(InFor(n, id, a)) = NS(n)
BY DEF NS, In, InFor, GlobOf, Glob, OwnedByWorkshop, IsNamespace, HomeOf

LEMMA AnsibleShape ==
  ASSUME NEW p \in PlanNames, NEW n, n # Cluster,
         NEW asked, Installing(InstallScript(p), AnsibleObjects(n), asked),
         TeardownScript(p) = AnsibleTeardown(n)
  PROVE  Code!Anchored(p) /\ Code!Covered(p) /\ Code!Orderly(p)
<1>1. \A o \in AnsibleObjects(n) :
        /\ o \notin OwnedByWorkshop
        /\ o[1] \in {Cluster, n}
        /\ IsNamespace(o) => o = NS(n)
  BY Namespaced DEF AnsibleObjects
<1>2. /\ NS(n) \in AnsibleObjects(n) /\ NS(n)[1] = Cluster
      /\ In(n, "sa") \in AnsibleObjects(n) /\ HomeOf(In(n, "sa")) = NS(n)
  BY Namespaced DEF AnsibleObjects
<1>3. Code!Anchored(p)
  BY <1>1, <1>2, AnchoredWhen
<1>4. Removing(TeardownScript(p), AnsibleObjects(n), {}) /\ Tidy(TeardownScript(p))
  BY AnsibleScripts
<1>5. Code!Covered(p)
  BY <1>4, CoveredWhen DEF Tidy
<1>6. Code!Orderly(p)
  BY <1>1, <1>2, <1>4, OrderlyWhen
<1> QED
  BY <1>3, <1>5, <1>6

LEMMA NexusShape ==
  Code!Anchored("Nexus") /\ Code!Covered("Nexus") /\ Code!Orderly("Nexus")
<1>1. /\ InstallScript("Nexus") = AnsibleInstall(Shared("nexus"))
      /\ TeardownScript("Nexus") = AnsibleTeardown(Shared("nexus"))
  BY DEF InstallScript, TeardownScript, InstallPlan, TeardownPlan, NexusInstall, NexusTeardown
<1>2. "Nexus" \in PlanNames /\ Shared("nexus") # Cluster
  BY DEF PlanNames, Shared, Cluster
<1> QED
  BY <1>1, <1>2, AnsibleScripts, AnsibleShape

GiteaAsked ==
  {In(GitServer, "server"), In(GitServer, "route")} \cup UNION {{GitUser(id)} : id \in 1..Users}

LEMMA GiteaScripts ==
  /\ GitServer # Cluster
  /\ Installing(GiteaInstall, AnsibleObjects(GitServer), GiteaAsked)
<1>1. GitServer # Cluster
  BY DEF GitServer, Cluster, Shared
<1> DEFINE F == [id \in 1..Users |-> <<Request(GitUser(id))>>]
           none == [id \in 1..Users |-> {}]
           asked == [id \in 1..Users |-> {GitUser(id)}]
<1>2. \A id \in 1..Users : Installing(F[id], none[id], asked[id]) /\ Len(F[id]) = 1
  BY SingleSteps
<1>3. Users \in Nat
  BY PlansAssumption
<1> HIDE DEF F, none, asked
<1>4. Installing(PerUser(F, 1, Users), Joined(none, Users), Joined(asked, Users))
  BY <1>2, <1>3, InstallsForAll
<1>5. /\ Joined(none, Users) = {}
      /\ Joined(asked, Users) = UNION {{GitUser(id)} : id \in 1..Users}
  BY DEF Joined, none, asked
<1>6. Installing(PerUser(F, 1, Users), {}, UNION {{GitUser(id)} : id \in 1..Users})
  BY <1>4, <1>5
<1>7. Installing(AnsibleInstall(GitServer), AnsibleObjects(GitServer), {In(GitServer, "server")})
  BY <1>1, AnsibleScripts
<1>8. Installing(<<WaitFor(In(GitServer, "route"), {})>>, {}, {In(GitServer, "route")} \cup {})
  BY SingleSteps
<1>9. Installing(AnsibleInstall(GitServer) \o <<WaitFor(In(GitServer, "route"), {})>>,
                 AnsibleObjects(GitServer) \cup {},
                 {In(GitServer, "server")} \cup ({In(GitServer, "route")} \cup {}))
  BY <1>7, <1>8, InstallsInTurn
<1>10. Installing(AnsibleInstall(GitServer) \o <<WaitFor(In(GitServer, "route"), {})>>,
                  AnsibleObjects(GitServer),
                  {In(GitServer, "server"), In(GitServer, "route")})
  BY <1>9, Zenon
<1>11. Installing(AnsibleInstall(GitServer) \o <<WaitFor(In(GitServer, "route"), {})>>
                    \o PerUser(F, 1, Users),
                  AnsibleObjects(GitServer) \cup {}, GiteaAsked)
  BY <1>6, <1>10, InstallsInTurn DEF GiteaAsked
<1> QED
  BY <1>1, <1>11 DEF GiteaInstall, F

LEMMA GiteaShape ==
  Code!Anchored("Gitea") /\ Code!Covered("Gitea") /\ Code!Orderly("Gitea")
<1>1. InstallScript("Gitea") = GiteaInstall
      /\ TeardownScript("Gitea") = AnsibleTeardown(GitServer)
  BY DEF InstallScript, TeardownScript, InstallPlan, TeardownPlan, GiteaTeardown
<1>2. "Gitea" \in PlanNames
  BY DEF PlanNames
<1> QED
  BY <1>1, <1>2, GiteaScripts, AnsibleShape

(* Pipelines.                                                              *)
LEMMA PipelinesScripts ==
  /\ Installing(PipelinesInstall, {Glob("pipelines sub")}, {})
  /\ Removing(PipelinesTeardown, {Glob("pipelines sub")}, {})
  /\ Tidy(PipelinesTeardown)
BY SingleSteps DEF PipelinesInstall, PipelinesTeardown

LEMMA GlobsApart ==
  /\ \A a : ~IsNamespace(Glob(a)) \/ a = "namespace"
  /\ \A a : a \notin {"redis pvc", "redis deployment", "portal deployment", "portal route"}
       => Glob(a) \notin OwnedByWorkshop
BY DEF IsNamespace, Glob, OwnedByWorkshop

LEMMA PipelinesShape ==
  Code!Anchored("Pipelines") /\ Code!Covered("Pipelines") /\ Code!Orderly("Pipelines")
<1>1. /\ InstallScript("Pipelines") = PipelinesInstall
      /\ TeardownScript("Pipelines") = PipelinesTeardown
  BY DEF InstallScript, TeardownScript, InstallPlan, TeardownPlan
<1>2. "Pipelines" \in PlanNames
  BY DEF PlanNames
<1>3. /\ Glob("pipelines sub")[1] = Cluster /\ ~IsNamespace(Glob("pipelines sub"))
      /\ Glob("pipelines sub") \notin OwnedByWorkshop
  BY Globs, GlobsApart
<1> DEFINE all == {Glob("pipelines sub")}
<1>4. \A o \in all : o[1] = Cluster /\ ~IsNamespace(o) /\ o \notin OwnedByWorkshop
  BY <1>3
<1>5. /\ \E o \in all : o[1] = Cluster
      /\ Installing(PipelinesInstall, all, {}) /\ Removing(PipelinesTeardown, all, {})
  BY <1>4, PipelinesScripts
<1> HIDE DEF all
<1>7. Code!Anchored("Pipelines")
  BY <1>1, <1>2, <1>4, <1>5, AnchoredWhen
<1>8. Code!Covered("Pipelines")
  BY <1>1, <1>2, <1>5, PipelinesScripts, CoveredWhen DEF Tidy
<1>6. \A o \in all \cup {} : o \in all \cup {} /\ (o[1] # Cluster => NS(o[1]) \in all \cup {})
  BY <1>4
<1>9. Code!Orderly("Pipelines")
  BY <1>1, <1>2, <1>5, <1>6, PipelinesScripts, OrderlyWhen
<1> QED
  BY <1>7, <1>8, <1>9

(* Serverless.                                                             *)
Serving == Shared("knative-serving")
Eventing == Shared("knative-eventing")
ServerlessObjects ==
  {NS(Serverless), In(Serverless, "sub"), NS(Serving), NS(Eventing)}

LEMMA ServerlessScripts ==
  /\ Installing(ServerlessInstall, ServerlessObjects, {})
  /\ Removing(ServerlessTeardown, ServerlessObjects, {})
  /\ Tidy(ServerlessTeardown)
<1>1. Installing(ServerlessInstall, ServerlessObjects, {})
  BY MadeLists DEF ServerlessInstall, ServerlessObjects, Serving, Eventing
<1>2. Removing(ServerlessTeardown, {NS(Eventing), NS(Serving), In(Serverless, "sub"),
                                    NS(Serverless)}, {})
  BY DroppedLists DEF ServerlessTeardown, Serving, Eventing
<1>3. ServerlessObjects = {NS(Eventing), NS(Serving), In(Serverless, "sub"), NS(Serverless)}
  BY DEF ServerlessObjects
<1>4. Tidy(ServerlessTeardown)
  <2>1. /\ Apart(NS(Serving), NS(Eventing))
        /\ Apart(In(Serverless, "sub"), NS(Eventing)) /\ Apart(In(Serverless, "sub"), NS(Serving))
        /\ Apart(NS(Serverless), NS(Eventing)) /\ Apart(NS(Serverless), NS(Serving))
        /\ Apart(NS(Serverless), In(Serverless, "sub"))
    BY DEF Apart, NS, In, Serving, Eventing, Serverless, Shared, Cluster
  <2> QED
    BY <2>1, TidyLists DEF ServerlessTeardown, Serving, Eventing
<1> QED
  BY <1>1, <1>2, <1>3, <1>4

LEMMA ServerlessShape == Code!Covered("Serverless") /\ Code!Orderly("Serverless")
<1>1. /\ InstallScript("Serverless") = ServerlessInstall
      /\ TeardownScript("Serverless") = ServerlessTeardown
  BY DEF InstallScript, TeardownScript, InstallPlan, TeardownPlan
<1>2. "Serverless" \in PlanNames
  BY DEF PlanNames
<1>3. Code!Covered("Serverless")
  BY <1>1, <1>2, ServerlessScripts, CoveredWhen DEF Tidy
<1>4. \A o \in ServerlessObjects \cup {} :
        /\ o \in ServerlessObjects \cup {}
        /\ o[1] # Cluster => NS(o[1]) \in ServerlessObjects \cup {}
  <2>1. In(Serverless, "sub")[1] = Serverless /\ \A n : NS(n)[1] = Cluster
    BY DEF In, NS
  <2> QED
    BY <2>1 DEF ServerlessObjects
<1>5. Code!Orderly("Serverless")
  BY <1>1, <1>2, <1>4, ServerlessScripts, OrderlyWhen
<1> QED
  BY <1>3, <1>5

(* Cert-manager.                                                           *)
CertManagerObjects == {Glob("cert-manager sub"), NS(CertManager), In(CertManager, "cr")}

LEMMA CertManagerScripts ==
  /\ Installing(CertManagerInstall, CertManagerObjects, {})
  /\ Removing(CertManagerTeardown, CertManagerObjects, {})
  /\ Tidy(CertManagerTeardown)
<1>1. Installing(CertManagerInstall, CertManagerObjects, {})
  <2>1. /\ Installing(<<Make(Glob("cert-manager sub"))>>, {Glob("cert-manager sub")}, {})
        /\ Installing(<<WaitFor(Glob("cert-manager plan"), {})>>, {},
                      {Glob("cert-manager plan")} \cup {})
        /\ Installing(<<Make(NS(CertManager))>>, {NS(CertManager)}, {})
        /\ Installing(<<Make(In(CertManager, "cr"))>>, {In(CertManager, "cr")}, {})
    BY SingleSteps
  <2>2. Installing(CertManagerInstall,
                   {Glob("cert-manager sub")} \cup {} \cup {NS(CertManager)}
                   \cup {In(CertManager, "cr")},
                   {} \cup ({Glob("cert-manager plan")} \cup {}) \cup {} \cup {})
    BY <2>1, InstallsRow4 DEF CertManagerInstall
  <2>3. {Glob("cert-manager sub")} \cup {} \cup {NS(CertManager)} \cup {In(CertManager, "cr")}
          = CertManagerObjects
    BY DEF CertManagerObjects
  <2> QED
    BY <2>2, <2>3 DEF Installing
<1>2. Removing(CertManagerTeardown,
               {In(CertManager, "cr"), NS(CertManager), Glob("cert-manager sub")}, {})
  BY DroppedLists DEF CertManagerTeardown
<1>3. CertManagerObjects = {In(CertManager, "cr"), NS(CertManager), Glob("cert-manager sub")}
  BY DEF CertManagerObjects
<1>4. Tidy(CertManagerTeardown)
  <2>1. /\ Apart(NS(CertManager), In(CertManager, "cr"))
        /\ Apart(Glob("cert-manager sub"), In(CertManager, "cr"))
        /\ Apart(Glob("cert-manager sub"), NS(CertManager))
    BY DEF Apart, NS, In, Glob, CertManager, Shared, Cluster
  <2> QED
    BY <2>1, TidyLists DEF CertManagerTeardown
<1> QED
  BY <1>1, <1>2, <1>3, <1>4

LEMMA CertManagerShape ==
  Code!Anchored("CertManager") /\ Code!Covered("CertManager") /\ Code!Orderly("CertManager")
<1>1. /\ InstallScript("CertManager") = CertManagerInstall
      /\ TeardownScript("CertManager") = CertManagerTeardown
  BY DEF InstallScript, TeardownScript, InstallPlan, TeardownPlan
<1>2. "CertManager" \in PlanNames /\ CertManager # Cluster
  BY DEF PlanNames, CertManager, Shared, Cluster
<1>3. \A o \in CertManagerObjects :
        /\ o \notin OwnedByWorkshop
        /\ IsNamespace(o) => o = NS(CertManager)
        /\ o[1] \in {Cluster, CertManager}
  <2>1. /\ Glob("cert-manager sub") \notin OwnedByWorkshop
        /\ ~IsNamespace(Glob("cert-manager sub")) /\ Glob("cert-manager sub")[1] = Cluster
    BY Globs, GlobsApart
  <2>2. /\ In(CertManager, "cr") \notin OwnedByWorkshop /\ ~IsNamespace(In(CertManager, "cr"))
        /\ In(CertManager, "cr")[1] = CertManager
        /\ NS(CertManager) \notin OwnedByWorkshop /\ NS(CertManager)[1] = Cluster
    BY <1>2, Namespaced
  <2> QED
    BY <2>1, <2>2 DEF CertManagerObjects
<1>4. /\ NS(CertManager) \in CertManagerObjects /\ NS(CertManager)[1] = Cluster
      /\ In(CertManager, "cr") \in CertManagerObjects
      /\ HomeOf(In(CertManager, "cr")) = NS(CertManager)
  BY <1>2, Namespaced DEF CertManagerObjects
<1>5. Code!Anchored("CertManager")
  BY <1>1, <1>2, <1>3, <1>4, CertManagerScripts, AnchoredWhen
<1>6. Code!Covered("CertManager")
  BY <1>1, <1>2, CertManagerScripts, CoveredWhen DEF Tidy
<1>7. \A o \in CertManagerObjects \cup {} :
        /\ o \in CertManagerObjects \cup {}
        /\ o[1] # Cluster => NS(o[1]) \in CertManagerObjects \cup {}
  BY <1>3, <1>4
<1>8. Code!Orderly("CertManager")
  BY <1>1, <1>2, <1>7, CertManagerScripts, OrderlyWhen
<1> QED
  BY <1>5, <1>6, <1>8

(* Service mesh.                                                           *)
MeshObjects ==
  {NS(Mesh), In(Mesh, "jaeger role"), In(Mesh, "jaeger rb"), In(Mesh, "mesh rb"),
   In(Mesh, "smcp"), In(Mesh, "memberroll")}
Subscriptions == {Glob("jaeger sub"), Glob("kiali sub"), Glob("mesh sub")}
ElasticSearchObjects == {NS(Redhat), In(Redhat, "es sub")}

LEMMA ServiceMeshInstalls ==
  \E asked : Installing(ServiceMeshInstall, ElasticSearchObjects \cup Subscriptions
                        \cup MeshObjects,
                        asked)
<1>1. PICK q1 : Installing(ElasticSearchInstall, ElasticSearchObjects, q1)
  <2>1. /\ Installing(<<Make(NS(Redhat))>>, {NS(Redhat)}, {})
        /\ Installing(<<Make(In(Redhat, "es sub"))>>, {In(Redhat, "es sub")}, {})
        /\ Installing(<<WaitFor(In(Redhat, "es plan"), {})>>, {}, {In(Redhat, "es plan")} \cup {})
    BY SingleSteps
  <2>2. Installing(ElasticSearchInstall, {NS(Redhat)} \cup {In(Redhat, "es sub")} \cup {},
                   {} \cup {} \cup ({In(Redhat, "es plan")} \cup {}))
    BY <2>1, InstallsRow3 DEF ElasticSearchInstall
  <2>3. {NS(Redhat)} \cup {In(Redhat, "es sub")} \cup {} = ElasticSearchObjects
    BY DEF ElasticSearchObjects
  <2> QED
    BY <2>2, <2>3
<1>2. PICK q2 : Installing(JaegerInstall, {Glob("jaeger sub")} \cup {}, q2)
  <2>1. /\ Installing(<<Make(Glob("jaeger sub"))>>, {Glob("jaeger sub")}, {})
        /\ Installing(<<WaitFor(Glob("jaeger plan"), {Glob("jaeger csv")})>>, {},
                      {Glob("jaeger plan")} \cup {Glob("jaeger csv")})
    BY SingleSteps
  <2>2. Installing(JaegerInstall, {Glob("jaeger sub")} \cup {},
                   {} \cup ({Glob("jaeger plan")} \cup {Glob("jaeger csv")}))
    BY <2>1, InstallsRow2 DEF JaegerInstall
  <2> QED
    BY <2>2
<1>3. PICK q3 : Installing(KialiInstall, {Glob("kiali sub")} \cup {}, q3)
  <2>1. /\ Installing(<<Make(Glob("kiali sub"))>>, {Glob("kiali sub")}, {})
        /\ Installing(<<WaitFor(Glob("kiali plan"), {Glob("kiali csv")})>>, {},
                      {Glob("kiali plan")} \cup {Glob("kiali csv")})
    BY SingleSteps
  <2>2. Installing(KialiInstall, {Glob("kiali sub")} \cup {},
                   {} \cup ({Glob("kiali plan")} \cup {Glob("kiali csv")}))
    BY <2>1, InstallsRow2 DEF KialiInstall
  <2> QED
    BY <2>2
<1>4. PICK q4 : Installing(MeshInstall, ({Glob("mesh sub")} \cup {} \cup {}) \cup MeshObjects, q4)
  <2>1. /\ Installing(<<Make(Glob("mesh sub"))>>, {Glob("mesh sub")}, {})
        /\ Installing(<<WaitFor(Glob("mesh plan"), {Glob("mesh csv")})>>, {},
                      {Glob("mesh plan")} \cup {Glob("mesh csv")})
        /\ Installing(<<WaitFor(Glob("istio operator"), {Glob("mesh vwc"),
                                                         Glob("mesh mwc")})>>, {},
                      {Glob("istio operator")} \cup {Glob("mesh vwc"), Glob("mesh mwc")})
    BY SingleSteps
  <2> DEFINE row == <<Make(Glob("mesh sub")), WaitFor(Glob("mesh plan"), {Glob("mesh csv")}),
                      WaitFor(Glob("istio operator"), {Glob("mesh vwc"), Glob("mesh mwc")})>>
             list == Makes(<<NS(Mesh), In(Mesh, "jaeger role"), In(Mesh, "jaeger rb"),
                             In(Mesh, "mesh rb"), In(Mesh, "smcp"), In(Mesh, "memberroll")>>)
  <2>2. PICK q : Installing(row, {Glob("mesh sub")} \cup {} \cup {}, q)
    <3>1. Installing(row, {Glob("mesh sub")} \cup {} \cup {},
                     {} \cup ({Glob("mesh plan")} \cup {Glob("mesh csv")})
                     \cup ({Glob("istio operator")} \cup {Glob("mesh vwc"), Glob("mesh mwc")}))
      BY <2>1, InstallsRow3
    <3> QED
      BY <3>1
  <2>3. Installing(list, MeshObjects, {})
    BY MadeLists DEF MeshObjects
  <2>4. MeshInstall = row \o list
    BY DEF MeshInstall
  <2> HIDE DEF row, list
  <2> QED
    BY <2>2, <2>3, <2>4, InstallsInTurn
<1>5. PICK q5 : Installing(ElasticSearchInstall \o JaegerInstall,
                           ElasticSearchObjects \cup ({Glob("jaeger sub")} \cup {}), q5)
  BY <1>1, <1>2, InstallsInTurn
<1>6. PICK q6 : Installing((ElasticSearchInstall \o JaegerInstall) \o KialiInstall,
                           ElasticSearchObjects \cup ({Glob("jaeger sub")} \cup {})
                           \cup ({Glob("kiali sub")} \cup {}), q6)
  BY <1>3, <1>5, InstallsInTurn
<1>7. PICK q7 : Installing(ServiceMeshInstall,
                           ElasticSearchObjects \cup ({Glob("jaeger sub")} \cup {})
                           \cup ({Glob("kiali sub")} \cup {})
                           \cup (({Glob("mesh sub")} \cup {} \cup {}) \cup MeshObjects), q7)
  <2>1. ServiceMeshInstall
          = ((ElasticSearchInstall \o JaegerInstall) \o KialiInstall) \o MeshInstall
    BY DEF ServiceMeshInstall
  <2>2. Installing(((ElasticSearchInstall \o JaegerInstall) \o KialiInstall) \o MeshInstall,
                   ElasticSearchObjects \cup ({Glob("jaeger sub")} \cup {})
                   \cup ({Glob("kiali sub")} \cup {})
                   \cup (({Glob("mesh sub")} \cup {} \cup {}) \cup MeshObjects), q6 \cup q4)
    BY <1>4, <1>6, InstallsInTurn
  <2> QED
    BY <2>1, <2>2
<1>8. ElasticSearchObjects \cup ({Glob("jaeger sub")} \cup {}) \cup ({Glob("kiali sub")} \cup {})
        \cup (({Glob("mesh sub")} \cup {} \cup {}) \cup MeshObjects)
      = ElasticSearchObjects \cup Subscriptions \cup MeshObjects
  BY DEF Subscriptions
<1> QED
  BY <1>7, <1>8

LEMMA ServiceMeshRemoves ==
  /\ \E gone : /\ Removing(ServiceMeshTeardown, gone, {})
               /\ ElasticSearchObjects \cup Subscriptions \cup MeshObjects \subseteq gone
  /\ Sightless(ServiceMeshTeardown)
<1> DEFINE g1 == {In(Mesh, "memberroll"), In(Mesh, "smcp"), In(Mesh, "mesh rb"),
                  In(Mesh, "jaeger rb"), In(Mesh, "jaeger role"), Glob("mesh sub"),
                  Glob("mesh vwc"), Glob("mesh mwc")}
           g2 == {Glob("kiali sub"), Glob("jaeger sub")}
           g3 == {Glob("mesh csv"), Glob("kiali csv"), Glob("jaeger csv")}
           g5 == {In(Redhat, "es sub"), NS(Redhat)}
           subs == Drops(<<Glob("kiali sub"), Glob("jaeger sub")>>)
           last == <<Drop(NS(Mesh))>>
<1>1. Removing(MeshTeardown, g1, {}) /\ Sightless(MeshTeardown)
  BY DroppedLists DEF MeshTeardown
<1>2. Removing(subs, g2, {}) /\ Sightless(subs)
  BY DroppedLists
<1>3. Removing(ServiceVersionsTeardown, g3, {}) /\ Sightless(ServiceVersionsTeardown)
  BY DroppedLists DEF ServiceVersionsTeardown
<1>4. Removing(last, {NS(Mesh)}, {}) /\ Sightless(last)
  BY SingleSteps DEF Tidy
<1>5. Removing(ElasticSearchTeardown, g5, {}) /\ Sightless(ElasticSearchTeardown)
  BY DroppedLists DEF ElasticSearchTeardown
<1>6. Removing(MeshPatches, {}, {}) /\ Sightless(MeshPatches)
  BY NeedsRow4 DEF MeshPatches
<1>7. ServiceMeshTeardown
        = ((((MeshTeardown \o subs) \o ServiceVersionsTeardown) \o last)
           \o ElasticSearchTeardown) \o MeshPatches
  BY DEF ServiceMeshTeardown
<1>8. ElasticSearchObjects \cup Subscriptions \cup MeshObjects
        \subseteq g1 \cup g2 \cup g3 \cup {NS(Mesh)} \cup g5 \cup {}
  BY DEF ElasticSearchObjects, Subscriptions, MeshObjects
<1> HIDE DEF g1, g2, g3, g5, subs, last
<1>9. ASSUME NEW s, NEW a, Removing(s, a, {}), Sightless(s),
             NEW t, NEW b, Removing(t, b, {}), Sightless(t)
      PROVE  Removing(s \o t, a \cup b, {}) /\ Sightless(s \o t)
  <2>1. Removing(s \o t, a \cup b, {} \cup {})
    BY <1>9, RemovesInTurn
  <2>2. IsScript(s) /\ IsScript(t)
    BY <1>9 DEF Removing
  <2> QED
    BY <1>9, <2>1, <2>2, SightlessInTurn
<1>10. Removing(ServiceMeshTeardown, g1 \cup g2 \cup g3 \cup {NS(Mesh)} \cup g5 \cup {}, {})
       /\ Sightless(ServiceMeshTeardown)
  <2>1. Removing(MeshTeardown \o subs, g1 \cup g2, {}) /\ Sightless(MeshTeardown \o subs)
    BY <1>1, <1>2, <1>9
  <2> DEFINE s3 == (MeshTeardown \o subs) \o ServiceVersionsTeardown
             s4 == s3 \o last
             s5 == s4 \o ElasticSearchTeardown
  <2>2. Removing(s3, g1 \cup g2 \cup g3, {}) /\ Sightless(s3)
    BY <1>3, <1>9, <2>1
  <2> HIDE DEF s3
  <2>3. Removing(s4, g1 \cup g2 \cup g3 \cup {NS(Mesh)}, {}) /\ Sightless(s4)
    BY <1>4, <1>9, <2>2
  <2> HIDE DEF s4
  <2>4. Removing(s5, g1 \cup g2 \cup g3 \cup {NS(Mesh)} \cup g5, {}) /\ Sightless(s5)
    BY <1>5, <1>9, <2>3
  <2> HIDE DEF s5
  <2>5. Removing(s5 \o MeshPatches, g1 \cup g2 \cup g3 \cup {NS(Mesh)} \cup g5 \cup {}, {})
        /\ Sightless(s5 \o MeshPatches)
    BY <1>6, <1>9, <2>4
  <2> QED
    BY <1>7, <2>5 DEF s3, s4, s5
<1> QED
  BY <1>8, <1>10

LEMMA ServiceMeshShape == Code!Anchored("ServiceMesh") /\ Code!Covered("ServiceMesh")
<1>1. /\ InstallScript("ServiceMesh") = ServiceMeshInstall
      /\ TeardownScript("ServiceMesh") = ServiceMeshTeardown
  BY DEF InstallScript, TeardownScript, InstallPlan, TeardownPlan
<1>2. "ServiceMesh" \in PlanNames /\ Mesh # Cluster /\ Redhat # Cluster
  BY DEF PlanNames, Mesh, Redhat, Shared, Cluster
<1> DEFINE made == ElasticSearchObjects \cup Subscriptions \cup MeshObjects
<1>3. PICK asked : Installing(ServiceMeshInstall, made, asked)
  BY ServiceMeshInstalls
<1>4. \A o \in made : o \notin OwnedByWorkshop /\ (IsNamespace(o) => o \in {NS(Mesh), NS(Redhat)})
  <2>1. \A o \in Subscriptions : o \notin OwnedByWorkshop /\ ~IsNamespace(o)
    BY GlobsApart DEF Subscriptions
  <2>2. \A o \in MeshObjects : o \notin OwnedByWorkshop /\ (IsNamespace(o) => o = NS(Mesh))
    BY <1>2, Namespaced DEF MeshObjects
  <2>3. \A o \in ElasticSearchObjects : o \notin OwnedByWorkshop
        /\ (IsNamespace(o) => o = NS(Redhat))
    BY <1>2, Namespaced DEF ElasticSearchObjects
  <2> QED
    BY <2>1, <2>2, <2>3
<1>5. /\ In(Mesh, "smcp") \in made /\ HomeOf(In(Mesh, "smcp")) = NS(Mesh)
      /\ In(Redhat, "es sub") \in made /\ HomeOf(In(Redhat, "es sub")) = NS(Redhat)
      /\ NS(Mesh) \in made /\ NS(Mesh)[1] = Cluster
  BY <1>2, Namespaced DEF MeshObjects, ElasticSearchObjects
<1> HIDE DEF made
<1>6. Code!Anchored("ServiceMesh")
  BY <1>1, <1>2, <1>3, <1>4, <1>5, AnchoredWhen
<1>7. PICK gone : Removing(ServiceMeshTeardown, gone, {}) /\ made \subseteq gone
  BY ServiceMeshRemoves DEF made
<1>8. Code!Covered("ServiceMesh")
  BY <1>1, <1>2, <1>3, <1>7, ServiceMeshRemoves, CoveredWhen
<1> QED
  BY <1>6, <1>8

(* CodeReady Workspaces.                                                   *)
CheObjects == {NS(Che), In(Che, "operatorgroup"), In(Che, "sub"), In(Che, "che cr")}
CheRoles == {Glob("che clusterrole"), Glob("che crb")}
WorkspacesOf(n) == UNION {{NS(Workspace(id))} : id \in 1..n}

CheStart ==
  <<Make(NS(Che)), Make(In(Che, "operatorgroup")), Make(In(Che, "sub")),
    WaitFor(In(Che, "plan"), {}), WaitFor(In(Che, "operator"), {}), Make(In(Che, "che cr")),
    WaitFor(In(Che, "codeready"), {})>>

LEMMA CheStarts == \E asked : Installing(CheStart, CheObjects, asked)
<1> DEFINE s1 == Make(NS(Che))
           s2 == Make(In(Che, "operatorgroup"))
           s3 == Make(In(Che, "sub"))
           s4 == WaitFor(In(Che, "plan"), {})
           s5 == WaitFor(In(Che, "operator"), {})
           s6 == Make(In(Che, "che cr"))
           s7 == WaitFor(In(Che, "codeready"), {})
<1>1. /\ Installing(<<s1>>, {NS(Che)}, {})
      /\ Installing(<<s2>>, {In(Che, "operatorgroup")}, {})
      /\ Installing(<<s3>>, {In(Che, "sub")}, {})
      /\ \E q : Installing(<<s4>>, {}, q)
      /\ \E q : Installing(<<s5>>, {}, q)
      /\ Installing(<<s6>>, {In(Che, "che cr")}, {})
      /\ \E q : Installing(<<s7>>, {}, q)
  BY SingleSteps
<1>2. CheStart = <<s1, s2, s3, s4, s5, s6, s7>>
  BY DEF CheStart
<1> DEFINE m1 == {NS(Che)}
           m2 == {In(Che, "operatorgroup")}
           m3 == {In(Che, "sub")}
           m6 == {In(Che, "che cr")}
<1>3. m1 \cup m2 \cup m3 \cup {} \cup {} \cup m6 \cup {} = CheObjects
  BY DEF CheObjects
<1> HIDE DEF s1, s2, s3, s4, s5, s6, s7, m1, m2, m3, m6
<1>4. PICK q4, q5, q7 : /\ Installing(<<s4>>, {}, q4) /\ Installing(<<s5>>, {}, q5)
                        /\ Installing(<<s7>>, {}, q7)
  BY <1>1
<1>5. Installing(<<s1>>, m1, {}) /\ Installing(<<s2>>, m2, {}) /\ Installing(<<s3>>, m3, {})
      /\ Installing(<<s6>>, m6, {})
  BY <1>1 DEF m1, m2, m3, m6
<1>6. Installing(<<s1, s2, s3, s4, s5, s6, s7>>, m1 \cup m2 \cup m3 \cup {} \cup {}
                 \cup m6 \cup {},
                 {} \cup {} \cup {} \cup q4 \cup q5 \cup {} \cup q7)
  BY <1>4, <1>5, InstallsRow7
<1> QED
  BY <1>2, <1>3, <1>6

(* The accounts, and the workspaces with their namespaces.                 *)
LEMMA CheWorkspaces ==
  ASSUME NEW oauth \in BOOLEAN
  PROVE  \E asked : /\ Installing(
                            PerUser([id \in 1..Users |-> Account(oauth, id) \o InitWorkspace(id)],
                                    IF oauth THEN 3 ELSE 2, Users),
                            {}, asked)
                    /\ WorkspacesOf(Users) \subseteq asked
<1> DEFINE F == [id \in 1..Users |-> Account(oauth, id) \o InitWorkspace(id)]
           k == IF oauth THEN 3 ELSE 2
           none == [id \in 1..Users |-> {}]
           asked == [id \in 1..Users |-> {CheUser(id), NS(Workspace(id))}]
<1>1. ASSUME NEW id \in 1..Users
      PROVE  Installing(F[id], none[id], asked[id]) /\ Len(F[id]) = k
  <2>1. /\ Installing(<<Request(CheUser(id))>>, {}, {CheUser(id)})
        /\ Installing(<<RelyOn(CheUser(id))>>, {}, {CheUser(id)})
        /\ Installing(InitWorkspace(id), {}, {NS(Workspace(id))})
    BY SingleSteps DEF InitWorkspace
  <2>2. Installing(Account(oauth, id), {}, {CheUser(id)})
    <3>1. CASE oauth
      <4>1. Installing(<<Request(CheUser(id))>> \o <<RelyOn(CheUser(id))>>,
                       {} \cup {}, {CheUser(id)} \cup {CheUser(id)})
        BY <2>1, InstallsInTurn
      <4>2. Account(oauth, id) = <<Request(CheUser(id))>> \o <<RelyOn(CheUser(id))>>
        BY <3>1 DEF Account
      <4> QED
        BY <4>1, <4>2
    <3>2. CASE ~oauth
      <4>1. Account(oauth, id) = <<Request(CheUser(id))>>
        BY <3>2 DEF Account
      <4> QED
        BY <2>1, <4>1
    <3> QED
      BY <3>1, <3>2
  <2>3. Installing(Account(oauth, id) \o InitWorkspace(id),
                   {} \cup {}, {CheUser(id)} \cup {NS(Workspace(id))})
    BY <2>1, <2>2, InstallsInTurn
  <2>4. /\ {} \cup {} = {}
        /\ {CheUser(id)} \cup {NS(Workspace(id))} = {CheUser(id), NS(Workspace(id))}
    OBVIOUS
  <2>5. Len(Account(oauth, id) \o InitWorkspace(id)) = k
    BY DEF Account, InitWorkspace
  <2> QED
    BY <2>3, <2>4, <2>5
<1>2. Users \in Nat /\ k \in 1..8
  BY PlansAssumption
<1>3. Joined(none, Users) = {} /\ WorkspacesOf(Users) \subseteq Joined(asked, Users)
  BY DEF Joined, WorkspacesOf
<1> HIDE DEF F, k, none, asked
<1>4. Installing(PerUser(F, k, Users), Joined(none, Users), Joined(asked, Users))
  BY <1>1, <1>2, InstallsForAll
<1>5. Installing(PerUser(F, k, Users), {}, Joined(asked, Users))
  BY <1>3, <1>4
<1> QED
  BY <1>3, <1>5 DEF F, k

LEMMA Separate ==
  ASSUME NEW n, n # Cluster
  PROVE  /\ \A a, b : b # "namespace" => Apart(In(n, a), Glob(b)) /\ Apart(NS(n), Glob(b))
         /\ \A a, m : m # n => Apart(In(n, a), NS(m)) /\ Apart(NS(n), NS(m))
         /\ \A b, m : b # "namespace" => Apart(Glob(b), NS(m))
BY DEF Apart, In, NS, Glob


LEMMA CheKnown ==
  /\ Che # Cluster
  /\ \A o \in CheObjects :
       /\ o \notin OwnedByWorkshop /\ o[1] \in {Cluster, Che}
       /\ IsNamespace(o) => o = NS(Che)
<1>1. Che # Cluster
  BY DEF Che, Shared, Cluster
<1>2. /\ NS(Che) \notin OwnedByWorkshop /\ NS(Che)[1] = Cluster
      /\ \A a : /\ In(Che, a) \notin OwnedByWorkshop /\ In(Che, a)[1] = Che
                /\ ~IsNamespace(In(Che, a))
  BY <1>1, Namespaced
<1> QED
  BY <1>1, <1>2 DEF CheObjects

LEMMA EmptyScript == Installing(<<>>, {}, {}) /\ Removing(<<>>, {}, {}) /\ Tidy(<<>>)
<1>1. Len(<<>>) = 0
  OBVIOUS
<1>2. \A ops : Acts(<<>>, ops) = {}
  BY <1>1 DEF Acts
<1>3. IsScript(<<>>) /\ InOrder(<<>>)
  BY <1>1 DEF IsScript, InOrder
<1> QED
  BY <1>2, <1>3 DEF Installing, Removing, Tidy, Sightless

RolesUnless(oauth) == IF oauth THEN {} ELSE CheRoles

LEMMA CodeReadyInstalls ==
  ASSUME NEW oauth \in BOOLEAN
  PROVE  \E asked : /\ Installing(CodeReadyInstall(oauth), CheObjects \cup RolesUnless(oauth),
                                  asked)
                    /\ WorkspacesOf(Users) \subseteq asked
<1> DEFINE roles == IF oauth THEN <<>> ELSE Makes(<<Glob("che clusterrole"), Glob("che crb")>>)
           users == PerUser([id \in 1..Users |-> Account(oauth, id) \o InitWorkspace(id)],
                            IF oauth THEN 3 ELSE 2, Users)
<1>1. CodeReadyInstall(oauth) = (CheStart \o roles) \o users
  BY DEF CodeReadyInstall, CheStart
<1>2. Installing(roles, RolesUnless(oauth), {})
  <2>1. CASE oauth
    BY <2>1, EmptyScript DEF RolesUnless
  <2>2. CASE ~oauth
    <3>1. Installing(Makes(<<Glob("che clusterrole"), Glob("che crb")>>),
                     {Glob("che clusterrole"), Glob("che crb")}, {})
      BY MadeLists
    <3> QED
      BY <2>2, <3>1 DEF RolesUnless, CheRoles
  <2> QED
    BY <2>1, <2>2
<1>3. PICK asked : Installing(users, {}, asked) /\ WorkspacesOf(Users) \subseteq asked
  BY CheWorkspaces
<1> HIDE DEF roles, users
<1>4. PICK start : Installing(CheStart, CheObjects, start)
  BY CheStarts
<1>5. Installing(CheStart \o roles, CheObjects \cup RolesUnless(oauth), start \cup {})
  BY <1>2, <1>4, InstallsInTurn
<1>6. Installing((CheStart \o roles) \o users, CheObjects \cup RolesUnless(oauth) \cup {},
                 start \cup {} \cup asked)
  BY <1>3, <1>5, InstallsInTurn
<1>7. CheObjects \cup RolesUnless(oauth) \cup {} = CheObjects \cup RolesUnless(oauth)
  OBVIOUS
<1> QED
  BY <1>1, <1>3, <1>6, <1>7

WorkspacesTeardown == PerUser([id \in 1..Users |-> <<Drop(NS(Workspace(id)))>>], 1, Users)

LEMMA WorkspacesRemoved ==
  Removing(WorkspacesTeardown, WorkspacesOf(Users), {}) /\ Tidy(WorkspacesTeardown)
<1> DEFINE F == [id \in 1..Users |-> <<Drop(NS(Workspace(id)))>>]
           gone == [id \in 1..Users |-> {NS(Workspace(id))}]
<1>1. /\ Users \in Nat
      /\ \A id \in 1..Users : /\ Removing(F[id], gone[id], {}) /\ Len(F[id]) = 1
                              /\ Sightless(F[id])
  BY SingleSteps, PlansAssumption DEF Tidy
<1>2. Joined(gone, Users) = WorkspacesOf(Users)
  BY DEF Joined, WorkspacesOf
<1>3. WorkspacesTeardown = PerUser(F, 1, Users)
  BY DEF WorkspacesTeardown
<1>4. /\ Len(WorkspacesTeardown) = Users
      /\ \A i \in 1..Users : WorkspacesTeardown[i] = Drop(NS(Workspace(i)))
  <2>1. \A i \in 1..Users : F[i][1] = Drop(NS(Workspace(i)))
    OBVIOUS
  <2> HIDE DEF F
  <2> QED
    BY <1>1, <1>3, <2>1, OneEach
<1> HIDE DEF F, gone
<1>5. Removing(WorkspacesTeardown, WorkspacesOf(Users), {}) /\ Sightless(WorkspacesTeardown)
  BY <1>1, <1>2, <1>3, RemovesForAll
<1>6. InOrder(WorkspacesTeardown)
  <2>1. \A i, j \in 1..Users : i # j => Apart(NS(Workspace(i)), NS(Workspace(j)))
    BY DEF Apart, NS, Workspace, OfUser
  <2>2. \A i \in 1..Users : WorkspacesTeardown[i].obj = NS(Workspace(i))
    BY <1>4 DEF Drop, Does
  <2> QED
    BY <1>1, <1>4, <2>1, <2>2 DEF InOrder
<1>7. Acts(WorkspacesTeardown, {"require"}) = {}
  BY <1>4 DEF Acts, Drop, Does
<1> QED
  BY <1>5, <1>6, <1>7 DEF Tidy

GoneUnless(oauth) == IF oauth THEN {} ELSE WorkspacesOf(Users) \cup CheRoles

LEMMA CodeReadyRemoves ==
  ASSUME NEW oauth \in BOOLEAN
  PROVE  /\ Removing(CodeReadyTeardown(oauth), GoneUnless(oauth) \cup CheObjects, {})
         /\ Tidy(CodeReadyTeardown(oauth))
<1> DEFINE roles == Drops(<<Glob("che clusterrole"), Glob("che crb")>>)
           users == IF oauth THEN <<>> ELSE WorkspacesTeardown \o roles
           rest == Drops(<<In(Che, "che cr"), In(Che, "sub"), In(Che, "operatorgroup"), NS(Che)>>)
<1>1. CodeReadyTeardown(oauth) = users \o rest
  BY DEF CodeReadyTeardown, WorkspacesTeardown
<1>2. Removing(rest, CheObjects, {}) /\ Tidy(rest)
  <2>1. Removing(rest, {In(Che, "che cr"), In(Che, "sub"), In(Che, "operatorgroup"), NS(Che)}, {})
    BY DroppedLists
  <2>2. {In(Che, "che cr"), In(Che, "sub"), In(Che, "operatorgroup"), NS(Che)} = CheObjects
    BY DEF CheObjects
  <2>3. /\ Apart(In(Che, "sub"), In(Che, "che cr"))
        /\ Apart(In(Che, "operatorgroup"), In(Che, "che cr"))
        /\ Apart(In(Che, "operatorgroup"), In(Che, "sub"))
        /\ Apart(NS(Che), In(Che, "che cr")) /\ Apart(NS(Che), In(Che, "sub"))
        /\ Apart(NS(Che), In(Che, "operatorgroup"))
    BY DEF Apart, In, NS, Che, Shared, Cluster
  <2>4. Tidy(rest)
    BY <2>3, TidyLists
  <2> QED
    BY <2>1, <2>2, <2>4
<1>3. Removing(roles, CheRoles, {}) /\ Tidy(roles)
  <2>1. Apart(Glob("che crb"), Glob("che clusterrole"))
    BY Globs
  <2>2. Removing(roles, {Glob("che clusterrole"), Glob("che crb")}, {})
    BY DroppedLists
  <2>3. Tidy(roles)
    BY <2>1, TidyLists
  <2> QED
    BY <2>2, <2>3 DEF CheRoles
<1>4. \A o \in CheRoles : \A q \in WorkspacesOf(Users) : Apart(o, q)
  <2>1. \A o \in CheRoles : \A m : Apart(o, NS(m))
    <3>1. \A m : Apart(Glob("che clusterrole"), NS(m)) /\ Apart(Glob("che crb"), NS(m))
      BY DEF Apart, Glob, NS
    <3> QED
      BY <3>1 DEF CheRoles
  <2> QED
    BY <2>1 DEF WorkspacesOf
<1>5. \A o \in CheObjects : \A q \in GoneUnless(oauth) : Apart(o, q)
  <2>1. \A o \in CheObjects : \A q \in CheRoles : Apart(o, q)
    <3>1. \A b : b # "namespace" => \A o \in CheObjects : Apart(o, Glob(b))
      BY CheKnown, Separate DEF CheObjects
    <3> QED
      BY <3>1 DEF CheRoles
  <2>2. \A o \in CheObjects : \A id \in 1..Users : Apart(o, NS(Workspace(id)))
    <3>1. \A m : m # Che => \A o \in CheObjects : Apart(o, NS(m))
      BY CheKnown, Separate DEF CheObjects
    <3>2. \A id \in 1..Users : Workspace(id) # Che
      BY DEF Workspace, OfUser, Che, Shared
    <3> QED
      BY <3>1, <3>2
  <2>3. \A o \in CheObjects : \A q \in WorkspacesOf(Users) : Apart(o, q)
    BY <2>2 DEF WorkspacesOf
  <2> QED
    BY <2>1, <2>3 DEF GoneUnless
<1> HIDE DEF roles, rest
<1>6. Removing(WorkspacesTeardown \o roles, WorkspacesOf(Users) \cup CheRoles, {} \cup {})
      /\ Tidy(WorkspacesTeardown \o roles)
  <2>1. \A o \in CheRoles \cup {} : \A q \in WorkspacesOf(Users) \cup {} : Apart(o, q)
    BY <1>4
  <2> QED
    BY <1>3, <2>1, WorkspacesRemoved, RemovesInTurn, TidyInTurn
<1>7. Removing(users, GoneUnless(oauth), {}) /\ Tidy(users)
  <2>1. CASE oauth
    BY <2>1, EmptyScript DEF GoneUnless
  <2>2. CASE ~oauth
    <3>1. users = WorkspacesTeardown \o roles
          /\ GoneUnless(oauth) = WorkspacesOf(Users) \cup CheRoles
      BY <2>2 DEF GoneUnless
    <3>2. {} \cup {} = {}
      OBVIOUS
    <3> HIDE DEF users
    <3> QED
      BY <1>6, <3>1, <3>2
  <2> QED
    BY <2>1, <2>2
<1> HIDE DEF users
<1>8. Removing(users \o rest, GoneUnless(oauth) \cup CheObjects, {} \cup {})
      /\ Tidy(users \o rest)
  <2>1. \A o \in CheObjects \cup {} : \A q \in GoneUnless(oauth) \cup {} : Apart(o, q)
    BY <1>5
  <2> QED
    BY <1>2, <1>7, <2>1, RemovesInTurn, TidyInTurn
<1>9. {} \cup {} = {}
  OBVIOUS
<1> QED
  BY <1>1, <1>8, <1>9

LEMMA CodeReadyShapes ==
  ASSUME NEW p \in PlanNames, NEW oauth \in BOOLEAN,
         InstallScript(p) = CodeReadyInstall(oauth), TeardownScript(p) = CodeReadyTeardown(oauth)
  PROVE  Code!Anchored(p) /\ Code!Covered(p) /\ Code!Orderly(p)
<1> DEFINE made == CheObjects \cup RolesUnless(oauth)
           gone == GoneUnless(oauth) \cup CheObjects
<1>1. PICK asked : Installing(CodeReadyInstall(oauth), made, asked)
                   /\ WorkspacesOf(Users) \subseteq asked
  BY CodeReadyInstalls
<1>2. Che # Cluster
  BY CheKnown
<1>3. \A o \in made : o \notin OwnedByWorkshop /\ (IsNamespace(o) => o = NS(Che))
  <2>1. \A o \in CheRoles : o \notin OwnedByWorkshop /\ ~IsNamespace(o)
    BY GlobsApart DEF CheRoles
  <2>2. \A o \in CheObjects : o \notin OwnedByWorkshop /\ (IsNamespace(o) => o = NS(Che))
    BY CheKnown
  <2> QED
    BY <2>1, <2>2 DEF RolesUnless
<1>4. /\ NS(Che) \in made /\ NS(Che)[1] = Cluster
      /\ In(Che, "sub") \in made /\ HomeOf(In(Che, "sub")) = NS(Che)
  BY <1>2, Namespaced DEF CheObjects
<1>5. made \subseteq gone /\ gone \subseteq made \cup WorkspacesOf(Users)
  BY DEF RolesUnless, GoneUnless
<1>6. \A o \in gone : o[1] \in {Cluster, Che}
  <2>1. \A o \in CheObjects : o[1] \in {Cluster, Che}
    BY CheKnown
  <2>2. \A o \in CheRoles : o[1] = Cluster
    BY Globs DEF CheRoles
  <2>3. \A o \in WorkspacesOf(Users) : o[1] = Cluster
    BY DEF WorkspacesOf, NS
  <2> QED
    BY <2>1, <2>2, <2>3 DEF GoneUnless
<1>7. Removing(TeardownScript(p), gone, {}) /\ Tidy(TeardownScript(p))
  BY CodeReadyRemoves
<1> HIDE DEF made, gone
<1>8. Code!Anchored(p)
  BY <1>1, <1>3, <1>4, AnchoredWhen
<1>9. Code!Covered(p)
  BY <1>1, <1>5, <1>7, CoveredWhen DEF Tidy
<1>10. \A o \in gone \cup {} : o \in made \cup asked
       /\ (o[1] # Cluster => NS(o[1]) \in made \cup asked)
  BY <1>1, <1>4, <1>5, <1>6
<1>11. Code!Orderly(p)
  BY <1>1, <1>7, <1>10, OrderlyWhen
<1> QED
  BY <1>8, <1>9, <1>11

LEMMA CodeReadyShape ==
  \A p \in {"CodeReady", "CodeReadyOAuth"} : Code!Anchored(p) /\ Code!Covered(p)
    /\ Code!Orderly(p)
<1>1. /\ InstallScript("CodeReady") = CodeReadyInstall(FALSE)
      /\ TeardownScript("CodeReady") = CodeReadyTeardown(FALSE)
      /\ InstallScript("CodeReadyOAuth") = CodeReadyInstall(TRUE)
      /\ TeardownScript("CodeReadyOAuth") = CodeReadyTeardown(TRUE)
  BY DEF InstallScript, TeardownScript, InstallPlan, TeardownPlan
<1>2. "CodeReady" \in PlanNames /\ "CodeReadyOAuth" \in PlanNames
  BY DEF PlanNames
<1>3. Code!Anchored("CodeReady") /\ Code!Covered("CodeReady") /\ Code!Orderly("CodeReady")
  BY <1>1, <1>2, CodeReadyShapes
<1>4. /\ Code!Anchored("CodeReadyOAuth") /\ Code!Covered("CodeReadyOAuth")
      /\ Code!Orderly("CodeReadyOAuth")
  BY <1>1, <1>2, CodeReadyShapes
<1> QED
  BY <1>3, <1>4

(* Project.                                                                *)
StagingObjects(id) ==
  {NS(Staging(id)), In(Staging(id), "project rb"), In(Staging(id), "default rb"),
   In(Staging(id), "argocd rb")}
ProjectObjects == UNION {StagingObjects(id) : id \in 1..Users}

LEMMA StagingKnown ==
  ASSUME NEW id
  PROVE  /\ Staging(id) # Cluster
         /\ \A o \in StagingObjects(id) :
              o \notin OwnedByWorkshop /\ (IsNamespace(o) => o = NS(Staging(id)))
         /\ NS(Staging(id)) \in StagingObjects(id) /\ NS(Staging(id))[1] = Cluster
         /\ In(Staging(id), "project rb") \in StagingObjects(id)
         /\ HomeOf(In(Staging(id), "project rb")) = NS(Staging(id))
<1>1. Staging(id) # Cluster
  BY DEF Staging, OfUser, Cluster, Shared
<1>2. /\ NS(Staging(id)) \notin OwnedByWorkshop /\ NS(Staging(id))[1] = Cluster
      /\ \A a : /\ In(Staging(id), a) \notin OwnedByWorkshop
                /\ ~IsNamespace(In(Staging(id), a))
                /\ HomeOf(In(Staging(id), a)) = NS(Staging(id))
  BY <1>1, Namespaced
<1> QED
  BY <1>1, <1>2 DEF StagingObjects

LEMMA ProjectInstalls == Installing(ProjectInstall, ProjectObjects, {})
<1> DEFINE F == [id \in 1..Users |->
                   Makes(<<NS(Staging(id)), In(Staging(id), "project rb"),
                           In(Staging(id), "default rb"), In(Staging(id), "argocd rb")>>)]
           made == [id \in 1..Users |-> StagingObjects(id)]
           none == [id \in 1..Users |-> {}]
<1>1. \A id \in 1..Users : Installing(F[id], made[id], none[id]) /\ Len(F[id]) = 4
  BY MadeLists DEF StagingObjects
<1>2. Users \in Nat
  BY PlansAssumption
<1>3. Joined(made, Users) = ProjectObjects /\ Joined(none, Users) = {}
  BY DEF Joined, ProjectObjects
<1>4. ProjectInstall = PerUser(F, 4, Users)
  BY DEF ProjectInstall
<1> HIDE DEF F, made, none
<1>5. Installing(PerUser(F, 4, Users), Joined(made, Users), Joined(none, Users))
  BY <1>1, <1>2, InstallsForAll
<1> QED
  BY <1>3, <1>4, <1>5

LEMMA ProjectAnchors ==
  ASSUME NEW p \in PlanNames, NEW more, NEW asked,
         Installing(InstallScript(p), ProjectObjects \cup more, asked),
         \A o \in more :
           /\ o \notin OwnedByWorkshop
           /\ IsNamespace(o) => \E q \in more : HomeOf(q) = o
  PROVE  Code!Anchored(p)
<1> DEFINE made == ProjectObjects \cup more
<1>1. 1 \in 1..Users
  BY PlansAssumption
<1>2. NS(Staging(1)) \in made /\ NS(Staging(1))[1] = Cluster
  BY <1>1, StagingKnown DEF ProjectObjects
<1>3. ASSUME NEW o \in made
      PROVE  o \notin OwnedByWorkshop /\ (IsNamespace(o) => \E q \in made : HomeOf(q) = o)
  <2>1. CASE o \in more
    BY <2>1
  <2>2. CASE o \in ProjectObjects
    <3>1. PICK id \in 1..Users : o \in StagingObjects(id)
      BY <2>2 DEF ProjectObjects
    <3>2. In(Staging(id), "project rb") \in made
      BY StagingKnown DEF ProjectObjects
    <3> QED
      BY <3>1, <3>2, StagingKnown
  <2> QED
    BY <2>1, <2>2
<1> HIDE DEF made
<1>4. Installing(InstallScript(p), made, asked)
  BY DEF made
<1> QED
  BY <1>2, <1>3, <1>4, AnchoredWhen

LEMMA ProjectShape == Code!Anchored("Project")
<1>1. InstallScript("Project") = ProjectInstall /\ "Project" \in PlanNames
  BY DEF InstallScript, InstallPlan, PlanNames
<1>2. ProjectObjects = ProjectObjects \cup {}
  OBVIOUS
<1>3. Installing(InstallScript("Project"), ProjectObjects \cup {}, {})
  BY <1>1, <1>2, ProjectInstalls
<1> QED
  BY <1>1, <1>3, ProjectAnchors

ProjectLooks ==
  PerUser([id \in 1..Users - 1 |-> <<LookAt(NS(Staging(id)), (Users - 1 - id) + 8)>>],
          1, Users - 1)

LEMMA ProjectTeardownRuns ==
  /\ IsScript(ProjectTeardown)
  /\ Reach(ProjectTeardown, Len(ProjectTeardown))
<1> DEFINE n == Users - 1
           F == [id \in 1..n |-> <<LookAt(NS(Staging(id)), (n - id) + 8)>>]
           none == [id \in 1..n |-> {}]
<1>1. n \in Nat
  BY PlansAssumption
<1>2. ASSUME NEW id \in 1..n
      PROVE  /\ Removing(F[id], none[id], {}) /\ Len(F[id]) = 1
             /\ F[id][1].skip = (n - id) + 8
  <2>1. (n - id) + 8 \in Nat
    BY <1>1
  <2>2. Removing(F[id], {}, {})
    BY <2>1, SingleSteps
  <2> QED
    BY <2>2 DEF LookAt, Does
<1>3. ProjectLooks = PerUser(F, 1, n)
  BY DEF ProjectLooks
<1>4. Len(PerUser(F, 1, n)) = n /\ \A i \in 1..n : PerUser(F, 1, n)[i] = F[i][1]
  BY <1>1, OneEach
<1> HIDE DEF n, F, none
<1>5. Removing(ProjectLooks, Joined(none, n), {})
  BY <1>1, <1>2, <1>3, RemovesForAll
<1>6. \A i \in 1..n : ProjectLooks[i] = F[i][1]
  BY <1>3, <1>4
<1>7. Len(ProjectLooks) = n /\ Reach(ProjectLooks, n + 8)
  <2>1. \A i \in 1..n : i + ProjectLooks[i].skip = n + 8
    BY <1>1, <1>2, <1>6
  <2> QED
    BY <1>1, <1>3, <1>4, <2>1 DEF Reach
<1>8. ASSUME NEW id
      PROVE  /\ IsScript(StagingTeardown(id)) /\ Sightless(StagingTeardown(id))
             /\ Len(StagingTeardown(id)) = 4
  <2>1. Removing(StagingTeardown(id),
                 {In(Staging(id), "argocd rb"), In(Staging(id), "default rb"),
                  In(Staging(id), "project rb"), NS(Staging(id))}, {})
        /\ Sightless(StagingTeardown(id)) /\ Len(StagingTeardown(id)) = 4
    BY DroppedLists DEF StagingTeardown
  <2> QED
    BY <2>1 DEF Removing
<1>9. IsScript(ProjectLooks)
  BY <1>5 DEF Removing
<1> DEFINE s == ProjectLooks \o StagingTeardown(Users)
           t == s \o StagingTeardown(Users + 1)
<1>10. IsScript(s) /\ Len(s) = n + 4 /\ Reach(s, n + 8)
  <2>1. Len(s) = n + 4
    BY <1>7, <1>8, <1>9, ConcatLength
  <2> QED
    BY <1>7, <1>8, <1>9, <2>1, ConcatScript, ReachInTurn
<1> HIDE DEF s
<1>11. IsScript(t) /\ Len(t) = n + 8 /\ Reach(t, n + 8)
  <2>1. Len(t) = (n + 4) + 4
    BY <1>8, <1>10, ConcatLength
  <2>2. Len(t) = n + 8
    BY <1>1, <2>1
  <2> QED
    BY <1>8, <1>10, <2>2, ConcatScript, ReachInTurn
<1>12. ProjectTeardown = t
  BY DEF ProjectTeardown, ProjectLooks, s
<1> QED
  BY <1>11, <1>12

(* GitOps.                                                                 *)
RolesInArgoCD(id) ==
  {InFor(ArgoCD, id, "appproject"), In(Staging(id), "argocd role"),
   In(Staging(id), "argocd manager rb")}
ArgoStartObjects == {Glob("gitops sub")} \cup {} \cup {} \cup {NS(ArgoCD)}
ArgoListObjects == {In(ArgoCD, "secret"), In(ArgoCD, "configmap"), In(ArgoCD, "cr")}
ArgoEndObjects == {} \cup {In(ArgoCD, "cluster secret")}
ArgoRoleObjects == UNION {RolesInArgoCD(id) : id \in 1..Users}
ArgoObjects == ArgoStartObjects \cup ArgoRoleObjects \cup ArgoListObjects \cup ArgoEndObjects

LEMMA GitOpsInstalls == \E asked : Installing(GitOpsInstall, ArgoObjects, asked)
<1> DEFINE start == <<Make(Glob("gitops sub")),
                      WaitFor(Glob("gitops plan"), {Glob("gitops csv")}),
                      WaitFor(Glob("gitops operator"), {}), Make(NS(ArgoCD))>>
           F == [id \in 1..Users |->
                   Makes(<<InFor(ArgoCD, id, "appproject"), In(Staging(id), "argocd role"),
                           In(Staging(id), "argocd manager rb")>>)]
           list == Makes(<<In(ArgoCD, "secret"), In(ArgoCD, "configmap"), In(ArgoCD, "cr")>>)
           end == <<WaitFor(In(ArgoCD, "server"), {}), Make(In(ArgoCD, "cluster secret"))>>
           made == [id \in 1..Users |-> RolesInArgoCD(id)]
           none == [id \in 1..Users |-> {}]
<1>1. PICK q1 : Installing(start, ArgoStartObjects, q1)
  <2>1. /\ Installing(<<Make(Glob("gitops sub"))>>, {Glob("gitops sub")}, {})
        /\ Installing(<<WaitFor(Glob("gitops plan"), {Glob("gitops csv")})>>, {},
                      {Glob("gitops plan")} \cup {Glob("gitops csv")})
        /\ Installing(<<WaitFor(Glob("gitops operator"), {})>>, {},
                      {Glob("gitops operator")} \cup {})
        /\ Installing(<<Make(NS(ArgoCD))>>, {NS(ArgoCD)}, {})
    BY SingleSteps
  <2>2. Installing(start, {Glob("gitops sub")} \cup {} \cup {} \cup {NS(ArgoCD)},
                   {} \cup ({Glob("gitops plan")} \cup {Glob("gitops csv")})
                   \cup ({Glob("gitops operator")} \cup {}) \cup {})
    BY <2>1, InstallsRow4
  <2> QED
    BY <2>2 DEF ArgoStartObjects
<1>2. \A id \in 1..Users : Installing(F[id], made[id], none[id]) /\ Len(F[id]) = 3
  BY MadeLists DEF RolesInArgoCD
<1>3. Installing(list, ArgoListObjects, {})
  BY MadeLists DEF ArgoListObjects
<1>4. PICK q4 : Installing(end, ArgoEndObjects, q4)
  <2>1. /\ Installing(<<WaitFor(In(ArgoCD, "server"), {})>>, {}, {In(ArgoCD, "server")} \cup {})
        /\ Installing(<<Make(In(ArgoCD, "cluster secret"))>>, {In(ArgoCD, "cluster secret")}, {})
    BY SingleSteps
  <2>2. Installing(end, {} \cup {In(ArgoCD, "cluster secret")},
                   ({In(ArgoCD, "server")} \cup {}) \cup {})
    BY <2>1, InstallsRow2
  <2> QED
    BY <2>2 DEF ArgoEndObjects
<1>5. GitOpsInstall = ((start \o PerUser(F, 3, Users)) \o list) \o end
  BY DEF GitOpsInstall
<1>6. Joined(made, Users) = ArgoRoleObjects
  BY DEF Joined, ArgoRoleObjects
<1>7. Users \in Nat
  BY PlansAssumption
<1> HIDE DEF start, F, list, end, made, none
<1>8. Installing(PerUser(F, 3, Users), Joined(made, Users), Joined(none, Users))
  BY <1>2, <1>7, InstallsForAll
<1>9. Installing(start \o PerUser(F, 3, Users), ArgoStartObjects \cup Joined(made, Users),
                 q1 \cup Joined(none, Users))
  BY <1>1, <1>8, InstallsInTurn
<1>10. Installing((start \o PerUser(F, 3, Users)) \o list,
                  ArgoStartObjects \cup Joined(made, Users) \cup ArgoListObjects,
                  q1 \cup Joined(none, Users) \cup {})
  BY <1>3, <1>9, InstallsInTurn
<1>11. Installing(((start \o PerUser(F, 3, Users)) \o list) \o end,
                  ArgoStartObjects \cup Joined(made, Users) \cup ArgoListObjects
                      \cup ArgoEndObjects,
                  q1 \cup Joined(none, Users) \cup {} \cup q4)
  BY <1>4, <1>10, InstallsInTurn
<1>12. ArgoObjects
         = ArgoStartObjects \cup Joined(made, Users) \cup ArgoListObjects \cup ArgoEndObjects
  BY <1>6 DEF ArgoObjects
<1>13. Installing(GitOpsInstall, ArgoObjects, q1 \cup Joined(none, Users) \cup {} \cup q4)
  BY <1>5, <1>11, <1>12
<1> QED
  BY <1>13

LEMMA GitOpsShape == Code!Anchored("GitOps")
<1>1. InstallScript("GitOps") = ProjectInstall \o GitOpsInstall /\ "GitOps" \in PlanNames
  BY DEF InstallScript, InstallPlan, PlanNames
<1>2. PICK asked : Installing(GitOpsInstall, ArgoObjects, asked)
  BY GitOpsInstalls
<1>3. Installing(InstallScript("GitOps"), ProjectObjects \cup ArgoObjects, {} \cup asked)
  <2>1. Installing(ProjectInstall \o GitOpsInstall, ProjectObjects \cup ArgoObjects, {}
                   \cup asked)
    BY <1>2, ProjectInstalls, InstallsInTurn
  <2> QED
    BY <1>1, <2>1
<1>4. ArgoCD # Cluster
  BY DEF ArgoCD, Cluster, Shared
<1>5. \A o \in ArgoObjects : o \notin OwnedByWorkshop /\ (IsNamespace(o) => o = NS(ArgoCD))
  <2>1. \A o \in ArgoStartObjects : o \notin OwnedByWorkshop /\ (IsNamespace(o) => o = NS(ArgoCD))
    <3>1. Glob("gitops sub") \notin OwnedByWorkshop /\ ~IsNamespace(Glob("gitops sub"))
      BY GlobsApart
    <3>2. NS(ArgoCD) \notin OwnedByWorkshop
      BY <1>4, Namespaced
    <3> QED
      BY <3>1, <3>2 DEF ArgoStartObjects
  <2>2. \A o \in ArgoListObjects \cup ArgoEndObjects : o \notin OwnedByWorkshop /\ ~IsNamespace(o)
    <3>1. \A a : In(ArgoCD, a) \notin OwnedByWorkshop /\ ~IsNamespace(In(ArgoCD, a))
      BY <1>4, Namespaced
    <3> QED
      BY <3>1 DEF ArgoListObjects, ArgoEndObjects
  <2>3. ASSUME NEW id \in 1..Users, NEW o \in RolesInArgoCD(id)
        PROVE  o \notin OwnedByWorkshop /\ ~IsNamespace(o)
    <3>1. InFor(ArgoCD, id, "appproject") \notin OwnedByWorkshop
          /\ ~IsNamespace(InFor(ArgoCD, id, "appproject"))
      BY <1>4, Namespaced
    <3>2. \A a : In(Staging(id), a) \notin OwnedByWorkshop /\ ~IsNamespace(In(Staging(id), a))
      BY StagingKnown, Namespaced
    <3> QED
      BY <3>1, <3>2 DEF RolesInArgoCD
  <2>4. ASSUME NEW o \in ArgoObjects
        PROVE  \/ o \in ArgoStartObjects \cup ArgoListObjects \cup ArgoEndObjects
               \/ \E id \in 1..Users : o \in RolesInArgoCD(id)
    BY DEF ArgoObjects, ArgoRoleObjects
  <2> QED
    BY <2>1, <2>2, <2>3, <2>4
<1>6. In(ArgoCD, "cr") \in ArgoObjects /\ HomeOf(In(ArgoCD, "cr")) = NS(ArgoCD)
  <2>1. HomeOf(In(ArgoCD, "cr")) = NS(ArgoCD)
    BY <1>4, Namespaced
  <2>2. ArgoListObjects \subseteq ArgoObjects
    BY DEF ArgoObjects
  <2>3. In(ArgoCD, "cr") \in ArgoListObjects
    BY DEF ArgoListObjects
  <2> QED
    BY <2>1, <2>2, <2>3
<1> QED
  BY <1>1, <1>3, <1>5, <1>6, ProjectAnchors

LEMMA GitOpsTeardownRuns == IsScript(GitOpsTeardown) /\ Sightless(GitOpsTeardown)
<1> DEFINE start == Drops(<<In(ArgoCD, "cluster secret"), In(ArgoCD, "cr"),
                            In(ArgoCD, "configmap"),
                            In(ArgoCD, "secret")>>)
           F == [id \in 1..Users |->
                   Drops(<<In(Staging(id), "argocd manager rb"), In(Staging(id), "argocd role"),
                           InFor(ArgoCD, id, "appproject")>>)]
           list == Drops(<<Glob("gitops sub"), Glob("gitops csv"), NS(ArgoCD)>>)
           end == <<Need(NS(ArgoCD)), Need(In(ArgoCD, "cr"))>>
           gone == [id \in 1..Users |->
                      {In(Staging(id), "argocd manager rb"), In(Staging(id), "argocd role"),
                       InFor(ArgoCD, id, "appproject")}]
<1>1. \E g : Removing(start, g, {}) /\ Sightless(start)
  <2>1. Removing(start, {In(ArgoCD, "cluster secret"), In(ArgoCD, "cr"), In(ArgoCD, "configmap"),
                         In(ArgoCD, "secret")}, {}) /\ Sightless(start)
    BY DroppedLists
  <2> QED
    BY <2>1
<1>2. \A id \in 1..Users : Removing(F[id], gone[id], {}) /\ Sightless(F[id]) /\ Len(F[id]) = 3
  BY DroppedLists
<1>3. \E g : Removing(list, g, {}) /\ Sightless(list)
  <2>1. Removing(list, {Glob("gitops sub"), Glob("gitops csv"), NS(ArgoCD)}, {})
        /\ Sightless(list)
    BY DroppedLists
  <2> QED
    BY <2>1
<1>4. Removing(end, {}, {}) /\ Sightless(end)
  BY NeedsRow2
<1>5. GitOpsTeardown = ((start \o PerUser(F, 3, Users)) \o list) \o end
  BY DEF GitOpsTeardown
<1>6. Users \in Nat
  BY PlansAssumption
<1> HIDE DEF start, F, list, end, gone
<1>7. Removing(PerUser(F, 3, Users), Joined(gone, Users), {}) /\ Sightless(PerUser(F, 3, Users))
  BY <1>2, <1>6, RemovesForAll
<1>8. /\ IsScript(start) /\ IsScript(PerUser(F, 3, Users)) /\ IsScript(list) /\ IsScript(end)
      /\ Sightless(start) /\ Sightless(PerUser(F, 3, Users)) /\ Sightless(list) /\ Sightless(end)
  BY <1>1, <1>3, <1>4, <1>7 DEF Removing
<1> DEFINE s == start \o PerUser(F, 3, Users)
           t == s \o list
<1>9. IsScript(s) /\ Sightless(s)
  BY <1>8, ConcatScript, SightlessInTurn
<1> HIDE DEF s
<1>10. IsScript(t) /\ Sightless(t)
  BY <1>8, <1>9, ConcatScript, SightlessInTurn
<1> HIDE DEF t
<1>11. IsScript(t \o end) /\ Sightless(t \o end)
  BY <1>8, <1>10, ConcatScript, SightlessInTurn
<1> QED
  BY <1>5, <1>11 DEF s, t

(* Bookbag.                                                                *)
GuideObjects(id) ==
  {NS(Guides), InFor(Guides, id, "env"), InFor(Guides, id, "vars"), InFor(Guides, id, "sa"),
   InFor(Guides, id, "rb"), InFor(Guides, id, "deployment"), InFor(Guides, id, "service"),
   InFor(Guides, id, "route")}
BookbagObjects == UNION {GuideObjects(id) : id \in 1..Users}

LEMMA GuidesKnown ==
  /\ \A o \in BookbagObjects :
       /\ o \notin OwnedByWorkshop
       /\ o = NS(Guides) \/ HomeOf(o) = NS(Guides)
       /\ IsNamespace(o) => o = NS(Guides)
  /\ NS(Guides) \in BookbagObjects /\ NS(Guides)[1] = Cluster
  /\ \E o \in BookbagObjects : HomeOf(o) = NS(Guides)
<1>1. Guides # Cluster
  BY DEF Guides, Shared, Cluster
<1>2. /\ NS(Guides) \notin OwnedByWorkshop /\ NS(Guides)[1] = Cluster
      /\ \A id, a : /\ InFor(Guides, id, a) \notin OwnedByWorkshop
                    /\ ~IsNamespace(InFor(Guides, id, a))
                         /\ HomeOf(InFor(Guides, id, a)) = NS(Guides)
  BY <1>1, Namespaced
<1>3. ASSUME NEW id, NEW o \in GuideObjects(id)
      PROVE  /\ o \notin OwnedByWorkshop
             /\ o = NS(Guides) \/ HomeOf(o) = NS(Guides)
             /\ IsNamespace(o) => o = NS(Guides)
  BY <1>2 DEF GuideObjects
<1>4. 1 \in 1..Users
  BY PlansAssumption
<1>5. NS(Guides) \in GuideObjects(1) /\ InFor(Guides, 1, "sa") \in GuideObjects(1)
  BY DEF GuideObjects
<1> QED
  BY <1>2, <1>3, <1>4, <1>5 DEF BookbagObjects

LEMMA BookbagInstalls == Installing(BookbagInstall, BookbagObjects, {})
<1> DEFINE F == [id \in 1..Users |->
                   Makes(<<NS(Guides), InFor(Guides, id, "env"), InFor(Guides, id, "vars"),
                           InFor(Guides, id, "sa"), InFor(Guides, id, "rb"),
                           InFor(Guides, id, "deployment"), InFor(Guides, id, "service"),
                           InFor(Guides, id, "route")>>)]
           made == [id \in 1..Users |-> GuideObjects(id)]
           none == [id \in 1..Users |-> {}]
<1>1. \A id \in 1..Users : Installing(F[id], made[id], none[id]) /\ Len(F[id]) = 8
  BY MadeLists DEF GuideObjects
<1>2. Users \in Nat
  BY PlansAssumption
<1>3. Joined(made, Users) = BookbagObjects /\ Joined(none, Users) = {}
  BY DEF Joined, BookbagObjects
<1>4. BookbagInstall = PerUser(F, 8, Users)
  BY DEF BookbagInstall
<1> HIDE DEF F, made, none
<1>5. Installing(PerUser(F, 8, Users), Joined(made, Users), Joined(none, Users))
  BY <1>1, <1>2, InstallsForAll
<1> QED
  BY <1>3, <1>4, <1>5

GuidesGone(id) ==
  {InFor(Guides, id, "route"), InFor(Guides, id, "service"), InFor(Guides, id, "deployment"),
   InFor(Guides, id, "rb"), InFor(Guides, id, "sa"), InFor(Guides, id, "vars"),
   InFor(Guides, id, "env")}

(* No loop of the teardown leads over its last step, which deletes the     *)
(* namespace.                                                              *)
LEMMA BookbagTeardownRuns ==
  /\ IsScript(BookbagTeardown)
  /\ Len(BookbagTeardown) = 8 * Users + 8
  /\ Reach(BookbagTeardown, 8 * Users + 7)
  /\ BookbagTeardown[8 * Users + 8] = Drop(NS(Guides))
<1> DEFINE skip(id) == 8 * (Users - id) + 7
           F == [id \in 1..Users |->
                   GuideTeardown(id) \o <<LookAt(InFor(Guides, id, "deployment"), skip(id))>>]
           gone == [id \in 1..Users |-> GuidesGone(id)]
<1>1. Users \in Nat /\ 8 * Users \in Nat
  BY PlansAssumption
<1>2. ASSUME NEW id
      PROVE  /\ Removing(GuideTeardown(id), GuidesGone(id), {}) /\ Sightless(GuideTeardown(id))
             /\ Len(GuideTeardown(id)) = 7 /\ IsScript(GuideTeardown(id))
  <2>1. /\ Removing(GuideTeardown(id), GuidesGone(id), {}) /\ Sightless(GuideTeardown(id))
        /\ Len(GuideTeardown(id)) = 7
    BY DroppedLists DEF GuideTeardown, GuidesGone
  <2> QED
    BY <2>1 DEF Removing
<1>3. ASSUME NEW id \in 1..Users
      PROVE  /\ Removing(F[id], gone[id], {}) /\ Len(F[id]) = 8
             /\ \A c \in 1..8 : F[id][c].op = "look" => c = 8
                  /\ F[id][c].skip = 8 * (Users - id) + 7
  <2> DEFINE look == <<LookAt(InFor(Guides, id, "deployment"), skip(id))>>
  <2>0. Len(GuideTeardown(id)) = 7 /\ IsScript(GuideTeardown(id))
    BY <1>2
  <2>1. skip(id) \in Nat
    BY <1>1
  <2>2. Removing(look, {}, {}) /\ Len(look) = 1 /\ look[1].skip = 8 * (Users - id) + 7
    BY <2>1, SingleSteps DEF LookAt, Does
  <2>3. F[id] = GuideTeardown(id) \o look
    OBVIOUS
  <2> HIDE DEF look, F
  <2>4. Removing(F[id], GuidesGone(id) \cup {}, {} \cup {})
    BY <1>2, <2>2, <2>3, RemovesInTurn
  <2>5. GuidesGone(id) \cup {} = gone[id] /\ {} \cup {} = {}
    OBVIOUS
  <2>6. IsScript(look)
    BY <2>2 DEF Removing
  <2>7. Len(F[id]) = Len(GuideTeardown(id)) + Len(look)
    BY <2>0, <2>3, <2>6, ConcatLength
  <2>8. F[id][8] = look[1]
    <3>1. (GuideTeardown(id) \o look)[Len(GuideTeardown(id)) + 1] = look[1]
      BY <2>0, <2>2, <2>6, ConcatLast
    <3>2. Len(GuideTeardown(id)) + 1 = 8
      BY <2>0
    <3> QED
      BY <2>3, <3>1, <3>2
  <2>9. ASSUME NEW c \in 1..7 PROVE F[id][c].op # "look"
    <3>1. F[id][c] = GuideTeardown(id)[c]
      BY <1>2, <2>3, <2>6, ConcatPlaces
    <3>2. GuideTeardown(id)[c].op # "look"
      BY <1>2 DEF Sightless, Acts
    <3> QED
      BY <3>1, <3>2
  <2>10. Len(F[id]) = 8
    BY <2>0, <2>2, <2>7
  <2> QED
    BY <2>2, <2>4, <2>5, <2>8, <2>9, <2>10
<1> DEFINE loop == PerUser(F, 8, Users)
<1>4. BookbagTeardown = (loop \o GuideTeardown(Users + 1)) \o <<Drop(NS(Guides))>>
  BY DEF BookbagTeardown
<1> HIDE DEF F, gone
<1>5. Removing(loop, Joined(gone, Users), {})
  BY <1>1, <1>3, RemovesForAll
<1>6. IsScript(loop) /\ Len(loop) = 8 * Users
  <2>1. IsScript(loop)
    BY <1>5 DEF Removing
  <2>2. \A id \in 1..Users : Len(F[id]) = 8
    BY <1>3
  <2> QED
    BY <1>1, <2>1, <2>2, PerUserSteps
<1>7. ASSUME NEW i \in 1..8 * Users, loop[i].op = "look"
      PROVE  i + loop[i].skip <= 8 * Users + 7
  <2> DEFINE id == ((i - 1) \div 8) + 1
             c == ((i - 1) % 8) + 1
  <2>1. loop[i] = F[id][c]
    BY <1>7 DEF PerUser
  <2>2. id \in 1..Users /\ c \in 1..8
    BY <1>1, Places
  <2>3. i = 8 * (id - 1) + c
    BY <1>1
  <2> HIDE DEF id, c
  <2>4. c = 8 /\ loop[i].skip = 8 * (Users - id) + 7
    BY <1>3, <1>7, <2>1, <2>2
  <2> QED
    BY <1>1, <2>2, <2>3, <2>4
<1>8. Reach(loop, 8 * Users + 7)
  BY <1>6, <1>7 DEF Reach
<1> HIDE DEF loop
<1> DEFINE s == loop \o GuideTeardown(Users + 1)
           last == <<Drop(NS(Guides))>>
<1>9. IsScript(s) /\ Len(s) = 8 * Users + 7 /\ Reach(s, 8 * Users + 7)
  <2>1. Len(s) = 8 * Users + 7
    BY <1>2, <1>6, ConcatLength
  <2> QED
    BY <1>2, <1>6, <1>8, <2>1, ConcatScript, ReachInTurn
<1>10. IsScript(last) /\ Sightless(last) /\ Len(last) = 1 /\ last[1] = Drop(NS(Guides))
  BY SingleSteps DEF Removing, Tidy
<1> HIDE DEF s, last
<1>11. /\ IsScript(s \o last) /\ Reach(s \o last, 8 * Users + 7)
       /\ Len(s \o last) = 8 * Users + 8
       /\ (s \o last)[8 * Users + 8] = last[1]
  <2>1. Len(s \o last) = (8 * Users + 7) + 1 /\ (s \o last)[(8 * Users + 7) + 1] = last[1]
    <3>0. IsScript(s) /\ IsScript(last)
      BY <1>9, <1>10
    <3>1. Len(s \o last) = Len(s) + Len(last)
      BY <3>0, ConcatLength
    <3>2. \A i \in 1..Len(last) : (s \o last)[Len(s) + i] = last[i]
      BY <3>0, ConcatPlaces
    <3> QED
      BY <1>9, <1>10, <3>1, <3>2
  <2>2. (8 * Users + 7) + 1 = 8 * Users + 8
    BY <1>1
  <2> QED
    BY <1>9, <1>10, <2>1, <2>2, ConcatScript, ReachInTurn
<1> QED
  BY <1>4, <1>10, <1>11 DEF s, last

LEMMA BookbagShape == Code!Anchored("Bookbag") /\ Code!Covered("Bookbag")
<1>1. /\ InstallScript("Bookbag") = BookbagInstall /\ TeardownScript("Bookbag") = BookbagTeardown
      /\ "Bookbag" \in PlanNames
  BY DEF InstallScript, TeardownScript, InstallPlan, TeardownPlan, PlanNames
<1>2. Code!Anchored("Bookbag")
  BY <1>1, BookbagInstalls, GuidesKnown, AnchoredWhen
<1>3. Code!Covered("Bookbag")
  <2> DEFINE t == BookbagTeardown
             k == 8 * Users + 8
  <2>1. Code!Owned("Bookbag") = BookbagObjects
    <3>1. Acts(BookbagInstall, {"create", "createIfMissing"}) = BookbagObjects
      BY BookbagInstalls, ActsTogether DEF Installing
    <3> QED
      BY <1>1, <3>1 DEF Code!Owned, Acts
  <2>2. k \in 1..Len(t) /\ t[k].op = "delete" /\ t[k].obj = NS(Guides)
    <3>1. k \in 1..Len(t)
      BY BookbagTeardownRuns, PlansAssumption
    <3> QED
      BY <3>1, BookbagTeardownRuns DEF Drop, Does
  <2>3. ~Code!Skipped("Bookbag", k)
    <3>1. \A j \in 1..Len(t) : t[j].op = "look" => j + t[j].skip <= 8 * Users + 7
      BY BookbagTeardownRuns DEF Reach
    <3>2. \A j \in 1..Len(t) : t[j].skip \in Nat
      BY BookbagTeardownRuns, ScriptSteps
    <3>3. ASSUME NEW j \in 1..Len(t), t[j].op = "look" PROVE ~(k <= j + t[j].skip)
      <4>1. j + t[j].skip <= 8 * Users + 7 /\ t[j].skip \in Nat /\ Users \in Nat
        BY <3>1, <3>2, <3>3, PlansAssumption
      <4> QED
        BY <4>1
    <3> QED
      BY <1>1, <3>3 DEF Code!Skipped, Code!Steps
  <2>4. k \in Code!Steps(TeardownScript("Bookbag"), {"delete"})
    BY <1>1, <2>2 DEF Code!Steps
  <2>5. BookbagObjects \subseteq ApiObjects(PlanNames)
    <3>1. BookbagObjects \subseteq ObjectsOf(BookbagInstall)
      BY BookbagInstalls, ScriptSteps DEF Installing, Acts
    <3> QED
      BY <1>1, <3>1, ScriptObjects
  <2>6. \A o \in BookbagObjects :
          TeardownScript("Bookbag")[k].obj \in {o, HomesOf(ApiObjects(PlanNames), Nowhere)[o]}
    BY <1>1, <2>2, <2>5, GuidesKnown, HomesAre
  <2> HIDE DEF k
  <2> QED
    BY <1>1, <2>1, <2>3, <2>4, <2>6 DEF Code!Covered
<1> QED
  BY <1>2, <1>3

(* Vault: nothing holds of it but that its scripts are scripts.            *)
LEMMA MakeIfMissingScript == ASSUME NEW o PROVE IsScript(<<MakeIfMissing(o)>>)
<1>1. "createIfMissing" \in Ops /\ 0 \in Nat
  BY DEF Ops
<1> QED
  BY <1>1, OneStep DEF MakeIfMissing

LEMMA VaultInstallRuns == IsScript(VaultInstall)
<1> DEFINE a == Makes(<<NS(Vault), In(Vault, "configmap"), In(Vault, "sa")>>)
           b == <<MakeIfMissing(Glob("vault scc"))>>
           c == Makes(<<Glob("vault crb"), In(Vault, "internal service"), In(Vault, "service"),
                        In(Vault, "statefulset")>>)
           d == Makes(<<NS(Vault), In(Vault, "agent sa")>>)
           e == Makes(<<Glob("agent clusterrole"), Glob("agent crb"), In(Vault, "agent service"),
                        In(Vault, "agent deployment"), Glob("agent webhook")>>)
<1>1. \A s, m : Installing(s, m, {}) => IsScript(s)
  BY DEF Installing
<1>2. IsScript(a) /\ IsScript(c) /\ IsScript(d) /\ IsScript(e)
  BY <1>1, MadeLists
<1>3. IsScript(b)
  BY MakeIfMissingScript
<1>4. VaultServerInstall = (a \o b) \o c /\ AgentInjectorInstall = (d \o b) \o e
  BY DEF VaultServerInstall, AgentInjectorInstall
<1> HIDE DEF a, b, c, d, e
<1>5. \A s, t : IsScript(s) /\ IsScript(t) => IsScript(s \o t)
  BY ConcatScript
<1>6. IsScript(VaultServerInstall) /\ IsScript(AgentInjectorInstall)
  BY <1>2, <1>3, <1>4, <1>5
<1> QED
  BY <1>5, <1>6 DEF VaultInstall

LEMMA VaultTeardownRuns == IsScript(VaultTeardown) /\ Sightless(VaultTeardown)
<1> DEFINE Plain(s) == IsScript(s) /\ Sightless(s)
           a == Drops(<<In(Vault, "statefulset"), In(Vault, "service"),
                        In(Vault, "internal service"), Glob("vault crb")>>)
           b == <<DropIfFound(Glob("vault scc"))>>
           c == Drops(<<In(Vault, "sa"), In(Vault, "configmap")>>)
           d == Drops(<<Glob("agent webhook"), In(Vault, "agent deployment"),
                        In(Vault, "agent service"), Glob("agent crb"),
                            Glob("agent clusterrole")>>)
           f == <<Drop(In(Vault, "agent sa"))>>
           g == <<Drop(NS(Vault))>>
<1>1. \A s, m, n : Removing(s, m, n) /\ Sightless(s) => Plain(s)
  BY DEF Removing
<1>2. Plain(a) /\ Plain(c) /\ Plain(d)
  BY <1>1, DroppedLists
<1>3. Plain(b) /\ Plain(f) /\ Plain(g)
  BY <1>1, SingleSteps DEF Tidy
<1>4. <<DropIfFound(Glob("vault scc")), Drop(In(Vault, "agent sa"))>> = b \o f
  BY RowsGrow
<1>5. /\ VaultServerTeardown = (a \o b) \o c
      /\ AgentInjectorTeardown = d \o (b \o f)
      /\ VaultTeardown = (VaultServerTeardown \o AgentInjectorTeardown) \o g
  BY <1>4 DEF VaultServerTeardown, AgentInjectorTeardown, VaultTeardown
<1>6. \A s, t : Plain(s) /\ Plain(t) => Plain(s \o t)
  BY ConcatScript, SightlessInTurn
<1> HIDE DEF Plain, a, b, c, d, f, g
<1>7. Plain(VaultServerTeardown)
  BY <1>2, <1>3, <1>5, <1>6
<1>8. Plain(AgentInjectorTeardown)
  BY <1>2, <1>3, <1>5, <1>6
<1>9. Plain(VaultTeardown)
  BY <1>3, <1>5, <1>6, <1>7, <1>8
<1> QED
  BY <1>9 DEF Plain

-----------------------------------------------------------------------------
(* The scripts of all phases are scripts.                                  *)
Runs(p) ==
  /\ IsScript(InstallScript(p)) /\ IsScript(TeardownScript(p))
  /\ Reach(TeardownScript(p), Len(TeardownScript(p)))

LEMMA AllRun == \A p \in PlanNames : Runs(p)
<1>1. ASSUME NEW p, IsScript(InstallScript(p)), IsScript(TeardownScript(p)),
             Sightless(TeardownScript(p))
      PROVE  Runs(p)
  BY <1>1, SightlessReach DEF Runs
<1>2. ASSUME NEW p, NEW made, NEW asked, Installing(InstallScript(p), made, asked),
             NEW gone, NEW found, Removing(TeardownScript(p), gone, found),
             Sightless(TeardownScript(p))
      PROVE  Runs(p)
  BY <1>1, <1>2 DEF Installing, Removing
<1>3. Runs("Portal")
  <2>1. InstallScript("Portal") = PortalInstall /\ TeardownScript("Portal") = PortalTeardown
    BY DEF InstallScript, TeardownScript, InstallPlan, TeardownPlan
  <2> QED
    BY <1>2, <2>1, PortalScripts DEF Tidy
<1>4. Runs("Nexus")
  <2>1. /\ InstallScript("Nexus") = AnsibleInstall(Shared("nexus"))
        /\ TeardownScript("Nexus") = AnsibleTeardown(Shared("nexus"))
    BY DEF InstallScript, TeardownScript, InstallPlan, TeardownPlan, NexusInstall, NexusTeardown
  <2>2. Shared("nexus") # Cluster
    BY DEF Shared, Cluster
  <2> QED
    BY <1>2, <2>1, <2>2, AnsibleScripts DEF Tidy
<1>5. Runs("Gitea")
  <2>1. InstallScript("Gitea") = GiteaInstall
        /\ TeardownScript("Gitea") = AnsibleTeardown(GitServer)
    BY DEF InstallScript, TeardownScript, InstallPlan, TeardownPlan, GiteaTeardown
  <2> QED
    BY <1>2, <2>1, GiteaScripts, AnsibleScripts DEF Tidy
<1>6. Runs("Pipelines")
  <2>1. /\ InstallScript("Pipelines") = PipelinesInstall
        /\ TeardownScript("Pipelines") = PipelinesTeardown
    BY DEF InstallScript, TeardownScript, InstallPlan, TeardownPlan
  <2> QED
    BY <1>2, <2>1, PipelinesScripts DEF Tidy
<1>7. Runs("Serverless")
  <2>1. /\ InstallScript("Serverless") = ServerlessInstall
        /\ TeardownScript("Serverless") = ServerlessTeardown
    BY DEF InstallScript, TeardownScript, InstallPlan, TeardownPlan
  <2> QED
    BY <1>2, <2>1, ServerlessScripts DEF Tidy
<1>8. Runs("CertManager")
  <2>1. /\ InstallScript("CertManager") = CertManagerInstall
        /\ TeardownScript("CertManager") = CertManagerTeardown
    BY DEF InstallScript, TeardownScript, InstallPlan, TeardownPlan
  <2> QED
    BY <1>2, <2>1, CertManagerScripts DEF Tidy
<1>9. Runs("ServiceMesh")
  <2>1. /\ InstallScript("ServiceMesh") = ServiceMeshInstall
        /\ TeardownScript("ServiceMesh") = ServiceMeshTeardown
    BY DEF InstallScript, TeardownScript, InstallPlan, TeardownPlan
  <2> QED
    BY <1>2, <2>1, ServiceMeshInstalls, ServiceMeshRemoves
<1>10. Runs("CodeReady") /\ Runs("CodeReadyOAuth")
  <2>1. /\ InstallScript("CodeReady") = CodeReadyInstall(FALSE)
        /\ TeardownScript("CodeReady") = CodeReadyTeardown(FALSE)
        /\ InstallScript("CodeReadyOAuth") = CodeReadyInstall(TRUE)
        /\ TeardownScript("CodeReadyOAuth") = CodeReadyTeardown(TRUE)
    BY DEF InstallScript, TeardownScript, InstallPlan, TeardownPlan
  <2>2. ASSUME NEW oauth \in BOOLEAN
        PROVE  /\ IsScript(CodeReadyInstall(oauth)) /\ IsScript(CodeReadyTeardown(oauth))
               /\ Sightless(CodeReadyTeardown(oauth))
    BY CodeReadyInstalls, CodeReadyRemoves DEF Installing, Removing, Tidy
  <2>3. /\ IsScript(CodeReadyInstall(FALSE)) /\ IsScript(CodeReadyTeardown(FALSE))
        /\ Sightless(CodeReadyTeardown(FALSE))
        /\ IsScript(CodeReadyInstall(TRUE)) /\ IsScript(CodeReadyTeardown(TRUE))
        /\ Sightless(CodeReadyTeardown(TRUE))
    BY <2>2
  <2> QED
    BY <1>1, <2>1, <2>3
<1>11. IsScript(ProjectInstall) /\ IsScript(ProjectTeardown)
  BY ProjectInstalls, ProjectTeardownRuns DEF Installing
<1>12. Runs("Project")
  <2>1. InstallScript("Project") = ProjectInstall /\ TeardownScript("Project") = ProjectTeardown
    BY DEF InstallScript, TeardownScript, InstallPlan, TeardownPlan
  <2> QED
    BY <1>11, <2>1, ProjectTeardownRuns DEF Runs
<1>13. Runs("GitOps")
  <2>1. /\ InstallScript("GitOps") = ProjectInstall \o GitOpsInstall
        /\ TeardownScript("GitOps") = ProjectTeardown \o GitOpsTeardown
    BY DEF InstallScript, TeardownScript, InstallPlan, TeardownPlan
  <2>2. IsScript(GitOpsInstall)
    BY GitOpsInstalls DEF Installing
  <2>3. IsScript(ProjectInstall \o GitOpsInstall)
    BY <1>11, <2>2, ConcatScript
  <2>4. IsScript(ProjectTeardown \o GitOpsTeardown)
        /\ Len(ProjectTeardown \o GitOpsTeardown) = Len(ProjectTeardown) + Len(GitOpsTeardown)
    BY <1>11, GitOpsTeardownRuns, ConcatScript, ConcatLength
  <2>5. Reach(ProjectTeardown \o GitOpsTeardown, Len(ProjectTeardown \o GitOpsTeardown))
    <3>1. Reach(ProjectTeardown \o GitOpsTeardown, Len(ProjectTeardown))
      BY <1>11, ProjectTeardownRuns, GitOpsTeardownRuns, ReachInTurn
    <3>2. /\ Len(ProjectTeardown) \in Nat /\ Len(GitOpsTeardown) \in Nat
          /\ \A i \in 1..Len(ProjectTeardown \o GitOpsTeardown) :
               (ProjectTeardown \o GitOpsTeardown)[i].skip \in Nat
      BY <1>11, <2>4, GitOpsTeardownRuns, ScriptSteps
    <3> QED
      BY <2>4, <3>1, <3>2 DEF Reach
  <2> QED
    BY <2>1, <2>3, <2>4, <2>5 DEF Runs
<1>14. Runs("Bookbag")
  <2>1. InstallScript("Bookbag") = BookbagInstall /\ TeardownScript("Bookbag") = BookbagTeardown
    BY DEF InstallScript, TeardownScript, InstallPlan, TeardownPlan
  <2>2. IsScript(BookbagInstall)
    BY BookbagInstalls DEF Installing
  <2>3. \A i \in 1..Len(BookbagTeardown) : BookbagTeardown[i].skip \in Nat
    BY BookbagTeardownRuns, ScriptSteps
  <2>4. Users \in Nat
    BY PlansAssumption
  <2>5. Reach(BookbagTeardown, Len(BookbagTeardown))
    BY <2>3, <2>4, BookbagTeardownRuns DEF Reach
  <2> QED
    BY <2>1, <2>2, <2>5, BookbagTeardownRuns DEF Runs
<1>15. Runs("Vault")
  <2>1. InstallScript("Vault") = VaultInstall /\ TeardownScript("Vault") = VaultTeardown
    BY DEF InstallScript, TeardownScript, InstallPlan, TeardownPlan
  <2> QED
    BY <1>1, <2>1, VaultInstallRuns, VaultTeardownRuns
<1> QED
  BY <1>3, <1>4, <1>5, <1>6, <1>7, <1>8, <1>9, <1>10, <1>12, <1>13, <1>14, <1>15 DEF PlanNames

(* What the theorems of Rollout ask for.                                   *)
LEMMA CodeAnchored == \A p \in AnchoredPhases : Code!Anchored(p)
BY ProjectShape, BookbagShape, NexusShape, GiteaShape, PipelinesShape, GitOpsShape,
   CodeReadyShape, ServiceMeshShape, CertManagerShape DEF AnchoredPhases, PlanNames

LEMMA CodeCovered == \A p \in CoveredPhases : Code!Covered(p)
BY PortalShape, BookbagShape, NexusShape, GiteaShape, PipelinesShape, CodeReadyShape,
   ServiceMeshShape, ServerlessShape, CertManagerShape DEF CoveredPhases, PlanNames

LEMMA CodeOrderly == \A p \in OrderlyPhases : Code!Orderly(p)
BY PortalShape, NexusShape, GiteaShape, PipelinesShape, CodeReadyShape, ServerlessShape,
   CertManagerShape DEF OrderlyPhases, PlanNames

LEMMA CodeAssumption ==
  ASSUME MaxFaults \in Nat, MaxLives \in Nat
  PROVE  Code!RolloutAssumption
<1> DEFINE objects == ApiObjects(PlanNames)
           install == [p \in PlanNames |-> InstallScript(p)]
           teardown == [p \in PlanNames |-> TeardownScript(p)]
<1>1. Code!Step = StepOver(objects)
  BY DEF Code!Step, Code!Ops, StepOver, Ops
<1>2. /\ install \in [PlanNames -> Seq(Code!Step)]
      /\ teardown \in [PlanNames -> Seq(Code!Step)]
  BY <1>1, AllRun, ScriptOver, ScriptObjects DEF Runs
<1>3. \A p \in PlanNames : \A i \in 1..Len(teardown[p]) :
        teardown[p][i].op = "look" => i + teardown[p][i].skip <= Len(teardown[p])
  BY AllRun DEF Runs, Reach
<1>4. ASSUME NEW o \in objects, o[1] # Cluster
      PROVE  NS(o[1]) \in objects
  BY <1>4 DEF ApiObjects, NS
<1>5. /\ NamespacesAmong(objects) \subseteq objects
      /\ HomesOf(objects, Nowhere) \in [objects -> NamespacesAmong(objects) \cup {Nowhere}]
  BY <1>4 DEF NamespacesAmong, HomesOf, NS
<1>6. \A n \in NamespacesAmong(objects) : HomesOf(objects, Nowhere)[n] = Nowhere
  BY DEF NamespacesAmong, HomesOf
<1>7. Nowhere \notin objects
  BY NowhereIsNone
<1>8. /\ OwnedByWorkshop \cap objects \subseteq objects \ NamespacesAmong(objects)
      /\ \A o \in OwnedByWorkshop \cap objects : HomesOf(objects, Nowhere)[o] = Nowhere
  <2>1. \A w : Glob(w)[1] = Cluster /\ (w # "namespace" => Glob(w)[2] # "namespace")
    BY DEF Glob
  <2>2. \A o \in OwnedByWorkshop : o[1] = Cluster /\ o[2] # "namespace"
    BY <2>1 DEF OwnedByWorkshop
  <2>3. OwnedByWorkshop \cap objects \subseteq objects \ NamespacesAmong(objects)
    BY <2>2 DEF NamespacesAmong
  <2> HIDE DEF objects
  <2> QED
    BY <2>2, <2>3 DEF HomesOf
<1> HIDE DEF objects, install, teardown
<1> QED
  BY <1>2, <1>3, <1>5, <1>6, <1>7, <1>8 DEF Code!RolloutAssumption, objects, install, teardown

-----------------------------------------------------------------------------
(* The theorems of Rollout_proofs for the phases as they are coded, for    *)
(* any number of users, of failed calls and of lives of the Workshop.      *)

(* A pass of nine of the add... phases (not Portal's, Serverless's and     *)
(* Vault's) that ends without an error has built everything its script     *)
(* names, also over the remains of an earlier teardown.                    *)
THEOREM CodeInstalledIsThere ==
  ASSUME MaxFaults \in Nat, MaxLives \in Nat
  PROVE  Code!Spec => []Code!InstalledMeansThere
BY CodeAssumption, CodeAnchored, Code!InstalledIsThere

(* When the delete... functions of a phase (not Project's, GitOps's and    *)
(* Vault's) end without an error, nothing that the phase has created is    *)
(* left, but for what is on its way out.                                   *)
THEOREM CodeRemovedIsGone ==
  ASSUME MaxFaults \in Nat, MaxLives \in Nat
  PROVE  Code!Spec => []Code!RemovedMeansGone
BY CodeAssumption, CodeCovered, Code!RemovedIsGone

(* A Delete that finds nothing is a failure, but the teardown of a full    *)
(* installation of seven of the phases never meets one: it ends in an      *)
(* error only if a call fails.                                             *)
THEOREM CodeTeardownEnds ==
  ASSUME MaxFaults \in Nat, MaxLives \in Nat
  PROVE  Code!Spec => []Code!FullTeardownEnds
BY CodeAssumption, CodeOrderly, Code!OrderlyTeardownEnds

(* Seven phases as coded (not Portal, Project, GitOps, Serverless, Vault)  *)
(* do call by call only what Reconcile and handleDelete take for granted   *)
(* of a phase (PhaseContract).                                             *)
THEOREM CodeKeepsContract ==
  ASSUME MaxFaults \in Nat, MaxLives \in Nat
  PROVE  Code!Spec => Code!KeepsContract
BY CodeAssumption, CodeAnchored, CodeCovered, Code!PhasesKeepContract
=============================================================================
