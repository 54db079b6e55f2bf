-------------------------- MODULE WorkshopUsers_proofs --------------------------
(***************************************************************************)
(* Theorems about WorkshopUsers for every set of prefixes, every numbers   *)
(* of users, and any number of edits and faults.                           *)
(***************************************************************************)
EXTENDS WorkshopUsers, FiniteSetTheorems, FunctionTheorems, TLAPS

LEMMA NobodyIsNoName == Nobody \notin Name
BY UsersAssumption

LEMMA WantedTyped ==
  ASSUME NEW w \in Workshop \cup {NoWorkshop}
  PROVE  Wanted(w) \subseteq Name
<1>1. CASE w \in Workshop
  <2>1. w.prefix \in Prefixes /\ w.number \in Int /\ w.number <= MaxUsers /\ MaxUsers \in Nat
    BY <1>1, UsersAssumption DEF Workshop
  <2>2. Numbered(w.prefix, w.number) \subseteq Numbered(w.prefix, MaxUsers)
    BY <2>1 DEF Numbered
  <2> QED
    BY <2>1, <2>2 DEF Wanted, Name
<1>2. CASE w = NoWorkshop
  <2>1. w.number = 0
    BY <1>2 DEF NoWorkshop
  <2> QED
    BY <2>1 DEF Wanted, Numbered
<1> QED
  BY <1>1, <1>2

LEMMA ListsTyped ==
  ASSUME TypeOK, NEW listed \in SUBSET Name
  PROVE  ToDelete(listed) \subseteq Name /\ ToAdd(listed) \subseteq Name
BY WantedTyped DEF ToDelete, ToAdd, TypeOK

LEMMA OrdersTyped ==
  /\ \A i \in 1..4 : Making[i] \in Objects
  /\ \A i \in 1..4 : Unmaking[i] \in Objects
BY DEF Making, Unmaking, Objects

(* Only in the two loops over users is a pass at one of them.              *)
Kept == TypeOK /\ (pc \notin {"delete", "add"} => cur = Nobody)

LEMMA KeptInit == Init => Kept
<1> SUFFICES ASSUME Init PROVE Kept
  OBVIOUS
<1>1. edits \in 0..MaxEdits /\ faults \in 0..MaxFaults
  BY UsersAssumption DEF Init
<1>2. have \in [Name -> SUBSET Objects] /\ pc \in Places
  BY DEF Init, Places
<1>3. /\ cachedUsers \subseteq Name /\ todo \subseteq Name /\ missing \subseteq Name
      /\ interrupted \subseteq Name
      /\ secret \in (SUBSET Name) \cup {NoSecret}
      /\ cachedSecret \in (SUBSET Name) \cup {NoSecret}
  BY DEF Init
<1>4. /\ cr \in Workshop \cup {NoWorkshop} /\ workshop \in Workshop \cup {NoWorkshop}
      /\ due \in BOOLEAN /\ blind \in BOOLEAN /\ garbled \in BOOLEAN
      /\ ended \in {"nothing", "installed", "removed", "failed"}
  BY DEF Init
<1>5. at \in 1..4 /\ cur \in todo \cup {Nobody} /\ (at = 1 <=> cur = Nobody)
  BY DEF Init
<1>6. pc \notin {"delete", "add"} => cur = Nobody
  BY DEF Init
<1> QED
  BY <1>1, <1>2, <1>3, <1>4, <1>5, <1>6 DEF Kept, TypeOK

LEMMA KeptStep == Kept /\ [Next]_vars => Kept'
<1> SUFFICES ASSUME Kept, [Next]_vars PROVE Kept'
  OBVIOUS
<1> USE DEF Kept, TypeOK
<1>0. /\ Present \subseteq Name
      /\ Nobody \notin Name
      /\ Wanted(workshop) \subseteq Name
  BY NobodyIsNoName, WantedTyped DEF Present
<1>f. ASSUME Fault PROVE faults' \in 0..MaxFaults
  BY <1>f, UsersAssumption DEF Fault
<1>1. CASE UserWrites
  <2>1. cr' \in Workshop \cup {NoWorkshop}
    <3>1. ASSUME NEW p \in Prefixes, NEW n \in Numbers,
                 cr' = [prefix |-> p, number |-> n, deleting |-> FALSE]
          PROVE  cr' \in Workshop
      BY <3>1 DEF Workshop
    <3>2. ASSUME cr # NoWorkshop, cr' = [cr EXCEPT !.deleting = TRUE]
          PROVE  cr' \in Workshop
      BY <3>2 DEF Workshop
    <3> QED
      BY <1>1, <3>1, <3>2 DEF UserWrites
  <2>2. edits' \in 0..MaxEdits
    BY <1>1, UsersAssumption DEF UserWrites
  <2> QED
    BY <1>1, <2>1, <2>2 DEF UserWrites, clusterVars, cacheVars, passVars, userVars
<1>2. CASE CacheCatchesUp
  BY <1>0, <1>2 DEF CacheCatchesUp, clusterVars, passVars, userVars
<1>3. ASSUME NEW how \in {"installed", "removed", "failed"}, Return(how),
             have' \in [Name -> SUBSET Objects], secret' \in (SUBSET Name) \cup {NoSecret},
             interrupted' \subseteq Name, faults' \in 0..MaxFaults
      PROVE  Kept'
  BY <1>3 DEF Return, cacheVars, Places
<1>4. CASE Start
  BY <1>4 DEF Start, clusterVars, cacheVars, userVars, Places
<1>5. ASSUME NEW listed \in SUBSET Name, pc = "list", WorkOn(listed),
             UNCHANGED <<cr, due, clusterVars, cacheVars, interrupted, edits>>,
             faults' \in 0..MaxFaults
      PROVE  Kept'
  BY <1>5, ListsTyped DEF WorkOn, clusterVars, cacheVars, Places
<1>6. ASSUME NEW u \in Name, pc \in {"delete", "add"}, Turn(u), NextCall(u),
             have' \in [Name -> SUBSET Objects]
      PROVE  Kept'
  <2>1. u # Nobody
    BY <1>0
  <2>2. CASE at = 4
    BY <1>6, <2>2 DEF NextCall, Turn, cacheVars
  <2>3. CASE at # 4
    BY <1>6, <2>1, <2>3 DEF NextCall, Turn, cacheVars
  <2> QED
    BY <2>2, <2>3
<1>7. ASSUME NEW l \in Places \ {"delete", "add"}, Goto(l), cur = Nobody,
             UNCHANGED <<cr, due, have, cacheVars, interrupted, edits, faults>>,
             secret' \in (SUBSET Name) \cup {NoSecret}
      PROVE  Kept'
  BY <1>7 DEF Goto, userVars, cacheVars
<1>8. CASE List
  BY <1>5, <1>8 DEF List, Reads
<1>9. ASSUME NEW u \in Name, DeleteUser(u) PROVE Kept'
  <2>1. at \in 1..4 /\ Unmaking[at] \in Objects
    BY OrdersTyped
  <2> QED
    BY <1>3, <1>6, <1>9, <2>1 DEF DeleteUser, clusterVars
<1>10. ASSUME NEW u \in Name, AddUser(u) PROVE Kept'
  <2>1. at \in 1..4 /\ Making[at] \in Objects
    BY OrdersTyped
  <2> QED
    BY <1>6, <1>10, <2>1 DEF AddUser
<1>11. CASE UsersDeleted
  BY <1>11 DEF UsersDeleted, Reads, clusterVars, cacheVars, Places
<1>12. CASE UsersAdded
  BY <1>7, <1>12 DEF UsersAdded, Reads, clusterVars, Places
<1>13. CASE CreateSecret
  BY <1>0, <1>7, <1>13 DEF CreateSecret, WritesSecret, Places
<1>14. CASE CompareSecret
  BY <1>14 DEF CompareSecret, Reads, userVars, clusterVars, cacheVars, Places
<1>15. CASE DropSecret
  BY <1>7, <1>15 DEF DropSecret, WritesSecret, Places
<1>16. CASE RemakeSecret
  BY <1>0, <1>7, <1>16 DEF RemakeSecret, WritesSecret, Places
<1>17. CASE RemoveSecret
  BY <1>3, <1>7, <1>17 DEF RemoveSecret, WritesSecret, Places
<1>18. CASE Finish
  BY <1>3, <1>18 DEF Finish, clusterVars
<1>19. CASE ListFails
  BY <1>5, <1>19, <1>f DEF ListFails
<1>20. CASE GetSecretFails
  BY <1>20, <1>f DEF GetSecretFails, userVars, clusterVars, cacheVars, Places
<1>21. ASSUME NEW u \in Name, UserCallFails(u) PROVE Kept'
  <2>1. at \in 1..4 /\ Unmaking[at] \in Objects /\ Making[at] \in Objects
    BY OrdersTyped
  <2>2. have' \in [Name -> SUBSET Objects]
    BY <1>21, <2>1 DEF UserCallFails
  <2>3. interrupted' \subseteq Name
    BY <1>21 DEF UserCallFails
  <2> QED
    BY <1>3, <1>21, <1>f, <2>2, <2>3 DEF UserCallFails
<1>22. CASE SecretCallFails
  <2>1. secret' \in (SUBSET Name) \cup {NoSecret}
    BY <1>0, <1>22 DEF SecretCallFails
  <2> QED
    BY <1>3, <1>22, <1>f, <2>1 DEF SecretCallFails
<1>25. CASE CommandsFail
  <2>1. secret' \in (SUBSET Name) \cup {NoSecret}
    BY <1>0, <1>25 DEF CommandsFail
  <2> QED
    BY <1>25, <1>f, <2>1 DEF CommandsFail, userVars, cacheVars, Places
<1>23. CASE Crash
  BY <1>0, <1>23, <1>f DEF Crash, clusterVars, Places
<1>24. CASE UNCHANGED vars
  BY <1>24 DEF vars, clusterVars, cacheVars, passVars, userVars
<1> QED
  BY <1>1, <1>2, <1>4, <1>8, <1>9, <1>10, <1>11, <1>12, <1>13, <1>14, <1>15, <1>16, <1>17,
     <1>18, <1>19, <1>20, <1>21, <1>22, <1>23, <1>24, <1>25
     DEF Next, PassStep, Failure

(* Every variable keeps its type; a pass is at one user at a time, and     *)
(* between users at none.                                                  *)
THEOREM UsersTypeCorrect == Spec => []TypeOK
<1>1. Spec => []Kept
  BY KeptInit, KeptStep, PTL DEF Spec
<1> QED
  BY <1>1, PTL DEF Kept

-----------------------------------------------------------------------------
(* For the user a loop is at, the calls it has made have had their effect. *)
CallsMade ==
  cur # Nobody =>
    \A i \in 1..4 : i < at =>
      /\ pc = "add" => Making[i] \in have[cur]
      /\ pc = "delete" => Unmaking[i] \notin have[cur]

Nested == ObjectsNest /\ CallsMade

(* Adding the object of the call a loop is at, or deleting it, is in turn. *)
LEMMA OneCallNests ==
  ASSUME Kept, Nested, NEW u \in Name, Turn(u),
         \/ have' = have
         \/ pc = "add" /\ have' = [have EXCEPT ![u] = @ \cup {Making[at]}]
         \/ pc = "delete" /\ have' = [have EXCEPT ![u] = @ \ {Unmaking[at]}]
  PROVE  /\ ObjectsNest'
         /\ \A i \in 1..4 : i < at =>
              /\ pc = "add" => Making[i] \in have'[u]
              /\ pc = "delete" => Unmaking[i] \notin have'[u]
<1>1. at \in 1..4 /\ have \in [Name -> SUBSET Objects] /\ (at = 1 <=> cur = Nobody)
  BY DEF Kept, TypeOK
<1>2. at # 1 => cur = u
  BY <1>1 DEF Turn
<1>3. \A i \in 1..4 : i < at =>
        /\ pc = "add" => Making[i] \in have[u]
        /\ pc = "delete" => Unmaking[i] \notin have[u]
  BY <1>1, <1>2 DEF Nested, CallsMade
<1>4. /\ Making[1] = "user" /\ Making[2] = "rolebinding"
      /\ Making[3] = "identity" /\ Making[4] = "mapping"
      /\ Unmaking[4] = "user" /\ Unmaking[3] = "rolebinding"
      /\ Unmaking[2] = "identity" /\ Unmaking[1] = "mapping"
  BY DEF Making, Unmaking
<1>5. CASE have' = have
  BY <1>3, <1>5 DEF Nested, ObjectsNest
<1>6. CASE pc = "add" /\ have' = [have EXCEPT ![u] = @ \cup {Making[at]}]
  <2>1. \A v \in Name : v # u => have'[v] = have[v]
    BY <1>1, <1>6
  <2>2. have'[u] = have[u] \cup {Making[at]}
    BY <1>1, <1>6
  <2>3. \A i \in 1..3 : Making[i + 1] \in have'[u] => Making[i] \in have'[u]
    BY <1>1, <1>3, <1>4, <1>6, <2>2 DEF Nested, ObjectsNest
  <2> QED
    BY <1>3, <1>6, <2>1, <2>2, <2>3 DEF Nested, ObjectsNest
<1>7. CASE pc = "delete" /\ have' = [have EXCEPT ![u] = @ \ {Unmaking[at]}]
  <2>1. \A v \in Name : v # u => have'[v] = have[v]
    BY <1>1, <1>7
  <2>2. have'[u] = have[u] \ {Unmaking[at]}
    BY <1>1, <1>7
  <2>3. \A i \in 1..3 : Making[i + 1] \in have'[u] => Making[i] \in have'[u]
    BY <1>1, <1>3, <1>4, <1>7, <2>2 DEF Nested, ObjectsNest
  <2> QED
    BY <1>3, <1>7, <2>1, <2>2, <2>3 DEF Nested, ObjectsNest
<1> QED
  BY <1>5, <1>6, <1>7

LEMMA NestedStep == Kept /\ Nested /\ [Next]_vars => Nested'
<1> SUFFICES ASSUME Kept, Nested, [Next]_vars PROVE Nested'
  OBVIOUS
<1>0. TypeOK /\ Nobody \notin Name
  BY NobodyIsNoName DEF Kept
<1>1. ASSUME have' = have, cur' = Nobody \/ UNCHANGED <<cur, at, pc>> PROVE Nested'
  BY <1>1 DEF Nested, ObjectsNest, CallsMade
<1>2. ASSUME ObjectsNest', cur' = Nobody PROVE Nested'
  BY <1>2 DEF Nested, CallsMade
<1>3. ASSUME NEW u \in Name, DeleteUser(u) \/ AddUser(u) PROVE Nested'
  <2>1. Turn(u) /\ at \in 1..4 /\ u # Nobody
    BY <1>0, <1>3 DEF DeleteUser, AddUser, TypeOK
  <2>2. CASE Return("failed") /\ have' = have
    BY <1>1, <2>2 DEF Return
  <2>3. CASE pc = "add" /\ have' = [have EXCEPT ![u] = @ \cup {Making[at]}] /\ NextCall(u)
    <3>1. /\ ObjectsNest'
          /\ \A i \in 1..4 : i < at => Making[i] \in have'[u]
          /\ Making[at] \in have'[u]
      BY <1>0, <2>1, <2>3, OneCallNests DEF TypeOK
    <3> QED
      BY <2>1, <2>3, <3>1 DEF Nested, CallsMade, NextCall
  <2>4. CASE pc = "delete" /\ have' = [have EXCEPT ![u] = @ \ {Unmaking[at]}] /\ NextCall(u)
    <3>1. /\ ObjectsNest'
          /\ \A i \in 1..4 : i < at => Unmaking[i] \notin have'[u]
          /\ Unmaking[at] \notin have'[u]
      BY <1>0, <2>1, <2>4, OneCallNests DEF TypeOK
    <3> QED
      BY <2>1, <2>4, <3>1 DEF Nested, CallsMade, NextCall
  <2> QED
    BY <1>3, <2>2, <2>3, <2>4 DEF DeleteUser, AddUser, clusterVars
<1>4. ASSUME NEW u \in Name, UserCallFails(u) PROVE Nested'
  <2>1. /\ Turn(u) /\ cur' = Nobody
        /\ \/ have' = have
           \/ pc = "add" /\ have' = [have EXCEPT ![u] = @ \cup {Making[at]}]
           \/ pc = "delete" /\ have' = [have EXCEPT ![u] = @ \ {Unmaking[at]}]
    BY <1>4 DEF UserCallFails, Return
  <2> QED
    BY <1>2, <2>1, OneCallNests
<1>5. CASE UserWrites \/ CacheCatchesUp \/ UNCHANGED vars
  BY <1>1, <1>5
     DEF UserWrites, CacheCatchesUp, vars, clusterVars, passVars, userVars
<1>6. CASE List \/ ListFails \/ UsersDeleted
  <2>1. cur = Nobody
    BY <1>0, <1>6 DEF List, ListFails, UsersDeleted, Kept, TypeOK
  <2> QED
    BY <1>1, <1>6, <2>1 DEF List, ListFails, UsersDeleted, WorkOn, Reads, clusterVars
<1>7. CASE Start \/ UsersAdded \/ CompareSecret \/ GetSecretFails \/ CreateSecret \/ DropSecret
           \/ RemakeSecret \/ RemoveSecret \/ CommandsFail
  <2>1. cur = Nobody
    BY <1>0, <1>7
       DEF Start, UsersAdded, CompareSecret, GetSecretFails, CreateSecret, DropSecret,
           RemakeSecret, RemoveSecret, CommandsFail, Kept, TypeOK
  <2>2. have' = have /\ cur' = Nobody
    BY <1>7, <2>1
       DEF Start, UsersAdded, CompareSecret, GetSecretFails, CreateSecret, DropSecret,
           RemakeSecret, RemoveSecret, CommandsFail, Goto, Return, Reads, WritesSecret,
           userVars, clusterVars
  <2> QED
    BY <1>1, <2>2
<1>8. CASE Finish \/ SecretCallFails \/ Crash
  BY <1>1, <1>8 DEF Finish, SecretCallFails, Crash, Return, clusterVars
<1> QED
  BY <1>3, <1>4, <1>5, <1>6, <1>7, <1>8 DEF Next, PassStep, Failure

(* However additions and deletions are cut off, repeated and mixed up by   *)
(* stale lists, a user's objects nest.                                     *)
THEOREM ObjectsAlwaysNest == Spec => []ObjectsNest
<1>1. Init => Nested
  BY DEF Init, Nested, ObjectsNest, CallsMade
<1>2. Kept /\ Nested /\ [Next]_vars => Nested'
  BY NestedStep
<1>3. Spec => []Kept
  BY KeptInit, KeptStep, PTL DEF Spec
<1>4. Spec => []Nested
  BY <1>1, <1>2, <1>3, PTL DEF Spec
<1> QED
  BY <1>4, PTL DEF Nested
-----------------------------------------------------------------------------
(* Where a pass is says how the last one ended and what it works for.      *)
Stage ==
  /\ pc # "idle" => ended = "nothing" /\ workshop \in Workshop
  /\ pc \in {"add", "secret", "compare", "drop", "remake"} => ~workshop.deleting
  /\ pc = "remove" => workshop.deleting
  /\ ended = "installed" => ~workshop.deleting /\ workshop \in Workshop
  /\ ended = "removed" => workshop.deleting

LEMMA StageStep == Kept /\ Stage /\ [Next]_vars => Stage'
<1> SUFFICES ASSUME Kept, Stage, [Next]_vars PROVE Stage'
  OBVIOUS
<1> USE DEF Stage
<1>0. TypeOK /\ cr \in Workshop \cup {NoWorkshop}
  BY DEF Kept, TypeOK
<1>1. ASSUME UNCHANGED <<pc, ended, workshop>> PROVE Stage'
  BY <1>1
<1>2. ASSUME Return("failed") PROVE Stage'
  BY <1>2 DEF Return
<1>3. ASSUME NEW listed \in SUBSET Name, pc = "list", WorkOn(listed) PROVE Stage'
  BY <1>3 DEF WorkOn
<1>4. ASSUME NEW l \in {"secret", "compare", "drop", "remake", "done"}, ~workshop.deleting,
             pc # "idle", pc' = l, UNCHANGED <<ended, workshop>>
      PROVE  Stage'
  BY <1>4
<1>5. CASE UserWrites \/ CacheCatchesUp \/ UNCHANGED vars
  BY <1>1, <1>5 DEF UserWrites, CacheCatchesUp, vars, passVars
<1>6. CASE Start
  BY <1>0, <1>6 DEF Start
<1>7. CASE List \/ ListFails
  BY <1>0, <1>3, <1>7 DEF List, ListFails, TypeOK
<1>8. ASSUME NEW u \in Name, DeleteUser(u) \/ AddUser(u) PROVE Stage'
  BY <1>1, <1>2, <1>8 DEF DeleteUser, AddUser, NextCall
<1>9. CASE UsersDeleted
  BY <1>9 DEF UsersDeleted
<1>10. CASE UsersAdded \/ CompareSecret \/ GetSecretFails \/ CreateSecret \/ DropSecret
            \/ RemakeSecret \/ CommandsFail
  BY <1>4, <1>10
     DEF UsersAdded, CompareSecret, GetSecretFails, CreateSecret, DropSecret, RemakeSecret,
         CommandsFail, Goto
<1>11. CASE RemoveSecret
  BY <1>2, <1>11 DEF RemoveSecret, Goto
<1>12. CASE Finish
  BY <1>12 DEF Finish, Return
<1>13. CASE SecretCallFails \/ \E u \in Name : UserCallFails(u)
  BY <1>2, <1>13 DEF SecretCallFails, UserCallFails
<1>14. CASE Crash
  BY <1>14 DEF Crash
<1> QED
  BY <1>5, <1>6, <1>7, <1>8, <1>9, <1>10, <1>11, <1>12, <1>13, <1>14
     DEF Next, PassStep, Failure

-----------------------------------------------------------------------------
(* A deletion that has begun finds the rest of the user's objects: its     *)
(* first call found the mapping, and objects nest.                         *)
RestThere ==
  pc = "delete" /\ cur # Nobody =>
    \A i \in 1..4 : at <= i => Unmaking[i] \in have[cur]

(* So users are whole, but for the one a loop is at and for those that     *)
(* `interrupted` names.                                                    *)
Whole == \A u \in Name : u = cur \/ u \in interrupted \/ have[u] \in {{}, Objects}

Complete == RestThere /\ Whole

LEMMA AllFour ==
  /\ Objects = {Making[i] : i \in 1..4}
  /\ Objects = {Unmaking[i] : i \in 1..4}
<1>1. 1..4 = {1, 2, 3, 4}
  OBVIOUS
<1> QED
  BY <1>1 DEF Objects, Making, Unmaking

LEMMA NestsFromMapping ==
  ASSUME ObjectsNest, NEW u \in Name, Unmaking[1] \in have[u]
  PROVE  \A i \in 1..4 : Unmaking[i] \in have[u]
<1>1. /\ Making[1] = "user" /\ Making[2] = "rolebinding"
      /\ Making[3] = "identity" /\ Making[4] = "mapping"
      /\ Unmaking[4] = "user" /\ Unmaking[3] = "rolebinding"
      /\ Unmaking[2] = "identity" /\ Unmaking[1] = "mapping"
  BY DEF Making, Unmaking
<1>2. Making[4] \in have[u] /\ Making[3] \in have[u] /\ Making[2] \in have[u]
      /\ Making[1] \in have[u]
  BY <1>1 DEF ObjectsNest
<1>3. 1..4 = {1, 2, 3, 4}
  OBVIOUS
<1> QED
  BY <1>1, <1>2, <1>3

LEMMA CompleteStep == Kept /\ Nested /\ Complete /\ [Next]_vars => Complete'
<1> SUFFICES ASSUME Kept, Nested, Complete, [Next]_vars PROVE Complete'
  OBVIOUS
<1> USE DEF Complete
<1>0. /\ TypeOK /\ Nobody \notin Name
      /\ have \in [Name -> SUBSET Objects]
      /\ at \in 1..4 /\ (at = 1 <=> cur = Nobody)
  BY NobodyIsNoName DEF Kept, TypeOK
<1>1. ASSUME UNCHANGED <<have, interrupted, pc, cur, at>> PROVE Complete'
  BY <1>1 DEF RestThere, Whole
<1>2. ASSUME UNCHANGED <<have, interrupted>>, cur = Nobody, cur' = Nobody PROVE Complete'
  BY <1>0, <1>2 DEF RestThere, Whole
<1>3. ASSUME NEW u \in Name, DeleteUser(u) PROVE Complete'
  <2>1. pc = "delete" /\ Turn(u) /\ u # Nobody
    BY <1>0, <1>3 DEF DeleteUser
  <2>2. CASE Unmaking[at] \in have[u]
    <3>1. \A i \in 1..4 : at <= i => Unmaking[i] \in have[u]
      <4>1. CASE at = 1
        BY <2>2, <4>1, NestsFromMapping DEF Nested
      <4>2. CASE at # 1
        BY <1>0, <2>1, <4>2 DEF Turn, RestThere
      <4> QED
        BY <4>1, <4>2
    <3>2. /\ have' = [have EXCEPT ![u] = @ \ {Unmaking[at]}]
          /\ NextCall(u)
      BY <1>3, <2>2 DEF DeleteUser
    <3>3. have'[u] = have[u] \ {Unmaking[at]} /\ \A v \in Name : v # u => have'[v] = have[v]
      BY <1>0, <3>2
    <3>4. CASE at = 4
      <4>1. cur' = Nobody /\ at' = 1 /\ interrupted' = interrupted \ {u}
        BY <3>2, <3>4 DEF NextCall
      <4>2. \A i \in 1..4 : Unmaking[i] \notin have'[u]
        <5>1. \A i \in 1..4 : i < 4 => Unmaking[i] \notin have[u]
          BY <1>0, <2>1, <3>4 DEF Nested, CallsMade, Turn
        <5> QED
          BY <3>3, <3>4, <5>1
      <4>3. have'[u] = {}
        BY <1>0, <3>3, <4>2, AllFour
      <4>4. \A v \in Name : v # u => v \in interrupted' \/ have'[v] \in {{}, Objects}
        BY <1>0, <2>1, <3>3, <4>1 DEF Whole, Turn
      <4> QED
        BY <4>1, <4>3, <4>4 DEF RestThere, Whole
    <3>5. CASE at # 4
      <4>1. cur' = u /\ at' = at + 1 /\ interrupted' = interrupted
        BY <3>2, <3>5 DEF NextCall
      <4>2. \A i \in 1..4 : at' <= i => Unmaking[i] \in have'[u]
        <5>1. \A i \in 1..4 : Unmaking[i] = Unmaking[at] => i = at
          <6>1. 1..4 = {1, 2, 3, 4}
            OBVIOUS
          <6> QED
            BY <1>0, <6>1 DEF Unmaking
        <5> QED
          BY <1>0, <3>1, <3>3, <4>1, <5>1
      <4>3. \A v \in Name : v # u => v \in interrupted' \/ have'[v] \in {{}, Objects}
        BY <1>0, <2>1, <3>3, <4>1 DEF Whole, Turn
      <4> QED
        BY <4>1, <4>2, <4>3 DEF RestThere, Whole
    <3> QED
      BY <3>4, <3>5
  <2>3. CASE Unmaking[at] \notin have[u]
    <3>1. at = 1
      BY <1>0, <2>1, <2>3 DEF Turn, RestThere
    <3>2. cur = Nobody /\ cur' = Nobody /\ UNCHANGED <<have, interrupted>>
      BY <1>0, <1>3, <2>3, <3>1 DEF DeleteUser, Return, clusterVars
    <3> QED
      BY <1>2, <3>2
  <2> QED
    BY <2>2, <2>3
<1>4. ASSUME NEW u \in Name, AddUser(u) PROVE Complete'
  <2>1. /\ pc = "add" /\ pc' = "add" /\ Turn(u) /\ u # Nobody /\ NextCall(u)
        /\ have' = [have EXCEPT ![u] = @ \cup {Making[at]}]
    BY <1>0, <1>4 DEF AddUser, NextCall
  <2>2. have'[u] = have[u] \cup {Making[at]} /\ \A v \in Name : v # u => have'[v] = have[v]
    BY <1>0, <2>1
  <2>3. CASE at = 4
    <3>1. cur' = Nobody /\ interrupted' = interrupted \ {u}
      BY <2>1, <2>3 DEF NextCall
    <3>2. \A i \in 1..4 : Making[i] \in have'[u]
      <4>1. \A i \in 1..4 : i < 4 => Making[i] \in have[u]
        BY <1>0, <2>1, <2>3 DEF Nested, CallsMade, Turn
      <4> QED
        BY <2>2, <2>3, <4>1
    <3>3. have'[u] = Objects
      BY <1>0, <2>2, <3>2, AllFour, OrdersTyped
    <3>4. \A v \in Name : v # u => v \in interrupted' \/ have'[v] \in {{}, Objects}
      BY <1>0, <2>1, <2>2, <3>1 DEF Whole, Turn
    <3> QED
      BY <3>1, <3>3, <3>4 DEF RestThere, Whole
  <2>4. CASE at # 4
    <3>1. cur' = u /\ interrupted' = interrupted
      BY <2>1, <2>4 DEF NextCall
    <3>2. \A v \in Name : v # u => v \in interrupted' \/ have'[v] \in {{}, Objects}
      BY <1>0, <2>1, <2>2, <3>1 DEF Whole, Turn
    <3> QED
      BY <2>1, <3>1, <3>2 DEF RestThere, Whole
  <2> QED
    BY <2>3, <2>4
<1>5. ASSUME NEW u \in Name, UserCallFails(u) PROVE Complete'
  <2>1. /\ Turn(u) /\ cur' = Nobody
        /\ interrupted' = IF have'[u] \in {{}, Objects} THEN interrupted ELSE interrupted \cup {u}
        /\ \A v \in Name : v # u => have'[v] = have[v]
    BY <1>0, <1>5 DEF UserCallFails, Return
  <2> QED
    BY <1>0, <2>1 DEF RestThere, Whole, Turn
<1>6. CASE Crash
  BY <1>0, <1>6 DEF Crash, RestThere, Whole, clusterVars
<1>7. CASE UserWrites \/ CacheCatchesUp \/ UNCHANGED vars
  BY <1>1, <1>7
     DEF UserWrites, CacheCatchesUp, vars, clusterVars, passVars, userVars
<1>8. CASE List \/ ListFails \/ UsersDeleted
  <2>1. cur = Nobody
    BY <1>0, <1>8 DEF List, ListFails, UsersDeleted, Kept, TypeOK
  <2> QED
    BY <1>2, <1>8, <2>1 DEF List, ListFails, UsersDeleted, WorkOn, Reads, clusterVars
<1>9. CASE Start \/ UsersAdded \/ CompareSecret \/ GetSecretFails \/ CreateSecret \/ DropSecret
           \/ RemakeSecret \/ RemoveSecret \/ Finish \/ SecretCallFails
           \/ CommandsFail
  <2>1. cur = Nobody
    BY <1>0, <1>9
       DEF Start, UsersAdded, CompareSecret, GetSecretFails, CreateSecret, DropSecret,
           RemakeSecret, RemoveSecret, Finish, SecretCallFails, CommandsFail, Kept, TypeOK
  <2>2. UNCHANGED <<have, interrupted>> /\ cur' = Nobody
    BY <1>9, <2>1
       DEF Start, UsersAdded, CompareSecret, GetSecretFails, CreateSecret, DropSecret,
           RemakeSecret, RemoveSecret, Finish, SecretCallFails, CommandsFail, Goto, Return, Reads,
           WritesSecret, userVars, clusterVars
  <2> QED
    BY <1>2, <2>1, <2>2
<1> QED
  BY <1>3, <1>4, <1>5, <1>6, <1>7, <1>8, <1>9 DEF Next, PassStep, Failure

-----------------------------------------------------------------------------
(* How far a pass that saw the cluster as it was has got with them.  A     *)
(* user counts from the first call of addUser to the last of               *)
(* deleteOpenshiftUser.                                                    *)
Deleting ==
  pc = "delete" =>
    /\ missing \subseteq Sought /\ todo \cap Sought = {}
    /\ Present = (Sought \ missing) \cup todo

Adding ==
  pc = "add" =>
    /\ todo \subseteq Sought
    /\ Sought \ todo \subseteq Present /\ Present \subseteq Sought

Settled ==
  pc \in {"secret", "compare", "drop", "remake", "remove", "done"}
    \/ ended \in {"installed", "removed"} => Present = Sought

Progress == ~blind => Deleting /\ Adding /\ Settled

LEMMA PresentMoves ==
  ASSUME Kept, NEW u \in Name, NEW o \in Objects
  PROVE  /\ have' = [have EXCEPT ![u] = @ \cup {o}] =>
              Present' = IF o = "user" THEN Present \cup {u} ELSE Present
         /\ have' = [have EXCEPT ![u] = @ \ {o}] =>
              Present' = IF o = "user" THEN Present \ {u} ELSE Present
<1>1. have \in [Name -> SUBSET Objects]
  BY DEF Kept, TypeOK
<1>2. CASE have' = [have EXCEPT ![u] = @ \cup {o}]
  BY <1>1, <1>2 DEF Present
<1>3. CASE have' = [have EXCEPT ![u] = @ \ {o}]
  BY <1>1, <1>3 DEF Present
<1>4. [have EXCEPT ![u] = @ \cup {o}] # [have EXCEPT ![u] = @ \ {o}]
  BY <1>1
<1> QED
  BY <1>2, <1>3, <1>4

LEMMA ProgressStep == Kept /\ Nested /\ Stage /\ Progress /\ [Next]_vars => Progress'
<1> SUFFICES ASSUME Kept, Nested, Stage, Progress, [Next]_vars PROVE Progress'
  OBVIOUS
<1> USE DEF Progress
<1>0. /\ TypeOK /\ Nobody \notin Name
      /\ at \in 1..4 /\ (at = 1 <=> cur = Nobody)
      /\ todo \subseteq Name /\ missing \subseteq Name
  BY NobodyIsNoName DEF Kept, TypeOK
<1>1. ASSUME UNCHANGED <<have, pc, workshop, todo, missing, ended, blind>> PROVE Progress'
  BY <1>1 DEF Deleting, Adding, Settled, Present, Sought, Wanted
<1>2. ASSUME pc' = "idle", ended' = "failed" PROVE Progress'
  BY <1>2 DEF Deleting, Adding, Settled
<1>3. ASSUME NEW l \in {"compare", "drop", "remake", "done"},
             pc \in {"secret", "compare", "drop", "remake", "remove"},
             pc' = l, blind' = FALSE => blind = FALSE, UNCHANGED <<have, workshop, ended>>,
             blind \in BOOLEAN, blind' \in BOOLEAN
      PROVE  Progress'
  BY <1>3 DEF Deleting, Adding, Settled, Present, Sought, Wanted
<1>4. ASSUME NEW listed \in SUBSET Name, pc = "list", WorkOn(listed), have' = have
      PROVE  Progress'
  <2>1. /\ pc' = "delete" /\ workshop' = workshop /\ ended' = ended /\ ended = "nothing"
        /\ todo' = ToDelete(listed) /\ missing' = ToAdd(listed)
        /\ blind' = (listed # Present)
    BY <1>4 DEF WorkOn, Stage
  <2>2. Present' = Present /\ Sought' = Sought
    BY <1>4, <2>1 DEF Present, Sought, Wanted
  <2>3. todo' = listed \ Sought /\ missing' = Sought \ listed
    BY <2>1 DEF ToDelete, ToAdd, Sought
  <2> QED
    BY <2>1, <2>2, <2>3 DEF Deleting, Adding, Settled
<1>5. ASSUME NEW u \in Name, DeleteUser(u) PROVE Progress'
  <2>1. CASE Return("failed")
    BY <1>2, <2>1 DEF Return
  <2>2. CASE NextCall(u) /\ have' = [have EXCEPT ![u] = @ \ {Unmaking[at]}]
    <3>1. /\ pc = "delete" /\ pc' = "delete" /\ u \in todo
          /\ UNCHANGED <<workshop, missing, ended, blind>>
          /\ todo' = IF at = 4 THEN todo \ {u} ELSE todo
          /\ ended = "nothing"
      BY <1>5, <2>2 DEF DeleteUser, NextCall, Turn, Stage
    <3>2. Unmaking[at] = "user" <=> at = 4
      BY <1>0 DEF Unmaking
    <3>3. Present' = IF at = 4 THEN Present \ {u} ELSE Present
      BY <1>0, <2>2, <3>2, PresentMoves, OrdersTyped
    <3>4. Sought' = Sought
      BY <3>1 DEF Sought, Wanted
    <3> QED
      BY <3>1, <3>3, <3>4 DEF Deleting, Adding, Settled
  <2> QED
    BY <1>5, <2>1, <2>2 DEF DeleteUser
<1>6. ASSUME NEW u \in Name, AddUser(u) PROVE Progress'
  <2>1. /\ pc = "add" /\ pc' = "add" /\ u \in todo
        /\ UNCHANGED <<workshop, missing, ended, blind>>
        /\ todo' = IF at = 4 THEN todo \ {u} ELSE todo
        /\ ended = "nothing"
        /\ have' = [have EXCEPT ![u] = @ \cup {Making[at]}]
    BY <1>6 DEF AddUser, NextCall, Turn, Stage
  <2>2. Making[at] = "user" <=> at = 1
    BY <1>0 DEF Making
  <2>3. Present' = IF at = 1 THEN Present \cup {u} ELSE Present
    BY <1>0, <2>1, <2>2, PresentMoves, OrdersTyped
  <2>4. at = 4 => u \in Present
    <3>1. CASE at = 4
      <4>1. cur = u
        BY <1>0, <1>6, <3>1 DEF AddUser, Turn
      <4>2. Making[1] \in have[u]
        BY <1>0, <2>1, <3>1, <4>1 DEF Nested, CallsMade
      <4> QED
        BY <4>2 DEF Present, Making
    <3> QED
      BY <3>1
  <2>5. Sought' = Sought
    BY <2>1 DEF Sought, Wanted
  <2> QED
    BY <2>1, <2>3, <2>4, <2>5 DEF Deleting, Adding, Settled
<1>7. CASE UsersDeleted
  <2>1. /\ pc = "delete" /\ todo = {} /\ todo' = missing
        /\ pc' = IF workshop.deleting THEN "remove" ELSE "add"
        /\ UNCHANGED <<have, workshop, ended, blind>>
        /\ ended = "nothing"
    BY <1>7 DEF UsersDeleted, Reads, clusterVars, Stage
  <2>2. Present' = Present /\ Sought' = Sought
    BY <2>1 DEF Present, Sought, Wanted
  <2>3. workshop.deleting => Sought = {}
    BY DEF Sought
  <2> QED
    BY <2>1, <2>2, <2>3 DEF Deleting, Adding, Settled
<1>8. CASE UsersAdded
  <2>1. /\ pc = "add" /\ todo = {} /\ pc' = "secret"
        /\ UNCHANGED <<have, workshop, ended, blind>>
    BY <1>8 DEF UsersAdded, Goto, Reads, clusterVars
  <2>2. Present' = Present /\ Sought' = Sought
    BY <2>1 DEF Present, Sought, Wanted
  <2> QED
    BY <2>1, <2>2 DEF Deleting, Adding, Settled
<1>9. CASE CreateSecret \/ CompareSecret \/ DropSecret \/ RemakeSecret \/ RemoveSecret
           \/ CommandsFail
  <2>1. CASE Return("failed")
    BY <1>2, <2>1 DEF Return
  <2>2. CASE ~Return("failed")
    <3>1. /\ pc \in {"secret", "compare", "drop", "remake", "remove"}
          /\ pc' \in {"compare", "drop", "remake", "done"}
          /\ UNCHANGED <<have, workshop, ended>>
      BY <1>9, <2>2
         DEF CreateSecret, CompareSecret, DropSecret, RemakeSecret, RemoveSecret,
             CommandsFail, Goto, Reads, WritesSecret, clusterVars
    <3>2. blind' = blind \/ (blind' = (blind \/ cachedSecret # secret))
      BY <1>9, <2>2
         DEF CreateSecret, CompareSecret, DropSecret, RemakeSecret, RemoveSecret,
             CommandsFail, Goto
    <3> QED
      BY <1>0, <1>3, <3>1, <3>2 DEF TypeOK
  <2> QED
    BY <2>1, <2>2
<1>10. CASE GetSecretFails
  BY <1>10 DEF GetSecretFails
<1>11. CASE Start
  BY <1>1, <1>11 DEF Start, Deleting, Adding, Settled, clusterVars, userVars
<1>12. CASE Finish
  <2>1. /\ pc = "done" /\ pc' = "idle"
        /\ UNCHANGED <<have, workshop, blind>>
    BY <1>12 DEF Finish, Return, clusterVars
  <2> QED
    BY <2>1 DEF Deleting, Adding, Settled, Present, Sought, Wanted
<1>13. CASE List \/ ListFails
  BY <1>0, <1>4, <1>13 DEF List, ListFails, Reads, clusterVars, TypeOK
<1>14. CASE SecretCallFails \/ Crash \/ \E u \in Name : UserCallFails(u)
  BY <1>2, <1>14 DEF SecretCallFails, Crash, UserCallFails, Return
<1>15. CASE UserWrites \/ CacheCatchesUp \/ UNCHANGED vars
  BY <1>1, <1>15 DEF UserWrites, CacheCatchesUp, vars, clusterVars, passVars, userVars
<1> QED
  BY <1>5, <1>6, <1>7, <1>8, <1>9, <1>10, <1>11, <1>12, <1>13, <1>14, <1>15
     DEF Next, PassStep, Failure

-----------------------------------------------------------------------------
(* The first n users of a prefix are n users.                              *)
LEMMA NumberedCount ==
  ASSUME NEW p \in Prefixes, NEW n \in Int, n <= MaxUsers
  PROVE  /\ IsFiniteSet(Numbered(p, n))
         /\ n >= 0 => Cardinality(Numbered(p, n)) = n
         /\ n <= 0 => Numbered(p, n) = {}
         /\ Numbered(p, n) \subseteq Numbered(p, MaxUsers)
<1>1. MaxUsers \in Nat
  BY UsersAssumption
<1>2. Numbered(p, n) \subseteq Numbered(p, MaxUsers)
  BY <1>1 DEF Numbered
<1>3. CASE n <= 0
  <2>1. Numbered(p, n) = {}
    BY <1>3 DEF Numbered
  <2> QED
    BY <1>2, <1>3, <2>1, FS_EmptySet
<1>4. CASE n > 0
  <2> DEFINE f == [id \in 1..n |-> NameOf(p, id)]
  <2>1. f \in [1..n -> Numbered(p, n)] /\ \A u \in Numbered(p, n) : \E id \in 1..n : f[id] = u
    BY DEF Numbered
  <2>2. \A a, b \in 1..n : f[a] = f[b] => a = b
    BY <1>1, UsersAssumption
  <2>3. f \in Bijection(1..n, Numbered(p, n))
    <3> HIDE DEF f
    <3> QED
      BY <2>1, <2>2, Fun_IsBij
  <2>4. ExistsBijection(1..n, Numbered(p, n))
    BY <2>3 DEF ExistsBijection
  <2>5. IsFiniteSet(1..n) /\ Cardinality(1..n) = n
    <3>1. IsFiniteSet(1..n) /\ Cardinality(1..n) = IF 1 > n THEN 0 ELSE n - 1 + 1
      BY FS_Interval
    <3> QED
      BY <1>4, <3>1
  <2> QED
    BY <1>2, <1>4, <2>4, <2>5, FS_Bijection
<1> QED
  BY <1>3, <1>4

LEMMA WantedIsNumbered ==
  ASSUME NEW w \in Workshop
  PROVE  /\ w.prefix \in Prefixes /\ w.number \in Int /\ w.number <= MaxUsers
         /\ MaxUsers \in Nat
         /\ Wanted(w) = Numbered(w.prefix, w.number)
         /\ Wanted(w) # NoSecret
         /\ Under(Wanted(w), w.prefix) = Wanted(w)
<1>1. w.prefix \in Prefixes /\ w.number \in Int /\ w.number <= MaxUsers /\ MaxUsers \in Nat
  BY UsersAssumption DEF Workshop
<1>2. Wanted(w) \subseteq Numbered(w.prefix, MaxUsers)
  BY <1>1, NumberedCount DEF Wanted
<1>3. Nobody \notin Wanted(w)
  BY WantedTyped, NobodyIsNoName
<1> QED
  BY <1>1, <1>2, <1>3 DEF Wanted, Under, NoSecret

(* No secret counts as up to date with more users under the prefix than    *)
(* the spec asks for, whatever else the count counts.                      *)
TooManyFor(users, w) == users # {} /\ ~(Cardinality(users) <= w.number)

LEMMA UnderFinite ==
  ASSUME NEW w \in Workshop, NEW users
  PROVE  IsFiniteSet(Under(users, w.prefix)) /\ Cardinality(Under(users, w.prefix)) \in Nat
<1>1. IsFiniteSet(Numbered(w.prefix, MaxUsers))
  BY WantedIsNumbered, NumberedCount
<1>2. Under(users, w.prefix) \subseteq Numbered(w.prefix, MaxUsers)
  BY DEF Under
<1> QED
  BY <1>1, <1>2, FS_Subset, FS_CardinalityType

LEMMA CountCaps ==
  ASSUME NEW w \in Workshop, NEW users, NEW accidental \in Nat,
         w.number = Cardinality(Under(users, w.prefix)) + accidental
  PROVE  ~TooManyFor(Under(users, w.prefix), w)
<1>1. Cardinality(Under(users, w.prefix)) \in Nat
  BY UnderFinite
<1> HIDE DEF Under
<1> QED
  BY <1>1 DEF TooManyFor

(* Nor has a secret made for the spec, even with users left out.           *)
LEMMA PartCaps ==
  ASSUME NEW w \in Workshop, NEW users \in SUBSET Wanted(w)
  PROVE  users # NoSecret /\ ~TooManyFor(Under(users, w.prefix), w)
<1>1. /\ w.prefix \in Prefixes /\ w.number \in Int /\ w.number <= MaxUsers
      /\ Wanted(w) = Numbered(w.prefix, w.number)
  BY WantedIsNumbered
<1>2. users # NoSecret
  BY WantedTyped, NobodyIsNoName DEF NoSecret
<1>3. Under(users, w.prefix) \subseteq Wanted(w)
  BY DEF Under
<1>4. CASE w.number <= 0
  <2>1. Wanted(w) = {}
    BY <1>1, <1>4, NumberedCount
  <2>2. Under(users, w.prefix) = {}
    BY <1>3, <2>1
  <2> QED
    BY <1>2, <2>2 DEF TooManyFor
<1>5. CASE w.number > 0
  <2>1. IsFiniteSet(Wanted(w)) /\ Cardinality(Wanted(w)) = w.number
    BY <1>1, <1>5, NumberedCount
  <2>2. Cardinality(Under(users, w.prefix)) <= Cardinality(Wanted(w))
    BY <1>3, <2>1, FS_Subset
  <2> QED
    BY <1>2, <2>1, <2>2 DEF TooManyFor
<1> QED
  BY <1>1, <1>4, <1>5

(* A secret without gaps that counts as up to date, nothing counted by     *)
(* accident, has precisely the users of the spec.                          *)
LEMMA UpToDateIsRight ==
  ASSUME NEW w \in Workshop, NEW users, NEW n \in 0..MaxUsers,
         Under(users, w.prefix) = Numbered(w.prefix, n),
         w.number = Cardinality(Under(users, w.prefix)) + 0
  PROVE  Under(users, w.prefix) = Wanted(w)
<1>1. w.prefix \in Prefixes /\ MaxUsers \in Nat /\ Wanted(w) = Numbered(w.prefix, w.number)
  BY WantedIsNumbered
<1>2. Cardinality(Numbered(w.prefix, n)) = n
  BY <1>1, NumberedCount
<1>3. w.number = n
  BY <1>2
<1> QED
  BY <1>1, <1>3

(* The secret when a pass that saw it as it was has come to its end.       *)
SecretRight ==
  /\ secret # NoSecret
  /\ ~TooManyFor(Under(secret, workshop.prefix), workshop)
  /\ garbled \/ Under(secret, workshop.prefix) = Wanted(workshop)

SecretKept ==
  /\ pc = "compare" => secret # NoSecret
  /\ (pc = "done" /\ ~workshop.deleting) \/ ended = "installed" => blind \/ SecretRight
  /\ (pc = "done" /\ workshop.deleting) \/ ended = "removed" => secret = NoSecret

LEMMA SecretStep == Kept /\ Stage /\ SecretKept /\ [Next]_vars => SecretKept'
<1> SUFFICES ASSUME Kept, Stage, SecretKept, [Next]_vars PROVE SecretKept'
  OBVIOUS
<1> USE DEF SecretKept
<1>0. TypeOK
  BY DEF Kept
<1>1. ASSUME UNCHANGED <<secret, workshop, blind, garbled>> PROVE SecretRight' = SecretRight
  BY <1>1 DEF SecretRight, TooManyFor, Under, Wanted, Numbered
<1>2. ASSUME pc' = "idle", ended' = "failed" PROVE SecretKept'
  BY <1>2
<1>3. ASSUME pc' \in {"delete", "add", "secret", "remove"}, ended' = "nothing"
      PROVE  SecretKept'
  BY <1>3
<1>4. ASSUME workshop \in Workshop, secret' \in SUBSET Wanted(workshop), workshop' = workshop,
             garbled' \/ secret' = Wanted(workshop),
             ~workshop.deleting, pc' = "done", ended' = "nothing"
      PROVE  SecretKept'
  <2>1. /\ secret' # NoSecret
        /\ ~TooManyFor(Under(secret', workshop.prefix), workshop)
        /\ garbled' \/ Under(secret', workshop.prefix) = Wanted(workshop)
    BY <1>4, PartCaps, WantedIsNumbered
  <2>2. SecretRight'
    BY <1>4, <2>1 DEF SecretRight, TooManyFor, Under, Wanted, Numbered
  <2> QED
    BY <1>4, <2>2
<1>5. CASE UserWrites \/ CacheCatchesUp \/ UNCHANGED vars
  BY <1>1, <1>5 DEF UserWrites, CacheCatchesUp, vars, clusterVars, passVars
<1>6. CASE Start
  <2>1. CASE cr = NoWorkshop
    BY <1>1, <1>6, <2>1 DEF Start, clusterVars
  <2>2. CASE cr # NoWorkshop
    BY <1>6, <2>2 DEF Start, clusterVars
  <2> QED
    BY <2>1, <2>2
<1>7. CASE List \/ ListFails
  BY <1>3, <1>7 DEF List, ListFails, WorkOn, Reads, clusterVars, Stage
<1>8. ASSUME NEW u \in Name, DeleteUser(u) \/ AddUser(u) PROVE SecretKept'
  <2>1. CASE Return("failed")
    BY <1>2, <2>1 DEF Return
  <2>2. CASE NextCall(u) /\ pc \in {"delete", "add"}
    BY <1>3, <2>2 DEF NextCall, Stage
  <2> QED
    BY <1>8, <2>1, <2>2 DEF DeleteUser, AddUser, clusterVars
<1>9. CASE UsersDeleted \/ UsersAdded
  BY <1>3, <1>9 DEF UsersDeleted, UsersAdded, Goto, Reads, clusterVars, Stage
<1>10. CASE CreateSecret
  <2>1. workshop \in Workshop /\ ~workshop.deleting /\ workshop' = workshop
        /\ ended = "nothing" /\ ended' = "nothing"
    BY <1>10 DEF CreateSecret, Goto, Stage
  <2>2. CASE secret = NoSecret
    BY <1>4, <1>10, <2>1, <2>2 DEF CreateSecret, Goto
  <2>3. CASE secret # NoSecret
    BY <1>10, <2>1, <2>3 DEF CreateSecret, Goto
  <2> QED
    BY <2>2, <2>3
<1>11. CASE CompareSecret
  <2>1. /\ pc = "compare" /\ workshop \in Workshop /\ ~workshop.deleting
        /\ UNCHANGED <<secret, workshop>> /\ ended' = "nothing"
        /\ blind' = (blind \/ cachedSecret # secret)
        /\ secret # NoSecret
    BY <1>11 DEF CompareSecret, Reads, clusterVars, Stage
  <2>2. PICK accidental \in 0..MaxAccidental :
          /\ pc' = IF cachedSecret # NoSecret /\ OutOfDate(cachedSecret, accidental)
                   THEN "drop" ELSE "done"
          /\ garbled' = \/ garbled
                        \/ pc' = "done" /\ (accidental # 0 \/ ~Gapless(cachedSecret))
    BY <1>11 DEF CompareSecret
  <2>3. CASE pc' = "drop" \/ blind'
    BY <2>1, <2>2, <2>3
  <2>4. CASE pc' = "done" /\ ~blind'
    <3>0. accidental \in Nat
      BY UsersAssumption
    <3>1. cachedSecret = secret /\ ~OutOfDate(secret, accidental)
      <4>1. cachedSecret = secret
        BY <2>1, <2>4
      <4>2. ~(cachedSecret # NoSecret /\ OutOfDate(cachedSecret, accidental))
        BY <2>2, <2>4
      <4> QED
        BY <2>1, <4>1, <4>2
    <3>2. workshop.number = Cardinality(Under(secret, workshop.prefix)) + accidental
      BY <3>1 DEF OutOfDate
    <3>3. ~TooManyFor(Under(secret, workshop.prefix), workshop)
      BY <2>1, <3>0, <3>2, CountCaps
    <3>4. garbled' \/ Under(secret, workshop.prefix) = Wanted(workshop)
      <4> SUFFICES ASSUME ~garbled' PROVE Under(secret, workshop.prefix) = Wanted(workshop)
        OBVIOUS
      <4>1. accidental = 0 /\ Gapless(secret)
        BY <2>2, <2>4, <3>1
      <4>2. PICK n \in 0..MaxUsers :
              Under(secret, workshop.prefix) = Numbered(workshop.prefix, n)
        BY <4>1 DEF Gapless
      <4> QED
        BY <2>1, <3>2, <4>1, <4>2, UpToDateIsRight
    <3>5. SecretRight'
      BY <2>1, <3>3, <3>4 DEF SecretRight, TooManyFor, Under, Wanted, Numbered
    <3> QED
      BY <2>1, <2>4, <3>5
  <2> QED
    BY <2>2, <2>3, <2>4
<1>12. CASE GetSecretFails
  BY <1>12 DEF GetSecretFails, clusterVars, userVars, Stage
<1>13. CASE DropSecret
  BY <1>13 DEF DropSecret, Goto, Stage
<1>14. CASE RemakeSecret
  BY <1>4, <1>14 DEF RemakeSecret, Goto, Stage
<1>15. CASE RemoveSecret
  <2>1. /\ pc = "remove" /\ workshop.deleting /\ secret' = NoSecret
        /\ ended = "nothing"
    BY <1>15 DEF RemoveSecret, Stage
  <2>2. CASE Return("failed")
    BY <1>2, <2>1, <2>2 DEF Return
  <2>3. CASE Goto("done")
    BY <2>1, <2>3 DEF Goto
  <2> QED
    BY <1>15, <2>2, <2>3 DEF RemoveSecret
<1>16. CASE Finish
  BY <1>16 DEF Finish, Return, clusterVars, SecretRight, Wanted
<1>17. CASE Crash \/ \E u \in Name : UserCallFails(u)
  BY <1>2, <1>17 DEF Crash, UserCallFails, Return, clusterVars
<1>18. CASE SecretCallFails
  BY <1>2, <1>18 DEF SecretCallFails, Return
<1>19. CASE CommandsFail
  BY <1>4, <1>19 DEF CommandsFail, Stage
<1> QED
  BY <1>5, <1>6, <1>7, <1>8, <1>9, <1>10, <1>11, <1>12, <1>13, <1>14, <1>15, <1>16, <1>17,
     <1>18, <1>19 DEF Next, PassStep, Failure

-----------------------------------------------------------------------------
(* What the three settling properties rest on together.                    *)
Course == Kept /\ Nested /\ Stage /\ Complete /\ Progress /\ SecretKept

LEMMA CourseAlways == Spec => []Course
<1>1. Init => Course
  <2>1. Init => Kept
    BY KeptInit
  <2>2. Init => Nested /\ Stage /\ Complete
    BY DEF Init, Nested, ObjectsNest, CallsMade, Stage, Complete, RestThere, Whole
  <2>3. Init => Progress /\ SecretKept
    BY DEF Init, Progress, Deleting, Adding, Settled, SecretKept
  <2> QED
    BY <2>1, <2>2, <2>3 DEF Course
<1>2. Course /\ [Next]_vars => Course'
  BY KeptStep, NestedStep, StageStep, CompleteStep, ProgressStep, SecretStep DEF Course
<1> QED
  BY <1>1, <1>2, PTL DEF Spec

(* A user that is not listed has nothing left, by the nesting.             *)
LEMMA AbsentIsEmpty ==
  ASSUME Kept, ObjectsNest, NEW u \in Name, u \notin Present
  PROVE  have[u] = {}
<1>1. have[u] \subseteq Objects /\ "user" \notin have[u]
  BY DEF Kept, TypeOK, Present
<1>2. /\ Making[1] = "user" /\ Making[2] = "rolebinding"
      /\ Making[3] = "identity" /\ Making[4] = "mapping"
  BY DEF Making
<1>3. "rolebinding" \notin have[u]
  BY <1>1, <1>2 DEF ObjectsNest
<1>4. "identity" \notin have[u]
  BY <1>2, <1>3 DEF ObjectsNest
<1>5. "mapping" \notin have[u]
  BY <1>2, <1>4 DEF ObjectsNest
<1> QED
  BY <1>1, <1>3, <1>4, <1>5 DEF Objects

(* An install pass that returns no error, and saw the cluster as it was,   *)
(* leaves the users of the spec and no others, complete but for those in   *)
(* whose calls some pass was cut off.                                      *)
THEOREM UsersAreSettled == Spec => []PassSettlesUsers
<1>1. Course => PassSettlesUsers
  <2> SUFFICES ASSUME Course, ended = "installed", ~blind
               PROVE  /\ Present = Wanted(workshop)
                      /\ \A u \in Wanted(workshop) : have[u] = Objects \/ u \in interrupted
    BY DEF PassSettlesUsers
  <2>1. Present = Wanted(workshop)
    BY DEF Course, Stage, Progress, Settled, Sought
  <2>2. pc = "idle" /\ cur = Nobody
    BY DEF Course, Stage, Kept
  <2>3. ASSUME NEW u \in Wanted(workshop) PROVE have[u] = Objects \/ u \in interrupted
    <3>1. u \in Name /\ u # Nobody /\ "user" \in have[u]
      BY <2>1, <2>3, NobodyIsNoName DEF Present
    <3> QED
      BY <2>2, <3>1 DEF Course, Complete, Whole
  <2> QED
    BY <2>1, <2>3
<1> QED
  BY <1>1, CourseAlways, PTL

(* It leaves a secret with no more users under the prefix than asked for,  *)
(* and with precisely these unless commands failed or the count was right  *)
(* by accident: counting the occurrences of the prefix tells the secrets   *)
(* of earlier specs apart, not whatever the text may contain.              *)
THEOREM SecretIsSettled == Spec => []PassSettlesSecret
<1>1. Course => PassSettlesSecret
  BY DEF Course, SecretKept, SecretRight, PassSettlesSecret, TooManyFor
<1> QED
  BY <1>1, CourseAlways, PTL

(* A teardown that returns no error, and saw the cluster as it was, leaves *)
(* neither the secret nor any object of a user, though it deletes only     *)
(* what the list of users names.                                           *)
THEOREM RemovalIsSettled == Spec => []RemovalSettles
<1>1. Course => RemovalSettles
  <2> SUFFICES ASSUME Course, ended = "removed", ~blind
               PROVE  secret = NoSecret /\ \A u \in Name : have[u] = {}
    BY DEF RemovalSettles
  <2>1. secret = NoSecret
    BY DEF Course, SecretKept
  <2>2. Present = {}
    BY DEF Course, Stage, Progress, Settled, Sought
  <2> QED
    BY <2>1, <2>2, AbsentIsEmpty DEF Course, Nested
<1> QED
  BY <1>1, CourseAlways, PTL

-----------------------------------------------------------------------------
(* The refinement of UserRoster.  Whatever a pass has read, what it is to  *)
(* delete is not sought, and what it is to add is.                         *)
Aims ==
  /\ pc = "list" => ~blind
  /\ pc = "delete" => todo \cap Sought = {} /\ missing \subseteq Sought
  /\ pc = "add" => todo \subseteq Sought

LEMMA AimsStep == Kept /\ Stage /\ Aims /\ [Next]_vars => Aims'
<1> SUFFICES ASSUME Kept, Stage, Aims, [Next]_vars PROVE Aims'
  OBVIOUS
<1> USE DEF Aims
<1>1. ASSUME UNCHANGED <<pc, blind, workshop, missing>>, todo' \subseteq todo PROVE Aims'
  BY <1>1 DEF Sought, Wanted
<1>2. ASSUME pc' \notin {"list", "delete", "add"} PROVE Aims'
  BY <1>2
<1>3. ASSUME NEW listed \in SUBSET Name, WorkOn(listed) PROVE Aims'
  <2>1. todo' = listed \ Sought /\ missing' = Sought \ listed /\ pc' = "delete"
    BY <1>3 DEF WorkOn, ToDelete, ToAdd, Sought
  <2>2. Sought' = Sought
    BY <1>3 DEF WorkOn, Sought, Wanted
  <2> QED
    BY <2>1, <2>2
<1>4. CASE UserWrites \/ CacheCatchesUp \/ UNCHANGED vars
  BY <1>1, <1>4 DEF UserWrites, CacheCatchesUp, vars, passVars, userVars
<1>5. CASE Start
  <2>1. CASE cr = NoWorkshop
    BY <1>1, <1>5, <2>1 DEF Start, userVars
  <2>2. CASE cr # NoWorkshop
    BY <1>5, <2>2 DEF Start
  <2> QED
    BY <2>1, <2>2
<1>6. CASE List \/ ListFails
  BY <1>3, <1>6 DEF List, ListFails, Kept, TypeOK
<1>7. ASSUME NEW u \in Name, DeleteUser(u) \/ AddUser(u) PROVE Aims'
  BY <1>1, <1>2, <1>7 DEF DeleteUser, AddUser, NextCall, Return
<1>8. CASE UsersDeleted
  <2>1. /\ pc = "delete" /\ todo' = missing /\ UNCHANGED workshop
        /\ pc' = IF workshop.deleting THEN "remove" ELSE "add"
    BY <1>8 DEF UsersDeleted
  <2> QED
    BY <2>1 DEF Sought, Wanted
<1>9. CASE UsersAdded \/ CreateSecret \/ CompareSecret \/ GetSecretFails \/ DropSecret
           \/ RemakeSecret \/ RemoveSecret
  BY <1>2, <1>9
     DEF UsersAdded, CreateSecret, CompareSecret, GetSecretFails, DropSecret, RemakeSecret,
         RemoveSecret, Goto, Return
<1>10. CASE \/ Finish \/ SecretCallFails \/ CommandsFail \/ Crash
            \/ \E u \in Name : UserCallFails(u)
  BY <1>2, <1>10 DEF Finish, SecretCallFails, CommandsFail, Crash, UserCallFails, Return
<1> QED
  BY <1>4, <1>5, <1>6, <1>7, <1>8, <1>9, <1>10 DEF Next, PassStep, Failure

LEMMA AimsAlways == Spec => [](Course /\ Aims)
<1>1. Init => Aims
  BY DEF Init, Aims
<1>2. Course /\ Aims /\ [Next]_vars => Aims'
  BY AimsStep DEF Course
<1> QED
  BY <1>1, <1>2, CourseAlways, PTL DEF Spec

LEMMA SoughtTyped == TypeOK => Sought \subseteq Name
BY WantedTyped DEF Sought, TypeOK

(* An object deleted is of a user not sought, and one made of one that is. *)
LEMMA UserTowards ==
  ASSUME Course, Aims, NEW u \in Name, Turn(u),
         \/ have' = have
         \/ pc = "add" /\ have' = [have EXCEPT ![u] = @ \cup {Making[at]}]
         \/ pc = "delete" /\ have' = [have EXCEPT ![u] = @ \ {Unmaking[at]}]
  PROVE  Roster!Towards
<1>1. /\ have \in [Name -> SUBSET Objects] /\ u \in todo
      /\ Making[at] \in Objects /\ Unmaking[at] \in Objects
  BY OrdersTyped DEF Course, Kept, TypeOK, Turn
<1>2. CASE have' = have
  BY <1>1, <1>2 DEF Roster!Towards
<1>3. CASE pc = "add" /\ have' = [have EXCEPT ![u] = @ \cup {Making[at]}]
  <2>1. u \in Sought
    BY <1>1, <1>3 DEF Aims
  <2>2. have'[u] = have[u] \cup {Making[at]} /\ \A v \in Name : v # u => have'[v] = have[v]
    BY <1>1, <1>3
  <2>3. have' \in [Name -> SUBSET Objects]
    BY <1>1, <1>3
  <2>4. Sought \subseteq Name
    BY SoughtTyped DEF Course, Kept
  <2> QED
    BY <2>1, <2>2, <2>3, <2>4 DEF Roster!Towards
<1>4. CASE pc = "delete" /\ have' = [have EXCEPT ![u] = @ \ {Unmaking[at]}]
  <2>1. u \notin Sought
    BY <1>1, <1>4 DEF Aims
  <2>2. have'[u] = have[u] \ {Unmaking[at]} /\ \A v \in Name : v # u => have'[v] = have[v]
    BY <1>1, <1>4
  <2>3. have' \in [Name -> SUBSET Objects]
    BY <1>1, <1>4
  <2>4. Sought \subseteq Name
    BY SoughtTyped DEF Course, Kept
  <2> QED
    BY <2>1, <2>2, <2>3, <2>4 DEF Roster!Towards
<1> QED
  BY <1>2, <1>3, <1>4

LEMMA RosterStep == Course /\ Aims /\ [Next]_vars => [Roster!Next]_(Roster!vars)
<1> SUFFICES ASSUME Course, Aims, [Next]_vars,
                    ~UNCHANGED <<Doing, Sought, have, secret, ~blind /\ ~garbled, ended>>
             PROVE  Roster!Next
  BY DEF Roster!vars
<1>0. /\ have \in [Name -> SUBSET Objects] /\ Sought \subseteq Name
      /\ blind \in BOOLEAN
      /\ pc # "idle" => workshop \in Workshop
  BY SoughtTyped DEF Course, Kept, TypeOK, Stage
<1>1. workshop' = workshop => Sought' = Sought
  BY DEF Sought, Wanted
<1>2. have' = have => Roster!Towards
  BY <1>0 DEF Roster!Towards
<1>3. ASSUME pc # "idle", pc' # "idle", UNCHANGED <<workshop, ended>>, Roster!Towards,
             Roster!LoginsTowards, blind' = blind \/ blind', garbled' = garbled \/ garbled'
      PROVE  Roster!Next
  <2>1. Doing # "rest" /\ UNCHANGED <<Doing, Sought, ended>>
    BY <1>1, <1>3 DEF Doing
  <2>2. (~blind /\ ~garbled)' \in {~blind /\ ~garbled, FALSE}
    <3>1. CASE blind' = blind /\ garbled' = garbled
      BY <3>1
    <3>2. CASE blind' \/ garbled'
      BY <3>2
    <3> QED
      BY <1>3, <3>1, <3>2
  <2>3. Roster!Move
    BY <1>3, <2>1, <2>2 DEF Roster!Move
  <2> QED
    BY <2>3 DEF Roster!Next
<1>4. ASSUME pc # "idle", pc' = "idle", ended' = "failed", UNCHANGED <<workshop, blind, garbled>>,
             Roster!Towards, Roster!LoginsTowards
      PROVE  Roster!Next
  <2>1. Doing # "rest" /\ Doing' = "rest" /\ UNCHANGED Sought
    BY <1>1, <1>4 DEF Doing
  <2>2. Roster!GiveUp
    BY <1>4, <2>1 DEF Roster!GiveUp
  <2> QED
    BY <2>2 DEF Roster!Next
<1>5. secret' = secret => Roster!LoginsTowards
  BY DEF Roster!LoginsTowards
<1>6. secret' = NoSecret => Roster!LoginsTowards
  BY DEF Roster!LoginsTowards
<1>7. pc # "idle" /\ ~workshop.deleting /\ secret' \in SUBSET Wanted(workshop) => Roster!LoginsTowards
  BY DEF Roster!LoginsTowards, Doing, Sought
<1>8. CASE UserWrites \/ CacheCatchesUp \/ UNCHANGED vars
  BY <1>8, <1>1 DEF UserWrites, CacheCatchesUp, vars, passVars, clusterVars, Doing
<1>9. CASE Start
  <2>1. cr # NoWorkshop
    BY <1>1, <1>9 DEF Start, clusterVars, Doing
  <2>2. /\ pc = "idle" /\ pc' = "list" /\ workshop' = cr /\ ended' = "nothing"
        /\ blind' = FALSE /\ garbled' = FALSE /\ UNCHANGED <<have, secret>>
    BY <1>9, <2>1 DEF Start, clusterVars
  <2>3. Doing = "rest" /\ Doing' = IF cr.deleting THEN "remove" ELSE "install"
    BY <2>2 DEF Doing
  <2>4. Sought' = IF cr.deleting THEN {} ELSE Wanted(cr)
    BY <2>2 DEF Sought, Wanted
  <2>5. Wanted(cr) \subseteq Name
    BY WantedTyped DEF Course, Kept, TypeOK
  <2>6. Roster!Begin
    BY <2>2, <2>3, <2>4, <2>5 DEF Roster!Begin
  <2> QED
    BY <2>6 DEF Roster!Next
<1>10. CASE List \/ ListFails
  <2>1. /\ pc = "list" /\ pc' = "delete" /\ UNCHANGED <<workshop, ended, have, secret>>
        /\ ~blind /\ blind' \in BOOLEAN /\ garbled' = garbled
    BY <1>10 DEF List, ListFails, WorkOn, Reads, clusterVars, Aims
  <2> QED
    BY <1>0, <1>2, <1>3, <1>5, <2>1
<1>11. ASSUME NEW u \in Name, DeleteUser(u) \/ AddUser(u) PROVE Roster!Next
  <2>1. /\ pc \in {"delete", "add"} /\ Turn(u) /\ UNCHANGED <<workshop, secret, blind, garbled>>
        /\ \/ have' = have
           \/ pc = "add" /\ have' = [have EXCEPT ![u] = @ \cup {Making[at]}]
           \/ pc = "delete" /\ have' = [have EXCEPT ![u] = @ \ {Unmaking[at]}]
        /\ \/ pc' = "idle" /\ ended' = "failed"
           \/ pc' = pc /\ ended' = ended
    BY <1>11 DEF DeleteUser, AddUser, NextCall, Return, clusterVars
  <2>2. Roster!Towards
    BY <2>1, UserTowards
  <2> QED
    BY <1>3, <1>4, <1>5, <2>1, <2>2
<1>12. CASE UsersDeleted \/ UsersAdded
  <2>1. /\ pc = "delete" \/ pc = "add"
        /\ pc' \in {"remove", "add", "secret"}
        /\ UNCHANGED <<workshop, ended, have, secret, blind, garbled>>
    BY <1>12 DEF UsersDeleted, UsersAdded, Goto, Reads, clusterVars
  <2> QED
    BY <1>2, <1>3, <1>5, <2>1
<1>13. CASE CreateSecret
  <2>1. /\ pc = "secret" /\ pc' \in {"done", "compare"} /\ ~workshop.deleting
        /\ UNCHANGED <<workshop, ended, have, blind, garbled>>
        /\ secret' = secret \/ secret' = Wanted(workshop)
    BY <1>13 DEF CreateSecret, Goto, WritesSecret, Course, Stage
  <2> QED
    BY <1>2, <1>3, <1>5, <1>7, <2>1
<1>14. CASE CompareSecret \/ GetSecretFails
  <2>1. /\ pc = "compare" /\ pc' \in {"drop", "done"}
        /\ UNCHANGED <<workshop, ended, have, secret>>
    BY <1>0, <1>14 DEF CompareSecret, GetSecretFails, Reads, clusterVars
  <2>2. blind' = blind \/ blind'
    BY <1>0, <1>14 DEF CompareSecret, GetSecretFails
  <2>3. garbled' = garbled \/ garbled'
    <3>1. CASE CompareSecret /\ garbled
      <4>1. garbled'
        BY <3>1 DEF CompareSecret
      <4> QED
        BY <4>1
    <3>2. CASE CompareSecret /\ ~garbled
      <4>1. garbled \in BOOLEAN /\ garbled' \in BOOLEAN
        BY <3>2 DEF CompareSecret, Course, Kept, TypeOK
      <4> QED
        BY <3>2, <4>1
    <3>3. CASE GetSecretFails
      BY <3>3 DEF GetSecretFails
    <3> QED
      BY <1>14, <3>1, <3>2, <3>3
  <2> QED
    BY <1>2, <1>3, <1>5, <2>1, <2>2, <2>3
<1>15. CASE DropSecret
  <2>1. /\ pc = "drop" /\ pc' = "remake" /\ secret' = NoSecret
        /\ UNCHANGED <<workshop, ended, have, blind, garbled>>
    BY <1>15 DEF DropSecret, Goto, WritesSecret
  <2> QED
    BY <1>2, <1>3, <1>6, <2>1
<1>22. CASE CommandsFail
  <2>1. /\ pc \in {"secret", "remake"} /\ pc' = "done" /\ ~workshop.deleting
        /\ secret' \in SUBSET Wanted(workshop)
        /\ garbled' /\ UNCHANGED <<workshop, ended, have, blind>>
    BY <1>22 DEF CommandsFail, Course, Stage
  <2> QED
    BY <1>2, <1>3, <1>7, <2>1
<1>16. CASE RemakeSecret
  <2>1. /\ pc = "remake" /\ pc' = "done" /\ secret' = Wanted(workshop) /\ ~workshop.deleting
        /\ UNCHANGED <<workshop, ended, have, blind, garbled>>
    BY <1>16 DEF RemakeSecret, Goto, WritesSecret, Course, Stage
  <2> QED
    BY <1>2, <1>3, <1>7, <2>1
<1>17. CASE RemoveSecret
  <2>1. /\ pc = "remove" /\ secret' = NoSecret
        /\ UNCHANGED <<workshop, have, blind, garbled>>
        /\ \/ pc' = "idle" /\ ended' = "failed"
           \/ pc' = "done" /\ ended' = ended
    BY <1>17 DEF RemoveSecret, Goto, Return, WritesSecret
  <2> QED
    BY <1>2, <1>3, <1>4, <1>6, <2>1
<1>18. CASE Finish
  <2>1. /\ pc = "done" /\ pc' = "idle" /\ workshop \in Workshop
        /\ ended' = IF workshop.deleting THEN "removed" ELSE "installed"
        /\ UNCHANGED <<workshop, have, secret, blind, garbled>>
    BY <1>0, <1>18 DEF Finish, Return, clusterVars
  <2>2. ASSUME ~blind /\ ~garbled PROVE Roster!Reached
    <3>1. Present = Sought
      BY <2>1, <2>2 DEF Course, Progress, Settled
    <3>2. \A u \in Name : have[u] # {} <=> u \in Present
      BY AbsentIsEmpty DEF Course, Nested, Present
    <3>3. {u \in Name : have[u] # {}} = Sought
      BY <3>1, <3>2 DEF Present
    <3>4. IF workshop.deleting THEN secret = NoSecret
          ELSE secret # NoSecret /\ Sought \subseteq secret
      BY <2>1, <2>2 DEF Course, SecretKept, SecretRight, Sought, Under
    <3> QED
      BY <2>1, <3>3, <3>4 DEF Roster!Reached, Doing
  <2>3. /\ Doing # "rest" /\ Doing' = "rest" /\ UNCHANGED Sought
        /\ ended' = IF Doing = "install" THEN "installed" ELSE "removed"
    BY <1>1, <2>1 DEF Doing
  <2>4. Roster!End
    BY <2>1, <2>2, <2>3 DEF Roster!End
  <2> QED
    BY <2>4 DEF Roster!Next
<1>19. ASSUME NEW u \in Name, UserCallFails(u) PROVE Roster!Next
  <2>1. /\ pc # "idle" /\ pc' = "idle" /\ ended' = "failed" /\ Turn(u)
        /\ UNCHANGED <<workshop, secret, blind, garbled>>
        /\ \/ have' = have
           \/ pc = "add" /\ have' = [have EXCEPT ![u] = @ \cup {Making[at]}]
           \/ pc = "delete" /\ have' = [have EXCEPT ![u] = @ \ {Unmaking[at]}]
    BY <1>19 DEF UserCallFails, Return
  <2>2. Roster!Towards
    BY <2>1, UserTowards
  <2> QED
    BY <1>4, <1>5, <2>1, <2>2
<1>20. CASE SecretCallFails
  <2>1. /\ pc # "idle" /\ pc' = "idle" /\ ended' = "failed"
        /\ UNCHANGED <<workshop, have, blind, garbled>>
        /\ \/ secret' = secret
           \/ secret' = NoSecret
           \/ ~workshop.deleting /\ secret' \in SUBSET Wanted(workshop)
    BY <1>20 DEF SecretCallFails, Return, Course, Stage
  <2> QED
    BY <1>2, <1>4, <1>5, <1>6, <1>7, <2>1
<1>21. CASE Crash
  <2>1. /\ pc # "idle" /\ pc' = "idle" /\ ended' = "failed"
        /\ UNCHANGED <<workshop, have, secret, blind, garbled>>
    BY <1>21 DEF Crash, clusterVars
  <2> QED
    BY <1>2, <1>4, <1>5, <2>1
<1> QED
  BY <1>8, <1>9, <1>10, <1>11, <1>12, <1>13, <1>14, <1>15, <1>16, <1>17, <1>18, <1>19,
     <1>20, <1>21, <1>22 DEF Next, PassStep, Failure

(* Call by call the user phase implements UserRoster, for any prefixes and *)
(* numbers of users, edits and faults: also a pass that is misled moves    *)
(* every account towards its spec, never away from it.                     *)
THEOREM ImplementsRoster == Spec => KeepsRoster
<1>1. Init => Roster!Init
  <2> SUFFICES ASSUME Init PROVE Roster!Init
    OBVIOUS
  <2>1. Sought = {}
    <3>1. workshop.number = 0 /\ ~workshop.deleting
      BY DEF Init, NoWorkshop
    <3> QED
      BY <3>1 DEF Sought, Wanted, Numbered
  <2>2. Doing = "rest"
    BY DEF Init, Doing
  <2>3. (~blind /\ ~garbled) = TRUE
    BY DEF Init
  <2> QED
    BY <2>1, <2>2, <2>3 DEF Init, Roster!Init
<1> QED
  BY <1>1, RosterStep, AimsAlways, PTL DEF Spec, KeepsRoster, Roster!Spec
=============================================================================
