------------------------ MODULE VaultConstraints_proofs ------------------------
(***************************************************************************)
(* Theorems about VaultConstraints for any number of functions that share  *)
(* the constraints, of lives and of faults.                                *)
(***************************************************************************)
EXTENDS VaultConstraints, TLAPS

LEMMA MissingTyped == Missing \in Constraints /\ ~Missing.there
BY DEF Missing, Constraints

(* What a Create leaves at the API server.                                 *)
LEMMA CopyIsThere ==
  ASSUME TypeOK, Working("create")
  PROVE  /\ Copied \in Constraints
         /\ Copied.there
         /\ scc.there => Copied = scc
         /\ ~scc.there => Copied.users = {Order[turn]}
<1>1. turn \in 1..Len(Order)
  BY DEF TypeOK, Working
<1>2. Order[turn] \in Accounts
  BY <1>1 DEF Accounts
<1>3. [there |-> TRUE, users |-> {Order[turn]}] \in Constraints
  BY <1>2 DEF Constraints
<1> QED
  BY <1>3 DEF TypeOK, Copied

LEMMA TypeInit == Init => TypeOK
<1> SUFFICES ASSUME Init PROVE TypeOK
  OBVIOUS
<1>1. turn \in 1..Len(Order) + 1 /\ lives \in Nat /\ faults \in Nat
  BY VaultAssumption DEF Init
<1>2. deceived \in BOOLEAN /\ passedBy \in BOOLEAN
  BY DEF Init
<1> QED
  BY <1>1, <1>2, MissingTyped DEF Init, TypeOK

LEMMA TypeStep == TypeOK /\ [Next]_vars => TypeOK'
<1> SUFFICES ASSUME TypeOK, [Next]_vars PROVE TypeOK'
  OBVIOUS
<1> USE VaultAssumption DEF Outer
<1>1. CASE CreateWorkshop
  <2>1. lives' \in Nat
    BY <1>1 DEF CreateWorkshop, TypeOK
  <2>2. /\ workshop' = "live"
        /\ UNCHANGED <<scc, seen, call, turn, done, deceived, passedBy, faults>>
    BY <1>1 DEF CreateWorkshop
  <2> QED
    BY <2>1, <2>2 DEF TypeOK
<1>2. CASE DeleteWorkshop
  BY <1>2 DEF DeleteWorkshop, TypeOK
<1>3. CASE CacheCatchesUp
  BY <1>3 DEF CacheCatchesUp, TypeOK
<1>4. CASE Begin
  <2>1. turn' \in 1..Len(Order) + 1 /\ call' \in {"look", "lookAgain"}
    BY <1>4 DEF Begin
  <2>2. done' = "not" /\ deceived' = FALSE /\ UNCHANGED <<workshop, lives, scc, seen, passedBy, faults>>
    BY <1>4 DEF Begin
  <2> QED
    BY <2>1, <2>2 DEF TypeOK
<1>5. CASE Look
  <2>1. /\ call' \in {"look", "create"} /\ turn' \in 1..Len(Order) + 1
        /\ call' = "create" => turn' <= Len(Order)
    BY <1>5 DEF Look, Working, NextFunction, TypeOK
  <2>2. deceived' \in BOOLEAN /\ passedBy' \in BOOLEAN
    BY <1>5 DEF Look
  <2>3. UNCHANGED <<workshop, lives, scc, seen, done, faults>>
    BY <1>5 DEF Look
  <2> QED
    BY <2>1, <2>2, <2>3 DEF TypeOK
<1>6. CASE Create
  BY <1>6, CopyIsThere DEF Create, Working, NextFunction, TypeOK
<1>7. CASE InstallEnds
  BY <1>7 DEF InstallEnds, Stop, TypeOK
<1>8. CASE LookAgain
  <2>1. /\ call' \in {"lookAgain", "delete"} /\ turn' \in 1..Len(Order) + 1
        /\ call' = "delete" => turn' <= Len(Order)
    BY <1>8 DEF LookAgain, Working, NextFunction, TypeOK
  <2>2. deceived' \in BOOLEAN
    BY <1>8 DEF LookAgain
  <2>3. UNCHANGED <<workshop, lives, scc, seen, done, passedBy, faults>>
    BY <1>8 DEF LookAgain
  <2> QED
    BY <2>1, <2>2, <2>3 DEF TypeOK
<1>9. CASE Delete
  <2>1. call' \in {"rest", "lookAgain"} /\ turn' \in 1..Len(Order) + 1
    BY <1>9 DEF Delete, Working, NextFunction, Stop, TypeOK
  <2>2. done' \in {"not", "installed", "removed"} /\ workshop' \in {"none", "live", "deleting"}
    BY <1>9 DEF Delete, Stop, TypeOK
  <2>3. scc' \in Constraints /\ passedBy' \in BOOLEAN
    BY <1>9, MissingTyped DEF Delete
  <2>4. UNCHANGED <<lives, seen, deceived, faults>>
    BY <1>9 DEF Delete
  <2> QED
    BY <2>1, <2>2, <2>3, <2>4 DEF TypeOK
<1>10. CASE TeardownEnds
  BY <1>10 DEF TeardownEnds, Stop, TypeOK
<1>11. CASE CallFails
  <2>1. scc' \in Constraints /\ passedBy' \in BOOLEAN
    BY <1>11, CopyIsThere, MissingTyped DEF CallFails, TypeOK
  <2>2. call' = "rest" /\ turn' = 1 /\ done' = "not" /\ faults' \in Nat
    BY <1>11 DEF CallFails, Stop, Fault, TypeOK
  <2>3. workshop' \in {"none", "live", "deleting"} /\ UNCHANGED <<lives, seen, deceived>>
    BY <1>11 DEF CallFails, TypeOK
  <2> QED
    BY <2>1, <2>2, <2>3 DEF TypeOK
<1>12. CASE LookFails
  <2>1. /\ call' \in {"create", "lookAgain"} /\ turn' \in 1..Len(Order) + 1
        /\ call' = "create" => turn' <= Len(Order)
    BY <1>12 DEF LookFails, Working, NextFunction, TypeOK
  <2>2. deceived' \in BOOLEAN
    <3>1. CASE deceived' = (deceived \/ scc.there)
      BY <3>1
    <3>2. CASE UNCHANGED deceived
      BY <3>2 DEF TypeOK
    <3> QED
      BY <1>12, <3>1, <3>2 DEF LookFails
  <2>4. faults' \in Nat
    BY <1>12 DEF LookFails, Fault, TypeOK
  <2>3. UNCHANGED <<workshop, lives, scc, seen, done, passedBy>>
    BY <1>12 DEF LookFails
  <2> QED
    BY <2>1, <2>2, <2>3, <2>4 DEF TypeOK
<1>13. CASE UNCHANGED vars
  BY <1>13 DEF vars, TypeOK
<1> QED
  BY <1>1, <1>2, <1>3, <1>4, <1>5, <1>6, <1>7, <1>8, <1>9, <1>10, <1>11, <1>12,
     <1>13
  DEF Next, WorkerStep

(* The state of the shared constraints is well formed: only accounts of    *)
(* the functions are added, and no call is made past the last function.    *)
THEOREM VaultTypeCorrect == Spec => []TypeOK
BY TypeInit, TypeStep, PTL DEF Spec

-----------------------------------------------------------------------------
(* What the first function of a pass, or of a teardown, has established.   *)
InInstall == call \in {"look", "create"}
InTeardown == call \in {"lookAgain", "delete"}

Established ==
  /\ workshop = "none" => call = "rest" /\ done # "installed"
  /\ InTeardown => workshop = "deleting"
  /\ InInstall /\ turn > 1 /\ ~deceived => scc.there
  /\ InTeardown /\ turn > 1 /\ ~deceived => ~scc.there
  /\ EndsAsItShould

LEMMA EstablishedStep == TypeOK /\ Established /\ [Next]_vars => Established'
<1> SUFFICES ASSUME TypeOK, Established, [Next]_vars PROVE Established'
  OBVIOUS
<1> USE DEF Outer, InInstall, InTeardown
<1>1. CASE CreateWorkshop
  BY <1>1 DEF CreateWorkshop, Established, EndsAsItShould
<1>2. CASE DeleteWorkshop
  BY <1>2 DEF DeleteWorkshop, Established, EndsAsItShould
<1>3. CASE CacheCatchesUp
  BY <1>3 DEF CacheCatchesUp, Established, EndsAsItShould
<1>4. CASE Begin
  BY <1>4 DEF Begin, Established, EndsAsItShould
<1>5. CASE Look
  <2>1. UNCHANGED <<workshop, scc, done>> /\ call' \in {"look", "create"} /\ call = "look"
    BY <1>5 DEF Look, Working, NextFunction
  <2>2. turn' > 1 /\ ~deceived' => scc'.there
    <3>1. SUFFICES ASSUME turn' > 1, ~deceived' PROVE scc.there
      BY <2>1
    <3>2. ~deceived /\ ~(seen.there /\ ~scc.there)
      BY <1>5, <3>1 DEF Look
    <3>3. CASE seen.there
      BY <3>2, <3>3
    <3>4. CASE ~seen.there
      <4>1. turn > 1
        BY <1>5, <3>1, <3>4 DEF Look
      <4> QED
        BY <2>1, <3>2, <4>1 DEF Established
    <3> QED
      BY <3>3, <3>4
  <2> QED
    BY <2>1, <2>2 DEF Established, EndsAsItShould
<1>6. CASE Create
  <2>1. scc'.there
    BY <1>6, CopyIsThere DEF Create
  <2> QED
    BY <1>6, <2>1 DEF Create, Working, NextFunction, Established, EndsAsItShould
<1>7. CASE InstallEnds
  <2>1. turn > 1
    BY <1>7, VaultAssumption DEF InstallEnds, TypeOK
  <2> QED
    BY <1>7, <2>1 DEF InstallEnds, Stop, Established, EndsAsItShould
<1>8. CASE LookAgain
  <2>1. /\ UNCHANGED <<workshop, scc, done>>
        /\ call' \in {"lookAgain", "delete"} /\ call = "lookAgain"
    BY <1>8 DEF LookAgain, Working, NextFunction
  <2>2. turn' > 1 /\ ~deceived' => ~scc'.there
    <3>1. SUFFICES ASSUME turn' > 1, ~deceived' PROVE ~scc.there
      BY <2>1
    <3>2. ~deceived /\ seen.there = scc.there
      BY <1>8, <3>1 DEF LookAgain
    <3>3. CASE ~seen.there
      BY <3>2, <3>3
    <3>4. CASE seen.there
      <4>1. turn > 1
        BY <1>8, <3>1, <3>4 DEF LookAgain
      <4> QED
        BY <2>1, <3>2, <4>1 DEF Established
    <3> QED
      BY <3>3, <3>4
  <2> QED
    BY <2>1, <2>2 DEF Established, EndsAsItShould
<1>9. CASE Delete
  <2>1. ~scc'.there
    BY <1>9, MissingTyped DEF Delete
  <2> QED
    BY <1>9, <2>1 DEF Delete, Working, NextFunction, Stop, Established, EndsAsItShould
<1>10. CASE TeardownEnds
  <2>1. turn > 1
    BY <1>10, VaultAssumption DEF TeardownEnds, TypeOK
  <2> QED
    BY <1>10, <2>1 DEF TeardownEnds, Stop, Established, EndsAsItShould
<1>11. CASE CallFails
  BY <1>11 DEF CallFails, Stop, Established, EndsAsItShould, TypeOK
<1>12. CASE LookFails
  <2>1. UNCHANGED <<workshop, scc, done>>
    BY <1>12 DEF LookFails
  <2>2. CASE Working("look")
    <3>1. call' = "create" /\ UNCHANGED <<turn, deceived>>
      BY <1>12, <2>2 DEF LookFails, Working
    <3> QED
      BY <2>1, <2>2, <3>1 DEF Working, Established, EndsAsItShould
  <2>3. CASE Working("lookAgain")
    <3>1. call' = "lookAgain" /\ deceived' = (deceived \/ scc.there)
      BY <1>12, <2>3 DEF LookFails, Working, NextFunction
    <3>2. ~deceived' => ~scc'.there
      BY <2>1, <3>1
    <3> QED
      BY <2>1, <2>3, <3>1, <3>2 DEF Working, Established, EndsAsItShould
  <2> QED
    BY <1>12, <2>2, <2>3 DEF LookFails
<1>13. CASE UNCHANGED vars
  BY <1>13 DEF vars, Established, EndsAsItShould
<1> QED
  BY <1>1, <1>2, <1>3, <1>4, <1>5, <1>6, <1>7, <1>8, <1>9, <1>10, <1>11, <1>12,
     <1>13
  DEF Next, WorkerStep

(* A pass that the cache did not deceive ends with the constraints in      *)
(* place, and such a teardown with them gone.                              *)
THEOREM PassesAndTeardownsEndWell == Spec => []EndsAsItShould
<1>1. Init => Established
  BY DEF Init, Established, EndsAsItShould, InInstall, InTeardown
<1>2. Established => EndsAsItShould
  BY DEF Established
<1> QED
  BY <1>1, <1>2, EstablishedStep, VaultTypeCorrect, PTL DEF Spec

-----------------------------------------------------------------------------
(* Only the first function makes constraints that the first one has not    *)
(* passed by.                                                              *)
FirstComesFirst ==
  /\ InInstall /\ turn > 1 /\ ~passedBy => scc.there
  /\ ServerIsListed

LEMMA FirstStep == TypeOK /\ FirstComesFirst /\ [Next]_vars => FirstComesFirst'
<1> SUFFICES ASSUME TypeOK, FirstComesFirst, [Next]_vars PROVE FirstComesFirst'
  OBVIOUS
<1> USE DEF Outer, InInstall
<1>1. ASSUME UNCHANGED <<scc, passedBy>>, ~InInstall' \/ ~(turn' > 1) PROVE FirstComesFirst'
  BY <1>1 DEF FirstComesFirst, ServerIsListed
<1>2. CASE CreateWorkshop \/ DeleteWorkshop \/ CacheCatchesUp \/ UNCHANGED vars
  BY <1>2 DEF CreateWorkshop, DeleteWorkshop, CacheCatchesUp, vars, FirstComesFirst, ServerIsListed
<1>3. CASE Begin \/ InstallEnds \/ LookAgain \/ TeardownEnds
  BY <1>1, <1>3
  DEF Begin, InstallEnds, LookAgain, TeardownEnds, Stop, Working, NextFunction
<1>4. CASE Look
  <2>1. scc' = scc /\ call = "look"
    BY <1>4 DEF Look, Working
  <2>2. ~passedBy' => ~passedBy /\ ~(turn = 1 /\ seen.there /\ ~scc.there)
    BY <1>4 DEF Look
  <2>3. ServerIsListed'
    BY <2>1, <2>2 DEF FirstComesFirst, ServerIsListed
  <2>4. turn' > 1 /\ ~passedBy' => scc'.there
    <3>1. SUFFICES ASSUME turn' > 1, ~passedBy' PROVE scc.there
      BY <2>1
    <3>2. CASE turn > 1
      BY <2>1, <2>2, <3>1, <3>2 DEF FirstComesFirst
    <3>3. CASE turn = 1
      <4>1. seen.there
        BY <1>4, <3>1, <3>3 DEF Look
      <4> QED
        BY <2>2, <3>1, <3>3, <4>1
    <3> QED
      BY <3>2, <3>3 DEF TypeOK
  <2> QED
    BY <2>3, <2>4 DEF FirstComesFirst
<1>5. ASSUME Working("create") PROVE ~passedBy => Order[1] \in Copied.users
  <2>1. CASE scc.there
    BY <1>5, <2>1, CopyIsThere DEF FirstComesFirst, ServerIsListed
  <2>2. CASE ~scc.there /\ turn = 1
    BY <1>5, <2>2, CopyIsThere
  <2>3. CASE ~scc.there /\ turn > 1
    BY <1>5, <2>3 DEF FirstComesFirst, Working
  <2> QED
    BY <2>1, <2>2, <2>3 DEF TypeOK
<1>6. CASE Create
  <2>1. scc'.there /\ scc' = Copied /\ passedBy' = passedBy
    BY <1>6, CopyIsThere DEF Create
  <2>2. ~passedBy => Order[1] \in scc'.users
    BY <1>5, <1>6, <2>1 DEF Create
  <2> QED
    BY <2>1, <2>2 DEF FirstComesFirst, ServerIsListed
<1>7. CASE CallFails
  <2>1. call' = "rest"
    BY <1>7 DEF CallFails, Stop
  <2>2. scc'.there /\ ~passedBy' => Order[1] \in scc'.users
    BY <1>5, <1>7, MissingTyped DEF CallFails, FirstComesFirst, ServerIsListed
  <2> QED
    BY <2>1, <2>2 DEF FirstComesFirst, ServerIsListed
<1>8. CASE LookFails
  <2>1. UNCHANGED <<scc, passedBy>>
    BY <1>8 DEF LookFails
  <2>2. CASE Working("look")
    <3>1. UNCHANGED turn
      BY <1>8, <2>2 DEF LookFails, Working
    <3> QED
      BY <2>1, <2>2, <3>1 DEF Working, FirstComesFirst, ServerIsListed
  <2>3. CASE Working("lookAgain")
    BY <1>1, <1>8, <2>1, <2>3 DEF LookFails, Working, NextFunction
  <2> QED
    BY <1>8, <2>2, <2>3 DEF LookFails
<1>9. CASE Delete
  <2>1. ~scc'.there /\ call' \in {"lookAgain", "rest"}
    BY <1>9, MissingTyped DEF Delete, NextFunction, Stop
  <2> QED
    BY <2>1 DEF FirstComesFirst, ServerIsListed
<1> QED
  BY <1>2, <1>3, <1>4, <1>6, <1>7, <1>8, <1>9 DEF Next, WorkerStep

(* The constraints list the server's account unless the server's function  *)
(* was once deceived into passing them by.                                 *)
THEOREM ServerStaysListed == Spec => []ServerIsListed
<1>1. Init => FirstComesFirst
  BY MissingTyped DEF Init, FirstComesFirst, ServerIsListed, InInstall
<1>2. FirstComesFirst => ServerIsListed
  BY DEF FirstComesFirst
<1> QED
  BY <1>1, <1>2, FirstStep, VaultTypeCorrect, PTL DEF Spec
=============================================================================
