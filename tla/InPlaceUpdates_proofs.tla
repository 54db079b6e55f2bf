------------------------- MODULE InPlaceUpdates_proofs -------------------------
(***************************************************************************)
(* Theorems about InPlaceUpdates for every number of users, of edits, of   *)
(* lives and of writes by others.                                          *)
(***************************************************************************)
EXTENDS InPlaceUpdates, TLAPS

(* What is written are users there can be.                                 *)
LEMMA WantedTyped == ASSUME NEW n \in 0..MaxUsers PROVE Wanted(n) \in SUBSET Users
BY InPlaceUpdatesAssumption DEF Wanted, Users

LEMMA AmendedTyped == ASSUME TypeOK PROVE Amended \in Object
<1>1. Wanted(held) \in SUBSET Users
  BY WantedTyped DEF TypeOK
<1> QED
  BY <1>1 DEF TypeOK, Amended, Object

LEMMA FreshTyped ==
  ASSUME TypeOK
  PROVE  /\ [Absent EXCEPT !.users = Wanted(held)] \in Object
         /\ [Absent EXCEPT !.users = Wanted(held)].users = Wanted(held)
<1>1. Wanted(held) \in SUBSET Users
  BY WantedTyped DEF TypeOK
<1> QED
  BY <1>1 DEF Absent, Object

(* The effect of a write: the users and the others are those written, and  *)
(* a new revision marks every change.                                      *)
LEMMA WrittenEffect ==
  ASSUME TypeOK, NEW new \in Object, Written(new)
  PROVE  /\ object' \in Object
         /\ object' # Absent
         /\ object'.users = new.users
         /\ object'.others = new.others
         /\ revision' \in Nat
         /\ \/ object' = object /\ revision' = revision
            \/ object'.revision = revision + 1 /\ revision' = revision + 1
<1>1. CASE new.users = object.users /\ new.others = object.others /\ object # Absent
  BY <1>1 DEF Written, TypeOK, Object
<1>2. CASE ~(new.users = object.users /\ new.others = object.others /\ object # Absent)
  <2>1. object' = [new EXCEPT !.revision = revision + 1] /\ revision' = revision + 1
    BY <1>2 DEF Written
  <2>2. revision + 1 \in Nat /\ revision + 1 # 0
    BY DEF TypeOK
  <2>3. /\ object' \in Object
        /\ object'.users = new.users
        /\ object'.others = new.others
        /\ object'.revision = revision + 1
    BY <2>1, <2>2 DEF Object
  <2> QED
    BY <2>1, <2>2, <2>3 DEF Absent
<1> QED
  BY <1>1, <1>2

LEMMA AbsentTyped == Absent \in Object /\ Absent.revision = 0 /\ Absent.others = {}
BY DEF Absent, Object

(* What of the state the calls of the worker share.                        *)
ServerTyped ==
  /\ object \in Object
  /\ revision \in Nat
  /\ object.revision <= revision
  /\ object.revision = 0 => object = Absent

LEMMA ServerTypedByWrite ==
  ASSUME TypeOK, NEW new \in Object, Written(new)
  PROVE  ServerTyped'
<1>1. object' \in Object /\ revision' \in Nat
  BY WrittenEffect
<1>2. CASE object' = object /\ revision' = revision
  BY <1>1, <1>2 DEF ServerTyped, TypeOK
<1>3. CASE object'.revision = revision + 1 /\ revision' = revision + 1
  BY <1>1, <1>3 DEF ServerTyped, TypeOK
<1> QED
  BY <1>2, <1>3, WrittenEffect

LEMMA TypeInit == Init => TypeOK
<1> SUFFICES ASSUME Init PROVE TypeOK
  OBVIOUS
<1>1. /\ object \in Object /\ seen \in Object /\ copy \in Object
      /\ revision \in Nat /\ object.revision <= revision
      /\ object.revision = 0 => object = Absent
  BY AbsentTyped DEF Init
<1>2. foreign \in 0..MaxForeign /\ held \in 0..MaxUsers /\ number \in 0..MaxUsers
  BY InPlaceUpdatesAssumption DEF Init
<1> QED
  BY <1>1, <1>2 DEF Init, TypeOK

LEMMA TypeStep == TypeOK /\ [Next]_vars => TypeOK'
<1> SUFFICES ASSUME TypeOK, [Next]_vars PROVE TypeOK'
  OBVIOUS
<1> USE DEF user, server, worker
<1>0. ServerTyped
  BY DEF TypeOK, ServerTyped
<1>1. CASE CreateWorkshop
  BY <1>1 DEF CreateWorkshop, TypeOK
<1>2. CASE EditWorkshop
  BY <1>2 DEF EditWorkshop, TypeOK
<1>3. CASE OthersWrite
  <2>1. [object EXCEPT !.others = @ \cup {foreign + 1}] \in Object
    BY <1>3, InPlaceUpdatesAssumption DEF OthersWrite, TypeOK, Object
  <2>2. ServerTyped'
    BY <1>3, <2>1, ServerTypedByWrite DEF OthersWrite
  <2>3. foreign' \in 0..MaxForeign
    BY <1>3, InPlaceUpdatesAssumption DEF OthersWrite, TypeOK
  <2> QED
    BY <1>3, <2>2, <2>3 DEF OthersWrite, TypeOK, ServerTyped
<1>4. CASE CacheCatchesUp
  BY <1>4 DEF CacheCatchesUp, TypeOK
<1>5. CASE Begin
  BY <1>5, AbsentTyped DEF Begin, TypeOK
<1>6. CASE Create
  <2>1. ServerTyped'
    BY <1>0, <1>6, FreshTyped, ServerTypedByWrite DEF Create, ServerTyped
  <2> QED
    BY <1>6, <2>1 DEF Create, Call, EndAs, TypeOK, ServerTyped
<1>7. CASE Get
  BY <1>7 DEF Get, Call, EndAs, TypeOK
<1>8. CASE Update
  <2>1. ServerTyped'
    BY <1>0, <1>8, AmendedTyped, ServerTypedByWrite DEF Update, ServerTyped
  <2> QED
    BY <1>8, <2>1 DEF Update, EndAs, TypeOK, ServerTyped
<1>9. CASE TearDown
  <2>1. ServerTyped'
    BY <1>0, <1>9, AbsentTyped DEF TearDown, ServerTyped
  <2> QED
    BY <1>9, <2>1 DEF TearDown, TypeOK, ServerTyped
<1>10. CASE CallFails
  <2>1. ServerTyped'
    BY <1>0, <1>10, FreshTyped, AmendedTyped, ServerTypedByWrite DEF CallFails, ServerTyped
  <2>2. /\ UNCHANGED <<held, copy, blind, foreign, kind, live, number, lives, edits, seen>>
        /\ pc' = "rest" /\ done' = FALSE /\ faults' = faults + 1
    BY <1>10 DEF CallFails, EndAs
  <2>3. faults' \in Nat
    <3>1. faults \in Nat
      BY DEF TypeOK
    <3> QED
      BY <2>2, <3>1
  <2>4. done' \in BOOLEAN
    BY <2>2
  <2> QED
    BY <2>1, <2>2, <2>3, <2>4 DEF TypeOK, ServerTyped
<1>11. CASE UNCHANGED vars
  BY <1>11 DEF vars, TypeOK
<1> QED
  BY <1>1, <1>2, <1>3, <1>4, <1>5, <1>6, <1>7, <1>8, <1>9, <1>10, <1>11 DEF Next, Work

(* The state of an object's Updates is well formed: no Update goes without *)
(* a copy, and revisions mark changes.                                     *)
THEOREM UpdatesTypeCorrect == Spec => []TypeOK
BY TypeInit, TypeStep, PTL DEF Spec

-----------------------------------------------------------------------------
LEMMA BringsStep == TypeOK /\ PassBringsUpToDate /\ [Next]_vars => PassBringsUpToDate'
<1> SUFFICES ASSUME TypeOK, PassBringsUpToDate, [Next]_vars,
                    pc' = "rest", done', ~blind'
             PROVE  Suits(held)'
  BY DEF PassBringsUpToDate
<1> USE DEF user, server, worker
<1>1. ASSUME UNCHANGED <<kind, object, pc, held, done, blind>>
      PROVE  Suits(held)'
  BY <1>1 DEF PassBringsUpToDate, Suits
<1>2. CASE CreateWorkshop \/ EditWorkshop \/ CacheCatchesUp \/ UNCHANGED vars
  BY <1>1, <1>2 DEF CreateWorkshop, EditWorkshop, CacheCatchesUp, vars
<1>3. CASE OthersWrite
  <2>1. [object EXCEPT !.others = @ \cup {foreign + 1}] \in Object
    BY <1>3, InPlaceUpdatesAssumption DEF OthersWrite, TypeOK, Object
  <2>2. object' # Absent /\ object'.users = object.users
    BY <1>3, <2>1, WrittenEffect DEF OthersWrite, TypeOK, Object
  <2> QED
    BY <1>3, <2>2 DEF OthersWrite, PassBringsUpToDate, Suits
<1>4. CASE Create
  <2>1. object' # Absent /\ object'.users = Wanted(held) /\ held' = held
    BY <1>4, FreshTyped, WrittenEffect DEF Create, Call, EndAs
  <2> QED
    BY <2>1 DEF Suits
<1>5. CASE Get
  <2>1. seen = object /\ seen # Absent /\ UpToDate(seen) /\ held' = held
    BY <1>5 DEF Get, Call, EndAs, TypeOK
  <2> QED
    BY <1>5, <2>1 DEF Get, UpToDate, IsIntersectMap, Suits, TypeOK, Kinds
<1>6. CASE Update
  <2>1. object' # Absent /\ object'.users = Wanted(held) /\ held' = held
    BY <1>6, AmendedTyped, WrittenEffect DEF Update, EndAs, Amended
  <2> QED
    BY <2>1 DEF Suits
<1>7. CASE Begin \/ TearDown \/ CallFails
  BY <1>7 DEF Begin, TearDown, CallFails, EndAs
<1> QED
  BY <1>2, <1>3, <1>4, <1>5, <1>6, <1>7 DEF Next, Work

(* A pass that ends well and was not misled has the object list the users  *)
(* its spec asks for, and others may write to the object at any moment.    *)
THEOREM PassesBringUpToDate == Spec => []PassBringsUpToDate
<1>1. Init => PassBringsUpToDate
  BY DEF Init, PassBringsUpToDate
<1> QED
  BY <1>1, BringsStep, UpdatesTypeCorrect, PTL DEF Spec

-----------------------------------------------------------------------------
(* A copy that has the object's revision is the object: this is what the   *)
(* comparison of revisions rests on, also when the object was deleted and  *)
(* made anew.                                                              *)
TrueTo(c) ==
  /\ c.revision <= revision
  /\ c.revision = 0 => c = Absent
  /\ c.revision = object.revision => c = object

CopiesAreTrue == TrueTo(seen) /\ TrueTo(copy)

(* A copy stays true through a write.                                      *)
LEMMA TrueToKept ==
  ASSUME TypeOK, NEW c \in Object, TrueTo(c), NEW new \in Object, Written(new)
  PROVE  /\ c.revision <= revision'
         /\ c.revision = object'.revision => c = object'
<1>1. c.revision \in Nat /\ revision \in Nat
  BY DEF Object, TypeOK
<1>2. CASE object' = object /\ revision' = revision
  BY <1>2 DEF TrueTo
<1>3. CASE object'.revision = revision + 1 /\ revision' = revision + 1
  BY <1>1, <1>3 DEF TrueTo
<1> QED
  BY <1>2, <1>3, WrittenEffect

LEMMA CopiesStep == TypeOK /\ CopiesAreTrue /\ [Next]_vars => CopiesAreTrue'
<1> SUFFICES ASSUME TypeOK, CopiesAreTrue, [Next]_vars PROVE CopiesAreTrue'
  OBVIOUS
<1> USE DEF user, server, worker
<1>0. seen \in Object /\ copy \in Object /\ object \in Object
  BY DEF TypeOK
<1>1. ASSUME UNCHANGED <<object, revision, seen, copy>> PROVE CopiesAreTrue'
  BY <1>1 DEF CopiesAreTrue, TrueTo
<1>2. ASSUME NEW new \in Object, Written(new), UNCHANGED <<seen, copy>>
      PROVE  CopiesAreTrue'
  <2>1. ASSUME NEW c \in Object, TrueTo(c)
        PROVE  /\ c.revision <= revision'
               /\ c.revision = 0 => c = Absent
               /\ c.revision = object'.revision => c = object'
    BY <1>2, <2>1, TrueToKept DEF TrueTo
  <2> QED
    BY <1>0, <1>2, <2>1 DEF CopiesAreTrue, TrueTo
<1>3. CASE CreateWorkshop \/ EditWorkshop \/ UNCHANGED vars
  BY <1>1, <1>3 DEF CreateWorkshop, EditWorkshop, vars
<1>4. CASE OthersWrite
  <2>1. [object EXCEPT !.others = @ \cup {foreign + 1}] \in Object
    BY <1>4, InPlaceUpdatesAssumption DEF OthersWrite, TypeOK, Object
  <2> QED
    BY <1>2, <1>4, <2>1 DEF OthersWrite
<1>5. CASE CacheCatchesUp
  BY <1>5 DEF CacheCatchesUp, CopiesAreTrue, TrueTo, TypeOK
<1>6. CASE Begin
  <2>1. object.revision = 0 => object = Absent
    BY DEF TypeOK
  <2>2. 0 <= revision
    BY DEF TypeOK
  <2> QED
    BY <1>6, <2>1, <2>2, AbsentTyped DEF Begin, CopiesAreTrue, TrueTo
<1>7. CASE Create
  BY <1>1, <1>2, <1>7, FreshTyped DEF Create
<1>8. CASE Get
  BY <1>8 DEF Get, CopiesAreTrue, TrueTo
<1>9. CASE Update
  BY <1>1, <1>2, <1>9, AmendedTyped DEF Update
<1>10. CASE TearDown
  <2>1. CASE UNCHANGED object
    BY <1>1, <1>10, <2>1 DEF TearDown
  <2>2. CASE object' = Absent
    BY <1>10, <2>2, AbsentTyped DEF TearDown, CopiesAreTrue, TrueTo
  <2> QED
    BY <1>10, <2>1, <2>2 DEF TearDown
<1>11. CASE CallFails
  BY <1>1, <1>2, <1>11, FreshTyped, AmendedTyped DEF CallFails
<1> QED
  BY <1>3, <1>4, <1>5, <1>6, <1>7, <1>8, <1>9, <1>10, <1>11 DEF Next, Work

(* An Update that goes back to the copy it was given keeps what others     *)
(* have written.                                                           *)
LEMMA AmendedKeeps ==
  ASSUME TypeOK, CopiesAreTrue, kind \in WrittenInPart, Accepted, Written(Amended)
  PROVE  object'.others = object.others
<1>1. copy = object
  BY DEF Accepted, CopiesAreTrue, TrueTo, WrittenInPart
<1> QED
  BY <1>1, AmendedTyped, WrittenEffect DEF Amended

LEMMA KeepsStep == TypeOK /\ CopiesAreTrue /\ [Next]_vars => [OthersKept]_vars
<1> SUFFICES ASSUME TypeOK, CopiesAreTrue, Next, kind \in WrittenInPart, object' # Absent
             PROVE  object.others \subseteq object'.others
  BY DEF OthersKept
<1> USE DEF user, server, worker
<1>1. CASE UNCHANGED object
  BY <1>1
<1>2. CASE OthersWrite
  <2>1. [object EXCEPT !.others = @ \cup {foreign + 1}] \in Object
    BY <1>2, InPlaceUpdatesAssumption DEF OthersWrite, TypeOK, Object
  <2> QED
    BY <1>2, <2>1, WrittenEffect DEF OthersWrite, TypeOK, Object
<1>3. CASE object = Absent
  BY <1>3, AbsentTyped
<1>4. CASE Update
  BY <1>1, <1>4, AmendedKeeps DEF Update
<1>5. CASE CallFails
  BY <1>1, <1>3, <1>5, AmendedKeeps DEF CallFails
<1>6. CASE Create
  BY <1>1, <1>3, <1>6 DEF Create
<1>7. CASE CreateWorkshop \/ EditWorkshop \/ TearDown \/ CacheCatchesUp \/ Begin \/ Get
  BY <1>1, <1>7 DEF CreateWorkshop, EditWorkshop, TearDown, CacheCatchesUp, Begin, Get
<1> QED
  BY <1>2, <1>4, <1>5, <1>6, <1>7 DEF Next, Work

(* No Update of an object that is written back in part undoes what others  *)
(* have written to it, however old the copy the worker was given.          *)
THEOREM OthersStay == Spec => OthersAreKept
<1>1. Init => CopiesAreTrue
  BY AbsentTyped DEF Init, CopiesAreTrue, TrueTo
<1>2. Spec => [](TypeOK /\ CopiesAreTrue)
  BY <1>1, CopiesStep, UpdatesTypeCorrect, PTL DEF Spec
<1> QED
  BY <1>2, KeepsStep, PTL DEF Spec, OthersAreKept
=============================================================================
