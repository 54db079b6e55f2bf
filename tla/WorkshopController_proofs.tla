----------------------- MODULE WorkshopController_proofs -----------------------
(***************************************************************************)
(* Proofs about the reconcile loop, for every table of phases, every set   *)
(* of specs, every length of history and every number of faults.           *)
(***************************************************************************)
EXTENDS WorkshopController, TLAPS

USE DEF Phase

-----------------------------------------------------------------------------
(* What a write to the API server does to the history.                     *)
LEMMA WriteFacts ==
  ASSUME TypeOK, NEW v \in Version, Write(v)
  PROVE  /\ versions' \in Seq(Version)
         /\ Latest' = Latest + 1
         /\ cr' = v
         /\ \A i \in 1..Latest : versions'[i] = versions[i]
         /\ Latest \in Nat /\ Latest > 0
BY DEF TypeOK, Write, Latest, cr

LEMMA NoWriteFacts ==
  ASSUME TypeOK, UNCHANGED versions
  PROVE  /\ Latest' = Latest
         /\ cr' = cr
         /\ Latest \in Nat /\ Latest > 0
BY DEF TypeOK, Latest, cr

LEMMA VersionsTyped ==
  ASSUME TypeOK
  PROVE  /\ cr \in Version
         /\ cached \in Version
         /\ workshop \in Version
         /\ \A i \in 1..Latest : versions[i] \in Version
BY DEF TypeOK, Latest, cr, cached, workshop

LEMMA NothingTyped == Nothing \in Version
BY DEF Nothing, Version

(* A phase leaves a footprint behind, whatever it did.                     *)
LEMMA LeaveTyped ==
  ASSUME TypeOK, NEW levels \in SUBSET Levels, Leave(Phases[at], levels)
  PROVE  footprint' \in [Phase -> Levels]
BY DEF TypeOK, Leave

LEMMA LevelsTyped ==
  ASSUME NEW level \in Levels
  PROVE  /\ AtLeast(level) \subseteq Levels
         /\ AtMost(level) \subseteq Levels
BY DEF Levels, AtLeast, AtMost

-----------------------------------------------------------------------------
(* Type correctness.                                                       *)
LEMMA InitTyped == Init => TypeOK
<1> SUFFICES ASSUME Init PROVE TypeOK
  OBVIOUS
<1>1. versions \in Seq(Version) /\ Latest = 1
  BY NothingTyped DEF Init, Latest
<1>2. at \in 1..Len(Phases) /\ faults \in 0..MaxFaults
  BY ControllerAssumption DEF Init, ControllerAssumption
<1>3. footprint \in [Phase -> Levels]
  BY DEF Init, Levels
<1>4. pc \in Locations /\ seen \in 1..1 /\ held \in 1..1
  BY DEF Init, Locations
<1>5. dirty \in BOOLEAN /\ delayed \in BOOLEAN
  BY DEF Init
<1> QED BY <1>1, <1>2, <1>3, <1>4, <1>5 DEF TypeOK

LEMMA UserTyped == TypeOK /\ User => TypeOK'
<1> SUFFICES ASSUME TypeOK, User PROVE TypeOK'
  OBVIOUS
<1>1. ASSUME NEW v \in Version, UserWrite(v) PROVE TypeOK'
  BY <1>1, WriteFacts DEF UserWrite, TypeOK
<1>2. ASSUME NEW wants \in Specs, CreateWorkshop(wants) PROVE TypeOK'
  <2>1. [uid |-> Latest, deleting |-> FALSE, finalizer |-> FALSE, wants |-> wants] \in Version
    BY ControllerAssumption DEF ControllerAssumption, Version, TypeOK, Latest
  <2> QED BY <1>1, <1>2, <2>1 DEF CreateWorkshop
<1>3. ASSUME NEW wants \in Specs, EditWorkshop(wants) PROVE TypeOK'
  <2>1. [cr EXCEPT !.wants = wants] \in Version
    BY ControllerAssumption, VersionsTyped DEF ControllerAssumption, Version
  <2> QED BY <1>1, <1>3, <2>1 DEF EditWorkshop
<1>4. CASE DeleteWorkshop
  <2>1. [cr EXCEPT !.deleting = TRUE] \in Version
    BY VersionsTyped DEF Version
  <2> QED BY <1>1, <1>4, <2>1, NothingTyped DEF DeleteWorkshop
<1> QED BY <1>2, <1>3, <1>4 DEF User

LEMMA InformerTyped == TypeOK /\ (Informer \/ DelayOver \/ Dequeue) => TypeOK'
BY DEF TypeOK, Informer, WatchEvent, DelayOver, Dequeue, Latest, Exists, Version,
       Locations, cached

LEMMA ReturnTyped ==
  ASSUME TypeOK, NEW again \in BOOLEAN, Return(again),
         versions' \in Seq(Version), Latest' \in {Latest, Latest + 1},
         footprint' \in [Phase -> Levels], faults' \in 0..MaxFaults
  PROVE  TypeOK'
<1>1. delayed' \in BOOLEAN /\ dirty' \in BOOLEAN
  BY DEF TypeOK, Return
<1>2. Latest' > 0 /\ seen' \in 1..Latest' /\ held' \in 1..Latest'
  BY DEF TypeOK, Return, Latest
<1>3. pc' \in Locations /\ at' \in 1..Len(Phases)
  BY ControllerAssumption DEF TypeOK, Return, Locations, ControllerAssumption
<1> QED BY <1>1, <1>2, <1>3 DEF TypeOK

LEMMA GotoTyped ==
  ASSUME TypeOK, NEW l \in Locations, NEW i \in 1..Len(Phases), NEW h \in 1..Latest',
         Goto(l, i, h), versions' \in Seq(Version), Latest' \in {Latest, Latest + 1},
         footprint' \in [Phase -> Levels], faults' \in 0..MaxFaults
  PROVE  TypeOK'
<1>1. delayed' \in BOOLEAN /\ dirty' \in BOOLEAN
  BY DEF TypeOK, Goto
<1>2. Latest' > 0 /\ seen' \in 1..Latest' /\ held' \in 1..Latest'
  BY DEF TypeOK, Goto, Latest
<1> QED BY <1>1, <1>2 DEF TypeOK, Goto

LEMMA FaultTyped ==
  ASSUME TypeOK, Fault \/ NoFault
  PROVE  faults' \in 0..MaxFaults
BY ControllerAssumption DEF TypeOK, Fault, NoFault, ControllerAssumption

(* A step of the worker that leaves the history alone.                     *)
LEMMA PassTyped ==
  ASSUME TypeOK, Fault \/ NoFault, UNCHANGED versions,
         footprint' \in [Phase -> Levels],
         \/ \E again \in BOOLEAN : Return(again)
         \/ \E l \in Locations, i \in 1..Len(Phases), h \in 1..Latest : Goto(l, i, h)
  PROVE  TypeOK'
<1>1. versions' \in Seq(Version) /\ Latest' = Latest
  BY NoWriteFacts DEF TypeOK
<1> QED BY <1>1, FaultTyped, ReturnTyped, GotoTyped

LEMMA FinalizerTyped ==
  ASSUME TypeOK
  PROVE  [workshop EXCEPT !.finalizer = TRUE] \in Version
BY VersionsTyped DEF Version

LEMMA WorkerTyped == TypeOK /\ (Worker \/ Failure) => TypeOK'
<1> SUFFICES ASSUME TypeOK, Worker \/ Failure PROVE TypeOK'
  OBVIOUS
<1> DEFINE level == footprint[Phases[at]]
<1>1. /\ level \in Levels
      /\ AtLeast(level) \subseteq Levels
      /\ AtMost(level) \subseteq Levels
      /\ {"none"} \subseteq Levels /\ {"full"} \subseteq Levels
  <2>1. Phases[at] \in Phase
    BY DEF TypeOK
  <2>2. level \in Levels
    BY <2>1 DEF TypeOK
  <2> QED BY <2>2, LevelsTyped DEF Levels
<1>2. footprint \in [Phase -> Levels] /\ at \in 1..Len(Phases) /\ 1 \in 1..Len(Phases)
  BY ControllerAssumption DEF TypeOK, ControllerAssumption
<1>3. held \in 1..Latest /\ seen \in 1..Latest
  BY DEF TypeOK
<1>4. CASE Fetch
  BY <1>2, <1>3, <1>4, PassTyped DEF Fetch, apiVars, Locations
<1>5. CASE Dispatch
  <2>1. workshop.deleting \in BOOLEAN /\ workshop.finalizer \in BOOLEAN
    BY VersionsTyped DEF Version
  <2> QED BY <1>2, <1>3, <1>5, <2>1, PassTyped DEF Dispatch, apiVars, Locations
<1>6. CASE ReadFails
  BY <1>2, <1>6, PassTyped DEF ReadFails, apiVars
<1>7. CASE AddFinalizer
  <2>1. CASE NoConflict
    <3>1. Write([workshop EXCEPT !.finalizer = TRUE]) /\ Goto("install", 1, Latest + 1)
      BY <1>7, <2>1 DEF AddFinalizer
    <3>2. versions' \in Seq(Version) /\ Latest' = Latest + 1 /\ Latest \in Nat
      BY <3>1, FinalizerTyped, WriteFacts
    <3>3. faults' \in 0..MaxFaults /\ footprint' \in [Phase -> Levels]
      BY <1>2, <1>7, FaultTyped DEF AddFinalizer
    <3> QED BY <1>2, <3>1, <3>2, <3>3, GotoTyped DEF Locations
  <2>2. CASE ~NoConflict
    BY <1>2, <1>7, <2>2, PassTyped DEF AddFinalizer
  <2> QED BY <2>1, <2>2
<1>8. CASE AddFinalizerFails
  <2>1. Return(TRUE) /\ faults' \in 0..MaxFaults /\ footprint' \in [Phase -> Levels]
    BY <1>2, <1>8, FaultTyped DEF AddFinalizerFails
  <2>2. versions' \in Seq(Version) /\ Latest' \in {Latest, Latest + 1}
    BY <1>8, FinalizerTyped, WriteFacts, NoWriteFacts DEF AddFinalizerFails, TypeOK
  <2> QED BY <2>1, <2>2, ReturnTyped
<1>9. CASE InstallPhase
  <2>1. footprint' \in [Phase -> Levels]
    BY <1>1, <1>2, <1>9, LeaveTyped DEF InstallPhase
  <2>2. at # Len(Phases) => at + 1 \in 1..Len(Phases)
    BY <1>2
  <2>3. \/ Return(FALSE)
        \/ at + 1 \in 1..Len(Phases) /\ Goto("install", at + 1, held)
    BY <1>9, <2>2 DEF InstallPhase
  <2>4. UNCHANGED versions /\ NoFault /\ "install" \in Locations
    BY <1>9 DEF InstallPhase, Locations
  <2> QED BY <1>3, <2>1, <2>3, <2>4, PassTyped
<1>10. CASE InstallPhaseFails \/ InstallPhaseFailsAgain
  BY <1>1, <1>10, LeaveTyped, PassTyped DEF InstallPhaseFails, InstallPhaseFailsAgain
<1>11. CASE InstallPhaseWaits
  <2>1. AtLeast(level) \ {"none"} \in SUBSET Levels
    BY <1>1
  <2> QED BY <1>11, <2>1, LeaveTyped, PassTyped DEF InstallPhaseWaits
<1>12. CASE TeardownPhase
  <2>1. footprint' \in [Phase -> Levels]
    BY <1>1, <1>12, LeaveTyped DEF TeardownPhase
  <2>2. at # Len(Phases) => at + 1 \in 1..Len(Phases)
    BY <1>2
  <2>3. \/ Goto("release", 1, held)
        \/ at + 1 \in 1..Len(Phases) /\ Goto("teardown", at + 1, held)
    BY <1>12, <2>2 DEF TeardownPhase
  <2>4. UNCHANGED versions /\ NoFault /\ {"teardown", "release"} \subseteq Locations
    BY <1>12 DEF TeardownPhase, Locations
  <2> QED BY <1>2, <1>3, <2>1, <2>3, <2>4, PassTyped
<1>13. CASE TeardownPhaseFails
  <2>1. "release" \in Locations
    BY DEF Locations
  <2> QED BY <1>1, <1>2, <1>3, <1>13, <2>1, LeaveTyped, PassTyped DEF TeardownPhaseFails
<1>14. CASE RemoveFinalizer
  <2>1. faults' \in 0..MaxFaults /\ footprint' \in [Phase -> Levels]
    BY <1>2, <1>14, FaultTyped DEF RemoveFinalizer
  <2>2. versions' \in Seq(Version) /\ Latest' \in {Latest, Latest + 1}
    BY <1>14, NothingTyped, WriteFacts, NoWriteFacts DEF RemoveFinalizer, TypeOK
  <2>3. \E again \in BOOLEAN : Return(again)
    BY <1>14 DEF RemoveFinalizer
  <2> QED BY <2>1, <2>2, <2>3, ReturnTyped
<1>15. CASE RemoveFinalizerFails
  <2>1. Return(TRUE) /\ faults' \in 0..MaxFaults /\ footprint' \in [Phase -> Levels]
    BY <1>2, <1>15, FaultTyped DEF RemoveFinalizerFails
  <2>2. versions' \in Seq(Version) /\ Latest' \in {Latest, Latest + 1}
    BY <1>15, NothingTyped, WriteFacts, NoWriteFacts DEF RemoveFinalizerFails, TypeOK
  <2> QED BY <2>1, <2>2, ReturnTyped
<1>16. CASE Crash
  <2>1. faults' \in 0..MaxFaults
    BY <1>16, FaultTyped DEF Crash
  <2>2. Latest \in Nat /\ Latest > 0
    BY DEF TypeOK, Latest
  <2>3. dirty' \in BOOLEAN /\ delayed' \in BOOLEAN
    BY <1>16 DEF Crash, Exists
  <2> QED BY <1>2, <1>16, <2>1, <2>2, <2>3 DEF Crash, TypeOK, apiVars, Locations, Latest
<1> QED BY <1>4, <1>5, <1>6, <1>7, <1>8, <1>9, <1>10, <1>11, <1>12, <1>13, <1>14, <1>15,
           <1>16 DEF Worker, Failure

LEMMA StutterTyped == TypeOK /\ UNCHANGED vars => TypeOK'
BY DEF TypeOK, vars, Latest

(* Every variable keeps its type, the worker's indices stay inside the     *)
(* table of phases and the history (controllers/workshop_controller.go).   *)
THEOREM TypeCorrect == Spec => []TypeOK
<1>1. TypeOK /\ [Next]_vars => TypeOK'
  BY UserTyped, InformerTyped, WorkerTyped, StutterTyped DEF Next
<1> QED BY InitTyped, <1>1, PTL DEF Spec

-----------------------------------------------------------------------------
(* The inductive invariant.                                                *)

(* The API server keeps no deletion mark on an object without finalizers,  *)
(* and a uid names one object: it is the length of the history at its      *)
(* creation.                                                               *)
HistorySound ==
  \A i \in 1..Latest :
    /\ versions[i].uid < i
    /\ versions[i].deleting => Exists(versions[i]) /\ versions[i].finalizer

(* However far the cache lags: an object it may still show in service is   *)
(* still there with its finalizer, and where it may show a deletion mark   *)
(* no Workshop is in service.                                              *)
CacheSound ==
  \A i \in seen..Latest :
    /\ Guarded(versions[i]) => cr.uid = versions[i].uid /\ cr.finalizer
    /\ versions[i].deleting => ~Guarded(cr)

(* The same of the version the worker holds, which the cache may have left *)
(* behind since.                                                           *)
HeldSound ==
  /\ pc \in {"dispatch", "adopt", "teardown", "release"} => held <= seen /\ Exists(workshop)
  /\ pc = "dispatch" => /\ Guarded(workshop) => cr.uid = workshop.uid /\ cr.finalizer
                        /\ workshop.deleting => ~Guarded(cr)
  /\ pc = "adopt" => ~workshop.deleting
  /\ pc \in {"teardown", "release"} => workshop.deleting
  /\ pc = "install" => Exists(workshop) /\ ~workshop.deleting /\ workshop.finalizer
  /\ FinalizerGuardsInstall
  /\ TeardownSparesTheLive

(* Without a wake-up pending, the worker holds what the cache shows, or    *)
(* what it wrote itself and the cache has yet to show; the phases it has   *)
(* been through are installed.                                             *)
WakeUpsKept ==
  /\ pc \in {"dispatch", "adopt", "teardown", "release"} /\ ~dirty => held = seen
  /\ pc = "install" /\ ~dirty => held >= seen /\ Exists(cached)
  /\ pc = "install" => \A j \in 1..(at - 1) :
                         Enabled(Phases[j], workshop.wants) => footprint[Phases[j]] = "full"
  /\ RestMeansConverged

IInv == TypeOK /\ HistorySound /\ CacheSound /\ HeldSound /\ WakeUpsKept

(* The only steps that write to the API server, and what they write.       *)
Creation == ~Exists(cr) /\ \E wants \in Specs :
  Write([uid |-> Latest, deleting |-> FALSE, finalizer |-> FALSE, wants |-> wants])
Edition == Exists(cr) /\ \E wants \in Specs : Write([cr EXCEPT !.wants = wants])
Marking == Exists(cr) /\ cr.finalizer /\ Write([cr EXCEPT !.deleting = TRUE])
Withdrawal == Exists(cr) /\ ~cr.finalizer /\ Write(Nothing)
Adoption == pc = "adopt" /\ NoConflict /\ Write([workshop EXCEPT !.finalizer = TRUE])
Removal == pc = "release" /\ NoConflict /\ Write(Nothing)

LEMMA UserWrites ==
  ASSUME TypeOK, User
  PROVE  /\ Creation \/ Edition \/ Marking \/ Withdrawal
         /\ UNCHANGED <<seen, dirty, delayed, pc, at, held, footprint, faults>>
BY DEF User, CreateWorkshop, EditWorkshop, DeleteWorkshop, UserWrite, Creation, Edition,
       Marking, Withdrawal

LEMMA OtherWrites ==
  ASSUME TypeOK, [Next]_vars, ~User
  PROVE  \/ UNCHANGED versions
         \/ Adoption /\ (AddFinalizer \/ AddFinalizerFails)
         \/ Removal /\ (RemoveFinalizer \/ RemoveFinalizerFails)
<1>1. CASE Informer \/ DelayOver \/ Dequeue
  BY <1>1 DEF Informer, WatchEvent, DelayOver, Dequeue
<1>2. CASE Worker
  BY <1>2 DEF Worker, Fetch, Dispatch, AddFinalizer, InstallPhase, TeardownPhase,
              TeardownPhaseFails, RemoveFinalizer, Adoption, Removal, apiVars
<1>3. CASE Failure
  BY <1>3 DEF Failure, ReadFails, AddFinalizerFails, InstallPhaseFails,
         InstallPhaseFailsAgain, InstallPhaseWaits,
              RemoveFinalizerFails, Crash, Adoption, Removal, apiVars
<1>4. CASE UNCHANGED vars
  BY <1>4 DEF vars
<1> QED BY <1>1, <1>2, <1>3, <1>4 DEF Next

LEMMA WrittenTyped ==
  ASSUME TypeOK
  PROVE  /\ \A wants \in Specs :
              /\ [uid |-> Latest, deleting |-> FALSE, finalizer |-> FALSE, wants |-> wants] \in Version
              /\ [cr EXCEPT !.wants = wants] \in Version
         /\ [cr EXCEPT !.deleting = TRUE] \in Version
         /\ [workshop EXCEPT !.finalizer = TRUE] \in Version
         /\ Nothing \in Version
<1>1. Latest \in Nat /\ Specs \subseteq SUBSET AllFlags
  BY ControllerAssumption DEF ControllerAssumption, TypeOK, Latest
<1>2. cr \in Version /\ workshop \in Version /\ Nothing \in Version
  BY VersionsTyped, NothingTyped
<1> QED BY <1>1, <1>2 DEF Version

(* A write adds one version: its uid, marks and spec as functions of what  *)
(* was there before.                                                       *)
LEMMA AfterWrite ==
  ASSUME TypeOK, Creation \/ Edition \/ Marking \/ Withdrawal \/ Adoption \/ Removal
  PROVE  /\ Latest' = Latest + 1
         /\ versions'[Latest + 1] = cr'
         /\ \A i \in 1..Latest : versions'[i] = versions[i]
         /\ Creation => cr'.uid = Latest /\ ~cr'.deleting /\ ~cr'.finalizer
         /\ Edition => /\ cr'.uid = cr.uid /\ cr'.deleting = cr.deleting
                       /\ cr'.finalizer = cr.finalizer
         /\ Marking => cr'.uid = cr.uid /\ cr'.deleting /\ cr'.finalizer
         /\ Withdrawal \/ Removal => cr'.uid = 0 /\ ~cr'.deleting
         /\ Adoption => /\ cr = workshop
                        /\ cr'.uid = cr.uid /\ cr'.deleting = cr.deleting
                        /\ cr'.wants = cr.wants /\ cr'.finalizer
<1> DEFINE Wrote(v) == /\ Latest' = Latest + 1
                       /\ versions'[Latest + 1] = cr'
                       /\ \A i \in 1..Latest : versions'[i] = versions[i]
                       /\ cr' = v
<1>1. ASSUME NEW v \in Version, Write(v) PROVE Wrote(v)
  BY <1>1, WriteFacts DEF cr, Latest
<1>2. ASSUME Creation
      PROVE  Wrote(cr') /\ cr'.uid = Latest /\ ~cr'.deleting /\ ~cr'.finalizer
  <2>1. PICK wants \in Specs :
          Write([uid |-> Latest, deleting |-> FALSE, finalizer |-> FALSE, wants |-> wants])
    BY <1>2 DEF Creation
  <2>2. Wrote([uid |-> Latest, deleting |-> FALSE, finalizer |-> FALSE, wants |-> wants])
    BY <1>1, <2>1, WrittenTyped
  <2> QED BY <2>2
<1>3. ASSUME Edition
      PROVE  Wrote(cr') /\ cr'.uid = cr.uid /\ cr'.deleting = cr.deleting
                        /\ cr'.finalizer = cr.finalizer
  <2>1. PICK wants \in Specs : Write([cr EXCEPT !.wants = wants])
    BY <1>3 DEF Edition
  <2>2. Wrote([cr EXCEPT !.wants = wants])
    BY <1>1, <2>1, WrittenTyped
  <2> QED BY <2>2, VersionsTyped DEF Version
<1>4. ASSUME Marking
      PROVE  Wrote(cr') /\ cr'.uid = cr.uid /\ cr'.deleting /\ cr'.finalizer
  <2>1. Wrote([cr EXCEPT !.deleting = TRUE])
    BY <1>1, <1>4, WrittenTyped DEF Marking
  <2> QED BY <1>4, <2>1, VersionsTyped DEF Version, Marking
<1>5. ASSUME Withdrawal \/ Removal
      PROVE  Wrote(cr') /\ cr'.uid = 0 /\ ~cr'.deleting
  <2>1. Wrote(Nothing)
    BY <1>1, <1>5, WrittenTyped DEF Withdrawal, Removal
  <2>2. Nothing.uid = 0 /\ ~Nothing.deleting
    BY DEF Nothing
  <2> QED BY <2>1, <2>2
<1>6. ASSUME Adoption
      PROVE  Wrote(cr') /\ cr = workshop /\ cr'.uid = cr.uid /\ cr'.deleting = cr.deleting
                        /\ cr'.wants = cr.wants /\ cr'.finalizer
  <2>1. Wrote([workshop EXCEPT !.finalizer = TRUE])
    BY <1>1, <1>6, WrittenTyped DEF Adoption
  <2>2. cr = workshop
    BY <1>6 DEF Adoption, NoConflict, cr, workshop
  <2> QED BY <2>1, <2>2, VersionsTyped DEF Version
<1>7. Wrote(cr')
  BY <1>2, <1>3, <1>4, <1>5, <1>6
<1> QED BY <1>2, <1>3, <1>4, <1>5, <1>6, <1>7

(* The cache only ever moves forward, and not while somebody writes.       *)
LEMMA CacheMoves ==
  ASSUME TypeOK, [Next]_vars
  PROVE  /\ seen' \in seen..Latest
         /\ versions' # versions => seen' = seen
<1> USE DEF TypeOK, Latest
<1>1. CASE User
  BY <1>1, UserWrites
<1>2. CASE Informer \/ DelayOver \/ Dequeue
  BY <1>2 DEF Informer, WatchEvent, DelayOver, Dequeue
<1>3. CASE Worker
  <2>1. \/ \E again \in BOOLEAN : Return(again)
        \/ \E l, i, h : Goto(l, i, h)
    BY <1>3 DEF Worker, Fetch, Dispatch, AddFinalizer, InstallPhase, TeardownPhase,
                TeardownPhaseFails, RemoveFinalizer
  <2> QED BY <2>1 DEF Return, Goto
<1>4. CASE Failure
  BY <1>4 DEF Failure, ReadFails, AddFinalizerFails, InstallPhaseFails,
         InstallPhaseFailsAgain, InstallPhaseWaits,
              RemoveFinalizerFails, Crash, apiVars, Return
<1>5. CASE UNCHANGED vars
  BY <1>5 DEF vars
<1> QED BY <1>1, <1>2, <1>3, <1>4, <1>5 DEF Next

(* Either nobody writes, or exactly one of the six writes takes place.     *)
LEMMA StepWrites ==
  ASSUME TypeOK, [Next]_vars
  PROVE  \/ UNCHANGED versions
         \/ /\ Creation \/ Edition \/ Marking \/ Withdrawal \/ Adoption \/ Removal
            /\ seen' = seen
<1>1. CASE User
  BY <1>1, UserWrites
<1>2. CASE ~User
  <2>1. CASE UNCHANGED versions
    BY <2>1
  <2>2. CASE versions' # versions
    BY <1>2, <2>2, OtherWrites, CacheMoves
  <2> QED BY <2>1, <2>2
<1> QED BY <1>1, <1>2

(* No user's write takes the finalizer off an object, or puts a Workshop   *)
(* in service.                                                             *)
LEMMA UserKeeps ==
  ASSUME TypeOK, Creation \/ Edition \/ Marking \/ Withdrawal
  PROVE  /\ \A v \in Version : Exists(v) /\ cr.uid = v.uid /\ cr.finalizer
                                 => cr'.uid = v.uid /\ cr'.finalizer
         /\ ~Guarded(cr) => ~Guarded(cr')
BY AfterWrite DEF Creation, Edition, Marking, Withdrawal, Guarded, Exists

LEMMA HistoryStep == TypeOK /\ HistorySound /\ HeldSound /\ [Next]_vars => HistorySound'
<1> SUFFICES ASSUME TypeOK, HistorySound, HeldSound, [Next]_vars PROVE HistorySound'
  OBVIOUS
<1>1. CASE UNCHANGED versions
  BY <1>1 DEF HistorySound, Latest, Exists
<1>2. CASE Creation \/ Edition \/ Marking \/ Withdrawal \/ Adoption \/ Removal
  <2>1. Latest \in Nat /\ Latest > 0
    BY DEF TypeOK, Latest
  <2>2. cr.uid < Latest /\ (cr.deleting => Exists(cr) /\ cr.finalizer)
    BY <2>1 DEF HistorySound, cr
  <2>3. cr.uid \in Nat
    BY VersionsTyped DEF Version
  <2>4. Adoption => ~workshop.deleting
    BY DEF Adoption, HeldSound
  <2>5. cr'.uid < Latest + 1 /\ (cr'.deleting => cr'.uid # 0 /\ cr'.finalizer)
    BY <1>2, <2>1, <2>2, <2>3, <2>4, AfterWrite DEF Edition, Marking, Exists
  <2>6. \A i \in 1..Latest :
          /\ versions'[i].uid < i
          /\ versions'[i].deleting => Exists(versions'[i]) /\ versions'[i].finalizer
    BY <1>2, AfterWrite DEF HistorySound
  <2>7. \A i \in 1..(Latest + 1) : i \in 1..Latest \/ i = Latest + 1
    BY <2>1
  <2> QED BY <1>2, <2>5, <2>6, <2>7, AfterWrite DEF HistorySound, Exists
<1> QED BY <1>1, <1>2, StepWrites

LEMMA CacheStep ==
  TypeOK /\ HistorySound /\ CacheSound /\ HeldSound /\ [Next]_vars => CacheSound'
<1> SUFFICES ASSUME TypeOK, HistorySound, CacheSound, HeldSound, [Next]_vars PROVE CacheSound'
  OBVIOUS
<1>1. seen \in 1..Latest /\ Latest \in Nat /\ held \in 1..Latest
  BY DEF TypeOK, Latest
<1>2. CASE UNCHANGED versions
  <2>1. seen' \in seen..Latest /\ Latest' = Latest /\ cr' = cr
    BY <1>2, CacheMoves, NoWriteFacts
  <2>2. \A i \in (seen')..Latest : i \in seen..Latest
    BY <1>1, <2>1
  <2> QED BY <1>2, <2>1, <2>2 DEF CacheSound, Guarded, Exists
<1>3. ASSUME Creation \/ Edition \/ Marking \/ Withdrawal \/ Adoption \/ Removal,
             seen' = seen
      PROVE  CacheSound'
  <2> DEFINE Sound(v) == /\ Guarded(v) => cr'.uid = v.uid /\ cr'.finalizer
                         /\ v.deleting => ~Guarded(cr')
  <2>1. Sound(cr')
    BY DEF Guarded
  (* The worker adopts or releases only the latest version: then the cache *)
  (* shows the latest one too.                                             *)
  <2>2. (Adoption \/ Removal) => seen = Latest /\ cr = workshop /\ Exists(cr)
    BY <1>1 DEF Adoption, Removal, NoConflict, HeldSound, cr, workshop
  <2>3. Adoption => ~cr.deleting
    BY <2>2 DEF Adoption, HeldSound
  <2>4. Removal => cr.deleting
    BY <2>2 DEF Removal, HeldSound
  <2>5. ASSUME NEW i \in seen..Latest PROVE Sound(versions[i])
    <3>1. /\ Guarded(versions[i]) => cr.uid = versions[i].uid /\ cr.finalizer
          /\ versions[i].deleting => ~Guarded(cr)
      BY <2>5 DEF CacheSound
    <3>2. i \in 1..Latest
      BY <1>1, <2>5
    <3>3. CASE Adoption \/ Removal
      <4>1. versions[i] = cr
        BY <1>1, <2>2, <2>5, <3>3 DEF cr
      <4> QED BY <1>3, <2>2, <2>3, <2>4, <3>1, <3>3, <4>1, AfterWrite DEF Guarded, Exists
    <3>4. CASE Creation \/ Edition \/ Marking \/ Withdrawal
      <4>1. versions[i] \in Version
        BY <3>2, VersionsTyped
      <4> QED BY <3>1, <3>4, <4>1, UserKeeps DEF Guarded
    <3> QED BY <1>3, <3>3, <3>4
  <2>6. \A i \in seen..(Latest + 1) :
          /\ i \in seen..Latest \/ i = Latest + 1
          /\ i \in seen..Latest => i \in 1..Latest
    BY <1>1
  <2>7. ASSUME NEW i \in seen..(Latest + 1) PROVE Sound(versions'[i])
    <3> HIDE DEF Sound
    <3>1. CASE i \in seen..Latest
      <4>1. versions'[i] = versions[i]
        BY <1>3, <2>6, <3>1, AfterWrite
      <4> QED BY <2>5, <3>1, <4>1
    <3>2. CASE i = Latest + 1
      BY <1>3, <2>1, <3>2, AfterWrite
    <3>3. i \in seen..Latest \/ i = Latest + 1
      BY <1>1
    <3> QED BY <3>1, <3>2, <3>3
  <2> QED BY <1>3, <2>7, AfterWrite DEF CacheSound, Guarded, Exists
<1> QED BY <1>2, <1>3, StepWrites

(* What the worker holds does not change in its hands.                     *)
LEMMA HeldSame ==
  ASSUME TypeOK, [Next]_vars, held' = held
  PROVE  workshop' = workshop
<1>1. CASE UNCHANGED versions
  BY <1>1 DEF workshop
<1>2. CASE Creation \/ Edition \/ Marking \/ Withdrawal \/ Adoption \/ Removal
  BY <1>2, AfterWrite DEF workshop, TypeOK
<1> QED BY <1>1, <1>2, StepWrites

LEMMA HeldStep ==
  TypeOK /\ CacheSound /\ HeldSound /\ [Next]_vars => HeldSound'
<1> SUFFICES ASSUME TypeOK, CacheSound, HeldSound, [Next]_vars PROVE HeldSound'
  OBVIOUS
<1> USE DEF FinalizerGuardsInstall, TeardownSparesTheLive
<1>1. seen \in 1..Latest /\ Latest \in Nat /\ held \in 1..Latest
  BY DEF TypeOK, Latest
<1>2. workshop \in Version /\ cr \in Version /\ cached \in Version
  BY VersionsTyped
<1>3. ASSUME pc' \in {"idle", "fetch"} PROVE HeldSound'
  BY <1>3 DEF HeldSound
<1>4. CASE User
  <2>1. UNCHANGED <<seen, pc, held>> /\ workshop' = workshop
    BY <1>4, UserWrites, HeldSame
  <2>2. ~Guarded(cr) => ~Guarded(cr')
    BY <1>4, UserWrites, UserKeeps
  <2>3. Exists(workshop) /\ cr.uid = workshop.uid /\ cr.finalizer
          => cr'.uid = workshop.uid /\ cr'.finalizer
    BY <1>2, <1>4, UserWrites, UserKeeps
  <2>4. Guarded(workshop) => Exists(workshop)
    BY DEF Guarded
  <2> QED BY <2>1, <2>2, <2>3, <2>4 DEF HeldSound
<1>5. CASE Informer
  <2>1. UNCHANGED <<versions, pc, held>> /\ seen' > seen /\ workshop' = workshop /\ cr' = cr
    BY <1>1, <1>5, HeldSame, NoWriteFacts DEF Informer, WatchEvent
  <2>2. held <= seen => held <= seen'
    BY <1>1, <1>5 DEF Informer, WatchEvent
  <2> QED BY <2>1, <2>2 DEF HeldSound
<1>6. CASE DelayOver \/ UNCHANGED vars
  <2>1. UNCHANGED <<versions, seen, pc, held>> /\ workshop' = workshop /\ cr' = cr
    BY <1>6, HeldSame, NoWriteFacts DEF DelayOver, vars
  <2> QED BY <2>1 DEF HeldSound
<1>7. CASE Dequeue \/ Crash \/ ReadFails \/ AddFinalizerFails \/ InstallPhaseFails
           \/ InstallPhaseFailsAgain
           \/ InstallPhaseWaits \/ RemoveFinalizer \/ RemoveFinalizerFails
  BY <1>3, <1>7 DEF Dequeue, Crash, ReadFails, AddFinalizerFails, InstallPhaseFails, InstallPhaseFailsAgain,
                    InstallPhaseWaits, RemoveFinalizer, RemoveFinalizerFails, Return
<1>8. CASE Fetch
  <2>1. cr' = cr /\ Latest' = Latest
    BY <1>8, NoWriteFacts DEF Fetch, apiVars
  <2>2. CASE Exists(cached)
    <3>1. pc' = "dispatch" /\ held' = seen /\ seen' = seen /\ workshop' = cached
      BY <1>8, <2>2 DEF Fetch, Goto, workshop, cached, apiVars
    <3>2. /\ Guarded(cached) => cr.uid = cached.uid /\ cr.finalizer
          /\ cached.deleting => ~Guarded(cr)
      BY <1>1 DEF CacheSound, cached
    <3> QED BY <1>1, <2>1, <2>2, <3>1, <3>2 DEF HeldSound
  <2>3. CASE ~Exists(cached)
    BY <1>3, <1>8, <2>3 DEF Fetch, Return
  <2> QED BY <2>2, <2>3
<1>9. CASE Dispatch
  <2>1. cr' = cr /\ pc = "dispatch"
    BY <1>9, NoWriteFacts DEF Dispatch, apiVars
  <2>2. \/ workshop.deleting /\ Goto("teardown", 1, held)
        \/ Return(FALSE)
        \/ ~workshop.deleting /\ workshop.finalizer /\ Goto("install", 1, held)
        \/ ~workshop.deleting /\ Goto("adopt", 1, held)
    BY <1>2, <1>9 DEF Dispatch, Version
  <2>3. CASE Return(FALSE)
    BY <1>3, <2>3 DEF Return
  <2>4. CASE ~Return(FALSE)
    <3>1. held' = held /\ seen' = seen /\ workshop' = workshop
      BY <2>2, <2>4, HeldSame DEF Goto
    <3>2. CASE workshop.deleting /\ Goto("teardown", 1, held)
      BY <2>1, <3>1, <3>2 DEF HeldSound, Goto
    <3>3. CASE ~workshop.deleting /\ workshop.finalizer /\ Goto("install", 1, held)
      BY <2>1, <3>1, <3>3 DEF HeldSound, Goto, Guarded
    <3>4. CASE ~workshop.deleting /\ Goto("adopt", 1, held)
      BY <2>1, <3>1, <3>4 DEF HeldSound, Goto
    <3> QED BY <2>2, <2>4, <3>2, <3>3, <3>4
  <2> QED BY <2>3, <2>4
<1>10. CASE AddFinalizer
  <2>1. CASE NoConflict
    <3>1. Adoption /\ pc' = "install" /\ held' = Latest + 1
      BY <1>10, <2>1 DEF AddFinalizer, Adoption, Goto
    <3>2. workshop' = cr'
      BY <3>1, AfterWrite DEF workshop
    <3>3. Exists(workshop) /\ ~workshop.deleting
      BY <3>1 DEF Adoption, HeldSound
    <3> QED BY <3>1, <3>2, <3>3, AfterWrite DEF HeldSound, Exists
  <2>2. CASE ~NoConflict
    BY <1>3, <1>10, <2>2 DEF AddFinalizer, Return
  <2> QED BY <2>1, <2>2
<1>11. CASE InstallPhase
  <2>1. pc = "install" /\ cr' = cr
    BY <1>11, NoWriteFacts DEF InstallPhase
  <2>2. CASE pc' = "idle"
    BY <1>3, <2>2
  <2>3. CASE pc' # "idle"
    <3>1. pc' = "install" /\ held' = held /\ workshop' = workshop
      BY <1>11, <2>3, HeldSame DEF InstallPhase, Return, Goto
    <3> QED BY <2>1, <3>1 DEF HeldSound
  <2> QED BY <2>2, <2>3
<1>12. CASE TeardownPhase \/ TeardownPhaseFails
  <2>1. pc = "teardown" /\ cr' = cr /\ pc' \in {"teardown", "release"} /\ held' = held /\ seen' = seen
    BY <1>12, NoWriteFacts DEF TeardownPhase, TeardownPhaseFails, Goto
  <2>2. workshop' = workshop
    BY <2>1, HeldSame
  <2> QED BY <2>1, <2>2 DEF HeldSound
<1> QED BY <1>4, <1>5, <1>6, <1>7, <1>8, <1>9, <1>10, <1>11, <1>12 DEF Next, Worker, Failure

LEMMA CachedSame ==
  ASSUME TypeOK, [Next]_vars, seen' = seen
  PROVE  cached' = cached
<1>1. CASE UNCHANGED versions
  BY <1>1 DEF cached
<1>2. CASE Creation \/ Edition \/ Marking \/ Withdrawal \/ Adoption \/ Removal
  BY <1>2, AfterWrite DEF cached, TypeOK
<1> QED BY <1>1, <1>2, StepWrites

(* With no Workshop there is nothing to converge to.                       *)
LEMMA AbsentConverged ==
  ASSUME TypeOK', HistorySound', ~Exists(cr')
  PROVE  Converged'
BY DEF HistorySound, Converged, cr, TypeOK, Latest

(* The pass was asked to be repeated, or a write has yet to reach the      *)
(* cache.                                                                  *)
LEMMA NotQuiet ==
  ASSUME delayed' \/ dirty' \/ pc' # "idle" \/ seen' # Latest'
  PROVE  RestMeansConverged'
BY DEF RestMeansConverged, Quiet

LEMMA WakeUpsStep == IInv /\ [Next]_vars => WakeUpsKept'
<1> SUFFICES ASSUME TypeOK, HistorySound, CacheSound, HeldSound, WakeUpsKept, [Next]_vars
             PROVE  WakeUpsKept'
  BY DEF IInv
<1> DEFINE Done(i) == \A j \in 1..(i - 1) :
                        Enabled(Phases[j], workshop.wants) => footprint[Phases[j]] = "full"
<1>1. seen \in 1..Latest /\ Latest \in Nat /\ held \in 1..Latest /\ at \in 1..Len(Phases)
  BY DEF TypeOK, Latest
<1>2. TypeOK' /\ HistorySound'
  BY HistoryStep, UserTyped, InformerTyped, WorkerTyped, StutterTyped DEF Next
<1>3. ASSUME pc' \in {"idle", "fetch"}, RestMeansConverged' PROVE WakeUpsKept'
  BY <1>3 DEF WakeUpsKept
<1>4. ASSUME Return(TRUE) PROVE WakeUpsKept'
  BY <1>3, <1>4, NotQuiet DEF Return
<1>5. CASE User
  <2>1. /\ UNCHANGED <<seen, dirty, delayed, pc, at, held, footprint>>
        /\ workshop' = workshop /\ cached' = cached
    BY <1>5, UserWrites, HeldSame, CachedSame
  <2>2. seen' # Latest'
    BY <1>1, <1>5, <2>1, UserWrites, AfterWrite
  <2> QED BY <2>1, <2>2, NotQuiet DEF WakeUpsKept
<1>6. CASE Informer
  <2>1. PICK v \in 1..Latest : WatchEvent(v)
    BY <1>6 DEF Informer
  <2>2. /\ UNCHANGED <<versions, delayed, pc, at, held, footprint>> /\ seen' = v
        /\ dirty' = (dirty \/ Exists(cached) \/ Exists(versions[v]))
        /\ workshop' = workshop /\ cr' = cr /\ Latest' = Latest
    BY <2>1, HeldSame, NoWriteFacts DEF WatchEvent
  <2>3. ~dirty' => ~dirty /\ ~Exists(cached) /\ ~Exists(versions[v])
    BY <2>2
  <2>4. pc \in {"dispatch", "adopt", "teardown", "release", "install"} => dirty'
    <3>1. held = seen => workshop = cached
      BY DEF workshop, cached
    <3> QED BY <2>3, <3>1 DEF WakeUpsKept, HeldSound
  <2>5. RestMeansConverged'
    <3>1. CASE dirty' \/ v # Latest
      BY <2>2, <3>1, NotQuiet
    <3>2. CASE ~dirty' /\ v = Latest
      <4>1. ~Exists(cr')
        BY <2>2, <2>3, <3>2 DEF cr
      <4>2. Converged'
        BY <1>2, <4>1, AbsentConverged
      <4> QED BY <4>2 DEF RestMeansConverged
    <3> QED BY <3>1, <3>2
  <2> QED BY <2>2, <2>4, <2>5 DEF WakeUpsKept
<1>7. CASE DelayOver
  <2>1. UNCHANGED <<versions, seen, pc, at, held, footprint>> /\ dirty' /\ workshop' = workshop
    BY <1>7, HeldSame DEF DelayOver
  <2> QED BY <2>1, NotQuiet DEF WakeUpsKept
<1>8. CASE Dequeue
  BY <1>3, <1>8, NotQuiet DEF Dequeue
<1>9. CASE UNCHANGED vars
  BY <1>9 DEF vars, WakeUpsKept, RestMeansConverged, Quiet, Converged, workshop, cached, cr,
              Latest, Exists
<1>10. CASE Fetch
  <2>1. CASE Exists(cached)
    BY <1>10, <2>1, NotQuiet DEF Fetch, Goto, WakeUpsKept
  <2>2. CASE ~Exists(cached)
    <3>1. pc' = "idle" /\ UNCHANGED <<versions, seen>>
      BY <1>10, <2>2 DEF Fetch, Return, apiVars
    <3>2. Latest' = Latest /\ cr' = cr
      BY <3>1, NoWriteFacts
    <3>3. CASE seen' # Latest'
      BY <1>3, <3>1, <3>3, NotQuiet
    <3>4. CASE seen' = Latest'
      <4>1. ~Exists(cr')
        BY <2>2, <3>1, <3>2, <3>4 DEF cr, cached
      <4>2. Converged'
        BY <1>2, <4>1, AbsentConverged
      <4> QED BY <1>3, <3>1, <4>2 DEF RestMeansConverged
    <3> QED BY <3>3, <3>4
  <2> QED BY <2>1, <2>2
<1>11. CASE ReadFails \/ AddFinalizerFails \/ InstallPhaseFails
           \/ InstallPhaseFailsAgain \/ InstallPhaseWaits
            \/ RemoveFinalizerFails
  BY <1>4, <1>11 DEF ReadFails, AddFinalizerFails, InstallPhaseFails,
         InstallPhaseFailsAgain, InstallPhaseWaits,
                     RemoveFinalizerFails
<1>12. CASE Dispatch
  <2>1. workshop \in Version /\ (workshop.deleting => workshop.finalizer)
    BY <1>1, VersionsTyped DEF HistorySound, workshop
  <2>2. /\ \E l \in {"teardown", "install", "adopt"} : Goto(l, 1, held)
        /\ UNCHANGED footprint
    BY <1>12, <2>1 DEF Dispatch, Version, apiVars
  <2>3. pc = "dispatch" /\ UNCHANGED <<seen, dirty, held>> /\ at' = 1
        /\ pc' \in {"teardown", "install", "adopt"}
    BY <1>12, <2>2 DEF Dispatch, Goto
  <2>4. cached' = cached
    BY <2>3, CachedSame
  <2>5. ~dirty => held = seen /\ Exists(cached)
    BY <2>3 DEF WakeUpsKept, HeldSound, workshop, cached
  <2> QED BY <1>1, <2>3, <2>4, <2>5, NotQuiet DEF WakeUpsKept
<1>13. CASE AddFinalizer
  <2>1. CASE NoConflict
    <3>1. Adoption /\ pc' = "install" /\ held' = Latest + 1 /\ at' = 1 /\ UNCHANGED <<seen, dirty>>
      BY <1>13, <2>1 DEF AddFinalizer, Adoption, Goto
    <3>2. cached' = cached
      BY <3>1, CachedSame
    <3>3. ~dirty => Exists(cached)
      BY <3>1 DEF Adoption, WakeUpsKept, HeldSound, workshop, cached
    <3> QED BY <1>1, <3>1, <3>2, <3>3, NotQuiet DEF WakeUpsKept
  <2>2. CASE ~NoConflict
    BY <1>4, <1>13, <2>2 DEF AddFinalizer
  <2> QED BY <2>1, <2>2
<1>14. CASE InstallPhase
  <2>1. /\ pc = "install" /\ UNCHANGED <<versions, seen, dirty>> /\ cr' = cr /\ Latest' = Latest
        /\ workshop.wants = workshop.wants
    BY <1>14, NoWriteFacts DEF InstallPhase, Return, Goto
  <2>2. \A j \in 1..at : Enabled(Phases[j], workshop.wants) => footprint'[Phases[j]] = "full"
    <3>1. Done(at)
      BY <2>1 DEF WakeUpsKept
    <3>2. footprint' = IF Enabled(Phases[at], workshop.wants)
                       THEN [footprint EXCEPT ![Phases[at]] = "full"] ELSE footprint
      BY <1>14 DEF InstallPhase, Leave
    <3>3. \A j \in 1..at : j \in 1..(at - 1) \/ j = at
      BY <1>1
    <3>4. \A j \in 1..at : Phases[j] \in Phase
      BY <1>1
    <3>5. footprint \in [Phase -> Levels]
      BY DEF TypeOK
    <3> QED BY <3>1, <3>2, <3>3, <3>4, <3>5
  <2>3. CASE at = Len(Phases)
    <3>1. pc' = "idle"
      BY <1>14, <2>3 DEF InstallPhase, Return
    <3>2. CASE dirty' \/ seen' # Latest'
      BY <1>3, <3>1, <3>2, NotQuiet
    <3>3. CASE ~dirty' /\ seen' = Latest'
      <4>1. held = Latest
        BY <1>1, <2>1, <3>3 DEF WakeUpsKept
      <4>2. cr' = workshop
        BY <2>1, <4>1 DEF cr, workshop
      <4>3. Exists(workshop) /\ ~workshop.deleting /\ workshop.finalizer
        BY <2>1 DEF HeldSound
      <4>4. \A p \in Phase : Enabled(p, workshop.wants) => footprint'[p] = "full"
        BY <2>2, <2>3
      <4>5. Converged'
        BY <4>2, <4>3, <4>4 DEF Converged
      <4> QED BY <1>3, <3>1, <4>5 DEF RestMeansConverged
    <3> QED BY <3>2, <3>3
  <2>4. CASE at # Len(Phases)
    <3>1. pc' = "install" /\ at' = at + 1 /\ held' = held
      BY <1>14, <2>4 DEF InstallPhase, Goto
    <3>2. workshop' = workshop /\ cached' = cached
      BY <2>1, <3>1, HeldSame, CachedSame
    <3>3. (at + 1) - 1 = at
      BY <1>1
    <3> QED BY <2>1, <2>2, <3>1, <3>2, <3>3, NotQuiet DEF WakeUpsKept
  <2> QED BY <2>3, <2>4
<1>15. CASE TeardownPhase \/ TeardownPhaseFails
  <2>1. pc = "teardown" /\ pc' \in {"teardown", "release"} /\ UNCHANGED <<held, seen, dirty>>
    BY <1>15 DEF TeardownPhase, TeardownPhaseFails, Goto
  <2> QED BY <2>1, NotQuiet DEF WakeUpsKept
<1>16. CASE RemoveFinalizer
  <2>1. CASE NoConflict
    <3>1. Removal /\ pc' = "idle" /\ seen' = seen
      BY <1>16, <2>1 DEF RemoveFinalizer, Removal, Return
    <3>2. seen' # Latest'
      BY <1>1, <3>1, AfterWrite
    <3> QED BY <1>3, <3>1, <3>2, NotQuiet
  <2>2. CASE ~NoConflict
    BY <1>4, <1>16, <2>2 DEF RemoveFinalizer
  <2> QED BY <2>1, <2>2
<1>17. CASE Crash
  <2>1. pc' = "idle" /\ dirty' = Exists(cr) /\ UNCHANGED versions
    BY <1>17 DEF Crash, apiVars
  <2>2. cr' = cr
    BY <2>1, NoWriteFacts
  <2>3. CASE Exists(cr)
    BY <1>3, <2>1, <2>3, NotQuiet
  <2>4. CASE ~Exists(cr)
    <3>1. Converged'
      BY <1>2, <2>2, <2>4, AbsentConverged
    <3> QED BY <1>3, <2>1, <3>1 DEF RestMeansConverged
  <2> QED BY <2>3, <2>4
<1> QED BY <1>5, <1>6, <1>7, <1>8, <1>9, <1>10, <1>11, <1>12, <1>13, <1>14, <1>15, <1>16,
           <1>17 DEF Next, Worker, Failure

LEMMA InitInv == Init => IInv
<1> SUFFICES ASSUME Init PROVE IInv
  OBVIOUS
<1>1. TypeOK /\ Latest = 1 /\ seen = 1 /\ pc = "idle"
  BY InitTyped DEF Init, Latest
<1>2. \A i \in 1..Latest : versions[i] = Nothing
  <2>1. versions = <<Nothing>>
    BY DEF Init
  <2>2. versions[1] = Nothing
    BY <2>1
  <2> QED BY <1>1, <2>2
<1>3. cr = Nothing
  BY <1>1, <1>2 DEF cr
<1>4. Nothing.uid = 0 /\ ~Nothing.deleting
  BY DEF Nothing
<1>5. HistorySound
  BY <1>1, <1>2, <1>4 DEF HistorySound
<1>6. CacheSound
  BY <1>1, <1>2, <1>4 DEF CacheSound, Guarded, Exists
<1>7. HeldSound
  BY <1>1 DEF HeldSound, FinalizerGuardsInstall, TeardownSparesTheLive
<1>8. WakeUpsKept
  BY <1>1, <1>3, <1>4 DEF WakeUpsKept, RestMeansConverged, Converged, Exists
<1> QED BY <1>1, <1>5, <1>6, <1>7, <1>8 DEF IInv

LEMMA InvStep == IInv /\ [Next]_vars => IInv'
BY UserTyped, InformerTyped, WorkerTyped, StutterTyped, HistoryStep, CacheStep, HeldStep,
   WakeUpsStep
   DEF Next, IInv

LEMMA Inv == Spec => []IInv
BY InitInv, InvStep, PTL DEF Spec

(* Whatever the cache showed when the pass began, and whatever users and   *)
(* faults did since, the object a phase is installed for still has the     *)
(* finalizer that makes its teardown run first (Reconcile adds it before   *)
(* the first phase, and only the one worker takes it off).                 *)
THEOREM InstallIsGuarded == Spec => []FinalizerGuardsInstall
<1>1. IInv => FinalizerGuardsInstall
  BY DEF IInv, HeldSound
<1> QED BY <1>1, Inv, PTL

(* A stale cache never makes the worker tear down under a Workshop in      *)
(* service, a later one of the same name included.                         *)
THEOREM LiveIsSpared == Spec => []TeardownSparesTheLive
<1>1. IInv => TeardownSparesTheLive
  BY DEF IInv, HeldSound
<1> QED BY <1>1, Inv, PTL

(* No wake-up is lost: an operator at rest has carried out the latest spec *)
(* or the deletion, for any number of edits, failures, waits and crashes.  *)
THEOREM RestIsConverged == Spec => []RestMeansConverged
<1>1. IInv => RestMeansConverged
  BY DEF IInv, WakeUpsKept
<1> QED BY <1>1, Inv, PTL

(* The worker's whole-object Updates never undo a user's write.            *)
THEOREM EditsSurvive == Spec => NoLostEdit
<1> DEFINE Kept == pc' # pc /\ Exists(cr') => cr'.wants = cr.wants /\ cr'.uid = cr.uid
                                              /\ cr'.deleting = cr.deleting
<1>1. IInv /\ [Next]_vars => [Kept]_vars
  <2> SUFFICES ASSUME IInv, [Next]_vars PROVE Kept
    OBVIOUS
  <2>1. TypeOK
    BY DEF IInv
  <2>2. CASE User
    BY <2>1, <2>2, UserWrites
  <2>3. CASE UNCHANGED versions
    BY <2>1, <2>3, NoWriteFacts
  <2>4. CASE Adoption
    BY <2>1, <2>4, AfterWrite
  <2>5. CASE Removal
    BY <2>1, <2>5, AfterWrite DEF Exists
  <2> QED BY <2>1, <2>2, <2>3, <2>4, <2>5, OtherWrites
<1> QED BY <1>1, Inv, PTL DEF Spec, NoLostEdit

-----------------------------------------------------------------------------
(* The reconcile loop implements the lifecycle.                            *)

LEMMA StageTyped == Stage \in Lifecycle!Stages
BY DEF Stage, Lifecycle!Stages

(* A write is one of the lifecycle's moves, or leaves the stage alone.     *)
LEMMA WriteMoves ==
  ASSUME IInv, UNCHANGED footprint,
         Creation \/ Edition \/ Marking \/ Withdrawal \/ Adoption \/ Removal
  PROVE  [Lifecycle!Next]_(Lifecycle!vars)
<1> USE DEF Lifecycle!Next, Lifecycle!vars, Lifecycle!Move, IInv
<1>1. Built' = Built
  BY DEF Built
<1>2. CASE Creation
  <2>1. Latest # 0
    BY DEF TypeOK
  <2>2. ~Exists(cr) /\ Exists(cr') /\ ~cr'.finalizer
    BY <1>2, <2>1, AfterWrite DEF Creation, Exists
  <2>3. Stage = "absent" /\ Stage' = "declared"
    BY <2>2 DEF Stage
  <2> QED BY <1>1, <2>3 DEF Lifecycle!Declare
<1>3. CASE Edition
  <2>1. Stage' = Stage
    BY <1>3, AfterWrite DEF Stage, Exists
  <2> QED BY <1>1, <2>1
<1>4. CASE Marking
  <2>1. Stage \in {"guarded", "terminating"} /\ Stage' = "terminating"
    BY <1>4, AfterWrite DEF Stage, Exists, Marking
  <2> QED BY <1>1, <2>1 DEF Lifecycle!Terminate
<1>5. CASE Withdrawal
  <2>1. Stage = "declared" /\ Stage' = "absent"
    BY <1>5, AfterWrite DEF Stage, Exists, Withdrawal
  <2> QED BY <1>1, <2>1 DEF Lifecycle!Withdraw
<1>6. CASE Adoption
  <2>1. Exists(cr) /\ ~cr.deleting
    BY <1>6, AfterWrite DEF Adoption, HeldSound
  <2>2. Stage \in {"declared", "guarded"} /\ Stage' = "guarded"
    BY <1>6, <2>1, AfterWrite DEF Stage, Exists
  <2> QED BY <1>1, <2>2 DEF Lifecycle!Guard
<1>7. CASE Removal
  <2>1. cr = workshop
    BY <1>7 DEF Removal, NoConflict, cr, workshop
  <2>2. Exists(cr) /\ cr.deleting
    BY <1>7, <2>1 DEF Removal, HeldSound
  <2>3. cr.finalizer
    BY <2>2 DEF HistorySound, cr, TypeOK, Latest
  <2>4. Stage = "terminating" /\ Stage' = "absent"
    BY <1>7, <2>2, <2>3, AfterWrite DEF Stage, Exists
  <2> QED BY <1>1, <2>4 DEF Lifecycle!Release
<1> QED BY <1>2, <1>3, <1>4, <1>5, <1>6, <1>7

(* A step of a phase changes the footprint of that phase only.             *)
LEMMA LeaveElsewhere ==
  ASSUME TypeOK, NEW p \in Phase, NEW levels, Leave(p, levels)
  PROVE  footprint'[p] \in levels /\ \A q \in Phase \ {p} : footprint'[q] = footprint[q]
BY DEF Leave, TypeOK

LEMMA InstallBuilds ==
  ASSUME TypeOK, Built,
         \/ Leave(Phases[at], {"full"})
         \/ Leave(Phases[at], AtLeast(footprint[Phases[at]]))
         \/ Leave(Phases[at], AtLeast(footprint[Phases[at]]) \ {"none"})
  PROVE  Built'
<1> DEFINE here == Phases[at]
<1>1. here \in Phase /\ footprint[here] \in Levels
  BY DEF TypeOK
<1>2. footprint[here] # "none" => footprint'[here] # "none"
  BY <1>1, LeaveElsewhere DEF AtLeast, Levels
<1>3. PICK p \in Phase : footprint[p] # "none"
  BY DEF Built
<1>4. footprint'[p] # "none"
  BY <1>1, <1>2, <1>3, LeaveElsewhere
<1> QED BY <1>4 DEF Built

LEMMA TeardownBuildsNothing ==
  ASSUME TypeOK, ~Built,
         Leave(Phases[at], {"none"}) \/ Leave(Phases[at], AtMost(footprint[Phases[at]]))
  PROVE  ~Built'
<1> DEFINE here == Phases[at]
<1>1. here \in Phase /\ \A p \in Phase : footprint[p] = "none"
  BY DEF TypeOK, Built
<1>2. footprint'[here] = "none"
  BY <1>1, LeaveElsewhere DEF AtMost, Levels
<1> QED BY <1>1, <1>2, LeaveElsewhere DEF Built

LEMMA LifecycleStep == IInv /\ [Next]_vars => [Lifecycle!Next]_(Lifecycle!vars)
<1> SUFFICES ASSUME IInv, [Next]_vars PROVE [Lifecycle!Next]_(Lifecycle!vars)
  OBVIOUS
<1>1. TypeOK
  BY DEF IInv
<1>2. Built \in BOOLEAN /\ Built' \in BOOLEAN
  BY DEF Built
<1>3. ASSUME UNCHANGED versions PROVE Stage' = Stage
  BY <1>1, <1>3, NoWriteFacts DEF Stage
<1>4. ASSUME UNCHANGED <<versions, footprint>> PROVE [Lifecycle!Next]_(Lifecycle!vars)
  BY <1>3, <1>4 DEF Built, Lifecycle!vars
<1>5. CASE User
  BY <1>1, <1>5, UserWrites, WriteMoves
<1>6. CASE \/ InstallPhase \/ InstallPhaseFails \/ InstallPhaseFailsAgain
           \/ InstallPhaseWaits
  <2>1. pc = "install" /\ UNCHANGED versions
    BY <1>6 DEF InstallPhase, InstallPhaseFails,
         InstallPhaseFailsAgain, InstallPhaseWaits
  <2>2. Stage \in {"guarded", "terminating"}
    BY <2>1 DEF IInv, HeldSound, FinalizerGuardsInstall, Stage, Exists
  <2>3. CASE UNCHANGED footprint
    BY <1>4, <2>1, <2>3
  <2>4. CASE footprint' # footprint
    <3>1. Built => Built'
      BY <1>1, <1>6, <2>4, InstallBuilds DEF InstallPhase, InstallPhaseFails,
         InstallPhaseFailsAgain, InstallPhaseWaits
    <3>2. CASE Built'
      <4>1. Lifecycle!Build
        BY <1>3, <2>1, <2>2, <3>2 DEF Lifecycle!Build
      <4> QED BY <4>1 DEF Lifecycle!Next
    <3>3. CASE ~Built'
      BY <1>2, <1>3, <2>1, <3>1, <3>3 DEF Lifecycle!vars
    <3> QED BY <3>2, <3>3
  <2> QED BY <2>3, <2>4
<1>7. CASE TeardownPhase \/ TeardownPhaseFails
  <2>1. pc = "teardown" /\ UNCHANGED versions
    BY <1>7 DEF TeardownPhase, TeardownPhaseFails
  <2>2. Stage # "guarded"
    BY <2>1 DEF IInv, HeldSound, TeardownSparesTheLive, Guarded, Stage
  <2>3. ~Built => ~Built'
    BY <1>1, <1>7, TeardownBuildsNothing DEF TeardownPhase, TeardownPhaseFails
  <2>4. CASE Built'
    BY <1>2, <1>3, <2>1, <2>3, <2>4 DEF Lifecycle!vars
  <2>5. CASE ~Built'
    <3>1. Lifecycle!CleanUp
      BY <1>2, <1>3, <2>1, <2>2, <2>5 DEF Lifecycle!CleanUp
    <3> QED BY <3>1 DEF Lifecycle!Next
  <2> QED BY <2>4, <2>5
<1>8. CASE AddFinalizer \/ AddFinalizerFails \/ RemoveFinalizer \/ RemoveFinalizerFails
  <2>1. UNCHANGED footprint
    BY <1>8 DEF AddFinalizer, AddFinalizerFails, RemoveFinalizer, RemoveFinalizerFails
  <2> QED BY <1>1, <1>4, <2>1, WriteMoves, StepWrites
<1>9. CASE \/ Informer \/ DelayOver \/ Dequeue \/ Fetch \/ Dispatch \/ ReadFails \/ Crash
           \/ UNCHANGED vars
  BY <1>4, <1>9 DEF Informer, WatchEvent, DelayOver, Dequeue, Fetch, Dispatch, ReadFails, Crash,
                    apiVars, vars
<1> QED BY <1>5, <1>6, <1>7, <1>8, <1>9 DEF Next, Worker, Failure

(* The reconcile loop with its cache, queue, phases and faults implements  *)
(* the lifecycle: the finalizer is on before anything is built, and        *)
(* nothing goes while the Workshop is in service.                          *)
THEOREM ImplementsLifecycle == Spec => KeepsLifecycle
<1>1. Init => Lifecycle!Init
  <2> SUFFICES ASSUME Init PROVE Lifecycle!Init
    OBVIOUS
  <2>1. ~Exists(cr)
    BY DEF Init, cr, Latest, Exists, Nothing
  <2>2. ~Built
    BY DEF Init, Built
  <2> QED BY <2>1, <2>2 DEF Lifecycle!Init, Stage, Built
<1> QED BY <1>1, LifecycleStep, Inv, PTL DEF Spec, KeepsLifecycle, Lifecycle!Spec
=============================================================================
