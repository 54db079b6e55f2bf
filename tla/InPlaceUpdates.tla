----------------------------- MODULE InPlaceUpdates -----------------------------
(***************************************************************************)
(* How an install pass brings an object up to date that an earlier pass    *)
(* has made: Create, and if it is there already Get, compare and Update.   *)
(* What is wanted depends on the number of users, which the user edits;    *)
(* the Get is answered by a cache that runs behind; and other controllers  *)
(* write to the same object.  The reconcilers do this in four ways that    *)
(* differ in what they compare and in what they write back.                *)
(***************************************************************************)
EXTENDS Naturals, FiniteSets

CONSTANTS
  MaxUsers,    \* bound: users a spec may ask for
  MaxLives,    \* bound: times the user creates the Workshop
  MaxEdits,    \* bound: times it is edited
  MaxForeign,  \* bound: writes of others
  MaxFaults    \* bound: failed calls and crashes

ASSUME InPlaceUpdatesAssumption ==
  /\ MaxUsers \in Nat
  /\ MaxLives \in Nat /\ MaxEdits \in Nat /\ MaxForeign \in Nat /\ MaxFaults \in Nat

(* "exact": the part that is the operator's is compared as a whole and     *)
(* written into the copy of the Get (the policy of Argo CD, an             *)
(* AppProject).  "list": the same of a list, of which an empty one is      *)
(* never found equal to what is read back for it, which is none (member    *)
(* roll; the roles for Jaeger, unless Argo CD has one too).  "contained":  *)
(* every entry wanted is looked for, and all entries are replaced (the     *)
(* config map argocd-cm).                                                  *)
(* "always": what is compared is never filled in on reading, so there is   *)
(* always something to write (StringData of Argo CD's cluster config).     *)
(* "overwrite": what is written is not the copy but a new object           *)
(* (deployments of the portal, of Redis and of a guide).                   *)
Kinds == {"exact", "list", "contained", "always", "overwrite"}
WrittenInPart == {"exact", "list", "always"}

Users == 1..MaxUsers
Wanted(n) == 1..n

(* An object lists users, has taken in some writes of others, and has the  *)
(* revision of its last change.                                            *)
Object == [users : SUBSET Users, others : SUBSET (1..MaxForeign), revision : Nat]
Absent == [users |-> {}, others |-> {}, revision |-> 0]

VARIABLES
  kind,        \* the way of the object of this behaviour
  live,        \* there is a Workshop
  number,      \* the number of users its spec asks for
  object,      \* the object at the API server
  seen,        \* and in the cache
  revision,    \* the API server's last revision
  pc,          \* the worker's next call
  held,        \* the number its pass goes by
  copy,        \* what the Get has returned
  blind,       \* that was out of date
  done,        \* the last pass ended well
  lives, edits, foreign, faults

vars == <<kind, live, number, object, seen, revision, pc, held, copy, blind, done,
          lives, edits, foreign, faults>>

user == <<kind, live, number, lives, edits>>
server == <<object, revision, foreign>>
worker == <<pc, held, copy, blind, done>>

TypeOK ==
  /\ kind \in Kinds
  /\ live \in BOOLEAN
  /\ number \in 0..MaxUsers
  /\ object \in Object
  /\ seen \in Object
  /\ revision \in Nat
  /\ object.revision <= revision
  /\ object.revision = 0 => object = Absent
  /\ pc \in {"rest", "create", "get", "update"}
  /\ held \in 0..MaxUsers
  /\ copy \in Object
  /\ pc = "update" => copy # Absent
  /\ blind \in BOOLEAN
  /\ done \in BOOLEAN
  /\ foreign \in 0..MaxForeign
  /\ lives \in Nat /\ edits \in Nat /\ faults \in Nat

Init ==
  /\ kind \in Kinds
  /\ live = FALSE
  /\ number \in 0..MaxUsers
  /\ object = Absent
  /\ seen = Absent
  /\ revision = 0
  /\ pc = "rest"
  /\ held = number
  /\ copy = Absent
  /\ blind = FALSE
  /\ done = FALSE
  /\ lives = 0 /\ edits = 0 /\ foreign = 0 /\ faults = 0

-----------------------------------------------------------------------------
(* The user, the others and the cache.                                     *)

CreateWorkshop ==
  /\ ~live
  /\ lives < MaxLives
  /\ live' = TRUE
  /\ lives' = lives + 1
  /\ UNCHANGED <<kind, number, edits, server, seen, worker, faults>>

EditWorkshop ==
  /\ live
  /\ edits < MaxEdits
  /\ edits' = edits + 1
  /\ number' \in 0..MaxUsers
  /\ UNCHANGED <<kind, live, lives, server, seen, worker, faults>>

(* A write that changes nothing is none.                                   *)
Written(new) ==
  IF new.users = object.users /\ new.others = object.others /\ object # Absent
  THEN UNCHANGED <<object, revision>>
  ELSE /\ revision' = revision + 1
       /\ object' = [new EXCEPT !.revision = revision + 1]

OthersWrite ==
  /\ object # Absent
  /\ foreign < MaxForeign
  /\ foreign' = foreign + 1
  /\ Written([object EXCEPT !.others = @ \cup {foreign + 1}])
  /\ UNCHANGED <<user, seen, worker, faults>>

CacheCatchesUp ==
  /\ seen # object
  /\ seen' = object
  /\ UNCHANGED <<user, server, worker, faults>>

-----------------------------------------------------------------------------
(* The worker.                                                             *)

Call(c) == pc' = c /\ UNCHANGED <<held, done>>
EndAs(well) == pc' = "rest" /\ done' = well /\ UNCHANGED held

(* A pass begins for an event, a retry or a resync.                        *)
Begin ==
  /\ live
  /\ pc = "rest"
  /\ pc' = "create"
  /\ held' = number
  /\ copy' = Absent
  /\ blind' = FALSE
  /\ UNCHANGED <<done, user, server, seen, faults>>

(* r.Create: of what is wanted, or AlreadyExists.                          *)
Create ==
  /\ pc = "create"
  /\ IF object = Absent
     THEN Written([Absent EXCEPT !.users = Wanted(held)]) /\ EndAs(TRUE)
     ELSE UNCHANGED <<object, revision>> /\ Call("get")
  /\ UNCHANGED <<copy, blind, foreign, user, seen, faults>>

(* Mutant: only whether there are too few is looked for.                   *)
AsManyAs(found) == kind # "always" /\ Cardinality(found.users) >= held

(* Every entry wanted is in the one found.                                 *)
IsIntersectMap(found) == Wanted(held) \subseteq found.users

(* Whether the object found needs no Update.                               *)
UpToDate(found) ==
  CASE kind = "contained" -> IsIntersectMap(found)
    [] kind = "always" -> FALSE
    [] kind = "list" /\ held = 0 -> FALSE
    [] OTHER -> found.users = Wanted(held)

(* Mutant: not found is passed over.                                       *)
GetAnyway ==
  /\ pc = "get"
  /\ copy' = seen
  /\ blind' = (seen # object)
  /\ IF UpToDate(seen) THEN EndAs(TRUE) ELSE Call("update")
  /\ UNCHANGED <<user, server, seen, faults>>

(* r.Get: not found in the cache is an error, as any other.                *)
Get ==
  /\ pc = "get"
  /\ copy' = seen
  /\ blind' = (seen # object)
  /\ IF seen = Absent THEN EndAs(FALSE)
     ELSE IF UpToDate(seen) THEN EndAs(TRUE)
     ELSE Call("update")
  /\ UNCHANGED <<user, server, seen, faults>>

(* What is written back.                                                   *)
Amended ==
  [users |-> Wanted(held),
   others |-> IF kind \in WrittenInPart THEN copy.others ELSE {},
   revision |-> copy.revision]

(* Mutant: the resourceVersion is not compared.                            *)
AcceptedAnyway == object # Absent

(* An Update of a copy carries its resourceVersion.                        *)
Accepted ==
  /\ object # Absent
  /\ kind # "overwrite" => object.revision = copy.revision

(* Mutant: a conflict is passed over.                                      *)
UpdateIgnoringConflict ==
  /\ pc = "update"
  /\ IF Accepted THEN Written(Amended) ELSE UNCHANGED <<object, revision>>
  /\ EndAs(TRUE)
  /\ UNCHANGED <<copy, blind, foreign, user, seen, faults>>

(* r.Update: a conflict is an error, and so is not found.                  *)
Update ==
  /\ pc = "update"
  /\ IF Accepted
     THEN Written(Amended) /\ EndAs(TRUE)
     ELSE UNCHANGED <<object, revision>> /\ EndAs(FALSE)
  /\ UNCHANGED <<copy, blind, foreign, user, seen, faults>>

(* The Workshop is deleted, and the teardown takes the object with it, or  *)
(* fails before it gets there.                                             *)
TearDown ==
  /\ live
  /\ pc = "rest"
  /\ live' = FALSE
  /\ done' = FALSE
  /\ \/ object' = Absent
     \/ UNCHANGED object
  /\ UNCHANGED <<kind, number, lives, edits, revision, foreign, seen, pc, held, copy, blind,
                 faults>>

(* A call fails, or its answer is lost, or the process dies.               *)
CallFails ==
  /\ pc # "rest"
  /\ faults < MaxFaults
  /\ faults' = faults + 1
  /\ \/ UNCHANGED <<object, revision>>
     \/ /\ pc = "create" /\ object = Absent
        /\ Written([Absent EXCEPT !.users = Wanted(held)])
     \/ pc = "update" /\ Accepted /\ Written(Amended)
  /\ EndAs(FALSE)
  /\ UNCHANGED <<copy, blind, foreign, user, seen>>

-----------------------------------------------------------------------------
Work == Begin \/ Create \/ Get \/ Update

Next ==
  \/ CreateWorkshop \/ EditWorkshop \/ TearDown
  \/ OthersWrite
  \/ CacheCatchesUp
  \/ Work
  \/ CallFails

Spec == Init /\ [][Next]_vars

(* The worker runs, again at every resync, and the cache catches up.       *)
FairSpec == Spec /\ WF_vars(Work) /\ WF_vars(CacheCatchesUp)

-----------------------------------------------------------------------------
(* Properties.                                                             *)

(* The object lists the users wanted, or for a config map at least those.  *)
Suits(n) ==
  /\ object # Absent
  /\ Wanted(n) \subseteq object.users
  /\ kind # "contained" => object.users = Wanted(n)

(* A pass that ends well, and was not misled by the cache, has the object  *)
(* list the users of its spec: also if others wrote to it meanwhile.       *)
PassBringsUpToDate == pc = "rest" /\ done /\ ~blind => Suits(held)

(* What others have written stays, in objects the worker writes back in    *)
(* part: an Update from an old copy is refused.                            *)
OthersKept ==
  kind \in WrittenInPart /\ object' # Absent => object.others \subseteq object'.others

OthersAreKept == [][OthersKept]_vars

(* Once the user and the others are done, the object gets to list what     *)
(* the last spec asks for, whatever passes went by old copies or were      *)
(* refused.                                                                *)
EventuallySuits == <>[](live => Suits(number))
=============================================================================
