--------------------------- MODULE VaultConstraints ---------------------------
(***************************************************************************)
(* The security context constraints named vault                            *)
(* (controllers/vault_reconciler.go), which the server's and the agent     *)
(* injector's functions share.  Whichever does not find them copies those  *)
(* named privileged and adds its own account; whichever finds them leaves  *)
(* them as they are.  Both look in the cache, in a pass and in a teardown. *)
(***************************************************************************)
EXTENDS Naturals, Sequences

CONSTANTS
  Order,       \* the service accounts, in the order of the functions
  MaxLives,    \* bound: times the user creates the Workshop
  MaxFaults    \* bound: failed calls and crashes

Accounts == {Order[i] : i \in 1..Len(Order)}

ASSUME VaultAssumption ==
  /\ Len(Order) \in Nat \ {0}
  /\ \A i, j \in 1..Len(Order) : Order[i] = Order[j] => i = j
  /\ MaxLives \in Nat
  /\ MaxFaults \in Nat

VARIABLES
  workshop,   \* "none", "live" or "deleting"
  lives,      \* times it has been created
  scc,        \* the constraints at the API server: there or not, and the accounts added
  seen,       \* the constraints in the cache
  call,       \* the worker's next call
  turn,       \* the function it is in
  done,       \* how the last pass or teardown ended
  deceived,   \* some look of this pass, or of the last, did not show what was there
  passedBy,   \* the first function left the constraints out although they were missing
  faults

vars == <<workshop, lives, scc, seen, call, turn, done, deceived, passedBy, faults>>

Missing == [there |-> FALSE, users |-> {}]
Constraints == [there : BOOLEAN, users : SUBSET Accounts]

TypeOK ==
  /\ workshop \in {"none", "live", "deleting"}
  /\ lives \in Nat
  /\ scc \in Constraints
  /\ seen \in Constraints
  /\ call \in {"rest", "look", "create", "lookAgain", "delete"}
  /\ turn \in 1..Len(Order) + 1
  /\ call \in {"create", "delete"} => turn <= Len(Order)
  /\ done \in {"not", "installed", "removed"}
  /\ deceived \in BOOLEAN
  /\ passedBy \in BOOLEAN
  /\ faults \in Nat

Init ==
  /\ workshop = "none"
  /\ lives = 0
  /\ scc = Missing
  /\ seen = Missing
  /\ call = "rest"
  /\ turn = 1
  /\ done = "not"
  /\ deceived = FALSE
  /\ passedBy = FALSE
  /\ faults = 0

-----------------------------------------------------------------------------
(* The user, and the informer of the worker's client.                      *)

CreateWorkshop ==
  /\ workshop = "none"
  /\ lives < MaxLives
  /\ workshop' = "live"
  /\ lives' = lives + 1
  /\ UNCHANGED <<scc, seen, call, turn, done, deceived, passedBy, faults>>

DeleteWorkshop ==
  /\ workshop = "live"
  /\ workshop' = "deleting"
  /\ UNCHANGED <<lives, scc, seen, call, turn, done, deceived, passedBy, faults>>

CacheCatchesUp ==
  /\ seen # scc
  /\ seen' = scc
  /\ UNCHANGED <<workshop, lives, scc, call, turn, done, deceived, passedBy, faults>>

-----------------------------------------------------------------------------
(* The install pass.                                                       *)

Working(c) == call = c /\ turn <= Len(Order)
NextFunction(c) == call' = c /\ turn' = turn + 1
Stop(how) == call' = "rest" /\ turn' = 1 /\ done' = how

Outer == UNCHANGED <<workshop, lives, seen>>

(* A pass, or the teardown, begins.                                        *)
Begin ==
  /\ call = "rest"
  /\ \/ workshop = "live" /\ call' = "look"
     \/ workshop = "deleting" /\ call' = "lookAgain"
  /\ turn' = 1
  /\ done' = "not"
  /\ deceived' = FALSE
  /\ UNCHANGED <<scc, passedBy, faults>>
  /\ Outer

(* Mutants: the loop over the functions is left one too late; what is not  *)
(* found is passed over.                                                   *)
LookOnceMore ==
  /\ call = "look"
  /\ IF seen.there THEN NextFunction("look") ELSE call' = "create" /\ UNCHANGED turn
  /\ UNCHANGED <<scc, done, deceived, passedBy, faults>>
  /\ Outer

LookOnly ==
  /\ Working("look")
  /\ NextFunction("look")
  /\ UNCHANGED <<scc, done, deceived, passedBy, faults>>
  /\ Outer

(* r.Get of vault.                                                         *)
Look ==
  /\ Working("look")
  /\ IF seen.there THEN NextFunction("look") ELSE call' = "create" /\ UNCHANGED turn
  /\ deceived' = (deceived \/ (seen.there /\ ~scc.there))
  /\ passedBy' = (passedBy \/ (turn = 1 /\ seen.there /\ ~scc.there))
  /\ UNCHANGED <<scc, done, faults>>
  /\ Outer

(* Mutant: the account is appended only if it is there already.            *)
CreateWithoutAccount ==
  /\ Working("create")
  /\ scc' = IF scc.there THEN scc ELSE [there |-> TRUE, users |-> {}]
  /\ NextFunction("look")
  /\ UNCHANGED <<done, deceived, passedBy, faults>>
  /\ Outer

(* r.Get of privileged and r.Create of the copy, tolerating AlreadyExists. *)
Copied == IF scc.there THEN scc ELSE [there |-> TRUE, users |-> {Order[turn]}]

Create ==
  /\ Working("create")
  /\ scc' = Copied
  /\ NextFunction("look")
  /\ UNCHANGED <<done, deceived, passedBy, faults>>
  /\ Outer

InstallEnds ==
  /\ call = "look"
  /\ turn > Len(Order)
  /\ Stop("installed")
  /\ UNCHANGED <<scc, deceived, passedBy, faults>>
  /\ Outer

-----------------------------------------------------------------------------
(* The teardown.                                                           *)

(* Mutant: the check of the error is inverted.                             *)
LookAgainInverted ==
  /\ Working("lookAgain")
  /\ IF ~seen.there THEN call' = "delete" /\ UNCHANGED turn ELSE NextFunction("lookAgain")
  /\ deceived' = (deceived \/ seen.there # scc.there)
  /\ UNCHANGED <<scc, done, passedBy, faults>>
  /\ Outer

(* r.Get of vault, and r.Delete if it is found.                            *)
LookAgain ==
  /\ Working("lookAgain")
  /\ IF seen.there THEN call' = "delete" /\ UNCHANGED turn ELSE NextFunction("lookAgain")
  /\ deceived' = (deceived \/ seen.there # scc.there)
  /\ UNCHANGED <<scc, done, passedBy, faults>>
  /\ Outer

(* r.Delete; not found is an error, which ends the teardown, and with it   *)
(* the Workshop.                                                           *)
Delete ==
  /\ Working("delete")
  /\ scc' = Missing
  /\ passedBy' = FALSE
  /\ IF scc.there THEN NextFunction("lookAgain") /\ UNCHANGED <<done, workshop>>
     ELSE Stop("not") /\ workshop' = "none"
  /\ UNCHANGED <<lives, seen, deceived, faults>>

TeardownEnds ==
  /\ call = "lookAgain"
  /\ turn > Len(Order)
  /\ Stop("removed")
  /\ workshop' = "none"
  /\ UNCHANGED <<lives, scc, seen, deceived, passedBy, faults>>

-----------------------------------------------------------------------------
Fault == faults < MaxFaults /\ faults' = faults + 1

(* A Get of vault that fails, whatever the error, goes for one that has    *)
(* not found it.                                                           *)
LookFails ==
  /\ \/ /\ Working("look")
        /\ call' = "create"
        /\ UNCHANGED <<turn, deceived>>
     \/ /\ Working("lookAgain")
        /\ NextFunction("lookAgain")
        /\ deceived' = (deceived \/ scc.there)
  /\ UNCHANGED <<scc, done, passedBy>>
  /\ Outer
  /\ Fault

(* Another call fails, its answer is lost or the process dies.  If it is   *)
(* the Get of privileged, the code goes on to Update the empty object of   *)
(* the Get before, which has no name, and that fails too.  A teardown that *)
(* fails is given up, one that is cut off by a crash begins again.         *)
CallFails ==
  /\ call # "rest"
  /\ \/ UNCHANGED <<scc, passedBy>>
     \/ Working("create") /\ scc' = Copied /\ UNCHANGED passedBy
     \/ Working("delete") /\ scc' = Missing /\ passedBy' = FALSE
  /\ Stop("not")
  /\ workshop' \in IF call \in {"lookAgain", "delete"} THEN {"none", "deleting"} ELSE {workshop}
  /\ UNCHANGED <<lives, seen, deceived>>
  /\ Fault

-----------------------------------------------------------------------------
WorkerStep ==
  Begin \/ Look \/ Create \/ InstallEnds \/ LookAgain \/ Delete \/ TeardownEnds

Next ==
  CreateWorkshop \/ DeleteWorkshop \/ CacheCatchesUp \/ WorkerStep \/ LookFails \/ CallFails

Spec == Init /\ [][Next]_vars

(* The cache catches up, and passes come again, at the latest with the     *)
(* informer's resync.                                                      *)
FairSpec == Spec /\ WF_vars(CacheCatchesUp) /\ WF_vars(WorkerStep)

-----------------------------------------------------------------------------
(* Properties.                                                             *)

(* A pass that ends well, and that the cache did not deceive, has the      *)
(* constraints in place, whoever made them; a teardown has them gone.      *)
EndsAsItShould ==
  call = "rest" /\ ~deceived =>
    /\ done = "installed" /\ workshop = "live" => scc.there
    /\ done = "removed" /\ workshop = "none" => ~scc.there

(* The constraints list the server's account, which the agent's function   *)
(* would not add, unless the server's once passed them by.                 *)
ServerIsListed == scc.there /\ ~passedBy => Order[1] \in scc.users

(* As long as the Workshop lives they are there again in the end, whatever *)
(* the cache showed.                                                       *)
ThereInTheEnd == <>[](workshop = "live" => scc.there)
=============================================================================
