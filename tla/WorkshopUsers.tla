----------------------------- MODULE WorkshopUsers -----------------------------
(***************************************************************************)
(* The first phase of Reconcile and of handleDelete: the OpenShift users   *)
(* of the workshop and the htpasswd secret they log in with                *)
(* (controllers/user_reconciler.go).  Which users there are is read back   *)
(* from the cluster by label; that list and the secret come from the       *)
(* manager's cache, which runs behind, and a List that fails is taken for  *)
(* an empty one.  The objects of a user are made and deleted one call at a *)
(* time, and any call may fail.                                            *)
(***************************************************************************)
EXTENDS Integers, FiniteSets

CONSTANTS
  Prefixes,       \* values of spec.user.prefix
  Numbers,        \* values of spec.user.number
  NameOf(_, _),   \* the name of a user: the prefix and a number
  Nobody,         \* no user
  MaxUsers,       \* the largest of Numbers
  MaxAccidental,  \* bound: times a prefix is in the secret's text but not as a user's
  MaxEdits,       \* bound: writes of the Workshop
  MaxFaults       \* bound: failed calls, failed commands and crashes

(* The first n users of prefix p.                                          *)
Numbered(p, n) == {NameOf(p, id) : id \in 1..n}

Name == UNION {Numbered(p, MaxUsers) : p \in Prefixes}

(* Two prefixes may share names: user + 11 is user1 + 1.                   *)
ASSUME UsersAssumption ==
  /\ MaxUsers \in Nat
  /\ Numbers \subseteq {n \in Int : n <= MaxUsers}
  /\ \A p \in Prefixes, i, j \in 1..MaxUsers : NameOf(p, i) = NameOf(p, j) => i = j
  /\ Nobody \notin Name \cup Prefixes
  /\ MaxAccidental \in Nat
  /\ MaxEdits \in Nat
  /\ MaxFaults \in Nat

VARIABLES
  cr,           \* the Workshop at the API server: its users and its deletion mark
  due,          \* a pass is due
  have,         \* have[u]: the objects of user u at the API server
  secret,       \* the users in the htpasswd secret, or NoSecret
  cachedUsers,  \* the users the cache shows
  cachedSecret, \* the secret the cache shows
  pc,           \* where the pass is
  workshop,     \* the Workshop it works for
  todo,         \* the users it has yet to delete, then those it has yet to add
  missing,      \* those it is to add after the deletions
  at,           \* the call it is at for one of `todo`
  cur,          \* that one, or Nobody
  ended,        \* how the last pass ended
  blind,        \* something it read was not how things stood
  garbled,      \* it made a secret with users left out, or kept one by a count
                \*   that an accident or such a gap made right
  interrupted,  \* the users in the middle of whose calls a pass was cut off
  edits, faults \* counted for the bounds

clusterVars == <<have, secret>>
cacheVars == <<cachedUsers, cachedSecret>>
userVars == <<todo, missing, at, cur>>
passVars == <<pc, workshop, userVars, ended, blind, garbled>>
vars == <<cr, due, clusterVars, cacheVars, passVars, interrupted, edits, faults>>

-----------------------------------------------------------------------------
Workshop == [prefix : Prefixes, number : Numbers, deleting : BOOLEAN]
NoWorkshop == [prefix |-> Nobody, number |-> 0, deleting |-> FALSE]

NoSecret == {Nobody}

Wanted(w) == Numbered(w.prefix, w.number)

(* Those of a set of users that a prefix gives.                            *)
Under(users, p) == users \cap Numbered(p, MaxUsers)

(* addUser makes the objects of a user in this order ...                   *)
Making == <<"user", "rolebinding", "identity", "mapping">>

(* Mutant: the user goes first.                                            *)
UnmakingUserFirst == <<"user", "mapping", "identity", "rolebinding">>

(* ... and deleteOpenshiftUser deletes them in the opposite one.           *)
Unmaking == <<"mapping", "identity", "rolebinding", "user">>

Objects == {"user", "rolebinding", "identity", "mapping"}

Present == {u \in Name : "user" \in have[u]}

Places == {"idle", "list", "delete", "add", "secret", "compare", "drop", "remake", "remove",
           "done"}

TypeOK ==
  /\ cr \in Workshop \cup {NoWorkshop} /\ workshop \in Workshop \cup {NoWorkshop}
  /\ due \in BOOLEAN /\ blind \in BOOLEAN /\ garbled \in BOOLEAN
  /\ have \in [Name -> SUBSET Objects]
  /\ secret \in (SUBSET Name) \cup {NoSecret}
  /\ cachedSecret \in (SUBSET Name) \cup {NoSecret}
  /\ cachedUsers \subseteq Name
  /\ pc \in Places
  /\ todo \subseteq Name /\ missing \subseteq Name /\ interrupted \subseteq Name
  /\ at \in 1..4 /\ cur \in todo \cup {Nobody}
  /\ at = 1 <=> cur = Nobody
  /\ ended \in {"nothing", "installed", "removed", "failed"}
  /\ edits \in 0..MaxEdits /\ faults \in 0..MaxFaults

Init ==
  /\ cr = NoWorkshop /\ workshop = NoWorkshop
  /\ due = FALSE /\ blind = FALSE /\ garbled = FALSE
  /\ have = [u \in Name |-> {}]
  /\ secret = NoSecret /\ cachedSecret = NoSecret
  /\ cachedUsers = {}
  /\ pc = "idle"
  /\ todo = {} /\ missing = {} /\ interrupted = {}
  /\ at = 1 /\ cur = Nobody
  /\ ended = "nothing"
  /\ edits = 0 /\ faults = 0

-----------------------------------------------------------------------------
(* The Workshop is created, edited, or marked for deletion.                *)
UserWrites ==
  /\ edits < MaxEdits
  /\ ~cr.deleting
  /\ \/ \E p \in Prefixes, n \in Numbers :
          cr' = [prefix |-> p, number |-> n, deleting |-> FALSE]
     \/ cr # NoWorkshop /\ cr' = [cr EXCEPT !.deleting = TRUE]
  /\ cr' # cr
  /\ due' = TRUE
  /\ edits' = edits + 1
  /\ UNCHANGED <<clusterVars, cacheVars, passVars, interrupted, faults>>

(* The informers learn how one user, or the secret, stands.                *)
CacheCatchesUp ==
  /\ \/ \E u \in Present \ cachedUsers : cachedUsers' = cachedUsers \cup {u}
     \/ \E u \in cachedUsers \ Present : cachedUsers' = cachedUsers \ {u}
     \/ UNCHANGED cachedUsers
  /\ cachedSecret' \in {cachedSecret, secret}
  /\ cacheVars' # cacheVars
  /\ UNCHANGED <<cr, due, clusterVars, passVars, interrupted, edits, faults>>

-----------------------------------------------------------------------------
(* How a pass goes on, and how it ends.                                    *)

Reads == UNCHANGED <<cr, due, clusterVars, cacheVars, interrupted, edits, faults>>
WritesSecret == UNCHANGED <<cr, due, have, cacheVars, interrupted, edits, faults>>

Goto(l) == pc' = l /\ UNCHANGED <<workshop, userVars, ended, blind, garbled>>

(* An install pass that fails is due again.  A teardown is followed by the *)
(* removal of the finalizer however it ends.                               *)
Return(how) ==
  /\ pc' = "idle"
  /\ todo' = {} /\ missing' = {} /\ at' = 1 /\ cur' = Nobody
  /\ ended' = how
  /\ due' = (due \/ (how = "failed" /\ ~workshop.deleting))
  /\ cr' = IF workshop.deleting THEN NoWorkshop ELSE cr
  /\ UNCHANGED <<cacheVars, workshop, blind, garbled, edits>>

Start ==
  /\ pc = "idle"
  /\ due
  /\ due' = FALSE
  /\ IF cr = NoWorkshop
     THEN UNCHANGED <<pc, workshop, ended, blind, garbled>>
     ELSE /\ pc' = "list" /\ workshop' = cr /\ ended' = "nothing"
          /\ blind' = FALSE /\ garbled' = FALSE
  /\ UNCHANGED <<cr, clusterVars, cacheVars, userVars, interrupted, edits, faults>>

Finish ==
  /\ pc = "done"
  /\ Return(IF workshop.deleting THEN "removed" ELSE "installed")
  /\ UNCHANGED <<clusterVars, interrupted, faults>>

-----------------------------------------------------------------------------
(* reconcileUser and deleteUsers.                                          *)

(* Mutants: users of an earlier prefix are not looked for.                 *)
ToDeleteSamePrefix(listed) ==
  IF workshop.deleting THEN listed
  ELSE Under(listed, workshop.prefix) \ Wanted(workshop)
ToDeleteOwn(listed) ==
  IF workshop.deleting THEN listed \cap Wanted(workshop) ELSE listed \ Wanted(workshop)

(* Mutant: all users are made anew.                                        *)
ToDeleteEveryone(listed) == listed

(* Given the users listed, an install pass deletes those it does not want  *)
(* and adds those it misses; a teardown deletes them all.                  *)
ToDelete(listed) == IF workshop.deleting THEN listed ELSE listed \ Wanted(workshop)
ToAdd(listed) == IF workshop.deleting THEN {} ELSE Wanted(workshop) \ listed

WorkOn(listed) ==
  /\ todo' = ToDelete(listed)
  /\ missing' = ToAdd(listed)
  /\ blind' = (listed # Present)
  /\ pc' = "delete"
  /\ UNCHANGED <<workshop, at, cur, ended, garbled>>

List == pc = "list" /\ WorkOn(cachedUsers) /\ Reads

(* Mutant: after the last call the pass does not turn to another user.     *)
NextCallSameUser(u) ==
  /\ IF at = 4
     THEN /\ todo' = todo \ {u} /\ at' = 1 /\ cur' = u
          /\ interrupted' = interrupted \ {u}
     ELSE /\ at' = at + 1 /\ cur' = u
          /\ UNCHANGED <<todo, interrupted>>
  /\ UNCHANGED <<cr, due, secret, cacheVars, pc, workshop, missing, ended, blind, garbled,
                 edits, faults>>

(* One of the four calls for user u has been made.                         *)
NextCall(u) ==
  /\ IF at = 4
     THEN /\ todo' = todo \ {u} /\ at' = 1 /\ cur' = Nobody
          /\ interrupted' = interrupted \ {u}
     ELSE /\ at' = at + 1 /\ cur' = u
          /\ UNCHANGED <<todo, interrupted>>
  /\ UNCHANGED <<cr, due, secret, cacheVars, pc, workshop, missing, ended, blind, garbled,
                 edits, faults>>

(* The users come in no particular order, but one after the other.         *)
Turn(u) == u \in todo /\ cur \in {u, Nobody}

(* deleteOpenshiftUser: the first object that is not there is an error.    *)
(* (The Get of the user before it only feeds what the identity is built    *)
(* from, and Delete goes by its name.)                                     *)
DeleteUser(u) ==
  /\ pc = "delete"
  /\ Turn(u)
  /\ IF Unmaking[at] \in have[u]
     THEN have' = [have EXCEPT ![u] = @ \ {Unmaking[at]}] /\ NextCall(u)
     ELSE Return("failed") /\ UNCHANGED <<clusterVars, interrupted, faults>>

UsersDeleted ==
  /\ pc = "delete"
  /\ todo = {}
  /\ todo' = missing
  /\ missing' = {}
  /\ pc' = IF workshop.deleting THEN "remove" ELSE "add"
  /\ UNCHANGED <<workshop, at, cur, ended, blind, garbled>>
  /\ Reads

(* addUser goes on over what is already there.  (A Get of the user before  *)
(* the third call, failing or not, only tells the identity the user's UID: *)
(* content, not presence.)                                                 *)
AddUser(u) ==
  /\ pc = "add"
  /\ Turn(u)
  /\ have' = [have EXCEPT ![u] = @ \cup {Making[at]}]
  /\ NextCall(u)

UsersAdded ==
  /\ pc = "add"
  /\ todo = {}
  /\ Goto("secret")
  /\ Reads

-----------------------------------------------------------------------------
(* createUserHtpasswd and deleteUserHtpasswd.                              *)

CreateSecret ==
  /\ pc = "secret"
  /\ IF secret = NoSecret
     THEN secret' = Wanted(workshop) /\ Goto("done")
     ELSE UNCHANGED secret /\ Goto("compare")
  /\ WritesSecret

(* Mutant: a secret with too many users is left as it is.                  *)
OutOfDateIfFewer(s, accidental) ==
  workshop.number > Cardinality(Under(s, workshop.prefix)) + accidental

(* strings.Count: the prefix is counted wherever it is in the text.  It is *)
(* in the line of every user it names, and by accident anywhere else: in a *)
(* hash, in a name of another prefix, or twice in a name.                  *)
OutOfDate(s, accidental) ==
  workshop.number # Cardinality(Under(s, workshop.prefix)) + accidental

(* The users of this prefix in a secret are the first so many, as the ones *)
(* in a secret made by commands that all succeeded are.                    *)
Gapless(s) ==
  \E n \in 0..MaxUsers : Under(s, workshop.prefix) = Numbered(workshop.prefix, n)

(* The secret is read back, from the cache; a Get that does not find it is *)
(* passed over.  How often the prefix is in it by accident is any number.  *)
CompareSecret ==
  /\ pc = "compare"
  /\ \E accidental \in 0..MaxAccidental :
       /\ pc' = IF cachedSecret # NoSecret /\ OutOfDate(cachedSecret, accidental)
                THEN "drop" ELSE "done"
       /\ garbled' = \/ garbled
                     \/ pc' = "done" /\ (accidental # 0 \/ ~Gapless(cachedSecret))
  /\ blind' = (blind \/ cachedSecret # secret)
  /\ UNCHANGED <<workshop, userVars, ended>>
  /\ Reads

DropSecret ==
  /\ pc = "drop"
  /\ secret' = NoSecret
  /\ Goto("remake")
  /\ WritesSecret

(* Mutant: having replaced the secret, the pass asks for another one.      *)
RemakeSecretAndAgain ==
  /\ pc = "remake"
  /\ secret' = Wanted(workshop)
  /\ Return("failed")
  /\ UNCHANGED <<have, interrupted, faults>>

RemakeSecret ==
  /\ pc = "remake"
  /\ secret' = Wanted(workshop)
  /\ Goto("done")
  /\ WritesSecret

RemoveSecret ==
  /\ pc = "remove"
  /\ secret' = NoSecret
  /\ IF secret # NoSecret
     THEN Goto("done") /\ WritesSecret
     ELSE Return("failed") /\ UNCHANGED <<have, interrupted, faults>>

-----------------------------------------------------------------------------
(* Faults.                                                                 *)

Fault == faults < MaxFaults /\ faults' = faults + 1

(* The List fails: an error in the log, and no users.                      *)
ListFails ==
  /\ pc = "list"
  /\ WorkOn({})
  /\ Fault
  /\ UNCHANGED <<cr, due, clusterVars, cacheVars, interrupted, edits>>

GetSecretFails ==
  /\ pc = "compare"
  /\ pc' = "done"
  /\ blind' = TRUE
  /\ Fault
  /\ UNCHANGED <<cr, due, clusterVars, cacheVars, workshop, userVars, ended, garbled, interrupted,
                 edits>>

(* A call for a user fails, or is made and its answer lost.                *)
UserCallFails(u) ==
  /\ pc \in {"delete", "add"}
  /\ Turn(u)
  /\ have' \in {have,
                [have EXCEPT ![u] = IF pc = "add" THEN @ \cup {Making[at]}
                                                  ELSE @ \ {Unmaking[at]}]}
  /\ interrupted' = IF have'[u] \in {{}, Objects} THEN interrupted ELSE interrupted \cup {u}
  /\ Return("failed")
  /\ Fault
  /\ UNCHANGED secret

(* htpasswd fails for some users: an error in the log, and a blank line in *)
(* the text of a secret that is made all the same.                         *)
CommandsFail ==
  /\ pc \in {"secret", "remake"}
  /\ secret = NoSecret
  /\ secret' \in (SUBSET Wanted(workshop)) \ {Wanted(workshop)}
  /\ garbled' = TRUE
  /\ pc' = "done"
  /\ Fault
  /\ UNCHANGED <<cr, due, have, cacheVars, workshop, userVars, ended, blind, interrupted, edits>>

(* A call for the secret fails, or is made and its answer lost.            *)
SecretCallFails ==
  /\ \/ pc \in {"secret", "drop", "remake", "remove"} /\ UNCHANGED secret
     \/ pc \in {"secret", "remake"} /\ secret = NoSecret
          /\ secret' \in SUBSET Wanted(workshop)
     \/ pc \in {"drop", "remove"} /\ secret' = NoSecret
  /\ Return("failed")
  /\ Fault
  /\ UNCHANGED <<have, interrupted>>

(* The process dies.  A teardown still has its finalizer then, and comes   *)
(* again; the caches start from what is there.                             *)
Crash ==
  /\ pc # "idle"
  /\ pc' = "idle"
  /\ todo' = {} /\ missing' = {} /\ at' = 1 /\ cur' = Nobody
  /\ ended' = "failed"
  /\ due' = TRUE
  /\ interrupted' = interrupted \cup ({cur} \ {Nobody})
  /\ cachedUsers' = Present /\ cachedSecret' = secret
  /\ Fault
  /\ UNCHANGED <<cr, clusterVars, workshop, blind, garbled, edits>>

-----------------------------------------------------------------------------
PassStep ==
  \/ Start
  \/ List
  \/ \E u \in Name : DeleteUser(u) \/ AddUser(u)
  \/ UsersDeleted
  \/ UsersAdded
  \/ CreateSecret
  \/ CompareSecret
  \/ DropSecret
  \/ RemakeSecret
  \/ RemoveSecret
  \/ Finish

Failure ==
  \/ ListFails
  \/ GetSecretFails
  \/ \E u \in Name : UserCallFails(u)
  \/ CommandsFail
  \/ SecretCallFails
  \/ Crash

Next ==
  \/ UserWrites
  \/ CacheCatchesUp
  \/ PassStep
  \/ Failure

Spec == Init /\ [][Next]_vars

(* The worker runs, and the informers are told in the end.                 *)
FairSpec == Spec /\ WF_vars(PassStep) /\ WF_vars(CacheCatchesUp)

-----------------------------------------------------------------------------
(* Properties.                                                             *)

(* A user's objects nest: wherever additions and deletions of it, from     *)
(* whatever stale lists, were cut off, no object is there without those    *)
(* that addUser makes before it.  So nobody has an identity without being  *)
(* a user, and a user that is not listed has nothing left at all.          *)
ObjectsNest ==
  \A u \in Name : \A i \in 1..3 : Making[i + 1] \in have[u] => Making[i] \in have[u]

(* An install pass that returns no error, and saw the cluster as it was,   *)
(* leaves the users of the spec and no others, whatever prefix and number  *)
(* the specs before had; they are complete but for those in whose calls    *)
(* some pass was cut off.                                                  *)
PassSettlesUsers ==
  ended = "installed" /\ ~blind =>
    /\ Present = Wanted(workshop)
    /\ \A u \in Wanted(workshop) : have[u] = Objects \/ u \in interrupted

(* And it leaves a secret, also when a pass died between deleting it and   *)
(* making it anew, with no more users under the prefix than the spec asks  *)
(* for.  They are the users of the spec, whatever earlier spec the secret  *)
(* was made for, unless a command failed or the count was right by         *)
(* accident.                                                               *)
PassSettlesSecret ==
  ended = "installed" /\ ~blind =>
    LET users == Under(secret, workshop.prefix)
    IN  /\ secret # NoSecret
        /\ users = {} \/ Cardinality(users) <= workshop.number
        /\ garbled \/ users = Wanted(workshop)

(* A teardown that returns no error, and saw the cluster as it was, leaves *)
(* no object of any user behind, not even of a prefix no longer used.      *)
RemovalSettles ==
  ended = "removed" /\ ~blind => secret = NoSecret /\ \A u \in Name : have[u] = {}

(* The users there are to be when the pass is through.                     *)
Sought == IF workshop.deleting THEN {} ELSE Wanted(workshop)

Doing == IF pc = "idle" THEN "rest" ELSE IF workshop.deleting THEN "remove" ELSE "install"

Roster == INSTANCE UserRoster
            WITH Users <- Name, Parts <- Objects, NoLogins <- NoSecret,
                 doing <- Doing, aim <- Sought, logins <- secret, trusted <- ~blind /\ ~garbled,
                 outcome <- ended

(* The phase, call by call, keeps what UserRoster promises: no pass takes  *)
(* an object from a user its spec names, or gives one to another user, by  *)
(* whatever lists, however it is cut off and however it replaces the       *)
(* secret.                                                                 *)
KeepsRoster == Roster!Spec

(* Once the Workshop is left alone the passes come to an end, unless a     *)
(* user was left half made: deleting one fails for good at the first       *)
(* object it has not got, in every pass.                                   *)
EventuallySettles ==
  \/ <>[](pc = "idle" /\ ~due)
  \/ <>[](interrupted # {})
=============================================================================
