------------------------------- MODULE UserRoster -------------------------------
(***************************************************************************)
(* What the user phase promises about the accounts of a workshop.  A pass  *)
(* has an aim, the users its spec names, or none in a teardown, and only   *)
(* ever moves towards it: it takes nothing away from a user it is to keep, *)
(* and gives nothing to one it is to remove, whatever it has read.  It     *)
(* replaces the logins by logins of its aim, all of them or some.  Unless  *)
(* it was misled or left some out it ends well only where it was going,    *)
(* and where it fails it stops.                                            *)
(***************************************************************************)
CONSTANTS
  Users,    \* all there may be
  Parts,    \* what an account is made of
  NoLogins  \* there is no list of those who may log in

VARIABLES
  doing,    \* what the worker does
  aim,      \* the users it is to leave
  have,     \* have[u]: the parts of u's account that there are
  logins,   \* the users who may log in, or NoLogins
  trusted,  \* the pass has read nothing that was not so, and done all it set out to
  outcome   \* how the last pass ended

vars == <<doing, aim, have, logins, trusted, outcome>>

Init ==
  /\ doing = "rest"
  /\ aim = {}
  /\ have = [u \in Users |-> {}]
  /\ logins = NoLogins
  /\ trusted = TRUE
  /\ outcome = "nothing"

(* A pass begins, for whatever spec there is now.                          *)
Begin ==
  /\ doing = "rest"
  /\ \/ doing' = "install" /\ aim' \in SUBSET Users
     \/ doing' = "remove" /\ aim' = {}
  /\ trusted' = TRUE /\ outcome' = "nothing"
  /\ UNCHANGED <<have, logins>>

Towards ==
  /\ have' \in [Users -> SUBSET Parts]
  /\ \A u \in aim : have[u] \subseteq have'[u]
  /\ \A u \in Users \ aim : have'[u] \subseteq have[u]

(* An old list of logins goes before the new one comes.                    *)
LoginsTowards ==
  logins' \in {logins, NoLogins} \cup (IF doing = "install" THEN SUBSET aim ELSE {})

Move ==
  /\ doing # "rest"
  /\ Towards /\ LoginsTowards
  /\ trusted' \in {trusted, FALSE}
  /\ UNCHANGED <<doing, aim, outcome>>

Reached ==
  /\ {u \in Users : have[u] # {}} = aim
  /\ IF doing = "install" THEN logins # NoLogins /\ aim \subseteq logins ELSE logins = NoLogins

End ==
  /\ doing # "rest"
  /\ trusted => Reached
  /\ doing' = "rest"
  /\ outcome' = IF doing = "install" THEN "installed" ELSE "removed"
  /\ UNCHANGED <<aim, have, logins, trusted>>

(* A call fails, having had its effect or not, or the process dies.        *)
GiveUp ==
  /\ doing # "rest"
  /\ Towards /\ LoginsTowards
  /\ doing' = "rest" /\ outcome' = "failed"
  /\ UNCHANGED <<aim, trusted>>

Next == Begin \/ Move \/ End \/ GiveUp

Spec == Init /\ [][Next]_vars
=============================================================================
