-------------------------- MODULE AccountLifecycle --------------------------
(***************************************************************************)
(* What account administration promises: an account is invited, completes  *)
(* its activation once, and is then switched off and on; one administrator *)
(* at most is active, and an active one is only ever replaced by another.  *)
(* Accounts, with its tokens, sessions, locks and races, refines this.     *)
(***************************************************************************)
CONSTANTS Users, None

VARIABLES state,  \* what the row of each user amounts to
          role    \* users.role, or None

accountVars == <<state, role>>

Roles == {"admin", "member"}     \* reviewers and advisors are members
AccountStates == {"absent", "invited", "active", "inactive"}

ActiveAdmins == {u \in Users : role[u] = "admin" /\ state[u] = "active"}

AccountInit ==
  /\ state = [u \in Users |-> "absent"]
  /\ role = [u \in Users |-> None]

Invite(u, r) ==
  /\ state[u] = "absent"
  /\ state' = [state EXCEPT ![u] = "invited"]
  /\ role' = [role EXCEPT ![u] = r]

(* An administrator who activates beside an active one stays a candidate. *)
CompleteActivation(u) ==
  /\ state[u] = "invited"
  /\ state' = [state EXCEPT ![u] =
                 IF role[u] = "admin" /\ ActiveAdmins # {} THEN "inactive" ELSE "active"]
  /\ UNCHANGED role

SwitchOn(u) ==
  /\ state[u] = "inactive"
  /\ role[u] = "admin" => ActiveAdmins = {}
  /\ state' = [state EXCEPT ![u] = "active"]
  /\ UNCHANGED role

SwitchOff(u) ==
  /\ state[u] = "active"
  /\ role[u] # "admin"
  /\ state' = [state EXCEPT ![u] = "inactive"]
  /\ UNCHANGED role

HandOver(u, v) ==
  /\ role[u] = "admin" /\ state[u] = "active"
  /\ role[v] = "admin" /\ state[v] = "inactive"
  /\ state' = [state EXCEPT ![u] = "inactive", ![v] = "active"]
  /\ UNCHANGED role

AccountNext ==
  \/ \E u \in Users, r \in Roles : Invite(u, r)
  \/ \E u \in Users : CompleteActivation(u) \/ SwitchOn(u) \/ SwitchOff(u)
  \/ \E u, v \in Users : HandOver(u, v)

AccountSpec == AccountInit /\ [][AccountNext]_accountVars
=============================================================================
