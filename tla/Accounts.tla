------------------------------ MODULE Accounts ------------------------------
(***************************************************************************)
(* Accounts, their tokens and their sessions in PostgreSQL                 *)
(* (src/services/userAdmin, accountActivation, passwordReset, auth,        *)
(* initialAdmin, accountEmailTask; src/middlewares/authentication).        *)
(*                                                                         *)
(* A transaction that locks one users row (FOR UPDATE) and writes only it  *)
(* and its sessions is one action, enabled while no other transaction has  *)
(* that row.  The two that also take the advisory lock of the              *)
(* administrator decision, activation of an administrator and the          *)
(* hand-over, are taken apart lock by lock: they take the two kinds of     *)
(* lock in opposite orders.  A request that is refused without an effect   *)
(* is a stuttering step.                                                   *)
(***************************************************************************)
EXTENDS Naturals, FiniteSets

CONSTANTS Users,      \* users.id; rows are locked in this order
          Tokens,     \* values of generateAccountToken
          Sessions,   \* places for logins; one is free again when its session is over
          Ops,        \* activations of administrators and hand-overs
          None

ASSUME AccountAssumption ==
  /\ Users \subseteq Nat
  /\ IsFiniteSet(Tokens)
  /\ None \notin Users \cup Tokens \cup Ops
  /\ None \notin {"admin", "member"}

VARIABLES
  role,         \* users.role, None without a row
  active,       \* is_active
  password,     \* how often a password was set; 0: password_hash and activated_at null
  actToken,     \* activation_token_hash
  resetToken,   \* password_reset_token_hash
  issued,       \* tokens that were mailed
  expired,      \* tokens past their expiry
  uses,         \* operations that each token completed
  acting,       \* users with an authorised admin request in flight
  rowLock,      \* the op holding the row of each user
  adminLock,    \* the op holding the advisory lock 710043
  pc, op,       \* how far each op is, and what it does
  willActivate, \* the answer of hasActiveAdmin, negated
  sess,         \* state of each session
  sessUser, sessPassword,
  overtaken     \* logins that were past their check when the user's sessions were revoked

userVars == <<role, active, password, actToken, resetToken>>
tokenVars == <<issued, expired, uses>>
opVars == <<rowLock, adminLock, pc, op, willActivate>>
sessionVars == <<sess, sessUser, sessPassword, overtaken>>
vars == <<userVars, tokenVars, acting, opVars, sessionVars>>

Roles == {"admin", "member"}     \* reviewers and advisors are members
OpTypes == [kind : {"activate"}, user : Users, token : Tokens]
             \cup [kind : {"transfer"}, from : Users, to : Users]
Running == {"row", "decided", "advised"}

TypeOK ==
  /\ role \in [Users -> Roles \cup {None}]
  /\ active \in [Users -> BOOLEAN]
  /\ password \in [Users -> 0..Cardinality(Tokens)]
  /\ actToken \in [Users -> Tokens \cup {None}]
  /\ resetToken \in [Users -> Tokens \cup {None}]
  /\ issued \subseteq Tokens
  /\ expired \subseteq Tokens
  /\ uses \in [Tokens -> Nat]
  /\ acting \subseteq Users
  /\ rowLock \in [Users -> Ops \cup {None}]
  /\ adminLock \in Ops \cup {None}
  /\ pc \in [Ops -> {"ready", "done"} \cup Running]
  /\ op \in [Ops -> OpTypes \cup {None}]
  /\ willActivate \in [Ops -> BOOLEAN]
  /\ sess \in [Sessions -> {"none", "verified", "open", "expired", "revoked"}]
  /\ sessUser \in [Sessions -> Users \cup {None}]
  /\ sessPassword \in [Sessions -> 0..Cardinality(Tokens)]
  /\ overtaken \subseteq Sessions

Init ==
  /\ role = [u \in Users |-> None]
  /\ active = [u \in Users |-> FALSE]
  /\ password = [u \in Users |-> 0]
  /\ actToken = [u \in Users |-> None]
  /\ resetToken = [u \in Users |-> None]
  /\ issued = {}
  /\ expired = {}
  /\ uses = [t \in Tokens |-> 0]
  /\ acting = {}
  /\ rowLock = [u \in Users |-> None]
  /\ adminLock = None
  /\ pc = [r \in Ops |-> "ready"]
  /\ op = [r \in Ops |-> None]
  /\ willActivate = [r \in Ops |-> FALSE]
  /\ sess = [s \in Sessions |-> "none"]
  /\ sessUser = [s \in Sessions |-> None]
  /\ sessPassword = [s \in Sessions |-> 0]
  /\ overtaken = {}

ActiveAdmin == \E u \in Users : role[u] = "admin" /\ active[u]

Unlocked(u) == role[u] # None /\ rowLock[u] = None

(***************************************************************************)
(* Transactions on one row                                                 *)
(***************************************************************************)

(* createActivationTask and createPasswordResetTask mail a new random      *)
(* token and store its hash in the same transaction.                       *)
Issue(t) ==
  /\ t \notin issued
  /\ issued' = issued \cup {t}
  /\ UNCHANGED <<expired, uses>>

(* createUser and createAdvisor, by an administrator, or createInitialAdmin *)
(* from the command line.                                                  *)
CreateUser(u, r, t) ==
  /\ role[u] = None
  /\ r = "member" => acting # {}
  /\ Issue(t)
  /\ role' = [role EXCEPT ![u] = r]
  /\ actToken' = [actToken EXCEPT ![u] = t]
  /\ UNCHANGED <<active, password, resetToken, acting, opVars, sessionVars>>

(* resendActivation, or createInitialAdmin with its resend flag: the old   *)
(* token is replaced.                                                      *)
ResendActivation(u, t) ==
  /\ Unlocked(u)
  /\ acting # {} \/ role[u] = "admin"
  /\ password[u] = 0
  /\ Issue(t)
  /\ actToken' = [actToken EXCEPT ![u] = t]
  /\ UNCHANGED <<role, active, password, resetToken, acting, opVars, sessionVars>>

(* requestReset, which anybody may call, and sendPasswordReset. *)
RequestReset(u, t) ==
  /\ Unlocked(u)
  /\ password[u] > 0
  /\ Issue(t)
  /\ resetToken' = [resetToken EXCEPT ![u] = t]
  /\ UNCHANGED <<role, active, password, actToken, acting, opVars, sessionVars>>

Spend(t) ==
  /\ uses' = [uses EXCEPT ![t] = @ + 1]
  /\ UNCHANGED <<issued, expired>>

(* activate, for anyone but an administrator. *)
ActivateMember(u, t) ==
  /\ Unlocked(u)
  /\ actToken[u] = t /\ t \notin expired
  /\ role[u] # "admin"
  /\ password' = [password EXCEPT ![u] = 1]
  /\ active' = [active EXCEPT ![u] = TRUE]
  /\ actToken' = [actToken EXCEPT ![u] = None]
  /\ Spend(t)
  /\ UNCHANGED <<role, resetToken, acting, opVars, sessionVars>>

(* revokeUserSessions: the sessions that exist when the UPDATE runs.  A    *)
(* login that has checked the password and not yet inserted its session    *)
(* is not among them.                                                      *)
RevokeSessions(u) ==
  /\ sess' = [s \in Sessions |->
                IF sessUser[s] = u /\ sess[s] \in {"open", "expired"}
                  THEN "revoked" ELSE sess[s]]
  /\ overtaken' = overtaken \cup {s \in Sessions : sessUser[s] = u /\ sess[s] = "verified"}
  /\ UNCHANGED <<sessUser, sessPassword>>

(* Mutant: the token survives the reset it was made for. *)
MutantKeepResetToken(u, t) ==
  /\ Unlocked(u)
  /\ resetToken[u] = t /\ t \notin expired
  /\ password' = [password EXCEPT ![u] = @ + 1]
  /\ Spend(t)
  /\ RevokeSessions(u)
  /\ UNCHANGED <<role, active, actToken, resetToken, acting, opVars>>

ResetPassword(u, t) ==
  /\ Unlocked(u)
  /\ resetToken[u] = t /\ t \notin expired
  /\ password' = [password EXCEPT ![u] = @ + 1]
  /\ resetToken' = [resetToken EXCEPT ![u] = None]
  /\ Spend(t)
  /\ RevokeSessions(u)
  /\ UNCHANGED <<role, active, actToken, acting, opVars>>

(* activateUser; for an administrator the index one_active_admin refuses a *)
(* second active one, whatever the advisory lock says.                     *)
ActivateUser(u) ==
  /\ acting # {}
  /\ Unlocked(u)
  /\ ~active[u]
  /\ password[u] > 0
  /\ role[u] = "admin" => ~ActiveAdmin
  /\ active' = [active EXCEPT ![u] = TRUE]
  /\ UNCHANGED <<role, password, actToken, resetToken, tokenVars, acting, opVars,
                 sessionVars>>

(* Mutant: the account is switched off and its sessions stay. *)
MutantKeepSessions(u) ==
  /\ acting # {}
  /\ Unlocked(u)
  /\ active[u]
  /\ role[u] # "admin"
  /\ active' = [active EXCEPT ![u] = FALSE]
  /\ UNCHANGED <<role, password, actToken, resetToken, tokenVars, acting, opVars, sessionVars>>

DeactivateUser(u) ==
  /\ acting # {}
  /\ Unlocked(u)
  /\ active[u]
  /\ role[u] # "admin"
  /\ active' = [active EXCEPT ![u] = FALSE]
  /\ RevokeSessions(u)
  /\ UNCHANGED <<role, password, actToken, resetToken, tokenVars, acting, opVars>>

(***************************************************************************)
(* The administrator decision                                              *)
(***************************************************************************)

Holds(r) == {u \in Users : rowLock[u] = r}

EndOp(r) ==
  /\ pc' = [pc EXCEPT ![r] = "done"]
  /\ rowLock' = [u \in Users |-> IF rowLock[u] = r THEN None ELSE rowLock[u]]
  /\ adminLock' = IF adminLock = r THEN None ELSE adminLock
  /\ UNCHANGED <<op, willActivate>>

(* activate: the row is found by its token and locked. *)
BeginActivation(r, u, t) ==
  /\ pc[r] = "ready"
  /\ Unlocked(u)
  /\ actToken[u] = t /\ t \notin expired
  /\ role[u] = "admin"
  /\ rowLock' = [rowLock EXCEPT ![u] = r]
  /\ op' = [op EXCEPT ![r] = [kind |-> "activate", user |-> u, token |-> t]]
  /\ pc' = [pc EXCEPT ![r] = "row"]
  /\ UNCHANGED <<userVars, tokenVars, acting, adminLock, willActivate, sessionVars>>

(* lockActiveAdminDecision, then hasActiveAdmin. *)
DecideActivation(r) ==
  /\ pc[r] = "row"
  /\ adminLock = None
  /\ adminLock' = r
  /\ willActivate' = [willActivate EXCEPT ![r] = ~ActiveAdmin]
  /\ pc' = [pc EXCEPT ![r] = "decided"]
  /\ UNCHANGED <<userVars, tokenVars, acting, rowLock, op, sessionVars>>

(* completeActivation and COMMIT; the index one_active_admin would refuse  *)
(* an administrator who became active after hasActiveAdmin looked.         *)
CompleteActivation(r) ==
  LET u == op[r].user
  IN /\ pc[r] = "decided"
     /\ EndOp(r)
     /\ IF willActivate[r] /\ ActiveAdmin
          THEN UNCHANGED <<userVars, tokenVars>>
          ELSE /\ password' = [password EXCEPT ![u] = 1]
               /\ active' = [active EXCEPT ![u] = willActivate[r]]
               /\ actToken' = [actToken EXCEPT ![u] = None]
               /\ Spend(op[r].token)
               /\ UNCHANGED <<role, resetToken>>
     /\ UNCHANGED <<acting, sessionVars>>

(* transferAdmin: the advisory lock first. *)
BeginTransfer(r, from, to) ==
  /\ pc[r] = "ready"
  /\ from \in acting /\ from # to
  /\ adminLock = None
  /\ adminLock' = r
  /\ op' = [op EXCEPT ![r] = [kind |-> "transfer", from |-> from, to |-> to]]
  /\ pc' = [pc EXCEPT ![r] = "advised"]
  /\ UNCHANGED <<userVars, tokenVars, acting, rowLock, willActivate, sessionVars>>

(* findByIdsForUpdate: the rows that exist, in the order of their ids. *)
RowsToLock(r) == {u \in {op[r].from, op[r].to} : role[u] # None /\ rowLock[u] # r}
NextRow(r, u) == u \in RowsToLock(r) /\ \A v \in RowsToLock(r) : u <= v

LockUser(r, u) ==
  /\ pc[r] = "advised"
  /\ NextRow(r, u)
  /\ rowLock[u] = None
  /\ rowLock' = [rowLock EXCEPT ![u] = r]
  /\ UNCHANGED <<userVars, tokenVars, acting, adminLock, pc, op, willActivate, sessionVars>>

(* Mutant: the target of the hand-over need not have completed its account. *)
MutantAnyCandidate(from, to) ==
  /\ role[from] = "admin" /\ active[from]
  /\ role[to] = "admin" /\ ~active[to]

Transferable(from, to) ==
  /\ role[from] = "admin" /\ active[from]
  /\ role[to] = "admin" /\ ~active[to] /\ password[to] > 0

(* Mutant: a hand-over that is not possible is not answered. *)
MutantIgnoreRefusal(r) ==
  LET from == op[r].from
      to == op[r].to
  IN /\ pc[r] = "advised"
     /\ RowsToLock(r) = {}
     /\ Transferable(from, to)
     /\ EndOp(r)
     /\ active' = [active EXCEPT ![from] = FALSE, ![to] = TRUE]
     /\ RevokeSessions(from)
     /\ UNCHANGED <<role, password, actToken, resetToken, tokenVars, acting>>

CompleteTransfer(r) ==
  LET from == op[r].from
      to == op[r].to
  IN /\ pc[r] = "advised"
     /\ RowsToLock(r) = {}
     /\ EndOp(r)
     /\ IF Transferable(from, to)
          THEN /\ active' = [active EXCEPT ![from] = FALSE, ![to] = TRUE]
               /\ RevokeSessions(from)
          ELSE UNCHANGED <<active, sessionVars>>
     /\ UNCHANGED <<role, password, actToken, resetToken, tokenVars, acting>>

(* An error or a crash: ROLLBACK. *)
Abort(r) ==
  /\ pc[r] \in Running
  /\ EndOp(r)
  /\ UNCHANGED <<userVars, tokenVars, acting, sessionVars>>

(* r waits for a lock that q has. *)
WaitsFor(r, q) ==
  \/ pc[r] = "row" /\ adminLock = q
  \/ /\ pc[r] = "advised"
     /\ \E u \in RowsToLock(r) : NextRow(r, u) /\ rowLock[u] = q

(* PostgreSQL's deadlock detector ends one of two transactions that wait    *)
(* for each other.                                                         *)
BreakDeadlock(r) ==
  /\ \E q \in Ops : WaitsFor(r, q) /\ WaitsFor(q, r)
  /\ Abort(r)

(***************************************************************************)
(* Sessions and time                                                       *)
(***************************************************************************)

(* login, the first statement: findByEmail and verifyPassword. *)
VerifyLogin(s, u) ==
  /\ sess[s] \in {"none", "expired", "revoked"}
  /\ active[u] /\ password[u] > 0
  /\ sess' = [sess EXCEPT ![s] = "verified"]
  /\ sessUser' = [sessUser EXCEPT ![s] = u]
  /\ sessPassword' = [sessPassword EXCEPT ![s] = password[u]]
  /\ overtaken' = overtaken \ {s}
  /\ UNCHANGED <<userVars, tokenVars, acting, opVars>>

(* login, the second statement: createSession.  The foreign key makes it   *)
(* wait for a transaction that has the user's row FOR UPDATE.              *)
OpenSession(s) ==
  /\ sess[s] = "verified"
  /\ rowLock[sessUser[s]] = None
  /\ sess' = [sess EXCEPT ![s] = "open"]
  /\ UNCHANGED <<userVars, tokenVars, acting, opVars, sessUser, sessPassword, overtaken>>

(* logout. *)
Logout(s) ==
  /\ sess[s] = "open"
  /\ sess' = [sess EXCEPT ![s] = "revoked"]
  /\ UNCHANGED <<userVars, tokenVars, acting, opVars, sessUser, sessPassword, overtaken>>

(* The session has been idle, or has existed, for too long. *)
ExpireSession(s) ==
  /\ sess[s] = "open"
  /\ sess' = [sess EXCEPT ![s] = "expired"]
  /\ UNCHANGED <<userVars, tokenVars, acting, opVars, sessUser, sessPassword, overtaken>>

(* The expiry of a token matters while a row carries it. *)
ExpireToken(t) ==
  /\ t \notin expired
  /\ \E u \in Users : t \in {actToken[u], resetToken[u]}
  /\ expired' = expired \cup {t}
  /\ UNCHANGED <<userVars, issued, uses, acting, opVars, sessionVars>>

(* authenticateSession and requirePermission let an administrator's        *)
(* request through; from then on only transferAdmin looks at the actor.    *)
(* How many requests an actor has in flight is left open.                  *)
Authorise(s) ==
  /\ sess[s] = "open"
  /\ active[sessUser[s]] /\ role[sessUser[s]] = "admin"
  /\ acting' = acting \cup {sessUser[s]}
  /\ UNCHANGED <<userVars, tokenVars, opVars, sessionVars>>

RequestDone(u) ==
  /\ u \in acting
  /\ acting' = acting \ {u}
  /\ UNCHANGED <<userVars, tokenVars, opVars, sessionVars>>

(***************************************************************************)

UserStep(u) ==
  \/ \E r \in Roles, t \in Tokens : CreateUser(u, r, t)
  \/ \E t \in Tokens : ResendActivation(u, t)
  \/ \E t \in Tokens : RequestReset(u, t)
  \/ \E t \in Tokens : ActivateMember(u, t)
  \/ \E t \in Tokens : ResetPassword(u, t)
  \/ ActivateUser(u)
  \/ DeactivateUser(u)

OpBegins(r) ==
  \/ \E u \in Users, t \in Tokens : BeginActivation(r, u, t)
  \/ \E from, to \in Users : BeginTransfer(r, from, to)

OpStep(r) ==
  \/ DecideActivation(r)
  \/ CompleteActivation(r)
  \/ \E u \in Users : LockUser(r, u)
  \/ CompleteTransfer(r)

SessionStep(s) ==
  \/ \E u \in Users : VerifyLogin(s, u)
  \/ OpenSession(s)
  \/ Logout(s)
  \/ ExpireSession(s)
  \/ Authorise(s)

Next ==
  \/ \E u \in Users : UserStep(u)
  \/ \E r \in Ops : OpBegins(r)
  \/ \E r \in Ops : OpStep(r)
  \/ \E r \in Ops : Abort(r)
  \/ \E s \in Sessions : SessionStep(s)
  \/ \E t \in Tokens : ExpireToken(t)
  \/ \E u \in Users : RequestDone(u)

Spec == Init /\ [][Next]_vars

(* A transaction that has begun goes on, and PostgreSQL ends deadlocks. *)
FairSpec ==
  Spec /\ \A r \in Ops : WF_vars(OpStep(r)) /\ WF_vars(BreakDeadlock(r))

(***************************************************************************)
(* Properties                                                              *)
(***************************************************************************)

(* The columns of a row agree: an active account has a password, only an   *)
(* account without one can be activated by token, only one with a password *)
(* can be reset, and no two rows answer to the same token.                 *)
CredentialsConsistent ==
  /\ \A u \in Users :
       /\ active[u] => password[u] > 0
       /\ actToken[u] # None => role[u] # None /\ password[u] = 0
       /\ resetToken[u] # None => password[u] > 0
  /\ \A u, v \in Users : \A t \in Tokens :
       t \in {actToken[u], resetToken[u]} /\ t \in {actToken[v], resetToken[v]} => u = v

(* A token completes one operation at most, however often its link is      *)
(* submitted and whatever was mailed in between, and no row still carries  *)
(* a token that was used.                                                  *)
TokensSpentOnce ==
  \A t \in Tokens :
    /\ uses[t] <= 1
    /\ uses[t] = 1 => \A u \in Users : t # actToken[u] /\ t # resetToken[u]

(* An open session belongs to an active account and was opened with its    *)
(* current password, unless its login was already past the password check  *)
(* when the account's sessions were revoked.                               *)
SessionsFollowRevocations ==
  \A s \in Sessions : sess[s] = "open" =>
    \/ s \in overtaken
    \/ active[sessUser[s]] /\ sessPassword[s] = password[sessUser[s]]

(* Passwords, tokens and sessions agree with each other.                   *)
AccessConsistent == CredentialsConsistent /\ TokensSpentOnce /\ SessionsFollowRevocations

(* Accounts implement their lifecycle, in which at most one administrator  *)
(* is active; here activateUser does not take the lock under which the     *)
(* activation looks for one.                                               *)
AccountState ==
  [u \in Users |-> CASE role[u] = None   -> "absent"
                     [] role[u] # None /\ password[u] = 0 -> "invited"
                     [] password[u] > 0 /\ active[u]  -> "active"
                     [] password[u] > 0 /\ ~active[u] -> "inactive"]

Lifecycle == INSTANCE AccountLifecycle WITH state <- AccountState

ImplementsAccounts == Lifecycle!AccountSpec

(* Every activation and hand-over that has begun ends: the lock orders of  *)
(* the two cross, and the deadlock detector is enough to part them.        *)
OperationsEnd == \A r \in Ops : pc[r] \in Running ~> pc[r] = "done"
=============================================================================
