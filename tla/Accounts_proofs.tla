--------------------------- MODULE Accounts_proofs ---------------------------
(***************************************************************************)
(* For any users, tokens, logins and administrator decisions: the          *)
(* inductive invariant of accounts, and that they implement their          *)
(* lifecycle.                                                              *)
(*                                                                         *)
(* That passwords, tokens and sessions agree is not inductive alone.  A    *)
(* token a row carries or an operation has used was mailed before          *)
(* (Mailed); an activation that has locked its row still finds its token   *)
(* there, and there is still an administrator when it saw one (Deciding);  *)
(* and a login past its check is as good as an open session (Logins).      *)
(***************************************************************************)
EXTENDS Accounts, FiniteSetTheorems, TLAPS

USE AccountAssumption

Spent == {t \in Tokens : uses[t] = 1}

Carries(u, t) == t = actToken[u] \/ t = resetToken[u]

(* A row that is not there is empty, a password is set with a token, and   *)
(* the columns of a row agree.                                             *)
AccountOK(u) ==
  /\ role[u] = None => password[u] = 0
  /\ active[u] => password[u] > 0
  /\ actToken[u] # None => role[u] # None /\ password[u] = 0
  /\ resetToken[u] # None => password[u] > 0
  /\ password[u] <= Cardinality(Spent)

Rows == \A u \in Users : AccountOK(u)

Mailed ==
  /\ \A u \in Users, t \in Tokens : Carries(u, t) => t \in issued
  /\ \A t \in Tokens : uses[t] > 0 => t \in issued

OneCarrier ==
  \A u, v \in Users : \A t \in Tokens : Carries(u, t) /\ Carries(v, t) => u = v

Activations == [kind : {"activate"}, user : Users, token : Tokens]
Transfers == [kind : {"transfer"}, from : Users, to : Users]

(* An activation that has locked its row finds it as it was, and an active *)
(* administrator it has seen is only replaced by another.                  *)
DecisionOK(r) ==
  /\ pc[r] \in {"row", "decided"} =>
       /\ op[r] \in Activations
       /\ rowLock[op[r].user] = r
       /\ role[op[r].user] = "admin"
       /\ actToken[op[r].user] = op[r].token
  /\ pc[r] = "decided" /\ ~willActivate[r] => ActiveAdmin
  /\ pc[r] = "advised" => op[r] \in Transfers

Deciding == \A r \in Ops : DecisionOK(r)

LoginOK(s) ==
  /\ sess[s] # "none" => sessUser[s] \in Users
  /\ sess[s] \in {"verified", "open"} /\ s \notin overtaken =>
       active[sessUser[s]] /\ sessPassword[s] = password[sessUser[s]]

Logins == \A s \in Sessions : LoginOK(s)

IInv ==
  /\ TypeOK
  /\ Rows
  /\ Mailed
  /\ OneCarrier
  /\ TokensSpentOnce
  /\ Deciding
  /\ Logins

LEMMA Consistent == IInv => AccessConsistent
BY DEF IInv, TypeOK, Rows, AccountOK, OneCarrier, Carries, Logins, LoginOK, AccessConsistent,
       CredentialsConsistent, SessionsFollowRevocations

LEMMA InitInv == Init => IInv
<1> SUFFICES ASSUME Init PROVE IInv
  OBVIOUS
<1>1. Cardinality(Tokens) \in Nat /\ Cardinality(Spent) \in Nat
  BY FS_CardinalityType, FS_Subset, IsFiniteSet(Tokens), Spent \subseteq Tokens DEF Spent
<1>2. TypeOK
  BY <1>1 DEF Init, TypeOK, Running
<1>3. Rows /\ Mailed /\ OneCarrier /\ TokensSpentOnce
  BY <1>1 DEF Init, Rows, AccountOK, Mailed, OneCarrier, Carries, TokensSpentOnce
<1>4. Deciding /\ Logins
  BY DEF Init, Deciding, DecisionOK, Logins, LoginOK
<1> QED BY <1>2, <1>3, <1>4 DEF IInv

(***************************************************************************)
(* Passwords and tokens                                                    *)
(***************************************************************************)

LEMMA Counted ==
  /\ Cardinality(Tokens) \in Nat /\ Cardinality(Spent) \in Nat
  /\ Cardinality(Spent) <= Cardinality(Tokens)
BY FS_CardinalityType, FS_Subset, IsFiniteSet(Tokens), Spent \subseteq Tokens DEF Spent

(* A token that a row carries has not completed anything, and is counted   *)
(* when it does.                                                           *)
LEMMA Spending ==
  ASSUME TypeOK, TokensSpentOnce, NEW u \in Users, NEW t \in Tokens, Carries(u, t), Spend(t)
  PROVE  /\ uses[t] = 0
         /\ uses' = [uses EXCEPT ![t] = 1]
         /\ Cardinality(Spent') = Cardinality(Spent) + 1
         /\ Cardinality(Spent') \in Nat /\ Cardinality(Spent') <= Cardinality(Tokens)
<1>1. uses[t] = 0
  BY DEF TypeOK, TokensSpentOnce, Carries
<1>2. uses' = [uses EXCEPT ![t] = 1]
  BY <1>1 DEF TypeOK, Spend
<1>3. Spent' = Spent \cup {t} /\ t \notin Spent
  BY <1>1, <1>2 DEF TypeOK, Spent
<1>4. IsFiniteSet(Spent)
  BY FS_Subset, IsFiniteSet(Tokens), Spent \subseteq Tokens DEF Spent
<1>5. Cardinality(Spent') = Cardinality(Spent) + 1
  BY <1>3, <1>4, FS_AddElement
<1>6. Spent' \subseteq Tokens
  BY DEF Spent
<1>7. Cardinality(Spent') \in Nat /\ Cardinality(Spent') <= Cardinality(Tokens)
  BY <1>6, FS_CardinalityType, FS_Subset, IsFiniteSet(Tokens)
<1> QED BY <1>1, <1>2, <1>5, <1>7

(* No more passwords are set than tokens were used. *)
LEMMA PasswordSet ==
  ASSUME IInv, NEW u \in Users, NEW t \in Tokens, Carries(u, t), Spend(t),
         NEW n \in Nat, n <= password[u] + 1, password' = [password EXCEPT ![u] = n]
  PROVE  /\ password' \in [Users -> 0..Cardinality(Tokens)]
         /\ \A v \in Users : password'[v] <= Cardinality(Spent')
         /\ uses' \in [Tokens -> Nat]
<1>1. \A v \in Users : password[v] \in Nat /\ password[v] <= Cardinality(Spent)
  BY Counted DEF IInv, TypeOK, Rows, AccountOK
<1>2. /\ uses' = [uses EXCEPT ![t] = 1]
      /\ Cardinality(Spent') = Cardinality(Spent) + 1
      /\ Cardinality(Spent') \in Nat /\ Cardinality(Spent') <= Cardinality(Tokens)
  BY Spending DEF IInv
<1>3. \A v \in Users : password'[v] \in Nat /\ password'[v] <= Cardinality(Spent')
  BY <1>1, <1>2, Counted DEF IInv, TypeOK
<1> QED BY <1>2, <1>3, Counted DEF IInv, TypeOK

(* The token of an activation that has decided is the one its row carries. *)
LEMMA Completing ==
  ASSUME IInv, NEW r \in Ops, pc[r] \in {"row", "decided"}
  PROVE  /\ op[r].user \in Users /\ op[r].token \in Tokens
         /\ Carries(op[r].user, op[r].token)
         /\ actToken[op[r].user] = op[r].token
         /\ password[op[r].user] = 0 /\ ~active[op[r].user]
         /\ resetToken[op[r].user] = None
         /\ role[op[r].user] = "admin" /\ rowLock[op[r].user] = r
<1>1. /\ op[r] \in Activations
      /\ rowLock[op[r].user] = r
      /\ role[op[r].user] = "admin"
      /\ actToken[op[r].user] = op[r].token
  BY DEF IInv, Deciding, DecisionOK
<1>2. op[r].user \in Users /\ op[r].token \in Tokens
  BY <1>1 DEF Activations
<1>3. AccountOK(op[r].user) /\ resetToken[op[r].user] \in Tokens \cup {None}
      /\ active[op[r].user] \in BOOLEAN
  BY <1>2 DEF IInv, Rows, TypeOK
<1> QED BY <1>1, <1>2, <1>3 DEF AccountOK, Carries

LEMMA TypeInv ==
  ASSUME IInv, [Next]_vars
  PROVE  TypeOK'
<1> USE DEF IInv, TypeOK, Running, Roles, OpTypes, userVars, tokenVars, opVars, sessionVars
<1>1. ASSUME NEW u \in Users, NEW r \in Roles, NEW t \in Tokens, CreateUser(u, r, t)
      PROVE  TypeOK'
  BY <1>1 DEF CreateUser, Issue
<1>2. ASSUME NEW u \in Users, NEW t \in Tokens, ResendActivation(u, t) \/ RequestReset(u, t)
      PROVE  TypeOK'
  <2>1. CASE ResendActivation(u, t)
    BY <2>1 DEF ResendActivation, Issue
  <2>2. CASE RequestReset(u, t)
    BY <2>2 DEF RequestReset, Issue
  <2> QED BY <1>2, <2>1, <2>2
<1>3. ASSUME NEW u \in Users, NEW t \in Tokens, ActivateMember(u, t)
      PROVE  TypeOK'
  <2>1. Carries(u, t) /\ 1 <= password[u] + 1
    <3>1. Cardinality(Tokens) \in Nat /\ password[u] \in 0..Cardinality(Tokens)
      BY Counted
    <3>2. Carries(u, t)
      BY <1>3 DEF ActivateMember, Carries
    <3> QED BY <3>1, <3>2
  <2>2. password' \in [Users -> 0..Cardinality(Tokens)] /\ uses' \in [Tokens -> Nat]
    BY <1>3, <2>1, PasswordSet DEF ActivateMember
  <2> QED BY <1>3, <2>2 DEF ActivateMember, Spend
<1>4. ASSUME NEW u \in Users, NEW t \in Tokens, ResetPassword(u, t)
      PROVE  TypeOK'
  <2>1. Carries(u, t) /\ password[u] + 1 \in Nat
    <3>1. Cardinality(Tokens) \in Nat /\ password[u] \in 0..Cardinality(Tokens)
      BY Counted
    <3>2. Carries(u, t)
      BY <1>4 DEF ResetPassword, Carries
    <3> QED BY <3>1, <3>2
  <2>2. password' \in [Users -> 0..Cardinality(Tokens)] /\ uses' \in [Tokens -> Nat]
    <3>1. password' = [password EXCEPT ![u] = password[u] + 1] /\ Spend(t)
      BY <1>4 DEF ResetPassword
    <3>2. password[u] + 1 <= password[u] + 1
      BY <2>1
    <3> HIDE DEF IInv, TypeOK
    <3> QED BY <2>1, <3>1, <3>2, PasswordSet
  <2> QED BY <1>4, <2>2 DEF ResetPassword, Spend, RevokeSessions
<1>5. ASSUME NEW u \in Users, ActivateUser(u) \/ DeactivateUser(u)
      PROVE  TypeOK'
  <2>1. CASE ActivateUser(u)
    BY <2>1 DEF ActivateUser
  <2>2. CASE DeactivateUser(u)
    BY <2>2 DEF DeactivateUser, RevokeSessions
  <2> QED BY <1>5, <2>1, <2>2
<1>6. ASSUME NEW r \in Ops, OpBegins(r)
      PROVE  TypeOK'
  <2>1. ASSUME NEW u \in Users, NEW t \in Tokens, BeginActivation(r, u, t)
        PROVE  TypeOK'
    BY <2>1 DEF BeginActivation
  <2>2. ASSUME NEW from \in Users, NEW to \in Users, BeginTransfer(r, from, to)
        PROVE  TypeOK'
    BY <2>2 DEF BeginTransfer
  <2> QED BY <1>6, <2>1, <2>2 DEF OpBegins
<1>7. ASSUME NEW r \in Ops, DecideActivation(r) \/ (\E u \in Users : LockUser(r, u))
      PROVE  TypeOK'
  <2>1. CASE DecideActivation(r)
    BY <2>1 DEF DecideActivation
  <2>2. CASE \E u \in Users : LockUser(r, u)
    BY <2>2 DEF LockUser
  <2> QED BY <1>7, <2>1, <2>2
<1>8. ASSUME NEW r \in Ops, EndOp(r)
      PROVE  /\ rowLock' \in [Users -> Ops \cup {None}] /\ adminLock' \in Ops \cup {None}
             /\ pc' \in [Ops -> {"ready", "done"} \cup Running]
             /\ op' \in [Ops -> OpTypes \cup {None}] /\ willActivate' \in [Ops -> BOOLEAN]
  BY <1>8 DEF EndOp
<1>9. ASSUME NEW r \in Ops, CompleteActivation(r)
      PROVE  TypeOK'
  <2>1. /\ op[r].user \in Users /\ op[r].token \in Tokens
        /\ Carries(op[r].user, op[r].token) /\ 1 <= password[op[r].user] + 1
    BY <1>9, Completing DEF CompleteActivation
  <2>2. CASE willActivate[r] /\ ActiveAdmin
    BY <1>8, <1>9, <2>2 DEF CompleteActivation
  <2>3. CASE ~(willActivate[r] /\ ActiveAdmin)
    <3>1. password' = [password EXCEPT ![op[r].user] = 1] /\ Spend(op[r].token)
      BY <1>9, <2>3 DEF CompleteActivation
    <3>2. password' \in [Users -> 0..Cardinality(Tokens)] /\ uses' \in [Tokens -> Nat]
      BY <2>1, <3>1, PasswordSet
    <3> QED BY <1>8, <1>9, <2>1, <2>3, <3>2, SMTT(30) DEF CompleteActivation, Spend
  <2> QED BY <2>2, <2>3
<1>10. ASSUME NEW r \in Ops, CompleteTransfer(r)
       PROVE  TypeOK'
  <2>1. CASE Transferable(op[r].from, op[r].to)
    <3>1. active' \in [Users -> BOOLEAN]
      BY <1>10, <2>1 DEF CompleteTransfer
    <3>2. sess' \in [Sessions -> {"none", "verified", "open", "expired", "revoked"}]
      BY <1>10, <2>1 DEF CompleteTransfer, RevokeSessions
    <3>3. overtaken' \subseteq Sessions /\ UNCHANGED <<sessUser, sessPassword>>
      BY <1>10, <2>1 DEF CompleteTransfer, RevokeSessions
    <3> QED BY <1>8, <1>10, <3>1, <3>2, <3>3 DEF CompleteTransfer
  <2>2. CASE ~Transferable(op[r].from, op[r].to)
    BY <1>8, <1>10, <2>2 DEF CompleteTransfer
  <2> QED BY <2>1, <2>2
<1>11. ASSUME NEW r \in Ops, Abort(r)
       PROVE  TypeOK'
  BY <1>8, <1>11 DEF Abort
<1>12. ASSUME NEW s \in Sessions, SessionStep(s)
       PROVE  TypeOK'
  <2>1. ASSUME NEW u \in Users, VerifyLogin(s, u)
        PROVE  TypeOK'
    BY <2>1 DEF VerifyLogin
  <2>2. CASE OpenSession(s)
    BY <2>2 DEF OpenSession
  <2>3. CASE Logout(s) \/ ExpireSession(s)
    BY <2>3, ZenonT(40) DEF Logout, ExpireSession
  <2>4. CASE Authorise(s)
    <3>1. sess[s] = "open" /\ acting' = acting \cup {sessUser[s]}
      BY <2>4 DEF Authorise
    <3>2. sessUser[s] \in Users
      BY <3>1 DEF Logins, LoginOK
    <3>3. acting' \subseteq Users
      BY <3>1, <3>2
    <3> QED BY <2>4, <3>3 DEF Authorise
  <2> QED BY <1>12, <2>1, <2>2, <2>3, <2>4 DEF SessionStep
<1>13. ASSUME \/ \E t \in Tokens : ExpireToken(t)
              \/ \E u \in Users : RequestDone(u)
              \/ UNCHANGED vars
       PROVE  TypeOK'
  BY <1>13, ZenonT(40) DEF ExpireToken, RequestDone, vars
<1> QED BY <1>1, <1>2, <1>3, <1>4, <1>5, <1>6, <1>7, <1>9, <1>10, <1>11, <1>12, <1>13
        DEF Next, UserStep, OpStep

Credentials == Rows /\ Mailed /\ OneCarrier /\ TokensSpentOnce

(* Switching accounts on and off leaves tokens and passwords as they are. *)
LEMMA TokensUntouched ==
  ASSUME IInv, UNCHANGED <<role, password, actToken, resetToken, issued, uses>>,
         \A u \in Users : active'[u] => password[u] > 0
  PROVE  Credentials'
<1>1. Spent' = Spent
  BY DEF Spent
<1>2. Rows'
  BY <1>1 DEF IInv, Rows, AccountOK
<1>3. Mailed' /\ OneCarrier' /\ TokensSpentOnce'
  BY DEF IInv, Mailed, OneCarrier, TokensSpentOnce, Carries
<1> QED BY <1>2, <1>3 DEF Credentials

(* A token that was not mailed before belongs to nobody else. *)
LEMMA Issuing ==
  ASSUME IInv, NEW u \in Users, NEW t \in Tokens, Issue(t),
         UNCHANGED <<active, password>>,
         \A v \in Users : v # u => /\ role'[v] = role[v]
                                   /\ actToken'[v] = actToken[v]
                                   /\ resetToken'[v] = resetToken[v],
         actToken'[u] \in {actToken[u], t}, resetToken'[u] \in {resetToken[u], t},
         role'[u] # None,
         actToken'[u] # actToken[u] => password[u] = 0,
         resetToken'[u] # resetToken[u] => password[u] > 0
  PROVE  Credentials'
<1>1. Spent' = Spent
  BY DEF Spent, Issue
<1>2. ASSUME NEW v \in Users
      PROVE  AccountOK(v)'
  <2>1. AccountOK(v) /\ t # None
    BY <1>2 DEF IInv, Rows
  <2>2. CASE v = u
    BY <1>1, <2>1, <2>2 DEF AccountOK
  <2>3. CASE v # u
    BY <1>1, <2>1, <2>3 DEF AccountOK
  <2> QED BY <2>2, <2>3
<1>3. \A v \in Users, x \in Tokens : Carries(v, x)' => Carries(v, x) \/ (v = u /\ x = t)
  BY DEF Carries
<1>4. issued' = issued \cup {t} /\ uses' = uses /\ t \notin issued
  BY DEF Issue
<1>5. Mailed'
  BY <1>3, <1>4 DEF IInv, Mailed
<1>6. OneCarrier'
  BY <1>3, <1>4 DEF IInv, Mailed, OneCarrier
<1>7. uses[t] # 1
  BY <1>4 DEF IInv, Mailed
<1>8. TokensSpentOnce'
  <2>1. \A x \in Tokens : uses[x] <= 1 /\ (uses[x] = 1 => \A v \in Users : ~Carries(v, x))
    BY DEF IInv, TokensSpentOnce, Carries
  <2>2. \A x \in Tokens : uses'[x] = 1 => \A v \in Users : ~Carries(v, x)'
    BY <1>3, <1>4, <1>7, <2>1
  <2>3. \A x \in Tokens, v \in Users : ~Carries(v, x)' => x # actToken'[v] /\ x # resetToken'[v]
    BY DEF Carries
  <2> QED BY <1>4, <2>1, <2>2, <2>3 DEF TokensSpentOnce
<1> QED BY <1>2, <1>5, <1>6, <1>8 DEF Credentials, Rows

(* A token that is used is nowhere afterwards. *)
LEMMA Using ==
  ASSUME IInv, NEW u \in Users, NEW t \in Tokens, Carries(u, t), Spend(t), UNCHANGED role,
         NEW n \in Nat \ {0}, n <= password[u] + 1, password' = [password EXCEPT ![u] = n],
         \A v \in Users : v # u => /\ active'[v] = active[v]
                                   /\ actToken'[v] = actToken[v]
                                   /\ resetToken'[v] = resetToken[v],
         actToken'[u] = None, resetToken'[u] \in {None, resetToken[u]},
         t # resetToken'[u]
  PROVE  Credentials'
<1>1. /\ uses[t] = 0 /\ uses' = [uses EXCEPT ![t] = 1]
      /\ \A v \in Users : password'[v] <= Cardinality(Spent')
  BY Spending, PasswordSet DEF IInv
<1>2. \A v \in Users : v # u => password'[v] = password[v]
  BY DEF IInv, TypeOK
<1>3. password'[u] = n
  BY DEF IInv, TypeOK
<1>4. ASSUME NEW v \in Users
      PROVE  AccountOK(v)'
  <2>1. AccountOK(v)
    BY <1>4 DEF IInv, Rows
  <2>2. CASE v = u
    <3>1. role[u] # None
      BY <2>1, <2>2 DEF AccountOK, Carries
    <3> QED BY <1>1, <1>3, <2>1, <2>2, <3>1 DEF AccountOK
  <2>3. CASE v # u
    BY <1>1, <1>2, <2>1, <2>3 DEF AccountOK
  <2> QED BY <2>2, <2>3
<1>5. \A v \in Users, x \in Tokens : Carries(v, x)' => Carries(v, x) /\ ~(v = u /\ x = t)
  BY DEF Carries
<1>6. issued' = issued
  BY DEF Spend
<1>7. Mailed'
  <2>1. t \in issued
    BY DEF IInv, Mailed
  <2> QED BY <1>1, <1>5, <1>6, <2>1 DEF IInv, Mailed, TypeOK
<1>8. OneCarrier'
  BY <1>5 DEF IInv, OneCarrier
<1>9. TokensSpentOnce'
  <2>1. \A x \in Tokens : uses[x] <= 1 /\ (uses[x] = 1 => \A v \in Users : ~Carries(v, x))
    BY DEF IInv, TokensSpentOnce, Carries
  <2>2. \A v \in Users : ~Carries(v, t)'
    BY <1>5 DEF IInv, OneCarrier
  <2>3. \A x \in Tokens : /\ uses'[x] <= 1
                          /\ uses'[x] = 1 => \A v \in Users : ~Carries(v, x)'
    BY <1>1, <1>5, <2>1, <2>2 DEF IInv, TypeOK
  <2>4. \A x \in Tokens, v \in Users : ~Carries(v, x)' => x # actToken'[v] /\ x # resetToken'[v]
    BY DEF Carries
  <2> QED BY <2>3, <2>4 DEF TokensSpentOnce
<1> QED BY <1>4, <1>7, <1>8, <1>9 DEF Credentials, Rows

LEMMA CredentialsInv ==
  ASSUME IInv, [Next]_vars
  PROVE  Credentials'
<1>0. \A u \in Users : AccountOK(u)
  BY DEF IInv, Rows
<1>1. ASSUME NEW u \in Users, NEW r \in Roles, NEW t \in Tokens, CreateUser(u, r, t)
      PROVE  Credentials'
  <2>1. password[u] = 0 /\ r # None
    BY <1>0, <1>1 DEF AccountOK, CreateUser, Roles
  <2> QED BY <1>1, <2>1, Issuing DEF CreateUser, IInv, TypeOK
<1>2. ASSUME NEW u \in Users, NEW t \in Tokens, ResendActivation(u, t)
      PROVE  Credentials'
  BY <1>2, Issuing DEF ResendActivation, Unlocked, IInv, TypeOK
<1>3. ASSUME NEW u \in Users, NEW t \in Tokens, RequestReset(u, t)
      PROVE  Credentials'
  BY <1>3, Issuing DEF RequestReset, Unlocked, IInv, TypeOK
<1>4. ASSUME NEW u \in Users, NEW t \in Tokens, ActivateMember(u, t)
      PROVE  Credentials'
  <2>1. Carries(u, t) /\ resetToken[u] = None /\ password[u] = 0
    BY <1>0, <1>4 DEF ActivateMember, AccountOK, Carries, IInv, TypeOK
  <2>2. /\ t # None
        /\ password' = [password EXCEPT ![u] = 1] /\ active' = [active EXCEPT ![u] = TRUE]
        /\ actToken' = [actToken EXCEPT ![u] = None]
        /\ Spend(t) /\ UNCHANGED <<role, resetToken>>
    BY <1>4 DEF ActivateMember
  <2>3. \A v \in Users : v # u => active'[v] = active[v] /\ actToken'[v] = actToken[v]
    BY <2>2 DEF IInv, TypeOK
  <2>4. actToken'[u] = None
    BY <2>2 DEF IInv, TypeOK
  <2>5. 1 \in Nat \ {0} /\ 1 <= password[u] + 1
    BY <2>1
  <2>6. t # resetToken'[u] /\ resetToken'[u] \in {None, resetToken[u]}
    BY <2>1, <2>2
  <2> QED BY <2>1, <2>2, <2>3, <2>4, <2>5, <2>6, Using
<1>5. ASSUME NEW u \in Users, NEW t \in Tokens, ResetPassword(u, t)
      PROVE  Credentials'
  <2>1. Carries(u, t) /\ actToken[u] = None
    <3>1. resetToken[u] = t /\ t # None
      BY <1>5 DEF ResetPassword
    <3>2. AccountOK(u)
      BY <1>0
    <3> QED BY <3>1, <3>2 DEF AccountOK, Carries
  <2>2. password[u] \in Nat
    BY Counted DEF IInv, TypeOK
  <2>3. /\ t # None
        /\ password' = [password EXCEPT ![u] = password[u] + 1]
        /\ resetToken' = [resetToken EXCEPT ![u] = None]
        /\ Spend(t) /\ UNCHANGED <<role, active, actToken>>
    BY <1>5 DEF ResetPassword
  <2>4. \A v \in Users : v # u => resetToken'[v] = resetToken[v]
    BY <2>3 DEF IInv, TypeOK
  <2>5. resetToken'[u] = None
    BY <2>3 DEF IInv, TypeOK
  <2>6. password[u] + 1 \in Nat \ {0} /\ password[u] + 1 <= password[u] + 1
    BY <2>2
  <2> QED BY <2>1, <2>3, <2>4, <2>5, <2>6, Using
<1>6. ASSUME NEW u \in Users, ActivateUser(u) \/ DeactivateUser(u)
      PROVE  Credentials'
  BY <1>0, <1>6, TokensUntouched DEF ActivateUser, DeactivateUser, AccountOK, tokenVars,
                                      IInv, TypeOK
<1>7. ASSUME NEW r \in Ops, CompleteActivation(r)
      PROVE  Credentials'
  <2>1. CASE willActivate[r] /\ ActiveAdmin
    BY <1>0, <1>7, <2>1, TokensUntouched DEF CompleteActivation, userVars, tokenVars, AccountOK
  <2>2. CASE ~(willActivate[r] /\ ActiveAdmin)
    <3>1. /\ op[r].user \in Users /\ op[r].token \in Tokens
          /\ Carries(op[r].user, op[r].token)
          /\ password[op[r].user] = 0 /\ resetToken[op[r].user] = None
      BY <1>7, Completing DEF CompleteActivation
    <3>2. /\ password' = [password EXCEPT ![op[r].user] = 1]
          /\ active' = [active EXCEPT ![op[r].user] = willActivate[r]]
          /\ actToken' = [actToken EXCEPT ![op[r].user] = None]
          /\ Spend(op[r].token) /\ UNCHANGED <<role, resetToken>>
      BY <1>7, <2>2 DEF CompleteActivation
    <3>3. \A v \in Users : v # op[r].user => active'[v] = active[v] /\ actToken'[v] = actToken[v]
      BY <3>2 DEF IInv, TypeOK
    <3>4. actToken'[op[r].user] = None /\ op[r].token # None
      BY <3>1, <3>2 DEF IInv, TypeOK
    <3>5. 1 \in Nat \ {0} /\ 1 <= password[op[r].user] + 1
      BY <3>1
    <3>6. /\ op[r].token # resetToken'[op[r].user]
          /\ resetToken'[op[r].user] \in {None, resetToken[op[r].user]}
      BY <3>1, <3>2, <3>4
    <3> QED BY <3>1, <3>2, <3>3, <3>4, <3>5, <3>6, Using, ZenonT(40)
  <2> QED BY <2>1, <2>2
<1>8. ASSUME NEW r \in Ops, CompleteTransfer(r)
      PROVE  Credentials'
  BY <1>0, <1>8, TokensUntouched DEF CompleteTransfer, Transferable, tokenVars, AccountOK,
                                      IInv, TypeOK
<1>9. ASSUME UNCHANGED <<userVars, issued, uses>>
      PROVE  Credentials'
  BY <1>0, <1>9, TokensUntouched DEF userVars, AccountOK
<1>10. ASSUME \/ \E r \in Ops : OpBegins(r) \/ DecideActivation(r) \/ Abort(r)
              \/ \E r \in Ops, u \in Users : LockUser(r, u)
              \/ \E s \in Sessions : SessionStep(s)
              \/ \E t \in Tokens : ExpireToken(t)
              \/ \E u \in Users : RequestDone(u)
              \/ UNCHANGED vars
       PROVE  UNCHANGED <<userVars, issued, uses>>
  BY <1>10 DEF OpBegins, BeginActivation, BeginTransfer, DecideActivation, LockUser, Abort,
               SessionStep, VerifyLogin, OpenSession, Logout, ExpireSession, Authorise,
               ExpireToken, RequestDone, vars, tokenVars
<1> QED BY <1>1, <1>2, <1>3, <1>4, <1>5, <1>6, <1>7, <1>8, <1>9, <1>10
        DEF Next, UserStep, OpStep

(***************************************************************************)
(* The administrator decision                                              *)
(***************************************************************************)

(* An op that has locked the row of its activation keeps finding it as     *)
(* long as nobody touches the rows that others have locked.                *)
LEMMA StillDecided ==
  ASSUME IInv, NEW q \in Ops, pc'[q] = pc[q], op'[q] = op[q],
         willActivate'[q] = willActivate[q],
         ActiveAdmin => ActiveAdmin',
         \A u \in Users : rowLock[u] = q /\ role[u] = "admin" =>
           rowLock'[u] = q /\ role'[u] = "admin" /\ actToken'[u] = actToken[u]
  PROVE  DecisionOK(q)'
<1>1. DecisionOK(q)
  BY DEF IInv, Deciding
<1>2. CASE pc[q] \in {"row", "decided"}
  <2>1. /\ op[q] \in Activations /\ op[q].user \in Users /\ rowLock[op[q].user] = q
        /\ role[op[q].user] = "admin"
    BY <1>1, <1>2 DEF DecisionOK, Activations
  <2> QED BY <1>1, <1>2, <2>1 DEF DecisionOK
<1>3. CASE pc[q] \notin {"row", "decided"}
  BY <1>1, <1>3 DEF DecisionOK
<1> QED BY <1>2, <1>3

(* The others do not notice the end of an op. *)
LEMMA EndsAlone ==
  ASSUME IInv, NEW r \in Ops, EndOp(r), ActiveAdmin => ActiveAdmin',
         \A u \in Users : rowLock[u] \notin {r, None} /\ role[u] = "admin" =>
           role'[u] = "admin" /\ actToken'[u] = actToken[u]
  PROVE  Deciding'
<1>1. DecisionOK(r)'
  BY DEF IInv, TypeOK, EndOp, DecisionOK
<1>2. ASSUME NEW q \in Ops, q # r
      PROVE  DecisionOK(q)'
  <2>1. pc'[q] = pc[q] /\ op'[q] = op[q] /\ willActivate'[q] = willActivate[q]
    BY <1>2 DEF IInv, TypeOK, EndOp
  <2>2. q # None
    BY <1>2
  <2>3. \A u \in Users : rowLock[u] = q /\ role[u] = "admin" =>
           rowLock'[u] = q /\ role'[u] = "admin" /\ actToken'[u] = actToken[u]
    BY <1>2, <2>2 DEF EndOp
  <2> QED BY <2>1, <2>3, StillDecided
<1> QED BY <1>1, <1>2 DEF Deciding

(* An active administrator is never switched off without another one. *)
LEMMA AdminStays ==
  ASSUME IInv, [Next]_vars, ActiveAdmin
  PROVE  ActiveAdmin'
<1>1. PICK a \in Users : role[a] = "admin" /\ active[a]
  BY DEF ActiveAdmin
<1>2. ASSUME NEW u \in Users, UserStep(u)
      PROVE  role'[a] = "admin" /\ active'[a]
  BY <1>1, <1>2 DEF UserStep, CreateUser, ResendActivation, RequestReset, ActivateMember,
                    ResetPassword, ActivateUser, DeactivateUser, IInv, TypeOK
<1>3. ASSUME NEW r \in Ops, CompleteActivation(r)
      PROVE  role'[a] = "admin" /\ active'[a]
  <2>1. op[r].user \in Users /\ ~active[op[r].user] /\ role[op[r].user] = "admin"
    BY <1>3, Completing DEF CompleteActivation
  <2> QED BY <1>1, <1>3, <2>1 DEF CompleteActivation, userVars, IInv, TypeOK
<1>4. ASSUME NEW r \in Ops, CompleteTransfer(r)
      PROVE  ActiveAdmin'
  <2>1. op[r].to \in Users /\ op[r].from \in Users
    BY <1>4 DEF CompleteTransfer, IInv, Deciding, DecisionOK, Transfers
  <2>2. CASE Transferable(op[r].from, op[r].to)
    <3>1. role'[op[r].to] = "admin" /\ active'[op[r].to]
      BY <1>4, <2>1, <2>2 DEF CompleteTransfer, Transferable, IInv, TypeOK
    <3> QED BY <2>1, <3>1 DEF ActiveAdmin
  <2>3. CASE ~Transferable(op[r].from, op[r].to)
    BY <1>4, <2>3 DEF CompleteTransfer, ActiveAdmin
  <2> QED BY <2>2, <2>3
<1>5. ASSUME \/ \E r \in Ops : OpBegins(r) \/ DecideActivation(r) \/ Abort(r)
             \/ \E r \in Ops, u \in Users : LockUser(r, u)
             \/ \E s \in Sessions : SessionStep(s)
             \/ \E t \in Tokens : ExpireToken(t)
             \/ \E u \in Users : RequestDone(u)
             \/ UNCHANGED vars
      PROVE  UNCHANGED userVars
  BY <1>5 DEF OpBegins, BeginActivation, BeginTransfer, DecideActivation, LockUser, Abort,
              SessionStep, VerifyLogin, OpenSession, Logout, ExpireSession, Authorise,
              ExpireToken, RequestDone, vars
<1> QED BY <1>1, <1>2, <1>3, <1>4, <1>5 DEF Next, OpStep, ActiveAdmin, userVars

(* A step on a row, but its creation, needs the lock of the row. *)
LEMMA UserStepsApart ==
  ASSUME IInv, NEW u \in Users, UserStep(u)
  PROVE  /\ UNCHANGED opVars
         /\ \A v \in Users : rowLock[v] # None /\ role[v] = "admin" =>
              rowLock'[v] = rowLock[v] /\ role'[v] = "admin" /\ actToken'[v] = actToken[v]
BY ZenonT(40) DEF UserStep, CreateUser, ResendActivation, RequestReset, ActivateMember, ResetPassword,
       ActivateUser, DeactivateUser, Unlocked, opVars, IInv, TypeOK

LEMMA DecidingInv ==
  ASSUME IInv, [Next]_vars
  PROVE  Deciding'
<1>0. /\ ActiveAdmin => ActiveAdmin'
      /\ \A q \in Ops : q # None
      /\ \A q \in Ops : DecisionOK(q)
  BY AdminStays DEF IInv, Deciding
<1>1. ASSUME NEW u \in Users, UserStep(u)
      PROVE  Deciding'
  BY <1>0, <1>1, UserStepsApart, StillDecided DEF opVars, Deciding
<1>2. ASSUME NEW r \in Ops, NEW u \in Users, NEW t \in Tokens, BeginActivation(r, u, t)
      PROVE  Deciding'
  <2>1. /\ op'[r] = [kind |-> "activate", user |-> u, token |-> t] /\ pc'[r] = "row"
        /\ rowLock'[u] = r /\ rowLock[u] = None
        /\ \A v \in Users \ {u} : rowLock'[v] = rowLock[v]
        /\ \A q \in Ops \ {r} : op'[q] = op[q] /\ pc'[q] = pc[q]
        /\ UNCHANGED <<role, actToken, willActivate>>
        /\ role[u] = "admin" /\ actToken[u] = t
    BY <1>2 DEF BeginActivation, Unlocked, userVars, IInv, TypeOK
  <2>2. DecisionOK(r)'
    BY <2>1 DEF DecisionOK, Activations
  <2> QED BY <1>0, <2>1, <2>2, StillDecided DEF Deciding
<1>3. ASSUME NEW r \in Ops, NEW from \in Users, NEW to \in Users, BeginTransfer(r, from, to)
      PROVE  Deciding'
  <2>1. /\ op'[r] = [kind |-> "transfer", from |-> from, to |-> to] /\ pc'[r] = "advised"
        /\ \A q \in Ops \ {r} : op'[q] = op[q] /\ pc'[q] = pc[q]
        /\ UNCHANGED <<role, actToken, rowLock, willActivate>>
    BY <1>3 DEF BeginTransfer, userVars, IInv, TypeOK
  <2>2. DecisionOK(r)'
    BY <2>1 DEF DecisionOK, Transfers
  <2> QED BY <1>0, <2>1, <2>2, StillDecided DEF Deciding
<1>4. ASSUME NEW r \in Ops, DecideActivation(r)
      PROVE  Deciding'
  <2>1. /\ pc[r] = "row" /\ pc'[r] = "decided" /\ willActivate'[r] = ~ActiveAdmin
        /\ \A q \in Ops \ {r} : willActivate'[q] = willActivate[q] /\ pc'[q] = pc[q]
        /\ UNCHANGED <<role, active, actToken, rowLock, op>>
    BY <1>4 DEF DecideActivation, userVars, IInv, TypeOK
  <2>2. DecisionOK(r)'
    BY <1>0, <2>1 DEF DecisionOK
  <2> QED BY <1>0, <2>1, <2>2, StillDecided DEF Deciding
<1>5. ASSUME NEW r \in Ops, NEW u \in Users, LockUser(r, u)
      PROVE  Deciding'
  <2>1. /\ \A q \in Ops, v \in Users : rowLock[v] = q => rowLock'[v] = q
        /\ UNCHANGED <<role, actToken, op, pc, willActivate>>
    BY <1>0, <1>5 DEF LockUser, userVars, IInv, TypeOK
  <2> QED BY <1>0, <2>1, StillDecided DEF Deciding
<1>6. ASSUME NEW r \in Ops, CompleteActivation(r)
      PROVE  Deciding'
  <2>1. op[r].user \in Users /\ rowLock[op[r].user] = r
    BY <1>6, Completing DEF CompleteActivation
  <2>2. \A v \in Users \ {op[r].user} : actToken'[v] = actToken[v]
    BY <1>6, <2>1 DEF CompleteActivation, userVars, IInv, TypeOK
  <2>3. EndOp(r) /\ UNCHANGED role
    BY <1>6 DEF CompleteActivation, userVars
  <2>4. \A v \in Users : rowLock[v] \notin {r, None} /\ role[v] = "admin" =>
          role'[v] = "admin" /\ actToken'[v] = actToken[v]
    BY <2>1, <2>2, <2>3
  <2> QED BY <1>0, <2>3, <2>4, EndsAlone
<1>7. ASSUME NEW r \in Ops, CompleteTransfer(r) \/ Abort(r)
      PROVE  Deciding'
  <2>1. EndOp(r) /\ UNCHANGED <<role, actToken>>
    BY <1>7 DEF CompleteTransfer, Abort, userVars
  <2> QED BY <1>0, <2>1, EndsAlone
<1>8. ASSUME \/ \E s \in Sessions : SessionStep(s)
             \/ \E t \in Tokens : ExpireToken(t)
             \/ \E u \in Users : RequestDone(u)
             \/ UNCHANGED vars
      PROVE  Deciding'
  <2>1. UNCHANGED <<userVars, opVars>>
    BY <1>8 DEF SessionStep, VerifyLogin, OpenSession, Logout, ExpireSession, Authorise,
                ExpireToken, RequestDone, vars
  <2> QED BY <1>0, <2>1, StillDecided DEF userVars, opVars, Deciding
<1> QED BY <1>1, <1>2, <1>3, <1>4, <1>5, <1>6, <1>7, <1>8 DEF Next, OpBegins, OpStep

(***************************************************************************)
(* The sessions                                                            *)
(***************************************************************************)

(* Whoever is active keeps the account and the password. *)
LEMMA LoginsStay ==
  ASSUME IInv, UNCHANGED <<sess, sessUser, sessPassword, overtaken>>,
         \A u \in Users : active[u] => active'[u] /\ password'[u] = password[u]
  PROVE  Logins'
BY DEF IInv, Logins, LoginOK

(* What revokeUserSessions leaves open belongs to others. *)
LEMMA Revoked ==
  ASSUME IInv, NEW u \in Users, RevokeSessions(u),
         \A v \in Users : v # u /\ active[v] => active'[v] /\ password'[v] = password[v]
  PROVE  Logins'
<1>1. ASSUME NEW s \in Sessions
      PROVE  LoginOK(s)'
  <2>1. LoginOK(s) /\ s \in Sessions
    BY DEF IInv, Logins
  <2>2. /\ sessUser'[s] = sessUser[s] /\ sessPassword'[s] = sessPassword[s]
        /\ sess'[s] = IF sessUser[s] = u /\ sess[s] \in {"open", "expired"}
                        THEN "revoked" ELSE sess[s]
        /\ s \in overtaken' <=> s \in overtaken \/ (sessUser[s] = u /\ sess[s] = "verified")
    BY DEF RevokeSessions
  <2> QED BY <2>1, <2>2 DEF LoginOK
<1> QED BY <1>1 DEF Logins

LEMMA LoginsInv ==
  ASSUME IInv, [Next]_vars
  PROVE  Logins'
<1>0. /\ \A u \in Users : AccountOK(u)
      /\ \A u \in Users : active[u] \in BOOLEAN /\ password[u] \in Nat
  BY Counted DEF IInv, Rows, TypeOK
<1>1. ASSUME NEW u \in Users,
             \/ \E r \in Roles, t \in Tokens : CreateUser(u, r, t)
             \/ \E t \in Tokens : ResendActivation(u, t) \/ RequestReset(u, t)
             \/ ActivateUser(u)
      PROVE  Logins'
  BY <1>1, LoginsStay DEF CreateUser, ResendActivation, RequestReset, ActivateUser,
                          sessionVars, IInv, TypeOK
<1>2. ASSUME NEW u \in Users, NEW t \in Tokens, ActivateMember(u, t)
      PROVE  Logins'
  <2>1. ~active[u]
    BY <1>0, <1>2 DEF ActivateMember, AccountOK
  <2> QED BY <1>2, <2>1, LoginsStay DEF ActivateMember, sessionVars, IInv, TypeOK
<1>3. ASSUME NEW u \in Users, NEW t \in Tokens, ResetPassword(u, t)
      PROVE  Logins'
  BY <1>3, Revoked DEF ResetPassword, IInv, TypeOK
<1>4. ASSUME NEW u \in Users, DeactivateUser(u)
      PROVE  Logins'
  BY <1>4, Revoked DEF DeactivateUser, IInv, TypeOK
<1>5. ASSUME NEW r \in Ops, CompleteActivation(r)
      PROVE  Logins'
  <2>1. op[r].user \in Users /\ ~active[op[r].user]
    BY <1>5, Completing DEF CompleteActivation
  <2>2. \A v \in Users : v # op[r].user => active'[v] = active[v] /\ password'[v] = password[v]
    BY <1>5, <2>1 DEF CompleteActivation, userVars, IInv, TypeOK
  <2>3. UNCHANGED <<sess, sessUser, sessPassword, overtaken>>
    BY <1>5 DEF CompleteActivation, sessionVars
  <2> QED BY <2>1, <2>2, <2>3, LoginsStay
<1>6. ASSUME NEW r \in Ops, CompleteTransfer(r)
      PROVE  Logins'
  <2>1. op[r].to \in Users /\ op[r].from \in Users
    BY <1>6 DEF CompleteTransfer, IInv, Deciding, DecisionOK, Transfers
  <2>2. CASE Transferable(op[r].from, op[r].to)
    <3>1. \A v \in Users : v # op[r].from /\ active[v] => active'[v] /\ password'[v] = password[v]
      BY <1>6, <2>1, <2>2 DEF CompleteTransfer, IInv, TypeOK
    <3>2. RevokeSessions(op[r].from)
      BY <1>6, <2>2 DEF CompleteTransfer
    <3> QED BY <2>1, <3>1, <3>2, Revoked
  <2>3. CASE ~Transferable(op[r].from, op[r].to)
    BY <1>6, <2>3, LoginsStay DEF CompleteTransfer, sessionVars
  <2> QED BY <2>2, <2>3
<1>7. ASSUME NEW s \in Sessions, SessionStep(s)
      PROVE  Logins'
  <2>1. UNCHANGED userVars /\ LoginOK(s)
    BY <1>7 DEF SessionStep, VerifyLogin, OpenSession, Logout, ExpireSession, Authorise,
                IInv, Logins
  <2>2. /\ \A x \in Sessions \ {s} :
             /\ sess'[x] = sess[x] /\ sessUser'[x] = sessUser[x]
             /\ sessPassword'[x] = sessPassword[x] /\ (x \in overtaken' <=> x \in overtaken)
        /\ \/ \E u \in Users : /\ sessUser'[s] = u /\ active[u] /\ sessPassword'[s] = password[u]
           \/ /\ sessUser'[s] = sessUser[s] /\ sessPassword'[s] = sessPassword[s]
              /\ overtaken' = overtaken
              /\ sess[s] # "none"
              /\ sess'[s] \in {"verified", "open"} => sess[s] \in {"verified", "open"}
    BY <1>7 DEF SessionStep, VerifyLogin, OpenSession, Logout, ExpireSession, Authorise,
                sessionVars, IInv, TypeOK
  <2>3. LoginOK(s)'
    BY <2>1, <2>2 DEF LoginOK, userVars
  <2>4. ASSUME NEW x \in Sessions \ {s}
        PROVE  LoginOK(x)'
    BY <2>1, <2>2, <2>4 DEF LoginOK, userVars, IInv, Logins
  <2> QED BY <2>3, <2>4 DEF Logins
<1>8. ASSUME \/ \E r \in Ops : OpBegins(r) \/ DecideActivation(r) \/ Abort(r)
             \/ \E r \in Ops, u \in Users : LockUser(r, u)
             \/ \E t \in Tokens : ExpireToken(t)
             \/ \E u \in Users : RequestDone(u)
             \/ UNCHANGED vars
      PROVE  Logins'
  <2>1. UNCHANGED <<userVars, sessionVars>>
    BY <1>8 DEF OpBegins, BeginActivation, BeginTransfer, DecideActivation, LockUser, Abort,
                ExpireToken, RequestDone, vars
  <2> QED BY <2>1, LoginsStay DEF userVars, sessionVars
<1> QED BY <1>1, <1>2, <1>3, <1>4, <1>5, <1>6, <1>7, <1>8 DEF Next, UserStep, OpStep

LEMMA NextInv == IInv /\ [Next]_vars => IInv'
BY TypeInv, CredentialsInv, DecidingInv, LoginsInv DEF IInv, Credentials

(* Types, rows, tokens, decisions and logins agree in every reachable      *)
(* state of the accounts.                                                  *)
THEOREM AccountInvariant == Spec => []IInv
<1>1. Init => IInv
  BY InitInv
<1>2. IInv /\ [Next]_vars => IInv'
  BY NextInv
<1> QED BY <1>1, <1>2, PTL DEF Spec

(* Every column keeps its type; in particular a password is set at most as *)
(* often as there were tokens to set it with.                              *)
THEOREM AccountTypes == Spec => []TypeOK
<1>1. IInv => TypeOK
  BY DEF IInv
<1> QED BY <1>1, AccountInvariant, PTL

(* Passwords, tokens and sessions agree: a token completes one operation   *)
(* at most and is carried by nobody afterwards, no two rows answer to the  *)
(* same one, and an open session has the current password of an active     *)
(* account, unless its login overtook the revocation.                      *)
THEOREM AccessIsConsistent == Spec => []AccessConsistent
<1>1. IInv => AccessConsistent
  BY Consistent
<1> QED BY <1>1, AccountInvariant, PTL

(***************************************************************************)
(* Refinement                                                              *)
(***************************************************************************)

(* What a row amounts to, with the columns that tell. *)
StateOf(r, n, a) ==
  IF r = None THEN "absent"
  ELSE IF n = 0 THEN "invited" ELSE IF a THEN "active" ELSE "inactive"

LEMMA CaseIsState ==
  ASSUME NEW r, NEW n \in Nat, NEW a \in BOOLEAN, r = None => n = 0
  PROVE  (CASE r = None -> "absent"
            [] r # None /\ n = 0 -> "invited"
            [] n > 0 /\ a  -> "active"
            [] n > 0 /\ ~a -> "inactive") = StateOf(r, n, a)
BY DEF StateOf

LEMMA StateNow ==
  ASSUME IInv
  PROVE  AccountState = [u \in Users |-> StateOf(role[u], password[u], active[u])]
<1>1. \A u \in Users : /\ password[u] \in Nat /\ active[u] \in BOOLEAN
                       /\ role[u] = None => password[u] = 0
  <2>1. password \in [Users -> 0..Cardinality(Tokens)] /\ active \in [Users -> BOOLEAN]
    BY DEF IInv, TypeOK
  <2>2. \A u \in Users : role[u] = None => password[u] = 0
    BY DEF IInv, Rows, AccountOK
  <2> QED BY <2>1, <2>2, Counted
<1> QED BY <1>1, CaseIsState DEF AccountState

LEMMA StateThen ==
  ASSUME IInv'
  PROVE  AccountState' = [u \in Users |-> StateOf(role'[u], password'[u], active'[u])]
<1>1. \A u \in Users : /\ password'[u] \in Nat /\ active'[u] \in BOOLEAN
                       /\ role'[u] = None => password'[u] = 0
  BY Counted DEF IInv, TypeOK, Rows, AccountOK
<1> QED BY <1>1, CaseIsState DEF AccountState

(* The lifecycle's active administrators are those of the rows. *)
LEMMA SameAdmins ==
  ASSUME IInv
  PROVE  \A u \in Users : u \in Lifecycle!ActiveAdmins <=> role[u] = "admin" /\ active[u]
<1>1. \A u \in Users : AccountOK(u) /\ active[u] \in BOOLEAN
  BY DEF IInv, Rows, TypeOK
<1>2. \A u \in Users : AccountState[u] = StateOf(role[u], password[u], active[u])
  BY StateNow
<1>3. \A u \in Users : role[u] = "admin" =>
        (StateOf(role[u], password[u], active[u]) = "active" <=> active[u])
  BY <1>1 DEF StateOf, AccountOK
<1> QED BY <1>2, <1>3 DEF Lifecycle!ActiveAdmins

(* A step on one row is a step of one state. *)
LEMMA OneRow ==
  ASSUME IInv, IInv', NEW u \in Users,
         \A v \in Users \ {u} : /\ role'[v] = role[v] /\ password'[v] = password[v]
                                /\ active'[v] = active[v]
  PROVE  AccountState' = [AccountState EXCEPT ![u] = StateOf(role'[u], password'[u], active'[u])]
BY StateNow, StateThen

LEMMA InitRefines == Init => Lifecycle!AccountInit
<1> SUFFICES ASSUME Init
             PROVE  Lifecycle!AccountInit
  OBVIOUS
<1>1. AccountState = [u \in Users |-> StateOf(role[u], password[u], active[u])]
  BY InitInv, StateNow
<1> QED BY <1>1 DEF Init, StateOf, Lifecycle!AccountInit

LEMMA StepRefines ==
  ASSUME IInv, [Next]_vars
  PROVE  [Lifecycle!AccountNext]_(Lifecycle!accountVars)
<1>0. /\ IInv' /\ AccountState = [u \in Users |-> StateOf(role[u], password[u], active[u])]
      /\ \A u \in Users : AccountOK(u) /\ active[u] \in BOOLEAN /\ password[u] \in Nat
      /\ (Lifecycle!ActiveAdmins # {}) = ActiveAdmin
  <2>1. (Lifecycle!ActiveAdmins # {}) = ActiveAdmin
    BY SameAdmins DEF ActiveAdmin, Lifecycle!ActiveAdmins
  <2> QED BY <2>1, NextInv, StateNow, Counted DEF IInv, Rows, TypeOK
<1>1. ASSUME NEW u \in Users, NEW r \in Roles, NEW t \in Tokens, CreateUser(u, r, t)
      PROVE  Lifecycle!AccountNext
  <2>1. AccountState' = [AccountState EXCEPT ![u] = "invited"]
    <3>1. StateOf(role'[u], password'[u], active'[u]) = "invited"
      BY <1>0, <1>1 DEF CreateUser, StateOf, AccountOK, Roles, IInv, TypeOK
    <3>2. role' = [role EXCEPT ![u] = r] /\ UNCHANGED <<active, password>>
      BY <1>1 DEF CreateUser
    <3>3. \A v \in Users \ {u} : role'[v] = role[v]
      BY <3>2 DEF IInv, TypeOK
    <3> QED BY <1>0, <3>1, <3>2, <3>3, OneRow
  <2>2. Lifecycle!Invite(u, r)
    BY <1>0, <1>1, <2>1 DEF CreateUser, StateOf, Lifecycle!Invite
  <2> QED BY <2>2 DEF Lifecycle!AccountNext, Lifecycle!Roles, Roles
<1>2. ASSUME NEW u \in Users, NEW t \in Tokens, ActivateMember(u, t)
      PROVE  Lifecycle!AccountNext
  <2>1. role[u] # None /\ role[u] # "admin" /\ password[u] = 0
    BY <1>0, <1>2 DEF ActivateMember, Unlocked, AccountOK
  <2>2. AccountState' = [AccountState EXCEPT ![u] = "active"]
    <3>1. StateOf(role'[u], password'[u], active'[u]) = "active"
      BY <1>2, <2>1 DEF ActivateMember, StateOf, IInv, TypeOK
    <3> QED BY <1>0, <1>2, <3>1, OneRow DEF ActivateMember, IInv, TypeOK
  <2>3. Lifecycle!CompleteActivation(u)
    BY <1>0, <1>2, <2>1, <2>2 DEF ActivateMember, StateOf, Lifecycle!CompleteActivation
  <2> QED BY <2>3 DEF Lifecycle!AccountNext
<1>3. ASSUME NEW u \in Users, ActivateUser(u)
      PROVE  Lifecycle!AccountNext
  <2>1. AccountState' = [AccountState EXCEPT ![u] = "active"]
    <3>1. StateOf(role'[u], password'[u], active'[u]) = "active"
      BY <1>0, <1>3 DEF ActivateUser, Unlocked, StateOf, IInv, TypeOK
    <3> QED BY <1>0, <1>3, <3>1, OneRow DEF ActivateUser, IInv, TypeOK
  <2>2. Lifecycle!SwitchOn(u)
    <3>1. role[u] # None /\ password[u] > 0 /\ ~active[u] /\ UNCHANGED role
      BY <1>3 DEF ActivateUser, Unlocked
    <3>2. AccountState[u] = "inactive"
      BY <1>0, <3>1 DEF StateOf
    <3>3. role[u] = "admin" => Lifecycle!ActiveAdmins = {}
      BY <1>0, <1>3 DEF ActivateUser
    <3> QED BY <2>1, <3>1, <3>2, <3>3 DEF Lifecycle!SwitchOn
  <2> QED BY <2>2 DEF Lifecycle!AccountNext
<1>4. ASSUME NEW u \in Users, DeactivateUser(u)
      PROVE  Lifecycle!AccountNext
  <2>1. AccountState' = [AccountState EXCEPT ![u] = "inactive"]
    <3>1. StateOf(role'[u], password'[u], active'[u]) = "inactive"
      BY <1>0, <1>4 DEF DeactivateUser, Unlocked, StateOf, AccountOK, IInv, TypeOK
    <3> QED BY <1>0, <1>4, <3>1, OneRow DEF DeactivateUser, IInv, TypeOK
  <2>2. Lifecycle!SwitchOff(u)
    BY <1>0, <1>4, <2>1 DEF DeactivateUser, Unlocked, StateOf, AccountOK, Lifecycle!SwitchOff
  <2> QED BY <2>2 DEF Lifecycle!AccountNext
<1>5. ASSUME UNCHANGED role, UNCHANGED active,
             \A u \in Users : password'[u] = 0 <=> password[u] = 0
      PROVE  UNCHANGED Lifecycle!accountVars
  BY <1>0, <1>5, StateThen DEF StateOf, Lifecycle!accountVars
<1>6. ASSUME NEW u \in Users, NEW t \in Tokens, ResetPassword(u, t)
      PROVE  UNCHANGED Lifecycle!accountVars
  <2>1. password[u] > 0
    BY <1>0, <1>6 DEF ResetPassword, AccountOK
  <2> QED BY <1>0, <1>5, <1>6, <2>1 DEF ResetPassword, IInv, TypeOK
<1>7. ASSUME NEW r \in Ops, CompleteActivation(r)
      PROVE  Lifecycle!AccountNext \/ UNCHANGED Lifecycle!accountVars
  <2>1. CASE willActivate[r] /\ ActiveAdmin
    BY <1>5, <1>7, <2>1 DEF CompleteActivation, userVars
  <2>2. CASE ~(willActivate[r] /\ ActiveAdmin)
    <3> DEFINE u == op[r].user
    <3>1. u \in Users /\ role[u] = "admin" /\ password[u] = 0
      BY <1>7, Completing DEF CompleteActivation
    <3>2. willActivate[r] = ~ActiveAdmin
      <4>1. willActivate[r] \in BOOLEAN /\ DecisionOK(r) /\ pc[r] = "decided"
        BY <1>7 DEF CompleteActivation, IInv, TypeOK, Deciding
      <4> QED BY <2>2, <4>1 DEF DecisionOK, ActiveAdmin
    <3>3. /\ password' = [password EXCEPT ![u] = 1]
          /\ active' = [active EXCEPT ![u] = willActivate[r]]
          /\ UNCHANGED role
      BY <1>7, <2>2 DEF CompleteActivation
    <3> HIDE DEF u
    <3>4. StateOf(role'[u], password'[u], active'[u])
            = IF role[u] = "admin" /\ Lifecycle!ActiveAdmins # {} THEN "inactive" ELSE "active"
      BY <1>0, <3>1, <3>2, <3>3 DEF StateOf, IInv, TypeOK
    <3>5. AccountState' =
            [AccountState EXCEPT ![u] =
               IF role[u] = "admin" /\ Lifecycle!ActiveAdmins # {} THEN "inactive" ELSE "active"]
      BY <1>0, <3>1, <3>3, <3>4, OneRow DEF IInv, TypeOK
    <3>6. Lifecycle!CompleteActivation(u)
      BY <1>0, <3>1, <3>3, <3>5 DEF StateOf, Lifecycle!CompleteActivation
    <3> QED BY <3>1, <3>6 DEF Lifecycle!AccountNext
  <2> QED BY <2>1, <2>2
<1>8. ASSUME NEW r \in Ops, CompleteTransfer(r)
      PROVE  Lifecycle!AccountNext \/ UNCHANGED Lifecycle!accountVars
  <2> DEFINE from == op[r].from
             to == op[r].to
  <2>1. from \in Users /\ to \in Users
    BY <1>8 DEF CompleteTransfer, IInv, Deciding, DecisionOK, Transfers
  <2>2. CASE Transferable(from, to)
    <3>1. /\ role[from] = "admin" /\ active[from] /\ password[from] > 0
          /\ role[to] = "admin" /\ ~active[to] /\ password[to] > 0
      BY <1>0, <2>1, <2>2 DEF Transferable, AccountOK
    <3>2. active' = [active EXCEPT ![from] = FALSE, ![to] = TRUE]
          /\ UNCHANGED <<role, password>>
      BY <1>8, <2>2 DEF CompleteTransfer
    <3> HIDE DEF from, to
    <3>3. /\ StateOf(role'[from], password'[from], active'[from]) = "inactive"
          /\ StateOf(role'[to], password'[to], active'[to]) = "active"
          /\ \A v \in Users \ {from, to} : StateOf(role'[v], password'[v], active'[v])
                                             = StateOf(role[v], password[v], active[v])
      BY <2>1, <3>1, <3>2 DEF StateOf, IInv, TypeOK
    <3>4. AccountState' = [AccountState EXCEPT ![from] = "inactive", ![to] = "active"]
      <4>1. AccountState' = [v \in Users |-> StateOf(role'[v], password'[v], active'[v])]
        BY <1>0, StateThen
      <4> QED BY <1>0, <2>1, <3>1, <3>3, <4>1
    <3>5. Lifecycle!HandOver(from, to)
      BY <1>0, <2>1, <3>1, <3>2, <3>4 DEF StateOf, Lifecycle!HandOver
    <3> QED BY <2>1, <3>5 DEF Lifecycle!AccountNext
  <2>3. CASE ~Transferable(from, to)
    BY <1>5, <1>8, <2>3 DEF CompleteTransfer
  <2> QED BY <2>2, <2>3
<1>9. ASSUME \/ \E u \in Users, t \in Tokens : ResendActivation(u, t) \/ RequestReset(u, t)
             \/ \E r \in Ops : OpBegins(r) \/ DecideActivation(r) \/ Abort(r)
             \/ \E r \in Ops, u \in Users : LockUser(r, u)
             \/ \E s \in Sessions : SessionStep(s)
             \/ \E t \in Tokens : ExpireToken(t)
             \/ \E u \in Users : RequestDone(u)
             \/ UNCHANGED vars
      PROVE  UNCHANGED Lifecycle!accountVars
  <2>1. UNCHANGED <<role, active, password>>
    BY <1>9 DEF ResendActivation, RequestReset, OpBegins, BeginActivation, BeginTransfer,
                DecideActivation, LockUser, Abort, SessionStep, VerifyLogin, OpenSession,
                Logout, ExpireSession, Authorise, ExpireToken, RequestDone, vars, userVars
  <2> QED BY <1>5, <2>1
<1> QED BY <1>1, <1>2, <1>3, <1>4, <1>6, <1>7, <1>8, <1>9 DEF Next, UserStep, OpStep

(* With its tokens, locks, sessions and races, account administration      *)
(* implements the lifecycle in which activation completes once and an      *)
(* active administrator is only ever replaced by another.                  *)
THEOREM AccountsImplementLifecycle == Spec => ImplementsAccounts
<1>1. Init => Lifecycle!AccountInit
  BY InitRefines
<1>2. IInv /\ [Next]_vars => [Lifecycle!AccountNext]_(Lifecycle!accountVars)
  BY StepRefines
<1> QED BY <1>1, <1>2, AccountInvariant, PTL
        DEF Spec, ImplementsAccounts, Lifecycle!AccountSpec

(* What one step of the lifecycle does to its active administrators. *)
LEMMA AdminsStep ==
  ASSUME IInv, [Next]_vars,
         \A u, v \in Lifecycle!ActiveAdmins : u = v
  PROVE  /\ \A u, v \in Lifecycle!ActiveAdmins' : u = v
         /\ Lifecycle!ActiveAdmins # {} => Lifecycle!ActiveAdmins' # {}
<1> DEFINE S == AccountState
           A == Lifecycle!ActiveAdmins
<1>1. S = [u \in Users |-> S[u]] /\ role = [u \in Users |-> role[u]]
  BY StateNow DEF IInv, TypeOK
<1>2. CASE UNCHANGED Lifecycle!accountVars
  BY <1>2 DEF Lifecycle!accountVars, Lifecycle!ActiveAdmins
<1>3. ASSUME NEW u \in Users, NEW r \in Lifecycle!Roles, Lifecycle!Invite(u, r)
      PROVE  A' = A
  <2>1. /\ \A v \in Users : v # u => S'[v] = S[v] /\ role'[v] = role[v]
        /\ S[u] # "active" /\ S'[u] # "active"
    BY <1>1, <1>3 DEF Lifecycle!Invite
  <2> QED BY <2>1 DEF Lifecycle!ActiveAdmins
<1>4. ASSUME NEW u \in Users, Lifecycle!SwitchOff(u)
      PROVE  A' = A
  BY <1>1, <1>4 DEF Lifecycle!SwitchOff, Lifecycle!ActiveAdmins
<1>5. ASSUME NEW u \in Users, Lifecycle!CompleteActivation(u) \/ Lifecycle!SwitchOn(u)
      PROVE  A' = A \/ (A = {} /\ A' \subseteq {u})
  <2>1. /\ \A v \in Users : v # u => S'[v] = S[v]
        /\ role' = role /\ S[u] # "active"
        /\ S'[u] = "active" /\ role[u] = "admin" => A = {}
    BY <1>1, <1>5 DEF Lifecycle!CompleteActivation, Lifecycle!SwitchOn
  <2> QED BY <2>1 DEF Lifecycle!ActiveAdmins
<1>6. ASSUME NEW u \in Users, NEW v \in Users, Lifecycle!HandOver(u, v)
      PROVE  A' = {v}
  <2>1. u \in A /\ u # v /\ role' = role /\ role[v] = "admin"
    BY <1>6 DEF Lifecycle!HandOver, Lifecycle!ActiveAdmins
  <2>2. /\ S'[u] = "inactive" /\ S'[v] = "active"
        /\ \A w \in Users \ {u, v} : S'[w] = S[w]
    BY <1>1, <1>6, <2>1 DEF Lifecycle!HandOver
  <2> QED BY <2>1, <2>2 DEF Lifecycle!ActiveAdmins
<1>7. [Lifecycle!AccountNext]_(Lifecycle!accountVars)
  BY StepRefines
<1> QED BY <1>2, <1>3, <1>4, <1>5, <1>6, <1>7 DEF Lifecycle!AccountNext

(* users_one_active_admin_idx and the advisory lock come to this: there is *)
(* one active administrator at most, and once there is one there always is *)
(* one, whatever activations, switches and hand-overs run at once.         *)
OneAdmin == \A u, v \in Users :
  role[u] = "admin" /\ active[u] /\ role[v] = "admin" /\ active[v] => u = v

THEOREM OneAdministrator == Spec => []OneAdmin /\ [][ActiveAdmin => ActiveAdmin']_vars
<1> DEFINE One == \A u, v \in Lifecycle!ActiveAdmins : u = v
<1>1. Init => One
  BY DEF Init, AccountState, Lifecycle!ActiveAdmins
<1>2. IInv /\ One /\ [Next]_vars => One'
  BY AdminsStep
<1>3. IInv /\ One => OneAdmin
  BY SameAdmins DEF OneAdmin
<1>4. IInv /\ IInv' /\ One /\ [Next]_vars => [ActiveAdmin => ActiveAdmin']_vars
  <2> SUFFICES ASSUME IInv, IInv', One, [Next]_vars, ActiveAdmin
               PROVE  ActiveAdmin'
    OBVIOUS
  <2>1. PICK u \in Users : u \in Lifecycle!ActiveAdmins
    BY SameAdmins DEF ActiveAdmin
  <2>2. PICK v : v \in Lifecycle!ActiveAdmins'
    BY <2>1, AdminsStep
  <2>3. v \in Users /\ role'[v] = "admin" /\ AccountState'[v] = "active"
    BY <2>2 DEF Lifecycle!ActiveAdmins
  <2>4. active'[v]
    <3>1. active'[v] \in BOOLEAN
      BY <2>3 DEF IInv, TypeOK
    <3> QED BY <2>3, <3>1, StateThen DEF StateOf
  <2> QED BY <2>3, <2>4 DEF ActiveAdmin
<1> QED BY <1>1, <1>2, <1>3, <1>4, AccountInvariant, PTL DEF Spec

(***************************************************************************)
(* Who sets a password, and who administers                                *)
(***************************************************************************)

(* An activation that has decided found its token before it may have       *)
(* expired.                                                                *)
FoundInTime(u, t) ==
  \E r \in Ops : pc[r] = "decided" /\ op[r].user = u /\ op[r].token = t

SetWith(u, t) ==
  /\ Carries(u, t) /\ \A v \in Users \ {u} : ~Carries(v, t)
  /\ t \in issued
  /\ t \notin expired \/ FoundInTime(u, t)
  /\ uses[t] = 0 /\ uses'[t] = 1
  /\ \A v \in Users : ~Carries(v, t)'
  /\ password' = [password EXCEPT ![u] = @ + 1]

(* A password is only ever set with a token that was mailed, that this row *)
(* carries and no other, that completed nothing before, and that had not   *)
(* expired when the row was locked (an administrator's activation may wait *)
(* for its second lock meanwhile); afterwards no row carries that token,   *)
(* and nobody else's password has changed, whichever requests, activations *)
(* and hand-overs run at once (findByActivationTokenHashForUpdate,         *)
(* findByPasswordResetTokenHashForUpdate).                                 *)
PasswordNeedsToken == [][password' = password \/ \E u \in Users, t \in Tokens : SetWith(u, t)]_vars

LEMMA SettingIs ==
  ASSUME IInv, IInv', NEW u \in Users, NEW t \in Tokens, Carries(u, t), Spend(t),
         t \notin expired \/ FoundInTime(u, t),
         password' = [password EXCEPT ![u] = @ + 1]
  PROVE  SetWith(u, t)
<1>1. uses[t] = 0 /\ uses' = [uses EXCEPT ![t] = 1]
  BY Spending DEF IInv
<1>2. uses'[t] = 1
  BY <1>1 DEF IInv, TypeOK
<1>3. \A v \in Users : ~Carries(v, t)'
  BY <1>2 DEF IInv, TokensSpentOnce, Carries
<1>4. t \in issued /\ \A v \in Users \ {u} : ~Carries(v, t)
  BY DEF IInv, Mailed, OneCarrier
<1> QED BY <1>1, <1>2, <1>3, <1>4 DEF SetWith

LEMMA PasswordSteps ==
  ASSUME IInv, IInv', [Next]_vars, password' # password
  PROVE  \E u \in Users, t \in Tokens : SetWith(u, t)
<1>0. \A u \in Users : AccountOK(u) /\ password[u] \in Nat
  BY Counted DEF IInv, Rows, TypeOK
<1>1. ASSUME NEW u \in Users, NEW t \in Tokens, ActivateMember(u, t)
      PROVE  SetWith(u, t)
  <2>1. actToken[u] = t /\ t \notin expired /\ Spend(t)
        /\ password' = [password EXCEPT ![u] = 1]
    BY <1>1 DEF ActivateMember
  <2>2. password[u] = 0
    BY <1>0, <2>1 DEF AccountOK
  <2>3. password' = [password EXCEPT ![u] = @ + 1]
    <3>1. password[u] + 1 = 1
      BY <2>2
    <3> QED BY <2>1, <3>1
  <2>4. Carries(u, t)
    BY <2>1 DEF Carries
  <2> QED BY <2>1, <2>3, <2>4, SettingIs
<1>2. ASSUME NEW u \in Users, NEW t \in Tokens, ResetPassword(u, t)
      PROVE  SetWith(u, t)
  <2>1. resetToken[u] = t /\ t \notin expired /\ Spend(t)
        /\ password' = [password EXCEPT ![u] = @ + 1]
    BY <1>2 DEF ResetPassword
  <2> QED BY <2>1, SettingIs DEF Carries
<1>3. ASSUME NEW r \in Ops, CompleteActivation(r)
      PROVE  SetWith(op[r].user, op[r].token) /\ op[r].user \in Users /\ op[r].token \in Tokens
  <2>1. pc[r] = "decided" /\ Spend(op[r].token)
        /\ password' = [password EXCEPT ![op[r].user] = 1]
    BY <1>3 DEF CompleteActivation, userVars
  <2>2. /\ op[r].user \in Users /\ op[r].token \in Tokens
        /\ Carries(op[r].user, op[r].token) /\ password[op[r].user] = 0
    BY <2>1, Completing
  <2>3. FoundInTime(op[r].user, op[r].token)
    BY <2>1 DEF FoundInTime
  <2>4. password' = [password EXCEPT ![op[r].user] = @ + 1]
    <3>1. password[op[r].user] + 1 = 1
      BY <2>2
    <3> QED BY <2>1, <3>1
  <2> QED BY <2>1, <2>2, <2>3, <2>4, SettingIs
<1>4. \A u \in Users : UserStep(u) =>
        \E t \in Tokens : ActivateMember(u, t) \/ ResetPassword(u, t)
  BY DEF UserStep, CreateUser, ResendActivation, RequestReset, ActivateUser, DeactivateUser
<1>5. \A r \in Ops : ~OpBegins(r) /\ ~Abort(r) /\ (OpStep(r) => CompleteActivation(r))
  BY DEF OpBegins, OpStep, BeginActivation, BeginTransfer, Abort, DecideActivation,
         LockUser, CompleteTransfer, userVars
<1>6. ~(\E s \in Sessions : SessionStep(s)) /\ ~(\E t \in Tokens : ExpireToken(t))
      /\ ~(\E u \in Users : RequestDone(u)) /\ ~UNCHANGED vars
  BY DEF SessionStep, VerifyLogin, OpenSession, Logout, ExpireSession, Authorise,
         ExpireToken, RequestDone, vars, userVars
<1> QED BY <1>1, <1>2, <1>3, <1>4, <1>5, <1>6 DEF Next

(* No password is set without the mail that carries its token. *)
THEOREM PasswordsNeedTokens == Spec => PasswordNeedsToken
<1>1. IInv /\ IInv' /\ [Next]_vars =>
        [password' = password \/ \E u \in Users, t \in Tokens : SetWith(u, t)]_vars
  BY PasswordSteps
<1> QED BY <1>1, AccountInvariant, PTL DEF Spec, PasswordNeedsToken

(* Whoever has a request of an administrator in flight is an administrator *)
(* with a password: what authenticateSession and requirePermission saw of  *)
(* the role still holds when the request acts, though the account may have *)
(* been switched off or handed over by then.                               *)
ActorsAreAdmins == \A u \in acting : role[u] = "admin" /\ password[u] > 0

(* A role is never changed, and a password never taken away. *)
LEMMA NothingLost ==
  ASSUME IInv, IInv', [Next]_vars, NEW u \in Users, role[u] # None, password[u] > 0
  PROVE  role'[u] = role[u] /\ password'[u] > 0
<1>1. role' = role \/ \E v \in Users, r \in Roles : role[v] = None /\ role' = [role EXCEPT ![v] = r]
  BY DEF Next, UserStep, CreateUser, ResendActivation, RequestReset, ActivateMember,
         ResetPassword, ActivateUser, DeactivateUser, OpBegins, BeginActivation, BeginTransfer,
         OpStep, DecideActivation, CompleteActivation, LockUser, CompleteTransfer, Abort,
         SessionStep, VerifyLogin, OpenSession, Logout, ExpireSession, Authorise,
         ExpireToken, RequestDone, vars, userVars
<1>2. role'[u] = role[u]
  BY <1>1 DEF IInv, TypeOK
<1>3. CASE password' = password
  BY <1>2, <1>3
<1>4. CASE password' # password
  <2>1. PICK v \in Users : password' = [password EXCEPT ![v] = @ + 1]
    BY <1>4, PasswordSteps DEF SetWith
  <2>2. password[u] \in Nat /\ password \in [Users -> 0..Cardinality(Tokens)]
    BY Counted DEF IInv, TypeOK
  <2>3. password'[u] = IF u = v THEN password[u] + 1 ELSE password[u]
    BY <2>1, <2>2
  <2> QED BY <1>2, <2>2, <2>3
<1> QED BY <1>3, <1>4

THEOREM ActorsStayAdmins == Spec => []ActorsAreAdmins
<1>1. Init => ActorsAreAdmins
  BY DEF Init, ActorsAreAdmins
<1>2. IInv /\ IInv' /\ ActorsAreAdmins /\ [Next]_vars => ActorsAreAdmins'
  <2> SUFFICES ASSUME IInv, IInv', ActorsAreAdmins, [Next]_vars, NEW u \in acting'
               PROVE  role'[u] = "admin" /\ password'[u] > 0
    BY DEF ActorsAreAdmins
  <2>1. \/ u \in acting
        \/ \E s \in Sessions : Authorise(s) /\ u = sessUser[s]
    BY DEF Next, UserStep, CreateUser, ResendActivation, RequestReset, ActivateMember,
           ResetPassword, ActivateUser, DeactivateUser, OpBegins, BeginActivation, BeginTransfer,
           OpStep, DecideActivation, CompleteActivation, LockUser, CompleteTransfer, Abort,
           SessionStep, VerifyLogin, OpenSession, Logout, ExpireSession, Authorise,
           ExpireToken, RequestDone, vars
  <2>2. u \in Users
    BY DEF IInv, TypeOK
  <2>3. role[u] = "admin" /\ password[u] > 0
    <3>1. CASE u \in acting
      BY <3>1 DEF ActorsAreAdmins
    <3>2. ASSUME NEW s \in Sessions, Authorise(s), u = sessUser[s]
          PROVE  role[u] = "admin" /\ password[u] > 0
      <4>1. role[u] = "admin" /\ active[u]
        BY <3>2 DEF Authorise
      <4>2. AccountOK(u)
        BY <2>2 DEF IInv, Rows
      <4> QED BY <4>1, <4>2 DEF AccountOK
    <3> QED BY <2>1, <3>1, <3>2
  <2>4. role[u] # None
    BY <2>3
  <2> QED BY <2>2, <2>3, <2>4, NothingLost
<1> QED BY <1>1, <1>2, AccountInvariant, PTL DEF Spec

(* Whoever has decided under the advisory lock still has it, so that no    *)
(* two activations and hand-overs decide at once, and nobody else has it;  *)
(* a row is locked by an operation on that user that is still running.     *)
(* Nothing stays locked when an operation ends, by COMMIT, by ROLLBACK or  *)
(* by the deadlock detector.                                               *)
Concerns(r) ==
  IF pc[r] = "advised" THEN {op[r].from, op[r].to} ELSE {op[r].user}

DecidingApart ==
  /\ \A r \in Ops : adminLock = r <=> pc[r] \in {"decided", "advised"}
  /\ \A r \in Ops, u \in Users : rowLock[u] = r => pc[r] \in Running /\ u \in Concerns(r)

(* The end of an operation gives back what it held. *)
LEMMA EndsApart ==
  ASSUME IInv, DecidingApart, NEW r \in Ops, EndOp(r)
  PROVE  DecidingApart'
<1>1. /\ pc' = [pc EXCEPT ![r] = "done"] /\ op' = op
      /\ rowLock' = [u \in Users |-> IF rowLock[u] = r THEN None ELSE rowLock[u]]
      /\ adminLock' = IF adminLock = r THEN None ELSE adminLock
  BY DEF EndOp
<1>2. /\ pc'[r] = "done" /\ \A q \in Ops \ {r} : pc'[q] = pc[q]
  BY <1>1 DEF IInv, TypeOK
<1>3. \A q \in Ops : adminLock' = q <=> pc'[q] \in {"decided", "advised"}
  BY <1>1, <1>2 DEF DecidingApart
<1>4. ASSUME NEW q \in Ops, NEW u \in Users, rowLock'[u] = q
      PROVE  pc'[q] \in Running /\ u \in Concerns(q)'
  <2>1. rowLock[u] = q /\ q # r
    BY <1>1, <1>4
  <2> QED BY <1>1, <1>2, <2>1 DEF DecidingApart, Concerns
<1> QED BY <1>3, <1>4 DEF DecidingApart

LEMMA DecidingApartInv ==
  ASSUME IInv, DecidingApart, [Next]_vars
  PROVE  DecidingApart'
<1>1. ASSUME NEW r \in Ops, NEW u \in Users, NEW t \in Tokens, BeginActivation(r, u, t)
      PROVE  DecidingApart'
  <2> DEFINE o == [kind |-> "activate", user |-> u, token |-> t]
  <2>1. /\ pc[r] = "ready" /\ rowLock' = [rowLock EXCEPT ![u] = r] /\ adminLock' = adminLock
        /\ op' = [op EXCEPT ![r] = o] /\ pc' = [pc EXCEPT ![r] = "row"] /\ rowLock[u] = None
    BY <1>1 DEF BeginActivation, Unlocked
  <2>2. /\ pc'[r] = "row" /\ op'[r] = o /\ rowLock'[u] = r
        /\ \A q \in Ops \ {r} : pc'[q] = pc[q] /\ op'[q] = op[q]
        /\ \A v \in Users \ {u} : rowLock'[v] = rowLock[v]
    BY <2>1 DEF IInv, TypeOK
  <2>3. \A q \in Ops \ {r} : Concerns(q)' = Concerns(q)
    BY <2>2 DEF Concerns
  <2>4. u \in Concerns(r)'
    BY <2>2 DEF Concerns
  <2>5. \A v \in Users : rowLock[v] # r
    BY <2>1 DEF DecidingApart, Running
  <2> QED BY <2>1, <2>2, <2>3, <2>4, <2>5 DEF DecidingApart, Running
<1>2. ASSUME NEW r \in Ops, NEW from \in Users, NEW to \in Users, BeginTransfer(r, from, to)
      PROVE  DecidingApart'
  <2>1. /\ pc[r] = "ready" /\ rowLock' = rowLock /\ adminLock = None /\ adminLock' = r
        /\ pc' = [pc EXCEPT ![r] = "advised"]
        /\ op' = [op EXCEPT ![r] = [kind |-> "transfer", from |-> from, to |-> to]]
    BY <1>2 DEF BeginTransfer
  <2>2. /\ pc'[r] = "advised" /\ \A q \in Ops \ {r} : pc'[q] = pc[q] /\ op'[q] = op[q]
    BY <2>1 DEF IInv, TypeOK
  <2>3. \A q \in Ops \ {r} : Concerns(q)' = Concerns(q)
    BY <2>2 DEF Concerns
  <2>4. \A v \in Users : rowLock[v] # r
    BY <2>1 DEF DecidingApart, Running
  <2> QED BY <2>1, <2>2, <2>3, <2>4 DEF DecidingApart, Running
<1>3. ASSUME NEW r \in Ops, DecideActivation(r)
      PROVE  DecidingApart'
  <2>1. /\ pc[r] = "row" /\ adminLock = None /\ adminLock' = r /\ op' = op /\ rowLock' = rowLock
        /\ pc' = [pc EXCEPT ![r] = "decided"]
    BY <1>3 DEF DecideActivation
  <2>2. /\ pc'[r] = "decided" /\ \A q \in Ops \ {r} : pc'[q] = pc[q]
    BY <2>1 DEF IInv, TypeOK
  <2>3. \A q \in Ops : Concerns(q)' = Concerns(q)
    BY <2>1, <2>2 DEF Concerns
  <2> QED BY <2>1, <2>2, <2>3 DEF DecidingApart, Running
<1>4. ASSUME NEW r \in Ops, NEW u \in Users, LockUser(r, u)
      PROVE  DecidingApart'
  <2>1. /\ pc[r] = "advised" /\ rowLock' = [rowLock EXCEPT ![u] = r]
        /\ adminLock' = adminLock /\ pc' = pc /\ op' = op /\ u \in {op[r].from, op[r].to}
    BY <1>4 DEF LockUser, NextRow, RowsToLock
  <2>2. rowLock'[u] = r /\ \A v \in Users \ {u} : rowLock'[v] = rowLock[v]
    BY <2>1 DEF IInv, TypeOK
  <2>3. \A q \in Ops : Concerns(q)' = Concerns(q)
    BY <2>1 DEF Concerns
  <2>4. u \in Concerns(r)
    BY <2>1 DEF Concerns
  <2> QED BY <2>1, <2>2, <2>3, <2>4 DEF DecidingApart, Running
<1>5. ASSUME NEW r \in Ops, CompleteActivation(r) \/ CompleteTransfer(r) \/ Abort(r)
      PROVE  DecidingApart'
  BY <1>5, EndsApart DEF CompleteActivation, CompleteTransfer, Abort
<1>6. CASE UNCHANGED <<rowLock, adminLock, pc, op>>
  BY <1>6 DEF DecidingApart, Concerns
<1>7. ASSUME NEW u \in Users, UserStep(u) \/ RequestDone(u)
      PROVE  UNCHANGED <<rowLock, adminLock, pc, op>>
  BY <1>7 DEF UserStep, CreateUser, ResendActivation, RequestReset, ActivateMember,
              ResetPassword, ActivateUser, DeactivateUser, RequestDone, opVars
<1>8. ASSUME NEW s \in Sessions, SessionStep(s)
      PROVE  UNCHANGED <<rowLock, adminLock, pc, op>>
  BY <1>8 DEF SessionStep, VerifyLogin, OpenSession, Logout, ExpireSession, Authorise, opVars
<1>9. (\E t \in Tokens : ExpireToken(t)) \/ UNCHANGED vars => UNCHANGED <<rowLock, adminLock, pc, op>>
  BY DEF ExpireToken, vars, opVars
<1> QED BY <1>1, <1>2, <1>3, <1>4, <1>5, <1>6, <1>7, <1>8, <1>9 DEF Next, OpBegins, OpStep

THEOREM DecisionsExclude == Spec => []DecidingApart
<1>1. Init => DecidingApart
  BY DEF Init, DecidingApart, Running
<1>2. IInv /\ DecidingApart /\ [Next]_vars => DecidingApart'
  BY DecidingApartInv
<1> QED BY <1>1, <1>2, AccountInvariant, PTL DEF Spec
=============================================================================
