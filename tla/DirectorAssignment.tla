------------------------- MODULE DirectorAssignment -------------------------
(***************************************************************************)
(* The advisors table and the hand-over of the director's office           *)
(* (src/services/advisorAdmin.service.ts and its repository).              *)
(*                                                                         *)
(* assignDirector locks the row of the director, then the row of the       *)
(* target, in a READ COMMITTED transaction.  A SELECT ... FOR UPDATE that  *)
(* had to wait looks again at the new version of the row it waited for,    *)
(* and only at that row: if it is no director any more, the query returns  *)
(* nothing, although there is a director.  The transactions that lock one  *)
(* row and write it are one action each.                                   *)
(***************************************************************************)
EXTENDS Naturals, Sequences

CONSTANTS Advisors,   \* advisors.id
          Ops,        \* calls of assignDirector
          None

ASSUME DirectorAssumption == None \notin Advisors \cup Ops \cup BOOLEAN

VARIABLES
  active,     \* is_active, None without a row
  director,   \* is_director
  rowLock,    \* the op holding the row of each advisor
  pc, target, \* how far each op is, and its argument
  found,      \* the row its first SELECT found, later currentDirector
  trail       \* audit_logs: who became director after whom, in commit order

advisorVars == <<active, director, trail>>
vars == <<advisorVars, rowLock, pc, target, found>>

Waiting == {"finding", "target"}
Running == Waiting \cup {"writing"}

TypeOK ==
  /\ active \in [Advisors -> BOOLEAN \cup {None}]
  /\ director \in [Advisors -> BOOLEAN]
  /\ rowLock \in [Advisors -> Ops \cup {None}]
  /\ pc \in [Ops -> {"ready", "done"} \cup Running]
  /\ target \in [Ops -> Advisors \cup {None}]
  /\ found \in [Ops -> Advisors \cup {None}]
  /\ trail \in Seq([previous : Advisors \cup {None}, new : Advisors])

Init ==
  /\ active = [v \in Advisors |-> None]
  /\ director = [v \in Advisors |-> FALSE]
  /\ rowLock = [v \in Advisors |-> None]
  /\ pc = [r \in Ops |-> "ready"]
  /\ target = [r \in Ops |-> None]
  /\ found = [r \in Ops |-> None]
  /\ trail = <<>>

IsDirector(v) == director[v] /\ active[v] = TRUE
Directors == {v \in Advisors : IsDirector(v)}

(* The index one_active_director lets v become the active director. *)
IndexAllows(v) == Directors \subseteq {v}

Unlocked(v) == active[v] # None /\ rowLock[v] = None

(***************************************************************************)
(* Transactions on one row                                                 *)
(***************************************************************************)

CreateAdvisor(v, isDirector) ==
  /\ active[v] = None
  /\ isDirector => IndexAllows(v)
  /\ active' = [active EXCEPT ![v] = TRUE]
  /\ director' = [director EXCEPT ![v] = isDirector]
  /\ trail' = IF isDirector THEN Append(trail, [previous |-> None, new |-> v]) ELSE trail
  /\ UNCHANGED <<rowLock, pc, target, found>>

ActivateAdvisor(v) ==
  /\ Unlocked(v)
  /\ active[v] = FALSE
  /\ director[v] => IndexAllows(v)
  /\ active' = [active EXCEPT ![v] = TRUE]
  /\ UNCHANGED <<director, trail, rowLock, pc, target, found>>

(* Mutant: the director's row is switched off like any other. *)
MutantSwitchOffDirector(v) ==
  /\ Unlocked(v)
  /\ active[v] = TRUE
  /\ active' = [active EXCEPT ![v] = FALSE]
  /\ UNCHANGED <<director, trail, rowLock, pc, target, found>>

DeactivateAdvisor(v) ==
  /\ Unlocked(v)
  /\ active[v] = TRUE
  /\ ~director[v]
  /\ active' = [active EXCEPT ![v] = FALSE]
  /\ UNCHANGED <<director, trail, rowLock, pc, target, found>>

(***************************************************************************)
(* assignDirector                                                          *)
(***************************************************************************)

Release(r) == rowLock' = [v \in Advisors |-> IF rowLock[v] = r THEN None ELSE rowLock[v]]

End(r) ==
  /\ pc' = [pc EXCEPT ![r] = "done"]
  /\ Release(r)
  /\ UNCHANGED <<target, found>>

(* findActiveDirectorForUpdate begins: its snapshot has the committed      *)
(* director, or none.                                                      *)
BeginAssign(r, v) ==
  /\ pc[r] = "ready"
  /\ target' = [target EXCEPT ![r] = v]
  /\ \/ \E d \in Directors : /\ found' = [found EXCEPT ![r] = d]
                             /\ pc' = [pc EXCEPT ![r] = "finding"]
     \/ /\ Directors = {}
        /\ pc' = [pc EXCEPT ![r] = "target"]
        /\ UNCHANGED found
  /\ UNCHANGED <<advisorVars, rowLock>>

(* Mutant: the row is taken as the snapshot had it. *)
MutantTrustSnapshot(r) ==
  LET d == found[r]
  IN /\ pc[r] = "finding"
     /\ rowLock[d] = None
     /\ d # target[r]
     /\ rowLock' = [rowLock EXCEPT ![d] = r]
     /\ pc' = [pc EXCEPT ![r] = "target"]
     /\ UNCHANGED <<advisorVars, target, found>>

(* The row is free: it is locked in any case, and it is currentDirector if *)
(* it is still a director's.                                               *)
LockDirector(r) ==
  LET d == found[r]
  IN /\ pc[r] = "finding"
     /\ rowLock[d] = None
     /\ ~(IsDirector(d) /\ d = target[r])
     /\ rowLock' = [rowLock EXCEPT ![d] = r]
     /\ found' = [found EXCEPT ![r] = IF IsDirector(d) THEN d ELSE None]
     /\ pc' = [pc EXCEPT ![r] = "target"]
     /\ UNCHANGED <<advisorVars, target>>

(* Mutant: the early return leaves the transaction open. *)
MutantReturnOpen(r) ==
  LET d == found[r]
  IN /\ pc[r] = "finding"
     /\ rowLock[d] = None
     /\ IsDirector(d) /\ d = target[r]
     /\ pc' = [pc EXCEPT ![r] = "done"]
     /\ rowLock' = [rowLock EXCEPT ![d] = r]
     /\ UNCHANGED <<advisorVars, target, found>>

(* The target is the director already: COMMIT without a change. *)
AlreadyDirector(r) ==
  LET d == found[r]
  IN /\ pc[r] = "finding"
     /\ rowLock[d] = None
     /\ IsDirector(d) /\ d = target[r]
     /\ End(r)
     /\ UNCHANGED advisorVars

(* findByIdForUpdate. *)
LockTarget(r) ==
  LET v == target[r]
  IN /\ pc[r] = "target"
     /\ rowLock[v] \in {None, r}
     /\ active[v] = TRUE
     /\ rowLock' = [rowLock EXCEPT ![v] = r]
     /\ pc' = [pc EXCEPT ![r] = "writing"]
     /\ UNCHANGED <<advisorVars, target, found>>

(* There is no such advisor, or it is not active. *)
RefuseTarget(r) ==
  LET v == target[r]
  IN /\ pc[r] = "target"
     /\ rowLock[v] \in {None, r}
     /\ active[v] # TRUE
     /\ End(r)
     /\ UNCHANGED advisorVars

(* Mutant: the audit log has the two advisors the wrong way round. *)
MutantSwappedAudit(r) ==
  LET v == target[r]
  IN /\ pc[r] = "writing"
     /\ End(r)
     /\ IF Directors \ {found[r]} \subseteq {v}
          THEN /\ director' = [u \in Advisors |-> u = v \/ (director[u] /\ u # found[r])]
               /\ trail' = Append(trail, [previous |-> v, new |-> found[r]])
          ELSE UNCHANGED <<director, trail>>
     /\ UNCHANGED active

(* Mutant: the old director's flag is not cleared, and no index. *)
MutantKeepOldDirector(r) ==
  LET v == target[r]
  IN /\ pc[r] = "writing"
     /\ End(r)
     /\ director' = [u \in Advisors |-> u = v \/ director[u]]
     /\ trail' = Append(trail, [previous |-> found[r], new |-> v])
     /\ UNCHANGED active

(* The two setDirector calls, the audit log and COMMIT; the index makes a  *)
(* transaction that meets another director fail.                           *)
WriteDirector(r) ==
  LET v == target[r]
  IN /\ pc[r] = "writing"
     /\ End(r)
     /\ IF Directors \ {found[r]} \subseteq {v}
          THEN /\ director' = [u \in Advisors |-> u = v \/ (director[u] /\ u # found[r])]
               /\ trail' = Append(trail, [previous |-> found[r], new |-> v])
          ELSE UNCHANGED <<director, trail>>
     /\ UNCHANGED active

(* An error or a crash: ROLLBACK. *)
Abort(r) ==
  /\ pc[r] \in Running
  /\ End(r)
  /\ UNCHANGED advisorVars

WaitsFor(r, q) ==
  /\ q # r
  /\ \/ pc[r] = "finding" /\ rowLock[found[r]] = q
     \/ pc[r] = "target" /\ rowLock[target[r]] = q

(* PostgreSQL ends a transaction of each circle of waiting transactions:   *)
(* each waits for one other, so a set in which each waits for a member and *)
(* is waited for by one is made of circles.                                *)
BreakDeadlock(r) ==
  /\ \E circle \in SUBSET Ops :
       /\ r \in circle
       /\ \A q \in circle : /\ \E p \in circle : WaitsFor(q, p)
                            /\ \E p \in circle : WaitsFor(p, q)
  /\ Abort(r)

(***************************************************************************)

OpStep(r) ==
  \/ LockDirector(r)
  \/ AlreadyDirector(r)
  \/ LockTarget(r)
  \/ RefuseTarget(r)
  \/ WriteDirector(r)

Next ==
  \/ \E v \in Advisors, isDirector \in BOOLEAN : CreateAdvisor(v, isDirector)
  \/ \E v \in Advisors : ActivateAdvisor(v)
  \/ \E v \in Advisors : DeactivateAdvisor(v)
  \/ \E r \in Ops, v \in Advisors : BeginAssign(r, v)
  \/ \E r \in Ops : OpStep(r)
  \/ \E r \in Ops : Abort(r)

Spec == Init /\ [][Next]_vars

(* A transaction that has begun goes on, and PostgreSQL ends deadlocks. *)
FairSpec ==
  Spec /\ \A r \in Ops : WF_vars(OpStep(r)) /\ WF_vars(BreakDeadlock(r))

(***************************************************************************)
(* Properties                                                              *)
(***************************************************************************)

(* There is one director at most, the flag is never left on an advisor who *)
(* was switched off, and an op that is about to write still has the locks  *)
(* and the facts on which it decided, however long it waited for them.     *)
DirectorDecided ==
  /\ \A u, v \in Advisors : director[u] /\ director[v] => u = v
  /\ \A v \in Advisors : director[v] => active[v] = TRUE
  /\ \A r \in Ops : pc[r] = "writing" =>
       /\ rowLock[target[r]] = r /\ active[target[r]] = TRUE
       /\ found[r] # None => rowLock[found[r]] = r /\ IsDirector(found[r])

(* The audit log tells who the director is, and each of its entries that   *)
(* names a predecessor names the right one.                                *)
TrailTruthful ==
  /\ trail = <<>> <=> Directors = {}
  /\ trail # <<>> => Directors = {trail[Len(trail)].new}
  /\ \A i \in 1..(Len(trail) - 1) :
       trail[i + 1].previous \in {None, trail[i].new}

(* The office is never vacant again: no race of hand-overs, deactivations  *)
(* and creations leaves the system without a director.                     *)
DirectorStays == [][Directors # {} => Directors' # {}]_vars

(* Every hand-over that has begun ends: stale locks make the transactions  *)
(* wait in circles, and the deadlock detector parts them.                  *)
HandOversEnd == \A r \in Ops : pc[r] \in Running ~> pc[r] = "done"
=============================================================================
