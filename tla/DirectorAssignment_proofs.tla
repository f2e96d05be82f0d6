--------------------- MODULE DirectorAssignment_proofs ---------------------
(***************************************************************************)
(* For any number of advisors and concurrent hand-overs: there is one      *)
(* director at most, the office never falls vacant again, and the audit    *)
(* log tells the truth.                                                    *)
(*                                                                         *)
(* DirectorDecided speaks of an op that is about to write, which is too    *)
(* late to be inductive: Decision says what the op relies on from the      *)
(* moment its first SELECT returned.  A director's row changes only under  *)
(* its lock, so what was read under the lock is still true at the UPDATE;  *)
(* the one thing an op did not read, a director who came after its         *)
(* snapshot, the index one_active_director refuses.                        *)
(***************************************************************************)
EXTENDS DirectorAssignment, TLAPS

USE DirectorAssumption

Decision ==
  \A r \in Ops :
    /\ pc[r] = "ready" => found[r] = None
    /\ pc[r] \in Running => target[r] \in Advisors
    /\ pc[r] = "finding" => found[r] \in Advisors
    /\ pc[r] \in {"target", "writing"} /\ found[r] # None =>
         rowLock[found[r]] = r /\ IsDirector(found[r])
    /\ pc[r] = "writing" => rowLock[target[r]] = r /\ active[target[r]] = TRUE

OneDirector ==
  /\ \A u, v \in Advisors : director[u] /\ director[v] => u = v
  /\ \A v \in Advisors : director[v] => active[v] = TRUE

IInv == TypeOK /\ Decision /\ OneDirector /\ TrailTruthful

LEMMA DecidedFollows == Decision /\ OneDirector => DirectorDecided
BY DEF Decision, OneDirector, DirectorDecided

LEMMA InitInv == Init => IInv
<1> SUFFICES ASSUME Init PROVE IInv
  OBVIOUS
<1>1. TypeOK
  BY DEF Init, TypeOK, Running, Waiting
<1>2. Decision /\ OneDirector
  BY DEF Init, Decision, OneDirector, Running, Waiting
<1>3. TrailTruthful
  BY DEF Init, TrailTruthful, Directors, IsDirector
<1> QED BY <1>1, <1>2, <1>3 DEF IInv

(* The flag alone says who the director is. *)
LEMMA DirectorsAre ==
  ASSUME OneDirector
  PROVE  /\ Directors = {v \in Advisors : director[v]}
         /\ \A v \in Advisors : IsDirector(v) <=> director[v]
         /\ \A u, v \in Directors : u = v
BY DEF OneDirector, Directors, IsDirector

(* A step that leaves the directors and the trail alone. *)
LEMMA TrailUnchanged ==
  ASSUME TrailTruthful, Directors' = Directors, trail' = trail
  PROVE  TrailTruthful'
BY DEF TrailTruthful

(* A step that makes v the only director and records it. *)
LEMMA TrailExtended ==
  ASSUME TypeOK, TrailTruthful, NEW v \in Advisors, NEW p \in Advisors \cup {None},
         p # None => p \in Directors,
         Directors' = {v},
         trail' = Append(trail, [previous |-> p, new |-> v])
  PROVE  TrailTruthful'
<1> DEFINE Entry == [previous : Advisors \cup {None}, new : Advisors]
<1> DEFINE e == [previous |-> p, new |-> v]
<1>1. trail \in Seq(Entry) /\ e \in Entry
  BY DEF TypeOK
<1>2. /\ trail' \in Seq(Entry)
      /\ Len(trail) \in Nat
      /\ Len(trail') = Len(trail) + 1
      /\ trail'[Len(trail) + 1] = e
      /\ \A i \in 1..Len(trail) : trail'[i] = trail[i]
  BY <1>1
<1>3. trail' # <<>> /\ Directors' # {}
  BY <1>2
<1>4. Directors' = {trail'[Len(trail')].new}
  BY <1>2
<1>5. ASSUME NEW i \in 1..(Len(trail') - 1)
      PROVE  trail'[i + 1].previous \in {None, trail'[i].new}
  <2> HIDE DEF e
  <2>1. CASE i = Len(trail)
    <3>1. trail # <<>>
      BY <1>1, <2>1, <1>5
    <3>2. p \in {None, trail[i].new}
      BY <2>1, <3>1 DEF TrailTruthful
    <3>3. trail'[i + 1].previous = p /\ trail'[i] = trail[i]
      BY <1>2, <2>1, <1>5 DEF e
    <3> QED BY <3>2, <3>3
  <2>2. CASE i < Len(trail)
    <3>1. i \in 1..(Len(trail) - 1)
      BY <2>2, <1>2, <1>5
    <3>2. trail'[i] = trail[i] /\ trail'[i + 1] = trail[i + 1]
      BY <3>1, <1>2
    <3> QED BY <3>1, <3>2 DEF TrailTruthful
  <2> QED BY <2>1, <2>2, <1>2, <1>5
<1> QED BY <1>3, <1>4, <1>5 DEF TrailTruthful

(* createAdvisor, activateAdvisor, deactivateAdvisor: none writes the row   *)
(* of a director or a row that an op has locked.                           *)
LEMMA RowInv ==
  ASSUME IInv, NEW v \in Advisors,
         \/ \E isDirector \in BOOLEAN : CreateAdvisor(v, isDirector)
         \/ ActivateAdvisor(v)
         \/ DeactivateAdvisor(v)
  PROVE  IInv' /\ (Directors # {} => Directors' # {})
<1>1. PICK a \in BOOLEAN, d \in BOOLEAN :
        /\ active' = [active EXCEPT ![v] = a]
        /\ director' = [director EXCEPT ![v] = d]
        /\ active[v] # a
        /\ active[v] = None \/ rowLock[v] = None
        /\ ~director[v]
        /\ d => a = TRUE /\ Directors \subseteq {v}
        /\ trail' = (IF d THEN Append(trail, [previous |-> None, new |-> v]) ELSE trail)
        /\ UNCHANGED <<rowLock, pc, target, found>>
  <2>1. director[v] => active[v] = TRUE
    BY DEF IInv, OneDirector
  <2>2. ASSUME NEW isDirector \in BOOLEAN, CreateAdvisor(v, isDirector)
        PROVE  /\ active' = [active EXCEPT ![v] = TRUE]
               /\ director' = [director EXCEPT ![v] = isDirector]
               /\ active[v] # TRUE
               /\ active[v] = None
               /\ ~director[v]
               /\ isDirector => Directors \subseteq {v}
               /\ trail' = (IF isDirector
                              THEN Append(trail, [previous |-> None, new |-> v]) ELSE trail)
               /\ UNCHANGED <<rowLock, pc, target, found>>
    BY <2>1, <2>2 DEF CreateAdvisor, IndexAllows
  <2>3. ASSUME ActivateAdvisor(v) \/ DeactivateAdvisor(v)
        PROVE  /\ director' = [director EXCEPT ![v] = FALSE]
               /\ rowLock[v] = None
               /\ ~director[v]
               /\ UNCHANGED <<rowLock, pc, target, found, trail>>
    BY <2>1, <2>3 DEF ActivateAdvisor, DeactivateAdvisor, Unlocked, IInv, TypeOK
  <2>4. ActivateAdvisor(v) => active' = [active EXCEPT ![v] = TRUE] /\ active[v] = FALSE
    BY DEF ActivateAdvisor
  <2>5. DeactivateAdvisor(v) => active' = [active EXCEPT ![v] = FALSE] /\ active[v] = TRUE
    BY DEF DeactivateAdvisor
  <2> QED BY <2>2, <2>3, <2>4, <2>5
<1>2. \A u \in Advisors : /\ active'[u] = (IF u = v THEN a ELSE active[u])
                        /\ director'[u] = (IF u = v THEN d ELSE director[u])
  BY <1>1 DEF IInv, TypeOK
<1>3. TypeOK'
  <2>1. trail' \in Seq([previous : Advisors \cup {None}, new : Advisors])
    <3> DEFINE Entry == [previous : Advisors \cup {None}, new : Advisors]
               e == [previous |-> None, new |-> v]
    <3>1. trail \in Seq(Entry) /\ e \in Entry
      BY DEF IInv, TypeOK
    <3>2. trail' = trail \/ trail' = Append(trail, e)
      BY <1>1
    <3> HIDE DEF Entry, e
    <3>3. trail' \in Seq(Entry)
      BY <3>1, <3>2
    <3> QED BY <3>3 DEF Entry
  <2> QED BY <1>1, <2>1 DEF IInv, TypeOK
<1>4. OneDirector'
  <2>1. d => \A u \in Advisors : director[u] => u = v
    BY <1>1, DirectorsAre DEF IInv
  <2> QED BY <1>1, <1>2, <2>1 DEF IInv, OneDirector
<1>5. Decision'
  <2> SUFFICES ASSUME NEW r \in Ops
               PROVE  /\ pc[r] = "ready" => found[r] = None
                      /\ pc[r] \in Running => target[r] \in Advisors
                      /\ pc[r] = "finding" => found[r] \in Advisors
                      /\ pc[r] \in {"target", "writing"} /\ found[r] # None =>
                           /\ rowLock[found[r]] = r
                           /\ director'[found[r]]
                           /\ active'[found[r]] = TRUE
                      /\ pc[r] = "writing" =>
                           rowLock[target[r]] = r /\ active'[target[r]] = TRUE
    BY <1>1 DEF Decision, IsDirector
  <2>1. \A u \in Advisors : IsDirector(u) => director'[u] /\ active'[u] = TRUE
    BY <1>1, <1>2 DEF IsDirector
  <2>2. \A u \in Advisors : active[u] = TRUE /\ rowLock[u] = r => active'[u] = TRUE
    <3>1. active[v] = TRUE => active[v] # None
      OBVIOUS
    <3>2. rowLock[v] = r => rowLock[v] # None
      OBVIOUS
    <3> QED BY <1>1, <1>2, <3>1, <3>2
  <2>3. found[r] \in Advisors \cup {None}
    BY DEF IInv, TypeOK
  <2>4. pc[r] = "writing" => target[r] \in Advisors
    BY DEF IInv, Decision, Running
  <2> QED BY <2>1, <2>2, <2>3, <2>4 DEF IInv, Decision
<1>6. Directors' = (IF d THEN {v} ELSE Directors)
  BY <1>1, <1>2, <1>4, DirectorsAre DEF IInv, OneDirector, Directors, IsDirector
<1>7. TrailTruthful'
  <2>1. CASE d
    BY <1>1, <1>6, <2>1, TrailExtended DEF IInv
  <2>2. CASE ~d
    BY <1>1, <1>6, <2>2, TrailUnchanged DEF IInv
  <2> QED BY <2>1, <2>2
<1>8. Directors # {} => Directors' # {}
  BY <1>6
<1> QED BY <1>3, <1>4, <1>5, <1>7, <1>8 DEF IInv

(* The end of a transaction: the locks it releases are its own. *)
LEMMA ReleaseKeeps ==
  ASSUME IInv, NEW r \in Ops, End(r)
  PROVE  /\ rowLock' \in [Advisors -> Ops \cup {None}]
         /\ pc' \in [Ops -> {"ready", "done"} \cup Running]
         /\ pc'[r] = "done"
         /\ \A q \in Ops : q # r => pc'[q] = pc[q]
         /\ \A u \in Advisors, q \in Ops : q # r /\ rowLock[u] = q => rowLock'[u] = q
         /\ UNCHANGED <<target, found>>
BY DEF IInv, TypeOK, End, Release

(* A step of an op changes the row of another op's director never. *)
LEMMA OpKeepsTable ==
  ASSUME IInv, NEW r \in Ops, UNCHANGED advisorVars,
         rowLock' \in [Advisors -> Ops \cup {None}],
         pc' \in [Ops -> {"ready", "done"} \cup Running],
         target' \in [Ops -> Advisors \cup {None}],
         found' \in [Ops -> Advisors \cup {None}],
         \A q \in Ops : q # r => /\ pc'[q] = pc[q]
                                /\ target'[q] = target[q]
                                /\ found'[q] = found[q],
         \A u \in Advisors, q \in Ops : q # r /\ rowLock[u] = q => rowLock'[u] = q,
         /\ pc'[r] \in Running => target'[r] \in Advisors
         /\ pc'[r] = "ready" => found'[r] = None
         /\ pc'[r] = "finding" => found'[r] \in Advisors
         /\ pc'[r] \in {"target", "writing"} /\ found'[r] # None =>
              rowLock'[found'[r]] = r /\ IsDirector(found'[r])
         /\ pc'[r] = "writing" => rowLock'[target'[r]] = r /\ active[target'[r]] = TRUE
  PROVE  IInv' /\ Directors' = Directors
<1>1. Directors' = Directors /\ TrailTruthful'
  BY TrailUnchanged DEF IInv, advisorVars, Directors, IsDirector
<1>2. TypeOK' /\ OneDirector'
  BY DEF IInv, TypeOK, OneDirector, advisorVars
<1>3. Decision'
  <2> SUFFICES ASSUME NEW q \in Ops
               PROVE  /\ pc'[q] = "ready" => found'[q] = None
                      /\ pc'[q] \in Running => target'[q] \in Advisors
                      /\ pc'[q] = "finding" => found'[q] \in Advisors
                      /\ pc'[q] \in {"target", "writing"} /\ found'[q] # None =>
                           rowLock'[found'[q]] = q /\ IsDirector(found'[q])
                      /\ pc'[q] = "writing" =>
                           rowLock'[target'[q]] = q /\ active[target'[q]] = TRUE
    BY DEF Decision, IsDirector, advisorVars
  <2>1. CASE q = r
    BY <2>1
  <2>2. CASE q # r
    <3>1. found[q] \in Advisors \cup {None}
      BY DEF IInv, TypeOK
    <3>2. pc[q] \in {"target", "writing"} /\ found[q] # None => rowLock'[found[q]] = q
      BY <2>2, <3>1 DEF IInv, Decision
    <3>3. pc[q] = "writing" => rowLock'[target[q]] = q
      BY <2>2 DEF IInv, Decision, Running, Waiting
    <3> QED BY <2>2, <3>2, <3>3 DEF IInv, Decision
  <2> QED BY <2>1, <2>2
<1> QED BY <1>1, <1>2, <1>3 DEF IInv

(* An op that ends without a write: COMMIT, an error, or a ROLLBACK. *)
LEMMA EndInv ==
  ASSUME IInv, NEW r \in Ops, End(r), UNCHANGED advisorVars
  PROVE  IInv' /\ Directors' = Directors
<1>1. /\ target' \in [Ops -> Advisors \cup {None}]
      /\ found' \in [Ops -> Advisors \cup {None}]
  BY ReleaseKeeps DEF IInv, TypeOK
<1>2. /\ rowLock' \in [Advisors -> Ops \cup {None}]
      /\ pc' \in [Ops -> {"ready", "done"} \cup Running]
      /\ pc'[r] = "done"
      /\ \A q \in Ops : q # r => pc'[q] = pc[q]
      /\ \A u \in Advisors, q \in Ops : q # r /\ rowLock[u] = q => rowLock'[u] = q
      /\ UNCHANGED <<target, found>>
  BY ReleaseKeeps
<1>3. pc'[r] \notin Running /\ pc'[r] \notin {"ready", "finding", "target", "writing"}
  BY <1>2 DEF Running, Waiting
<1> QED BY <1>1, <1>2, <1>3, OpKeepsTable

LEMMA BeginInv ==
  ASSUME IInv, NEW r \in Ops, NEW v \in Advisors, BeginAssign(r, v)
  PROVE  IInv' /\ Directors' = Directors
<1>1. /\ pc[r] = "ready"
      /\ found[r] = None
      /\ target' = [target EXCEPT ![r] = v]
      /\ UNCHANGED <<advisorVars, rowLock>>
  BY DEF BeginAssign, IInv, Decision
<1>2. PICK f \in Advisors \cup {None}, p \in {"finding", "target"} :
        /\ found' = [found EXCEPT ![r] = f]
        /\ pc' = [pc EXCEPT ![r] = p]
        /\ p = "finding" => f \in Advisors
        /\ p = "target" => f = None
  <2>1. ASSUME NEW d \in Directors, found' = [found EXCEPT ![r] = d],
               pc' = [pc EXCEPT ![r] = "finding"]
        PROVE  d \in Advisors
    BY DEF Directors
  <2>2. found = [found EXCEPT ![r] = None]
    BY <1>1 DEF IInv, TypeOK
  <2> QED BY <2>1, <2>2 DEF BeginAssign
<1>3. /\ pc' \in [Ops -> {"ready", "done"} \cup Running]
      /\ target' \in [Ops -> Advisors \cup {None}]
      /\ found' \in [Ops -> Advisors \cup {None}]
      /\ rowLock' \in [Advisors -> Ops \cup {None}]
  BY <1>1, <1>2 DEF IInv, TypeOK, Running, Waiting
<1>4. pc'[r] = p /\ target'[r] = v /\ found'[r] = f
  BY <1>1, <1>2 DEF IInv, TypeOK
<1>5. \A q \in Ops : q # r => /\ pc'[q] = pc[q]
                             /\ target'[q] = target[q]
                             /\ found'[q] = found[q]
  BY <1>1, <1>2 DEF IInv, TypeOK
<1> QED BY <1>1, <1>2, <1>3, <1>4, <1>5, OpKeepsTable

(* The lock of a free row, and what was read under it. *)
LEMMA LockDirectorInv ==
  ASSUME IInv, NEW r \in Ops, LockDirector(r)
  PROVE  IInv' /\ Directors' = Directors
<1> DEFINE d == found[r]
           f == IF IsDirector(d) THEN d ELSE None
<1>1. /\ d \in Advisors
      /\ rowLock[d] = None
      /\ target[r] \in Advisors
  BY DEF LockDirector, IInv, Decision, Running, Waiting
<1>2. /\ rowLock' = [rowLock EXCEPT ![d] = r]
      /\ found' = [found EXCEPT ![r] = f]
      /\ pc' = [pc EXCEPT ![r] = "target"]
      /\ UNCHANGED <<advisorVars, target>>
  BY DEF LockDirector
<1>3. f \in Advisors \cup {None} /\ (f # None => f = d /\ IsDirector(f))
  BY <1>1
<1> HIDE DEF f
<1>4. /\ pc' \in [Ops -> {"ready", "done"} \cup Running]
      /\ target' \in [Ops -> Advisors \cup {None}]
      /\ found' \in [Ops -> Advisors \cup {None}]
      /\ rowLock' \in [Advisors -> Ops \cup {None}]
  BY <1>1, <1>2, <1>3 DEF IInv, TypeOK, Running, Waiting
<1>5. /\ pc'[r] = "target" /\ target'[r] = target[r] /\ found'[r] = f
      /\ \A q \in Ops : q # r => /\ pc'[q] = pc[q]
                                /\ target'[q] = target[q]
                                /\ found'[q] = found[q]
  BY <1>2 DEF IInv, TypeOK
<1>6. rowLock'[d] = r /\ \A u \in Advisors : u # d => rowLock'[u] = rowLock[u]
  BY <1>1, <1>2 DEF IInv, TypeOK
<1>7. \A u \in Advisors, q \in Ops : q # r /\ rowLock[u] = q => rowLock'[u] = q
  BY <1>1, <1>6
<1> QED BY <1>1, <1>2, <1>3, <1>4, <1>5, <1>6, <1>7, OpKeepsTable, ZenonT(40)

LEMMA LockTargetInv ==
  ASSUME IInv, NEW r \in Ops, LockTarget(r)
  PROVE  IInv' /\ Directors' = Directors
<1> DEFINE v == target[r]
<1>1. /\ pc[r] = "target"
      /\ v \in Advisors
      /\ rowLock[v] \in {None, r}
      /\ active[v] = TRUE
      /\ found[r] \in Advisors \cup {None}
      /\ found[r] # None => rowLock[found[r]] = r /\ IsDirector(found[r])
  BY DEF LockTarget, IInv, TypeOK, Decision, Running, Waiting
<1>2. /\ rowLock' = [rowLock EXCEPT ![v] = r]
      /\ pc' = [pc EXCEPT ![r] = "writing"]
      /\ UNCHANGED <<advisorVars, target, found>>
  BY DEF LockTarget
<1>3. /\ pc' \in [Ops -> {"ready", "done"} \cup Running]
      /\ target' \in [Ops -> Advisors \cup {None}]
      /\ found' \in [Ops -> Advisors \cup {None}]
      /\ rowLock' \in [Advisors -> Ops \cup {None}]
  BY <1>1, <1>2 DEF IInv, TypeOK, Running, Waiting
<1>4. pc'[r] = "writing" /\ \A q \in Ops : q # r => pc'[q] = pc[q]
  BY <1>2 DEF IInv, TypeOK
<1>5. rowLock'[v] = r /\ \A u \in Advisors : u # v => rowLock'[u] = rowLock[u]
  BY <1>1, <1>2 DEF IInv, TypeOK
<1>6. \A u \in Advisors, q \in Ops : q # r /\ rowLock[u] = q => rowLock'[u] = q
  BY <1>1, <1>5
<1>7. found[r] # None => rowLock'[found[r]] = r
  BY <1>1, <1>5
<1> QED BY <1>1, <1>2, <1>3, <1>4, <1>5, <1>6, <1>7, OpKeepsTable, ZenonT(40)

(* The two setDirector calls: the predecessor is the director that the op   *)
(* has locked, and the index refuses any other.                            *)
LEMMA WriteInv ==
  ASSUME IInv, NEW r \in Ops, WriteDirector(r)
  PROVE  IInv' /\ (Directors # {} => Directors' # {})
<1> DEFINE v == target[r]
           p == found[r]
<1>1. /\ v \in Advisors /\ rowLock[v] = r /\ active[v] = TRUE
      /\ p \in Advisors \cup {None}
      /\ p # None => rowLock[p] = r /\ IsDirector(p)
      /\ active' = active
      /\ End(r)
  BY DEF WriteDirector, IInv, TypeOK, Decision, Running, Waiting
<1>2. CASE UNCHANGED <<director, trail>>
  BY <1>1, <1>2, EndInv DEF advisorVars
<1>3. CASE /\ Directors \ {p} \subseteq {v}
           /\ director' = [u \in Advisors |-> u = v \/ (director[u] /\ u # p)]
           /\ trail' = Append(trail, [previous |-> p, new |-> v])
  <2>1. \A u \in Advisors : director[u] /\ u # p => u = v
    BY <1>3, DirectorsAre DEF IInv
  <2>2. \A u \in Advisors : director'[u] <=> u = v
    BY <1>3, <2>1
  <2>3. Directors' = {v}
    BY <1>1, <2>2 DEF Directors, IsDirector
  <2>4. OneDirector'
    BY <1>1, <2>2 DEF OneDirector
  <2>5. TrailTruthful'
    <3>1. p # None => p \in Directors
      BY <1>1 DEF Directors
    <3> QED BY <1>1, <1>3, <2>3, <3>1, TrailExtended DEF IInv
  <2>6. TypeOK'
    <3>1. director' \in [Advisors -> BOOLEAN]
      BY <1>3
    <3>2. trail' \in Seq([previous : Advisors \cup {None}, new : Advisors])
      <4> DEFINE Entry == [previous : Advisors \cup {None}, new : Advisors]
                 e == [previous |-> p, new |-> v]
      <4>1. trail \in Seq(Entry) /\ e \in Entry
        BY <1>1 DEF IInv, TypeOK
      <4>2. trail' = Append(trail, e)
        BY <1>3
      <4> HIDE DEF Entry, e
      <4>3. trail' \in Seq(Entry)
        BY <4>1, <4>2
      <4> QED BY <4>3 DEF Entry
    <3> QED BY <1>1, <3>1, <3>2, ReleaseKeeps DEF IInv, TypeOK
  <2>7. Decision'
    <3> SUFFICES ASSUME NEW q \in Ops
                 PROVE  /\ pc'[q] = "ready" => found[q] = None
                        /\ pc'[q] \in Running => target[q] \in Advisors
                        /\ pc'[q] = "finding" => found[q] \in Advisors
                        /\ pc'[q] \in {"target", "writing"} /\ found[q] # None =>
                             /\ rowLock'[found[q]] = q
                             /\ director'[found[q]]
                             /\ active[found[q]] = TRUE
                        /\ pc'[q] = "writing" =>
                             rowLock'[target[q]] = q /\ active[target[q]] = TRUE
      <4>1. UNCHANGED <<active, target, found>>
        BY <1>1, ReleaseKeeps
      <4> QED BY <4>1 DEF Decision, IsDirector
    <3>1. CASE q = r
      BY <1>1, <3>1, ReleaseKeeps DEF Running, Waiting
    <3>2. CASE q # r
      <4>1. pc'[q] = pc[q] /\ \A u \in Advisors : rowLock[u] = q => rowLock'[u] = q
        BY <1>1, <3>2, ReleaseKeeps
      <4>2. found[q] \in Advisors \cup {None}
        BY DEF IInv, TypeOK
      <4>3. ASSUME pc[q] \in {"target", "writing"}, found[q] # None
            PROVE  /\ rowLock'[found[q]] = q
                   /\ director'[found[q]]
                   /\ active[found[q]] = TRUE
        <5>1. /\ found[q] \in Advisors
              /\ rowLock[found[q]] = q
              /\ director[found[q]]
              /\ active[found[q]] = TRUE
          BY <4>2, <4>3 DEF IInv, Decision, IsDirector
        <5>2. found[q] # p
          BY <5>1, <1>1, <3>2
        <5> QED BY <4>1, <5>1, <5>2, <1>3
      <4>4. pc[q] = "writing" =>
              /\ target[q] \in Advisors
              /\ rowLock[target[q]] = q
              /\ active[target[q]] = TRUE
        BY DEF IInv, Decision, Running
      <4> QED BY <4>1, <4>3, <4>4 DEF IInv, Decision
    <3> QED BY <3>1, <3>2
  <2> QED BY <2>3, <2>4, <2>5, <2>6, <2>7 DEF IInv
<1> QED BY <1>2, <1>3 DEF WriteDirector

LEMMA NextInv == IInv /\ [Next]_vars => IInv' /\ (Directors # {} => Directors' # {})
<1> SUFFICES ASSUME IInv, [Next]_vars
             PROVE  IInv' /\ (Directors # {} => Directors' # {})
  OBVIOUS
<1>1. ASSUME NEW v \in Advisors,
             \/ \E isDirector \in BOOLEAN : CreateAdvisor(v, isDirector)
             \/ ActivateAdvisor(v)
             \/ DeactivateAdvisor(v)
      PROVE  IInv' /\ (Directors # {} => Directors' # {})
  BY <1>1, RowInv
<1>2. ASSUME NEW r \in Ops, NEW v \in Advisors, BeginAssign(r, v)
      PROVE  IInv' /\ Directors' = Directors
  BY <1>2, BeginInv
<1>3. ASSUME NEW r \in Ops, AlreadyDirector(r) \/ RefuseTarget(r) \/ Abort(r)
      PROVE  IInv' /\ Directors' = Directors
  <2>1. End(r) /\ UNCHANGED advisorVars
    BY <1>3 DEF AlreadyDirector, RefuseTarget, Abort
  <2> QED BY <2>1, EndInv
<1>4. ASSUME NEW r \in Ops, OpStep(r)
      PROVE  IInv' /\ (Directors # {} => Directors' # {})
  BY <1>3, <1>4, LockDirectorInv, LockTargetInv, WriteInv DEF OpStep
<1>5. CASE UNCHANGED vars
  BY <1>5 DEF IInv, vars, advisorVars, TypeOK, Decision, OneDirector, TrailTruthful,
              Directors, IsDirector
<1> QED BY <1>1, <1>2, <1>3, <1>4, <1>5 DEF Next

(* Types, what each op decided on, one director at most, and a truthful log  *)
(* hold in every reachable state of the director's office.                  *)
THEOREM DirectorInvariant == Spec => []IInv
<1>1. Init => IInv
  BY InitInv
<1>2. IInv /\ [Next]_vars => IInv'
  BY NextInv
<1> QED BY <1>1, <1>2, PTL DEF Spec

(* Profiles, locks, ops and the audit log have their types.                 *)
THEOREM DirectorTypes == Spec => []TypeOK
<1>1. IInv => TypeOK
  BY DEF IInv
<1> QED BY <1>1, DirectorInvariant, PTL

(* There is one director at most, and an op about to write still has the    *)
(* locks and the facts on which assignDirector decided.                    *)
THEOREM OneDirectorAtMost == Spec => []DirectorDecided
<1>1. IInv => DirectorDecided
  BY DecidedFollows DEF IInv
<1> QED BY <1>1, DirectorInvariant, PTL

(* The audit log of advisorAdmin.service.ts names the director, and every  *)
(* predecessor it names is the right one.                                  *)
THEOREM AuditIsTruthful == Spec => []TrailTruthful
<1>1. IInv => TrailTruthful
  BY DEF IInv
<1> QED BY <1>1, DirectorInvariant, PTL

(* Once there is a director, no race of the advisor administration leaves   *)
(* the office vacant.                                                      *)
THEOREM OfficeNeverVacant == Spec => DirectorStays
<1>1. IInv /\ [Next]_vars => [Directors # {} => Directors' # {}]_vars
  BY NextInv
<1> QED BY <1>1, DirectorInvariant, PTL DEF Spec, DirectorStays

(***************************************************************************)
(* What the audit log leaves out                                           *)
(***************************************************************************)

(* The advisor who takes the office is not the one who leaves it. *)
Apart == \A r \in Ops : pc[r] \in {"target", "writing"} => found[r] # target[r]

LEMMA ApartInv ==
  ASSUME IInv, IInv', Apart, [Next]_vars
  PROVE  Apart'
<1>1. ASSUME NEW r \in Ops, NEW v \in Advisors, BeginAssign(r, v)
      PROVE  Apart'
  <2>1. /\ pc[r] = "ready" /\ target' = [target EXCEPT ![r] = v]
        /\ \/ pc' = [pc EXCEPT ![r] = "finding"] /\ \E d \in Directors : found' = [found EXCEPT ![r] = d]
           \/ pc' = [pc EXCEPT ![r] = "target"] /\ found' = found
    BY <1>1 DEF BeginAssign
  <2>2. found[r] = None /\ v # None
    BY <2>1 DEF IInv, Decision
  <2>3. /\ \A q \in Ops \ {r} : pc'[q] = pc[q] /\ found'[q] = found[q] /\ target'[q] = target[q]
        /\ target'[r] = v
        /\ pc'[r] = "finding" \/ found'[r] = None
    BY <2>1, <2>2 DEF IInv, TypeOK
  <2> QED BY <2>2, <2>3 DEF Apart
<1>2. ASSUME NEW r \in Ops, LockDirector(r)
      PROVE  Apart'
  <2>1. /\ pc[r] = "finding" /\ target' = target
        /\ pc' = [pc EXCEPT ![r] = "target"]
        /\ found' = [found EXCEPT ![r] = IF IsDirector(found[r]) THEN found[r] ELSE None]
        /\ ~(IsDirector(found[r]) /\ found[r] = target[r])
    BY <1>2 DEF LockDirector
  <2>2. target[r] \in Advisors
    BY <2>1 DEF IInv, Decision, Running, Waiting
  <2>3. /\ \A q \in Ops \ {r} : pc'[q] = pc[q] /\ found'[q] = found[q]
        /\ found'[r] # target[r]
    BY <2>1, <2>2 DEF IInv, TypeOK
  <2> QED BY <2>1, <2>3 DEF Apart
<1>3. ASSUME NEW r \in Ops, LockTarget(r)
      PROVE  Apart'
  <2>1. pc[r] = "target" /\ pc' = [pc EXCEPT ![r] = "writing"] /\ UNCHANGED <<target, found>>
    BY <1>3 DEF LockTarget
  <2> QED BY <2>1 DEF IInv, TypeOK, Apart
<1>4. ASSUME NEW r \in Ops, End(r)
      PROVE  Apart'
  <2>1. pc' = [pc EXCEPT ![r] = "done"] /\ UNCHANGED <<target, found>>
    BY <1>4 DEF End
  <2> QED BY <2>1 DEF IInv, TypeOK, Apart
<1>5. CASE UNCHANGED <<pc, target, found>>
  BY <1>5 DEF Apart
<1>6. \A r \in Ops : AlreadyDirector(r) \/ RefuseTarget(r) \/ WriteDirector(r) \/ Abort(r) => End(r)
  BY DEF AlreadyDirector, RefuseTarget, WriteDirector, Abort
<1>7. \A v \in Advisors : (\E isDirector \in BOOLEAN : CreateAdvisor(v, isDirector))
                            \/ ActivateAdvisor(v) \/ DeactivateAdvisor(v)
        => UNCHANGED <<pc, target, found>>
  BY DEF CreateAdvisor, ActivateAdvisor, DeactivateAdvisor
<1>8. UNCHANGED vars => UNCHANGED <<pc, target, found>>
  BY DEF vars
<1> QED BY <1>1, <1>2, <1>3, <1>4, <1>5, <1>6, <1>7, <1>8 DEF Next, OpStep

(* No change of the office goes unrecorded: the director changes in the    *)
(* step that appends one entry to the log, an entry names a predecessor    *)
(* exactly if somebody else left the office by it, and nothing is ever     *)
(* taken from the log (setDirector and the audit log in one transaction of *)
(* assignDirector).  A hand-over to the director who was appointed while   *)
(* it waited is recorded too, without a predecessor.                       *)
Recorded(v, p) ==
  /\ trail' = Append(trail, [previous |-> p, new |-> v])
  /\ Directors' = {v}
  /\ Directors \ {v} = IF p = None THEN {} ELSE {p}

ChangesAreRecorded ==
  [][\/ Directors' = Directors /\ trail' = trail
     \/ \E v \in Advisors, p \in Advisors \cup {None} : Recorded(v, p)]_vars

LEMMA StepRecorded ==
  ASSUME IInv, IInv', Apart, [Next]_vars
  PROVE  \/ Directors' = Directors /\ trail' = trail
         \/ \E v \in Advisors, p \in Advisors \cup {None} : Recorded(v, p)
<1>1. Directors = {v \in Advisors : director[v]} /\ Directors' = {v \in Advisors : director'[v]}
  BY DEF IInv, OneDirector, Directors, IsDirector
<1>2. ASSUME NEW v \in Advisors, CreateAdvisor(v, TRUE)
      PROVE  Recorded(v, None)
  <2>1. /\ director' = [director EXCEPT ![v] = TRUE] /\ Directors \subseteq {v}
        /\ trail' = Append(trail, [previous |-> None, new |-> v])
    BY <1>2 DEF CreateAdvisor, IndexAllows
  <2>2. \A u \in Advisors : director'[u] = (u = v \/ director[u])
    BY <2>1 DEF IInv, TypeOK
  <2>3. Directors' = {v} /\ Directors \ {v} = {}
    BY <1>1, <2>1, <2>2
  <2> QED BY <2>1, <2>3 DEF Recorded
<1>3. ASSUME NEW v \in Advisors, CreateAdvisor(v, FALSE)
      PROVE  Directors' = Directors /\ trail' = trail
  <2>1. active[v] = None /\ director' = [director EXCEPT ![v] = FALSE] /\ trail' = trail
    BY <1>3 DEF CreateAdvisor
  <2>2. ~director[v]
    BY <2>1 DEF IInv, OneDirector
  <2>3. director' = director
    BY <2>1, <2>2 DEF IInv, TypeOK
  <2> QED BY <1>1, <2>1, <2>3
<1>4. ASSUME NEW r \in Ops, WriteDirector(r), trail' # trail
      PROVE  /\ Recorded(target[r], found[r])
             /\ target[r] \in Advisors /\ found[r] \in Advisors \cup {None}
  <2> DEFINE v == target[r]
             p == found[r]
  <2>1. /\ pc[r] = "writing" /\ Directors \ {p} \subseteq {v}
        /\ director' = [u \in Advisors |-> u = v \/ (director[u] /\ u # p)]
        /\ trail' = Append(trail, [previous |-> p, new |-> v])
    BY <1>4 DEF WriteDirector
  <2>2. /\ v \in Advisors /\ p \in Advisors \cup {None} /\ p # v
        /\ p # None => p \in Directors
    BY <2>1 DEF IInv, Decision, Running, TypeOK, Apart, Directors
  <2>3. Directors' = {v}
    <3>1. \A u \in Advisors : director'[u] <=> u = v
      BY <1>1, <2>1
    <3> QED BY <1>1, <2>2, <3>1
  <2>4. CASE p = None
    <3>1. Directors \ {v} = {}
      BY <1>1, <2>1, <2>4
    <3> QED BY <2>1, <2>2, <2>3, <2>4, <3>1 DEF Recorded
  <2>5. CASE p # None
    <3>1. Directors \ {v} = {p}
      BY <2>1, <2>2, <2>5
    <3> QED BY <2>1, <2>2, <2>3, <2>5, <3>1 DEF Recorded
  <2> QED BY <2>4, <2>5
<1>5. ASSUME NEW r \in Ops, WriteDirector(r), trail' = trail
      PROVE  Directors' = Directors
  <2>1. CASE director' = director
    BY <1>1, <2>1
  <2>2. CASE trail' = Append(trail, [previous |-> found[r], new |-> target[r]])
    <3> DEFINE e == [previous |-> found[r], new |-> target[r]]
    <3>1. Len(Append(trail, e)) = Len(trail) + 1 /\ Len(trail) \in Nat
      BY DEF IInv, TypeOK
    <3> HIDE DEF e
    <3> QED BY <1>5, <2>2, <3>1 DEF e
  <2> QED BY <1>5, <2>1, <2>2 DEF WriteDirector
<1>6. UNCHANGED <<director, trail>> => Directors' = Directors /\ trail' = trail
  BY <1>1
<1>7. \A v \in Advisors : ActivateAdvisor(v) \/ DeactivateAdvisor(v) => UNCHANGED <<director, trail>>
  BY DEF ActivateAdvisor, DeactivateAdvisor
<1>8. \A r \in Ops : (\E v \in Advisors : BeginAssign(r, v)) \/ LockDirector(r)
                       \/ AlreadyDirector(r) \/ LockTarget(r) \/ RefuseTarget(r) \/ Abort(r)
        => UNCHANGED <<director, trail>>
  BY DEF BeginAssign, LockDirector, AlreadyDirector, LockTarget, RefuseTarget, Abort, advisorVars
<1>9. UNCHANGED vars => UNCHANGED <<director, trail>>
  BY DEF vars, advisorVars
<1>10. \A v \in Advisors, isDirector \in BOOLEAN : CreateAdvisor(v, isDirector) =>
         CreateAdvisor(v, TRUE) \/ CreateAdvisor(v, FALSE)
  <2>1. \A isDirector \in BOOLEAN : isDirector = TRUE \/ isDirector = FALSE
    OBVIOUS
  <2> QED BY <2>1, Zenon
<1> QED BY <1>2, <1>3, <1>4, <1>5, <1>6, <1>7, <1>8, <1>9, <1>10 DEF Next, OpStep

THEOREM OfficeIsRecorded == Spec => ChangesAreRecorded
<1>1. Init => Apart
  BY DEF Init, Apart
<1>2. IInv /\ IInv' /\ Apart /\ [Next]_vars => Apart'
  BY ApartInv
<1>3. IInv /\ IInv' /\ Apart /\ [Next]_vars =>
        [\/ Directors' = Directors /\ trail' = trail
         \/ \E v \in Advisors, p \in Advisors \cup {None} : Recorded(v, p)]_vars
  BY StepRecorded
<1> QED BY <1>1, <1>2, <1>3, DirectorInvariant, PTL DEF Spec, ChangesAreRecorded
=============================================================================
