------------------------ MODULE RuleVersions_proofs ------------------------
(***************************************************************************)
(* For any number of administrators, submissions and versions, and for a   *)
(* calendar of any length: the inductive invariant of the rule tables, and *)
(* that they keep what DatedVersions promises.                             *)
(*                                                                         *)
(* That no day has two versions is not inductive: a COMMIT publishes what  *)
(* its transaction has written, which the exclusion constraint compared    *)
(* with the others' rows some steps before (Exclusion), while the rows it  *)
(* read stayed as they were under its locks (Calls, Holding).              *)
(***************************************************************************)
EXTENDS RuleVersions, TLAPS

USE RuleAssumption

(* How far a call has come says what it asks for, which row it works on    *)
(* and what it has written.                                                *)
CallOK(o) ==
  /\ pc[o] \in {"ready", "committed", "refused"} \cup Writing
  /\ pc[o] = "ready" => found[o] = None
  /\ pc[o] # "ready" =>
       /\ input[o] \in Inputs
       /\ o \in Creates => input[o] \in Periods
       /\ o \in Deactivations => input[o].from = input[o].to
  /\ pc[o] \in {"closing", "inserting", "inserted"} => o \in Creates
  /\ pc[o] = "locking" => o \in Deactivations
  /\ pc[o] \in {"closing", "locking", "checking"} => found[o] \in Versions
  /\ found[o] # None => period[found[o]] # None
  /\ pc[o] = "closing" => period[found[o]].from < input[o].from
  /\ pc[o] = "checking" \/ (pc[o] = "writing" /\ o \in Deactivations) =>
       found[o] \in Versions /\ writer[found[o]] = o /\ draft[found[o]] # None
  /\ o \in Creates =>
       /\ period[o] # None <=> pc[o] = "committed"
       /\ pc[o] \in {"inserted", "writing"} => writer[o] = o /\ draft[o] = input[o]

Calls == \A o \in Ops : CallOK(o)

(* A row is written by the call that holds its exclusive lock: its own new *)
(* version, or the one it ends, which is still as the call found it.       *)
RowOK(v) ==
  /\ writer[v] = None => draft[v] = None
  /\ \A o \in Ops : writer[v] = o =>
       /\ pc[o] \in {"checking", "inserting", "inserted", "writing"}
       /\ v = found[o] \/ (o \in Creates /\ v = o /\ pc[o] \in {"inserted", "writing"})
       /\ v = found[o] /\ draft[v] # None =>
            /\ period[v].to = Open
            /\ period[v].from < input[o].from
            /\ draft[v] = [period[v] EXCEPT !.to = input[o].from]
  /\ readers[v] # {} => writer[v] = None /\ period[v] # None

Holding == \A v \in Versions : RowOK(v)

(* The constraint has yet to be checked for this row. *)
Fresh(v) == \E o \in Ops : pc[o] \in {"checking", "inserted"} /\ v = Checked(o)

(* Committed periods never meet, checked ones never meet, and a checked    *)
(* one meets a committed one only if the same transaction replaces it.     *)
Apart(u, v) ==
  /\ ~Overlap(period[u], period[v])
  /\ ~Fresh(u) /\ ~Fresh(v) => ~Overlap(draft[u], draft[v])
  /\ draft[v] # None /\ ~Fresh(v) =>
       ~Overlap(period[u], draft[v]) \/ (writer[u] = writer[v] /\ draft[u] # None)

Exclusion == \A u, v \in Versions : u # v => Apart(u, v)

(* A submission that computes its points holds the row's share lock.       *)
SubmissionOK(s) ==
  /\ pc[s] \in {"waiting", "storing", "committed"} =>
       found[s] \in Versions /\ period[found[s]] # None
  /\ pc[s] = "storing" => s \in readers[found[s]] /\ Covers(period[found[s]], day[s])

Sharing == \A s \in Submissions : SubmissionOK(s)

(* Someone's change as of day d or before it has been committed. *)
Asked(d) == \E o \in Ops : pc[o] = "committed" /\ input[o].from <= d

(* Without such a change the day has the rule it always had. *)
History ==
  /\ \A d \in Days : Covers(period[Seed], d) \/ Asked(d)
  /\ \A s \in Submissions :
       /\ pc[s] \in {"waiting", "storing", "committed"} =>
            Covers(period[found[s]], day[s]) \/ Asked(day[s])
       /\ pc[s] = "norule" => Asked(day[s])

IInv == TypeOK /\ Calls /\ Holding /\ Exclusion /\ Sharing /\ History

LEMMA InitInv == Init => IInv
<1> SUFFICES ASSUME Init
             PROVE  IInv
  OBVIOUS
<1> USE DEF Init
<1>1. [from |-> 0, to |-> Open] \in Periods
  BY DEF Periods, Days, Open
<1>2. TypeOK
  BY <1>1 DEF TypeOK, Days
<1>3. Calls
  BY DEF Calls, CallOK, Versions, Ops
<1>4. Holding
  BY DEF Holding, RowOK, Versions, Ops
<1>5. Exclusion
  <2>1. \A v \in Versions : period[v] = None \/ v = Seed
    OBVIOUS
  <2>2. \A v \in Versions : draft[v] = None
    OBVIOUS
  <2> QED BY <2>1, <2>2 DEF Exclusion, Apart, Overlap
<1>6. Sharing
  BY DEF Sharing, SubmissionOK
<1>7. History
  <2>1. period[Seed] = [from |-> 0, to |-> Open] /\ period[Seed] # None
    BY <1>1 DEF Versions
  <2>2. \A d \in Days : Covers(period[Seed], d)
    BY <2>1 DEF Covers, Days, Open
  <2> QED BY <2>2 DEF History
<1> QED BY <1>2, <1>3, <1>4, <1>5, <1>6, <1>7 DEF IInv

(***************************************************************************)
(* Types                                                                   *)
(***************************************************************************)

LEMMA PeriodTypes ==
  ASSUME NEW p \in Periods
  PROVE  /\ p # None /\ p \in Inputs
         /\ p.from \in Days /\ p.to \in 1..Open /\ p.from < p.to
         /\ p = [from |-> p.from, to |-> p.to]
         /\ \A e \in 1..Open : p.from < e => /\ [p EXCEPT !.to = e] \in Periods
                                            /\ [p EXCEPT !.to = e].from = p.from
                                            /\ [p EXCEPT !.to = e].to = e
BY DEF Periods, Inputs

LEMMA TypeInv ==
  ASSUME IInv, [Next]_vars
  PROVE  TypeOK'
<1> USE DEF TypeOK, rows
<1>1. ASSUME NEW o \in Creates, NEW p \in Periods, BeginCreate(o, p)
      PROVE  TypeOK'
  BY <1>1, PeriodTypes DEF IInv, BeginCreate, Goto, Ops, Writing
<1>2. ASSUME NEW o \in Deactivations, NEW v \in Versions, NEW end \in 1..MaxDay,
             BeginDeactivate(o, v, end)
      PROVE  TypeOK'
  <2>1. [from |-> end, to |-> end] \in Inputs
    BY DEF Inputs, Days, Open
  <2> QED BY <1>2, <2>1 DEF IInv, BeginDeactivate, Goto, Ops, Writing
<1>3. ASSUME NEW o \in Ops, Close(o) \/ LockRule(o)
      PROVE  TypeOK'
  <2> DEFINE v == found[o]
  <2>1. /\ v \in Versions /\ period[v] \in Periods /\ input[o] \in Inputs
    BY <1>3 DEF IInv, Calls, CallOK, Close, LockRule
  <2>2. CASE Close(o)
    <3>1. period[v].from < input[o].from
      BY <2>2 DEF IInv, Calls, CallOK, Close
    <3>2. [period[v] EXCEPT !.to = input[o].from] \in Periods
      BY <2>1, <3>1 DEF Periods, Inputs, Days, Open
    <3> QED BY <2>1, <2>2, <3>2 DEF IInv, Close, Goto, Writing
  <2>3. CASE LockRule(o)
    <3>2. [period[v] EXCEPT !.to = input[o].to] \in Periods
      BY <2>1, <2>3 DEF LockRule, Periods, Inputs, Days, Open
    <3> QED BY <2>1, <2>3, <3>2 DEF IInv, LockRule, Goto, Writing
  <2> QED BY <1>3, <2>2, <2>3
<1>4. ASSUME NEW o \in Ops, UpdateHolds(o) \/ InsertHolds(o)
      PROVE  TypeOK'
  BY <1>4 DEF IInv, UpdateHolds, InsertHolds, Goto, Writing
<1>5. ASSUME NEW o \in Ops, Insert(o)
      PROVE  TypeOK'
  <2>1. o \in Versions /\ input[o] \in Periods
    BY <1>5 DEF IInv, Calls, CallOK, Insert, Versions
  <2> QED BY <1>5, <2>1 DEF IInv, Insert, Goto, Writing
<1>6. ASSUME NEW o \in Ops, OverlapRefused(o) \/ RefuseEnd(o) \/ Abort(o)
      PROVE  TypeOK'
  BY <1>6 DEF IInv, OverlapRefused, RefuseEnd, Abort, Rollback, Release, Goto
<1>7. ASSUME NEW o \in Ops, Commit(o)
      PROVE  TypeOK'
  BY <1>7 DEF IInv, Commit, Release, Goto
<1>8. ASSUME NEW s \in Submissions, NEW d \in Days, Receive(s, d)
      PROVE  TypeOK'
  BY <1>8 DEF IInv, Receive, Goto, Reading
<1>9. ASSUME NEW s \in Submissions, SubmissionStep(s)
      PROVE  TypeOK'
  <2>1. CASE Find(s)
    BY <2>1 DEF IInv, Find, Goto, Reading
  <2>2. CASE ShareLock(s)
    <3>1. found[s] \in Versions
      BY <2>2 DEF IInv, Sharing, SubmissionOK, ShareLock
    <3> QED BY <2>2, <3>1 DEF IInv, ShareLock, Goto, Reading
  <2>3. CASE \E result \in {"committed", "refused"} : EndSubmission(s, result)
    BY <2>3 DEF IInv, EndSubmission, Goto
  <2> QED BY <1>9, <2>1, <2>2, <2>3 DEF SubmissionStep
<1>10. CASE UNCHANGED vars
  BY <1>10 DEF IInv, vars
<1> QED BY <1>1, <1>2, <1>3, <1>4, <1>5, <1>6, <1>7, <1>8, <1>9, <1>10 DEF Next, OpStep

(***************************************************************************)
(* Calls                                                                   *)
(***************************************************************************)

(* What a transaction that commits has written, row by row. *)
LEMMA Written ==
  ASSUME IInv, NEW o \in Ops, NEW v \in Versions, writer[v] = o
  PROVE  /\ pc[o] \in {"checking", "inserting", "inserted", "writing"}
         /\ \/ /\ v = found[o] /\ period[v] \in Periods
               /\ draft[v] # None =>
                    /\ period[v].to = Open
                    /\ period[v].from < input[o].from
                    /\ draft[v] \in Periods
                    /\ draft[v].from = period[v].from
                    /\ draft[v].to = input[o].from
            \/ /\ o \in Creates /\ v = o /\ pc[o] \in {"inserted", "writing"}
               /\ period[v] = None
               /\ draft[v] = input[o] /\ draft[v] \in Periods
         /\ readers[v] = {}
<1>1. RowOK(v) /\ CallOK(o)
  BY DEF IInv, Holding, Calls
<1>2. /\ pc[o] \in {"checking", "inserting", "inserted", "writing"}
      /\ v = found[o] \/ (o \in Creates /\ v = o /\ pc[o] \in {"inserted", "writing"})
      /\ readers[v] = {}
      /\ period[v] \in Periods \cup {None} /\ draft[v] \in Periods \cup {None}
  BY <1>1 DEF RowOK, IInv, TypeOK, Ops, Versions
<1>3. CASE v = found[o]
  <2>1. period[v] \in Periods
    BY <1>1, <1>2, <1>3 DEF CallOK, Versions
  <2>2. draft[v] # None =>
          /\ period[v].to = Open /\ period[v].from < input[o].from
          /\ draft[v] = [period[v] EXCEPT !.to = input[o].from]
    BY <1>1, <1>3 DEF RowOK
  <2>3. draft[v] # None => /\ draft[v] \in Periods
                           /\ draft[v].from = period[v].from
                           /\ draft[v].to = input[o].from
    BY <1>2, <2>1, <2>2, PeriodTypes DEF Periods
  <2> QED BY <1>2, <1>3, <2>1, <2>2, <2>3
<1>4. CASE o \in Creates /\ v = o /\ pc[o] \in {"inserted", "writing"}
  BY <1>1, <1>2, <1>4 DEF CallOK
<1> QED BY <1>2, <1>3, <1>4

(* A COMMIT keeps every version and its first day. *)
LEMMA CommitKeepsRows ==
  ASSUME IInv, NEW o \in Ops, Commit(o), NEW v \in Versions
  PROVE  /\ period[v] # None => period'[v] # None /\ period'[v].from = period[v].from
         /\ period'[v] # None => period[v] # None \/ v = o
<1>1. period'[v] = IF writer[v] = o /\ draft[v] # None THEN draft[v] ELSE period[v]
  BY DEF Commit
<1>2. CASE writer[v] = o
  <2>1. CASE draft[v] = None
    BY <1>1, <2>1
  <2>2. CASE draft[v] # None
    <3>1. \/ draft[v] \in Periods /\ draft[v].from = period[v].from /\ period[v] \in Periods
          \/ v = o /\ period[v] = None
      BY <1>2, <2>2, Written
    <3>2. period'[v] = draft[v]
      BY <1>1, <1>2, <2>2
    <3> QED BY <3>1, <3>2, PeriodTypes
  <2> QED BY <2>1, <2>2
<1>3. CASE writer[v] # o
  BY <1>1, <1>3
<1> QED BY <1>2, <1>3

(* A call goes on from where it was, whatever another one does. *)
LEMMA OtherCall ==
  ASSUME IInv, NEW q \in Ops,
         UNCHANGED <<pc[q], input[q], found[q]>>,
         \A v \in Versions : writer[v] = q => writer'[v] = q /\ draft'[v] = draft[v],
         \A v \in Versions : period[v] # None =>
            period'[v] # None /\ period'[v].from = period[v].from,
         q \in Creates /\ period[q] = None => period'[q] = None
  PROVE  CallOK(q)'
<1>1. CallOK(q) /\ found[q] \in Versions \cup {None}
  BY DEF IInv, Calls, TypeOK
<1>2. q \in Creates => q \in Versions
  BY DEF Versions
<1> QED BY <1>1, <1>2 DEF CallOK

LEMMA CallsInv ==
  ASSUME IInv, [Next]_vars
  PROVE  Calls'
<1> SUFFICES ASSUME NEW q \in Ops
             PROVE  CallOK(q)'
  BY DEF Calls
<1> USE DEF rows
<1>0. /\ \A o \in Ops : CallOK(o)
      /\ pc \in [Ops \cup Submissions -> {"ready", "committed", "refused", "norule"}
                                           \cup Writing \cup Reading]
      /\ found \in [Ops \cup Submissions -> Versions \cup {None}]
      /\ input \in [Ops -> Inputs \cup {None}]
      /\ period \in [Versions -> Periods \cup {None}]
      /\ draft \in [Versions -> Periods \cup {None}]
      /\ writer \in [Versions -> Ops \cup {None}]
  BY DEF IInv, Calls, TypeOK
<1>1. ASSUME NEW o \in Creates, NEW p \in Periods, BeginCreate(o, p)
      PROVE  CallOK(q)'
  <2>1. CASE q = o
    <3>1. \A v \in Versions : period[v] # None => period[v] \in Periods
      BY <1>0
    <3>2. p \in Inputs
      BY PeriodTypes
    <3> QED BY <1>0, <1>1, <2>1, <3>1, <3>2 DEF CallOK, BeginCreate, Goto, Ops, Writing
  <2>2. CASE q # o
    BY <1>0, <1>1, <2>2, OtherCall DEF BeginCreate, Goto
  <2> QED BY <2>1, <2>2
<1>2. ASSUME NEW o \in Deactivations, NEW v \in Versions, NEW end \in 1..MaxDay,
             BeginDeactivate(o, v, end)
      PROVE  CallOK(q)'
  <2>1. CASE q = o
    <3>1. [from |-> end, to |-> end] \in Inputs
      BY DEF Inputs, Days, Open
    <3> QED BY <1>0, <1>2, <2>1, <3>1 DEF CallOK, BeginDeactivate, Goto, Ops, Writing
  <2>2. CASE q # o
    BY <1>0, <1>2, <2>2, OtherCall DEF BeginDeactivate, Goto
  <2> QED BY <2>1, <2>2
<1>3. ASSUME NEW o \in Ops, Close(o) \/ LockRule(o)
      PROVE  CallOK(q)'
  <2>1. found[o] \in Versions /\ period[found[o]] \in Periods /\ writer[found[o]] = None
    BY <1>0, <1>3 DEF CallOK, Close, LockRule, Free
  <2>2. CASE q = o
    <3> DEFINE v == found[o]
    <3>1. /\ UNCHANGED <<period, input, found>>
          /\ pc[o] \in {"closing", "locking"}
          /\ pc'[o] \in {"checking", "inserting"}
          /\ writer'[v] = o
      BY <1>0, <1>3, <2>1 DEF Close, LockRule, Goto, CallOK
    <3>2. pc'[o] = "checking" => draft'[v] # None
      <4>1. pc'[o] = "checking" => \E d \in 1..Open : /\ period[v].from < d
                                                   /\ draft'[v] = [period[v] EXCEPT !.to = d]
        <5>1. CASE Close(o)
          BY <1>0, <2>1, <5>1, SMTT(30) DEF Close, Goto, CallOK, Inputs, Days, Periods, Open
        <5>2. CASE LockRule(o)
          BY <1>0, <2>1, <5>2 DEF LockRule, Goto, CallOK, Inputs, Days, Periods, Open
        <5> QED BY <1>3, <5>1, <5>2
      <4> QED BY <2>1, <4>1, PeriodTypes
    <3>3. pc'[o] = "inserting" => o \in Creates
      BY <1>0, <1>3 DEF Close, LockRule, Goto, CallOK
    <3> QED BY <1>0, <2>1, <2>2, <3>1, <3>2, <3>3 DEF CallOK, Writing
  <2>3. CASE q # o
    <3>1. UNCHANGED <<pc[q], input[q], found[q], period>>
      BY <1>0, <1>3, <2>3 DEF Close, LockRule, Goto
    <3>2. \A v \in Versions : v # found[o] => writer'[v] = writer[v] /\ draft'[v] = draft[v]
      BY <1>0, <1>3 DEF Close, LockRule
    <3>3. \A v \in Versions : writer[v] = q => v # found[o]
      BY <2>1 DEF Ops, Versions
    <3> QED BY <3>1, <3>2, <3>3, OtherCall
  <2> QED BY <2>2, <2>3
<1>4. ASSUME NEW o \in Ops, UpdateHolds(o) \/ InsertHolds(o)
      PROVE  CallOK(q)'
  <2>1. CASE q = o
    BY <1>0, <1>4, <2>1 DEF CallOK, UpdateHolds, InsertHolds, Goto, Ops, Writing
  <2>2. CASE q # o
    BY <1>0, <1>4, <2>2, OtherCall DEF UpdateHolds, InsertHolds, Goto
  <2> QED BY <2>1, <2>2
<1>5. ASSUME NEW o \in Ops, Insert(o)
      PROVE  CallOK(q)'
  <2>1. o \in Creates /\ o \in Versions /\ period[o] = None
    BY <1>0, <1>5 DEF CallOK, Insert, Versions
  <2>2. CASE q = o
    BY <1>0, <1>5, <2>1, <2>2 DEF CallOK, Insert, Goto, Writing
  <2>3. CASE q # o
    <3>1. UNCHANGED <<pc[q], input[q], found[q], period>>
      BY <1>0, <1>5, <2>3 DEF Insert, Goto
    <3>2. \A v \in Versions : v # o => writer'[v] = writer[v] /\ draft'[v] = draft[v]
      BY <1>0, <1>5 DEF Insert
    <3>3. writer[o] # q
      BY <2>1, <2>3, Written
    <3> QED BY <3>1, <3>2, <3>3, OtherCall
  <2> QED BY <2>2, <2>3
<1>6. ASSUME NEW o \in Ops, OverlapRefused(o) \/ RefuseEnd(o) \/ Abort(o)
      PROVE  CallOK(q)'
  <2>1. pc[o] \in Writing /\ Rollback(o)
    BY <1>6 DEF OverlapRefused, RefuseEnd, Abort, Writing
  <2>2. CASE q = o
    BY <1>0, <2>1, <2>2 DEF CallOK, Rollback, Release, Goto, Writing
  <2>3. CASE q # o
    BY <1>0, <2>1, <2>3, OtherCall DEF Rollback, Release, Goto
  <2> QED BY <2>2, <2>3
<1>7. ASSUME NEW o \in Ops, Commit(o)
      PROVE  CallOK(q)'
  <2>1. CASE q = o
    <3>1. o \in Creates => period'[o] # None
      BY <1>0, <1>7 DEF Commit, CallOK, Versions
    <3> QED BY <1>0, <1>7, <2>1, <3>1 DEF CallOK, Commit, Release, Goto, Writing
  <2>2. CASE q # o
    <3>1. \A v \in Versions : period[v] # None =>
             period'[v] # None /\ period'[v].from = period[v].from
      BY <1>7, CommitKeepsRows
    <3>2. q \in Creates /\ period[q] = None => period'[q] = None
      BY <1>7, <2>2, CommitKeepsRows DEF Versions
    <3>3. UNCHANGED <<pc[q], input[q], found[q]>>
      BY <1>0, <1>7, <2>2 DEF Commit, Release, Goto
    <3>4. \A v \in Versions : writer[v] = q => writer'[v] = q /\ draft'[v] = draft[v]
      BY <1>7, <2>2 DEF Commit, Release
    <3> QED BY <3>1, <3>2, <3>3, <3>4, OtherCall
  <2> QED BY <2>1, <2>2
<1>8. ASSUME NEW s \in Submissions, (\E d \in Days : Receive(s, d)) \/ SubmissionStep(s)
      PROVE  CallOK(q)'
  <2>1. s # q
    BY DEF Ops
  <2>2. UNCHANGED <<pc[q], found[q], input, period, draft, writer>>
    BY <1>0, <1>8, <2>1 DEF Receive, SubmissionStep, Find, ShareLock, EndSubmission, Goto
  <2> QED BY <2>2, OtherCall
<1>9. CASE UNCHANGED vars
  BY <1>9, OtherCall DEF vars
<1> QED BY <1>1, <1>2, <1>3, <1>4, <1>5, <1>6, <1>7, <1>8, <1>9 DEF Next, OpStep

(***************************************************************************)
(* Rows                                                                    *)
(***************************************************************************)

(* A row that a step leaves alone, as its writer does not move. *)
LEMMA QuietRow ==
  ASSUME IInv, NEW v \in Versions,
         UNCHANGED <<draft[v], writer[v], period[v]>>,
         readers'[v] \subseteq readers[v],
         \A q \in Ops : writer[v] = q => UNCHANGED <<pc[q], found[q], input[q]>>
  PROVE  RowOK(v)'
<1>1. RowOK(v)
  BY DEF IInv, Holding
<1> QED BY <1>1 DEF RowOK

(* A row whose writer moves on to a step at which it may still hold it.    *)
LEMMA MovedWriter ==
  ASSUME IInv, NEW v \in Versions, NEW o \in Ops, writer[v] = o,
         UNCHANGED <<draft[v], writer[v], period[v], readers[v], found[o], input[o]>>,
         pc'[o] \in {"checking", "inserting", "inserted", "writing"},
         pc[o] = "inserted" => pc'[o] \in {"inserted", "writing"},
         pc[o] # "writing"
  PROVE  RowOK(v)'
<1>1. RowOK(v)
  BY DEF IInv, Holding
<1> QED BY <1>1 DEF RowOK

LEMMA HoldingInv ==
  ASSUME IInv, [Next]_vars
  PROVE  Holding'
<1> SUFFICES ASSUME NEW v \in Versions
             PROVE  RowOK(v)'
  BY DEF Holding
<1> USE DEF rows
<1>0. /\ pc \in [Ops \cup Submissions -> {"ready", "committed", "refused", "norule"}
                                           \cup Writing \cup Reading]
      /\ found \in [Ops \cup Submissions -> Versions \cup {None}]
      /\ input \in [Ops -> Inputs \cup {None}]
      /\ period \in [Versions -> Periods \cup {None}]
      /\ draft \in [Versions -> Periods \cup {None}]
      /\ writer \in [Versions -> Ops \cup {None}]
      /\ readers \in [Versions -> SUBSET Submissions]
  BY DEF IInv, TypeOK
<1>1. ASSUME NEW o \in Ops, \/ \E p \in Periods : BeginCreate(o, p)
                            \/ \E u \in Versions, end \in 1..MaxDay : BeginDeactivate(o, u, end)
      PROVE  RowOK(v)'
  <2>1. pc[o] = "ready" /\ UNCHANGED <<period, draft, writer, readers>>
    BY <1>1 DEF BeginCreate, BeginDeactivate
  <2>2. writer[v] # o
    BY <2>1, Written
  <2>3. \A q \in Ops : q # o => UNCHANGED <<pc[q], found[q], input[q]>>
    BY <1>0, <1>1 DEF BeginCreate, BeginDeactivate, Goto
  <2> QED BY <2>1, <2>2, <2>3, QuietRow
<1>2. ASSUME NEW o \in Ops, Close(o) \/ LockRule(o)
      PROVE  RowOK(v)'
  <2>1. /\ found[o] \in Versions /\ period[found[o]] \in Periods
        /\ writer[found[o]] = None /\ readers[found[o]] = {} /\ draft[found[o]] = None
        /\ pc[o] \in {"closing", "locking"}
    BY <1>0, <1>2 DEF IInv, Calls, CallOK, Holding, RowOK, Close, LockRule, Free
  <2>2. /\ \A q \in Ops : q # o => pc'[q] = pc[q]
        /\ UNCHANGED <<period, readers, input, found>>
    BY <1>0, <1>2 DEF Close, LockRule, Goto
  <2>3. CASE v = found[o]
    <3>1. writer'[v] = o /\ pc'[o] \in {"checking", "inserting"}
      BY <1>0, <1>2, <2>1, <2>3 DEF Close, LockRule, Goto
    <3>2. draft'[v] # None => /\ period[v].to = Open
                              /\ period[v].from < input[o].from
                              /\ draft'[v] = [period[v] EXCEPT !.to = input[o].from]
      <4>1. CASE Close(o)
        BY <1>0, <2>1, <2>3, <4>1 DEF IInv, Calls, CallOK, Close
      <4>2. CASE LockRule(o)
        <5>1. input[o].to = input[o].from
          BY <4>2 DEF IInv, Calls, CallOK, LockRule
        <5>2. period[v].from < input[o].to /\ period[v].to = Open
          BY <1>0, <2>1, <2>3, <4>2 DEF LockRule, Periods, Days, IInv, Calls, CallOK, Inputs, Open
        <5> QED BY <1>0, <2>1, <2>3, <4>2, <5>1, <5>2 DEF LockRule
      <4> QED BY <1>2, <4>1, <4>2
    <3> QED BY <2>1, <2>2, <2>3, <3>1, <3>2 DEF RowOK, Ops, Versions
  <2>4. CASE v # found[o]
    <3>1. writer[v] # o
      BY <2>1, Written
    <3>2. UNCHANGED <<draft[v], writer[v]>>
      BY <1>0, <1>2, <2>4 DEF Close, LockRule
    <3> QED BY <2>2, <3>1, <3>2, QuietRow
  <2> QED BY <2>3, <2>4
<1>3. ASSUME NEW o \in Ops, UpdateHolds(o) \/ InsertHolds(o)
      PROVE  RowOK(v)'
  <2>1. /\ \A q \in Ops : q # o => pc'[q] = pc[q]
        /\ UNCHANGED <<period, draft, writer, readers, input, found>>
        /\ \/ pc[o] = "checking" /\ pc'[o] \in {"inserting", "writing"}
           \/ pc[o] = "inserted" /\ pc'[o] = "writing"
    <3>1. CASE UpdateHolds(o)
      BY <1>0, <3>1 DEF UpdateHolds, Goto
    <3>2. CASE InsertHolds(o)
      BY <1>0, <3>2 DEF InsertHolds, Goto
    <3> QED BY <1>3, <3>1, <3>2
  <2>2. CASE writer[v] = o
    BY <2>1, <2>2, MovedWriter
  <2>3. CASE writer[v] # o
    BY <2>1, <2>3, QuietRow
  <2> QED BY <2>2, <2>3
<1>4. ASSUME NEW o \in Ops, Insert(o)
      PROVE  RowOK(v)'
  <2>1. /\ o \in Creates /\ pc[o] = "inserting" /\ period[o] = None
        /\ o \in Versions /\ found[o] # o
    BY <1>4 DEF IInv, Calls, CallOK, Insert, Versions
  <2>2. /\ \A q \in Ops : q # o => pc'[q] = pc[q]
        /\ pc'[o] = "inserted"
        /\ UNCHANGED <<period, readers, input, found>>
    BY <1>0, <1>4 DEF Insert, Goto
  <2>3. CASE v = o
    <3>1. writer'[v] = o /\ readers[v] = {}
      BY <1>0, <1>4, <2>1, <2>3 DEF Insert, IInv, Holding, RowOK
    <3> QED BY <2>1, <2>2, <2>3, <3>1 DEF RowOK, Ops, Versions
  <2>4. CASE v # o
    <3>1. UNCHANGED <<draft[v], writer[v]>>
      BY <1>0, <1>4, <2>4 DEF Insert
    <3>2. CASE writer[v] = o
      BY <2>1, <2>2, <3>1, <3>2, MovedWriter
    <3>3. CASE writer[v] # o
      BY <2>2, <3>1, <3>3, QuietRow
    <3> QED BY <3>2, <3>3
  <2> QED BY <2>3, <2>4
<1>5. ASSUME NEW o \in Ops,
             OverlapRefused(o) \/ RefuseEnd(o) \/ Abort(o) \/ Commit(o)
      PROVE  RowOK(v)'
  <2>1. /\ \A q \in Ops : q # o => pc'[q] = pc[q] /\ found'[q] = found[q]
        /\ Release(o)
        /\ writer[v] # o => period'[v] = period[v]
    BY <1>0, <1>5 DEF OverlapRefused, RefuseEnd, Abort, Commit, Rollback, Release, Goto
  <2>2. CASE writer[v] = o
    <3>1. writer'[v] = None /\ draft'[v] = None /\ readers[v] = {}
      BY <2>1, <2>2, Written DEF Release
    <3> QED BY <2>1, <3>1 DEF RowOK, Release, Ops
  <2>3. CASE writer[v] # o
    BY <2>1, <2>3, QuietRow DEF Release
  <2> QED BY <2>2, <2>3
<1>6. ASSUME NEW s \in Submissions, (\E d \in Days : Receive(s, d)) \/ SubmissionStep(s)
      PROVE  RowOK(v)'
  <2>1. /\ \A q \in Ops : UNCHANGED <<pc[q], found[q], input[q]>>
        /\ UNCHANGED <<period, draft, writer>>
    <3>1. \A q \in Ops : q # s
      OBVIOUS
    <3> QED BY <1>0, <1>6, <3>1 DEF Receive, SubmissionStep, Find, ShareLock, EndSubmission, Goto
  <2>2. CASE ShareLock(s)
    <3>1. readers'[v] \subseteq readers[v] \/ (v = found[s] /\ writer[v] = None)
      BY <1>0, <2>2 DEF ShareLock
    <3>2. v = found[s] => period[v] # None
      BY <2>2 DEF IInv, Sharing, SubmissionOK, ShareLock
    <3>3. RowOK(v)
      BY DEF IInv, Holding
    <3> QED BY <2>1, <3>1, <3>2, <3>3, QuietRow DEF RowOK
  <2>3. CASE ~ShareLock(s)
    <3>1. readers'[v] \subseteq readers[v]
      BY <1>0, <1>6, <2>3 DEF Receive, SubmissionStep, Find, EndSubmission
    <3> QED BY <2>1, <3>1, QuietRow
  <2> QED BY <2>2, <2>3
<1>7. CASE UNCHANGED vars
  BY <1>7, QuietRow DEF vars
<1> QED BY <1>1, <1>2, <1>3, <1>4, <1>5, <1>6, <1>7 DEF Next, OpStep, Ops

(***************************************************************************)
(* The exclusion constraint                                                *)
(***************************************************************************)

LEMMA OverlapSymmetric ==
  ASSUME NEW p, NEW q
  PROVE  Overlap(p, q) <=> Overlap(q, p)
BY DEF Overlap

LEMMA OverlapNone ==
  ASSUME NEW p
  PROVE  ~Overlap(p, None) /\ ~Overlap(None, p)
BY DEF Overlap

(* The row under check is one its call has written. *)
LEMMA FreshIsWritten ==
  ASSUME IInv, NEW o \in Ops, pc[o] \in {"checking", "inserted"}
  PROVE  Checked(o) \in Versions /\ writer[Checked(o)] = o
BY DEF IInv, Calls, CallOK, Checked, Versions

(* A row stays under check while its own call does not move. *)
LEMMA FreshStays ==
  ASSUME NEW v, NEW c, Fresh(v),
         \A q \in Ops : q # c => pc'[q] = pc[q] /\ found'[q] = found[q],
         c \in Ops /\ pc[c] \in {"checking", "inserted"} => v # Checked(c)
  PROVE  Fresh(v)'
BY DEF Fresh, Checked

(* Nothing is written and nothing is found to hold. *)
LEMMA QuietApart ==
  ASSUME IInv, NEW u \in Versions, NEW v \in Versions, u # v,
         UNCHANGED <<period, draft, writer>>,
         Fresh(u) => Fresh(u)', Fresh(v) => Fresh(v)'
  PROVE  Apart(u, v)'
<1>1. Apart(u, v)
  BY DEF IInv, Exclusion
<1> QED BY <1>1 DEF Apart, Overlap

(* A row gets its first draft, which is under check. *)
LEMMA DraftApart ==
  ASSUME IInv, NEW u \in Versions, NEW v \in Versions, u # v, NEW r \in Versions,
         UNCHANGED period, draft[r] = None,
         \A x \in Versions : x # r => draft'[x] = draft[x] /\ writer'[x] = writer[x],
         draft'[r] = None \/ Fresh(r)',
         \A x \in {u, v} : Fresh(x) => Fresh(x)'
  PROVE  Apart(u, v)'
<1>1. Apart(u, v)
  BY DEF IInv, Exclusion
<1>2. CASE u = r
  BY <1>1, <1>2 DEF Apart, Overlap
<1>3. CASE v = r
  BY <1>1, <1>3 DEF Apart, Overlap
<1>4. CASE u # r /\ v # r
  BY <1>1, <1>4 DEF Apart, Overlap
<1> QED BY <1>2, <1>3, <1>4

(* The check of a row passes. *)
LEMMA CheckApart ==
  ASSUME IInv, NEW u \in Versions, NEW v \in Versions, u # v,
         NEW o \in Ops, pc[o] \in {"checking", "inserted"},
         Rivals(o, Checked(o)) = {},
         UNCHANGED <<period, draft, writer>>,
         \A x \in Versions : x # Checked(o) /\ Fresh(x) => Fresh(x)'
  PROVE  Apart(u, v)'
<1> DEFINE r == Checked(o)
<1>1. r \in Versions /\ writer[r] = o
  BY FreshIsWritten
<1>2. Apart(u, v)
  BY DEF IInv, Exclusion
<1>3. ASSUME NEW x \in Versions, x # r
      PROVE  /\ ~Overlap(draft[x], draft[r])
             /\ ~Overlap(period[x], draft[r]) \/ (writer[x] = o /\ draft[x] # None)
  BY <1>3 DEF Rivals
<1> HIDE DEF r
<1>4. CASE u = r
  <2>1. ~Overlap(draft[u], draft[v])
    BY <1>3, <1>4, OverlapSymmetric
  <2>2. v # r
    BY <1>4
  <2> QED BY <1>2, <2>1, <2>2 DEF Apart, Overlap, r
<1>5. CASE v = r
  <2>1. /\ ~Overlap(draft[u], draft[v])
        /\ ~Overlap(period[u], draft[v]) \/ (writer[u] = writer[v] /\ draft[u] # None)
    BY <1>1, <1>3, <1>5
  <2> QED BY <1>2, <2>1 DEF Apart, Overlap
<1>6. CASE u # r /\ v # r
  BY <1>2, <1>6 DEF Apart, Overlap, r
<1> QED BY <1>4, <1>5, <1>6

(* A transaction ends: its drafts are published, once they are checked, or *)
(* dropped.                                                                *)
LEMMA ReleaseApart ==
  ASSUME IInv, NEW u \in Versions, NEW v \in Versions, u # v,
         NEW o \in Ops, Release(o),
         \A x \in Versions : writer[x] # o /\ Fresh(x) => Fresh(x)',
         \/ UNCHANGED period
         \/ /\ \A x \in Versions : writer[x] = o => ~Fresh(x)
            /\ period' = [x \in Versions |-> IF writer[x] = o /\ draft[x] # None
                                               THEN draft[x] ELSE period[x]]
  PROVE  Apart(u, v)'
<1> DEFINE Mine(x) == writer[x] = o /\ draft[x] # None
<1>1. Apart(u, v) /\ Apart(v, u)
  BY DEF IInv, Exclusion
<1>2. \A x \in Versions : /\ writer[x] = o => draft'[x] = None /\ writer'[x] = None
                          /\ writer[x] # o => draft'[x] = draft[x] /\ writer'[x] = writer[x]
  BY DEF Release
<1>3. draft'[v] # None => writer[v] # o
  BY <1>2
<1>4. CASE UNCHANGED period
  BY <1>1, <1>2, <1>4 DEF Apart, Overlap
<1>5. CASE /\ \A x \in Versions : writer[x] = o => ~Fresh(x)
           /\ period' = [x \in Versions |-> IF Mine(x) THEN draft[x] ELSE period[x]]
  <2>1. \A x \in Versions : period'[x] = IF Mine(x) THEN draft[x] ELSE period[x]
    BY <1>5
  <2>2. ~Overlap(period'[u], period'[v])
    <3>1. CASE Mine(u) /\ Mine(v)
      BY <1>1, <1>5, <2>1, <3>1 DEF Apart
    <3>2. CASE Mine(u) /\ ~Mine(v)
      <4>1. ~Overlap(period[v], draft[u])
        BY <1>1, <1>5, <3>2 DEF Apart
      <4> QED BY <2>1, <3>2, <4>1, OverlapSymmetric
    <3>3. CASE ~Mine(u) /\ Mine(v)
      BY <1>1, <1>5, <2>1, <3>3 DEF Apart
    <3>4. CASE ~Mine(u) /\ ~Mine(v)
      BY <1>1, <2>1, <3>4 DEF Apart
    <3> QED BY <3>1, <3>2, <3>3, <3>4
  <2>3. ~Fresh(u)' /\ ~Fresh(v)' => ~Overlap(draft'[u], draft'[v])
    BY <1>1, <1>2, OverlapNone DEF Apart
  <2>4. ASSUME draft'[v] # None, ~Fresh(v)'
        PROVE  ~Overlap(period'[u], draft'[v]) \/ (writer'[u] = writer'[v] /\ draft'[u] # None)
    <3>1. writer[v] # o /\ ~Fresh(v) /\ draft'[v] = draft[v] /\ writer'[v] = writer[v]
      BY <1>2, <2>4
    <3>2. CASE Mine(u)
      BY <1>1, <1>5, <2>1, <3>1, <3>2 DEF Apart
    <3>3. CASE ~Mine(u)
      BY <1>1, <1>2, <2>1, <2>4, <3>1, <3>3 DEF Apart
    <3> QED BY <3>2, <3>3
  <2> QED BY <2>2, <2>3, <2>4 DEF Apart, Overlap
<1> QED BY <1>4, <1>5

LEMMA ExclusionInv ==
  ASSUME IInv, [Next]_vars
  PROVE  Exclusion'
<1> SUFFICES ASSUME NEW u \in Versions, NEW v \in Versions, u # v
             PROVE  Apart(u, v)'
  BY DEF Exclusion
<1> USE DEF rows
<1>0. /\ pc \in [Ops \cup Submissions -> {"ready", "committed", "refused", "norule"}
                                           \cup Writing \cup Reading]
      /\ found \in [Ops \cup Submissions -> Versions \cup {None}]
      /\ draft \in [Versions -> Periods \cup {None}]
      /\ writer \in [Versions -> Ops \cup {None}]
  BY DEF IInv, TypeOK
<1>1. ASSUME NEW o \in Ops, \/ \E p \in Periods : BeginCreate(o, p)
                            \/ \E x \in Versions, end \in 1..MaxDay : BeginDeactivate(o, x, end)
      PROVE  Apart(u, v)'
  <2>1. /\ \A q \in Ops : q # o => pc'[q] = pc[q] /\ found'[q] = found[q]
        /\ pc[o] = "ready" /\ UNCHANGED <<period, draft, writer>>
    BY <1>0, <1>1 DEF BeginCreate, BeginDeactivate, Goto
  <2>2. \A x \in Versions : Fresh(x) => Fresh(x)'
    BY <2>1, FreshStays
  <2> QED BY <2>1, <2>2, QuietApart
<1>2. ASSUME NEW o \in Ops, Close(o) \/ LockRule(o)
      PROVE  Apart(u, v)'
  <2>1. /\ \A q \in Ops : q # o => pc'[q] = pc[q] /\ found'[q] = found[q]
        /\ pc[o] \in {"closing", "locking"} /\ UNCHANGED <<period, found>>
        /\ found[o] \in Versions /\ writer[found[o]] = None
    BY <1>0, <1>2 DEF IInv, Calls, CallOK, Close, LockRule, Free, Goto
  <2>2. \A x \in Versions : Fresh(x) => Fresh(x)'
    BY <2>1, FreshStays
  <2>3. \A x \in Versions : x # found[o] => draft'[x] = draft[x] /\ writer'[x] = writer[x]
    BY <1>0, <1>2 DEF Close, LockRule
  <2>4. draft[found[o]] = None
    BY <2>1 DEF IInv, Holding, RowOK
  <2>5. draft'[found[o]] = None \/ pc'[o] = "checking"
    BY <1>0, <1>2, <2>4 DEF Close, LockRule, Goto
  <2>6. pc'[o] = "checking" => Fresh(found[o])'
    BY <2>1 DEF Fresh, Checked
  <2> QED BY <2>1, <2>2, <2>3, <2>4, <2>5, <2>6, DraftApart
<1>3. ASSUME NEW o \in Ops, UpdateHolds(o) \/ InsertHolds(o)
      PROVE  Apart(u, v)'
  <2>1. /\ \A q \in Ops : q # o => pc'[q] = pc[q] /\ found'[q] = found[q]
        /\ pc[o] \in {"checking", "inserted"} /\ UNCHANGED <<period, draft, writer>>
        /\ Rivals(o, Checked(o)) = {}
    BY <1>0, <1>3 DEF UpdateHolds, InsertHolds, Checked, Goto
  <2>2. \A x \in Versions : x # Checked(o) /\ Fresh(x) => Fresh(x)'
    BY <2>1, FreshStays
  <2> QED BY <2>1, <2>2, CheckApart
<1>4. ASSUME NEW o \in Ops, Insert(o)
      PROVE  Apart(u, v)'
  <2>1. /\ \A q \in Ops : q # o => pc'[q] = pc[q] /\ found'[q] = found[q]
        /\ pc[o] = "inserting" /\ pc'[o] = "inserted" /\ UNCHANGED period
        /\ o \in Versions /\ period[o] = None
    BY <1>0, <1>4 DEF IInv, Calls, CallOK, Insert, Goto, Versions
  <2>2. \A x \in Versions : Fresh(x) => Fresh(x)'
    BY <2>1, FreshStays
  <2>3. \A x \in Versions : x # o => draft'[x] = draft[x] /\ writer'[x] = writer[x]
    BY <1>0, <1>4 DEF Insert
  <2>4. draft[o] = None
    <3>1. \A q \in Ops : writer[o] # q
      BY <2>1, Written, PeriodTypes
    <3> QED BY <1>0, <2>1, <3>1 DEF IInv, Holding, RowOK
  <2>5. Fresh(o)'
    BY <2>1 DEF Fresh, Checked
  <2> QED BY <2>1, <2>2, <2>3, <2>4, <2>5, DraftApart
<1>5. ASSUME NEW o \in Ops,
             OverlapRefused(o) \/ RefuseEnd(o) \/ Abort(o) \/ Commit(o)
      PROVE  Apart(u, v)'
  <2>1. /\ \A q \in Ops : q # o => pc'[q] = pc[q] /\ found'[q] = found[q]
        /\ Release(o)
    BY <1>0, <1>5 DEF OverlapRefused, RefuseEnd, Abort, Commit, Rollback, Release, Goto
  <2>2. \A x \in Versions : writer[x] # o /\ Fresh(x) => Fresh(x)'
    <3>1. pc[o] \in {"checking", "inserted"} => writer[Checked(o)] = o
      BY FreshIsWritten
    <3> QED BY <2>1, <3>1, FreshStays
  <2>3. CASE Commit(o)
    <3>1. \A x \in Versions : writer[x] = o => ~Fresh(x)
      BY <2>3, FreshIsWritten DEF Commit, Fresh
    <3>2. period' = [x \in Versions |-> IF writer[x] = o /\ draft[x] # None
                                          THEN draft[x] ELSE period[x]]
      BY <2>3 DEF Commit
    <3> QED BY <2>1, <2>2, <3>1, <3>2, ReleaseApart
  <2>4. CASE ~Commit(o)
    <3>1. UNCHANGED period
      BY <1>5, <2>4 DEF OverlapRefused, RefuseEnd, Abort, Rollback
    <3> QED BY <2>1, <2>2, <3>1, ReleaseApart
  <2> QED BY <2>3, <2>4
<1>6. ASSUME NEW s \in Submissions, (\E d \in Days : Receive(s, d)) \/ SubmissionStep(s)
      PROVE  Apart(u, v)'
  <2>1. /\ \A q \in Ops : q # s => pc'[q] = pc[q] /\ found'[q] = found[q]
        /\ UNCHANGED <<period, draft, writer>>
    BY <1>0, <1>6 DEF Receive, SubmissionStep, Find, ShareLock, EndSubmission, Goto
  <2>2. s \notin Ops
    OBVIOUS
  <2>3. \A x \in Versions : Fresh(x) => Fresh(x)'
    BY <2>1, <2>2, FreshStays
  <2> QED BY <2>1, <2>3, QuietApart
<1>7. CASE UNCHANGED vars
  BY <1>7, QuietApart DEF vars, Fresh, Checked
<1> QED BY <1>1, <1>2, <1>3, <1>4, <1>5, <1>6, <1>7 DEF Next, OpStep, Ops

(***************************************************************************)
(* Submissions                                                             *)
(***************************************************************************)

(* A day loses a version only to a COMMIT that asked for it. *)
LEMMA CommitKeepsCover ==
  ASSUME IInv, NEW o \in Ops, Commit(o), NEW v \in Versions, NEW d \in Days,
         Covers(period[v], d)
  PROVE  Covers(period'[v], d) \/ input[o].from <= d
<1>1. period'[v] = IF writer[v] = o /\ draft[v] # None THEN draft[v] ELSE period[v]
  BY DEF Commit
<1>2. CASE writer[v] = o /\ draft[v] # None
  <2>1. /\ draft[v] \in Periods /\ draft[v].from = period[v].from
        /\ draft[v].to = input[o].from
    BY <1>2, Written DEF Covers
  <2>2. draft[v] # None /\ input[o].from \in Nat /\ d \in Nat
    BY <1>2, <2>1 DEF Periods, Open, Days
  <2> QED BY <1>1, <1>2, <2>1, <2>2 DEF Covers
<1>3. CASE ~(writer[v] = o /\ draft[v] # None)
  BY <1>1, <1>3
<1> QED BY <1>2, <1>3

(* What the calls of the administrators leave of a submission. *)
LEMMA OpsAndSubmissions ==
  ASSUME IInv, NEW o \in Ops,
         \/ \E p \in Periods : BeginCreate(o, p)
         \/ \E v \in Versions, end \in 1..MaxDay : BeginDeactivate(o, v, end)
         \/ OpStep(o)
         \/ Abort(o)
  PROVE  /\ UNCHANGED <<readers, day>>
         /\ \A s \in Submissions : pc'[s] = pc[s] /\ found'[s] = found[s]
         /\ ~Commit(o) => UNCHANGED period
         /\ pc'[o] = "committed" <=> Commit(o)
         /\ \A q \in Ops : q # o => pc'[q] = pc[q] /\ input'[q] = input[q]
         /\ pc[o] # "committed"
<1> USE DEF rows
<1>0. /\ pc \in [Ops \cup Submissions -> {"ready", "committed", "refused", "norule"}
                                           \cup Writing \cup Reading]
      /\ found \in [Ops \cup Submissions -> Versions \cup {None}]
      /\ input \in [Ops -> Inputs \cup {None}]
      /\ \A s \in Submissions : s # o
      /\ o \in Ops \cup Submissions
  BY DEF IInv, TypeOK
<1>1. CASE \/ \E p \in Periods : BeginCreate(o, p)
           \/ \E v \in Versions, end \in 1..MaxDay : BeginDeactivate(o, v, end)
  BY <1>0, <1>1 DEF BeginCreate, BeginDeactivate, Goto, Commit
<1>2. CASE Close(o) \/ LockRule(o) \/ Insert(o)
  BY <1>0, <1>2 DEF Close, LockRule, Insert, Goto, Commit
<1>3. CASE UpdateHolds(o) \/ InsertHolds(o)
  BY <1>0, <1>3 DEF UpdateHolds, InsertHolds, Goto, Commit
<1>4. CASE OverlapRefused(o) \/ RefuseEnd(o) \/ Abort(o)
  <2>1. pc[o] # "committed" /\ Rollback(o)
    BY <1>4 DEF OverlapRefused, RefuseEnd, Abort, Writing
  <2>2. ~Commit(o)
    BY <1>0, <2>1 DEF Commit, Rollback, Goto
  <2> QED BY <1>0, <2>1, <2>2 DEF Rollback, Release, Goto
<1>5. CASE Commit(o)
  BY <1>0, <1>5 DEF Commit, Release, Goto
<1> QED BY <1>1, <1>2, <1>3, <1>4, <1>5 DEF OpStep

LEMMA SharingInv ==
  ASSUME IInv, [Next]_vars
  PROVE  Sharing'
<1> SUFFICES ASSUME NEW s \in Submissions
             PROVE  SubmissionOK(s)'
  BY DEF Sharing
<1> USE DEF rows, SubmissionOK
<1>0. /\ pc \in [Ops \cup Submissions -> {"ready", "committed", "refused", "norule"}
                                           \cup Writing \cup Reading]
      /\ found \in [Ops \cup Submissions -> Versions \cup {None}]
      /\ day \in [Submissions -> Days]
      /\ readers \in [Versions -> SUBSET Submissions]
      /\ pc[s] \in {"waiting", "storing", "committed"} =>
           found[s] \in Versions /\ period[found[s]] # None
      /\ pc[s] = "storing" => s \in readers[found[s]] /\ Covers(period[found[s]], day[s])
  BY DEF IInv, TypeOK, Sharing
<1>1. ASSUME NEW o \in Ops, \/ \E p \in Periods : BeginCreate(o, p)
                            \/ \E v \in Versions, end \in 1..MaxDay : BeginDeactivate(o, v, end)
                            \/ OpStep(o)
                            \/ Abort(o)
      PROVE  SubmissionOK(s)'
  <2>1. UNCHANGED <<readers, day, pc[s], found[s]>> /\ (~Commit(o) => UNCHANGED period)
    BY <1>1, OpsAndSubmissions
  <2>2. CASE Commit(o)
    <3>1. pc[s] \in {"waiting", "storing", "committed"} => period'[found[s]] # None
      BY <1>0, <2>2, CommitKeepsRows
    <3>2. pc[s] = "storing" => writer[found[s]] = None
      BY <1>0 DEF IInv, Holding, RowOK
    <3>3. pc[s] = "storing" => period'[found[s]] = period[found[s]]
      BY <1>0, <2>2, <3>2 DEF Commit, Ops, Versions
    <3> QED BY <1>0, <2>1, <3>1, <3>3
  <2>3. CASE ~Commit(o)
    BY <1>0, <2>1, <2>3
  <2> QED BY <2>2, <2>3
<1>2. ASSUME NEW t \in Submissions, NEW d \in Days, Receive(t, d)
      PROVE  SubmissionOK(s)'
  BY <1>0, <1>2 DEF Receive, Goto
<1>3. ASSUME NEW t \in Submissions, SubmissionStep(t)
      PROVE  SubmissionOK(s)'
  <2>1. CASE Find(t)
    BY <1>0, <2>1 DEF Find, Goto, Covers
  <2>2. CASE ShareLock(t)
    BY <1>0, <2>2 DEF ShareLock, Goto
  <2>3. ASSUME NEW result \in {"committed", "refused"}, EndSubmission(t, result)
        PROVE  SubmissionOK(s)'
    BY <1>0, <2>3 DEF EndSubmission, Goto
  <2> QED BY <1>3, <2>1, <2>2, <2>3 DEF SubmissionStep
<1>4. CASE UNCHANGED vars
  BY <1>0, <1>4 DEF vars
<1> QED BY <1>1, <1>2, <1>3, <1>4 DEF Next, Ops

LEMMA HistoryInv ==
  ASSUME IInv, [Next]_vars
  PROVE  History'
<1> USE DEF rows
<1>0. /\ pc \in [Ops \cup Submissions -> {"ready", "committed", "refused", "norule"}
                                           \cup Writing \cup Reading]
      /\ found \in [Ops \cup Submissions -> Versions \cup {None}]
      /\ day \in [Submissions -> Days]
      /\ Seed \in Versions
      /\ \A s \in Submissions : pc[s] \in {"waiting", "storing", "committed"} =>
           found[s] \in Versions
  BY DEF IInv, TypeOK, Versions, Sharing, SubmissionOK
<1>1. ASSUME NEW o \in Ops, \/ \E p \in Periods : BeginCreate(o, p)
                            \/ \E v \in Versions, end \in 1..MaxDay : BeginDeactivate(o, v, end)
                            \/ OpStep(o)
                            \/ Abort(o)
      PROVE  History'
  <2>1. /\ UNCHANGED day
        /\ \A s \in Submissions : pc'[s] = pc[s] /\ found'[s] = found[s]
        /\ ~Commit(o) => UNCHANGED period
        /\ \A q \in Ops : q # o => pc'[q] = pc[q] /\ input'[q] = input[q]
        /\ pc[o] # "committed"
    BY <1>1, OpsAndSubmissions
  <2>2. \A d \in Days : Asked(d) => Asked(d)'
    BY <2>1 DEF Asked
  <2>3. ASSUME NEW v \in Versions, NEW d \in Days, Covers(period[v], d)
        PROVE  Covers(period'[v], d) \/ Asked(d)'
    <3>1. CASE Commit(o)
      <4>1. pc'[o] = "committed" /\ input'[o] = input[o]
        BY <1>0, <3>1 DEF Commit, Release, Goto
      <4> QED BY <2>3, <3>1, <4>1, CommitKeepsCover DEF Asked
    <3>2. CASE ~Commit(o)
      BY <2>1, <2>3, <3>2
    <3> QED BY <3>1, <3>2
  <2>4. \A d \in Days : (Covers(period[Seed], d) \/ Asked(d)) => Covers(period'[Seed], d) \/ Asked(d)'
    BY <1>0, <2>2, <2>3
  <2>5. ASSUME NEW s \in Submissions
        PROVE  /\ pc'[s] \in {"waiting", "storing", "committed"} =>
                    Covers(period'[found'[s]], day'[s]) \/ Asked(day[s])'
               /\ pc'[s] = "norule" => Asked(day[s])'
    <3>1. day[s] \in Days /\ day'[s] = day[s] /\ pc'[s] = pc[s] /\ found'[s] = found[s]
      BY <1>0, <2>1
    <3>2. \A d \in Days : d = day[s] => (Asked(day[s])' <=> Asked(d)')
      BY <3>1 DEF Asked
    <3>3. /\ pc[s] \in {"waiting", "storing", "committed"} =>
               Covers(period[found[s]], day[s]) \/ Asked(day[s])
          /\ pc[s] = "norule" => Asked(day[s])
      BY DEF IInv, History
    <3> QED BY <1>0, <2>2, <2>3, <3>1, <3>2, <3>3
  <2> QED BY <2>4, <2>5 DEF IInv, History, Covers
<1>2. ASSUME NEW t \in Submissions, (\E d \in Days : Receive(t, d)) \/ SubmissionStep(t)
      PROVE  History'
  <2>1. UNCHANGED <<period, input>> /\ \A q \in Ops : pc'[q] = pc[q]
    <3>1. \A q \in Ops : q # t
      OBVIOUS
    <3> QED BY <1>0, <1>2, <3>1 DEF Receive, SubmissionStep, Find, ShareLock, EndSubmission, Goto
  <2>2. ASSUME NEW s \in Submissions
        PROVE  /\ pc'[s] \in {"waiting", "storing", "committed"} =>
                    Covers(period[found'[s]], day'[s]) \/ Asked(day'[s])
               /\ pc'[s] = "norule" => Asked(day'[s])
    <3>1. /\ day[s] \in Days
          /\ \A d \in Days : Covers(period[Seed], d) \/ Asked(d)
          /\ pc[s] \in {"waiting", "storing", "committed"} =>
               Covers(period[found[s]], day[s]) \/ Asked(day[s])
          /\ pc[s] = "norule" => Asked(day[s])
      BY <1>0 DEF IInv, History
    <3>2. CASE \E d \in Days : Receive(t, d)
      BY <1>0, <3>1, <3>2 DEF Receive, Goto
    <3>3. CASE Find(t)
      BY <1>0, <3>1, <3>3 DEF Find, Goto
    <3>4. CASE ShareLock(t)
      BY <1>0, <3>1, <3>4 DEF ShareLock, Goto
    <3>5. CASE \E result \in {"committed", "refused"} : EndSubmission(t, result)
      BY <1>0, <3>1, <3>5 DEF EndSubmission, Goto
    <3> QED BY <1>2, <3>2, <3>3, <3>4, <3>5 DEF SubmissionStep
  <2>3. \A d : Asked(d) => \E q \in Ops : pc'[q] = "committed" /\ input'[q].from <= d
    BY <2>1 DEF Asked
  <2> QED BY <2>1, <2>2, <2>3 DEF IInv, History, Asked, Covers
<1>3. CASE UNCHANGED vars
  BY <1>3 DEF vars, IInv, History, Asked, Covers
<1> QED BY <1>1, <1>2, <1>3 DEF Next, Ops

(***************************************************************************)
(* The theorems                                                            *)
(***************************************************************************)

(* The inductive invariant holds of every run of the administrators' calls *)
(* and the submissions.                                                    *)
THEOREM RulesInvariant == Spec => []IInv
<1>1. Init => IInv
  BY InitInv
<1>2. IInv /\ [Next]_vars => IInv'
  BY TypeInv, CallsInv, HoldingInv, ExclusionInv, SharingInv, HistoryInv DEF IInv
<1> QED BY <1>1, <1>2, PTL DEF Spec

(* Every variable of the rule tables and of the calls keeps its type; every *)
(* stored period ends after it begins (the tables' CHECK).                 *)
THEOREM RulesTypes == Spec => []TypeOK
<1>1. IInv => TypeOK
  BY DEF IInv
<1> QED BY <1>1, RulesInvariant, PTL

(* The rule a submission computes its points with stays in force until its *)
(* COMMIT (FOR SHARE in findEffective), and afterwards too unless someone  *)
(* dates a change back to its day.                                         *)
THEOREM RulesHeld == Spec => []RuleHeld
<1>1. IInv => LookedUpInForce
  BY DEF IInv, Sharing, SubmissionOK, LookedUpInForce
<1>2. IInv => LaterChangesAreHarmless
  BY DEF IInv, History, Asked, LaterChangesAreHarmless
<1>3. IInv => RuleHeld
  BY <1>1, <1>2 DEF RuleHeld
<1> QED BY <1>3, RulesInvariant, PTL

(* Of the rows, a COMMIT changes the one it ends, from the day asked for,  *)
(* and its own.                                                            *)
LEMMA CommitEffect ==
  ASSUME IInv, NEW o \in Ops, Commit(o)
  PROVE  /\ \A v \in Versions : v # o \/ o \notin Creates =>
              \/ period'[v] = period[v]
              \/ /\ v = found[o]
                 /\ period[v] \in Periods /\ period'[v] \in Periods
                 /\ period[v].to = Open
                 /\ period'[v].from = period[v].from
                 /\ period'[v].to = input[o].from
                 /\ period[v].from < input[o].from
         /\ o \in Creates =>
              period[o] = None /\ period'[o] = input[o] /\ input[o] \in Periods
         /\ o \in Deactivations =>
              /\ found[o] \in Versions /\ period'[found[o]].to = input[o].from
              /\ input[o].from = input[o].to
              /\ period'[found[o]] # period[found[o]]
         /\ input[o] \in Inputs
         /\ pc[o] = "writing" /\ pc'[o] = "committed"
<1>1. \A v \in Versions :
         period'[v] = IF writer[v] = o /\ draft[v] # None THEN draft[v] ELSE period[v]
  BY DEF Commit
<1>2. CallOK(o) /\ pc[o] = "writing" /\ pc'[o] = "committed"
  BY DEF IInv, TypeOK, Calls, Commit, Goto
<1>3. ASSUME NEW v \in Versions, v # o \/ o \notin Creates, period'[v] # period[v]
      PROVE  /\ v = found[o]
             /\ period[v] \in Periods /\ period'[v] \in Periods
             /\ period[v].to = Open
             /\ period'[v].from = period[v].from
             /\ period'[v].to = input[o].from
             /\ period[v].from < input[o].from
  <2>1. writer[v] = o /\ draft[v] # None /\ period'[v] = draft[v]
    BY <1>1, <1>3
  <2> QED BY <1>3, <2>1, Written
<1>4. o \in Creates => period[o] = None /\ period'[o] = input[o] /\ input[o] \in Periods
  BY <1>1, <1>2, PeriodTypes DEF CallOK, Versions
<1>5. ASSUME o \in Deactivations
      PROVE  /\ found[o] \in Versions /\ period'[found[o]].to = input[o].from
             /\ input[o].from = input[o].to
             /\ period'[found[o]] # period[found[o]]
  <2>1. /\ found[o] \in Versions /\ writer[found[o]] = o /\ draft[found[o]] # None
        /\ input[o].from = input[o].to /\ input[o] \in Inputs
        /\ o \notin Creates
    BY <1>2, <1>5 DEF CallOK
  <2>2. period'[found[o]] = draft[found[o]]
    BY <1>1, <2>1
  <2>3. period[found[o]].to = Open /\ draft[found[o]].to = input[o].from
    BY <2>1, Written
  <2>4. input[o].from # Open
    BY <2>1 DEF Inputs, Days, Open
  <2> QED BY <2>1, <2>2, <2>3, <2>4
<1> QED BY <1>2, <1>3, <1>4, <1>5 DEF CallOK

(* A day is left without a rule only by a call that asked for an end at or *)
(* before it (createPointRule and the deactivations, with their            *)
(* participant counterparts).                                              *)
THEOREM RulesCoverLostOnlyAsAsked == Spec => CoverLostOnlyAsAsked
<1> DEFINE Lost(d) == /\ \E v \in Versions : Covers(period[v], d)
                      /\ \A v \in Versions : ~Covers(period'[v], d)
           AsAsked(d) == \E o \in Ops : pc[o] # "committed" /\ pc'[o] = "committed"
                                        /\ input[o].to <= d
<1>1. IInv /\ [Next]_vars => [\A d \in Days : Lost(d) => AsAsked(d)]_vars
  <2> SUFFICES ASSUME IInv, [Next]_vars, NEW d \in Days, Lost(d)
               PROVE  AsAsked(d)
    OBVIOUS
  <2>1. period' # period
    BY DEF Covers
  <2>2. PICK o \in Ops : Commit(o)
    <3>1. ASSUME NEW s \in Submissions, (\E e \in Days : Receive(s, e)) \/ SubmissionStep(s)
          PROVE  UNCHANGED period
      BY <3>1 DEF Receive, SubmissionStep, Find, ShareLock, EndSubmission, rows
    <3> QED BY <2>1, <3>1, OpsAndSubmissions DEF Next, Ops, vars, rows
  <2>3. PICK v \in Versions : Covers(period[v], d)
    OBVIOUS
  <2>4. period'[v] # period[v]
    BY <2>3
  <2>5. v # o \/ o \notin Creates
    BY <2>2, <2>3, CommitEffect DEF Covers
  <2>6. input[o].from <= d
    BY <2>2, <2>3, CommitKeepsCover
  <2>7. CASE o \in Creates
    <3>1. period'[o] = input[o] /\ input[o] \in Periods /\ o \in Versions
      BY <2>2, <2>7, CommitEffect DEF Versions
    <3>2. ~Covers(input[o], d)
      BY <3>1
    <3>3. ~(d < input[o].to)
      BY <2>6, <3>1, <3>2, PeriodTypes DEF Covers
    <3>4. input[o].to <= d
      BY <3>1, <3>3, PeriodTypes DEF Days, Open
    <3>5. pc[o] # "committed" /\ pc'[o] = "committed"
      BY <2>2, CommitEffect
    <3> QED BY <3>4, <3>5
  <2>8. CASE o \in Deactivations
    <3>1. input[o].from = input[o].to /\ pc[o] # "committed" /\ pc'[o] = "committed"
      BY <2>2, <2>8, CommitEffect
    <3> QED BY <2>6, <3>1
  <2> QED BY <2>7, <2>8 DEF Ops
<1> QED BY <1>1, RulesInvariant, PTL DEF Spec, CoverLostOnlyAsAsked

(***************************************************************************)
(* Refinement                                                              *)
(***************************************************************************)

DaysIn(p) == {d \in Days : Covers(p, d)}

LEMMA DaysOfPeriod ==
  ASSUME NEW p \in Periods
  PROVE  /\ DaysIn(p) = p.from..(p.to - 1)
         /\ DaysIn(p) \in V!Spans
         /\ p.from \in DaysIn(p)
         /\ \A d \in DaysIn(p) : p.from <= d
         /\ p.to = Open => MaxDay \in DaysIn(p)
<1>1. /\ p # None /\ p.from \in 0..MaxDay /\ p.to \in 1..(MaxDay + 1) /\ p.from < p.to
  BY PeriodTypes DEF Days, Open
<1>2. DaysIn(p) = p.from..(p.to - 1)
  BY <1>1 DEF DaysIn, Covers, Days
<1>3. p.from \in V!Days /\ p.to - 1 \in V!Days
  BY <1>1 DEF V!Days
<1>4. DaysIn(p) \in V!Spans
  BY <1>2, <1>3 DEF V!Spans
<1> QED BY <1>1, <1>2, <1>4 DEF Open

LEMMA DaysOfNone == DaysIn(None) = {} /\ {} \in V!Spans
BY DEF DaysIn, Covers, V!Spans

LEMMA ApartDays ==
  ASSUME NEW p \in Periods \cup {None}, NEW q \in Periods \cup {None}, ~Overlap(p, q)
  PROVE  DaysIn(p) \cap DaysIn(q) = {}
<1> SUFFICES ASSUME p \in Periods, q \in Periods, NEW d \in Days, Covers(p, d), Covers(q, d)
             PROVE  FALSE
  BY DaysOfNone DEF DaysIn
<1>1. p.from \in Nat /\ p.to \in Nat /\ q.from \in Nat /\ q.to \in Nat /\ d \in Nat
  BY PeriodTypes DEF Days, Open
<1> QED BY <1>1 DEF Covers, Overlap

LEMMA OneVersion ==
  ASSUME NEW P \in [Versions -> Periods \cup {None}],
         \A u, v \in Versions : u # v => ~Overlap(P[u], P[v])
  PROVE  \A u, v \in Versions : u # v => DaysIn(P[u]) \cap DaysIn(P[v]) = {}
BY ApartDays

LEMMA InitRefines == Init => V!Init
<1> SUFFICES ASSUME Init
             PROVE  V!Init
  OBVIOUS
<1>1. TypeOK /\ Exclusion
  BY InitInv DEF IInv
<1>2. V!OneVersionPerDay
  <2>1. \A u, v \in Versions : u # v => DaysIn(period[u]) \cap DaysIn(period[v]) = {}
    BY <1>1, OneVersion DEF TypeOK, Exclusion, Apart
  <2> QED BY <2>1 DEF V!OneVersionPerDay, DaysIn, DaysOf
<1>3. \A v \in Versions : DaysOf(v) \in V!Spans
  <2>1. \A v \in Versions : DaysIn(period[v]) \in V!Spans
    BY <1>1, DaysOfPeriod, DaysOfNone DEF TypeOK
  <2> QED BY <2>1 DEF DaysIn, DaysOf
<1> QED BY <1>2, <1>3 DEF V!Init

(* A COMMIT gives a version its days, or takes the later ones from one. *)
LEMMA CommitRefines ==
  ASSUME IInv, TypeOK', Exclusion', NEW o \in Ops, Commit(o)
  PROVE  V!Next
<1> DEFINE before(v) == DaysIn(period[v])
           after(v) == DaysIn(period'[v])
           from == input[o].from
<1>1. /\ \A v \in Versions : v # o \/ o \notin Creates =>
           \/ period'[v] = period[v]
           \/ /\ v = found[o]
              /\ period[v] \in Periods /\ period'[v] \in Periods
              /\ period[v].to = Open
              /\ period'[v].from = period[v].from
              /\ period'[v].to = from
              /\ period[v].from < from
      /\ o \in Creates => period[o] = None /\ period'[o] = input[o] /\ input[o] \in Periods
      /\ o \in Deactivations => found[o] \in Versions /\ period'[found[o]] # period[found[o]]
      /\ input[o] \in Inputs
  BY CommitEffect
<1>2. from \in Days /\ Days = 0..MaxDay /\ V!Days = 0..MaxDay
  BY <1>1 DEF Inputs, Days, V!Days
<1>3. V!OneVersionPerDay'
  <2>1. \A u, v \in Versions : u # v => DaysIn(period'[u]) \cap DaysIn(period'[v]) = {}
    <3>1. /\ period' \in [Versions -> Periods \cup {None}]
          /\ \A u, v \in Versions : u # v => ~Overlap(period'[u], period'[v])
      BY DEF TypeOK, Exclusion, Apart
    <3> QED BY <3>1, OneVersion
  <2> QED BY <2>1 DEF V!OneVersionPerDay, DaysIn, DaysOf
<1>4. /\ \A v \in Versions : DaysOf(v) = before(v) /\ DaysOf(v)' = after(v)
      /\ \A v \in Versions : before(v) \subseteq Days
  BY DEF DaysIn, DaysOf
<1>5. ASSUME NEW D, from \in D, \A d \in D : d \in Days /\ from <= d
      PROVE  V!Before(D) = {d \in Days : d < from}
  BY <1>2, <1>5 DEF V!Before
<1>6. ASSUME NEW v \in Versions, v # o \/ o \notin Creates, period'[v] # period[v]
      PROVE  /\ v = found[o]
             /\ MaxDay \in before(v)
             /\ before(v) \cap {d \in Days : d < from} # {}
             /\ after(v) = before(v) \cap {d \in Days : d < from}
  <2>1. /\ v = found[o] /\ period[v] \in Periods /\ period'[v] \in Periods
        /\ period[v].to = Open /\ period'[v].from = period[v].from
        /\ period'[v].to = from /\ period[v].from < from
    BY <1>1, <1>6
  <2>2. before(v) = period[v].from..MaxDay /\ after(v) = period[v].from..(from - 1)
    BY <2>1, DaysOfPeriod DEF Open
  <2>3. period[v].from \in 0..MaxDay
    BY <2>1, PeriodTypes DEF Days
  <2> QED BY <1>2, <2>1, <2>2, <2>3
<1> HIDE DEF before, after, from
<1>7. CASE o \in Creates
  <2> DEFINE D == after(o)
  <2>1. /\ o \in Versions /\ D \in V!Spans /\ from \in D
        /\ \A d \in D : d \in Days /\ from <= d
        /\ before(o) = {}
    <3>1. period[o] = None /\ period'[o] = input[o] /\ input[o] \in Periods
      BY <1>1, <1>7
    <3>2. D = DaysIn(input[o]) /\ before(o) = {}
      BY <3>1, DaysOfNone DEF after, before
    <3>3. /\ DaysIn(input[o]) \in V!Spans /\ from \in DaysIn(input[o])
          /\ \A d \in DaysIn(input[o]) : from <= d
      BY <3>1, DaysOfPeriod DEF from
    <3> QED BY <1>7, <3>2, <3>3 DEF Versions, DaysIn
  <2>2. V!Before(D) = {d \in Days : d < from}
    BY <1>5, <2>1
  <2> HIDE DEF D
  <2>3. CASE \A v \in Versions : v # o => period'[v] = period[v]
    <3>1. \A v \in Versions : v # o => after(v) = before(v)
      BY <2>3 DEF after, before
    <3>2. [v \in Versions |-> DaysOf(v)]' = [[v \in Versions |-> DaysOf(v)] EXCEPT ![o] = D]
      BY <1>4, <3>1 DEF D
    <3>3. V!Introduce(o, D)
      BY <1>3, <1>4, <2>1, <3>2 DEF V!Introduce
    <3> QED BY <2>1, <3>3 DEF V!Next
  <2>4. CASE \E u \in Versions : u # o /\ period'[u] # period[u]
    <3>1. PICK u \in Versions : u # o /\ period'[u] # period[u]
      BY <2>4
    <3>2. /\ u = found[o] /\ MaxDay \in before(u)
          /\ before(u) \cap V!Before(D) # {}
          /\ after(u) = before(u) \cap V!Before(D)
      BY <1>6, <2>2, <3>1
    <3>3. \A v \in Versions : v # o /\ v # u => after(v) = before(v)
      BY <1>6, <3>2 DEF after, before
    <3>4. [v \in Versions |-> DaysOf(v)]'
            = [[v \in Versions |-> DaysOf(v)] EXCEPT ![o] = D, ![u] = @ \cap V!Before(D)]
      BY <1>4, <2>1, <3>1, <3>2, <3>3 DEF D
    <3>5. V!Introduce(o, D)
      BY <1>3, <1>4, <2>1, <3>1, <3>2, <3>4 DEF V!Introduce
    <3> QED BY <2>1, <3>5 DEF V!Next
  <2> QED BY <2>3, <2>4
<1>8. CASE o \in Deactivations
  <2> DEFINE D == from..MaxDay
             v == found[o]
  <2>1. D \in V!Spans
    BY <1>2 DEF V!Spans
  <2>2. V!Before(D) = {d \in Days : d < from}
    BY <1>2, <1>5
  <2>3. v \in Versions /\ period'[v] # period[v] /\ o \notin Creates
    BY <1>1, <1>8
  <2> HIDE DEF D
  <2>4. /\ MaxDay \in before(v) /\ before(v) \cap V!Before(D) # {}
        /\ after(v) = before(v) \cap V!Before(D)
    BY <1>6, <2>2, <2>3
  <2>5. \A u \in Versions : u # v => after(u) = before(u)
    BY <1>6, <2>3 DEF after, before
  <2>6. [u \in Versions |-> DaysOf(u)]'
          = [[u \in Versions |-> DaysOf(u)] EXCEPT ![v] = @ \cap V!Before(D)]
    BY <1>4, <2>3, <2>4, <2>5
  <2>7. V!End(v, D)
    BY <1>4, <2>3, <2>4, <2>6 DEF V!End
  <2> QED BY <2>1, <2>3, <2>7 DEF V!Next
<1> QED BY <1>7, <1>8 DEF Ops

(* The rule tables, with their transactions, locks and constraint,         *)
(* implement the versions of which no day has two (DatedVersions).         *)
THEOREM RulesImplementVersions == Spec => ImplementsVersions
<1>1. Init => V!Init
  BY InitRefines
<1>2. IInv /\ IInv' /\ [Next]_vars => [V!Next]_([v \in Versions |-> DaysOf(v)])
  <2> SUFFICES ASSUME IInv, IInv', [Next]_vars, ~(\E o \in Ops : Commit(o))
               PROVE  UNCHANGED [v \in Versions |-> DaysOf(v)]
    BY CommitRefines DEF IInv
  <2>1. ASSUME NEW s \in Submissions, (\E e \in Days : Receive(s, e)) \/ SubmissionStep(s)
        PROVE  UNCHANGED period
    BY <2>1 DEF Receive, SubmissionStep, Find, ShareLock, EndSubmission, rows
  <2>2. UNCHANGED period
    BY <2>1, OpsAndSubmissions DEF Next, Ops, vars, rows
  <2> QED BY <2>2 DEF DaysOf, Covers
<1> QED BY <1>1, <1>2, RulesInvariant, PTL DEF Spec, ImplementsVersions, V!Spec

(* No day has two versions of a rule, as the tables have them              *)
(* (the no_overlap constraints of the rule tables' migrations), whatever    *)
(* calls run at once.                                                      *)
OneRuleADay ==
  \A d \in Days : \A u, v \in Versions :
    Covers(period[u], d) /\ Covers(period[v], d) => u = v

LEMMA RuleOfDay == IInv => OneRuleADay
<1> SUFFICES ASSUME TypeOK, Exclusion,
                    NEW d \in Days, NEW u \in Versions, NEW v \in Versions,
                    Covers(period[u], d), Covers(period[v], d), u # v
             PROVE  FALSE
  BY DEF IInv, OneRuleADay
<1>1. period[u] \in Periods \cup {None} /\ period[v] \in Periods \cup {None}
  BY DEF TypeOK
<1>2. ~Overlap(period[u], period[v])
  BY DEF Exclusion, Apart
<1>3. DaysIn(period[u]) \cap DaysIn(period[v]) = {}
  BY <1>1, <1>2, ApartDays
<1> QED BY <1>3 DEF DaysIn

(* In every reachable state no day has two versions of the rule. *)
THEOREM NoDayHasTwoRules == Spec => []OneRuleADay
BY RuleOfDay, RulesInvariant, PTL

(* Two submissions of the same day are computed with the same rule: always *)
(* while both are in their transactions, which have its row FOR SHARE, and *)
(* once one of them is committed unless someone has dated a change back to *)
(* that day (findEffective of the rule repositories).                      *)
SameDaySameRule ==
  \A s, t \in Submissions :
    day[s] = day[t] /\ {pc[s], pc[t]} \subseteq {"storing", "committed"} =>
      found[s] = found[t] \/ ("committed" \in {pc[s], pc[t]} /\ Asked(day[s]))

THEOREM SubmissionsShareRule == Spec => []SameDaySameRule
<1>1. IInv => SameDaySameRule
  <2> SUFFICES ASSUME IInv, NEW s \in Submissions, NEW t \in Submissions, day[s] = day[t],
                      pc[s] \in {"storing", "committed"}, pc[t] \in {"storing", "committed"},
                      (pc[s] = "storing" /\ pc[t] = "storing") \/ ~Asked(day[s])
               PROVE  found[s] = found[t]
    BY DEF SameDaySameRule
  <2>1. found[s] \in Versions
    BY DEF IInv, Sharing, SubmissionOK
  <2>2. Covers(period[found[s]], day[s])
    BY DEF IInv, Sharing, SubmissionOK, History
  <2>3. found[t] \in Versions
    BY DEF IInv, Sharing, SubmissionOK
  <2>4. Covers(period[found[t]], day[t])
    BY DEF IInv, Sharing, SubmissionOK, History
  <2>5. day[s] \in Days
    BY DEF IInv, TypeOK
  <2>6. OneRuleADay
    BY RuleOfDay
  <2> QED BY <2>1, <2>2, <2>3, <2>4, <2>5, <2>6 DEF OneRuleADay
<1> QED BY <1>1, RulesInvariant, PTL
=============================================================================
