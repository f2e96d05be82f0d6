---------------------------- MODULE RuleVersions ----------------------------
(***************************************************************************)
(* The versions of one rule, participant or point, and the submissions     *)
(* that look it up (src/services/ruleAdmin.service.ts, the two rule        *)
(* repositories, and findEffective in applicationSubmission.service.ts).   *)
(*                                                                         *)
(* A version is in force on the days of [effective_from, effective_to).    *)
(* Creating one closes the open-ended version and inserts the new one; the *)
(* exclusion constraint compares each written period with the others, and  *)
(* waits where another transaction has written and not yet committed.  An  *)
(* UPDATE or SELECT that waited for a row looks again at that row only     *)
(* (READ COMMITTED).                                                       *)
(***************************************************************************)
EXTENDS Naturals

CONSTANTS Creates,        \* calls of createPointRule or createParticipantRule
          Deactivations,  \* calls of deactivatePointRule or ...ParticipantRule
          Submissions,    \* calls of submitApplication
          Seed,           \* the version the seed script installs
          MaxDay,         \* bound on the calendar
          None

Ops == Creates \cup Deactivations
Versions == Creates \cup {Seed}
Days == 0..MaxDay
Open == MaxDay + 1        \* effective_to IS NULL

(* CHECK (effective_to IS NULL OR effective_to > effective_from). *)
Periods == {p \in [from : Days, to : 1..Open] : p.from < p.to}

ASSUME RuleAssumption ==
  /\ MaxDay \in Nat
  /\ Creates \cap Deactivations = {}
  /\ Submissions \cap Ops = {}
  /\ Seed \notin Creates
  /\ None \notin Versions \cup Ops \cup Periods

Covers(p, d) == p # None /\ p.from <= d /\ d < p.to
Overlap(p, q) == p # None /\ q # None /\ p.from < q.to /\ q.from < p.to

VARIABLES
  period,     \* the committed period of each version, None before its INSERT
  draft,      \* the period an open transaction has written
  writer,     \* the transaction with the row's exclusive lock
  readers,    \* the submissions with its FOR SHARE lock
  pc,         \* how far each call is
  input,      \* the period asked for; a deactivation's is empty, at its effectiveTo
  found,      \* the row each call works on
  day         \* the date of submitted_at in Asia/Taipei

rows == <<period, draft, writer, readers>>
vars == <<rows, pc, input, found, day>>

Writing == {"closing", "locking", "checking", "inserting", "inserted", "writing"}
Reading == {"searching", "waiting", "storing"}
Inputs == [from : Days, to : 1..Open]

TypeOK ==
  /\ period \in [Versions -> Periods \cup {None}]
  /\ draft \in [Versions -> Periods \cup {None}]
  /\ writer \in [Versions -> Ops \cup {None}]
  /\ readers \in [Versions -> SUBSET Submissions]
  /\ pc \in [Ops \cup Submissions -> {"ready", "committed", "refused", "norule"}
                                        \cup Writing \cup Reading]
  /\ input \in [Ops -> Inputs \cup {None}]
  /\ found \in [Ops \cup Submissions -> Versions \cup {None}]
  /\ day \in [Submissions -> Days]

Init ==
  /\ period = [v \in Versions |-> IF v = Seed THEN [from |-> 0, to |-> Open] ELSE None]
  /\ draft = [v \in Versions |-> None]
  /\ writer = [v \in Versions |-> None]
  /\ readers = [v \in Versions |-> {}]
  /\ pc = [c \in Ops \cup Submissions |-> "ready"]
  /\ input = [o \in Ops |-> None]
  /\ found = [c \in Ops \cup Submissions |-> None]
  /\ day = [s \in Submissions |-> 0]

Goto(c, label) == pc' = [pc EXCEPT ![c] = label]

(* No other transaction's lock keeps a writer from the row. *)
Free(v) == writer[v] = None /\ readers[v] = {}

(***************************************************************************)
(* The exclusion constraint                                                *)
(***************************************************************************)

(* Another transaction has written the row and may still roll back. *)
Unsettled(o, u) == writer[u] # o /\ draft[u] # None

(* Mutant: the periods that open transactions have written are not seen. *)
MutantCommittedOnly(o, v) ==
  {u \in Versions \ {v} : draft[u] = None /\ Overlap(period[u], draft[v])}

(* The other rows whose period meets the one o wrote to row v: of its own   *)
(* rows the new values count, of the others' both.                         *)
Rivals(o, v) ==
  {u \in Versions \ {v} :
     \/ Overlap(draft[u], draft[v])
     \/ Overlap(period[u], draft[v]) /\ ~(writer[u] = o /\ draft[u] # None)}

(***************************************************************************)
(* Transactions of the administrator                                       *)
(***************************************************************************)

Release(o) ==
  /\ draft' = [v \in Versions |-> IF writer[v] = o THEN None ELSE draft[v]]
  /\ writer' = [v \in Versions |-> IF writer[v] = o THEN None ELSE writer[v]]
  /\ found' = [found EXCEPT ![o] = None]
  /\ UNCHANGED <<readers, input, day>>

(* Mutant: the UPDATE that closes a version runs outside the transaction. *)
MutantCloseOutside(o) ==
  /\ Goto(o, "refused")
  /\ period' = [v \in Versions |-> IF writer[v] = o /\ v # o /\ draft[v] # None
                                     THEN draft[v] ELSE period[v]]
  /\ Release(o)

Rollback(o) ==
  /\ Goto(o, "refused")
  /\ Release(o)
  /\ UNCHANGED period

(* closeOpenEndedVersion: the rows its snapshot selects.  Two open-ended   *)
(* versions would overlap, so there is one at most.                        *)
BeginCreate(o, p) ==
  /\ pc[o] = "ready"
  /\ input' = [input EXCEPT ![o] = p]
  /\ LET open == {v \in Versions : /\ period[v] # None
                                   /\ period[v].to = Open
                                   /\ period[v].from < p.from}
     IN \/ \E v \in open : found' = [found EXCEPT ![o] = v] /\ Goto(o, "closing")
        \/ open = {} /\ UNCHANGED found /\ Goto(o, "inserting")
  /\ UNCHANGED <<rows, day>>

(* The row is locked; it is closed if the WHERE clause still selects it. *)
Close(o) ==
  LET v == found[o]
  IN /\ pc[o] = "closing"
     /\ Free(v)
     /\ writer' = [writer EXCEPT ![v] = o]
     /\ IF period[v].to = Open /\ period[v].from < input[o].from
          THEN /\ draft' = [draft EXCEPT ![v] = [period[v] EXCEPT !.to = input[o].from]]
               /\ Goto(o, "checking")
          ELSE UNCHANGED draft /\ Goto(o, "inserting")
     /\ UNCHANGED <<period, readers, input, found, day>>

(* The UPDATE's check of the constraint passes. *)
UpdateHolds(o) ==
  /\ pc[o] = "checking"
  /\ Rivals(o, found[o]) = {}
  /\ Goto(o, IF o \in Creates THEN "inserting" ELSE "writing")
  /\ UNCHANGED <<rows, input, found, day>>

Insert(o) ==
  /\ pc[o] = "inserting"
  /\ draft' = [draft EXCEPT ![o] = input[o]]
  /\ writer' = [writer EXCEPT ![o] = o]
  /\ Goto(o, "inserted")
  /\ UNCHANGED <<period, readers, input, found, day>>

InsertHolds(o) ==
  /\ pc[o] = "inserted"
  /\ Rivals(o, o) = {}
  /\ Goto(o, "writing")
  /\ UNCHANGED <<rows, input, found, day>>

Checked(o) == IF pc[o] = "inserted" THEN o ELSE found[o]

(* Mutant: the error is answered and the transaction left open. *)
MutantLeaveOpen(o) ==
  /\ pc[o] \in {"checking", "inserted"}
  /\ \E u \in Rivals(o, Checked(o)) : ~Unsettled(o, u)
  /\ Goto(o, "refused")
  /\ UNCHANGED <<rows, input, found, day>>

(* The constraint is violated: mapConstraintError answers 409. *)
OverlapRefused(o) ==
  /\ pc[o] \in {"checking", "inserted"}
  /\ \E u \in Rivals(o, Checked(o)) : ~Unsettled(o, u)
  /\ Rollback(o)

BeginDeactivate(o, v, end) ==
  /\ pc[o] = "ready"
  /\ period[v] # None
  /\ found' = [found EXCEPT ![o] = v]
  /\ input' = [input EXCEPT ![o] = [from |-> end, to |-> end]]
  /\ Goto(o, "locking")
  /\ UNCHANGED <<rows, day>>

(* Mutant: effectiveTo is not compared with effective_from. *)
MutantAnyEnd(o) ==
  LET v == found[o]
  IN /\ pc[o] = "locking"
     /\ Free(v)
     /\ period[v].to = Open
     /\ writer' = [writer EXCEPT ![v] = o]
     /\ draft' = [draft EXCEPT ![v] = [period[v] EXCEPT !.to = input[o].to]]
     /\ Goto(o, "checking")
     /\ UNCHANGED <<period, readers, input, found, day>>

(* findByIdForUpdate, the two validations, setEffectiveTo. *)
LockRule(o) ==
  LET v == found[o]
  IN /\ pc[o] = "locking"
     /\ Free(v)
     /\ period[v].to = Open /\ input[o].to > period[v].from
     /\ writer' = [writer EXCEPT ![v] = o]
     /\ draft' = [draft EXCEPT ![v] = [period[v] EXCEPT !.to = input[o].to]]
     /\ Goto(o, "checking")
     /\ UNCHANGED <<period, readers, input, found, day>>

RefuseEnd(o) ==
  LET v == found[o]
  IN /\ pc[o] = "locking"
     /\ Free(v)
     /\ period[v].to # Open \/ input[o].to <= period[v].from
     /\ Rollback(o)

(* The audit log and COMMIT. *)
Commit(o) ==
  /\ pc[o] = "writing"
  /\ Goto(o, "committed")
  /\ period' = [v \in Versions |-> IF writer[v] = o /\ draft[v] # None
                                     THEN draft[v] ELSE period[v]]
  /\ Release(o)

(* An error or a crash. *)
Abort(o) == pc[o] \in Writing /\ Rollback(o)

(***************************************************************************)
(* Submissions                                                             *)
(***************************************************************************)

(* submittedAt is read before the transaction.  No other call reads a date, *)
(* and versions may begin and end in the past: any day will do.            *)
Receive(s, d) ==
  /\ pc[s] = "ready"
  /\ day' = [day EXCEPT ![s] = d]
  /\ Goto(s, "searching")
  /\ UNCHANGED <<rows, input, found>>

(* findEffective: the row its snapshot selects, or none. *)
Find(s) ==
  /\ pc[s] = "searching"
  /\ \/ \E v \in Versions : /\ Covers(period[v], day[s])
                            /\ found' = [found EXCEPT ![s] = v]
                            /\ Goto(s, "waiting")
     \/ /\ \A v \in Versions : ~Covers(period[v], day[s])
        /\ Goto(s, "norule")
        /\ UNCHANGED found
  /\ UNCHANGED <<rows, input, day>>

(* Mutant: a SELECT without FOR SHARE. *)
MutantNoShareLock(s) ==
  /\ pc[s] = "waiting"
  /\ Goto(s, "storing")
  /\ UNCHANGED <<rows, input, found, day>>

(* FOR SHARE waits for the writer and looks again at the row. *)
ShareLock(s) ==
  LET v == found[s]
  IN /\ pc[s] = "waiting"
     /\ writer[v] = None
     /\ IF Covers(period[v], day[s])
          THEN readers' = [readers EXCEPT ![v] = @ \cup {s}] /\ Goto(s, "storing")
          ELSE UNCHANGED readers /\ Goto(s, "norule")
     /\ UNCHANGED <<period, draft, writer, input, found, day>>

(* The transaction ends: the application is stored with the rule's id, or  *)
(* nothing is.                                                             *)
EndSubmission(s, result) ==
  /\ pc[s] = "storing"
  /\ Goto(s, result)
  /\ readers' = [v \in Versions |-> readers[v] \ {s}]
  /\ UNCHANGED <<period, draft, writer, input, found, day>>

(***************************************************************************)

WaitsFor(o, q) ==
  \/ /\ pc[o] \in {"closing", "locking"}
     /\ writer[found[o]] = q
  \/ /\ pc[o] \in {"checking", "inserted"}
     /\ \E u \in Rivals(o, Checked(o)) : writer[u] = q /\ Unsettled(o, u)

(* PostgreSQL ends a transaction of each circle of waiting transactions. *)
BreakDeadlock(o) ==
  /\ \E q \in Ops : WaitsFor(o, q)
  /\ \E circle \in SUBSET Ops :
       /\ o \in circle
       /\ \A q \in circle : /\ \E p \in circle : WaitsFor(q, p)
                            /\ \E p \in circle : WaitsFor(p, q)
  /\ Abort(o)

OpStep(o) ==
  \/ Close(o)
  \/ UpdateHolds(o)
  \/ Insert(o)
  \/ InsertHolds(o)
  \/ OverlapRefused(o)
  \/ LockRule(o)
  \/ RefuseEnd(o)
  \/ Commit(o)

SubmissionStep(s) ==
  \/ Find(s)
  \/ ShareLock(s)
  \/ \E result \in {"committed", "refused"} : EndSubmission(s, result)

Next ==
  \/ \E o \in Creates, p \in Periods : BeginCreate(o, p)
  \/ \E o \in Deactivations, v \in Versions, end \in 1..MaxDay : BeginDeactivate(o, v, end)
  \/ \E o \in Ops : OpStep(o)
  \/ \E o \in Ops : Abort(o)
  \/ \E s \in Submissions, d \in Days : Receive(s, d)
  \/ \E s \in Submissions : SubmissionStep(s)

Spec == Init /\ [][Next]_vars

(* A transaction that has begun goes on, and PostgreSQL ends deadlocks. *)
FairSpec ==
  /\ Spec
  /\ \A o \in Ops : WF_vars(OpStep(o)) /\ WF_vars(BreakDeadlock(o))
  /\ \A s \in Submissions : WF_vars(SubmissionStep(s))

(***************************************************************************)
(* Properties                                                              *)
(***************************************************************************)

DaysOf(v) == {d \in Days : Covers(period[v], d)}

(* The tables keep what DatedVersions promises although several            *)
(* administrators create and close versions at once: a call gives its      *)
(* version its days and cuts one other version short at most, in the same  *)
(* step, and no day gets two versions.                                     *)
V == INSTANCE DatedVersions WITH Editable <- {}, days <- [v \in Versions |-> DaysOf(v)]
ImplementsVersions == V!Spec

(* The version a submission computes its points with is still in force on  *)
(* its day when the submission commits, whatever an administrator does     *)
(* between the lookup and the COMMIT.                                      *)
LookedUpInForce ==
  \A s \in Submissions : pc[s] = "storing" => Covers(period[found[s]], day[s])

(* A version created or ended as of a later day touches no submission: it  *)
(* takes a date at or before the day of the submission to leave it without *)
(* a rule, or to make the rule it was stored with one that, by the table,  *)
(* was not in force.                                                       *)
LaterChangesAreHarmless ==
  \A s \in Submissions :
    \/ pc[s] = "norule"
    \/ pc[s] = "committed" /\ ~Covers(period[found[s]], day[s])
    => \E o \in Ops : pc[o] = "committed" /\ input[o].from <= day[s]

(* A submission keeps the rule it found: in force until its COMMIT, and    *)
(* afterwards too unless someone dates a change back to its day.           *)
RuleHeld == LookedUpInForce /\ LaterChangesAreHarmless

(* A day is left without a rule only by a call that asked for an end at or *)
(* before it: a call that fails half-way leaves the old version as it was, *)
(* and closing and inserting leave no gap.                                 *)
CoverLostOnlyAsAsked ==
  [][\A d \in Days :
       /\ \E v \in Versions : Covers(period[v], d)
       /\ \A v \in Versions : ~Covers(period'[v], d)
       => \E o \in Ops : pc[o] # "committed" /\ pc'[o] = "committed" /\ input[o].to <= d]_vars

(* Every call ends: row locks and the constraint's waits form circles,     *)
(* which the deadlock detector parts.                                      *)
CallsEnd ==
  \A c \in Ops \cup Submissions :
    pc[c] \in Writing \cup Reading ~> pc[c] \in {"committed", "refused", "norule"}
=============================================================================
