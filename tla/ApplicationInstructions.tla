---------------------- MODULE ApplicationInstructions ----------------------
(***************************************************************************)
(* The versions of one section of the instructions that applicants read    *)
(* (src/services/applicationInstruction.service.ts and its repository).    *)
(*                                                                         *)
(* Creating one closes the open-ended version under the same exclusion     *)
(* constraint as the rules have; those steps are the ones of RuleVersions. *)
(* Other than a rule, a version may also be edited as long as it has not   *)
(* started.  Whether it has is asked with CURRENT_TIMESTAMP, which stands  *)
(* still while the transaction waits for the row.                          *)
(***************************************************************************)
EXTENDS Naturals

CONSTANTS Creates,   \* calls of create
          Updates,   \* calls of update and setVisible
          Seed,      \* the version in force at first
          Texts,     \* title and content
          MaxDay,    \* bound on the calendar
          None

VARIABLES
  period, draft, writer,  \* as in RuleVersions
  pc, input, found,       \* as in RuleVersions; only create has an input
  text, visible,          \* of each version
  edit,                   \* what each call writes to its row
  begun,                  \* the date each update's transaction began
  today                   \* the date in Asia/Taipei

R == INSTANCE RuleVersions WITH
       Deactivations <- Updates, Submissions <- {},
       readers <- [v \in Creates \cup {Seed} |-> {}], day <- [s \in {} |-> 0]

Ops == R!Ops
Versions == R!Versions
Days == R!Days
Open == R!Open

rowVars == <<period, draft, writer, text, visible>>
vars == <<rowVars, pc, input, found, edit, begun, today>>

(* In another section, where the version meets none of this one's.         *)
Away == [from |-> Open, to |-> Open]

ASSUME InstructionAssumption ==
  /\ MaxDay \in Nat
  /\ Texts # {}
  /\ Creates \cap Updates = {}
  /\ Seed \notin Creates
  /\ None \notin Versions \cup Ops \cup R!Periods \cup {Away}

(* The fields of a request: a period may be wrong or not there at all.     *)
Edits ==
  [text : Texts, period : R!Inputs \cup {Away, None}]
    \cup [text : Texts, visible : BOOLEAN]
    \cup [visible : BOOLEAN]

TypeOK ==
  /\ period \in [Versions -> R!Periods \cup {Away, None}]
  /\ draft \in [Versions -> R!Periods \cup {Away, None}]
  /\ writer \in [Versions -> Ops \cup {None}]
  /\ text \in [Versions -> Texts]
  /\ visible \in [Versions -> BOOLEAN]
  /\ pc \in [Ops -> {"ready", "committed", "refused"} \cup R!Writing]
  /\ input \in [Ops -> R!Inputs \cup {None}]
  /\ found \in [Ops -> Versions \cup {None}]
  /\ edit \in [Ops -> Edits \cup {None}]
  /\ begun \in [Updates -> Days]
  /\ today \in Days

Init ==
  /\ period = [v \in Versions |-> IF v = Seed THEN [from |-> 0, to |-> Open] ELSE None]
  /\ draft = [v \in Versions |-> None]
  /\ writer = [v \in Versions |-> None]
  /\ text = [v \in Versions |-> CHOOSE t \in Texts : TRUE]
  /\ visible = [v \in Versions |-> v = Seed]
  /\ pc = [o \in Ops |-> "ready"]
  /\ input = [o \in Ops |-> None]
  /\ found = [o \in Ops |-> None]
  /\ edit = [o \in Ops |-> None]
  /\ begun = [u \in Updates |-> 0]
  /\ today = 0

(***************************************************************************)
(* create                                                                  *)
(***************************************************************************)

BeginCreate(o, p, e) ==
  /\ R!BeginCreate(o, p)
  /\ edit' = [edit EXCEPT ![o] = e]
  /\ UNCHANGED <<text, visible, begun, today>>

OfTable(step) == step /\ UNCHANGED <<text, visible, edit, begun, today>>

(* closeOpenEndedVersion *)
Close(o) == OfTable(R!Close(o))

(* Mutant: the constraint is checked against committed rows only. *)
MutantCheckCommitted(o) ==
  OfTable(/\ pc[o] \in {"checking", "inserted"}
          /\ R!MutantCommittedOnly(o, R!Checked(o)) = {}
          /\ pc' = [pc EXCEPT ![o] = IF @ = "checking" /\ o \in Creates THEN "inserting"
                                                                        ELSE "writing"]
          /\ UNCHANGED <<period, draft, writer, input, found>>)

(* The exclusion constraint holds for what was written. *)
CheckHolds(o) == OfTable(R!UpdateHolds(o) \/ R!InsertHolds(o))

Insert(o) == OfTable(R!Insert(o))

(***************************************************************************)
(* update and setVisible                                                   *)
(***************************************************************************)

BeginUpdate(o, v, e) ==
  /\ pc[o] = "ready"
  /\ period[v] # None
  /\ pc' = [pc EXCEPT ![o] = "locking"]
  /\ found' = [found EXCEPT ![o] = v]
  /\ edit' = [edit EXCEPT ![o] = e]
  /\ begun' = [begun EXCEPT ![o] = today]
  /\ UNCHANGED <<rowVars, input, today>>

(* findByIdForUpdate: the row is locked as it is after the wait. *)
LockRow(o) ==
  /\ pc[o] = "locking"
  /\ R!Free(found[o])
  /\ writer' = [writer EXCEPT ![found[o]] = o]
  /\ UNCHANGED <<period, text, visible, input, found, edit, begun, today>>

Patches(o) == "period" \in DOMAIN edit[o]
NewPeriod(o) == IF edit[o].period = None THEN period[found[o]] ELSE edit[o].period

(* getChangedFields, without display_order. *)
Changed(o) ==
  \/ edit[o].text # text[found[o]]
  \/ NewPeriod(o) # period[found[o]]

(* Mutant: the version has started when it is past its first day. *)
MutantStartsLate(o) == period[found[o]].from < begun[o]

(* has_started *)
HasStarted(o) == period[found[o]].from <= begun[o]

(* Mutant: effectiveTo is compared with an effectiveFrom in the request    *)
(* only.                                                                   *)
MutantAnyPeriod(o) == TRUE

PeriodOK(o) == NewPeriod(o) \in R!Periods \cup {Away}

Write(o, p) == draft' = [draft EXCEPT ![found[o]] = p]
Goto(o, label) == pc' = [pc EXCEPT ![o] = label]

(* The row is written: the constraint is checked unless only the text is   *)
(* new, when PostgreSQL may leave the indexes as they are.                 *)
Patch(o) ==
  /\ LockRow(o)
  /\ Patches(o)
  /\ Changed(o)
  /\ ~HasStarted(o)
  /\ PeriodOK(o)
  /\ Write(o, NewPeriod(o))
  /\ \/ Goto(o, "checking")
     \/ NewPeriod(o) = period[found[o]] /\ Goto(o, "writing")

(* display_order may be changed at any time. *)
Reorder(o) ==
  /\ LockRow(o)
  /\ Patches(o) /\ ~Changed(o)
  /\ Write(o, period[found[o]])
  /\ Goto(o, "checking")

(* setVisible: is_visible is part of an index, so this is checked as well. *)
SetVisible(o) ==
  /\ LockRow(o)
  /\ ~Patches(o) /\ edit[o].visible # visible[found[o]]
  /\ Write(o, period[found[o]])
  /\ Goto(o, "checking")

(* Nothing is changed, and the row is returned as it is. *)
KeepRow(o) ==
  /\ LockRow(o)
  /\ IF Patches(o) THEN ~Changed(o) ELSE edit[o].visible = visible[found[o]]
  /\ UNCHANGED draft
  /\ Goto(o, "writing")

(***************************************************************************)
(* The end of a transaction                                                *)
(***************************************************************************)

Forget(o) ==
  /\ edit' = [edit EXCEPT ![o] = None]
  /\ begun' = [u \in Updates |-> IF u = o THEN 0 ELSE begun[u]]
  /\ UNCHANGED today

Commit(o) ==
  LET v == IF o \in Creates THEN o ELSE found[o]
      written(field) == writer[v] = o /\ draft[v] # None /\ field \in DOMAIN edit[o]
  IN /\ R!Commit(o)
     /\ text' = IF written("text") THEN [text EXCEPT ![v] = edit[o].text] ELSE text
     /\ visible' = IF written("visible") THEN [visible EXCEPT ![v] = edit[o].visible]
                                         ELSE visible
     /\ Forget(o)

(* 409 by has_started, 422 by the period. *)
RefuseUpdate(o) ==
  /\ pc[o] = "locking"
  /\ R!Free(found[o])
  /\ Patches(o)
  /\ Changed(o)
  /\ HasStarted(o) \/ ~PeriodOK(o)
  /\ R!Rollback(o)
  /\ Forget(o)
  /\ UNCHANGED <<text, visible>>

(* 409 by the exclusion constraint. *)
OverlapRefused(o) == R!OverlapRefused(o) /\ Forget(o) /\ UNCHANGED <<text, visible>>

(* An error or a crash. *)
Abort(o) == R!Abort(o) /\ Forget(o) /\ UNCHANGED <<text, visible>>

Midnight ==
  /\ today < MaxDay
  /\ today' = today + 1
  /\ UNCHANGED <<rowVars, pc, input, found, edit, begun>>

OpStep(o) ==
  \/ pc[o] = "closing" /\ Close(o)
  \/ pc[o] \in {"checking", "inserted"} /\ (CheckHolds(o) \/ OverlapRefused(o))
  \/ pc[o] = "inserting" /\ Insert(o)
  \/ /\ pc[o] = "locking"
     /\ \/ Patch(o)
        \/ Reorder(o)
        \/ SetVisible(o)
        \/ KeepRow(o)
        \/ RefuseUpdate(o)
  \/ pc[o] = "writing" /\ Commit(o)

Next ==
  \/ \E o \in Creates, p \in R!Periods, e \in [text : Texts, visible : BOOLEAN] :
       BeginCreate(o, p, e)
  \/ \E o \in Updates, v \in Versions :
       \E e \in Edits \ [text : Texts, visible : BOOLEAN] : BeginUpdate(o, v, e)
  \/ \E o \in Ops : OpStep(o) \/ Abort(o)
  \/ Midnight

Spec == Init /\ [][Next]_vars

(* PostgreSQL ends deadlocks. *)
BreakDeadlock(o) ==
  /\ pc[o] \in {"closing", "locking", "checking", "inserted"}
  /\ R!BreakDeadlock(o)
  /\ Forget(o)
  /\ UNCHANGED <<text, visible>>

(* A transaction that has begun goes on. *)
FairSpec == Spec /\ \A o \in Ops : WF_vars(OpStep(o)) /\ WF_vars(BreakDeadlock(o))

(***************************************************************************)
(* Properties                                                              *)
(***************************************************************************)

DaysOf(v) == {d \in Days : R!Covers(period[v], d)}

(* The tables keep what DatedVersions promises: a call gives a version its *)
(* days or moves it, at most one other version is cut short by it, and no  *)
(* day gets two versions, whatever calls run at once.                      *)
V == INSTANCE DatedVersions WITH Editable <- Versions, days <- [v \in Versions |-> DaysOf(v)]
ImplementsVersions == V!Spec

(* listPublic: the versions that applicants are shown, those whose days    *)
(* are over only if they ask for them.                                     *)
Listed(historical) ==
  {v \in Versions :
     /\ period[v] # None
     /\ visible[v]
     /\ period[v].from <= today
     /\ historical \/ today < period[v].to}

(* The update that commits and found its version still to start. *)
EarlyUpdate(o, v) ==
  /\ o \in Updates /\ found[o] = v
  /\ pc[o] # "committed" /\ pc'[o] = "committed"
  /\ begun[o] < period[v].from

(* What applicants were shown stays as it was, its text and its first day, *)
(* unless an update that began before that day commits after midnight; and *)
(* they are left without instructions for the day only by a call that says *)
(* so: a new version that ends by then, an update that began before the    *)
(* version it moves, or hiding the version.                                *)
ListedStays ==
  [][/\ \A v \in Listed(TRUE) :
          text'[v] # text[v] \/ period'[v].from # period[v].from
          => \E o \in Updates : EarlyUpdate(o, v)
     /\ Listed(FALSE) # {} /\ Listed(FALSE)' = {} /\ today' = today
        => \E o \in Ops :
             /\ pc[o] # "committed" /\ pc'[o] = "committed"
             /\ \/ o \in Creates /\ input[o].from <= today
                                 /\ (input[o].to <= today \/ ~edit[o].visible)
                \/ \E v \in Versions : EarlyUpdate(o, v)
                \/ edit[o] = [visible |-> FALSE]]_vars

(* Every call ends, deadlocks between calls included. *)
CallsEnd == \A o \in Ops : pc[o] \in R!Writing ~> pc[o] \in {"committed", "refused"}
=============================================================================
