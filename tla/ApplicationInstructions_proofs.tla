-------------------- MODULE ApplicationInstructions_proofs --------------------
(***************************************************************************)
(* For any number of calls and texts and a calendar of any length: the     *)
(* inductive invariant of the instructions, and that they keep what        *)
(* DatedVersions promises and what applicants were shown.                  *)
(*                                                                         *)
(* A version can be moved here until its first day, between the steps of   *)
(* a call that ends it: a row that is written is as its writer found it    *)
(* after the wait (Holding), and what one call has checked against the     *)
(* constraint meets nothing another one publishes (Exclusion).             *)
(***************************************************************************)
EXTENDS ApplicationInstructions, TLAPS

USE InstructionAssumption

(* The periods a row may have. *)
Dated == R!Periods \cup {Away}

(* How far a call has come says what it asks for, which row it works on    *)
(* and what it has written.                                                *)
CallOK(o) ==
  /\ pc[o] \in {"ready", "committed", "refused"} \cup R!Writing
  /\ pc[o] = "ready" => found[o] = None
  /\ pc[o] \in R!Writing =>
       edit[o] \in IF o \in Creates THEN [text : Texts, visible : BOOLEAN]
                                    ELSE Edits \ [text : Texts, visible : BOOLEAN]
  /\ o \in Creates /\ pc[o] # "ready" => input[o] \in R!Periods
  /\ pc[o] \in {"closing", "inserting", "inserted"} => o \in Creates
  /\ pc[o] = "locking" => o \in Updates
  /\ pc[o] \in {"closing", "locking", "checking"} => found[o] \in Versions
  /\ found[o] # None => period[found[o]] # None
  /\ pc[o] = "checking" => writer[found[o]] = o /\ draft[found[o]] # None
  /\ pc[o] = "writing" /\ o \in Updates =>
       found[o] \in Versions /\ writer[found[o]] = o
  /\ o \in Creates =>
       /\ period[o] # None <=> pc[o] = "committed"
       /\ pc[o] \in {"inserted", "writing"} => writer[o] = o /\ draft[o] = input[o]

Calls == \A o \in Ops : CallOK(o)

(* What o has written to the row of the version it works on, by what it    *)
(* found there.                                                            *)
Ends(o, v) ==
  /\ period[v].to = Open
  /\ period[v].from < input[o].from
  /\ draft[v] = [period[v] EXCEPT !.to = input[o].from]

Moves(o, v) ==
  \/ begun[o] < period[v].from
  \/ draft[v] = period[v] /\ ("text" \in DOMAIN edit[o] => edit[o].text = text[v])

(* A row is written by the call that holds its exclusive lock: its own new *)
(* version, or the one it ends or edits.                                   *)
RowOK(v) ==
  /\ writer[v] = None => draft[v] = None
  /\ \A o \in Ops : writer[v] = o =>
       /\ pc[o] \in {"checking", "inserting", "inserted", "writing"}
       /\ v = found[o] \/ (o \in Creates /\ v = o /\ pc[o] \in {"inserted", "writing"})
       /\ v = found[o] /\ draft[v] # None =>
            IF o \in Creates THEN Ends(o, v) ELSE Moves(o, v)

Holding == \A v \in Versions : RowOK(v)

(* The constraint has yet to be checked for this row. *)
Fresh(v) == \E o \in Ops : pc[o] \in {"checking", "inserted"} /\ v = R!Checked(o)

(* Committed periods never meet, checked ones never meet, and a checked    *)
(* one meets a committed one only if the same transaction replaces it.     *)
Apart(u, v) ==
  /\ ~R!Overlap(period[u], period[v])
  /\ ~Fresh(u) /\ ~Fresh(v) => ~R!Overlap(draft[u], draft[v])
  /\ draft[v] # None /\ ~Fresh(v) =>
       ~R!Overlap(period[u], draft[v]) \/ (writer[u] = writer[v] /\ draft[u] # None)

Exclusion == \A u, v \in Versions : u # v => Apart(u, v)

IInv == TypeOK /\ Calls /\ Holding /\ Exclusion

LEMMA Sets ==
  /\ Ops = Creates \cup Updates /\ Versions = Creates \cup {Seed}
  /\ Days = 0..MaxDay /\ Open = MaxDay + 1 /\ MaxDay \in Nat
  /\ R!Ops = Ops /\ R!Versions = Versions /\ R!Days = Days /\ R!Open = Open
BY DEF Ops, Versions, Days, Open, R!Ops, R!Versions, R!Days, R!Open

LEMMA PeriodTypes ==
  ASSUME NEW p \in R!Periods
  PROVE  /\ p # None /\ p # Away
         /\ p.from \in Days /\ p.to \in 1..Open /\ p.from < p.to
         /\ p \in R!Inputs
<1>1. /\ R!Periods = {q \in [from : Days, to : 1..Open] : q.from < q.to}
      /\ R!Inputs = [from : Days, to : 1..Open]
  BY Sets DEF R!Periods, R!Inputs
<1>2. p.from # Open
  BY <1>1, Sets
<1>3. p # None
  OBVIOUS
<1> QED BY <1>1, <1>2, <1>3 DEF Away

LEMMA AwayTypes == Away # None /\ Away.from = Open /\ Away.to = Open
BY DEF Away

(* A version that ends earlier still has a period. *)
LEMMA Ended ==
  ASSUME NEW p \in Dated, NEW d \in Days, p.from < d
  PROVE  /\ [p EXCEPT !.to = d] \in R!Periods
         /\ [p EXCEPT !.to = d].from = p.from /\ [p EXCEPT !.to = d].to = d
<1>1. R!Periods = {q \in [from : Days, to : 1..Open] : q.from < q.to}
  BY Sets DEF R!Periods
<1>2. p \in R!Periods
  BY AwayTypes, Sets DEF Dated
<1>3. d \in 1..Open
  BY <1>1, <1>2, Sets
<1> QED BY <1>1, <1>2, <1>3

(* What the requests ask for. *)
LEMMA EditTypes ==
  ASSUME NEW e \in Edits
  PROVE  /\ "text" \in DOMAIN e => e.text \in Texts
         /\ "visible" \in DOMAIN e => e.visible \in BOOLEAN
         /\ "period" \in DOMAIN e => "text" \in DOMAIN e /\ "visible" \notin DOMAIN e
         /\ "period" \in DOMAIN e \/ "visible" \in DOMAIN e
         /\ e \notin [text : Texts, visible : BOOLEAN] /\ "period" \notin DOMAIN e
              => "text" \notin DOMAIN e /\ e = [visible |-> e.visible]
<1>1. CASE e \in [text : Texts, period : R!Inputs \cup {Away, None}]
  BY <1>1
<1>2. CASE e \in [text : Texts, visible : BOOLEAN]
  BY <1>2
<1>3. CASE e \in [visible : BOOLEAN]
  BY <1>3
<1> QED BY <1>1, <1>2, <1>3 DEF Edits

LEMMA InitInv == Init => IInv
<1> SUFFICES ASSUME Init
             PROVE  IInv
  OBVIOUS
<1> USE Sets DEF Init
<1>1. [from |-> 0, to |-> Open] \in R!Periods
  BY DEF R!Periods
<1>2. TypeOK
  <2>1. (CHOOSE t \in Texts : TRUE) \in Texts
    OBVIOUS
  <2> QED BY <1>1, <2>1 DEF TypeOK
<1>3. Calls
  BY DEF Calls, CallOK, R!Writing
<1>4. Holding
  BY DEF Holding, RowOK
<1>5. Exclusion
  <2>1. \A v \in Versions : period[v] = None \/ v = Seed
    OBVIOUS
  <2>2. \A v \in Versions : draft[v] = None
    OBVIOUS
  <2> QED BY <2>1, <2>2 DEF Exclusion, Apart, R!Overlap
<1> QED BY <1>2, <1>3, <1>4, <1>5 DEF IInv

(***************************************************************************)
(* The shapes of a step                                                    *)
(***************************************************************************)

(* A step of o moves no other call. *)
OthersStay(o) ==
  \A q \in Ops : q # o => /\ UNCHANGED <<pc[q], input[q], found[q], edit[q]>>
                          /\ q \in Updates => begun'[q] = begun[q]

Published == <<period, text, visible, today>>

(* o takes the row it has found, and may write it. *)
Takes(o) ==
  /\ found[o] \in Versions /\ period[found[o]] \in Dated
  /\ writer[found[o]] = None /\ draft[found[o]] = None
  /\ OthersStay(o) /\ UNCHANGED <<Published, input, found, edit, begun>>
  /\ draft' = [draft EXCEPT ![found[o]] = draft'[found[o]]]
  /\ writer' = [writer EXCEPT ![found[o]] = o]
  /\ pc' = [pc EXCEPT ![o] = pc'[o]]
  /\ \/ pc[o] = "closing" /\ o \in Creates /\ pc'[o] \in {"checking", "inserting"}
     \/ pc[o] = "locking" /\ o \in Updates /\ pc'[o] \in {"checking", "writing"}
  /\ pc'[o] = "checking" => draft'[found[o]] # None
  /\ draft'[found[o]] # None =>
       /\ draft'[found[o]] \in Dated
       /\ pc'[o] # "checking" => draft'[found[o]] = period[found[o]]
       /\ IF o \in Creates THEN Ends(o, found[o])' ELSE Moves(o, found[o])'

LEMMA Typed ==
  ASSUME IInv
  PROVE  /\ period \in [Versions -> Dated \cup {None}]
         /\ draft \in [Versions -> Dated \cup {None}]
         /\ writer \in [Versions -> Ops \cup {None}]
         /\ text \in [Versions -> Texts] /\ visible \in [Versions -> BOOLEAN]
         /\ DOMAIN pc = Ops /\ pc = [o \in Ops |-> pc[o]]
         /\ input \in [Ops -> R!Inputs \cup {None}]
         /\ found \in [Ops -> Versions \cup {None}]
         /\ edit \in [Ops -> Edits \cup {None}]
         /\ begun \in [Updates -> Days] /\ today \in Days
         /\ \A o \in Ops : CallOK(o)
         /\ \A v \in Versions : RowOK(v)
BY DEF IInv, TypeOK, Dated, Calls, Holding

LEMMA ClosingTakes ==
  ASSUME IInv, NEW o \in Ops, Close(o)
  PROVE  Takes(o)
<1> DEFINE v == found[o]
<1>1. /\ pc[o] = "closing" /\ o \in Creates /\ v \in Versions /\ period[v] \in Dated
      /\ writer[v] = None /\ draft[v] = None /\ input[o] \in R!Periods
  BY Typed, Sets DEF Close, OfTable, R!Close, R!Free, CallOK, RowOK
<1>2. /\ writer' = [writer EXCEPT ![v] = o]
      /\ UNCHANGED <<Published, input, found, edit, begun>>
      /\ OthersStay(o) /\ pc' = [pc EXCEPT ![o] = pc'[o]]
  BY Typed, Sets DEF Close, OfTable, R!Close, R!Goto, OthersStay, Published
<1>3. CASE period[v].to = Open /\ period[v].from < input[o].from
  <2>1. /\ draft' = [draft EXCEPT ![v] = [period[v] EXCEPT !.to = input[o].from]]
        /\ pc' = [pc EXCEPT ![o] = "checking"]
    BY <1>3, Sets DEF Close, OfTable, R!Close, R!Goto
  <2>2. /\ pc'[o] = "checking" /\ draft'[v] = [period[v] EXCEPT !.to = input[o].from]
        /\ draft' = [draft EXCEPT ![v] = draft'[v]]
    BY <1>1, <2>1, Typed
  <2>3. draft'[v] \in R!Periods /\ draft'[v] # None
    <3>1. input[o].from \in Days
      BY <1>1, PeriodTypes
    <3> QED BY <1>1, <1>3, <2>2, <3>1, Ended, PeriodTypes
  <2>4. Ends(o, v)'
    BY <1>2, <1>3, <2>2 DEF Ends, Published
  <2> QED BY <1>1, <1>2, <2>2, <2>3, <2>4 DEF Takes, Dated
<1>4. CASE ~(period[v].to = Open /\ period[v].from < input[o].from)
  <2>1. UNCHANGED draft /\ pc' = [pc EXCEPT ![o] = "inserting"]
    BY <1>4, Sets DEF Close, OfTable, R!Close, R!Goto
  <2>2. draft'[v] = None /\ draft' = [draft EXCEPT ![v] = draft'[v]] /\ pc'[o] = "inserting"
    BY <1>1, <2>1, Typed
  <2> QED BY <1>1, <1>2, <2>2 DEF Takes
<1> QED BY <1>3, <1>4

LEMMA EditingTakes ==
  ASSUME IInv, NEW o \in Ops, Patch(o) \/ Reorder(o) \/ SetVisible(o) \/ KeepRow(o)
  PROVE  Takes(o)
<1> DEFINE v == found[o]
<1> USE DEF LockRow
<1>1. /\ pc[o] = "locking" /\ o \in Updates /\ o \notin Creates
      /\ v \in Versions /\ period[v] \in Dated
      /\ writer[v] = None /\ draft[v] = None
      /\ edit[o] \in Edits \ [text : Texts, visible : BOOLEAN]
  BY Typed, Sets DEF Patch, Reorder, SetVisible, KeepRow, R!Free, CallOK, RowOK, R!Writing
<1>2. /\ writer' = [writer EXCEPT ![v] = o]
      /\ UNCHANGED <<Published, input, found, edit, begun>>
      /\ OthersStay(o) /\ pc' = [pc EXCEPT ![o] = pc'[o]]
      /\ pc'[o] \in {"checking", "writing"}
  BY Typed DEF Patch, Reorder, SetVisible, KeepRow, Goto, OthersStay, Published
<1>3. CASE Patch(o)
  <2>1. /\ draft' = [draft EXCEPT ![v] = NewPeriod(o)] /\ NewPeriod(o) \in Dated
        /\ pc'[o] # "checking" => NewPeriod(o) = period[v]
        /\ ~(period[v].from <= begun[o])
    BY <1>1, <1>3, Typed DEF Patch, Write, Goto, PeriodOK, HasStarted, Dated
  <2>2. draft'[v] = NewPeriod(o) /\ draft' = [draft EXCEPT ![v] = draft'[v]]
    BY <1>1, <2>1, Typed
  <2>3. begun[o] < period[v].from
    <3>1. period[v].from \in Nat /\ begun[o] \in Nat
      BY <1>1, Typed, PeriodTypes, AwayTypes, Sets DEF Dated
    <3> QED BY <2>1, <3>1
  <2>4. Moves(o, v)'
    BY <1>2, <2>3 DEF Moves, Published
  <2>5. draft'[v] # None
    BY <2>1, <2>2, PeriodTypes, AwayTypes DEF Dated
  <2> QED BY <1>1, <1>2, <2>1, <2>2, <2>4, <2>5 DEF Takes
<1>4. CASE Reorder(o) \/ SetVisible(o)
  <2>1. draft' = [draft EXCEPT ![v] = period[v]] /\ pc' = [pc EXCEPT ![o] = "checking"]
    BY <1>4 DEF Reorder, SetVisible, Write, Goto
  <2>2. /\ draft'[v] = period[v] /\ draft' = [draft EXCEPT ![v] = draft'[v]]
        /\ pc'[o] = "checking" /\ draft'[v] # None
    BY <1>1, <2>1, Typed, PeriodTypes, AwayTypes DEF Dated
  <2>3. "text" \in DOMAIN edit[o] => edit[o].text = text[v]
    <3>1. CASE Reorder(o)
      BY <3>1 DEF Reorder, Changed
    <3>2. CASE SetVisible(o)
      BY <1>1, <3>2, EditTypes DEF SetVisible, Patches
    <3> QED BY <1>4, <3>1, <3>2
  <2>4. Moves(o, v)'
    BY <1>2, <2>2, <2>3 DEF Moves, Published
  <2> QED BY <1>1, <1>2, <2>2, <2>4 DEF Takes
<1>5. CASE KeepRow(o)
  <2>1. UNCHANGED draft /\ pc' = [pc EXCEPT ![o] = "writing"]
    BY <1>5 DEF KeepRow, Goto
  <2>2. draft'[v] = None /\ draft' = [draft EXCEPT ![v] = draft'[v]] /\ pc'[o] = "writing"
    BY <1>1, <2>1, Typed
  <2> QED BY <1>1, <1>2, <2>2 DEF Takes
<1> QED BY <1>3, <1>4, <1>5

(* o begins; it has found the row it will work on, or needs none.          *)
Begins(o) ==
  /\ pc[o] = "ready" /\ OthersStay(o) /\ UNCHANGED <<Published, draft, writer>>
  /\ pc' = [pc EXCEPT ![o] = pc'[o]]
  /\ input' = [input EXCEPT ![o] = input'[o]]
  /\ found' = [found EXCEPT ![o] = found'[o]]
  /\ edit' = [edit EXCEPT ![o] = edit'[o]]
  /\ \/ /\ o \in Creates
        /\ input'[o] \in R!Periods /\ edit'[o] \in [text : Texts, visible : BOOLEAN]
        /\ UNCHANGED begun
        /\ \/ pc'[o] = "closing" /\ found'[o] \in Versions /\ period[found'[o]] # None
           \/ pc'[o] = "inserting" /\ found'[o] = None
     \/ /\ o \in Updates
        /\ pc'[o] = "locking" /\ found'[o] \in Versions /\ period[found'[o]] # None
        /\ input'[o] = input[o] /\ edit'[o] \in Edits \ [text : Texts, visible : BOOLEAN]
        /\ begun' = [begun EXCEPT ![o] = today]

LEMMA Beginning ==
  ASSUME IInv, NEW o \in Ops,
         \/ o \in Creates /\ \E p \in R!Periods, e \in [text : Texts, visible : BOOLEAN] :
                               BeginCreate(o, p, e)
         \/ o \in Updates /\ \E v \in Versions, e \in Edits \ [text : Texts, visible : BOOLEAN] :
                               BeginUpdate(o, v, e)
  PROVE  Begins(o)
<1>1. ASSUME o \in Creates, NEW p \in R!Periods, NEW e \in [text : Texts, visible : BOOLEAN],
             BeginCreate(o, p, e)
      PROVE  Begins(o)
  <2>1. /\ pc[o] = "ready"
        /\ input' = [input EXCEPT ![o] = p] /\ edit' = [edit EXCEPT ![o] = e]
        /\ UNCHANGED <<Published, draft, writer, begun>>
    BY <1>1 DEF BeginCreate, R!BeginCreate, R!rows, Published
  <2>2. \/ \E v \in Versions : /\ period[v] # None
                               /\ found' = [found EXCEPT ![o] = v]
                               /\ pc' = [pc EXCEPT ![o] = "closing"]
        \/ found' = found /\ pc' = [pc EXCEPT ![o] = "inserting"]
    BY <1>1, Sets DEF BeginCreate, R!BeginCreate, R!Goto
  <2>3. found[o] = None
    BY <2>1, Typed DEF CallOK
  <2>4. /\ pc' = [pc EXCEPT ![o] = pc'[o]] /\ found' = [found EXCEPT ![o] = found'[o]]
        /\ \/ pc'[o] = "closing" /\ found'[o] \in Versions /\ period[found'[o]] # None
           \/ pc'[o] = "inserting" /\ found'[o] = None
    BY <2>2, <2>3, Typed
  <2>5. /\ input'[o] = p /\ edit'[o] = e
        /\ input' = [input EXCEPT ![o] = input'[o]] /\ edit' = [edit EXCEPT ![o] = edit'[o]]
    BY <2>1, Typed
  <2>6. OthersStay(o)
    BY <2>1, <2>4, Typed DEF OthersStay
  <2> QED BY <1>1, <2>1, <2>4, <2>5, <2>6 DEF Begins
<1>2. ASSUME o \in Updates, NEW v \in Versions,
             NEW e \in Edits \ [text : Texts, visible : BOOLEAN], BeginUpdate(o, v, e)
      PROVE  Begins(o)
  <2>1. /\ pc[o] = "ready" /\ period[v] # None
        /\ pc' = [pc EXCEPT ![o] = "locking"] /\ found' = [found EXCEPT ![o] = v]
        /\ edit' = [edit EXCEPT ![o] = e] /\ begun' = [begun EXCEPT ![o] = today]
        /\ UNCHANGED <<Published, draft, writer, input>>
    BY <1>2 DEF BeginUpdate, rowVars, Published
  <2>2. pc'[o] = "locking" /\ found'[o] = v /\ edit'[o] = e /\ input'[o] = input[o]
    BY <2>1, Typed
  <2>3. OthersStay(o)
    BY <2>1, Typed DEF OthersStay
  <2>4. input' = [input EXCEPT ![o] = input'[o]]
    BY <2>1, Typed
  <2> QED BY <1>2, <2>1, <2>2, <2>3, <2>4 DEF Begins
<1> QED BY <1>1, <1>2

(* The row that o has written meets no other one. *)
Passes(o) ==
  /\ pc[o] \in {"checking", "inserted"} /\ R!Rivals(o, R!Checked(o)) = {}
  /\ OthersStay(o) /\ UNCHANGED <<Published, draft, writer, input, found, edit, begun>>
  /\ pc' = [pc EXCEPT ![o] = pc'[o]]
  /\ \/ pc[o] = "checking" /\ o \in Creates /\ pc'[o] = "inserting"
     \/ pc[o] = "checking" /\ o \in Updates /\ pc'[o] = "writing"
     \/ pc[o] = "inserted" /\ pc'[o] = "writing"

LEMMA Checking ==
  ASSUME IInv, NEW o \in Ops, CheckHolds(o)
  PROVE  Passes(o)
<1>1. /\ OthersStay(o) /\ UNCHANGED <<Published, draft, writer, input, found, edit, begun>>
      /\ pc' = [pc EXCEPT ![o] = pc'[o]]
  BY Typed DEF CheckHolds, OfTable, R!UpdateHolds, R!InsertHolds, R!Goto, R!rows,
               OthersStay, Published
<1>2. /\ pc[o] \in {"checking", "inserted"} /\ R!Rivals(o, R!Checked(o)) = {}
      /\ \/ pc[o] = "checking" /\ o \in Creates /\ pc'[o] = "inserting"
         \/ pc[o] = "checking" /\ o \in Updates /\ pc'[o] = "writing"
         \/ pc[o] = "inserted" /\ pc'[o] = "writing"
  BY Typed, Sets DEF CheckHolds, OfTable, R!UpdateHolds, R!InsertHolds, R!Goto, R!Checked
<1> QED BY <1>1, <1>2 DEF Passes

(* o writes its new version. *)
Inserts(o) ==
  /\ pc[o] = "inserting" /\ o \in Creates /\ input[o] \in R!Periods
  /\ OthersStay(o) /\ UNCHANGED <<Published, input, found, edit, begun>>
  /\ draft' = [draft EXCEPT ![o] = input[o]] /\ writer' = [writer EXCEPT ![o] = o]
  /\ pc' = [pc EXCEPT ![o] = "inserted"]
  /\ period[o] = None /\ writer[o] = None /\ draft[o] = None /\ found[o] # o

LEMMA Inserting ==
  ASSUME IInv, NEW o \in Ops, Insert(o)
  PROVE  Inserts(o)
<1>1. /\ pc[o] = "inserting" /\ UNCHANGED <<Published, input, found, edit, begun>>
      /\ draft' = [draft EXCEPT ![o] = input[o]] /\ writer' = [writer EXCEPT ![o] = o]
      /\ pc' = [pc EXCEPT ![o] = "inserted"]
  BY DEF Insert, OfTable, R!Insert, R!Goto, Published
<1>2. OthersStay(o)
  BY <1>1, Typed DEF OthersStay
<1>3. /\ o \in Creates /\ input[o] \in R!Periods /\ period[o] = None
      /\ o \in Versions /\ found[o] # o
  BY <1>1, Typed, Sets DEF CallOK
<1>4. writer[o] = None /\ draft[o] = None
  <2>1. \A q \in Ops : writer[o] # q
    BY <1>1, <1>3, Typed DEF CallOK, RowOK
  <2> QED BY <1>3, <2>1, Typed DEF RowOK
<1> QED BY <1>1, <1>2, <1>3, <1>4 DEF Inserts

(* o ends, with or without its changes, and unlocks its rows. *)
Leaves(o) ==
  /\ OthersStay(o) /\ UNCHANGED <<input, today>>
  /\ draft' = [v \in Versions |-> IF writer[v] = o THEN None ELSE draft[v]]
  /\ writer' = [v \in Versions |-> IF writer[v] = o THEN None ELSE writer[v]]
  /\ found' = [found EXCEPT ![o] = None] /\ edit' = [edit EXCEPT ![o] = None]
  /\ begun' = [u \in Updates |-> IF u = o THEN 0 ELSE begun[u]]

GivesUp(o) ==
  /\ Leaves(o) /\ UNCHANGED Published
  /\ pc[o] \in R!Writing /\ pc' = [pc EXCEPT ![o] = "refused"]

LEMMA GivingUp ==
  ASSUME IInv, NEW o \in Ops, RefuseUpdate(o) \/ OverlapRefused(o) \/ Abort(o)
  PROVE  GivesUp(o)
<1>1. /\ pc[o] \in R!Writing /\ R!Rollback(o) /\ Forget(o) /\ UNCHANGED <<text, visible>>
  BY DEF RefuseUpdate, OverlapRefused, Abort, R!OverlapRefused, R!Abort, R!Writing
<1>2. /\ UNCHANGED <<Published, input>> /\ pc' = [pc EXCEPT ![o] = "refused"]
      /\ draft' = [v \in Versions |-> IF writer[v] = o THEN None ELSE draft[v]]
      /\ writer' = [v \in Versions |-> IF writer[v] = o THEN None ELSE writer[v]]
      /\ found' = [found EXCEPT ![o] = None] /\ edit' = [edit EXCEPT ![o] = None]
      /\ begun' = [u \in Updates |-> IF u = o THEN 0 ELSE begun[u]]
  BY <1>1, Sets DEF R!Rollback, R!Release, R!Goto, Forget, Published
<1>3. OthersStay(o)
  BY <1>2, Typed DEF OthersStay
<1> QED BY <1>1, <1>2, <1>3 DEF GivesUp, Leaves, Published

(* The version whose text and visibility a COMMIT may change. *)
Own(o) == IF o \in Creates THEN o ELSE found[o]

Wrote(o, field) ==
  writer[Own(o)] = o /\ draft[Own(o)] # None /\ field \in DOMAIN edit[o]

Publishes(o) ==
  /\ Leaves(o) /\ pc[o] = "writing" /\ pc' = [pc EXCEPT ![o] = "committed"]
  /\ period' = [v \in Versions |-> IF writer[v] = o /\ draft[v] # None
                                     THEN draft[v] ELSE period[v]]
  /\ text' = IF Wrote(o, "text") THEN [text EXCEPT ![Own(o)] = edit[o].text] ELSE text
  /\ visible' = IF Wrote(o, "visible") THEN [visible EXCEPT ![Own(o)] = edit[o].visible]
                                       ELSE visible
  /\ Own(o) \in Versions /\ edit[o] \in Edits

LEMMA Publishing ==
  ASSUME IInv, NEW o \in Ops, Commit(o)
  PROVE  Publishes(o)
<1>1. /\ pc[o] = "writing" /\ pc' = [pc EXCEPT ![o] = "committed"]
      /\ period' = [v \in Versions |-> IF writer[v] = o /\ draft[v] # None
                                         THEN draft[v] ELSE period[v]]
      /\ UNCHANGED <<input, today>>
      /\ draft' = [v \in Versions |-> IF writer[v] = o THEN None ELSE draft[v]]
      /\ writer' = [v \in Versions |-> IF writer[v] = o THEN None ELSE writer[v]]
      /\ found' = [found EXCEPT ![o] = None] /\ edit' = [edit EXCEPT ![o] = None]
      /\ begun' = [u \in Updates |-> IF u = o THEN 0 ELSE begun[u]]
  BY Sets DEF Commit, R!Commit, R!Release, R!Goto, Forget
<1>2. /\ text' = IF Wrote(o, "text") THEN [text EXCEPT ![Own(o)] = edit[o].text] ELSE text
      /\ visible' = IF Wrote(o, "visible") THEN [visible EXCEPT ![Own(o)] = edit[o].visible]
                                           ELSE visible
  BY DEF Commit, Wrote, Own
<1>3. Own(o) \in Versions /\ edit[o] \in Edits
  BY <1>1, Typed, Sets DEF Own, CallOK, R!Writing, Edits
<1>4. OthersStay(o)
  BY <1>1, Typed DEF OthersStay
<1> QED BY <1>1, <1>2, <1>3, <1>4 DEF Publishes, Leaves

(* Every step has one of these shapes, or is midnight. *)
LEMMA Shapes ==
  ASSUME IInv, Next
  PROVE  \/ \E o \in Ops : Begins(o) \/ Takes(o) \/ Passes(o) \/ Inserts(o) \/ GivesUp(o)
         \/ \E o \in Ops : Commit(o) /\ Publishes(o)
         \/ Midnight
<1>1. ASSUME NEW o \in Ops, OpStep(o) \/ Abort(o)
      PROVE  \/ Takes(o) \/ Passes(o) \/ Inserts(o) \/ GivesUp(o)
             \/ Commit(o) /\ Publishes(o)
  BY <1>1, ClosingTakes, EditingTakes, Checking, Inserting, GivingUp, Publishing DEF OpStep
<1>2. ASSUME NEW o \in Creates, NEW p \in R!Periods,
             NEW e \in [text : Texts, visible : BOOLEAN], BeginCreate(o, p, e)
      PROVE  o \in Ops /\ Begins(o)
  BY <1>2, Beginning, Sets
<1>3. ASSUME NEW o \in Updates, NEW v \in Versions,
             NEW e \in Edits \ [text : Texts, visible : BOOLEAN], BeginUpdate(o, v, e)
      PROVE  o \in Ops /\ Begins(o)
  BY <1>3, Beginning, Sets
<1> QED BY <1>1, <1>2, <1>3 DEF Next

(***************************************************************************)
(* Types                                                                   *)
(***************************************************************************)

LEMMA TypesNow ==
  ASSUME TypeOK
  PROVE  /\ period \in [Versions -> Dated \cup {None}]
         /\ draft \in [Versions -> Dated \cup {None}]
         /\ writer \in [Versions -> Ops \cup {None}]
         /\ text \in [Versions -> Texts] /\ visible \in [Versions -> BOOLEAN]
         /\ pc \in [Ops -> {"ready", "committed", "refused"} \cup R!Writing]
         /\ input \in [Ops -> R!Inputs \cup {None}]
         /\ found \in [Ops -> Versions \cup {None}]
         /\ edit \in [Ops -> Edits \cup {None}]
         /\ begun \in [Updates -> Days] /\ today \in Days
BY DEF TypeOK, Dated

LEMMA TypesThen ==
  ASSUME period' \in [Versions -> Dated \cup {None}],
         draft' \in [Versions -> Dated \cup {None}],
         writer' \in [Versions -> Ops \cup {None}],
         text' \in [Versions -> Texts], visible' \in [Versions -> BOOLEAN],
         pc' \in [Ops -> {"ready", "committed", "refused"} \cup R!Writing],
         input' \in [Ops -> R!Inputs \cup {None}],
         found' \in [Ops -> Versions \cup {None}],
         edit' \in [Ops -> Edits \cup {None}],
         begun' \in [Updates -> Days], today' \in Days
  PROVE  TypeOK'
BY DEF TypeOK, Dated

LEMMA TypeInv ==
  ASSUME IInv, [Next]_vars
  PROVE  TypeOK'
<1> USE DEF Published
<1>0. TypeOK
  BY DEF IInv
<1>1. ASSUME NEW o \in Ops, Begins(o)
      PROVE  TypeOK'
  <2>1. pc' \in [Ops -> {"ready", "committed", "refused"} \cup R!Writing]
    <3>1. pc'[o] \in R!Writing
      BY <1>1 DEF Begins, R!Writing
    <3> QED BY <1>0, <1>1, <3>1, TypesNow DEF Begins
  <2>5. found' \in [Ops -> Versions \cup {None}]
    BY <1>0, <1>1, TypesNow DEF Begins
  <2>2. input'[o] \in R!Inputs \cup {None} /\ edit'[o] \in Edits
    BY <1>0, <1>1, TypesNow, PeriodTypes DEF Begins, Edits
  <2>3. input' \in [Ops -> R!Inputs \cup {None}] /\ edit' \in [Ops -> Edits \cup {None}]
    BY <1>0, <1>1, <2>2, TypesNow, TypesThen DEF Begins
  <2>4. begun' \in [Updates -> Days]
    BY <1>0, <1>1, TypesNow, TypesThen DEF Begins
  <2> QED BY <1>0, <1>1, <2>1, <2>3, <2>4, <2>5, TypesNow, TypesThen DEF Begins
<1>2. ASSUME NEW o \in Ops, Takes(o)
      PROVE  TypeOK'
  <2>1. pc' \in [Ops -> {"ready", "committed", "refused"} \cup R!Writing]
    <3>1. pc'[o] \in R!Writing
      BY <1>2 DEF Takes, R!Writing
    <3> QED BY <1>0, <1>2, <3>1, TypesNow DEF Takes
  <2>2. draft' \in [Versions -> Dated \cup {None}]
    <3>1. draft'[found[o]] \in Dated \cup {None}
      BY <1>2 DEF Takes
    <3> QED BY <1>0, <1>2, <3>1, TypesNow DEF Takes
  <2>3. writer' \in [Versions -> Ops \cup {None}]
    BY <1>0, <1>2, TypesNow DEF Takes
  <2> QED BY <1>0, <1>2, <2>1, <2>2, <2>3, TypesNow, TypesThen DEF Takes
<1>3. ASSUME NEW o \in Ops, Passes(o) \/ Inserts(o)
      PROVE  TypeOK'
  <2>1. pc' \in [Ops -> {"ready", "committed", "refused"} \cup R!Writing]
    <3>1. pc'[o] \in R!Writing
      BY <1>0, <1>3, TypesNow DEF Passes, Inserts, R!Writing
    <3> QED BY <1>0, <1>3, <3>1, TypesNow DEF Passes, Inserts
  <2>2. draft' \in [Versions -> Dated \cup {None}]
    BY <1>0, <1>3, TypesNow DEF Passes, Inserts, Dated
  <2>3. writer' \in [Versions -> Ops \cup {None}]
    BY <1>0, <1>3, TypesNow DEF Passes, Inserts
  <2> QED BY <1>0, <1>3, <2>1, <2>2, <2>3, TypesNow, TypesThen DEF Passes, Inserts
<1>4. ASSUME NEW o \in Ops, Leaves(o)
      PROVE  /\ draft' \in [Versions -> Dated \cup {None}]
             /\ writer' \in [Versions -> Ops \cup {None}]
             /\ input' \in [Ops -> R!Inputs \cup {None}]
             /\ found' \in [Ops -> Versions \cup {None}]
             /\ edit' \in [Ops -> Edits \cup {None}]
             /\ begun' \in [Updates -> Days] /\ today' \in Days
  <2>1. /\ draft' \in [Versions -> Dated \cup {None}]
        /\ writer' \in [Versions -> Ops \cup {None}]
    BY <1>0, <1>4, TypesNow DEF Leaves
  <2>2. /\ found' \in [Ops -> Versions \cup {None}]
        /\ edit' \in [Ops -> Edits \cup {None}]
    BY <1>0, <1>4, TypesNow DEF Leaves
  <2>3. begun' \in [Updates -> Days]
    BY <1>0, <1>4, TypesNow, Sets DEF Leaves
  <2> QED BY <1>0, <1>4, <2>1, <2>2, <2>3, TypesNow DEF Leaves
<1>5. ASSUME NEW o \in Ops, GivesUp(o)
      PROVE  TypeOK'
  BY <1>0, <1>4, <1>5, TypesNow, TypesThen DEF GivesUp
<1>6. ASSUME NEW o \in Ops, Publishes(o)
      PROVE  TypeOK'
  <2>1. /\ period' \in [Versions -> Dated \cup {None}]
        /\ pc' \in [Ops -> {"ready", "committed", "refused"} \cup R!Writing]
    BY <1>0, <1>6, TypesNow, TypesThen DEF Publishes
  <2>2. text' \in [Versions -> Texts]
    BY <1>0, <1>6, TypesNow, EditTypes DEF Publishes, Wrote
  <2>3. visible' \in [Versions -> BOOLEAN]
    BY <1>0, <1>6, TypesNow, EditTypes DEF Publishes, Wrote
  <2> QED BY <1>4, <1>6, <2>1, <2>2, <2>3, TypesNow, TypesThen DEF Publishes
<1>7. CASE Midnight
  <2>1. today' \in Days
    BY <1>0, <1>7, TypesNow, Sets DEF Midnight
  <2> QED BY <1>0, <1>7, <2>1, TypesNow, TypesThen DEF Midnight, rowVars
<1>8. CASE UNCHANGED vars
  BY <1>0, <1>8, TypesNow, TypesThen DEF vars, rowVars
<1> QED BY <1>1, <1>2, <1>3, <1>5, <1>6, <1>7, <1>8, Shapes

(***************************************************************************)
(* Calls                                                                   *)
(***************************************************************************)

(* A call goes on from where it was, whatever another one does. *)
LEMMA OtherCall ==
  ASSUME IInv, NEW q \in Ops,
         UNCHANGED <<pc[q], input[q], found[q], edit[q]>>,
         \A v \in Versions : writer[v] = q => writer'[v] = q /\ draft'[v] = draft[v],
         \A v \in Versions : period[v] # None => period'[v] # None,
         q \in Creates /\ period[q] = None => period'[q] = None
  PROVE  CallOK(q)'
<1>1. CallOK(q) /\ found[q] \in Versions \cup {None}
  BY Typed
<1>2. q \in Creates => q \in Versions
  BY Sets
<1> QED BY <1>1, <1>2 DEF CallOK

(* What a transaction that commits has written, row by row. *)
LEMMA Written ==
  ASSUME IInv, NEW o \in Ops, NEW v \in Versions, writer[v] = o
  PROVE  /\ pc[o] \in {"checking", "inserting", "inserted", "writing"}
         /\ \/ v = found[o] /\ period[v] \in Dated /\ (v # o \/ o \notin Creates)
            \/ /\ o \in Creates /\ v = o /\ pc[o] \in {"inserted", "writing"}
               /\ period[v] = None /\ draft[v] = input[o] /\ draft[v] \in R!Periods
<1>1. RowOK(v) /\ CallOK(o) /\ period[v] \in Dated \cup {None}
  BY Typed
<1>2. /\ pc[o] \in {"checking", "inserting", "inserted", "writing"}
      /\ v = found[o] \/ (o \in Creates /\ v = o /\ pc[o] \in {"inserted", "writing"})
  BY <1>1 DEF RowOK
<1> QED BY <1>1, <1>2 DEF CallOK

LEMMA CommitKeepsRows ==
  ASSUME IInv, NEW o \in Ops, Publishes(o), NEW v \in Versions
  PROVE  /\ period[v] # None => period'[v] # None
         /\ period'[v] # None => period[v] # None \/ (v = o /\ o \in Creates)
<1>1. period'[v] = IF writer[v] = o /\ draft[v] # None THEN draft[v] ELSE period[v]
  BY DEF Publishes
<1>2. CASE writer[v] = o
  BY <1>1, <1>2, Written, PeriodTypes, AwayTypes DEF Dated
<1>3. CASE writer[v] # o
  BY <1>1, <1>3
<1> QED BY <1>2, <1>3

LEMMA CallsInv ==
  ASSUME IInv, [Next]_vars
  PROVE  Calls'
<1> SUFFICES ASSUME NEW q \in Ops
             PROVE  CallOK(q)'
  BY DEF Calls
<1> USE DEF Published, R!Writing
<1>0. CallOK(q) /\ q \in Creates \cup Updates /\ (q \in Creates => q \in Versions)
  BY Typed, Sets
<1>1. ASSUME NEW o \in Ops, Begins(o)
      PROVE  CallOK(q)'
  <2>1. CASE q = o
    BY <1>0, <1>1, <2>1, Typed DEF CallOK, Begins
  <2>2. CASE q # o
    BY <1>1, <2>2, OtherCall DEF Begins, OthersStay
  <2> QED BY <2>1, <2>2
<1>2. ASSUME NEW o \in Ops, Takes(o)
      PROVE  CallOK(q)'
  <2>1. writer'[found[o]] = o
    BY <1>2, Typed DEF Takes
  <2>2. CASE q = o
    BY <1>0, <1>2, <2>1, <2>2, Typed DEF CallOK, Takes
  <2>3. CASE q # o
    <3>1. \A v \in Versions : writer[v] = q => writer'[v] = q /\ draft'[v] = draft[v]
      <4>1. q # None
        BY Sets
      <4> QED BY <1>2, <4>1, Typed DEF Takes
    <3> QED BY <1>2, <2>3, <3>1, OtherCall DEF Takes, OthersStay
  <2> QED BY <2>2, <2>3
<1>3. ASSUME NEW o \in Ops, Passes(o)
      PROVE  CallOK(q)'
  <2>1. CASE q = o
    BY <1>0, <1>3, <2>1, Typed DEF CallOK, Passes
  <2>2. CASE q # o
    BY <1>3, <2>2, OtherCall DEF Passes, OthersStay
  <2> QED BY <2>1, <2>2
<1>4. ASSUME NEW o \in Ops, Inserts(o)
      PROVE  CallOK(q)'
  <2>1. CASE q = o
    BY <1>0, <1>4, <2>1, Typed DEF CallOK, Inserts
  <2>2. CASE q # o
    <3>1. \A v \in Versions : writer[v] = q => writer'[v] = q /\ draft'[v] = draft[v]
      BY <1>4, <2>2, Typed, Sets DEF Inserts
    <3> QED BY <1>4, <2>2, <3>1, OtherCall DEF Inserts, OthersStay
  <2> QED BY <2>1, <2>2
<1>5. ASSUME NEW o \in Ops, GivesUp(o)
      PROVE  CallOK(q)'
  <2>1. CASE q = o
    BY <1>0, <1>5, <2>1, Typed DEF CallOK, GivesUp, Leaves
  <2>2. CASE q # o
    BY <1>5, <2>2, OtherCall DEF GivesUp, Leaves, OthersStay
  <2> QED BY <2>1, <2>2
<1>6. ASSUME NEW o \in Ops, Publishes(o)
      PROVE  CallOK(q)'
  <2>1. CASE q = o
    <3>1. o \in Creates => period'[o] # None
      BY <1>0, <1>6, <2>1, PeriodTypes DEF CallOK, Publishes
    <3> QED BY <1>0, <1>6, <2>1, <3>1, Typed DEF CallOK, Publishes, Leaves
  <2>2. CASE q # o
    <3>1. \A v \in Versions : period[v] # None => period'[v] # None
      BY <1>6, CommitKeepsRows
    <3>2. q \in Creates /\ period[q] = None => period'[q] = None
      BY <1>0, <1>6, <2>2, CommitKeepsRows
    <3>3. \A v \in Versions : writer[v] = q => writer'[v] = q /\ draft'[v] = draft[v]
      BY <1>6, <2>2 DEF Publishes, Leaves
    <3> QED BY <1>6, <2>2, <3>1, <3>2, <3>3, OtherCall DEF Publishes, Leaves, OthersStay
  <2> QED BY <2>1, <2>2
<1>7. CASE Midnight \/ UNCHANGED vars
  BY <1>7, OtherCall DEF Midnight, vars, rowVars
<1> QED BY <1>1, <1>2, <1>3, <1>4, <1>5, <1>6, <1>7, Shapes

(***************************************************************************)
(* Rows                                                                    *)
(***************************************************************************)

(* A row that a step leaves alone, as its writer does not move, or moves   *)
(* on to a step at which it may still hold it.                             *)
LEMMA QuietRow ==
  ASSUME IInv, NEW v \in Versions,
         UNCHANGED <<draft[v], writer[v], period[v], text[v]>>,
         \A q \in Ops : writer[v] = q =>
            /\ UNCHANGED <<found[q], input[q], edit[q]>>
            /\ q \in Updates => begun'[q] = begun[q]
            /\ \/ pc'[q] = pc[q]
               \/ /\ pc'[q] \in {"checking", "inserting", "inserted", "writing"}
                  /\ pc[q] = "inserted" => pc'[q] \in {"inserted", "writing"}
                  /\ pc[q] # "writing"
  PROVE  RowOK(v)'
<1>1. RowOK(v)
  BY Typed
<1>2. ASSUME NEW q \in Ops, writer'[v] = q
      PROVE  /\ pc'[q] \in {"checking", "inserting", "inserted", "writing"}
             /\ v = found'[q] \/ (q \in Creates /\ v = q /\ pc'[q] \in {"inserted", "writing"})
             /\ v = found'[q] /\ draft'[v] # None =>
                  IF q \in Creates THEN Ends(q, v)' ELSE Moves(q, v)'
  <2>1. writer[v] = q
    BY <1>2
  <2>2. /\ pc'[q] \in {"checking", "inserting", "inserted", "writing"}
        /\ v = found'[q] \/ (q \in Creates /\ v = q /\ pc'[q] \in {"inserted", "writing"})
    BY <1>1, <2>1 DEF RowOK
  <2>3. v = found[q] /\ draft[v] # None => IF q \in Creates THEN Ends(q, v) ELSE Moves(q, v)
    BY <1>1, <2>1 DEF RowOK
  <2>4. Ends(q, v) => Ends(q, v)'
    BY <2>1 DEF Ends
  <2>5. q \notin Creates /\ Moves(q, v) => Moves(q, v)'
    BY <2>1, Sets DEF Moves
  <2> QED BY <2>1, <2>2, <2>3, <2>4, <2>5
<1>3. writer'[v] = None => draft'[v] = None
  BY <1>1 DEF RowOK
<1> QED BY <1>2, <1>3 DEF RowOK

LEMMA HoldingInv ==
  ASSUME IInv, [Next]_vars
  PROVE  Holding'
<1> SUFFICES ASSUME NEW v \in Versions
             PROVE  RowOK(v)'
  BY DEF Holding
<1> USE DEF Published
<1>0. None \notin Ops
  BY Sets
<1>1. ASSUME NEW o \in Ops, Begins(o)
      PROVE  RowOK(v)'
  <2>1. writer[v] # o
    BY <1>1, Written DEF Begins
  <2> QED BY <1>1, <2>1, QuietRow DEF Begins, OthersStay
<1>2. ASSUME NEW o \in Ops, Takes(o)
      PROVE  RowOK(v)'
  <2>1. CASE v = found[o]
    <3>1. /\ writer'[v] = o /\ v = found'[o]
          /\ pc'[o] \in {"checking", "inserting", "writing"}
      BY <1>2, <2>1, Typed DEF Takes
    <3>2. draft'[v] # None => IF o \in Creates THEN Ends(o, found[o])' ELSE Moves(o, found[o])'
      BY <1>2, <2>1 DEF Takes
    <3>3. Ends(o, found[o])' => Ends(o, v)'
      BY <3>1 DEF Ends
    <3>4. Moves(o, found[o])' => Moves(o, v)'
      BY <3>1 DEF Moves
    <3>5. \A q \in Ops : writer'[v] = q => q = o
      BY <3>1
    <3> QED BY <1>0, <3>1, <3>2, <3>3, <3>4, <3>5 DEF RowOK
  <2>2. CASE v # found[o]
    <3>1. writer[v] # o
      BY <1>2, Written DEF Takes
    <3>2. UNCHANGED <<draft[v], writer[v], period[v], text[v]>>
      BY <1>2, <2>2, Typed DEF Takes
    <3> QED BY <1>2, <3>1, <3>2, QuietRow DEF Takes, OthersStay
  <2> QED BY <2>1, <2>2
<1>3. ASSUME NEW o \in Ops, Passes(o)
      PROVE  RowOK(v)'
  <2>1. \A q \in Ops : /\ UNCHANGED <<found[q], input[q], edit[q]>>
                       /\ q \in Updates => begun'[q] = begun[q]
                       /\ q # o => pc'[q] = pc[q]
    BY <1>3 DEF Passes, OthersStay
  <2> QED BY <1>3, <2>1, QuietRow DEF Passes
<1>4. ASSUME NEW o \in Ops, Inserts(o)
      PROVE  RowOK(v)'
  <2>1. pc'[o] = "inserted"
    BY <1>4, Typed DEF Inserts
  <2>2. CASE v = o
    <3>1. writer'[v] = o /\ v # found'[o] /\ o \in Creates
      BY <1>4, <2>2, Typed DEF Inserts
    <3>2. \A q \in Ops : writer'[v] = q => q = o
      BY <3>1
    <3> QED BY <1>0, <2>1, <2>2, <3>1, <3>2 DEF RowOK
  <2>3. CASE v # o
    <3>1. UNCHANGED <<draft[v], writer[v], period[v], text[v]>>
      BY <1>4, <2>3, Typed DEF Inserts
    <3>2. \A q \in Ops : /\ UNCHANGED <<found[q], input[q], edit[q]>>
                         /\ q \in Updates => begun'[q] = begun[q]
                         /\ q # o => pc'[q] = pc[q]
      BY <1>4 DEF Inserts, OthersStay
    <3> QED BY <1>4, <2>1, <3>1, <3>2, QuietRow DEF Inserts
  <2> QED BY <2>2, <2>3
<1>5. ASSUME NEW o \in Ops, Leaves(o),
             \/ GivesUp(o) \/ Publishes(o)
      PROVE  RowOK(v)'
  <2>1. CASE writer[v] = o
    <3>1. writer'[v] = None /\ draft'[v] = None
      BY <1>5, <2>1 DEF Leaves
    <3> QED BY <1>0, <3>1 DEF RowOK
  <2>2. CASE writer[v] # o
    <3>1. UNCHANGED <<draft[v], writer[v], period[v]>>
      BY <1>5, <2>2 DEF Leaves, GivesUp, Publishes
    <3>2. text'[v] = text[v]
      BY <1>5, <2>2, Typed DEF Leaves, GivesUp, Publishes, Wrote
    <3>3. \A q \in Ops : writer[v] = q => q # o
      BY <2>2
    <3> QED BY <1>5, <3>1, <3>2, <3>3, QuietRow DEF Leaves, OthersStay, GivesUp, Publishes
  <2> QED BY <2>1, <2>2
<1>6. CASE Midnight \/ UNCHANGED vars
  BY <1>6, QuietRow DEF Midnight, vars, rowVars
<1> QED BY <1>1, <1>2, <1>3, <1>4, <1>5, <1>6, Shapes DEF GivesUp, Publishes

(***************************************************************************)
(* The exclusion constraint                                                *)
(***************************************************************************)

LEMMA OverlapSymmetric ==
  ASSUME NEW p, NEW q
  PROVE  R!Overlap(p, q) <=> R!Overlap(q, p)
BY DEF R!Overlap

LEMMA OverlapNone ==
  ASSUME NEW p
  PROVE  ~R!Overlap(p, None) /\ ~R!Overlap(None, p)
BY DEF R!Overlap

(* The row under check is one its call has written. *)
LEMMA FreshIsWritten ==
  ASSUME IInv, NEW o \in Ops, pc[o] \in {"checking", "inserted"}
  PROVE  R!Checked(o) \in Versions /\ writer[R!Checked(o)] = o
BY Typed, Sets DEF CallOK, R!Checked

(* A row stays under check while its own call does not move. *)
LEMMA FreshStays ==
  ASSUME NEW v, NEW c, Fresh(v), OthersStay(c),
         c \in Ops /\ pc[c] \in {"checking", "inserted"} => v # R!Checked(c)
  PROVE  Fresh(v)'
BY DEF Fresh, R!Checked, OthersStay

(* Nothing is written and nothing is found to hold. *)
LEMMA QuietApart ==
  ASSUME IInv, NEW u \in Versions, NEW v \in Versions, u # v,
         UNCHANGED <<period, draft, writer>>,
         Fresh(u) => Fresh(u)', Fresh(v) => Fresh(v)'
  PROVE  Apart(u, v)'
<1>1. Apart(u, v)
  BY DEF IInv, Exclusion
<1> QED BY <1>1 DEF Apart, R!Overlap

(* A row gets its first draft, which is under check, or is as it was. *)
LEMMA DraftApart ==
  ASSUME IInv, NEW u \in Versions, NEW v \in Versions, u # v,
         NEW r \in Versions, UNCHANGED period, draft[r] = None, NEW o \in Ops,
         writer'[r] = o, writer[r] = None,
         \A x \in Versions : x # r => draft'[x] = draft[x] /\ writer'[x] = writer[x],
         draft'[r] = None \/ draft'[r] = period[r] \/ Fresh(r)',
         \A x \in {u, v} : Fresh(x) => Fresh(x)'
  PROVE  Apart(u, v)'
<1>1. Apart(u, v) /\ Apart(v, u)
  BY DEF IInv, Exclusion
<1>2. CASE u = r
  <2>1. ~Fresh(v)' /\ draft[v] # None => ~R!Overlap(period[u], draft[v])
    BY <1>1, <1>2 DEF Apart
  <2>2. ~R!Overlap(period[u], period[v])
    BY <1>1 DEF Apart
  <2>3. draft'[v] = draft[v] /\ period'[u] = period[u] /\ period'[v] = period[v]
    BY <1>2
  <2>4. ~Fresh(u)' /\ ~Fresh(v)' => ~R!Overlap(draft'[u], draft'[v])
    BY <1>2, <2>1, <2>3, OverlapNone
  <2> QED BY <2>1, <2>2, <2>3, <2>4 DEF Apart, R!Overlap
<1>3. CASE v = r
  <2>1. ~Fresh(u)' /\ draft[u] # None => ~R!Overlap(period[v], draft[u])
    BY <1>1, <1>3 DEF Apart
  <2>2. ~R!Overlap(period[u], period[v])
    BY <1>1 DEF Apart
  <2>3. draft'[u] = draft[u] /\ period'[u] = period[u] /\ period'[v] = period[v]
    BY <1>3
  <2>4. ~Fresh(u)' /\ ~Fresh(v)' => ~R!Overlap(draft'[u], draft'[v])
    BY <1>3, <2>1, <2>3, OverlapNone, OverlapSymmetric
  <2>5. draft'[v] # None /\ ~Fresh(v)' => ~R!Overlap(period'[u], draft'[v])
    BY <1>3, <2>2, <2>3
  <2> QED BY <2>2, <2>3, <2>4, <2>5 DEF Apart, R!Overlap
<1>4. CASE u # r /\ v # r
  BY <1>1, <1>4 DEF Apart, R!Overlap
<1> QED BY <1>2, <1>3, <1>4

(* The check of a row passes. *)
LEMMA CheckApart ==
  ASSUME IInv, NEW u \in Versions, NEW v \in Versions, u # v,
         NEW o \in Ops, pc[o] \in {"checking", "inserted"},
         R!Rivals(o, R!Checked(o)) = {},
         UNCHANGED <<period, draft, writer>>,
         \A x \in Versions : x # R!Checked(o) /\ Fresh(x) => Fresh(x)'
  PROVE  Apart(u, v)'
<1> DEFINE r == R!Checked(o)
<1>1. r \in Versions /\ writer[r] = o
  BY FreshIsWritten
<1>2. Apart(u, v)
  BY DEF IInv, Exclusion
<1>3. ASSUME NEW x \in Versions, x # r
      PROVE  /\ ~R!Overlap(draft[x], draft[r])
             /\ ~R!Overlap(period[x], draft[r]) \/ (writer[x] = o /\ draft[x] # None)
  BY <1>3, Sets DEF R!Rivals
<1>4. CASE u = r
  <2>1. ~R!Overlap(draft[u], draft[v])
    <3>1. ~R!Overlap(draft[v], draft[u])
      BY <1>3, <1>4
    <3> QED BY <3>1, OverlapSymmetric
  <2>2. v # r
    BY <1>4
  <2>3. Fresh(v) => Fresh(v)'
    BY <2>2
  <2> HIDE DEF r
  <2> QED BY <1>2, <2>1, <2>3 DEF Apart, R!Overlap
<1> HIDE DEF r
<1>5. CASE v = r
  <2>1. /\ ~R!Overlap(draft[u], draft[v])
        /\ ~R!Overlap(period[u], draft[v]) \/ (writer[u] = writer[v] /\ draft[u] # None)
    BY <1>1, <1>3, <1>5
  <2> QED BY <1>2, <2>1 DEF Apart, R!Overlap
<1>6. CASE u # r /\ v # r
  <2>1. (Fresh(u) => Fresh(u)') /\ (Fresh(v) => Fresh(v)')
    BY <1>6 DEF r
  <2> QED BY <1>2, <2>1 DEF Apart, R!Overlap
<1> QED BY <1>4, <1>5, <1>6

(* A transaction ends: its drafts are published, once they are checked, or *)
(* dropped.                                                                *)
LEMMA LeaveApart ==
  ASSUME IInv, NEW u \in Versions, NEW v \in Versions, u # v,
         NEW o \in Ops, Leaves(o),
         \A x \in Versions : writer[x] # o /\ Fresh(x) => Fresh(x)',
         \/ UNCHANGED period
         \/ /\ \A x \in Versions : writer[x] = o => ~Fresh(x)
            /\ period' = [x \in Versions |-> IF writer[x] = o /\ draft[x] # None
                                               THEN draft[x] ELSE period[x]]
  PROVE  Apart(u, v)'
<1> DEFINE Mine(x) == writer[x] = o /\ draft[x] # None
<1>1. Apart(u, v) /\ Apart(v, u)
  BY DEF IInv, Exclusion
<1>2. \A x \in Versions : /\ writer[x] = o => draft'[x] = None /\ writer'[x] = None
                          /\ writer[x] # o => draft'[x] = draft[x] /\ writer'[x] = writer[x]
  BY DEF Leaves
<1>3. draft'[v] # None => writer[v] # o
  BY <1>2
<1>4. CASE UNCHANGED period
  BY <1>1, <1>2, <1>4 DEF Apart, R!Overlap
<1>5. CASE /\ \A x \in Versions : writer[x] = o => ~Fresh(x)
           /\ period' = [x \in Versions |-> IF Mine(x) THEN draft[x] ELSE period[x]]
  <2>1. \A x \in Versions : period'[x] = IF Mine(x) THEN draft[x] ELSE period[x]
    BY <1>5
  <2>2. ~R!Overlap(period'[u], period'[v])
    <3>1. CASE Mine(u) /\ Mine(v)
      BY <1>1, <1>5, <2>1, <3>1 DEF Apart
    <3>2. CASE Mine(u) /\ ~Mine(v)
      <4>1. ~R!Overlap(period[v], draft[u])
        BY <1>1, <1>5, <3>2 DEF Apart
      <4> QED BY <2>1, <3>2, <4>1, OverlapSymmetric
    <3>3. CASE ~Mine(u) /\ Mine(v)
      BY <1>1, <1>5, <2>1, <3>3 DEF Apart
    <3>4. CASE ~Mine(u) /\ ~Mine(v)
      BY <1>1, <2>1, <3>4 DEF Apart
    <3> QED BY <3>1, <3>2, <3>3, <3>4
  <2>3. ~Fresh(u)' /\ ~Fresh(v)' => ~R!Overlap(draft'[u], draft'[v])
    BY <1>1, <1>2, OverlapNone DEF Apart
  <2>4. ASSUME draft'[v] # None, ~Fresh(v)'
        PROVE  ~R!Overlap(period'[u], draft'[v]) \/ (writer'[u] = writer'[v] /\ draft'[u] # None)
    <3>1. writer[v] # o /\ ~Fresh(v) /\ draft'[v] = draft[v] /\ writer'[v] = writer[v]
      BY <1>2, <2>4
    <3>2. CASE Mine(u)
      BY <1>1, <1>5, <2>1, <3>1, <3>2 DEF Apart
    <3>3. CASE ~Mine(u)
      BY <1>1, <1>2, <2>1, <2>4, <3>1, <3>3 DEF Apart
    <3> QED BY <3>2, <3>3
  <2> QED BY <2>2, <2>3, <2>4 DEF Apart, R!Overlap
<1> QED BY <1>4, <1>5

LEMMA ExclusionInv ==
  ASSUME IInv, [Next]_vars
  PROVE  Exclusion'
<1> SUFFICES ASSUME NEW u \in Versions, NEW v \in Versions, u # v
             PROVE  Apart(u, v)'
  BY DEF Exclusion
<1> USE DEF Published
<1>1. ASSUME NEW o \in Ops, Begins(o)
      PROVE  Apart(u, v)'
  <2>1. \A x \in Versions : Fresh(x) => Fresh(x)'
    BY <1>1, FreshStays DEF Begins
  <2> QED BY <1>1, <2>1, QuietApart DEF Begins
<1>2. ASSUME NEW o \in Ops, Takes(o)
      PROVE  Apart(u, v)'
  <2>1. \A x \in Versions : Fresh(x) => Fresh(x)'
    BY <1>2, FreshStays DEF Takes
  <2>2. /\ found[o] \in Versions /\ draft[found[o]] = None /\ writer[found[o]] = None
        /\ writer'[found[o]] = o /\ UNCHANGED period /\ found'[o] = found[o]
        /\ \A x \in Versions : x # found[o] => draft'[x] = draft[x] /\ writer'[x] = writer[x]
    BY <1>2, Typed DEF Takes
  <2>3. draft'[found[o]] = None \/ draft'[found[o]] = period[found[o]] \/ pc'[o] = "checking"
    BY <1>2 DEF Takes
  <2>4. pc'[o] = "checking" => Fresh(found[o])'
    BY <2>2 DEF Fresh, R!Checked
  <2> QED BY <2>1, <2>2, <2>3, <2>4, DraftApart
<1>3. ASSUME NEW o \in Ops, Passes(o)
      PROVE  Apart(u, v)'
  <2>1. \A x \in Versions : x # R!Checked(o) /\ Fresh(x) => Fresh(x)'
    BY <1>3, FreshStays DEF Passes
  <2> QED BY <1>3, <2>1, CheckApart DEF Passes
<1>4. ASSUME NEW o \in Ops, Inserts(o)
      PROVE  Apart(u, v)'
  <2>1. \A x \in Versions : Fresh(x) => Fresh(x)'
    BY <1>4, FreshStays DEF Inserts
  <2>2. /\ o \in Versions /\ draft[o] = None /\ writer[o] = None /\ writer'[o] = o
        /\ UNCHANGED period /\ pc'[o] = "inserted"
        /\ \A x \in Versions : x # o => draft'[x] = draft[x] /\ writer'[x] = writer[x]
    BY <1>4, Typed, Sets DEF Inserts
  <2>3. Fresh(o)'
    BY <2>2 DEF Fresh, R!Checked
  <2> QED BY <2>1, <2>2, <2>3, DraftApart
<1>5. ASSUME NEW o \in Ops, Leaves(o)
      PROVE  \A x \in Versions : writer[x] # o /\ Fresh(x) => Fresh(x)'
  <2>1. pc[o] \in {"checking", "inserted"} => writer[R!Checked(o)] = o
    BY FreshIsWritten
  <2> QED BY <1>5, <2>1, FreshStays DEF Leaves
<1>6. ASSUME NEW o \in Ops, GivesUp(o)
      PROVE  Apart(u, v)'
  BY <1>5, <1>6, LeaveApart DEF GivesUp
<1>7. ASSUME NEW o \in Ops, Publishes(o)
      PROVE  Apart(u, v)'
  <2>1. \A x \in Versions : writer[x] = o => ~Fresh(x)
    BY <1>7, FreshIsWritten DEF Publishes, Fresh
  <2>2. period' = [x \in Versions |-> IF writer[x] = o /\ draft[x] # None
                                        THEN draft[x] ELSE period[x]]
    BY <1>7 DEF Publishes
  <2> QED BY <1>5, <1>7, <2>1, <2>2, LeaveApart DEF Publishes
<1>8. CASE Midnight \/ UNCHANGED vars
  BY <1>8, QuietApart DEF Midnight, vars, rowVars, Fresh, R!Checked
<1> QED BY <1>1, <1>2, <1>3, <1>4, <1>6, <1>7, <1>8, Shapes

(***************************************************************************)
(* The theorems                                                            *)
(***************************************************************************)

(* The inductive invariant holds however the calls to create, edit, show   *)
(* and hide versions interleave, wait for each other's rows and fail.      *)
THEOREM InstructionInvariant == Spec => []IInv
<1>1. IInv /\ [Next]_vars => IInv'
  BY TypeInv, CallsInv, HoldingInv, ExclusionInv DEF IInv
<1> QED BY <1>1, InitInv, PTL DEF Spec

(* Every variable keeps its type: no stored version ends before it begins, *)
(* although a version may be moved while another call waits to end it.     *)
THEOREM InstructionTypes == Spec => []TypeOK
<1>1. IInv => TypeOK
  BY DEF IInv
<1> QED BY <1>1, InstructionInvariant, PTL

(***************************************************************************)
(* Of the rows, a COMMIT changes the one its call has found and its own.   *)
(***************************************************************************)

LEMMA CommitEffect ==
  ASSUME IInv, NEW o \in Ops, Publishes(o)
  PROVE  /\ \A v \in Versions :
              \/ period'[v] = period[v]
              \/ o \in Creates /\ v = o
              \/ /\ v = found[o] /\ period[v] \in Dated /\ period'[v] \in Dated
                 /\ o \in Creates =>
                      /\ period[v].to = Open
                      /\ period[v].from < input[o].from
                      /\ period'[v] = [period[v] EXCEPT !.to = input[o].from]
                 /\ o \in Updates => begun[o] < period[v].from
         /\ o \in Creates =>
              /\ o \in Versions /\ period[o] = None
              /\ period'[o] = input[o] /\ input[o] \in R!Periods
         /\ pc[o] = "writing" /\ pc'[o] = "committed"
<1>1. \A v \in Versions :
         period'[v] = IF writer[v] = o /\ draft[v] # None THEN draft[v] ELSE period[v]
  BY DEF Publishes
<1>2. /\ CallOK(o) /\ pc[o] = "writing" /\ pc'[o] = "committed"
      /\ o \in Updates => o \notin Creates
  BY Typed DEF Publishes
<1>3. o \in Creates => /\ o \in Versions /\ period[o] = None
                       /\ period'[o] = input[o] /\ input[o] \in R!Periods
  BY <1>1, <1>2, PeriodTypes, Sets DEF CallOK
<1>4. ASSUME NEW v \in Versions, period'[v] # period[v], ~(o \in Creates /\ v = o)
      PROVE  /\ v = found[o] /\ period[v] \in Dated /\ period'[v] \in Dated
             /\ o \in Creates =>
                  /\ period[v].to = Open
                  /\ period[v].from < input[o].from
                  /\ period'[v] = [period[v] EXCEPT !.to = input[o].from]
             /\ o \in Updates => begun[o] < period[v].from
  <2>1. writer[v] = o /\ draft[v] # None /\ period'[v] = draft[v]
    BY <1>1, <1>4
  <2>2. v = found[o] /\ period[v] \in Dated
    BY <1>4, <2>1, Written
  <2>3. IF o \in Creates THEN Ends(o, v) ELSE Moves(o, v)
    BY <2>1, <2>2, Typed DEF RowOK
  <2>4. period'[v] \in Dated
    BY <2>1, Typed
  <2> QED BY <1>2, <1>4, <2>1, <2>2, <2>3, <2>4 DEF Ends, Moves
<1> QED BY <1>2, <1>3, <1>4

(* The text of a version is as it was, or it had not started when the      *)
(* update began.                                                           *)
LEMMA CommitTexts ==
  ASSUME IInv, NEW o \in Ops, Publishes(o), NEW v \in Versions, period[v] # None
  PROVE  /\ text'[v] # text[v] => o \in Updates /\ v = found[o] /\ begun[o] < period[v].from
         /\ visible'[v] # visible[v] =>
              o \in Updates /\ (visible[v] => edit[o] = [visible |-> FALSE])
<1>1. o \in Creates => period[o] = None
  BY CommitEffect
<1>2. o \in Updates \/ v # Own(o)
  BY <1>1, Sets DEF Own
<1>3. /\ CallOK(o) /\ pc[o] = "writing"
      /\ o \in Updates => o \notin Creates
  BY Typed DEF Publishes
<1>4. ASSUME text'[v] # text[v]
      PROVE  o \in Updates /\ v = found[o] /\ begun[o] < period[v].from
  <2>1. /\ Wrote(o, "text") /\ v = Own(o) /\ text'[v] = edit[o].text
    BY <1>4, Typed DEF Publishes
  <2>2. o \in Updates /\ o \notin Creates /\ v = found[o]
    BY <1>2, <1>3, <2>1 DEF Own
  <2>3. writer[v] = o /\ draft[v] # None /\ "text" \in DOMAIN edit[o]
    BY <2>1 DEF Wrote
  <2>4. Moves(o, v)
    BY <2>2, <2>3, Typed DEF RowOK
  <2> QED BY <1>4, <2>1, <2>2, <2>3, <2>4 DEF Moves
<1>5. ASSUME visible'[v] # visible[v]
      PROVE  o \in Updates /\ (visible[v] => edit[o] = [visible |-> FALSE])
  <2>1. /\ Wrote(o, "visible") /\ v = Own(o) /\ visible'[v] = edit[o].visible
    BY <1>5, Typed DEF Publishes
  <2>2. o \in Updates /\ o \notin Creates
    BY <1>2, <1>3, <2>1
  <2>3. edit[o] \in Edits /\ edit[o] \notin [text : Texts, visible : BOOLEAN]
    BY <1>3, <2>2 DEF CallOK, R!Writing
  <2>4. "visible" \in DOMAIN edit[o] /\ edit[o].visible \in BOOLEAN
        /\ edit[o] = [visible |-> edit[o].visible]
    BY <2>1, <2>3, EditTypes DEF Wrote
  <2>5. visible[v] => edit[o].visible = FALSE
    BY <1>5, <2>1, <2>4, Typed
  <2> QED BY <2>2, <2>4, <2>5
<1> QED BY <1>4, <1>5

(* Steps other than a COMMIT change no version. *)
LEMMA OnlyCommits ==
  ASSUME IInv, [Next]_vars, \A o \in Ops : ~Publishes(o)
  PROVE  UNCHANGED <<period, text, visible>>
<1>1. CASE Next
  BY <1>1, Shapes DEF Begins, Takes, Passes, Inserts, GivesUp, Published, Midnight, rowVars
<1>2. CASE UNCHANGED vars
  BY <1>2 DEF vars, rowVars
<1> QED BY <1>1, <1>2

(* What applicants were shown stays as it was unless an update that began  *)
(* before its first day commits after midnight (has_started is asked with  *)
(* the time the transaction began), and they are left without instructions *)
(* for the day only by a call that says so.                                *)
THEOREM InstructionsListedStay == Spec => ListedStays
<1> DEFINE
      Edited(v) == text'[v] # text[v] \/ period'[v].from # period[v].from
      Emptied == Listed(FALSE) # {} /\ Listed(FALSE)' = {} /\ today' = today
      Says(o) ==
        /\ pc[o] # "committed" /\ pc'[o] = "committed"
        /\ \/ o \in Creates /\ input[o].from <= today
                            /\ (input[o].to <= today \/ ~edit[o].visible)
           \/ \E v \in Versions : EarlyUpdate(o, v)
           \/ edit[o] = [visible |-> FALSE]
      Stays == /\ \A v \in Listed(TRUE) : Edited(v) => \E o \in Updates : EarlyUpdate(o, v)
               /\ Emptied => \E o \in Ops : Says(o)
<1>1. ASSUME IInv, NEW o \in Ops, Publishes(o), NEW v \in Versions,
             o \in Updates, v = found[o], begun[o] < period[v].from
      PROVE  EarlyUpdate(o, v)
  BY <1>1, CommitEffect DEF EarlyUpdate
<1>2. ASSUME IInv, NEW o \in Ops, Publishes(o), NEW v \in Listed(TRUE), Edited(v)
      PROVE  \E q \in Updates : EarlyUpdate(q, v)
  <2>1. v \in Versions /\ period[v] # None
    BY DEF Listed
  <2>2. CASE text'[v] # text[v]
    BY <1>1, <1>2, <2>1, <2>2, CommitTexts
  <2>3. CASE period'[v].from # period[v].from
    <3>1. ~(o \in Creates /\ v = o)
      BY <1>2, <2>1, CommitEffect
    <3>2. /\ v = found[o] /\ period[v] \in Dated
          /\ o \in Creates => period'[v] = [period[v] EXCEPT !.to = input[o].from]
          /\ o \in Updates => begun[o] < period[v].from
      BY <1>2, <2>1, <2>3, <3>1, CommitEffect
    <3>3. o \notin Creates
      <4>1. \A d : [period[v] EXCEPT !.to = d].from = period[v].from
        BY <3>2 DEF Dated, R!Periods, Away
      <4> QED BY <2>3, <3>2, <4>1
    <3> QED BY <1>1, <1>2, <2>1, <3>2, <3>3, Sets
  <2> QED BY <1>2, <2>2, <2>3
<1>3. ASSUME IInv, NEW o \in Ops, Publishes(o), Emptied
      PROVE  Says(o)
  <2>1. PICK v \in Versions : /\ period[v] # None /\ visible[v]
                              /\ period[v].from <= today /\ today < period[v].to
    BY <1>3 DEF Listed
  <2>2. \A x \in Versions : ~(/\ period'[x] # None /\ visible'[x]
                              /\ period'[x].from <= today /\ today < period'[x].to)
    BY <1>3 DEF Listed
  <2>3. pc[o] # "committed" /\ pc'[o] = "committed"
    BY <1>3, CommitEffect
  <2>4. CASE ~visible'[v]
    BY <1>3, <2>1, <2>3, <2>4, CommitTexts
  <2>5. CASE visible'[v]
    <3>1. period'[v] # period[v] /\ ~(o \in Creates /\ v = o)
      BY <1>3, <2>1, <2>2, <2>5, CommitEffect
    <3>2. /\ v = found[o] /\ period[v] \in Dated /\ period'[v] \in Dated
          /\ o \in Creates => /\ period[v].from < input[o].from
                              /\ period'[v] = [period[v] EXCEPT !.to = input[o].from]
          /\ o \in Updates => begun[o] < period[v].from
      BY <1>3, <3>1, CommitEffect
    <3>3. CASE o \in Updates
      BY <1>1, <1>3, <2>3, <3>2, <3>3
    <3>4. CASE o \in Creates
      <4>1. /\ input[o].from \in Nat /\ input[o].to \in Nat /\ today \in Nat
            /\ o \in Versions /\ period'[o] = input[o] /\ input[o] # None
        BY <1>3, <3>4, CommitEffect, PeriodTypes, Typed, Sets
      <4>2. input[o].from <= today
        <5>1. /\ period'[v].to = input[o].from /\ period'[v].from = period[v].from
              /\ period'[v] # None
          BY <3>2, <3>4, PeriodTypes, AwayTypes DEF Dated, R!Periods, Away
        <5>2. ~(today < period'[v].to)
          BY <2>1, <2>2, <2>5, <5>1
        <5> QED BY <4>1, <5>1, <5>2
      <4>3. input[o].to <= today \/ ~edit[o].visible
        <5>1. visible'[o] = edit[o].visible
          <6>1. /\ Own(o) = o /\ writer[o] = o /\ draft[o] # None
                /\ edit[o] \in [text : Texts, visible : BOOLEAN]
            <7>1. CallOK(o) /\ pc[o] = "writing"
              BY <1>3, Typed DEF Publishes
            <7> QED BY <3>4, <4>1, <7>1 DEF CallOK, Own, R!Writing
          <6>2. Wrote(o, "visible")
            BY <6>1 DEF Wrote
          <6> QED BY <1>3, <4>1, <6>1, <6>2, Typed DEF Publishes
        <5>2. ~(visible'[o] /\ today < input[o].to)
          BY <2>2, <4>1, <4>2
        <5> QED BY <4>1, <5>1, <5>2
      <4> QED BY <2>3, <3>4, <4>2, <4>3
    <3> QED BY <3>3, <3>4, Sets
  <2> QED BY <2>4, <2>5
<1>4. IInv /\ [Next]_vars => [Stays]_vars
  <2> SUFFICES ASSUME IInv, [Next]_vars
               PROVE  Stays
    OBVIOUS
  <2>1. CASE \E o \in Ops : Publishes(o)
    BY <1>2, <1>3, <2>1
  <2>2. CASE \A o \in Ops : ~Publishes(o)
    <3>1. UNCHANGED <<period, text, visible>>
      BY <2>2, OnlyCommits
    <3>2. ~Emptied
      <4>1. today' = today => Listed(FALSE)' = Listed(FALSE)
        BY <3>1 DEF Listed
      <4> QED BY <4>1
    <3> QED BY <3>1, <3>2
  <2> QED BY <2>1, <2>2
<1> QED BY <1>4, InstructionInvariant, PTL DEF Spec, ListedStays

(***************************************************************************)
(* Refinement                                                              *)
(***************************************************************************)

DaysIn(p) == {d \in Days : R!Covers(p, d)}

LEMMA DaysOfPeriod ==
  ASSUME NEW p \in R!Periods
  PROVE  /\ DaysIn(p) = p.from..(p.to - 1)
         /\ DaysIn(p) \in V!Spans
         /\ p.from \in DaysIn(p)
         /\ \A d \in DaysIn(p) : p.from <= d
<1>1. p # None /\ p.from \in 0..MaxDay /\ p.to \in 1..(MaxDay + 1) /\ p.from < p.to
  BY PeriodTypes, Sets
<1>2. DaysIn(p) = p.from..(p.to - 1)
  BY <1>1, Sets DEF DaysIn, R!Covers
<1>3. p.from \in V!Days /\ p.to - 1 \in V!Days
  BY <1>1 DEF V!Days
<1> QED BY <1>1, <1>2, <1>3 DEF V!Spans

LEMMA NoDays == DaysIn(None) = {} /\ DaysIn(Away) = {} /\ {} \in V!Spans
<1>1. \A d \in Days : ~(Open <= d)
  BY Sets
<1> QED BY <1>1, AwayTypes DEF DaysIn, R!Covers, V!Spans

LEMMA SpansOf ==
  ASSUME NEW p \in Dated \cup {None}
  PROVE  DaysIn(p) \in V!Spans
BY DaysOfPeriod, NoDays DEF Dated

LEMMA ApartDays ==
  ASSUME NEW p \in Dated \cup {None}, NEW q \in Dated \cup {None}, ~R!Overlap(p, q)
  PROVE  DaysIn(p) \cap DaysIn(q) = {}
<1> SUFFICES ASSUME p \in R!Periods, q \in R!Periods,
                    NEW d \in Days, R!Covers(p, d), R!Covers(q, d)
             PROVE  FALSE
  BY NoDays DEF DaysIn, Dated
<1>1. p.from \in Nat /\ p.to \in Nat /\ q.from \in Nat /\ q.to \in Nat /\ d \in Nat
  BY PeriodTypes, Sets
<1> QED BY <1>1 DEF R!Covers, R!Overlap

LEMMA OneVersion ==
  ASSUME NEW P \in [Versions -> Dated \cup {None}],
         \A u, v \in Versions : u # v => ~R!Overlap(P[u], P[v])
  PROVE  \A u, v \in Versions : u # v => DaysIn(P[u]) \cap DaysIn(P[v]) = {}
BY ApartDays

LEMMA InitRefines == Init => V!Init
<1> SUFFICES ASSUME Init
             PROVE  V!Init
  OBVIOUS
<1>1. IInv
  BY InitInv
<1>2. V!OneVersionPerDay
  <2>1. \A u, v \in Versions : u # v => DaysIn(period[u]) \cap DaysIn(period[v]) = {}
    BY <1>1, OneVersion, Typed DEF IInv, Exclusion, Apart
  <2> QED BY <2>1 DEF V!OneVersionPerDay, DaysIn, DaysOf
<1>3. \A v \in Versions : DaysOf(v) \in V!Spans
  <2>1. \A v \in Versions : DaysIn(period[v]) \in V!Spans
    BY <1>1, SpansOf, Typed
  <2> QED BY <2>1 DEF DaysIn, DaysOf
<1> QED BY <1>2, <1>3 DEF V!Init

(* A COMMIT gives a version its days, takes the later ones from one, or    *)
(* gives one other days.                                                   *)
LEMMA CommitRefines ==
  ASSUME IInv, TypeOK', Exclusion', NEW o \in Ops, Publishes(o)
  PROVE  V!Next \/ UNCHANGED [v \in Versions |-> DaysOf(v)]
<1> DEFINE before(v) == DaysIn(period[v])
           after(v) == DaysIn(period'[v])
           from == input[o].from
<1>1. /\ \A v \in Versions :
           \/ period'[v] = period[v]
           \/ o \in Creates /\ v = o
           \/ /\ v = found[o] /\ period[v] \in Dated /\ period'[v] \in Dated
              /\ o \in Creates => /\ period[v].to = Open
                                  /\ period[v].from < from
                                  /\ period'[v] = [period[v] EXCEPT !.to = from]
      /\ o \in Creates => /\ o \in Versions /\ period[o] = None
                          /\ period'[o] = input[o] /\ input[o] \in R!Periods
  BY CommitEffect
<1>2. period' \in [Versions -> Dated \cup {None}]
  BY DEF TypeOK, Dated
<1>3. V!OneVersionPerDay'
  <2>1. \A u, v \in Versions : u # v => DaysIn(period'[u]) \cap DaysIn(period'[v]) = {}
    BY <1>2, OneVersion DEF Exclusion, Apart
  <2> QED BY <2>1 DEF V!OneVersionPerDay, DaysIn, DaysOf
<1>4. \A v \in Versions : DaysOf(v) = before(v) /\ DaysOf(v)' = after(v)
  BY DEF DaysIn, DaysOf
<1>5. Days = 0..MaxDay /\ V!Days = 0..MaxDay /\ MaxDay \in Nat /\ Open = MaxDay + 1
  BY Sets DEF V!Days
<1>6. ASSUME NEW v \in Versions, o \in Creates, v # o, period'[v] # period[v]
      PROVE  /\ v = found[o]
             /\ MaxDay \in before(v)
             /\ before(v) \cap {d \in Days : d < from} # {}
             /\ after(v) = before(v) \cap {d \in Days : d < from}
  <2>1. /\ v = found[o] /\ period[v] \in Dated /\ period[v].to = Open
        /\ period[v].from < from /\ period'[v] = [period[v] EXCEPT !.to = from]
        /\ from \in Days
    BY <1>1, <1>6, PeriodTypes
  <2>2. /\ period[v] \in R!Periods /\ period'[v] \in R!Periods
        /\ period'[v].from = period[v].from /\ period'[v].to = from
    BY <1>5, <2>1, Ended, AwayTypes DEF Dated
  <2>3. before(v) = period[v].from..MaxDay /\ after(v) = period[v].from..(from - 1)
    <3>1. period[v].to - 1 = MaxDay
      BY <1>5, <2>1
    <3>2. /\ before(v) = period[v].from..(period[v].to - 1)
          /\ after(v) = period'[v].from..(period'[v].to - 1)
      BY <2>2, DaysOfPeriod
    <3> QED BY <2>2, <3>1, <3>2
  <2>4. period[v].from \in 0..MaxDay
    BY <1>5, <2>2, PeriodTypes
  <2> QED BY <1>5, <2>1, <2>3, <2>4
<1> HIDE DEF before, after, from
<1>7. CASE o \in Creates
  <2> DEFINE D == after(o)
  <2>1. /\ o \in Versions /\ D \in V!Spans /\ from \in D
        /\ \A d \in D : d \in Days /\ from <= d
        /\ before(o) = {}
    <3>1. D = DaysIn(input[o]) /\ before(o) = {} /\ input[o] \in R!Periods
      BY <1>1, <1>7, NoDays DEF after, before
    <3>2. /\ DaysIn(input[o]) \in V!Spans /\ from \in DaysIn(input[o])
          /\ \A d \in DaysIn(input[o]) : from <= d
      BY <3>1, DaysOfPeriod DEF from
    <3> QED BY <1>1, <1>7, <3>1, <3>2 DEF DaysIn
  <2>2. V!Before(D) = {d \in Days : d < from}
    BY <1>5, <2>1 DEF V!Before
  <2> HIDE DEF D
  <2>3. CASE \A v \in Versions : v # o => period'[v] = period[v]
    <3>1. \A v \in Versions : v # o => after(v) = before(v)
      BY <2>3 DEF after, before
    <3>2. [v \in Versions |-> DaysOf(v)]' = [[v \in Versions |-> DaysOf(v)] EXCEPT ![o] = D]
      BY <1>4, <3>1 DEF D
    <3>3. V!Introduce(o, D)
      BY <1>3, <1>4, <2>1, <3>2 DEF V!Introduce
    <3> QED BY <2>1, <3>3 DEF V!Next
  <2>4. CASE \E u \in Versions : u # o /\ period'[u] # period[u]
    <3>1. PICK u \in Versions : u # o /\ period'[u] # period[u]
      BY <2>4
    <3>2. /\ u = found[o] /\ MaxDay \in before(u)
          /\ before(u) \cap V!Before(D) # {}
          /\ after(u) = before(u) \cap V!Before(D)
      BY <1>6, <1>7, <2>2, <3>1
    <3>3. \A v \in Versions : v # o /\ v # u => after(v) = before(v)
      BY <1>6, <1>7, <3>2 DEF after, before
    <3>4. [v \in Versions |-> DaysOf(v)]'
            = [[v \in Versions |-> DaysOf(v)] EXCEPT ![o] = D, ![u] = @ \cap V!Before(D)]
      BY <1>4, <2>1, <3>1, <3>2, <3>3 DEF D
    <3>5. V!Introduce(o, D)
      BY <1>3, <1>4, <2>1, <3>1, <3>2, <3>4 DEF V!Introduce
    <3> QED BY <2>1, <3>5 DEF V!Next
  <2> QED BY <2>3, <2>4
<1>8. CASE o \notin Creates /\ UNCHANGED period
  <2>1. \A v \in Versions : DaysOf(v)' = DaysOf(v)
    BY <1>8 DEF DaysOf
  <2> QED BY <2>1
<1>9. CASE o \notin Creates /\ period' # period
  <2> DEFINE v == found[o]
             D == after(v)
  <2>1. v \in Versions /\ \A u \in Versions : u # v => period'[u] = period[u]
    <3>1. PICK u \in Versions : period'[u] # period[u]
      BY <1>2, <1>9, Typed
    <3> QED BY <1>1, <1>9, <3>1
  <2>2. D \in V!Spans
    BY <1>2, <2>1, SpansOf DEF after
  <2>3. \A u \in Versions : u # v => after(u) = before(u)
    BY <2>1 DEF after, before
  <2>4. [u \in Versions |-> DaysOf(u)]' = [[u \in Versions |-> DaysOf(u)] EXCEPT ![v] = D]
    BY <1>4, <2>1, <2>3
  <2> HIDE DEF D
  <2>5. V!Replace(v, D)
    BY <1>3, <2>4 DEF V!Replace
  <2> QED BY <2>1, <2>2, <2>5 DEF V!Next
<1> QED BY <1>7, <1>8, <1>9

(* The instructions, edited as well as replaced, implement the versions of *)
(* which no day has two (DatedVersions, where any version may be given     *)
(* other days).                                                            *)
THEOREM InstructionsImplementVersions == Spec => ImplementsVersions
<1>1. IInv /\ IInv' /\ [Next]_vars => [V!Next]_([v \in Versions |-> DaysOf(v)])
  <2> SUFFICES ASSUME IInv, IInv', [Next]_vars, \A o \in Ops : ~Publishes(o)
               PROVE  UNCHANGED [v \in Versions |-> DaysOf(v)]
    BY CommitRefines DEF IInv
  <2>1. UNCHANGED period
    BY OnlyCommits
  <2> QED BY <2>1 DEF DaysOf
<1> QED BY <1>1, InitRefines, InstructionInvariant, PTL DEF Spec, ImplementsVersions, V!Spec

(* No day has two versions of a section, as the table has them             *)
(* (application_instructions_section_no_overlap), whatever versions move and *)
(* calls run at once.                                                      *)
OneVersionADay ==
  \A d \in Days : \A u, v \in Versions :
    R!Covers(period[u], d) /\ R!Covers(period[v], d) => u = v

THEOREM NoDayHasTwoVersions == Spec => []OneVersionADay
<1>1. IInv => OneVersionADay
  <2> SUFFICES ASSUME TypeOK, Exclusion,
                      NEW d \in Days, NEW u \in Versions, NEW v \in Versions,
                      R!Covers(period[u], d), R!Covers(period[v], d), u # v
               PROVE  FALSE
    BY DEF IInv, OneVersionADay
  <2>1. period[u] \in Dated \cup {None} /\ period[v] \in Dated \cup {None}
    BY DEF TypeOK, Dated
  <2>2. ~R!Overlap(period[u], period[v])
    BY DEF Exclusion, Apart
  <2>3. DaysIn(period[u]) \cap DaysIn(period[v]) = {}
    BY <2>1, <2>2, ApartDays
  <2> QED BY <2>3 DEF DaysIn
<1> QED BY <1>1, InstructionInvariant, PTL
=============================================================================
