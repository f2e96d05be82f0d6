------------------------- MODULE LegacyForms_proofs -------------------------
(***************************************************************************)
(* For any handlers, job runs, mails and students: the inductive invariant *)
(* of a competition form.                                                  *)
(*                                                                         *)
(* Nothing locks the document between the read and the save of a handler,  *)
(* so what a form owes to its advisor has to be known of the handlers in   *)
(* flight as well as of the document (Agreeing, Consenting); what an       *)
(* applicant saves over has to be known from the version of the document   *)
(* (UpToDate); and that a mail failed often enough, of the counts that the *)
(* overlapping runs of the job have read before (Counting).                *)
(***************************************************************************)
EXTENDS LegacyForms, TLAPS

USE LegacyAssumption

(* What a pending mail and a run that is to try it count were failed       *)
(* deliveries.  Of a mail that is sent this is not so: a save that failed  *)
(* after the delivery may have raised its count.                           *)
Counting ==
  \A m \in Mails :
    /\ mail[m] \in {"none", "pending"} => retries[m] <= failures[m]
    /\ \A j \in Runs :
         m \in DOMAIN todo[j] /\ todo[j][m] < MaxRetries => todo[j][m] <= failures[m]

Closing ==
  closed => \E m \in Mails :
    failures[m] >= MaxRetries \/ (m \in unsaved /\ failures[m] + 1 = MaxRetries)

(* Who has found points can add one. *)
Adding ==
  \A r \in Requests, s \in Students :
    adding[r][s].at = "found" => adding[r][s].points < MaxPoints

(* Without an agreement, no form is under revision, nobody who has read it *)
(* takes it there, and nobody is about to credit anything.                 *)
Agreeing ==
  \/ agreedBy # {}
  \/ /\ status \notin {"needs_revision", "resubmitted", "approved"}
     /\ agreed # "yes"
     /\ \A r \in Requests : call[r].kind \notin {"update", "revise", "approve", "reject"}
     /\ \A r \in Requests, s \in Students : adding[r][s] = Done
     /\ \A s \in Students : points[s] = 0

(* The advisor is replaced only after an agreement, so that the first one  *)
(* that is saved is of the advisor the form names; and who has read the    *)
(* form for a review has seen the mark of its advisor.                     *)
Consenting ==
  /\ agreed = "yes" => advisor \in agreedBy \cup overtaken
  /\ \A r \in Requests :
       /\ call[r].kind = "agree" => agreedBy # {} \/ call[r].advisor = advisor
       /\ call[r].kind \in Reviews => call[r].advisor \in agreedBy \cup overtaken

(* An applicant's copy that is not out of date shows the form as it is, but *)
(* for the job that closes it without a new version.                       *)
UpToDate ==
  \A r \in Requests :
    call[r].kind = "update" /\ ~call[r].stale =>
      closed \/ (status = "needs_revision" /\ ~locked)

IInv ==
  /\ TypeOK
  /\ Counting
  /\ Closing
  /\ Adding
  /\ Agreeing
  /\ Consenting
  /\ UpToDate

LEMMA Justified == IInv => StatusJustified
BY DEF IInv, TypeOK, Closing, Agreeing, Consenting, StatusJustified

Memory == UNION {[ms -> 0..MaxRetries] : ms \in SUBSET Mails}

LEMMA MemoryIs ==
  ASSUME NEW f
  PROVE  f \in Memory <=> \E ms \in SUBSET Mails : f \in [ms -> 0..MaxRetries]
BY DEF Memory

LEMMA NothingRead == Nothing \in Memory /\ DOMAIN Nothing = {}
<1>1. {} \in SUBSET Mails /\ Nothing \in [{} -> 0..MaxRetries]
  BY DEF Nothing
<1> QED BY <1>1, MemoryIs DEF Nothing

(* TypeOK without and with what the runs have in memory. *)
FieldsOK ==
  /\ places \in Places
  /\ status \in Statuses \cup {"none"}
  /\ agreed \in {"unset", "yes", "no"}
  /\ link \in {"none", "live", "expired"}
  /\ deadline \in {"none", "open", "past"}
  /\ {locked, closed, tokenTaken, sweeping} \subseteq BOOLEAN
  /\ advisor \in Nat
  /\ agreedBy \subseteq Nat /\ overtaken \subseteq Nat
  /\ call \in [Requests -> Calls \cup {Idle}]
  /\ mail \in [Mails -> {"none", "pending", "sent", "failed"}]
  /\ retries \in [Mails -> 0..MaxRetries]
  /\ \A m \in Mails : retries[m] = MaxRetries => mail[m] \in {"sent", "failed"}
  /\ failures \in [Mails -> 0..MaxRetries]
  /\ unsaved \subseteq Mails
  /\ points \in [Students -> 0..MaxPoints]
  /\ adding \in [Requests -> [Students -> Steps]]

LEMMA TypesNow == TypeOK <=> FieldsOK /\ todo \in [Runs -> Memory]
BY DEF TypeOK, FieldsOK, Memory

LEMMA TypesThen == TypeOK' <=> FieldsOK' /\ todo' \in [Runs -> Memory]
BY DEF TypeOK, FieldsOK, Memory

LEMMA InitInv == Init => IInv
<1> SUFFICES ASSUME Init PROVE IInv
  OBVIOUS
<1>1. Done \in Steps /\ Done.at = "done"
  BY DEF Steps, Done
<1>2. Idle.kind = "none"
  BY DEF Idle
<1>3. TypeOK
  <2>1. FieldsOK
    <3>1. {locked, closed, tokenTaken, sweeping} \subseteq BOOLEAN
      BY DEF Init
    <3>2. /\ retries \in [Mails -> 0..MaxRetries] /\ failures \in [Mails -> 0..MaxRetries]
          /\ points \in [Students -> 0..MaxPoints]
      BY DEF Init
    <3>3. /\ call \in [Requests -> Calls \cup {Idle}]
          /\ adding \in [Requests -> [Students -> Steps]]
      BY <1>1 DEF Init
    <3> QED BY <3>1, <3>2, <3>3 DEF Init, FieldsOK
  <2>2. todo \in [Runs -> Memory]
    BY NothingRead DEF Init
  <2> QED BY <2>1, <2>2, TypesNow
<1>4. Counting /\ Closing
  BY NothingRead DEF Init, Counting, Closing
<1>5. Adding /\ Agreeing /\ Consenting /\ UpToDate
  BY <1>1, <1>2 DEF Init, Adding, Agreeing, Consenting, Reviews, UpToDate
<1> QED BY <1>3, <1>4, <1>5 DEF IInv

(***************************************************************************)
(* Types                                                                   *)
(***************************************************************************)

(* The version of a document makes every copy of an applicant stale. *)
LEMMA Outdated ==
  ASSUME NEW c \in [Requests -> Calls \cup {Idle}]
  PROVE  /\ Outdate(c) \in [Requests -> Calls \cup {Idle}]
         /\ \A r \in Requests : /\ Outdate(c)[r].kind = c[r].kind
                                /\ c[r].kind # "update" => Outdate(c)[r] = c[r]
                                /\ Outdate(c)[r].kind = "update" => Outdate(c)[r].stale
<1>1. ASSUME NEW r \in Requests
      PROVE  /\ Outdate(c)[r] \in Calls \cup {Idle}
             /\ Outdate(c)[r].kind = c[r].kind
             /\ c[r].kind # "update" => Outdate(c)[r] = c[r]
             /\ Outdate(c)[r].kind = "update" => Outdate(c)[r].stale
  <2>1. CASE c[r].kind = "update"
    <3>1. c[r] \in Calls
      BY <2>1 DEF Idle
    <3>2. Outdate(c)[r] = [c[r] EXCEPT !.stale = TRUE]
      BY <2>1 DEF Outdate
    <3> QED BY <2>1, <3>1, <3>2 DEF Calls
  <2>2. CASE c[r].kind # "update"
    BY <2>2 DEF Outdate
  <2> QED BY <2>1, <2>2
<1>2. Outdate(c) = [r \in Requests |-> Outdate(c)[r]]
  BY DEF Outdate
<1> QED BY <1>1, <1>2

LEMMA Returned ==
  ASSUME TypeOK, NEW r \in Requests
  PROVE  /\ Return(r) \in [Requests -> Calls \cup {Idle}]
         /\ Return(r)[r] = Idle
         /\ \A q \in Requests \ {r} : Return(r)[q] = call[q]
BY DEF TypeOK, Return

(* A run forgets the mail that it is through with. *)
LEMMA Finished ==
  ASSUME TypeOK, NEW j \in Runs, NEW m \in Mails
  PROVE  /\ Finish(j, m) \in [Runs -> Memory]
         /\ \A i \in Runs : /\ DOMAIN Finish(j, m)[i] \subseteq DOMAIN todo[i]
                            /\ \A n \in DOMAIN Finish(j, m)[i] : Finish(j, m)[i][n] = todo[i][n]
<1> DEFINE f == [n \in DOMAIN todo[j] \ {m} |-> todo[j][n]]
<1>1. todo \in [Runs -> Memory]
  BY TypesNow
<1>2. PICK ms \in SUBSET Mails : todo[j] \in [ms -> 0..MaxRetries]
  BY <1>1, MemoryIs
<1>3. ms \ {m} \in SUBSET Mails /\ f \in [ms \ {m} -> 0..MaxRetries]
  BY <1>2
<1>4. f \in Memory /\ DOMAIN f = ms \ {m} /\ \A n \in ms \ {m} : f[n] = todo[j][n]
  BY <1>3, MemoryIs
<1>5. Finish(j, m) = [todo EXCEPT ![j] = f]
  BY DEF Finish
<1> HIDE DEF f
<1> QED BY <1>1, <1>2, <1>4, <1>5

(* A student was read, and one point more than that is saved. *)
LEMMA Writing ==
  ASSUME IInv, NEW r \in Requests, NEW s \in Students, adding[r][s].at = "found"
  PROVE  adding[r][s].points + 1 \in 0..MaxPoints
<1>1. adding[r][s] \in Steps
  BY DEF IInv, TypeOK
<1>2. PICK n \in 0..MaxPoints : adding[r][s] = Found(n)
  BY <1>1 DEF Steps, Done, Due
<1>3. adding[r][s].points = n
  BY <1>2 DEF Found
<1>4. n < MaxPoints
  BY <1>3 DEF IInv, Adding
<1> QED BY <1>3, <1>4

LEMMA TypeInv ==
  ASSUME IInv, [Next]_vars
  PROVE  TypeOK'
<1>0. FieldsOK /\ todo \in [Runs -> Memory]
  BY TypesNow DEF IInv
<1>00. \A n \in 0..MaxPoints : Done \in Steps /\ Due \in Steps /\ Found(n) \in Steps
  BY DEF Steps
<1> USE DEF FieldsOK, Statuses, formVars, mailVars, pointVars
<1>1. ASSUME NEW r \in Requests, Submit(r)
      PROVE  TypeOK'
  <2>1. call' \in [Requests -> Calls \cup {Idle}]
    BY <1>0, <1>1 DEF Submit, Copy, Calls, Kinds
  <2> QED BY <1>0, <1>1, <2>1, TypesThen DEF Submit
<1>2. ASSUME NEW r \in Requests, NEW k \in Kinds, Read(r, k)
      PROVE  TypeOK'
  <2>1. call' \in [Requests -> Calls \cup {Idle}]
    BY <1>0, <1>2 DEF Read, Copy, Calls
  <2>2. adding' \in [Requests -> [Students -> Steps]]
    BY <1>0, <1>00, <1>2 DEF Read
  <2> QED BY <1>0, <1>2, <2>1, <2>2, TypesThen DEF Read
<1>3. ASSUME NEW r \in Requests, NEW m \in Mails, QueueMail(r, m)
      PROVE  TypeOK'
  <2>1. retries[m] # MaxRetries
    BY <1>0, <1>3 DEF QueueMail
  <2> QED BY <1>0, <1>3, <2>1, TypesThen DEF QueueMail
<1>4. ASSUME NEW r \in Requests, Save(r)
      PROVE  TypeOK'
  <2>1. call' \in [Requests -> Calls \cup {Idle}]
    BY <1>4, Outdated, Returned DEF Save, IInv
  <2>2. /\ status' \in Statuses \cup {"none"} /\ agreed' \in {"unset", "yes", "no"}
        /\ link' \in {"none", "live", "expired"} /\ deadline' \in {"none", "open", "past"}
    BY <1>0, <1>4 DEF Save, StatusAfter, AgreedAfter, LinkAfter, DeadlineAfter
  <2>3. /\ locked' \in BOOLEAN /\ overtaken' \subseteq Nat
        /\ advisor' \in Nat /\ agreedBy' \subseteq Nat
    <3>1. call[r] \in Calls
      BY <1>0, <1>4 DEF Save, Accepted, Working
    <3>2. call[r].advisor \in Nat
      BY <3>1 DEF Calls
    <3>3. agreedBy' \in {agreedBy, agreedBy \cup {call[r].advisor}}
      BY <1>4 DEF Save
    <3>4. overtaken' \in {overtaken, overtaken \cup {advisor}}
      BY <1>4 DEF Save
    <3>5. locked' = LockAfter(call[r].kind) /\ advisor' \in {advisor, advisor + 1}
      BY <1>4 DEF Save
    <3>6. locked' \in BOOLEAN
      <4>1. \A x : LockAfter(x) \in BOOLEAN
        BY DEF LockAfter
      <4> QED BY <3>5, <4>1
    <3>7. advisor' \in Nat /\ agreedBy' \subseteq Nat /\ overtaken' \subseteq Nat
      BY <1>0, <3>2, <3>3, <3>4, <3>5
    <3> QED BY <3>6, <3>7
  <2> QED BY <1>0, <1>4, <2>1, <2>2, <2>3, TypesThen DEF Save
<1>5. CASE DeleteFile
  <2>1. call' \in [Requests -> Calls \cup {Idle}]
    BY <1>0, <1>5, Outdated DEF DeleteFile
  <2> QED BY <1>0, <1>5, <2>1, TypesThen DEF DeleteFile
<1>6. ASSUME NEW r \in Requests, Leave(r)
      PROVE  TypeOK'
  <2>1. call' \in [Requests -> Calls \cup {Idle}]
    BY <1>6, Returned DEF Leave, IInv
  <2>2. adding' \in [Requests -> [Students -> Steps]]
    BY <1>0, <1>00, <1>6 DEF Leave
  <2> QED BY <1>0, <1>6, <2>1, <2>2, TypesThen DEF Leave
<1>7. CASE LinkExpires \/ DeadlinePasses \/ OtherFormClosed \/ SweepFind
  BY <1>0, <1>7, TypesThen DEF LinkExpires, DeadlinePasses, OtherFormClosed, SweepFind
<1>8. CASE SweepSave
  <2>1. call' \in [Requests -> Calls \cup {Idle}]
    BY <1>0, <1>8, Outdated DEF SweepSave
  <2> QED BY <1>0, <1>8, <2>1, TypesThen DEF SweepSave
<1>9. ASSUME NEW r \in Requests, NEW s \in Students, PointsStep(r, s)
      PROVE  TypeOK'
  <2>1. adding' \in [Requests -> [Students -> Steps]]
    <3>1. points[s] \in 0..MaxPoints
      BY <1>0
    <3>2. Found(points[s]) \in Steps
      BY <1>00, <3>1
    <3>3. PICK x \in Steps : adding' = [adding EXCEPT ![r][s] = x]
      BY <1>00, <1>9, <3>2 DEF PointsStep, ReadPoints, WritePoints, SkipPoints
    <3> QED BY <1>0, <3>3
  <2>2. points' \in [Students -> 0..MaxPoints]
    BY <1>0, <1>9, Writing DEF PointsStep, ReadPoints, WritePoints, SkipPoints
  <2>3. UNCHANGED <<places, formVars, tokenTaken, call, mailVars, sweeping>>
    BY <1>9 DEF PointsStep, ReadPoints, WritePoints, SkipPoints
  <2> QED BY <1>0, <2>1, <2>2, <2>3, TypesThen
<1>10. ASSUME NEW j \in Runs, StartRun(j)
       PROVE  TypeOK'
  <2>1. PICK taken \in SUBSET PendingMails :
          todo' = [todo EXCEPT ![j] = [m \in taken |-> retries[m]]]
    BY <1>10 DEF StartRun
  <2>2. [m \in taken |-> retries[m]] \in [taken -> 0..MaxRetries] /\ taken \in SUBSET Mails
    BY <1>0 DEF PendingMails
  <2>3. [m \in taken |-> retries[m]] \in Memory
    BY <2>2, MemoryIs
  <2> QED BY <1>0, <1>10, <2>1, <2>3, TypesThen DEF StartRun
<1>11. ASSUME NEW j \in Runs, NEW m \in Mails, Deliver(j, m)
       PROVE  TypeOK'
  <2>1. /\ mail' \in [Mails -> {"none", "pending", "sent", "failed"}]
        /\ \A n \in Mails : retries'[n] = MaxRetries => mail'[n] \in {"sent", "failed"}
    BY <1>0, <1>11 DEF Deliver
  <2> QED BY <1>0, <1>11, <2>1, Finished, TypesThen DEF Deliver, IInv
<1>12. ASSUME NEW m \in Mails, DeliveryFails(m) \/ SaveFails(m)
       PROVE  failures' \in [Mails -> 0..MaxRetries] /\ unsaved' \subseteq Mails
  <2>1. /\ failures \in [Mails -> 0..MaxRetries] /\ unsaved \subseteq Mails
        /\ MaxRetries \in Nat
    BY <1>0
  <2>2. CASE DeliveryFails(m)
    <3>1. (IF failures[m] < MaxRetries THEN failures[m] + 1 ELSE failures[m]) \in 0..MaxRetries
      BY <2>1
    <3> QED BY <2>1, <2>2, <3>1 DEF DeliveryFails
  <2>3. CASE SaveFails(m)
    BY <2>1, <2>3 DEF SaveFails
  <2> QED BY <1>12, <2>2, <2>3
<1>13. ASSUME NEW j \in Runs, NEW m \in Mails, m \in DOMAIN todo[j]
       PROVE  todo[j][m] \in 0..MaxRetries
  <2>1. todo[j] \in Memory
    BY <1>0
  <2> QED BY <1>13, <2>1, MemoryIs
<1>14. ASSUME NEW j \in Runs, NEW m \in Mails, RetryMail(j, m)
       PROVE  TypeOK'
  <2>0. todo[j][m] \in 0..MaxRetries /\ ~(todo[j][m] + 1 >= MaxRetries)
    BY <1>13, <1>14 DEF RetryMail, Tries, IsAt, LastTry
  <2>1. todo[j][m] \in 0..MaxRetries /\ todo[j][m] + 1 < MaxRetries
    BY <2>0
  <2>2. /\ retries' \in [Mails -> 0..MaxRetries] /\ retries'[m] # MaxRetries
        /\ \A n \in Mails \ {m} : retries'[n] = retries[n]
    BY <1>0, <1>14, <2>1 DEF RetryMail
  <2>3. /\ mail' \in [Mails -> {"none", "pending", "sent", "failed"}]
        /\ \A n \in Mails \ {m} : mail'[n] = mail[n]
        /\ failures' \in [Mails -> 0..MaxRetries] /\ unsaved' \subseteq Mails
    BY <1>0, <1>12, <1>14 DEF RetryMail
  <2>4. \A n \in Mails : retries'[n] = MaxRetries => mail'[n] \in {"sent", "failed"}
    BY <1>0, <2>2, <2>3
  <2> QED BY <1>0, <1>14, <2>2, <2>3, <2>4, Finished, TypesThen DEF RetryMail, IInv
<1>15. ASSUME NEW j \in Runs, NEW m \in Mails, CloseForm(j, m)
       PROVE  TypeOK'
  <2>1. PICK ms \in SUBSET Mails : todo[j] \in [ms -> 0..MaxRetries]
    BY <1>0, MemoryIs
  <2>2. [todo[j] EXCEPT ![m] = MaxRetries] \in Memory
    BY <2>1, MemoryIs
  <2>3. todo' \in [Runs -> Memory]
    BY <1>0, <1>15, <2>2 DEF CloseForm
  <2> QED BY <1>0, <1>12, <1>15, <2>3, TypesThen DEF CloseForm
<1>16. ASSUME NEW j \in Runs, NEW m \in Mails, FailMail(j, m)
       PROVE  TypeOK'
  <2>0. MaxRetries \in 0..MaxRetries
    OBVIOUS
  <2>1. /\ retries' \in [Mails -> 0..MaxRetries]
        /\ mail' \in [Mails -> {"none", "pending", "sent", "failed"}]
    BY <1>0, <1>16, <2>0 DEF FailMail
  <2>2. \A n \in Mails : retries'[n] = MaxRetries => mail'[n] \in {"sent", "failed"}
    BY <1>0, <1>16 DEF FailMail
  <2> QED BY <1>0, <1>16, <2>1, <2>2, Finished, TypesThen DEF FailMail, IInv
<1>18. ASSUME NEW j \in Runs, NEW m \in Mails, GiveUpRefused(j, m) \/ StopRun(j, m)
       PROVE  TypeOK'
  <2>1. todo' = [todo EXCEPT ![j] = Nothing]
    BY <1>18 DEF GiveUpRefused, StopRun
  <2>2. failures' \in [Mails -> 0..MaxRetries] /\ unsaved' \subseteq Mails
    BY <1>0, <1>12, <1>18 DEF GiveUpRefused, StopRun
  <2>3. UNCHANGED <<places, formVars, tokenTaken, call, mail, retries, sweeping, pointVars>>
    BY <1>18 DEF GiveUpRefused, StopRun
  <2> QED BY <1>0, <2>1, <2>2, <2>3, NothingRead, TypesThen
<1>17. CASE UNCHANGED vars
  BY <1>0, <1>17, TypesThen DEF vars
<1> QED BY <1>1, <1>2, <1>3, <1>4, <1>5, <1>6, <1>7, <1>8, <1>9, <1>10, <1>11, <1>14, <1>15,
           <1>16, <1>17, <1>18
        DEF Next, Handler, MailStep

(***************************************************************************)
(* The email job                                                           *)
(***************************************************************************)

LEMMA CountTypes ==
  ASSUME IInv
  PROVE  /\ mail \in [Mails -> {"none", "pending", "sent", "failed"}]
         /\ retries \in [Mails -> 0..MaxRetries] /\ failures \in [Mails -> 0..MaxRetries]
         /\ todo \in [Runs -> Memory]
         /\ \A j \in Runs, m \in Mails : m \in DOMAIN todo[j] => todo[j][m] \in 0..MaxRetries
         /\ \A m \in Mails : mail[m] = "pending" => retries[m] < MaxRetries
<1>1. /\ mail \in [Mails -> {"none", "pending", "sent", "failed"}]
      /\ retries \in [Mails -> 0..MaxRetries] /\ failures \in [Mails -> 0..MaxRetries]
      /\ todo \in [Runs -> Memory]
      /\ \A m \in Mails : retries[m] = MaxRetries => mail[m] \in {"sent", "failed"}
  BY TypesNow DEF IInv, FieldsOK
<1>2. ASSUME NEW j \in Runs, NEW m \in Mails, m \in DOMAIN todo[j]
      PROVE  todo[j][m] \in 0..MaxRetries
  <2>1. todo[j] \in Memory
    BY <1>1
  <2> QED BY <1>2, <2>1, MemoryIs
<1> QED BY <1>1, <1>2

(* A failed delivery is counted, a failed save is kept, and what was       *)
(* counted before stays.                                                   *)
LEMMA Caught ==
  ASSUME IInv, NEW m \in Mails, DeliveryFails(m) \/ SaveFails(m)
  PROVE  /\ \A n \in Mails : failures'[n] \in 0..MaxRetries /\ failures[n] <= failures'[n]
         /\ unsaved \subseteq unsaved'
         /\ DeliveryFails(m) =>
              /\ unsaved' = unsaved
              /\ failures'[m] = failures[m] + 1 \/ failures'[m] = MaxRetries
              /\ \A n \in Mails \ {m} : failures'[n] = failures[n]
         /\ SaveFails(m) => m \in unsaved' /\ failures' = failures
BY CountTypes DEF DeliveryFails, SaveFails

(* A mail that closed the form is not taken from it again. *)
LEMMA StillClosing ==
  ASSUME IInv, closed' = closed,
         UNCHANGED <<failures, unsaved>> \/ \E m \in Mails : DeliveryFails(m) \/ SaveFails(m)
  PROVE  Closing'
<1>0. Closing
  BY DEF IInv
<1>1. CASE UNCHANGED <<failures, unsaved>>
  BY <1>0, <1>1 DEF Closing
<1>2. ASSUME NEW m \in Mails, DeliveryFails(m) \/ SaveFails(m)
      PROVE  Closing'
  <2>1. SUFFICES ASSUME closed PROVE Closing'
    BY DEF Closing
  <2>2. PICK n \in Mails :
          failures[n] >= MaxRetries \/ (n \in unsaved /\ failures[n] + 1 = MaxRetries)
    BY <1>0, <2>1 DEF Closing
  <2>3. failures[n] \in 0..MaxRetries /\ failures'[n] \in 0..MaxRetries
    BY <1>2, Caught, CountTypes
  <2>4. failures'[n] >= MaxRetries \/ (n \in unsaved' /\ failures'[n] + 1 = MaxRetries)
    BY <1>2, <2>2, <2>3, Caught
  <2> QED BY <2>4 DEF Closing
<1> QED BY <1>1, <1>2

LEMMA CountingInv ==
  ASSUME IInv, [Next]_vars
  PROVE  Counting' /\ Closing'
<1> USE DEF mailVars, formVars
<1>0. Counting /\ Closing
  BY DEF IInv
<1>1. ASSUME UNCHANGED mailVars, UNCHANGED closed
      PROVE  Counting' /\ Closing'
  BY <1>0, <1>1 DEF Counting, Closing
<1>2. ASSUME \/ \E r \in Requests : Submit(r) \/ Save(r) \/ Leave(r)
             \/ \E r \in Requests, k \in Kinds : Read(r, k)
             \/ \E r \in Requests, s \in Students : PointsStep(r, s)
             \/ DeleteFile \/ LinkExpires \/ DeadlinePasses \/ OtherFormClosed
             \/ SweepFind \/ SweepSave
             \/ UNCHANGED vars
      PROVE  UNCHANGED mailVars /\ UNCHANGED closed
  BY <1>2 DEF Submit, Save, Leave, Read, PointsStep, ReadPoints, WritePoints, SkipPoints,
              DeleteFile, LinkExpires, DeadlinePasses, OtherFormClosed, SweepFind, SweepSave,
              vars
<1>3. ASSUME NEW r \in Requests, NEW m \in Mails, QueueMail(r, m)
      PROVE  Counting' /\ Closing'
  <2>1. \A n \in Mails : mail'[n] \in {"none", "pending"} => mail[n] \in {"none", "pending"}
    BY <1>3, CountTypes DEF QueueMail
  <2>2. UNCHANGED <<retries, failures, unsaved, todo, closed>>
    BY <1>3 DEF QueueMail
  <2> QED BY <1>0, <2>1, <2>2 DEF Counting, Closing
<1>4. ASSUME NEW j \in Runs, StartRun(j)
      PROVE  Counting' /\ Closing'
  <2>1. PICK taken \in SUBSET PendingMails :
          todo' = [todo EXCEPT ![j] = [m \in taken |-> retries[m]]]
    BY <1>4 DEF StartRun
  <2>2. /\ \A m \in DOMAIN todo'[j] : mail[m] = "pending" /\ todo'[j][m] = retries[m]
        /\ \A i \in Runs \ {j} : todo'[i] = todo[i]
    BY <2>1, CountTypes DEF PendingMails
  <2>3. UNCHANGED <<mail, retries, failures, unsaved, closed>>
    BY <1>4 DEF StartRun
  <2> QED BY <1>0, <2>2, <2>3 DEF Counting, Closing
<1>5. ASSUME NEW j \in Runs, NEW m \in Mails,
             todo' = Finish(j, m) \/ todo' = [todo EXCEPT ![j] = Nothing]
      PROVE  \A i \in Runs, n \in Mails :
               n \in DOMAIN todo'[i] => n \in DOMAIN todo[i] /\ todo'[i][n] = todo[i][n]
  <2>1. CASE todo' = Finish(j, m)
    BY <2>1, Finished DEF IInv
  <2>2. CASE todo' = [todo EXCEPT ![j] = Nothing]
    BY <2>2, NothingRead, CountTypes
  <2> QED BY <1>5, <2>1, <2>2
<1>6. ASSUME NEW j \in Runs, NEW m \in Mails,
             Deliver(j, m) \/ FailMail(j, m) \/ GiveUpRefused(j, m) \/ StopRun(j, m)
      PROVE  Counting' /\ Closing'
  <2>1. /\ todo' = Finish(j, m) \/ todo' = [todo EXCEPT ![j] = Nothing]
        /\ UNCHANGED <<failures, closed>>
        /\ UNCHANGED unsaved \/ SaveFails(m)
    BY <1>6 DEF Deliver, FailMail, GiveUpRefused, StopRun, SaveFails
  <2>2. \A n \in Mails : mail'[n] \in {"none", "pending"} =>
          mail[n] \in {"none", "pending"} /\ retries'[n] = retries[n]
    BY <1>6, CountTypes DEF Deliver, FailMail, GiveUpRefused, StopRun
  <2>3. Counting'
    BY <1>0, <1>5, <2>1, <2>2 DEF Counting
  <2> QED BY <2>1, <2>3, StillClosing
<1>7. ASSUME NEW j \in Runs, NEW m \in Mails, Tries(j, m)
      PROVE  todo[j][m] \in 0..MaxRetries /\ todo[j][m] <= failures[m]
  BY <1>0, <1>7, CountTypes DEF Tries, IsAt, Counting
<1>8. ASSUME NEW j \in Runs, NEW m \in Mails, RetryMail(j, m)
      PROVE  Counting' /\ Closing'
  <2>1. /\ todo' = Finish(j, m) /\ closed' = closed
        /\ retries' = [retries EXCEPT ![m] = todo[j][m] + 1]
    BY <1>8 DEF RetryMail
  <2>2. /\ todo[j][m] \in 0..MaxRetries /\ todo[j][m] <= failures[m]
        /\ todo[j][m] + 1 < MaxRetries
    BY <1>7, <1>8 DEF RetryMail, Tries, LastTry
  <2>3. CASE DeliveryFails(m) /\ UNCHANGED mail
    <3>1. todo[j][m] + 1 <= failures'[m]
      BY <2>2, <2>3, Caught, CountTypes
    <3>2. \A n \in Mails : failures[n] \in 0..MaxRetries /\ failures'[n] \in 0..MaxRetries
                           /\ failures[n] <= failures'[n] /\ retries[n] \in 0..MaxRetries
      BY <2>3, Caught, CountTypes
    <3>3. \A n \in Mails : mail'[n] \in {"none", "pending"} => retries'[n] <= failures'[n]
      BY <1>0, <2>1, <2>3, <3>1, <3>2, CountTypes DEF Counting
    <3>4. \A i \in Runs, n \in Mails :
            n \in DOMAIN todo'[i] /\ todo'[i][n] < MaxRetries => todo'[i][n] <= failures'[n]
      BY <1>0, <1>5, <2>1, <3>2, CountTypes DEF Counting
    <3> QED BY <2>1, <2>3, <3>3, <3>4, StillClosing DEF Counting
  <2>4. CASE UNCHANGED <<failures, unsaved>> /\ mail' = [mail EXCEPT ![m] = "sent"]
    <3>1. \A n \in Mails : mail'[n] \in {"none", "pending"} =>
            mail[n] \in {"none", "pending"} /\ retries'[n] = retries[n]
      BY <2>1, <2>4, CountTypes
    <3>2. Counting'
      BY <1>0, <1>5, <2>1, <2>4, <3>1 DEF Counting
    <3> QED BY <2>1, <2>4, <3>2, StillClosing
  <2> QED BY <1>8, <2>3, <2>4 DEF RetryMail
<1>9. ASSUME NEW j \in Runs, NEW m \in Mails, CloseForm(j, m)
      PROVE  Counting' /\ Closing'
  <2>1. /\ m \in DOMAIN todo[j] /\ LastTry(j, m)
        /\ DeliveryFails(m) \/ SaveFails(m)
        /\ todo' = [todo EXCEPT ![j][m] = MaxRetries]
        /\ UNCHANGED <<mail, retries>>
    BY <1>9 DEF CloseForm, Tries, IsAt
  <2>2. /\ todo[j][m] \in 0..MaxRetries /\ todo[j][m] <= failures[m]
        /\ todo[j][m] + 1 >= MaxRetries
    BY <1>7, <1>9, <2>1 DEF CloseForm, LastTry
  <2>3. failures'[m] >= MaxRetries \/ (m \in unsaved' /\ failures'[m] + 1 = MaxRetries)
    BY <2>1, <2>2, Caught, CountTypes
  <2>4. \A i \in Runs, n \in Mails :
          n \in DOMAIN todo'[i] /\ todo'[i][n] < MaxRetries =>
            n \in DOMAIN todo[i] /\ todo'[i][n] = todo[i][n]
    BY <2>1, CountTypes
  <2>5. \A n \in Mails : failures[n] \in 0..MaxRetries /\ failures'[n] \in 0..MaxRetries
                         /\ failures[n] <= failures'[n] /\ retries[n] \in 0..MaxRetries
    BY <2>1, Caught, CountTypes
  <2>6. \A n \in Mails : mail'[n] \in {"none", "pending"} => retries'[n] <= failures'[n]
    BY <1>0, <2>1, <2>5 DEF Counting
  <2>7. \A i \in Runs, n \in Mails :
          n \in DOMAIN todo'[i] /\ todo'[i][n] < MaxRetries => todo'[i][n] <= failures'[n]
    <3>1. ASSUME NEW i \in Runs, NEW n \in Mails,
                 n \in DOMAIN todo'[i], todo'[i][n] < MaxRetries
          PROVE  todo'[i][n] <= failures'[n]
      <4>1. n \in DOMAIN todo[i] /\ todo'[i][n] = todo[i][n]
        BY <2>4, <3>1
      <4>2. todo[i][n] \in 0..MaxRetries /\ todo[i][n] <= failures[n]
        BY <1>0, <3>1, <4>1, CountTypes DEF Counting
      <4>3. /\ failures[n] \in 0..MaxRetries /\ failures'[n] \in 0..MaxRetries
            /\ failures[n] <= failures'[n]
        BY <2>5
      <4> HIDE DEF Counting
      <4> QED BY <4>1, <4>2, <4>3
    <3> QED BY <3>1
  <2> QED BY <2>3, <2>6, <2>7 DEF Counting, Closing
<1> QED BY <1>1, <1>2, <1>3, <1>4, <1>6, <1>8, <1>9 DEF Next, Handler, MailStep

(***************************************************************************)
(* The handlers                                                            *)
(***************************************************************************)

LEMMA AddingInv ==
  ASSUME IInv, [Next]_vars
  PROVE  Adding'
<1> USE DEF pointVars
<1>0. /\ Adding /\ adding \in [Requests -> [Students -> Steps]]
      /\ points \in [Students -> 0..MaxPoints]
      /\ Done.at = "done" /\ Due.at = "due"
      /\ \A n : Found(n).at = "found" /\ Found(n).points = n
  BY TypesNow DEF IInv, FieldsOK, Done, Due, Found
<1>1. ASSUME NEW r \in Requests, NEW k \in Kinds, Read(r, k)
      PROVE  Adding'
  BY <1>0, <1>1 DEF Read, Adding
<1>2. ASSUME NEW r \in Requests, Leave(r)
      PROVE  Adding'
  BY <1>0, <1>2 DEF Leave, Adding
<1>3. ASSUME NEW r \in Requests, NEW s \in Students, ReadPoints(r, s)
      PROVE  Adding'
  BY <1>0, <1>3 DEF ReadPoints, Adding
<1>4. ASSUME NEW r \in Requests, NEW s \in Students, WritePoints(r, s) \/ SkipPoints(r, s)
      PROVE  Adding'
  <2>1. adding' = [adding EXCEPT ![r][s] = Done]
    BY <1>4 DEF WritePoints, SkipPoints
  <2> QED BY <1>0, <2>1 DEF Adding
<1>5. ASSUME UNCHANGED adding
      PROVE  Adding'
  BY <1>0, <1>5 DEF Adding
<1>6. ASSUME \/ \E r \in Requests : Submit(r) \/ Save(r)
             \/ \E r \in Requests, m \in Mails : QueueMail(r, m)
             \/ \E j \in Runs : MailStep(j)
             \/ \E j \in Runs, m \in Mails : StopRun(j, m)
             \/ DeleteFile \/ LinkExpires \/ DeadlinePasses \/ OtherFormClosed
             \/ SweepFind \/ SweepSave
             \/ UNCHANGED vars
      PROVE  UNCHANGED adding
  BY <1>6 DEF Submit, Save, QueueMail, MailStep, StartRun, Deliver, RetryMail, CloseForm,
              FailMail, StopRun, GiveUpRefused, DeleteFile, LinkExpires, DeadlinePasses,
              OtherFormClosed, SweepFind, SweepSave, vars
<1> QED BY <1>1, <1>2, <1>3, <1>4, <1>5, <1>6 DEF Next, Handler, PointsStep

LEMMA CallTypes ==
  ASSUME IInv
  PROVE  /\ call \in [Requests -> Calls \cup {Idle}]
         /\ adding \in [Requests -> [Students -> Steps]]
         /\ points \in [Students -> 0..MaxPoints]
         /\ Idle.kind = "none"
BY TypesNow DEF IInv, FieldsOK, Idle

(* Only a save adds an agreement, or brings the form back to review. *)
LEMMA Unsaved ==
  ASSUME [Next]_vars, ~\E r \in Requests : Save(r)
  PROVE  /\ agreedBy' = agreedBy
         /\ status' = status \/ status' \in {"submitted", "rejected", "reserved"}
<1> USE DEF formVars
<1> DEFINE Kept == /\ agreedBy' = agreedBy
                   /\ status' = status \/ status' \in {"submitted", "rejected", "reserved"}
<1>1. ASSUME NEW r \in Requests, Submit(r) \/ Leave(r)
      PROVE  Kept
  BY <1>1 DEF Submit, Leave
<1>2. ASSUME NEW r \in Requests, NEW k \in Kinds, Read(r, k)
      PROVE  Kept
  BY <1>2 DEF Read
<1>3. ASSUME NEW r \in Requests, NEW m \in Mails, QueueMail(r, m)
      PROVE  Kept
  BY <1>3 DEF QueueMail
<1>4. ASSUME NEW r \in Requests, NEW s \in Students, PointsStep(r, s)
      PROVE  Kept
  BY <1>4 DEF PointsStep, ReadPoints, WritePoints, SkipPoints
<1>5. ASSUME NEW j \in Runs, StartRun(j)
      PROVE  Kept
  BY <1>5 DEF StartRun
<1>6. ASSUME NEW j \in Runs, NEW m \in Mails,
             \/ Deliver(j, m) \/ RetryMail(j, m) \/ CloseForm(j, m) \/ FailMail(j, m)
             \/ StopRun(j, m) \/ GiveUpRefused(j, m)
      PROVE  Kept
  BY <1>6 DEF Deliver, RetryMail, CloseForm, FailMail, StopRun, GiveUpRefused
<1>7. ASSUME \/ DeleteFile \/ SweepFind \/ SweepSave
             \/ LinkExpires \/ DeadlinePasses \/ OtherFormClosed \/ UNCHANGED vars
      PROVE  Kept
  BY <1>7 DEF DeleteFile, SweepFind, SweepSave, LinkExpires, DeadlinePasses, OtherFormClosed,
              vars
<1> HIDE DEF Kept
<1>8. ASSUME NEW r \in Requests, Handler(r)
      PROVE  Kept
  BY <1>1, <1>2, <1>3, <1>4, <1>8 DEF Handler
<1>9. ASSUME NEW j \in Runs, MailStep(j) \/ \E m \in Mails : StopRun(j, m)
      PROVE  Kept
  BY <1>5, <1>6, <1>9 DEF MailStep
<1>10. Kept
  BY <1>7, <1>8, <1>9 DEF Next
<1> QED BY <1>10 DEF Kept

(* The agreement of some advisor stays on record, and without it there is  *)
(* nothing that would take the form past the review.                       *)
LEMMA AgreeingInv ==
  ASSUME IInv, [Next]_vars
  PROVE  Agreeing'
<1> USE DEF formVars, pointVars
<1>1. CASE agreedBy # {}
  <2>1. agreedBy \subseteq agreedBy'
    <3>1. CASE \E r \in Requests : Save(r)
      BY <3>1 DEF Save
    <3>2. CASE ~\E r \in Requests : Save(r)
      BY <3>2, Unsaved
    <3> QED BY <3>1, <3>2
  <2> QED BY <1>1, <2>1 DEF Agreeing
<1>2. CASE agreedBy = {}
  <2>0. /\ status \notin {"needs_revision", "resubmitted", "approved"} /\ agreed # "yes"
        /\ \A r \in Requests : call[r].kind \notin {"update", "revise", "approve", "reject"}
        /\ \A r \in Requests, s \in Students : adding[r][s] = Done
        /\ \A s \in Students : points[s] = 0
    BY <1>2 DEF IInv, Agreeing
  <2>1. ASSUME NEW r \in Requests, Submit(r)
        PROVE  Agreeing'
    <3>1. \A q \in Requests : call'[q].kind \notin {"update", "revise", "approve", "reject"}
      BY <2>0, <2>1, CallTypes DEF Submit, Copy
    <3> QED BY <2>0, <2>1, <3>1 DEF Submit, Agreeing
  <2>2. ASSUME NEW r \in Requests, NEW k \in Kinds, Read(r, k)
        PROVE  Agreeing'
    <3>1. k \notin {"update", "revise", "approve", "reject"}
      BY <2>0, <2>2 DEF Read, Allowed, Reviews
    <3>2. \A q \in Requests : call'[q].kind \notin {"update", "revise", "approve", "reject"}
      BY <2>0, <2>2, <3>1, CallTypes DEF Read, Copy
    <3> QED BY <2>0, <2>2, <3>1, <3>2 DEF Read, Agreeing
  <2>3. ASSUME NEW r \in Requests, Save(r)
        PROVE  Agreeing'
    <3> DEFINE k == call[r].kind
    <3>1. /\ k \notin {"update", "revise"}
          /\ status' = StatusAfter(k) /\ agreed' = AgreedAfter(k)
          /\ k = "agree" => agreedBy' # {}
          /\ call' = Outdate(Return(r)) /\ UNCHANGED pointVars
      BY <2>0, <2>3 DEF Save
    <3>2. \A q \in Requests : call'[q].kind \notin {"update", "revise", "approve", "reject"}
      <4>1. /\ Return(r) \in [Requests -> Calls \cup {Idle}]
            /\ \A q \in Requests : Return(r)[q] \in {Idle, call[q]}
        BY Returned DEF IInv
      <4>2. \A q \in Requests : call'[q].kind = Return(r)[q].kind
        BY <3>1, <4>1, Outdated
      <4> QED BY <2>0, <4>1, <4>2, CallTypes
    <3>3. CASE k = "agree"
      BY <3>1, <3>3 DEF Agreeing
    <3>4. CASE k # "agree"
      <4>1. status' \in {status, "rejected"} /\ agreed' \in {agreed, "no"}
        BY <3>1, <3>4 DEF StatusAfter, AgreedAfter
      <4> QED BY <2>0, <3>1, <3>2, <4>1 DEF Agreeing
    <3> QED BY <3>3, <3>4
  <2>4. ASSUME NEW r \in Requests, Leave(r)
        PROVE  Agreeing'
    <3>1. /\ \A q \in Requests : call'[q].kind \notin {"update", "revise", "approve", "reject"}
          /\ \A q \in Requests, s \in Students : adding'[q][s] = Done
      BY <2>0, <2>4, Returned, CallTypes DEF Leave, IInv
    <3> QED BY <2>0, <2>4, <3>1 DEF Leave, Agreeing
  <2>5. ASSUME NEW r \in Requests, NEW s \in Students, PointsStep(r, s)
        PROVE  FALSE
    <3>1. Done # Due /\ Done.at # "found"
      BY DEF Done, Due
    <3> QED BY <2>0, <2>5, <3>1 DEF PointsStep, ReadPoints, WritePoints, SkipPoints
  <2>6. CASE DeleteFile \/ SweepSave
    <3>1. \A q \in Requests : call'[q].kind \notin {"update", "revise", "approve", "reject"}
      BY <2>0, <2>6, Outdated, CallTypes DEF DeleteFile, SweepSave
    <3> QED BY <2>0, <2>6, <3>1 DEF DeleteFile, SweepSave, Agreeing
  <2>7. ASSUME NEW j \in Runs, NEW m \in Mails, CloseForm(j, m)
        PROVE  Agreeing'
    BY <2>0, <2>7 DEF CloseForm, Agreeing
  <2>8. ASSUME \/ \E r \in Requests, m \in Mails : QueueMail(r, m)
               \/ \E j \in Runs : StartRun(j)
               \/ \E j \in Runs, m \in Mails :
                    \/ Deliver(j, m) \/ RetryMail(j, m) \/ FailMail(j, m)
                    \/ StopRun(j, m) \/ GiveUpRefused(j, m)
               \/ LinkExpires \/ DeadlinePasses \/ OtherFormClosed \/ SweepFind
               \/ UNCHANGED vars
        PROVE  Agreeing'
    <3>1. UNCHANGED <<status, agreed, call, pointVars>>
      BY <2>8 DEF QueueMail, StartRun, Deliver, RetryMail, FailMail, StopRun, GiveUpRefused,
                  LinkExpires, DeadlinePasses, OtherFormClosed, SweepFind, vars
    <3> QED BY <2>0, <3>1 DEF Agreeing
  <2> QED BY <2>1, <2>2, <2>3, <2>4, <2>5, <2>6, <2>7, <2>8 DEF Next, Handler, MailStep
<1> QED BY <1>1, <1>2

(* The marks of the advisors, and the copies that handlers have of them.   *)
LEMMA ConsentingInv ==
  ASSUME IInv, [Next]_vars
  PROVE  Consenting'
<1> USE DEF formVars
<1>0. Consenting /\ Agreeing
  BY DEF IInv
<1>1. ASSUME NEW r \in Requests, NEW k \in Kinds, NEW valid,
             k \in Reviews => agreed = "yes",
             call' = [call EXCEPT ![r] = Copy(k, valid)],
             UNCHANGED <<agreed, advisor, agreedBy, overtaken>>
      PROVE  Consenting'
  <2>1. /\ call'[r].kind = k /\ call'[r].advisor = advisor
        /\ \A q \in Requests \ {r} : call'[q] = call[q]
    BY <1>1, CallTypes DEF Copy
  <2> QED BY <1>0, <1>1, <2>1 DEF Consenting
<1>2. ASSUME NEW r \in Requests, Submit(r)
      PROVE  Consenting'
  <2>1. "submit" \in Kinds /\ "submit" \notin Reviews
    BY DEF Kinds, Reviews
  <2> QED BY <1>1, <1>2, <2>1 DEF Submit
<1>3. ASSUME NEW r \in Requests, NEW k \in Kinds, Read(r, k)
      PROVE  Consenting'
  <2>1. k \in Reviews => agreed = "yes"
    BY <1>3 DEF Read, Allowed, Reviews
  <2> QED BY <1>1, <1>3, <2>1 DEF Read
<1>4. ASSUME NEW r \in Requests, Save(r)
      PROVE  Consenting'
  <2> DEFINE k == call[r].kind
  <2>1. /\ agreed' = AgreedAfter(k)
        /\ advisor' = IF k = "update" THEN advisor + 1 ELSE advisor
        /\ overtaken' = IF k = "agree" /\ call[r].advisor # advisor /\ agreedBy # {}
                        THEN overtaken \cup {advisor} ELSE overtaken
        /\ agreedBy' = IF k = "agree" THEN agreedBy \cup {call[r].advisor} ELSE agreedBy
        /\ call' = Outdate(Return(r))
    BY <1>4 DEF Save
  <2>2. \A q \in Requests : /\ call'[q].kind \in {call[q].kind, "none"}
                            /\ call'[q].kind \notin {"update", "none"} => call'[q] = call[q]
    BY <2>1, Outdated, Returned, CallTypes DEF IInv
  <2>3. k = "update" => agreedBy # {}
    BY <1>0 DEF Agreeing
  <2>4. \A q \in Requests : call[q].kind = "agree" => agreedBy # {} \/ call[q].advisor = advisor
    BY <1>0 DEF Consenting
  <2>5. agreed' = "yes" => advisor' \in agreedBy' \cup overtaken'
    <3>1. CASE k = "agree"
      BY <2>1, <2>4, <3>1
    <3>2. CASE k # "agree"
      BY <1>0, <2>1, <3>2 DEF AgreedAfter, Consenting
    <3> QED BY <3>1, <3>2
  <2>6. ASSUME NEW q \in Requests, call'[q].kind = "agree"
        PROVE  agreedBy' # {} \/ call'[q].advisor = advisor'
    <3>1. call[q].kind = "agree" /\ call'[q] = call[q]
      BY <2>2, <2>6
    <3> QED BY <2>1, <2>3, <2>4, <3>1
  <2>7. ASSUME NEW q \in Requests, call'[q].kind \in Reviews
        PROVE  call'[q].advisor \in agreedBy' \cup overtaken'
    <3>1. call[q].kind \in Reviews /\ call'[q] = call[q]
      BY <2>2, <2>7 DEF Reviews
    <3>2. call[q].advisor \in agreedBy \cup overtaken
      BY <1>0, <3>1 DEF Consenting
    <3> QED BY <2>1, <3>1, <3>2
  <2> QED BY <2>5, <2>6, <2>7 DEF Consenting
<1>5. ASSUME \/ call' = Outdate(call) \/ \E r \in Requests : call' = Return(r)
             \/ UNCHANGED call,
             UNCHANGED <<advisor, agreedBy, overtaken>>,
             agreed' \in {agreed, "unset"}
      PROVE  Consenting'
  <2>1. \A q \in Requests : /\ call'[q].kind \in {call[q].kind, "none"}
                            /\ call'[q].kind \notin {"update", "none"} => call'[q] = call[q]
    BY <1>5, Outdated, Returned, CallTypes DEF IInv
  <2>2. "update" \notin Reviews /\ "none" \notin Reviews
    BY DEF Reviews
  <2> QED BY <1>0, <1>5, <2>1, <2>2 DEF Consenting
<1>6. ASSUME \/ DeleteFile \/ SweepSave \/ LinkExpires \/ DeadlinePasses \/ OtherFormClosed
             \/ SweepFind
             \/ \E r \in Requests : Leave(r)
             \/ \E r \in Requests, m \in Mails : QueueMail(r, m)
             \/ \E r \in Requests, s \in Students : PointsStep(r, s)
             \/ \E j \in Runs : MailStep(j)
             \/ \E j \in Runs, m \in Mails : StopRun(j, m)
             \/ UNCHANGED vars
      PROVE  Consenting'
  <2>1. /\ \/ call' = Outdate(call) \/ \E r \in Requests : call' = Return(r)
           \/ UNCHANGED call
        /\ UNCHANGED <<advisor, agreedBy, overtaken>>
        /\ agreed' \in {agreed, "unset"}
    BY <1>6 DEF DeleteFile, SweepSave, LinkExpires, DeadlinePasses, OtherFormClosed, SweepFind,
                Leave, QueueMail, PointsStep, ReadPoints, WritePoints, SkipPoints, MailStep,
                StartRun, Deliver, RetryMail, CloseForm, FailMail, GiveUpRefused, StopRun, vars
  <2> QED BY <1>5, <2>1
<1> QED BY <1>2, <1>3, <1>4, <1>6 DEF Next, Handler

(* A step leaves the copies of the applicant up to date, or makes them all *)
(* stale, or closes the form.                                              *)
LEMMA UpToDateInv ==
  ASSUME IInv, [Next]_vars
  PROVE  UpToDate'
<1> USE DEF formVars
<1>0. UpToDate
  BY DEF IInv
<1>1. ASSUME NEW r \in Requests, Submit(r)
      PROVE  UpToDate'
  <2>1. call'[r].kind = "submit" /\ \A q \in Requests \ {r} : call'[q] = call[q]
    BY <1>1, CallTypes DEF Submit, Copy
  <2>2. status = "none" /\ closed' = closed
    BY <1>1 DEF Submit
  <2> QED BY <1>0, <2>1, <2>2 DEF UpToDate
<1>2. ASSUME NEW r \in Requests, NEW k \in Kinds, Read(r, k)
      PROVE  UpToDate'
  <2>1. call'[r].kind = k /\ \A q \in Requests \ {r} : call'[q] = call[q]
    BY <1>2, CallTypes DEF Read, Copy
  <2>2. /\ k = "update" => status = "needs_revision" /\ ~locked
        /\ UNCHANGED <<status, locked, closed>>
    BY <1>2 DEF Read, Allowed, Reviews
  <2> QED BY <1>0, <2>1, <2>2 DEF UpToDate
<1>3. ASSUME NEW r \in Requests, Save(r)
      PROVE  UpToDate'
  <2>1. call' = Outdate(Return(r))
    BY <1>3 DEF Save
  <2> QED BY <2>1, Outdated, Returned DEF UpToDate, IInv
<1>4. CASE DeleteFile \/ SweepSave
  <2>1. call' = Outdate(call)
    BY <1>4 DEF DeleteFile, SweepSave
  <2> QED BY <2>1, Outdated, CallTypes DEF UpToDate
<1>5. ASSUME NEW r \in Requests, Leave(r)
      PROVE  UpToDate'
  <2>1. call'[r].kind = "none" /\ \A q \in Requests \ {r} : call'[q] = call[q]
    BY <1>5, Returned, CallTypes DEF Leave, IInv
  <2>2. UNCHANGED <<status, locked, closed>>
    BY <1>5 DEF Leave
  <2> QED BY <1>0, <2>1, <2>2 DEF UpToDate
<1>6. ASSUME NEW j \in Runs, NEW m \in Mails, CloseForm(j, m)
      PROVE  UpToDate'
  BY <1>6 DEF CloseForm, UpToDate
<1>7. ASSUME \/ \E r \in Requests, m \in Mails : QueueMail(r, m)
             \/ \E r \in Requests, s \in Students : PointsStep(r, s)
             \/ \E j \in Runs : StartRun(j)
             \/ \E j \in Runs, m \in Mails :
                  \/ Deliver(j, m) \/ RetryMail(j, m) \/ FailMail(j, m)
                  \/ StopRun(j, m) \/ GiveUpRefused(j, m)
             \/ LinkExpires \/ DeadlinePasses \/ OtherFormClosed \/ SweepFind
             \/ UNCHANGED vars
      PROVE  UpToDate'
  <2>1. UNCHANGED <<status, locked, closed, call>>
    BY <1>7 DEF QueueMail, PointsStep, ReadPoints, WritePoints, SkipPoints, StartRun, Deliver,
                RetryMail, FailMail, StopRun, GiveUpRefused, LinkExpires, DeadlinePasses,
                OtherFormClosed, SweepFind, vars
  <2> QED BY <1>0, <2>1 DEF UpToDate
<1> QED BY <1>1, <1>2, <1>3, <1>4, <1>5, <1>6, <1>7 DEF Next, Handler, MailStep

LEMMA NextInv == IInv /\ [Next]_vars => IInv'
BY TypeInv, CountingInv, AddingInv, AgreeingInv, ConsentingInv, UpToDateInv DEF IInv

(* In every reachable state of a form: the types; what the pending mails   *)
(* and the runs that try them count were failed deliveries, and a closed   *)
(* form has a mail that failed often enough, or once less when a save      *)
(* failed; who has read a mark of agreement has the advisor's, unless one  *)
(* was saved over a resubmission; an applicant's copy that is not stale    *)
(* shows the form as it is.                                                *)
THEOREM FormInvariant == Spec => []IInv
<1>1. Init => IInv
  BY InitInv
<1>2. IInv /\ [Next]_vars => IInv'
  BY NextInv
<1> QED BY <1>1, <1>2, PTL DEF Spec

(* The fields of the document, the queued mails and the points keep their  *)
(* types, and a retry count never passes maxRetries.                       *)
THEOREM FormTypes == Spec => []TypeOK
<1>1. IInv => TypeOK
  BY DEF IInv
<1> QED BY <1>1, FormInvariant, PTL

(* A form is marked as agreed to, and read for a review, only if the       *)
(* advisor it names has agreed, and not the one a resubmission replaced,   *)
(* unless a second agreement was saved over the resubmission; without any  *)
(* agreement nothing is sent back, resubmitted or credited.  The email job *)
(* closes a form only for a mail whose delivery failed MaxRetries times,   *)
(* or once less when it was delivered at last and a save failed.           *)
THEOREM FormStatusJustified == Spec => []StatusJustified
<1>1. IInv => StatusJustified
  BY Justified
<1> QED BY <1>1, FormInvariant, PTL

(* updatedFormByToKen brings a form back to review only from               *)
(* needs_revision and not past a lock, unless the email job has closed it. *)
THEOREM FormResubmitsFresh == Spec => ResubmitOverwritesNothing
<1> DEFINE Fresh == status # "resubmitted" /\ status' = "resubmitted"
                      => closed \/ (status = "needs_revision" /\ ~locked)
<1>1. ASSUME IInv, [Next]_vars
      PROVE  Fresh
  <2>1. ASSUME NEW r \in Requests, Save(r)
        PROVE  Fresh
    <3>1. CASE call[r].kind = "update"
      <4>1. ~call[r].stale
        BY <2>1, <3>1 DEF Save, Accepted
      <4> QED BY <1>1, <3>1, <4>1 DEF IInv, UpToDate
    <3>2. CASE call[r].kind # "update"
      BY <2>1, <3>2 DEF Save, StatusAfter
    <3> QED BY <3>1, <3>2
  <2>2. ASSUME ~\E r \in Requests : Save(r)
        PROVE  Fresh
    BY <1>1, <2>2, Unsaved
  <2> QED BY <2>1, <2>2
<1>2. IInv /\ [Next]_vars => [Fresh]_vars
  BY <1>1
<1> QED BY <1>2, FormInvariant, PTL DEF Spec, ResubmitOverwritesNothing
=============================================================================
