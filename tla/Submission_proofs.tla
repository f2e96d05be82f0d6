-------------------------- MODULE Submission_proofs --------------------------
(***************************************************************************)
(* For any requests, advisors, forms, deadlines and faults: the inductive  *)
(* invariant of a submission, and that with all its rows and notices it is *)
(* the one step Submit of the review.                                      *)
(*                                                                         *)
(* AllOrNothing speaks of what is committed and NothingForgotten of what   *)
(* is held; neither is inductive without the other half of a request's     *)
(* life: how many attachments it has stored and where they are (Storing),  *)
(* that nothing of it is visible before its COMMIT (Filing), and when a    *)
(* committed notice is due (Scheduling).                                   *)
(*                                                                         *)
(* What the points add up to is about the sum of a sequence of any length. *)
(* The induction this takes is made on the least counterexample: a         *)
(* nonempty set of numbers has a least element, and what fails first at n  *)
(* holds up to n - 1.                                                      *)
(***************************************************************************)
EXTENDS Submission, TLAPS, WellFoundedInduction

(* Induction: what does not hold of every number has a least exception. *)
LEMMA LeastNat ==
  ASSUME NEW T, T \subseteq Nat, T # {}
  PROVE  \E n \in T : \A m \in T : n <= m
<1> DEFINE R == {p \in Nat \X Nat : p[1] < p[2]}
<1>1. IsWellFoundedOn(R, Nat)
  BY NatLessThanWellFounded DEF OpToRel
<1>2. \E n \in T : \A m \in T : <<m, n>> \notin R
  <2> HIDE DEF R
  <2> QED BY <1>1, WFMin
<1>3. PICK n \in T : \A m \in T : <<m, n>> \notin R
  BY <1>2
<1>4. ASSUME NEW m \in T
      PROVE  n <= m
  <2>1. m \in Nat /\ n \in Nat /\ ~ (m < n)
    BY <1>3
  <2> QED BY <2>1
<1> QED BY <1>4

USE SubmissionAssumption

(* How far a request that has not ended is with its attachments. *)
StoringOK(r) ==
  /\ pc[r] # "ready" => input[r] \in Inputs
  /\ pc[r] \in {"ready", "received", "found"} => stored[r] = 0
  /\ pc[r] = "storing" => stored[r] <= input[r].attachments
  /\ pc[r] = "written" => stored[r] = input[r].attachments
  /\ pc[r] \in InTxn => StoredFiles(r) \subseteq files

Storing == \A r \in Requests : StoringOK(r)

(* Before its COMMIT nothing of a request is visible, and afterwards all   *)
(* of it.                                                                  *)
FilingOK(r) ==
  /\ apps[r] = None => /\ r \notin doubt /\ answer[r] # "created"
                       /\ \A k \in tasks : k[1] # r
  /\ apps[r] # None => /\ apps[r].input = input[r]
                       /\ <<r, 0>> \in tasks
                       /\ pc[r] \in {"closing", "done"} \/ (pc[r] = "cleanup" /\ r \in doubt)
                       /\ r \in doubt \/ {r} \X (1..input[r].attachments) \subseteq files
  /\ answer[r] # "none" => pc[r] \in {"closing", "done"}
  /\ answer[r] \in {"refused", "error"} => apps[r] = None \/ r \in doubt

Filing ==
  /\ apps = [r \in Requests |-> apps[r]]
  /\ \A r \in Requests : FilingOK(r)

(* A notice is due at its time, and there is none for a time that is over. *)
Due(k) == k[2] = 0 \/ ttl > ReminderHours[k[2]]
Scheduling == \A k \in tasks : Due(k) /\ scheduled[k] = ScheduledAt(k)

(* FilesAccountedFor and AdvisorHeld, for one request. *)
KeepingOK(r) ==
  /\ \A f \in files : f[1] = r =>
       \/ f \in leaked
       \/ apps[r] # None
       \/ pc[r] \in InTxn \cup {"cleanup"} /\ f \in StoredFiles(r)
  /\ r \in temp => pc[r] \in Running \/ ("crash" \in FaultKinds /\ faults > 0)

Keeping == \A r \in Requests : KeepingOK(r)

HoldingOK(r) ==
  /\ pc[r] \in InTxn => available[input[r].advisor]
  /\ \A v \in Advisors : r \in readers[v] <=> pc[r] \in InTxn /\ input[r].advisor = v

Holding == \A r \in Requests : HoldingOK(r)

IInv ==
  /\ TypeOK
  /\ Storing
  /\ Filing
  /\ Scheduling
  /\ Keeping
  /\ Holding

LEMMA Hours ==
  /\ Len(ReminderHours) = 3 /\ DOMAIN ReminderHours = 1..3
  /\ ReminderHours[1] = 72 /\ ReminderHours[2] = 24 /\ ReminderHours[3] = 4
BY DEF ReminderHours

(* The notices follow from the deadline alone. *)
LEMMA NoticeTimes ==
  ASSUME TypeOK, NEW k \in Keys, Due(k)
  PROVE  ScheduledAt(k) \in Nat /\ ScheduledAt(k) < ttl
<1>1. k[2] \in 0..3 /\ ttl \in Nat \ {0}
  BY Hours DEF Keys, TypeOK
<1> QED BY <1>1, Hours DEF Due, ScheduledAt

LEMMA NoticesAre ==
  ASSUME NEW r \in Requests
  PROVE  /\ Notices(r) \subseteq Keys /\ <<r, 0>> \in Notices(r)
         /\ \A k \in Keys : k \in Notices(r) <=> k[1] = r /\ Due(k)
<1>1. Keys = Requests \X (0..3)
  BY Hours DEF Keys
<1>2. Notices(r) = {<<r, 0>>} \cup {<<r, i>> : i \in {i \in 1..3 : ttl > ReminderHours[i]}}
  BY Hours DEF Notices
<1> QED BY <1>1, <1>2 DEF Due

LEMMA Promised == IInv => AllOrNothing /\ NothingForgotten
<1> SUFFICES ASSUME IInv PROVE AllOrNothing /\ NothingForgotten
  OBVIOUS
<1>1. ASSUME NEW r \in Requests
      PROVE  NoticesInOrder(r)
  <2>1. ASSUME NEW i \in 0..3, NEW j \in 0..3, <<r, i>> \in tasks, <<r, j>> \in tasks
        PROVE  /\ scheduled[<<r, i>>] < ttl
               /\ i < j => scheduled[<<r, i>>] < scheduled[<<r, j>>]
    <3>1. /\ Due(<<r, i>>) /\ scheduled[<<r, i>>] = ScheduledAt(<<r, i>>)
          /\ Due(<<r, j>>) /\ scheduled[<<r, j>>] = ScheduledAt(<<r, j>>)
          /\ ttl \in Nat \ {0}
      BY <2>1 DEF IInv, Scheduling, TypeOK
    <3>2. /\ i = 0 \/ (i # 0 /\ ttl > ReminderHours[i])
          /\ j = 0 \/ (j # 0 /\ ttl > ReminderHours[j])
          /\ ScheduledAt(<<r, i>>) = IF i = 0 THEN 0 ELSE ttl - ReminderHours[i]
          /\ ScheduledAt(<<r, j>>) = IF j = 0 THEN 0 ELSE ttl - ReminderHours[j]
      BY <3>1 DEF Due, ScheduledAt
    <3> QED BY <2>1, <3>1, <3>2, Hours
  <2> QED BY <2>1, Hours DEF NoticesInOrder
<1>2. \A r \in Requests : FilingOK(r)
  BY DEF IInv, Filing
<1>3. FilesAccountedFor
  <2>1. \A f \in files : f[1] \in Requests
    BY DEF IInv, TypeOK, Files
  <2> QED BY <2>1 DEF IInv, TypeOK, Keeping, KeepingOK, FilesAccountedFor
<1>4. AdvisorHeld
  BY DEF IInv, Holding, HoldingOK, AdvisorHeld
<1> QED BY <1>1, <1>2, <1>3, <1>4 DEF AllOrNothing, FilingOK, NothingForgotten

LEMMA InitInv == Init => IInv
<1> SUFFICES ASSUME Init PROVE IInv
  OBVIOUS
<1>1. TypeOK
  BY DEF Init, TypeOK
<1>2. Storing
  BY DEF Init, Storing, StoringOK, InTxn
<1>3. Filing
  BY DEF Init, Filing, FilingOK
<1>4. Scheduling /\ Keeping /\ Holding
  BY DEF Init, Scheduling, Keeping, KeepingOK, Holding, HoldingOK, InTxn
<1> QED BY <1>1, <1>2, <1>3, <1>4 DEF IInv

(***************************************************************************)
(* Types                                                                   *)
(***************************************************************************)

LEMMA InputIs ==
  ASSUME NEW in \in Inputs
  PROVE  /\ in.advisor \in Advisors /\ in.attachments \in 1..MaxAttachments
         /\ in.attachments \in Nat
         /\ [in EXCEPT !.attachments = in.attachments] = in
BY DEF Inputs

LEMMA FilesAre ==
  ASSUME NEW r \in Requests, stored[r] \in 0..MaxAttachments
  PROVE  /\ StoredFiles(r) \subseteq Files
         /\ \A f \in Files : f \in StoredFiles(r) <=> f[1] = r /\ f[2] \in 1..stored[r]
BY DEF StoredFiles, Files

(* What a request commits is what the student sent. *)
LEMMA Complete ==
  ASSUME IInv, NEW r \in Requests, pc[r] = "written"
  PROVE  /\ input[r] \in Inputs /\ stored[r] = input[r].attachments
         /\ Application(r).input = input[r] /\ Application(r) # None
<1>1. input[r] \in Inputs /\ stored[r] = input[r].attachments
  BY DEF IInv, Storing, StoringOK
<1>2. [input[r] EXCEPT !.attachments = stored[r]] = input[r]
  BY <1>1, InputIs
<1>3. Application(r) = [input |-> input[r], total |-> RequestedTotal(input[r].form),
                        points |-> ParticipantPoints(input[r].form)]
  BY <1>2 DEF Application
<1> QED BY <1>1, <1>3, NoneAssumption

LEMMA ApplyKeepsTypes ==
  ASSUME IInv, NEW r \in Requests, pc[r] = "written", Apply(r)
  PROVE  /\ \A q \in Requests : apps'[q] = IF q = r THEN Application(r) ELSE apps[q]
         /\ apps' = [q \in Requests |-> apps'[q]]
         /\ \A q \in Requests : apps'[q] # None => apps'[q].input \in Inputs
         /\ tasks' = tasks \cup Notices(r) /\ tasks' \subseteq Keys
         /\ scheduled' \in [Keys -> Nat]
         /\ \A k \in Keys : scheduled'[k] = IF k \in Notices(r) THEN ScheduledAt(k)
                                                               ELSE scheduled[k]
         /\ readers' \in [Advisors -> SUBSET Requests]
<1>1. apps' = [apps EXCEPT ![r] = Application(r)]
  BY DEF Apply
<1>2. apps = [q \in Requests |-> apps[q]]
  BY DEF IInv, Filing
<1>3. \A q \in Requests : apps'[q] = IF q = r THEN Application(r) ELSE apps[q]
  BY <1>1, <1>2
<1>4. apps' = [q \in Requests |-> apps'[q]]
  <2> DEFINE a == Application(r)
  <2>1. apps' = [apps EXCEPT ![r] = a]
    BY <1>1
  <2> HIDE DEF a
  <2> QED BY <1>2, <2>1
<1>5. \A q \in Requests : apps'[q] # None => apps'[q].input \in Inputs
  BY <1>3, Complete DEF IInv, TypeOK
<1>6. \A k \in Notices(r) : k \in Keys /\ ScheduledAt(k) \in Nat
  BY NoticesAre, NoticeTimes DEF IInv
<1>7. /\ scheduled' \in [Keys -> Nat]
      /\ \A k \in Keys : scheduled'[k] = IF k \in Notices(r) THEN ScheduledAt(k)
                                                             ELSE scheduled[k]
  BY <1>6 DEF Apply, IInv, TypeOK
<1>8. readers' \in [Advisors -> SUBSET Requests]
  BY DEF Apply, Unlock, IInv, TypeOK
<1>9. tasks' = tasks \cup Notices(r) /\ tasks' \subseteq Keys
  BY <1>6 DEF Apply, IInv, TypeOK
<1> QED BY <1>3, <1>4, <1>5, <1>7, <1>8, <1>9

LEMMA TypeInv ==
  ASSUME IInv, [Next]_vars
  PROVE  TypeOK'
<1> USE DEF Running, InTxn, db, Goto
<1>0. /\ TypeOK
      /\ \A r \in Requests : pc[r] # "ready" => input[r] \in Inputs
  BY DEF IInv, Storing, StoringOK
<1>01. ASSUME NEW kind, Fault(kind)
       PROVE  faults' \in 0..MaxFaults
  BY <1>0, <1>01 DEF TypeOK, Fault
<1>1. ASSUME NEW r \in Requests, NEW in \in Inputs, Receive(r, in)
      PROVE  TypeOK'
  BY <1>0, <1>1 DEF TypeOK, Receive
<1>2. ASSUME NEW r \in Requests, Refuse(r) \/ CreateApplication(r) \/ CreateNotices(r)
      PROVE  TypeOK'
  BY <1>0, <1>2 DEF TypeOK, Refuse, CreateApplication, CreateNotices
<1>3. ASSUME NEW r \in Requests, FindAdvisor(r)
      PROVE  TypeOK'
  <2>1. input[r].advisor \in Advisors
    BY <1>0, <1>3, InputIs DEF FindAdvisor
  <2> QED BY <1>0, <1>3, <2>1 DEF TypeOK, FindAdvisor
<1>4. ASSUME NEW r \in Requests, pc[r] = "storing", stored[r] < input[r].attachments
      PROVE  /\ stored[r] + 1 \in 0..MaxAttachments
             /\ <<r, stored[r] + 1>> \in Files
  BY <1>0, <1>4, InputIs DEF TypeOK, Files
<1>5. ASSUME NEW r \in Requests, StoreAttachment(r)
      PROVE  TypeOK'
  <2>1. /\ stored' \in [Requests -> 0..MaxAttachments] /\ files' \subseteq Files
    <3>1. stored[r] + 1 \in 0..MaxAttachments
      <4>1. pc[r] = "storing" /\ stored[r] < input[r].attachments
        BY <1>5 DEF StoreAttachment
      <4> QED BY <1>4, <4>1
    <3> QED BY <1>0, <1>4, <1>5, <3>1 DEF TypeOK, StoreAttachment
  <2> QED BY <1>0, <1>5, <2>1 DEF TypeOK, StoreAttachment
<1>6. ASSUME NEW r \in Requests, StatFails(r)
      PROVE  TypeOK'
  <2>1. <<r, stored[r] + 1>> \in Files
    BY <1>4, <1>6 DEF StatFails
  <2>2. files' \subseteq Files /\ leaked' \subseteq Files
    BY <1>0, <1>6, <2>1 DEF TypeOK, StatFails
  <2>3. /\ readers' \in [Advisors -> SUBSET Requests] /\ faults' \in 0..MaxFaults
        /\ pc' \in [Requests -> {"ready", "done"} \cup Running]
    BY <1>0, <1>01, <1>6 DEF TypeOK, StatFails, Unlock
  <2> QED BY <1>0, <1>6, <2>2, <2>3 DEF TypeOK, StatFails
<1>7. ASSUME NEW r \in Requests, Commit(r)
      PROVE  TypeOK'
  BY <1>0, <1>7, ApplyKeepsTypes DEF TypeOK, Commit
<1>8. ASSUME NEW r \in Requests, CommitAnswerLost(r)
      PROVE  TypeOK'
  BY <1>0, <1>01, <1>8, ApplyKeepsTypes DEF TypeOK, CommitAnswerLost
<1>9. ASSUME NEW r \in Requests, Abort(r) \/ Close(r)
      PROVE  TypeOK'
  BY <1>0, <1>9 DEF TypeOK, Abort, Close, Unlock
<1>10. ASSUME NEW r \in Requests, Cleanup(r)
       PROVE  TypeOK'
  <2>1. StoredFiles(r) \subseteq Files
    BY <1>0, FilesAre DEF TypeOK
  <2>2. files' \subseteq Files /\ leaked' \subseteq Files /\ faults' \in 0..MaxFaults
    BY <1>0, <1>01, <1>10, <2>1 DEF TypeOK, Cleanup
  <2> QED BY <1>0, <1>10, <2>2 DEF TypeOK, Cleanup
<1>11. ASSUME NEW v \in Advisors, SwitchAdvisor(v)
       PROVE  TypeOK'
  BY <1>0, <1>11 DEF TypeOK, SwitchAdvisor
<1>12. CASE Crash
  <2>1. pc' \in [Requests -> {"ready", "done"} \cup Running]
    BY <1>0, <1>12 DEF TypeOK, Crash
  <2>2. leaked' \subseteq Files
    BY <1>0, <1>12 DEF TypeOK, Crash
  <2> QED BY <1>0, <1>01, <1>12, <2>1, <2>2 DEF TypeOK, Crash
<1>13. CASE UNCHANGED vars
  BY <1>0, <1>13 DEF TypeOK, vars
<1> QED BY <1>1, <1>2, <1>3, <1>5, <1>6, <1>7, <1>8, <1>9, <1>10, <1>11, <1>12, <1>13
        DEF Next, RequestStep

(***************************************************************************)
(* Requests do not meet                                                    *)
(***************************************************************************)

(* A step of r leaves alone what belongs to another request. *)
OthersStay(r) ==
  /\ UNCHANGED <<ttl, available>>
  /\ leaked \subseteq leaked' /\ (faults > 0 => faults' > 0)
  /\ apps' = [q \in Requests |-> apps'[q]]
  /\ tasks \subseteq tasks' /\ \A k \in tasks' : k \in tasks \/ k[1] = r
  /\ \A f \in files : f[1] # r => f \in files'
  /\ \A f \in files' : f[1] # r => f \in files
  /\ \A q \in Requests \ {r} :
       /\ pc'[q] = pc[q] /\ input'[q] = input[q] /\ stored'[q] = stored[q]
       /\ apps'[q] = apps[q] /\ answer'[q] = answer[q]
       /\ q \in doubt' <=> q \in doubt
       /\ q \in temp' => q \in temp
       /\ \A v \in Advisors : q \in readers'[v] <=> q \in readers[v]

LEMMA Undisturbed ==
  ASSUME IInv, NEW r \in Requests, OthersStay(r), NEW q \in Requests, q # r
  PROVE  StoringOK(q)' /\ FilingOK(q)' /\ KeepingOK(q)' /\ HoldingOK(q)'
<1>0. StoringOK(q) /\ FilingOK(q) /\ KeepingOK(q) /\ HoldingOK(q)
  BY DEF IInv, Storing, Filing, Keeping, Holding
<1>1. StoredFiles(q)' = StoredFiles(q)
  BY DEF OthersStay, StoredFiles
<1>2. /\ \A f \in files : f[1] = q => f \in files'
      /\ \A f \in files' : f[1] = q => f \in files
  BY DEF OthersStay
<1>3. StoringOK(q)'
  <2>1. \A f \in StoredFiles(q) : f[1] = q
    BY DEF StoredFiles
  <2> QED BY <1>0, <1>1, <1>2, <2>1 DEF OthersStay, StoringOK
<1>4. FilingOK(q)'
  <2>1. \A k \in tasks' : k \in tasks \/ k[1] # q
    BY DEF OthersStay
  <2>2. \A f \in {q} \X (1..input[q].attachments) : f[1] = q
    OBVIOUS
  <2>3. {q} \X (1..input[q].attachments) \subseteq files
          => {q} \X (1..input'[q].attachments) \subseteq files'
    BY <1>2, <2>2 DEF OthersStay
  <2> QED BY <1>0, <2>1, <2>3 DEF OthersStay, FilingOK
<1>5. KeepingOK(q)'
  BY <1>0, <1>1, <1>2 DEF OthersStay, KeepingOK
<1>6. HoldingOK(q)'
  BY <1>0 DEF OthersStay, HoldingOK
<1> QED BY <1>3, <1>4, <1>5, <1>6

LEMMA RequestsApart ==
  ASSUME IInv, NEW r \in Requests,
         \/ \E in \in Inputs : Receive(r, in)
         \/ RequestStep(r) \/ StatFails(r) \/ CommitAnswerLost(r)
  PROVE  OthersStay(r)
<1> USE DEF db, Goto
<1>0. /\ TypeOK /\ apps = [q \in Requests |-> apps[q]]
      /\ \A f \in StoredFiles(r) : f[1] = r
  BY DEF IInv, Filing, StoredFiles
<1>1. ASSUME NEW in \in Inputs, Receive(r, in)
      PROVE  OthersStay(r)
  BY <1>0, <1>1 DEF TypeOK, Receive, OthersStay
<1>2. CASE Refuse(r) \/ CreateApplication(r) \/ CreateNotices(r) \/ Close(r)
  BY <1>0, <1>2 DEF TypeOK, Refuse, CreateApplication, CreateNotices, Close, OthersStay
<1>3. CASE FindAdvisor(r)
  BY <1>0, <1>3 DEF TypeOK, FindAdvisor, OthersStay
<1>4. CASE StoreAttachment(r)
  BY <1>0, <1>4 DEF TypeOK, StoreAttachment, OthersStay
<1>5. ASSUME NEW kind, Fault(kind)
      PROVE  faults > 0 => faults' > 0
  BY <1>0, <1>5 DEF TypeOK, Fault
<1>6. CASE StatFails(r)
  <2> DEFINE f == <<r, stored[r] + 1>>
  <2>1. f[1] = r /\ files' = files \cup {f} /\ leaked' = leaked \cup {f}
    BY <1>6 DEF StatFails
  <2> HIDE DEF f
  <2>2. faults > 0 => faults' > 0
    BY <1>5, <1>6 DEF StatFails
  <2>3. \A q \in Requests \ {r} :
          pc'[q] = pc[q] /\ \A v \in Advisors : q \in readers'[v] <=> q \in readers[v]
    BY <1>0, <1>6 DEF TypeOK, StatFails, Unlock
  <2>4. UNCHANGED <<ttl, available, input, stored, apps, tasks, temp, answer, doubt>>
    BY <1>6 DEF StatFails
  <2> QED BY <1>0, <2>1, <2>2, <2>3, <2>4 DEF OthersStay
<1>7. CASE Abort(r)
  BY <1>0, <1>7 DEF TypeOK, Abort, Unlock, OthersStay
<1>8. CASE Cleanup(r)
  BY <1>0, <1>5, <1>8 DEF TypeOK, Cleanup, OthersStay
<1>9. ASSUME pc[r] = "written", Apply(r)
      PROVE  /\ apps' = [q \in Requests |-> apps'[q]]
             /\ \A q \in Requests \ {r} : apps'[q] = apps[q]
             /\ tasks \subseteq tasks' /\ \A k \in tasks' : k \in tasks \/ k[1] = r
             /\ \A q \in Requests \ {r}, v \in Advisors : q \in readers'[v] <=> q \in readers[v]
  <2>1. \A k \in Notices(r) : k[1] = r
    BY NoticesAre
  <2>2. \A q \in Requests \ {r}, v \in Advisors : q \in readers'[v] <=> q \in readers[v]
    BY <1>0, <1>9 DEF TypeOK, Apply, Unlock
  <2>3. tasks' = tasks \cup Notices(r)
    BY <1>9 DEF Apply
  <2>4. /\ apps' = [q \in Requests |-> apps'[q]]
        /\ \A q \in Requests : apps'[q] = IF q = r THEN Application(r) ELSE apps[q]
    BY <1>9, ApplyKeepsTypes
  <2> QED BY <2>1, <2>2, <2>3, <2>4
<1>10. CASE Commit(r)
  BY <1>0, <1>9, <1>10 DEF TypeOK, Commit, OthersStay
<1>11. CASE CommitAnswerLost(r)
  BY <1>0, <1>5, <1>9, <1>11 DEF TypeOK, CommitAnswerLost, OthersStay
<1> QED BY <1>1, <1>2, <1>3, <1>4, <1>6, <1>7, <1>8, <1>10, <1>11 DEF RequestStep

RequestOK(r) == StoringOK(r) /\ FilingOK(r) /\ KeepingOK(r) /\ HoldingOK(r)

LEMMA RequestNow == IInv => \A r \in Requests : RequestOK(r)
BY DEF IInv, Storing, Filing, Keeping, Holding, RequestOK

(***************************************************************************)
(* A request's own steps                                                   *)
(***************************************************************************)

LEMMA QuietStep ==
  ASSUME IInv, NEW r \in Requests,
         \/ \E in \in Inputs : Receive(r, in)
         \/ Refuse(r) \/ CreateApplication(r) \/ CreateNotices(r) \/ Close(r)
  PROVE  RequestOK(r)'
<1> USE DEF db, Goto, InTxn, Running
<1>0. TypeOK /\ StoringOK(r) /\ FilingOK(r) /\ KeepingOK(r) /\ HoldingOK(r)
  BY RequestNow DEF IInv, RequestOK
<1>1. StoredFiles(r)' = StoredFiles(r)
  BY DEF Receive, Refuse, CreateApplication, CreateNotices, Close, StoredFiles
<1>2. ASSUME NEW in \in Inputs, Receive(r, in)
      PROVE  RequestOK(r)'
  <2>1. pc[r] = "ready" /\ pc'[r] = "received" /\ input'[r] = in
    BY <1>0, <1>2 DEF TypeOK, Receive
  <2>2. UNCHANGED <<ttl, available, readers, stored, apps, tasks, scheduled, files, answer,
                    leaked, doubt, faults>>
    BY <1>2 DEF Receive
  <2>3. StoringOK(r)' /\ FilingOK(r)'
    BY <1>0, <1>1, <2>1, <2>2 DEF StoringOK, FilingOK
  <2>4. KeepingOK(r)' /\ HoldingOK(r)'
    BY <1>0, <1>1, <2>1, <2>2 DEF KeepingOK, HoldingOK
  <2> QED BY <2>3, <2>4 DEF RequestOK
<1>3. CASE Refuse(r)
  <2>1. pc[r] = "received" /\ pc'[r] = "closing" /\ answer'[r] = "refused"
    BY <1>0, <1>3 DEF TypeOK, Refuse
  <2>2. UNCHANGED <<ttl, available, readers, input, stored, apps, tasks, scheduled, files,
                    temp, leaked, doubt, faults>>
    BY <1>3 DEF Refuse
  <2> QED BY <1>0, <1>1, <2>1, <2>2 DEF RequestOK, StoringOK, FilingOK, KeepingOK, HoldingOK
<1>4. CASE CreateApplication(r)
  <2>1. pc[r] = "found" /\ pc'[r] = "storing"
    BY <1>0, <1>4 DEF TypeOK, CreateApplication
  <2>2. UNCHANGED <<ttl, available, readers, input, stored, apps, tasks, scheduled, files,
                    temp, answer, leaked, doubt, faults>>
    BY <1>4 DEF CreateApplication
  <2>3. stored[r] <= input[r].attachments
    BY <1>0, <2>1, InputIs DEF StoringOK
  <2> QED BY <1>0, <1>1, <2>1, <2>2, <2>3
          DEF RequestOK, StoringOK, FilingOK, KeepingOK, HoldingOK
<1>5. CASE CreateNotices(r)
  <2>1. /\ pc[r] = "storing" /\ pc'[r] = "written"
        /\ stored[r] = input[r].attachments
    BY <1>0, <1>5 DEF TypeOK, CreateNotices
  <2>2. UNCHANGED <<ttl, available, readers, input, stored, apps, tasks, scheduled, files,
                    temp, answer, leaked, doubt, faults>>
    BY <1>5 DEF CreateNotices
  <2> QED BY <1>0, <1>1, <2>1, <2>2
          DEF RequestOK, StoringOK, FilingOK, KeepingOK, HoldingOK
<1>6. CASE Close(r)
  <2>1. pc[r] = "closing" /\ pc'[r] = "done" /\ temp' = temp \ {r}
    BY <1>0, <1>6 DEF TypeOK, Close
  <2>2. UNCHANGED <<ttl, available, readers, input, stored, apps, tasks, scheduled, files,
                    answer, leaked, doubt, faults>>
    BY <1>6 DEF Close
  <2> QED BY <1>0, <1>1, <2>1, <2>2
          DEF RequestOK, StoringOK, FilingOK, KeepingOK, HoldingOK
<1> QED BY <1>2, <1>3, <1>4, <1>5, <1>6

LEMMA StorageStep ==
  ASSUME IInv, NEW r \in Requests,
         FindAdvisor(r) \/ StoreAttachment(r) \/ StatFails(r) \/ Abort(r) \/ Cleanup(r)
  PROVE  RequestOK(r)'
<1> USE DEF db, Goto, InTxn, Running
<1>0. TypeOK /\ StoringOK(r) /\ FilingOK(r) /\ KeepingOK(r) /\ HoldingOK(r)
  BY RequestNow DEF IInv, RequestOK
<1>00. stored[r] \in Nat
  BY <1>0 DEF TypeOK
<1>1. CASE FindAdvisor(r)
  <2>1. pc[r] = "received" /\ pc'[r] = "found" /\ available[input[r].advisor]
    BY <1>0, <1>1 DEF TypeOK, FindAdvisor
  <2>2. UNCHANGED <<ttl, available, input, stored, apps, tasks, scheduled, files, temp,
                    answer, leaked, doubt, faults>>
    BY <1>1 DEF FindAdvisor
  <2>3. \A v \in Advisors : r \in readers'[v] <=> input[r].advisor = v
    BY <1>0, <1>1, <2>1 DEF TypeOK, FindAdvisor, HoldingOK
  <2>4. StoringOK(r)' /\ FilingOK(r)'
    <3>1. StoredFiles(r) = {}
      BY <1>0, <2>1 DEF StoredFiles, StoringOK
    <3> QED BY <1>0, <2>1, <2>2, <3>1 DEF StoringOK, FilingOK, StoredFiles
  <2>5. KeepingOK(r)' /\ HoldingOK(r)'
    BY <1>0, <2>1, <2>2, <2>3 DEF KeepingOK, HoldingOK, StoredFiles
  <2> QED BY <2>4, <2>5 DEF RequestOK
<1>2. CASE StoreAttachment(r)
  <2>1. /\ pc[r] = "storing" /\ stored[r] < input[r].attachments
        /\ stored'[r] = stored[r] + 1 /\ files' = files \cup {<<r, stored[r] + 1>>}
    BY <1>0, <1>2 DEF TypeOK, StoreAttachment
  <2>2. UNCHANGED <<ttl, available, readers, pc, input, apps, tasks, scheduled, temp,
                    answer, leaked, doubt, faults>>
    BY <1>2 DEF StoreAttachment
  <2>3. StoredFiles(r)' = StoredFiles(r) \cup {<<r, stored[r] + 1>>}
    BY <1>00, <2>1 DEF StoredFiles
  <2>4. input[r].attachments \in Nat
    BY <1>0, <2>1, InputIs DEF StoringOK
  <2>5. StoringOK(r)'
    BY <1>0, <1>00, <2>1, <2>2, <2>3, <2>4 DEF StoringOK
  <2>6. FilingOK(r)' /\ HoldingOK(r)'
    BY <1>0, <2>1, <2>2 DEF FilingOK, HoldingOK
  <2>7. KeepingOK(r)'
    BY <1>0, <2>1, <2>2, <2>3 DEF KeepingOK
  <2> QED BY <2>5, <2>6, <2>7 DEF RequestOK
<1>3. CASE StatFails(r)
  <2> DEFINE f == <<r, stored[r] + 1>>
  <2>1. /\ pc[r] = "storing" /\ pc'[r] = "cleanup"
        /\ files' = files \cup {f} /\ leaked' = leaked \cup {f}
        /\ \A v \in Advisors : r \notin readers'[v]
    BY <1>0, <1>3 DEF TypeOK, StatFails, Unlock
  <2> HIDE DEF f
  <2>2. UNCHANGED <<ttl, available, input, stored, apps, tasks, scheduled, temp, answer,
                    doubt>>
    BY <1>3 DEF StatFails
  <2>3. StoredFiles(r)' = StoredFiles(r)
    BY <2>2 DEF StoredFiles
  <2>4. StoringOK(r)' /\ FilingOK(r)' /\ HoldingOK(r)'
    BY <1>0, <2>1, <2>2, <2>3 DEF StoringOK, FilingOK, HoldingOK
  <2>5. KeepingOK(r)'
    BY <1>0, <2>1, <2>2, <2>3 DEF KeepingOK
  <2> QED BY <2>4, <2>5 DEF RequestOK
<1>4. CASE Abort(r)
  <2>1. /\ pc[r] \in InTxn /\ pc'[r] = "cleanup"
        /\ \A v \in Advisors : r \notin readers'[v]
    BY <1>0, <1>4 DEF TypeOK, Abort, Unlock
  <2>2. UNCHANGED <<ttl, available, input, stored, apps, tasks, scheduled, files, temp,
                    answer, leaked, doubt, faults>>
    BY <1>4 DEF Abort
  <2>3. StoredFiles(r)' = StoredFiles(r)
    BY <2>2 DEF StoredFiles
  <2>4. StoringOK(r)' /\ FilingOK(r)' /\ HoldingOK(r)'
    BY <1>0, <2>1, <2>2, <2>3 DEF StoringOK, FilingOK, HoldingOK
  <2>5. KeepingOK(r)'
    BY <1>0, <2>1, <2>2, <2>3 DEF KeepingOK
  <2> QED BY <2>4, <2>5 DEF RequestOK
<1>5. CASE Cleanup(r)
  <2>1. pc[r] = "cleanup" /\ pc'[r] = "closing" /\ answer'[r] = "error"
    BY <1>0, <1>5 DEF TypeOK, Cleanup
  <2>2. UNCHANGED <<ttl, available, readers, input, stored, apps, tasks, scheduled, temp,
                    doubt>>
    BY <1>5 DEF Cleanup
  <2>3. \A f \in files' : (f \in files /\ f \notin StoredFiles(r)) \/ f \in leaked'
    BY <1>5 DEF Cleanup
  <2>4. leaked \subseteq leaked' /\ (faults > 0 => faults' > 0)
    <3>1. faults \in Nat
      BY <1>0 DEF TypeOK
    <3>2. leaked \subseteq leaked'
      BY <1>5 DEF Cleanup
    <3>3. faults' = faults \/ faults' = faults + 1
      BY <1>5 DEF Cleanup, Fault
    <3> QED BY <3>1, <3>2, <3>3
  <2>5. r \in doubt \/ apps[r] = None
    BY <1>0, <2>1 DEF FilingOK
  <2>6. StoringOK(r)' /\ HoldingOK(r)'
    BY <1>0, <2>1, <2>2 DEF StoringOK, HoldingOK
  <2>7. FilingOK(r)'
    BY <1>0, <2>1, <2>2, <2>5 DEF FilingOK
  <2>8. KeepingOK(r)'
    BY <1>0, <2>1, <2>2, <2>3, <2>4 DEF KeepingOK
  <2> QED BY <2>6, <2>7, <2>8 DEF RequestOK
<1> QED BY <1>1, <1>2, <1>3, <1>4, <1>5

LEMMA CommitStep ==
  ASSUME IInv, NEW r \in Requests, Commit(r) \/ CommitAnswerLost(r)
  PROVE  RequestOK(r)'
<1> USE DEF db, Goto, InTxn, Running
<1>0. TypeOK /\ StoringOK(r) /\ FilingOK(r) /\ KeepingOK(r) /\ HoldingOK(r)
  BY RequestNow DEF IInv, RequestOK
<1>1. pc[r] = "written" /\ Apply(r)
  BY DEF Commit, CommitAnswerLost
<1>2. /\ apps'[r] # None /\ apps'[r].input = input[r] /\ input[r] \in Inputs
      /\ <<r, 0>> \in tasks'
      /\ {r} \X (1..input[r].attachments) \subseteq files
  <2>1. <<r, 0>> \in tasks'
    BY <1>1, NoticesAre DEF Apply
  <2>2. {r} \X (1..input[r].attachments) \subseteq files
    BY <1>0, <1>1, Complete DEF StoringOK, StoredFiles
  <2> QED BY <1>1, <2>1, <2>2, Complete, ApplyKeepsTypes
<1>3. \A v \in Advisors : r \notin readers'[v]
  BY <1>1 DEF Apply, Unlock
<1>4. UNCHANGED <<ttl, available, input, stored, files, temp, leaked>>
  BY DEF Commit, CommitAnswerLost
<1>5. CASE Commit(r)
  <2>1. pc'[r] = "closing" /\ answer'[r] = "created" /\ UNCHANGED <<doubt, faults>>
    BY <1>0, <1>5 DEF TypeOK, Commit
  <2>2. StoringOK(r)' /\ KeepingOK(r)' /\ HoldingOK(r)'
    BY <1>0, <1>1, <1>2, <1>3, <1>4, <2>1 DEF StoringOK, KeepingOK, HoldingOK
  <2>3. FilingOK(r)'
    BY <1>2, <1>4, <2>1 DEF FilingOK
  <2> QED BY <2>2, <2>3 DEF RequestOK
<1>6. CASE CommitAnswerLost(r)
  <2>1. pc'[r] = "cleanup" /\ answer'[r] = answer[r] /\ r \in doubt'
    BY <1>0, <1>6 DEF TypeOK, CommitAnswerLost
  <2>2. StoringOK(r)' /\ KeepingOK(r)' /\ HoldingOK(r)'
    BY <1>0, <1>1, <1>2, <1>3, <1>4, <2>1 DEF StoringOK, KeepingOK, HoldingOK
  <2>3. FilingOK(r)'
    BY <1>0, <1>1, <1>2, <1>4, <2>1 DEF FilingOK
  <2> QED BY <2>2, <2>3 DEF RequestOK
<1> QED BY <1>5, <1>6

(***************************************************************************)
(* Everything together                                                     *)
(***************************************************************************)

(* The step of a request touches the schedule only when it commits. *)
LEMMA OnSchedule ==
  ASSUME IInv, NEW r \in Requests,
         \/ \E in \in Inputs : Receive(r, in)
         \/ RequestStep(r) \/ StatFails(r) \/ CommitAnswerLost(r)
  PROVE  Scheduling'
<1>0. TypeOK /\ Scheduling /\ FilingOK(r)
  BY DEF IInv, Filing
<1>1. CASE pc[r] = "written" /\ Apply(r) /\ UNCHANGED ttl
  <2>1. \A k \in tasks : k \notin Notices(r)
    <3>1. apps[r] = None
      BY <1>0, <1>1 DEF FilingOK
    <3>2. \A k \in tasks : k[1] # r /\ k \in Keys
      BY <1>0, <3>1 DEF FilingOK, TypeOK
    <3> QED BY <3>2, NoticesAre
  <2>2. \A k \in Keys : Due(k)' = Due(k) /\ ScheduledAt(k)' = ScheduledAt(k)
    BY <1>1 DEF Due, ScheduledAt
  <2>3. ASSUME NEW k \in tasks'
        PROVE  Due(k)' /\ scheduled'[k] = ScheduledAt(k)'
    <3>1. k \in Keys /\ (k \in tasks \/ k \in Notices(r))
      BY <1>1, ApplyKeepsTypes
    <3>2. scheduled'[k] = IF k \in Notices(r) THEN ScheduledAt(k) ELSE scheduled[k]
      BY <1>1, <3>1, ApplyKeepsTypes
    <3>3. Due(k) /\ scheduled'[k] = ScheduledAt(k)
      BY <1>0, <2>1, <3>1, <3>2, NoticesAre DEF Scheduling
    <3> QED BY <2>2, <3>1, <3>3
  <2> QED BY <2>3 DEF Scheduling
<1>2. CASE UNCHANGED <<ttl, tasks, scheduled>>
  BY <1>0, <1>2 DEF Scheduling, Due, ScheduledAt
<1>3. \/ pc[r] = "written" /\ Apply(r) /\ UNCHANGED ttl
      \/ UNCHANGED <<ttl, tasks, scheduled>>
  BY DEF Receive, RequestStep, StatFails, CommitAnswerLost, Refuse, FindAdvisor,
         CreateApplication, StoreAttachment, CreateNotices, Commit, Abort, Cleanup, Close, db
<1> QED BY <1>1, <1>2, <1>3

(* The administrators can switch off only an advisor nobody has looked up. *)
LEMMA SwitchInv ==
  ASSUME IInv, NEW v \in Advisors, SwitchAdvisor(v)
  PROVE  Storing' /\ Filing' /\ Scheduling' /\ Keeping' /\ Holding'
<1> USE DEF db
<1>1. UNCHANGED <<ttl, readers, pc, input, stored, apps, tasks, scheduled, files, temp,
                  answer, leaked, doubt, faults>>
  BY DEF SwitchAdvisor
<1>2. Storing' /\ Filing' /\ Scheduling' /\ Keeping'
  <2>1. Storing /\ Filing /\ Scheduling /\ Keeping
    BY DEF IInv
  <2>2. Storing' /\ Scheduling'
    BY <1>1, <2>1 DEF Storing, StoringOK, StoredFiles, Scheduling, Due, ScheduledAt
  <2>3. Filing' /\ Keeping'
    BY <1>1, <2>1 DEF Filing, FilingOK, Keeping, KeepingOK, StoredFiles
  <2> QED BY <2>2, <2>3
<1>3. ASSUME NEW r \in Requests
      PROVE  HoldingOK(r)'
  <2>1. HoldingOK(r) /\ StoringOK(r)
    BY DEF IInv, Holding, Storing
  <2>2. pc[r] \in InTxn => input[r].advisor \in Advisors
    BY <2>1, InputIs DEF StoringOK, InTxn
  <2>3. pc[r] \in InTxn => input[r].advisor # v
    BY <2>1, <2>2 DEF HoldingOK, SwitchAdvisor
  <2>4. \A w \in Advisors : w # v => available'[w] = available[w]
    BY DEF SwitchAdvisor, IInv, TypeOK
  <2> QED BY <1>1, <2>1, <2>2, <2>3, <2>4 DEF HoldingOK
<1> QED BY <1>2, <1>3 DEF Holding

(* A crash ends every request at once; what it had stored is left behind. *)
LEMMA CrashInv ==
  ASSUME IInv, Crash
  PROVE  Storing' /\ Filing' /\ Scheduling' /\ Keeping' /\ Holding'
<1> USE DEF db, InTxn, Running
<1>1. /\ UNCHANGED <<ttl, available, input, stored, apps, tasks, scheduled, files, temp,
                     answer, doubt>>
      /\ \A r \in Requests : pc'[r] = IF pc[r] \in Running THEN "done" ELSE pc[r]
  BY DEF Crash
<1>2. "crash" \in FaultKinds /\ faults' > 0
  BY DEF Crash, Fault, IInv, TypeOK
<1>3. Scheduling'
  BY <1>1 DEF IInv, Scheduling, Due, ScheduledAt
<1>4. apps' = [r \in Requests |-> apps'[r]]
  BY <1>1 DEF IInv, Filing
<1>5. ASSUME NEW r \in Requests
      PROVE  RequestOK(r)'
  <2>1. TypeOK /\ StoringOK(r) /\ FilingOK(r) /\ KeepingOK(r) /\ HoldingOK(r)
    BY RequestNow DEF IInv, RequestOK
  <2>2. StoringOK(r)'
    BY <1>1, <2>1 DEF StoringOK, TypeOK
  <2>3. FilingOK(r)'
    BY <1>1, <2>1 DEF FilingOK, TypeOK
  <2>4. KeepingOK(r)'
    <3>1. \A f \in files : f \in leaked \/ pc[f[1]] \in InTxn \cup {"cleanup"} => f \in leaked'
      BY DEF Crash
    <3> QED BY <1>1, <1>2, <2>1, <3>1 DEF KeepingOK
  <2>5. HoldingOK(r)'
    <3>1. \A v \in Advisors : r \notin readers'[v]
      BY DEF Crash
    <3> QED BY <1>1, <2>1, <3>1 DEF HoldingOK, TypeOK
  <2> QED BY <2>2, <2>3, <2>4, <2>5 DEF RequestOK
<1> QED BY <1>3, <1>4, <1>5 DEF Storing, Filing, Keeping, Holding, RequestOK

LEMMA NextInv == IInv /\ [Next]_vars => IInv'
<1> SUFFICES ASSUME IInv, [Next]_vars PROVE IInv'
  OBVIOUS
<1>1. TypeOK'
  BY TypeInv
<1>2. ASSUME NEW r \in Requests,
             \/ \E in \in Inputs : Receive(r, in)
             \/ RequestStep(r) \/ StatFails(r) \/ CommitAnswerLost(r)
      PROVE  Storing' /\ Filing' /\ Scheduling' /\ Keeping' /\ Holding'
  <2>1. OthersStay(r) /\ Scheduling'
    BY <1>2, RequestsApart, OnSchedule
  <2>2. RequestOK(r)'
    BY <1>2, QuietStep, StorageStep, CommitStep DEF RequestStep
  <2>3. \A q \in Requests : StoringOK(q)' /\ FilingOK(q)' /\ KeepingOK(q)' /\ HoldingOK(q)'
    BY <2>1, <2>2, Undisturbed DEF RequestOK
  <2>4. apps' = [q \in Requests |-> apps'[q]]
    BY <2>1 DEF OthersStay
  <2> QED BY <2>1, <2>3, <2>4 DEF Storing, Filing, Keeping, Holding
<1>3. CASE \E v \in Advisors : SwitchAdvisor(v)
  BY <1>1, <1>3, SwitchInv DEF IInv
<1>4. CASE Crash
  BY <1>1, <1>4, CrashInv DEF IInv
<1>5. CASE UNCHANGED vars
  <2>1. Storing /\ Filing /\ Scheduling /\ Keeping /\ Holding
    BY DEF IInv
  <2> USE DEF vars, db
  <2>2. Storing' /\ Scheduling' /\ Holding'
    BY <1>5, <2>1 DEF Storing, StoringOK, StoredFiles, Scheduling, Due, ScheduledAt,
                      Holding, HoldingOK
  <2>3. Filing' /\ Keeping'
    BY <1>5, <2>1 DEF Filing, FilingOK, Keeping, KeepingOK, StoredFiles
  <2> QED BY <1>1, <2>2, <2>3 DEF IInv
<1> QED BY <1>1, <1>2, <1>3, <1>4, <1>5 DEF Next, IInv

(* The inductive invariant holds in every reachable state: what a request  *)
(* has stored, locked, filed and announced is always what its place in     *)
(* submitApplication says, whatever the other requests, the administrators *)
(* and the faults do.                                                      *)
THEOREM SubmissionInvariant == Spec => []IInv
<1> QED BY InitInv, NextInv, PTL DEF Spec

(* The variables of the model stay in their types. *)
THEOREM SubmissionTypes == Spec => []TypeOK
<1>1. IInv => TypeOK
  BY DEF IInv
<1> QED BY <1>1, SubmissionInvariant, PTL

(* A submission is filed as a whole, with every attachment, the sign       *)
(* request and the reminders that are still ahead, in their order before   *)
(* the deadline, or not at all, and the answer says which; only a request  *)
(* whose COMMIT was not acknowledged may have told the student otherwise.  *)
THEOREM SubmissionAllOrNothing == Spec => []AllOrNothing
<1> QED BY Promised, SubmissionInvariant, PTL

(* No file stays in the private storage and no upload in the temporary     *)
(* directory that nobody answers for, unless a fault left it; and the      *)
(* advisor's rows are locked exactly from the lookup to the end of the     *)
(* transaction, so that the advisor of an application being filed is       *)
(* selectable.                                                             *)
THEOREM SubmissionNothingForgotten == Spec => []NothingForgotten
<1> QED BY Promised, SubmissionInvariant, PTL

(***************************************************************************)
(* A submission is one step of the review                                  *)
(***************************************************************************)

(* What a COMMIT adds is, to the review, the application and its notices. *)
LEMMA CommitSubmits ==
  ASSUME IInv, NEW r \in Requests, pc[r] = "written", Apply(r)
  PROVE  Review!Submit(r, input[r].advisor, Notices(r))
<1>1. /\ input[r] \in Inputs /\ apps[r] = None
      /\ Application(r).input = input[r] /\ Application(r) # None
      /\ \A k \in tasks : k[1] # r
  BY Complete DEF IInv, Filing, FilingOK
<1>2. /\ \A q \in Requests : apps'[q] = IF q = r THEN Application(r) ELSE apps[q]
      /\ tasks' = tasks \cup Notices(r)
  BY ApplyKeepsTypes
<1>3. /\ <<r, 0>> \in Notices(r) /\ Notices(r) \subseteq Keys
      /\ \A k \in Notices(r) : k[1] = r /\ k \notin tasks
  BY <1>1, NoticesAre
<1>4. Notices(r) \subseteq {r} \X (0..Len(ReminderHours))
  BY <1>3 DEF Keys
<1>5. [q \in Requests |-> IF apps'[q] = None THEN "absent" ELSE "pending_advisor"]
        = [[q \in Requests |-> IF apps[q] = None THEN "absent" ELSE "pending_advisor"]
             EXCEPT ![r] = "pending_advisor"]
  BY <1>1, <1>2
<1>6. [q \in Requests |-> IF apps'[q] = None THEN None ELSE apps'[q].input.advisor]
        = [[q \in Requests |-> IF apps[q] = None THEN None ELSE apps[q].input.advisor]
             EXCEPT ![r] = input[r].advisor]
  BY <1>1, <1>2
<1>7. Review!CommitTasks(Notices(r), {})
  BY <1>2, <1>3 DEF Review!CommitTasks
<1> QED BY <1>1, <1>3, <1>4, <1>5, <1>6, <1>7 DEF Review!Submit

LEMMA StepSubmits ==
  IInv /\ [Next]_vars => [Review!DecisionNext]_Review!decisionVars
<1> SUFFICES ASSUME IInv, [Next]_vars
             PROVE  [Review!DecisionNext]_Review!decisionVars
  OBVIOUS
<1>1. ASSUME NEW r \in Requests, pc[r] = "written", Apply(r)
      PROVE  Review!DecisionNext
  <2>1. input[r].advisor \in Advisors
    BY <1>1, Complete, InputIs
  <2>2. Notices(r) \in SUBSET ({r} \X (0..Len(ReminderHours)))
    BY NoticesAre, ZenonT(40) DEF Keys
  <2>3. Review!Submit(r, input[r].advisor, Notices(r))
    BY <1>1, CommitSubmits
  <2>4. Notices(r) \in SUBSET [q \in Requests |-> {q} \X (0..Len(ReminderHours))][r]
    BY <2>2
  <2>5. \E a \in Requests, adv \in Advisors :
          \E s \in SUBSET [q \in Requests |-> {q} \X (0..Len(ReminderHours))][a] :
            Review!Submit(a, adv, s)
    BY <2>1, <2>3, <2>4 DEF Review!Submit
  <2> QED BY <2>5 DEF Review!DecisionNext
<1>2. CASE UNCHANGED <<apps, tasks>>
  BY <1>2 DEF Review!decisionVars, Review!taskVars
<1>3. UNCHANGED <<apps, tasks>> \/ \E r \in Requests : pc[r] = "written" /\ Apply(r)
  BY DEF Next, Receive, RequestStep, StatFails, CommitAnswerLost, Refuse, FindAdvisor,
         CreateApplication, StoreAttachment, CreateNotices, Commit, Abort, Cleanup, Close,
         SwitchAdvisor, Crash, vars, db
<1> QED BY <1>1, <1>2, <1>3

(* With its rows, attachments, notices, locks, failures and crashes, a     *)
(* submission is to the advisor's review the single step Submit, at its    *)
(* COMMIT.                                                                 *)
THEOREM SubmissionImplementsSubmit == Spec => ImplementsSubmit
<1>1. Init => Review!DecisionInit
  BY DEF Init, Review!DecisionInit, Review!TaskInit
<1> QED BY <1>1, SubmissionInvariant, StepSubmits, PTL
        DEF Spec, ImplementsSubmit, Review!DecisionSpec

(***************************************************************************)
(* Sums                                                                    *)
(***************************************************************************)

(* What does not hold of every number up to n fails first at 0, or at a    *)
(* number after one of which it holds.                                     *)
LEMMA FirstFailure ==
  ASSUME NEW n \in Nat, NEW T, T \subseteq 0..n, T # {}
  PROVE  0 \in T \/ \E m \in T : m \in 1..n /\ m - 1 \notin T
<1>1. PICK m \in T : \A k \in T : m <= k
  <2>1. T \subseteq Nat
    OBVIOUS
  <2> QED BY <2>1, LeastNat
<1>2. m \in 0..n /\ m - 1 \notin T
  BY <1>1
<1> QED BY <1>1, <1>2

(* The sums of the first elements, up to the n-th: Total's function. *)
IsSums(g, s, n) == g = [i \in 0..n |-> IF i = 0 THEN 0 ELSE g[i - 1] + s[i]]

LEMMA SumsExist ==
  ASSUME NEW s, NEW n \in Nat
  PROVE  \E g : IsSums(g, s, n)
<1> DEFINE T == {m \in 0..n : ~ \E g : IsSums(g, s, m)}
<1>1. 0 \notin T
  <2>1. IsSums([i \in 0..0 |-> 0], s, 0)
    BY DEF IsSums
  <2> QED BY <2>1
<1>2. ASSUME NEW m \in 1..n, m - 1 \notin T
      PROVE  m \notin T
  <2>1. PICK g : IsSums(g, s, m - 1)
    BY <1>2
  <2> DEFINE h == [i \in 0..m |-> IF i = m THEN g[m - 1] + s[m] ELSE g[i]]
  <2>2. \A i \in 0..(m - 1) : g[i] = IF i = 0 THEN 0 ELSE g[i - 1] + s[i]
    BY <2>1 DEF IsSums
  <2>3. \A i \in 0..m : h[i] = IF i = 0 THEN 0 ELSE h[i - 1] + s[i]
    BY <2>2
  <2>4. IsSums(h, s, m)
    BY <2>3 DEF IsSums
  <2> QED BY <2>4
<1>3. T = {}
  <2> HIDE DEF T
  <2>1. T \subseteq 0..n
    BY DEF T
  <2> QED BY <1>1, <1>2, <2>1, FirstFailure
<1> QED BY <1>3

LEMMA TotalIs ==
  ASSUME NEW s \in Seq(Nat)
  PROVE  \E g : /\ Total(s) = g[Len(s)]
                /\ \A i \in 0..Len(s) : g[i] = IF i = 0 THEN 0 ELSE g[i - 1] + s[i]
<1> DEFINE g == CHOOSE g : IsSums(g, s, Len(s))
<1>1. IsSums(g, s, Len(s))
  BY SumsExist
<1>2. Total(s) = g[Len(s)]
  BY DEF Total, IsSums
<1>3. \A i \in 0..Len(s) : g[i] = IF i = 0 THEN 0 ELSE g[i - 1] + s[i]
  <2> HIDE DEF g
  <2> QED BY <1>1 DEF IsSums
<1> QED BY <1>2, <1>3

LEMMA TotalType ==
  ASSUME NEW s \in Seq(Nat)
  PROVE  Total(s) \in Nat
<1>1. PICK g : /\ Total(s) = g[Len(s)]
               /\ \A i \in 0..Len(s) : g[i] = IF i = 0 THEN 0 ELSE g[i - 1] + s[i]
  BY TotalIs
<1> DEFINE T == {m \in 0..Len(s) : g[m] \notin Nat}
<1>2. 0 \notin T
  BY <1>1
<1>3. ASSUME NEW m \in 1..Len(s), m - 1 \notin T
      PROVE  m \notin T
  <2>1. g[m - 1] \in Nat /\ s[m] \in Nat /\ g[m] = g[m - 1] + s[m]
    BY <1>1, <1>3
  <2> QED BY <2>1
<1>4. T = {}
  <2> HIDE DEF T
  <2>1. Len(s) \in Nat /\ T \subseteq 0..Len(s)
    BY DEF T
  <2> QED BY <1>2, <1>3, <2>1, FirstFailure
<1> QED BY <1>1, <1>4

(* Sequences that differ in their first element alone differ in their sum  *)
(* by as much.                                                             *)
LEMMA TotalsDiffer ==
  ASSUME NEW s \in Seq(Nat), NEW t \in Seq(Nat), Len(s) = Len(t), Len(s) > 0,
         \A i \in 2..Len(s) : s[i] = t[i]
  PROVE  Total(s) + t[1] = Total(t) + s[1]
<1> DEFINE n == Len(s)
<1>1. PICK g : /\ Total(s) = g[n]
               /\ \A i \in 0..n : g[i] = IF i = 0 THEN 0 ELSE g[i - 1] + s[i]
  BY TotalIs
<1>2. PICK h : /\ Total(t) = h[n]
               /\ \A i \in 0..n : h[i] = IF i = 0 THEN 0 ELSE h[i - 1] + t[i]
  BY TotalIs
<1> DEFINE Holds(m) == g[m] \in Nat /\ h[m] \in Nat /\ g[m] + t[1] = h[m] + s[1]
           T == {m \in 0..n : m # 0 /\ ~ Holds(m)}
<1>3. n \in Nat /\ s[1] \in Nat /\ t[1] \in Nat /\ g[0] = 0 /\ h[0] = 0
  BY <1>1, <1>2
<1>4. 0 \notin T
  OBVIOUS
<1>5. ASSUME NEW m \in 1..n, m - 1 \notin T
      PROVE  m \notin T
  <2>1. /\ s[m] \in Nat /\ t[m] \in Nat
        /\ g[m] = g[m - 1] + s[m] /\ h[m] = h[m - 1] + t[m]
    BY <1>1, <1>2
  <2>2. CASE m = 1
    BY <1>3, <2>1, <2>2
  <2>3. CASE m # 1
    <3>1. m - 1 \in 0..n /\ m - 1 # 0 /\ s[m] = t[m]
      BY <2>3
    <3>2. g[m - 1] \in Nat /\ h[m - 1] \in Nat /\ g[m - 1] + t[1] = h[m - 1] + s[1]
      BY <1>5, <3>1
    <3>3. /\ g[m - 1] + s[m] \in Nat /\ h[m - 1] + s[m] \in Nat
          /\ (g[m - 1] + s[m]) + t[1] = (h[m - 1] + s[m]) + s[1]
      <4> DEFINE a == g[m - 1]  b == h[m - 1]  c == t[1]  d == s[1]  x == s[m]
      <4>1. a \in Nat /\ b \in Nat /\ a + c = b + d
        BY <3>2
      <4>2. c \in Nat /\ d \in Nat
        BY <1>3
      <4>3. x \in Nat
        BY <2>1
      <4> HIDE DEF a, b, c, d, x
      <4>4. a + x \in Nat /\ b + x \in Nat /\ (a + x) + c = (b + x) + d
        BY <4>1, <4>2, <4>3
      <4> QED BY <4>4 DEF a, b, c, d, x
    <3> QED BY <2>1, <3>1, <3>3
  <2> QED BY <2>2, <2>3
<1>6. T = {}
  <2> HIDE DEF T
  <2>1. T \subseteq 0..n
    BY DEF T
  <2> QED BY <1>3, <1>4, <1>5, <2>1, FirstFailure
<1>7. Holds(n)
  BY <1>3, <1>6
<1> QED BY <1>1, <1>2, <1>7

(* The first element and another one are no more than the sum. *)
LEMMA TotalCovers ==
  ASSUME NEW s \in Seq(Nat), NEW k \in 2..Len(s)
  PROVE  s[1] + s[k] <= Total(s)
<1>1. PICK g : /\ Total(s) = g[Len(s)]
               /\ \A i \in 0..Len(s) : g[i] = IF i = 0 THEN 0 ELSE g[i - 1] + s[i]
  BY TotalIs
<1> DEFINE Holds(m) == /\ g[m] \in Nat
                       /\ 1 <= m => s[1] <= g[m]
                       /\ k <= m => s[1] + s[k] <= g[m]
           T == {m \in 0..Len(s) : ~ Holds(m)}
<1>2. 0 \notin T
  BY <1>1
<1>3. ASSUME NEW m \in 1..Len(s), m - 1 \notin T
      PROVE  m \notin T
  <2>1. s[m] \in Nat /\ s[k] \in Nat /\ s[1] \in Nat /\ g[m] = g[m - 1] + s[m]
    <3>1. 1 \in 1..Len(s) /\ k \in 1..Len(s) /\ m \in 0..Len(s) /\ m # 0
      OBVIOUS
    <3> QED BY <1>1, <3>1, SMTT(30)
  <2>2. Holds(m - 1)
    BY <1>3
  <2>3. CASE m = 1
    BY <1>1, <2>1, <2>2, <2>3
  <2>4. CASE m = k
    BY <2>1, <2>2, <2>4
  <2>5. CASE m # 1 /\ m # k
    BY <2>1, <2>2, <2>5, SMTT(30)
  <2> QED BY <2>3, <2>4, <2>5
<1>4. T = {}
  <2> HIDE DEF T
  <2>1. Len(s) \in Nat /\ T \subseteq 0..Len(s)
    BY DEF T
  <2> QED BY <1>2, <1>3, <2>1, FirstFailure
<1>5. Holds(Len(s))
  BY <1>4
<1> QED BY <1>1, <1>5

LEMMA ShortTotals ==
  ASSUME NEW s \in Seq(Nat)
  PROVE  /\ Len(s) = 0 => Total(s) = 0
         /\ Len(s) = 1 => Total(s) = s[1]
         /\ Len(s) = 2 => Total(s) = s[1] + s[2]
<1>1. PICK g : /\ Total(s) = g[Len(s)]
               /\ \A i \in 0..Len(s) : g[i] = IF i = 0 THEN 0 ELSE g[i - 1] + s[i]
  BY TotalIs
<1>2. CASE Len(s) = 0
  BY <1>1, <1>2
<1>3. CASE Len(s) = 1
  <2>1. g[0] = 0 /\ g[1] = g[0] + s[1] /\ s[1] \in Nat
    BY <1>1, <1>3, SMTT(30)
  <2> QED BY <1>1, <1>3, <2>1
<1>4. CASE Len(s) = 2
  <2>1. g[0] = 0 /\ g[1] = g[0] + s[1] /\ g[2] = g[1] + s[2]
    <3>1. g[2] = g[2 - 1] + s[2] /\ g[1] = g[1 - 1] + s[1] /\ g[0] = 0
      BY <1>1, <1>4
    <3> QED BY <3>1
  <2>2. s[1] \in Nat /\ s[2] \in Nat
    BY <1>4
  <2> QED BY <1>1, <1>4, <2>1, <2>2
<1> QED BY <1>2, <1>3, <1>4

(***************************************************************************)
(* Points                                                                  *)
(***************************************************************************)

(* pointsToUnits is the value of a decimal, whatever its places. *)
LEMMA Worth ==
  ASSUME NEW p \in Decimals
  PROVE  PointsToUnits(p) \in Nat /\ Value(p) = PointsToUnits(p)
<1> DEFINE t == [i \in DOMAIN p.fraction |-> p.fraction[i] * IF i = 1 THEN 10 ELSE 1]
<1>1. p.whole \in Nat /\ Value(p) = p.whole * 100 + Total(t)
  BY DEF Decimals, Value
<1>2. CASE p.fraction = <<>>
  <2>1. t \in Seq(Nat) /\ Len(t) = 0
    BY <1>2
  <2>2. PointsToUnits(p) = p.whole * 100
    BY <1>1, <1>2 DEF PointsToUnits
  <2> QED BY <1>1, <2>1, <2>2, ShortTotals
<1>3. ASSUME NEW d \in Digits, p.fraction = <<d>>
      PROVE  PointsToUnits(p) \in Nat /\ Value(p) = PointsToUnits(p)
  <2>1. t \in Seq(Nat) /\ Len(t) = 1 /\ t[1] = d * 10
    BY <1>3 DEF Digits
  <2>2. PointsToUnits(p) = p.whole * 100 + d * 10 /\ d \in Nat
    BY <1>1, <1>3 DEF PointsToUnits, Digits
  <2> HIDE DEF t
  <2>3. Total(t) = d * 10
    BY <2>1, ShortTotals
  <2> QED BY <1>1, <2>2, <2>3
<1>4. ASSUME NEW d \in Digits, NEW e \in Digits, p.fraction = <<d, e>>
      PROVE  PointsToUnits(p) \in Nat /\ Value(p) = PointsToUnits(p)
  <2>1. t \in Seq(Nat) /\ Len(t) = 2 /\ t[1] = d * 10 /\ t[2] = e
    BY <1>4 DEF Digits
  <2>2. PointsToUnits(p) = p.whole * 100 + (d * 10 + e) /\ d \in Nat /\ e \in Nat
    BY <1>1, <1>4 DEF PointsToUnits, Digits
  <2> HIDE DEF t
  <2>3. Total(t) = d * 10 + e
    BY <2>1, ShortTotals
  <2> QED BY <1>1, <2>2, <2>3
<1> QED BY <1>2, <1>3, <1>4 DEF Decimals

(* unitsToPoints loses nothing. *)
LEMMA WorthOfUnits ==
  ASSUME NEW u \in Nat
  PROVE  UnitsToPoints(u) \in Decimals /\ Value(UnitsToPoints(u)) = u
<1> DEFINE w == u \div 100  d == (u % 100) \div 10  e == u % 10
<1>1. w \in Nat /\ d \in Digits /\ e \in Digits /\ u = w * 100 + (d * 10 + e)
  BY DEF Digits
<1> HIDE DEF w, d, e
<1>2. UnitsToPoints(u) = [whole |-> w, fraction |-> <<d, e>>]
  BY DEF UnitsToPoints, Decimal, w, d, e
<1>3. UnitsToPoints(u) \in Decimals
  BY <1>1, <1>2 DEF Decimals
<1>4. PointsToUnits(UnitsToPoints(u)) = w * 100 + (d * 10 + e)
  BY <1>1, <1>2 DEF PointsToUnits
<1> QED BY <1>1, <1>3, <1>4, Worth

(* What the points of a form's participants are worth. *)
Worths(points) == [i \in DOMAIN points |-> Value(points[i])]

LEMMA WorthsAre ==
  ASSUME NEW s \in Seq(Decimals)
  PROVE  /\ Worths(s) \in Seq(Nat) /\ Units(s) = Worths(s) /\ Len(Worths(s)) = Len(s)
         /\ \A i \in 1..Len(s) : Worths(s)[i] = Value(s[i])
<1>1. DOMAIN s = 1..Len(s) /\ Len(s) \in Nat
  OBVIOUS
<1>2. \A i \in 1..Len(s) : Value(s[i]) \in Nat /\ Value(s[i]) = PointsToUnits(s[i])
  BY Worth
<1> QED BY <1>1, <1>2 DEF Worths, Units

LEMMA ProductIsNat ==
  ASSUME NEW a \in Nat, NEW b \in Nat
  PROVE  a * b \in Nat
OBVIOUS

LEMMA QuotientIsNat ==
  ASSUME NEW a \in Nat, NEW b \in Nat \ {0}
  PROVE  a \div b \in Nat
OBVIOUS

(* What a project's salaries are worth, and how the cap limits it. *)
LEMMA ProjectUnitsAre ==
  ASSUME NEW f \in Forms, f.type = "project_participation"
  PROVE  /\ SalaryUnits(f) \in Nat /\ ProjectUnits(f) \in Nat
         /\ ProjectUnits(f) <= SalaryUnits(f)
         /\ f.rule.capped => ProjectUnits(f) <= Value(f.rule.maximum)
<1>1. /\ f.salaries \in Seq(Nat) /\ f.rule.salaryUnit \in Nat \ {0}
      /\ f.rule.points \in Decimals
      /\ f.rule.capped => f.rule.maximum \in Decimals
  BY FormsAssumption DEF ValidForm
<1>2. SalaryUnits(f) \in Nat
  <2>1. Total(f.salaries) \div f.rule.salaryUnit \in Nat
    BY <1>1, TotalType, QuotientIsNat
  <2>2. PointsToUnits(f.rule.points) \in Nat
    <3>1. f.rule.points \in Decimals
      BY <1>1
    <3> QED BY <3>1, Worth
  <2> QED BY <2>1, <2>2, ProductIsNat DEF SalaryUnits
<1>3. f.rule.capped => /\ PointsToUnits(f.rule.maximum) \in Nat
                       /\ Value(f.rule.maximum) = PointsToUnits(f.rule.maximum)
  <2>1. f.rule.capped => f.rule.maximum \in Decimals
    BY <1>1
  <2> QED BY <2>1, Worth
<1> QED BY <1>2, <1>3 DEF ProjectUnits

(* The hundredths of which RequestedTotal makes a decimal. *)
RequestedTotalUnits(f) ==
  CASE f.type = "project_participation" -> ProjectUnits(f)
    [] f.type = "certificate"           -> PointsToUnits(f.rule.points)
    [] OTHER                            -> RequestedUnits(f)

LEMMA FormsAre ==
  ASSUME NEW f \in Forms, Accepts(f)
  PROVE  /\ f.requested \in Seq(Decimals)
         /\ Len(f.requested) \in f.minimum .. f.maximum /\ Len(f.requested) \in Nat \ {0}
         /\ \A i \in 1..Len(f.requested) : Value(f.requested[i]) \in Nat \ {0}
         /\ RequestedUnits(f) = Total(Worths(f.requested)) /\ RequestedUnits(f) \in Nat
         /\ RequestedTotalUnits(f) \in Nat
         /\ Computed(f) => RequestedTotalUnits(f) > 0
         /\ RequestedTotal(f) \in Decimals /\ Value(RequestedTotal(f)) = RequestedTotalUnits(f)
<1>1. ValidForm(f)
  BY FormsAssumption
<1>2. /\ f.requested \in Seq(Decimals) /\ f.minimum \in Nat \ {0} /\ f.maximum \in Nat
      /\ Len(f.requested) \in f.minimum .. f.maximum /\ Len(f.requested) \in Nat \ {0}
  BY <1>1 DEF ValidForm, Accepts
<1>3. \A i \in 1..Len(f.requested) : Value(f.requested[i]) \in Nat \ {0}
  <2>1. \A i \in 1..Len(f.requested) : f.requested[i] \in Decimals /\ PointsToUnits(f.requested[i]) > 0
    BY <1>1, <1>2 DEF ValidForm
  <2> QED BY <2>1, Worth
<1>4. RequestedUnits(f) = Total(Worths(f.requested)) /\ RequestedUnits(f) \in Nat
  BY <1>2, WorthsAre, TotalType DEF RequestedUnits
<1>5. RequestedTotalUnits(f) \in Nat /\ (Computed(f) => RequestedTotalUnits(f) > 0)
  <2>1. CASE f.type = "project_participation"
    BY <2>1, ProjectUnitsAre DEF RequestedTotalUnits, Accepts
  <2>2. CASE f.type = "certificate"
    <3>1. f.rule.points \in Decimals /\ PointsToUnits(f.rule.points) > 0
      BY <1>1, <2>2 DEF ValidForm
    <3> QED BY <2>2, <3>1, Worth DEF RequestedTotalUnits
  <2>3. CASE f.type \notin {"project_participation", "certificate"}
    BY <1>4, <2>3 DEF RequestedTotalUnits, Computed
  <2> QED BY <2>1, <2>2, <2>3
<1>6. RequestedTotal(f) = UnitsToPoints(RequestedTotalUnits(f))
  BY DEF RequestedTotal, RequestedTotalUnits
<1> QED BY <1>2, <1>3, <1>4, <1>5, <1>6, WorthOfUnits

(* How much more than its total the participants of a form get together:   *)
(* what all but the first asked for, where the total is computed.          *)
LEMMA FormAddsUp ==
  ASSUME NEW f \in Forms, Accepts(f)
  PROVE  LET sum == Total(Worths(ParticipantPoints(f)))
             first == Value(f.requested[1])
         IN /\ sum \in Nat /\ ParticipantPoints(f) \in Seq(Decimals)
            /\ Len(ParticipantPoints(f)) = Len(f.requested)
            /\ ~ Computed(f) => sum = Value(RequestedTotal(f))
            /\ Computed(f) =>
                 sum = Value(RequestedTotal(f)) + (RequestedUnits(f) - first)
<1> DEFINE q == f.requested
           t == RequestedTotal(f)
           p == ParticipantPoints(f)
<1>1. /\ q \in Seq(Decimals) /\ Len(q) \in Nat \ {0} /\ Value(q[1]) \in Nat
      /\ RequestedUnits(f) = Total(Worths(q)) /\ RequestedUnits(f) \in Nat
      /\ t \in Decimals /\ Value(t) \in Nat /\ Value(t) = RequestedTotalUnits(f)
  BY FormsAre
<1>2. CASE ~ Computed(f)
  <2>1. p = q
    BY <1>2 DEF ParticipantPoints
  <2>2. Value(t) = Total(Worths(q))
    BY <1>1, <1>2 DEF RequestedTotalUnits, Computed
  <2> QED BY <1>1, <1>2, <2>1, <2>2
<1>3. CASE Computed(f)
  <2>1. p = [q EXCEPT ![1] = t]
    BY <1>3 DEF ParticipantPoints
  <2> HIDE DEF q, t, p
  <2>2. /\ p \in Seq(Decimals) /\ Len(p) = Len(q) /\ p[1] = t
        /\ \A i \in 2..Len(q) : p[i] = q[i]
    BY <1>1, <2>1
  <2>3. /\ Worths(p) \in Seq(Nat) /\ Worths(q) \in Seq(Nat)
        /\ Len(Worths(p)) = Len(q) /\ Len(Worths(q)) = Len(q)
        /\ Worths(p)[1] = Value(t) /\ Worths(q)[1] = Value(q[1])
        /\ \A i \in 2..Len(q) : Worths(p)[i] = Worths(q)[i]
    BY <1>1, <2>2, WorthsAre
  <2>4. Total(Worths(p)) + Value(q[1]) = Total(Worths(q)) + Value(t)
    <3> DEFINE a == Worths(p)  b == Worths(q)
    <3>1. Len(a) = Len(b) /\ Len(a) > 0 /\ \A i \in 2..Len(a) : a[i] = b[i]
      BY <1>1, <2>3
    <3>2. a \in Seq(Nat) /\ b \in Seq(Nat) /\ a[1] = Value(t) /\ b[1] = Value(q[1])
      BY <2>3
    <3> HIDE DEF a, b
    <3>3. Total(a) + b[1] = Total(b) + a[1]
      BY <3>1, <3>2, TotalsDiffer
    <3> QED BY <3>2, <3>3 DEF a, b
  <2>5. Total(Worths(p)) \in Nat
    BY <2>3, TotalType
  <2>6. Total(Worths(p)) = Value(t) + (RequestedUnits(f) - Value(q[1]))
    BY <1>1, <2>4, <2>5
  <2> QED BY <1>3, <2>2, <2>5, <2>6 DEF q, t, p
<1> QED BY <1>2, <1>3

(* They get as much as the total unless several share a computed one. *)
LEMMA FormSumsUp ==
  ASSUME NEW f \in Forms, Accepts(f)
  PROVE  Value(RequestedTotal(f)) = Total(Worths(ParticipantPoints(f)))
           <=> (Computed(f) => Len(ParticipantPoints(f)) = 1)
<1> DEFINE sum == Total(Worths(ParticipantPoints(f)))
           total == Value(RequestedTotal(f))
           first == Value(f.requested[1])
           n == Len(f.requested)
<1>1. /\ sum \in Nat /\ total \in Nat /\ Len(ParticipantPoints(f)) = n
      /\ ~ Computed(f) => sum = total
      /\ Computed(f) => sum = total + (RequestedUnits(f) - first)
  BY FormAddsUp, FormsAre
<1>2. /\ Worths(f.requested) \in Seq(Nat) /\ Len(Worths(f.requested)) = n
      /\ \A i \in 1..n : Worths(f.requested)[i] = Value(f.requested[i])
      /\ RequestedUnits(f) = Total(Worths(f.requested)) /\ RequestedUnits(f) \in Nat
      /\ n \in Nat \ {0} /\ \A i \in 1..n : Value(f.requested[i]) \in Nat \ {0}
  BY FormsAre, WorthsAre
<1>3. CASE n = 1
  <2>1. RequestedUnits(f) = first /\ first \in Nat
    BY <1>2, <1>3, ShortTotals
  <2> QED BY <1>1, <1>3, <2>1
<1>4. CASE n > 1
  <2>1. 2 \in 2..n /\ 2 \in 1..n /\ 1 \in 1..n
    BY <1>2, <1>4
  <2>2. Worths(f.requested)[1] + Worths(f.requested)[2] <= RequestedUnits(f)
    BY <1>2, <2>1, TotalCovers
  <2>3. first \in Nat /\ first < RequestedUnits(f)
    BY <1>2, <2>1, <2>2
  <2> HIDE DEF sum, total, first
  <2>4. Computed(f) => sum # total
    BY <1>1, <1>2, <2>3
  <2>5. ~ Computed(f) => sum = total
    BY <1>1
  <2>6. Len(ParticipantPoints(f)) # 1
    <3>1. Len(ParticipantPoints(f)) = n
      BY <1>1
    <3> QED BY <1>2, <1>4, <3>1
  <2> QED BY <2>4, <2>5, <2>6 DEF sum, total
<1>5. n = 1 \/ n > 1
  <2>1. n \in Nat \ {0}
    BY FormsAre
  <2> HIDE DEF n
  <2> QED BY <2>1
<1> QED BY <1>3, <1>4, <1>5

(***************************************************************************)
(* What is committed                                                       *)
(***************************************************************************)

(* From CreateApplication on, the rules have accepted the form, and what   *)
(* is committed was computed from it.                                      *)
ComputingOK(r) ==
  /\ pc[r] \in {"storing", "written"} => Accepts(input[r].form)
  /\ apps[r] # None => LET f == apps[r].input.form
                       IN /\ f \in Forms /\ Accepts(f)
                          /\ apps[r].total = RequestedTotal(f)
                          /\ apps[r].points = ParticipantPoints(f)

Computing == \A r \in Requests : ComputingOK(r)

(* How a step gets a request there. *)
Progress(r) ==
  /\ pc'[r] \in {"storing", "written"} =>
       /\ input'[r] = input[r]
       /\ pc[r] \in {"storing", "written"} \/ Accepts(input[r].form)
  /\ apps'[r] = apps[r] \/ (pc[r] = "written" /\ apps'[r] = Application(r))

LEMMA StepsProgress ==
  ASSUME IInv, [Next]_vars, NEW q \in Requests
  PROVE  Progress(q)
<1> USE DEF db, Goto, InTxn, Running, Progress
<1>0. TypeOK /\ apps = [r \in Requests |-> apps[r]]
  BY DEF IInv, Filing
<1>1. ASSUME NEW r \in Requests,
             \/ \E in \in Inputs : Receive(r, in)
             \/ RequestStep(r) \/ StatFails(r) \/ CommitAnswerLost(r),
             q # r
      PROVE  Progress(q)
  <2>1. OthersStay(r)
    BY <1>1, RequestsApart
  <2>2. pc'[q] = pc[q] /\ input'[q] = input[q] /\ apps'[q] = apps[q]
    BY <1>1, <2>1 DEF OthersStay
  <2>3. pc[q] \in {"storing", "written"} => pc[q] \in {"storing", "written"}
    OBVIOUS
  <2> QED BY <2>2, <2>3
<1>2. ASSUME \/ \E in \in Inputs : Receive(q, in)
             \/ Refuse(q) \/ FindAdvisor(q) \/ StatFails(q) \/ Abort(q)
             \/ Cleanup(q) \/ Close(q)
      PROVE  Progress(q)
  <2>1. pc'[q] \notin {"storing", "written"} /\ apps' = apps
    BY <1>0, <1>2 DEF TypeOK, Receive, Refuse, FindAdvisor, StatFails, Abort, Cleanup, Close
  <2> QED BY <2>1
<1>3. CASE CreateApplication(q)
  BY <1>0, <1>3 DEF TypeOK, CreateApplication
<1>4. CASE StoreAttachment(q) \/ CreateNotices(q)
  BY <1>0, <1>4 DEF TypeOK, StoreAttachment, CreateNotices
<1>5. CASE Commit(q) \/ CommitAnswerLost(q)
  <2>1. pc[q] = "written" /\ Apply(q) /\ pc'[q] \notin {"storing", "written"}
    BY <1>0, <1>5 DEF TypeOK, Commit, CommitAnswerLost
  <2> QED BY <2>1, ApplyKeepsTypes
<1>6. CASE (\E v \in Advisors : SwitchAdvisor(v)) \/ UNCHANGED vars
  <2>1. UNCHANGED <<pc, input, apps>>
    BY <1>6 DEF SwitchAdvisor, vars
  <2> QED BY <2>1
<1>7. CASE Crash
  <2>1. /\ UNCHANGED <<input, apps>>
        /\ pc'[q] \in {"storing", "written"} => pc'[q] = pc[q]
    BY <1>7 DEF Crash
  <2> QED BY <2>1
<1> QED BY <1>1, <1>2, <1>3, <1>4, <1>5, <1>6, <1>7 DEF Next, RequestStep

LEMMA ComputingInv == IInv /\ Computing /\ [Next]_vars => Computing'
<1> SUFFICES ASSUME IInv, Computing, [Next]_vars, NEW r \in Requests
             PROVE  ComputingOK(r)'
  BY DEF Computing
<1>1. Progress(r) /\ ComputingOK(r)
  BY StepsProgress DEF Computing
<1>2. ASSUME pc'[r] \in {"storing", "written"}
      PROVE  Accepts(input[r].form)'
  <2>1. input'[r] = input[r] /\ Accepts(input[r].form)
    BY <1>1, <1>2 DEF Progress, ComputingOK
  <2> QED BY <2>1 DEF Accepts, CompetitionAccepts, ExhibitionAccepts, RequestedUnits, Units,
                      ProjectUnits, SalaryUnits
<1>3. ASSUME apps'[r] # None
      PROVE  LET f == apps'[r].input.form
             IN /\ f \in Forms /\ Accepts(f)
                /\ apps'[r].total = RequestedTotal(f)
                /\ apps'[r].points = ParticipantPoints(f)
  <2>1. CASE apps'[r] = apps[r]
    BY <1>1, <1>3, <2>1 DEF ComputingOK
  <2>2. CASE pc[r] = "written" /\ apps'[r] = Application(r)
    <3>1. /\ Application(r).input = input[r] /\ input[r].form \in Forms
          /\ Application(r).total = RequestedTotal(input[r].form)
          /\ Application(r).points = ParticipantPoints(input[r].form)
      BY <2>2, Complete DEF Application, Inputs
    <3> QED BY <1>1, <2>2, <3>1 DEF ComputingOK
  <2> QED BY <1>1, <2>1, <2>2 DEF Progress
<1> QED BY <1>2, <1>3 DEF ComputingOK

LEMMA ComputingHolds == Spec => []Computing
<1>1. Init => Computing
  BY DEF Init, Computing, ComputingOK
<1> QED BY <1>1, ComputingInv, SubmissionInvariant, PTL DEF Spec

(* The total of a committed application is the sum of its participants'    *)
(* points, to the hundredth, whatever they asked for and whatever the      *)
(* rules and the salaries are, except in exactly one case: where the rule  *)
(* alone decides the total and an administrator allows several             *)
(* participants, the rows of submitApplication never add up to it.         *)
THEOREM SubmissionPointsAddUp == Spec => []PointsAddUp
<1>1. Computing => PointsAddUp
  <2> SUFFICES ASSUME Computing, NEW r \in Requests, apps[r] # None
               PROVE  SumsUp(r) <=> (Computed(apps[r].input.form) => Len(apps[r].points) = 1)
    BY DEF PointsAddUp
  <2> DEFINE f == apps[r].input.form
  <2>1. /\ f \in Forms /\ Accepts(f)
        /\ apps[r].total = RequestedTotal(f) /\ apps[r].points = ParticipantPoints(f)
    BY DEF Computing, ComputingOK
  <2>2. SumsUp(r) <=> Value(RequestedTotal(f)) = Total(Worths(ParticipantPoints(f)))
    BY <2>1 DEF SumsUp, Worths
  <2> HIDE DEF f
  <2>3. SumsUp(r) <=> (Computed(f) => Len(ParticipantPoints(f)) = 1)
    BY <2>1, <2>2, FormSumsUp
  <2> QED BY <2>1, <2>3 DEF f
<1> QED BY <1>1, ComputingHolds, PTL

(* By how much they miss it: the participants get together what all but    *)
(* the first asked for, on top of the computed total.                      *)
Surplus(r) ==
  Computed(apps[r].input.form) =>
    Total(Worths(apps[r].points))
      = Value(apps[r].total)
        + (RequestedUnits(apps[r].input.form) - Value(apps[r].input.form.requested[1]))

(* The rows of a computed application never add up to less than its total, *)
(* and to more by exactly the points that every participant but the first  *)
(* asked for, which the program neither checks nor replaces: with several  *)
(* participants students choose how much more they are given.              *)
THEOREM SubmissionSurplus == Spec => [](\A r \in Requests : apps[r] # None => Surplus(r))
<1>1. Computing => \A r \in Requests : apps[r] # None => Surplus(r)
  <2> SUFFICES ASSUME Computing, NEW r \in Requests, apps[r] # None
               PROVE  Surplus(r)
    OBVIOUS
  <2> DEFINE f == apps[r].input.form
  <2>1. /\ f \in Forms /\ Accepts(f)
        /\ apps[r].total = RequestedTotal(f) /\ apps[r].points = ParticipantPoints(f)
    BY DEF Computing, ComputingOK
  <2> HIDE DEF f
  <2>2. Computed(f) => Total(Worths(ParticipantPoints(f)))
                         = Value(RequestedTotal(f))
                           + (RequestedUnits(f) - Value(f.requested[1]))
    BY <2>1, FormAddsUp
  <2> QED BY <2>1, <2>2 DEF f, Surplus
<1> QED BY <1>1, ComputingHolds, PTL

(* The points of form f, as committed, are those of its rule. *)
AsRuled(f, total, points) ==
  LET worth == Worths(points)
  IN /\ Len(points) \in f.minimum .. f.maximum
     /\ \A i \in 1..Len(points) : worth[i] > 0
     /\ Computed(f) => points[1] = total
     /\ f.type = "competition" =>
          IF f.rule.perPerson THEN \A i \in 1..Len(points) : worth[i] = Value(f.rule.points)
                              ELSE Total(worth) = Value(f.rule.points)
     /\ f.type = "external_exhibition" =>
          \A i \in 1..Len(points) : worth[i] \in Value(f.rule.minimum) .. Value(f.rule.maximum)
     /\ f.type = "certificate" => Value(total) = Value(f.rule.points)
     /\ f.type = "project_participation" =>
          /\ Value(total) <= SalaryUnits(f)
          /\ f.rule.capped => Value(total) <= Value(f.rule.maximum)

LEMMA FormAsRuled ==
  ASSUME NEW f \in Forms, Accepts(f)
  PROVE  AsRuled(f, RequestedTotal(f), ParticipantPoints(f))
<1> DEFINE q == f.requested
           t == RequestedTotal(f)
           p == ParticipantPoints(f)
           n == Len(q)
<1>1. /\ ValidForm(f) /\ q \in Seq(Decimals) /\ n \in f.minimum .. f.maximum
      /\ n \in Nat \ {0} /\ Len(p) = n /\ p \in Seq(Decimals)
      /\ \A i \in 1..n : Value(q[i]) \in Nat \ {0}
      /\ t \in Decimals /\ Value(t) = RequestedTotalUnits(f) /\ Value(t) \in Nat
      /\ Computed(f) => Value(t) > 0
      /\ RequestedUnits(f) = Total(Worths(q))
  BY FormsAre, FormAddsUp, FormsAssumption
<1>2. \A i \in 1..n : Worths(p)[i] = Value(p[i]) /\ Worths(q)[i] = Value(q[i])
  BY <1>1, WorthsAre
<1>3. \A i \in 1..n : q[i] \in Decimals /\ PointsToUnits(q[i]) = Value(q[i])
  <2>1. \A i \in 1..n : q[i] \in Decimals
    BY <1>1
  <2> QED BY <2>1, Worth
<1>4. /\ Computed(f) => p = [q EXCEPT ![1] = t]
      /\ ~ Computed(f) => p = q
  BY DEF ParticipantPoints
<1> HIDE DEF q, t, p, n
<1>5. /\ Computed(f) => p[1] = t
      /\ \A i \in 1..n : p[i] = q[i] \/ (Computed(f) /\ p[i] = t)
  BY <1>1, <1>4 DEF n
<1>6. ASSUME NEW i \in 1..n
      PROVE  Worths(p)[i] > 0
  <2>1. Value(q[i]) > 0 /\ (Computed(f) => Value(t) > 0)
    BY <1>1
  <2>2. Worths(p)[i] = Value(p[i]) /\ (p[i] = q[i] \/ (Computed(f) /\ p[i] = t))
    BY <1>2, <1>5
  <2> QED BY <2>1, <2>2
<1>7. ASSUME f.type = "competition"
      PROVE  IF f.rule.perPerson THEN \A i \in 1..n : Worths(p)[i] = Value(f.rule.points)
                                 ELSE Total(Worths(p)) = Value(f.rule.points)
  <2>1. f.rule.points \in Decimals
    BY <1>1, <1>7 DEF ValidForm
  <2>2. PointsToUnits(f.rule.points) = Value(f.rule.points)
    BY <2>1, Worth
  <2>3. CompetitionAccepts(f) /\ p = q /\ DOMAIN q = 1..n
    BY <1>1, <1>4, <1>7 DEF Accepts, Computed, n
  <2> QED BY <1>1, <1>2, <1>3, <2>2, <2>3, SMTT(30) DEF CompetitionAccepts, q
<1>8. ASSUME f.type = "external_exhibition"
      PROVE  \A i \in 1..n : Worths(p)[i] \in Value(f.rule.minimum) .. Value(f.rule.maximum)
  <2>1. f.rule.minimum \in Decimals /\ f.rule.maximum \in Decimals
    BY <1>1, <1>8 DEF ValidForm
  <2>2. /\ PointsToUnits(f.rule.minimum) = Value(f.rule.minimum)
        /\ PointsToUnits(f.rule.maximum) = Value(f.rule.maximum)
    BY <2>1, Worth
  <2>3. ExhibitionAccepts(f) /\ p = q /\ DOMAIN q = 1..n
    BY <1>1, <1>4, <1>8 DEF Accepts, Computed, n
  <2> QED BY <1>2, <1>3, <2>2, <2>3 DEF ExhibitionAccepts, q
<1>9. ASSUME f.type = "certificate"
      PROVE  Value(t) = Value(f.rule.points)
  <2>1. f.rule.points \in Decimals
    BY <1>1, <1>9 DEF ValidForm
  <2> QED BY <1>1, <1>9, <2>1, Worth DEF RequestedTotalUnits
<1>10. ASSUME f.type = "project_participation"
       PROVE  /\ Value(t) <= SalaryUnits(f)
              /\ f.rule.capped => Value(t) <= Value(f.rule.maximum)
  <2>1. Value(t) = ProjectUnits(f)
    BY <1>1, <1>10 DEF RequestedTotalUnits
  <2> QED BY <1>10, <2>1, ProjectUnitsAre
<1> QED BY <1>1, <1>5, <1>6, <1>7, <1>8, <1>9, <1>10 DEF AsRuled, t, p, n

(* A committed application has as many participants as its participant     *)
(* rule allows and every row of it passes the CHECK of the table           *)
(* (requested_points > 0); the points of a competition are those of the    *)
(* rule, each or in total, those of an exhibition are within its limits,   *)
(* a certificate's total is its rule's, and a project's is no more than    *)
(* its salaries are worth or its cap.                                      *)
THEOREM SubmissionAsRuled ==
  Spec => [](\A r \in Requests :
               apps[r] # None => AsRuled(apps[r].input.form, apps[r].total, apps[r].points))
<1>1. Computing =>
        \A r \in Requests :
          apps[r] # None => AsRuled(apps[r].input.form, apps[r].total, apps[r].points)
  <2> SUFFICES ASSUME Computing, NEW r \in Requests, apps[r] # None
               PROVE  AsRuled(apps[r].input.form, apps[r].total, apps[r].points)
    OBVIOUS
  <2>1. LET f == apps[r].input.form
        IN /\ f \in Forms /\ Accepts(f)
           /\ apps[r].total = RequestedTotal(f) /\ apps[r].points = ParticipantPoints(f)
    BY DEF Computing, ComputingOK
  <2> QED BY <2>1, FormAsRuled
<1> QED BY <1>1, ComputingHolds, PTL
=============================================================================
