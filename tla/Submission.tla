----------------------------- MODULE Submission -----------------------------
(***************************************************************************)
(* A student submits an application with its attachments                   *)
(* (src/services/applicationSubmission.service.ts, its controller and      *)
(* upload middleware, src/files/privateFileStorage.ts), while other        *)
(* submissions run and administrators switch advisors off and on.          *)
(*                                                                         *)
(* The rows of a submission are invisible until COMMIT; its files and its  *)
(* FOR SHARE locks are not.  Rules are those of RuleVersions: here a       *)
(* lookup finds the ones of the form or the submission is refused, and     *)
(* PointCalculator says what follows from them.                            *)
(***************************************************************************)
EXTENDS PointCalculator

CONSTANTS Requests,       \* calls of POST /applications
          Advisors,
          MaxAttachments, \* bound; the middleware's limit is 10
          Forms,          \* points asked for and rules in force to consider
          Ttls,           \* values of ADVISOR_CONFIRMATION_TTL_HOURS to consider
          FaultKinds,     \* what may go wrong: a subset of AllFaults
          MaxFaults,      \* bound on their number
          None

AllFaults == {"answer lost", "stat fails", "removal fails", "crash"}

ASSUME SubmissionAssumption ==
  /\ MaxAttachments \in Nat \ {0}
  /\ Ttls \subseteq Nat \ {0}
  /\ FaultKinds \subseteq AllFaults
  /\ MaxFaults \in Nat
  /\ None \notin Advisors

ASSUME FormsAssumption == \A f \in Forms : ValidForm(f)

(* reminderHours *)
ReminderHours == <<72, 24, 4>>

(* Event keys of an application: 0 is the sign request. *)
Keys == Requests \X (0..Len(ReminderHours))
Inputs == [advisor : Advisors, attachments : 1..MaxAttachments, form : Forms]
Files == Requests \X (1..MaxAttachments)

(* None, where there is no application, is not one. *)
ASSUME NoneAssumption ==
  \A in \in Inputs :
    None # [input |-> in, total |-> RequestedTotal(in.form),
            points |-> ParticipantPoints(in.form)]

VARIABLES
  ttl,        \* hours from the submission to the advisor's deadline
  available,  \* the advisor's and the user's row say active, and activated
  readers,    \* the requests with a FOR SHARE lock on these rows
  pc,         \* how far each request is
  input,
  stored,     \* length of storedKeys
  apps,       \* the committed application of each request, with all its rows
  tasks,      \* event keys of the committed email tasks
  scheduled,  \* hours from the submission to the committed task's scheduled_at
  files,      \* files in the private storage
  temp,       \* requests with uploads in the temporary directory
  answer,     \* the response each request got
  leaked,     \* files left by a crash, a failed removal or a failed stat
  doubt,      \* requests told of an error although their COMMIT took effect
  faults

db == <<apps, tasks, scheduled>>
vars == <<ttl, available, readers, pc, input, stored, db, files, temp, answer,
          leaked, doubt, faults>>

InTxn == {"found", "storing", "written"}
Running == {"received", "cleanup", "closing"} \cup InTxn

TypeOK ==
  /\ ttl \in Ttls
  /\ available \in [Advisors -> BOOLEAN]
  /\ readers \in [Advisors -> SUBSET Requests]
  /\ pc \in [Requests -> {"ready", "done"} \cup Running]
  /\ input \in [Requests -> Inputs \cup {None}]
  /\ stored \in [Requests -> 0..MaxAttachments]
  /\ \A r \in Requests : apps[r] # None => apps[r].input \in Inputs
  /\ tasks \subseteq Keys
  /\ scheduled \in [Keys -> Nat]
  /\ files \subseteq Files
  /\ temp \subseteq Requests
  /\ answer \in [Requests -> {"none", "created", "refused", "error"}]
  /\ leaked \subseteq Files
  /\ doubt \subseteq Requests
  /\ faults \in 0..MaxFaults

Init ==
  /\ ttl \in Ttls
  /\ available = [v \in Advisors |-> TRUE]
  /\ readers = [v \in Advisors |-> {}]
  /\ pc = [r \in Requests |-> "ready"]
  /\ input = [r \in Requests |-> None]
  /\ stored = [r \in Requests |-> 0]
  /\ apps = [r \in Requests |-> None]
  /\ tasks = {}
  /\ scheduled = [k \in Keys |-> 0]
  /\ files = {}
  /\ temp = {}
  /\ answer = [r \in Requests |-> "none"]
  /\ leaked = {}
  /\ doubt = {}
  /\ faults = 0

Goto(r, label) == pc' = [pc EXCEPT ![r] = label]

Fault(kind) ==
  /\ kind \in FaultKinds
  /\ faults < MaxFaults
  /\ faults' = faults + 1

StoredFiles(r) == {r} \X (1..stored[r])

Unlock(r) == readers' = [v \in Advisors |-> readers[v] \ {r}]

(***************************************************************************)
(* The notices (createAdvisorEmailTasks)                                   *)
(***************************************************************************)

(* The sign request and the reminders whose time is still ahead. *)
Notices(r) ==
  {<<r, 0>>} \cup {<<r, i>> : i \in {i \in DOMAIN ReminderHours : ttl > ReminderHours[i]}}

ScheduledAt(k) == IF k[2] = 0 THEN 0 ELSE ttl - ReminderHours[k[2]]

(***************************************************************************)
(* The administrators                                                      *)
(***************************************************************************)

(* deactivateAdvisor, deactivateUser and their opposites: an UPDATE of one *)
(* of the two rows, which waits for the FOR SHARE locks.                   *)
SwitchAdvisor(v) ==
  /\ readers[v] = {}
  /\ available' = [available EXCEPT ![v] = ~@]
  /\ UNCHANGED <<ttl, readers, pc, input, stored, db, files, temp, answer, leaked,
                 doubt, faults>>

(***************************************************************************)
(* A request                                                               *)
(***************************************************************************)

(* parseApplicationUpload has put the uploads into the temporary directory. *)
Receive(r, in) ==
  /\ pc[r] = "ready"
  /\ Goto(r, "received")
  /\ input' = [input EXCEPT ![r] = in]
  /\ temp' = temp \cup {r}
  /\ UNCHANGED <<ttl, available, readers, stored, db, files, answer, leaked, doubt,
                 faults>>

(* Mutant: no answer to a request whose advisor cannot be selected. *)
MutantWaitForAdvisor(r) ==
  /\ pc[r] = "received"
  /\ available[input[r].advisor]
  /\ Goto(r, "closing")
  /\ answer' = [answer EXCEPT ![r] = "refused"]
  /\ UNCHANGED <<ttl, available, readers, input, stored, db, files, temp, leaked,
                 doubt, faults>>

(* 4xx from the parser, the validations of the input and the files, or     *)
(* findAvailableAdvisor: nothing was written.                              *)
Refuse(r) ==
  /\ pc[r] = "received"
  /\ Goto(r, "closing")
  /\ answer' = [answer EXCEPT ![r] = "refused"]
  /\ UNCHANGED <<ttl, available, readers, input, stored, db, files, temp, leaked,
                 doubt, faults>>

(* findAvailableAdvisor: SELECT ... FOR SHARE OF a, u. *)
FindAdvisor(r) ==
  /\ pc[r] = "received"
  /\ available[input[r].advisor]
  /\ readers' = [readers EXCEPT ![input[r].advisor] = @ \cup {r}]
  /\ Goto(r, "found")
  /\ UNCHANGED <<ttl, available, input, stored, db, files, temp, answer, leaked,
                 doubt, faults>>

(* The rules are found, the points computed, the application, participants, *)
(* details and version 1 inserted.                                         *)
CreateApplication(r) ==
  /\ pc[r] = "found"
  /\ Accepts(input[r].form)
  /\ Goto(r, "storing")
  /\ UNCHANGED <<ttl, available, readers, input, stored, db, files, temp, answer,
                 leaked, doubt, faults>>

(* Mutant: the loop goes one attachment too far. *)
MutantStoreOneMore(r) ==
  /\ pc[r] = "storing"
  /\ stored[r] <= input[r].attachments
  /\ stored' = [stored EXCEPT ![r] = @ + 1]
  /\ files' = files \cup {<<r, stored[r] + 1>>}
  /\ UNCHANGED <<ttl, available, readers, pc, input, db, temp, answer, leaked,
                 doubt, faults>>

(* saveFromPath and storedKeys.push; createAttachment inserts the row. *)
StoreAttachment(r) ==
  /\ pc[r] = "storing"
  /\ stored[r] < input[r].attachments
  /\ stored' = [stored EXCEPT ![r] = @ + 1]
  /\ files' = files \cup {<<r, stored[r] + 1>>}
  /\ UNCHANGED <<ttl, available, readers, pc, input, db, temp, answer, leaked,
                 doubt, faults>>

(* saveFromPath throws after it has written the file, at its stat: the key *)
(* is not among storedKeys.                                                *)
StatFails(r) ==
  /\ pc[r] = "storing"
  /\ stored[r] < input[r].attachments
  /\ Fault("stat fails")
  /\ files' = files \cup {<<r, stored[r] + 1>>}
  /\ leaked' = leaked \cup {<<r, stored[r] + 1>>}
  /\ Goto(r, "cleanup")
  /\ Unlock(r)
  /\ UNCHANGED <<ttl, available, input, stored, db, temp, answer, doubt>>

(* Mutant: the loop ends one attachment early. *)
MutantSkipLast(r) ==
  /\ pc[r] = "storing"
  /\ stored[r] + 1 = input[r].attachments
  /\ Goto(r, "written")
  /\ UNCHANGED <<ttl, available, readers, input, stored, db, files, temp, answer,
                 leaked, doubt, faults>>

(* Mutant: the tasks are created outside the transaction. *)
MutantNoticesOutside(r) ==
  /\ pc[r] = "storing"
  /\ stored[r] = input[r].attachments
  /\ tasks' = tasks \cup Notices(r)
  /\ Goto(r, "written")
  /\ UNCHANGED <<ttl, available, readers, input, stored, apps, scheduled, files,
                 temp, answer, leaked, doubt, faults>>

(* createAdvisorEmailTasks, after the last attachment. *)
CreateNotices(r) ==
  /\ pc[r] = "storing"
  /\ stored[r] = input[r].attachments
  /\ Goto(r, "written")
  /\ UNCHANGED <<ttl, available, readers, input, stored, db, files, temp, answer,
                 leaked, doubt, faults>>

(* The rows of an application; requested_total_points is one, each          *)
(* participant's points another.                                           *)
Application(r) ==
  [input |-> [input[r] EXCEPT !.attachments = stored[r]],
   total |-> RequestedTotal(input[r].form),
   points |-> ParticipantPoints(input[r].form)]

(* The effect of a COMMIT. *)
Apply(r) ==
  /\ apps' = [apps EXCEPT ![r] = Application(r)]
  /\ tasks' = tasks \cup Notices(r)
  /\ scheduled' = [k \in Keys |-> IF k \in Notices(r) THEN ScheduledAt(k)
                                                       ELSE scheduled[k]]
  /\ Unlock(r)

Commit(r) ==
  /\ pc[r] = "written"
  /\ Apply(r)
  /\ Goto(r, "closing")
  /\ answer' = [answer EXCEPT ![r] = "created"]
  /\ UNCHANGED <<ttl, available, input, stored, files, temp, leaked, doubt, faults>>

(* The connection fails after the server has committed: withTransaction    *)
(* sees an error, and the catch block runs as for a rollback.              *)
CommitAnswerLost(r) ==
  /\ pc[r] = "written"
  /\ Fault("answer lost")
  /\ Apply(r)
  /\ Goto(r, "cleanup")
  /\ doubt' = doubt \cup {r}
  /\ UNCHANGED <<ttl, available, input, stored, files, temp, answer, leaked>>

(* A call inside the transaction throws, saveFromPath with its own removal *)
(* of a partial file included, or a rule is missing or not met: ROLLBACK.  *)
Abort(r) ==
  /\ pc[r] \in InTxn
  /\ Unlock(r)
  /\ Goto(r, "cleanup")
  /\ UNCHANGED <<ttl, available, input, stored, db, files, temp, answer, leaked,
                 doubt, faults>>

(* Mutant: the files are removed one after the other, up to a failure. *)
MutantStopAtFailure(r) ==
  /\ pc[r] = "cleanup"
  /\ Goto(r, "closing")
  /\ answer' = [answer EXCEPT ![r] = "error"]
  /\ \/ /\ files' = files \ StoredFiles(r)
        /\ UNCHANGED <<leaked, faults>>
     \/ /\ Fault("removal fails")
        /\ \E i \in 1..stored[r] :
             /\ files' = files \ {<<r, j>> : j \in 1..(i - 1)}
             /\ leaked' = leaked \cup {<<r, i>>}
  /\ UNCHANGED <<ttl, available, readers, input, stored, db, temp, doubt>>

(* The catch block: Promise.allSettled over the removals. *)
Cleanup(r) ==
  /\ pc[r] = "cleanup"
  /\ Goto(r, "closing")
  /\ answer' = [answer EXCEPT ![r] = "error"]
  /\ \/ /\ files' = files \ StoredFiles(r)
        /\ UNCHANGED <<leaked, faults>>
     \/ /\ Fault("removal fails")
        /\ \E f \in StoredFiles(r) :
             /\ files' = (files \ StoredFiles(r)) \cup {f}
             /\ leaked' = leaked \cup {f}
  /\ UNCHANGED <<ttl, available, readers, input, stored, db, temp, doubt>>

(* The finally block of the controller: cleanupTemporaryUploads. *)
Close(r) ==
  /\ pc[r] = "closing"
  /\ Goto(r, "done")
  /\ temp' = temp \ {r}
  /\ UNCHANGED <<ttl, available, readers, input, stored, db, files, answer, leaked,
                 doubt, faults>>

(* The server process stops: PostgreSQL rolls the open transactions back,  *)
(* no catch and no finally block runs.                                     *)
Crash ==
  LET dead == {r \in Requests : pc[r] \in Running}
  IN /\ Fault("crash")
     /\ dead # {}
     /\ pc' = [r \in Requests |-> IF r \in dead THEN "done" ELSE pc[r]]
     /\ readers' = [v \in Advisors |-> {}]
     /\ leaked' = leaked \cup {f \in files : pc[f[1]] \in InTxn \cup {"cleanup"}}
     /\ UNCHANGED <<ttl, available, input, stored, db, files, temp, answer, doubt>>

(***************************************************************************)

RequestStep(r) ==
  \/ Refuse(r)
  \/ FindAdvisor(r)
  \/ CreateApplication(r)
  \/ StoreAttachment(r)
  \/ CreateNotices(r)
  \/ Commit(r)
  \/ Abort(r)
  \/ Cleanup(r)
  \/ Close(r)

Next ==
  \/ \E r \in Requests, in \in Inputs : Receive(r, in)
  \/ \E r \in Requests : RequestStep(r)
  \/ \E r \in Requests : StatFails(r)
  \/ \E r \in Requests : CommitAnswerLost(r)
  \/ \E v \in Advisors : SwitchAdvisor(v)
  \/ Crash

Spec == Init /\ [][Next]_vars

(* A request that has arrived goes on. *)
FairSpec == Spec /\ \A r \in Requests : WF_vars(RequestStep(r))

(***************************************************************************)
(* Properties                                                              *)
(***************************************************************************)

(* The sign request is due first and at once, the reminders after it, one  *)
(* after the other and before the deadline, however short the time is.     *)
NoticesInOrder(r) ==
  \A i, j \in 0..Len(ReminderHours) :
    <<r, i>> \in tasks /\ <<r, j>> \in tasks =>
      /\ scheduled[<<r, i>>] < ttl
      /\ i < j => scheduled[<<r, i>>] < scheduled[<<r, j>>]

(* A submission is filed as a whole - one row and one file for every       *)
(* attachment the student sent, and the notices to the advisor in their    *)
(* order - or not at all, and the answer says which; except that, if the   *)
(* answer to COMMIT was lost, the student hears of an error and the catch  *)
(* block removes the files.                                                *)
AllOrNothing ==
  \A r \in Requests :
    /\ answer[r] = "created" => apps[r] # None
    /\ answer[r] \in {"refused", "error"} => apps[r] = None \/ r \in doubt
    /\ apps[r] # None =>
         /\ apps[r].input = input[r]
         /\ <<r, 0>> \in tasks
         /\ r \in doubt \/ {r} \X (1..input[r].attachments) \subseteq files
    /\ NoticesInOrder(r)

(* The total of an application is the sum of its participants' points, to  *)
(* the hundredth - and only then - as long as there is one participant     *)
(* where the rule alone decides the points.                                *)
SumsUp(r) ==
  Value(apps[r].total) = Total([i \in DOMAIN apps[r].points |-> Value(apps[r].points[i])])

PointsAddUp ==
  \A r \in Requests :
    apps[r] # None =>
      (SumsUp(r) <=> (Computed(apps[r].input.form) => Len(apps[r].points) = 1))

(* A file in the private storage belongs to a committed application or to  *)
(* a request that will remove or commit it, and an upload in the temporary *)
(* directory to a running request, unless a fault left it behind.          *)
FilesAccountedFor ==
  /\ \A f \in files : \/ f \in leaked
                      \/ apps[f[1]] # None
                      \/ pc[f[1]] \in InTxn \cup {"cleanup"} /\ f \in StoredFiles(f[1])
  /\ \A r \in temp : pc[r] \in Running \/ ("crash" \in FaultKinds /\ faults > 0)

(* From the lookup to the COMMIT the advisor stays selectable, whatever    *)
(* the administrators do, and only then: a request that ended keeps nobody *)
(* from switching the advisor off.                                         *)
AdvisorHeld ==
  \A r \in Requests :
    /\ pc[r] \in InTxn => available[input[r].advisor]
    /\ \A v \in Advisors : r \in readers[v] <=> pc[r] \in InTxn /\ input[r].advisor = v

(* A request keeps what it needs for as long as it needs it: its files,    *)
(* its uploads and the advisor.                                            *)
NothingForgotten == FilesAccountedFor /\ AdvisorHeld

(* Every request ends, and removes its temporary uploads. *)
RequestsEnd == \A r \in Requests : pc[r] = "received" ~> pc[r] = "done"

(* For the review, a submission with all its rows is the one step Submit.  *)
Review == INSTANCE ApplicationDecision WITH
  Apps <- Requests,
  MaxAttempts <- 1,
  NoticesOf <- [r \in Requests |-> {r} \X (0..Len(ReminderHours))],
  RejectionOf <- [r \in Requests |-> <<r, "rejection">>],
  status <- [k \in Keys |-> IF k \in tasks THEN "pending" ELSE "absent"],
  attempts <- [k \in Keys |-> 0],
  deliveries <- [k \in Keys |-> 0],
  appStatus <- [r \in Requests |-> IF apps[r] = None THEN "absent" ELSE "pending_advisor"],
  advisorOf <- [r \in Requests |-> IF apps[r] = None THEN None ELSE apps[r].input.advisor],
  actions <- {},
  signatures <- {}

ImplementsSubmit == Review!DecisionSpec

(* docs/data-model.md: the points of all participants add up to            *)
(* requested_total_points.                                                 *)
TotalIsSum == \A r \in Requests : apps[r] # None => SumsUp(r)
=============================================================================
