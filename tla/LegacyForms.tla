---------------------------- MODULE LegacyForms ----------------------------
(***************************************************************************)
(* The MongoDB forms that ENABLE_LEGACY_MONGO switches on                  *)
(* (src/controllers/competitionForm*.ts, src/tasks, src/models): one       *)
(* competition form, the handlers that work on it, and the jobs.           *)
(*                                                                         *)
(* A handler reads the document, checks it, waits for mails, and saves the *)
(* fields it changed; nothing locks the document in between.  Mongoose     *)
(* refuses a save in two cases: a required path is empty in the handler's  *)
(* copy, as editToken = "" is, or the handler replaced an array and        *)
(* another save has raised the version of the document, as every push to   *)
(* the history does.                                                       *)
(***************************************************************************)
EXTENDS Naturals, FiniteSets

CONSTANTS Requests,    \* places for handlers in flight
          Runs,        \* places for runs of the email job, which may overlap
          Mails,       \* EmailTask documents of the form, numbered as created
          Batch,       \* the limit of the email job's find
          Students,    \* students of the form, who get one point each
          Places,      \* the requests, runs and mails that a behaviour may use
          MaxRetries,  \* maxRetries of an EmailTask
          MaxPoints    \* bound on what a student collects

ASSUME LegacyAssumption ==
  /\ Mails \subseteq Nat
  /\ {Batch, MaxRetries} \subseteq Nat \ {0}
  /\ MaxPoints \in Nat

VARIABLES
  places,       \* one of Places, chosen at the start
  status, locked,
  advisor,      \* the advisor that the form names: each resubmission names another
  agreed,       \* advisor.isAgreed
  link,         \* advisor.teacherConfirmToken with teacherConfirmExpires
  deadline,     \* expirationDate, of the applicant's editing
  closed,       \* editToken is ""
  tokenTaken,   \* another form has editToken "", which is unique
  call,         \* the handler in each place
  mail, retries,
  failures,     \* failed deliveries of each mail, counted up to MaxRetries
  unsaved,      \* the mails for which a save failed; it fails once at most
  todo,         \* the mails each run has still in memory, with their retries
  sweeping,     \* the expiry job has the form in memory
  points,       \* group.contest in PointsTable
  adding,       \* how far each writer is with each student
  agreedBy,     \* the advisors whose agreement was saved
  overtaken     \* the advisors named by a resubmission that an agreement was saved over

formVars == <<status, locked, agreed, link, deadline, closed, advisor, agreedBy, overtaken>>
mailVars == <<mail, retries, failures, unsaved, todo>>
pointVars == <<points, adding>>
vars == <<places, formVars, tokenTaken, call, mailVars, sweeping, pointVars>>

Statuses == {"submitted", "needs_revision", "resubmitted", "approved", "rejected", "reserved"}
Kinds == {"submit", "update", "verify", "agree", "disagree", "revise",
          "approve", "reject", "extend", "lock", "unlock", "resend"}
Nothing == [m \in {} |-> 0]
Idle == [kind |-> "none"]
Reviews == {"revise", "approve", "reject"}
Calls == [kind : Kinds, valid : BOOLEAN, stale : BOOLEAN, advisor : Nat]

Done == [at |-> "done"]
Due == [at |-> "due"]
Found(n) == [at |-> "found", points |-> n]
Steps == {Done, Due} \cup {Found(n) : n \in 0..MaxPoints}

TypeOK ==
  /\ places \in Places
  /\ status \in Statuses \cup {"none"}
  /\ agreed \in {"unset", "yes", "no"}
  /\ link \in {"none", "live", "expired"}
  /\ deadline \in {"none", "open", "past"}
  /\ {locked, closed, tokenTaken, sweeping} \subseteq BOOLEAN
  /\ advisor \in Nat
  /\ agreedBy \subseteq Nat /\ overtaken \subseteq Nat
  /\ call \in [Requests -> Calls \cup {Idle}]
  /\ mail \in [Mails -> {"none", "pending", "sent", "failed"}]
  /\ retries \in [Mails -> 0..MaxRetries]
  /\ \A m \in Mails : retries[m] = MaxRetries => mail[m] \in {"sent", "failed"}
  /\ failures \in [Mails -> 0..MaxRetries]
  /\ unsaved \subseteq Mails
  /\ todo \in [Runs -> UNION {[ms -> 0..MaxRetries] : ms \in SUBSET Mails}]
  /\ points \in [Students -> 0..MaxPoints]
  /\ adding \in [Requests -> [Students -> Steps]]

Init ==
  /\ places \in Places
  /\ status = "none" /\ agreed = "unset" /\ link = "none" /\ deadline = "none"
  /\ locked = FALSE /\ closed = FALSE /\ tokenTaken = FALSE
  /\ advisor = 0 /\ agreedBy = {} /\ overtaken = {}
  /\ call = [r \in Requests |-> Idle]
  /\ mail = [m \in Mails |-> "none"]
  /\ retries = [m \in Mails |-> 0]
  /\ failures = [m \in Mails |-> 0]
  /\ unsaved = {}
  /\ todo = [j \in Runs |-> Nothing]
  /\ sweeping = FALSE
  /\ points = [s \in Students |-> 0]
  /\ adding = [r \in Requests |-> [s \in Students |-> Done]]

Working(r) == call[r] # Idle

(***************************************************************************)
(* Handlers                                                                *)
(***************************************************************************)

UnderReview == status \in {"submitted", "resubmitted"}

(* What each handler checks on the document it found.  The applicant finds *)
(* it by editToken, the advisor by a link that has not expired.            *)
Allowed(k) ==
  \/ k = "update" /\ ~closed /\ status = "needs_revision" /\ deadline = "open" /\ ~locked
  \/ k = "verify" /\ link = "live" /\ status = "submitted"
  \/ k \in {"agree", "disagree"} /\ link = "live" /\ status = "submitted" /\ agreed = "unset"
  \/ k \in Reviews /\ agreed = "yes" /\ ~locked /\ UnderReview
  \/ k = "extend" /\ deadline # "open" /\ ~locked /\ status = "needs_revision"
  \/ k = "lock" /\ ~locked /\ UnderReview
  \/ k = "unlock" /\ locked
  \/ k = "resend" /\ status = "submitted" /\ agreed = "unset" /\ ~locked

(* The handlers that send one or two mails. *)
Mailing == {"submit", "update", "agree", "disagree", "revise", "approve", "reject",
            "extend", "resend"}

(* The copy of the document that a handler works on. *)
Copy(k, valid) == [kind |-> k, valid |-> valid, stale |-> FALSE, advisor |-> advisor]

(* submitForm: the document is created before the two mails. *)
Submit(r) ==
  /\ r \in places
  /\ ~Working(r)
  /\ status = "none"
  /\ status' = "submitted"
  /\ link' = "live"
  /\ call' = [call EXCEPT ![r] = Copy("submit", TRUE)]
  /\ UNCHANGED <<places, locked, agreed, deadline, closed, advisor, agreedBy, overtaken, tokenTaken,
                 mailVars, sweeping, pointVars>>

(* Every other handler reads the form; its copy is valid if the form is.   *)
(* getFormByToken reads it without its _id, so that its save always fails, *)
(* and it has no other effect: it is a stuttering step.                    *)
Read(r, k) ==
  /\ r \in places
  /\ ~Working(r)
  /\ status # "none"
  /\ Allowed(k)
  /\ call' = [call EXCEPT ![r] = Copy(k, ~closed)]
  /\ adding' = IF k = "approve" THEN [adding EXCEPT ![r] = [s \in Students |-> Due]]
                                ELSE adding
  /\ UNCHANGED <<places, formVars, tokenTaken, mailVars, sweeping, points>>

Credited(r) == \A s \in Students : adding[r][s] = Done

(* queueFormEmail could not send and keeps the mail for the job, behind    *)
(* the mails it has.  Mails bounds how many a handler keeps, not the two   *)
(* that it sends at most.                                                  *)
QueueMail(r, m) ==
  /\ call[r].kind \in Mailing
  /\ Credited(r)
  /\ m \in places
  /\ mail[m] = "none"
  /\ \A n \in Mails : n < m /\ n \in places => mail[n] # "none"
  /\ mail' = [mail EXCEPT ![m] = "pending"]
  /\ UNCHANGED <<places, formVars, tokenTaken, call, retries, failures, unsaved, todo,
                 sweeping, pointVars>>

(* The version of the document is raised, which only update looks at. *)
Outdate(c) ==
  [r \in Requests |-> IF c[r].kind = "update" THEN [c[r] EXCEPT !.stale = TRUE] ELSE c[r]]
Return(r) == [call EXCEPT ![r] = Idle]

(* Mutant: the applicant's save does not look at the version. *)
MutantAnyVersion(r) ==
  /\ Working(r)
  /\ call[r].valid
  /\ call[r].kind \notin {"approve", "reject", "submit"}

(* Mongoose accepts the copy.  approve and reject have put "" in editToken *)
(* and never are; update replaces the arrays of students and files.        *)
Accepted(r) ==
  /\ Working(r)
  /\ call[r].valid
  /\ call[r].kind \notin {"approve", "reject", "submit"}
  /\ call[r].kind = "update" => ~call[r].stale

(* What each handler changes.  updatedFormByToKen replaces the advisor by  *)
(* the name and address of the request, without isAgreed and the link; the *)
(* advisor of a later save by advisorConfirmedByToken is then another one. *)
StatusAfter(k) ==
  CASE k = "update" -> "resubmitted"
    [] k = "disagree" -> "rejected"
    [] k = "revise" -> "needs_revision"
    [] OTHER -> status

(* Mutant: a resubmission keeps the agreement to the form it replaces. *)
MutantAgreementStays(k) ==
  CASE k = "agree" -> "yes"
    [] k = "disagree" -> "no"
    [] OTHER -> agreed

AgreedAfter(k) ==
  CASE k = "update" -> "unset"
    [] k = "agree" -> "yes"
    [] k = "disagree" -> "no"
    [] OTHER -> agreed

LinkAfter(k) ==
  CASE k \in {"update", "agree", "disagree"} -> "none"
    [] k = "resend" -> "live"
    [] OTHER -> link

DeadlineAfter(k) == IF k \in {"revise", "extend"} THEN "open" ELSE deadline

LockAfter(k) == (locked \/ k = "lock") /\ k # "unlock"

(* Only the fields that the handler changed are written, and the history. *)
Save(r) ==
  LET k == call[r].kind
  IN /\ Accepted(r)
     /\ status' = StatusAfter(k)
     /\ agreed' = AgreedAfter(k)
     /\ link' = LinkAfter(k)
     /\ deadline' = DeadlineAfter(k)
     /\ locked' = LockAfter(k)
     /\ advisor' = IF k = "update" THEN advisor + 1 ELSE advisor
     /\ overtaken' = IF k = "agree" /\ call[r].advisor # advisor /\ agreedBy # {}
                     THEN overtaken \cup {advisor} ELSE overtaken
     /\ agreedBy' = IF k = "agree" THEN agreedBy \cup {call[r].advisor} ELSE agreedBy
     /\ call' = Outdate(Return(r))
     /\ UNCHANGED <<places, closed, tokenTaken, mailVars, sweeping, pointVars>>

(* deleteSingleFileById replaces the array of files.  Its check and its    *)
(* save are one step, since a save in between has it refused.              *)
DeleteFile ==
  /\ status # "none" /\ ~locked /\ ~closed
  /\ call' = Outdate(call)
  /\ UNCHANGED <<places, formVars, tokenTaken, mailVars, sweeping, pointVars>>

(* The handler of a submission is through, a save is refused, or anything  *)
(* throws before the save.                                                 *)
Leave(r) ==
  /\ Working(r)
  /\ call' = Return(r)
  /\ adding' = [adding EXCEPT ![r] = [s \in Students |-> Done]]
  /\ UNCHANGED <<places, formVars, tokenTaken, mailVars, sweeping, points>>

LinkExpires ==
  /\ link = "live"
  /\ link' = "expired"
  /\ UNCHANGED <<places, status, locked, agreed, deadline, closed, advisor, agreedBy, overtaken,
                 tokenTaken, call, mailVars, sweeping, pointVars>>

DeadlinePasses ==
  /\ deadline = "open"
  /\ deadline' = "past"
  /\ UNCHANGED <<places, status, locked, agreed, link, closed, advisor, agreedBy, overtaken,
                 tokenTaken, call, mailVars, sweeping, pointVars>>

(***************************************************************************)
(* Points                                                                  *)
(***************************************************************************)

(* The student's document is read. *)
ReadPoints(r, s) ==
  /\ adding[r][s] = Due
  /\ points[s] < MaxPoints
  /\ adding' = [adding EXCEPT ![r][s] = Found(points[s])]
  /\ UNCHANGED <<places, formVars, tokenTaken, call, mailVars, sweeping, points>>

(* What was read and one point more is saved. *)
WritePoints(r, s) ==
  /\ adding[r][s].at = "found"
  /\ points' = [points EXCEPT ![s] = adding[r][s].points + 1]
  /\ adding' = [adding EXCEPT ![r][s] = Done]
  /\ UNCHANGED <<places, formVars, tokenTaken, call, mailVars, sweeping>>

(* There is no document that is not locked, or an error leaves the point   *)
(* to a PointsTask, and nothing in the server starts the queue of those.   *)
SkipPoints(r, s) ==
  /\ adding[r][s] # Done
  /\ adding' = [adding EXCEPT ![r][s] = Done]
  /\ UNCHANGED <<places, formVars, tokenTaken, call, mailVars, sweeping, points>>

(***************************************************************************)
(* Jobs                                                                    *)
(***************************************************************************)

(* Mutant: only tasks that never failed are read. *)
MutantFreshMails == {m \in Mails : mail[m] = "pending" /\ retries[m] = 0}

PendingMails == {m \in Mails : mail[m] = "pending"}

(* processFormEmailQueue: the first pending tasks are read at once, up to   *)
(* Batch, and none is claimed.  A run that stops between two of its mails, *)
(* or before anything that it did for the one it is at was saved, leaves   *)
(* what a run leaves that has read fewer of them.                          *)
StartRun(j) ==
  /\ j \in places
  /\ todo[j] = Nothing
  /\ PendingMails # {}
  /\ \E n \in 1..Batch :
       LET taken == {m \in PendingMails : Cardinality({i \in PendingMails : i < m}) < n}
       IN todo' = [todo EXCEPT ![j] = [m \in taken |-> retries[m]]]
  /\ UNCHANGED <<places, formVars, tokenTaken, call, mail, retries, failures, unsaved, sweeping,
                 pointVars>>

Finish(j, m) == [todo EXCEPT ![j] = [n \in DOMAIN @ \ {m} |-> @[n]]]

(* A run is at its first mail.  In memory its count is raised before the   *)
(* form is closed, so that one at MaxRetries is only to be saved.          *)
IsAt(j, m) == m \in DOMAIN todo[j] /\ \A n \in DOMAIN todo[j] : m <= n
Tries(j, m) == IsAt(j, m) /\ todo[j][m] < MaxRetries

Deliver(j, m) ==
  /\ Tries(j, m)
  /\ mail' = [mail EXCEPT ![m] = "sent"]
  /\ todo' = Finish(j, m)
  /\ UNCHANGED <<places, formVars, tokenTaken, call, retries, failures, unsaved, sweeping,
                 pointVars>>

(* What leads to the catch: the mail is not delivered, or it is and the    *)
(* task is not saved.                                                      *)
DeliveryFails(m) ==
  /\ failures' = [failures EXCEPT ![m] = IF @ < MaxRetries THEN @ + 1 ELSE @]
  /\ UNCHANGED unsaved

SaveFails(m) ==
  /\ m \notin unsaved
  /\ unsaved' = unsaved \cup {m}
  /\ UNCHANGED failures

(* Mutant: the count is compared before it is raised. *)
MutantTryAgain(j, m) == todo[j][m] >= MaxRetries

LastTry(j, m) == todo[j][m] + 1 >= MaxRetries

(* The save after the catch writes the raised count, and "sent" if only    *)
(* the first save had failed.                                              *)
RetryMail(j, m) ==
  /\ Tries(j, m)
  /\ ~LastTry(j, m)
  /\ \/ DeliveryFails(m) /\ UNCHANGED mail
     \/ UNCHANGED <<failures, unsaved>> /\ mail' = [mail EXCEPT ![m] = "sent"]
  /\ retries' = [retries EXCEPT ![m] = todo[j][m] + 1]
  /\ todo' = Finish(j, m)
  /\ UNCHANGED <<places, formVars, tokenTaken, call, sweeping, pointVars>>

(* The form is closed whatever became of it; the version is not raised.    *)
CloseForm(j, m) ==
  /\ Tries(j, m)
  /\ LastTry(j, m)
  /\ ~tokenTaken
  /\ DeliveryFails(m) \/ SaveFails(m)
  /\ todo' = [todo EXCEPT ![j][m] = MaxRetries]
  /\ status' = "rejected" /\ locked' = TRUE /\ closed' = TRUE
  /\ agreed' = "unset" /\ link' = "none"
  /\ UNCHANGED <<places, deadline, advisor, agreedBy, overtaken, tokenTaken, call, mail, retries,
                 sweeping, pointVars>>

(* The task is saved after the form is closed. *)
FailMail(j, m) ==
  /\ IsAt(j, m)
  /\ todo[j][m] = MaxRetries
  /\ mail' = [mail EXCEPT ![m] = "failed"]
  /\ retries' = [retries EXCEPT ![m] = MaxRetries]
  /\ todo' = Finish(j, m)
  /\ UNCHANGED <<places, formVars, tokenTaken, call, failures, unsaved, sweeping,
                 pointVars>>

(* The save after the form is closed fails, or the process stops before    *)
(* it: the form is closed, its mail stays pending and the run is gone.     *)
StopRun(j, m) ==
  /\ IsAt(j, m)
  /\ todo[j][m] = MaxRetries
  /\ SaveFails(m)
  /\ todo' = [todo EXCEPT ![j] = Nothing]
  /\ UNCHANGED <<places, formVars, tokenTaken, call, mail, retries, sweeping, pointVars>>

(* The unique index refuses a second empty editToken: the error ends the   *)
(* run, and neither this task nor the ones after it are saved.             *)
GiveUpRefused(j, m) ==
  /\ Tries(j, m)
  /\ LastTry(j, m)
  /\ tokenTaken
  /\ todo' = [todo EXCEPT ![j] = Nothing]
  /\ UNCHANGED <<places, formVars, tokenTaken, call, mail, retries, failures, unsaved, sweeping,
                 pointVars>>

(* The job closes another form. *)
OtherFormClosed ==
  /\ ~closed /\ ~tokenTaken
  /\ tokenTaken' = TRUE
  /\ UNCHANGED <<places, formVars, call, mailVars, sweeping, pointVars>>

LinkDead == status = "submitted" /\ link = "expired"

(* processAdvisorTokenExpiryQueue finds the form with an expired link. *)
SweepFind ==
  /\ ~sweeping
  /\ LinkDead
  /\ sweeping' = TRUE
  /\ UNCHANGED <<places, formVars, tokenTaken, call, mailVars, pointVars>>

SweepSave ==
  /\ sweeping
  /\ sweeping' = FALSE
  /\ status' = "reserved"
  /\ link' = "none"
  /\ call' = Outdate(call)
  /\ UNCHANGED <<places, locked, agreed, deadline, closed, advisor, agreedBy, overtaken, tokenTaken,
                 mailVars, pointVars>>

MailStep(j) ==
  \/ StartRun(j)
  \/ \E m \in Mails : \/ Deliver(j, m) \/ RetryMail(j, m)
                      \/ CloseForm(j, m) \/ FailMail(j, m) \/ GiveUpRefused(j, m)

PointsStep(r, s) == ReadPoints(r, s) \/ WritePoints(r, s) \/ SkipPoints(r, s)

Handler(r) ==
  \/ Submit(r)
  \/ \E k \in Kinds : Read(r, k)
  \/ \E m \in Mails : QueueMail(r, m)
  \/ \E s \in Students : PointsStep(r, s)
  \/ Save(r)
  \/ Leave(r)

Next ==
  \/ \E r \in Requests : Handler(r)
  \/ DeleteFile
  \/ \E j \in Runs : MailStep(j) \/ \E m \in Mails : StopRun(j, m)
  \/ SweepFind \/ SweepSave
  \/ LinkExpires \/ DeadlinePasses \/ OtherFormClosed

Spec == Init /\ [][Next]_vars

(* The jobs are started every ten minutes, and a run goes on unless it is  *)
(* stopped.                                                                *)
FairSpec ==
  /\ Spec
  /\ \A j \in Runs : WF_vars(MailStep(j))
  /\ WF_vars(SweepFind) /\ WF_vars(SweepSave)

LeftToDo == (~tokenTaken /\ \E m \in Mails : mail[m] = "pending") \/ LinkDead

(***************************************************************************)
(* Properties                                                              *)
(***************************************************************************)

(* A form is marked as agreed to, and read for a review that sends it      *)
(* back, rejects it or credits the students, only if the advisor it names  *)
(* then has agreed, and not one that a resubmission has replaced.  The one *)
(* exception is an advisor over whose resubmission a further agreement of  *)
(* a predecessor, under way since before the first, was saved.  Even then  *)
(* somebody has agreed to whatever was sent back, resubmitted or credited. *)
(* The email job closes a form only for a mail whose delivery failed       *)
(* MaxRetries times, or one time less if it was delivered at last and      *)
(* could not be saved, also when runs overlap, stop and have old counts.   *)
StatusJustified ==
  /\ agreed = "yes" => advisor \in agreedBy \cup overtaken
  /\ \A r \in Requests :
       call[r].kind \in Reviews => call[r].advisor \in agreedBy \cup overtaken
  /\ \/ status \in {"needs_revision", "resubmitted", "approved"}
     \/ \E s \in Students : points[s] > 0
     => agreedBy # {}
  /\ closed => \E m \in Mails :
       failures[m] >= MaxRetries \/ (m \in unsaved /\ failures[m] + 1 = MaxRetries)

(* The applicant's corrected form replaces nothing that somebody else has  *)
(* saved since it was read: it goes to review from needs_revision, and not *)
(* past a lock, unless the email job has closed the form meanwhile.        *)
ResubmitOverwritesNothing ==
  [][status # "resubmitted" /\ status' = "resubmitted"
       => closed \/ (status = "needs_revision" /\ ~locked)]_vars

(* Overlapping runs may set a retry count back, and a run may stop when it *)
(* has closed the form, but the jobs come to an end with what they have to *)
(* do: every queued mail is sent or given up, as long as no other form has *)
(* been closed, and the form does not stay with an expired link that       *)
(* nobody can answer.                                                      *)
JobsFinish == LeftToDo ~> ~LeftToDo

(* Points are credited once per form ("表單已核准，無需重複核准").             *)
PointsOnce == \A s \in Students : points[s] <= 1
=============================================================================
