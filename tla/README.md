# A formal model of the points-review backend

TLA+ specifications of this repository's stateful core: the e-mail queue, the
submission of an application with its points and the advisor's review of it,
accounts with their tokens and sessions, the director's office, the versions of
rules and instructions, and the older MongoDB forms with their jobs. TLC checks
them on small instances; TLAPS proves every invariant and every refinement that
the passing runs check, for all parameters, the arithmetic of the points included.

Paths below are relative to the repository root.

## The system

A TypeScript/Express server over PostgreSQL. Every state change runs in a
`READ COMMITTED` transaction (`src/db/transaction.ts`), except a few statements
that stand alone (login, the email worker). Files are kept outside the database.
An older MongoDB application is still in the tree and is reachable only with
`ENABLE_LEGACY_MONGO`.

| Component | State | Operations | Talks to |
|---|---|---|---|
| Email queue: `workers/processEmailTasks`, `services/emailTask`, `repositories/emailTask` | `email_tasks` rows: status, attempt count, schedule | create (`ON CONFLICT DO NOTHING`), cancel, claim (`SKIP LOCKED`), send, mark sent, reschedule, fail | called inside the transactions of every other service; the mail provider |
| Submission: `services/applicationSubmission` | `point_applications`, participants, details, version, attachments, files | submit | rules, calculator, file storage, queue |
| Advisor review: `services/advisorApplication` | status of the application, review actions, signatures, signature files | approve, reject | queue, file storage |
| Accounts: `services/userAdmin`, `accountActivation`, `passwordReset`, `auth`, `initialAdmin`, `accountEmailTask`, `middlewares/authentication` | `users` (role, activity, password, token hashes), `user_sessions`, advisory lock 710043 | create, resend, activate, reset, switch on/off, transfer administrator, login, logout | queue (the token mails), audit log |
| Advisors: `services/advisorAdmin` | `advisors` (activity, director flag) | create, activate, deactivate, assign director | accounts, audit log |
| Rules: `services/ruleAdmin` and repositories | versions with effective periods | create (closing the open one), deactivate, find effective | read by submissions |
| Instructions: `services/applicationInstruction` | versions with effective periods, text, visibility | create (closing the open one), update, setVisible, public list | public pages |
| Point calculator: `domain/pointCalculator` | none | four calculations, unit conversion | submission |
| Private storage: `files/privateFileStorage` | files | save (exclusive), remove | submission, review |
| Audit log: `services/auditLog` | append-only rows | record | every administrative transaction |
| Legacy forms and tasks: `controllers/competitionForm*`, `tasks/*`, `jobs/*` | Mongo documents of forms, mails and students' points | submit, open and edit by token, confirm or decline by link, revise, approve, reject, extend, lock, unlock, resend; email and expiry jobs | mail, student points |
| Guards and wiring: permissions, CSRF, schemas, mappers, routes, error mapping, templates, configuration, seeds, scripts | none that persists | | |

Where it is hard:

* **Interleaving.** Two workers on one table; two decisions on one application;
  activations, switch-ons and hand-overs of the administrator; hand-overs of the
  director. The defences are row locks, an advisory lock, guarded `UPDATE`s and
  partial unique indexes, and they are not taken in one order everywhere.
* **Reads before waits.** A `SELECT ... FOR UPDATE` that waited looks again only
  at the row it waited for. A login checks the password in one statement and
  inserts its session in another. The actor's role is read before the handler.
* **Failures between two stores.** A file is written before the COMMIT that
  makes its row visible; a COMMIT may take effect although its answer is lost;
  a server or worker stops half-way.
* **Retries.** A provider may deliver and still time out.
* **Midnight.** Which version of the instructions may still be edited depends on
  a date that stands still while the transaction waits.
* **Documents without locks.** The legacy handlers and jobs read a document, wait
  for mails, and save what they changed on the copy they read.

`PROJECT.json` lists each hazard at its line with the properties that cover it.

## Modules

| Module | Role | Code |
|---|---|---|
| `EmailTaskLifecycle` | abstract specification of a task: pending, processing, sent, failed, cancelled, with attempt and delivery counts | the promise of the queue |
| `EmailQueue` | the queue with service transactions, row locks, worker runs, crashes, clock | worker, service, repository |
| `ApplicationDecision` | abstract specification: one decision in one step, on top of the lifecycle | the promise of the review |
| `AdvisorReview` | requests, row lock, signature file, COMMIT, lost answers, crashes; its tasks are those of the lifecycle | `advisorApplication` |
| `AccountLifecycle` | abstract specification: invited, active, inactive; one administrator, replaced but never lost | the promise of the accounts |
| `PointCalculator` | pure operators: hundredths, the four calculations, what a participant's row gets | `pointCalculator`, and its use in `applicationSubmission` |
| `Submission` | uploads, lock on the advisor, points, stored files, notices, ROLLBACK, catch and finally blocks | `applicationSubmission` with its controller, middleware, repository and file storage |
| `Accounts` | tokens, sessions, the two lock orders of the administrator decision | the account services and their repositories |
| `DirectorAssignment` | hand-overs of the director's office, with the re-check of `READ COMMITTED` | `advisorAdmin` |
| `DatedVersions` | abstract specification: versions with days, none of which has two | the promise of the tables with `effective_from` and `effective_to` |
| `RuleVersions` | versions of one rule, the exclusion constraint, lookups by submissions | `ruleAdmin`, the rule repositories, `findEffective` in `applicationSubmission` |
| `ApplicationInstructions` | versions of one section, edits until they start, visibility, midnight | `applicationInstruction` service, repository, controller |
| `LegacyForms` | one form, handlers with their copy of it, students' points, email and expiry jobs | `competitionForm*` controllers, `tasks/*`, `jobs/*`, the models |
| `MC*` | instances for TLC | |
| `EmailQueue_proofs`, `AdvisorReview_proofs`, `Submission_proofs`, `Accounts_proofs`, `DirectorAssignment_proofs`, `RuleVersions_proofs`, `ApplicationInstructions_proofs`, `LegacyForms_proofs` | the inductive invariant of the module they name, the theorems and their proofs | |

How they compose: `EmailQueue` implements `EmailTaskLifecycle`, and
`AdvisorReview` extends `EmailTaskLifecycle`, so the review is checked against
what the queue was shown to provide and not against all of its steps.
`ApplicationDecision` extends the lifecycle in the same way. `AdvisorReview`
refines it, and so does `Submission`, each on its side: the step `Submit` that
the review takes for granted is what a submission with all its statements comes
to. Submissions and reviews share only committed rows, so neither module holds
the other's requests. `Submission` extends `PointCalculator`, so that the points
of its forms are computed and not assumed, and leaves to `RuleVersions` how a
lookup finds a rule while administrators change it. `RuleVersions` and
`ApplicationInstructions` both implement `DatedVersions`; the second takes the
steps of a creation from the first (`R == INSTANCE RuleVersions`), since the two
services close the open-ended version and meet the exclusion constraint with the
same statements. `LegacyForms` shares no state with the rest: it is another
database.

### Conventions

* One action per statement where other processes can come between two
  statements and see the difference; one action per transaction where it locks
  a single row first and all it reads and writes hangs on that row.
* A lock held by somebody disables the waiting action. Waiting queues have no
  order: PostgreSQL's order is one of the possible ones.
* A request that is refused without an effect is a stuttering step, unless the
  answer is part of a property (as in `AdvisorReview`) or it ends a transaction
  that holds locks.
* Uncommitted rows: `EmailQueue` has the states `inserting` and `cancelling` for
  rows of open transactions; `AdvisorReview` keeps the withdrawn tasks of an open
  transaction in `withdrawn`; `Accounts` and `DirectorAssignment` write at COMMIT
  and hold the locks before.
* Operators named `Mutant...` are deliberately wrong versions of the definition
  they precede; none is used by a specification. `PROJECT.json` says which
  property each one must break.

### EmailQueue

`row`, `content`, `scheduledAt`, `rowId`, `attempts` are the columns of
`email_tasks` by event key; `owner` is the row lock. A transaction `t` begins,
inserts (`createPendingTask`), meets a conflict of content (`InsertConflict`,
which makes it fail), cancels a group (`cancelPendingAdvisorNotifications`), and
commits or rolls back. A worker `w` runs `processDueEmailTasks`: `StartRun`,
`ClaimNextDue` in the order of `scheduled_at, id`, then `RenderFails`,
`SendSucceeds` or `SendFails`, then the guarded `UPDATE` `MarkSent`,
`RescheduleAfterFailure` or `MarkFailed`. `deliveries` counts what reached the
recipient, which no column records. A `Crash` ends a run anywhere; a row it
held stays in `processing`, since the code has nothing that takes it back.

### AdvisorReview

`Receive`, `Lock` (the `SELECT ... FOR UPDATE` and the checks under it) or
`Refuse`, `SaveSignature` (the file, outside the database), `WriteDecision`
(signature, review action, status, cancelled notices), `Commit`,
`CommitAnswerLost`, `Abort`, `Cleanup` (the catch block), `Crash` of the server.
`files` are the files on disk, `doubt` the requests told of an error although
their COMMIT took effect. Only version 1 of an application exists in this code
base.

### Accounts

`password` counts how often a password was set: 0 stands for `password_hash` and
`activated_at` both null, which only `completeActivation` changes and always
together. `acting` holds the users with an authorised administrative request in
flight: authorisation is read before the handler and only `transferAdmin` looks
again. Activation of an administrator locks its row and then takes advisory lock
710043; the hand-over takes the lock and then both rows in the order of their
ids. `overtaken` marks the logins that were between the password check and the
insertion of their session when the sessions of that user were revoked.

### DirectorAssignment

`found` is the row that the snapshot of `findActiveDirectorForUpdate` had, and
after `LockDirector` the value of `currentDirector`: when the row is no
director's any more it is `None`, and the row stays locked. `trail` is the
sequence of `advisor.director_assigned` entries, and of `advisor.created` for a
director.

### Submission

`Receive` is the upload middleware, `Refuse` every 4xx before anything is
written, `FindAdvisor` the `SELECT ... FOR SHARE`, `CreateApplication` the rule
lookups, the points and the rows up to version 1, `StoreAttachment` one turn of
the loop over the attachments, `CreateNotices` the email tasks, `Cleanup` the
catch block and `Close` the controller's finally block. `stored` is the length
of `storedKeys`; the key is pushed after `saveFromPath` has returned, so a file
whose `stat` fails (`StatFails`) is not among them. A form carries the points its participants
ask for and the rules in force; `CreateApplication` stores the total and the
participants' points, or the request is refused. `FaultKinds` says which
faults an instance allows, `MaxFaults` how many; a ROLLBACK is not counted.

### PointCalculator

A decimal is its whole part and the digits after the point, so that the padding
of `pointsToUnits` is there to go wrong; `Value` reads the digits one by one and
is what `PointsAddUp` adds up. `Total` is the `reduce` of the code, a recursive
function of how far the loop has come. `ParticipantPoints` is the replacement of
the first participant's points by a computed total, which `submitApplication`
does for projects and certificates. `ValidForm` is what a submission can bring:
the shapes that the request schema lets through
(`schemas/applicationSubmission.schema.ts`) with rules whose rows pass the
`CHECK`s of their tables. `PointsAddUp` is exact: the rows add up to the total
unless the total is computed and there are several participants, and then they
never do.

### RuleVersions

One rule key: one row of a rule table's key columns, for both kinds of rule,
whose statements are the same. `period` is what is committed, `draft` what an
open transaction has written, `writer` and `readers` the row locks. A creation
is `BeginCreate` (the snapshot of `closeOpenEndedVersion`), `Close` (the UPDATE
once it has the row, whose WHERE clause is evaluated again: the row must still be
open-ended and begin before the new version), the check of
the exclusion constraint (`UpdateHolds` or `OverlapRefused`), `Insert`, its
check (`InsertHolds` or `OverlapRefused`), and `Commit`. `Rivals` are the rows
that keep a check from passing: while one of them is unsettled the check waits,
and it fails as soon as a settled one overlaps. A submission takes its day
before its transaction (`Receive`), selects a row (`Find`), waits for its lock
and looks at that row again (`ShareLock`), and ends. A submission that waited
for a row that was closed in the meantime finds no rule, even if the version
that replaces it covers its day; `RuleHeld` states when this and similar
surprises can happen: only when somebody asked for a date at or before the
submission's.

### ApplicationInstructions

`create` is the creation of `RuleVersions` with a text and a visibility.
`BeginUpdate` starts `update` or `setVisible` and notes the date (`begun`), which
is what `CURRENT_TIMESTAMP` gives to `has_started`; `Patch`, `Reorder`,
`SetVisible` and `KeepRow` are what the handlers do once they have the row, and
`RefuseUpdate` their 409 and 422. `Midnight` moves `today`. A period `Away` is in
another section. PostgreSQL checks the exclusion constraint again when a column
of the index is written, `is_visible` included; where only the text is new, both
outcomes are allowed. `Listed` is `listPublic`.

### LegacyForms

`call[r]` is a handler in flight with what its copy is good for: `valid` if
mongoose will find every required path filled, `stale` if another save has
raised the version of the document. `Read` checks what the handler checks,
`Save` writes only the fields the handler changed: a save does not look at the
others, and only `update`, which replaces arrays, is refused when it is stale.
Two handlers cannot be saved at all: `approve` and `reject` put `""` into
`editToken`, which the model requires. Nor can `getFormByToken`, which selects
fields without `_id` and has no other effect: it is a stuttering step.
`Leave` ends a handler without a save. `ReadPoints` and
`WritePoints` are the two halves of the points of one student, `SkipPoints` the
ways to lose them.

Each resubmission names another advisor, and `advisor` counts them; a handler's
copy holds the one it has read, and `agreedBy` those whose agreement was saved.
The code does not look at the advisor when it saves an agreement: if two were
under way before the first was saved, the second may be saved over a
resubmission, and the new advisor is then marked as agreed. `overtaken` holds
the advisors to whom this has happened.

A run of the email job reads the first pending mails up to the limit of its
`find` (`StartRun`) and works on its copies in their order, also of the count.
A run that stops early is one that has read fewer. What leads to the `catch` is a
failed delivery (`DeliveryFails`) or a save that fails after the delivery
(`SaveFails`); both raise the count, and the save at the end of the loop writes
it (`RetryMail`), together with `"sent"` in the second case. The last failure
closes the form (`CloseForm`) by an update that raises no version, unless another
closed form holds the unique empty token (`GiveUpRefused`, which ends the run).
The task is saved after that (`FailMail`); if this save fails, or the process stops
before it (`StopRun`), the form is closed, its mail stays pending, and a later run
takes it up again and may deliver it.

## Runs

| Run | Checks | Instance |
|---|---|---|
| `queue_safety` | `TypeOK`, `ClaimIsExclusive`, `DeliveryBudget`, `RowsAreHeld`, `ContentIsImmutable`, `ImplementsLifecycle` | 2 keys in one group, 2 contents, 2 workers, 2 transactions, 2 attempts, 1 crash, clock to 1; symmetry over workers and transactions |
| `queue_liveness` | `DueTasksSettle` under `FairSpec` | 2 keys, 1 content, 2 workers, 1 transaction, clock to 2; no symmetry |
| `review` | `TypeOK`, `DecisionConsistent`, `FilesMatchRows`, `ImplementsDecision`, `RequestsEnd` under `FairSpec` | 1 application, 2 advisors, 2 requests, 2 attempts, 1 fault |
| `review_notices` | **violated**: `UnsentNoticesCancelled` | 1 request, 2 attempts, no fault |
| `submission` | `TypeOK`, `AllOrNothing`, `NothingForgotten`, `PointsAddUp`, `ImplementsSubmit`, `RequestsEnd` under `FairSpec` | 2 requests, 1 advisor, 2 attachments, a form of each of the 4 types and a certificate for two participants, 24 hours, 2 faults of any kind |
| `submission_points` | **violated**: `TotalIsSum` | 1 request with a certificate for two participants |
| `accounts` | `TypeOK`, `AccessConsistent`, `ImplementsAccounts`, `OperationsEnd` under `FairSpec` | 2 users, 3 tokens, 1 place for logins, 2 operations |
| `director` | `TypeOK`, `DirectorDecided`, `TrailTruthful`, `DirectorStays`, `HandOversEnd` under `FairSpec` | 3 advisors, 3 hand-overs |
| `rules` | `TypeOK`, `RuleHeld`, `ImplementsVersions`, `CoverLostOnlyAsAsked`, `CallsEnd` under `FairSpec` | the seeded version, 2 creations, 1 deactivation, 1 submission, 3 days |
| `instructions` | `TypeOK`, `ImplementsVersions`, `ListedStays`, `CallsEnd` under `FairSpec` | the seeded version, 1 creation, 2 edits, 2 texts, 2 days |
| `legacy` | `TypeOK`, `StatusJustified`, `ResubmitOverwritesNothing`, `JobsFinish` under `FairSpec` | 2 handlers in flight and 1 run of the email job with 1 mail; 1 handler, 2 runs, 1 mail; or 1 handler, 1 run, 2 mails; 1 student, 2 retries, 1 failed save per mail, 1 point |
| `legacy_points` | **violated**: `PointsOnce` | 1 handler, 1 student, 2 points |

What the conjunctions stand for: `RowsAreHeld` is `LockDiscipline` and
`StrandedOnlyByCrash`; `DecisionConsistent` has the answers to the callers in it,
`AllOrNothing` the answers and the order of the notices; `AccessConsistent` is
`CredentialsConsistent`, `TokensSpentOnce` and `SessionsFollowRevocations`;
`NothingForgotten` is about files, uploads and the lock on the advisor;
`RuleHeld` is `LookedUpInForce` and `LaterChangesAreHarmless`. That there is one
active administrator is part of `ImplementsAccounts`, and that no day has two
versions part of `ImplementsVersions`.

Why the bounds are enough to meet the interesting cases. *Queue*: two workers
and two transactions are what a race over a row needs, two keys let a claim be
out of order and a group be half cancelled, two attempts have a retry and an
end. *Review*: two requests race for the row, and the one that loses meets a
decision already taken; two attempts let a notice come back after a failed
delivery, in between the statements of a decision too; the fault is a lost
COMMIT answer, a crash, or a removal that fails after an abort (aborts are not
counted). *Submission*: two requests share the advisor's rows, two attachments are
a loop that can fail half-way, and a removal that fails next to one that does
not; two faults are a lost answer or a failed removal followed by a crash; at
24 hours the first reminder would lie in the past and the second one is due at
once, so both are skipped, and the third is kept; each form has a decimal with fewer than two places, a cap or a
participant too many, and one certificate allows the second participant whom the
computed total passes over. *Accounts*: two of the tokens are invitations, the third one resends
or resets; the place for logins is taken by one session after another, so the
administrator's request can outlive its session while another login is revoked;
two operations are an activation and a hand-over that wait for each other, or
two of a kind. *Director*: a circle of waiting transactions needs two hand-overs
and, before them, a third one that leaves a stale lock; three advisors are a
director and two rival targets. *Rules*: two creations wait for each other, close
one version twice, or follow each other; three days give two versions a day each
and a boundary between them, before or after the submission's day; the rules do
not interact with each other, so one submission and one key are enough.
*Instructions*: a creation races with an edit of the version it closes, and two
edits with each other and with the one midnight at which a version starts.
*Legacy*: `Places` splits the run into three instances, since everything at once
is too large. Two handlers are what it takes to save over each other and to have
two agreements under way; two runs of the job work on one mail with different
retry counts; two mails let a run hold one while it is at the other. The second
failure is the last one (the code has three). The limit of ten is `Batch`, here
two: a run may read one of two pending mails all the same, and the theorems hold
for any limit. A save fails once for each mail where the form has just been
closed, as often as it likes elsewhere. One place is reused, so that sequences
of handlers of any length happen.

Deadlock is checked for the queue, which never stops (a run can always start).
It is not checked elsewhere: each request, operation and token of those
instances is used once, and a legacy form may be closed, so the system may come
to rest; that nobody waits for ever is what the liveness properties say.

### Fairness

* `EmailQueue`: a transaction that is open ends, a run of the worker is started
  again after it ends (the worker is meant to be started periodically; nothing
  in the server starts it yet, so `DueTasksSettle` is a property of a deployment
  that does), a run goes on, and the clock advances. No transaction must begin
  and no worker must crash.
* `AdvisorReview`, `Submission`: a request that arrived goes on. Nothing makes one arrive.
* `Accounts`, `DirectorAssignment`, `RuleVersions`, `ApplicationInstructions`: a
  transaction that has begun goes on, and PostgreSQL's deadlock detector ends a
  transaction of a circle. Midnight need not come.
* `LegacyForms`: the two jobs are started every ten minutes (`jobs/*.job.ts`), and
  a run goes on, unless it stops; after a form was closed it may do so once for each
  mail (`StopRun`). No handler must be called, or end. The expiry job takes five
  forms at a time, and the one form modelled is among them.

### What the violated runs show

* `review_notices`: `docs/email-queue.md` says that unsent notices are cancelled
  by the decision. One that is being sent is not pending, and comes back if the
  attempt fails. What does hold is in the abstract decision: only a notice that
  has been tried may return.
* `submission_points`: `docs/data-model.md` wants the participants' points to add
  up to the application's total. A computed total replaces the points of the
  first participant only, while the participant rule, which administrators edit,
  may allow several. `PointsAddUp` says that this is the only way it goes wrong, and
`SubmissionSurplus` (see Proofs) by how much.
* `legacy_points`: the approval credits every student, and then its save is
  refused; the form stays under review, and the next approval credits them
  again, although the handler refuses to approve a form twice.

Other places where the program departs from its documents are exceptions in the
properties that hold. If the answer to a COMMIT is lost, the catch block removes
the files of rows that exist, which `docs/file-storage.md` excludes (`doubt` in
`FilesMatchRows` and `AllOrNothing`). A file whose `stat` fails after it was
written is not among those the submission removes, which
`docs/transaction-concurrency.md` says it does (`leaked` in `NothingForgotten`).
A hand-over that waited for another one to the same advisor records it a second
time, which the same document excludes; `TrailTruthful` says what can
be relied on for. And a reminder that failed may be retried after the deadline it
announces, which no model here has both sides of: the queue knows no deadlines.

Three things that the code lets happen are exceptions as well, and the hazards
that name them say so.

* A login that has checked its password when the sessions are revoked opens one
  that nobody revokes: `AccessConsistent` speaks of the others.
* Once another legacy form has been closed, the unique index refuses to close this
  one: a mail that fails for the last time stays pending, and the mails behind it
  in the run are not reached. `JobsFinish` promises the mails something only until
  then.
* A legacy form can be marked with the agreement of an advisor whom a
  resubmission has replaced, by a second agreement that was under way: `StatusJustified`
  excepts the advisors in `overtaken`, and keeps that nothing is sent back,
  resubmitted or credited that nobody has agreed to. Likewise a form may be closed
  for a mail that failed one time less than it should, when its last delivery
  succeeded and could not be saved, although the reason stored with the form says
  that sending failed three times.

## Proofs

Each `X_proofs` extends `X` and proves of its `Spec`, for all values of the
constants that satisfy the assumption named in `X`, that a formula `IInv` is an
invariant, and from it the properties that the runs check. There is one lemma
for each conjunct of `IInv` or for each kind of step, and in it one step for
each action; what an action leaves alone is a lemma of its own where the module
has parts that do not meet (`OthersStay`, `LoginsStay`, ...).

| Module | Theorems | What `IInv` adds to the properties |
|---|---|---|
| `EmailQueue_proofs` | `QueueInvariant`, `QueueTypes`, `ClaimsAreExclusive`, `DeliveriesAreBounded`, `EveryRowIsHeld`, `CommittedContentStays`, `QueueImplementsLifecycle`, `FinalStatesAreFinal`, `StrandedTasksStay`, `ClaimsAreDecided` | `LockDiscipline` |
| `AdvisorReview_proofs` | `ReviewInvariant`, `ReviewTypes`, `ReviewIsConsistent`, `ReviewFilesMatchRows`, `ReviewImplementsDecision`, `DecisionsStand` | `TaskBudget`, `Deciding`, `Withdrawing`, `Answering`, `Filing` |
| `Submission_proofs` | `SubmissionInvariant`, `SubmissionTypes`, `SubmissionAllOrNothing`, `SubmissionNothingForgotten`, `SubmissionImplementsSubmit`, `SubmissionPointsAddUp`, `SubmissionSurplus`, `SubmissionAsRuled` | `Storing`, `Filing`, `Scheduling`, `Keeping`, `Holding` |
| `Accounts_proofs` | `AccountInvariant`, `AccountTypes`, `AccessIsConsistent`, `AccountsImplementLifecycle`, `OneAdministrator`, `PasswordsNeedTokens`, `ActorsStayAdmins`, `DecisionsExclude` | `Rows`, `Mailed`, `OneCarrier`, `Deciding`, `Logins` |
| `DirectorAssignment_proofs` | `DirectorInvariant`, `DirectorTypes`, `OneDirectorAtMost`, `AuditIsTruthful`, `OfficeNeverVacant`, `OfficeIsRecorded` | `Decision` |
| `RuleVersions_proofs` | `RulesInvariant`, `RulesTypes`, `RulesHeld`, `RulesCoverLostOnlyAsAsked`, `RulesImplementVersions`, `NoDayHasTwoRules`, `SubmissionsShareRule` | `Calls`, `Holding`, `Exclusion`, `Sharing`, `History` |
| `ApplicationInstructions_proofs` | `InstructionInvariant`, `InstructionTypes`, `InstructionsListedStay`, `InstructionsImplementVersions`, `NoDayHasTwoVersions` | `Calls`, `Holding`, `Exclusion` |
| `LegacyForms_proofs` | `FormInvariant`, `FormTypes`, `FormStatusJustified`, `FormResubmitsFresh` | `Counting`, `Adding`, `Agreeing`, `Consenting`, `UpToDate` |

Assumptions. All of them say only that `None` is none of the values it stands
beside, that the sets of different kinds of calls are disjoint, and that bounds
are naturals (positive where the code's are); TLC evaluates them on every run.
Four say more: `FormsAssumption` has valid forms only, which the request schema
(at least one participant, positive points of at most two places) and the `CHECK`s
of the rule tables (at least one participant allowed, a positive salary unit,
positive points of a certificate) justify; `ReviewAssumption` gives different applications different event
keys, which the code builds from the application's id; `AccountAssumption` has
users ordered by their ids and finitely many tokens; `QueueAssumption` gives a
delay to every attempt that has another one after it.

Why the properties are not inductive and what makes them so:

* *Queue.* A worker's guarded `UPDATE` matches because its claim is exclusive;
  the claim stays exclusive because `claimNextDue` takes only pending rows and
  no transaction writes a row in processing, which is `LockDiscipline`; the
  budget of deliveries needs that the attempt count the worker read is still the
  row's, which is part of `ClaimIsExclusive`. For the refinement, the mapping
  `VisibleStatus` shows an uncommitted row as the others see it. A committed
  content never changes, since only the transaction that inserts a row writes its
  content, while no committed row has the key.
* *Review.* A decision that commits must find the application as it was when it
  was locked (`Deciding`), its file there (`Filing`), and what it withdraws still
  pending (`Withdrawing`), and nobody has answered for it before (`Answering`).
  `TaskBudget` adds to the budget of the lifecycle that a task that is not there
  has not been tried. A review with a COMMIT whose answer is lost is one step of
  `Decide`, and its cleanup a stutter.
* *Submission.* How many attachments a request has stored and where they are
  (`Storing`), that nothing of it is visible before its COMMIT and all of it
  afterwards (`Filing`), which of its notices are due and when (`Scheduling`),
  who answers for a file or an upload (`Keeping`), and the share lock that keeps
  the advisor as it was found (`Holding`).
* *Accounts.* A token that a row carries or an operation used was mailed
  (`Mailed`), and to one row only (`OneCarrier`), so that a token that is used
  frees nobody else's. An activation that has locked its row still finds its
  token there, and if it has seen an active administrator there still is one
  (`Deciding`): the hand-over replaces, it does not remove. A login past its
  check is as good as an open session (`Logins`). That a password is set at most
  once per token bounds it (`Rows`), by the cardinality of the spent tokens.
* *Director.* `Decision` says that the row of the director a hand-over found
  stays locked until it writes; if it found none and there is one by then, the
  unique index refuses its write.
* *Rules.* A COMMIT publishes periods that the constraint compared with the
  others' some steps earlier. `Exclusion` therefore speaks of three pairs: two
  committed periods never meet, two checked ones never meet, and a checked one
  meets a committed one only if the same transaction replaces that one.
  `Holding` says that a written row is still as its writer found it. `History`
  carries what `RuleHeld` says of the past: unless somebody asked for a date at or
  before it, a day still has the rule it had.
* *Instructions.* The same `Exclusion`, but a version may move between the steps
  of a call that ends it. All steps are brought to seven shapes (`Begins`,
  `Takes`, `Passes`, `Inserts`, `GivesUp`, `Publishes`, `Midnight`), and the
  conjuncts are proved for the shapes. `ListedStays` follows from what a writer
  found after its wait (`Moves`).
* *Legacy forms.* Nothing locks the document between a handler's read and its
  save. What a form owes to its advisor has to be known of the copies in flight
  too: until an agreement is saved nothing is under revision and nothing is about
  to be credited (`Agreeing`), so that the advisor is not replaced before it, and
  the first agreement is of the advisor that the form names (`Consenting`). What an
  applicant saves over is known from the version (`UpToDate`), and that a mail
  failed often enough from the counts (`Counting`): those of pending mails, and of
  runs that are to try a mail, were failed deliveries. Of a sent mail this is not
  so, since a save that failed after the delivery raises the count; but then no
  run reads it again, and a run that has read it still has a count from before.

What the proofs changed in the models:

* `RuleVersions!Close` had only the `to = Open` half of the WHERE clause that is
  evaluated again after the wait. With rules alone the other half never matters,
  since a rule's first day never moves; with instructions it does: an edit may
  move the version behind the new one while the creation waits, and the model
  then stored a period that ends before it begins. The code is right, the model
  was not. No invariant could be found before it was corrected; TLC shows it
  with two creations, one edit and three days, a larger instance than the run's.
  The run keeps its bounds, since the theorems hold for all of them.
* `DatedVersions` allows the empty set where days are replaced: a version of
  another section has none here.
* The assumptions that sets of calls are disjoint and that `None` is nothing else
  were implicit in the instances.

Some theorems say more than the runs check.

* In terms of the code's state, what the abstract specifications promise: a final
  task stays final (`FinalStatesAreFinal`) and a decided application as it was
  decided (`DecisionsStand`); there is one active administrator at most, and never
  none again (`OneAdministrator`); no day has two versions of a rule or of a
  section (`NoDayHasTwoRules`, `NoDayHasTwoVersions`).
* What a crash costs the queue: a task whose worker stopped stays in processing,
  untouched and uncounted, for good (`StrandedTasksStay`; nothing in the code takes
  it back). And whenever a task is due, exactly one is next (`ClaimsAreDecided`),
  which needs that no two rows have the same id.
* Who gets in: a password is set only with a token that was mailed, that one row
  carries and that worked never before (`PasswordsNeedTokens`); whoever has an
  administrator's request in flight is one, though perhaps no longer active
  (`ActorsStayAdmins`); decisions under the advisory lock exclude each other, and
  what ends gives back its locks (`DecisionsExclude`).
* Two submissions of a day are computed with the same rule, unless somebody has
  dated a change back to it (`SubmissionsShareRule`): the share lock keeps the row
  of each in force, and no day has two.
* The office of the director changes in the step that appends one entry to the
  audit log, and the entry names a predecessor exactly if somebody else left
  (`OfficeIsRecorded`). The invariant it needs beside `IInv` is that an op that has
  its director locked is not about to appoint that one (`Apart`).
* What is stored obeys the rule the submission found (`SubmissionAsRuled`), whose
  caps and minimums are checked long before the COMMIT, and where the rows differ
  from the total it is by what the other participants asked for
  (`SubmissionSurplus`).

How the points are proved. The sum over the participants has no bound, so that it
needs induction, and the library's induction theorems take an operator, which the
installed provers cannot instantiate. The proofs take a least counterexample
instead: `LeastNat` (from `NatLessThanWellFounded` and `WFMin`) gives a set of
numbers that is not empty its least element, and `FirstFailure` says of what does
not hold at every index that it fails at 0 or right after an index at which it
holds. With it `SumsExist` and `TotalIs` show that the recursive function of
`Total` satisfies its equation, `TotalsDiffer` compares the sums of two sequences
that differ in one place, and the rest is arithmetic on one decimal at a time
(`Worth`, `WorthOfUnits`). The same `LeastNat` finds the task with the least id
among those that are due first (`OldestIs`).

Only model-checked:

* Liveness: `DueTasksSettle`, `RequestsEnd` of the review and of the submission,
  `OperationsEnd`, `HandOversEnd`, `CallsEnd` of the rules and of the instructions,
  `JobsFinish`. The installed provers have no rule for `ENABLED`, on which
  fairness rests.
* The three violated properties, which are false.

## What is not modelled

The `components` of `PROJECT.json` list every part with the reason. In short:

* `updateUser`, `updateAdvisor` and `rotateCsrfToken` change columns that no
  property tells apart.
* `processStudentPointsQueue`: nothing in the server starts it. A point that an
  approval left to it stays uncredited (`SkipPoints`).
* The administration of legacy users and the points table, which read and write
  single documents without interaction; the files of a legacy form, of which only
  the save of `deleteSingleFileById` is modelled (`DeleteFile`).
* Queries, guards, schemas, mappers, templates, error mapping, configuration,
  seeds and scripts hold no state of their own. What a guard leaves stale is in
  `Accounts`, what a constraint refuses in the modules.

## Plan

The components are modelled, and every safety property and refinement that a
passing run checks is proved. What could be added:

1. A queue whose tasks know the deadline they announce, for the reminder that is
   retried after it.
2. `updateUser` with the tokens that were mailed to the old address.
3. A return of stranded tasks to the queue, when the code has one:
   `StrandedTasksStay` is the theorem that has to give way to it.
