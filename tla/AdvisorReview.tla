--------------------------- MODULE AdvisorReview ---------------------------
(***************************************************************************)
(* An advisor approves or rejects the application waiting for them         *)
(* (src/services/advisorApplication.service.ts and its repository), while  *)
(* other requests for the same application, the email workers, the         *)
(* deadline and failures interleave.                                       *)
(*                                                                         *)
(* A request is a transaction that locks the application row, checks it,   *)
(* stores the signature file outside the database, writes its rows and     *)
(* commits.  Its rows are invisible until COMMIT; its row locks and the    *)
(* file are not.  The tasks are those of EmailTaskLifecycle, which the     *)
(* detailed queue (EmailQueue) implements.                                 *)
(***************************************************************************)
EXTENDS EmailTaskLifecycle, FiniteSets

CONSTANTS Apps, Advisors, NoticesOf, RejectionOf, None,
          Requests,     \* review requests, each handled once
          MaxFaults     \* bound on crashes, lost COMMIT answers, failed removals

ASSUME ReviewAssumption ==
  /\ NoticesOf \in [Apps -> SUBSET Keys]
  /\ RejectionOf \in [Apps -> Keys]
  /\ \A a, b \in Apps : RejectionOf[a] \notin NoticesOf[b]
  /\ \A a, b \in Apps : a # b => /\ NoticesOf[a] \cap NoticesOf[b] = {}
                                 /\ RejectionOf[a] # RejectionOf[b]
  /\ None \notin Apps \cup Advisors \cup Requests
  /\ MaxFaults \in Nat

VARIABLES
  appStatus,   \* point_applications.status
  advisorOf,   \* the user behind point_applications.advisor_id
  expired,     \* advisor_confirmation_expires_at has passed
  actions,     \* committed application_review_actions, with the request that wrote each
  signatures,  \* committed advisor_signatures, with the request that wrote each
  lock,        \* the request holding the application's row lock
  withdrawn,   \* task rows a request's open transaction has cancelled
  input,       \* what each request asks for
  pc,          \* how far each request is
  answer,      \* the response each request got
  files,       \* signature files on disk; the storage key is new in each request
  leaked,      \* requests whose file a crash or a failed removal left behind
  doubt,       \* requests told of an error although their COMMIT took effect
  faults

appVars == <<appStatus, advisorOf, expired, actions, signatures>>
vars == <<taskVars, appVars, lock, withdrawn, input, pc, answer, files, leaked,
          doubt, faults>>

AppStates == {"absent", "pending_advisor", "under_review", "rejected"}
Kinds == {"approve", "reject"}
Inputs == [kind : Kinds, app : Apps, user : Advisors, version : {1, 2}]
CurrentVersion == 1     \* no code creates a second version

InTxn == {"validated", "saved", "written"}

TypeOK ==
  /\ TaskTypeOK
  /\ appStatus \in [Apps -> AppStates]
  /\ advisorOf \in [Apps -> Advisors \cup {None}]
  /\ expired \in [Apps -> BOOLEAN]
  /\ actions \subseteq [app : Apps, user : Advisors, kind : Kinds, by : Requests]
  /\ signatures \subseteq [app : Apps, user : Advisors, by : Requests]
  /\ lock \in [Apps -> Requests \cup {None}]
  /\ withdrawn \in [Requests -> SUBSET Keys]
  /\ input \in [Requests -> Inputs \cup {None}]
  /\ pc \in [Requests -> {"ready", "received", "cleanup", "done"} \cup InTxn]
  /\ answer \in [Requests -> {"none", "ok", "refused", "error"}]
  /\ files \subseteq Requests
  /\ leaked \subseteq Requests
  /\ doubt \subseteq Requests
  /\ faults \in 0..MaxFaults

Init ==
  /\ TaskInit
  /\ appStatus = [a \in Apps |-> "absent"]
  /\ advisorOf = [a \in Apps |-> None]
  /\ expired = [a \in Apps |-> FALSE]
  /\ actions = {}
  /\ signatures = {}
  /\ lock = [a \in Apps |-> None]
  /\ withdrawn = [r \in Requests |-> {}]
  /\ input = [r \in Requests |-> None]
  /\ pc = [r \in Requests |-> "ready"]
  /\ answer = [r \in Requests |-> "none"]
  /\ files = {}
  /\ leaked = {}
  /\ doubt = {}
  /\ faults = 0

(***************************************************************************)
(* The surroundings: submissions, the deadline, the email workers          *)
(***************************************************************************)

(* applicationSubmission.service commits an application with its sign      *)
(* request and the reminders whose time is still ahead.                    *)
Submit(a, adv, notices) ==
  /\ appStatus[a] = "absent"
  /\ appStatus' = [appStatus EXCEPT ![a] = "pending_advisor"]
  /\ advisorOf' = [advisorOf EXCEPT ![a] = adv]
  /\ notices # {} /\ notices \subseteq NoticesOf[a]
  /\ CommitTasks(notices, {})
  /\ UNCHANGED <<expired, actions, signatures, lock, withdrawn, input, pc, answer,
                 files, leaked, doubt, faults>>

DeadlinePasses(a) ==
  /\ appStatus[a] # "absent"
  /\ ~expired[a]
  /\ expired' = [expired EXCEPT ![a] = TRUE]
  /\ UNCHANGED <<taskVars, appStatus, advisorOf, actions, signatures, lock,
                 withdrawn, input, pc, answer, files, leaked, doubt, faults>>

(* claimNextDue skips a row that an open transaction has updated; the      *)
(* other steps concern rows in processing, which no transaction touches.   *)
Work(k) ==
  /\ WorkOnTask(k)
  /\ \A r \in Requests : k \notin withdrawn[r]
  /\ UNCHANGED <<appVars, lock, withdrawn, input, pc, answer, files, leaked,
                 doubt, faults>>

(***************************************************************************)
(* A review request                                                        *)
(***************************************************************************)

Receive(r, in) ==
  /\ pc[r] = "ready"
  /\ pc' = [pc EXCEPT ![r] = "received"]
  /\ input' = [input EXCEPT ![r] = in]
  /\ UNCHANGED <<taskVars, appVars, lock, withdrawn, answer, files, leaked, doubt,
                 faults>>

(* validateActionApplication and, for an approval, the version and the     *)
(* signature checks.                                                       *)
Acceptable(in) ==
  /\ appStatus[in.app] # "absent" /\ advisorOf[in.app] = in.user
  /\ appStatus[in.app] = "pending_advisor"
  /\ ~expired[in.app]
  /\ in.kind = "approve" =>
       /\ in.version = CurrentVersion
       /\ ~\E s \in signatures : s.app = in.app

(* Mutant of Lock: the SELECT without FOR UPDATE waits for nobody. *)
MutantReadWithoutLock(r) ==
  /\ pc[r] = "received"
  /\ Acceptable(input[r])
  /\ lock' = [lock EXCEPT ![input[r].app] = r]
  /\ pc' = [pc EXCEPT ![r] = "validated"]
  /\ UNCHANGED <<taskVars, appVars, withdrawn, input, answer, files, leaked, doubt,
                 faults>>

(* SELECT ... FOR UPDATE OF pa waits for the lock, then sees what the last *)
(* holder committed.                                                       *)
Lock(r) ==
  /\ pc[r] = "received"
  /\ lock[input[r].app] = None
  /\ Acceptable(input[r])
  /\ lock' = [lock EXCEPT ![input[r].app] = r]
  /\ pc' = [pc EXCEPT ![r] = "validated"]
  /\ UNCHANGED <<taskVars, appVars, withdrawn, input, answer, files, leaked, doubt,
                 faults>>

(* Mutant of Refuse: the early error leaves the transaction open. *)
MutantRefuseHoldingLock(r) ==
  /\ pc[r] = "received"
  /\ lock[input[r].app] = None
  /\ ~Acceptable(input[r])
  /\ lock' = [lock EXCEPT ![input[r].app] = r]
  /\ pc' = [pc EXCEPT ![r] = "done"]
  /\ answer' = [answer EXCEPT ![r] = "refused"]
  /\ UNCHANGED <<taskVars, appVars, withdrawn, input, files, leaked, doubt, faults>>

(* 404 or 409: the transaction rolls back having written nothing. *)
Refuse(r) ==
  /\ pc[r] = "received"
  /\ lock[input[r].app] = None
  /\ ~Acceptable(input[r])
  /\ pc' = [pc EXCEPT ![r] = "done"]
  /\ answer' = [answer EXCEPT ![r] = "refused"]
  /\ UNCHANGED <<taskVars, appVars, lock, withdrawn, input, files, leaked, doubt,
                 faults>>

(* storage.saveFromPath, under a key no other request uses. *)
SaveSignature(r) ==
  /\ pc[r] = "validated"
  /\ input[r].kind = "approve"
  /\ files' = files \cup {r}
  /\ pc' = [pc EXCEPT ![r] = "saved"]
  /\ UNCHANGED <<taskVars, appVars, lock, withdrawn, input, answer, leaked, doubt,
                 faults>>

(* Mutant of WriteDecision: the notices are left alone. *)
MutantKeepNotices(r) ==
  /\ pc[r] = "saved" \/ (pc[r] = "validated" /\ input[r].kind = "reject")
  /\ pc' = [pc EXCEPT ![r] = "written"]
  /\ UNCHANGED <<taskVars, appVars, lock, withdrawn, input, answer, files, leaked,
                 doubt, faults>>

(* createSignature, createReviewAction, markUnderReview or markRejected,   *)
(* cancelPendingAdvisorNotifications and, for a rejection,                 *)
(* createPendingTask: of these only the cancellation takes locks that      *)
(* others meet before the COMMIT.                                          *)
WriteDecision(r) ==
  /\ pc[r] = "saved" \/ (pc[r] = "validated" /\ input[r].kind = "reject")
  /\ withdrawn' = [withdrawn EXCEPT ![r] =
                     {k \in NoticesOf[input[r].app] : status[k] = "pending"}]
  /\ pc' = [pc EXCEPT ![r] = "written"]
  /\ UNCHANGED <<taskVars, appVars, lock, input, answer, files, leaked, doubt, faults>>

(* The transaction of r leaves its locks. *)
Unlock(r) ==
  /\ lock' = [a \in Apps |-> IF lock[a] = r THEN None ELSE lock[a]]
  /\ withdrawn' = [withdrawn EXCEPT ![r] = {}]

(* The effect of a COMMIT. *)
Apply(r) ==
  LET a == input[r].app
      approved == input[r].kind = "approve"
  IN /\ appStatus' = [appStatus EXCEPT ![a] =
                        IF approved THEN "under_review" ELSE "rejected"]
     /\ actions' = actions \cup {[app |-> a, user |-> input[r].user,
                                  kind |-> input[r].kind, by |-> r]}
     /\ signatures' = IF approved
                        THEN signatures \cup {[app |-> a, user |-> input[r].user, by |-> r]}
                        ELSE signatures
     /\ CommitTasks(IF approved THEN {} ELSE {RejectionOf[a]}, withdrawn[r])
     /\ UNCHANGED <<advisorOf, expired>>
     /\ Unlock(r)

Commit(r) ==
  /\ pc[r] = "written"
  /\ Apply(r)
  /\ pc' = [pc EXCEPT ![r] = "done"]
  /\ answer' = [answer EXCEPT ![r] = "ok"]
  /\ UNCHANGED <<input, files, leaked, doubt, faults>>

(* The connection fails after the server has committed: withTransaction    *)
(* sees an error and the catch block runs as for a rollback.               *)
CommitAnswerLost(r) ==
  /\ pc[r] = "written"
  /\ faults < MaxFaults
  /\ Apply(r)
  /\ pc' = [pc EXCEPT ![r] = "cleanup"]
  /\ doubt' = doubt \cup {r}
  /\ faults' = faults + 1
  /\ UNCHANGED <<input, answer, files, leaked>>

(* Mutant of Abort: no catch block removes the file. *)
MutantAbortKeepsFile(r) ==
  /\ pc[r] \in InTxn
  /\ Unlock(r)
  /\ pc' = [pc EXCEPT ![r] = "done"]
  /\ answer' = [answer EXCEPT ![r] = "error"]
  /\ UNCHANGED <<taskVars, appVars, input, files, leaked, doubt, faults>>

(* Any call inside the transaction throws, saveFromPath included (it       *)
(* removes its partial file): ROLLBACK.                                    *)
Abort(r) ==
  /\ pc[r] \in InTxn
  /\ Unlock(r)
  /\ pc' = [pc EXCEPT ![r] = "cleanup"]
  /\ UNCHANGED <<taskVars, appVars, input, answer, files, leaked, doubt, faults>>

(* The catch block: storage.remove(storedKey), whose own failure is        *)
(* swallowed.                                                              *)
Cleanup(r) ==
  /\ pc[r] = "cleanup"
  /\ pc' = [pc EXCEPT ![r] = "done"]
  /\ answer' = [answer EXCEPT ![r] = "error"]
  /\ \/ /\ files' = files \ {r}
        /\ UNCHANGED <<leaked, faults>>
     \/ /\ r \in files
        /\ faults < MaxFaults
        /\ faults' = faults + 1
        /\ leaked' = leaked \cup {r}
        /\ UNCHANGED files
  /\ UNCHANGED <<taskVars, appVars, lock, withdrawn, input, doubt>>

(* The server process stops: PostgreSQL rolls the open transactions back,  *)
(* no catch block runs, the files stay.                                    *)
Crash ==
  LET dead == {r \in Requests : pc[r] \in {"received", "cleanup"} \cup InTxn}
  IN /\ faults < MaxFaults
     /\ faults' = faults + 1
     /\ dead # {}
     /\ pc' = [r \in Requests |-> IF r \in dead THEN "done" ELSE pc[r]]
     /\ lock' = [a \in Apps |-> None]
     /\ withdrawn' = [r \in Requests |-> {}]
     /\ leaked' = leaked \cup (dead \cap files)
     /\ UNCHANGED <<taskVars, appVars, input, answer, files, doubt>>

RequestStep(r) ==
  \/ Lock(r)
  \/ Refuse(r)
  \/ SaveSignature(r)
  \/ WriteDecision(r)
  \/ Commit(r)
  \/ Abort(r)
  \/ Cleanup(r)

Next ==
  \/ \E a \in Apps, adv \in Advisors : \E s \in SUBSET NoticesOf[a] : Submit(a, adv, s)
  \/ \E a \in Apps : DeadlinePasses(a)
  \/ \E k \in Keys : Work(k)
  \/ \E r \in Requests, in \in Inputs : Receive(r, in)
  \/ \E r \in Requests : RequestStep(r)
  \/ \E r \in Requests : CommitAnswerLost(r)
  \/ Crash

Spec == Init /\ [][Next]_vars

(* A request that has arrived keeps running; nothing makes one arrive, a   *)
(* worker run, or a fault happen.                                          *)
FairSpec == Spec /\ \A r \in Requests : WF_vars(RequestStep(r))

(***************************************************************************)
(* Properties                                                              *)
(***************************************************************************)

(* What the caller is told is true: "ok" means the decision is committed,  *)
(* and a refusal or an error means it is not, unless the answer to COMMIT  *)
(* was lost.                                                               *)
AnswerTruthful ==
  \A r \in Requests :
    /\ answer[r] = "ok" => \E x \in actions : x.by = r
    /\ answer[r] \in {"refused", "error"} =>
         r \in doubt \/ ~\E x \in actions : x.by = r

(* The rows of a decision agree: an application has at most one review     *)
(* action, made by its own advisor; it is under review exactly when that   *)
(* action approves and one signature of that request stands beside it, and *)
(* rejected exactly when the action rejects, without a signature and with  *)
(* the letter to the applicant.  And the callers know which it is.         *)
DecisionConsistent ==
  /\ AnswerTruthful
  /\ \A a \in Apps :
    LET acts == {x \in actions : x.app = a}
        sigs == {s \in signatures : s.app = a}
    IN /\ \A x, y \in acts : x = y
       /\ \A x \in acts : x.user = advisorOf[a]
       /\ (appStatus[a] = "under_review") <=> (\E x \in acts : x.kind = "approve")
       /\ (appStatus[a] = "rejected") <=> (\E x \in acts : x.kind = "reject")
       /\ \A s \in sigs : \E x \in acts :
             x.kind = "approve" /\ x.by = s.by /\ x.user = s.user
       /\ \A x \in acts : x.kind = "approve" => \E s \in sigs : s.by = x.by
       /\ (appStatus[a] = "rejected") <=> (status[RejectionOf[a]] # "absent")

(* Every committed signature has its file, unless the answer to its COMMIT *)
(* was lost; every file belongs to a committed signature or to a request   *)
(* still running, unless a crash or a failed removal left it.              *)
FilesMatchRows ==
  /\ \A s \in signatures : s.by \in files \cup doubt
  /\ \A r \in files : \/ \E s \in signatures : s.by = r
                      \/ pc[r] \in {"saved", "written", "cleanup"}
                      \/ r \in leaked

(* A request that arrived is answered, or dies with the server. *)
RequestsEnd == \A r \in Requests : pc[r] = "received" ~> pc[r] = "done"

(* The requests implement the one-step decision. *)
Atomic == INSTANCE ApplicationDecision WITH
  actions <- {<<x.app, x.user, x.kind>> : x \in actions},
  signatures <- {<<s.app, s.user>> : s \in signatures}

ImplementsDecision == Atomic!DecisionSpec

(* docs/email-queue.md: once the advisor has decided, the sign request and *)
(* the reminders that have not been sent are cancelled.                    *)
UnsentNoticesCancelled ==
  \A a \in Apps : appStatus[a] \in {"under_review", "rejected"} =>
    \A k \in NoticesOf[a] : status[k] # "pending"
=============================================================================
