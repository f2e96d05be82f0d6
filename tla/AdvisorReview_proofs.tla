------------------------ MODULE AdvisorReview_proofs ------------------------
(***************************************************************************)
(* For any applications, advisors, requests and notices: the inductive     *)
(* invariant of the advisor's review, and that its requests implement the  *)
(* one-step decision.                                                      *)
(*                                                                         *)
(* That the rows of a decision agree is not inductive alone.  A request    *)
(* that commits must find the application as it was when it was locked     *)
(* (Deciding), the request must not have written anything before           *)
(* (Answering), its file must be there (Filing), and the notices it        *)
(* withdraws must still be pending (Withdrawing).                          *)
(***************************************************************************)
EXTENDS AdvisorReview, TLAPS

USE ReviewAssumption, MaxAttemptsAssumption

(* AttemptBudget alone would not survive the COMMIT of a task that had been *)
(* tried before it was there.                                              *)
TaskBudget ==
  /\ AttemptBudget
  /\ \A k \in Keys : status[k] = "absent" => attempts[k] = 0

(* The request that is in its transaction holds the application, and finds *)
(* it as its checks left it.                                               *)
Deciding ==
  \A r \in Requests :
    /\ pc[r] # "ready" => input[r] \in Inputs
    /\ pc[r] \in InTxn => /\ lock[input[r].app] = r
                          /\ appStatus[input[r].app] = "pending_advisor"
                          /\ advisorOf[input[r].app] = input[r].user

(* What a request withdraws is pending until it commits, and what it       *)
(* leaves has been tried before.                                           *)
Withdrawing ==
  \A r \in Requests :
    /\ pc[r] # "written" => withdrawn[r] = {}
    /\ \A k \in withdrawn[r] : k \in NoticesOf[input[r].app] /\ status[k] = "pending"
    /\ pc[r] = "written" =>
         \A k \in NoticesOf[input[r].app] :
           status[k] = "pending" /\ k \notin withdrawn[r] => attempts[k] > 0

(* A request has written a review action only if it has committed. *)
Answering ==
  \A r \in Requests :
    (\E x \in actions : x.by = r) =>
      pc[r] = "done" \/ (pc[r] = "cleanup" /\ r \in doubt)

(* A request has a file from the time it saved it, if it approves. *)
Filing ==
  \A r \in Requests :
    /\ pc[r] = "saved" => input[r].kind = "approve"
    /\ pc[r] \in {"saved", "written"} /\ input[r].kind = "approve" => r \in files
    /\ r \in files => pc[r] \notin {"ready", "received"} /\ input[r].kind = "approve"

IInv ==
  /\ TypeOK
  /\ TaskBudget
  /\ Deciding
  /\ Withdrawing
  /\ Answering
  /\ DecisionConsistent
  /\ Filing
  /\ FilesMatchRows

LEMMA InitInv == Init => IInv
BY DEF Init, TaskInit, IInv, TypeOK, TaskTypeOK, TaskStates, AppStates, InTxn,
       TaskBudget, AttemptBudget, Deciding, Withdrawing, Answering, AnswerTruthful,
       DecisionConsistent, Filing, FilesMatchRows

(***************************************************************************)
(* The tasks                                                               *)
(***************************************************************************)

(* The lifecycle keeps its types and its budget, whoever takes a step. *)
LEMMA WorkKeepsTasks ==
  ASSUME TaskTypeOK, TaskBudget, NEW k \in Keys, WorkOnTask(k)
  PROVE  TaskTypeOK' /\ TaskBudget'
BY DEF WorkOnTask, TakeTask, DeliverTask, FinishTask, RetryTask, FailTask,
       TaskTypeOK, TaskStates, TaskBudget, AttemptBudget

LEMMA CommitKeepsTasks ==
  ASSUME TaskTypeOK, TaskBudget, NEW created \in SUBSET Keys,
         NEW cancelled \in SUBSET Keys, CommitTasks(created, cancelled)
  PROVE  TaskTypeOK' /\ TaskBudget'
<1>1. \A k \in Keys : \/ status'[k] = status[k]
                      \/ status[k] = "absent" /\ status'[k] = "pending"
                      \/ status[k] = "pending" /\ status'[k] = "cancelled"
  BY DEF CommitTasks
<1>2. TaskTypeOK'
  <2>1. \A k \in Keys : status'[k] \in TaskStates
    BY <1>1 DEF TaskTypeOK, TaskStates
  <2>2. status' \in [Keys -> TaskStates]
    BY <2>1 DEF CommitTasks
  <2> QED BY <2>2 DEF TaskTypeOK, CommitTasks
<1>3. TaskBudget'
  <2>1. UNCHANGED <<attempts, deliveries>>
    BY DEF CommitTasks
  <2> QED BY <1>1, <2>1 DEF TaskTypeOK, TaskBudget, AttemptBudget
<1> QED BY <1>2, <1>3

(* What Apply commits are notices of its application and its letter. *)
LEMMA Committed ==
  ASSUME IInv, NEW r \in Requests, pc[r] = "written"
  PROVE  /\ input[r] \in Inputs
         /\ withdrawn[r] \in SUBSET Keys
         /\ (IF input[r].kind = "approve" THEN {} ELSE {RejectionOf[input[r].app]})
              \in SUBSET Keys
BY DEF IInv, TypeOK, Deciding, Inputs

LEMMA ApplyKeepsTypes ==
  ASSUME IInv, NEW r \in Requests, pc[r] = "written", Apply(r)
  PROVE  /\ TaskTypeOK' /\ TaskBudget'
         /\ appStatus' \in [Apps -> AppStates]
         /\ actions' \subseteq [app : Apps, user : Advisors, kind : Kinds, by : Requests]
         /\ signatures' \subseteq [app : Apps, user : Advisors, by : Requests]
         /\ lock' \in [Apps -> Requests \cup {None}]
         /\ withdrawn' \in [Requests -> SUBSET Keys]
         /\ UNCHANGED <<advisorOf, expired>>
<1>1. TaskTypeOK' /\ TaskBudget'
  BY Committed, CommitKeepsTasks DEF IInv, TypeOK, Apply
<1>2. input[r] \in Inputs
  BY Committed
<1> QED BY <1>1, <1>2 DEF IInv, TypeOK, AppStates, Apply, Unlock, Inputs

LEMMA TypeInv ==
  ASSUME IInv, [Next]_vars
  PROVE  TypeOK' /\ TaskBudget'
<1> USE DEF TypeOK, AppStates, InTxn, taskVars, appVars
<1>1. ASSUME NEW a \in Apps, NEW adv \in Advisors, NEW s \in SUBSET NoticesOf[a],
             Submit(a, adv, s)
      PROVE  TypeOK' /\ TaskBudget'
  <2>1. s \in SUBSET Keys /\ {} \in SUBSET Keys
    OBVIOUS
  <2>2. TaskTypeOK' /\ TaskBudget'
    BY <1>1, <2>1, CommitKeepsTasks DEF IInv, Submit
  <2> QED BY <1>1, <2>2 DEF IInv, Submit
<1>2. ASSUME NEW a \in Apps, DeadlinePasses(a)
      PROVE  TypeOK' /\ TaskBudget'
  BY <1>2 DEF IInv, DeadlinePasses, TaskTypeOK, TaskBudget, AttemptBudget
<1>3. ASSUME NEW k \in Keys, Work(k)
      PROVE  TypeOK' /\ TaskBudget'
  <2>1. TaskTypeOK' /\ TaskBudget'
    BY <1>3, WorkKeepsTasks DEF IInv, Work
  <2> QED BY <1>3, <2>1 DEF IInv, Work
<1>4. ASSUME NEW r \in Requests, NEW in \in Inputs, Receive(r, in)
      PROVE  TypeOK' /\ TaskBudget'
  BY <1>4 DEF IInv, Receive, TaskTypeOK, TaskBudget, AttemptBudget
<1>5. ASSUME NEW r \in Requests, RequestStep(r)
      PROVE  TypeOK' /\ TaskBudget'
  <2>1. CASE Lock(r) \/ Refuse(r) \/ SaveSignature(r) \/ WriteDecision(r)
    <3>1. TaskTypeOK' /\ TaskBudget'
      BY <2>1 DEF IInv, Lock, Refuse, SaveSignature, WriteDecision, TaskTypeOK, TaskBudget,
                  AttemptBudget
    <3>2. CASE Lock(r)
      BY <3>1, <3>2 DEF IInv, Lock
    <3>3. CASE Refuse(r) \/ SaveSignature(r)
      BY <3>1, <3>3, SMTT(30) DEF IInv, Refuse, SaveSignature
    <3>4. CASE WriteDecision(r)
      BY <3>1, <3>4 DEF IInv, WriteDecision, Deciding, Inputs
    <3> QED BY <2>1, <3>2, <3>3, <3>4
  <2>2. CASE Commit(r)
    BY <2>2, ApplyKeepsTypes DEF IInv, Commit
  <2>3. CASE Abort(r) \/ Cleanup(r)
    BY <2>3, SMTT(30) DEF IInv, Abort, Unlock, Cleanup, TaskTypeOK, TaskBudget, AttemptBudget
  <2> QED BY <1>5, <2>1, <2>2, <2>3 DEF RequestStep
<1>6. ASSUME NEW r \in Requests, CommitAnswerLost(r)
      PROVE  TypeOK' /\ TaskBudget'
  BY <1>6, ApplyKeepsTypes DEF IInv, CommitAnswerLost
<1>7. CASE Crash
  BY <1>7 DEF IInv, Crash, TaskTypeOK, TaskBudget, AttemptBudget
<1>8. CASE UNCHANGED vars
  BY <1>8 DEF IInv, vars, TaskTypeOK, TaskBudget, AttemptBudget
<1> QED BY <1>1, <1>2, <1>3, <1>4, <1>5, <1>6, <1>7, <1>8 DEF Next

(***************************************************************************)
(* The transactions                                                        *)
(***************************************************************************)

LEMMA CommitChanges ==
  ASSUME NEW created, NEW cancelled, CommitTasks(created, cancelled)
  PROVE  /\ \A k \in Keys :
              status'[k] = IF k \in created THEN "pending"
                           ELSE IF k \in cancelled THEN "cancelled" ELSE status[k]
         /\ \A k \in created : status[k] = "absent"
         /\ \A k \in cancelled : status[k] = "pending"
         /\ UNCHANGED <<attempts, deliveries>>
BY DEF CommitTasks

(* Two requests in their transactions work on different applications. *)
LEMMA Alone ==
  ASSUME IInv, NEW r \in Requests, NEW q \in Requests, r # q,
         pc[r] \in InTxn, pc[q] \in InTxn
  PROVE  input[r].app # input[q].app
BY DEF IInv, Deciding

LEMMA DecidingInv ==
  ASSUME IInv, [Next]_vars
  PROVE  Deciding'
<1> USE DEF InTxn, appVars
<1>1. ASSUME NEW a \in Apps, NEW adv \in Advisors, NEW s \in SUBSET NoticesOf[a],
             Submit(a, adv, s)
      PROVE  Deciding'
  BY <1>1 DEF IInv, TypeOK, Deciding, Submit, Inputs
<1>2. ASSUME \/ \E a \in Apps : DeadlinePasses(a)
             \/ \E k \in Keys : Work(k)
             \/ UNCHANGED vars
      PROVE  Deciding'
  BY <1>2 DEF IInv, Deciding, DeadlinePasses, Work, vars
<1>3. ASSUME NEW r \in Requests, NEW in \in Inputs, Receive(r, in)
      PROVE  Deciding'
  BY <1>3 DEF IInv, TypeOK, Deciding, Receive
<1>4. ASSUME NEW r \in Requests, Lock(r)
      PROVE  Deciding'
  BY <1>4 DEF IInv, TypeOK, Deciding, Lock, Acceptable, Inputs
<1>5. ASSUME NEW r \in Requests, Refuse(r) \/ SaveSignature(r) \/ WriteDecision(r) \/ Cleanup(r)
      PROVE  Deciding'
  BY <1>5 DEF IInv, TypeOK, Deciding, Refuse, SaveSignature, WriteDecision, Cleanup
<1>6. ASSUME NEW r \in Requests, Commit(r) \/ CommitAnswerLost(r)
      PROVE  Deciding'
  <2>1. /\ pc[r] = "written" /\ Apply(r) /\ UNCHANGED input
        /\ pc' = [pc EXCEPT ![r] = "done"] \/ pc' = [pc EXCEPT ![r] = "cleanup"]
    BY <1>6 DEF Commit, CommitAnswerLost
  <2>2. ASSUME NEW q \in Requests, q # r, pc[q] \in InTxn
        PROVE  /\ lock'[input[q].app] = q
               /\ appStatus'[input[q].app] = "pending_advisor"
               /\ advisorOf'[input[q].app] = input[q].user
    BY <2>1, <2>2, Alone DEF IInv, TypeOK, Deciding, Inputs, Apply, Unlock
  <2> QED BY <2>1, <2>2 DEF IInv, TypeOK, Deciding
<1>7. ASSUME NEW r \in Requests, Abort(r)
      PROVE  Deciding'
  BY <1>7 DEF IInv, TypeOK, Deciding, Abort, Unlock, Inputs
<1>8. CASE Crash
  BY <1>8 DEF IInv, TypeOK, Deciding, Crash
<1> QED BY <1>1, <1>2, <1>3, <1>4, <1>5, <1>6, <1>7, <1>8 DEF Next, RequestStep

LEMMA WithdrawingInv ==
  ASSUME IInv, [Next]_vars
  PROVE  Withdrawing'
<1> USE DEF InTxn, appVars, taskVars
<1>1. ASSUME NEW a \in Apps, NEW adv \in Advisors, NEW s \in SUBSET NoticesOf[a],
             Submit(a, adv, s)
      PROVE  Withdrawing'
  <2>1. ASSUME NEW q \in Requests, pc[q] = "written", NEW k \in NoticesOf[input[q].app]
        PROVE  status'[k] = status[k]
    <3>1. input[q].app \in Apps /\ input[q].app # a
      BY <1>1, <2>1 DEF IInv, Deciding, Inputs, Submit
    <3>2. k \in Keys /\ k \notin s
      BY <3>1
    <3> QED BY <1>1, <3>2, CommitChanges DEF Submit
  <2>2. UNCHANGED <<pc, input, withdrawn, attempts>>
    BY <1>1, CommitChanges DEF Submit
  <2> QED BY <2>1, <2>2 DEF IInv, Withdrawing
<1>2. ASSUME NEW k \in Keys, Work(k)
      PROVE  Withdrawing'
  <2>1. \A j \in Keys : /\ j # k => status'[j] = status[j] /\ attempts'[j] = attempts[j]
                        /\ status'[k] = "pending" => status[k] = "pending" \/ attempts'[k] > 0
                        /\ attempts[k] > 0 => attempts'[k] > 0
    BY <1>2 DEF IInv, TypeOK, TaskTypeOK, Work, WorkOnTask, TakeTask, DeliverTask,
                FinishTask, RetryTask, FailTask
  <2>2. \A r \in Requests : k \notin withdrawn[r]
    BY <1>2 DEF Work
  <2>3. \A r \in Requests : pc[r] = "written" => NoticesOf[input[r].app] \subseteq Keys
    BY DEF IInv, Deciding, Inputs
  <2>4. UNCHANGED <<pc, input, withdrawn>>
    BY <1>2 DEF Work
  <2>5. \A r \in Requests : withdrawn[r] \subseteq Keys
    BY DEF IInv, TypeOK
  <2>6. \A j \in Keys :
           status'[j] = "pending" /\ (status[j] = "pending" => attempts[j] > 0) => attempts'[j] > 0
    BY <2>1, <1>2 DEF IInv, TypeOK, TaskTypeOK, Work, WorkOnTask, TakeTask, DeliverTask,
                      FinishTask, RetryTask, FailTask
  <2> QED BY <2>1, <2>2, <2>3, <2>4, <2>5, <2>6 DEF IInv, Withdrawing
<1>3. ASSUME (\E a \in Apps : DeadlinePasses(a)) \/ UNCHANGED vars
      PROVE  Withdrawing'
  BY <1>3 DEF IInv, Withdrawing, DeadlinePasses, vars
<1>4. ASSUME NEW r \in Requests, NEW in \in Inputs, Receive(r, in)
      PROVE  Withdrawing'
  BY <1>4 DEF IInv, TypeOK, Withdrawing, Receive
<1>5. ASSUME NEW r \in Requests, Lock(r) \/ Refuse(r) \/ SaveSignature(r) \/ Cleanup(r)
      PROVE  Withdrawing'
  BY <1>5 DEF IInv, TypeOK, Withdrawing, Lock, Refuse, SaveSignature, Cleanup
<1>6. ASSUME NEW r \in Requests, WriteDecision(r)
      PROVE  Withdrawing'
  BY <1>6 DEF IInv, TypeOK, Withdrawing, WriteDecision
<1>7. ASSUME NEW r \in Requests, Commit(r) \/ CommitAnswerLost(r)
      PROVE  Withdrawing'
  <2>1. /\ pc[r] = "written" /\ Apply(r) /\ UNCHANGED input
        /\ pc' = [pc EXCEPT ![r] = "done"] \/ pc' = [pc EXCEPT ![r] = "cleanup"]
    BY <1>7 DEF Commit, CommitAnswerLost
  <2>2. input[r].app \in Apps /\ withdrawn[r] \subseteq NoticesOf[input[r].app]
    BY <2>1 DEF IInv, Deciding, Withdrawing, Inputs
  <2>3. UNCHANGED attempts
    BY <2>1, CommitChanges DEF Apply
  <2>4. ASSUME NEW q \in Requests, q # r, pc[q] = "written", NEW k \in NoticesOf[input[q].app]
        PROVE  status'[k] = status[k]
    <3>1. input[q].app \in Apps /\ input[q].app # input[r].app
      BY <2>1, <2>4, Alone DEF IInv, Deciding, Inputs
    <3>2. k \in Keys /\ k \notin withdrawn[r] /\ k # RejectionOf[input[r].app]
      BY <2>2, <3>1
    <3> QED BY <2>1, <3>2, CommitChanges DEF Apply
  <2>5. /\ withdrawn'[r] = {} /\ pc'[r] # "written"
        /\ \A q \in Requests : q # r => withdrawn'[q] = withdrawn[q] /\ pc'[q] = pc[q]
    BY <2>1 DEF IInv, TypeOK, Apply, Unlock
  <2>6. ASSUME NEW q \in Requests, q # r
        PROVE  /\ pc[q] # "written" => withdrawn[q] = {}
               /\ \A k \in withdrawn[q] : k \in NoticesOf[input[q].app] /\ status'[k] = "pending"
               /\ pc[q] = "written" =>
                    \A k \in NoticesOf[input[q].app] :
                      status'[k] = "pending" /\ k \notin withdrawn[q] => attempts[k] > 0
    <3>1. CASE pc[q] = "written"
      BY <2>4, <2>6, <3>1 DEF IInv, Withdrawing
    <3>2. CASE pc[q] # "written"
      BY <3>2 DEF IInv, Withdrawing
    <3> QED BY <3>1, <3>2
  <2> QED BY <2>1, <2>3, <2>5, <2>6 DEF Withdrawing
<1>8. ASSUME NEW r \in Requests, Abort(r)
      PROVE  Withdrawing'
  BY <1>8 DEF IInv, TypeOK, Withdrawing, Abort, Unlock
<1>9. CASE Crash
  BY <1>9 DEF IInv, TypeOK, Withdrawing, Crash
<1> QED BY <1>1, <1>2, <1>3, <1>4, <1>5, <1>6, <1>7, <1>8, <1>9 DEF Next, RequestStep

(***************************************************************************)
(* The decisions                                                           *)
(***************************************************************************)

(* A request that commits finds its application as it locked it, nobody's  *)
(* decision on it, and nothing of its own.                                 *)
LEMMA Applying ==
  ASSUME IInv, NEW r \in Requests, Commit(r) \/ CommitAnswerLost(r)
  PROVE  /\ Apply(r)
         /\ pc[r] = "written"
         /\ input[r] \in Inputs
         /\ appStatus[input[r].app] = "pending_advisor"
         /\ advisorOf[input[r].app] = input[r].user
         /\ ~\E x \in actions : x.app = input[r].app
         /\ ~\E s \in signatures : s.app = input[r].app
         /\ ~\E x \in actions : x.by = r
         /\ UNCHANGED <<input, files, leaked, advisorOf>>
<1>1. pc[r] = "written" /\ Apply(r) /\ UNCHANGED <<input, files, leaked, advisorOf>>
  BY DEF Commit, CommitAnswerLost, Apply
<1>2. /\ input[r] \in Inputs
      /\ appStatus[input[r].app] = "pending_advisor"
      /\ advisorOf[input[r].app] = input[r].user
  BY <1>1 DEF IInv, Deciding, InTxn
<1>3. input[r].app \in Apps
  BY <1>2 DEF Inputs
<1>4. ~\E x \in actions : x.app = input[r].app
  BY <1>2, <1>3 DEF IInv, TypeOK, DecisionConsistent, Kinds
<1>5. ~\E s \in signatures : s.app = input[r].app
  BY <1>3, <1>4 DEF IInv, DecisionConsistent
<1>6. ~\E x \in actions : x.by = r
  BY <1>1 DEF IInv, Answering
<1> QED BY <1>1, <1>2, <1>4, <1>5, <1>6

LEMMA AnsweringInv ==
  ASSUME IInv, [Next]_vars
  PROVE  Answering'
<1> USE DEF appVars
<1>1. ASSUME UNCHANGED <<actions, pc, doubt>>
      PROVE  Answering'
  BY <1>1 DEF IInv, Answering
<1>2. ASSUME NEW r \in Requests, NEW in \in Inputs, Receive(r, in)
      PROVE  Answering'
  BY <1>2 DEF IInv, TypeOK, Answering, Receive
<1>3. ASSUME NEW r \in Requests,
             Lock(r) \/ Refuse(r) \/ SaveSignature(r) \/ WriteDecision(r)
      PROVE  Answering'
  BY <1>3 DEF IInv, TypeOK, Answering, Lock, Refuse, SaveSignature, WriteDecision
<1>4. ASSUME NEW r \in Requests, Commit(r) \/ CommitAnswerLost(r)
      PROVE  Answering'
  <2>1. \A x \in actions' : x \in actions \/ x.by = r
    <3>1. Apply(r)
      BY <1>4, Applying
    <3> QED BY <3>1 DEF Apply
  <2>2. pc'[r] = "done" \/ (pc'[r] = "cleanup" /\ r \in doubt')
    BY <1>4 DEF IInv, TypeOK, Commit, CommitAnswerLost
  <2>3. \A q \in Requests : q # r => pc'[q] = pc[q]
    BY <1>4 DEF IInv, TypeOK, Commit, CommitAnswerLost
  <2>4. doubt \subseteq doubt'
    BY <1>4 DEF Commit, CommitAnswerLost
  <2> QED BY <2>1, <2>2, <2>3, <2>4 DEF IInv, Answering
<1>5. ASSUME NEW r \in Requests, Abort(r) \/ Cleanup(r)
      PROVE  Answering'
  BY <1>5 DEF IInv, TypeOK, Answering, Abort, Cleanup, InTxn
<1>6. CASE Crash
  BY <1>6 DEF IInv, TypeOK, Answering, Crash
<1>7. CASE \/ \E a \in Apps, adv \in Advisors : \E s \in SUBSET NoticesOf[a] : Submit(a, adv, s)
           \/ \E a \in Apps : DeadlinePasses(a)
           \/ \E k \in Keys : Work(k)
           \/ UNCHANGED vars
  BY <1>1, <1>7 DEF Submit, DeadlinePasses, Work, vars
<1> QED BY <1>2, <1>3, <1>4, <1>5, <1>6, <1>7 DEF Next, RequestStep

(* A step that leaves the decisions and the letters alone, and answers     *)
(* nobody wrongly.                                                         *)
LEMMA DecisionsUntouched ==
  ASSUME IInv, AnswerTruthful',
         UNCHANGED <<appStatus, advisorOf, actions, signatures>>,
         \A a \in Apps : status'[RejectionOf[a]] = "absent" <=> status[RejectionOf[a]] = "absent"
  PROVE  DecisionConsistent'
BY DEF IInv, DecisionConsistent

LEMMA ConsistentInv ==
  ASSUME IInv, [Next]_vars
  PROVE  DecisionConsistent'
<1> USE DEF appVars, taskVars
<1>1. ASSUME NEW a \in Apps, NEW adv \in Advisors, NEW s \in SUBSET NoticesOf[a],
             Submit(a, adv, s)
      PROVE  DecisionConsistent'
  <2>1. \A b \in Apps : RejectionOf[b] \in Keys /\ RejectionOf[b] \notin s
    OBVIOUS
  <2>2. \A b \in Apps : status'[RejectionOf[b]] = status[RejectionOf[b]]
    BY <1>1, <2>1, CommitChanges DEF Submit
  <2>3. AnswerTruthful'
    BY <1>1 DEF IInv, DecisionConsistent, AnswerTruthful, Submit
  <2>4. /\ \A b \in Apps : b # a => appStatus'[b] = appStatus[b] /\ advisorOf'[b] = advisorOf[b]
        /\ appStatus[a] = "absent" /\ appStatus'[a] = "pending_advisor"
        /\ UNCHANGED <<actions, signatures>>
    BY <1>1 DEF IInv, TypeOK, Submit
  <2>5. ~\E x \in actions : x.app = a
    BY <2>4 DEF IInv, TypeOK, DecisionConsistent, Kinds
  <2> QED BY <2>2, <2>3, <2>4, <2>5 DEF IInv, DecisionConsistent
<1>2. ASSUME NEW k \in Keys, Work(k)
      PROVE  DecisionConsistent'
  <2>1. \A j \in Keys : status'[j] = "absent" <=> status[j] = "absent"
    BY <1>2 DEF IInv, TypeOK, TaskTypeOK, Work, WorkOnTask, TakeTask, DeliverTask,
                FinishTask, RetryTask, FailTask
  <2>2. AnswerTruthful'
    BY <1>2 DEF IInv, DecisionConsistent, AnswerTruthful, Work
  <2>3. \A b \in Apps : RejectionOf[b] \in Keys
    OBVIOUS
  <2> QED BY <1>2, <2>1, <2>2, <2>3, DecisionsUntouched DEF Work
<1>3. ASSUME UNCHANGED <<appStatus, advisorOf, actions, signatures, status, answer, doubt>>
      PROVE  DecisionConsistent'
  BY <1>3, DecisionsUntouched DEF IInv, DecisionConsistent, AnswerTruthful
<1>4. ASSUME NEW r \in Requests, Refuse(r)
      PROVE  DecisionConsistent'
  <2>1. ~\E x \in actions : x.by = r
    BY <1>4 DEF IInv, Answering, Refuse
  <2>2. AnswerTruthful'
    BY <1>4, <2>1 DEF IInv, TypeOK, DecisionConsistent, AnswerTruthful, Refuse
  <2> QED BY <1>4, <2>2, DecisionsUntouched DEF Refuse
<1>5. ASSUME NEW r \in Requests, Cleanup(r)
      PROVE  DecisionConsistent'
  <2>1. r \in doubt \/ ~\E x \in actions : x.by = r
    BY <1>5 DEF IInv, Answering, Cleanup
  <2>2. AnswerTruthful'
    BY <1>5, <2>1 DEF IInv, TypeOK, DecisionConsistent, AnswerTruthful, Cleanup
  <2> QED BY <1>5, <2>2, DecisionsUntouched DEF Cleanup
<1>6. ASSUME NEW r \in Requests, Commit(r) \/ CommitAnswerLost(r)
      PROVE  DecisionConsistent'
  <2> DEFINE a == input[r].app
             x == [app |-> a, user |-> input[r].user, kind |-> input[r].kind, by |-> r]
             s == [app |-> a, user |-> input[r].user, by |-> r]
  <2>1. /\ a \in Apps /\ input[r].kind \in Kinds /\ advisorOf[a] = input[r].user
        /\ appStatus[a] = "pending_advisor"
        /\ ~\E y \in actions : y.app = a
        /\ ~\E y \in signatures : y.app = a
        /\ UNCHANGED advisorOf
    BY <1>6, Applying DEF Inputs
  <2>2. /\ actions' = actions \cup {x}
        /\ signatures' = IF input[r].kind = "approve" THEN signatures \cup {s} ELSE signatures
        /\ appStatus'[a] = IF input[r].kind = "approve" THEN "under_review" ELSE "rejected"
        /\ \A b \in Apps : b # a => appStatus'[b] = appStatus[b]
    <3>1. Apply(r)
      BY <1>6, Applying
    <3> QED BY <2>1, <3>1 DEF IInv, TypeOK, Apply
  <2>3. /\ \A b \in Apps : b # a => status'[RejectionOf[b]] = status[RejectionOf[b]]
        /\ status'[RejectionOf[a]] # "absent" <=> input[r].kind = "reject"
    <3>1. \A b \in Apps : RejectionOf[b] \in Keys /\ RejectionOf[b] \notin withdrawn[r]
      BY <2>1, <1>6, Applying DEF IInv, Withdrawing
    <3>2. status[RejectionOf[a]] = "absent"
      BY <2>1 DEF IInv, DecisionConsistent
    <3>3. CommitTasks(IF input[r].kind = "approve" THEN {} ELSE {RejectionOf[a]}, withdrawn[r])
      BY <1>6, Applying DEF Apply
    <3> HIDE DEF a, x, s
    <3>4. \A b \in Apps : b # a => RejectionOf[b] # RejectionOf[a]
      BY <2>1
    <3>5. \A k \in Keys :
             status'[k] = IF k \in (IF input[r].kind = "approve" THEN {} ELSE {RejectionOf[a]})
                          THEN "pending"
                          ELSE IF k \in withdrawn[r] THEN "cancelled" ELSE status[k]
      BY <3>3, CommitChanges
    <3> QED BY <2>1, <3>1, <3>2, <3>4, <3>5 DEF Kinds
  <2>4. AnswerTruthful'
    <3>1. \A q \in Requests : q # r => answer'[q] = answer[q]
      BY <1>6 DEF IInv, TypeOK, Commit, CommitAnswerLost
    <3>2. /\ r \in Requests /\ answer'[r] \in {"ok", answer[r]}
          /\ answer'[r] \in {"refused", "error"} => r \in doubt'
          /\ doubt \subseteq doubt'
      BY <1>6 DEF IInv, TypeOK, Commit, CommitAnswerLost
    <3>3. \A y \in actions' : y \in actions \/ y.by = r
      BY <2>2
    <3>4. x \in actions' /\ x.by = r
      BY <2>2
    <3>5. actions \subseteq actions'
      BY <2>2
    <3> QED BY <3>1, <3>2, <3>3, <3>4, <3>5 DEF IInv, DecisionConsistent, AnswerTruthful
  <2>5. ASSUME NEW b \in Apps, b # a
        PROVE  /\ {y \in actions' : y.app = b} = {y \in actions : y.app = b}
               /\ {y \in signatures' : y.app = b} = {y \in signatures : y.app = b}
    BY <2>2, <2>5
  <2>6. /\ {y \in actions' : y.app = a} = {x}
        /\ {y \in signatures' : y.app = a} = IF input[r].kind = "approve" THEN {s} ELSE {}
    BY <2>1, <2>2
  <2> DEFINE Agree(b, acts, sigs) ==
        /\ \A y, z \in acts : y = z
        /\ \A y \in acts : y.user = advisorOf[b]
        /\ appStatus'[b] = "under_review" <=> \E y \in acts : y.kind = "approve"
        /\ appStatus'[b] = "rejected" <=> \E y \in acts : y.kind = "reject"
        /\ \A z \in sigs : \E y \in acts : y.kind = "approve" /\ y.by = z.by /\ y.user = z.user
        /\ \A y \in acts : y.kind = "approve" => \E z \in sigs : z.by = y.by
        /\ appStatus'[b] = "rejected" <=> status'[RejectionOf[b]] # "absent"
  <2>7. Agree(a, {x}, IF input[r].kind = "approve" THEN {s} ELSE {})
    <3>1. /\ x.user = input[r].user /\ x.kind = input[r].kind /\ x.by = r
          /\ s.user = input[r].user /\ s.by = r
      OBVIOUS
    <3> HIDE DEF a, x, s
    <3>2. CASE input[r].kind = "approve"
      BY <2>1, <2>2, <2>3, <3>1, <3>2
    <3>3. CASE input[r].kind = "reject"
      BY <2>1, <2>2, <2>3, <3>1, <3>3
    <3> QED BY <2>1, <3>2, <3>3 DEF Kinds
  <2>8. ASSUME NEW b \in Apps, b # a
        PROVE  Agree(b, {y \in actions : y.app = b}, {y \in signatures : y.app = b})
    <3> HIDE DEF a, x, s
    <3> QED BY <2>2, <2>3, <2>8 DEF IInv, DecisionConsistent
  <2>9. \A b \in Apps : Agree(b, {y \in actions' : y.app = b}, {y \in signatures' : y.app = b})
    <3> SUFFICES ASSUME NEW b \in Apps
                 PROVE  Agree(b, {y \in actions' : y.app = b}, {y \in signatures' : y.app = b})
      OBVIOUS
    <3> HIDE DEF a, x, s, Agree
    <3>1. CASE b = a
      <4>1. /\ {y \in actions' : y.app = b} = {x}
            /\ {y \in signatures' : y.app = b} = IF input[r].kind = "approve" THEN {s} ELSE {}
        BY <2>6, <3>1
      <4> QED BY ONLY <2>7, <3>1, <4>1
    <3>2. CASE b # a
      BY <2>5, <2>8, <3>2
    <3> QED BY <3>1, <3>2
  <2> QED BY <2>1, <2>4, <2>9 DEF DecisionConsistent
<1>7. ASSUME NEW r \in Requests, Lock(r) \/ SaveSignature(r) \/ WriteDecision(r) \/ Abort(r)
      PROVE  DecisionConsistent'
  BY <1>3, <1>7 DEF Lock, SaveSignature, WriteDecision, Abort
<1>8. CASE \/ \E a \in Apps : DeadlinePasses(a)
           \/ \E r \in Requests, in \in Inputs : Receive(r, in)
           \/ Crash
           \/ UNCHANGED vars
  BY <1>3, <1>8 DEF DeadlinePasses, Receive, Crash, vars
<1> QED BY <1>1, <1>2, <1>4, <1>5, <1>6, <1>7, <1>8 DEF Next, RequestStep

(***************************************************************************)
(* The signature files                                                     *)
(***************************************************************************)

LEMMA FilingInv ==
  ASSUME IInv, [Next]_vars
  PROVE  Filing'
<1> USE DEF appVars
<1>1. ASSUME UNCHANGED <<pc, input, files>>
      PROVE  Filing'
  BY <1>1 DEF IInv, Filing
<1>2. ASSUME NEW r \in Requests, NEW in \in Inputs, Receive(r, in)
      PROVE  Filing'
  BY <1>2 DEF IInv, TypeOK, Filing, Receive
<1>3. ASSUME NEW r \in Requests,
             Lock(r) \/ Refuse(r) \/ SaveSignature(r) \/ WriteDecision(r)
      PROVE  Filing'
  BY <1>3 DEF IInv, TypeOK, Filing, Lock, Refuse, SaveSignature, WriteDecision
<1>4. ASSUME NEW r \in Requests, Commit(r) \/ CommitAnswerLost(r)
      PROVE  Filing'
  BY <1>4 DEF IInv, TypeOK, Filing, Commit, CommitAnswerLost
<1>5. ASSUME NEW r \in Requests, Abort(r) \/ Cleanup(r)
      PROVE  Filing'
  BY <1>5 DEF IInv, TypeOK, Filing, Abort, Cleanup, InTxn
<1>6. CASE Crash
  BY <1>6 DEF IInv, TypeOK, Filing, Crash, InTxn
<1>7. CASE \/ \E a \in Apps, adv \in Advisors : \E s \in SUBSET NoticesOf[a] : Submit(a, adv, s)
           \/ \E a \in Apps : DeadlinePasses(a)
           \/ \E k \in Keys : Work(k)
           \/ UNCHANGED vars
  BY <1>1, <1>7 DEF Submit, DeadlinePasses, Work, vars
<1> QED BY <1>2, <1>3, <1>4, <1>5, <1>6, <1>7 DEF Next, RequestStep

LEMMA FilesInv ==
  ASSUME IInv, [Next]_vars
  PROVE  FilesMatchRows'
<1> USE DEF appVars
<1>1. ASSUME UNCHANGED <<signatures, files, doubt, pc, leaked>>
      PROVE  FilesMatchRows'
  BY <1>1 DEF IInv, FilesMatchRows
<1>2. ASSUME NEW r \in Requests, NEW in \in Inputs, Receive(r, in)
      PROVE  FilesMatchRows'
  BY <1>2 DEF IInv, TypeOK, FilesMatchRows, Receive
<1>3. ASSUME NEW r \in Requests,
             Lock(r) \/ Refuse(r) \/ SaveSignature(r) \/ WriteDecision(r)
      PROVE  FilesMatchRows'
  BY <1>3 DEF IInv, TypeOK, Filing, FilesMatchRows, Lock, Refuse, SaveSignature, WriteDecision
<1>4. ASSUME NEW r \in Requests, Commit(r) \/ CommitAnswerLost(r)
      PROVE  FilesMatchRows'
  <2>1. pc[r] = "written" /\ UNCHANGED <<files, leaked>>
    BY <1>4, Applying
  <2>2. r \in files <=> input[r].kind = "approve"
    BY <2>1 DEF IInv, Filing
  <2>3. /\ \A s \in signatures' : s \in signatures \/ (s.by = r /\ input[r].kind = "approve")
        /\ signatures \subseteq signatures'
        /\ input[r].kind = "approve" => \E s \in signatures' : s.by = r
    <3> DEFINE t == [app |-> input[r].app, user |-> input[r].user, by |-> r]
    <3>1. signatures' = IF input[r].kind = "approve" THEN signatures \cup {t} ELSE signatures
      BY <1>4, Applying DEF Apply
    <3>2. t.by = r
      OBVIOUS
    <3> HIDE DEF t
    <3> QED BY <3>1, <3>2
  <2>4. doubt \subseteq doubt' /\ \A q \in Requests : q # r => pc'[q] = pc[q]
    BY <1>4 DEF IInv, TypeOK, Commit, CommitAnswerLost
  <2>5. files \subseteq Requests
    BY DEF IInv, TypeOK
  <2> QED BY <2>1, <2>2, <2>3, <2>4, <2>5 DEF IInv, FilesMatchRows
<1>5. ASSUME NEW r \in Requests, Abort(r)
      PROVE  FilesMatchRows'
  BY <1>5 DEF IInv, TypeOK, Filing, FilesMatchRows, Abort, InTxn
<1>6. ASSUME NEW r \in Requests, Cleanup(r)
      PROVE  FilesMatchRows'
  <2>1. ASSUME NEW s \in signatures, s.by = r
        PROVE  r \in doubt
    <3>1. s.app \in Apps
      BY DEF IInv, TypeOK
    <3>2. \E x \in actions : x.by = r
      BY <2>1, <3>1 DEF IInv, DecisionConsistent
    <3> QED BY <1>6, <3>2 DEF IInv, Answering, Cleanup
  <2> QED BY <1>6, <2>1 DEF IInv, TypeOK, FilesMatchRows, Cleanup
<1>7. CASE Crash
  BY <1>7 DEF IInv, TypeOK, FilesMatchRows, Crash, InTxn
<1>8. CASE \/ \E a \in Apps, adv \in Advisors : \E s \in SUBSET NoticesOf[a] : Submit(a, adv, s)
           \/ \E a \in Apps : DeadlinePasses(a)
           \/ \E k \in Keys : Work(k)
           \/ UNCHANGED vars
  BY <1>1, <1>8 DEF Submit, DeadlinePasses, Work, vars
<1> QED BY <1>2, <1>3, <1>4, <1>5, <1>6, <1>7, <1>8 DEF Next, RequestStep

(***************************************************************************)
(* The theorems                                                            *)
(***************************************************************************)

(* The inductive invariant holds of every run of the review requests.      *)
THEOREM ReviewInvariant == Spec => []IInv
<1>1. Init => IInv
  BY InitInv
<1>2. IInv /\ [Next]_vars => IInv'
  BY TypeInv, DecidingInv, WithdrawingInv, AnsweringInv, ConsistentInv, FilingInv,
     FilesInv DEF IInv
<1> QED BY <1>1, <1>2, PTL DEF Spec

(* Every variable of a review keeps its type, whatever requests, workers   *)
(* and failures do.                                                        *)
THEOREM ReviewTypes == Spec => []TypeOK
<1>1. IInv => TypeOK
  BY DEF IInv
<1> QED BY <1>1, ReviewInvariant, PTL

(* An application is decided at most once and by its own advisor, its      *)
(* status, review action, signature and letter agree, and the callers are  *)
(* told the truth (approveApplication, rejectApplication).                 *)
THEOREM ReviewIsConsistent == Spec => []DecisionConsistent
<1>1. IInv => DecisionConsistent
  BY DEF IInv
<1> QED BY <1>1, ReviewInvariant, PTL

(* A signature has its file and a file its signature, up to the faults     *)
(* that are counted (the catch block of approveApplication).               *)
THEOREM ReviewFilesMatchRows == Spec => []FilesMatchRows
<1>1. IInv => FilesMatchRows
  BY DEF IInv
<1> QED BY <1>1, ReviewInvariant, PTL

(***************************************************************************)
(* Refinement                                                              *)
(***************************************************************************)

LEMMA InitRefines == Init => Atomic!DecisionInit
<1> SUFFICES ASSUME Init
             PROVE  Atomic!DecisionInit
  OBVIOUS
<1>1. Atomic!TaskInit
  BY DEF Init, TaskInit, Atomic!TaskInit
<1>2. /\ {<<x.app, x.user, x.kind>> : x \in actions} = {}
      /\ {<<s.app, s.user>> : s \in signatures} = {}
  BY DEF Init
<1> QED BY <1>1, <1>2 DEF Init, Atomic!DecisionInit

(* A COMMIT is the decision: what the request withdrew is every pending    *)
(* notice except those that came back while it held its transaction open.  *)
LEMMA CommitRefines ==
  ASSUME IInv, NEW r \in Requests, Commit(r) \/ CommitAnswerLost(r)
  PROVE  \E a \in Apps, kind \in {"approve", "reject"} :
           \E returned \in SUBSET NoticesOf[a] : Atomic!Decide(a, kind, returned)
<1> DEFINE a == input[r].app
           kind == input[r].kind
           returned == {k \in NoticesOf[a] : status[k] = "pending" /\ k \notin withdrawn[r]}
           x == [app |-> a, user |-> input[r].user, kind |-> kind, by |-> r]
           s == [app |-> a, user |-> input[r].user, by |-> r]
<1>1. /\ a \in Apps /\ kind \in Kinds
      /\ appStatus[a] = "pending_advisor" /\ advisorOf[a] = input[r].user
      /\ pc[r] = "written" /\ Apply(r)
  BY Applying DEF Inputs
<1>2. \A k \in returned : attempts[k] > 0
  BY <1>1 DEF IInv, Withdrawing
<1>3. {k \in NoticesOf[a] \ returned : status[k] = "pending"} = withdrawn[r]
  BY <1>1 DEF IInv, Withdrawing
<1>4. /\ appStatus' = [appStatus EXCEPT ![a] =
                         IF kind = "approve" THEN "under_review" ELSE "rejected"]
      /\ actions' = actions \cup {x}
      /\ signatures' = IF kind = "approve" THEN signatures \cup {s} ELSE signatures
      /\ CommitTasks(IF kind = "approve" THEN {} ELSE {RejectionOf[a]}, withdrawn[r])
      /\ UNCHANGED advisorOf
  BY <1>1 DEF Apply
<1>5. /\ x.app = a /\ x.user = advisorOf[a] /\ x.kind = kind
      /\ s.app = a /\ s.user = advisorOf[a]
  BY <1>1
<1>6. returned \in SUBSET NoticesOf[a]
  OBVIOUS
<1> HIDE DEF a, kind, returned, x, s
<1>7. {<<y.app, y.user, y.kind>> : y \in actions'}
        = {<<y.app, y.user, y.kind>> : y \in actions} \cup {<<a, advisorOf[a], kind>>}
  BY <1>4, <1>5
<1>8. kind = "approve" =>
        {<<y.app, y.user>> : y \in signatures'}
          = {<<y.app, y.user>> : y \in signatures} \cup {<<a, advisorOf[a]>>}
  BY <1>4, <1>5
<1>9. kind = "reject" => UNCHANGED signatures
  BY <1>4
<1>10. Atomic!CommitTasks(IF kind = "reject" THEN {RejectionOf[a]} ELSE {},
                          {k \in NoticesOf[a] \ returned : status[k] = "pending"})
  <2>1. (IF kind = "approve" THEN {} ELSE {RejectionOf[a]})
          = (IF kind = "reject" THEN {RejectionOf[a]} ELSE {})
    BY <1>1 DEF Kinds
  <2> QED BY <1>3, <1>4, <2>1 DEF CommitTasks, Atomic!CommitTasks
<1>11. ASSUME NEW b, NEW k, NEW ret, b = a, k = kind, ret = returned
       PROVE  Atomic!Decide(b, k, ret)
  <2>1. Atomic!CommitTasks(IF k = "reject" THEN {RejectionOf[b]} ELSE {},
                           {n \in NoticesOf[b] \ ret : status[n] = "pending"})
    BY <1>10, <1>11 DEF Atomic!CommitTasks
  <2>2. CASE k = "approve"
    BY <1>1, <1>2, <1>4, <1>7, <1>8, <1>11, <2>1, <2>2 DEF Atomic!Decide
  <2>3. CASE k = "reject"
    BY <1>1, <1>2, <1>4, <1>7, <1>9, <1>11, <2>1, <2>3 DEF Atomic!Decide
  <2> QED BY <1>1, <1>11, <2>2, <2>3 DEF Kinds
<1>12. \A b \in Apps, k \in {"approve", "reject"} : \A ret \in SUBSET NoticesOf[b] :
          b = a /\ k = kind /\ ret = returned => Atomic!Decide(b, k, ret)
  BY <1>11
<1>13. a \in Apps /\ kind \in {"approve", "reject"}
  BY <1>1 DEF Kinds
<1>14. \E b \in Apps, k \in {"approve", "reject"} : \E ret \in SUBSET NoticesOf[b] :
          b = a /\ k = kind /\ ret = returned
  BY <1>6, <1>13
<1> QED BY <1>12, <1>14

LEMMA StepRefines ==
  ASSUME IInv, [Next]_vars
  PROVE  [Atomic!DecisionNext]_(Atomic!decisionVars)
<1> USE DEF appVars
<1>1. ASSUME NEW a \in Apps, NEW adv \in Advisors, NEW s \in SUBSET NoticesOf[a],
             Submit(a, adv, s)
      PROVE  Atomic!DecisionNext
  <2>1. Atomic!CommitTasks(s, {})
    BY <1>1 DEF Submit, CommitTasks, Atomic!CommitTasks
  <2>2. Atomic!Submit(a, adv, s)
    BY <1>1, <2>1 DEF Submit, Atomic!Submit
  <2> QED BY <2>2 DEF Atomic!DecisionNext
<1>2. ASSUME NEW k \in Keys, Work(k)
      PROVE  Atomic!DecisionNext
  <2>1. Atomic!WorkOnTask(k)
    BY <1>2 DEF Work, WorkOnTask, TakeTask, DeliverTask, FinishTask, RetryTask, FailTask,
                Atomic!WorkOnTask, Atomic!TakeTask, Atomic!DeliverTask, Atomic!FinishTask,
                Atomic!RetryTask, Atomic!FailTask
  <2>2. Atomic!Work(k)
    BY <1>2, <2>1 DEF Work, Atomic!Work
  <2> QED BY <2>2 DEF Atomic!DecisionNext
<1>3. ASSUME NEW r \in Requests, Commit(r) \/ CommitAnswerLost(r)
      PROVE  Atomic!DecisionNext
  BY <1>3, CommitRefines DEF Atomic!DecisionNext
<1>4. ASSUME UNCHANGED <<appStatus, advisorOf, actions, signatures, taskVars>>
      PROVE  UNCHANGED Atomic!decisionVars
  BY <1>4 DEF taskVars, Atomic!decisionVars, Atomic!taskVars
<1>5. ASSUME NEW r \in Requests,
             \/ Lock(r) \/ Refuse(r) \/ SaveSignature(r) \/ WriteDecision(r)
             \/ Abort(r) \/ Cleanup(r)
      PROVE  UNCHANGED Atomic!decisionVars
  BY <1>4, <1>5 DEF Lock, Refuse, SaveSignature, WriteDecision, Abort, Cleanup
<1>6. CASE \/ \E a \in Apps : DeadlinePasses(a)
           \/ \E r \in Requests, in \in Inputs : Receive(r, in)
           \/ Crash
           \/ UNCHANGED vars
  BY <1>4, <1>6 DEF DeadlinePasses, Receive, Crash, vars
<1> QED BY <1>1, <1>2, <1>3, <1>5, <1>6 DEF Next, RequestStep

(* The review requests, with their locks, files and failures, implement    *)
(* the one-step decision of ApplicationDecision.                           *)
THEOREM ReviewImplementsDecision == Spec => ImplementsDecision
<1>1. Init => Atomic!DecisionInit
  BY InitRefines
<1>2. IInv /\ [Next]_vars => [Atomic!DecisionNext]_(Atomic!decisionVars)
  BY StepRefines
<1> QED BY <1>1, <1>2, ReviewInvariant, PTL
        DEF Spec, ImplementsDecision, Atomic!DecisionSpec

(* What is decided stays as it was decided: no request, lost answer or     *)
(* crash changes the status, a review action or a signature of an          *)
(* application that was approved or rejected (the checks under the row     *)
(* lock in approveApplication and rejectApplication).                      *)
DecidedStays ==
  [][\A a \in Apps : appStatus[a] \in {"under_review", "rejected"} =>
       /\ UNCHANGED <<appStatus[a], advisorOf[a]>>
       /\ \A x \in (actions \cup actions') : x.app = a => x \in actions /\ x \in actions'
       /\ \A x \in (signatures \cup signatures') : x.app = a => x \in signatures /\ x \in signatures']_vars

THEOREM DecisionsStand == Spec => DecidedStays
<1> USE DEF appVars, taskVars
<1> DEFINE Decided(a) == appStatus[a] \in {"under_review", "rejected"}
           Same(S, T, a) == \A x \in (S \cup T) : x.app = a => x \in S /\ x \in T
           Stays(a) == /\ UNCHANGED <<appStatus[a], advisorOf[a]>>
                       /\ Same(actions, actions', a)
                       /\ Same(signatures, signatures', a)
<1>1. ASSUME NEW a \in Apps, UNCHANGED appVars PROVE Stays(a)
  BY <1>1
<1>2. ASSUME IInv, NEW r \in Requests, Commit(r) \/ CommitAnswerLost(r), NEW a \in Apps, Decided(a)
      PROVE  Stays(a)
  <2>1. Apply(r) /\ pc[r] \in InTxn
    BY <1>2 DEF Commit, CommitAnswerLost, InTxn
  <2>2. input[r].app # a
    BY <1>2, <2>1 DEF IInv, Deciding
  <2> QED BY <1>2, <2>1, <2>2 DEF Apply, IInv, TypeOK
<1>3. ASSUME IInv, NEW b \in Apps, NEW adv \in Advisors, NEW s \in SUBSET NoticesOf[b],
             Submit(b, adv, s), NEW a \in Apps, Decided(a)
      PROVE  Stays(a)
  BY <1>3 DEF Submit, IInv, TypeOK
<1>4. ASSUME IInv, [Next]_vars, NEW a \in Apps, Decided(a)
      PROVE  Stays(a)
  <2>1. ASSUME \/ \E b \in Apps : DeadlinePasses(b)
               \/ \E k \in Keys : Work(k)
               \/ \E r \in Requests, in \in Inputs : Receive(r, in)
               \/ \E r \in Requests : RequestStep(r) /\ ~Commit(r)
               \/ Crash
               \/ UNCHANGED vars
        PROVE  UNCHANGED <<appStatus, advisorOf, actions, signatures>>
    BY <2>1 DEF DeadlinePasses, Work, Receive, RequestStep, Lock, Refuse, SaveSignature,
                WriteDecision, Abort, Cleanup, Crash, vars
  <2> QED BY <1>2, <1>3, <1>4, <2>1 DEF Next
<1>5. IInv /\ [Next]_vars =>
        [\A a \in Apps : Decided(a) => Stays(a)]_vars
  BY <1>4
<1> QED BY <1>5, ReviewInvariant, PTL DEF Spec, DecidedStays
=============================================================================
