------------------------ MODULE ApplicationDecision ------------------------
(***************************************************************************)
(* What the advisor's review promises: an application waits for its        *)
(* advisor, who decides it once, and everything the decision stands for -  *)
(* the new status, the review action, the signature, the withdrawn         *)
(* notifications and the letter to the applicant - appears in one step.    *)
(* AdvisorReview, with its requests, locks and files, refines this.        *)
(***************************************************************************)
EXTENDS EmailTaskLifecycle

CONSTANTS Apps,         \* applications, each with its only version
          Advisors,     \* users who are advisors
          NoticesOf,    \* event keys of an application's sign request and reminders
          RejectionOf,  \* event key of an application's rejection letter
          None

VARIABLES appStatus,    \* point_applications.status
          advisorOf,    \* the user behind point_applications.advisor_id
          actions,      \* application_review_actions: <<application, actor, type>>
          signatures    \* advisor_signatures: <<application, advisor>>

decisionVars == <<appStatus, advisorOf, actions, signatures, taskVars>>

AppStates == {"absent", "pending_advisor", "under_review", "rejected"}

DecisionInit ==
  /\ TaskInit
  /\ appStatus = [a \in Apps |-> "absent"]
  /\ advisorOf = [a \in Apps |-> None]
  /\ actions = {}
  /\ signatures = {}

(* A submission commits with its sign request and the reminders whose time *)
(* is still ahead.                                                         *)
Submit(a, adv, notices) ==
  /\ appStatus[a] = "absent"
  /\ appStatus' = [appStatus EXCEPT ![a] = "pending_advisor"]
  /\ advisorOf' = [advisorOf EXCEPT ![a] = adv]
  /\ notices # {} /\ notices \subseteq NoticesOf[a]
  /\ CommitTasks(notices, {})
  /\ UNCHANGED <<actions, signatures>>

(* The advisor approves or rejects: the notices are withdrawn, except some *)
(* that were being sent when the decision was written and failed before it *)
(* was committed.                                                          *)
Decide(a, kind, returned) ==
  /\ appStatus[a] = "pending_advisor"
  /\ actions' = actions \cup {<<a, advisorOf[a], kind>>}
  /\ \A k \in returned : attempts[k] > 0
  /\ CommitTasks(IF kind = "reject" THEN {RejectionOf[a]} ELSE {},
                 {k \in NoticesOf[a] \ returned : status[k] = "pending"})
  /\ \/ /\ kind = "approve"
        /\ appStatus' = [appStatus EXCEPT ![a] = "under_review"]
        /\ signatures' = signatures \cup {<<a, advisorOf[a]>>}
     \/ /\ kind = "reject"
        /\ appStatus' = [appStatus EXCEPT ![a] = "rejected"]
        /\ UNCHANGED signatures
  /\ UNCHANGED advisorOf

(* Workers go on whatever happens to the applications. *)
Work(k) ==
  /\ WorkOnTask(k)
  /\ UNCHANGED <<appStatus, advisorOf, actions, signatures>>

DecisionNext ==
  \/ \E a \in Apps, adv \in Advisors : \E s \in SUBSET NoticesOf[a] : Submit(a, adv, s)
  \/ \E a \in Apps, kind \in {"approve", "reject"} :
       \E returned \in SUBSET NoticesOf[a] : Decide(a, kind, returned)
  \/ \E k \in Keys : Work(k)

DecisionSpec == DecisionInit /\ [][DecisionNext]_decisionVars
=============================================================================
