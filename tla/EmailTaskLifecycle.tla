------------------------- MODULE EmailTaskLifecycle -------------------------
(***************************************************************************)
(* What the email queue promises to the rest of the system: the task       *)
(* states of docs/email-queue.md, with the attempt counter and the number  *)
(* of times a task's message may reach its recipient.  Services create and *)
(* cancel tasks only by committing a transaction, and a commit is atomic.  *)
(* EmailQueue refines this specification; AdvisorReview is built on it.    *)
(***************************************************************************)
EXTENDS Naturals

CONSTANTS Keys,         \* event keys, the unique names of the tasks
          MaxAttempts   \* email_tasks.max_attempts

ASSUME MaxAttemptsAssumption == MaxAttempts \in Nat \ {0}

VARIABLES status,       \* state of the task with this event key
          attempts,     \* email_tasks.attempt_count
          deliveries    \* times the recipient got the message

taskVars == <<status, attempts, deliveries>>

TaskStates == {"absent", "pending", "processing", "sent", "failed", "cancelled"}
Terminal == {"sent", "failed", "cancelled"}

TaskTypeOK ==
  /\ status \in [Keys -> TaskStates]
  /\ attempts \in [Keys -> 0..MaxAttempts]
  /\ deliveries \in [Keys -> 0..MaxAttempts]

TaskInit ==
  /\ status = [k \in Keys |-> "absent"]
  /\ attempts = [k \in Keys |-> 0]
  /\ deliveries = [k \in Keys |-> 0]

(* A service transaction commits: every task it created appears and every  *)
(* task it cancelled is withdrawn, in one step.                            *)
CommitTasks(created, cancelled) ==
  /\ \A k \in created : status[k] = "absent"
  /\ \A k \in cancelled : status[k] = "pending"
  /\ status' = [k \in Keys |-> CASE k \in created   -> "pending"
                                 [] k \in cancelled -> "cancelled"
                                 [] OTHER           -> status[k]]
  /\ UNCHANGED <<attempts, deliveries>>

(* claimNextDue: a worker takes a pending task. *)
TakeTask(k) ==
  /\ status[k] = "pending"
  /\ status' = [status EXCEPT ![k] = "processing"]
  /\ UNCHANGED <<attempts, deliveries>>

(* The recipient gets the message: at most once in each attempt. *)
DeliverTask(k) ==
  /\ status[k] = "processing"
  /\ deliveries[k] <= attempts[k]
  /\ deliveries' = [deliveries EXCEPT ![k] = @ + 1]
  /\ UNCHANGED <<status, attempts>>

(* markSent: only a message that was delivered is recorded as sent. *)
FinishTask(k) ==
  /\ status[k] = "processing"
  /\ deliveries[k] > 0
  /\ status' = [status EXCEPT ![k] = "sent"]
  /\ UNCHANGED <<attempts, deliveries>>

(* Mutant of RetryTask: a task may be retried after its last attempt. *)
MutantRetryTooOften(k) ==
  /\ status[k] = "processing"
  /\ attempts[k] < MaxAttempts
  /\ status' = [status EXCEPT ![k] = "pending"]
  /\ attempts' = [attempts EXCEPT ![k] = @ + 1]
  /\ UNCHANGED deliveries

(* rescheduleAfterFailure: the attempt failed and another one is left. *)
RetryTask(k) ==
  /\ status[k] = "processing"
  /\ attempts[k] + 1 < MaxAttempts
  /\ status' = [status EXCEPT ![k] = "pending"]
  /\ attempts' = [attempts EXCEPT ![k] = @ + 1]
  /\ UNCHANGED deliveries

(* markFailed: the error is permanent or this was the last attempt. *)
FailTask(k) ==
  /\ status[k] = "processing"
  /\ attempts[k] < MaxAttempts
  /\ status' = [status EXCEPT ![k] = "failed"]
  /\ attempts' = [attempts EXCEPT ![k] = @ + 1]
  /\ UNCHANGED deliveries

WorkOnTask(k) ==
  TakeTask(k) \/ DeliverTask(k) \/ FinishTask(k) \/ RetryTask(k) \/ FailTask(k)

TaskNext ==
  \/ \E created, cancelled \in SUBSET Keys : CommitTasks(created, cancelled)
  \/ \E k \in Keys : WorkOnTask(k)

TaskSpec == TaskInit /\ [][TaskNext]_taskVars

(***************************************************************************)
(* Consequences of the lifecycle alone.                                    *)
(***************************************************************************)

(* A task that can still be attempted has an attempt left, a task recorded *)
(* as sent has reached its recipient, and no recipient gets a message more *)
(* often than the attempts that were spent on it.                          *)
AttemptBudget ==
  \A k \in Keys :
    /\ status[k] \in {"pending", "processing", "sent"} => attempts[k] < MaxAttempts
    /\ status[k] \in {"absent", "pending"} => deliveries[k] <= attempts[k]
    /\ status[k] = "failed" => attempts[k] > 0
    /\ status[k] = "sent" => deliveries[k] > 0
    /\ deliveries[k] <= attempts[k] + 1
=============================================================================
