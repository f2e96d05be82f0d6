----------------------------- MODULE EmailQueue -----------------------------
(***************************************************************************)
(* The email_tasks table, the service transactions that create and cancel  *)
(* tasks, and the workers that deliver them                                *)
(* (src/workers/processEmailTasks.ts, src/services/emailTask.service.ts,   *)
(* src/repositories/emailTask.repository.ts).                              *)
(*                                                                         *)
(* A worker runs processDueEmailTasks: it claims one due task at a time,   *)
(* hands it to the provider, and records the outcome.  Every repository    *)
(* call of a worker is a statement of its own (no transaction), so one     *)
(* action here; a service's statements become visible at its COMMIT.       *)
(***************************************************************************)
EXTENDS Naturals

CONSTANTS Keys,         \* event keys
          Contents,     \* the fields taskMatchesInput compares
          Groups,       \* key sets cancelPendingAdvisorNotifications is given
          Workers,      \* concurrent runs of processDueEmailTasks
          Txns,         \* service transactions, each running once
          MaxAttempts,  \* email_tasks.max_attempts
          MaxTasks,     \* processDueEmailTasks's maxTasks
          RetryDelay,   \* RETRY_DELAYS_MS, by attempt number
          Schedules,    \* the scheduled_at values services ask for
          Horizon,      \* bound on the clock
          MaxCrashes,   \* bound on worker crashes
          None

ASSUME QueueAssumption ==
  /\ MaxAttempts \in Nat \ {0}
  /\ MaxTasks \in Nat \ {0}
  /\ RetryDelay \in [1..(MaxAttempts - 1) -> Nat]
  /\ Schedules \subseteq Nat
  /\ Groups \subseteq SUBSET Keys
  /\ Horizon \in Nat
  /\ MaxCrashes \in Nat
  /\ None \notin Keys \cup Contents \cup Txns

VARIABLES
  row,          \* state of the row with this event key, as PostgreSQL holds it
  owner,        \* the transaction holding the row's lock, or None
  content,      \* the row's immutable fields
  scheduledAt,  \* email_tasks.scheduled_at
  rowId,        \* email_tasks.id
  nextId,       \* the sequence behind email_tasks.id
  attempts,     \* email_tasks.attempt_count
  deliveries,   \* times the provider delivered the message
  txn,          \* state of each service transaction
  pc,           \* where each worker is in processClaimedTask
  task,         \* the task each worker has claimed
  seen,         \* attempt_count in the row the claim returned
  claimed,      \* result.claimed of the current run
  now,          \* the clock
  lost,         \* tasks whose worker stopped while it held them
  crashes

dbVars == <<row, owner, content, scheduledAt, rowId, nextId>>
workerVars == <<pc, task, seen, claimed>>
vars == <<row, owner, content, scheduledAt, rowId, nextId, attempts, deliveries,
          txn, pc, task, seen, claimed, now, lost, crashes>>

(* "inserting" and "cancelling" are rows an open transaction has written:  *)
(* the others still see no row, or a pending row that is locked.           *)
RowStates == {"absent", "inserting", "pending", "cancelling",
              "processing", "sent", "failed", "cancelled"}
WorkerStates == {"idle", "claiming", "claimed", "accepted", "retry", "giveup"}
Busy == {"claimed", "accepted", "retry", "giveup"}

TypeOK ==
  /\ row \in [Keys -> RowStates]
  /\ owner \in [Keys -> Txns \cup {None}]
  /\ content \in [Keys -> Contents \cup {None}]
  /\ scheduledAt \in [Keys -> Nat]
  /\ rowId \in [Keys -> Nat]
  /\ nextId \in Nat
  /\ attempts \in [Keys -> 0..MaxAttempts]
  /\ deliveries \in [Keys -> Nat]
  /\ txn \in [Txns -> {"ready", "open", "failed", "done"}]
  /\ pc \in [Workers -> WorkerStates]
  /\ task \in [Workers -> Keys \cup {None}]
  /\ seen \in [Workers -> 0..MaxAttempts]
  /\ claimed \in [Workers -> 0..MaxTasks]
  /\ now \in Nat
  /\ lost \subseteq Keys
  /\ crashes \in Nat

Init ==
  /\ row = [k \in Keys |-> "absent"]
  /\ owner = [k \in Keys |-> None]
  /\ content = [k \in Keys |-> None]
  /\ scheduledAt = [k \in Keys |-> 0]
  /\ rowId = [k \in Keys |-> 0]
  /\ nextId = 1
  /\ attempts = [k \in Keys |-> 0]
  /\ deliveries = [k \in Keys |-> 0]
  /\ txn = [t \in Txns |-> "ready"]
  /\ pc = [w \in Workers |-> "idle"]
  /\ task = [w \in Workers |-> None]
  /\ seen = [w \in Workers |-> 0]
  /\ claimed = [w \in Workers |-> 0]
  /\ now = 0
  /\ lost = {}
  /\ crashes = 0

(***************************************************************************)
(* Service transactions                                                    *)
(***************************************************************************)

Begin(t) ==
  /\ txn[t] = "ready"
  /\ txn' = [txn EXCEPT ![t] = "open"]
  /\ UNCHANGED <<dbVars, workerVars, attempts, deliveries, now, lost, crashes>>

(* createPendingTask, the INSERT that finds no row with this event key.    *)
(* It waits while another transaction holds an uncommitted row for it.     *)
InsertTask(t, k, c, s) ==
  /\ txn[t] = "open"
  /\ row[k] = "absent"
  /\ row' = [row EXCEPT ![k] = "inserting"]
  /\ owner' = [owner EXCEPT ![k] = t]
  /\ content' = [content EXCEPT ![k] = c]
  /\ scheduledAt' = [scheduledAt EXCEPT ![k] = s]
  /\ rowId' = [rowId EXCEPT ![k] = nextId]
  /\ nextId' = nextId + 1
  /\ UNCHANGED <<txn, workerVars, attempts, deliveries, now, lost, crashes>>

(* Mutant of InsertConflict: ON CONFLICT DO UPDATE, so that the last        *)
(* caller's content replaces the committed one.                            *)
MutantUpsert(t, k, c) ==
  /\ txn[t] = "open"
  /\ row[k] # "absent"
  /\ row[k] = "inserting" => owner[k] = t
  /\ content[k] # c
  /\ content' = [content EXCEPT ![k] = c]
  /\ UNCHANGED <<row, owner, scheduledAt, rowId, nextId, txn, workerVars, attempts,
                 deliveries, now, lost, crashes>>

(* createPendingTask, ON CONFLICT DO NOTHING: a row with the same content  *)
(* is the caller's task already; any other content is an error, which the  *)
(* service lets abort its transaction.                                     *)
InsertConflict(t, k, c) ==
  /\ txn[t] = "open"
  /\ row[k] # "absent"
  /\ row[k] = "inserting" => owner[k] = t
  /\ content[k] # c
  /\ txn' = [txn EXCEPT ![t] = "failed"]
  /\ UNCHANGED <<dbVars, workerVars, attempts, deliveries, now, lost, crashes>>

(* Mutant of CancelGroup: the UPDATE does not ask for status = 'pending'.  *)
MutantCancelClaimed(t, group) ==
  /\ txn[t] = "open"
  /\ \A k \in group : row[k] = "cancelling" => owner[k] = t
  /\ \A k \in group : row[k] = "inserting" => owner[k] # t
  /\ \E k \in group : row[k] \in {"pending", "processing"}
  /\ row' = [k \in Keys |-> IF k \in group /\ row[k] \in {"pending", "processing"}
                              THEN "cancelling" ELSE row[k]]
  /\ owner' = [k \in Keys |-> IF k \in group /\ row[k] \in {"pending", "processing"}
                                THEN t ELSE owner[k]]
  /\ UNCHANGED <<content, scheduledAt, rowId, nextId, txn, workerVars, attempts,
                 deliveries, now, lost, crashes>>

(* cancelPendingAdvisorNotifications: the UPDATE takes the rows of the     *)
(* group that are pending now, after waiting for those another transaction *)
(* has updated; it does not see another transaction's uncommitted rows, a  *)
(* row that a worker is processing is not touched, and no service cancels  *)
(* a task that it creates.                                                 *)
CancelGroup(t, group) ==
  /\ txn[t] = "open"
  /\ \A k \in group : row[k] = "cancelling" => owner[k] = t
  /\ \A k \in group : row[k] = "inserting" => owner[k] # t
  /\ \E k \in group : row[k] = "pending"
  /\ row' = [k \in Keys |-> IF k \in group /\ row[k] = "pending"
                              THEN "cancelling" ELSE row[k]]
  /\ owner' = [k \in Keys |-> IF k \in group /\ row[k] = "pending"
                                THEN t ELSE owner[k]]
  /\ UNCHANGED <<content, scheduledAt, rowId, nextId, txn, workerVars, attempts,
                 deliveries, now, lost, crashes>>

(* withTransaction: COMMIT, or ROLLBACK after an error.  The rows that t    *)
(* inserted or cancelled get their new state and are unlocked.             *)
EndTxn(t, inserted, cancelled) ==
  /\ txn' = [txn EXCEPT ![t] = "done"]
  /\ row' = [k \in Keys |-> CASE owner[k] = t /\ row[k] = "inserting"  -> inserted
                              [] owner[k] = t /\ row[k] = "cancelling" -> cancelled
                              [] OTHER -> row[k]]
  /\ owner' = [k \in Keys |-> IF owner[k] = t THEN None ELSE owner[k]]
  /\ UNCHANGED <<scheduledAt, rowId, nextId, workerVars, attempts, deliveries, now,
                 lost, crashes>>

Commit(t) ==
  /\ txn[t] = "open"
  /\ EndTxn(t, "pending", "cancelled")
  /\ UNCHANGED content

Rollback(t) ==
  /\ txn[t] \in {"open", "failed"}
  /\ EndTxn(t, "absent", "pending")
  /\ content' = [k \in Keys |-> IF owner[k] = t /\ row[k] = "inserting"
                                  THEN None ELSE content[k]]

(***************************************************************************)
(* Workers                                                                 *)
(***************************************************************************)

(* Mutants of Due: the claim takes rows of open transactions, rows that    *)
(* another run has claimed, or no rows that were tried before.             *)
MutantTakesLocked(k) == row[k] \in {"pending", "cancelling"} /\ scheduledAt[k] <= now
MutantTakesClaimed(k) == row[k] \in {"pending", "processing"} /\ scheduledAt[k] <= now
MutantTakesFresh(k) == row[k] = "pending" /\ scheduledAt[k] <= now /\ attempts[k] = 0

Due(k) == row[k] = "pending" /\ scheduledAt[k] <= now

(* ORDER BY scheduled_at ASC, id ASC; SKIP LOCKED passes over the rows of  *)
(* an open transaction.                                                    *)
Before(j, k) == \/ scheduledAt[j] < scheduledAt[k]
                \/ scheduledAt[j] = scheduledAt[k] /\ rowId[j] < rowId[k]
Oldest(k) == Due(k) /\ \A j \in Keys : Due(j) => ~Before(j, k)

StartRun(w) ==
  /\ pc[w] = "idle"
  /\ pc' = [pc EXCEPT ![w] = "claiming"]
  /\ claimed' = [claimed EXCEPT ![w] = 0]
  /\ UNCHANGED <<dbVars, task, seen, attempts, deliveries, txn, now, lost, crashes>>

(* Mutant of ClaimNextDue: the run does not count against maxTasks. *)
MutantClaimUncounted(w, k) ==
  /\ pc[w] = "claiming"
  /\ Oldest(k)
  /\ row' = [row EXCEPT ![k] = "processing"]
  /\ pc' = [pc EXCEPT ![w] = "claimed"]
  /\ task' = [task EXCEPT ![w] = k]
  /\ seen' = [seen EXCEPT ![w] = attempts[k]]
  /\ claimed' = [claimed EXCEPT ![w] = @ + 1]
  /\ UNCHANGED <<owner, content, scheduledAt, rowId, nextId, attempts,
                 deliveries, txn, now, lost, crashes>>

ClaimNextDue(w, k) ==
  /\ pc[w] = "claiming"
  /\ claimed[w] < MaxTasks
  /\ Oldest(k)
  /\ row' = [row EXCEPT ![k] = "processing"]
  /\ pc' = [pc EXCEPT ![w] = "claimed"]
  /\ task' = [task EXCEPT ![w] = k]
  /\ seen' = [seen EXCEPT ![w] = attempts[k]]
  /\ claimed' = [claimed EXCEPT ![w] = @ + 1]
  /\ UNCHANGED <<owner, content, scheduledAt, rowId, nextId, attempts,
                 deliveries, txn, now, lost, crashes>>

(* The run returns at its maxTasks-th task or when nothing is due. *)
EndRun(w) ==
  /\ pc[w] = "claiming"
  /\ claimed[w] = MaxTasks \/ \A k \in Keys : ~Due(k)
  /\ pc' = [pc EXCEPT ![w] = "idle"]
  /\ UNCHANGED <<dbVars, task, seen, claimed, attempts, deliveries, txn, now,
                 lost, crashes>>

(* The template cannot be rendered: a permanent failure, nothing is sent. *)
RenderFails(w) ==
  /\ pc[w] = "claimed"
  /\ pc' = [pc EXCEPT ![w] = "giveup"]
  /\ UNCHANGED <<dbVars, task, seen, claimed, attempts, deliveries, txn, now,
                 lost, crashes>>

(* The provider accepts the message. *)
SendSucceeds(w) ==
  /\ pc[w] = "claimed"
  /\ pc' = [pc EXCEPT ![w] = "accepted"]
  /\ deliveries' = [deliveries EXCEPT ![task[w]] = @ + 1]
  /\ UNCHANGED <<dbVars, task, seen, claimed, attempts, txn, now, lost, crashes>>

(* The provider call fails; classifyProviderFailure and persistFailure     *)
(* pick a retry or the end.  A timeout may come after the delivery.        *)
SendFails(w, retryable, delivered) ==
  /\ pc[w] = "claimed"
  /\ delivered => retryable
  /\ pc' = [pc EXCEPT ![w] =
              IF retryable /\ seen[w] + 1 < MaxAttempts THEN "retry" ELSE "giveup"]
  /\ deliveries' = IF delivered
                     THEN [deliveries EXCEPT ![task[w]] = @ + 1] ELSE deliveries
  /\ UNCHANGED <<dbVars, task, seen, claimed, attempts, txn, now, lost, crashes>>

(* After the UPDATE the worker goes on to its next task. *)
Recorded(w) ==
  /\ pc' = [pc EXCEPT ![w] = "claiming"]
  /\ task' = [task EXCEPT ![w] = None]
  /\ UNCHANGED <<owner, content, rowId, nextId, seen, claimed, deliveries,
                 txn, now, lost, crashes>>

MarkSent(w) ==
  /\ pc[w] = "accepted"
  /\ row[task[w]] = "processing"
  /\ row' = [row EXCEPT ![task[w]] = "sent"]
  /\ UNCHANGED <<attempts, scheduledAt>>
  /\ Recorded(w)

(* Mutant of RescheduleAfterFailure: attempt_count is not increased. *)
MutantFreeRetry(w) ==
  /\ pc[w] = "retry"
  /\ row[task[w]] = "processing"
  /\ row' = [row EXCEPT ![task[w]] = "pending"]
  /\ scheduledAt' = [scheduledAt EXCEPT ![task[w]] = now + RetryDelay[seen[w] + 1]]
  /\ UNCHANGED attempts
  /\ Recorded(w)

RescheduleAfterFailure(w) ==
  /\ pc[w] = "retry"
  /\ row[task[w]] = "processing"
  /\ attempts[task[w]] + 1 < MaxAttempts
  /\ row' = [row EXCEPT ![task[w]] = "pending"]
  /\ attempts' = [attempts EXCEPT ![task[w]] = @ + 1]
  /\ scheduledAt' = [scheduledAt EXCEPT ![task[w]] = now + RetryDelay[seen[w] + 1]]
  /\ Recorded(w)

MarkFailed(w) ==
  /\ pc[w] = "giveup"
  /\ row[task[w]] = "processing"
  /\ attempts[task[w]] < MaxAttempts
  /\ row' = [row EXCEPT ![task[w]] = "failed"]
  /\ attempts' = [attempts EXCEPT ![task[w]] = @ + 1]
  /\ UNCHANGED scheduledAt
  /\ Recorded(w)

(* The process stops, or a repository call throws: the exception leaves    *)
(* processDueEmailTasks and nothing resets the claimed row.                *)
Crash(w) ==
  /\ crashes < MaxCrashes
  /\ crashes' = crashes + 1
  /\ pc[w] # "idle"
  /\ pc' = [pc EXCEPT ![w] = "idle"]
  /\ task' = [task EXCEPT ![w] = None]
  /\ lost' = IF pc[w] \in Busy THEN lost \cup {task[w]} ELSE lost
  /\ UNCHANGED <<dbVars, seen, claimed, attempts, deliveries, txn, now>>

Tick ==
  /\ now < Horizon
  /\ now' = now + 1
  /\ UNCHANGED <<dbVars, workerVars, attempts, deliveries, txn, lost, crashes>>

TxnNext(t) ==
  \/ Begin(t)
  \/ \E k \in Keys, c \in Contents, s \in Schedules : InsertTask(t, k, c, s)
  \/ \E k \in Keys, c \in Contents : InsertConflict(t, k, c)
  \/ \E group \in Groups : CancelGroup(t, group)
  \/ Commit(t)
  \/ Rollback(t)

WorkerStep(w) ==
  \/ StartRun(w)
  \/ \E k \in Keys : ClaimNextDue(w, k)
  \/ EndRun(w)
  \/ RenderFails(w)
  \/ SendSucceeds(w)
  \/ \E retryable, delivered \in BOOLEAN : SendFails(w, retryable, delivered)
  \/ MarkSent(w)
  \/ RescheduleAfterFailure(w)
  \/ MarkFailed(w)

Next ==
  \/ \E t \in Txns : TxnNext(t)
  \/ \E w \in Workers : WorkerStep(w)
  \/ \E w \in Workers : Crash(w)
  \/ Tick

Spec == Init /\ [][Next]_vars

(* A transaction that is open ends, a run is started again after it ends   *)
(* or dies, a worker that can step does, and the clock advances.  Nothing  *)
(* forces a transaction to begin or a worker to crash.                     *)
Fairness ==
  /\ \A t \in Txns : WF_vars(Commit(t) \/ Rollback(t))
  /\ \A w \in Workers : WF_vars(WorkerStep(w))
  /\ WF_vars(Tick)

FairSpec == Spec /\ Fairness

(***************************************************************************)
(* Properties                                                              *)
(***************************************************************************)

(* A task in processing is in the hands of exactly one run, the attempt    *)
(* count that run read is still the row's, and the guarded UPDATE the run  *)
(* is about to make matches the row: "Unable to mark/reschedule/fail       *)
(* processing email task" is never thrown.                                 *)
ClaimIsExclusive ==
  \A w \in Workers : pc[w] \in Busy =>
    /\ task[w] \in Keys
    /\ row[task[w]] = "processing"
    /\ seen[w] = attempts[task[w]]
    /\ pc[w] = "retry" => seen[w] + 1 < MaxAttempts
    /\ pc[w] = "claimed" => deliveries[task[w]] <= attempts[task[w]]
    /\ pc[w] = "accepted" => deliveries[task[w]] > 0
    /\ \A v \in Workers : pc[v] \in Busy /\ task[v] = task[w] => v = w

(* A row is locked exactly while an open transaction's write to it is      *)
(* uncommitted: what a worker claims, delivers and records is committed.   *)
LockDiscipline ==
  \A k \in Keys :
    /\ owner[k] # None <=> row[k] \in {"inserting", "cancelling"}
    /\ owner[k] # None => txn[owner[k]] \in {"open", "failed"}

(* Each recipient gets a message at most once per attempt and at most      *)
(* MaxAttempts times in all, over every interleaving of claims, timeouts,  *)
(* retries and crashes; a task that can be claimed has an attempt left,    *)
(* and one recorded as sent was delivered.                                 *)
DeliveryBudget ==
  \A k \in Keys :
    /\ row[k] \in {"absent", "inserting"} => attempts[k] = 0 /\ deliveries[k] = 0
    /\ row[k] \in {"pending", "cancelling"} => deliveries[k] <= attempts[k]
    /\ row[k] \in {"pending", "cancelling", "processing", "sent"} =>
         attempts[k] < MaxAttempts
    /\ row[k] = "failed" => attempts[k] > 0
    /\ row[k] = "sent" => deliveries[k] > 0
    /\ deliveries[k] <= attempts[k] + 1
    /\ deliveries[k] <= MaxAttempts

(* A task stays in processing with nobody working on it only if a crash    *)
(* left it there: no path of the worker loses a claimed task.              *)
StrandedOnlyByCrash ==
  \A k \in Keys : row[k] = "processing" =>
    k \in lost \/ \E w \in Workers : pc[w] \in Busy /\ task[w] = k

(* Every row that somebody works on has somebody who will let go of it,    *)
(* a transaction its lock and a run its claim, but for crashes.            *)
RowsAreHeld == LockDiscipline /\ StrandedOnlyByCrash

(* What a task says and to whom is settled when it is committed: a later   *)
(* createPendingTask with the same event key never changes it.             *)
ContentIsImmutable ==
  [][\A k \in Keys :
       row[k] \notin {"absent", "inserting"} => content'[k] = content[k]]_vars

(* The queue implements the lifecycle its documentation promises: the      *)
(* other parts of the system see neither locks nor uncommitted rows.       *)
VisibleStatus ==
  [k \in Keys |-> CASE row[k] = "inserting"  -> "absent"
                    [] row[k] = "cancelling" -> "pending"
                    [] OTHER                 -> row[k]]

Lifecycle == INSTANCE EmailTaskLifecycle WITH status <- VisibleStatus

ImplementsLifecycle == Lifecycle!TaskSpec

(* A pending task whose time has come ends in a final state, unless a      *)
(* crash strands it or its next retry lies beyond the horizon.             *)
DueTasksSettle ==
  \A k \in Keys :
    (row[k] = "pending" /\ scheduledAt[k] <= now) ~>
      \/ row[k] \in {"sent", "failed", "cancelled"}
      \/ k \in lost
      \/ row[k] = "pending" /\ scheduledAt[k] > Horizon
=============================================================================
