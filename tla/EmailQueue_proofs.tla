------------------------- MODULE EmailQueue_proofs -------------------------
(***************************************************************************)
(* For any number of keys, workers and transactions: the inductive         *)
(* invariant of the email queue, and that the queue implements the task    *)
(* lifecycle.                                                              *)
(*                                                                         *)
(* No conjunct of IInv is inductive alone.  A worker's guarded UPDATE      *)
(* needs its claim to be exclusive; the claim is exclusive because only    *)
(* pending rows are claimed and no transaction writes a processing row     *)
(* (LockDiscipline); the delivery budget needs the attempt count the       *)
(* worker read to be the row's.                                            *)
(***************************************************************************)
EXTENDS EmailQueue, TLAPS, WellFoundedInduction

(* Induction: what does not hold of every number has a least exception. *)
LEMMA LeastNat ==
  ASSUME NEW T, T \subseteq Nat, T # {}
  PROVE  \E n \in T : \A m \in T : n <= m
<1> DEFINE R == {p \in Nat \X Nat : p[1] < p[2]}
<1>1. IsWellFoundedOn(R, Nat)
  BY NatLessThanWellFounded DEF OpToRel
<1>2. \E n \in T : \A m \in T : <<m, n>> \notin R
  <2> HIDE DEF R
  <2> QED BY <1>1, WFMin
<1>3. PICK n \in T : \A m \in T : <<m, n>> \notin R
  BY <1>2
<1>4. ASSUME NEW m \in T
      PROVE  n <= m
  <2>1. m \in Nat /\ n \in Nat /\ ~ (m < n)
    BY <1>3
  <2> QED BY <2>1
<1> QED BY <1>4

USE QueueAssumption

IInv == /\ TypeOK
        /\ LockDiscipline
        /\ ClaimIsExclusive
        /\ DeliveryBudget
        /\ StrandedOnlyByCrash

LEMMA InitInv == Init => IInv
BY DEF Init, IInv, TypeOK, LockDiscipline, ClaimIsExclusive, DeliveryBudget,
       StrandedOnlyByCrash, RowStates, WorkerStates, Busy

(* A step that leaves the processing rows, the workers and the counters     *)
(* alone preserves what is said of them.                                   *)
LEMMA KeepsWorkers ==
  ASSUME IInv,
         UNCHANGED <<workerVars, attempts, deliveries, lost>>,
         \A k \in Keys : row'[k] = "processing" <=> row[k] = "processing"
  PROVE  ClaimIsExclusive' /\ StrandedOnlyByCrash'
<1>1. ClaimIsExclusive'
  <2>1. \A w \in Workers : pc[w] \in Busy =>
           task[w] \in Keys /\ row'[task[w]] = "processing"
    BY DEF IInv, ClaimIsExclusive
  <2> QED BY <2>1 DEF IInv, ClaimIsExclusive, workerVars
<1>2. StrandedOnlyByCrash'
  BY DEF IInv, StrandedOnlyByCrash, workerVars
<1> QED BY <1>1, <1>2

(* The delivery budget of a row depends on its state only by these classes. *)
LEMMA KeepsBudget ==
  ASSUME IInv,
         UNCHANGED <<attempts, deliveries>>,
         \A k \in Keys :
           \/ row'[k] = row[k]
           \/ row[k] \in {"absent", "inserting"} /\ row'[k] # "failed" /\ row'[k] # "sent"
           \/ row[k] \in {"pending", "cancelling"}
                /\ row'[k] \in {"pending", "cancelling", "cancelled"}
  PROVE  DeliveryBudget'
<1> SUFFICES ASSUME NEW k \in Keys
             PROVE  /\ row'[k] \in {"absent", "inserting"} =>
                         attempts[k] = 0 /\ deliveries[k] = 0
                    /\ row'[k] \in {"pending", "cancelling"} => deliveries[k] <= attempts[k]
                    /\ row'[k] \in {"pending", "cancelling", "processing", "sent"} =>
                         attempts[k] < MaxAttempts
                    /\ row'[k] = "failed" => attempts[k] > 0
                    /\ row'[k] = "sent" => deliveries[k] > 0
                    /\ deliveries[k] <= attempts[k] + 1
                    /\ deliveries[k] <= MaxAttempts
  BY DEF DeliveryBudget
<1> QED BY DEF IInv, DeliveryBudget

(* A step of a service transaction touches no row that a worker holds. *)
LEMMA TxnInv ==
  ASSUME IInv, NEW t \in Txns, TxnNext(t)
  PROVE  IInv'
<1> USE DEF TypeOK, RowStates, dbVars, workerVars
<1>1. TypeOK'
  <2>1. CASE Begin(t)
    BY <2>1 DEF IInv, Begin
  <2>2. ASSUME NEW k \in Keys, NEW c \in Contents, NEW s \in Schedules,
               InsertTask(t, k, c, s)
        PROVE  TypeOK'
    BY <2>2, SMTT(30) DEF IInv, InsertTask
  <2>3. ASSUME NEW k \in Keys, NEW c \in Contents, InsertConflict(t, k, c)
        PROVE  TypeOK'
    BY <2>3 DEF IInv, InsertConflict
  <2>4. ASSUME NEW group \in Groups, CancelGroup(t, group)
        PROVE  TypeOK'
    BY <2>4, SMTT(30) DEF IInv, CancelGroup
  <2>5. CASE Commit(t)
    BY <2>5, SMTT(30) DEF IInv, Commit, EndTxn
  <2>6. CASE Rollback(t)
    BY <2>6, SMTT(30) DEF IInv, Rollback, EndTxn
  <2> QED BY <2>1, <2>2, <2>3, <2>4, <2>5, <2>6 DEF TxnNext
<1>2. LockDiscipline'
  <2>1. CASE Begin(t)
    BY <2>1 DEF IInv, Begin, LockDiscipline
  <2>2. ASSUME NEW k \in Keys, NEW c \in Contents, NEW s \in Schedules,
               InsertTask(t, k, c, s)
        PROVE  LockDiscipline'
    BY <2>2 DEF IInv, InsertTask, LockDiscipline
  <2>3. ASSUME NEW k \in Keys, NEW c \in Contents, InsertConflict(t, k, c)
        PROVE  LockDiscipline'
    BY <2>3 DEF IInv, InsertConflict, LockDiscipline
  <2>4. ASSUME NEW group \in Groups, CancelGroup(t, group)
        PROVE  LockDiscipline'
    BY <2>4 DEF IInv, CancelGroup, LockDiscipline
  <2>5. CASE Commit(t)
    BY <2>5 DEF IInv, Commit, EndTxn, LockDiscipline
  <2>6. CASE Rollback(t)
    BY <2>6 DEF IInv, Rollback, EndTxn, LockDiscipline
  <2> QED BY <2>1, <2>2, <2>3, <2>4, <2>5, <2>6 DEF TxnNext
<1>3. UNCHANGED <<workerVars, attempts, deliveries, lost>>
  BY DEF TxnNext, Begin, InsertTask, InsertConflict, CancelGroup, Commit, Rollback, EndTxn
<1>4. \A k \in Keys :
        \/ row'[k] = row[k]
        \/ row[k] \in {"absent", "inserting"}
             /\ row'[k] \in {"absent", "inserting", "pending"}
        \/ row[k] \in {"pending", "cancelling"}
             /\ row'[k] \in {"pending", "cancelling", "cancelled"}
  <2>1. CASE Begin(t) \/ \E k \in Keys, c \in Contents : InsertConflict(t, k, c)
    BY <2>1 DEF Begin, InsertConflict
  <2>2. ASSUME NEW k \in Keys, NEW c \in Contents, NEW s \in Schedules,
               InsertTask(t, k, c, s)
        PROVE  \A j \in Keys :
                 row[j] # row'[j] => row[j] = "absent" /\ row'[j] = "inserting"
    BY <2>2 DEF IInv, InsertTask
  <2>3. ASSUME NEW group \in Groups, CancelGroup(t, group)
        PROVE  \A j \in Keys :
                 row[j] # row'[j] => row[j] = "pending" /\ row'[j] = "cancelling"
    BY <2>3 DEF CancelGroup
  <2>4. CASE Commit(t)
    BY <2>4 DEF Commit, EndTxn
  <2>5. CASE Rollback(t)
    BY <2>5 DEF Rollback, EndTxn
  <2> QED BY <2>1, <2>2, <2>3, <2>4, <2>5 DEF TxnNext
<1>5. ClaimIsExclusive' /\ StrandedOnlyByCrash'
  <2>1. \A k \in Keys : row'[k] = "processing" <=> row[k] = "processing"
    BY <1>4
  <2> QED BY <1>3, <2>1, KeepsWorkers
<1>6. DeliveryBudget'
  BY <1>3, <1>4, KeepsBudget
<1> QED BY <1>1, <1>2, <1>5, <1>6 DEF IInv

(* The guarded UPDATE that ends a worker's hold on its task: the row leaves *)
(* processing within its budget, and nobody else held it.                  *)
LEMMA RecordedInv ==
  ASSUME IInv, NEW w \in Workers, pc[w] \in Busy,
         NEW state \in {"pending", "sent", "failed"},
         NEW n \in 0..MaxAttempts, NEW s \in Nat,
         row' = [row EXCEPT ![task[w]] = state],
         attempts' = [attempts EXCEPT ![task[w]] = n],
         scheduledAt' = [scheduledAt EXCEPT ![task[w]] = s],
         Recorded(w),
         state = "pending" => n < MaxAttempts /\ n = attempts[task[w]] + 1,
         state = "sent" => n = attempts[task[w]] /\ deliveries[task[w]] > 0,
         state = "failed" => n = attempts[task[w]] + 1
  PROVE  IInv'
<1> DEFINE k == task[w]
<1>1. /\ k \in Keys
      /\ row[k] = "processing"
      /\ \A v \in Workers : pc[v] \in Busy /\ task[v] = k => v = w
  BY DEF IInv, ClaimIsExclusive
<1>2. \A j \in Keys : /\ row'[j] = (IF j = k THEN state ELSE row[j])
                      /\ attempts'[j] = (IF j = k THEN n ELSE attempts[j])
  BY DEF IInv, TypeOK
<1>3. /\ pc'[w] = "claiming"
      /\ \A v \in Workers : v # w => pc'[v] = pc[v] /\ task'[v] = task[v]
  BY DEF IInv, TypeOK, Recorded
<1>4. UNCHANGED <<owner, content, rowId, nextId, seen, claimed, deliveries, txn, now,
                  lost, crashes>>
  BY DEF Recorded
<1>5. TypeOK'
  <2>1. /\ row' \in [Keys -> RowStates]
        /\ attempts' \in [Keys -> 0..MaxAttempts]
        /\ scheduledAt' \in [Keys -> Nat]
    BY <1>1 DEF IInv, TypeOK, RowStates
  <2>2. pc' \in [Workers -> WorkerStates] /\ task' \in [Workers -> Keys \cup {None}]
    BY DEF IInv, TypeOK, Recorded, WorkerStates
  <2> QED BY <1>4, <2>1, <2>2 DEF IInv, TypeOK
<1>6. LockDiscipline'
  <2>1. owner[k] = None
    BY <1>1 DEF IInv, LockDiscipline
  <2> QED BY <1>1, <1>2, <1>4, <2>1 DEF IInv, LockDiscipline
<1>7. \A v \in Workers : pc'[v] \in Busy =>
        /\ v # w
        /\ pc[v] \in Busy
        /\ pc'[v] = pc[v]
        /\ task'[v] = task[v]
        /\ task[v] \in Keys
        /\ task[v] # k
  BY <1>1, <1>3 DEF IInv, ClaimIsExclusive, Busy
<1>8. ClaimIsExclusive'
  <2> SUFFICES ASSUME NEW v \in Workers, pc'[v] \in Busy
               PROVE  /\ task'[v] \in Keys
                      /\ row'[task'[v]] = "processing"
                      /\ seen[v] = attempts'[task'[v]]
                      /\ pc'[v] = "retry" => seen[v] + 1 < MaxAttempts
                      /\ pc'[v] = "claimed" => deliveries[task'[v]] <= attempts'[task'[v]]
                      /\ pc'[v] = "accepted" => deliveries[task'[v]] > 0
                      /\ \A u \in Workers :
                           pc'[u] \in Busy /\ task'[u] = task'[v] => u = v
    BY <1>4 DEF ClaimIsExclusive
  <2>1. /\ pc[v] \in Busy
        /\ pc'[v] = pc[v]
        /\ task'[v] = task[v]
        /\ row'[task[v]] = row[task[v]]
        /\ attempts'[task[v]] = attempts[task[v]]
    BY <1>2, <1>7
  <2>2. \A u \in Workers : pc'[u] \in Busy /\ task'[u] = task'[v] => u = v
    BY <1>7 DEF IInv, ClaimIsExclusive
  <2> QED BY <2>1, <2>2 DEF IInv, ClaimIsExclusive
<1>9. DeliveryBudget'
  <2> SUFFICES ASSUME NEW j \in Keys
               PROVE  /\ row'[j] \in {"absent", "inserting"} =>
                           attempts'[j] = 0 /\ deliveries[j] = 0
                      /\ row'[j] \in {"pending", "cancelling"} =>
                           deliveries[j] <= attempts'[j]
                      /\ row'[j] \in {"pending", "cancelling", "processing", "sent"} =>
                           attempts'[j] < MaxAttempts
                      /\ row'[j] = "failed" => attempts'[j] > 0
                      /\ row'[j] = "sent" => deliveries[j] > 0
                      /\ deliveries[j] <= attempts'[j] + 1
                      /\ deliveries[j] <= MaxAttempts
    BY <1>4 DEF DeliveryBudget
  <2>1. CASE j # k
    BY <2>1, <1>2 DEF IInv, DeliveryBudget
  <2>2. CASE j = k
    <3>1. /\ row'[j] = state
          /\ attempts'[j] = n
          /\ deliveries[j] \in Nat
          /\ attempts[j] \in Nat
          /\ attempts[j] < MaxAttempts
          /\ deliveries[j] <= attempts[j] + 1
          /\ deliveries[j] <= MaxAttempts
      BY <2>2, <1>1, <1>2 DEF IInv, TypeOK, DeliveryBudget
    <3> QED BY <2>2, <3>1
  <2> QED BY <2>1, <2>2
<1>10. StrandedOnlyByCrash'
  <2> SUFFICES ASSUME NEW j \in Keys, row'[j] = "processing", j \notin lost
               PROVE  \E v \in Workers : pc'[v] \in Busy /\ task'[v] = j
    BY <1>4 DEF StrandedOnlyByCrash
  <2>1. j # k /\ row[j] = "processing"
    BY <1>2
  <2>2. PICK v \in Workers : pc[v] \in Busy /\ task[v] = j
    BY <2>1 DEF IInv, StrandedOnlyByCrash
  <2> QED BY <2>1, <2>2, <1>3
<1> QED BY <1>5, <1>6, <1>8, <1>9, <1>10 DEF IInv

(* A worker step concerns the one row the worker holds or is claiming. *)
LEMMA WorkerInv ==
  ASSUME IInv, NEW w \in Workers, WorkerStep(w)
  PROVE  IInv'
<1> USE DEF TypeOK, RowStates, WorkerStates, Busy, dbVars, workerVars
<1>1. ASSUME StartRun(w) \/ EndRun(w)
      PROVE  IInv'
  <2>1. PICK p \in {"idle", "claiming"} :
          /\ pc[w] \notin Busy
          /\ pc' = [pc EXCEPT ![w] = p]
          /\ claimed' = claimed \/ claimed' = [claimed EXCEPT ![w] = 0]
          /\ UNCHANGED <<dbVars, task, seen, attempts, deliveries, txn, now, lost,
                         crashes>>
    <3>1. CASE StartRun(w)
      BY <3>1 DEF StartRun
    <3>2. CASE EndRun(w)
      BY <3>2 DEF EndRun
    <3> QED BY <1>1, <3>1, <3>2
  <2>2. TypeOK'
    <3>1. pc' \in [Workers -> WorkerStates] /\ claimed' \in [Workers -> 0..MaxTasks]
      BY <2>1, SMTT(30) DEF IInv
    <3> QED BY <2>1, <3>1 DEF IInv
  <2>3. LockDiscipline' /\ DeliveryBudget'
    BY <2>1 DEF IInv, LockDiscipline, DeliveryBudget
  <2>4. \A v \in Workers : pc'[v] \in Busy <=> pc[v] \in Busy
    BY <2>1 DEF IInv
  <2>5. \A v \in Workers : pc'[v] \in Busy => pc'[v] = pc[v]
    BY <2>1 DEF IInv
  <2>6. ClaimIsExclusive'
    BY <2>1, <2>4, <2>5 DEF IInv, ClaimIsExclusive
  <2>7. StrandedOnlyByCrash'
    BY <2>1, <2>4 DEF IInv, StrandedOnlyByCrash
  <2> QED BY <2>2, <2>3, <2>6, <2>7 DEF IInv
<1>2. ASSUME NEW k \in Keys, ClaimNextDue(w, k)
      PROVE  IInv'
  <2> USE DEF Oldest, Due
  <2>1. TypeOK' /\ LockDiscipline'
    <3>1. /\ row' \in [Keys -> RowStates]
          /\ pc' \in [Workers -> WorkerStates]
          /\ task' \in [Workers -> Keys \cup {None}]
          /\ seen' \in [Workers -> 0..MaxAttempts]
          /\ claimed' \in [Workers -> 0..MaxTasks]
      BY <1>2, SMTT(30) DEF IInv, ClaimNextDue
    <3>2. TypeOK'
      BY <1>2, <3>1 DEF IInv, ClaimNextDue
    <3>3. \A j \in Keys : row[j] # row'[j] => row[j] = "pending" /\ row'[j] = "processing"
      BY <1>2 DEF IInv, ClaimNextDue
    <3>4. LockDiscipline'
      BY <1>2, <3>3 DEF IInv, ClaimNextDue, LockDiscipline
    <3> QED BY <3>2, <3>4
  <2>2. ClaimIsExclusive'
    <3>1. /\ row[k] = "pending"
          /\ deliveries[k] <= attempts[k]
          /\ \A v \in Workers : pc[v] \in Busy => task[v] # k
      BY <1>2 DEF IInv, ClaimNextDue, ClaimIsExclusive, DeliveryBudget
    <3>2. \A v \in Workers : v # w => /\ pc'[v] = pc[v]
                                     /\ task'[v] = task[v]
                                     /\ seen'[v] = seen[v]
      BY <1>2 DEF IInv, ClaimNextDue
    <3>3. pc'[w] = "claimed" /\ task'[w] = k /\ seen'[w] = attempts[k]
      BY <1>2 DEF IInv, ClaimNextDue
    <3>4. \A j \in Keys : row'[j] = (IF j = k THEN "processing" ELSE row[j])
      BY <1>2 DEF IInv, ClaimNextDue
    <3>5. UNCHANGED <<attempts, deliveries>>
      BY <1>2 DEF ClaimNextDue
    <3>6. ASSUME NEW v \in Workers, pc'[v] \in Busy, v # w
          PROVE  /\ task[v] \in Keys /\ task[v] # k
                 /\ row'[task[v]] = "processing"
                 /\ seen[v] = attempts[task[v]]
      BY <3>1, <3>2, <3>4, <3>6 DEF IInv, ClaimIsExclusive
    <3>7. ASSUME NEW v \in Workers, pc'[v] \in Busy
          PROVE  /\ task'[v] \in Keys
                 /\ row'[task'[v]] = "processing"
                 /\ seen'[v] = attempts'[task'[v]]
                 /\ pc'[v] = "retry" => seen'[v] + 1 < MaxAttempts
                 /\ pc'[v] = "claimed" => deliveries'[task'[v]] <= attempts'[task'[v]]
                 /\ pc'[v] = "accepted" => deliveries'[task'[v]] > 0
      <4>1. CASE v = w
        BY <4>1, <3>1, <3>3, <3>4, <3>5 DEF IInv
      <4>2. CASE v # w
        BY <4>2, <3>7, <3>2, <3>5, <3>6 DEF IInv, ClaimIsExclusive
      <4> QED BY <4>1, <4>2
    <3>8. ASSUME NEW v \in Workers, NEW u \in Workers, pc'[v] \in Busy,
                 pc'[u] \in Busy, task'[u] = task'[v]
          PROVE  u = v
      <4>1. CASE u = w /\ v # w
        <5>1. task[v] # k
          BY <4>1, <3>8, <3>6
        <5> QED BY <4>1, <5>1, <3>8, <3>2, <3>3
      <4>2. CASE u # w /\ v = w
        <5>1. task[u] # k
          BY <4>2, <3>8, <3>6
        <5> QED BY <4>2, <5>1, <3>8, <3>2, <3>3
      <4>3. CASE u # w /\ v # w
        <5>1. pc[v] \in Busy /\ pc[u] \in Busy /\ task[u] = task[v]
          BY <4>3, <3>8, <3>2
        <5> QED BY <5>1 DEF IInv, ClaimIsExclusive
      <4> QED BY <4>1, <4>2, <4>3
    <3> QED BY <3>7, <3>8 DEF ClaimIsExclusive
  <2>3. DeliveryBudget'
    BY <1>2 DEF IInv, ClaimNextDue, DeliveryBudget
  <2>4. StrandedOnlyByCrash'
    <3> SUFFICES ASSUME NEW j \in Keys, row'[j] = "processing", j \notin lost
                 PROVE  \E v \in Workers : pc'[v] \in Busy /\ task'[v] = j
      BY <1>2 DEF ClaimNextDue, StrandedOnlyByCrash
    <3>1. CASE j = k
      BY <3>1, <1>2 DEF IInv, ClaimNextDue
    <3>2. CASE j # k
      <4>1. PICK v \in Workers : pc[v] \in Busy /\ task[v] = j
        BY <3>2, <1>2 DEF IInv, ClaimNextDue, StrandedOnlyByCrash
      <4>2. v # w
        BY <4>1, <1>2 DEF ClaimNextDue
      <4> QED BY <4>1, <4>2, <1>2 DEF IInv, ClaimNextDue
    <3> QED BY <3>1, <3>2
  <2> QED BY <2>1, <2>2, <2>3, <2>4 DEF IInv
<1>3. CASE RenderFails(w)
  <2>1. TypeOK' /\ LockDiscipline'
    BY <1>3 DEF IInv, RenderFails, LockDiscipline
  <2>2. ClaimIsExclusive'
    BY <1>3 DEF IInv, RenderFails, ClaimIsExclusive
  <2>3. DeliveryBudget' /\ StrandedOnlyByCrash'
    BY <1>3 DEF IInv, RenderFails, DeliveryBudget, StrandedOnlyByCrash
  <2> QED BY <2>1, <2>2, <2>3 DEF IInv
<1>4. ASSUME \/ SendSucceeds(w)
             \/ \E retryable, delivered \in BOOLEAN : SendFails(w, retryable, delivered)
      PROVE  IInv'
  <2>1. PICK p \in {"accepted", "retry", "giveup"} :
          /\ pc[w] = "claimed"
          /\ pc' = [pc EXCEPT ![w] = p]
          /\ p = "retry" => seen[w] + 1 < MaxAttempts
          /\ p = "accepted" => deliveries' # deliveries
          /\ \/ deliveries' = deliveries
             \/ deliveries' = [deliveries EXCEPT ![task[w]] = @ + 1]
          /\ UNCHANGED <<dbVars, task, seen, claimed, attempts, txn, now, lost, crashes>>
    <3>1. CASE SendSucceeds(w)
      <4>1. task[w] \in Keys
        BY <3>1 DEF IInv, SendSucceeds, ClaimIsExclusive
      <4>2. [deliveries EXCEPT ![task[w]] = @ + 1] # deliveries
        BY <4>1 DEF IInv
      <4> QED BY <3>1, <4>2 DEF SendSucceeds
    <3>2. ASSUME NEW retryable \in BOOLEAN, NEW delivered \in BOOLEAN,
                 SendFails(w, retryable, delivered)
          PROVE  \E p \in {"retry", "giveup"} :
                   /\ pc[w] = "claimed"
                   /\ pc' = [pc EXCEPT ![w] = p]
                   /\ p = "retry" => seen[w] + 1 < MaxAttempts
                   /\ \/ deliveries' = deliveries
                      \/ deliveries' = [deliveries EXCEPT ![task[w]] = @ + 1]
                   /\ UNCHANGED <<dbVars, task, seen, claimed, attempts, txn, now,
                                  lost, crashes>>
      BY <3>2 DEF SendFails
    <3> QED BY <1>4, <3>1, <3>2
  <2>2. /\ task[w] \in Keys
        /\ row[task[w]] = "processing"
        /\ deliveries[task[w]] <= attempts[task[w]]
        /\ attempts[task[w]] < MaxAttempts
        /\ seen[w] = attempts[task[w]]
    BY <2>1 DEF IInv, ClaimIsExclusive, DeliveryBudget
  <2>3. TypeOK'
    <3>1. deliveries' \in [Keys -> Nat]
      <4>1. deliveries \in [Keys -> Nat] /\ deliveries[task[w]] + 1 \in Nat
        BY <2>2 DEF IInv
      <4> QED BY <2>1, <4>1
    <3>2. pc' \in [Workers -> WorkerStates]
      BY <2>1 DEF IInv
    <3> QED BY <2>1, <3>1, <3>2 DEF IInv
  <2>4. LockDiscipline'
    BY <2>1 DEF IInv, LockDiscipline
  <2>5. \A v \in Workers : /\ pc'[v] \in Busy <=> pc[v] \in Busy
                           /\ v # w => pc'[v] = pc[v]
                           /\ pc'[w] = p
    BY <2>1 DEF IInv
  <2>6. \A k \in Keys : /\ k # task[w] => deliveries'[k] = deliveries[k]
                        /\ deliveries'[k] \in {deliveries[k], deliveries[k] + 1}
                        /\ deliveries' # deliveries =>
                             deliveries'[task[w]] = deliveries[task[w]] + 1
    BY <2>1, <2>2 DEF IInv
  <2>7. ClaimIsExclusive'
    <3> SUFFICES ASSUME NEW v \in Workers, pc'[v] \in Busy
                 PROVE  /\ task[v] \in Keys
                        /\ row[task[v]] = "processing"
                        /\ seen[v] = attempts[task[v]]
                        /\ pc'[v] = "retry" => seen[v] + 1 < MaxAttempts
                        /\ pc'[v] = "claimed" => deliveries'[task[v]] <= attempts[task[v]]
                        /\ pc'[v] = "accepted" => deliveries'[task[v]] > 0
                        /\ \A u \in Workers :
                             pc'[u] \in Busy /\ task[u] = task[v] => u = v
      BY <2>1 DEF ClaimIsExclusive
    <3>1. CASE v = w
      BY <3>1, <2>1, <2>2, <2>5, <2>6 DEF IInv, ClaimIsExclusive
    <3>2. CASE v # w
      BY <3>2, <2>1, <2>2, <2>5, <2>6, SMTT(30) DEF IInv, ClaimIsExclusive
    <3> QED BY <3>1, <3>2
  <2>8. DeliveryBudget'
    BY <2>1, <2>2, <2>6, SMTT(30) DEF IInv, DeliveryBudget
  <2>9. StrandedOnlyByCrash'
    BY <2>1, <2>5 DEF IInv, StrandedOnlyByCrash
  <2> QED BY <2>3, <2>4, <2>7, <2>8, <2>9 DEF IInv
<1>5. CASE MarkSent(w)
  <2>1. /\ pc[w] \in Busy
        /\ task[w] \in Keys
        /\ deliveries[task[w]] > 0
    BY <1>5 DEF IInv, MarkSent, ClaimIsExclusive
  <2>2. /\ attempts' = [attempts EXCEPT ![task[w]] = attempts[task[w]]]
        /\ scheduledAt' = [scheduledAt EXCEPT ![task[w]] = scheduledAt[task[w]]]
    BY <1>5, <2>1 DEF IInv, MarkSent
  <2>3. attempts[task[w]] \in 0..MaxAttempts /\ scheduledAt[task[w]] \in Nat
    BY <2>1 DEF IInv
  <2> QED BY <1>5, <2>1, <2>2, <2>3, RecordedInv, ZenonT(40) DEF MarkSent
<1>6. CASE RescheduleAfterFailure(w)
  <2>1. /\ pc[w] \in Busy
        /\ task[w] \in Keys
        /\ seen[w] + 1 \in 1..(MaxAttempts - 1)
        /\ attempts[task[w]] + 1 < MaxAttempts
    BY <1>6 DEF IInv, RescheduleAfterFailure, ClaimIsExclusive
  <2>2. now + RetryDelay[seen[w] + 1] \in Nat
    BY <2>1, SMTT(30) DEF IInv
  <2>3. attempts[task[w]] + 1 \in 0..MaxAttempts
    BY <2>1, SMTT(30) DEF IInv
  <2>4. /\ row' = [row EXCEPT ![task[w]] = "pending"]
        /\ attempts' = [attempts EXCEPT ![task[w]] = attempts[task[w]] + 1]
        /\ scheduledAt' = [scheduledAt EXCEPT ![task[w]] = now + RetryDelay[seen[w] + 1]]
        /\ Recorded(w)
    BY <1>6 DEF RescheduleAfterFailure
  <2> HIDE DEF TypeOK, RowStates, WorkerStates, Busy, dbVars, workerVars
  <2> QED BY <2>1, <2>2, <2>3, <2>4, RecordedInv
<1>7. CASE MarkFailed(w)
  <2>1. /\ pc[w] \in Busy
        /\ task[w] \in Keys
        /\ attempts[task[w]] < MaxAttempts
    BY <1>7 DEF IInv, MarkFailed, ClaimIsExclusive
  <2>2. attempts[task[w]] + 1 \in 0..MaxAttempts /\ scheduledAt[task[w]] \in Nat
    BY <2>1 DEF IInv
  <2>3. /\ row' = [row EXCEPT ![task[w]] = "failed"]
        /\ attempts' = [attempts EXCEPT ![task[w]] = attempts[task[w]] + 1]
        /\ scheduledAt' = [scheduledAt EXCEPT ![task[w]] = scheduledAt[task[w]]]
        /\ Recorded(w)
    BY <1>7, <2>1 DEF IInv, MarkFailed
  <2> HIDE DEF TypeOK, RowStates, WorkerStates, Busy, dbVars, workerVars
  <2> QED BY <2>1, <2>2, <2>3, RecordedInv
<1> QED BY <1>1, <1>2, <1>3, <1>4, <1>5, <1>6, <1>7 DEF WorkerStep

LEMMA NextInv == IInv /\ [Next]_vars => IInv'
<1> SUFFICES ASSUME IInv, [Next]_vars
             PROVE  IInv'
  OBVIOUS
<1> USE DEF TypeOK, RowStates, WorkerStates, Busy, dbVars, workerVars
<1>1. ASSUME NEW w \in Workers, Crash(w)
      PROVE  IInv'
  <2>1. TypeOK' /\ LockDiscipline'
    BY <1>1, SMTT(30) DEF IInv, Crash, LockDiscipline, ClaimIsExclusive
  <2>2. ClaimIsExclusive'
    BY <1>1 DEF IInv, Crash, ClaimIsExclusive
  <2>3. DeliveryBudget' /\ StrandedOnlyByCrash'
    BY <1>1 DEF IInv, Crash, DeliveryBudget, StrandedOnlyByCrash
  <2> QED BY <2>1, <2>2, <2>3 DEF IInv
<1>2. CASE Tick
  BY <1>2 DEF IInv, Tick, LockDiscipline, ClaimIsExclusive, DeliveryBudget,
              StrandedOnlyByCrash
<1>3. CASE UNCHANGED vars
  BY <1>3 DEF IInv, vars, LockDiscipline, ClaimIsExclusive, DeliveryBudget,
              StrandedOnlyByCrash
<1> QED BY <1>1, <1>2, <1>3, TxnInv, WorkerInv DEF Next

(* Type correctness, exclusive claims, the lock discipline and the         *)
(* delivery budget hold in every reachable state.                          *)
THEOREM QueueInvariant == Spec => []IInv
<1>1. Init => IInv
  BY InitInv
<1>2. IInv /\ [Next]_vars => IInv'
  BY NextInv
<1> QED BY <1>1, <1>2, PTL DEF Spec

(* The columns of email_tasks stay in range: attempts never passes          *)
(* MaxAttempts (the CHECK of the table), and no run of the worker claims    *)
(* more than MaxTasks.                                                      *)
THEOREM QueueTypes == Spec => []TypeOK
<1>1. IInv => TypeOK
  BY DEF IInv
<1> QED BY <1>1, QueueInvariant, PTL

(* A worker that has claimed a task is its only owner, so the repository   *)
(* call that records the outcome always matches the row                    *)
(* (processEmailTasks.ts: "Unable to ... processing email task").          *)
THEOREM ClaimsAreExclusive == Spec => []ClaimIsExclusive
<1>1. IInv => ClaimIsExclusive
  BY DEF IInv
<1> QED BY <1>1, QueueInvariant, PTL

(* No message reaches its recipient more than MaxAttempts times, whatever  *)
(* the workers, timeouts and crashes do.                                   *)
THEOREM DeliveriesAreBounded == Spec => []DeliveryBudget
<1>1. IInv => DeliveryBudget
  BY DEF IInv
<1> QED BY <1>1, QueueInvariant, PTL

(* A transaction lets go of the rows it locked when it ends, a run of the   *)
(* worker of its claim, and only a crash leaves a row in processing.        *)
THEOREM EveryRowIsHeld == Spec => []RowsAreHeld
<1>1. IInv => RowsAreHeld
  BY DEF IInv, RowsAreHeld
<1> QED BY <1>1, QueueInvariant, PTL

(* What a committed task says, and to whom, no later createPendingTask      *)
(* with the same event key changes (ON CONFLICT DO NOTHING).               *)
THEOREM CommittedContentStays == Spec => ContentIsImmutable
<1> DEFINE Stays == \A k \in Keys :
                      row[k] \notin {"absent", "inserting"} => content'[k] = content[k]
<1>1. ASSUME IInv, [Next]_vars
      PROVE  Stays
  <2>1. ASSUME NEW t \in Txns, TxnNext(t)
        PROVE  Stays
    <3>1. ASSUME NEW k \in Keys, NEW c \in Contents, NEW s \in Schedules,
                 InsertTask(t, k, c, s)
          PROVE  Stays
      BY <1>1, <3>1 DEF IInv, TypeOK, InsertTask
    <3>2. CASE Rollback(t)
      BY <3>2 DEF Rollback
    <3>3. ASSUME \/ Begin(t)
                 \/ \E k \in Keys, c \in Contents : InsertConflict(t, k, c)
                 \/ \E group \in Groups : CancelGroup(t, group)
                 \/ Commit(t)
          PROVE  content' = content
      BY <3>3 DEF Begin, InsertConflict, CancelGroup, Commit, dbVars
    <3> QED BY <2>1, <3>1, <3>2, <3>3 DEF TxnNext
  <2>2. ASSUME NEW w \in Workers, WorkerStep(w)
        PROVE  content' = content
    BY <2>2 DEF WorkerStep, StartRun, ClaimNextDue, EndRun, RenderFails, SendSucceeds,
                SendFails, MarkSent, RescheduleAfterFailure, MarkFailed, Recorded, dbVars
  <2>3. ASSUME (\E w \in Workers : Crash(w)) \/ Tick \/ UNCHANGED vars
        PROVE  content' = content
    BY <2>3 DEF Crash, Tick, vars, dbVars
  <2> QED BY <1>1, <2>1, <2>2, <2>3 DEF Next
<1>2. IInv /\ [Next]_vars => [Stays]_vars
  BY <1>1
<1> QED BY <1>2, QueueInvariant, PTL DEF Spec, ContentIsImmutable

(***************************************************************************)
(* The queue implements the lifecycle.                                     *)
(***************************************************************************)

Visible(state) == CASE state = "inserting"  -> "absent"
                    [] state = "cancelling" -> "pending"
                    [] OTHER                -> state

LEMMA VisibleIs == VisibleStatus = [k \in Keys |-> Visible(row[k])]
BY DEF VisibleStatus, Visible

LEMMA VisibleIsNext == VisibleStatus' = [k \in Keys |-> Visible(row'[k])]
BY DEF VisibleStatus, Visible

(* A worker that writes one committed row writes it for everyone. *)
LEMMA VisibleUpdate ==
  ASSUME TypeOK, NEW k \in Keys,
         NEW state \in {"pending", "processing", "sent", "failed"},
         row[k] \in {"pending", "processing"},
         row' = [row EXCEPT ![k] = state]
  PROVE  /\ VisibleStatus[k] = row[k]
         /\ VisibleStatus' = [VisibleStatus EXCEPT ![k] = state]
<1>1. VisibleStatus[k] = row[k]
  BY VisibleIs DEF Visible
<1>2. \A j \in Keys : row'[j] = (IF j = k THEN state ELSE row[j])
  BY DEF TypeOK
<1>3. Visible(state) = state
  BY DEF Visible
<1>4. \A j \in Keys : Visible(row'[j]) = (IF j = k THEN state ELSE Visible(row[j]))
  BY <1>2, <1>3
<1>5. VisibleStatus' = [j \in Keys |-> IF j = k THEN state ELSE VisibleStatus[j]]
  BY <1>4, VisibleIs, VisibleIsNext
<1>6. [VisibleStatus EXCEPT ![k] = state]
        = [j \in Keys |-> IF j = k THEN state ELSE VisibleStatus[j]]
  BY VisibleIs
<1> QED BY <1>1, <1>5, <1>6

LEMMA VisibleStutter ==
  ASSUME \A k \in Keys : Visible(row'[k]) = Visible(row[k]),
         UNCHANGED <<attempts, deliveries>>
  PROVE  UNCHANGED Lifecycle!taskVars
BY VisibleIs, VisibleIsNext DEF Lifecycle!taskVars

LEMMA EndTxnRefines ==
  ASSUME IInv, NEW t \in Txns, Commit(t) \/ Rollback(t)
  PROVE  Lifecycle!TaskNext \/ UNCHANGED Lifecycle!taskVars
<1> USE DEF Visible
<1>1. CASE Commit(t)
  <2> DEFINE mine == {k \in Keys : owner[k] = t}
             created == {k \in mine : row[k] = "inserting"}
             cancelled == {k \in mine : row[k] = "cancelling"}
  <2>1. /\ \A k \in created : VisibleStatus[k] = "absent"
        /\ \A k \in cancelled : VisibleStatus[k] = "pending"
    BY VisibleIs
  <2>2. \A k \in Keys : row'[k] = (IF k \in created THEN "pending"
                                   ELSE IF k \in cancelled THEN "cancelled" ELSE row[k])
    BY <1>1 DEF Commit, EndTxn
  <2>3. \A k \in Keys : k \notin created /\ k \notin cancelled =>
           Visible(row'[k]) = Visible(row[k])
    BY <2>2
  <2>4. \A k \in Keys :
          /\ k \in created => Visible(row'[k]) = "pending"
          /\ k \in cancelled => Visible(row'[k]) = "cancelled"
    BY <2>2
  <2>5. VisibleStatus' = [k \in Keys |-> CASE k \in created   -> "pending"
                                           [] k \in cancelled -> "cancelled"
                                           [] OTHER           -> VisibleStatus[k]]
    <3> HIDE DEF Visible
    <3>1. \A k \in Keys : ~(k \in created /\ k \in cancelled)
      OBVIOUS
    <3> HIDE DEF created, cancelled
    <3>2. \A k \in Keys : Visible(row'[k]) = CASE k \in created   -> "pending"
                                               [] k \in cancelled -> "cancelled"
                                               [] OTHER           -> VisibleStatus[k]
      BY <2>3, <2>4, <3>1, VisibleIs
    <3> QED BY <3>2, VisibleIsNext
  <2>6. UNCHANGED <<attempts, deliveries>>
    BY <1>1 DEF Commit, EndTxn
  <2>7. created \in SUBSET Keys /\ cancelled \in SUBSET Keys
    OBVIOUS
  <2>8. Lifecycle!CommitTasks(created, cancelled)
    BY <2>1, <2>5, <2>6 DEF Lifecycle!CommitTasks
  <2> QED BY <2>7, <2>8 DEF Lifecycle!TaskNext
<1>2. CASE Rollback(t)
  <2>1. \A k \in Keys : \/ row'[k] = row[k]
                        \/ row[k] = "inserting" /\ row'[k] = "absent"
                        \/ row[k] = "cancelling" /\ row'[k] = "pending"
    BY <1>2 DEF Rollback, EndTxn
  <2>2. \A k \in Keys : Visible(row'[k]) = Visible(row[k])
    BY <2>1
  <2>3. UNCHANGED <<attempts, deliveries>>
    BY <1>2 DEF Rollback, EndTxn
  <2> HIDE DEF Visible
  <2> QED BY <2>2, <2>3, VisibleStutter
<1> QED BY <1>1, <1>2

LEMMA TxnRefines ==
  ASSUME IInv, NEW t \in Txns, TxnNext(t)
  PROVE  Lifecycle!TaskNext \/ UNCHANGED Lifecycle!taskVars
<1> SUFFICES ASSUME ~Commit(t), ~Rollback(t)
             PROVE  UNCHANGED Lifecycle!taskVars
  BY EndTxnRefines
<1>1. UNCHANGED <<attempts, deliveries>>
  BY DEF TxnNext, Begin, InsertTask, InsertConflict, CancelGroup
<1>2. \A k \in Keys : Visible(row'[k]) = Visible(row[k])
  <2>1. CASE Begin(t) \/ \E k \in Keys, c \in Contents : InsertConflict(t, k, c)
    BY <2>1 DEF Begin, InsertConflict, dbVars
  <2>2. ASSUME NEW k \in Keys, NEW c \in Contents, NEW s \in Schedules,
               InsertTask(t, k, c, s)
        PROVE  \A j \in Keys : Visible(row'[j]) = Visible(row[j])
    BY <2>2 DEF InsertTask, Visible, IInv, TypeOK
  <2>3. ASSUME NEW group \in Groups, CancelGroup(t, group)
        PROVE  \A j \in Keys : Visible(row'[j]) = Visible(row[j])
    BY <2>3 DEF CancelGroup, Visible
  <2> QED BY <2>1, <2>2, <2>3 DEF TxnNext
<1> QED BY <1>1, <1>2, VisibleStutter

LEMMA WorkerRefines ==
  ASSUME IInv, NEW w \in Workers, WorkerStep(w)
  PROVE  Lifecycle!TaskNext \/ UNCHANGED Lifecycle!taskVars
<1> DEFINE k == task[w]
<1> USE DEF Lifecycle!TaskNext, Lifecycle!WorkOnTask
<1>1. CASE StartRun(w) \/ EndRun(w) \/ RenderFails(w)
  <2>1. UNCHANGED <<row, attempts, deliveries>>
    BY <1>1 DEF StartRun, EndRun, RenderFails, dbVars
  <2> QED BY <2>1, VisibleStutter
<1>2. ASSUME NEW j \in Keys, ClaimNextDue(w, j)
      PROVE  Lifecycle!TaskNext
  <2>1. row[j] = "pending" /\ row' = [row EXCEPT ![j] = "processing"]
    BY <1>2 DEF ClaimNextDue, Oldest, Due
  <2>2. Lifecycle!TakeTask(j)
    BY <1>2, <2>1, VisibleUpdate DEF IInv, ClaimNextDue, Lifecycle!TakeTask
  <2> QED BY <2>2
<1>3. pc[w] \in Busy => /\ k \in Keys
                        /\ row[k] = "processing"
                        /\ VisibleStatus[k] = "processing"
  BY VisibleIs DEF IInv, ClaimIsExclusive, Visible
<1>4. ASSUME \/ SendSucceeds(w)
             \/ \E retryable, delivered \in BOOLEAN : SendFails(w, retryable, delivered)
      PROVE  Lifecycle!TaskNext \/ UNCHANGED Lifecycle!taskVars
  <2>1. /\ pc[w] = "claimed"
        /\ UNCHANGED <<row, attempts>>
        /\ \/ deliveries' = deliveries
           \/ deliveries' = [deliveries EXCEPT ![k] = @ + 1]
    BY <1>4 DEF SendSucceeds, SendFails, dbVars
  <2>2. deliveries[k] <= attempts[k] /\ k \in Keys
    BY <2>1 DEF IInv, ClaimIsExclusive, Busy
  <2>3. VisibleStatus' = VisibleStatus
    BY <2>1, VisibleIs, VisibleIsNext
  <2>4. CASE deliveries' = deliveries
    BY <2>1, <2>3, <2>4 DEF Lifecycle!taskVars
  <2>5. CASE deliveries' = [deliveries EXCEPT ![k] = @ + 1]
    <3>1. Lifecycle!DeliverTask(k)
      BY <2>1, <2>2, <2>3, <2>5, <1>3 DEF Lifecycle!DeliverTask, Busy
    <3> QED BY <3>1, <2>2
  <2> QED BY <2>1, <2>4, <2>5
<1>5. CASE MarkSent(w)
  <2>1. k \in Keys /\ deliveries[k] > 0 /\ pc[w] \in Busy
    BY <1>5 DEF MarkSent, IInv, ClaimIsExclusive, Busy
  <2>2. Lifecycle!FinishTask(k)
    BY <1>5, <1>3, <2>1, VisibleUpdate
       DEF IInv, MarkSent, Recorded, Lifecycle!FinishTask
  <2> QED BY <2>1, <2>2
<1>6. CASE RescheduleAfterFailure(w)
  <2>1. k \in Keys /\ pc[w] \in Busy
    BY <1>6 DEF RescheduleAfterFailure, IInv, ClaimIsExclusive, Busy
  <2>2. Lifecycle!RetryTask(k)
    BY <1>6, <1>3, <2>1, VisibleUpdate
       DEF IInv, RescheduleAfterFailure, Recorded, Lifecycle!RetryTask
  <2> QED BY <2>1, <2>2
<1>7. CASE MarkFailed(w)
  <2>1. k \in Keys /\ pc[w] \in Busy
    BY <1>7 DEF MarkFailed, IInv, ClaimIsExclusive, Busy
  <2>2. Lifecycle!FailTask(k)
    BY <1>7, <1>3, <2>1, VisibleUpdate
       DEF IInv, MarkFailed, Recorded, Lifecycle!FailTask
  <2> QED BY <2>1, <2>2
<1> QED BY <1>1, <1>2, <1>4, <1>5, <1>6, <1>7 DEF WorkerStep

LEMMA StepRefines ==
  ASSUME IInv, [Next]_vars
  PROVE  [Lifecycle!TaskNext]_(Lifecycle!taskVars)
<1>1. ASSUME (\E w \in Workers : Crash(w)) \/ Tick \/ UNCHANGED vars
      PROVE  UNCHANGED Lifecycle!taskVars
  <2>1. UNCHANGED <<row, attempts, deliveries>>
    BY <1>1 DEF Crash, Tick, vars, dbVars
  <2> QED BY <2>1, VisibleStutter
<1> QED BY <1>1, TxnRefines, WorkerRefines DEF Next

LEMMA InitRefines == Init => Lifecycle!TaskInit
<1> SUFFICES ASSUME Init
             PROVE  Lifecycle!TaskInit
  OBVIOUS
<1>1. \A k \in Keys : Visible(row[k]) = "absent"
  BY DEF Init, Visible
<1>2. VisibleStatus = [k \in Keys |-> "absent"]
  BY <1>1, VisibleIs
<1> QED BY <1>2 DEF Init, Lifecycle!TaskInit

(* The queue of the code implements the task states its documentation      *)
(* promises (docs/email-queue.md): in particular a final state is final, a *)
(* cancelled task is never delivered, and a transaction's tasks appear and *)
(* disappear together.                                                     *)
THEOREM QueueImplementsLifecycle == Spec => ImplementsLifecycle
<1>1. Init => Lifecycle!TaskInit
  BY InitRefines
<1>2. IInv /\ [Next]_vars => [Lifecycle!TaskNext]_(Lifecycle!taskVars)
  BY StepRefines
<1> QED BY <1>1, <1>2, QueueInvariant, PTL
        DEF Spec, ImplementsLifecycle, Lifecycle!TaskSpec

(* A final state is final, in the rows as everybody sees them: a task that *)
(* was sent, given up or cancelled is never claimed, delivered or counted  *)
(* again (the status conditions of emailTask.repository.ts).               *)
FinalIsFinal ==
  [][\A k \in Keys : VisibleStatus[k] \in Lifecycle!Terminal =>
       UNCHANGED <<VisibleStatus[k], attempts[k], deliveries[k]>>]_vars

THEOREM FinalStatesAreFinal == Spec => FinalIsFinal
<1> DEFINE Final(k) == VisibleStatus[k] \in Lifecycle!Terminal
           Same(k) == UNCHANGED <<VisibleStatus[k], attempts[k], deliveries[k]>>
<1>1. ASSUME IInv, [Next]_vars, NEW k \in Keys, Final(k)
      PROVE  Same(k)
  <2>1. VisibleStatus = [j \in Keys |-> VisibleStatus[j]]
    BY VisibleIs
  <2>2. attempts = [j \in Keys |-> attempts[j]] /\ deliveries = [j \in Keys |-> deliveries[j]]
    BY <1>1 DEF IInv, TypeOK
  <2>3. ASSUME NEW created \in SUBSET Keys, NEW cancelled \in SUBSET Keys,
               Lifecycle!CommitTasks(created, cancelled)
        PROVE  Same(k)
    BY <1>1, <2>3 DEF Lifecycle!CommitTasks, Lifecycle!Terminal
  <2>4. ASSUME NEW j \in Keys, Lifecycle!WorkOnTask(j)
        PROVE  Same(k)
    <3>1. j # k
      BY <1>1, <2>4 DEF Lifecycle!WorkOnTask, Lifecycle!TakeTask, Lifecycle!DeliverTask,
         Lifecycle!FinishTask, Lifecycle!RetryTask, Lifecycle!FailTask, Lifecycle!Terminal
    <3>2. \E s, a, d : /\ VisibleStatus' = [VisibleStatus EXCEPT ![j] = s]
                       /\ attempts' = [attempts EXCEPT ![j] = a]
                       /\ deliveries' = [deliveries EXCEPT ![j] = d]
      <4>1. VisibleStatus = [VisibleStatus EXCEPT ![j] = VisibleStatus[j]]
        BY <2>1
      <4>2. /\ attempts = [attempts EXCEPT ![j] = attempts[j]]
            /\ deliveries = [deliveries EXCEPT ![j] = deliveries[j]]
        BY <2>2
      <4> QED BY <2>4, <4>1, <4>2 DEF Lifecycle!WorkOnTask, Lifecycle!TakeTask,
             Lifecycle!DeliverTask, Lifecycle!FinishTask, Lifecycle!RetryTask,
             Lifecycle!FailTask
    <3> QED BY <2>1, <2>2, <3>1, <3>2
  <2>5. [Lifecycle!TaskNext]_(Lifecycle!taskVars)
    BY <1>1, StepRefines
  <2> QED BY <2>3, <2>4, <2>5 DEF Lifecycle!TaskNext, Lifecycle!taskVars
<1>2. IInv /\ [Next]_vars =>
        [\A k \in Keys : VisibleStatus[k] \in Lifecycle!Terminal =>
           UNCHANGED <<VisibleStatus[k], attempts[k], deliveries[k]>>]_vars
  BY <1>1
<1> QED BY <1>2, QueueInvariant, PTL DEF Spec, FinalIsFinal

(***************************************************************************)
(* A stranded task                                                         *)
(***************************************************************************)

(* A task whose run stopped is in processing and nobody holds it. *)
Abandoned ==
  \A k \in lost : row[k] = "processing" /\ \A w \in Workers : pc[w] \in Busy => task[w] # k

LEMMA LostStay ==
  ASSUME IInv, Abandoned, [Next]_vars, NEW k \in lost
  PROVE  k \in lost' /\ UNCHANGED <<row[k], attempts[k], deliveries[k]>>
<1>0. /\ TypeOK /\ k \in Keys /\ row[k] = "processing"
      /\ \A w \in Workers : pc[w] \in Busy => task[w] # k /\ task[w] \in Keys
  BY DEF IInv, TypeOK, Abandoned, ClaimIsExclusive
<1>1. ASSUME NEW t \in Txns, TxnNext(t)
      PROVE  row'[k] = row[k] /\ UNCHANGED <<attempts, deliveries, lost>>
  <2>1. CASE Begin(t) \/ \E j \in Keys, c \in Contents : InsertConflict(t, j, c)
    BY <2>1 DEF Begin, InsertConflict, dbVars
  <2>2. ASSUME NEW j \in Keys, NEW c \in Contents, NEW s \in Schedules, InsertTask(t, j, c, s)
        PROVE  row'[k] = row[k] /\ UNCHANGED <<attempts, deliveries, lost>>
    BY <1>0, <2>2 DEF TypeOK, InsertTask
  <2>3. ASSUME NEW group \in Groups, CancelGroup(t, group)
        PROVE  row'[k] = row[k] /\ UNCHANGED <<attempts, deliveries, lost>>
    BY <1>0, <2>3 DEF CancelGroup
  <2>4. CASE Commit(t) \/ Rollback(t)
    BY <1>0, <2>4 DEF Commit, Rollback, EndTxn
  <2> QED BY <1>1, <2>1, <2>2, <2>3, <2>4 DEF TxnNext
<1>2. ASSUME NEW w \in Workers, WorkerStep(w)
      PROVE  UNCHANGED <<row[k], attempts[k], deliveries[k], lost>>
  <2>1. CASE StartRun(w) \/ EndRun(w) \/ RenderFails(w)
    BY <2>1 DEF StartRun, EndRun, RenderFails, dbVars
  <2>2. ASSUME NEW j \in Keys, ClaimNextDue(w, j)
        PROVE  UNCHANGED <<row[k], attempts[k], deliveries[k], lost>>
    BY <1>0, <2>2 DEF TypeOK, ClaimNextDue, Oldest, Due
  <2>3. CASE SendSucceeds(w) \/ \E retryable, delivered \in BOOLEAN :
                                  SendFails(w, retryable, delivered)
    <3>1. task[w] # k /\ UNCHANGED <<row, attempts, lost>>
      BY <1>0, <2>3 DEF SendSucceeds, SendFails, Busy, dbVars
    <3>2. \/ deliveries' = deliveries
          \/ deliveries' = [deliveries EXCEPT ![task[w]] = @ + 1]
      BY <2>3 DEF SendSucceeds, SendFails
    <3> QED BY <1>0, <3>1, <3>2 DEF TypeOK
  <2>4. CASE MarkSent(w) \/ RescheduleAfterFailure(w) \/ MarkFailed(w)
    <3>1. task[w] # k /\ UNCHANGED <<deliveries, lost>>
      BY <1>0, <2>4 DEF MarkSent, RescheduleAfterFailure, MarkFailed, Recorded, Busy
    <3> QED BY <1>0, <2>4, <3>1 DEF TypeOK, MarkSent, RescheduleAfterFailure, MarkFailed
  <2> QED BY <1>2, <2>1, <2>2, <2>3, <2>4 DEF WorkerStep
<1>3. ASSUME (\E w \in Workers : Crash(w)) \/ Tick \/ UNCHANGED vars
      PROVE  UNCHANGED <<row, attempts, deliveries>> /\ lost \subseteq lost'
  BY <1>3 DEF Crash, Tick, vars, dbVars
<1> QED BY <1>1, <1>2, <1>3 DEF Next

LEMMA AbandonedInv == IInv /\ Abandoned /\ [Next]_vars => Abandoned'
<1> SUFFICES ASSUME IInv, Abandoned, [Next]_vars, NEW k \in lost'
             PROVE  row'[k] = "processing" /\ \A w \in Workers : pc'[w] \in Busy => task'[w] # k
  BY DEF Abandoned
<1> USE DEF Busy
<1>1. CASE k \in lost
  <2>1. row'[k] = "processing" /\ row[k] = "processing"
    BY <1>1, LostStay DEF Abandoned
  <2>2. \A w \in Workers : pc[w] \in Busy => task[w] # k
    BY <1>1 DEF Abandoned
  <2>3. ASSUME NEW w \in Workers, WorkerStep(w), NEW v \in Workers, pc'[v] \in Busy
        PROVE  task'[v] # k
    <3>1. CASE \E j \in Keys : ClaimNextDue(w, j)
      <4>1. PICK j \in Keys : ClaimNextDue(w, j)
        BY <3>1
      <4>2. j # k /\ \A u \in Workers : /\ task'[u] = IF u = w THEN j ELSE task[u]
                                        /\ u # w => pc'[u] = pc[u]
        BY <2>1, <4>1 DEF IInv, TypeOK, ClaimNextDue, Oldest, Due
      <4> QED BY <2>2, <2>3, <4>2
    <3>2. CASE \/ StartRun(w) \/ EndRun(w) \/ RenderFails(w) \/ SendSucceeds(w)
               \/ \E retryable, delivered \in BOOLEAN : SendFails(w, retryable, delivered)
      <4>1. task' = task /\ (pc[v] \in Busy \/ pc'[v] \notin Busy)
        BY <3>2, SMTT(30) DEF IInv, TypeOK, StartRun, EndRun, RenderFails, SendSucceeds, SendFails
      <4> QED BY <2>2, <2>3, <4>1
    <3>3. CASE MarkSent(w) \/ RescheduleAfterFailure(w) \/ MarkFailed(w)
      <4>1. Recorded(w)
        BY <3>3 DEF MarkSent, RescheduleAfterFailure, MarkFailed
      <4>2. v # w /\ task'[v] = task[v] /\ pc'[v] = pc[v]
        BY <2>3, <4>1 DEF IInv, TypeOK, Recorded
      <4> QED BY <2>2, <2>3, <4>2
    <3> QED BY <2>3, <3>1, <3>2, <3>3 DEF WorkerStep
  <2>4. ASSUME NEW w \in Workers, Crash(w), NEW v \in Workers, pc'[v] \in Busy
        PROVE  task'[v] # k
    BY <2>2, <2>4 DEF IInv, TypeOK, Crash
  <2>5. ASSUME (\E t \in Txns : TxnNext(t)) \/ Tick \/ UNCHANGED vars
        PROVE  UNCHANGED <<pc, task>>
    BY <2>5 DEF TxnNext, Begin, InsertTask, InsertConflict, CancelGroup, Commit, Rollback,
                EndTxn, Tick, vars, workerVars
  <2> QED BY <2>1, <2>2, <2>3, <2>4, <2>5 DEF Next
<1>2. CASE k \notin lost
  <2>1. PICK w \in Workers : Crash(w) /\ pc[w] \in Busy /\ k = task[w]
    <3>1. PICK w \in Workers : Crash(w)
      BY <1>2 DEF Next, TxnNext, Begin, InsertTask, InsertConflict, CancelGroup, Commit,
         Rollback, EndTxn, Tick, vars, WorkerStep, StartRun, ClaimNextDue, EndRun,
         RenderFails, SendSucceeds, SendFails, MarkSent, RescheduleAfterFailure, MarkFailed,
         Recorded
    <3> QED BY <1>2, <3>1 DEF Crash
  <2>2. row[k] = "processing" /\ \A v \in Workers : pc[v] \in Busy /\ task[v] = k => v = w
    BY <2>1 DEF IInv, ClaimIsExclusive
  <2>3. /\ row' = row /\ pc'[w] = "idle"
        /\ \A v \in Workers : v # w => pc'[v] = pc[v] /\ task'[v] = task[v]
    BY <2>1 DEF IInv, TypeOK, Crash, dbVars
  <2> QED BY <2>2, <2>3
<1> QED BY <1>1, <1>2

LEMMA LostAreAbandoned == Spec => []Abandoned
<1>1. Init => Abandoned
  BY DEF Init, Abandoned
<1> QED BY <1>1, AbandonedInv, QueueInvariant, PTL DEF Spec

(* A task whose worker stopped between the claim and the UPDATE that       *)
(* records the outcome is beyond the program for good: it stays in         *)
(* processing, no worker claims, delivers, retries or fails it again, no   *)
(* service cancels it, and its attempts are not counted any further.       *)
StrandedStays ==
  [][\A k \in lost : k \in lost' /\ UNCHANGED <<row[k], attempts[k], deliveries[k]>>]_vars

THEOREM StrandedTasksStay == Spec => StrandedStays
<1>1. IInv /\ Abandoned /\ [Next]_vars =>
        [\A k \in lost : k \in lost' /\ UNCHANGED <<row[k], attempts[k], deliveries[k]>>]_vars
  BY LostStay
<1> QED BY <1>1, QueueInvariant, LostAreAbandoned, PTL DEF Spec, StrandedStays

(***************************************************************************)
(* The order of the claims                                                 *)
(***************************************************************************)

(* email_tasks.id is a primary key drawn from a sequence. *)
IdsDiffer ==
  /\ \A k \in Keys : rowId[k] < nextId
  /\ \A j, k \in Keys : row[j] # "absent" /\ row[k] # "absent" /\ j # k => rowId[j] # rowId[k]

LEMMA IdsDifferInv == IInv /\ IdsDiffer /\ [Next]_vars => IdsDiffer'
<1> SUFFICES ASSUME IInv, IdsDiffer, [Next]_vars PROVE IdsDiffer'
  OBVIOUS
<1>0. TypeOK
  BY DEF IInv
<1>1. ASSUME NEW t \in Txns, NEW k \in Keys, NEW c \in Contents, NEW s \in Schedules,
             InsertTask(t, k, c, s)
      PROVE  IdsDiffer'
  <2>1. /\ \A j \in Keys : rowId'[j] = IF j = k THEN nextId ELSE rowId[j]
        /\ \A j \in Keys : j # k => row'[j] = row[j]
        /\ nextId' = nextId + 1 /\ nextId \in Nat /\ \A j \in Keys : rowId[j] \in Nat
    BY <1>0, <1>1 DEF TypeOK, InsertTask
  <2>2. \A j \in Keys : rowId[j] < nextId /\ rowId'[j] < nextId'
    BY <2>1 DEF IdsDiffer
  <2>3. ASSUME NEW i \in Keys, NEW j \in Keys, row'[i] # "absent", row'[j] # "absent", i # j
        PROVE  rowId'[i] # rowId'[j]
    <3>1. CASE i = k
      BY <2>1, <2>2, <2>3, <3>1
    <3>2. CASE j = k
      BY <2>1, <2>2, <2>3, <3>2
    <3>3. CASE i # k /\ j # k
      BY <2>1, <2>3, <3>3 DEF IdsDiffer
    <3> QED BY <3>1, <3>2, <3>3
  <2> QED BY <2>2, <2>3 DEF IdsDiffer
<1>2. ASSUME UNCHANGED <<rowId, nextId>>,
             \A k \in Keys : row'[k] # "absent" => row[k] # "absent"
      PROVE  IdsDiffer'
  BY <1>2 DEF IdsDiffer
<1>3. ASSUME NEW t \in Txns,
             \/ Begin(t) \/ \E k \in Keys, c \in Contents : InsertConflict(t, k, c)
             \/ \E group \in Groups : CancelGroup(t, group)
             \/ Commit(t) \/ Rollback(t)
      PROVE  /\ UNCHANGED <<rowId, nextId>>
             /\ \A k \in Keys : row'[k] # "absent" => row[k] # "absent"
  BY <1>3 DEF Begin, InsertConflict, CancelGroup, Commit, Rollback, EndTxn, dbVars
<1>4. ASSUME NEW w \in Workers, WorkerStep(w)
      PROVE  /\ UNCHANGED <<rowId, nextId>>
             /\ \A k \in Keys : row'[k] # "absent" => row[k] # "absent"
  <2>1. UNCHANGED <<rowId, nextId>>
    BY <1>4 DEF WorkerStep, StartRun, ClaimNextDue, EndRun, RenderFails, SendSucceeds,
                SendFails, MarkSent, RescheduleAfterFailure, MarkFailed, Recorded, dbVars
  <2>2. \/ row' = row
        \/ \E k \in Keys, s \in RowStates : row[k] # "absent" /\ row' = [row EXCEPT ![k] = s]
    <3>1. ASSUME NEW k \in Keys, ClaimNextDue(w, k)
          PROVE  row[k] # "absent" /\ row' = [row EXCEPT ![k] = "processing"]
      BY <3>1 DEF ClaimNextDue, Oldest, Due
    <3>2. ASSUME MarkSent(w) \/ RescheduleAfterFailure(w) \/ MarkFailed(w)
          PROVE  /\ task[w] \in Keys /\ row[task[w]] = "processing"
                 /\ \E s \in {"sent", "pending", "failed"} : row' = [row EXCEPT ![task[w]] = s]
      BY <3>2 DEF IInv, ClaimIsExclusive, Busy, MarkSent, RescheduleAfterFailure, MarkFailed
    <3>3. ASSUME \/ StartRun(w) \/ EndRun(w) \/ RenderFails(w) \/ SendSucceeds(w)
                 \/ \E retryable, delivered \in BOOLEAN : SendFails(w, retryable, delivered)
          PROVE  row' = row
      BY <3>3 DEF StartRun, EndRun, RenderFails, SendSucceeds, SendFails, dbVars
    <3> QED BY <1>4, <3>1, <3>2, <3>3 DEF WorkerStep, RowStates
  <2> QED BY <1>0, <2>1, <2>2 DEF TypeOK
<1>5. ASSUME (\E w \in Workers : Crash(w)) \/ Tick \/ UNCHANGED vars
      PROVE  UNCHANGED <<row, rowId, nextId>>
  BY <1>5 DEF Crash, Tick, vars, dbVars
<1> QED BY <1>1, <1>2, <1>3, <1>4, <1>5 DEF Next, TxnNext

(* Among the due tasks one is first, however many there are. *)
LEMMA OldestIs ==
  ASSUME IInv, IdsDiffer, NEW d \in Keys, Due(d)
  PROVE  \E k \in Keys : Oldest(k) /\ \A j \in Keys : Oldest(j) => j = k
<1> DEFINE T == {scheduledAt[k] : k \in {k \in Keys : Due(k)}}
<1>1. \A k \in Keys : scheduledAt[k] \in Nat /\ rowId[k] \in Nat
  BY DEF IInv, TypeOK
<1>2. PICK s \in T : \A m \in T : s <= m
  <2>1. T \subseteq Nat /\ T # {}
    BY <1>1
  <2> HIDE DEF T
  <2> QED BY <2>1, LeastNat
<1> DEFINE First == {k \in Keys : Due(k) /\ scheduledAt[k] = s}
           I == {rowId[k] : k \in First}
<1>3. PICK i \in I : \A m \in I : i <= m
  <2>1. I \subseteq Nat /\ I # {}
    BY <1>1
  <2> HIDE DEF I
  <2> QED BY <2>1, LeastNat
<1>4. PICK k \in First : rowId[k] = i
  OBVIOUS
<1>5. ASSUME NEW j \in Keys, Due(j)
      PROVE  s \in Nat /\ (s < scheduledAt[j] \/ (scheduledAt[j] = s /\ rowId[k] <= rowId[j]))
  <2>1. scheduledAt[j] \in T /\ (scheduledAt[j] = s => rowId[j] \in I)
    BY <1>5
  <2>2. s \in Nat /\ s <= scheduledAt[j] /\ scheduledAt[j] \in Nat
    BY <1>1, <1>2, <2>1
  <2>3. scheduledAt[j] = s => rowId[k] <= rowId[j]
    BY <1>3, <1>4, <2>1
  <2> QED BY <2>2, <2>3
<1>6. Oldest(k)
  BY <1>1, <1>4, <1>5 DEF Oldest, Before
<1>7. ASSUME NEW j \in Keys, Oldest(j), j # k
      PROVE  FALSE
  <2>1. row[j] # "absent" /\ row[k] # "absent"
    BY <1>6, <1>7 DEF Oldest, Due
  <2>2. rowId[j] # rowId[k]
    BY <1>7, <2>1 DEF IdsDiffer
  <2>3. ~ Before(j, k) /\ ~ Before(k, j)
    BY <1>6, <1>7 DEF Oldest
  <2> QED BY <1>1, <2>2, <2>3 DEF Before
<1> QED BY <1>6, <1>7

(* ORDER BY scheduled_at ASC, id ASC decides: whenever a task is due,      *)
(* exactly one is next, the same whichever run of the worker asks.         *)
ClaimIsDecided ==
  (\E k \in Keys : Due(k)) =>
    \E k \in Keys : Oldest(k) /\ \A j \in Keys : Oldest(j) => j = k

THEOREM ClaimsAreDecided == Spec => []ClaimIsDecided
<1>1. Init => IdsDiffer
  BY DEF Init, IdsDiffer
<1>2. IInv /\ IdsDiffer => ClaimIsDecided
  BY OldestIs DEF ClaimIsDecided
<1> QED BY <1>1, <1>2, IdsDifferInv, QueueInvariant, PTL DEF Spec
=============================================================================
