---------------------------- MODULE MCEmailQueue ----------------------------
(* Small instances of EmailQueue for TLC.                                  *)
EXTENDS EmailQueue, TLC

CONSTANTS k1, k2, t1, t2, w1, w2, c1, c2

MCGroups == {{k1, k2}}

(* The ladder of processEmailTasks.ts keeps its shape: each delay is       *)
(* longer than the one before.                                             *)
MCRetryDelay == [n \in 1..(MaxAttempts - 1) |-> n]

(* Runs and transactions are interchangeable; keys are not, for the group  *)
(* and the claim order tell them apart.                                    *)
MCSymmetry == Permutations(Workers) \cup Permutations(Txns)
=============================================================================
