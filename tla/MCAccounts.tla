----------------------------- MODULE MCAccounts -----------------------------
(* A small instance of Accounts for TLC.  There is no symmetry: users are  *)
(* locked in the order of their ids, and the run checks liveness.          *)
EXTENDS Accounts, TLC

CONSTANTS x1, x2, x3, s1, r1, r2
=============================================================================
