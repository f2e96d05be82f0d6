--------------------- MODULE MCApplicationInstructions ---------------------
(* A small instance of ApplicationInstructions for TLC.                    *)
EXTENDS ApplicationInstructions

CONSTANTS c1, c2, u1, u2, t1, t2
=============================================================================
