------------------------ MODULE MCDirectorAssignment ------------------------
(* A small instance of DirectorAssignment for TLC.                         *)
EXTENDS DirectorAssignment, TLC

CONSTANTS v1, v2, v3, r1, r2, r3
=============================================================================
