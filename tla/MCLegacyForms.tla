--------------------------- MODULE MCLegacyForms ---------------------------
(* A small instance of LegacyForms for TLC.                                *)
EXTENDS LegacyForms

CONSTANTS r1, r2, j1, j2, s1
=============================================================================
