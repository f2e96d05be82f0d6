--------------------------- MODULE MCRuleVersions ---------------------------
(* A small instance of RuleVersions for TLC.                               *)
EXTENDS RuleVersions

CONSTANTS c1, c2, d1, s1
=============================================================================
