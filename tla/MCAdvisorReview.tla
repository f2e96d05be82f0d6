--------------------------- MODULE MCAdvisorReview ---------------------------
(* A small instance of AdvisorReview for TLC: one contested application.    *)
EXTENDS AdvisorReview, TLC

CONSTANTS a1, n1, j1

MCNotices == [a \in Apps |-> {n1}]
MCRejections == [a \in Apps |-> j1]
=============================================================================
