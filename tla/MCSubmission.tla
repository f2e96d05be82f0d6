---------------------------- MODULE MCSubmission ----------------------------
(* Small instances of Submission for TLC.                                   *)
EXTENDS Submission

CONSTANTS q1, q2, v1

MCForm(type, maximum, requested, salaries, rule) ==
  [type |-> type, minimum |-> 1, maximum |-> maximum, requested |-> requested,
   salaries |-> salaries, rule |-> rule]

Half == Decimal(0, <<5>>)
One == Decimal(1, <<>>)

(* A certificate for which the administrator allows two participants. *)
MCTwoOnCertificate == {
  MCForm("certificate", 2, <<One, One>>, <<>>, [points |-> Decimal(2, <<>>)])}

(* A total of 1.5 shared by two; two salaries that are worth 0.75 and are  *)
(* capped at 0.5; an exhibition; a certificate with too many participants, *)
(* and one with as many as the administrator allows.                       *)
MCForms == {
  MCForm("competition", 10, <<Half, One>>, <<>>,
         [perPerson |-> FALSE, points |-> Decimal(1, <<5, 0>>)]),
  MCForm("project_participation", 1, <<One>>, <<199, 150>>,
         [salaryUnit |-> 100, points |-> Decimal(0, <<2, 5>>), capped |-> TRUE,
          maximum |-> Half]),
  MCForm("external_exhibition", 15, <<Half, One>>, <<>>,
         [minimum |-> Half, maximum |-> One]),
  MCForm("certificate", 1, <<One, One>>, <<>>, [points |-> Decimal(2, <<>>)])}
  \cup MCTwoOnCertificate
=============================================================================
