-------------------------- MODULE PointCalculator --------------------------
(***************************************************************************)
(* The points of an application (src/domain/pointCalculator.ts and its     *)
(* use in submitApplication).  A form is what the applicant sends with the *)
(* rules in force: its type, how many participants the participant rule    *)
(* allows, the points each participant asks for, the salaries of a         *)
(* project, and the point rule.                                            *)
(*                                                                         *)
(* Points are decimals with up to two places, written as the whole part    *)
(* and the digits after the point; the program computes with hundredths.   *)
(***************************************************************************)
EXTENDS Naturals, Sequences

Decimal(whole, fraction) == [whole |-> whole, fraction |-> fraction]

Digits == 0..9
Decimals ==
  [whole : Nat,
   fraction : {<<>>} \cup {<<d>> : d \in Digits} \cup {<<d, e>> : d, e \in Digits}]

(* Mutant: the digits are not padded to two. *)
MutantUnpadded(p) ==
  p.whole * 100 + CASE Len(p.fraction) = 0 -> 0
                    [] Len(p.fraction) = 1 -> p.fraction[1]
                    [] Len(p.fraction) = 2 -> p.fraction[1] * 10 + p.fraction[2]

PointsToUnits(p) ==
  p.whole * 100 + CASE Len(p.fraction) = 0 -> 0
                    [] Len(p.fraction) = 1 -> p.fraction[1] * 10
                    [] Len(p.fraction) = 2 -> p.fraction[1] * 10 + p.fraction[2]

UnitsToPoints(units) ==
  Decimal(units \div 100, <<(units % 100) \div 10, units % 10>>)

(* reduce((sum, value) => sum + value, 0), as far as each element. *)
Total(s) ==
  LET sum[i \in 0..Len(s)] == IF i = 0 THEN 0 ELSE sum[i - 1] + s[i]
  IN sum[Len(s)]

Units(requested) == [i \in DOMAIN requested |-> PointsToUnits(requested[i])]
RequestedUnits(f) == Total(Units(f.requested))

(* calculateCompetitionPoints, calculateExhibitionPoints: the participants *)
(* say how many points they ask for, and the rule is a check.              *)
CompetitionAccepts(f) ==
  IF f.rule.perPerson
    THEN \A i \in DOMAIN f.requested :
           PointsToUnits(f.requested[i]) = PointsToUnits(f.rule.points)
    ELSE RequestedUnits(f) = PointsToUnits(f.rule.points)

ExhibitionAccepts(f) ==
  \A i \in DOMAIN f.requested :
    PointsToUnits(f.requested[i]) \in
      PointsToUnits(f.rule.minimum) .. PointsToUnits(f.rule.maximum)

(* calculateProjectPoints: whole salary units count, up to a maximum. *)
SalaryUnits(f) == (Total(f.salaries) \div f.rule.salaryUnit) * PointsToUnits(f.rule.points)

ProjectUnits(f) ==
  LET most == PointsToUnits(f.rule.maximum)
  IN IF f.rule.capped /\ SalaryUnits(f) > most THEN most ELSE SalaryUnits(f)

(* The types whose points follow from the rule alone. *)
Computed(f) == f.type \in {"project_participation", "certificate"}

(* Neither validateParticipantRule nor the calculation throws. *)
Accepts(f) ==
  /\ Len(f.requested) \in f.minimum .. f.maximum
  /\ f.type = "competition" => CompetitionAccepts(f)
  /\ f.type = "external_exhibition" => ExhibitionAccepts(f)
  /\ f.type = "project_participation" => ProjectUnits(f) > 0

RequestedTotal(f) ==
  UnitsToPoints(CASE f.type = "project_participation" -> ProjectUnits(f)
                  [] f.type = "certificate"           -> PointsToUnits(f.rule.points)
                  [] OTHER                            -> RequestedUnits(f))

(* The points of the participants' rows: computed ones replace what the    *)
(* first participant asked for.                                            *)
ParticipantPoints(f) ==
  IF Computed(f) THEN [f.requested EXCEPT ![1] = RequestedTotal(f)] ELSE f.requested

(* What the schema lets through, with rules the database can hold. *)
ValidForm(f) ==
  /\ f.minimum \in Nat \ {0} /\ f.maximum \in Nat
  /\ f.requested \in Seq(Decimals)
  /\ \A i \in DOMAIN f.requested : PointsToUnits(f.requested[i]) > 0
  /\ \/ /\ f.type \in {"competition", "certificate"} /\ f.rule.points \in Decimals
        /\ f.type = "certificate" => PointsToUnits(f.rule.points) > 0
     \/ f.type = "external_exhibition" /\ {f.rule.minimum, f.rule.maximum} \subseteq Decimals
     \/ /\ f.type = "project_participation"
        /\ f.salaries \in Seq(Nat) /\ f.rule.salaryUnit \in Nat \ {0}
        /\ f.rule.points \in Decimals
        /\ f.rule.capped => f.rule.maximum \in Decimals

(* The value of a decimal, in hundredths, digit by digit. *)
Value(p) ==
  p.whole * 100 + Total([i \in DOMAIN p.fraction |-> p.fraction[i] * IF i = 1 THEN 10 ELSE 1])
=============================================================================
