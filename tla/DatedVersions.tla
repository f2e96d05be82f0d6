--------------------------- MODULE DatedVersions ---------------------------
(***************************************************************************)
(* What the tables with effective_from and effective_to promise, without   *)
(* transactions: each version has its days, and no day has two versions.   *)
(* The last day stands for itself and all later ones.                      *)
(***************************************************************************)
EXTENDS Naturals

CONSTANTS Versions,
          Editable,  \* the versions whose days an administrator may replace
          MaxDay     \* bound on the calendar

Days == 0..MaxDay
Spans == {d..e : d, e \in Days} \cup {{}}

VARIABLE days

OneVersionPerDay == \A u, v \in Versions : u # v => days[u] \cap days[v] = {}

Init == days \in [Versions -> Spans] /\ OneVersionPerDay

Before(D) == {d \in Days : \A e \in D : d < e}

(* A version gets its days; one without an end that began earlier ends     *)
(* where they begin.                                                       *)
Introduce(v, D) ==
  /\ days[v] = {} /\ D # {}
  /\ \/ days' = [days EXCEPT ![v] = D]
     \/ \E u \in Versions \ {v} :
          /\ MaxDay \in days[u]
          /\ days[u] \cap Before(D) # {}
          /\ days' = [days EXCEPT ![v] = D, ![u] = @ \cap Before(D)]
  /\ OneVersionPerDay'

(* A version without an end gets one. *)
End(v, D) ==
  /\ MaxDay \in days[v]
  /\ days[v] \cap Before(D) # {}
  /\ days' = [days EXCEPT ![v] = @ \cap Before(D)]

Replace(v, D) ==
  /\ days' = [days EXCEPT ![v] = D]
  /\ OneVersionPerDay'

Next ==
  \/ \E v \in Versions, D \in Spans : Introduce(v, D) \/ End(v, D)
  \/ \E v \in Editable, D \in Spans : Replace(v, D)

Spec == Init /\ [][Next]_days
=============================================================================
