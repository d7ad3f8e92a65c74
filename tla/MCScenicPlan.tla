----------------------------- MODULE MCScenicPlan -----------------------------
(***************************************************************************)
(* Small instance of ScenicPlan with the real tspPeakOrder.                *)
(***************************************************************************)
EXTENDS ScenicPlan, PeakTour

CONSTANT museum

MCRequests ==
  [via : {<<>>, <<museum>>}, query : BOOLEAN, minHeatScore : {0, 1},
   maxDetourRatio : {0, 2}, direct : {0, 4}]

MCBaseRoutes == {[time |-> 0, length |-> 0], [time |-> 5, length |-> 5], [time |-> 8, length |-> 4]}

MCScenicRoutes == [length : {6, 7}, score : 0..2]

(* Travel times when start, end and three peaks lie along a street, with   *)
(* the start at 0 and the end at 4; walking back uphill takes one more.    *)
Street(p) ==
  LET at == <<0, 4>> \o p
      Walk2(x, y) == IF x <= y THEN y - x ELSE x - y + 1
  IN  [i \in 0..4 |-> [j \in 0..4 |-> Walk2(at[i + 1], at[j + 1])]]

MCMatrices == {Street(p) : p \in {<<2, 2, 6>>, <<9, 2, 3>>, <<6, 9, 2>>, <<9, 9, 9>>}}

MCHeatProfiles == {<<2>>, <<4, 1>>, <<4, 3, 2>>, <<2, 2, 2>>}

(* With three peaks the search takes up to three turns, as it does in the  *)
(* code with {3, 6, 10} and ten peaks.                                     *)
MCIterSteps == {1, 2, 10}
=============================================================================
