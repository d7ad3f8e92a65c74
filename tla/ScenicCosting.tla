----------------------------- MODULE ScenicCosting -----------------------------
(***************************************************************************)
(* The scenic_pedestrian costing that patches Valhalla                     *)
(* (infra/valhalla-base/patches/scenic_pedestrian.patch): how an edge      *)
(* reads the encoded grid that Client.RouteScenic sends, and what that     *)
(* does to its cost.  Valhalla divides the box into as many equal parts as *)
(* the grid has cells, where the server measures cells off in metres; and  *)
(* the bounds of its box have six decimals of a degree, where the server's *)
(* have all that a float64 has.                                            *)
(***************************************************************************)
EXTENDS HeatGrid

CONSTANTS LonDigit, LatDigit \* the sixth decimal of a degree, in lattice units

ASSUME CostingAssumption == {LonDigit, LatDigit} \subseteq Nat \ {0}

(* Mutant of Pack: the decimals after the sixth are cut off.               *)
PackCut(v, digit) == digit * (v \div digit)

(* std::to_string and back: the nearest number of six decimals, the even   *)
(* one of two that are equally near.                                       *)
Pack(v, digit) ==
  LET k == v \div digit
      r == v % digit
  IN  digit * (IF 2 * r < digit \/ (2 * r = digit /\ k % 2 = 0) THEN k ELSE k + 1)

(* The bounds as they pass through the name of the costing.                *)
Packed(box) == <<Pack(box[1], LonDigit), Pack(box[2], LatDigit), Pack(box[3], LonDigit), Pack(box[4], LatDigit)>>

(* loadFromName: a grid whose data is not as long as its dimensions say is *)
(* not used, and every edge then costs what a pedestrian edge costs.       *)
Loaded(width, height, bytes) == Cardinality(DOMAIN bytes) = width * height

(* int(dist / extent * n) and clamped.                                     *)
Part(dist, extent, n) == Clamp((dist * n) \div extent, 0, n - 1)

(* The cell of the server's grid over box that Valhalla looks p up in, for *)
(* a place inside its own box.                                             *)
CellRead(box, p) ==
  LET b == Packed(box)
  IN  <<Part(b[4] - p[2], b[4] - b[2], Height(box)), Part(p[1] - b[1], b[3] - b[1], Width(box))>>

InBox(box, p) ==
  LET b == Packed(box)
  IN  b[1] <= p[1] /\ p[1] <= b[3] /\ b[2] <= p[2] /\ p[2] <= b[4]

SampleHeatmap(bytes, box, p) == IF InBox(box, p) THEN bytes[CellRead(box, p)] ELSE 0

(* Mutant of EdgeFactor: no floor.                                         *)
EdgeFactorFree(bytes, box, shape) ==
  [num |-> 255 * Len(shape)
             - SumFunctionOnSet([i \in DOMAIN shape |-> SampleHeatmap(bytes, box, shape[i])], DOMAIN shape),
   den |-> 255 * Len(shape)]

(* max(0.1, 1 - heat), for the mean heat of the vertices of an edge, as    *)
(* the fraction num / den.                                                 *)
EdgeFactor(bytes, box, shape) ==
  LET den  == 255 * Len(shape)
      heat == SumFunctionOnSet([i \in DOMAIN shape |-> SampleHeatmap(bytes, box, shape[i])], DOMAIN shape)
  IN  IF ~Loaded(Width(box), Height(box), bytes) \/ shape = <<>> THEN [num |-> 1, den |-> 1]
      ELSE [num |-> IF 10 * (den - heat) < den THEN den ELSE 10 * (den - heat), den |-> 10 * den]
=============================================================================
