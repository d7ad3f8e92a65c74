-------------------------------- MODULE Tours --------------------------------
(***************************************************************************)
(* Vocabulary shared by the peak-selection algorithm (PeakTour) and the    *)
(* planner that calls it (ScenicPlan): what a tour through peaks costs and *)
(* is worth.                                                               *)
(*                                                                         *)
(* A travel-time matrix m has the layout of the Matrix answer in           *)
(* internal/scenic/scenic.go:157-162: index 0 is the start, 1 the end and  *)
(* 1 + i the i-th peak (peaks are numbered from 1 here, from 0 in Go).  A  *)
(* tour is a sequence of peaks; <<>> stands for the nil order.             *)
(***************************************************************************)
EXTENDS Integers, Sequences, Functions

(* The value of budgetS for which no time is ever "> budgetS": the float   *)
(* NaN (0/0) or +Inf that time/length gives when the base route has length *)
(* zero, e.g. for a round trip (scenic.go:170-171).                        *)
Unlimited == -1

(* `x > budgetS' on floats (scenic.go:382).                                *)
Exceeds(time, budget) == budget # Unlimited /\ time > budget

NoTour == <<>>

(* Row or column of a tour's i-th place: the start, the peaks, the end.    *)
Place(tour, i) == IF i = 0 THEN 0 ELSE IF i > Len(tour) THEN 1 ELSE 1 + tour[i]

(* The time the matrix gives for start -> tour[1] -> ... -> end.           *)
TourTime(m, tour) ==
  LET legs == 1..(Len(tour) + 1)
  IN  SumFunctionOnSet([i \in legs |-> m[Place(tour, i - 1)][Place(tour, i)]], legs)

(* The heat collected by visiting the peaks of a tour once each.           *)
TourHeat(heats, tour) == SumFunctionOnSet([i \in DOMAIN tour |-> heats[tour[i]]], DOMAIN tour)

(* What Plan needs of the order it asks for: a tour through the first n    *)
(* peaks that keeps to the budget, which gains heat and is not lost when   *)
(* more peaks are allowed.                                                 *)
PlansTours(Order(_, _, _, _), m, h, budget) ==
  \A n \in 1..Len(h) :
    LET Tour(k) == Order(k, m, budget, SubSeq(h, 1, k))
    IN  /\ Tour(n) \in Seq(1..n)
        /\ Tour(n) # NoTour => TourTime(m, Tour(n)) \in Int /\ ~Exceeds(TourTime(m, Tour(n)), budget)
        /\ \A k \in 1..n :
             /\ Tour(k) # NoTour => Tour(n) # NoTour
             /\ TourHeat(h, Tour(k)) <= TourHeat(h, Tour(n))
=============================================================================
