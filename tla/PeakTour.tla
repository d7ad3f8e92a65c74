------------------------------- MODULE PeakTour -------------------------------
(***************************************************************************)
(* tspPeakOrder (internal/scenic/scenic.go:331-410): the subset of the n   *)
(* first peaks with the greatest total heat that can be visited within a   *)
(* travel-time budget, by the Held-Karp recurrence over subsets.  Bit      *)
(* masks are sets of peaks; MaskOf gives back the number of a mask where   *)
(* the order in which the code meets masks decides a tie.                  *)
(***************************************************************************)
EXTENDS Tours, FiniteSets, FiniteSetsExt, SequencesExt

(* Mutant of Travel: a nearest-neighbour table, which extends the walk to  *)
(* the lowest-numbered predecessor instead of the best one.                *)
TravelGreedy(n, m) ==
  LET dp[mask \in SUBSET (1..n)] ==
        [j \in mask |->
           IF mask = {j} THEN m[0][1 + j]
           ELSE LET i == Min(mask \ {j}) IN dp[mask \ {j}][i] + m[1 + i][1 + j]]
  IN  dp

(* dp[mask][j]: least time from the start through all of mask, ending at j.*)
Travel(n, m) ==
  LET dp[mask \in SUBSET (1..n)] ==
        [j \in mask |->
           IF mask = {j} THEN m[0][1 + j]
           ELSE Min({dp[mask \ {j}][i] + m[1 + i][1 + j] : i \in mask \ {j}})]
  IN  dp

(* prev[mask][j]: `c < dp' overwrites only on a strict improvement, so of  *)
(* several best predecessors the lowest-numbered one is kept.              *)
Prev(dp, m, mask, j) ==
  Min({i \in mask \ {j} : dp[mask \ {j}][i] + m[1 + i][1 + j] = dp[mask][j]})

(* The loop that walks prev back from the last peak, then reverses.        *)
Walk(n, m, dp) ==
  LET path[mask \in SUBSET (1..n)] ==
        [j \in mask |->
           IF mask = {j} THEN <<j>>
           ELSE Append(path[mask \ {j}][Prev(dp, m, mask, j)], j)]
  IN  path

HeatSum(heats, mask) == SumFunctionOnSet(heats, mask)

MaskOf(mask) == SumFunctionOnSet([p \in mask |-> 2 ^ (p - 1)], mask)

(* Mutant of FeasibleLast: the leg back to the end is not counted.         *)
FeasibleLastOneWay(dp, m, budget, mask) ==
  {j \in mask : ~Exceeds(dp[mask][j], budget)}

(* Peaks at which a walk through mask may end and still reach the end of   *)
(* the route within the budget.                                            *)
FeasibleLast(dp, m, budget, mask) ==
  {j \in mask : ~Exceeds(dp[mask][j] + m[1 + j][1], budget)}

(* `h > bestHeat' keeps the first mask of the greatest heat, and within it *)
(* the first feasible last peak.  Heats are never negative, so any mask is *)
(* hotter than the bestHeat of -1 the search starts from.                  *)
TspPeakOrder(n, m, budget, heats) ==
  LET dp       == Travel(n, m)
      feasible == {mask \in SUBSET (1..n) : FeasibleLast(dp, m, budget, mask) # {}}
      best     == Max({HeatSum(heats, mask) : mask \in feasible})
      hottest  == {mask \in feasible : HeatSum(heats, mask) = best}
      chosen   == CHOOSE mask \in hottest : \A other \in hottest : MaskOf(mask) <= MaskOf(other)
  IN  IF feasible = {} THEN NoTour
      ELSE Walk(n, m, dp)[chosen][Min(FeasibleLast(dp, m, budget, chosen))]

-----------------------------------------------------------------------------
(* Reference: every order in which a set of peaks could be visited.        *)
AllTours(n) == UNION {SetToSeqs(S) : S \in (SUBSET (1..n)) \ {{}}}

Affordable(n, m, budget) == {t \in AllTours(n) : ~Exceeds(TourTime(m, t), budget)}
=============================================================================
