------------------------------ MODULE MCPeakTour ------------------------------
(***************************************************************************)
(* PeakTour on every small input: one behaviour per matrix, budget and     *)
(* heat profile, whose single step is the call of tspPeakOrder.            *)
(***************************************************************************)
EXTENDS PeakTour

CONSTANTS N,        \* number of peaks handed to tspPeakOrder
          Times,    \* entries a travel-time matrix may have
          Budgets,  \* values of budgetS
          Profiles  \* heats of the peaks

ASSUME PeakAssumption ==
  /\ N \in Nat
  /\ Times \subseteq Int
  /\ Budgets \subseteq Int
  /\ Profiles \subseteq [1..N -> Nat]

VARIABLES matrix, budget, heats, order, called

vars == <<matrix, budget, heats, order, called>>

(* Time from a place to itself is never read; the code never reads the     *)
(* column of the start or the row of the end either.                       *)
Read(i, j) == i # j /\ j # 0 /\ i # 1 /\ <<i, j>> # <<0, 1>>

Cells == {c \in (0..(N + 1)) \X (0..(N + 1)) : Read(c[1], c[2])}

Init ==
  /\ \E t \in [Cells -> Times] :
       matrix = [i \in 0..(N + 1) |-> [j \in 0..(N + 1) |-> IF Read(i, j) THEN t[<<i, j>>] ELSE 0]]
  /\ budget \in Budgets
  /\ heats \in Profiles
  /\ order = NoTour
  /\ called = FALSE

Call ==
  /\ ~called
  /\ order' = TspPeakOrder(N, matrix, budget, heats)
  /\ called' = TRUE
  /\ UNCHANGED <<matrix, budget, heats>>

Next == Call
Spec == Init /\ [][Next]_vars

-----------------------------------------------------------------------------
MCTimes    == {1, 3}
MCBudgets  == {Unlimited, 1, 3, 6, 7}
MCProfiles == {<<4, 2, 1>>, <<3, 2, 1>>, <<2, 2, 2>>}

-----------------------------------------------------------------------------
(* The tour returned visits peaks at most once each and its travel time,   *)
(* summed leg by leg over the matrix, is within the budget: the walk back  *)
(* through prev is the walk whose cost the table recorded                  *)
(* (scenic.go:377-410).                                                    *)
TourAffordable == called /\ order # NoTour => order \in Affordable(N, matrix, budget)

(* No affordable tour is hotter, and nil is returned only when no peak can *)
(* be visited at all (scenic.go:326-330).                                  *)
TourHottest ==
  called => /\ order = NoTour <=> Affordable(N, matrix, budget) = {}
            /\ \A t \in Affordable(N, matrix, budget) : TourHeat(heats, t) <= TourHeat(heats, order)

(* Claim of the comment at scenic.go:326-327: the peaks come in "optimal   *)
(* visiting order (minimum time)".  False: the first affordable last peak  *)
(* wins, not the one that gives the least time.                            *)
TourMinimumTime ==
  called /\ order # NoTour =>
    \A t \in SetToSeqs({order[i] : i \in DOMAIN order}) :
      TourTime(matrix, order) <= TourTime(matrix, t)
=============================================================================
