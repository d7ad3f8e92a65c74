--------------------------- MODULE ScenicPlanProofs ---------------------------
(***************************************************************************)
(* Proofs about ScenicPlan for every choice of its parameters that meets   *)
(* PlanAssumption: any number of peaks, any answers of the services, any   *)
(* tour planner that keeps its contract.                                   *)
(***************************************************************************)
EXTENDS ScenicPlan, TLAPS

Early == {"embed", "route", "features", "scenic"}

(* What holds of the search on the way: used is always the tour of some    *)
(* count already tried, with the matrix and the budget of this plan.       *)
SearchInv ==
  /\ pc \in Early => scenic.origin = "none" /\ scenic.stops = <<>> /\ peaks = <<>>
  /\ pc \notin {"embed", "route", "failed"} => base \in BaseRoutes
  /\ pc \in Early \cup {"matrix"} => matrix = NoMatrix /\ nPeaks = 0 /\ used = NoTour
  /\ pc \in {"matrix", "search"} => peaks \in HeatProfiles
  /\ pc = "search" => matrix \in Matrices
  /\ used # NoTour =>
       /\ base \in BaseRoutes /\ matrix \in Matrices /\ peaks \in HeatProfiles
       /\ \E k \in 1..Len(peaks) : k <= nPeaks /\ used = Order(k)

IInv == TypeOK /\ SearchInv /\ UsedPeaksOnRoute

-----------------------------------------------------------------------------
(* Every peak count the search tries is between 1 and the number of peaks, *)
(* and the tour planned for it visits known peaks only.                    *)
LEMMA CountInRange ==
  ASSUME peaks \in HeatProfiles, NEW c \in IterCounts(Len(peaks))
  PROVE  c \in 1..Len(peaks)
<1>1. peaks \in Seq(Nat) /\ peaks # <<>>
  BY PlanAssumption DEF ParameterTypes
<1>2. Len(peaks) \in Nat \ {0}
  BY <1>1
<1>. QED
  BY <1>2, PlanAssumption DEF ParameterTypes, IterCounts

(* TourContract for the plan at hand.                                      *)
LEMMA OrderContract ==
  ASSUME peaks \in HeatProfiles, matrix \in Matrices, req \in Requests, base \in BaseRoutes,
         NEW c \in 1..Len(peaks)
  PROVE  /\ Order(c) \in Seq(1..c)
         /\ Order(c) # NoTour =>
              TourTime(matrix, Order(c)) \in Int /\ ~Exceeds(TourTime(matrix, Order(c)), BudgetS(req, base))
         /\ \A k \in 1..c :
              /\ Order(k) # NoTour => Order(c) # NoTour
              /\ TourHeat(peaks, Order(k)) <= TourHeat(peaks, Order(c))
BY PlanAssumption DEF TourContract, PlansTours, Order

LEMMA OrderTypes ==
  ASSUME peaks \in HeatProfiles, matrix \in Matrices, req \in Requests, base \in BaseRoutes,
         NEW c \in 1..Len(peaks)
  PROVE  Order(c) \in Seq(1..Len(peaks)) /\ Order(c) \in Seq(Nat)
<1>1. Order(c) \in Seq(1..c)
  BY OrderContract
<1>2. peaks \in Seq(Nat)
  BY PlanAssumption DEF ParameterTypes
<1>3. 1..c \subseteq 1..Len(peaks) /\ 1..c \subseteq Nat
  BY <1>2
<1>. QED
  BY <1>1, <1>3

-----------------------------------------------------------------------------
LEMMA InitIInv == Init => IInv
<1>. SUFFICES ASSUME Init PROVE IInv
  OBVIOUS
<1>1. TypeOK
  BY DEF Init, TypeOK, Origins, NoTour
<1>2. SearchInv
  BY DEF Init, SearchInv, Early
<1>3. UsedPeaksOnRoute
  BY DEF Init, UsedPeaksOnRoute
<1>. QED
  BY <1>1, <1>2, <1>3 DEF IInv

(* The calls before the search leave no trace of peaks.                    *)
LEMMA EarlySteps ==
  ASSUME IInv, Embed \/ RouteBase \/ FetchFeatures
  PROVE  IInv'
<1>. USE DEF IInv, TypeOK, SearchInv, UsedPeaksOnRoute, Early, Order, Fail
<1>1. CASE Embed
  BY <1>1 DEF Embed
<1>2. CASE RouteBase
  BY <1>2 DEF RouteBase
<1>3. CASE FetchFeatures
  BY <1>3 DEF FetchFeatures
<1>. QED
  BY <1>1, <1>2, <1>3

LEMMA RouteNoPeaksStep ==
  ASSUME IInv, RouteNoPeaks
  PROVE  IInv'
<1>. USE DEF RouteNoPeaks
<1>1. PICK r \in ScenicRoutes :
        scenic' \in {[origin |-> "noPeaks", stops |-> req.via, length |-> r.length, score |-> r.score],
                     [origin |-> "base", stops |-> req.via, length |-> base.length, score |-> r.score]}
  OBVIOUS
<1>2. /\ req.via \in Seq(UserPoints) /\ r.length \in Nat /\ r.score \in Nat /\ base.length \in Nat
      /\ scenic'.origin \in {"noPeaks", "base"} /\ scenic'.stops = req.via
  BY <1>1, PlanAssumption DEF IInv, TypeOK, ParameterTypes, NoBase
<1>3. scenic' \in [origin : Origins, stops : Seq(UserPoints) \cup Seq(Nat), length : Nat, score : Nat]
  BY <1>1, <1>2 DEF Origins
<1>4. peaks' \in HeatProfiles \cup {<<>>}
  OBVIOUS
<1>5. TypeOK'
  BY <1>3, <1>4 DEF IInv, TypeOK, SearchInv, Early, NoTour
<1>6. SearchInv'
  BY <1>4 DEF IInv, SearchInv, Early, Order
<1>7. UsedPeaksOnRoute'
  BY <1>2 DEF IInv, SearchInv, Early, UsedPeaksOnRoute
<1>. QED
  BY <1>5, <1>6, <1>7 DEF IInv

LEMMA FetchMatrixStep ==
  ASSUME IInv, FetchMatrix
  PROVE  IInv'
BY DEF IInv, TypeOK, SearchInv, UsedPeaksOnRoute, Early, Order, FetchMatrix

LEMMA SearchOverStep ==
  ASSUME IInv, SearchOver
  PROVE  IInv'
BY DEF IInv, TypeOK, SearchInv, UsedPeaksOnRoute, Early, Order, SearchOver

(* A turn of the search: whatever it does to the route and to used, it     *)
(* does to both, and it moves on to a larger count.                        *)
LEMMA SearchStep ==
  ASSUME IInv, Search
  PROVE  IInv'
<1>1. PICK c \in IterCounts(Len(peaks)) :
        IsNextCount(c) /\ nPeaks' = c /\ (TryNoTour(c) \/ TryRefused(c) \/ TryRouted(c))
  BY DEF Search
<1>2. /\ pc = "search" /\ UNCHANGED <<req, base, peaks, matrix>>
      /\ peaks \in HeatProfiles /\ matrix \in Matrices /\ base \in BaseRoutes /\ req \in Requests
      /\ nPeaks \in Nat
  BY DEF Search, IInv, SearchInv, TypeOK, Early
<1>3. c \in 1..Len(peaks) /\ nPeaks < c /\ c \in Nat
  BY <1>1, <1>2, CountInRange DEF IsNextCount
<1>4. Order(c) \in Seq(1..Len(peaks)) /\ Order(c) \in Seq(Nat)
  BY <1>2, <1>3, OrderTypes
<1>5. \A k : Order(k)' = Order(k)
  BY <1>2 DEF Order
<1>6. CASE TryNoTour(c)
  BY <1>1, <1>2, <1>3, <1>5, <1>6 DEF IInv, TypeOK, SearchInv, UsedPeaksOnRoute, Early, TryNoTour
<1>7. CASE TryRefused(c)
  BY <1>1, <1>2, <1>3, <1>5, <1>7 DEF IInv, TypeOK, SearchInv, UsedPeaksOnRoute, Early, TryRefused
<1>8. CASE TryRouted(c)
  <2>. USE DEF TryRouted
  <2>1. PICK r \in ScenicRoutes :
          /\ scenic' = [origin |-> "peaks", stops |-> Order(c), length |-> r.length, score |-> r.score]
          /\ pc' = IF r.score >= HeatThreshold(req) THEN "done" ELSE pc
    BY <1>8
  <2>2. r.length \in Nat /\ r.score \in Nat
    BY PlanAssumption DEF ParameterTypes
  <2>3. TypeOK'
    BY <1>1, <1>2, <1>3, <1>4, <1>8, <2>1, <2>2 DEF IInv, TypeOK, Origins
  <2>4. SearchInv'
    BY <1>1, <1>2, <1>3, <1>5, <1>8, <2>1 DEF IInv, SearchInv, Early
  <2>5. UsedPeaksOnRoute'
    BY <1>8, <2>1 DEF UsedPeaksOnRoute
  <2>. QED
    BY <2>3, <2>4, <2>5 DEF IInv
<1>. QED
  BY <1>1, <1>6, <1>7, <1>8

THEOREM PlanInvariant == Spec => []IInv
<1>1. IInv /\ [Next]_vars => IInv'
  <2>. SUFFICES ASSUME IInv, [Next]_vars PROVE IInv'
    OBVIOUS
  <2>1. CASE UNCHANGED vars
    BY <2>1 DEF vars, IInv, TypeOK, SearchInv, UsedPeaksOnRoute, Order
  <2>. QED
    BY <2>1, EarlySteps, RouteNoPeaksStep, FetchMatrixStep, SearchStep, SearchOverStep DEF Next
<1>. QED
  BY <1>1, InitIInv, PTL DEF Spec

(* Result.UsedPeaks are always the waypoints of Result.ScenicRoute.        *)
THEOREM PlanUsedPeaksOnRoute == Spec => []UsedPeaksOnRoute
<1>1. IInv => UsedPeaksOnRoute
  BY DEF IInv
<1>. QED
  BY <1>1, PlanInvariant, PTL

(* The variables stay in their types; in particular every index in used    *)
(* names a peak that was found.                                            *)
THEOREM PlanTypeOK == Spec => []TypeOK
<1>1. IInv => TypeOK
  BY DEF IInv
<1>. QED
  BY <1>1, PlanInvariant, PTL

-----------------------------------------------------------------------------
(* Rounding the budget down loses nothing against an integral time.        *)
LEMMA DivisionBound ==
  ASSUME NEW x \in Nat, NEW d \in Nat \ {0}
  PROVE  x \div d \in Nat /\ d * (x \div d) <= x
<1>1. x \div d \in Nat
  BY Z3
<1>2. d * (x \div d) <= x
  BY Z3
<1>. QED
  BY <1>1, <1>2

LEMMA BudgetExact ==
  ASSUME NEW x \in Nat, NEW d \in Nat \ {0}, NEW t \in Int, t <= x \div d
  PROVE  d * t <= x
<1>. DEFINE w == x \div d
<1>1. w \in Nat /\ d * w <= x /\ t <= w
  BY DivisionBound
<1>. HIDE DEF w
<1>2. d * t <= d * w
  BY <1>1, Z3
<1>3. d * t \in Int /\ d * w \in Int
  BY <1>1
<1>. QED
  BY <1>1, <1>2, <1>3

(* The peaks in use can be toured within the caller's detour budget.       *)
THEOREM PlanToursFitBudget == Spec => []ToursFitBudget
<1>1. IInv => ToursFitBudget
  <2>. SUFFICES ASSUME IInv, used # NoTour, base.length # 0
                PROVE  ~Exceeds(2 * base.length * TourTime(matrix, used),
                                MaxDetourRatio(req) * req.direct * base.time)
    BY DEF ToursFitBudget, Exceeds
  <2>1. PICK k \in 1..Len(peaks) : used = Order(k)
    BY DEF IInv, SearchInv
  <2>2. /\ peaks \in HeatProfiles /\ matrix \in Matrices /\ req \in Requests /\ base \in BaseRoutes
    BY DEF IInv, SearchInv, TypeOK
  <2>3. TourTime(matrix, used) \in Int /\ ~Exceeds(TourTime(matrix, used), BudgetS(req, base))
    BY <2>1, <2>2, OrderContract
  <2>4. /\ base.length \in Nat \ {0} /\ base.time \in Nat /\ req.direct \in Nat
        /\ MaxDetourRatio(req) \in Nat
    BY <2>2, PlanAssumption DEF ParameterTypes, MaxDetourRatio
  <2>. DEFINE x == MaxDetourRatio(req) * req.direct * base.time
  <2>5. x \in Nat /\ 2 * base.length \in Nat \ {0}
    BY <2>4
  <2>6. BudgetS(req, base) = x \div (2 * base.length)
    BY <2>4 DEF BudgetS
  <2>. HIDE DEF x
  <2>7. x \div (2 * base.length) \in Nat
    BY <2>5, DivisionBound
  <2>8. TourTime(matrix, used) <= x \div (2 * base.length)
    BY <2>3, <2>6, <2>7 DEF Exceeds, Unlimited
  <2>9. 2 * base.length * TourTime(matrix, used) <= x
    BY <2>3, <2>5, <2>8, BudgetExact
  <2>10. 2 * base.length * TourTime(matrix, used) \in Int
    BY <2>3, <2>4
  <2>. QED
    BY <2>5, <2>9, <2>10 DEF Exceeds, x
<1>. QED
  BY <1>1, PlanInvariant, PTL

(* A later turn of the search never gives up heat.                         *)
THEOREM PlanHeatGrows == Spec => HeatGrows
<1>. DEFINE Grows == used # NoTour => used' # NoTour /\ TourHeat(peaks', used') >= TourHeat(peaks, used)
<1>1. IInv /\ [Next]_vars => [Grows]_vars
  <2>. SUFFICES ASSUME IInv, Next, used # NoTour
                PROVE  used' # NoTour /\ TourHeat(peaks', used') >= TourHeat(peaks, used)
    OBVIOUS
  <2>1. PICK k \in 1..Len(peaks) : k <= nPeaks /\ used = Order(k)
    BY DEF IInv, SearchInv
  <2>2. pc \notin Early \cup {"matrix"}
    BY DEF IInv, SearchInv
  <2>3. /\ peaks \in HeatProfiles /\ matrix \in Matrices /\ req \in Requests /\ base \in BaseRoutes
        /\ nPeaks \in Nat
    BY DEF IInv, SearchInv, TypeOK
  <2>4. TourHeat(peaks, used) <= TourHeat(peaks, used)
    BY <2>1, <2>3, OrderContract
  <2>5. CASE Search
    <3>1. PICK c \in IterCounts(Len(peaks)) :
            IsNextCount(c) /\ (TryNoTour(c) \/ TryRefused(c) \/ TryRouted(c))
      BY <2>5 DEF Search
    <3>2. UNCHANGED peaks
      BY <2>5 DEF Search
    <3>3. c \in 1..Len(peaks) /\ k \in 1..c
      BY <2>1, <2>3, <3>1, CountInRange DEF IsNextCount
    <3>4. Order(c) # NoTour /\ TourHeat(peaks, used) <= TourHeat(peaks, Order(c))
      BY <2>1, <2>3, <3>3, OrderContract
    <3>5. used' \in {used, Order(c)}
      BY <3>1 DEF TryNoTour, TryRefused, TryRouted
    <3>. QED
      BY <2>4, <3>2, <3>4, <3>5
  <2>6. CASE SearchOver
    BY <2>4, <2>6 DEF SearchOver
  <2>. QED
    BY <2>2, <2>5, <2>6 DEF Next, Embed, RouteBase, FetchFeatures, RouteNoPeaks, FetchMatrix, Early
<1>. QED
  BY <1>1, PlanInvariant, PTL DEF Spec, HeatGrows

-----------------------------------------------------------------------------
(* The search only goes on below the threshold, and once it has dealt with *)
(* all the peaks, it has either used their tour, been refused it, or found *)
(* that there is none.                                                     *)
Unfinished == pc \in {"matrix", "search"} => scenic.score < HeatThreshold(req)

Exhausted ==
  pc \in {"search", "done"} /\ matrix # NoMatrix =>
    /\ peaks \in HeatProfiles /\ matrix \in Matrices /\ base \in BaseRoutes
    /\ nPeaks \in 0..Len(peaks)
    /\ nPeaks = Len(peaks) =>
         Len(peaks) \in missed \/ Order(Len(peaks)) = NoTour \/ used = Order(Len(peaks))
    /\ pc = "done" /\ scenic.score < HeatThreshold(req) => nPeaks = Len(peaks)

SearchEnd == Unfinished /\ Exhausted

LEMMA ThresholdNat == ASSUME req \in Requests PROVE HeatThreshold(req) \in Nat
BY PlanAssumption DEF ParameterTypes, HeatThreshold

LEMMA SearchEndTurn ==
  ASSUME IInv, SearchEnd, Search
  PROVE  SearchEnd'
<1>1. PICK c \in IterCounts(Len(peaks)) :
        IsNextCount(c) /\ nPeaks' = c /\ (TryNoTour(c) \/ TryRefused(c) \/ TryRouted(c))
  BY DEF Search
<1>2. /\ pc = "search" /\ UNCHANGED <<req, base, peaks, matrix>>
      /\ peaks \in HeatProfiles /\ matrix \in Matrices /\ base \in BaseRoutes /\ req \in Requests
  BY DEF Search, IInv, SearchInv, TypeOK, Early
<1>3. \A k : Order(k)' = Order(k)
  BY <1>2 DEF Order
<1>4. HeatThreshold(req) \in Nat /\ c \in 0..Len(peaks)
  BY <1>1, <1>2, ThresholdNat, CountInRange
<1>5. CASE TryNoTour(c) \/ TryRefused(c)
  BY <1>1, <1>2, <1>3, <1>4, <1>5 DEF SearchEnd, Unfinished, Exhausted, TryNoTour, TryRefused
<1>6. CASE TryRouted(c)
  <2>1. PICK r \in ScenicRoutes :
          /\ scenic'.score = r.score
          /\ pc' = IF r.score >= HeatThreshold(req) THEN "done" ELSE pc
    BY <1>6 DEF TryRouted
  <2>2. r.score \in Nat
    BY PlanAssumption DEF ParameterTypes
  <2>. QED
    BY <1>1, <1>2, <1>3, <1>4, <1>6, <2>1, <2>2 DEF SearchEnd, Unfinished, Exhausted, TryRouted
<1>. QED
  BY <1>1, <1>5, <1>6

LEMMA SearchEndStep == IInv /\ SearchEnd /\ [Next]_vars => SearchEnd'
<1>. SUFFICES ASSUME IInv, SearchEnd, [Next]_vars PROVE SearchEnd'
  OBVIOUS
<1>1. CASE Embed \/ RouteBase \/ FetchFeatures
  BY <1>1 DEF SearchEnd, Unfinished, Exhausted, Embed, RouteBase, FetchFeatures, Fail
<1>2. CASE RouteNoPeaks
  BY <1>2, PlanAssumption DEF SearchEnd, Unfinished, Exhausted, RouteNoPeaks, ParameterTypes, HeatThreshold, IInv, SearchInv, Early
<1>3. CASE FetchMatrix
  <2>1. /\ pc = "matrix" /\ matrix = NoMatrix /\ nPeaks = 0
        /\ peaks \in HeatProfiles /\ base \in BaseRoutes
        /\ UNCHANGED <<req, base, scenic, peaks, nPeaks, used, missed>>
    BY <1>3 DEF FetchMatrix, IInv, SearchInv, Early
  <2>2. Len(peaks) \in Nat \ {0}
    <3>1. peaks \in Seq(Nat) /\ peaks # <<>>
      BY <2>1, PlanAssumption DEF ParameterTypes
    <3>. QED
      BY <3>1
  <2>3. \/ matrix' \in Matrices /\ pc' = "search"
        \/ matrix' = NoMatrix /\ pc' = "done"
    BY <1>3, <2>1 DEF FetchMatrix
  <2>4. Unfinished'
    BY <2>1, <2>3 DEF SearchEnd, Unfinished, HeatThreshold
  <2>5. Exhausted'
    BY <2>1, <2>2, <2>3 DEF Exhausted
  <2>. QED
    BY <2>4, <2>5 DEF SearchEnd
<1>4. CASE SearchOver
  <2>1. pc = "search" /\ peaks \in HeatProfiles /\ UNCHANGED <<req, base, scenic, peaks, matrix, nPeaks, used, missed>>
    BY <1>4 DEF SearchOver, IInv, SearchInv
  <2>2. Len(peaks) <= nPeaks
    BY <1>4 DEF SearchOver, IterCounts
  <2>3. Len(peaks) \in Nat
    BY <2>1, PlanAssumption DEF ParameterTypes
  <2>. QED
    BY <1>4, <2>1, <2>2, <2>3 DEF SearchEnd, Unfinished, Exhausted, Order, SearchOver
<1>5. CASE UNCHANGED vars
  BY <1>5 DEF vars, SearchEnd, Unfinished, Exhausted, Order, HeatThreshold
<1>. QED
  BY <1>1, <1>2, <1>3, <1>4, <1>5, SearchEndTurn DEF Next

THEOREM PlanSearchEnd == Spec => []SearchEnd
<1>1. Init => SearchEnd
  BY DEF Init, SearchEnd, Unfinished, Exhausted
<1>. QED
  BY <1>1, PlanInvariant, SearchEndStep, PTL DEF Spec

(* The search that ends below the threshold has tried the tour of all the  *)
(* peaks last, and that is the hottest of all.                             *)
THEOREM PlanSearchExhaustive == Spec => []SearchExhaustive
<1>1. IInv /\ SearchEnd => SearchExhaustive
  <2>. SUFFICES ASSUME IInv, SearchEnd, pc = "done", matrix # NoMatrix, Len(peaks) \notin missed,
                       scenic.score < HeatThreshold(req), NEW c \in 1..Len(peaks)
                PROVE  TourHeat(peaks, Order(c)) <= TourHeat(peaks, used)
    BY DEF SearchExhaustive
  <2>1. /\ peaks \in HeatProfiles /\ matrix \in Matrices /\ base \in BaseRoutes /\ req \in Requests
        /\ Order(Len(peaks)) = NoTour \/ used = Order(Len(peaks))
    BY DEF SearchEnd, Exhausted, IInv, TypeOK
  <2>2. Len(peaks) \in 1..Len(peaks) /\ \A k \in 1..Len(peaks) : k \in 1..Len(peaks)
    <3>1. Len(peaks) \in Nat
      BY <2>1, PlanAssumption DEF ParameterTypes
    <3>. QED
      BY <3>1
  <2>3. TourHeat(peaks, Order(c)) <= TourHeat(peaks, Order(Len(peaks)))
    BY <2>1, <2>2, OrderContract
  <2>4. Order(Len(peaks)) = NoTour => used = NoTour
    BY <2>1, <2>2, OrderContract DEF IInv, SearchInv
  <2>. QED
    BY <2>1, <2>3, <2>4
<1>. QED
  BY <1>1, PlanInvariant, PlanSearchEnd, PTL

(* A route that reaches the threshold is the one returned: every call and  *)
(* every turn of the search after it starts from a colder one.             *)
THEOREM PlanScenicEnoughIsFinal == Spec => ScenicEnoughIsFinal
<1>. DEFINE Final == scenic.origin # "none" /\ scenic.score >= HeatThreshold(req) => scenic' = scenic
<1>1. IInv /\ SearchEnd /\ [Next]_vars => [Final]_vars
  <2>. SUFFICES ASSUME IInv, SearchEnd, Next, scenic.origin # "none",
                       scenic.score >= HeatThreshold(req), scenic' # scenic
                PROVE  FALSE
    OBVIOUS
  <2>1. pc \notin Early
    BY DEF IInv, SearchInv
  <2>2. scenic.score \in Nat /\ HeatThreshold(req) \in Nat
    BY ThresholdNat DEF IInv, TypeOK
  <2>3. pc # "search"
    BY <2>2 DEF SearchEnd, Unfinished
  <2>. QED
    BY <2>1, <2>3 DEF Next, Embed, RouteBase, FetchFeatures, RouteNoPeaks, FetchMatrix, Search, SearchOver, Early
<1>. QED
  BY <1>1, PlanInvariant, PlanSearchEnd, PTL DEF Spec, ScenicEnoughIsFinal
=============================================================================
