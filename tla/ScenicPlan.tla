------------------------------ MODULE ScenicPlan ------------------------------
(***************************************************************************)
(* Plan (internal/scenic/scenic.go:84-228), the planner behind the         *)
(* plan_scenic_route tool: a chain of calls to other services (Ollama,     *)
(* Valhalla, PostGIS), each of which may fail, then a search that asks     *)
(* Valhalla for routes through ever more heat peaks until one is scenic    *)
(* enough.  What a service answers is a choice from a constant set.        *)
(*                                                                         *)
(* Quantities are integers: heat scores and thresholds in any unit,        *)
(* MaxDetourRatio in halves (3 is the default 1.5), lengths and times such *)
(* that no division is lost (BudgetS rounds down, and times are integers,  *)
(* so a comparison with it is exact).                                      *)
(***************************************************************************)
EXTENDS Tours

CONSTANTS
  UserPoints,    \* intermediate points a caller may ask for
  Requests,      \* [via, query, minHeatScore, maxDetourRatio, direct]
  BaseRoutes,    \* Route answers: [time, length]
  ScenicRoutes,  \* RouteScenic answers with their ScoreRoute: [length, score]
  Matrices,      \* Matrix answers
  HeatProfiles,  \* heats of the peaks that Peaks(10) may return, hottest first
  IterSteps,     \* {3, 6, 10} in peakIterCounts
  DefaultHeatThreshold,
  TourOrder(_, _, _, _)  \* tspPeakOrder: peaks, matrix, budget, heats

NoMatrix == <<>>
NoBase == [time |-> 0, length |-> 0]

VARIABLES
  pc,      \* the call Plan is about to make, or how it returned
  req,     \* Params; via is Points without the first and the last
  base,    \* baseRoute
  scenic,  \* scenicRoute: where it came from, its waypoints, length and score
  peaks,   \* heats of the peaks found; a peak is an index into it
  matrix,  \* distMatrix
  nPeaks,  \* the peak count tried last, 0 before the search
  used,    \* usedPeaks, as indices
  missed   \* history: peak counts whose candidate route Valhalla refused

vars == <<pc, req, base, scenic, peaks, matrix, nPeaks, used, missed>>

-----------------------------------------------------------------------------
(* 0 stands for "not given" in both parameters (scenic.go:85-87, 144-147). *)
MaxDetourRatio(q) == IF q.maxDetourRatio <= 0 THEN 3 ELSE q.maxDetourRatio

HeatThreshold(q) ==
  IF q.minHeatScore = 0 THEN DefaultHeatThreshold ELSE q.minHeatScore

(* Mutant of BudgetS: the ratio as given, before its default is applied.   *)
BudgetSAsGiven(q, b) ==
  IF b.length = 0 \/ q.maxDetourRatio <= 0 THEN Unlimited
  ELSE (q.maxDetourRatio * q.direct * b.time) \div (2 * b.length)

(* budgetKm * speedSPerKm (scenic.go:169-171); q.direct is the haversine   *)
(* distance between the end points.                                        *)
BudgetS(q, b) ==
  IF b.length = 0 THEN Unlimited
  ELSE (MaxDetourRatio(q) * q.direct * b.time) \div (2 * b.length)

(* Mutant of IterCounts: the full count is tried only if it is a step.     *)
IterCountsStepsOnly(n) == {s \in IterSteps : s <= n}

(* peakIterCounts: the steps below n, then n itself.                       *)
IterCounts(n) == {s \in IterSteps : s < n} \cup {n}

(* The next element of `range peakIterCounts(len(peaks))'.                 *)
IsNextCount(c) ==
  /\ c \in IterCounts(Len(peaks))
  /\ c > nPeaks
  /\ \A d \in IterCounts(Len(peaks)) : d > nPeaks => c <= d

-----------------------------------------------------------------------------
(* What the planner needs of its parameters.  PeakTour's TspPeakOrder is   *)
(* bound to TourOrder for model checking, and meets TourContract.          *)
ParameterTypes ==
  /\ Requests \subseteq [via : Seq(UserPoints), query : BOOLEAN, minHeatScore : Nat,
                          maxDetourRatio : Int, direct : Nat]
  /\ BaseRoutes \subseteq [time : Nat, length : Nat]
  /\ ScenicRoutes \subseteq [length : Nat, score : Nat]
  /\ HeatProfiles \subseteq Seq(Nat) \ {<<>>}
  /\ NoMatrix \notin Matrices
  /\ IterSteps \subseteq Nat \ {0}
  /\ DefaultHeatThreshold \in Nat

TourContract ==
  \A m \in Matrices, h \in HeatProfiles, q \in Requests, b \in BaseRoutes :
    PlansTours(TourOrder, m, h, BudgetS(q, b))

ASSUME PlanAssumption == ParameterTypes /\ TourContract

(* Mutant of Order: positions in the matrix instead of peak numbers.       *)
OrderMatrixRows(c) ==
  LET tour == TourOrder(c, matrix, BudgetS(req, base), SubSeq(peaks, 1, c))
  IN  [i \in DOMAIN tour |-> tour[i] + 1]

(* sub := the first 2 + c rows and columns of distMatrix; heats[:c].       *)
Order(c) == TourOrder(c, matrix, BudgetS(req, base), SubSeq(peaks, 1, c))

-----------------------------------------------------------------------------
Init ==
  /\ pc = "embed"
  /\ req \in Requests
  /\ base = NoBase
  /\ scenic = [origin |-> "none", stops |-> <<>>, length |-> 0, score |-> 0]
  /\ peaks = <<>>
  /\ matrix = NoMatrix
  /\ nPeaks = 0
  /\ used = NoTour
  /\ missed = {}

Fail ==
  /\ pc' = "failed"
  /\ UNCHANGED <<req, base, scenic, peaks, matrix, nPeaks, used, missed>>

(* EmbedOne, only when PoiQuery is given (scenic.go:91-100).               *)
Embed ==
  /\ pc = "embed"
  /\ \/ /\ pc' = "route"
        /\ UNCHANGED <<req, base, scenic, peaks, matrix, nPeaks, used, missed>>
     \/ req.query /\ Fail

(* val.Route, DecodeLegs and routeBBox (scenic.go:103-110).  Nothing that  *)
(* Valhalla answers is compared with the points asked for.                 *)
RouteBase ==
  /\ pc = "route"
  /\ \/ /\ base' \in BaseRoutes
        /\ pc' = "features"
        /\ UNCHANGED <<req, scenic, peaks, matrix, nPeaks, used, missed>>
     \/ Fail

(* geo.Features and heatmap.Compute (scenic.go:113-128).                   *)
FetchFeatures ==
  /\ pc = "features"
  /\ \/ /\ pc' = "scenic"
        /\ UNCHANGED <<req, base, scenic, peaks, matrix, nPeaks, used, missed>>
     \/ Fail

(* The scenic route through the caller's points.  When Valhalla refuses    *)
(* it, the base route stands in for it.  Below the threshold the peaks of  *)
(* the heat map are extracted; there may be none (scenic.go:132-156).      *)
RouteNoPeaks ==
  /\ pc = "scenic"
  /\ \E r \in ScenicRoutes :
       scenic' \in {[origin |-> "noPeaks", stops |-> req.via, length |-> r.length, score |-> r.score],
                    [origin |-> "base", stops |-> req.via, length |-> base.length, score |-> r.score]}
  /\ IF scenic'.score < HeatThreshold(req)
       THEN peaks' \in HeatProfiles \cup {<<>>}
       ELSE peaks' = <<>>
  /\ pc' = IF peaks' = <<>> THEN "done" ELSE "matrix"
  /\ UNCHANGED <<req, base, matrix, nPeaks, used, missed>>

(* val.Matrix over start, end and peaks; on an error the route found so    *)
(* far is kept (scenic.go:157-168).                                        *)
FetchMatrix ==
  /\ pc = "matrix"
  /\ \/ matrix' \in Matrices /\ pc' = "search"
     \/ matrix' = matrix /\ pc' = "done"
  /\ UNCHANGED <<req, base, scenic, peaks, nPeaks, used, missed>>

(* One turn of the search that asks for no route: no tour fits.            *)
TryNoTour(c) ==
  /\ Order(c) = NoTour
  /\ UNCHANGED <<pc, scenic, used, missed>>

(* Mutant of TryRefused: falls back to the base route, as RouteNoPeaks does.*)
TryRefusedFallback(c) ==
  /\ Order(c) # NoTour
  /\ missed' = missed \cup {c}
  /\ scenic' = [scenic EXCEPT !.origin = "base", !.stops = req.via, !.length = base.length]
  /\ used' = NoTour
  /\ UNCHANGED pc

(* One turn whose candidate route Valhalla refuses.                        *)
TryRefused(c) ==
  /\ Order(c) # NoTour
  /\ missed' = missed \cup {c}
  /\ UNCHANGED <<pc, scenic, used>>

(* Mutant of TryRouted: usedPeaks is recorded only for the route that      *)
(* ends the search.                                                        *)
TryRoutedLateUsed(c) ==
  /\ Order(c) # NoTour
  /\ \E r \in ScenicRoutes :
       /\ scenic' = [origin |-> "peaks", stops |-> Order(c), length |-> r.length, score |-> r.score]
       /\ pc' = IF r.score >= HeatThreshold(req) THEN "done" ELSE pc
       /\ used' = IF r.score >= HeatThreshold(req) THEN Order(c) ELSE used
  /\ UNCHANGED missed

(* Mutant of TryRouted: the break is missing.                              *)
TryRoutedNoBreak(c) ==
  /\ Order(c) # NoTour
  /\ \E r \in ScenicRoutes :
       scenic' = [origin |-> "peaks", stops |-> Order(c), length |-> r.length, score |-> r.score]
  /\ used' = Order(c)
  /\ UNCHANGED <<pc, missed>>

(* One turn whose candidate is accepted: it replaces scenicRoute whatever  *)
(* its score, and ends the search if the score is high enough.             *)
TryRouted(c) ==
  /\ Order(c) # NoTour
  /\ \E r \in ScenicRoutes :
       /\ scenic' = [origin |-> "peaks", stops |-> Order(c), length |-> r.length, score |-> r.score]
       /\ pc' = IF r.score >= HeatThreshold(req) THEN "done" ELSE pc
  /\ used' = Order(c)
  /\ UNCHANGED missed

(* The loop over peak counts (scenic.go:176-212).                          *)
Search ==
  /\ pc = "search"
  /\ \E c \in IterCounts(Len(peaks)) :
       /\ IsNextCount(c)
       /\ nPeaks' = c
       /\ TryNoTour(c) \/ TryRefused(c) \/ TryRouted(c)
  /\ UNCHANGED <<req, base, peaks, matrix>>

SearchOver ==
  /\ pc = "search"
  /\ \A c \in IterCounts(Len(peaks)) : c <= nPeaks
  /\ pc' = "done"
  /\ UNCHANGED <<req, base, scenic, peaks, matrix, nPeaks, used, missed>>

Next ==
  \/ Embed
  \/ RouteBase
  \/ FetchFeatures
  \/ RouteNoPeaks
  \/ FetchMatrix
  \/ Search
  \/ SearchOver

Spec == Init /\ [][Next]_vars
-----------------------------------------------------------------------------
Origins == {"none", "base", "noPeaks", "peaks"}

TypeOK ==
  /\ pc \in {"embed", "route", "features", "scenic", "matrix", "search", "done", "failed"}
  /\ req \in Requests
  /\ base \in BaseRoutes \cup {NoBase}
  /\ scenic \in [origin : Origins, stops : Seq(UserPoints) \cup Seq(Nat), length : Nat, score : Nat]
  /\ peaks \in HeatProfiles \cup {<<>>}
  /\ matrix \in Matrices \cup {NoMatrix}
  /\ nPeaks \in Nat
  /\ used \in Seq(1..Len(peaks))
  /\ missed \in SUBSET Nat

(* Result.UsedPeaks are the waypoints of Result.ScenicRoute, in order, or  *)
(* both say that no peak was used: each has a statement of its own, and a  *)
(* turn that is refused must leave both alone (scenic.go:192-208).         *)
UsedPeaksOnRoute ==
  /\ scenic.origin = "peaks" => scenic.stops = used /\ used # NoTour
  /\ scenic.origin # "peaks" => used = NoTour /\ scenic.stops \in {<<>>, req.via}

(* The tour behind the peaks in the result keeps to the caller's detour    *)
(* budget, whichever turn of the search it came from (scenic.go:169-184).  *)
ToursFitBudget ==
  used # NoTour =>
    ~Exceeds(2 * base.length * TourTime(matrix, used), 
             IF base.length = 0 THEN Unlimited ELSE MaxDetourRatio(req) * req.direct * base.time)

(* A later turn of the search never trades the peaks in use for colder     *)
(* ones or for none (scenic.go:176-208).                                   *)
HeatGrows ==
  [][used # NoTour => used' # NoTour /\ TourHeat(peaks', used') >= TourHeat(peaks, used)]_vars

(* A search that ends below the threshold has left no hotter tour untried, *)
(* unless Valhalla refused the last candidate (scenic.go:176-212).         *)
SearchExhaustive ==
  pc = "done" /\ matrix # NoMatrix /\ Len(peaks) \notin missed
    /\ scenic.score < HeatThreshold(req) =>
       \A c \in 1..Len(peaks) : TourHeat(peaks, Order(c)) <= TourHeat(peaks, used)

(* Once a route through peaks reaches the threshold nothing replaces it:   *)
(* the break at scenic.go:209-211 ends the search, not just the turn.      *)
ScenicEnoughIsFinal ==
  [][scenic.origin # "none" /\ scenic.score >= HeatThreshold(req) => scenic' = scenic]_vars

-----------------------------------------------------------------------------
(* Claim of scenic.go:21-22 (and of the tool's schema): "intermediate      *)
(* points are forced waypoints the route must pass through".  False once   *)
(* peaks are used: their tour starts from the first point and ends at the  *)
(* last (scenic.go:185-190).                                               *)
ForcedWaypoints ==
  pc = "done" => \A i \in DOMAIN req.via : \E j \in DOMAIN scenic.stops : scenic.stops[j] = req.via[i]

(* Claim of README.md:155: "scenic route <= 1.5x direct distance", here    *)
(* only where the plain route itself keeps to it.  False: the budget only  *)
(* prunes peaks; neither the route without peaks nor the route Valhalla    *)
(* finds for a tour is measured against it (scenic.go:132-136, 192-203).   *)
DetourCapped ==
  pc = "done" /\ req.direct > 0 /\ 2 * base.length <= MaxDetourRatio(req) * req.direct =>
    2 * scenic.length <= MaxDetourRatio(req) * req.direct
=============================================================================
