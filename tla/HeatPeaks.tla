------------------------------ MODULE HeatPeaks ------------------------------
(***************************************************************************)
(* Grid.Peaks (internal/heatmap/heatmap.go:208-473): up to n waypoints     *)
(* that stand for the hot spots of a heat grid.  Hot cells are flooded     *)
(* into 8-connected components, a component is cut into buckets along its  *)
(* principal axis, every bucket offers one candidate, and candidates are   *)
(* taken from the hottest down unless too close to one already taken.      *)
(*                                                                         *)
(* Lengths are in cells (ResolutionM metres each way), heats are integers. *)
(* Which way the principal axis points and which cell of a bucket scores   *)
(* best are left open: nothing below depends on it.                        *)
(***************************************************************************)
EXTENDS Heats, Sequences, SequencesExt

CONSTANTS
  Grids,    \* heat grids, as functions from cells to heat; 0 is no heat
  Axes,     \* directions the principal axis may have, in fifths of a unit
  MaxPeaks, \* n
  Spacing,  \* peakSpacingM
  MinSep    \* peakMinSepM

MaxPerComp == 4

ASSUME PeaksAssumption ==
  /\ \A g \in Grids : DOMAIN g \subseteq Int \X Int /\ IsFiniteSet(DOMAIN g)
  /\ Axes # {} /\ Axes \subseteq Int \X Int
  /\ MaxPeaks \in Nat
  /\ Spacing \in Nat \ {0}
  /\ MinSep \in Nat

VARIABLES
  heat,     \* g.Values
  hot,      \* cells above the threshold
  visited,  \* cells flooded so far
  frontier, \* cells of the queue
  comp,     \* the component being flooded
  comps,    \* history: the components so far
  cands,    \* candidates: a cell, and the cells of its bucket
  left,     \* candidates not yet considered
  peaks,    \* the result
  pc

floodVars == <<hot, visited, frontier, comp, comps>>
vars == <<heat, floodVars, cands, left, peaks, pc>>

Cells == DOMAIN heat

-----------------------------------------------------------------------------
(* gini < 0.5 for gini = (2 * weighted / total - (n + 1)) / n.             *)
Flat(g) ==
  LET n        == Cardinality(Cells)
      weighted == MapThenSumSet(LAMBDA i : (i + 1) * SortedAt(g, Cells, i), 0..(n - 1))
      total    == TotalHeat(g, Cells)
  IN  2 * (2 * weighted - (n + 1) * total) < n * total

(* nonzero[int(len * 0.75)].                                               *)
Threshold(g) == SortedAt(g, Nonzero(g), (3 * Cardinality(Nonzero(g))) \div 4)

(* Mutant of Adjacent: only the four cells that share a side.              *)
AdjacentBySide(c, d) ==
  (c[1] = d[1] /\ c[2] - d[2] \in -1..1) \/ (c[2] = d[2] /\ c[1] - d[1] \in -1..1)

Adjacent(c, d) == c[1] - d[1] \in -1..1 /\ c[2] - d[2] \in -1..1

-----------------------------------------------------------------------------
(* Position of a cell along an axis, in fifths of a cell.                  *)
Proj(axis, c) == c[1] * axis[1] + c[2] * axis[2]

Extent(axis, S) == Max({Proj(axis, c) : c \in S}) - Min({Proj(axis, c) : c \in S})

(* max(1, min(peakMaxPerComp, round(extent / peakSpacingM))).              *)
Pieces(axis, S) ==
  LET k == (2 * Extent(axis, S) + 5 * Spacing) \div (10 * Spacing)
  IN  IF k < 1 THEN 1 ELSE IF k > MaxPerComp THEN MaxPerComp ELSE k

(* Mutant of BucketOf: the cell at the far end falls out of the last       *)
(* bucket.                                                                 *)
BucketOfUnclamped(axis, S, c) ==
  IF Extent(axis, S) = 0 THEN 0
  ELSE ((Proj(axis, c) - Min({Proj(axis, d) : d \in S})) * Pieces(axis, S)) \div Extent(axis, S)

BucketOf(axis, S, c) ==
  IF Extent(axis, S) = 0 THEN 0
  ELSE LET k == Pieces(axis, S)
           b == ((Proj(axis, c) - Min({Proj(axis, d) : d \in S})) * k) \div Extent(axis, S)
       IN  IF b >= k THEN k - 1 ELSE b

Buckets(axis, S) ==
  {{c \in S : BucketOf(axis, S, c) = b} : b \in 0..(Pieces(axis, S) - 1)} \ {{}}

(* A candidate's heat is the mean heat of its bucket.                      *)
Hotter(c, d) ==
  TotalHeat(heat, c.bucket) * Cardinality(d.bucket) > TotalHeat(heat, d.bucket) * Cardinality(c.bucket)

TooClose(c, p) ==
  (c.cell[1] - p.cell[1]) ^ 2 + (c.cell[2] - p.cell[2]) ^ 2 < MinSep ^ 2

-----------------------------------------------------------------------------
Init ==
  /\ heat \in Grids
  /\ hot = {} /\ visited = {} /\ frontier = {} /\ comp = {} /\ comps = {}
  /\ cands = {} /\ left = {} /\ peaks = <<>>
  /\ pc = "begin"

(* Too few cells with heat, or heat too even: no peaks.                    *)
NoPeaks ==
  /\ pc = "begin"
  /\ Cardinality(Nonzero(heat)) < 4 \/ Flat(heat)
  /\ pc' = "done"
  /\ UNCHANGED <<heat, floodVars, cands, left, peaks>>

MarkHot ==
  /\ pc = "begin"
  /\ ~(Cardinality(Nonzero(heat)) < 4 \/ Flat(heat))
  /\ hot' = {c \in Cells : heat[c] >= Threshold(heat)}
  /\ pc' = "seed"
  /\ UNCHANGED <<heat, visited, frontier, comp, comps, cands, left, peaks>>

(* The next hot cell, in row order, that no component holds.               *)
Seed ==
  /\ pc = "seed"
  /\ \E c \in hot \ visited :
       /\ \A d \in hot \ visited : c[1] < d[1] \/ (c[1] = d[1] /\ c[2] <= d[2])
       /\ frontier' = {c}
       /\ visited' = visited \cup {c}
  /\ comp' = {}
  /\ pc' = "flood"
  /\ UNCHANGED <<heat, hot, comps, cands, left, peaks>>

(* Mutant of Flood: the heat of a neighbour is not looked at.              *)
FloodCold ==
  /\ pc = "flood"
  /\ frontier # {}
  /\ comp' = comp \cup frontier
  /\ frontier' = {d \in Cells \ visited : \E c \in frontier : Adjacent(c, d)}
  /\ visited' = visited \cup frontier'
  /\ UNCHANGED <<heat, hot, comps, cands, left, peaks, pc>>

(* The breadth-first search, one ring of the queue at a time.              *)
Flood ==
  /\ pc = "flood"
  /\ frontier # {}
  /\ comp' = comp \cup frontier
  /\ frontier' = {d \in hot \ visited : \E c \in frontier : Adjacent(c, d)}
  /\ visited' = visited \cup frontier'
  /\ UNCHANGED <<heat, hot, comps, cands, left, peaks, pc>>

(* Every bucket of the component offers one of its cells.                  *)
Split ==
  /\ pc = "flood"
  /\ frontier = {}
  /\ \E axis \in Axes :
       \E best \in [Buckets(axis, comp) -> comp] :
         /\ \A b \in Buckets(axis, comp) : best[b] \in b
         /\ cands' = cands \cup {[cell |-> best[b], bucket |-> b] : b \in Buckets(axis, comp)}
  /\ comps' = comps \cup {comp}
  /\ pc' = "seed"
  /\ UNCHANGED <<heat, hot, visited, frontier, comp, left, peaks>>

Sort ==
  /\ pc = "seed"
  /\ hot \subseteq visited
  /\ left' = cands
  /\ pc' = "take"
  /\ UNCHANGED <<heat, floodVars, cands, peaks>>

(* Mutants of Consider: candidates are not sorted; only the peak taken     *)
(* last is looked at.                                                      *)
ConsiderUnsorted ==
  /\ pc = "take" /\ Len(peaks) < MaxPeaks
  /\ \E c \in left :
       /\ left' = left \ {c}
       /\ peaks' = IF \E i \in DOMAIN peaks : TooClose(c, peaks[i]) THEN peaks ELSE Append(peaks, c)
  /\ UNCHANGED <<heat, floodVars, cands, pc>>

ConsiderLastOnly ==
  /\ pc = "take" /\ Len(peaks) < MaxPeaks
  /\ \E c \in left :
       /\ \A d \in left : ~Hotter(d, c)
       /\ left' = left \ {c}
       /\ peaks' = IF peaks # <<>> /\ TooClose(c, Last(peaks)) THEN peaks ELSE Append(peaks, c)
  /\ UNCHANGED <<heat, floodVars, cands, pc>>

(* The next candidate in the order of heat; sort.Slice leaves equal ones   *)
(* in any order.                                                           *)
Consider ==
  /\ pc = "take" /\ Len(peaks) < MaxPeaks
  /\ \E c \in left :
       /\ \A d \in left : ~Hotter(d, c)
       /\ left' = left \ {c}
       /\ peaks' = IF \E i \in DOMAIN peaks : TooClose(c, peaks[i]) THEN peaks ELSE Append(peaks, c)
  /\ UNCHANGED <<heat, floodVars, cands, pc>>

Return ==
  /\ pc = "take"
  /\ left = {} \/ Len(peaks) >= MaxPeaks
  /\ pc' = "done"
  /\ UNCHANGED <<heat, floodVars, cands, left, peaks>>

Next == NoPeaks \/ MarkHot \/ Seed \/ Flood \/ Split \/ Sort \/ Consider \/ Return

Spec == Init /\ [][Next]_vars

-----------------------------------------------------------------------------
TypeOK ==
  /\ heat \in Grids
  /\ hot \subseteq Cells /\ visited \subseteq hot
  /\ frontier \subseteq hot /\ comp \subseteq hot
  /\ comps \subseteq SUBSET hot
  /\ cands \subseteq [cell : hot, bucket : SUBSET hot]
  /\ left \subseteq cands
  /\ peaks \in Seq(cands)
  /\ pc \in {"begin", "seed", "flood", "take", "done"}

(* Cells that share a side or a corner.                                    *)
Touch(c, d) == {c[1] - d[1], c[2] - d[2]} \subseteq {-1, 0, 1}

(* A set of cells with no two parts that do not touch.                     *)
Connected(S) ==
  \A part \in SUBSET S : part # {} /\ part # S => \E c \in part, d \in S \ part : Touch(c, d)

(* What has been flooded is exactly the 8-connected components of the hot  *)
(* cells: apart, each in one piece, and none that touches another          *)
(* (heatmap.go:264-298).                                                   *)
CompsAreComponents ==
  /\ \A S \in comps : S # {} /\ Connected(S)
  /\ \A S, T \in comps : S # T => \A c \in S, d \in T : ~Touch(c, d)
  /\ pc = "take" => UNION comps = hot

(* No heat is lost or counted twice between a component and its            *)
(* candidates: when they are sorted, every hot cell is in the bucket of    *)
(* just one, which may be the last though the far end of the axis rounds   *)
(* to one more (heatmap.go:387-438).                                       *)
HeatCountedOnce ==
  pc = "take" =>
    /\ UNION {c.bucket : c \in cands} = hot
    /\ \A c, d \in cands : c # d => c.bucket \cap d.bucket = {}

(* Any two peaks are at least peakMinSepM apart (heatmap.go:190-191).      *)
PeaksApart == \A i, j \in DOMAIN peaks : i < j => ~TooClose(peaks[j], peaks[i])

(* Peaks come from the hottest down, which Plan's search over the first    *)
(* peaks and the normalisation by the first candidate rely on; and a       *)
(* candidate that was passed over is too close to a peak that is no        *)
(* colder, or came after all n were found (heatmap.go:446-471).            *)
HottestFirst ==
  /\ \A i, j \in DOMAIN peaks : i < j => ~Hotter(peaks[j], peaks[i])
  /\ \A c \in cands \ left :
       pc \in {"take", "done"} =>
         \E i \in DOMAIN peaks : (c = peaks[i] \/ TooClose(c, peaks[i])) /\ ~Hotter(c, peaks[i])
  /\ \A c \in left : \A i \in DOMAIN peaks : ~Hotter(c, peaks[i])
=============================================================================
