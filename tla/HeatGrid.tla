------------------------------- MODULE HeatGrid -------------------------------
(***************************************************************************)
(* The heat grid (internal/heatmap/heatmap.go): computed from scored       *)
(* features over a box, encoded for Valhalla, and asked for the heat of a  *)
(* route.  A cell is Cell lattice units wide, an even number, so that its  *)
(* centre is a place; cells are <<y, x>>, y counted from the north.  Heat  *)
(* is an integer: the kernel, a square that falls to 0 at the cutoff, has  *)
(* one level per lattice unit.                                             *)
(***************************************************************************)
EXTENDS Geometry, Heats

CONSTANTS
  Cell,       \* ResolutionM
  Cutoff,     \* three sigma
  SampleEvery \* sampleEveryM

ASSUME HeatGridAssumption ==
  /\ Cell \in Nat \ {0} /\ Cell % 2 = 0
  /\ {Cutoff, SampleEvery} \subseteq Nat \ {0}

CeilDiv(a, b) == -((-a) \div b)

(* int(a / b) of floats rounds towards zero.                               *)
Trunc(a, b) == IF a < 0 THEN -((-a) \div b) ELSE a \div b

Clamp(v, lo, hi) == IF v < lo THEN lo ELSE IF v > hi THEN hi ELSE v

Width(box)  == Max({1, CeilDiv(box[3] - box[1], Cell)})
Height(box) == Max({1, CeilDiv(box[4] - box[2], Cell)})

Centre(box, c) == <<box[1] + c[2] * Cell + Cell \div 2, box[4] - c[1] * Cell - Cell \div 2>>

(* Mutant of XOf: only cells before the first one are moved.               *)
XOfUnclamped(box, lon) == Max({0, Trunc(lon - box[1], Cell)})

XOf(box, lon) == Clamp(Trunc(lon - box[1], Cell), 0, Width(box) - 1)
YOf(box, lat) == Clamp(Trunc(box[4] - lat, Cell), 0, Height(box) - 1)

-----------------------------------------------------------------------------
(* weight * (1 - d / cutoff)^2, 0 from the cutoff on.                      *)
Kernel(g, p) == Sq(Cardinality({r \in 1..Cutoff : Near(g, p, r)}))

(* Mutant of Window: the cutoff is not added to the feature's box.         *)
WindowTight(box, g) ==
  LET b == BBox(g)
  IN  (YOf(box, b[4])..YOf(box, b[2])) \X (XOf(box, b[1])..XOf(box, b[3]))

(* Cells a feature is tried on.                                            *)
Window(box, g) ==
  LET b == BBox(g)
  IN  (YOf(box, b[4] + Cutoff)..YOf(box, b[2] - Cutoff))
        \X (XOf(box, b[1] - Cutoff)..XOf(box, b[3] + Cutoff))

Compute(features, box) ==
  LET Field(f) == LET g == Build(f.geom) IN
                  [c \in Window(box, g) |-> Sq(Sq(f.similarity)) * Kernel(g, Centre(box, c))]
      fields   == {Field(f) : f \in {h \in features : h.similarity > 0 /\ Build(h.geom) # NoGeom}}
  IN  [c \in (0..(Height(box) - 1)) \X (0..(Width(box) - 1)) |->
         Max({0} \cup {field[c] : field \in {h \in fields : c \in DOMAIN h}})]

-----------------------------------------------------------------------------
(* nonzero[int(len * 0.95)].                                               *)
Ceiling(g) == SortedAt(g, Nonzero(g), (95 * Cardinality(Nonzero(g))) \div 100)

(* Mutant of Encode: heat above the ceiling wraps around in a byte.        *)
EncodeUnclamped(g) ==
  LET top == Ceiling(g)
  IN  [c \in DOMAIN g |-> IF Nonzero(g) = {} THEN 0 ELSE ((255 * g[c]) \div top) % 256]

Encode(g) ==
  LET top == Ceiling(g)
  IN  [c \in DOMAIN g |-> IF Nonzero(g) = {} THEN 0 ELSE (255 * Min({g[c], top})) \div top]

-----------------------------------------------------------------------------
(* Metres from one vertex to the next, rounded down.                       *)
EdgeLength(a, b) ==
  CHOOSE d \in 0..(SqDist(a, b)) : Sq(d) <= SqDist(a, b) /\ SqDist(a, b) < Sq(d + 1)

WalkLength(route, i, j) ==
  SumFunctionOnSet([k \in i..(j - 1) |-> EdgeLength(route[k], route[k + 1])], i..(j - 1))

(* Mutant of Sampled: the distance is not carried over a skipped vertex.   *)
SampledForgetful(route) ==
  {i \in DOMAIN route :
     i = 1 \/ i = Len(route) \/ EdgeLength(route[i - 1], route[i]) >= SampleEvery}

(* Vertices of a route that are sampled: the first, the last, and those    *)
(* before which SampleEvery has been walked since a sample was last due.   *)
Sampled(route) ==
  LET accumulated[i \in DOMAIN route] ==
        IF i = 1 THEN 0
        ELSE (IF accumulated[i - 1] >= SampleEvery THEN 0 ELSE accumulated[i - 1])
               + EdgeLength(route[i - 1], route[i])
  IN  {i \in DOMAIN route : i = 1 \/ accumulated[i] >= SampleEvery \/ i = Len(route)}

(* The score is the fraction sum / of; 0 for an empty route or grid.       *)
ScoreRoute(g, box, route) ==
  LET top   == Ceiling(g)
      At(i) == g[<<YOf(box, route[i][2]), XOf(box, route[i][1])>>]
  IN  IF route = <<>> \/ Nonzero(g) = {} THEN [sum |-> 0, of |-> 1]
      ELSE [sum |-> SumFunctionOnSet([i \in Sampled(route) |-> Min({At(i), top})], Sampled(route)),
            of  |-> top * Cardinality(Sampled(route))]
=============================================================================
