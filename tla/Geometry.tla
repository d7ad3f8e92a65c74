------------------------------- MODULE Geometry -------------------------------
(***************************************************************************)
(* Shapes of OSM objects (internal/geom/geom.go): parsed from GeoJSON, and *)
(* asked how near a place is and which box holds them.  Places are points  *)
(* <<lon, lat>> of an integer lattice whose unit is the same number of     *)
(* metres both ways.  A distance is never computed: it is a root, so the   *)
(* operators say instead whether it is less than a whole number.           *)
(***************************************************************************)
EXTENDS Integers, Sequences, FiniteSets, FiniteSetsExt, SequencesExt

Sq(n) == n * n
SqDist(p, q) == Sq(p[1] - q[1]) + Sq(p[2] - q[2])

(* A shape is the points, lines and polygons it is made of.  Collections    *)
(* come with the members of collections within them: the distance to a     *)
(* shape is the least one to a part, and its box is drawn around the boxes *)
(* of its parts, however they are nested.                                  *)
NoGeom == [points |-> {}, lines |-> {}, polys |-> {}]

(* A multi-geometry or collection of nothing, which is not nil: like an    *)
(* empty line it is at no distance and is boxed at the origin.             *)
EmptyShape == [NoGeom EXCEPT !.lines = {<<>>}]

(* What DistM and BBox see of a GeoJSON object that is no collection.  A   *)
(* type the switch does not list (MultiPoint among them), or coordinates   *)
(* that do not decode, give nil.                                           *)
BuildSimple(raw) ==
  CASE raw.type = "Point"      -> [NoGeom EXCEPT !.points = {raw.coordinates}]
    [] raw.type = "LineString" -> [NoGeom EXCEPT !.lines = {raw.coordinates}]
    [] raw.type = "Polygon"    -> [NoGeom EXCEPT !.polys = {raw.coordinates}]
    [] raw.type = "MultiLineString" ->
         IF raw.coordinates = <<>> THEN EmptyShape
         ELSE [NoGeom EXCEPT !.lines = ToSet(raw.coordinates)]
    [] raw.type = "MultiPolygon" ->
         IF raw.coordinates = <<>> THEN EmptyShape
         ELSE [NoGeom EXCEPT !.polys = ToSet(raw.coordinates)]
    [] OTHER -> NoGeom

(* A collection drops its nil members.                                     *)
Build(raw) ==
  LET members == {BuildSimple(raw.geometries[i]) : i \in DOMAIN raw.geometries} \ {NoGeom}
  IN  IF raw.type # "GeometryCollection" THEN BuildSimple(raw)
      ELSE IF members = {} THEN EmptyShape
      ELSE [points |-> UNION {g.points : g \in members},
            lines  |-> UNION {g.lines : g \in members},
            polys  |-> UNION {g.polys : g \in members}]

-----------------------------------------------------------------------------
(* segDistM(p, a, b) < r.  The foot of the perpendicular is clamped to the *)
(* ends of the segment.                                                    *)
SegNear(p, a, b, r) ==
  LET along == (p[1] - a[1]) * (b[1] - a[1]) + (p[2] - a[2]) * (b[2] - a[2])
      aside == (p[1] - a[1]) * (b[2] - a[2]) - (p[2] - a[2]) * (b[1] - a[1])
  IN  IF along <= 0 THEN SqDist(p, a) < Sq(r)
      ELSE IF along >= SqDist(a, b) THEN SqDist(p, b) < Sq(r)
      ELSE Sq(aside) < Sq(r) * SqDist(a, b)

(* Mutant of Crosses: an edge counts at its lower end at both vertices.    *)
CrossesClosed(p, a, b) ==
  LET rise == b[2] - a[2]
      gap  == (b[1] - a[1]) * (p[2] - a[2]) - (p[1] - a[1]) * rise
  IN  (a[2] >= p[2]) # (b[2] > p[2]) /\ IF rise > 0 THEN gap > 0 ELSE gap < 0

(* Does a ray east from p cross the edge from a to b?                      *)
Crosses(p, a, b) ==
  LET rise == b[2] - a[2]
      gap  == (b[1] - a[1]) * (p[2] - a[2]) - (p[1] - a[1]) * rise
  IN  (a[2] > p[2]) # (b[2] > p[2]) /\ IF rise > 0 THEN gap > 0 ELSE gap < 0

InRing(p, ring) ==
  LET Before(i) == ring[IF i = 1 THEN Len(ring) ELSE i - 1]
  IN  Cardinality({i \in DOMAIN ring : Crosses(p, ring[i], Before(i))}) % 2 = 1

LineNear(p, line, r) == \E i \in 2..Len(line) : SegNear(p, line[i - 1], line[i], r)

(* DistM(p) < r.  Only the outer ring of a polygon counts; an empty part   *)
(* is at no distance.                                                      *)
PolyNear(p, poly, r) == poly # <<>> /\ (InRing(p, poly[1]) \/ LineNear(p, poly[1], r))

Near(g, p, r) ==
  \/ \E q \in g.points : SqDist(p, q) < Sq(r)
  \/ \E line \in g.lines : LineNear(p, line, r)
  \/ \E poly \in g.polys : PolyNear(p, poly, r)

-----------------------------------------------------------------------------
(* Boxes are <<least lon, least lat, greatest lon, greatest lat>>; an      *)
(* empty shape is boxed at the origin.                                     *)
EmptyBox == <<0, 0, 0, 0>>

BoxOf(S) ==
  IF S = {} THEN EmptyBox
  ELSE <<Min({p[1] : p \in S}), Min({p[2] : p \in S}), Max({p[1] : p \in S}), Max({p[2] : p \in S})>>

Corners(box) == {<<box[1], box[2]>>, <<box[3], box[4]>>}

PolyBox(poly) == IF poly = <<>> THEN EmptyBox ELSE BoxOf(ToSet(poly[1]))

BBox(g) ==
  BoxOf(g.points \cup UNION ({Corners(BoxOf(ToSet(line))) : line \in g.lines}
                                \cup {Corners(PolyBox(poly)) : poly \in g.polys}))
=============================================================================
