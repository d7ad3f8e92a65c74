------------------------------ MODULE HeatSearch ------------------------------
(***************************************************************************)
(* What Plan does with its answers between the base route and the scenic   *)
(* one: a search of the feature table, the heat grid of a scene, its       *)
(* encoding and the cost an edge gets from it, the score of a route, and,  *)
(* step by step, the peaks of the grid.  A behaviour starts from a search, *)
(* a scene or a bare grid.                                                 *)
(***************************************************************************)
EXTENDS HeatPeaks, ScenicCosting, FeatureQuery

CONSTANTS
  Searches, \* [query, rows]
  Scenes    \* [box, features, route]

VARIABLES
  search, \* a query, the table it runs on, and the rows it returned
  scene   \* a box, the features in it, their heat grid, and a route

allVars == <<search, scene, vars>>

NoSearch == [rows |-> {}]
NoScene == [box |-> EmptyBox]

-----------------------------------------------------------------------------
LonLat == Int \X Int

(* Coordinates decode as the type says.                                    *)
IsSimple(raw) ==
  CASE raw.type = "Point"                           -> raw.coordinates \in LonLat
    [] raw.type = "LineString"                      -> raw.coordinates \in Seq(LonLat)
    [] raw.type \in {"Polygon", "MultiLineString"} -> raw.coordinates \in Seq(Seq(LonLat))
    [] raw.type = "MultiPolygon"                    -> raw.coordinates \in Seq(Seq(Seq(LonLat)))
    [] OTHER -> TRUE

IsRaw(raw) ==
  IF raw.type # "GeometryCollection" THEN IsSimple(raw)
  ELSE /\ IsFiniteSet(DOMAIN raw.geometries)
       /\ \A i \in DOMAIN raw.geometries : IsSimple(raw.geometries[i])

(* routeBBox pads a box: no side is as short as a digit of its bounds      *)
(* (scenic.go:269-296).                                                    *)
IsBox(box) == /\ \A i \in 1..4 : box[i] \in Int
              /\ box[1] + LonDigit < box[3] /\ box[2] + LatDigit < box[4]

ASSUME SearchAssumption ==
  \A s \in Searches :
    /\ s.query.vec \in BOOLEAN /\ s.query.name \in BOOLEAN
    /\ s.query.minSim \in Int /\ s.query.limit \in Int
    /\ IsFiniteSet(s.rows)
    /\ \A row \in s.rows : row.cosine \in Int /\ row.words \in Int

ASSUME SceneAssumption ==
  \A s \in Scenes :
    /\ IsBox(s.box)
    /\ s.route \in Seq(LonLat)
    /\ IsFiniteSet(s.features)
    /\ \A f \in s.features : f.similarity \in Int /\ IsRaw(f.geom)

ASSUME BareAssumption == \A g \in Grids : \A c \in DOMAIN g : g[c] \in Nat

-----------------------------------------------------------------------------
SearchStarts ==
  /\ \E s \in Searches : \E a \in Features(s.query, s.rows) :
       search = [query |-> s.query, rows |-> s.rows, answer |-> a]
  /\ scene = NoScene

SceneStarts ==
  /\ search = NoSearch
  /\ \E s \in Scenes :
       scene = [box |-> s.box, features |-> s.features, route |-> s.route,
                heat |-> Compute(s.features, s.box)]

BareStarts == search = NoSearch /\ scene = NoScene

AllInit == (SearchStarts \/ SceneStarts \/ BareStarts) /\ Init

AllNext == BareStarts /\ Next /\ UNCHANGED <<search, scene>>

AllSpec == AllInit /\ [][AllNext]_allVars

-----------------------------------------------------------------------------
Searched == search # NoSearch
Staged   == scene # NoScene

Grid == IF Staged THEN scene.heat ELSE heat

Places(box) == (box[1]..box[3]) \X (box[2]..box[4])

Answer == {search.answer[i] : i \in DOMAIN search.answer}

(* A row that matches the tags asked for and is not returned is no better  *)
(* than any that is, or falls short of the caller's threshold, of 0.88 of  *)
(* the best row, or of the word similarity the index requires; and no more *)
(* rows than the limit are left out for it (geodata.go:164-224).           *)
BestRowsWin ==
  Searched =>
    LET q       == search.query
        Sim(r)  == Similarity(q, r)
        Asked   == {r \in search.rows : r.located /\ r.inBox /\ Included(q.include, r) /\ ~Excluded(q.exclude, r)
                                          /\ (q.vec => r.cosine # NoVector)
                                          /\ (q.name => r.words >= WordThreshold)}
        Enough  == {r \in Asked : q.minSim > 0 => Sim(r) >= q.minSim}
        Close   == {r \in Enough : q.vec => \A o \in Enough : 100 * Sim(r) >= 88 * Sim(o)}
    IN  /\ Answer \subseteq Close
        /\ q.minSim > 0 =>
             \A r \in Close \ Answer : Limit(q) <= Len(search.answer) /\ \A o \in Answer : Sim(o) >= Sim(r)
        /\ \A i, j \in DOMAIN search.answer : i < j => Sim(search.answer[i]) >= Sim(search.answer[j])

(* No row returned has a key excluded with "*", or the pair excluded when  *)
(* only one is (geodata.go:41-45).                                         *)
LonePairsExcluded ==
  Searched =>
    \A row \in Answer : \A k \in DOMAIN search.query.exclude :
      IF search.query.exclude[k] = AnyValue THEN ~HasKey(row, k)
      ELSE {o \in DOMAIN search.query.exclude : search.query.exclude[o] # AnyValue} = {k}
             => ~HasPair(row, k, search.query.exclude[k])

(* The claim of the comment at geodata.go:41-43: "OSM tag key=value pairs  *)
(* that must NOT match"; a value "excludes that specific value".  False:   *)
(* two pairs with values only exclude rows that have both.                 *)
ExcludesHonoured ==
  Searched =>
    \A row \in Answer : \A k \in DOMAIN search.query.exclude :
      ~HasPair(row, k, search.query.exclude[k])

-----------------------------------------------------------------------------
(* The window a feature is tried on leaves out no cell it reaches, at the  *)
(* borders of the grid, for shapes that stick out of it and for shapes     *)
(* with empty parts: every cell has the heat of the hottest feature within *)
(* reach of its centre (heatmap.go:116-133).                               *)
WindowComplete ==
  Staged =>
    \A c \in DOMAIN Grid :
      LET reach == {f \in scene.features : f.similarity > 0 /\ Build(f.geom) # NoGeom
                                             /\ Near(Build(f.geom), Centre(scene.box, c), Cutoff)}
          Heat(f) == Sq(Sq(f.similarity)) * Kernel(Build(f.geom), Centre(scene.box, c))
      IN  /\ \A f \in reach : Heat(f) <= Grid[c]
          /\ Grid[c] = 0 \/ \E f \in reach : Heat(f) = Grid[c]

(* Counting crossings to the east says inside of just the places of which  *)
(* counting crossings to the north does, also level with a vertex or an    *)
(* edge, for a ring that ends where it starts (geom.go:242-253).           *)
RaysAgree ==
  Staged =>
    \A f \in scene.features : f.geom.type = "Polygon" /\ f.geom.coordinates # <<>> =>
      LET ring == f.geom.coordinates[1]
          Edges == 2..Len(ring)
          North(p, a, b) == Crosses(<<p[2], p[1]>>, <<a[2], a[1]>>, <<b[2], b[1]>>)
      IN  ring # <<>> /\ ring[1] = Last(ring) =>
            \A p \in Places(scene.box) :
              LineNear(p, ring, 1) \/
              (InRing(p, ring) <=> Cardinality({i \in Edges : North(p, ring[i], ring[i - 1])}) % 2 = 1)

(* Every place of the box is in the cell it is given, the places on the    *)
(* east and south borders too, and every cell has a place of the box       *)
(* (heatmap.go:70-71, 545-556).                                            *)
CellsHoldPlaces ==
  Staged =>
    LET box == scene.box
        Given(p) == <<YOf(box, p[2]), XOf(box, p[1])>>
    IN  /\ {Given(p) : p \in Places(box)} = DOMAIN Grid
        /\ \A p \in Places(box) :
             LET m == Centre(box, Given(p))
             IN  2 * Max({m[1] - p[1], p[1] - m[1], m[2] - p[2], p[2] - m[2]}) <= Cell

(* The bytes sent to Valhalla keep the order of the heats, reach 255 at    *)
(* the hottest cell, are 0 only where the heat is too small for a byte,    *)
(* and flatten no more than one hot cell in twenty (heatmap.go:142-171).   *)
EncodingFaithful ==
  pc = "begin" =>
    \A bytes \in {Encode(Grid)} : \* not LET: TLC would encode anew at each use
    /\ \A c, d \in DOMAIN Grid : bytes[c] \in 0..255 /\ (Grid[c] <= Grid[d] => bytes[c] <= bytes[d])
    /\ \A c \in Nonzero(Grid) :
         /\ (\A d \in DOMAIN Grid : Grid[d] <= Grid[c]) => bytes[c] = 255
         /\ bytes[c] = 0 => 255 * Grid[c] < Max({Grid[d] : d \in DOMAIN Grid})
    /\ 20 * Cardinality({c \in Nonzero(Grid) : \E d \in DOMAIN Grid : bytes[d] = 255 /\ Grid[d] < Grid[c]})
         <= Cardinality(Nonzero(Grid))

(* The score samples both ends of a route, and walks less than SampleEvery *)
(* and one edge between two samples (heatmap.go:503-528).                  *)
SamplesSpaced ==
  Staged =>
    LET r == scene.route
        S == Sampled(r)
    IN  /\ {i \in DOMAIN r : i \in {1, Len(r)}} \subseteq S
        /\ \A i, j \in S : i < j /\ (i + 1)..(j - 1) \cap S = {} =>
             j = i + 1 \/ WalkLength(r, i, j - 1) < SampleEvery

(* Valhalla reads the cell in which the server puts the place, or another  *)
(* no more than half a digit away from it, on any side; in a box that is   *)
(* no whole number of cells it may read one cell further to the east or    *)
(* south.  A place it finds outside of its box is that close to the border *)
(* (scenic_pedestrian.patch:212-220, 275-276, heatmap.go:545-546).         *)
ReadersAgree ==
  Staged =>
    LET box   == scene.box
        lon   == LonDigit \div 2
        lat   == LatDigit \div 2
        Drift(side) == IF side % Cell = 0 THEN 0 ELSE 1
    IN  \A p \in Places(box) :
          IF InBox(box, p)
            THEN /\ CellRead(box, p)[2] \in XOf(box, p[1] - lon)..(XOf(box, p[1] + lon) + Drift(box[3] - box[1]))
                 /\ CellRead(box, p)[1] \in YOf(box, p[2] + lat)..(YOf(box, p[2] - lat) + Drift(box[4] - box[2]))
            ELSE \/ p[1] < box[1] + lon \/ box[3] - lon < p[1]
                 \/ p[2] < box[2] + lat \/ box[4] - lat < p[2]

(* What Plan measures is what Valhalla was told to look for: the factor by *)
(* which an edge gets cheaper is one minus the score the server gives to   *)
(* its vertices, up to the precision of a byte and the floor of 0.1        *)
(* (scenic_pedestrian.patch:222-241, heatmap.go:142-171, 508-533).  It     *)
(* speaks of the code's mean over the vertices; README.md:58 has Valhalla  *)
(* look at the edge's midpoint instead, of which this would be false.      *)
CostFollowsScore ==
  Staged /\ scene.route # <<>> /\ Sampled(scene.route) = DOMAIN scene.route =>
    LET box    == scene.box
        score  == ScoreRoute(Grid, box, scene.route)
        factor == EdgeFactor(Encode(Grid), box, scene.route)
    IN  (\A i \in DOMAIN scene.route : LET p == scene.route[i] IN
           InBox(box, p) /\ CellRead(box, p) = <<YOf(box, p[2]), XOf(box, p[1])>>) =>
        /\ 10 * factor.num >= factor.den
        /\ factor.num * score.of >= factor.den * (score.of - score.sum)
        /\ \/ 10 * factor.num = factor.den
           \/ 255 * (factor.num * score.of - factor.den * (score.of - score.sum)) <= factor.den * score.of
=============================================================================
