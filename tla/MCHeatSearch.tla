----------------------------- MODULE MCHeatSearch -----------------------------
(***************************************************************************)
(* Small instance of HeatSearch: shapes with every kind of empty part,     *)
(* boxes that are and are not whole numbers of cells, with bounds of too   *)
(* many digits, routes that double back, every bare grid of eight cells.   *)
(***************************************************************************)
EXTENDS HeatSearch

-----------------------------------------------------------------------------
Shape(type, c) == [type |-> type, coordinates |-> c]
Square(x, y, n) == << <<x, y>>, <<x + n, y>>, <<x + n, y + n>>, <<x, y + n>>, <<x, y>> >>
Notch == << <<0, 0>>, <<12, 0>>, <<6, 6>>, <<12, 12>>, <<0, 12>>, <<0, 0>> >>

Shapes ==
  {Shape("Point", c) : c \in {<<8, 10>>, <<22, -2>>}}
    \cup {Shape("LineString", c) : c \in {<< <<2, 2>>, <<8, 10>>, <<18, 10>> >>, << <<6, 6>> >>, << <<10, 4>>, <<10, 4>> >>}}
    \cup {Shape("Polygon", <<c>>) : c \in {Notch, Square(10, 8, 8), << <<2, 0>>, <<8, 16>>, <<14, 4>>, <<2, 0>> >>}}
    \cup {Shape("Polygon", <<Square(2, 2, 12), Square(6, 6, 4)>>),
          Shape("MultiLineString", << <<>>, << <<14, 16>>, <<18, 16>> >> >>),
          Shape("MultiPolygon", << <<Square(14, 12, 4)>>, <<>> >>),
          Shape("MultiPoint", << <<8, 10>> >>),
          [type |-> "GeometryCollection",
           geometries |-> <<Shape("MultiPoint", << <<2, 2>> >>), Shape("Point", <<16, 4>>)>>]}

Boxes == {<<3, 1, 23, 21>>, <<1, -4, 19, 14>>}
Few(S) == {{}} \cup {{a, b} : a, b \in S}

Cool  == [geom |-> Shape("Polygon", <<Notch>>), similarity |-> -1]
Drawn ==
  {[box |-> b, features |-> fs, route |-> <<>>] :
     b \in Boxes, fs \in Few([geom : Shapes, similarity : {1, 2}] \cup {Cool})}

Stops  == {<<3, 1>>, <<5, 1>>, <<5, 7>>, <<18, 7>>, <<19, 13>>}
Routes == UNION {[1..n -> Stops] : n \in 1..3} \cup [1..4 -> {<<3, 1>>, <<5, 1>>, <<18, 7>>}]

Walked ==
  {[box |-> b, features |-> {[geom |-> Shape("Polygon", <<Notch>>), similarity |-> 1],
                             [geom |-> Shape("Point", <<18, 7>>), similarity |-> 2]}, route |-> r] :
     b \in Boxes, r \in Routes}

MCScenes == Drawn \cup Walked

(* Every grid of two rows of four cells, and of one row of eight.          *)
Bare == [(1..2) \X (1..4) -> {0, 1, 3}] \cup [(1..1) \X (1..8) -> {0, 1, 2}]

MCGrids == Bare
MCAxes  == {<<5, 0>>, <<0, 5>>, <<3, 4>>, <<-4, 3>>}
OneGrid == CHOOSE g \in Bare : \A c \in DOMAIN g : g[c] = 0

-----------------------------------------------------------------------------
Place(id, tags, cosine, words) ==
  [id |-> id, tags |-> tags, cosine |-> cosine, words |-> words, located |-> TRUE, inBox |-> TRUE]

Private == [access |-> "private"]

Rows ==
  {Place(1, Private, 90, 80),
   Place(2, [access |-> "private", fee |-> "no"], 85, 50),
   Place(3, [fee |-> "yes"], 76, 90),
   Place(4, <<>>, 70, 65),
   Place(5, [kind |-> "bench"], NoVector, 100),
   [Place(6, <<>>, 95, 95) EXCEPT !.inBox = FALSE]}

Queries ==
  {q \in [vec : BOOLEAN, name : BOOLEAN, include : {<<>>, Private, [fee |-> AnyValue]},
          exclude : {<<>>, Private, [fee |-> AnyValue], [access |-> "private", fee |-> AnyValue],
                     [access |-> "private", kind |-> "bench"]},
          minSim : {0, 650}, limit : {0, 2}] :
     q.vec \/ q.name \/ q.include # <<>>}

MCSearches == {[query |-> q, rows |-> t] : q \in Queries, t \in UNION {kSubset(n, Rows) : n \in 0..4}}

(* Only behaviours that start from a bare grid look at heat.               *)
MCInit ==
  \/ (SearchStarts \/ SceneStarts) /\ heat = OneGrid /\ Init
  \/ BareStarts /\ Init

MCSpec == MCInit /\ [][AllNext]_allVars
=============================================================================
