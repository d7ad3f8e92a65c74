--------------------------- MODULE HeatPeaksProofs ---------------------------
(***************************************************************************)
(* Proofs about HeatPeaks for grids of any size and heat, any axes and any *)
(* number of peaks.                                                        *)
(***************************************************************************)
EXTENDS HeatPeaks, FiniteSetTheorems, WellFoundedInduction, TLAPS

(* Between two components: what has been flooded is what was visited.      *)
Flooded == UNION comps

FloodInv ==
  /\ pc = "flood" => visited = Flooded \cup comp \cup frontier
  /\ pc # "flood" => visited = Flooded
  /\ \A S \in comps : \A c \in S, d \in hot : Adjacent(c, d) => d \in S
  /\ \A S, T \in comps : S # T => S \cap T = {}
  /\ \A S \in comps : S # {} /\ Connected(S)
  /\ pc \in {"take", "done"} => Flooded = hot

(* Within one: its inner cells touch nothing outside, and its cells and    *)
(* those of the queue are in one piece.                                    *)
CompInv ==
  pc = "flood" =>
    /\ comp \cup frontier # {}
    /\ Connected(comp \cup frontier)
    /\ (comp \cup frontier) \cap Flooded = {}
    /\ \A c \in comp, d \in hot : Adjacent(c, d) => d \in comp \cup frontier

(* Before the first seed, and before the candidates are sorted.            *)
BeginInv ==
  /\ pc = "begin" => hot = {} /\ comps = {} /\ cands = {}
  /\ pc \notin {"take", "done"} => left = {} /\ peaks = <<>>

IInv == TypeOK /\ FloodInv /\ CompInv /\ BeginInv /\ PeaksApart /\ HottestFirst

-----------------------------------------------------------------------------
LEMMA AdjacentTouches ==
  ASSUME NEW c \in Int \X Int, NEW d \in Int \X Int
  PROVE  Touch(c, d) <=> Adjacent(c, d)
BY DEF Touch, Adjacent

LEMMA AdjacentSymmetric ==
  ASSUME NEW c \in Int \X Int, NEW d \in Int \X Int, Adjacent(c, d)
  PROVE  Adjacent(d, c)
BY DEF Adjacent

(* A piece stays in one piece when cells that touch it are added.          *)
LEMMA ConnectedGrows ==
  ASSUME NEW S \in SUBSET (Int \X Int), NEW F \in SUBSET (Int \X Int), Connected(S),
         \A f \in F : \E c \in S : Adjacent(c, f)
  PROVE  Connected(S \cup F)
<1>. SUFFICES ASSUME NEW part \in SUBSET (S \cup F), part # {}, part # S \cup F
              PROVE  \E c \in part, d \in (S \cup F) \ part : Adjacent(c, d)
  BY AdjacentTouches DEF Connected
<1>1. CASE part \cap S # {} /\ ~(S \subseteq part)
  <2>1. \E c \in part \cap S, d \in S \ (part \cap S) : Touch(c, d)
    BY <1>1 DEF Connected
  <2>. QED
    BY <2>1, AdjacentTouches
<1>2. CASE part \cap S = {}
  <2>1. PICK f \in part : f \in F
    BY <1>2
  <2>2. PICK c \in S : Adjacent(c, f)
    BY <2>1
  <2>3. Adjacent(f, c)
    BY <2>1, <2>2, AdjacentSymmetric
  <2>. QED
    BY <1>2, <2>1, <2>2, <2>3
<1>3. CASE S \subseteq part
  <2>1. PICK f \in F : f \notin part
    BY <1>3
  <2>2. PICK c \in S : Adjacent(c, f)
    BY <2>1
  <2>. QED
    BY <1>3, <2>1, <2>2
<1>. QED
  BY <1>1, <1>2, <1>3

LEMMA CellsType ==
  ASSUME TypeOK
  PROVE  hot \subseteq Int \X Int
BY PeaksAssumption DEF TypeOK, Cells

-----------------------------------------------------------------------------
LEMMA InitIInv == Init => IInv
<1>. SUFFICES ASSUME Init PROVE IInv
  OBVIOUS
<1>1. TypeOK
  BY DEF Init, TypeOK, Cells
<1>2. FloodInv /\ CompInv /\ BeginInv
  BY DEF Init, FloodInv, CompInv, BeginInv, Flooded
<1>3. PeaksApart /\ HottestFirst
  BY DEF Init, PeaksApart, HottestFirst
<1>. QED
  BY <1>1, <1>2, <1>3 DEF IInv

LEMMA TypeStep ==
  ASSUME IInv, [Next]_vars
  PROVE  TypeOK'
<1>0. TypeOK
  BY DEF IInv
<1>. USE DEF TypeOK, Cells
<1>1. CASE NoPeaks
  BY <1>0, <1>1 DEF NoPeaks, floodVars
<1>2. CASE MarkHot
  <2>1. visited = {} /\ frontier = {} /\ comp = {} /\ comps = {} /\ cands = {} /\ left = {} /\ peaks = <<>>
    BY <1>0, <1>2 DEF MarkHot, IInv, BeginInv
  <2>2. hot' \subseteq Cells' /\ heat' = heat
    BY <1>2 DEF MarkHot
  <2>. QED
    BY <1>0, <1>2, <2>1, <2>2 DEF MarkHot
<1>3. CASE Seed
  BY <1>0, <1>3 DEF Seed
<1>4. CASE Flood
  BY <1>0, <1>4 DEF Flood
<1>5. CASE Split
  <2>0. PICK axis \in Axes : \E best \in [Buckets(axis, comp) -> comp] :
          cands' = cands \cup {[cell |-> best[b], bucket |-> b] : b \in Buckets(axis, comp)}
    BY <1>5 DEF Split
  <2>1. PICK best \in [Buckets(axis, comp) -> comp] :
          cands' = cands \cup {[cell |-> best[b], bucket |-> b] : b \in Buckets(axis, comp)}
    BY <2>0
  <2>2. Buckets(axis, comp) \subseteq SUBSET comp
    BY DEF Buckets
  <2>3. \A b \in Buckets(axis, comp) : [cell |-> best[b], bucket |-> b] \in [cell : hot, bucket : SUBSET hot]
    BY <1>0, <2>1, <2>2
  <2>4. cands' \subseteq [cell : hot', bucket : SUBSET hot'] /\ cands \subseteq cands'
    BY <1>0, <1>5, <2>1, <2>3 DEF Split
  <2>5. peaks' \in Seq(cands')
    BY <1>0, <1>5, <2>4 DEF Split
  <2>. QED
    BY <1>0, <1>5, <2>4, <2>5 DEF Split
<1>6. CASE Sort
  BY <1>0, <1>6 DEF Sort, floodVars
<1>7. CASE Consider
  <2>1. PICK c \in left : left' = left \ {c} /\ (peaks' = peaks \/ peaks' = Append(peaks, c))
    BY <1>7 DEF Consider
  <2>2. peaks' \in Seq(cands)
    BY <1>0, <2>1
  <2>. QED
    BY <1>0, <1>7, <2>1, <2>2 DEF Consider, floodVars
<1>8. CASE Return
  BY <1>0, <1>8 DEF Return, floodVars
<1>9. CASE UNCHANGED vars
  BY <1>0, <1>9 DEF vars, floodVars
<1>. QED
  BY <1>1, <1>2, <1>3, <1>4, <1>5, <1>6, <1>7, <1>8, <1>9 DEF Next

LEMMA FloodStep ==
  ASSUME IInv, [Next]_vars
  PROVE  FloodInv' /\ CompInv'
<1>0. TypeOK /\ FloodInv /\ CompInv /\ BeginInv
  BY DEF IInv
<1>1. hot \subseteq Int \X Int
  BY <1>0, CellsType
<1>10. comps' = comps => Flooded' = Flooded
  BY DEF Flooded
<1>2. CASE NoPeaks
  <2>1. UNCHANGED <<hot, visited, frontier, comp, comps>> /\ hot = {} /\ pc = "begin" /\ pc' = "done" /\ comps = {}
    BY <1>0, <1>2 DEF NoPeaks, floodVars, BeginInv
  <2>2. Flooded = {} /\ Flooded' = {}
    BY <1>0, <1>10, <2>1 DEF FloodInv, TypeOK
  <2>. QED
    BY <1>0, <2>1, <2>2 DEF FloodInv, CompInv
<1>3. CASE MarkHot
  BY <1>0, <1>3, <1>10 DEF MarkHot, FloodInv, CompInv, BeginInv
<1>4. CASE Seed
  <2>1. PICK c \in hot \ visited : frontier' = {c} /\ visited' = visited \cup {c}
    BY <1>4 DEF Seed
  <2>2. comp' = {} /\ pc = "seed" /\ pc' = "flood" /\ hot' = hot /\ comps' = comps
    BY <1>4 DEF Seed
  <2>3. FloodInv'
    <3>1. Flooded' = Flooded /\ visited = Flooded
      BY <1>0, <2>2 DEF FloodInv, Flooded
    <3>2. visited' = Flooded' \cup comp' \cup frontier'
      BY <2>1, <2>2, <3>1
    <3>. QED
      BY <1>0, <2>2, <3>2 DEF FloodInv
  <2>4. Connected({c})
    BY DEF Connected
  <2>5. {c} \cap Flooded' = {}
    BY <1>0, <1>10, <2>1, <2>2 DEF FloodInv
  <2>. QED
    BY <2>1, <2>2, <2>3, <2>4, <2>5 DEF CompInv
<1>5. CASE Flood
  <2>. DEFINE ring == {d \in hot \ visited : \E c \in frontier : Adjacent(c, d)}
  <2>1. /\ frontier' = ring /\ comp' = comp \cup frontier /\ visited' = visited \cup ring
        /\ pc = "flood" /\ pc' = "flood" /\ hot' = hot /\ comps' = comps /\ frontier # {}
    BY <1>5 DEF Flood
  <2>2. visited = Flooded \cup comp \cup frontier
    BY <1>0, <2>1 DEF FloodInv
  <2>3. FloodInv'
    <3>1. Flooded' = Flooded
      BY <2>1 DEF Flooded
    <3>2. visited' = Flooded' \cup comp' \cup frontier'
      BY <2>1, <2>2, <3>1
    <3>. QED
      BY <1>0, <2>1, <3>2 DEF FloodInv
  <2>4. comp' \cup frontier' # {}
    BY <2>1
  <2>5. Connected(comp' \cup frontier')
    <3>1. comp' \in SUBSET (Int \X Int) /\ ring \in SUBSET (Int \X Int) /\ Connected(comp')
      BY <1>0, <1>1, <2>1 DEF CompInv, TypeOK
    <3>2. \A f \in ring : \E c \in comp' : Adjacent(c, f)
      BY <2>1
    <3>. QED
      BY <2>1, <3>1, <3>2, ConnectedGrows
  <2>6. (comp' \cup frontier') \cap Flooded' = {}
    BY <1>0, <1>10, <2>1, <2>2 DEF CompInv
  <2>7. ASSUME NEW c \in comp', NEW d \in hot, Adjacent(c, d) PROVE d \in comp' \cup frontier'
    <3>1. CASE c \in comp
      BY <1>0, <2>1, <2>7, <3>1 DEF CompInv
    <3>2. CASE c \in frontier
      <4>1. CASE d \notin visited
        BY <2>1, <2>7, <3>2, <4>1
      <4>2. CASE d \in Flooded
        <5>1. Adjacent(d, c)
          BY <1>0, <1>1, <2>7, <3>2, AdjacentSymmetric DEF TypeOK
        <5>2. PICK S \in comps : d \in S
          BY <4>2 DEF Flooded
        <5>3. c \in S
          BY <1>0, <3>2, <5>1, <5>2 DEF FloodInv, TypeOK
        <5>4. c \in Flooded
          BY <5>2, <5>3 DEF Flooded
        <5>. QED
          BY <1>0, <2>1, <3>2, <5>4 DEF CompInv
      <4>3. CASE d \in comp \cup frontier
        BY <2>1, <4>3
      <4>. QED
        BY <2>2, <4>1, <4>2, <4>3, Zenon
    <3>. QED
      BY <2>1, <3>1, <3>2
  <2>. QED
    BY <2>1, <2>3, <2>4, <2>5, <2>6, <2>7 DEF CompInv
<1>6. CASE Split
  <2>1. /\ comps' = comps \cup {comp} /\ frontier = {} /\ pc = "flood" /\ pc' = "seed"
        /\ UNCHANGED <<hot, visited, frontier, comp>>
    BY <1>6 DEF Split
  <2>2. comp # {} /\ Connected(comp) /\ comp \cap Flooded = {}
    BY <1>0, <2>1 DEF CompInv
  <2>3. \A c \in comp, d \in hot : Adjacent(c, d) => d \in comp
    BY <1>0, <2>1 DEF CompInv
  <2>4. visited' = Flooded'
    <3>1. visited = Flooded \cup comp
      BY <1>0, <2>1 DEF FloodInv
    <3>2. Flooded' = Flooded \cup comp
      BY <2>1, Zenon DEF Flooded
    <3>. QED
      BY <2>1, <3>1, <3>2
  <2>5. \A S, T \in comps' : S # T => S \cap T = {}
    <3>1. \A T \in comps : comp \cap T = {}
      BY <2>2 DEF Flooded
    <3>. QED
      BY <1>0, <2>1, <3>1 DEF FloodInv
  <2>. QED
    BY <1>0, <2>1, <2>2, <2>3, <2>4, <2>5 DEF FloodInv, CompInv
<1>7. CASE Sort
  <2>1. Flooded = hot
    BY <1>0, <1>7 DEF Sort, FloodInv, TypeOK
  <2>. QED
    BY <1>0, <1>7, <1>10, <2>1 DEF Sort, floodVars, FloodInv, CompInv
<1>8. CASE Consider \/ Return
  BY <1>0, <1>8, <1>10 DEF Consider, Return, floodVars, FloodInv, CompInv
<1>9. CASE UNCHANGED vars
  BY <1>0, <1>9, <1>10 DEF vars, floodVars, FloodInv, CompInv
<1>. QED
  BY <1>2, <1>3, <1>4, <1>5, <1>6, <1>7, <1>8, <1>9 DEF Next

(* The order in which candidates are taken, and the distance kept.         *)
LEMMA TakeStep ==
  ASSUME IInv, [Next]_vars
  PROVE  BeginInv' /\ PeaksApart' /\ HottestFirst'
<1>0. TypeOK /\ BeginInv /\ PeaksApart /\ HottestFirst
  BY DEF IInv
<1>. USE DEF BeginInv, PeaksApart
<1>1. CASE NoPeaks \/ MarkHot \/ Seed \/ Flood \/ Split
  <2>1. /\ left' = {} /\ peaks' = <<>> /\ pc' # "take" /\ pc' # "begin"
        /\ pc' = "done" => cands' = {}
    BY <1>0, <1>1 DEF NoPeaks, MarkHot, Seed, Flood, Split
  <2>. QED
    BY <2>1 DEF HottestFirst
<1>2. CASE Sort
  BY <1>0, <1>2 DEF Sort, HottestFirst
<1>3. CASE Consider
  <2>1. PICK c \in left :
          /\ \A d \in left : ~Hotter(d, c)
          /\ left' = left \ {c}
          /\ peaks' = IF \E i \in DOMAIN peaks : TooClose(c, peaks[i]) THEN peaks ELSE Append(peaks, c)
    BY <1>3 DEF Consider
  <2>2. UNCHANGED <<heat, cands, pc>> /\ pc = "take"
    BY <1>3 DEF Consider
  <2>3. \A x, y : Hotter(x, y)' <=> Hotter(x, y)
    BY <2>2 DEF Hotter
  <2>4. CASE \E i \in DOMAIN peaks : TooClose(c, peaks[i])
    <3>1. peaks' = peaks
      BY <2>1, <2>4
    <3>2. PICK i \in DOMAIN peaks : TooClose(c, peaks[i])
      BY <2>4
    <3>. QED
      BY <1>0, <2>1, <2>2, <2>3, <3>1, <3>2 DEF HottestFirst
  <2>5. CASE ~\E i \in DOMAIN peaks : TooClose(c, peaks[i])
    <3>. DEFINE n == Len(peaks)
    <3>1. peaks' = Append(peaks, c) /\ n \in Nat /\ DOMAIN peaks = 1..n
      BY <1>0, <2>1, <2>5 DEF TypeOK
    <3>2. /\ DOMAIN peaks' = 1..(n + 1) /\ peaks'[n + 1] = c
          /\ \A i \in 1..n : peaks'[i] = peaks[i]
      BY <1>0, <3>1 DEF TypeOK
    <3>. HIDE DEF n
    <3>3. PeaksApart'
      BY <1>0, <2>5, <3>1, <3>2
    <3>4. \A i, j \in DOMAIN peaks' : i < j => ~Hotter(peaks'[j], peaks'[i])
      BY <1>0, <2>1, <3>1, <3>2 DEF HottestFirst
    <3>5. \A d \in left' : \A i \in DOMAIN peaks' : ~Hotter(d, peaks'[i])
      BY <1>0, <2>1, <3>1, <3>2 DEF HottestFirst
    <3>6. ASSUME NEW d \in cands \ left'
          PROVE  \E i \in DOMAIN peaks' : (d = peaks'[i] \/ TooClose(d, peaks'[i])) /\ ~Hotter(d, peaks'[i])
      <4>1. CASE d = c
        BY <2>1, <3>1, <3>2, <4>1
      <4>2. CASE d # c
        <5>1. d \in cands \ left
          BY <2>1, <3>6, <4>2
        <5>2. PICK i \in DOMAIN peaks : (d = peaks[i] \/ TooClose(d, peaks[i])) /\ ~Hotter(d, peaks[i])
          BY <1>0, <2>2, <5>1 DEF HottestFirst
        <5>3. i \in DOMAIN peaks' /\ peaks'[i] = peaks[i]
          BY <3>1, <3>2, <5>2
        <5>. QED
          BY <5>2, <5>3
      <4>. QED
        BY <4>1, <4>2
    <3>. QED
      BY <1>0, <2>2, <2>3, <3>3, <3>4, <3>5, <3>6 DEF HottestFirst
  <2>. QED
    BY <2>4, <2>5
<1>4. CASE Return
  <2>1. UNCHANGED <<heat, cands, left, peaks>> /\ pc = "take" /\ pc' = "done"
    BY <1>4 DEF Return
  <2>2. \A x, y : Hotter(x, y)' <=> Hotter(x, y)
    BY <2>1 DEF Hotter
  <2>. QED
    BY <1>0, <2>1, <2>2 DEF HottestFirst
<1>5. CASE UNCHANGED vars
  <2>1. UNCHANGED <<heat, hot, comps, cands, left, peaks, pc>>
    BY <1>5 DEF vars, floodVars
  <2>2. \A x, y : Hotter(x, y)' <=> Hotter(x, y)
    BY <2>1 DEF Hotter
  <2>3. BeginInv' /\ PeaksApart'
    BY <1>0, <2>1
  <2>4. HottestFirst'
    BY <1>0, <2>1, <2>2, Zenon DEF HottestFirst
  <2>. QED
    BY <2>3, <2>4
<1>. QED
  BY <1>1, <1>2, <1>3, <1>4, <1>5 DEF Next

THEOREM PeaksInvariant == Spec => []IInv
<1>1. IInv /\ [Next]_vars => IInv'
  BY TypeStep, FloodStep, TakeStep DEF IInv
<1>. QED
  BY <1>1, InitIInv, PTL DEF Spec

(* Candidates and peaks are hot cells, and peaks are candidates.           *)
THEOREM PeaksTypeOK == Spec => []TypeOK
<1>1. IInv => TypeOK
  BY DEF IInv
<1>. QED
  BY <1>1, PeaksInvariant, PTL

(* The flood finds exactly the 8-connected components of the hot cells.    *)
THEOREM PeaksComponents == Spec => []CompsAreComponents
<1>1. IInv => CompsAreComponents
  <2>. SUFFICES ASSUME IInv PROVE CompsAreComponents
    OBVIOUS
  <2>1. TypeOK /\ FloodInv
    BY DEF IInv
  <2>2. ASSUME NEW S \in comps, NEW T \in comps, S # T, NEW c \in S, NEW d \in T PROVE ~Touch(c, d)
    <3>1. c \in hot /\ d \in hot
      BY <2>1 DEF TypeOK
    <3>2. S \cap T = {}
      BY <2>1, <2>2 DEF FloodInv
    <3>3. ~Adjacent(c, d)
      BY <2>1, <3>1, <3>2 DEF FloodInv
    <3>. QED
      BY <2>1, <3>1, <3>3, CellsType, AdjacentTouches
  <2>. QED
    BY <2>1, <2>2 DEF CompsAreComponents, FloodInv, Flooded
<1>. QED
  BY <1>1, PeaksInvariant, PTL

(* Any two peaks keep the minimum distance.                                *)
THEOREM PeaksKeepApart == Spec => []PeaksApart
<1>1. IInv => PeaksApart
  BY DEF IInv
<1>. QED
  BY <1>1, PeaksInvariant, PTL

(* Peaks come hottest first, and none is passed over for a colder one.     *)
THEOREM PeaksHottestFirst == Spec => []HottestFirst
<1>1. IInv => HottestFirst
  BY DEF IInv
<1>. QED
  BY <1>1, PeaksInvariant, PTL

-----------------------------------------------------------------------------
(* Of the sets below[x], one is least: used for the ends of an axis.       *)
LEMMA LeastBelow ==
  ASSUME NEW S, IsFiniteSet(S), S # {}, NEW below \in [S -> SUBSET S]
  PROVE  \E x \in S : \A y \in S : below[y] \subseteq below[x] => below[y] = below[x]
<1>. DEFINE sizes == {Cardinality(below[x]) : x \in S}
<1>1. \A x \in S : IsFiniteSet(below[x]) /\ Cardinality(below[x]) \in Nat
  BY FS_Subset, FS_CardinalityType
<1>2. sizes \subseteq Nat /\ sizes # {}
  BY <1>1
<1>3. \E n \in sizes : \A m \in sizes : ~(m < n)
  <2>. DEFINE R == {ss \in Nat \X Nat : ss[1] < ss[2]}
  <2>1. IsWellFoundedOn(R, Nat)
    BY NatLessThanWellFounded, Zenon DEF OpToRel
  <2>2. \A m, n \in Nat : m < n => <<m, n>> \in R
    OBVIOUS
  <2>. HIDE DEF sizes, R
  <2>3. \E n \in sizes : \A m \in sizes : ~(<<m, n>> \in R)
    BY <1>2, <2>1, WFMin
  <2>. QED
    BY <1>2, <2>2, <2>3
<1>4. PICK n \in sizes : \A m \in sizes : ~(m < n)
  BY <1>3
<1>5. PICK x \in S : n = Cardinality(below[x])
  OBVIOUS
<1>6. ASSUME NEW y \in S, below[y] \subseteq below[x] PROVE below[y] = below[x]
  <2>1. Cardinality(below[y]) <= Cardinality(below[x])
    BY <1>1, <1>6, FS_Subset
  <2>2. ~(Cardinality(below[y]) < Cardinality(below[x]))
    BY <1>4, <1>5
  <2>3. Cardinality(below[y]) = Cardinality(below[x])
    BY <1>1, <2>1, <2>2
  <2>. QED
    BY <1>1, <1>6, <2>3, FS_Subset
<1>. QED
  BY <1>6

LEMMA ProjInt ==
  ASSUME NEW axis \in Int \X Int, NEW c \in Int \X Int
  PROVE  Proj(axis, c) \in Int
BY DEF Proj

(* The two ends of a component along an axis.                              *)
LEMMA Ends ==
  ASSUME NEW axis \in Int \X Int, NEW S \in SUBSET (Int \X Int), IsFiniteSet(S), S # {}
  PROVE  /\ Min({Proj(axis, d) : d \in S}) \in Int
         /\ Max({Proj(axis, d) : d \in S}) \in Int
         /\ \A c \in S : /\ Min({Proj(axis, d) : d \in S}) <= Proj(axis, c)
                        /\ Proj(axis, c) <= Max({Proj(axis, d) : d \in S})
<1>. DEFINE at == [c \in S |-> Proj(axis, c)]
            image == {Proj(axis, d) : d \in S}
<1>1. \A c \in S : at[c] \in Int /\ at[c] = Proj(axis, c)
  BY ProjInt
<1>. HIDE DEF at
<1>2. \E x \in S : \A y \in S : at[x] <= at[y]
  <2>. DEFINE below == [x \in S |-> {y \in S : at[y] < at[x]}]
  <2>1. PICK x \in S : \A y \in S : below[y] \subseteq below[x] => below[y] = below[x]
    <3>1. below \in [S -> SUBSET S]
      OBVIOUS
    <3>. HIDE DEF below
    <3>. QED
      BY <3>1, LeastBelow
  <2>2. ASSUME NEW y \in S, at[y] < at[x] PROVE FALSE
    <3>1. below[y] \subseteq below[x] /\ y \in below[x] /\ y \notin below[y]
      BY <1>1, <2>2
    <3>. QED
      BY <2>1, <3>1
  <2>. QED
    BY <1>1, <2>2
<1>3. \E x \in S : \A y \in S : at[x] >= at[y]
  <2>. DEFINE above == [x \in S |-> {y \in S : at[y] > at[x]}]
  <2>1. PICK x \in S : \A y \in S : above[y] \subseteq above[x] => above[y] = above[x]
    <3>1. above \in [S -> SUBSET S]
      OBVIOUS
    <3>. HIDE DEF above
    <3>. QED
      BY <3>1, LeastBelow
  <2>2. ASSUME NEW y \in S, at[y] > at[x] PROVE FALSE
    <3>1. above[y] \subseteq above[x] /\ y \in above[x] /\ y \notin above[y]
      BY <1>1, <2>2
    <3>. QED
      BY <2>1, <3>1
  <2>. QED
    BY <1>1, <2>2
<1>4. (\E m \in image : \A n \in image : m <= n) /\ (\E m \in image : \A n \in image : m >= n)
  BY <1>1, <1>2, <1>3
<1>5. Min(image) \in image /\ \A n \in image : Min(image) <= n
  BY <1>4 DEF Min
<1>6. Max(image) \in image /\ \A n \in image : Max(image) >= n
  BY <1>4 DEF Max
<1>7. image \subseteq Int
  BY <1>1
<1>. QED
  BY <1>1, <1>5, <1>6, <1>7

LEMMA DivNat ==
  ASSUME NEW n \in Nat, NEW d \in Nat \ {0}
  PROVE  n \div d \in Nat
BY Z3

LEMMA PiecesRange ==
  ASSUME NEW axis \in Int \X Int, NEW S \in SUBSET (Int \X Int), IsFiniteSet(S), S # {}
  PROVE  Extent(axis, S) \in Nat /\ Pieces(axis, S) \in 1..MaxPerComp
<1>1. Extent(axis, S) \in Nat
  <2>. DEFINE least == Min({Proj(axis, d) : d \in S})
              most  == Max({Proj(axis, d) : d \in S})
  <2>1. least \in Int /\ most \in Int /\ \A c \in S : least <= Proj(axis, c) /\ Proj(axis, c) <= most
    BY Ends
  <2>2. Extent(axis, S) = most - least
    BY DEF Extent
  <2>. HIDE DEF least, most
  <2>3. PICK c \in S : Proj(axis, c) \in Int
    BY ProjInt
  <2>. QED
    BY <2>1, <2>2, <2>3
<1>. DEFINE n == 2 * Extent(axis, S) + 5 * Spacing
            d == 10 * Spacing
            k == n \div d
<1>2. n \in Nat /\ d \in Nat \ {0}
  BY <1>1, PeaksAssumption
<1>3. k \in Nat
  <2>. HIDE DEF n, d
  <2>. QED
    BY <1>2, DivNat
<1>4. Pieces(axis, S) = IF k < 1 THEN 1 ELSE IF k > MaxPerComp THEN MaxPerComp ELSE k
  BY DEF Pieces
<1>. HIDE DEF k
<1>. QED
  BY <1>1, <1>3, <1>4 DEF MaxPerComp

(* Every cell of a component falls into one of its buckets.                *)
LEMMA BucketRange ==
  ASSUME NEW axis \in Int \X Int, NEW S \in SUBSET (Int \X Int), IsFiniteSet(S), NEW c \in S
  PROVE  BucketOf(axis, S, c) \in 0..(Pieces(axis, S) - 1)
<1>. DEFINE k == Pieces(axis, S)
            ext == Extent(axis, S)
            off == Proj(axis, c) - Min({Proj(axis, d) : d \in S})
            b == (off * k) \div ext
<1>1. k \in 1..4 /\ ext \in Nat
  BY PiecesRange DEF MaxPerComp
<1>2. off \in Nat
  BY Ends, ProjInt
<1>3. BucketOf(axis, S, c) = IF ext = 0 THEN 0 ELSE IF b >= k THEN k - 1 ELSE b
  BY DEF BucketOf
<1>4. ext # 0 => b \in Nat
  <2>. HIDE DEF k, ext, off
  <2>1. off * k \in Nat
    BY <1>1, <1>2
  <2>. QED
    BY <1>1, <2>1, DivNat
<1>. HIDE DEF k, ext, b
<1>5. BucketOf(axis, S, c) \in 0..(k - 1)
  <2>1. CASE ext = 0
    BY <1>1, <1>3, <2>1
  <2>2. CASE ext # 0 /\ b >= k
    BY <1>1, <1>3, <2>2
  <2>3. CASE ext # 0 /\ ~(b >= k)
    <3>1. BucketOf(axis, S, c) = b /\ b \in Nat /\ k \in Nat /\ b < k
      BY <1>1, <1>3, <1>4, <2>3
    <3>. QED
      BY <3>1
  <2>. QED
    BY <2>1, <2>2, <2>3
<1>. QED
  BY <1>5 DEF k

LEMMA BucketsPartition ==
  ASSUME NEW axis \in Int \X Int, NEW S \in SUBSET (Int \X Int), IsFiniteSet(S)
  PROVE  /\ UNION Buckets(axis, S) = S
         /\ \A a, b \in Buckets(axis, S) : a # b => a \cap b = {}
<1>1. \A c \in S : \E b \in 0..(Pieces(axis, S) - 1) : b = BucketOf(axis, S, c)
  BY BucketRange
<1>2. ASSUME NEW c \in S PROVE \E a \in Buckets(axis, S) : c \in a
  <2>. DEFINE a == {e \in S : BucketOf(axis, S, e) = BucketOf(axis, S, c)}
  <2>1. c \in a
    OBVIOUS
  <2>2. a \in {{e \in S : BucketOf(axis, S, e) = b} : b \in 0..(Pieces(axis, S) - 1)}
    BY <1>1
  <2>. QED
    BY <2>1, <2>2 DEF Buckets
<1>3. \A a \in Buckets(axis, S) : a \subseteq S
  BY DEF Buckets
<1>4. \A a, b \in Buckets(axis, S) : a # b => a \cap b = {}
  BY DEF Buckets
<1>. QED
  BY <1>2, <1>3, <1>4

(* The candidates so far share out the components so far.                  *)
CandsInv ==
  /\ UNION {c.bucket : c \in cands} = Flooded
  /\ \A c, d \in cands : c # d => c.bucket \cap d.bucket = {}

LEMMA SplitShares ==
  ASSUME IInv, CandsInv, Split
  PROVE  CandsInv'
<1>0. PICK axis \in Axes : \E best \in [Buckets(axis, comp) -> comp] :
        cands' = cands \cup {[cell |-> best[b], bucket |-> b] : b \in Buckets(axis, comp)}
  BY DEF Split
<1>1. PICK best \in [Buckets(axis, comp) -> comp] :
        cands' = cands \cup {[cell |-> best[b], bucket |-> b] : b \in Buckets(axis, comp)}
  BY <1>0
<1>2. pc = "flood" /\ frontier = {} /\ comps' = comps \cup {comp}
  BY DEF Split
<1>3. comp \cap Flooded = {}
  BY <1>2 DEF IInv, CompInv
<1>4. Flooded' = Flooded \cup comp
  BY <1>2, Zenon DEF Flooded
<1>5. comp \in SUBSET (Int \X Int) /\ IsFiniteSet(comp) /\ axis \in Int \X Int
  <2>1. comp \subseteq Cells /\ IsFiniteSet(Cells)
    BY PeaksAssumption DEF IInv, TypeOK, Cells
  <2>. QED
    BY <2>1, CellsType, PeaksAssumption, FS_Subset DEF IInv, TypeOK
<1>6. UNION Buckets(axis, comp) = comp /\ \A a, b \in Buckets(axis, comp) : a # b => a \cap b = {}
  BY <1>5, BucketsPartition
<1>. DEFINE new == {[cell |-> best[b], bucket |-> b] : b \in Buckets(axis, comp)}
<1>7. /\ \A c \in new : c.bucket \in Buckets(axis, comp)
      /\ \A c, d \in new : c.bucket = d.bucket => c = d
      /\ \A b \in Buckets(axis, comp) : \E c \in new : c.bucket = b
  <2>1. \A c \in new : \E b \in Buckets(axis, comp) : c = [cell |-> best[b], bucket |-> b]
    OBVIOUS
  <2>2. \A b \in Buckets(axis, comp) : [cell |-> best[b], bucket |-> b] \in new
    OBVIOUS
  <2>. HIDE DEF new
  <2>3. ASSUME NEW c \in new
        PROVE  c.bucket \in Buckets(axis, comp) /\ c = [cell |-> best[c.bucket], bucket |-> c.bucket]
    BY <2>1
  <2>4. \A c, d \in new : c.bucket = d.bucket => c = d
    <3>. SUFFICES ASSUME NEW c \in new, NEW d \in new, c.bucket = d.bucket PROVE c = d
      OBVIOUS
    <3>1. c = [cell |-> best[c.bucket], bucket |-> c.bucket] /\ d = [cell |-> best[d.bucket], bucket |-> d.bucket]
      BY <2>3
    <3>. QED
      BY <3>1, Zenon
  <2>5. ASSUME NEW b \in Buckets(axis, comp) PROVE \E c \in new : c.bucket = b
    BY <2>2
  <2>. QED
    BY <2>3, <2>4, <2>5
<1>8. cands' = cands \cup new
  BY <1>1
<1>. HIDE DEF new
<1>9. \A c \in cands' : c.bucket \subseteq Flooded'
  BY <1>4, <1>6, <1>7, <1>8 DEF CandsInv
<1>10. \A x \in Flooded' : \E c \in cands' : x \in c.bucket
  BY <1>4, <1>6, <1>7, <1>8 DEF CandsInv
<1>11. ASSUME NEW c \in cands', NEW d \in cands', c # d PROVE c.bucket \cap d.bucket = {}
  <2>1. CASE c \in cands /\ d \in cands
    BY <1>11, <2>1 DEF CandsInv
  <2>2. CASE c \in new /\ d \in new
    BY <1>6, <1>7, <1>11, <2>2
  <2>3. \A x \in cands, y \in new : x.bucket \cap y.bucket = {}
    BY <1>3, <1>6, <1>7 DEF CandsInv
  <2>. QED
    BY <1>8, <2>1, <2>2, <2>3
<1>. QED
  BY <1>9, <1>10, <1>11 DEF CandsInv

(* When candidates are sorted, every hot cell is in one of their buckets,  *)
(* and in no other.                                                        *)
THEOREM PeaksHeatCountedOnce == Spec => []HeatCountedOnce
<1>1. Init => CandsInv
  BY DEF Init, CandsInv, Flooded
<1>2. IInv /\ CandsInv /\ [Next]_vars => CandsInv'
  <2>. SUFFICES ASSUME IInv, CandsInv, [Next]_vars, ~Split PROVE CandsInv'
    BY SplitShares
  <2>1. cands' = cands /\ comps' = comps
    BY DEF Next, NoPeaks, MarkHot, Seed, Flood, Sort, Consider, Return, vars, floodVars
  <2>. QED
    BY <2>1 DEF CandsInv, Flooded
<1>3. IInv /\ CandsInv => HeatCountedOnce
  BY DEF IInv, FloodInv, CandsInv, HeatCountedOnce
<1>. QED
  BY <1>1, <1>2, <1>3, PeaksInvariant, PTL DEF Spec
=============================================================================
