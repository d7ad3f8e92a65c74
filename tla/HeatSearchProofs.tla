-------------------------- MODULE HeatSearchProofs --------------------------
(***************************************************************************)
(* For every table, box, set of features, route, bare grid and resolution: *)
(* what HeatSearch promises of a search, a grid, its encoding and a score. *)
(***************************************************************************)
EXTENDS HeatSearch, SumTheorems

(* A behaviour keeps what it started from.                                 *)
Origin == (SearchStarts \/ SceneStarts \/ BareStarts) /\ heat \in Grids

LEMMA OriginKept == AllSpec => []Origin
<1>1. AllInit => Origin
  BY DEF AllInit, Init, Origin
<1>2. Origin /\ [AllNext]_allVars => Origin'
  <2>1. SUFFICES ASSUME Origin, [AllNext]_allVars PROVE Origin'
    OBVIOUS
  <2>2. search' = search /\ scene' = scene
    BY <2>1 DEF AllNext, allVars
  <2>3. heat' = heat
    <3>1. CASE Next
      BY <3>1 DEF Next, NoPeaks, MarkHot, Seed, Flood, Split, Sort, Consider, Return
    <3>2. CASE UNCHANGED allVars
      BY <3>2 DEF allVars, vars
    <3>. QED
      BY <2>1, <3>1, <3>2 DEF AllNext
  <2>. QED
    BY <2>1, <2>2, <2>3 DEF Origin, SearchStarts, SceneStarts, BareStarts
<1>. QED
  BY <1>1, <1>2, PTL DEF AllSpec

-----------------------------------------------------------------------------
IsQuery(q) == /\ q.vec \in BOOLEAN /\ q.name \in BOOLEAN
              /\ q.minSim \in Int /\ q.limit \in Int

IsTable(t) == IsFiniteSet(t) /\ \A row \in t : row.cosine \in Int /\ row.words \in Int

LEMMA SearchedOrigin ==
  ASSUME Origin, Searched
  PROVE  /\ IsQuery(search.query) /\ IsTable(search.rows)
         /\ search.answer \in Features(search.query, search.rows)
<1>1. PICK s \in Searches : \E a \in Features(s.query, s.rows) :
        search = [query |-> s.query, rows |-> s.rows, answer |-> a]
  BY DEF Origin, SearchStarts, SceneStarts, BareStarts, Searched
<1>. QED
  BY <1>1, SearchAssumption DEF IsQuery, IsTable

LEMMA SimilarityType ==
  ASSUME NEW q, IsQuery(q), NEW t, IsTable(t), NEW row \in t
  PROVE  Similarity(q, row) \in Int
<1>1. row.cosine \in Int /\ row.words \in Int /\ q.vec \in BOOLEAN /\ q.name \in BOOLEAN
  BY DEF IsQuery, IsTable
<1>. QED
  BY <1>1 DEF Similarity

LEMMA QueryNumbers ==
  ASSUME NEW q, IsQuery(q)
  PROVE  /\ MinSim(q) \in Int
         /\ q.minSim > 0 => MinSim(q) = q.minSim
         /\ q.vec => MinSim(q) > 0
         /\ Limit(q) \in Nat \ {0}
BY DEF IsQuery, MinSim, Limit

(* The rows returned before the tail is cut.                               *)
IsRanking(q, t, s) ==
  LET rows == Scored(q, t) IN
  /\ s \in Seq(rows) /\ Len(s) <= Limit(q)
  /\ \A i, j \in 1..Len(s) : i < j => s[i] # s[j] /\ Similarity(q, s[i]) >= Similarity(q, s[j])
  /\ \A row \in rows : (\A i \in 1..Len(s) : s[i] # row) =>
       Len(s) = Limit(q) /\ \A i \in 1..Len(s) : Similarity(q, s[i]) >= Similarity(q, row)

LEMMA RankedRanking ==
  ASSUME NEW q, IsQuery(q), NEW t, IsTable(t), NEW s \in Ranked(q, t)
  PROVE  IsRanking(q, t, s)
<1>. DEFINE rows == Scored(q, t)
            k    == Cardinality(rows)
            n    == Min({k, Limit(q)})
<1>1. IsFiniteSet(rows) /\ k \in Nat
  <2>1. rows \in SUBSET t
    BY DEF Scored
  <2>. HIDE DEF rows
  <2>2. IsFiniteSet(rows)
    BY <2>1, FS_Subset DEF IsTable
  <2>. QED
    BY <2>2, FS_CardinalityType
<1>2. n = IF k <= Limit(q) THEN k ELSE Limit(q)
  BY <1>1, QueryNumbers, MinPair
<1>3. n \in Nat /\ n <= Limit(q) /\ n <= k
  BY <1>1, <1>2, QueryNumbers
<1>4. /\ s \in [1..n -> rows]
      /\ \A i, j \in 1..n : i < j => s[i] # s[j] /\ Similarity(q, s[i]) >= Similarity(q, s[j])
      /\ \A row \in rows : (\A i \in 1..n : s[i] # row) =>
              \A i \in 1..n : Similarity(q, s[i]) >= Similarity(q, row)
  BY DEF Ranked
<1>. HIDE DEF n, k, rows
<1>5. s \in Seq(rows) /\ Len(s) = n
  BY <1>3, <1>4
<1>6. ASSUME NEW row \in rows, \A i \in 1..n : s[i] # row
      PROVE  n = Limit(q)
  <2>1. n < k
    <3>1. s \in Injection(1..n, rows \ {row})
      <4>1. s \in [1..n -> rows \ {row}]
        BY <1>4, <1>6
      <4>2. \A i, j \in 1..n : s[i] = s[j] => i = j
        <5>1. ASSUME NEW i \in 1..n, NEW j \in 1..n, s[i] = s[j], i # j PROVE FALSE
          <6>1. i < j \/ j < i
            BY <1>3, <5>1
          <6>. QED
            BY <1>4, <5>1, <6>1
        <5>. QED
          BY <5>1
      <4>. QED
        BY <4>1, <4>2 DEF Injection, IsInjective
    <3>2. IsFiniteSet(rows \ {row}) /\ Cardinality(rows \ {row}) = k - 1
      BY <1>1, FS_RemoveElement DEF k
    <3>3. IsFiniteSet(1..n) /\ Cardinality(1..n) = n
      <4>1. 1 \in Int /\ n \in Int
        BY <1>3
      <4>2. IsFiniteSet(1..n) /\ Cardinality(1..n) = IF 1 > n THEN 0 ELSE n - 1 + 1
        BY <4>1, FS_Interval
      <4>. QED
        BY <1>3, <4>2
    <3>4. Cardinality(1..n) <= Cardinality(rows \ {row})
      BY <3>1, <3>2, FS_Injection
    <3>. QED
      BY <1>1, <1>3, <3>2, <3>3, <3>4
  <2>. QED
    BY <1>1, <1>2, <1>3, <2>1, QueryNumbers
<1>. QED
  BY <1>3, <1>4, <1>5, <1>6 DEF IsRanking, rows

(* The tail is cut after k rows.                                           *)
IsCut(q, s, k) ==
  /\ q.vec => \A i \in 2..k : ~(100 * Similarity(q, s[i]) < 88 * Similarity(q, s[1]))
  /\ k < Len(s) => q.vec /\ k >= 1 /\ 100 * Similarity(q, s[k + 1]) < 88 * Similarity(q, s[1])

LEMMA CutTailCuts ==
  ASSUME NEW q, NEW t, NEW s \in Seq(t)
  PROVE  \E k \in 0..Len(s) : IsCut(q, s, k) /\ CutTail(q, s) = SubSeq(s, 1, k)
<1>. DEFINE low == {i \in 2..Len(s) : 100 * Similarity(q, s[i]) < 88 * Similarity(q, s[1])}
<1>1. CASE q.vec /\ low # {}
  <2>1. low \in SUBSET Int /\ low \subseteq 1..Len(s)
    OBVIOUS
  <2>2. IsFiniteSet(low)
    <3>1. 1 \in Int /\ Len(s) \in Int
      OBVIOUS
    <3>2. IsFiniteSet(1..Len(s))
      BY <3>1, FS_Interval
    <3>. HIDE DEF low
    <3>. QED
      BY <2>1, <3>2, FS_Subset
  <2>. DEFINE k == Min(low) - 1
  <2>3. Min(low) \in low /\ \A i \in low : Min(low) <= i
    <3>. HIDE DEF low
    <3>. QED
      BY <1>1, <2>1, <2>2, MinLeast
  <2>4. k \in 0..Len(s) /\ k >= 1 /\ k + 1 = Min(low)
    BY <2>3
  <2>5. CutTail(q, s) = SubSeq(s, 1, k)
    BY <1>1 DEF CutTail
  <2>. HIDE DEF k
  <2>6. \A i \in 2..k : ~(100 * Similarity(q, s[i]) < 88 * Similarity(q, s[1]))
    BY <2>3, <2>4
  <2>7. 100 * Similarity(q, s[k + 1]) < 88 * Similarity(q, s[1])
    BY <2>3, <2>4
  <2>8. IsCut(q, s, k)
    BY <1>1, <2>4, <2>6, <2>7 DEF IsCut
  <2>. QED
    BY <2>4, <2>5, <2>8
<1>2. CASE ~(q.vec /\ low # {})
  <2>1. CutTail(q, s) = SubSeq(s, 1, Len(s)) /\ Len(s) \in 0..Len(s)
    BY <1>2 DEF CutTail
  <2>2. q.vec => \A i \in 2..Len(s) : ~(100 * Similarity(q, s[i]) < 88 * Similarity(q, s[1]))
    BY <1>2
  <2>. HIDE DEF low
  <2>3. IsCut(q, s, Len(s))
    BY <2>1, <2>2 DEF IsCut
  <2>. QED
    BY <2>1, <2>3
<1>. QED
  BY <1>1, <1>2

(* The answer is the start of a ranking.                                   *)
LEMMA AnswerRanked ==
  ASSUME NEW q, IsQuery(q), NEW t, IsTable(t), NEW a \in Features(q, t)
  PROVE  \E s \in Seq(Scored(q, t)) : \E k \in 0..Len(s) :
           /\ IsRanking(q, t, s) /\ IsCut(q, s, k)
           /\ Len(a) = k /\ DOMAIN a = 1..k /\ \A i \in 1..k : a[i] = s[i]
<1>1. PICK s \in Ranked(q, t) : a = CutTail(q, s)
  BY DEF Features
<1>2. IsRanking(q, t, s)
  BY RankedRanking
<1>3. s \in Seq(Scored(q, t))
  BY <1>2 DEF IsRanking
<1>4. PICK k \in 0..Len(s) : IsCut(q, s, k) /\ a = SubSeq(s, 1, k)
  BY <1>1, <1>3, CutTailCuts
<1>. DEFINE rows == Scored(q, t)
<1>. HIDE DEF rows
<1>5. s \in Seq(rows)
  BY <1>3 DEF rows
<1>6. Len(a) = k /\ DOMAIN a = 1..k /\ \A i \in 1..k : a[i] = s[i]
  BY <1>4, <1>5
<1>. QED
  BY <1>2, <1>3, <1>4, <1>6

(* No row returned has a key excluded with "*", or the pair excluded when  *)
(* only one is, whatever the query and the table.                          *)
THEOREM ExclusionOfLonePairs == AllSpec => []LonePairsExcluded
<1>1. Origin => LonePairsExcluded
  <2>1. SUFFICES ASSUME Origin, Searched, NEW row \in Answer, NEW k \in DOMAIN search.query.exclude
        PROVE  IF search.query.exclude[k] = AnyValue THEN ~HasKey(row, k)
               ELSE {o \in DOMAIN search.query.exclude : search.query.exclude[o] # AnyValue} = {k}
                      => ~HasPair(row, k, search.query.exclude[k])
    BY DEF LonePairsExcluded
  <2>. DEFINE q == search.query
              t == search.rows
  <2>2. IsQuery(q) /\ IsTable(t) /\ search.answer \in Features(q, t)
    BY <2>1, SearchedOrigin
  <2>3. PICK s \in Seq(Scored(q, t)) : \E n \in 0..Len(s) :
          DOMAIN search.answer = 1..n /\ \A i \in 1..n : search.answer[i] = s[i]
    BY <2>2, AnswerRanked
  <2>4. row \in Scored(q, t)
    BY <2>1, <2>3 DEF Answer
  <2>5. ~Excluded(q.exclude, row)
    BY <2>4 DEF Scored
  <2>. QED
    BY <2>5 DEF Excluded
<1>. QED
  BY <1>1, OriginKept, PTL

(* The rows returned are the best of those that match: see BestRowsWin.    *)
THEOREM BestRows == AllSpec => []BestRowsWin
<1>1. ASSUME Origin, Searched PROVE BestRowsWin
  <2>. DEFINE q       == search.query
              t       == search.rows
              a       == search.answer
              Sim(r)  == Similarity(q, r)
              Asked   == {r \in t : r.located /\ r.inBox /\ Included(q.include, r) /\ ~Excluded(q.exclude, r)
                                          /\ (q.vec => r.cosine # NoVector)
                                          /\ (q.name => r.words >= WordThreshold)}
              Enough  == {r \in Asked : q.minSim > 0 => Sim(r) >= q.minSim}
              Close   == {r \in Enough : q.vec => \A o \in Enough : 100 * Sim(r) >= 88 * Sim(o)}
              rows    == Scored(q, t)
  <2>1. IsQuery(q) /\ IsTable(t) /\ a \in Features(q, t)
    BY <1>1, SearchedOrigin
  <2>2. PICK s \in Seq(rows) : \E k \in 0..Len(s) :
           /\ IsRanking(q, t, s) /\ IsCut(q, s, k)
           /\ Len(a) = k /\ DOMAIN a = 1..k /\ \A i \in 1..k : a[i] = s[i]
    BY <2>1, AnswerRanked
  <2>3. PICK k \in 0..Len(s) :
           /\ IsRanking(q, t, s) /\ IsCut(q, s, k)
           /\ Len(a) = k /\ DOMAIN a = 1..k /\ \A i \in 1..k : a[i] = s[i]
    BY <2>2
  <2>4. /\ \A r \in t : Sim(r) \in Int
        /\ MinSim(q) \in Int /\ (q.minSim > 0 => MinSim(q) = q.minSim) /\ (q.vec => MinSim(q) > 0)
        /\ q.minSim \in Int
    BY <2>1, SimilarityType, QueryNumbers DEF IsQuery
  <2>5. /\ rows \subseteq Enough /\ Enough \subseteq t
        /\ \A r \in rows : Sim(r) \in Int /\ Sim(r) >= MinSim(q)
        /\ q.minSim > 0 => Enough \subseteq rows
        /\ \A r \in Enough : r \in rows \/ Sim(r) < MinSim(q)
    BY <2>4 DEF Scored
  <2>6. Answer = {s[i] : i \in 1..k} /\ Len(a) = k /\ k \in Nat /\ k <= Len(s)
    BY <2>3 DEF Answer
  <2>. HIDE DEF rows, Asked, Enough, Sim
  <2>7. /\ \A i \in 1..Len(s) : s[i] \in rows
        /\ \A i, j \in 1..Len(s) : i < j => Sim(s[i]) >= Sim(s[j])
        /\ \A r \in rows : (\A i \in 1..Len(s) : s[i] # r) =>
              Len(s) = Limit(q) /\ \A i \in 1..Len(s) : Sim(s[i]) >= Sim(r)
    BY <2>3 DEF IsRanking, rows, Sim
  <2>8. /\ q.vec => \A i \in 2..k : ~(100 * Sim(s[i]) < 88 * Sim(s[1]))
        /\ k < Len(s) => q.vec /\ k >= 1 /\ 100 * Sim(s[k + 1]) < 88 * Sim(s[1])
    BY <2>3 DEF IsCut, Sim
  \* The first row is the best of those asked for.
  <2>9. ASSUME Len(s) >= 1, NEW o \in Enough PROVE Sim(o) <= Sim(s[1]) /\ Sim(o) \in Int /\ Sim(s[1]) \in Int
    <3>1. s[1] \in rows /\ Sim(s[1]) \in Int /\ Sim(s[1]) >= MinSim(q) /\ Sim(o) \in Int
      BY <2>4, <2>5, <2>7, <2>9
    <3>2. CASE o \in rows /\ \A i \in 1..Len(s) : s[i] # o
      BY <2>7, <2>9, <3>1, <3>2
    <3>3. CASE \E i \in 1..Len(s) : s[i] = o
      <4>1. PICK i \in 1..Len(s) : s[i] = o
        BY <3>3
      <4>2. i = 1 \/ Sim(s[1]) >= Sim(s[i])
        BY <2>7, <2>9
      <4>. QED
        BY <3>1, <4>1, <4>2
    <3>4. CASE o \notin rows
      BY <2>4, <2>5, <3>1, <3>4
    <3>. QED
      BY <3>2, <3>3, <3>4
  <2>10. Answer \subseteq Close
    <3>1. ASSUME NEW i \in 1..k PROVE s[i] \in Close
      <4>1. i \in 1..Len(s) /\ Len(s) >= 1
        BY <2>6
      <4>2. s[i] \in Enough /\ Sim(s[i]) \in Int /\ s[1] \in rows /\ Sim(s[1]) \in Int
        BY <2>5, <2>7, <4>1
      <4>3. ASSUME q.vec, NEW o \in Enough PROVE 100 * Sim(s[i]) >= 88 * Sim(o)
        <5>1. Sim(o) <= Sim(s[1]) /\ Sim(o) \in Int
          BY <2>9, <4>1
        <5>2. 100 * Sim(s[i]) >= 88 * Sim(s[1])
          <6>1. CASE i = 1
            <7>1. Sim(s[1]) > 0
              BY <2>4, <2>5, <4>2, <4>3
            <7>. QED
              BY <4>2, <6>1, <7>1
          <6>2. CASE i # 1
            <7>1. i \in 2..k
              BY <6>2
            <7>2. ~(100 * Sim(s[i]) < 88 * Sim(s[1]))
              BY <2>8, <4>3, <7>1
            <7>. QED
              BY <4>2, <7>2
          <6>. QED
            BY <6>1, <6>2
        <5>. QED
          BY <4>2, <5>1, <5>2
      <4>. QED
        BY <4>2, <4>3
    <3>. HIDE DEF Close
    <3>. QED
      BY <2>6, <3>1
  <2>11. ASSUME q.minSim > 0, NEW r \in Close, r \notin Answer
         PROVE  Limit(q) <= Len(a) /\ \A o \in Answer : Sim(o) >= Sim(r)
    <3>1. r \in Enough /\ r \in rows /\ Sim(r) \in Int /\ (q.vec => \A o \in Enough : 100 * Sim(r) >= 88 * Sim(o))
      BY <2>5, <2>11
    <3>2. CASE k < Len(s)
      <4>1. k >= 1 /\ q.vec /\ 100 * Sim(s[k + 1]) < 88 * Sim(s[1]) /\ k + 1 \in 1..Len(s) /\ 1 \in 1..Len(s)
        BY <2>6, <2>8, <3>2
      <4>2. s[1] \in Enough /\ Sim(s[1]) \in Int /\ Sim(s[k + 1]) \in Int
        BY <2>5, <2>7, <4>1
      <4>3. 100 * Sim(r) >= 88 * Sim(s[1])
        BY <3>1, <4>1, <4>2
      <4>4. Sim(r) <= Sim(s[k + 1])
        <5>1. CASE \A i \in 1..Len(s) : s[i] # r
          BY <2>7, <3>1, <4>1, <5>1
        <5>2. CASE \E i \in 1..Len(s) : s[i] = r
          <6>1. PICK i \in 1..Len(s) : s[i] = r
            BY <5>2
          <6>2. i \notin 1..k
            BY <2>6, <2>11, <6>1
          <6>3. i = k + 1 \/ k + 1 < i
            BY <2>6, <6>2
          <6>4. i = k + 1 \/ Sim(s[k + 1]) >= Sim(s[i])
            BY <2>7, <4>1, <6>3
          <6>. QED
            BY <3>1, <4>2, <6>1, <6>4
        <5>. QED
          BY <5>1, <5>2
      <4>. QED
        BY <3>1, <4>1, <4>2, <4>3, <4>4
    <3>3. CASE k = Len(s)
      <4>1. \A i \in 1..Len(s) : s[i] # r
        BY <2>6, <2>11, <3>3
      <4>2. Len(s) = Limit(q) /\ \A i \in 1..Len(s) : Sim(s[i]) >= Sim(r)
        BY <2>7, <3>1, <4>1
      <4>3. Limit(q) <= Len(a)
        BY <2>6, <3>3, <4>2
      <4>. QED
        BY <2>6, <3>3, <4>2, <4>3
    <3>. QED
      BY <2>6, <3>2, <3>3
  <2>12. \A i, j \in DOMAIN a : i < j => Sim(a[i]) >= Sim(a[j])
    BY <2>3, <2>6, <2>7
  <2>. QED
    BY <2>10, <2>11, <2>12 DEF BestRowsWin, Enough, Asked, Sim
<1>2. ASSUME ~Searched PROVE BestRowsWin
  BY <1>2 DEF BestRowsWin
<1>3. Origin => BestRowsWin
  BY <1>1, <1>2
<1>. QED
  BY <1>3, OriginKept, PTL

-----------------------------------------------------------------------------
(* Division, for a divisor that is not a numeral.                          *)
LEMMA DivBounds ==
  ASSUME NEW a \in Int, NEW b \in Nat \ {0}
  PROVE  a \div b \in Int /\ b * (a \div b) <= a /\ a < b * (a \div b) + b
BY Z3

LEMMA DivUnique ==
  ASSUME NEW a \in Int, NEW b \in Nat \ {0}, NEW q \in Int, b * q <= a, a < b * q + b
  PROVE  a \div b = q
BY Z3

LEMMA DivMod ==
  ASSUME NEW a \in Int, NEW b \in Nat \ {0}, a % b = 0
  PROVE  a = b * (a \div b)
BY Z3

LEMMA DivMonotonic ==
  ASSUME NEW a \in Int, NEW b \in Int, a <= b, NEW c \in Nat \ {0}
  PROVE  a \div c <= b \div c
<1>. DEFINE x == a \div c
            y == b \div c
<1>1. x \in Int /\ c * x <= a
  BY DivBounds
<1>2. y \in Int /\ b < c * y + c
  BY DivBounds
<1>. HIDE DEF x, y
<1>3. c * x < c * (y + 1)
  BY <1>1, <1>2
<1>4. x < y + 1
  BY <1>1, <1>2, <1>3
<1>. QED
  BY <1>1, <1>2, <1>4 DEF x, y

(* The number of cells along a side covers it with less than one to spare. *)
LEMMA CellsAlong ==
  ASSUME NEW extent \in Nat \ {0}
  PROVE  LET n == Max({1, CeilDiv(extent, Cell)})
         IN  n \in Nat \ {0} /\ extent <= Cell * n /\ Cell * n < extent + Cell
<1>. DEFINE q == (-extent) \div Cell
            n == Max({1, -q})
<1>1. Cell \in Nat \ {0} /\ -extent \in Int
  BY HeatGridAssumption
<1>2. q \in Int /\ Cell * q <= -extent /\ -extent < Cell * q + Cell
  BY <1>1, DivBounds
<1>. HIDE DEF q
<1>3. -q \in Int /\ Cell * (-q) = -(Cell * q)
  BY <1>1, <1>2
<1>4. -q >= 1
  <2>1. ASSUME q >= 0 PROVE FALSE
    <3>1. Cell * q >= 0 /\ Cell * q \in Int
      BY <1>1, <1>2, <2>1
    <3>2. -extent < 0
      OBVIOUS
    <3>. QED
      BY <1>1, <1>2, <3>1, <3>2
  <2>. QED
    BY <1>2, <2>1
<1>5. n = -q
  <2>1. 1 \in Int
    OBVIOUS
  <2>2. Max({1, -q}) = IF 1 >= -q THEN 1 ELSE -q
    BY <1>3, <2>1, MaxPair
  <2>. QED
    BY <1>3, <1>4, <2>2
<1>6. n = Max({1, CeilDiv(extent, Cell)})
  BY DEF CeilDiv, q
<1>. HIDE DEF n
<1>7. n \in Nat \ {0} /\ extent <= Cell * n /\ Cell * n < extent + Cell
  <2>1. Cell * n = -(Cell * q)
    BY <1>3, <1>5
  <2>2. n \in Nat \ {0}
    BY <1>3, <1>4, <1>5
  <2>3. Cell * n \in Int /\ Cell * q \in Int
    BY <1>1, <1>2, <2>2
  <2>. QED
    BY <1>1, <1>2, <2>1, <2>2, <2>3
<1>. QED
  BY <1>6, <1>7

LEMMA DivParts ==
  ASSUME NEW a \in Int, NEW b \in Nat \ {0}
  PROVE  a = b * (a \div b) + (a % b) /\ (a % b) \in 0..(b - 1)
BY Z3

(* Packing moves a bound by half a digit at most.                          *)
LEMMA PackNear ==
  ASSUME NEW v \in Int, NEW digit \in Nat \ {0}
  PROVE  /\ digit \div 2 \in Nat /\ 2 * (digit \div 2) <= digit
         /\ Pack(v, digit) \in Int
         /\ Pack(v, digit) - v \in (-(digit \div 2))..(digit \div 2)
<1>. DEFINE k == v \div digit
            r == v % digit
            m == digit \div 2
            up == ~(2 * r < digit \/ (2 * r = digit /\ k % 2 = 0))
<1>1. k \in Int /\ v = digit * k + r /\ r \in 0..(digit - 1)
  BY DivBounds, DivParts
<1>2. m \in Int /\ 2 * m <= digit /\ digit < 2 * m + 2
  BY DivBounds
<1>3. Pack(v, digit) = digit * (IF up THEN k + 1 ELSE k)
  BY DEF Pack
<1>4. up => digit <= 2 * r
  BY <1>1
<1>5. ~up => 2 * r <= digit
  BY <1>1
<1>. HIDE DEF k, r, m, up
<1>6. CASE up
  <2>1. digit * (k + 1) = digit * k + digit /\ digit * k \in Int
    BY <1>1
  <2>2. Pack(v, digit) - v = digit - r /\ Pack(v, digit) \in Int
    BY <1>1, <1>3, <1>6, <2>1
  <2>3. digit - r \in 0..m
    BY <1>1, <1>2, <1>4, <1>6
  <2>. QED
    BY <1>2, <2>2, <2>3 DEF m
<1>7. CASE ~up
  <2>1. digit * k \in Int /\ Pack(v, digit) = digit * k
    BY <1>1, <1>3, <1>7
  <2>2. v - Pack(v, digit) = r /\ Pack(v, digit) \in Int
    BY <1>1, <2>1
  <2>3. r \in 0..m
    BY <1>1, <1>2, <1>5, <1>7
  <2>. QED
    BY <1>2, <2>2, <2>3 DEF m
<1>. QED
  BY <1>6, <1>7

(* The cell a distance falls in, between the first and the last.           *)
LEMMA ClampedCell ==
  ASSUME NEW u \in Int, NEW n \in Nat \ {0}
  PROVE  LET k == Clamp(Trunc(u, Cell), 0, n - 1)
         IN  /\ k \in 0..(n - 1)
             /\ k # 0 => Cell * k <= u
             /\ k # n - 1 => u < Cell * k + Cell
<1>. DEFINE q == IF u < 0 THEN -((-u) \div Cell) ELSE u \div Cell
            k == Clamp(q, 0, n - 1)
<1>1. Cell \in Nat \ {0} /\ -u \in Int
  BY HeatGridAssumption
<1>2. CASE u < 0
  <2>. DEFINE x == (-u) \div Cell
  <2>1. x \in Int /\ -u < Cell * x + Cell
    BY <1>1, DivBounds
  <2>2. q = -x
    BY <1>2
  <2>. HIDE DEF x, q
  <2>3. x >= 0
    <3>1. ASSUME x + 1 <= 0 PROVE FALSE
      <4>1. Cell * (x + 1) <= 0 /\ Cell * (x + 1) = Cell * x + Cell
        BY <1>1, <2>1, <3>1
      <4>. QED
        BY <1>1, <1>2, <2>1, <4>1
    <3>. QED
      BY <2>1, <3>1
  <2>4. k = 0
    BY <2>1, <2>2, <2>3 DEF Clamp
  <2>. HIDE DEF k
  <2>5. k \in 0..(n - 1) /\ (k # 0 => Cell * k <= u) /\ u < Cell * k + Cell
    BY <1>1, <1>2, <2>4
  <2>. QED
    BY <2>5 DEF q, k, Trunc
<1>3. CASE ~(u < 0)
  <2>1. q = u \div Cell
    BY <1>3
  <2>. HIDE DEF q
  <2>2. q \in Int /\ Cell * q <= u /\ u < Cell * q + Cell
    BY <1>1, <2>1, DivBounds
  <2>3. k \in 0..(n - 1) /\ (k # 0 => k <= q) /\ (k # n - 1 => q <= k)
    BY <2>2 DEF Clamp
  <2>. HIDE DEF k
  <2>4. ASSUME k # 0 PROVE Cell * k <= u
    <3>1. Cell * k <= Cell * q /\ Cell * k \in Int /\ Cell * q \in Int
      BY <1>1, <2>2, <2>3, <2>4
    <3>. QED
      BY <2>2, <3>1
  <2>5. ASSUME k # n - 1 PROVE u < Cell * k + Cell
    <3>1. Cell * q <= Cell * k /\ Cell * k \in Int /\ Cell * q \in Int
      BY <1>1, <2>2, <2>3, <2>5
    <3>. QED
      BY <1>1, <2>2, <3>1
  <2>. QED
    BY <2>3, <2>4, <2>5 DEF q, k, Trunc
<1>. QED
  BY <1>2, <1>3

(* A side of which both ends are moved, by c and d, no more than h: a      *)
(* place of part k of the side as it was, and h away from the end of that  *)
(* part, is in part k, or in the next, of the side as it is.               *)
LEMMA PartAtLeast ==
  ASSUME NEW side \in Nat \ {0}, NEW dist \in 0..side, NEW h \in Nat, NEW c \in Int, NEW d \in Int,
         -h <= c, c <= h, d <= h, NEW n \in Nat \ {0}, side <= Cell * n,
         NEW k \in 0..n, Cell * k <= dist - h
  PROVE  (side + c + d) * k <= (dist + c) * n
<1>1. Cell \in Nat \ {0}
  BY HeatGridAssumption
<1>2. side * k <= (Cell * n) * k
  BY <1>1
<1>3. (Cell * n) * k = n * (Cell * k) /\ n * (Cell * k) <= n * (dist - h)
  BY <1>1
<1>4. (c + d) * k <= (c + h) * k /\ (c + h) * k <= (c + h) * n
  BY <1>1
<1>5. (side + c + d) * k = side * k + (c + d) * k /\ (dist + c) * n = n * (dist - h) + (c + h) * n
  BY <1>1
<1>6. /\ side * k \in Int /\ (Cell * n) * k \in Int /\ n * (dist - h) \in Int
      /\ (c + d) * k \in Int /\ (c + h) * k \in Int /\ (c + h) * n \in Int
  BY <1>1
<1>. QED
  BY ONLY <1>2, <1>3, <1>4, <1>5, <1>6

LEMMA PartBelow ==
  ASSUME NEW side \in Nat \ {0}, NEW dist \in 0..side, NEW h \in Nat, NEW c \in Int, NEW d \in Int,
         c <= h, -h <= d, NEW n \in Nat \ {0},
         NEW k \in 0..n, NEW j \in 0..n, (Cell * n) * k <= side * j,
         dist + h < Cell * k
  PROVE  (dist + c) * n < (side + c + d) * j
<1>1. Cell \in Nat \ {0}
  BY HeatGridAssumption
<1>2. n * (dist + h) < n * (Cell * k) /\ n * (Cell * k) = (Cell * n) * k
  BY <1>1
<1>3. (-c - d) * j <= (h - c) * j /\ (h - c) * j <= (h - c) * n
  BY <1>1
<1>4. (dist + c) * n = n * (dist + h) - (h - c) * n /\ (side + c + d) * j = side * j - (-c - d) * j
  BY <1>1
<1>5. /\ n * (dist + h) \in Int /\ (Cell * n) * k \in Int /\ side * j \in Int
      /\ (-c - d) * j \in Int /\ (h - c) * j \in Int /\ (h - c) * n \in Int
  BY <1>1
<1>. QED
  BY ONLY <1>2, <1>3, <1>4, <1>5, (Cell * n) * k <= side * j

(* Equal parts of a side whose ends were moved, and cells measured off in  *)
(* metres along the side as it was.                                        *)
LEMMA PartsAgree ==
  ASSUME NEW side \in Nat \ {0}, NEW dist \in 0..side, NEW h \in Nat, NEW c \in (-h)..h, NEW d \in (-h)..h,
         2 * h < side, NEW n \in Nat \ {0}, side <= Cell * n, Cell * n < side + Cell
  PROVE  /\ Clamp(Trunc(dist - h, Cell), 0, n - 1) <= Part(dist + c, side + c + d, n)
         /\ Part(dist + c, side + c + d, n)
              <= Clamp(Trunc(dist + h, Cell), 0, n - 1) + (IF side % Cell = 0 THEN 0 ELSE 1)
<1>. DEFINE e == side + c + d
            r == ((dist + c) * n) \div e
            lo == Clamp(Trunc(dist - h, Cell), 0, n - 1)
            hi == Clamp(Trunc(dist + h, Cell), 0, n - 1)
<1>1. /\ Cell \in Nat \ {0} /\ dist \in Nat /\ dist <= side /\ c \in Int /\ d \in Int
      /\ -h <= c /\ c <= h /\ -h <= d /\ d <= h
      /\ dist - h \in Int /\ dist + h \in Int
  BY HeatGridAssumption
<1>2. e \in Nat \ {0} /\ (dist + c) * n \in Int
  BY <1>1
<1>3. r \in Int /\ e * r <= (dist + c) * n /\ (dist + c) * n < e * r + e
  BY <1>2, DivBounds
<1>4. Part(dist + c, side + c + d, n) = Clamp(r, 0, n - 1)
  BY DEF Part
<1>5. lo \in 0..(n - 1) /\ (lo # 0 => Cell * lo <= dist - h)
  BY <1>1, ClampedCell
<1>6. hi \in 0..(n - 1) /\ (hi # n - 1 => dist + h < Cell * hi + Cell)
  BY <1>1, ClampedCell
<1>7. ASSUME NEW j \in Int, e * j <= (dist + c) * n PROVE j <= r
  <2>. HIDE DEF e, r
  <2>1. e * j < e * (r + 1) /\ e * (r + 1) = e * r + e
    BY <1>2, <1>3, <1>7
  <2>. QED
    BY <1>2, <1>3, <2>1
<1>8. ASSUME NEW j \in Int, (dist + c) * n < e * j PROVE r < j
  <2>. HIDE DEF e, r
  <2>1. e * r < e * j
    BY <1>2, <1>3, <1>8
  <2>. QED
    BY <1>2, <1>3, <2>1
<1>9. lo # 0 => lo <= r
  <2>1. ASSUME lo # 0 PROVE lo <= r
    <3>1. lo \in 0..n /\ Cell * lo <= dist - h
      BY <1>5, <2>1
    <3>. HIDE DEF lo, r
    <3>2. (side + c + d) * lo <= (dist + c) * n
      BY <1>1, <3>1, PartAtLeast
    <3>3. lo \in Int /\ e * lo <= (dist + c) * n
      BY <3>1, <3>2
    <3>. QED
      BY <1>7, <3>3
  <2>. QED
    BY <2>1
<1>10. side % Cell = 0 => side = Cell * n
  <2>1. ASSUME side % Cell = 0 PROVE side = Cell * n
    <3>. DEFINE k == side \div Cell
    <3>1. k \in Int
      BY <1>1, DivBounds
    <3>2. side = Cell * k
      BY <1>1, <2>1, DivMod
    <3>. HIDE DEF k
    <3>3. Cell * k <= Cell * n /\ Cell * n < Cell * (k + 1)
      BY <1>1, <3>1, <3>2
    <3>4. k <= n /\ n < k + 1
      BY <1>1, <3>1, <3>3
    <3>. QED
      BY <3>1, <3>2, <3>4
  <2>. QED
    BY <2>1
<1>11. hi # n - 1 /\ side % Cell = 0 => r <= hi
  <2>1. ASSUME hi # n - 1, side % Cell = 0 PROVE r <= hi
    <3>. DEFINE k == hi + 1
    <3>1. k \in 0..n /\ hi \in Int /\ dist + h < Cell * k
      <4>1. Cell * (hi + 1) = Cell * hi + Cell
        BY <1>1, <1>6
      <4>. QED
        BY <1>1, <1>6, <2>1, <4>1
    <3>. HIDE DEF k, hi, r
    <3>2. (Cell * n) * k <= side * k
      BY <1>1, <1>10, <2>1, <3>1
    <3>3. (dist + c) * n < (side + c + d) * k
      BY <1>1, <3>1, <3>2, PartBelow
    <3>4. k \in Int /\ (dist + c) * n < e * k
      BY <3>1, <3>3
    <3>5. r < k
      BY <1>8, <3>4
    <3>. QED
      BY <1>3, <3>1, <3>5 DEF k
  <2>. QED
    BY <2>1
<1>12. hi < n - 2 => r <= hi + 1
  <2>1. ASSUME hi < n - 2 PROVE r <= hi + 1
    <3>. DEFINE k == hi + 1
                j == hi + 2
    <3>1. k \in 0..n /\ j \in 0..n /\ k + 2 <= n /\ j = k + 1 /\ hi \in Int /\ dist + h < Cell * k
      <4>1. Cell * (hi + 1) = Cell * hi + Cell
        BY <1>1, <1>6
      <4>. QED
        BY <1>1, <1>6, <2>1, <4>1
    <3>. HIDE DEF k, j, hi, r
    <3>2. (Cell * n) * k <= side * j
      <4>1. (Cell * n) * k <= (side + Cell) * k /\ (side + Cell) * k = side * k + Cell * k
        BY <1>1, <3>1
      <4>2. Cell * k <= Cell * (n - 2) /\ Cell * (n - 2) = Cell * n - 2 * Cell
        BY <1>1, <3>1
      <4>3. side * j = side * k + side
        BY <3>1
      <4>4. side * k \in Int /\ Cell * k \in Int /\ Cell * n \in Int /\ (Cell * n) * k \in Int
        BY <1>1, <3>1
      <4>. QED
        BY <1>1, <4>1, <4>2, <4>3, <4>4
    <3>3. (dist + c) * n < (side + c + d) * j
      BY <1>1, <3>1, <3>2, PartBelow
    <3>4. j \in Int /\ (dist + c) * n < e * j
      BY <3>1, <3>3
    <3>5. r < j
      BY <1>8, <3>4
    <3>. QED
      BY <1>3, <3>1, <3>5 DEF j
  <2>. QED
    BY <2>1
<1>. HIDE DEF r, lo, hi, e
<1>13. Clamp(r, 0, n - 1) \in 0..(n - 1) /\ lo <= Clamp(r, 0, n - 1)
  BY <1>3, <1>5, <1>9 DEF Clamp
<1>14. side % Cell = 0 => Clamp(r, 0, n - 1) <= hi
  BY <1>3, <1>6, <1>11 DEF Clamp
<1>15. Clamp(r, 0, n - 1) <= hi + 1
  BY <1>3, <1>6, <1>12 DEF Clamp
<1>. QED
  BY <1>4, <1>6, <1>13, <1>14, <1>15 DEF lo, hi

-----------------------------------------------------------------------------
LEMMA StagedOrigin ==
  ASSUME Origin, Staged
  PROVE  /\ IsBox(scene.box) /\ scene.route \in Seq(LonLat)
         /\ IsFiniteSet(scene.features)
         /\ \A f \in scene.features : f.similarity \in Int /\ IsRaw(f.geom)
         /\ scene.heat = Compute(scene.features, scene.box)
<1>1. PICK s \in Scenes :
        scene = [box |-> s.box, features |-> s.features, route |-> s.route,
                 heat |-> Compute(s.features, s.box)]
  BY DEF Origin, SearchStarts, SceneStarts, BareStarts, Staged
<1>. QED
  BY <1>1, SceneAssumption

LEMMA BoxSides ==
  ASSUME NEW box, IsBox(box)
  PROVE  /\ box[1] \in Int /\ box[2] \in Int /\ box[3] \in Int /\ box[4] \in Int
         /\ box[3] - box[1] \in Nat \ {0} /\ box[4] - box[2] \in Nat \ {0}
<1>1. box[1] \in Int /\ box[2] \in Int /\ box[3] \in Int /\ box[4] \in Int
  BY DEF IsBox
<1>. QED
  BY <1>1, CostingAssumption DEF IsBox

LEMMA Dimensions ==
  ASSUME NEW box, IsBox(box)
  PROVE  /\ Width(box) \in Nat \ {0} /\ Height(box) \in Nat \ {0}
         /\ box[3] - box[1] <= Cell * Width(box) /\ Cell * Width(box) < box[3] - box[1] + Cell
         /\ box[4] - box[2] <= Cell * Height(box) /\ Cell * Height(box) < box[4] - box[2] + Cell
<1>. DEFINE we == box[3] - box[1]
            sn == box[4] - box[2]
<1>1. we \in Nat \ {0} /\ sn \in Nat \ {0}
  BY BoxSides
<1>2. Width(box) = Max({1, CeilDiv(we, Cell)}) /\ Height(box) = Max({1, CeilDiv(sn, Cell)})
  BY DEF Width, Height
<1>. HIDE DEF we, sn
<1>3. Width(box) \in Nat \ {0} /\ we <= Cell * Width(box) /\ Cell * Width(box) < we + Cell
  BY <1>1, <1>2, CellsAlong
<1>4. Height(box) \in Nat \ {0} /\ sn <= Cell * Height(box) /\ Cell * Height(box) < sn + Cell
  BY <1>1, <1>2, CellsAlong
<1>. QED
  BY <1>3, <1>4 DEF we, sn

(* For every box and cell size, and digits of any length that is shorter   *)
(* than the sides of the box: Valhalla reads the cell the server puts the  *)
(* place in or one no further than half a digit from it, but for the drift *)
(* in a box of no whole number of cells (scenic_pedestrian.patch:212-220,  *)
(* 275-276).                                                               *)
THEOREM CellsReadAlike == AllSpec => []ReadersAgree
<1>1. ASSUME Origin, Staged PROVE ReadersAgree
  <2>. DEFINE box == scene.box
              b   == Packed(box)
              we  == box[3] - box[1]
              sn  == box[4] - box[2]
              lon == LonDigit \div 2
              lat == LatDigit \div 2
              Drift(side) == IF side % Cell = 0 THEN 0 ELSE 1
  <2>1. IsBox(box)
    BY <1>1, StagedOrigin
  <2>2. /\ box[1] \in Int /\ box[2] \in Int /\ box[3] \in Int /\ box[4] \in Int
        /\ we \in Nat \ {0} /\ sn \in Nat \ {0}
    BY <2>1, BoxSides
  <2>3. /\ Width(box) \in Nat \ {0} /\ we <= Cell * Width(box) /\ Cell * Width(box) < we + Cell
        /\ Height(box) \in Nat \ {0} /\ sn <= Cell * Height(box) /\ Cell * Height(box) < sn + Cell
    BY <2>1, Dimensions
  <2>4. LonDigit \in Nat \ {0} /\ LatDigit \in Nat \ {0} /\ LonDigit < we /\ LatDigit < sn
    BY <2>1, <2>2, CostingAssumption DEF IsBox
  <2>5. /\ b[1] = Pack(box[1], LonDigit) /\ b[3] = Pack(box[3], LonDigit)
        /\ b[2] = Pack(box[2], LatDigit) /\ b[4] = Pack(box[4], LatDigit)
    BY DEF Packed
  <2>6. /\ lon \in Nat /\ 2 * lon <= LonDigit
        /\ b[1] \in Int /\ b[1] - box[1] \in (-lon)..lon
    BY <2>2, <2>4, <2>5, PackNear
  <2>7. b[3] \in Int /\ b[3] - box[3] \in (-lon)..lon
    BY <2>2, <2>4, <2>5, PackNear
  <2>8. /\ lat \in Nat /\ 2 * lat <= LatDigit
        /\ b[2] \in Int /\ b[2] - box[2] \in (-lat)..lat
    BY <2>2, <2>4, <2>5, PackNear
  <2>9. b[4] \in Int /\ b[4] - box[4] \in (-lat)..lat
    BY <2>2, <2>4, <2>5, PackNear
  <2>10. ASSUME NEW p \in Places(box)
         PROVE  /\ CellRead(box, p)[2] \in XOf(box, p[1] - lon)..(XOf(box, p[1] + lon) + Drift(we))
                /\ CellRead(box, p)[1] \in YOf(box, p[2] + lat)..(YOf(box, p[2] - lat) + Drift(sn))
    <3>. DEFINE e  == p[1] - box[1]
                s  == box[4] - p[2]
                ce == box[1] - b[1]
                de == b[3] - box[3]
                cs == b[4] - box[4]
                ds == box[2] - b[2]
    <3>1. p[1] \in box[1]..box[3] /\ p[2] \in box[2]..box[4]
      BY DEF Places
    <3>2. e \in 0..we /\ s \in 0..sn
      BY <2>2, <3>1
    <3>3. ce \in (-lon)..lon /\ de \in (-lon)..lon /\ cs \in (-lat)..lat /\ ds \in (-lat)..lat
      <4>. HIDE DEF box, b, lon, lat
      <4>. QED
        BY <2>2, <2>6, <2>7, <2>8, <2>9
    <3>4. /\ p[1] - b[1] = e + ce /\ b[3] - b[1] = we + ce + de
          /\ b[4] - p[2] = s + cs /\ b[4] - b[2] = sn + cs + ds
          /\ (p[1] - lon) - box[1] = e - lon /\ (p[1] + lon) - box[1] = e + lon
          /\ box[4] - (p[2] + lat) = s - lat /\ box[4] - (p[2] - lat) = s + lat
      <4>. HIDE DEF box, b, lon, lat
      <4>. QED
        BY <2>2, <2>6, <2>7, <2>8, <2>9, <3>1
    <3>5. /\ CellRead(box, p)[2] = Part(p[1] - b[1], b[3] - b[1], Width(box))
          /\ CellRead(box, p)[1] = Part(b[4] - p[2], b[4] - b[2], Height(box))
      BY DEF CellRead
    <3>6. /\ XOf(box, p[1] - lon) = Clamp(Trunc((p[1] - lon) - box[1], Cell), 0, Width(box) - 1)
          /\ XOf(box, p[1] + lon) = Clamp(Trunc((p[1] + lon) - box[1], Cell), 0, Width(box) - 1)
          /\ YOf(box, p[2] + lat) = Clamp(Trunc(box[4] - (p[2] + lat), Cell), 0, Height(box) - 1)
          /\ YOf(box, p[2] - lat) = Clamp(Trunc(box[4] - (p[2] - lat), Cell), 0, Height(box) - 1)
      BY DEF XOf, YOf
    <3>. HIDE DEF e, s, ce, de, cs, ds, we, sn, box, b, lon, lat
    <3>7. /\ CellRead(box, p)[2] = Part(e + ce, we + ce + de, Width(box))
          /\ CellRead(box, p)[1] = Part(s + cs, sn + cs + ds, Height(box))
      BY <3>4, <3>5
    <3>8. /\ XOf(box, p[1] - lon) = Clamp(Trunc(e - lon, Cell), 0, Width(box) - 1)
          /\ XOf(box, p[1] + lon) = Clamp(Trunc(e + lon, Cell), 0, Width(box) - 1)
          /\ YOf(box, p[2] + lat) = Clamp(Trunc(s - lat, Cell), 0, Height(box) - 1)
          /\ YOf(box, p[2] - lat) = Clamp(Trunc(s + lat, Cell), 0, Height(box) - 1)
      BY <3>4, <3>6
    <3>9. 2 * lon < we /\ 2 * lat < sn
      BY <2>2, <2>4, <2>6, <2>8
    <3>10. /\ XOf(box, p[1] - lon) <= CellRead(box, p)[2]
           /\ CellRead(box, p)[2] <= XOf(box, p[1] + lon) + (IF we % Cell = 0 THEN 0 ELSE 1)
      <4>1. /\ Clamp(Trunc(e - lon, Cell), 0, Width(box) - 1) <= Part(e + ce, we + ce + de, Width(box))
            /\ Part(e + ce, we + ce + de, Width(box))
                 <= Clamp(Trunc(e + lon, Cell), 0, Width(box) - 1) + (IF we % Cell = 0 THEN 0 ELSE 1)
        BY <2>2, <2>3, <2>6, <3>2, <3>3, <3>9, PartsAgree
      <4>. QED
        BY <3>7, <3>8, <4>1, Zenon
    <3>11. /\ YOf(box, p[2] + lat) <= CellRead(box, p)[1]
           /\ CellRead(box, p)[1] <= YOf(box, p[2] - lat) + (IF sn % Cell = 0 THEN 0 ELSE 1)
      <4>1. /\ Clamp(Trunc(s - lat, Cell), 0, Height(box) - 1) <= Part(s + cs, sn + cs + ds, Height(box))
            /\ Part(s + cs, sn + cs + ds, Height(box))
                 <= Clamp(Trunc(s + lat, Cell), 0, Height(box) - 1) + (IF sn % Cell = 0 THEN 0 ELSE 1)
        BY <2>2, <2>3, <2>8, <3>2, <3>3, <3>9, PartsAgree
      <4>. QED
        BY <3>7, <3>8, <4>1, Zenon
    <3>12. /\ e - lon \in Int /\ e + lon \in Int /\ s - lat \in Int /\ s + lat \in Int
      BY <2>2, <2>6, <2>8, <3>2
    <3>13. XOf(box, p[1] - lon) \in Int /\ XOf(box, p[1] + lon) \in Int
      BY <2>3, <3>8, <3>12, ClampedCell
    <3>14. YOf(box, p[2] + lat) \in Int /\ YOf(box, p[2] - lat) \in Int
      BY <2>3, <3>8, <3>12, ClampedCell
    <3>15. CellRead(box, p)[2] \in Int /\ CellRead(box, p)[1] \in Int
      <4>1. /\ (e + ce) * Width(box) \in Int /\ we + ce + de \in Nat \ {0}
            /\ (s + cs) * Height(box) \in Int /\ sn + cs + ds \in Nat \ {0}
        BY <2>2, <2>3, <2>6, <2>8, <3>2, <3>3, <3>9
      <4>2. /\ ((e + ce) * Width(box)) \div (we + ce + de) \in Int
            /\ ((s + cs) * Height(box)) \div (sn + cs + ds) \in Int
        BY <4>1, DivBounds
      <4>. QED
        BY <2>3, <3>7, <4>2 DEF Part, Clamp
    <3>. QED
      BY <3>10, <3>11, <3>13, <3>14, <3>15
  <2>11. ASSUME NEW p \in Places(box), ~InBox(box, p)
         PROVE  \/ p[1] < box[1] + lon \/ box[3] - lon < p[1]
                \/ p[2] < box[2] + lat \/ box[4] - lat < p[2]
    <3>1. p[1] \in Int /\ p[2] \in Int
      BY <2>2 DEF Places
    <3>2. ~(b[1] <= p[1] /\ p[1] <= b[3] /\ b[2] <= p[2] /\ p[2] <= b[4])
      BY <2>11 DEF InBox
    <3>. HIDE DEF box, b, lon, lat
    <3>. QED
      BY <2>2, <2>6, <2>7, <2>8, <2>9, <3>1, <3>2
  <2>. HIDE DEF lon, lat, b
  <2>. QED
    BY <2>10, <2>11 DEF ReadersAgree, lon, lat
<1>2. ASSUME ~Staged PROVE ReadersAgree
  BY <1>2 DEF ReadersAgree
<1>3. Origin => ReadersAgree
  BY <1>1, <1>2
<1>. QED
  BY <1>3, OriginKept, PTL

-----------------------------------------------------------------------------
(* The cell a place of a side is put in, and a place of every cell.        *)
LEMMA CellHolds ==
  ASSUME NEW extent \in Nat \ {0}, NEW n \in Nat \ {0}, extent <= Cell * n,
         NEW dist \in 0..extent
  PROVE  LET k == Clamp(Trunc(dist, Cell), 0, n - 1)
         IN  k \in 0..(n - 1) /\ Cell * k <= dist /\ dist <= Cell * k + Cell
<1>. DEFINE x == dist \div Cell
            k == Clamp(Trunc(dist, Cell), 0, n - 1)
<1>1. Cell \in Nat \ {0} /\ dist \in Nat /\ dist <= extent
  BY HeatGridAssumption
<1>2. x \in Int /\ Cell * x <= dist /\ dist < Cell * x + Cell
  BY <1>1, DivBounds
<1>3. Trunc(dist, Cell) = x
  BY <1>1 DEF Trunc
<1>. HIDE DEF x
<1>4. x >= 0
  <2>1. ASSUME x + 1 <= 0 PROVE FALSE
    <3>1. Cell * (x + 1) <= 0
      BY <1>1, <1>2, <2>1
    <3>. QED
      BY <1>1, <1>2, <3>1
  <2>. QED
    BY <1>2, <2>1
<1>5. CASE x <= n - 1
  <2>1. k = x
    BY <1>2, <1>3, <1>4, <1>5 DEF Clamp
  <2>. HIDE DEF k
  <2>2. k \in 0..(n - 1) /\ Cell * k <= dist /\ dist <= Cell * k + Cell
    BY <1>1, <1>2, <1>4, <1>5, <2>1
  <2>. QED
    BY <2>2 DEF k
<1>6. CASE x > n - 1
  <2>1. k = n - 1
    BY <1>2, <1>3, <1>4, <1>6 DEF Clamp
  <2>. HIDE DEF k
  <2>2. Cell * k <= Cell * x /\ Cell * k + Cell = Cell * n
    BY <1>1, <1>2, <1>6, <2>1
  <2>3. Cell * k \in Int /\ Cell * x \in Int /\ Cell * n \in Int
    BY <1>1, <1>2, <2>1
  <2>4. Cell * k <= dist /\ dist <= Cell * k + Cell
    BY <1>1, <1>2, <2>2, <2>3
  <2>. QED
    BY <2>1, <2>4 DEF k
<1>. QED
  BY <1>2, <1>5, <1>6

LEMMA CellReached ==
  ASSUME NEW extent \in Nat \ {0}, NEW n \in Nat \ {0}, Cell * n < extent + Cell,
         NEW k \in 0..(n - 1)
  PROVE  Cell * k \in 0..extent /\ Clamp(Trunc(Cell * k, Cell), 0, n - 1) = k
<1>1. Cell \in Nat \ {0} /\ k \in Int /\ 0 <= k /\ k <= n - 1
  BY HeatGridAssumption
<1>2. Cell * k \in Int /\ 0 <= Cell * k /\ Cell * k <= Cell * (n - 1) /\ Cell * (n - 1) = Cell * n - Cell
  BY <1>1
<1>3. Cell * k \in 0..extent
  BY <1>1, <1>2
<1>4. (Cell * k) \div Cell = k
  BY <1>1, <1>2, DivUnique
<1>5. Trunc(Cell * k, Cell) = k
  BY <1>2, <1>4 DEF Trunc
<1>. QED
  BY <1>1, <1>3, <1>5 DEF Clamp

LEMMA MaxAtMost ==
  ASSUME NEW a \in Int, NEW b \in Int, NEW c \in Int, NEW d \in Int, NEW h \in Int,
         a <= h, b <= h, c <= h, d <= h
  PROVE  Max({a, b, c, d}) \in Int /\ Max({a, b, c, d}) <= h
<1>. DEFINE S == {a, b} \cup {c, d}
<1>1. IsFiniteSet(S)
  BY PairFinite, FS_Union
<1>2. S \in SUBSET Int /\ S # {} /\ \A v \in S : v <= h
  OBVIOUS
<1>3. S = {a, b, c, d}
  OBVIOUS
<1>. HIDE DEF S
<1>4. Max(S) \in S
  BY <1>1, <1>2, MaxGreatest
<1>5. Max(S) \in Int /\ Max(S) <= h
  BY <1>2, <1>4
<1>. QED
  BY <1>3, <1>5

GridCells(box) == (0..(Height(box) - 1)) \X (0..(Width(box) - 1))

LEMMA StagedGrid ==
  ASSUME Origin, Staged
  PROVE  Grid = Compute(scene.features, scene.box) /\ DOMAIN Grid = GridCells(scene.box)
BY StagedOrigin DEF Grid, Compute, GridCells

(* For every box and cell size, a place is put in a cell whose centre is   *)
(* no further than half a cell, and no cell is left without places         *)
(* (heatmap.go:545-556).                                                   *)
THEOREM GridCoversBox == AllSpec => []CellsHoldPlaces
<1>1. ASSUME Origin, Staged PROVE CellsHoldPlaces
  <2>. DEFINE box == scene.box
              we  == box[3] - box[1]
              sn  == box[4] - box[2]
              half == Cell \div 2
              Given(p) == <<YOf(box, p[2]), XOf(box, p[1])>>
  <2>1. IsBox(box)
    BY <1>1, StagedOrigin
  <2>2. /\ box[1] \in Int /\ box[2] \in Int /\ box[3] \in Int /\ box[4] \in Int
        /\ we \in Nat \ {0} /\ sn \in Nat \ {0}
    BY <2>1, BoxSides
  <2>3. /\ Width(box) \in Nat \ {0} /\ we <= Cell * Width(box) /\ Cell * Width(box) < we + Cell
        /\ Height(box) \in Nat \ {0} /\ sn <= Cell * Height(box) /\ Cell * Height(box) < sn + Cell
    BY <2>1, Dimensions
  <2>4. half \in Nat /\ Cell = 2 * half
    BY HeatGridAssumption
  <2>5. ASSUME NEW p \in Places(box)
        PROVE  LET m == Centre(box, Given(p)) IN
               /\ Given(p) \in GridCells(box)
               /\ 2 * Max({m[1] - p[1], p[1] - m[1], m[2] - p[2], p[2] - m[2]}) <= Cell
    <3>. DEFINE e == p[1] - box[1]
                s == box[4] - p[2]
                x == XOf(box, p[1])
                y == YOf(box, p[2])
                m == Centre(box, Given(p))
    <3>1. p[1] \in box[1]..box[3] /\ p[2] \in box[2]..box[4]
      BY DEF Places
    <3>2. e \in 0..we /\ s \in 0..sn
      BY <2>2, <3>1
    <3>3. x = Clamp(Trunc(e, Cell), 0, Width(box) - 1) /\ y = Clamp(Trunc(s, Cell), 0, Height(box) - 1)
      BY DEF XOf, YOf
    <3>4. m[1] = box[1] + x * Cell + half /\ m[2] = box[4] - y * Cell - half
      BY DEF Centre
    <3>5. Given(p) = <<y, x>>
      OBVIOUS
    <3>6. p[1] = box[1] + e /\ p[2] = box[4] - s
      BY <2>2, <3>1
    <3>. HIDE DEF e, s, we, sn, box, x, y, m, half, Given
    <3>7. x \in 0..(Width(box) - 1) /\ Cell * x <= e /\ e <= Cell * x + Cell
      BY <2>2, <2>3, <3>2, <3>3, CellHolds
    <3>8. y \in 0..(Height(box) - 1) /\ Cell * y <= s /\ s <= Cell * y + Cell
      BY <2>2, <2>3, <3>2, <3>3, CellHolds
    <3>9. Given(p) \in GridCells(box)
      BY <3>5, <3>7, <3>8 DEF GridCells
    <3>10. Cell \in Int /\ e \in Int /\ s \in Int /\ x \in Int /\ y \in Int /\ p[1] \in Int /\ p[2] \in Int
      BY <2>2, <2>3, <3>1, <3>2, <3>7, <3>8, HeatGridAssumption
    <3>11. x * Cell = Cell * x /\ y * Cell = Cell * y /\ x * Cell \in Int /\ y * Cell \in Int
      BY <3>10
    <3>12. m[1] - p[1] = (Cell * x - e) + half /\ m[2] - p[2] = (s - Cell * y) - half
      BY <2>2, <2>4, <3>4, <3>6, <3>10, <3>11
    <3>13. /\ m[1] - p[1] \in Int /\ p[1] - m[1] \in Int /\ m[2] - p[2] \in Int /\ p[2] - m[2] \in Int
           /\ m[1] - p[1] <= half /\ p[1] - m[1] <= half /\ m[2] - p[2] <= half /\ p[2] - m[2] <= half
      BY <2>2, <2>4, <3>4, <3>6, <3>7, <3>8, <3>10, <3>11
    <3>14. Max({m[1] - p[1], p[1] - m[1], m[2] - p[2], p[2] - m[2]}) <= half
           /\ Max({m[1] - p[1], p[1] - m[1], m[2] - p[2], p[2] - m[2]}) \in Int
      BY <2>4, <3>13, MaxAtMost
    <3>15. 2 * Max({m[1] - p[1], p[1] - m[1], m[2] - p[2], p[2] - m[2]}) <= Cell
      BY <2>4, <3>14
    <3>. QED
      BY <3>9, <3>15 DEF m
  <2>6. ASSUME NEW c \in GridCells(box) PROVE \E p \in Places(box) : Given(p) = c
    <3>. DEFINE p == <<box[1] + Cell * c[2], box[4] - Cell * c[1]>>
    <3>1. c[1] \in 0..(Height(box) - 1) /\ c[2] \in 0..(Width(box) - 1) /\ c = <<c[1], c[2]>>
      BY DEF GridCells
    <3>. HIDE DEF we, sn
    <3>2. Cell * c[2] \in 0..we /\ Clamp(Trunc(Cell * c[2], Cell), 0, Width(box) - 1) = c[2]
      BY <2>2, <2>3, <3>1, CellReached
    <3>3. Cell * c[1] \in 0..sn /\ Clamp(Trunc(Cell * c[1], Cell), 0, Height(box) - 1) = c[1]
      BY <2>2, <2>3, <3>1, CellReached
    <3>4. p \in Places(box)
      BY <2>2, <3>2, <3>3 DEF Places, we, sn
    <3>5. p[1] - box[1] = Cell * c[2] /\ box[4] - p[2] = Cell * c[1]
      BY <2>2, <3>2, <3>3
    <3>6. XOf(box, p[1]) = c[2] /\ YOf(box, p[2]) = c[1]
      BY <3>2, <3>3, <3>5 DEF XOf, YOf
    <3>. QED
      BY <3>1, <3>4, <3>6
  <2>7. DOMAIN Grid = GridCells(box)
    BY <1>1, StagedGrid
  <2>8. {Given(p) : p \in Places(box)} = DOMAIN Grid
    BY <2>5, <2>6, <2>7
  <2>. QED
    BY <2>5, <2>8 DEF CellsHoldPlaces
<1>2. ASSUME ~Staged PROVE CellsHoldPlaces
  BY <1>2 DEF CellsHoldPlaces
<1>3. Origin => CellsHoldPlaces
  BY <1>1, <1>2
<1>. QED
  BY <1>3, OriginKept, PTL

-----------------------------------------------------------------------------
(* Whole square roots exist, so the length of an edge is a natural.        *)
LEMMA RootExists ==
  ASSUME NEW s \in Nat
  PROVE  \E d \in 0..s : Sq(d) <= s /\ s < Sq(d + 1)
<1>. DEFINE G == {t \in Nat : \E d \in 0..t : d * d <= t /\ t < (d + 1) * (d + 1)}
<1>1. 0 \in G
  <2>1. 0 \in 0..0 /\ 0 * 0 <= 0 /\ 0 < (0 + 1) * (0 + 1)
    OBVIOUS
  <2>. QED
    BY <2>1
<1>2. ASSUME NEW t \in Nat, t \in G PROVE t + 1 \in G
  <2>1. PICK d \in 0..t : d * d <= t /\ t < (d + 1) * (d + 1)
    BY <1>2
  <2>2. CASE t + 1 < (d + 1) * (d + 1)
    <3>1. d \in 0..(t + 1) /\ d * d <= t + 1
      BY <2>1
    <3>. QED
      BY <2>2, <3>1
  <2>3. CASE ~(t + 1 < (d + 1) * (d + 1))
    <3>1. d + 1 \in 0..(t + 1) /\ (d + 1) * (d + 1) \in Int
      OBVIOUS
    <3>2. (d + 1) * (d + 1) <= t + 1
      BY <2>3, <3>1
    <3>3. ((d + 1) + 1) * ((d + 1) + 1) = (d + 1) * (d + 1) + 2 * (d + 1) + 1
      OBVIOUS
    <3>4. t + 1 < ((d + 1) + 1) * ((d + 1) + 1)
      BY <2>1, <3>1, <3>3
    <3>. DEFINE e == d + 1
    <3>5. e \in 0..(t + 1) /\ e * e <= t + 1 /\ t + 1 < (e + 1) * (e + 1)
      BY <3>1, <3>2, <3>4
    <3>. HIDE DEF e
    <3>6. t + 1 \in Nat
      OBVIOUS
    <3>. QED
      BY <3>5, <3>6
  <2>. QED
    BY <2>2, <2>3
<1>3. Nat \subseteq G
  <2>. HIDE DEF G
  <2>. QED
    BY <1>1, <1>2, NatInductive
<1>. QED
  BY <1>3 DEF Sq

LEMMA EdgeLengthType ==
  ASSUME NEW a \in LonLat, NEW b \in LonLat
  PROVE  EdgeLength(a, b) \in Nat
<1>1. SqDist(a, b) \in Nat
  <2>. DEFINE x == a[1] - b[1]
              y == a[2] - b[2]
  <2>1. x \in Int /\ y \in Int
    BY DEF LonLat
  <2>. HIDE DEF x, y
  <2>2. x * x \in Nat /\ y * y \in Nat
    BY <2>1
  <2>3. SqDist(a, b) = x * x + y * y
    BY DEF SqDist, Sq, x, y
  <2>. QED
    BY <2>2, <2>3
<1>2. \E d \in 0..(SqDist(a, b)) : Sq(d) <= SqDist(a, b) /\ SqDist(a, b) < Sq(d + 1)
  BY <1>1, RootExists
<1>3. EdgeLength(a, b) \in 0..(SqDist(a, b))
  BY <1>2 DEF EdgeLength
<1>. QED
  BY <1>1, <1>3

(* The sum of the edges from one vertex to another, one edge at a time.    *)
LEMMA WalkStart ==
  ASSUME NEW r \in Seq(LonLat), NEW i \in DOMAIN r
  PROVE  WalkLength(r, i, i) = 0
<1>1. i..(i - 1) = {}
  OBVIOUS
<1>. QED
  BY <1>1, SumEmpty DEF WalkLength

LEMMA WalkStep ==
  ASSUME NEW r \in Seq(LonLat), NEW i \in DOMAIN r, NEW k \in DOMAIN r, i <= k, k + 1 \in DOMAIN r
  PROVE  WalkLength(r, i, k + 1) = WalkLength(r, i, k) + EdgeLength(r[k], r[k + 1])
<1>. DEFINE S == i..k
            R == i..(k - 1)
            f == [n \in S |-> EdgeLength(r[n], r[n + 1])]
            e == [n \in R |-> EdgeLength(r[n], r[n + 1])]
<1>1. i \in Int /\ k \in Int /\ k - 1 \in Int
  OBVIOUS
<1>2. IsFiniteSet(S) /\ IsFiniteSet(R)
  BY <1>1, FS_Interval
<1>3. k \in S /\ S \ {k} = R /\ R \subseteq S
  BY <1>1
<1>4. \A n \in S : r[n] \in LonLat /\ r[n + 1] \in LonLat
  BY <1>1
<1>5. IntsOn(f, S)
  <2>1. ASSUME NEW n \in S PROVE f[n] \in Int
    <3>1. EdgeLength(r[n], r[n + 1]) \in Nat
      BY <1>4, EdgeLengthType
    <3>. QED
      BY <3>1
  <2>. QED
    BY <2>1 DEF IntsOn
<1>6. (\A n \in R : f[n] = e[n]) /\ f[k] = EdgeLength(r[k], r[k + 1])
  BY <1>3
<1>7. WalkLength(r, i, k + 1) = SumFunctionOnSet(f, S) /\ WalkLength(r, i, k) = SumFunctionOnSet(e, R)
  <2>1. (k + 1) - 1 = k
    BY <1>1
  <2>. QED
    BY <2>1 DEF WalkLength
<1>. HIDE DEF S, R, f, e
<1>8. IntsOn(f, R)
  BY <1>3, <1>5 DEF IntsOn
<1>9. SumFunctionOnSet(f, S) = f[k] + SumFunctionOnSet(f, R)
  BY <1>2, <1>3, <1>5, SumRemove
<1>10. SumFunctionOnSet(f, R) = SumFunctionOnSet(e, R)
  BY <1>2, <1>6, <1>8, SumSame
<1>11. SumFunctionOnSet(f, R) \in Int /\ f[k] \in Int
  BY <1>2, <1>3, <1>5, <1>8, SumType DEF IntsOn
<1>. QED
  BY <1>6, <1>7, <1>9, <1>10, <1>11

(* How far a route has been walked since a sample was last due.            *)
Onward(r, a, i) ==
  IF i = 1 THEN 0
  ELSE (IF a[i - 1] >= SampleEvery THEN 0 ELSE a[i - 1]) + EdgeLength(r[i - 1], r[i])

Accumulated(r) == CHOOSE a : a = [i \in DOMAIN r |-> Onward(r, a, i)]

LEMMA SampledByDistance ==
  ASSUME NEW r
  PROVE  Sampled(r) = {i \in DOMAIN r : i = 1 \/ Accumulated(r)[i] >= SampleEvery \/ i = Len(r)}
BY DEF Sampled, Accumulated, Onward

LEMMA AccumulatedStep ==
  ASSUME NEW r \in Seq(LonLat), NEW i \in DOMAIN r
  PROVE  Accumulated(r)[i] \in Nat /\ Accumulated(r)[i] = Onward(r, Accumulated(r), i)
<1>. DEFINE D == DOMAIN r
            Good(a, k) == \A j \in D : j <= k => a[j] = Onward(r, a, j)
            G == {k \in Nat : \E a \in [D -> Nat] : Good(a, k)}
<1>1. D = 1..Len(r) /\ Len(r) \in Nat /\ SampleEvery \in Nat
  BY HeatGridAssumption
<1>2. ASSUME NEW a \in [D -> Nat], NEW j \in D PROVE Onward(r, a, j) \in Nat
  <2>1. CASE j = 1
    BY <2>1 DEF Onward
  <2>2. CASE j # 1
    <3>1. j - 1 \in D /\ r[j] \in LonLat /\ r[j - 1] \in LonLat
      BY <1>1, <2>2
    <3>2. EdgeLength(r[j - 1], r[j]) \in Nat /\ a[j - 1] \in Nat
      BY <3>1, EdgeLengthType
    <3>. QED
      BY <2>2, <3>2 DEF Onward
  <2>. QED
    BY <2>1, <2>2
<1>3. 0 \in G
  <2>. DEFINE a == [j \in D |-> 0]
  <2>1. a \in [D -> Nat] /\ Good(a, 0)
    BY <1>1
  <2>. QED
    BY <2>1
<1>4. ASSUME NEW k \in Nat, k \in G PROVE k + 1 \in G
  <2>1. PICK a \in [D -> Nat] : Good(a, k)
    BY <1>4
  <2>. DEFINE b == [j \in D |-> IF j = k + 1 THEN Onward(r, a, j) ELSE a[j]]
  <2>2. b \in [D -> Nat]
    BY <1>2
  <2>3. ASSUME NEW j \in D, j <= k + 1 PROVE b[j] = Onward(r, b, j)
    <3>1. j - 1 # k + 1 /\ j \in Int
      BY <1>1, <2>3
    <3>2. j # 1 => j - 1 \in D
      BY <1>1
    <3>3. j # 1 => b[j - 1] = a[j - 1]
      BY <3>1, <3>2
    <3>4. Onward(r, b, j) = Onward(r, a, j)
      BY <3>3 DEF Onward
    <3>5. j # k + 1 => a[j] = Onward(r, a, j)
      BY <1>1, <2>1, <2>3, <3>1
    <3>. QED
      BY <3>4, <3>5
  <2>. HIDE DEF b
  <2>4. Good(b, k + 1) /\ k + 1 \in Nat
    BY <2>3
  <2>. QED
    BY <2>2, <2>4
<1>5. Nat \subseteq G
  <2>. HIDE DEF G
  <2>. QED
    BY <1>3, <1>4, NatInductive
<1>6. PICK a \in [D -> Nat] : Good(a, Len(r))
  BY <1>1, <1>5
<1>7. a = [j \in D |-> Onward(r, a, j)]
  BY <1>1, <1>6
<1>8. Accumulated(r) = [j \in D |-> Onward(r, Accumulated(r), j)]
  BY <1>7 DEF Accumulated
<1>. DEFINE A == Accumulated(r)
<1>9. \A j \in D : A[j] = Onward(r, A, j)
  BY <1>8
<1>. HIDE DEF A
<1>. DEFINE H == {k \in Nat : k + 1 \in D => A[k + 1] = a[k + 1]}
<1>10. 0 \in H
  <2>1. ASSUME 1 \in D PROVE A[1] = 0 /\ a[1] = 0
    <3>1. A[1] = Onward(r, A, 1)
      BY <1>9, <2>1
    <3>2. a[1] = Onward(r, a, 1)
      BY <1>1, <1>6, <2>1
    <3>. QED
      BY <3>1, <3>2 DEF Onward
  <2>2. 0 + 1 = 1
    OBVIOUS
  <2>. QED
    BY <2>1, <2>2
<1>11. ASSUME NEW k \in Nat, k \in H PROVE k + 1 \in H
  <2>1. SUFFICES ASSUME (k + 1) + 1 \in D PROVE A[(k + 1) + 1] = a[(k + 1) + 1]
    OBVIOUS
  <2>2. k + 1 \in D /\ ((k + 1) + 1) - 1 = k + 1 /\ (k + 1) + 1 <= Len(r)
    BY <1>1, <2>1
  <2>3. A[k + 1] = a[k + 1]
    BY <1>11, <2>2
  <2>4. Onward(r, A, (k + 1) + 1) = Onward(r, a, (k + 1) + 1)
    BY <2>2, <2>3 DEF Onward
  <2>. QED
    BY <1>6, <1>9, <2>1, <2>2, <2>4
<1>12. Nat \subseteq H
  <2>. HIDE DEF H
  <2>. QED
    BY <1>10, <1>11, NatInductive
<1>13. i - 1 \in Nat /\ (i - 1) + 1 = i /\ i \in D
  BY <1>1
<1>14. A[i] = a[i]
  BY <1>12, <1>13
<1>. QED
  BY <1>9, <1>13, <1>14 DEF A

(* For every route, both ends are sampled, and between two samples less    *)
(* than SampleEvery and one edge is walked (heatmap.go:503-528).           *)
THEOREM SampleSpacing == AllSpec => []SamplesSpaced
<1>1. ASSUME Origin, Staged PROVE SamplesSpaced
  <2>. DEFINE r == scene.route
              S == Sampled(r)
              A == Accumulated(r)
              n == Len(r)
  <2>1. r \in Seq(LonLat) /\ DOMAIN r = 1..n /\ n \in Nat
    BY <1>1, StagedOrigin
  <2>. HIDE DEF r, A, n
  <2>2. S = {i \in DOMAIN r : i = 1 \/ A[i] >= SampleEvery \/ i = n}
    BY SampledByDistance DEF A, n
  <2>3. \A i \in DOMAIN r : A[i] \in Nat /\ A[i] = Onward(r, A, i)
    BY <2>1, AccumulatedStep DEF A
  <2>. HIDE DEF S
  <2>4. {i \in DOMAIN r : i \in {1, n}} \subseteq S
    BY <2>2
  <2>5. ASSUME NEW i \in S, NEW j \in S, i < j, (i + 1)..(j - 1) \cap S = {}, j # i + 1
        PROVE  WalkLength(r, i, j - 1) < SampleEvery
    <3>1. i \in 1..n /\ j \in 1..n /\ i + 1 < j
      BY <2>1, <2>2, <2>5
    <3>2. ASSUME NEW k \in (i + 1)..(j - 1) PROVE k \in DOMAIN r /\ ~(A[k] >= SampleEvery)
      BY <2>1, <2>2, <2>5, <3>1, <3>2
    <3>3. A[i] = 0 \/ A[i] >= SampleEvery
      BY <2>1, <2>2, <2>3, <3>1 DEF Onward
    <3>. DEFINE G == {d \in Nat : i + 1 + d <= j - 1 => A[i + 1 + d] = WalkLength(r, i, i + 1 + d)}
    <3>4. 0 \in G
      <4>1. i + 1 \in DOMAIN r /\ i \in DOMAIN r /\ i <= i /\ (i + 1) - 1 = i /\ i + 1 # 1 /\ i + 1 + 0 = i + 1
        BY <2>1, <3>1
      <4>2. WalkLength(r, i, i + 1) = WalkLength(r, i, i) + EdgeLength(r[i], r[i + 1])
        BY <2>1, <4>1, WalkStep
      <4>3. WalkLength(r, i, i) = 0
        BY <2>1, <4>1, WalkStart
      <4>4. A[i + 1] = (IF A[i] >= SampleEvery THEN 0 ELSE A[i]) + EdgeLength(r[i], r[i + 1])
        BY <2>3, <4>1 DEF Onward
      <4>5. (IF A[i] >= SampleEvery THEN 0 ELSE A[i]) = 0
        BY <3>3
      <4>. QED
        BY <4>1, <4>2, <4>3, <4>4, <4>5
    <3>5. ASSUME NEW d \in Nat, d \in G PROVE d + 1 \in G
      <4>. DEFINE k == i + 1 + d
      <4>1. SUFFICES ASSUME k + 1 <= j - 1 PROVE A[k + 1] = WalkLength(r, i, k + 1)
        <5>1. i + 1 + (d + 1) = k + 1 /\ d + 1 \in Nat
          BY <3>1
        <5>. QED
          BY <5>1
      <4>2. k \in (i + 1)..(j - 1) /\ k \in DOMAIN r /\ k + 1 \in DOMAIN r /\ i \in DOMAIN r /\ i <= k
            /\ k + 1 # 1 /\ (k + 1) - 1 = k
        BY <2>1, <3>1, <4>1
      <4>3. A[k] = WalkLength(r, i, k)
        BY <3>1, <3>5, <4>2
      <4>. HIDE DEF k
      <4>4. WalkLength(r, i, k + 1) = WalkLength(r, i, k) + EdgeLength(r[k], r[k + 1])
        BY <2>1, <4>2, WalkStep
      <4>5. ~(A[k] >= SampleEvery)
        BY <3>2, <4>2
      <4>6. A[k + 1] = A[k] + EdgeLength(r[k], r[k + 1])
        BY <2>3, <4>2, <4>5 DEF Onward
      <4>. QED
        BY <4>3, <4>4, <4>6
    <3>6. Nat \subseteq G
      <4>. HIDE DEF G
      <4>. QED
        BY <3>4, <3>5, NatInductive
    <3>7. (j - 1) - (i + 1) \in Nat /\ i + 1 + ((j - 1) - (i + 1)) = j - 1 /\ j - 1 \in (i + 1)..(j - 1)
      BY <3>1
    <3>8. (j - 1) - (i + 1) \in G
      <4>. HIDE DEF G
      <4>. QED
        BY <3>6, <3>7
    <3>9. A[j - 1] = WalkLength(r, i, j - 1)
      BY <3>7, <3>8
    <3>10. A[j - 1] \in Nat /\ ~(A[j - 1] >= SampleEvery)
      BY <2>3, <3>2, <3>7
    <3>. QED
      BY <3>9, <3>10, HeatGridAssumption
  <2>. QED
    BY <2>4, <2>5 DEF SamplesSpaced, r, S, n
<1>2. ASSUME ~Staged PROVE SamplesSpaced
  BY <1>2 DEF SamplesSpaced
<1>3. Origin => SamplesSpaced
  BY <1>1, <1>2
<1>. QED
  BY <1>3, OriginKept, PTL

-----------------------------------------------------------------------------
(* What a feature gives to a cell of its window.                           *)
HeatOf(f, box, c) == Sq(Sq(f.similarity)) * Kernel(Build(f.geom), Centre(box, c))

Warming(features, box, c) ==
  {f \in features : f.similarity > 0 /\ Build(f.geom) # NoGeom /\ c \in Window(box, Build(f.geom))}

LEMMA SquareNat ==
  ASSUME NEW n \in Int
  PROVE  Sq(n) \in Nat
BY DEF Sq

LEMMA KernelNat ==
  ASSUME NEW g, NEW p
  PROVE  Kernel(g, p) \in Nat
<1>. DEFINE S == {r \in 1..Cutoff : Near(g, p, r)}
<1>1. 1 \in Int /\ Cutoff \in Int
  BY HeatGridAssumption
<1>2. IsFiniteSet(1..Cutoff)
  BY <1>1, FS_Interval
<1>3. S \in SUBSET (1..Cutoff)
  OBVIOUS
<1>. HIDE DEF S
<1>4. Cardinality(S) \in Nat
  BY <1>2, <1>3, FS_Subset, FS_CardinalityType
<1>5. Sq(Cardinality(S)) \in Nat
  BY <1>4, SquareNat
<1>. QED
  BY <1>5 DEF Kernel, S

LEMMA HeatOfNat ==
  ASSUME NEW f, f.similarity \in Int, NEW box, NEW c
  PROVE  HeatOf(f, box, c) \in Nat
<1>. DEFINE s == Sq(Sq(f.similarity))
            k == Kernel(Build(f.geom), Centre(box, c))
<1>1. s \in Nat
  <2>1. Sq(f.similarity) \in Nat
    BY SquareNat
  <2>. QED
    BY <2>1, SquareNat
<1>2. k \in Nat
  BY KernelNat
<1>. HIDE DEF s, k
<1>3. s * k \in Nat
  BY <1>1, <1>2
<1>. QED
  BY <1>3 DEF HeatOf, s, k

(* A cell has the greatest of the heats given to it.                       *)
LEMMA CellHeat ==
  ASSUME NEW features, IsFiniteSet(features), \A f \in features : f.similarity \in Int,
         NEW box, NEW c \in GridCells(box)
  PROVE  /\ Compute(features, box)[c] \in Nat
         /\ \A f \in Warming(features, box, c) : HeatOf(f, box, c) <= Compute(features, box)[c]
         /\ \/ Compute(features, box)[c] = 0
            \/ \E f \in Warming(features, box, c) : HeatOf(f, box, c) = Compute(features, box)[c]
<1>. DEFINE Field(f) == LET g == Build(f.geom) IN
                        [d \in Window(box, g) |-> Sq(Sq(f.similarity)) * Kernel(g, Centre(box, d))]
            scored == {h \in features : h.similarity > 0 /\ Build(h.geom) # NoGeom}
            fields == {Field(f) : f \in scored}
            at     == {field[c] : field \in {h \in fields : c \in DOMAIN h}}
            warm   == Warming(features, box, c)
            given  == [f \in warm |-> HeatOf(f, box, c)]
            heats  == {given[f] : f \in warm}
            all    == {0} \cup heats
<1>1. Compute(features, box)[c] = Max({0} \cup at)
  BY DEF Compute, GridCells
<1>2. at = heats
  <2>1. ASSUME NEW v \in at PROVE v \in heats
    <3>1. PICK field \in fields : c \in DOMAIN field /\ v = field[c]
      OBVIOUS
    <3>2. PICK f \in scored : field = Field(f)
      OBVIOUS
    <3>3. f \in warm
      BY <3>1, <3>2 DEF Warming
    <3>4. v = HeatOf(f, box, c)
      BY <3>1, <3>2 DEF HeatOf
    <3>. QED
      BY <3>3, <3>4
  <2>2. ASSUME NEW v \in heats PROVE v \in at
    <3>1. PICK f \in warm : v = HeatOf(f, box, c)
      OBVIOUS
    <3>2. f \in scored /\ c \in Window(box, Build(f.geom))
      BY DEF Warming
    <3>3. Field(f) \in fields /\ c \in DOMAIN Field(f)
      BY <3>2
    <3>4. Field(f)[c] = v
      BY <3>1, <3>2 DEF HeatOf
    <3>. QED
      BY <3>3, <3>4
  <2>. HIDE DEF at, heats
  <2>. QED
    BY <2>1, <2>2
<1>3. warm \in SUBSET features
  BY DEF Warming
<1>4. \A f \in warm : given[f] \in Nat /\ given[f] = HeatOf(f, box, c)
  BY <1>3, HeatOfNat
<1>. HIDE DEF given, warm, at, fields
<1>5. IsFiniteSet(heats)
  <2>1. IsFiniteSet(warm)
    BY <1>3, FS_Subset
  <2>. QED
    BY <2>1, ImageFinite
<1>6. IsFiniteSet(all)
  <2>1. IsFiniteSet({0})
    BY FS_Singleton
  <2>. HIDE DEF heats
  <2>. QED
    BY <1>5, <2>1, FS_Union
<1>7. all \in SUBSET Int /\ all # {} /\ 0 \in all /\ \A v \in all : v \in Nat
  BY <1>4
<1>. HIDE DEF all
<1>8. Max(all) \in all /\ \A v \in all : Max(all) >= v
  BY <1>6, <1>7, MaxGreatest
<1>9. Max(all) \in Nat
  BY <1>7, <1>8
<1>10. \A f \in warm : HeatOf(f, box, c) \in all
  BY <1>4 DEF all
<1>11. \A f \in warm : HeatOf(f, box, c) <= Max(all)
  <2>1. ASSUME NEW f \in warm PROVE HeatOf(f, box, c) <= Max(all)
    <3>1. HeatOf(f, box, c) \in all /\ HeatOf(f, box, c) \in Int
      BY <1>7, <1>10
    <3>. QED
      BY <1>8, <1>9, <3>1
  <2>. QED
    BY <2>1
<1>12. Max(all) = 0 \/ \E f \in warm : HeatOf(f, box, c) = Max(all)
  BY <1>4, <1>8 DEF all
<1>13. Compute(features, box)[c] = Max(all)
  BY <1>1, <1>2 DEF all
<1>. QED
  BY <1>9, <1>11, <1>12, <1>13 DEF warm

(* Any grid a behaviour has is finite and has natural heats.               *)
IsGrid(g) == IsFiniteSet(DOMAIN g) /\ \A c \in DOMAIN g : g[c] \in Nat

LEMMA GridOrigin ==
  ASSUME Origin
  PROVE  IsGrid(Grid)
<1>1. CASE ~Staged
  BY <1>1, PeaksAssumption, BareAssumption DEF Origin, Grid, IsGrid
<1>2. CASE Staged
  <2>. DEFINE box == scene.box
              rows == 0..(Height(box) - 1)
              columns == 0..(Width(box) - 1)
  <2>1. Height(box) \in Nat /\ Width(box) \in Nat
    BY <1>2, StagedOrigin, Dimensions
  <2>2. IsFiniteSet(rows) /\ IsFiniteSet(columns)
    <3>1. 0 \in Int /\ Height(box) - 1 \in Int /\ Width(box) - 1 \in Int
      BY <2>1
    <3>. QED
      BY <3>1, FS_Interval
  <2>3. IsFiniteSet(GridCells(box))
    <3>. HIDE DEF rows, columns
    <3>1. IsFiniteSet(rows \X columns)
      BY <2>2, FS_Product
    <3>. QED
      BY <3>1 DEF GridCells, rows, columns
  <2>4. Grid = Compute(scene.features, box) /\ DOMAIN Grid = GridCells(box)
    BY <1>2, StagedGrid
  <2>5. IsFiniteSet(scene.features) /\ \A f \in scene.features : f.similarity \in Int
    BY <1>2, StagedOrigin
  <2>. HIDE DEF box
  <2>6. \A c \in GridCells(box) : Compute(scene.features, box)[c] \in Nat
    BY <2>5, CellHeat
  <2>. QED
    BY <2>3, <2>4, <2>6 DEF IsGrid
<1>. QED
  BY <1>1, <1>2

-----------------------------------------------------------------------------
(* The value a sort puts at an index: no more than that many are less, and *)
(* more are no greater.                                                    *)
LEMMA SortedValue ==
  ASSUME NEW g, NEW S, IsFiniteSet(S), \A c \in S : g[c] \in Int,
         NEW i \in Nat, i < Cardinality(S)
  PROVE  LET v == SortedAt(g, S, i)
         IN  /\ v \in {g[c] : c \in S}
             /\ Cardinality({c \in S : g[c] < v}) <= i
             /\ i < Cardinality({c \in S : g[c] <= v})
<1>. DEFINE values  == {g[c] : c \in S}
            below(v) == {c \in S : g[c] < v}
            upto(v)  == {c \in S : g[c] <= v}
            enough  == {v \in values : i < Cardinality(upto(v))}
<1>1. \A v : below(v) \in SUBSET S /\ upto(v) \in SUBSET S
  OBVIOUS
<1>2. ASSUME NEW T \in SUBSET S PROVE IsFiniteSet(T) /\ Cardinality(T) \in Nat
  BY FS_Subset, FS_CardinalityType
<1>3. IsFiniteSet(values)
  BY ImageFinite
<1>4. values \subseteq Int /\ \A c \in S : g[c] \in values
  OBVIOUS
<1>5. S # {}
  <2>1. Cardinality({}) = 0
    BY FS_EmptySet
  <2>. QED
    BY <2>1
<1>6. enough # {} /\ IsFiniteSet(enough) /\ enough \in SUBSET Int
  <2>1. values # {} /\ values \in SUBSET Int
    BY <1>4, <1>5
  <2>2. enough \in SUBSET values
    OBVIOUS
  <2>. HIDE DEF values
  <2>3. Max(values) \in values /\ \A v \in values : Max(values) >= v
    BY <1>3, <2>1, MaxGreatest
  <2>4. \A c \in S : g[c] <= Max(values)
    BY <1>4, <2>1, <2>3
  <2>5. upto(Max(values)) = S
    BY <2>4
  <2>6. Max(values) \in enough
    BY <2>3, <2>5
  <2>. HIDE DEF enough
  <2>. QED
    BY <1>3, <2>1, <2>2, <2>6, FS_Subset
<1>. DEFINE v == Min(enough)
<1>7. v \in enough /\ \A w \in enough : v <= w
  <2>. HIDE DEF enough
  <2>. QED
    BY <1>6, MinLeast
<1>8. v \in values /\ i < Cardinality(upto(v)) /\ v \in Int
  BY <1>4, <1>7
<1>9. Cardinality(below(v)) <= i
  <2>1. CASE below(v) = {}
    <3>1. Cardinality(below(v)) = 0
      BY <2>1, FS_EmptySet
    <3>. QED
      BY <3>1
  <2>2. CASE below(v) # {}
    <3>. DEFINE less == {u \in values : u < v}
    <3>1. less # {} /\ less \in SUBSET Int /\ less \in SUBSET values
      BY <1>4, <2>2
    <3>. HIDE DEF values, v, less
    <3>2. IsFiniteSet(less)
      BY <1>3, <3>1, FS_Subset
    <3>3. Max(less) \in less /\ \A u \in less : Max(less) >= u
      BY <3>1, <3>2, MaxGreatest
    <3>. DEFINE w == Max(less)
    <3>4. w \in values /\ w < v /\ w \in Int
      BY <3>1, <3>3 DEF less
    <3>5. \A c \in S : g[c] < v <=> g[c] <= w
      BY <1>4, <1>8, <3>3, <3>4 DEF less
    <3>. HIDE DEF w
    <3>6. below(v) = upto(w)
      BY <3>5
    <3>7. w \notin enough
      BY <1>7, <1>8, <3>4
    <3>8. ~(i < Cardinality(upto(w)))
      BY <3>4, <3>7
    <3>9. Cardinality(upto(w)) \in Nat
      BY <1>1, <1>2
    <3>. HIDE DEF below, upto
    <3>. QED
      BY <3>6, <3>8, <3>9
  <2>. QED
    BY <2>1, <2>2
<1>10. \E u \in values : Cardinality(below(u)) <= i /\ i < Cardinality(upto(u))
  BY <1>8, <1>9
<1>. QED
  BY <1>10 DEF SortedAt

(* The ceiling of a grid with heat: the heat of a cell, with no more than  *)
(* one hot cell in twenty above it.                                        *)
LEMMA CeilingBounds ==
  ASSUME NEW g, IsGrid(g), Nonzero(g) # {}
  PROVE  /\ Ceiling(g) \in Nat \ {0}
         /\ \E c \in Nonzero(g) : g[c] = Ceiling(g)
         /\ 20 * Cardinality({c \in Nonzero(g) : g[c] > Ceiling(g)}) <= Cardinality(Nonzero(g))
<1>. DEFINE N == Nonzero(g)
            n == Cardinality(N)
            i == (95 * n) \div 100
            top == Ceiling(g)
            low == {c \in N : g[c] <= top}
            high == {c \in N : g[c] > top}
<1>1. N \in SUBSET (DOMAIN g) /\ IsFiniteSet(DOMAIN g) /\ \A c \in N : g[c] \in Nat \ {0}
  BY DEF Nonzero, IsGrid
<1>2. IsFiniteSet(N)
  <2>. HIDE DEF N
  <2>. QED
    BY <1>1, FS_Subset
<1>3. n \in Nat \ {0}
  BY <1>2, FS_CardinalityType, FS_EmptySet
<1>4. top = SortedAt(g, N, i)
  BY DEF Ceiling
<1>. HIDE DEF n, top
<1>5. i \in Nat /\ i < n /\ 100 * i <= 95 * n /\ 95 * n < 100 * i + 100
  BY <1>3
<1>. HIDE DEF i, N
<1>6. top \in {g[c] : c \in N} /\ i < Cardinality({c \in N : g[c] <= top})
  <2>1. i \in Nat /\ i < Cardinality(N)
    BY <1>5 DEF n
  <2>2. \A c \in N : g[c] \in Int
    BY <1>1
  <2>3. /\ SortedAt(g, N, i) \in {g[c] : c \in N}
        /\ i < Cardinality({c \in N : g[c] <= SortedAt(g, N, i)})
    BY <1>2, <2>1, <2>2, SortedValue
  <2>. QED
    BY <1>4, <2>3
<1>7. PICK c \in N : g[c] = top
  BY <1>6
<1>8. top \in Nat \ {0}
  BY <1>1, <1>7
<1>9. high = N \ low /\ N \cap low = low /\ low \in SUBSET N
  BY <1>1, <1>8
<1>10. Cardinality(high) = n - Cardinality(low)
  <2>. HIDE DEF low, high
  <2>. QED
    BY <1>2, <1>9, FS_Difference DEF n
<1>11. Cardinality(low) \in Nat
  <2>. HIDE DEF low
  <2>. QED
    BY <1>2, <1>9, FS_Subset, FS_CardinalityType
<1>12. i < Cardinality(low)
  BY <1>6
<1>. HIDE DEF low, high
<1>13. 20 * Cardinality(high) <= n
  BY <1>3, <1>5, <1>10, <1>11, <1>12
<1>. QED
  BY <1>7, <1>8, <1>13 DEF N, n, top, high

(* A heat of at most top, as a byte.                                       *)
ByteOf(v, top) == (255 * Min({v, top})) \div top

LEMMA ByteScale ==
  ASSUME NEW v \in Nat, NEW top \in Nat \ {0}
  PROVE  /\ ByteOf(v, top) \in 0..255
         /\ v >= top <=> ByteOf(v, top) = 255
         /\ ByteOf(v, top) = 0 => 255 * v < top
         /\ top * ByteOf(v, top) <= 255 * Min({v, top})
         /\ 255 * Min({v, top}) < top * ByteOf(v, top) + top
<1>. DEFINE m == Min({v, top})
            b == (255 * m) \div top
<1>1. m = IF v <= top THEN v ELSE top
  BY MinPair
<1>. HIDE DEF m
<1>2. m \in Nat /\ m <= top /\ m <= v /\ (v >= top <=> m = top) /\ (m < top => m = v)
  BY <1>1
<1>3. b \in Int /\ top * b <= 255 * m /\ 255 * m < top * b + top
  BY <1>2, DivBounds
<1>. HIDE DEF b
<1>4. b >= 0
  <2>1. ASSUME b + 1 <= 0 PROVE FALSE
    <3>1. top * (b + 1) <= 0
      BY <1>3, <2>1
    <3>. QED
      BY <1>2, <1>3, <3>1
  <2>. QED
    BY <1>3, <2>1
<1>5. b <= 255
  <2>1. ASSUME 256 <= b PROVE FALSE
    <3>1. top * 256 <= top * b
      BY <1>3, <2>1
    <3>. QED
      BY <1>2, <1>3, <3>1
  <2>. QED
    BY <1>3, <2>1
<1>6. m = top => b = 255
  <2>1. ASSUME m = top PROVE b = 255
    <3>1. 255 * m \in Int /\ top * 255 <= 255 * m /\ 255 * m < top * 255 + top
      BY <1>2, <2>1
    <3>. QED
      BY <3>1, DivUnique DEF b
  <2>. QED
    BY <2>1
<1>7. b = 255 => m = top
  BY <1>2, <1>3
<1>8. b = 0 => 255 * v < top
  BY <1>2, <1>3
<1>9. ByteOf(v, top) = b
  BY DEF ByteOf, b, m
<1>. QED
  BY <1>2, <1>3, <1>4, <1>5, <1>6, <1>7, <1>8, <1>9 DEF m

LEMMA ByteMonotonic ==
  ASSUME NEW v \in Nat, NEW w \in Nat, v <= w, NEW top \in Nat \ {0}
  PROVE  ByteOf(v, top) <= ByteOf(w, top)
<1>. DEFINE k == Min({v, top})
            m == Min({w, top})
<1>1. k = (IF v <= top THEN v ELSE top) /\ m = (IF w <= top THEN w ELSE top)
  BY MinPair
<1>. HIDE DEF k, m
<1>2. 255 * k \in Int /\ 255 * m \in Int /\ 255 * k <= 255 * m
  BY <1>1
<1>3. (255 * k) \div top <= (255 * m) \div top
  BY <1>2, DivMonotonic
<1>. QED
  BY <1>3 DEF ByteOf, k, m

LEMMA EncodedCell ==
  ASSUME NEW g, NEW c \in DOMAIN g
  PROVE  Encode(g)[c] = IF Nonzero(g) = {} THEN 0 ELSE ByteOf(g[c], Ceiling(g))
BY DEF Encode, ByteOf

(* For every grid, bare or computed, the bytes sent to Valhalla keep its   *)
(* order, reach 255, vanish only below a 255th of the greatest heat, and   *)
(* flatten no more than one hot cell in twenty (heatmap.go:142-171).       *)
THEOREM EncodingKeepsOrder == AllSpec => []EncodingFaithful
<1>1. ASSUME Origin PROVE EncodingFaithful
  <2>. DEFINE g == Grid
              N == Nonzero(g)
              top == Ceiling(g)
              bytes == Encode(g)
              flat == {c \in N : \E d \in DOMAIN g : bytes[d] = 255 /\ g[d] < g[c]}
              heats == {g[d] : d \in DOMAIN g}
  <2>1. IsGrid(g)
    BY <1>1, GridOrigin
  <2>. HIDE DEF g
  <2>2. IsFiniteSet(DOMAIN g) /\ \A c \in DOMAIN g : g[c] \in Nat
    BY <2>1 DEF IsGrid
  <2>3. N = {c \in DOMAIN g : g[c] > 0}
    BY DEF Nonzero
  <2>4. CASE N = {}
    <3>1. \A c \in DOMAIN g : bytes[c] = 0
      BY <2>4, EncodedCell
    <3>2. flat = {}
      BY <2>4
    <3>3. 20 * Cardinality(flat) <= Cardinality(N)
      BY <2>4, <3>2, FS_EmptySet
    <3>4. \A c, d \in DOMAIN g : bytes[c] \in 0..255 /\ (g[c] <= g[d] => bytes[c] <= bytes[d])
      BY <3>1
    <3>5. \A c \in N : FALSE
      BY <2>4
    <3>. HIDE DEF bytes, N
    <3>. QED
      BY <3>3, <3>4, <3>5 DEF EncodingFaithful, bytes, N, g
  <2>5. CASE N # {}
    <3>1. top \in Nat \ {0} /\ (\E c \in N : g[c] = top)
          /\ 20 * Cardinality({c \in N : g[c] > top}) <= Cardinality(N)
      BY <2>1, <2>5, CeilingBounds
    <3>2. \A c \in DOMAIN g : bytes[c] = ByteOf(g[c], top)
      BY <2>5, EncodedCell
    <3>. HIDE DEF bytes, top, N
    <3>3. ASSUME NEW c \in DOMAIN g
          PROVE  bytes[c] \in 0..255 /\ (g[c] >= top <=> bytes[c] = 255) /\ (bytes[c] = 0 => 255 * g[c] < top)
      <4>. DEFINE v == g[c]
      <4>1. v \in Nat /\ bytes[c] = ByteOf(v, top)
        BY <2>2, <3>2
      <4>. HIDE DEF v
      <4>2. /\ ByteOf(v, top) \in 0..255 /\ (v >= top <=> ByteOf(v, top) = 255)
            /\ ByteOf(v, top) = 0 => 255 * v < top
        <5>1. top \in Nat \ {0} /\ v \in Nat
          BY <3>1, <4>1
        <5>. QED
          BY ONLY <5>1, ByteScale
      <4>. QED
        BY <4>1, <4>2 DEF v
    <3>4. ASSUME NEW c \in DOMAIN g, NEW d \in DOMAIN g, g[c] <= g[d] PROVE bytes[c] <= bytes[d]
      BY <2>2, <3>1, <3>2, <3>4, ByteMonotonic
    <3>5. ASSUME NEW c \in N, \A d \in DOMAIN g : g[d] <= g[c] PROVE bytes[c] = 255
      BY <2>2, <2>3, <3>1, <3>3, <3>5
    <3>6. ASSUME NEW c \in N, bytes[c] = 0 PROVE 255 * g[c] < Max({g[d] : d \in DOMAIN g})
      <4>1. c \in DOMAIN g /\ 255 * g[c] < top
        BY <2>3, <3>3, <3>6
      <4>2. PICK d \in DOMAIN g : g[d] = top
        BY <2>3, <3>1
      <4>3. DOMAIN g # {} /\ \A x \in DOMAIN g : g[x] \in Int
        BY <2>2, <4>1
      <4>4. Max(heats) \in Int /\ \A x \in DOMAIN g : Max(heats) >= g[x]
        BY <2>2, <4>3, ImageMax
      <4>5. Max(heats) >= top
        BY <4>2, <4>4
      <4>6. 255 * g[c] \in Int
        BY <2>2, <4>1
      <4>. QED
        BY <3>1, <4>1, <4>4, <4>5, <4>6
    <3>7. flat = {c \in N : g[c] > top}
      <4>1. ASSUME NEW c \in flat PROVE g[c] > top
        <5>1. PICK d \in DOMAIN g : bytes[d] = 255 /\ g[d] < g[c]
          OBVIOUS
        <5>2. g[d] >= top /\ c \in DOMAIN g
          BY <2>3, <3>3, <5>1
        <5>. QED
          BY <2>2, <3>1, <5>1, <5>2
      <4>2. ASSUME NEW c \in N, g[c] > top PROVE c \in flat
        <5>1. PICK d \in N : g[d] = top
          BY <3>1
        <5>2. d \in DOMAIN g /\ bytes[d] = 255
          BY <2>2, <2>3, <3>1, <3>3, <5>1
        <5>. QED
          BY <4>2, <5>1, <5>2
      <4>. QED
        BY <4>1, <4>2
    <3>8. 20 * Cardinality(flat) <= Cardinality(N)
      BY <3>1, <3>7
    <3>9. \A c, d \in DOMAIN g : bytes[c] \in 0..255 /\ (g[c] <= g[d] => bytes[c] <= bytes[d])
      BY <3>3, <3>4
    <3>10. \A c \in N : /\ (\A d \in DOMAIN g : g[d] <= g[c]) => bytes[c] = 255
                        /\ bytes[c] = 0 => 255 * g[c] < Max({g[d] : d \in DOMAIN g})
      BY <3>5, <3>6
    <3>. QED
      BY <3>8, <3>9, <3>10 DEF EncodingFaithful, bytes, N, g
  <2>. QED
    BY <2>4, <2>5
<1>2. Origin => EncodingFaithful
  BY <1>1
<1>. QED
  BY <1>2, OriginKept, PTL

-----------------------------------------------------------------------------
LEMMA GridCellsCounted ==
  ASSUME NEW box, IsBox(box)
  PROVE  Cardinality(GridCells(box)) = Width(box) * Height(box)
<1>. DEFINE rows == 0..(Height(box) - 1)
            columns == 0..(Width(box) - 1)
<1>1. Height(box) \in Nat \ {0} /\ Width(box) \in Nat \ {0}
  BY Dimensions
<1>2. 0 \in Int /\ Height(box) - 1 \in Int /\ Width(box) - 1 \in Int
  BY <1>1
<1>3. IsFiniteSet(rows) /\ Cardinality(rows) = Height(box)
  BY <1>1, <1>2, FS_Interval
<1>4. IsFiniteSet(columns) /\ Cardinality(columns) = Width(box)
  BY <1>1, <1>2, FS_Interval
<1>. HIDE DEF rows, columns
<1>5. Cardinality(rows \X columns) = Height(box) * Width(box)
  BY <1>3, <1>4, FS_Product
<1>6. Height(box) * Width(box) = Width(box) * Height(box)
  BY <1>1
<1>. QED
  BY <1>5, <1>6 DEF GridCells, rows, columns

(* n vertices, with bytes that sum to warmth and heats capped at top that  *)
(* sum to sum: the cost by the ones follows the score by the others.       *)
LEMMA CostArithmetic ==
  ASSUME NEW n \in Nat \ {0}, NEW top \in Nat \ {0}, NEW warmth \in Int, NEW sum \in Int,
         top * warmth <= 255 * sum, 255 * sum <= top * warmth + top * n
  PROVE  LET full == 255 * n
             num  == IF 10 * (full - warmth) < full THEN full ELSE 10 * (full - warmth)
             den  == 10 * full
             of   == top * n
         IN  /\ 10 * num >= den
             /\ num * of >= den * (of - sum)
             /\ 10 * num = den \/ 255 * (num * of - den * (of - sum)) <= den * of
<1>. DEFINE full == 255 * n
            num  == IF 10 * (full - warmth) < full THEN full ELSE 10 * (full - warmth)
            den  == 10 * full
            of   == top * n
            gap  == of - sum
            cool == full - warmth
<1>1. full \in Nat \ {0} /\ of \in Nat \ {0} /\ gap \in Int /\ cool \in Int /\ top * warmth \in Int
  OBVIOUS
<1>2. top * cool = 255 * of - top * warmth
  OBVIOUS
<1>3. 255 * gap <= top * cool /\ top * cool <= 255 * gap + of
  BY <1>1, <1>2
<1>4. den \in Nat /\ top * cool \in Int /\ n * (top * cool) \in Int
  OBVIOUS
<1>5. CASE 10 * cool < full
  <2>1. num = full
    BY <1>5
  <2>2. top * (10 * cool) <= top * full
    BY <1>1, <1>5
  <2>3. top * (10 * cool) = 10 * (top * cool) /\ top * full = 255 * of
    BY <1>1
  <2>4. 10 * gap <= of
    BY <1>1, <1>3, <1>4, <2>2, <2>3
  <2>5. full * (10 * gap) <= full * of
    BY <1>1, <2>4
  <2>6. full * (10 * gap) = den * gap
    BY <1>1
  <2>. HIDE DEF full, of, gap, cool
  <2>. QED
    BY <1>1, <2>1, <2>5, <2>6 DEF gap
<1>6. CASE ~(10 * cool < full)
  <2>1. num = 10 * cool
    BY <1>6
  <2>2. n * (255 * gap) <= n * (top * cool) /\ n * (top * cool) <= n * (255 * gap + of)
    BY <1>1, <1>3, <1>4
  <2>3. n * (255 * gap) = full * gap /\ n * (top * cool) = cool * of
    BY <1>1
  <2>4. full * gap <= cool * of
    BY <2>2, <2>3
  <2>5. (10 * cool) * of >= den * gap
    <3>1. full * gap \in Int /\ cool * of \in Int
      BY <1>1
    <3>2. (10 * cool) * of = 10 * (cool * of) /\ den * gap = 10 * (full * gap)
      BY <1>1
    <3>. QED
      BY <2>4, <3>1, <3>2
  <2>6. 255 * ((10 * cool) * of - den * gap) <= den * of
    <3>1. n * of \in Int /\ full * gap \in Int /\ cool * of \in Int
      BY <1>1
    <3>2. n * (255 * gap + of) = full * gap + n * of
      BY <1>1
    <3>3. cool * of - full * gap <= n * of
      BY <2>2, <2>3, <3>1, <3>2
    <3>4. (10 * cool) * of - den * gap = 10 * (cool * of - full * gap) /\ den * of = 2550 * (n * of)
      BY <1>1
    <3>. QED
      BY <3>1, <3>3, <3>4
  <2>7. 10 * (10 * cool) >= den
    BY <1>1, <1>6
  <2>. HIDE DEF full, of, gap, cool, den
  <2>. QED
    BY <2>1, <2>5, <2>6, <2>7 DEF gap
<1>. QED
  BY <1>5, <1>6

(* For every scene whose route is sampled at each vertex: the factor by    *)
(* which Valhalla makes it cheaper is one minus its score, up to a byte,   *)
(* or the floor (scenic_pedestrian.patch:222-241, heatmap.go:508-533).     *)
THEOREM CostIsScore == AllSpec => []CostFollowsScore
<1>1. ASSUME Origin, Staged, scene.route # <<>>, Sampled(scene.route) = DOMAIN scene.route,
             \A i \in DOMAIN scene.route :
               /\ InBox(scene.box, scene.route[i])
               /\ CellRead(scene.box, scene.route[i])
                    = <<YOf(scene.box, scene.route[i][2]), XOf(scene.box, scene.route[i][1])>>
      PROVE  LET score  == ScoreRoute(Grid, scene.box, scene.route)
                 factor == EdgeFactor(Encode(Grid), scene.box, scene.route)
             IN  /\ 10 * factor.num >= factor.den
                 /\ factor.num * score.of >= factor.den * (score.of - score.sum)
                 /\ \/ 10 * factor.num = factor.den
                    \/ 255 * (factor.num * score.of - factor.den * (score.of - score.sum)) <= factor.den * score.of
  <2>. DEFINE g == Grid
              r == scene.route
              box == scene.box
              n == Len(r)
              D == DOMAIN r
              top == Ceiling(g)
              Cl(i) == <<YOf(box, r[i][2]), XOf(box, r[i][1])>>
              bytes == [i \in D |-> SampleHeatmap(Encode(g), box, r[i])]
              capped == [i \in D |-> Min({g[Cl(i)], top})]
              heat_ == SumFunctionOnSet(bytes, D)
              sum_ == SumFunctionOnSet(capped, D)
              score == ScoreRoute(g, box, r)
              factor == EdgeFactor(Encode(g), box, r)
  <2>1. IsGrid(g) /\ IsBox(box) /\ r \in Seq(LonLat) /\ DOMAIN g = GridCells(box)
    BY <1>1, GridOrigin, StagedOrigin, StagedGrid
  <2>2. D = 1..n /\ n \in Nat \ {0}
    BY <1>1, <2>1
  <2>3. IsFiniteSet(D) /\ Cardinality(D) = n
    <3>1. 1 \in Int /\ n \in Int
      BY <2>2
    <3>. HIDE DEF n, D
    <3>. QED
      BY <2>2, <3>1, FS_Interval
  <2>4. Loaded(Width(box), Height(box), Encode(g))
    <3>1. DOMAIN Encode(g) = GridCells(box)
      BY <2>1 DEF Encode
    <3>. HIDE DEF g, box
    <3>. QED
      BY <2>1, <3>1, GridCellsCounted DEF Loaded
  <2>5. factor = LET full == 255 * n IN
                 [num |-> IF 10 * (full - heat_) < full THEN full ELSE 10 * (full - heat_),
                  den |-> 10 * full]
    BY <1>1, <2>4 DEF EdgeFactor
  <2>6. ASSUME NEW i \in D PROVE Cl(i) \in DOMAIN g /\ bytes[i] = Encode(g)[Cl(i)]
    <3>1. InBox(box, r[i]) /\ CellRead(box, r[i]) = Cl(i)
      BY <1>1
    <3>2. bytes[i] = Encode(g)[Cl(i)]
      BY <3>1 DEF SampleHeatmap
    <3>3. Cl(i) \in GridCells(box)
      <4>. DEFINE x == Trunc(r[i][1] - box[1], Cell)
                  y == Trunc(box[4] - r[i][2], Cell)
      <4>1. r[i][1] \in Int /\ r[i][2] \in Int
        BY <2>1 DEF LonLat
      <4>2. r[i][1] - box[1] \in Int /\ box[4] - r[i][2] \in Int /\ -(r[i][1] - box[1]) \in Int /\ -(box[4] - r[i][2]) \in Int
        <5>1. box[1] \in Int /\ box[4] \in Int
          BY <2>1, BoxSides
        <5>. HIDE DEF box, r
        <5>. QED
          BY <4>1, <5>1
      <4>3. x \in Int /\ y \in Int
        BY <4>2, HeatGridAssumption, DivBounds DEF Trunc
      <4>4. Width(box) \in Nat \ {0} /\ Height(box) \in Nat \ {0}
        BY <2>1, Dimensions
      <4>5. XOf(box, r[i][1]) = Clamp(x, 0, Width(box) - 1) /\ YOf(box, r[i][2]) = Clamp(y, 0, Height(box) - 1)
        BY DEF XOf, YOf
      <4>. HIDE DEF x, y
      <4>6. XOf(box, r[i][1]) \in 0..(Width(box) - 1) /\ YOf(box, r[i][2]) \in 0..(Height(box) - 1)
        BY <4>3, <4>4, <4>5 DEF Clamp
      <4>. QED
        BY <4>6 DEF GridCells
    <3>. QED
      BY <2>1, <3>2, <3>3
  <2>7. \A i \in D : g[Cl(i)] \in Nat
    BY <2>1, <2>6 DEF IsGrid
  <2>8. CASE Nonzero(g) = {}
    <3>1. \A i \in D : bytes[i] = 0
      BY <2>6, <2>8, EncodedCell
    <3>2. heat_ = 0
      <4>. HIDE DEF bytes, D
      <4>. QED
        BY <2>3, <3>1, SumZero
    <3>3. score = [sum |-> 0, of |-> 1]
      BY <2>8 DEF ScoreRoute
    <3>4. factor = [num |-> 10 * (255 * n), den |-> 10 * (255 * n)]
      <4>. HIDE DEF heat_, factor, n
      <4>. QED
        BY <2>2, <2>5, <3>2
    <3>. HIDE DEF n, score, factor
    <3>5. /\ 10 * factor.num >= factor.den
          /\ factor.num * score.of >= factor.den * (score.of - score.sum)
          /\ 255 * (factor.num * score.of - factor.den * (score.of - score.sum)) <= factor.den * score.of
      BY <2>2, <3>3, <3>4
    <3>. QED
      BY <3>5 DEF score, factor
  <2>9. CASE Nonzero(g) # {}
    <3>1. top \in Nat \ {0}
      BY <2>1, <2>9, CeilingBounds
    <3>2. score = [sum |-> sum_, of |-> top * n]
      <4>1. score = [sum |-> SumFunctionOnSet([i \in Sampled(r) |-> Min({g[Cl(i)], top})], Sampled(r)),
                     of  |-> top * Cardinality(Sampled(r))]
        BY <1>1, <2>9 DEF ScoreRoute
      <4>. QED
        BY <1>1, <2>3, <4>1
    <3>3. ASSUME NEW i \in D
          PROVE  /\ bytes[i] \in Int /\ capped[i] \in Int
                 /\ top * bytes[i] <= 255 * capped[i] /\ 255 * capped[i] <= top * bytes[i] + top
      <4>. DEFINE v == g[Cl(i)]
      <4>1. bytes[i] = ByteOf(v, top) /\ capped[i] = Min({v, top})
        BY <2>6, <2>9, EncodedCell
      <4>2. v \in Nat
        BY <2>7
      <4>. HIDE DEF v, top, bytes, capped
      <4>3. /\ ByteOf(v, top) \in 0..255
            /\ top * ByteOf(v, top) <= 255 * Min({v, top})
            /\ 255 * Min({v, top}) < top * ByteOf(v, top) + top
        BY ONLY <3>1, <4>2, ByteScale
      <4>4. Min({v, top}) \in Int
        BY <3>1, <4>2, MinPair
      <4>. QED
        BY <3>1, <4>1, <4>3, <4>4
    <3>. HIDE DEF bytes, capped, D, n, top
    <3>4. IntsOn(bytes, D) /\ IntsOn(capped, D)
      BY <3>3 DEF IntsOn
    <3>5. heat_ \in Int /\ sum_ \in Int
      BY <2>3, <3>4, SumType
    <3>6. top * heat_ <= 255 * sum_
      <4>1. \A i \in D : top * bytes[i] <= 255 * capped[i] + 0
        BY <3>1, <3>3
      <4>2. top \in Int /\ 255 \in Int /\ 0 \in Int
        BY <3>1
      <4>3. top * heat_ <= 255 * sum_ + 0 * Cardinality(D)
        BY <2>3, <3>4, <4>1, <4>2, SumBounded
      <4>. HIDE DEF heat_, sum_
      <4>. QED
        BY <2>2, <2>3, <3>5, <4>3
    <3>7. 255 * sum_ <= top * heat_ + top * n
      <4>2. top \in Int /\ 255 \in Int
        BY <3>1
      <4>1. \A i \in D : 255 * capped[i] <= top * bytes[i] + top
        BY <3>3
      <4>. QED
        BY <2>3, <3>4, <4>1, <4>2, SumBounded
    <3>. HIDE DEF heat_, sum_, score, factor
    <3>8. LET full == 255 * n
              num  == IF 10 * (full - heat_) < full THEN full ELSE 10 * (full - heat_)
              den  == 10 * full
              of   == top * n
          IN  /\ 10 * num >= den
              /\ num * of >= den * (of - sum_)
              /\ 10 * num = den \/ 255 * (num * of - den * (of - sum_)) <= den * of
      BY <2>2, <3>1, <3>5, <3>6, <3>7, CostArithmetic
    <3>9. /\ 10 * factor.num >= factor.den
          /\ factor.num * score.of >= factor.den * (score.of - score.sum)
          /\ \/ 10 * factor.num = factor.den
             \/ 255 * (factor.num * score.of - factor.den * (score.of - score.sum)) <= factor.den * score.of
      BY <2>5, <3>2, <3>8
    <3>. QED
      BY <3>9 DEF score, factor
  <2>. QED
    BY <2>8, <2>9
<1>2. Origin => CostFollowsScore
  BY <1>1 DEF CostFollowsScore
<1>. QED
  BY <1>2, OriginKept, PTL

-----------------------------------------------------------------------------
(* p is no further than r outside of a box.                                *)
Within(p, box, r) ==
  /\ box[1] - r <= p[1] /\ p[1] <= box[3] + r
  /\ box[2] - r <= p[2] /\ p[2] <= box[4] + r

Corner4(box) == box[1] \in Int /\ box[2] \in Int /\ box[3] \in Int /\ box[4] \in Int

LEMMA WithinWider ==
  ASSUME NEW p \in LonLat, NEW box, Corner4(box), NEW r \in Nat, Within(p, box, 0)
  PROVE  Within(p, box, r)
<1>1. p[1] \in Int /\ p[2] \in Int
  BY DEF LonLat
<1>. QED
  BY <1>1 DEF Within, Corner4

LEMMA SquareLess ==
  ASSUME NEW x \in Int, NEW r \in Nat, x * x < r * r
  PROVE  -r < x /\ x < r
<1>1. ASSUME r <= x PROVE FALSE
  <2>1. r * r <= r * x /\ r * x <= x * x
    BY <1>1
  <2>2. r * r \in Int /\ r * x \in Int /\ x * x \in Int
    OBVIOUS
  <2>. QED
    BY <2>1, <2>2
<1>2. ASSUME x <= -r PROVE FALSE
  <2>. DEFINE y == -x
  <2>1. y \in Int /\ r <= y /\ y * y = x * x
    BY <1>2
  <2>. HIDE DEF y
  <2>2. r * r <= r * y /\ r * y <= y * y
    BY <2>1
  <2>3. r * r \in Int /\ r * y \in Int /\ y * y \in Int
    BY <2>1
  <2>. QED
    BY <2>1, <2>2, <2>3
<1>. QED
  BY <1>1, <1>2

(* The foot of the perpendicular lies on the segment, and the place is     *)
(* less than r off it: along one axis, u is no further than r from where   *)
(* the segment goes, which is v.                                           *)
LEMMA FootBound ==
  ASSUME NEW u \in Int, NEW v \in Int, NEW w \in Int, NEW along \in Int, NEW aside \in Int,
         NEW len \in Int, NEW r \in Nat, len * u = along * v + aside * w,
         0 < along, along < len, aside * aside < (r * r) * len, w * w <= len,
         NEW lo \in Int, NEW hi \in Int, lo <= 0, lo <= v, 0 <= hi, v <= hi
  PROVE  lo - r <= u /\ u <= hi + r
<1>. DEFINE x == aside * w
            y == r * len
<1>1. x \in Int /\ y \in Nat
  <2>1. len \in Nat
    OBVIOUS
  <2>. QED
    BY <2>1
<1>2. x * x < y * y
  <2>. DEFINE s == aside * aside
              t == r * r
              q == w * w
  <2>1. s \in Nat /\ t \in Nat /\ q \in Nat /\ len \in Nat \ {0}
    OBVIOUS
  <2>2. x * x = s * q /\ y * y = (t * len) * len
    OBVIOUS
  <2>. HIDE DEF s, t, q, x, y
  <2>3. s < t * len /\ q <= len
    BY DEF s, t, q
  <2>4. s * q <= s * len
    BY <2>1, <2>3
  <2>5. s * len < (t * len) * len
    BY <2>1, <2>3
  <2>6. s * q \in Int /\ s * len \in Int /\ (t * len) * len \in Int
    BY <2>1
  <2>. QED
    BY <2>2, <2>4, <2>5, <2>6
<1>. HIDE DEF x, y
<1>3. -y < x /\ x < y
  BY <1>1, <1>2, SquareLess
<1>4. along * v <= len * hi /\ len * lo <= along * v
  <2>1. along * v <= along * hi /\ along * hi <= len * hi
    OBVIOUS
  <2>2. along * lo <= along * v /\ len * lo <= along * lo
    OBVIOUS
  <2>3. along * v \in Int /\ along * hi \in Int /\ len * hi \in Int /\ len * lo \in Int /\ along * lo \in Int
    OBVIOUS
  <2>. QED
    BY <2>1, <2>2, <2>3
<1>5. along * v \in Int /\ len * hi \in Int /\ len * lo \in Int /\ len * u \in Int
  OBVIOUS
<1>6. len * u = along * v + x /\ y = len * r
  BY DEF x, y
<1>7. len * u < len * hi + y /\ len * lo - y < len * u
  BY <1>1, <1>3, <1>4, <1>5, <1>6
<1>8. len * u < len * (hi + r) /\ len * (lo - r) < len * u
  <2>1. len * (hi + r) = len * hi + len * r /\ len * (lo - r) = len * lo - len * r
    OBVIOUS
  <2>. QED
    BY <1>6, <1>7, <2>1
<1>9. ASSUME hi + r < u PROVE FALSE
  <2>1. len * (hi + r) <= len * u /\ len * (hi + r) \in Int
    BY <1>9
  <2>. QED
    BY <1>5, <1>8, <2>1
<1>10. ASSUME u < lo - r PROVE FALSE
  <2>1. len * u <= len * (lo - r) /\ len * (lo - r) \in Int
    BY <1>10
  <2>. QED
    BY <1>5, <1>8, <2>1
<1>. QED
  BY <1>9, <1>10

LEMMA PointWithin ==
  ASSUME NEW p \in LonLat, NEW q \in LonLat, NEW r \in Nat, SqDist(p, q) < Sq(r),
         NEW box, Corner4(box), Within(q, box, 0)
  PROVE  Within(p, box, r)
<1>. DEFINE x == p[1] - q[1]
            y == p[2] - q[2]
<1>1. p[1] \in Int /\ p[2] \in Int /\ q[1] \in Int /\ q[2] \in Int /\ x \in Int /\ y \in Int
  BY DEF LonLat
<1>2. x * x + y * y < r * r
  BY DEF SqDist, Sq
<1>3. -r < x /\ x < r /\ -r < y /\ y < r
  <2>. HIDE DEF x, y
  <2>1. x * x \in Nat /\ y * y \in Nat /\ r * r \in Nat
    BY <1>1
  <2>2. x * x < r * r /\ y * y < r * r
    BY <1>2, <2>1
  <2>. QED
    BY <1>1, <2>2, SquareLess
<1>. QED
  BY <1>1, <1>3 DEF Within, Corner4

LEMMA SegmentWithin ==
  ASSUME NEW p \in LonLat, NEW a \in LonLat, NEW b \in LonLat, NEW r \in Nat, SegNear(p, a, b, r),
         NEW box, Corner4(box), Within(a, box, 0), Within(b, box, 0)
  PROVE  Within(p, box, r)
<1>. DEFINE u1 == p[1] - a[1]
            u2 == p[2] - a[2]
            v1 == b[1] - a[1]
            v2 == b[2] - a[2]
            along == u1 * v1 + u2 * v2
            aside == u1 * v2 - u2 * v1
            len == v1 * v1 + v2 * v2
<1>1. /\ p[1] \in Int /\ p[2] \in Int /\ a[1] \in Int /\ a[2] \in Int /\ b[1] \in Int /\ b[2] \in Int
      /\ u1 \in Int /\ u2 \in Int /\ v1 \in Int /\ v2 \in Int
  BY DEF LonLat
<1>2. SqDist(a, b) = len
  <2>1. (a[1] - b[1]) * (a[1] - b[1]) = v1 * v1 /\ (a[2] - b[2]) * (a[2] - b[2]) = v2 * v2
    BY <1>1
  <2>. QED
    BY <2>1 DEF SqDist, Sq
<1>3. CASE along <= 0
  <2>1. SqDist(p, a) < Sq(r)
    BY <1>3 DEF SegNear
  <2>. QED
    BY <2>1, PointWithin
<1>4. CASE ~(along <= 0) /\ along >= SqDist(a, b)
  <2>1. SqDist(p, b) < Sq(r)
    BY <1>4 DEF SegNear
  <2>. QED
    BY <2>1, PointWithin
<1>5. CASE ~(along <= 0) /\ ~(along >= SqDist(a, b))
  <2>. DEFINE lo1 == box[1] - a[1]
              hi1 == box[3] - a[1]
              lo2 == box[2] - a[2]
              hi2 == box[4] - a[2]
              back == -v1
  <2>1. Sq(aside) < Sq(r) * SqDist(a, b)
    BY <1>5 DEF SegNear
  <2>2. aside * aside < (r * r) * len
    BY <1>2, <2>1 DEF Sq
  <2>3. /\ lo1 \in Int /\ hi1 \in Int /\ lo1 <= 0 /\ lo1 <= v1 /\ 0 <= hi1 /\ v1 <= hi1
        /\ lo2 \in Int /\ hi2 \in Int /\ lo2 <= 0 /\ lo2 <= v2 /\ 0 <= hi2 /\ v2 <= hi2
    BY <1>1 DEF Within, Corner4
  <2>. HIDE DEF u1, u2, v1, v2, lo1, hi1, lo2, hi2
  <2>4. along \in Int /\ aside \in Int /\ len \in Int /\ back \in Int
    BY <1>1
  <2>5. 0 < along /\ along < len
    BY <1>2, <1>5, <2>4
  <2>6. len * u1 = along * v1 + aside * v2 /\ len * u2 = along * v2 + aside * back
    BY <1>1
  <2>7. v2 * v2 <= len /\ back * back <= len
    <3>1. v1 * v1 \in Nat /\ v2 * v2 \in Nat /\ back * back = v1 * v1
      BY <1>1
    <3>. QED
      BY <3>1
  <2>. HIDE DEF along, aside, len, back
  <2>8. lo1 - r <= u1 /\ u1 <= hi1 + r
    BY <1>1, <2>2, <2>3, <2>4, <2>5, <2>6, <2>7, FootBound
  <2>9. lo2 - r <= u2 /\ u2 <= hi2 + r
    BY <1>1, <2>2, <2>3, <2>4, <2>5, <2>6, <2>7, FootBound
  <2>. QED
    BY <1>1, <2>8, <2>9 DEF Within, Corner4, u1, u2, lo1, hi1, lo2, hi2
<1>. QED
  BY <1>3, <1>4, <1>5

-----------------------------------------------------------------------------
(* Going around, a mark of two values changes an even number of times.     *)
Changes(up, n) == {i \in 1..n : up[i] # up[IF i = 1 THEN n ELSE i - 1]}

LEMMA IntervalSubset ==
  ASSUME NEW n \in Nat, NEW T \in SUBSET (1..n)
  PROVE  IsFiniteSet(T) /\ Cardinality(T) \in Nat
<1>1. 1 \in Int /\ n \in Int
  OBVIOUS
<1>2. IsFiniteSet(1..n)
  BY <1>1, FS_Interval
<1>. QED
  BY <1>2, FS_Subset, FS_CardinalityType

LEMMA ChangesEven ==
  ASSUME NEW n \in Nat, NEW up, \A i \in 1..n : up[i] \in {0, 1}
  PROVE  Cardinality(Changes(up, n)) % 2 = 0
<1>. DEFINE P(k) == {i \in 2..k : up[i] # up[i - 1]}
            odd(k) == IF up[k] = up[1] THEN 0 ELSE 1
            G == {k \in Nat : k + 1 <= n => Cardinality(P(k + 1)) % 2 = odd(k + 1)}
<1>0. \A k \in 0..n : P(k) \in SUBSET (1..n)
  OBVIOUS
<1>1. 0 \in G
  <2>1. P(0 + 1) = {}
    OBVIOUS
  <2>2. Cardinality(P(0 + 1)) = 0
    BY <2>1, FS_EmptySet
  <2>3. odd(0 + 1) = 0
    OBVIOUS
  <2>. HIDE DEF P, odd
  <2>. QED
    BY <2>2, <2>3
<1>2. ASSUME NEW k \in Nat, k \in G PROVE k + 1 \in G
  <2>. DEFINE m == k + 1
  <2>1. SUFFICES ASSUME m + 1 <= n PROVE Cardinality(P(m + 1)) % 2 = odd(m + 1)
    OBVIOUS
  <2>2. m \in Nat \ {0} /\ m \in 1..n /\ m + 1 \in 1..n /\ m + 1 \in 0..n /\ m \in 0..n /\ (m + 1) - 1 = m
    BY <2>1
  <2>3. Cardinality(P(m)) % 2 = odd(m)
    BY <1>2, <2>1
  <2>. HIDE DEF m
  <2>4. IsFiniteSet(P(m)) /\ Cardinality(P(m)) \in Nat
    <3>1. P(m) \in SUBSET (1..n)
      BY <1>0, <2>2
    <3>. HIDE DEF P
    <3>. QED
      BY <3>1, IntervalSubset
  <2>5. up[m] \in {0, 1} /\ up[m + 1] \in {0, 1} /\ up[1] \in {0, 1}
    BY <2>2
  <2>6. CASE up[m + 1] = up[m]
    <3>1. P(m + 1) = P(m)
      BY <2>2, <2>6
    <3>. QED
      BY <2>3, <2>6, <3>1
  <2>7. CASE up[m + 1] # up[m]
    <3>1. P(m + 1) = P(m) \cup {m + 1} /\ m + 1 \notin P(m)
      BY <2>2, <2>7
    <3>. HIDE DEF P
    <3>2. Cardinality(P(m + 1)) = Cardinality(P(m)) + 1
      BY <2>4, <3>1, FS_AddElement
    <3>3. odd(m + 1) # odd(m) /\ odd(m + 1) \in {0, 1} /\ odd(m) \in {0, 1}
      BY <2>5, <2>7
    <3>. HIDE DEF odd
    <3>. QED
      BY <2>3, <2>4, <3>2, <3>3
  <2>. QED
    BY <2>6, <2>7
<1>3. Nat \subseteq G
  <2>. HIDE DEF G
  <2>. QED
    BY <1>1, <1>2, NatInductive
<1>4. CASE n = 0
  <2>1. Changes(up, n) = {}
    BY <1>4 DEF Changes
  <2>2. Cardinality(Changes(up, n)) = 0
    BY <2>1, FS_EmptySet
  <2>. QED
    BY <2>2
<1>5. CASE n # 0
  <2>1. n - 1 \in Nat /\ (n - 1) + 1 = n /\ n \in 1..n /\ n \in 0..n /\ 1 \in 1..n
    BY <1>5
  <2>2. Cardinality(P(n)) % 2 = odd(n)
    <3>1. n - 1 \in G
      BY <1>3, <2>1
    <3>. HIDE DEF P, odd
    <3>. QED
      BY <2>1, <3>1
  <2>3. IsFiniteSet(P(n)) /\ Cardinality(P(n)) \in Nat
    <3>1. P(n) \in SUBSET (1..n)
      BY <1>0, <2>1
    <3>. HIDE DEF P
    <3>. QED
      BY <3>1, IntervalSubset
  <2>4. CASE up[1] = up[n]
    <3>1. Changes(up, n) = P(n)
      BY <2>4 DEF Changes
    <3>2. odd(n) = 0
      BY <2>4
    <3>. QED
      BY <2>2, <3>1, <3>2
  <2>5. CASE up[1] # up[n]
    <3>1. Changes(up, n) = P(n) \cup {1} /\ 1 \notin P(n)
      BY <2>1, <2>5 DEF Changes
    <3>2. odd(n) = 1
      BY <2>5
    <3>. HIDE DEF P, odd
    <3>3. Cardinality(Changes(up, n)) = Cardinality(P(n)) + 1
      BY <2>3, <3>1, FS_AddElement
    <3>. QED
      BY <2>2, <2>3, <3>2, <3>3
  <2>. QED
    BY <2>4, <2>5
<1>. QED
  BY <1>4, <1>5

-----------------------------------------------------------------------------
(* An edge whose ends the height of p separates: a ray from west of both   *)
(* crosses it, and none from where neither is to the east.                 *)
Straddles(p, a, b) == (a[2] > p[2] /\ b[2] <= p[2]) \/ (a[2] <= p[2] /\ b[2] > p[2])

(* p is on the line through a and b when this is 0.                        *)
Gap(p, a, b) == (b[1] - p[1]) * (p[2] - a[2]) + (a[1] - p[1]) * (b[2] - p[2])

LEMMA CrossesStraddles ==
  ASSUME NEW p \in LonLat, NEW a \in LonLat, NEW b \in LonLat
  PROVE  Crosses(p, a, b) <=> /\ Straddles(p, a, b)
                              /\ IF b[2] > a[2] THEN Gap(p, a, b) > 0 ELSE Gap(p, a, b) < 0
<1>1. p[1] \in Int /\ p[2] \in Int /\ a[1] \in Int /\ a[2] \in Int /\ b[1] \in Int /\ b[2] \in Int
  BY DEF LonLat
<1>2. (b[1] - a[1]) * (p[2] - a[2]) - (p[1] - a[1]) * (b[2] - a[2])
        = (b[1] - p[1]) * (p[2] - a[2]) + (a[1] - p[1]) * (b[2] - p[2])
  BY <1>1
<1>3. ((a[2] > p[2]) # (b[2] > p[2])) <=> Straddles(p, a, b)
  <2>1. (a[2] <= p[2] <=> ~(a[2] > p[2])) /\ (b[2] <= p[2] <=> ~(b[2] > p[2]))
    BY <1>1
  <2>2. (a[2] > p[2]) \in BOOLEAN /\ (b[2] > p[2]) \in BOOLEAN
    BY <1>1
  <2>. QED
    BY <2>1, <2>2, Zenon DEF Straddles
<1>4. b[2] - a[2] > 0 <=> b[2] > a[2]
  BY <1>1
<1>. QED
  BY <1>2, <1>3, <1>4 DEF Crosses, Gap

LEMMA CrossesFromWest ==
  ASSUME NEW p \in LonLat, NEW a \in LonLat, NEW b \in LonLat, p[1] < a[1], p[1] < b[1]
  PROVE  Crosses(p, a, b) <=> Straddles(p, a, b)
<1>. DEFINE x == b[1] - p[1]
            y == p[2] - a[2]
            z == a[1] - p[1]
            t == b[2] - p[2]
<1>1. /\ p[1] \in Int /\ p[2] \in Int /\ a[1] \in Int /\ a[2] \in Int /\ b[1] \in Int /\ b[2] \in Int
      /\ x \in Nat \ {0} /\ z \in Nat \ {0} /\ y \in Int /\ t \in Int
  BY DEF LonLat
<1>2. /\ y >= 0 /\ t > 0 => x * y + z * t > 0
      /\ y < 0 /\ t <= 0 => x * y + z * t < 0
  <2>. HIDE DEF x, y, z, t
  <2>1. ASSUME y >= 0, t > 0 PROVE x * y + z * t > 0
    <3>1. x * y \in Nat /\ z * t \in Nat \ {0}
      BY <1>1, <2>1
    <3>. QED
      BY <3>1
  <2>2. ASSUME y < 0, t <= 0 PROVE x * y + z * t < 0
    <3>1. x * (-y) \in Nat \ {0} /\ z * (-t) \in Nat
      BY <1>1, <2>2
    <3>2. x * y = -(x * (-y)) /\ z * t = -(z * (-t))
      BY <1>1
    <3>. QED
      BY <3>1, <3>2
  <2>. QED
    BY <2>1, <2>2
<1>3. Straddles(p, a, b) => IF b[2] > a[2] THEN x * y + z * t > 0 ELSE x * y + z * t < 0
  <2>1. y >= 0 <=> a[2] <= p[2]
    BY <1>1
  <2>2. t > 0 <=> b[2] > p[2]
    BY <1>1
  <2>3. (y < 0 <=> a[2] > p[2]) /\ (t <= 0 <=> b[2] <= p[2])
    BY <1>1
  <2>. HIDE DEF x, y, z, t
  <2>. QED
    BY <1>1, <1>2, <2>1, <2>2, <2>3 DEF Straddles
<1>. QED
  BY <1>3, CrossesStraddles DEF Gap

LEMMA CrossesFromEast ==
  ASSUME NEW p \in LonLat, NEW a \in LonLat, NEW b \in LonLat, a[1] <= p[1], b[1] <= p[1]
  PROVE  ~Crosses(p, a, b)
<1>. DEFINE x == p[1] - b[1]
            y == p[2] - a[2]
            z == p[1] - a[1]
            t == b[2] - p[2]
            gap == Gap(p, a, b)
<1>1. /\ p[1] \in Int /\ p[2] \in Int /\ a[1] \in Int /\ a[2] \in Int /\ b[1] \in Int /\ b[2] \in Int
      /\ x \in Nat /\ z \in Nat /\ y \in Int /\ t \in Int
  BY DEF LonLat
<1>2. gap = -(x * y + z * t) /\ x * y + z * t \in Int
  <2>1. b[1] - p[1] = -x /\ a[1] - p[1] = -z
    BY <1>1
  <2>2. gap = (-x) * y + (-z) * t
    BY <2>1 DEF Gap
  <2>. HIDE DEF x, y, z, t, gap
  <2>. QED
    BY <1>1, <2>2
<1>3. (b[2] > p[2] <=> t > 0) /\ (b[2] <= p[2] <=> t <= 0) /\ (a[2] > p[2] <=> y < 0) /\ (a[2] <= p[2] <=> y >= 0)
  BY <1>1
<1>4. Crosses(p, a, b) <=> /\ Straddles(p, a, b)
                           /\ IF b[2] > a[2] THEN gap > 0 ELSE gap < 0
  BY CrossesStraddles DEF Gap
<1>. HIDE DEF x, y, z, t, gap
<1>5. CASE y >= 0 /\ t > 0
  <2>1. b[2] > a[2]
    BY <1>1, <1>3, <1>5
  <2>2. x * y \in Nat /\ z * t \in Nat
    BY <1>1, <1>5
  <2>. QED
    BY <1>2, <1>4, <2>1, <2>2
<1>6. CASE y < 0 /\ t <= 0
  <2>1. ~(b[2] > a[2])
    BY <1>1, <1>3, <1>6
  <2>2. x * (-y) \in Nat /\ z * (-t) \in Nat
    BY <1>1, <1>6
  <2>3. x * y = -(x * (-y)) /\ z * t = -(z * (-t))
    BY <1>1
  <2>. QED
    BY <1>2, <1>4, <2>1, <2>2, <2>3
<1>7. CASE ~(y >= 0 /\ t > 0) /\ ~(y < 0 /\ t <= 0)
  BY <1>3, <1>4, <1>7 DEF Straddles
<1>. QED
  BY <1>5, <1>6, <1>7

(* The vertex before one of a ring, the last one before the first.         *)
Previous(ring, i) == ring[IF i = 1 THEN Len(ring) ELSE i - 1]

Crossed(p, ring) == {i \in DOMAIN ring : Crosses(p, ring[i], Previous(ring, i))}

LEMMA InRingCrossed ==
  ASSUME NEW p, NEW ring
  PROVE  InRing(p, ring) <=> Cardinality(Crossed(p, ring)) % 2 = 1
BY DEF InRing, Crossed, Previous

LEMMA PreviousVertex ==
  ASSUME NEW V, NEW ring \in Seq(V), NEW i \in DOMAIN ring
  PROVE  (IF i = 1 THEN Len(ring) ELSE i - 1) \in DOMAIN ring /\ ring[i] \in V /\ Previous(ring, i) \in V
<1>1. (IF i = 1 THEN Len(ring) ELSE i - 1) \in DOMAIN ring
  OBVIOUS
<1>. QED
  BY <1>1 DEF Previous

(* What is inside of a ring is inside of a box that holds its vertices:    *)
(* from west of the box a ray crosses an edge for every change of side.    *)
LEMMA InRingWithin ==
  ASSUME NEW p \in LonLat, NEW ring \in Seq(LonLat), InRing(p, ring),
         NEW box, Corner4(box), \A i \in DOMAIN ring : Within(ring[i], box, 0)
  PROVE  Within(p, box, 0)
<1>. DEFINE n == Len(ring)
            up == [i \in 1..n |-> IF ring[i][2] > p[2] THEN 1 ELSE 0]
<1>1. p[1] \in Int /\ p[2] \in Int /\ Corner4(box)
  BY DEF LonLat
<1>2. ASSUME NEW i \in DOMAIN ring
      PROVE  LET a == ring[i]
                 b == Previous(ring, i)
             IN  /\ a \in LonLat /\ a[1] \in Int /\ a[2] \in Int /\ Within(a, box, 0)
                 /\ b \in LonLat /\ b[1] \in Int /\ b[2] \in Int /\ Within(b, box, 0)
  <2>1. ring[i] \in LonLat /\ Previous(ring, i) \in LonLat
    BY PreviousVertex
  <2>2. Within(Previous(ring, i), box, 0)
    BY PreviousVertex DEF Previous
  <2>. QED
    BY <2>1, <2>2 DEF LonLat
<1>3. ASSUME Crossed(p, ring) = {} PROVE FALSE
  <2>1. Cardinality(Crossed(p, ring)) = 0
    BY <1>3, FS_EmptySet
  <2>. QED
    BY <2>1, InRingCrossed
<1>4. CASE p[2] > box[4] \/ p[2] < box[2]
  <2>1. ASSUME NEW i \in DOMAIN ring PROVE ~Crosses(p, ring[i], Previous(ring, i))
    <3>. DEFINE a == ring[i]
                b == Previous(ring, i)
    <3>1. a \in LonLat /\ a[2] \in Int /\ Within(a, box, 0) /\ b \in LonLat /\ b[2] \in Int /\ Within(b, box, 0)
      BY <1>2
    <3>. HIDE DEF a, b
    <3>2. box[2] <= a[2] /\ a[2] <= box[4] /\ box[2] <= b[2] /\ b[2] <= box[4]
      BY <1>1, <3>1 DEF Within, Corner4
    <3>3. ~Straddles(p, a, b)
      BY <1>1, <1>4, <3>1, <3>2 DEF Straddles, Corner4
    <3>4. ~Crosses(p, a, b)
      BY <3>1, <3>3, CrossesStraddles
    <3>. QED
      BY <3>4 DEF a, b
  <2>. QED
    BY <1>3, <2>1 DEF Crossed
<1>5. CASE p[1] > box[3]
  <2>1. ASSUME NEW i \in DOMAIN ring PROVE ~Crosses(p, ring[i], Previous(ring, i))
    <3>. DEFINE a == ring[i]
                b == Previous(ring, i)
    <3>1. a \in LonLat /\ a[1] \in Int /\ Within(a, box, 0) /\ b \in LonLat /\ b[1] \in Int /\ Within(b, box, 0)
      BY <1>2
    <3>. HIDE DEF a, b
    <3>2. a[1] <= p[1] /\ b[1] <= p[1]
      BY <1>1, <1>5, <3>1 DEF Within, Corner4
    <3>3. ~Crosses(p, a, b)
      BY <3>1, <3>2, CrossesFromEast
    <3>. QED
      BY <3>3 DEF a, b
  <2>. QED
    BY <1>3, <2>1 DEF Crossed
<1>6. CASE p[1] < box[1]
  <2>1. ASSUME NEW i \in DOMAIN ring
        PROVE  Crosses(p, ring[i], Previous(ring, i)) <=> up[i] # up[IF i = 1 THEN n ELSE i - 1]
    <3>. DEFINE a == ring[i]
                b == Previous(ring, i)
                j == IF i = 1 THEN n ELSE i - 1
    <3>1. a \in LonLat /\ a[1] \in Int /\ a[2] \in Int /\ Within(a, box, 0)
          /\ b \in LonLat /\ b[1] \in Int /\ b[2] \in Int /\ Within(b, box, 0)
      BY <1>2
    <3>2. i \in 1..n /\ j \in 1..n /\ b = ring[j]
      BY PreviousVertex DEF Previous
    <3>3. up[i] = (IF a[2] > p[2] THEN 1 ELSE 0) /\ up[j] = (IF b[2] > p[2] THEN 1 ELSE 0)
      BY <3>2
    <3>. HIDE DEF a, b, j, up
    <3>4. p[1] < a[1] /\ p[1] < b[1]
      BY <1>1, <1>6, <3>1 DEF Within, Corner4
    <3>5. Crosses(p, a, b) <=> Straddles(p, a, b)
      BY <3>1, <3>4, CrossesFromWest
    <3>6. Straddles(p, a, b) <=> up[i] # up[j]
      <4>. DEFINE x == up[i]
                  y == up[j]
      <4>1. x = (IF a[2] > p[2] THEN 1 ELSE 0) /\ y = (IF b[2] > p[2] THEN 1 ELSE 0)
        BY <3>3
      <4>2. a[2] <= p[2] <=> ~(a[2] > p[2])
        BY <1>1, <3>1
      <4>3. b[2] <= p[2] <=> ~(b[2] > p[2])
        BY <1>1, <3>1
      <4>. HIDE DEF x, y
      <4>4. Straddles(p, a, b) <=> x # y
        <5>1. 0 # 1
          OBVIOUS
        <5>. QED
          BY <4>1, <4>2, <4>3, <5>1, Zenon DEF Straddles
      <4>. QED
        BY <4>4 DEF x, y
    <3>. QED
      BY <3>5, <3>6 DEF a, b, j
  <2>2. DOMAIN ring = 1..n /\ n \in Nat
    OBVIOUS
  <2>3. \A i \in 1..n : up[i] \in {0, 1}
    OBVIOUS
  <2>. HIDE DEF up, n
  <2>4. Crossed(p, ring) = Changes(up, n)
    BY <2>1, <2>2 DEF Crossed, Changes
  <2>5. Cardinality(Changes(up, n)) % 2 = 0
    BY <2>2, <2>3, ChangesEven
  <2>. QED
    BY <2>4, <2>5, InRingCrossed
<1>. QED
  BY <1>1, <1>4, <1>5, <1>6 DEF Within, Corner4

-----------------------------------------------------------------------------
(* What a GeoJSON object is built into.                                    *)
IsShape(g) ==
  /\ g.points \in SUBSET LonLat /\ IsFiniteSet(g.points)
  /\ g.lines \in SUBSET Seq(LonLat) /\ IsFiniteSet(g.lines)
  /\ g.polys \in SUBSET Seq(Seq(LonLat)) /\ IsFiniteSet(g.polys)

LEMMA SeqSet ==
  ASSUME NEW V, NEW s \in Seq(V)
  PROVE  ToSet(s) \in SUBSET V /\ IsFiniteSet(ToSet(s)) /\ \A i \in DOMAIN s : s[i] \in ToSet(s)
<1>. DEFINE D == DOMAIN s
<1>1. D \in SUBSET (1..Len(s)) /\ Len(s) \in Nat
  OBVIOUS
<1>. HIDE DEF D
<1>2. IsFiniteSet(D)
  BY <1>1, IntervalSubset
<1>3. IsFiniteSet({s[i] : i \in D})
  BY <1>2, ImageFinite
<1>. QED
  BY <1>3 DEF ToSet, D

LEMMA NoGeomShape == IsShape(NoGeom)
BY FS_EmptySet DEF IsShape, NoGeom

LEMMA EmptyShapeShape == IsShape(EmptyShape)
<1>1. <<>> \in Seq(LonLat)
  OBVIOUS
<1>. QED
  BY <1>1, FS_EmptySet, FS_Singleton DEF IsShape, EmptyShape, NoGeom

LEMMA SimpleShape ==
  ASSUME NEW raw, IsSimple(raw)
  PROVE  IsShape(BuildSimple(raw))
<1>. DEFINE c == raw.coordinates
<1>1. CASE raw.type = "Point"
  <2>1. c \in LonLat /\ BuildSimple(raw) = [NoGeom EXCEPT !.points = {c}]
    BY <1>1 DEF IsSimple, BuildSimple
  <2>2. IsFiniteSet({}) /\ IsFiniteSet({c})
    BY FS_EmptySet, FS_Singleton
  <2>. HIDE DEF c
  <2>. QED
    BY <2>1, <2>2 DEF IsShape, NoGeom
<1>2. CASE raw.type = "LineString"
  <2>1. c \in Seq(LonLat) /\ BuildSimple(raw) = [NoGeom EXCEPT !.lines = {c}]
    BY <1>2 DEF IsSimple, BuildSimple
  <2>2. IsFiniteSet({}) /\ IsFiniteSet({c})
    BY FS_EmptySet, FS_Singleton
  <2>. HIDE DEF c
  <2>. QED
    BY <2>1, <2>2 DEF IsShape, NoGeom
<1>3. CASE raw.type = "Polygon"
  <2>1. c \in Seq(Seq(LonLat)) /\ BuildSimple(raw) = [NoGeom EXCEPT !.polys = {c}]
    BY <1>3 DEF IsSimple, BuildSimple
  <2>2. IsFiniteSet({}) /\ IsFiniteSet({c})
    BY FS_EmptySet, FS_Singleton
  <2>. HIDE DEF c
  <2>. QED
    BY <2>1, <2>2 DEF IsShape, NoGeom
<1>4. CASE raw.type = "MultiLineString"
  <2>1. c \in Seq(Seq(LonLat))
    BY <1>4 DEF IsSimple
  <2>2. CASE c = <<>>
    BY <1>4, <2>2, EmptyShapeShape DEF BuildSimple
  <2>3. CASE c # <<>>
    <3>1. BuildSimple(raw) = [NoGeom EXCEPT !.lines = ToSet(c)]
      BY <1>4, <2>3 DEF BuildSimple
    <3>2. ToSet(c) \in SUBSET Seq(LonLat) /\ IsFiniteSet(ToSet(c))
      BY <2>1, SeqSet
    <3>. QED
      BY <3>1, <3>2, FS_EmptySet DEF IsShape, NoGeom
  <2>. QED
    BY <2>2, <2>3
<1>5. CASE raw.type = "MultiPolygon"
  <2>1. c \in Seq(Seq(Seq(LonLat)))
    BY <1>5 DEF IsSimple
  <2>2. CASE c = <<>>
    BY <1>5, <2>2, EmptyShapeShape DEF BuildSimple
  <2>3. CASE c # <<>>
    <3>1. BuildSimple(raw) = [NoGeom EXCEPT !.polys = ToSet(c)]
      BY <1>5, <2>3 DEF BuildSimple
    <3>2. ToSet(c) \in SUBSET Seq(Seq(LonLat)) /\ IsFiniteSet(ToSet(c))
      BY <2>1, SeqSet
    <3>. QED
      BY <3>1, <3>2, FS_EmptySet DEF IsShape, NoGeom
  <2>. QED
    BY <2>2, <2>3
<1>6. CASE raw.type \notin {"Point", "LineString", "Polygon", "MultiLineString", "MultiPolygon"}
  <2>1. BuildSimple(raw) = NoGeom
    BY <1>6 DEF BuildSimple
  <2>. QED
    BY <2>1, NoGeomShape
<1>. QED
  BY <1>1, <1>2, <1>3, <1>4, <1>5, <1>6

LEMMA UnionShapes ==
  ASSUME NEW M, IsFiniteSet(M), NEW part, NEW V, \A g \in M : part[g] \in SUBSET V /\ IsFiniteSet(part[g])
  PROVE  UNION {part[g] : g \in M} \in SUBSET V /\ IsFiniteSet(UNION {part[g] : g \in M})
<1>. DEFINE T == {part[g] : g \in M}
<1>1. IsFiniteSet(T)
  BY ImageFinite
<1>2. \A t \in T : t \in SUBSET V /\ IsFiniteSet(t)
  OBVIOUS
<1>. HIDE DEF T
<1>3. IsFiniteSet(UNION T)
  BY <1>1, <1>2, FS_UNION
<1>4. UNION T \in SUBSET V
  BY <1>2
<1>. QED
  BY <1>3, <1>4 DEF T

LEMMA BuildShape ==
  ASSUME NEW raw, IsRaw(raw)
  PROVE  IsShape(Build(raw))
<1>. DEFINE D == DOMAIN raw.geometries
            built == [i \in D |-> BuildSimple(raw.geometries[i])]
            all == {built[i] : i \in D}
            members == all \ {NoGeom}
            points == [g \in members |-> g.points]
            lines == [g \in members |-> g.lines]
            polys == [g \in members |-> g.polys]
<1>1. CASE raw.type # "GeometryCollection"
  BY <1>1, SimpleShape DEF IsRaw, Build
<1>2. CASE raw.type = "GeometryCollection"
  <2>1. IsFiniteSet(D) /\ \A i \in D : IsSimple(raw.geometries[i])
    BY <1>2 DEF IsRaw
  <2>2. \A i \in D : IsShape(built[i])
    BY <2>1, SimpleShape
  <2>3. {BuildSimple(raw.geometries[i]) : i \in D} = all
    OBVIOUS
  <2>4. Build(raw) = IF members = {} THEN EmptyShape
                     ELSE [points |-> UNION {points[g] : g \in members},
                           lines  |-> UNION {lines[g] : g \in members},
                           polys  |-> UNION {polys[g] : g \in members}]
    <3>1. Build(raw) = IF members = {} THEN EmptyShape
                       ELSE [points |-> UNION {g.points : g \in members},
                             lines  |-> UNION {g.lines : g \in members},
                             polys  |-> UNION {g.polys : g \in members}]
      BY <1>2, <2>3 DEF Build
    <3>. HIDE DEF members
    <3>2. {points[g] : g \in members} = {g.points : g \in members}
      OBVIOUS
    <3>3. {lines[g] : g \in members} = {g.lines : g \in members}
      OBVIOUS
    <3>4. {polys[g] : g \in members} = {g.polys : g \in members}
      OBVIOUS
    <3>. QED
      BY <3>1, <3>2, <3>3, <3>4
  <2>. HIDE DEF D, built
  <2>5. IsFiniteSet(members)
    <3>1. IsFiniteSet(all)
      BY <2>1, ImageFinite
    <3>. HIDE DEF all
    <3>. QED
      BY <3>1, FS_Subset
  <2>6. \A g \in members : IsShape(g)
    BY <2>2
  <2>. HIDE DEF members
  <2>7. UNION {points[g] : g \in members} \in SUBSET LonLat /\ IsFiniteSet(UNION {points[g] : g \in members})
    <3>1. \A g \in members : points[g] \in SUBSET LonLat /\ IsFiniteSet(points[g])
      BY <2>6 DEF IsShape
    <3>. HIDE DEF points
    <3>. QED
      BY <2>5, <3>1, UnionShapes
  <2>8. UNION {lines[g] : g \in members} \in SUBSET Seq(LonLat) /\ IsFiniteSet(UNION {lines[g] : g \in members})
    <3>. DEFINE V == Seq(LonLat)
    <3>1. \A g \in members : lines[g] \in SUBSET V /\ IsFiniteSet(lines[g])
      BY <2>6 DEF IsShape
    <3>. HIDE DEF lines, V
    <3>2. UNION {lines[g] : g \in members} \in SUBSET V /\ IsFiniteSet(UNION {lines[g] : g \in members})
      BY <2>5, <3>1, UnionShapes
    <3>. QED
      BY <3>2 DEF V
  <2>9. UNION {polys[g] : g \in members} \in SUBSET Seq(Seq(LonLat)) /\ IsFiniteSet(UNION {polys[g] : g \in members})
    <3>. DEFINE V == Seq(Seq(LonLat))
    <3>1. \A g \in members : polys[g] \in SUBSET V /\ IsFiniteSet(polys[g])
      BY <2>6 DEF IsShape
    <3>. HIDE DEF polys, V
    <3>2. UNION {polys[g] : g \in members} \in SUBSET V /\ IsFiniteSet(UNION {polys[g] : g \in members})
      BY <2>5, <3>1, UnionShapes
    <3>. QED
      BY <3>2 DEF V
  <2>. HIDE DEF points, lines, polys
  <2>10. CASE members = {}
    BY <2>4, <2>10, EmptyShapeShape
  <2>11. CASE members # {}
    BY <2>4, <2>7, <2>8, <2>9, <2>11 DEF IsShape
  <2>. QED
    BY <2>10, <2>11
<1>. QED
  BY <1>1, <1>2

-----------------------------------------------------------------------------
LEMMA BoxHolds ==
  ASSUME NEW S \in SUBSET LonLat, IsFiniteSet(S)
  PROVE  Corner4(BoxOf(S)) /\ \A p \in S : Within(p, BoxOf(S), 0)
<1>. DEFINE lon == [p \in S |-> p[1]]
            lat == [p \in S |-> p[2]]
            lons == {lon[p] : p \in S}
            lats == {lat[p] : p \in S}
<1>1. CASE S = {}
  BY <1>1 DEF BoxOf, EmptyBox, Corner4
<1>2. CASE S # {}
  <2>1. \A p \in S : p[1] \in Int /\ p[2] \in Int
    BY DEF LonLat
  <2>2. {p[1] : p \in S} = lons /\ {p[2] : p \in S} = lats
    OBVIOUS
  <2>3. \A p \in S : lon[p] = p[1] /\ lat[p] = p[2] /\ lon[p] \in Int /\ lat[p] \in Int
    BY <2>1
  <2>4. BoxOf(S) = <<Min(lons), Min(lats), Max(lons), Max(lats)>>
    BY <1>2, <2>2 DEF BoxOf
  <2>. HIDE DEF lon, lat
  <2>5. Min(lons) \in Int /\ \A p \in S : Min(lons) <= lon[p]
    BY <1>2, <2>3, ImageMin
  <2>6. Min(lats) \in Int /\ \A p \in S : Min(lats) <= lat[p]
    BY <1>2, <2>3, ImageMin
  <2>7. Max(lons) \in Int /\ \A p \in S : Max(lons) >= lon[p]
    BY <1>2, <2>3, ImageMax
  <2>8. Max(lats) \in Int /\ \A p \in S : Max(lats) >= lat[p]
    BY <1>2, <2>3, ImageMax
  <2>9. Corner4(BoxOf(S))
    BY <2>4, <2>5, <2>6, <2>7, <2>8 DEF Corner4
  <2>10. ASSUME NEW p \in S PROVE Within(p, BoxOf(S), 0)
    <3>1. /\ BoxOf(S)[1] = Min(lons) /\ BoxOf(S)[2] = Min(lats)
          /\ BoxOf(S)[3] = Max(lons) /\ BoxOf(S)[4] = Max(lats)
      BY <2>4
    <3>. HIDE DEF lons, lats
    <3>2. p[1] = lon[p] /\ p[2] = lat[p] /\ lon[p] \in Int /\ lat[p] \in Int
      BY <2>3
    <3>3. Min(lons) <= lon[p] /\ Min(lats) <= lat[p] /\ Max(lons) >= lon[p] /\ Max(lats) >= lat[p]
      BY <2>5, <2>6, <2>7, <2>8 DEF lons, lats
    <3>. QED
      BY <2>5, <2>6, <2>7, <2>8, <3>1, <3>2, <3>3 DEF Within
  <2>. QED
    BY <2>9, <2>10
<1>. QED
  BY <1>1, <1>2

LEMMA CornersFinite ==
  ASSUME NEW box, Corner4(box)
  PROVE  Corners(box) \in SUBSET LonLat /\ IsFiniteSet(Corners(box))
<1>1. IsFiniteSet(Corners(box))
  BY PairFinite DEF Corners
<1>2. Corners(box) \in SUBSET LonLat
  BY DEF Corners, LonLat, Corner4
<1>. QED
  BY <1>1, <1>2

LEMMA CornersWithin ==
  ASSUME NEW inner, Corner4(inner), NEW outer, Corner4(outer),
         \A q \in Corners(inner) : Within(q, outer, 0),
         NEW p \in LonLat, Within(p, inner, 0)
  PROVE  Within(p, outer, 0)
<1>. DEFINE a == <<inner[1], inner[2]>>
            b == <<inner[3], inner[4]>>
<1>1. Within(a, outer, 0) /\ Within(b, outer, 0)
  BY DEF Corners
<1>2. p[1] \in Int /\ p[2] \in Int
  BY DEF LonLat
<1>. QED
  BY <1>1, <1>2 DEF Within, Corner4

(* The box of a shape holds every vertex of it that distances are measured *)
(* to.                                                                     *)
Spots(g) ==
  g.points \cup UNION ({Corners(BoxOf(ToSet(line))) : line \in g.lines}
                          \cup {Corners(PolyBox(poly)) : poly \in g.polys})

LEMMA PolyBoxType ==
  ASSUME NEW poly \in Seq(Seq(LonLat))
  PROVE  /\ Corner4(PolyBox(poly))
         /\ poly # <<>> => /\ poly[1] \in Seq(LonLat)
                           /\ \A i \in DOMAIN poly[1] : Within(poly[1][i], PolyBox(poly), 0)
<1>1. CASE poly = <<>>
  BY <1>1 DEF PolyBox, EmptyBox, Corner4
<1>2. CASE poly # <<>>
  <2>. DEFINE ring == poly[1]
  <2>1. ring \in Seq(LonLat) /\ PolyBox(poly) = BoxOf(ToSet(ring))
    BY <1>2 DEF PolyBox
  <2>. HIDE DEF ring
  <2>2. ToSet(ring) \in SUBSET LonLat /\ IsFiniteSet(ToSet(ring)) /\ \A i \in DOMAIN ring : ring[i] \in ToSet(ring)
    BY <2>1, SeqSet
  <2>3. Corner4(BoxOf(ToSet(ring))) /\ \A p \in ToSet(ring) : Within(p, BoxOf(ToSet(ring)), 0)
    BY <2>2, BoxHolds
  <2>. QED
    BY <2>1, <2>2, <2>3 DEF ring
<1>. QED
  BY <1>1, <1>2

LEMMA LineBoxType ==
  ASSUME NEW line \in Seq(LonLat)
  PROVE  /\ Corner4(BoxOf(ToSet(line)))
         /\ \A i \in DOMAIN line : line[i] \in LonLat /\ Within(line[i], BoxOf(ToSet(line)), 0)
<1>1. ToSet(line) \in SUBSET LonLat /\ IsFiniteSet(ToSet(line)) /\ \A i \in DOMAIN line : line[i] \in ToSet(line)
  BY SeqSet
<1>2. Corner4(BoxOf(ToSet(line))) /\ \A p \in ToSet(line) : Within(p, BoxOf(ToSet(line)), 0)
  BY <1>1, BoxHolds
<1>. QED
  BY <1>1, <1>2

LEMMA SpotsType ==
  ASSUME NEW g, IsShape(g)
  PROVE  Spots(g) \in SUBSET LonLat /\ IsFiniteSet(Spots(g))
<1>. DEFINE ofLine == [line \in g.lines |-> Corners(BoxOf(ToSet(line)))]
            ofPoly == [poly \in g.polys |-> Corners(PolyBox(poly))]
            fromLines == {ofLine[line] : line \in g.lines}
            fromPolys == {ofPoly[poly] : poly \in g.polys}
            both == fromLines \cup fromPolys
<1>1. /\ g.points \in SUBSET LonLat /\ IsFiniteSet(g.points)
      /\ g.lines \in SUBSET Seq(LonLat) /\ IsFiniteSet(g.lines)
      /\ g.polys \in SUBSET Seq(Seq(LonLat)) /\ IsFiniteSet(g.polys)
  BY DEF IsShape
<1>2. \A line \in g.lines : ofLine[line] \in SUBSET LonLat /\ IsFiniteSet(ofLine[line])
  <2>1. ASSUME NEW line \in g.lines PROVE ofLine[line] \in SUBSET LonLat /\ IsFiniteSet(ofLine[line])
    <3>1. Corner4(BoxOf(ToSet(line)))
      BY <1>1, LineBoxType
    <3>2. Corners(BoxOf(ToSet(line))) \in SUBSET LonLat /\ IsFiniteSet(Corners(BoxOf(ToSet(line))))
      BY <3>1, CornersFinite
    <3>. QED
      BY <3>2
  <2>. QED
    BY <2>1
<1>3. \A poly \in g.polys : ofPoly[poly] \in SUBSET LonLat /\ IsFiniteSet(ofPoly[poly])
  <2>1. ASSUME NEW poly \in g.polys PROVE ofPoly[poly] \in SUBSET LonLat /\ IsFiniteSet(ofPoly[poly])
    <3>1. Corner4(PolyBox(poly))
      BY <1>1, PolyBoxType
    <3>2. Corners(PolyBox(poly)) \in SUBSET LonLat /\ IsFiniteSet(Corners(PolyBox(poly)))
      BY <3>1, CornersFinite
    <3>. QED
      BY <3>2
  <2>. QED
    BY <2>1
<1>4. Spots(g) = g.points \cup UNION both
  <2>1. {Corners(BoxOf(ToSet(line))) : line \in g.lines} = fromLines
    OBVIOUS
  <2>2. {Corners(PolyBox(poly)) : poly \in g.polys} = fromPolys
    OBVIOUS
  <2>. QED
    BY <2>1, <2>2 DEF Spots
<1>. HIDE DEF ofLine, ofPoly
<1>5. IsFiniteSet(fromLines) /\ IsFiniteSet(fromPolys)
  BY <1>1, ImageFinite
<1>6. \A t \in both : t \in SUBSET LonLat /\ IsFiniteSet(t)
  BY <1>2, <1>3
<1>. HIDE DEF fromLines, fromPolys
<1>7. IsFiniteSet(both)
  BY <1>5, FS_Union
<1>. HIDE DEF both
<1>8. UNION both \in SUBSET LonLat
  BY <1>6
<1>9. IsFiniteSet(UNION both)
  BY <1>6, <1>7, FS_UNION
<1>10. IsFiniteSet(g.points \cup UNION both)
  BY <1>1, <1>9, FS_Union
<1>. QED
  BY <1>1, <1>4, <1>8, <1>10

LEMMA ShapeBox ==
  ASSUME NEW g, IsShape(g)
  PROVE  /\ Corner4(BBox(g))
         /\ \A q \in g.points : Within(q, BBox(g), 0)
         /\ \A line \in g.lines : \A i \in DOMAIN line : Within(line[i], BBox(g), 0)
         /\ \A poly \in g.polys : poly # <<>> => \A i \in DOMAIN poly[1] : Within(poly[1][i], BBox(g), 0)
<1>. DEFINE box == BBox(g)
<1>1. box = BoxOf(Spots(g))
  BY DEF BBox, Spots
<1>2. Spots(g) \in SUBSET LonLat /\ IsFiniteSet(Spots(g))
  BY SpotsType
<1>3. Corner4(box) /\ \A p \in Spots(g) : Within(p, box, 0)
  BY <1>1, <1>2, BoxHolds
<1>. HIDE DEF box
<1>4. g.lines \in SUBSET Seq(LonLat) /\ g.polys \in SUBSET Seq(Seq(LonLat))
  BY DEF IsShape
<1>5. \A q \in g.points : Within(q, box, 0)
  BY <1>3 DEF Spots
<1>6. ASSUME NEW line \in g.lines, NEW i \in DOMAIN line PROVE Within(line[i], box, 0)
  <2>. DEFINE inner == BoxOf(ToSet(line))
  <2>1. Corner4(inner) /\ line[i] \in LonLat /\ Within(line[i], inner, 0)
    BY <1>4, LineBoxType
  <2>2. \A q \in Corners(inner) : q \in Spots(g)
    BY DEF Spots
  <2>3. \A q \in Corners(inner) : Within(q, box, 0)
    BY <1>3, <2>2
  <2>. HIDE DEF inner
  <2>. QED
    BY <1>3, <2>1, <2>3, CornersWithin
<1>7. ASSUME NEW poly \in g.polys, poly # <<>>, NEW i \in DOMAIN poly[1] PROVE Within(poly[1][i], box, 0)
  <2>. DEFINE inner == PolyBox(poly)
              p == poly[1][i]
  <2>1. Corner4(inner) /\ Within(p, inner, 0) /\ poly[1] \in Seq(LonLat)
    BY <1>4, <1>7, PolyBoxType
  <2>2. p \in LonLat
    BY <2>1
  <2>3. \A q \in Corners(inner) : q \in Spots(g)
    BY DEF Spots
  <2>4. \A q \in Corners(inner) : Within(q, box, 0)
    BY <1>3, <2>3
  <2>. HIDE DEF inner, p
  <2>5. Within(p, box, 0)
    BY <1>3, <2>1, <2>2, <2>4, CornersWithin
  <2>. QED
    BY <2>5 DEF p
<1>. QED
  BY <1>3, <1>5, <1>6, <1>7 DEF box

LEMMA LineWithin ==
  ASSUME NEW p \in LonLat, NEW line \in Seq(LonLat), NEW r \in Nat, LineNear(p, line, r),
         NEW box, Corner4(box), \A i \in DOMAIN line : Within(line[i], box, 0)
  PROVE  Within(p, box, r)
<1>1. PICK i \in 2..Len(line) : SegNear(p, line[i - 1], line[i], r)
  BY DEF LineNear
<1>2. i \in DOMAIN line /\ i - 1 \in DOMAIN line
  OBVIOUS
<1>3. line[i] \in LonLat /\ line[i - 1] \in LonLat /\ Within(line[i], box, 0) /\ Within(line[i - 1], box, 0)
  BY <1>2
<1>. QED
  BY <1>1, <1>3, SegmentWithin

(* A place less than r from a shape is no further than r outside its box.  *)
LEMMA NearWithin ==
  ASSUME NEW g, IsShape(g), NEW p \in LonLat, NEW r \in Nat, Near(g, p, r)
  PROVE  Within(p, BBox(g), r)
<1>. DEFINE box == BBox(g)
<1>1. /\ Corner4(box)
      /\ \A q \in g.points : Within(q, box, 0)
      /\ \A line \in g.lines : \A i \in DOMAIN line : Within(line[i], box, 0)
      /\ \A poly \in g.polys : poly # <<>> => \A i \in DOMAIN poly[1] : Within(poly[1][i], box, 0)
  BY ShapeBox
<1>. HIDE DEF box
<1>2. g.points \in SUBSET LonLat /\ g.lines \in SUBSET Seq(LonLat) /\ g.polys \in SUBSET Seq(Seq(LonLat))
  BY DEF IsShape
<1>3. ASSUME NEW q \in g.points, SqDist(p, q) < Sq(r) PROVE Within(p, box, r)
  BY <1>1, <1>2, <1>3, PointWithin
<1>4. ASSUME NEW line \in g.lines, LineNear(p, line, r) PROVE Within(p, box, r)
  BY <1>1, <1>2, <1>4, LineWithin
<1>5. ASSUME NEW poly \in g.polys, PolyNear(p, poly, r) PROVE Within(p, box, r)
  <2>. DEFINE ring == poly[1]
  <2>1. poly # <<>> /\ (InRing(p, ring) \/ LineNear(p, ring, r))
    BY <1>5 DEF PolyNear
  <2>2. ring \in Seq(LonLat)
    BY <1>2, <2>1, PolyBoxType
  <2>3. \A i \in DOMAIN ring : Within(ring[i], box, 0)
    BY <1>1, <2>1
  <2>. HIDE DEF ring
  <2>4. CASE InRing(p, ring)
    <3>1. Within(p, box, 0)
      BY <1>1, <2>2, <2>3, <2>4, InRingWithin
    <3>. QED
      BY <1>1, <3>1, WithinWider
  <2>5. CASE LineNear(p, ring, r)
    BY <1>1, <2>2, <2>3, <2>5, LineWithin
  <2>. QED
    BY <2>1, <2>4, <2>5
<1>6. Within(p, box, r)
  BY <1>3, <1>4, <1>5 DEF Near
<1>. QED
  BY <1>6 DEF box

-----------------------------------------------------------------------------
(* What is near is near by any wider measure.                              *)
LEMMA SqDistNat ==
  ASSUME NEW a \in LonLat, NEW b \in LonLat
  PROVE  SqDist(a, b) \in Nat
<1>. DEFINE x == a[1] - b[1]
            y == a[2] - b[2]
<1>1. x \in Int /\ y \in Int
  BY DEF LonLat
<1>. HIDE DEF x, y
<1>2. x * x \in Nat /\ y * y \in Nat
  BY <1>1
<1>3. SqDist(a, b) = x * x + y * y
  BY DEF SqDist, Sq, x, y
<1>. QED
  BY <1>2, <1>3

LEMMA SquareGrows ==
  ASSUME NEW r \in Nat, NEW t \in Nat, r <= t
  PROVE  Sq(r) \in Nat /\ Sq(t) \in Nat /\ Sq(r) <= Sq(t)
<1>1. r * r <= r * t /\ r * t <= t * t
  OBVIOUS
<1>2. r * r \in Nat /\ r * t \in Nat /\ t * t \in Nat
  OBVIOUS
<1>. QED
  BY <1>1, <1>2 DEF Sq

LEMMA SegmentWider ==
  ASSUME NEW p \in LonLat, NEW a \in LonLat, NEW b \in LonLat,
         NEW r \in Nat, NEW t \in Nat, r <= t, SegNear(p, a, b, r)
  PROVE  SegNear(p, a, b, t)
<1>. DEFINE along == (p[1] - a[1]) * (b[1] - a[1]) + (p[2] - a[2]) * (b[2] - a[2])
            aside == (p[1] - a[1]) * (b[2] - a[2]) - (p[2] - a[2]) * (b[1] - a[1])
            d == SqDist(a, b)
<1>1. SqDist(p, a) \in Nat /\ SqDist(p, b) \in Nat /\ d \in Nat
  BY SqDistNat
<1>2. Sq(r) \in Nat /\ Sq(t) \in Nat /\ Sq(r) <= Sq(t)
  BY SquareGrows
<1>3. Sq(aside) \in Int
  <2>1. aside \in Int
    BY DEF LonLat
  <2>. HIDE DEF aside
  <2>. QED
    BY <2>1 DEF Sq
<1>4. Sq(r) * d <= Sq(t) * d /\ Sq(r) * d \in Int /\ Sq(t) * d \in Int
  BY <1>1, <1>2
<1>5. SegNear(p, a, b, r) <=> IF along <= 0 THEN SqDist(p, a) < Sq(r)
                              ELSE IF along >= d THEN SqDist(p, b) < Sq(r)
                              ELSE Sq(aside) < Sq(r) * d
  BY DEF SegNear
<1>6. SegNear(p, a, b, t) <=> IF along <= 0 THEN SqDist(p, a) < Sq(t)
                              ELSE IF along >= d THEN SqDist(p, b) < Sq(t)
                              ELSE Sq(aside) < Sq(t) * d
  BY DEF SegNear
<1>. HIDE DEF along, aside, d
<1>. QED
  BY <1>1, <1>2, <1>3, <1>4, <1>5, <1>6

LEMMA LineWider ==
  ASSUME NEW p \in LonLat, NEW line \in Seq(LonLat), NEW r \in Nat, NEW t \in Nat, r <= t, LineNear(p, line, r)
  PROVE  LineNear(p, line, t)
<1>1. PICK i \in 2..Len(line) : SegNear(p, line[i - 1], line[i], r)
  BY DEF LineNear
<1>2. line[i] \in LonLat /\ line[i - 1] \in LonLat
  OBVIOUS
<1>3. SegNear(p, line[i - 1], line[i], t)
  BY <1>1, <1>2, SegmentWider
<1>. QED
  BY <1>3 DEF LineNear

LEMMA NearWider ==
  ASSUME NEW g, IsShape(g), NEW p \in LonLat, NEW r \in Nat, NEW t \in Nat, r <= t, Near(g, p, r)
  PROVE  Near(g, p, t)
<1>1. g.points \in SUBSET LonLat /\ g.lines \in SUBSET Seq(LonLat) /\ g.polys \in SUBSET Seq(Seq(LonLat))
  BY DEF IsShape
<1>2. ASSUME NEW q \in g.points, SqDist(p, q) < Sq(r) PROVE SqDist(p, q) < Sq(t)
  <2>1. q \in LonLat
    BY <1>1
  <2>2. SqDist(p, q) \in Nat
    BY <2>1, SqDistNat
  <2>3. Sq(r) \in Nat /\ Sq(t) \in Nat /\ Sq(r) <= Sq(t)
    BY SquareGrows
  <2>. QED
    BY <1>2, <2>2, <2>3
<1>3. ASSUME NEW line \in g.lines, LineNear(p, line, r) PROVE LineNear(p, line, t)
  BY <1>1, <1>3, LineWider
<1>4. ASSUME NEW poly \in g.polys, PolyNear(p, poly, r) PROVE PolyNear(p, poly, t)
  <2>. DEFINE ring == poly[1]
  <2>1. poly # <<>> /\ (InRing(p, ring) \/ LineNear(p, ring, r))
    BY <1>4 DEF PolyNear
  <2>2. ring \in Seq(LonLat)
    BY <1>1, <2>1, PolyBoxType
  <2>. HIDE DEF ring
  <2>3. LineNear(p, ring, r) => LineNear(p, ring, t)
    BY <2>2, LineWider
  <2>4. InRing(p, ring) \/ LineNear(p, ring, t)
    BY <2>1, <2>3
  <2>. QED
    BY <2>1, <2>4 DEF PolyNear, ring
<1>. QED
  BY <1>2, <1>3, <1>4 DEF Near

LEMMA KernelOutside ==
  ASSUME NEW g, IsShape(g), NEW p \in LonLat, ~Near(g, p, Cutoff)
  PROVE  Kernel(g, p) = 0
<1>1. ASSUME NEW r \in 1..Cutoff, Near(g, p, r) PROVE FALSE
  <2>1. r \in Nat /\ Cutoff \in Nat /\ r <= Cutoff
    BY HeatGridAssumption
  <2>. QED
    BY <1>1, <2>1, NearWider
<1>2. {r \in 1..Cutoff : Near(g, p, r)} = {}
  BY <1>1
<1>3. Cardinality({r \in 1..Cutoff : Near(g, p, r)}) = 0
  BY <1>2, FS_EmptySet
<1>. QED
  BY <1>3 DEF Kernel, Sq

-----------------------------------------------------------------------------
LEMMA TruncMonotonic ==
  ASSUME NEW a \in Int, NEW b \in Int, a <= b
  PROVE  Trunc(a, Cell) \in Int /\ Trunc(b, Cell) \in Int /\ Trunc(a, Cell) <= Trunc(b, Cell)
<1>1. Cell \in Nat \ {0}
  BY HeatGridAssumption
<1>2. ASSUME NEW x \in Int, NEW y \in Int, x <= y
      PROVE  x \div Cell \in Int /\ y \div Cell \in Int /\ x \div Cell <= y \div Cell
  BY <1>1, <1>2, DivBounds, DivMonotonic
<1>3. ASSUME NEW x \in Nat PROVE x \div Cell >= 0
  <2>. DEFINE q == x \div Cell
  <2>1. q \in Int /\ Cell * q <= x /\ x < Cell * q + Cell
    BY <1>1, DivBounds
  <2>. HIDE DEF q
  <2>2. ASSUME q + 1 <= 0 PROVE FALSE
    <3>1. Cell * (q + 1) <= 0
      BY <1>1, <2>1, <2>2
    <3>. QED
      BY <1>1, <2>1, <3>1
  <2>. QED
    BY <2>1, <2>2 DEF q
<1>4. -a \in Int /\ -b \in Int /\ -b <= -a
  OBVIOUS
<1>5. CASE b < 0
  <2>1. Trunc(a, Cell) = -((-a) \div Cell) /\ Trunc(b, Cell) = -((-b) \div Cell)
    BY <1>5 DEF Trunc
  <2>2. (-a) \div Cell \in Int /\ (-b) \div Cell \in Int /\ (-b) \div Cell <= (-a) \div Cell
    BY <1>2, <1>4
  <2>. QED
    BY <2>1, <2>2
<1>6. CASE a < 0 /\ 0 <= b
  <2>1. Trunc(a, Cell) = -((-a) \div Cell) /\ Trunc(b, Cell) = b \div Cell
    BY <1>6 DEF Trunc
  <2>2. -a \in Nat /\ b \in Nat
    BY <1>6
  <2>3. (-a) \div Cell \in Int /\ (-a) \div Cell >= 0 /\ b \div Cell \in Int /\ b \div Cell >= 0
    BY <1>2, <1>3, <2>2
  <2>. QED
    BY <2>1, <2>3
<1>7. CASE 0 <= a
  <2>1. Trunc(a, Cell) = a \div Cell /\ Trunc(b, Cell) = b \div Cell
    BY <1>7 DEF Trunc
  <2>. QED
    BY <1>2, <2>1
<1>. QED
  BY <1>5, <1>6, <1>7

LEMMA ClampMonotonic ==
  ASSUME NEW a \in Int, NEW b \in Int, a <= b, NEW n \in Nat \ {0}
  PROVE  /\ Clamp(a, 0, n - 1) \in 0..(n - 1) /\ Clamp(b, 0, n - 1) \in 0..(n - 1)
         /\ Clamp(a, 0, n - 1) <= Clamp(b, 0, n - 1)
BY DEF Clamp

(* Cells are numbered from west to east and from north to south.           *)
LEMMA CellsInOrder ==
  ASSUME NEW box, IsBox(box), NEW a \in Int, NEW b \in Int, a <= b
  PROVE  /\ XOf(box, a) \in Int /\ XOf(box, b) \in Int /\ XOf(box, a) <= XOf(box, b)
         /\ YOf(box, a) \in Int /\ YOf(box, b) \in Int /\ YOf(box, b) <= YOf(box, a)
<1>. DEFINE west == box[1]
            north == box[4]
            x(v) == Trunc(v - west, Cell)
            y(v) == Trunc(north - v, Cell)
<1>1. west \in Int /\ north \in Int /\ Width(box) \in Nat \ {0} /\ Height(box) \in Nat \ {0}
  BY BoxSides, Dimensions
<1>. HIDE DEF west, north
<1>2. a - west \in Int /\ b - west \in Int /\ a - west <= b - west
      /\ north - a \in Int /\ north - b \in Int /\ north - b <= north - a
  BY <1>1
<1>3. x(a) \in Int /\ x(b) \in Int /\ x(a) <= x(b)
  BY <1>2, TruncMonotonic
<1>4. y(a) \in Int /\ y(b) \in Int /\ y(b) <= y(a)
  BY <1>2, TruncMonotonic
<1>5. /\ XOf(box, a) = Clamp(x(a), 0, Width(box) - 1) /\ XOf(box, b) = Clamp(x(b), 0, Width(box) - 1)
      /\ YOf(box, a) = Clamp(y(a), 0, Height(box) - 1) /\ YOf(box, b) = Clamp(y(b), 0, Height(box) - 1)
  BY DEF XOf, YOf, west, north
<1>. HIDE DEF x, y
<1>6. /\ Clamp(x(a), 0, Width(box) - 1) \in 0..(Width(box) - 1) /\ Clamp(x(b), 0, Width(box) - 1) \in 0..(Width(box) - 1)
      /\ Clamp(x(a), 0, Width(box) - 1) <= Clamp(x(b), 0, Width(box) - 1)
  BY <1>1, <1>3, ClampMonotonic
<1>7. /\ Clamp(y(a), 0, Height(box) - 1) \in 0..(Height(box) - 1) /\ Clamp(y(b), 0, Height(box) - 1) \in 0..(Height(box) - 1)
      /\ Clamp(y(b), 0, Height(box) - 1) <= Clamp(y(a), 0, Height(box) - 1)
  BY <1>1, <1>4, ClampMonotonic
<1>. QED
  BY <1>1, <1>5, <1>6, <1>7

LEMMA CentreInCell ==
  ASSUME NEW box, IsBox(box), NEW c \in GridCells(box)
  PROVE  LET m == Centre(box, c)
         IN  m \in LonLat /\ XOf(box, m[1]) = c[2] /\ YOf(box, m[2]) = c[1]
<1>. DEFINE half == Cell \div 2
            x == c[2]
            y == c[1]
            e == x * Cell + half
            s == y * Cell + half
            m == Centre(box, c)
<1>1. Cell \in Nat \ {0} /\ half \in Nat /\ half < Cell
  BY HeatGridAssumption
<1>2. box[1] \in Int /\ box[4] \in Int /\ Width(box) \in Nat \ {0} /\ Height(box) \in Nat \ {0}
  BY BoxSides, Dimensions
<1>3. x \in 0..(Width(box) - 1) /\ y \in 0..(Height(box) - 1)
  BY DEF GridCells
<1>. HIDE DEF half
<1>4. m = <<box[1] + x * Cell + half, box[4] - y * Cell - half>>
  BY DEF Centre, half
<1>. HIDE DEF x, y, m
<1>5. x * Cell \in Nat /\ y * Cell \in Nat /\ x * Cell = Cell * x /\ y * Cell = Cell * y
  BY <1>1, <1>3
<1>6. e \in Nat /\ Cell * x <= e /\ e < Cell * x + Cell
  BY <1>1, <1>5
<1>7. s \in Nat /\ Cell * y <= s /\ s < Cell * y + Cell
  BY <1>1, <1>5
<1>8. m \in LonLat /\ m[1] - box[1] = e /\ box[4] - m[2] = s
  BY <1>1, <1>2, <1>4, <1>5 DEF LonLat
<1>. HIDE DEF e, s
<1>9. e \div Cell = x /\ s \div Cell = y
  BY <1>1, <1>3, <1>6, <1>7, DivUnique
<1>10. Trunc(e, Cell) = x /\ Trunc(s, Cell) = y
  BY <1>6, <1>7, <1>9 DEF Trunc
<1>11. XOf(box, m[1]) = Clamp(x, 0, Width(box) - 1) /\ YOf(box, m[2]) = Clamp(y, 0, Height(box) - 1)
  BY <1>8, <1>10 DEF XOf, YOf
<1>12. XOf(box, m[1]) = x /\ YOf(box, m[2]) = y
  BY <1>2, <1>3, <1>11 DEF Clamp
<1>. QED
  BY <1>8, <1>12 DEF m, x, y

(* A cell whose centre a shape reaches is in the shape's window.           *)
LEMMA WindowReaches ==
  ASSUME NEW box, IsBox(box), NEW c \in GridCells(box),
         NEW g, IsShape(g), Near(g, Centre(box, c), Cutoff)
  PROVE  c \in Window(box, g)
<1>. DEFINE m == Centre(box, c)
            b == BBox(g)
<1>1. m \in LonLat /\ XOf(box, m[1]) = c[2] /\ YOf(box, m[2]) = c[1]
  BY CentreInCell
<1>2. Cutoff \in Nat /\ Corner4(b)
  BY ShapeBox, HeatGridAssumption
<1>. HIDE DEF m
<1>3. Within(m, b, Cutoff)
  BY <1>1, <1>2, NearWithin DEF m
<1>. HIDE DEF b
<1>4. /\ m[1] \in Int /\ m[2] \in Int
      /\ b[1] - Cutoff \in Int /\ b[3] + Cutoff \in Int /\ b[2] - Cutoff \in Int /\ b[4] + Cutoff \in Int
  BY <1>1, <1>2 DEF LonLat, Corner4
<1>5. /\ b[1] - Cutoff <= m[1] /\ m[1] <= b[3] + Cutoff
      /\ b[2] - Cutoff <= m[2] /\ m[2] <= b[4] + Cutoff
  BY <1>3 DEF Within
<1>6. XOf(box, b[1] - Cutoff) \in Int /\ XOf(box, m[1]) \in Int /\ XOf(box, b[1] - Cutoff) <= XOf(box, m[1])
  BY <1>4, <1>5, CellsInOrder
<1>7. XOf(box, b[3] + Cutoff) \in Int /\ XOf(box, m[1]) <= XOf(box, b[3] + Cutoff)
  BY <1>4, <1>5, CellsInOrder
<1>8. YOf(box, b[4] + Cutoff) \in Int /\ YOf(box, m[2]) \in Int /\ YOf(box, b[4] + Cutoff) <= YOf(box, m[2])
  BY <1>4, <1>5, CellsInOrder
<1>9. YOf(box, b[2] - Cutoff) \in Int /\ YOf(box, m[2]) <= YOf(box, b[2] - Cutoff)
  BY <1>4, <1>5, CellsInOrder
<1>10. c[2] \in XOf(box, b[1] - Cutoff)..XOf(box, b[3] + Cutoff) /\ c[1] \in YOf(box, b[4] + Cutoff)..YOf(box, b[2] - Cutoff)
  BY <1>1, <1>6, <1>7, <1>8, <1>9
<1>11. c = <<c[1], c[2]>>
  BY DEF GridCells
<1>. QED
  BY <1>10, <1>11 DEF Window, b

(* For every set of features, box, cell size and cutoff: no cell misses a  *)
(* feature that reaches it because the feature was not tried on it         *)
(* (heatmap.go:116-133).                                                   *)
THEOREM WindowsSuffice == AllSpec => []WindowComplete
<1>1. ASSUME Origin, Staged PROVE WindowComplete
  <2>. DEFINE box == scene.box
              features == scene.features
              Reach(c) == {f \in features : f.similarity > 0 /\ Build(f.geom) # NoGeom
                                              /\ Near(Build(f.geom), Centre(box, c), Cutoff)}
  <2>1. IsBox(box) /\ IsFiniteSet(features) /\ \A f \in features : f.similarity \in Int /\ IsRaw(f.geom)
    BY <1>1, StagedOrigin
  <2>2. Grid = Compute(features, box) /\ DOMAIN Grid = GridCells(box)
    BY <1>1, StagedGrid
  <2>. HIDE DEF box, features
  <2>3. ASSUME NEW c \in GridCells(box)
        PROVE  /\ \A f \in Reach(c) : HeatOf(f, box, c) <= Compute(features, box)[c]
               /\ \/ Compute(features, box)[c] = 0
                  \/ \E f \in Reach(c) : HeatOf(f, box, c) = Compute(features, box)[c]
    <3>. DEFINE v == Compute(features, box)[c]
    <3>1. /\ v \in Nat
          /\ \A f \in Warming(features, box, c) : HeatOf(f, box, c) <= v
          /\ v = 0 \/ \E f \in Warming(features, box, c) : HeatOf(f, box, c) = v
      BY <2>1, CellHeat
    <3>. HIDE DEF v
    <3>2. ASSUME NEW f \in Reach(c) PROVE HeatOf(f, box, c) <= v
      <4>1. IsShape(Build(f.geom))
        BY <2>1, BuildShape
      <4>2. c \in Window(box, Build(f.geom))
        BY <2>1, <4>1, WindowReaches
      <4>3. f \in Warming(features, box, c)
        BY <4>2 DEF Warming
      <4>. QED
        BY <3>1, <4>3
    <3>3. ASSUME v # 0 PROVE \E f \in Reach(c) : HeatOf(f, box, c) = v
      <4>1. PICK f \in Warming(features, box, c) : HeatOf(f, box, c) = v
        BY <3>1, <3>3
      <4>2. f \in features /\ f.similarity > 0 /\ Build(f.geom) # NoGeom
        BY DEF Warming
      <4>3. IsShape(Build(f.geom)) /\ Centre(box, c) \in LonLat
        BY <2>1, <4>2, BuildShape, CentreInCell
      <4>4. ASSUME ~Near(Build(f.geom), Centre(box, c), Cutoff) PROVE FALSE
        <5>1. Kernel(Build(f.geom), Centre(box, c)) = 0
          BY <4>3, <4>4, KernelOutside
        <5>2. Sq(Sq(f.similarity)) \in Int
          <6>1. Sq(f.similarity) \in Nat
            BY <2>1, <4>2, SquareNat
          <6>. QED
            BY <6>1, SquareNat
        <5>3. HeatOf(f, box, c) = 0
          BY <5>1, <5>2 DEF HeatOf
        <5>. QED
          BY <3>3, <4>1, <5>3
      <4>5. f \in Reach(c)
        BY <4>2, <4>4
      <4>. QED
        BY <4>1, <4>5
    <3>. QED
      BY <3>2, <3>3 DEF v
  <2>. QED
    BY <2>2, <2>3 DEF WindowComplete, HeatOf, box, features
<1>2. ASSUME ~Staged PROVE WindowComplete
  BY <1>2 DEF WindowComplete
<1>3. Origin => WindowComplete
  BY <1>1, <1>2
<1>. QED
  BY <1>3, OriginKept, PTL

-----------------------------------------------------------------------------
(* The plane seen with its axes exchanged.                                 *)
Flip(p) == <<p[2], p[1]>>

NorthEast(p, a) == a[1] > p[1] /\ a[2] > p[2]
SouthWest(p, a) == a[1] <= p[1] /\ a[2] <= p[2]

(* A place on the line between one vertex to its north-east and one that   *)
(* is not to its north or east is on the segment.                          *)
LEMMA OnSegment ==
  ASSUME NEW p \in LonLat, NEW s \in LonLat, NEW e \in LonLat, Gap(p, s, e) = 0,
         (NorthEast(p, s) /\ SouthWest(p, e)) \/ (SouthWest(p, s) /\ NorthEast(p, e))
  PROVE  SegNear(p, s, e, 1)
<1>. DEFINE x == p[1] - s[1]
            y == p[2] - s[2]
            v == e[1] - s[1]
            w == e[2] - s[2]
            along == x * v + y * w
            aside == x * w - y * v
<1>1. /\ p[1] \in Int /\ p[2] \in Int /\ s[1] \in Int /\ s[2] \in Int /\ e[1] \in Int /\ e[2] \in Int
      /\ x \in Int /\ y \in Int /\ v \in Int /\ w \in Int
  BY DEF LonLat
<1>2. aside = 0
  <2>1. Gap(p, s, e) = v * y - x * w
    <3>1. e[1] - p[1] = v - x /\ s[1] - p[1] = -x /\ e[2] - p[2] = w - y /\ p[2] - s[2] = y
      BY <1>1
    <3>. HIDE DEF x, y, v, w
    <3>2. (v - x) * y + (-x) * (w - y) = v * y - x * w
      BY <1>1
    <3>. QED
      BY <3>1, <3>2 DEF Gap
  <2>. HIDE DEF x, y, v, w
  <2>2. v * y = y * v /\ x * w \in Int /\ y * v \in Int
    BY <1>1
  <2>3. x * w = y * v
    BY <2>1, <2>2
  <2>4. x * w - y * v = 0
    BY <2>2, <2>3
  <2>. QED
    BY <2>4
<1>3. SqDist(s, e) = v * v + w * w
  <2>1. s[1] - e[1] = -v /\ s[2] - e[2] = -w
    BY <1>1
  <2>. HIDE DEF v, w
  <2>2. (-v) * (-v) = v * v /\ (-w) * (-w) = w * w
    BY <1>1
  <2>. QED
    BY <2>1, <2>2 DEF SqDist, Sq
<1>4. Sq(aside) = 0 /\ Sq(1) = 1
  BY <1>2 DEF Sq
<1>5. SegNear(p, s, e, 1) <=> IF along <= 0 THEN SqDist(p, s) < Sq(1)
                              ELSE IF along >= SqDist(s, e) THEN SqDist(p, e) < Sq(1)
                              ELSE Sq(aside) < Sq(1) * SqDist(s, e)
  BY DEF SegNear
<1>6. (x = 0 /\ y = 0) => SqDist(p, s) = 0
  BY DEF SqDist, Sq
<1>7. (x = v /\ y = w) => SqDist(p, e) = 0
  <2>1. ASSUME x = v, y = w PROVE p[1] - e[1] = 0 /\ p[2] - e[2] = 0
    BY <1>1, <2>1
  <2>. QED
    BY <2>1 DEF SqDist, Sq
<1>8. CASE SouthWest(p, s) /\ NorthEast(p, e)
  <2>1. 0 <= x /\ 0 <= y /\ x < v /\ y < w
    BY <1>1, <1>8 DEF SouthWest, NorthEast
  <2>. HIDE DEF x, y, v, w
  <2>2. x * v \in Nat /\ y * w \in Nat /\ v * v \in Nat /\ w * w \in Nat
    BY <1>1, <2>1
  <2>3. x * v < v * v /\ y * w < w * w
    BY <1>1, <2>1
  <2>4. (x # 0 => x * v # 0) /\ (y # 0 => y * w # 0)
    BY <1>1, <2>1
  <2>5. along <= 0 => x = 0 /\ y = 0
    BY <2>2, <2>4
  <2>6. along \in Int /\ along < v * v + w * w
    BY <2>2, <2>3
  <2>7. SqDist(s, e) \in Int /\ SqDist(s, e) > 0 /\ along < SqDist(s, e)
    BY <1>3, <2>2, <2>3, <2>6
  <2>. HIDE DEF along, aside
  <2>. QED
    BY <1>4, <1>5, <1>6, <2>5, <2>6, <2>7
<1>9. CASE NorthEast(p, s) /\ SouthWest(p, e)
  <2>. DEFINE x_ == -x
              y_ == -y
              v_ == -v
              w_ == -w
  <2>1. 0 < x_ /\ 0 < y_ /\ x_ <= v_ /\ y_ <= w_
    BY <1>1, <1>9 DEF SouthWest, NorthEast
  <2>. HIDE DEF x, y, v, w
  <2>2. /\ x_ \in Int /\ y_ \in Int /\ v_ \in Int /\ w_ \in Int
        /\ along = x_ * v_ + y_ * w_ /\ v * v + w * w = v_ * v_ + w_ * w_
        /\ (x_ = v_ => x = v) /\ (y_ = w_ => y = w)
    BY <1>1
  <2>. HIDE DEF x_, y_, v_, w_
  <2>3. /\ x_ * v_ \in Nat \ {0} /\ y_ * w_ \in Nat \ {0} /\ v_ * v_ \in Nat \ {0} /\ w_ * w_ \in Nat \ {0}
        /\ x_ * v_ <= v_ * v_ /\ y_ * w_ <= w_ * w_
    BY <2>1, <2>2
  <2>4. (x_ < v_ => x_ * v_ < v_ * v_) /\ (y_ < w_ => y_ * w_ < w_ * w_)
    BY <2>1, <2>2
  <2>5. along \in Int /\ along > 0 /\ SqDist(s, e) = v_ * v_ + w_ * w_ /\ SqDist(s, e) \in Int /\ SqDist(s, e) > 0
    BY <1>3, <2>2, <2>3
  <2>6. along >= SqDist(s, e) => x = v /\ y = w
    BY <2>1, <2>2, <2>3, <2>4, <2>5
  <2>. HIDE DEF along, aside
  <2>. QED
    BY <1>4, <1>5, <1>7, <2>5, <2>6
<1>. QED
  BY <1>8, <1>9

LEMMA FlipType ==
  ASSUME NEW p \in LonLat
  PROVE  Flip(p) \in LonLat /\ Flip(p)[1] = p[2] /\ Flip(p)[2] = p[1]
BY DEF Flip, LonLat

LEMMA FlipGap ==
  ASSUME NEW p \in LonLat, NEW a \in LonLat, NEW b \in LonLat
  PROVE  /\ Gap(p, a, b) \in Int /\ Gap(Flip(p), Flip(a), Flip(b)) = -Gap(p, a, b)
         /\ Gap(p, b, a) = -Gap(p, a, b)
<1>. DEFINE x == b[1] - p[1]
            y == p[2] - a[2]
            z == a[1] - p[1]
            t == b[2] - p[2]
            x_ == p[1] - b[1]
            y_ == a[2] - p[2]
            z_ == p[1] - a[1]
            t_ == p[2] - b[2]
<1>1. p[1] \in Int /\ p[2] \in Int /\ a[1] \in Int /\ a[2] \in Int /\ b[1] \in Int /\ b[2] \in Int
  BY DEF LonLat
<1>2. /\ x \in Int /\ y \in Int /\ z \in Int /\ t \in Int
      /\ x_ = -x /\ y_ = -y /\ z_ = -z /\ t_ = -t
  BY <1>1
<1>3. Gap(p, a, b) = x * y + z * t /\ Gap(p, b, a) = z * t_ + x * y_
  BY DEF Gap
<1>4. Gap(Flip(p), Flip(a), Flip(b)) = t * z_ + y_ * x
  BY FlipType DEF Gap
<1>. HIDE DEF x, y, z, t, x_, y_, z_, t_
<1>5. x * y \in Int /\ z * t \in Int /\ z * (-t) = -(z * t) /\ x * (-y) = -(x * y)
      /\ t * (-z) = -(z * t) /\ (-y) * x = -(x * y)
  BY <1>2
<1>. QED
  BY <1>2, <1>3, <1>4, <1>5

(* An edge the place is not on is crossed to the east and to the north, or *)
(* neither, unless just one of its ends is to the north-east.              *)
LEMMA RaysAtEdge ==
  ASSUME NEW p \in LonLat, NEW a \in LonLat, NEW b \in LonLat, ~SegNear(p, b, a, 1)
  PROVE  (NorthEast(p, a) <=> NorthEast(p, b)) <=> (Crosses(p, a, b) <=> Crosses(Flip(p), Flip(a), Flip(b)))
<1>. DEFINE east  == Crosses(p, a, b)
            north == Crosses(Flip(p), Flip(a), Flip(b))
            gap   == Gap(p, a, b)
<1>1. /\ p[1] \in Int /\ p[2] \in Int /\ a[1] \in Int /\ a[2] \in Int /\ b[1] \in Int /\ b[2] \in Int
      /\ gap \in Int
  BY FlipGap DEF LonLat
<1>2. east <=> /\ Straddles(p, a, b)
               /\ IF b[2] > a[2] THEN gap > 0 ELSE gap < 0
  BY CrossesStraddles
<1>3. /\ Flip(p) \in LonLat /\ Flip(p)[1] = p[2] /\ Flip(p)[2] = p[1]
      /\ Flip(a) \in LonLat /\ Flip(a)[1] = a[2] /\ Flip(a)[2] = a[1]
      /\ Flip(b) \in LonLat /\ Flip(b)[1] = b[2] /\ Flip(b)[2] = b[1]
  BY FlipType
<1>4. Straddles(Flip(p), Flip(a), Flip(b)) <=> (a[1] > p[1] /\ b[1] <= p[1]) \/ (a[1] <= p[1] /\ b[1] > p[1])
  BY <1>3 DEF Straddles
<1>5. north <=> /\ Straddles(Flip(p), Flip(a), Flip(b))
                /\ IF b[1] > a[1] THEN -gap > 0 ELSE -gap < 0
  <2>1. north <=> /\ Straddles(Flip(p), Flip(a), Flip(b))
                  /\ IF Flip(b)[2] > Flip(a)[2] THEN Gap(Flip(p), Flip(a), Flip(b)) > 0
                     ELSE Gap(Flip(p), Flip(a), Flip(b)) < 0
    BY <1>3, CrossesStraddles
  <2>2. Gap(Flip(p), Flip(a), Flip(b)) = -gap
    BY FlipGap
  <2>. QED
    BY <1>3, <2>1, <2>2
<1>6. a[2] > p[2] /\ b[2] > p[2] => (north <=> Straddles(Flip(p), Flip(a), Flip(b)))
  BY <1>1, <1>3, CrossesFromWest
<1>7. a[2] <= p[2] /\ b[2] <= p[2] => ~north
  BY <1>3, CrossesFromEast
<1>8. a[1] > p[1] /\ b[1] > p[1] => (east <=> Straddles(p, a, b))
  BY <1>1, CrossesFromWest
<1>9. a[1] <= p[1] /\ b[1] <= p[1] => ~east
  BY CrossesFromEast
<1>10. (NorthEast(p, a) /\ SouthWest(p, b)) \/ (SouthWest(p, a) /\ NorthEast(p, b)) => gap # 0
  <2>1. Gap(p, b, a) \in Int /\ Gap(p, b, a) + gap = 0
    <3>. DEFINE n == Gap(p, b, a)
    <3>1. n \in Int /\ n = -gap
      BY FlipGap
    <3>. HIDE DEF gap, n
    <3>2. n \in Int /\ n + gap = 0
      BY <1>1, <3>1
    <3>. QED
      BY <3>2 DEF n
  <2>. HIDE DEF gap
  <2>2. gap = 0 => Gap(p, b, a) = 0
    BY <2>1
  <2>. QED
    BY <2>2, OnSegment
<1>. HIDE DEF east, north, gap
<1>11. CASE a[1] > p[1] /\ b[1] > p[1]
  BY <1>1, <1>4, <1>5, <1>8, <1>11 DEF Straddles, NorthEast, east, north
<1>12. CASE a[1] <= p[1] /\ b[1] <= p[1]
  BY <1>1, <1>4, <1>5, <1>9, <1>12 DEF NorthEast, east, north
<1>13. CASE a[2] > p[2] /\ b[2] > p[2]
  BY <1>1, <1>2, <1>4, <1>6, <1>13 DEF Straddles, NorthEast, east, north
<1>14. CASE a[2] <= p[2] /\ b[2] <= p[2]
  BY <1>1, <1>2, <1>7, <1>14 DEF Straddles, NorthEast, east, north
<1>15. CASE NorthEast(p, a) /\ SouthWest(p, b)
  <2>1. gap # 0 /\ Straddles(p, a, b) /\ Straddles(Flip(p), Flip(a), Flip(b)) /\ ~(b[2] > a[2]) /\ ~(b[1] > a[1])
    BY <1>1, <1>4, <1>10, <1>15 DEF NorthEast, SouthWest, Straddles
  <2>2. (east <=> gap < 0) /\ (north <=> gap > 0) /\ ~NorthEast(p, b)
    BY <1>1, <1>2, <1>5, <1>15, <2>1 DEF NorthEast, SouthWest
  <2>. QED
    BY <1>1, <1>15, <2>1, <2>2 DEF east, north
<1>16. CASE SouthWest(p, a) /\ NorthEast(p, b)
  <2>1. gap # 0 /\ Straddles(p, a, b) /\ Straddles(Flip(p), Flip(a), Flip(b)) /\ b[2] > a[2] /\ b[1] > a[1]
    BY <1>1, <1>4, <1>10, <1>16 DEF NorthEast, SouthWest, Straddles
  <2>2. (east <=> gap > 0) /\ (north <=> gap < 0) /\ ~NorthEast(p, a)
    BY <1>1, <1>2, <1>5, <1>16, <2>1 DEF NorthEast, SouthWest
  <2>. QED
    BY <1>1, <1>16, <2>1, <2>2 DEF east, north
<1>17. CASE a[1] > p[1] /\ a[2] <= p[2] /\ b[1] <= p[1] /\ b[2] > p[2]
  <2>1. Straddles(p, a, b) /\ Straddles(Flip(p), Flip(a), Flip(b)) /\ b[2] > a[2] /\ ~(b[1] > a[1])
    BY <1>1, <1>4, <1>17 DEF Straddles
  <2>2. (east <=> gap > 0) /\ (north <=> gap > 0) /\ ~NorthEast(p, a) /\ ~NorthEast(p, b)
    BY <1>1, <1>2, <1>5, <1>17, <2>1 DEF NorthEast
  <2>. QED
    BY <2>2 DEF east, north
<1>18. CASE a[1] <= p[1] /\ a[2] > p[2] /\ b[1] > p[1] /\ b[2] <= p[2]
  <2>1. Straddles(p, a, b) /\ Straddles(Flip(p), Flip(a), Flip(b)) /\ ~(b[2] > a[2]) /\ b[1] > a[1]
    BY <1>1, <1>4, <1>18 DEF Straddles
  <2>2. (east <=> gap < 0) /\ (north <=> gap < 0) /\ ~NorthEast(p, a) /\ ~NorthEast(p, b)
    BY <1>1, <1>2, <1>5, <1>18, <2>1 DEF NorthEast
  <2>. QED
    BY <2>2 DEF east, north
<1>19. /\ a[1] > p[1] \/ a[1] <= p[1]
       /\ a[2] > p[2] \/ a[2] <= p[2]
       /\ b[1] > p[1] \/ b[1] <= p[1]
       /\ b[2] > p[2] \/ b[2] <= p[2]
  BY <1>1
<1>. QED
  BY <1>11, <1>12, <1>13, <1>14, <1>15, <1>16, <1>17, <1>18, <1>19 DEF NorthEast, SouthWest

(* Two sets that differ in an even number of members are both of an odd    *)
(* number of members, or neither is.                                       *)
LEMMA SameParity ==
  ASSUME NEW n \in Nat, NEW E \in SUBSET (1..n), NEW N \in SUBSET (1..n),
         Cardinality((E \ N) \cup (N \ E)) % 2 = 0
  PROVE  Cardinality(E) % 2 = 1 <=> Cardinality(N) % 2 = 1
<1>. DEFINE e == Cardinality(E)
            m == Cardinality(N)
            c == Cardinality(E \cap N)
            x == Cardinality(E \ N)
            y == Cardinality(N \ E)
<1>1. IsFiniteSet(E) /\ IsFiniteSet(N) /\ IsFiniteSet(E \ N) /\ IsFiniteSet(N \ E)
  <2>1. (E \ N) \in SUBSET (1..n) /\ (N \ E) \in SUBSET (1..n)
    OBVIOUS
  <2>. QED
    BY <2>1, IntervalSubset
<1>2. e \in Nat /\ m \in Nat /\ c \in Nat /\ x \in Nat /\ y \in Nat
  <2>1. (E \ N) \in SUBSET (1..n) /\ (N \ E) \in SUBSET (1..n) /\ (E \cap N) \in SUBSET (1..n)
    OBVIOUS
  <2>. QED
    BY <2>1, IntervalSubset
<1>3. x = e - c
  BY <1>1, FS_Difference
<1>4. y = m - c
  <2>1. y = m - Cardinality(N \cap E)
    BY <1>1, FS_Difference
  <2>2. N \cap E = E \cap N
    OBVIOUS
  <2>. QED
    BY <2>1, <2>2
<1>5. Cardinality((E \ N) \cup (N \ E)) = x + y
  <2>1. (E \ N) \cap (N \ E) = {}
    OBVIOUS
  <2>2. Cardinality((E \ N) \cup (N \ E)) = x + y - Cardinality((E \ N) \cap (N \ E))
    BY <1>1, FS_Union
  <2>3. Cardinality((E \ N) \cap (N \ E)) = 0
    BY <2>1, FS_EmptySet
  <2>. HIDE DEF x, y
  <2>. QED
    BY <1>2, <2>2, <2>3
<1>. HIDE DEF e, m, c, x, y
<1>6. (x + y) % 2 = 0
  BY <1>5
<1>7. e % 2 = 1 <=> m % 2 = 1
  BY <1>2, <1>3, <1>4, <1>6
<1>. QED
  BY <1>7 DEF e, m

Northern(p, ring) == {i \in 2..Len(ring) : Crosses(Flip(p), Flip(ring[i]), Flip(ring[i - 1]))}

(* Off the border of a ring, what counting to the east says inside of is   *)
(* what counting to the north does: going around, the vertices change to   *)
(* or from the north-east of the place an even number of times.            *)
LEMMA RaysAtRing ==
  ASSUME NEW p \in LonLat, NEW ring \in Seq(LonLat), ring # <<>>, ring[1] = Last(ring), ~LineNear(p, ring, 1)
  PROVE  InRing(p, ring) <=> Cardinality(Northern(p, ring)) % 2 = 1
<1>. DEFINE n == Len(ring)
            E == Crossed(p, ring)
            N == Northern(p, ring)
            ne == [i \in 1..n |-> IF NorthEast(p, ring[i]) THEN 1 ELSE 0]
<1>1. n \in Nat /\ n > 0 /\ DOMAIN ring = 1..n /\ ring[1] = ring[n]
  BY DEF Last
<1>2. E \in SUBSET (1..n) /\ N \in SUBSET (1..n)
  BY <1>1 DEF Crossed, Northern
<1>3. ASSUME NEW i \in 1..n
      PROVE  ne[i] # ne[IF i = 1 THEN n ELSE i - 1] <=> ((i \in E /\ i \notin N) \/ (i \in N /\ i \notin E))
  <2>. DEFINE j == IF i = 1 THEN n ELSE i - 1
              a == ring[i]
              b == ring[j]
  <2>1. i \in DOMAIN ring /\ j \in 1..n /\ a \in LonLat /\ b \in LonLat
    BY <1>1
  <2>2. i \in E <=> Crosses(p, a, b)
    BY <2>1 DEF Crossed, Previous
  <2>3. i \in N <=> i # 1 /\ Crosses(Flip(p), Flip(a), Flip(b))
    BY <1>1 DEF Northern
  <2>4. ne[i] # ne[j] <=> ~(NorthEast(p, a) <=> NorthEast(p, b))
    <3>1. ne[i] = (IF NorthEast(p, a) THEN 1 ELSE 0) /\ ne[j] = (IF NorthEast(p, b) THEN 1 ELSE 0)
      BY <2>1
    <3>2. 0 # 1
      OBVIOUS
    <3>. HIDE DEF a, b, ne, j
    <3>. QED
      BY <3>1, <3>2, Zenon
  <2>5. CASE i = 1
    <3>1. a = b
      BY <1>1, <2>5
    <3>. HIDE DEF E, N, ne, a, b, j
    <3>2. ~Crosses(p, a, b)
      <4>1. a[2] \in Int /\ p[2] \in Int
        BY <2>1 DEF LonLat
      <4>2. ~Straddles(p, a, b)
        BY <3>1, <4>1 DEF Straddles
      <4>. QED
        BY <2>1, <4>2, CrossesStraddles
    <3>. QED
      BY <2>2, <2>3, <2>4, <2>5, <3>1, <3>2 DEF j
  <2>6. CASE i # 1
    <3>1. i \in 2..Len(ring) /\ b = ring[i - 1]
      BY <1>1, <2>6
    <3>2. ~SegNear(p, b, a, 1)
      BY <3>1 DEF LineNear
    <3>. HIDE DEF E, N, ne, a, b
    <3>3. (NorthEast(p, a) <=> NorthEast(p, b)) <=> (Crosses(p, a, b) <=> Crosses(Flip(p), Flip(a), Flip(b)))
      BY <2>1, <3>2, RaysAtEdge
    <3>. QED
      BY <2>2, <2>3, <2>4, <2>6, <3>3
  <2>. QED
    BY <2>5, <2>6
<1>4. \A i \in 1..n : ne[i] \in {0, 1}
  OBVIOUS
<1>. HIDE DEF E, N, ne, n
<1>5. Changes(ne, n) = (E \ N) \cup (N \ E)
  BY <1>2, <1>3 DEF Changes
<1>6. Cardinality((E \ N) \cup (N \ E)) % 2 = 0
  BY <1>1, <1>4, <1>5, ChangesEven
<1>7. Cardinality(E) % 2 = 1 <=> Cardinality(N) % 2 = 1
  BY <1>1, <1>2, <1>6, SameParity
<1>. QED
  BY <1>7, InRingCrossed DEF E, N

(* For every polygon with a ring that ends where it starts, whatever its   *)
(* shape, and every place of a box that is not on it (geom.go:242-253).    *)
THEOREM RaysMeet == AllSpec => []RaysAgree
<1>1. ASSUME Origin, Staged PROVE RaysAgree
  <2>1. IsBox(scene.box) /\ \A f \in scene.features : IsRaw(f.geom)
    BY <1>1, StagedOrigin
  <2>2. SUFFICES ASSUME NEW f \in scene.features, f.geom.type = "Polygon", f.geom.coordinates # <<>>,
                        f.geom.coordinates[1] # <<>>, f.geom.coordinates[1][1] = Last(f.geom.coordinates[1]),
                        NEW p \in Places(scene.box), ~LineNear(p, f.geom.coordinates[1], 1)
                 PROVE  InRing(p, f.geom.coordinates[1])
                          <=> Cardinality(Northern(p, f.geom.coordinates[1])) % 2 = 1
    BY DEF RaysAgree, Northern, Flip
  <2>3. f.geom.coordinates \in Seq(Seq(LonLat))
    BY <2>1, <2>2 DEF IsRaw, IsSimple
  <2>4. f.geom.coordinates[1] \in Seq(LonLat)
    BY <2>2, <2>3
  <2>5. p \in LonLat
    BY <2>1 DEF Places, IsBox, LonLat
  <2>. QED
    BY <2>2, <2>4, <2>5, RaysAtRing
<1>2. ASSUME ~Staged PROVE RaysAgree
  BY <1>2 DEF RaysAgree
<1>3. Origin => RaysAgree
  BY <1>1, <1>2
<1>. QED
  BY <1>3, OriginKept, PTL
=============================================================================
