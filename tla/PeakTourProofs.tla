--------------------------- MODULE PeakTourProofs ---------------------------
(***************************************************************************)
(* Proofs about PeakTour for any number of peaks, any matrix of integers,  *)
(* any budget and any heats: the Held-Karp recurrence finds the least time *)
(* of a walk, the walk back through prev is such a walk, and the order     *)
(* chosen is the hottest that the budget allows.                           *)
(***************************************************************************)
EXTENDS MCPeakTour, SumTheorems

IsMatrix(m, n) == \A i, j \in 0..(n + 1) : m[i][j] \in Int

(* The time of a tour without the way back to the end of the route.        *)
WalkTime(m, t) ==
  SumFunctionOnSet([i \in 1..Len(t) |-> m[Place(t, i - 1)][Place(t, i)]], 1..Len(t))

-----------------------------------------------------------------------------
LEMMA PlaceType ==
  ASSUME NEW n \in Nat, NEW t \in Seq(1..n), NEW i \in Nat
  PROVE  Place(t, i) \in 0..(n + 1)
<1>1. CASE i \in 1..Len(t)
  <2>1. t[i] \in 1..n
    BY <1>1
  <2>. QED
    BY <1>1, <2>1 DEF Place
<1>2. CASE i \notin 1..Len(t)
  BY <1>2 DEF Place
<1>. QED
  BY <1>1, <1>2

LEMMA LegType ==
  ASSUME NEW n \in Nat, NEW m, IsMatrix(m, n), NEW t \in Seq(1..n), NEW i \in Nat \ {0}
  PROVE  m[Place(t, i - 1)][Place(t, i)] \in Int
<1>1. i - 1 \in Nat
  OBVIOUS
<1>2. Place(t, i - 1) \in 0..(n + 1) /\ Place(t, i) \in 0..(n + 1)
  BY <1>1, PlaceType
<1>. QED
  BY <1>2 DEF IsMatrix

LEMMA WalkTimeType ==
  ASSUME NEW n \in Nat, NEW m, IsMatrix(m, n), NEW t \in Seq(1..n)
  PROVE  WalkTime(m, t) \in Int
<1>. DEFINE e == [i \in 1..Len(t) |-> m[Place(t, i - 1)][Place(t, i)]]
<1>1. IsFiniteSet(1..Len(t))
  BY FS_Interval
<1>2. IntsOn(e, 1..Len(t))
  BY LegType DEF IntsOn
<1>. HIDE DEF e
<1>3. SumFunctionOnSet(e, 1..Len(t)) \in Int
  BY <1>1, <1>2, SumType
<1>. QED
  BY <1>3 DEF WalkTime, e

(* The way back to the end is the last leg of a tour.                      *)
LEMMA TourTimeWalk ==
  ASSUME NEW n \in Nat, NEW m, IsMatrix(m, n), NEW t \in Seq(1..n), Len(t) > 0
  PROVE  TourTime(m, t) = WalkTime(m, t) + m[1 + t[Len(t)]][1]
<1>. DEFINE k == Len(t)
            Leg(i) == m[Place(t, i - 1)][Place(t, i)]
            f == [i \in 1..(k + 1) |-> Leg(i)]
            e == [i \in 1..k |-> Leg(i)]
<1>1. k \in Nat /\ IsFiniteSet(1..k)
  BY FS_Interval
<1>2. \A i \in 1..(k + 1) : Leg(i) \in Int
  BY LegType
<1>3. IntsOn(f, 1..(k + 1)) /\ IntsOn(f, 1..k) /\ (\A i \in 1..k : f[i] = e[i])
  BY <1>1, <1>2 DEF IntsOn
<1>4. f[k + 1] = m[1 + t[Len(t)]][1]
  <2>1. Place(t, k) = 1 + t[Len(t)] /\ Place(t, k + 1) = 1 /\ k + 1 - 1 = k
    BY <1>1 DEF Place
  <2>2. f[k + 1] = Leg(k + 1)
    BY <1>1
  <2>. QED
    BY <2>1, <2>2
<1>5. TourTime(m, t) = SumFunctionOnSet(f, 1..(k + 1)) /\ WalkTime(m, t) = SumFunctionOnSet(e, 1..k)
  BY DEF TourTime, WalkTime
<1>. HIDE DEF f, e, k
<1>6. SumFunctionOnSet(f, 1..(k + 1)) = SumFunctionOnSet(f, 1..k) + f[k + 1]
  BY <1>1, <1>3, SumLast
<1>7. SumFunctionOnSet(f, 1..k) = SumFunctionOnSet(e, 1..k)
  BY <1>1, <1>3, SumSame
<1>. QED
  BY <1>4, <1>5, <1>6, <1>7

LEMMA WalkTimeOne ==
  ASSUME NEW n \in Nat, NEW m, IsMatrix(m, n), NEW j \in 1..n
  PROVE  WalkTime(m, <<j>>) = m[0][1 + j]
<1>. DEFINE e == [i \in 1..Len(<<j>>) |-> m[Place(<<j>>, i - 1)][Place(<<j>>, i)]]
<1>1. Len(<<j>>) = 1 /\ <<j>>[1] = j
  OBVIOUS
<1>2. Place(<<j>>, 0) = 0 /\ Place(<<j>>, 1) = 1 + j
  BY <1>1 DEF Place
<1>3. e[1] = m[0][1 + j] /\ e[1] \in Int
  BY <1>1, <1>2 DEF IsMatrix
<1>4. WalkTime(m, <<j>>) = SumFunctionOnSet(e, 1..1)
  BY <1>1 DEF WalkTime
<1>. HIDE DEF e
<1>5. IntsOn(e, 1..(0 + 1))
  BY <1>3 DEF IntsOn
<1>6. SumFunctionOnSet(e, 1..(0 + 1)) = SumFunctionOnSet(e, 1..0) + e[0 + 1]
  BY <1>5, SumLast
<1>7. 1..0 = {} /\ 0 + 1 = 1
  OBVIOUS
<1>8. SumFunctionOnSet(e, 1..0) = 0
  BY <1>7, SumEmpty
<1>. QED
  BY <1>3, <1>4, <1>6, <1>7, <1>8

LEMMA WalkTimeAppend ==
  ASSUME NEW n \in Nat, NEW m, IsMatrix(m, n), NEW t \in Seq(1..n), Len(t) > 0, NEW j \in 1..n
  PROVE  WalkTime(m, Append(t, j)) = WalkTime(m, t) + m[1 + t[Len(t)]][1 + j]
<1>. DEFINE k == Len(t)
            a == Append(t, j)
            Leg(u, i) == m[Place(u, i - 1)][Place(u, i)]
            f == [i \in 1..(k + 1) |-> Leg(a, i)]
            e == [i \in 1..k |-> Leg(t, i)]
<1>1. k \in Nat /\ IsFiniteSet(1..k)
  BY FS_Interval
<1>2. a \in Seq(1..n) /\ Len(a) = k + 1 /\ a[k + 1] = j /\ \A i \in 1..k : a[i] = t[i]
  OBVIOUS
<1>3. \A i \in 0..k : Place(a, i) = Place(t, i)
  BY <1>1, <1>2 DEF Place
<1>4. ASSUME NEW i \in 1..(k + 1) PROVE f[i] \in Int
  <2>1. f[i] = Leg(a, i) /\ i \in Nat \ {0}
    BY <1>1
  <2>. HIDE DEF a, f
  <2>2. m[Place(a, i - 1)][Place(a, i)] \in Int
    BY <1>2, <2>1, LegType
  <2>. QED
    BY <2>1, <2>2
<1>5. IntsOn(f, 1..(k + 1)) /\ IntsOn(f, 1..k)
  <2>1. 1..k \subseteq 1..(k + 1)
    BY <1>1
  <2>. HIDE DEF f, a, k
  <2>. QED
    BY <1>4, <2>1 DEF IntsOn
<1>6. \A i \in 1..k : f[i] = e[i]
  <2>1. ASSUME NEW i \in 1..k PROVE f[i] = e[i]
    <3>1. i - 1 \in 0..k /\ i \in 0..k /\ i \in 1..(k + 1)
      BY <1>1
    <3>2. Leg(a, i) = Leg(t, i)
      BY <1>3, <3>1
    <3>. QED
      BY <3>1, <3>2
  <2>. QED
    BY <2>1
<1>7. f[k + 1] = m[1 + t[Len(t)]][1 + j]
  <2>1. Place(a, k) = 1 + t[Len(t)] /\ Place(a, k + 1) = 1 + j /\ k + 1 - 1 = k
    BY <1>1, <1>2 DEF Place
  <2>2. f[k + 1] = m[Place(a, k + 1 - 1)][Place(a, k + 1)]
    BY <1>1
  <2>. QED
    BY <2>1, <2>2
<1>8. WalkTime(m, a) = SumFunctionOnSet(f, 1..(k + 1)) /\ WalkTime(m, t) = SumFunctionOnSet(e, 1..k)
  BY <1>2 DEF WalkTime
<1>. HIDE DEF f, e, k, a
<1>9. SumFunctionOnSet(f, 1..(k + 1)) = SumFunctionOnSet(f, 1..k) + f[k + 1]
  BY <1>1, <1>5, SumLast
<1>10. SumFunctionOnSet(f, 1..k) = SumFunctionOnSet(e, 1..k)
  BY <1>1, <1>5, <1>6, SumSame
<1>. QED
  BY <1>7, <1>8, <1>9, <1>10 DEF a

-----------------------------------------------------------------------------
(* Tours that visit each peak of a set once.                               *)
LEMMA MaskFinite ==
  ASSUME NEW n \in Nat, NEW mask \in SUBSET (1..n)
  PROVE  IsFiniteSet(mask) /\ Cardinality(mask) \in Nat
<1>1. 1 \in Int /\ n \in Int
  OBVIOUS
<1>2. IsFiniteSet(1..n)
  BY <1>1, FS_Interval
<1>3. IsFiniteSet(mask)
  BY <1>2, FS_Subset
<1>. QED
  BY <1>3, FS_CardinalityType

LEMMA ToursType ==
  ASSUME NEW n \in Nat, NEW mask \in SUBSET (1..n), NEW t \in SetToSeqs(mask)
  PROVE  /\ Cardinality(mask) \in Nat /\ IsFiniteSet(mask)
         /\ Len(t) = Cardinality(mask)
         /\ t \in Seq(mask) /\ t \in Seq(1..n)
         /\ \A i, j \in 1..Len(t) : i # j => t[i] # t[j]
<1>1. IsFiniteSet(mask) /\ Cardinality(mask) \in Nat
  BY MaskFinite
<1>2. t \in [1..Cardinality(mask) -> mask] /\ \A i, j \in 1..Cardinality(mask) : i # j => t[i] # t[j]
  BY DEF SetToSeqs
<1>3. t \in Seq(mask) /\ Len(t) = Cardinality(mask)
  BY <1>1, <1>2
<1>4. t \in Seq(1..n)
  <2>1. \A i \in 1..Cardinality(mask) : t[i] \in 1..n
    BY <1>2
  <2>2. t \in [1..Cardinality(mask) -> 1..n]
    BY <1>2, <2>1
  <2>. QED
    BY <1>1, <2>2
<1>. QED
  BY <1>1, <1>2, <1>3, <1>4

LEMMA TourGrows ==
  ASSUME NEW n \in Nat, NEW mask \in SUBSET (1..n), NEW j \in mask, NEW t \in SetToSeqs(mask \ {j})
  PROVE  Append(t, j) \in SetToSeqs(mask)
<1>. DEFINE rest == mask \ {j}
            k == Cardinality(rest)
            a == Append(t, j)
<1>1. rest \in SUBSET (1..n) /\ t \in SetToSeqs(rest)
  OBVIOUS
<1>2. k \in Nat /\ Len(t) = k /\ t \in Seq(rest) /\ \A i, h \in 1..k : i # h => t[i] # t[h]
  <2>. HIDE DEF rest
  <2>. QED
    BY <1>1, ToursType
<1>3. Cardinality(mask) = k + 1
  <2>1. IsFiniteSet(mask) /\ Cardinality(mask) \in Nat
    BY MaskFinite
  <2>2. k = Cardinality(mask) - 1
    BY <2>1, FS_RemoveElement
  <2>. QED
    BY <2>1, <2>2
<1>4. a \in Seq(mask) /\ Len(a) = k + 1 /\ a[k + 1] = j /\ \A i \in 1..k : a[i] = t[i] /\ t[i] \in rest
  <2>1. \A i \in 1..k : t[i] \in rest
    BY <1>2
  <2>2. t \in [1..k -> mask]
    BY <1>2, <2>1
  <2>3. t \in Seq(mask) /\ j \in mask
    BY <1>2, <2>2
  <2>. HIDE DEF k, rest
  <2>4. a \in Seq(mask) /\ Len(a) = k + 1 /\ a[k + 1] = j /\ \A i \in 1..k : a[i] = t[i]
    BY <1>2, <2>3
  <2>. QED
    BY <2>1, <2>4
<1>5. a \in [1..(k + 1) -> mask]
  <2>. HIDE DEF a, k
  <2>. QED
    BY <1>4
<1>6. ASSUME NEW i \in 1..(k + 1), NEW h \in 1..(k + 1), i # h PROVE a[i] # a[h]
  <2>. HIDE DEF a, k
  <2>1. CASE i \in 1..k /\ h \in 1..k
    BY <1>2, <1>4, <1>6, <2>1
  <2>2. CASE i = k + 1
    <3>1. h \in 1..k
      BY <1>2, <1>6, <2>2
    <3>. QED
      BY <1>4, <2>2, <3>1
  <2>3. CASE h = k + 1
    <3>1. i \in 1..k
      BY <1>2, <1>6, <2>3
    <3>. QED
      BY <1>4, <2>3, <3>1
  <2>. QED
    BY <1>2, <2>1, <2>2, <2>3
<1>. HIDE DEF a, k
<1>. QED
  BY <1>3, <1>5, <1>6 DEF SetToSeqs, a

LEMMA TourOne ==
  ASSUME NEW j
  PROVE  <<j>> \in SetToSeqs({j})
<1>. DEFINE S == {j}
            k == Cardinality(S)
<1>1. k = 1
  BY FS_Singleton
<1>. HIDE DEF k
<1>2. <<j>> \in [1..k -> S] /\ \A i, h \in 1..k : i # h => <<j>>[i] # <<j>>[h]
  BY <1>1
<1>. QED
  BY <1>2 DEF SetToSeqs, k

LEMMA TourShrinks ==
  ASSUME NEW n \in Nat, NEW mask \in SUBSET (1..n), mask # {}, NEW t \in SetToSeqs(mask)
  PROVE  \E j \in mask : \E u \in SetToSeqs(mask \ {j}) :
           t = Append(u, j) /\ Len(t) > 0 /\ t[Len(t)] = j
<1>. DEFINE k == Cardinality(mask)
            j == t[k]
            u == [i \in 1..(k - 1) |-> t[i]]
<1>1. /\ k \in Nat /\ IsFiniteSet(mask) /\ Len(t) = k /\ t \in Seq(mask)
      /\ \A i, h \in 1..k : i # h => t[i] # t[h]
  BY ToursType
<1>2. k # 0
  BY <1>1, FS_EmptySet
<1>3. j \in mask /\ k - 1 \in Nat
  BY <1>1, <1>2
<1>4. \A i \in 1..(k - 1) : t[i] \in mask \ {j}
  BY <1>1, <1>2
<1>5. Cardinality(mask \ {j}) = k - 1
  <2>. HIDE DEF j
  <2>. QED
    BY <1>1, <1>3, FS_RemoveElement
<1>6. u \in [1..(k - 1) -> mask \ {j}]
  <2>. HIDE DEF j
  <2>. QED
    BY <1>4
<1>7. \A i, h \in 1..(k - 1) : i # h => u[i] # u[h]
  BY <1>1, <1>2
<1>8. u \in SetToSeqs(mask \ {j})
  <2>. HIDE DEF u, j, k
  <2>. QED
    BY <1>5, <1>6, <1>7 DEF SetToSeqs
<1>9. t = Append(u, j)
  <2>1. u \in Seq(mask) /\ Len(u) = k - 1
    BY <1>1, <1>3
  <2>. QED
    BY <1>1, <1>2, <1>3, <2>1
<1>10. Len(t) > 0 /\ t[Len(t)] = j
  BY <1>1, <1>2
<1>. HIDE DEF u, j, k
<1>. QED
  BY <1>3, <1>8, <1>9, <1>10

-----------------------------------------------------------------------------
(* The tables: what each entry is, and that the recursion defines them.    *)
Via(dp, m, mask, j) == [i \in mask \ {j} |-> dp[mask \ {j}][i] + m[1 + i][1 + j]]

TravelStep(dp, m, mask) ==
  [j \in mask |->
     IF mask = {j} THEN m[0][1 + j]
     ELSE Min({dp[mask \ {j}][i] + m[1 + i][1 + j] : i \in mask \ {j}})]

IsTravel(dp, n, m) ==
  \A mask \in SUBSET (1..n) : dp[mask] \in [mask -> Int] /\ dp[mask] = TravelStep(dp, m, mask)

LEMMA ViaType ==
  ASSUME NEW n \in Nat, NEW m, IsMatrix(m, n), NEW mask \in SUBSET (1..n), NEW j \in mask, mask # {j},
         NEW g, g[mask \ {j}] \in [mask \ {j} -> Int]
  PROVE  /\ IsFiniteSet(mask \ {j}) /\ mask \ {j} # {}
         /\ \A i \in mask \ {j} : Via(g, m, mask, j)[i] \in Int
<1>1. IsFiniteSet(mask)
  BY MaskFinite
<1>2. IsFiniteSet(mask \ {j})
  BY <1>1, FS_Subset
<1>3. ASSUME NEW i \in mask \ {j} PROVE Via(g, m, mask, j)[i] \in Int
  <2>1. 1 + i \in 0..(n + 1) /\ 1 + j \in 0..(n + 1)
    OBVIOUS
  <2>2. m[1 + i][1 + j] \in Int
    BY <2>1 DEF IsMatrix
  <2>3. g[mask \ {j}][i] \in Int
    OBVIOUS
  <2>. QED
    BY <2>2, <2>3 DEF Via
<1>. QED
  BY <1>2, <1>3

LEMMA TravelStepType ==
  ASSUME NEW n \in Nat, NEW m, IsMatrix(m, n), NEW mask \in SUBSET (1..n),
         NEW g, \A U \in SUBSET mask : U # mask => g[U] \in [U -> Int]
  PROVE  TravelStep(g, m, mask) \in [mask -> Int]
<1>1. ASSUME NEW j \in mask PROVE TravelStep(g, m, mask)[j] \in Int
  <2>1. CASE mask = {j}
    <3>1. 0 \in 0..(n + 1) /\ 1 + j \in 0..(n + 1)
      OBVIOUS
    <3>2. m[0][1 + j] \in Int
      BY <3>1 DEF IsMatrix
    <3>. QED
      BY <2>1, <3>2 DEF TravelStep
  <2>2. CASE mask # {j}
    <3>. DEFINE f == Via(g, m, mask, j)
                rest == mask \ {j}
    <3>1. g[rest] \in [rest -> Int]
      OBVIOUS
    <3>2. IsFiniteSet(rest) /\ rest # {} /\ \A i \in rest : f[i] \in Int
      BY <2>2, <3>1, ViaType
    <3>3. TravelStep(g, m, mask)[j] = Min({f[i] : i \in rest})
      BY <2>2 DEF TravelStep, Via
    <3>. HIDE DEF f, rest
    <3>4. Min({f[i] : i \in rest}) \in Int
      BY <3>2, ImageMin
    <3>. QED
      BY <3>3, <3>4
  <2>. QED
    BY <2>1, <2>2
<1>2. TravelStep(g, m, mask) = [j \in mask |-> TravelStep(g, m, mask)[j]]
  BY DEF TravelStep
<1>. QED
  BY <1>1, <1>2

LEMMA TravelStepSame ==
  ASSUME NEW n \in Nat, NEW m, NEW mask \in SUBSET (1..n),
         NEW g, NEW h, \A U \in SUBSET mask : U # mask => g[U] = h[U]
  PROVE  TravelStep(g, m, mask) = TravelStep(h, m, mask)
<1>1. ASSUME NEW j \in mask PROVE g[mask \ {j}] = h[mask \ {j}]
  OBVIOUS
<1>. QED
  BY <1>1 DEF TravelStep

LEMMA TravelTable ==
  ASSUME NEW n \in Nat, NEW m, IsMatrix(m, n)
  PROVE  IsTravel(Travel(n, m), n, m)
<1>. DEFINE S == 1..n
            W == [T \in SUBSET S |-> [T -> Int]]
            V == UNION {[T -> Int] : T \in SUBSET S}
            G == [p \in (SUBSET S) \X [SUBSET S -> V] |-> TravelStep(p[2], m, p[1])]
            dp == CHOOSE dp : dp = [mask \in SUBSET S |-> TravelStep(dp, m, mask)]
<1>1. IsFiniteSet(S)
  <2>1. S \in SUBSET (1..n)
    OBVIOUS
  <2>. HIDE DEF S
  <2>. QED
    BY <2>1, MaskFinite
<1>2. \A T \in SUBSET S : \A g \in [SUBSET S -> V] : G[<<T, g>>] = TravelStep(g, m, T)
  OBVIOUS
<1>3. \A T \in SUBSET S : W[T] # {} /\ W[T] \subseteq V
  <2>1. ASSUME NEW T \in SUBSET S PROVE W[T] # {} /\ W[T] \subseteq V
    <3>1. [j \in T |-> 0] \in [T -> Int]
      OBVIOUS
    <3>. QED
      BY <3>1
  <2>. QED
    BY <2>1
<1>4. ASSUME NEW T \in SUBSET S, NEW g, \A U \in SUBSET T : U # T => g[U] \in W[U]
      PROVE  TravelStep(g, m, T) \in W[T]
  <2>1. \A U \in SUBSET T : U # T => g[U] \in [U -> Int]
    BY <1>4
  <2>. QED
    BY <2>1, TravelStepType
<1>. HIDE DEF G, V
<1>5. Stepper(G, S, V, W)
  <2>1. ASSUME NEW T \in SUBSET S, NEW g \in [SUBSET S -> V], \A U \in SUBSET T : U # T => g[U] \in W[U]
        PROVE  G[<<T, g>>] \in W[T]
    <3>1. TravelStep(g, m, T) \in W[T]
      BY <1>4, <2>1
    <3>. HIDE DEF W, S
    <3>. QED
      BY <1>2, <3>1
  <2>2. ASSUME NEW T \in SUBSET S, NEW g \in [SUBSET S -> V], NEW h \in [SUBSET S -> V],
               \A U \in SUBSET T : U # T => g[U] = h[U]
        PROVE  G[<<T, g>>] = G[<<T, h>>]
    <3>1. TravelStep(g, m, T) = TravelStep(h, m, T)
      BY <2>2, TravelStepSame
    <3>. HIDE DEF S
    <3>. QED
      BY <1>2, <3>1
  <2>. HIDE DEF W, S
  <2>. QED
    BY <1>3, <2>1, <2>2 DEF Stepper
<1>6. \E f : Recursive(f, G, S, V)
  <2>. HIDE DEF S, W
  <2>. QED
    BY <1>1, <1>5, TypedRecursion
<1>7. PICK f : Recursive(f, G, S, V)
  BY <1>6
<1>8. f \in [SUBSET S -> V] /\ \A T \in SUBSET S : f[T] = TravelStep(f, m, T)
  BY <1>2, <1>7 DEF Recursive
<1>9. f = [T \in SUBSET S |-> TravelStep(f, m, T)]
  BY <1>8
<1>10. dp = [T \in SUBSET S |-> TravelStep(dp, m, T)]
  BY <1>9
<1>11. Travel(n, m) = dp
  BY DEF Travel, TravelStep
<1>. HIDE DEF dp, S
<1>12. \A T \in SUBSET S : dp[T] = TravelStep(dp, m, T)
  BY <1>10
<1>. DEFINE K == {T \in SUBSET S : dp[T] \in W[T]}
<1>13. ASSUME NEW T \in SUBSET S, \A U \in SUBSET T : U # T => U \in K PROVE T \in K
  BY <1>4, <1>12, <1>13
<1>14. SUBSET S \subseteq K
  <2>. HIDE DEF K
  <2>. QED
    BY <1>1, <1>13, SubsetInductive
<1>15. \A T \in SUBSET S : dp[T] \in [T -> Int]
  BY <1>14
<1>. QED
  BY <1>11, <1>12, <1>15 DEF IsTravel, S

(* An entry is the best of the ways to get there, and prev one of those.   *)
LEMMA TravelEntry ==
  ASSUME NEW n \in Nat, NEW m, IsMatrix(m, n), NEW dp, IsTravel(dp, n, m),
         NEW mask \in SUBSET (1..n), NEW j \in mask
  PROVE  /\ dp[mask][j] \in Int
         /\ mask # {j} =>
              /\ \A i \in mask \ {j} :
                   /\ dp[mask \ {j}][i] \in Int /\ m[1 + i][1 + j] \in Int
                   /\ dp[mask][j] <= dp[mask \ {j}][i] + m[1 + i][1 + j]
              /\ Prev(dp, m, mask, j) \in mask \ {j}
              /\ dp[mask][j] = dp[mask \ {j}][Prev(dp, m, mask, j)] + m[1 + Prev(dp, m, mask, j)][1 + j]
<1>1. dp[mask][j] \in Int /\ dp[mask][j] = TravelStep(dp, m, mask)[j]
  BY DEF IsTravel
<1>2. ASSUME mask # {j}
      PROVE  /\ \A i \in mask \ {j} :
                   /\ dp[mask \ {j}][i] \in Int /\ m[1 + i][1 + j] \in Int
                   /\ dp[mask][j] <= dp[mask \ {j}][i] + m[1 + i][1 + j]
             /\ Prev(dp, m, mask, j) \in mask \ {j}
             /\ dp[mask][j] = dp[mask \ {j}][Prev(dp, m, mask, j)] + m[1 + Prev(dp, m, mask, j)][1 + j]
  <2>. DEFINE rest == mask \ {j}
              f == Via(dp, m, mask, j)
              best == {i \in rest : f[i] = dp[mask][j]}
  <2>1. rest \in SUBSET (1..n) /\ dp[rest] \in [rest -> Int]
    BY DEF IsTravel
  <2>2. IsFiniteSet(rest) /\ rest # {} /\ \A i \in rest : f[i] \in Int
    BY <1>2, <2>1, ViaType
  <2>3. \A i \in rest : f[i] = dp[rest][i] + m[1 + i][1 + j]
    BY DEF Via
  <2>4. dp[mask][j] = Min({f[i] : i \in rest})
    BY <1>1, <1>2 DEF TravelStep, Via
  <2>5. \A i \in rest : dp[rest][i] \in Int /\ m[1 + i][1 + j] \in Int
    <3>1. ASSUME NEW i \in rest PROVE dp[rest][i] \in Int /\ m[1 + i][1 + j] \in Int
      <4>1. 1 + i \in 0..(n + 1) /\ 1 + j \in 0..(n + 1)
        OBVIOUS
      <4>. QED
        BY <2>1, <4>1 DEF IsMatrix
    <3>. QED
      BY <3>1
  <2>6. Prev(dp, m, mask, j) = Min(best)
    BY DEF Prev, Via
  <2>. HIDE DEF f, rest
  <2>7. (\E i \in rest : dp[mask][j] = f[i]) /\ \A i \in rest : dp[mask][j] <= f[i]
    <3>. DEFINE least == Min({f[i] : i \in rest})
    <3>1. (\E i \in rest : least = f[i]) /\ \A i \in rest : least <= f[i]
      BY <2>2, ImageMin
    <3>. HIDE DEF least
    <3>2. dp[mask][j] = least
      BY <2>4 DEF least
    <3>. QED
      BY <3>1, <3>2
  <2>8. best \in SUBSET Int /\ best # {} /\ best \subseteq rest
    <3>1. PICK i \in rest : dp[mask][j] = f[i]
      BY <2>7
    <3>2. i \in best
      BY <3>1
    <3>3. rest \subseteq Int
      BY <2>1
    <3>. QED
      BY <3>2, <3>3
  <2>9. IsFiniteSet(best)
    BY <2>2, <2>8, FS_Subset
  <2>10. Min(best) \in best
    <3>. HIDE DEF best
    <3>. QED
      BY <2>8, <2>9, MinLeast
  <2>11. Prev(dp, m, mask, j) \in rest /\ f[Prev(dp, m, mask, j)] = dp[mask][j]
    BY <2>6, <2>10
  <2>12. dp[mask][j] = dp[rest][Prev(dp, m, mask, j)] + m[1 + Prev(dp, m, mask, j)][1 + j]
    BY <2>3, <2>11
  <2>13. \A i \in rest : dp[mask][j] <= dp[rest][i] + m[1 + i][1 + j]
    BY <2>3, <2>7
  <2>. QED
    BY <2>5, <2>11, <2>12, <2>13 DEF rest
<1>. QED
  BY <1>1, <1>2

LEMMA TravelFirst ==
  ASSUME NEW n \in Nat, NEW m, NEW dp, IsTravel(dp, n, m), NEW j \in 1..n
  PROVE  dp[{j}][j] \in Int /\ dp[{j}][j] = m[0][1 + j]
<1>1. {j} \in SUBSET (1..n) /\ j \in {j}
  OBVIOUS
<1>2. dp[{j}] \in [{j} -> Int] /\ dp[{j}] = TravelStep(dp, m, {j})
  BY <1>1 DEF IsTravel
<1>3. TravelStep(dp, m, {j})[j] = m[0][1 + j]
  BY <1>1 DEF TravelStep
<1>. QED
  BY <1>1, <1>2, <1>3

(* No walk through a set is quicker than the table says.                   *)
LEMMA TravelLeast ==
  ASSUME NEW n \in Nat, NEW m, IsMatrix(m, n), NEW dp, IsTravel(dp, n, m),
         NEW mask \in SUBSET (1..n), mask # {}, NEW t \in SetToSeqs(mask)
  PROVE  Len(t) > 0 /\ t[Len(t)] \in mask /\ dp[mask][t[Len(t)]] <= WalkTime(m, t)
<1>. DEFINE S == 1..n
            Bounded(T) == \A u \in SetToSeqs(T) : dp[T][u[Len(u)]] <= WalkTime(m, u)
            K == {T \in SUBSET S : T # {} => Bounded(T)}
<1>1. ASSUME NEW T \in SUBSET S, \A U \in SUBSET T : U # T => U \in K, T # {},
             NEW w \in SetToSeqs(T)
      PROVE  dp[T][w[Len(w)]] <= WalkTime(m, w)
  <2>1. PICK j \in T : \E u \in SetToSeqs(T \ {j}) : w = Append(u, j) /\ Len(w) > 0 /\ w[Len(w)] = j
    BY <1>1, TourShrinks
  <2>2. PICK u \in SetToSeqs(T \ {j}) : w = Append(u, j) /\ Len(w) > 0 /\ w[Len(w)] = j
    BY <2>1
  <2>3. T \ {j} \in SUBSET (1..n) /\ j \in 1..n
    OBVIOUS
  <2>4. u \in Seq(1..n) /\ u \in Seq(T \ {j}) /\ Len(u) = Cardinality(T \ {j})
    BY <2>3, ToursType
  <2>5. CASE T = {j}
    <3>1. Len(u) = 0
      BY <2>4, <2>5, FS_EmptySet
    <3>2. w = <<j>>
      BY <2>2, <2>4, <3>1
    <3>3. WalkTime(m, w) = m[0][1 + j]
      BY <2>3, <3>2, WalkTimeOne
    <3>4. dp[T][j] = m[0][1 + j] /\ dp[T][j] \in Int
      <4>1. dp[{j}][j] \in Int /\ dp[{j}][j] = m[0][1 + j]
        BY <2>3, TravelFirst
      <4>. QED
        BY <2>5, <4>1
    <3>. QED
      BY <2>2, <3>3, <3>4
  <2>6. CASE T # {j}
    <3>. DEFINE rest == T \ {j}
                i == u[Len(u)]
    <3>1. rest # {} /\ rest \in K
      BY <1>1, <2>6
    <3>2. Bounded(rest)
      BY <3>1
    <3>3. dp[rest][i] <= WalkTime(m, u)
      BY <3>2
    <3>4. IsFiniteSet(rest)
      BY <2>3, MaskFinite
    <3>5. Len(u) > 0
      <4>1. Cardinality(rest) # 0
        BY <3>1, <3>4, FS_EmptySet
      <4>. QED
        BY <2>4, <4>1
    <3>6. i \in rest
      BY <2>4, <3>5
    <3>7. /\ dp[rest][i] \in Int /\ m[1 + i][1 + j] \in Int /\ dp[T][j] \in Int
          /\ dp[T][j] <= dp[rest][i] + m[1 + i][1 + j]
      BY <2>6, <3>6, TravelEntry
    <3>8. WalkTime(m, w) = WalkTime(m, u) + m[1 + i][1 + j]
      BY <2>2, <2>3, <2>4, <3>5, WalkTimeAppend
    <3>9. WalkTime(m, u) \in Int
      BY <2>4, WalkTimeType
    <3>. HIDE DEF rest, i
    <3>10. dp[T][j] <= WalkTime(m, w)
      BY <3>3, <3>7, <3>8, <3>9
    <3>. QED
      BY <2>2, <3>10
  <2>. QED
    BY <2>5, <2>6
<1>2. ASSUME NEW T \in SUBSET S, \A U \in SUBSET T : U # T => U \in K PROVE T \in K
  <2>1. T # {} => Bounded(T)
    BY <1>1, <1>2
  <2>. QED
    BY <2>1
<1>3. IsFiniteSet(S)
  <2>1. S \in SUBSET (1..n)
    OBVIOUS
  <2>. HIDE DEF S
  <2>. QED
    BY <2>1, MaskFinite
<1>4. SUBSET S \subseteq K
  <2>. HIDE DEF K, S
  <2>. QED
    BY <1>2, <1>3, SubsetInductive
<1>5. Bounded(mask)
  BY <1>4
<1>6. PICK j \in mask : \E u \in SetToSeqs(mask \ {j}) : t = Append(u, j) /\ Len(t) > 0 /\ t[Len(t)] = j
  BY TourShrinks
<1>. QED
  BY <1>5, <1>6

-----------------------------------------------------------------------------
WalkStep(path, dp, m, mask) ==
  [j \in mask |->
     IF mask = {j} THEN <<j>>
     ELSE Append(path[mask \ {j}][Prev(dp, m, mask, j)], j)]

IsWalk(path, dp, m, n) ==
  \A mask \in SUBSET (1..n) :
    path[mask] \in [mask -> Seq(1..n)] /\ path[mask] = WalkStep(path, dp, m, mask)

LEMMA WalkStepType ==
  ASSUME NEW n \in Nat, NEW m, IsMatrix(m, n), NEW dp, IsTravel(dp, n, m),
         NEW mask \in SUBSET (1..n),
         NEW g, \A U \in SUBSET mask : U # mask => g[U] \in [U -> Seq(1..n)]
  PROVE  WalkStep(g, dp, m, mask) \in [mask -> Seq(1..n)]
<1>1. ASSUME NEW j \in mask PROVE WalkStep(g, dp, m, mask)[j] \in Seq(1..n)
  <2>1. CASE mask = {j}
    <3>1. <<j>> \in Seq(1..n)
      OBVIOUS
    <3>. QED
      BY <2>1, <3>1 DEF WalkStep
  <2>2. CASE mask # {j}
    <3>. DEFINE i == Prev(dp, m, mask, j)
    <3>1. i \in mask \ {j}
      BY <2>2, TravelEntry
    <3>2. g[mask \ {j}] \in [mask \ {j} -> Seq(1..n)]
      OBVIOUS
    <3>3. WalkStep(g, dp, m, mask)[j] = Append(g[mask \ {j}][i], j)
      BY <2>2 DEF WalkStep
    <3>. HIDE DEF i
    <3>4. g[mask \ {j}][i] \in Seq(1..n) /\ j \in 1..n
      BY <3>1, <3>2
    <3>. QED
      BY <3>3, <3>4
  <2>. QED
    BY <2>1, <2>2
<1>2. WalkStep(g, dp, m, mask) = [j \in mask |-> WalkStep(g, dp, m, mask)[j]]
  BY DEF WalkStep
<1>. QED
  BY <1>1, <1>2

LEMMA WalkTable ==
  ASSUME NEW n \in Nat, NEW m, IsMatrix(m, n), NEW dp, IsTravel(dp, n, m)
  PROVE  IsWalk(Walk(n, m, dp), dp, m, n)
<1>. DEFINE S == 1..n
            W == [T \in SUBSET S |-> [T -> Seq(1..n)]]
            V == UNION {[T -> Seq(1..n)] : T \in SUBSET S}
            G == [p \in (SUBSET S) \X [SUBSET S -> V] |-> WalkStep(p[2], dp, m, p[1])]
            path == CHOOSE path : path = [mask \in SUBSET S |-> WalkStep(path, dp, m, mask)]
<1>1. IsFiniteSet(S)
  <2>1. S \in SUBSET (1..n)
    OBVIOUS
  <2>. HIDE DEF S
  <2>. QED
    BY <2>1, MaskFinite
<1>2. \A T \in SUBSET S : \A g \in [SUBSET S -> V] : G[<<T, g>>] = WalkStep(g, dp, m, T)
  OBVIOUS
<1>3. \A T \in SUBSET S : W[T] # {} /\ W[T] \subseteq V
  <2>1. ASSUME NEW T \in SUBSET S PROVE W[T] # {} /\ W[T] \subseteq V
    <3>1. [j \in T |-> <<>>] \in [T -> Seq(1..n)]
      OBVIOUS
    <3>. QED
      BY <3>1
  <2>. QED
    BY <2>1
<1>4. ASSUME NEW T \in SUBSET S, NEW g, \A U \in SUBSET T : U # T => g[U] \in W[U]
      PROVE  WalkStep(g, dp, m, T) \in W[T]
  <2>1. \A U \in SUBSET T : U # T => g[U] \in [U -> Seq(1..n)]
    BY <1>4
  <2>. QED
    BY <2>1, WalkStepType
<1>. HIDE DEF G, V
<1>5. Stepper(G, S, V, W)
  <2>1. ASSUME NEW T \in SUBSET S, NEW g \in [SUBSET S -> V], \A U \in SUBSET T : U # T => g[U] \in W[U]
        PROVE  G[<<T, g>>] \in W[T]
    <3>1. WalkStep(g, dp, m, T) \in W[T]
      BY <1>4, <2>1
    <3>. HIDE DEF W, S
    <3>. QED
      BY <1>2, <3>1
  <2>2. ASSUME NEW T \in SUBSET S, NEW g \in [SUBSET S -> V], NEW h \in [SUBSET S -> V],
               \A U \in SUBSET T : U # T => g[U] = h[U]
        PROVE  G[<<T, g>>] = G[<<T, h>>]
    <3>1. WalkStep(g, dp, m, T) = WalkStep(h, dp, m, T)
      <4>1. \A j \in T : g[T \ {j}] = h[T \ {j}]
        BY <2>2
      <4>. QED
        BY <4>1 DEF WalkStep
    <3>. HIDE DEF S
    <3>. QED
      BY <1>2, <3>1
  <2>. HIDE DEF W, S
  <2>. QED
    BY <1>3, <2>1, <2>2 DEF Stepper
<1>6. \E f : Recursive(f, G, S, V)
  <2>. HIDE DEF S, W
  <2>. QED
    BY <1>1, <1>5, TypedRecursion
<1>7. PICK f : Recursive(f, G, S, V)
  BY <1>6
<1>8. f \in [SUBSET S -> V] /\ \A T \in SUBSET S : f[T] = WalkStep(f, dp, m, T)
  BY <1>2, <1>7 DEF Recursive
<1>9. f = [T \in SUBSET S |-> WalkStep(f, dp, m, T)]
  BY <1>8
<1>10. path = [T \in SUBSET S |-> WalkStep(path, dp, m, T)]
  BY <1>9
<1>11. Walk(n, m, dp) = path
  BY DEF Walk, WalkStep
<1>. HIDE DEF path, S
<1>12. \A T \in SUBSET S : path[T] = WalkStep(path, dp, m, T)
  BY <1>10
<1>. DEFINE K == {T \in SUBSET S : path[T] \in W[T]}
<1>13. ASSUME NEW T \in SUBSET S, \A U \in SUBSET T : U # T => U \in K PROVE T \in K
  BY <1>4, <1>12, <1>13
<1>14. SUBSET S \subseteq K
  <2>. HIDE DEF K
  <2>. QED
    BY <1>1, <1>13, SubsetInductive
<1>15. \A T \in SUBSET S : path[T] \in [T -> Seq(1..n)]
  BY <1>14
<1>. QED
  BY <1>11, <1>12, <1>15 DEF IsWalk, S

(* Walking back through prev visits every peak of the set once, ends where *)
(* it should and takes the time the table recorded.                        *)
LEMMA WalkIsTour ==
  ASSUME NEW n \in Nat, NEW m, IsMatrix(m, n), NEW dp, IsTravel(dp, n, m),
         NEW path, IsWalk(path, dp, m, n),
         NEW mask \in SUBSET (1..n), NEW last \in mask
  PROVE  LET t == path[mask][last]
         IN  /\ t \in SetToSeqs(mask) /\ Len(t) > 0 /\ t[Len(t)] = last
             /\ WalkTime(m, t) = dp[mask][last]
<1>. DEFINE S == 1..n
            Good(T, j) == LET t == path[T][j]
                          IN  /\ t \in SetToSeqs(T) /\ Len(t) > 0 /\ t[Len(t)] = j
                              /\ WalkTime(m, t) = dp[T][j]
            K == {T \in SUBSET S : \A j \in T : Good(T, j)}
<1>1. ASSUME NEW T \in SUBSET S, \A U \in SUBSET T : U # T => U \in K, NEW j \in T
      PROVE  Good(T, j)
  <2>1. T \in SUBSET (1..n) /\ T \ {j} \in SUBSET (1..n) /\ j \in 1..n
    OBVIOUS
  <2>2. path[T][j] = WalkStep(path, dp, m, T)[j]
    BY <2>1 DEF IsWalk
  <2>3. CASE T = {j}
    <3>1. path[T][j] = <<j>>
      BY <2>2, <2>3 DEF WalkStep
    <3>2. <<j>> \in SetToSeqs(T)
      <4>1. <<j>> \in SetToSeqs({j})
        BY TourOne
      <4>. QED
        BY <2>3, <4>1
    <3>3. WalkTime(m, <<j>>) = m[0][1 + j]
      BY <2>1, WalkTimeOne
    <3>4. dp[T][j] = m[0][1 + j]
      <4>1. dp[{j}][j] = m[0][1 + j]
        BY <2>1, TravelFirst
      <4>. QED
        BY <2>3, <4>1
    <3>5. Len(<<j>>) = 1 /\ <<j>>[1] = j
      OBVIOUS
    <3>. QED
      BY <3>1, <3>2, <3>3, <3>4, <3>5
  <2>4. CASE T # {j}
    <3>. DEFINE rest == T \ {j}
                i == Prev(dp, m, T, j)
                u == path[rest][i]
    <3>1. /\ i \in rest /\ dp[T][j] = dp[rest][i] + m[1 + i][1 + j]
      BY <2>1, <2>4, TravelEntry
    <3>2. rest \in K
      BY <1>1
    <3>3. Good(rest, i)
      BY <3>1, <3>2
    <3>4. path[T][j] = Append(u, j)
      BY <2>2, <2>4 DEF WalkStep
    <3>5. u \in SetToSeqs(rest) /\ Len(u) > 0 /\ u[Len(u)] = i /\ WalkTime(m, u) = dp[rest][i]
      BY <3>3
    <3>. HIDE DEF u, i, K, Good, S
    <3>6. Append(u, j) \in SetToSeqs(T)
      BY <2>1, <3>5, TourGrows
    <3>7. u \in Seq(1..n)
      BY <2>1, <3>5, ToursType
    <3>8. WalkTime(m, Append(u, j)) = WalkTime(m, u) + m[1 + u[Len(u)]][1 + j]
      BY <2>1, <3>5, <3>7, WalkTimeAppend
    <3>9. Len(Append(u, j)) = Len(u) + 1 /\ Append(u, j)[Len(u) + 1] = j
      BY <2>1, <3>7
    <3>10. Len(Append(u, j)) > 0 /\ Append(u, j)[Len(Append(u, j))] = j
      BY <3>5, <3>7, <3>9
    <3>11. WalkTime(m, Append(u, j)) = dp[T][j]
      BY <3>1, <3>5, <3>8
    <3>. QED
      BY <3>4, <3>6, <3>10, <3>11 DEF Good
  <2>. QED
    BY <2>3, <2>4
<1>. HIDE DEF Good
<1>2. ASSUME NEW T \in SUBSET S, \A U \in SUBSET T : U # T => U \in K PROVE T \in K
  BY <1>1, <1>2
<1>3. IsFiniteSet(S)
  <2>1. S \in SUBSET (1..n)
    OBVIOUS
  <2>. HIDE DEF S
  <2>. QED
    BY <2>1, MaskFinite
<1>4. SUBSET S \subseteq K
  <2>. HIDE DEF K, S
  <2>. QED
    BY <1>2, <1>3, SubsetInductive
<1>5. Good(mask, last)
  BY <1>4
<1>. QED
  BY <1>5 DEF Good

-----------------------------------------------------------------------------
(* Heat of a tour, place by place, and of a set of peaks.                  *)
LEMMA TourHeatOne ==
  ASSUME NEW h, NEW j, h[j] \in Int
  PROVE  TourHeat(h, <<j>>) = h[j]
<1>. DEFINE e == [i \in DOMAIN <<j>> |-> h[<<j>>[i]]]
<1>1. DOMAIN <<j>> = 1..1 /\ e[1] = h[j]
  OBVIOUS
<1>2. TourHeat(h, <<j>>) = SumFunctionOnSet(e, 1..1)
  BY <1>1 DEF TourHeat
<1>. HIDE DEF e
<1>3. IntsOn(e, 1..(0 + 1))
  BY <1>1 DEF IntsOn
<1>4. SumFunctionOnSet(e, 1..(0 + 1)) = SumFunctionOnSet(e, 1..0) + e[0 + 1]
  BY <1>3, SumLast
<1>5. 1..0 = {} /\ 0 + 1 = 1
  OBVIOUS
<1>6. SumFunctionOnSet(e, 1..0) = 0
  BY <1>5, SumEmpty
<1>. QED
  BY <1>1, <1>2, <1>4, <1>5, <1>6

LEMMA TourHeatAppend ==
  ASSUME NEW n \in Nat, NEW h, IntsOn(h, 1..n), NEW t \in Seq(1..n), NEW j \in 1..n
  PROVE  TourHeat(h, Append(t, j)) = TourHeat(h, t) + h[j]
<1>. DEFINE k == Len(t)
            a == Append(t, j)
            f == [i \in 1..(k + 1) |-> h[a[i]]]
            e == [i \in 1..k |-> h[t[i]]]
<1>1. k \in Nat /\ IsFiniteSet(1..k)
  BY FS_Interval
<1>2. a \in Seq(1..n) /\ DOMAIN a = 1..(k + 1) /\ DOMAIN t = 1..k /\ a[k + 1] = j /\ \A i \in 1..k : a[i] = t[i]
  OBVIOUS
<1>3. TourHeat(h, a) = SumFunctionOnSet(f, 1..(k + 1)) /\ TourHeat(h, t) = SumFunctionOnSet(e, 1..k)
  BY <1>2 DEF TourHeat
<1>4. \A i \in 1..(k + 1) : a[i] \in 1..n
  BY <1>2
<1>. HIDE DEF a
<1>5. IntsOn(f, 1..(k + 1)) /\ f[k + 1] = h[j]
  <2>1. \A i \in 1..(k + 1) : f[i] \in Int
    BY <1>4 DEF IntsOn
  <2>2. f[k + 1] = h[j]
    BY <1>1, <1>2
  <2>. QED
    BY <2>1, <2>2 DEF IntsOn
<1>6. IntsOn(f, 1..k) /\ \A i \in 1..k : f[i] = e[i]
  <2>1. 1..k \subseteq 1..(k + 1)
    BY <1>1
  <2>2. \A i \in 1..k : f[i] = e[i]
    BY <1>2, <2>1
  <2>. QED
    BY <1>5, <2>1, <2>2 DEF IntsOn
<1>. HIDE DEF f, e, k
<1>7. SumFunctionOnSet(f, 1..(k + 1)) = SumFunctionOnSet(f, 1..k) + f[k + 1]
  BY <1>1, <1>5, SumLast
<1>8. SumFunctionOnSet(f, 1..k) = SumFunctionOnSet(e, 1..k)
  BY <1>1, <1>6, SumSame
<1>. QED
  BY <1>3, <1>5, <1>7, <1>8 DEF a

LEMMA TourHeatSum ==
  ASSUME NEW n \in Nat, NEW h, IntsOn(h, 1..n),
         NEW mask \in SUBSET (1..n), mask # {}, NEW t \in SetToSeqs(mask)
  PROVE  TourHeat(h, t) = HeatSum(h, mask)
<1>. DEFINE S == 1..n
            Worth(T) == \A u \in SetToSeqs(T) : TourHeat(h, u) = HeatSum(h, T)
            K == {T \in SUBSET S : T # {} => Worth(T)}
<1>1. ASSUME NEW T \in SUBSET S, \A U \in SUBSET T : U # T => U \in K, T # {},
             NEW w \in SetToSeqs(T)
      PROVE  TourHeat(h, w) = HeatSum(h, T)
  <2>0. T \in SUBSET (1..n)
    OBVIOUS
  <2>1. PICK j \in T : \E u \in SetToSeqs(T \ {j}) : w = Append(u, j) /\ Len(w) > 0 /\ w[Len(w)] = j
    BY <1>1, TourShrinks
  <2>2. PICK u \in SetToSeqs(T \ {j}) : w = Append(u, j)
    BY <2>1
  <2>3. T \ {j} \in SUBSET (1..n) /\ j \in 1..n
    OBVIOUS
  <2>4. u \in Seq(1..n) /\ Len(u) = Cardinality(T \ {j}) /\ IsFiniteSet(T \ {j})
    BY <2>3, ToursType
  <2>5. HeatSum(h, T) = h[j] + HeatSum(h, T \ {j})
    <3>1. IsFiniteSet(T)
      BY <2>0, MaskFinite
    <3>2. IntsOn(h, T)
      BY <2>0 DEF IntsOn
    <3>3. SumFunctionOnSet(h, T) = h[j] + SumFunctionOnSet(h, T \ {j})
      BY <3>1, <3>2, SumRemove
    <3>. QED
      BY <3>3 DEF HeatSum
  <2>6. h[j] \in Int
    BY <2>3 DEF IntsOn
  <2>7. CASE T = {j}
    <3>1. Len(u) = 0
      BY <2>4, <2>7, FS_EmptySet
    <3>2. w = <<j>>
      BY <2>2, <2>4, <3>1
    <3>3. TourHeat(h, w) = h[j]
      BY <2>6, <3>2, TourHeatOne
    <3>4. T \ {j} = {}
      BY <2>7
    <3>5. HeatSum(h, T \ {j}) = 0
      BY <3>4, SumEmpty DEF HeatSum
    <3>. QED
      BY <2>5, <2>6, <3>3, <3>5
  <2>8. CASE T # {j}
    <3>. DEFINE rest == T \ {j}
    <3>1. rest # {} /\ rest \in K
      BY <1>1, <2>8
    <3>2. Worth(rest)
      BY <3>1
    <3>3. TourHeat(h, u) = HeatSum(h, rest)
      BY <3>2
    <3>4. TourHeat(h, w) = TourHeat(h, u) + h[j]
      BY <2>2, <2>3, <2>4, TourHeatAppend
    <3>5. HeatSum(h, rest) \in Int
      <4>1. IntsOn(h, rest)
        BY <2>3 DEF IntsOn
      <4>2. SumFunctionOnSet(h, rest) \in Int
        BY <2>4, <4>1, SumType
      <4>. QED
        BY <4>2 DEF HeatSum
    <3>. HIDE DEF rest
    <3>6. TourHeat(h, w) = h[j] + HeatSum(h, rest)
      BY <2>6, <3>3, <3>4, <3>5
    <3>. QED
      BY <2>5, <3>6 DEF rest
  <2>. QED
    BY <2>7, <2>8
<1>2. ASSUME NEW T \in SUBSET S, \A U \in SUBSET T : U # T => U \in K PROVE T \in K
  <2>1. T # {} => Worth(T)
    BY <1>1, <1>2
  <2>. QED
    BY <2>1
<1>3. IsFiniteSet(S)
  <2>1. S \in SUBSET (1..n)
    OBVIOUS
  <2>. HIDE DEF S
  <2>. QED
    BY <2>1, MaskFinite
<1>4. SUBSET S \subseteq K
  <2>. HIDE DEF K, S
  <2>. QED
    BY <1>2, <1>3, SubsetInductive
<1>5. Worth(mask)
  BY <1>4
<1>. QED
  BY <1>5

-----------------------------------------------------------------------------
LEMMA MaskOfType ==
  ASSUME NEW n \in Nat, NEW mask \in SUBSET (1..n)
  PROVE  MaskOf(mask) \in Int
<1>. DEFINE f == [p \in mask |-> 2 ^ (p - 1)]
<1>1. IsFiniteSet(mask)
  BY MaskFinite
<1>2. IntsOn(f, mask)
  <2>1. ASSUME NEW p \in mask PROVE f[p] \in Int
    <3>1. p \in Nat \ {0}
      OBVIOUS
    <3>2. 2 ^ (p - 1) \in Int
      BY <3>1
    <3>. QED
      BY <3>2
  <2>. QED
    BY <2>1 DEF IntsOn
<1>. HIDE DEF f
<1>3. SumFunctionOnSet(f, mask) \in Int
  BY <1>1, <1>2, SumType
<1>. QED
  BY <1>3 DEF MaskOf, f

LEMMA HeatSumType ==
  ASSUME NEW n \in Nat, NEW h, IntsOn(h, 1..n), NEW mask \in SUBSET (1..n)
  PROVE  HeatSum(h, mask) \in Int
<1>1. IsFiniteSet(mask)
  BY MaskFinite
<1>2. IntsOn(h, mask)
  BY DEF IntsOn
<1>. QED
  BY <1>1, <1>2, SumType DEF HeatSum

LEMMA MasksFinite ==
  ASSUME NEW n \in Nat, NEW M \in SUBSET SUBSET (1..n)
  PROVE  IsFiniteSet(M)
<1>. DEFINE S == 1..n
<1>1. IsFiniteSet(S)
  <2>1. S \in SUBSET (1..n)
    OBVIOUS
  <2>. HIDE DEF S
  <2>. QED
    BY <2>1, MaskFinite
<1>. HIDE DEF S
<1>2. IsFiniteSet(SUBSET S)
  BY <1>1, FS_SUBSET
<1>3. M \in SUBSET SUBSET S
  BY DEF S
<1>. QED
  BY <1>2, <1>3, FS_Subset

(* Of the masks of the greatest heat the code keeps the first.             *)
FirstHottest(h, feasible) ==
  LET best    == Max({HeatSum(h, mask) : mask \in feasible})
      hottest == {mask \in feasible : HeatSum(h, mask) = best}
  IN  CHOOSE mask \in hottest : \A other \in hottest : MaskOf(mask) <= MaskOf(other)

LEMMA HottestFirst ==
  ASSUME NEW n \in Nat, NEW h, IntsOn(h, 1..n),
         NEW feasible \in SUBSET SUBSET (1..n), feasible # {}
  PROVE  /\ FirstHottest(h, feasible) \in feasible
         /\ \A mask \in feasible : HeatSum(h, mask) <= HeatSum(h, FirstHottest(h, feasible))
<1>. DEFINE best    == Max({HeatSum(h, mask) : mask \in feasible})
            hottest == {mask \in feasible : HeatSum(h, mask) = best}
            chosen  == CHOOSE mask \in hottest : \A other \in hottest : MaskOf(mask) <= MaskOf(other)
            f       == [mask \in feasible |-> HeatSum(h, mask)]
            g       == [mask \in hottest |-> MaskOf(mask)]
<1>1. IsFiniteSet(feasible)
  BY MasksFinite
<1>2. \A mask \in feasible : f[mask] \in Int /\ f[mask] = HeatSum(h, mask)
  BY HeatSumType
<1>3. best = Max({f[mask] : mask \in feasible})
  OBVIOUS
<1>4. (\E mask \in feasible : best = f[mask]) /\ \A mask \in feasible : best >= f[mask]
  <2>. DEFINE most == Max({f[mask] : mask \in feasible})
  <2>. HIDE DEF f
  <2>1. (\E mask \in feasible : most = f[mask]) /\ \A mask \in feasible : most >= f[mask]
    BY <1>1, <1>2, ImageMax
  <2>. HIDE DEF most, best
  <2>2. best = most
    BY <1>3 DEF most
  <2>. QED
    BY <2>1, <2>2
<1>. HIDE DEF best, f
<1>5. best \in Int /\ \A mask \in feasible : HeatSum(h, mask) <= best
  BY <1>2, <1>4
<1>6. hottest # {} /\ hottest \subseteq feasible /\ hottest \in SUBSET SUBSET (1..n)
  <2>1. PICK mask \in feasible : best = f[mask]
    BY <1>4
  <2>2. mask \in hottest
    BY <1>2, <2>1
  <2>. QED
    BY <2>2
<1>7. \A mask \in hottest : g[mask] \in Int /\ g[mask] = MaskOf(mask)
  BY <1>6, MaskOfType
<1>8. IsFiniteSet(hottest)
  BY <1>6, MasksFinite
<1>9. \E mask \in hottest : \A other \in hottest : MaskOf(mask) <= MaskOf(other)
  <2>. DEFINE least == Min({g[mask] : mask \in hottest})
  <2>. HIDE DEF g, hottest
  <2>1. (\E mask \in hottest : least = g[mask]) /\ \A mask \in hottest : least <= g[mask]
    BY <1>6, <1>7, <1>8, ImageMin
  <2>. HIDE DEF least
  <2>. QED
    BY <1>7, <2>1
<1>10. chosen \in hottest
  BY <1>9
<1>11. chosen \in feasible /\ HeatSum(h, chosen) = best
  BY <1>10
<1>12. FirstHottest(h, feasible) = chosen
  BY DEF FirstHottest, best
<1>. HIDE DEF chosen
<1>13. \A mask \in feasible : HeatSum(h, mask) <= HeatSum(h, chosen)
  BY <1>5, <1>11
<1>. QED
  BY <1>11, <1>12, <1>13

-----------------------------------------------------------------------------
(* A tour fits the budget when a walk through its peaks may end where it   *)
(* ends, by the table.                                                     *)
LEMMA AffordableFeasible ==
  ASSUME NEW n \in Nat, NEW m, IsMatrix(m, n), NEW dp, IsTravel(dp, n, m), NEW b \in Int,
         NEW mask \in SUBSET (1..n), mask # {}, NEW t \in SetToSeqs(mask),
         ~Exceeds(TourTime(m, t), b)
  PROVE  Last(t) \in FeasibleLast(dp, m, b, mask)
<1>. DEFINE j == Last(t)
<1>1. Len(t) > 0 /\ j \in mask /\ dp[mask][j] <= WalkTime(m, t)
  BY TravelLeast DEF Last
<1>2. t \in Seq(1..n)
  BY ToursType
<1>3. TourTime(m, t) = WalkTime(m, t) + m[1 + j][1]
  BY <1>1, <1>2, TourTimeWalk DEF Last
<1>4. WalkTime(m, t) \in Int
  BY <1>2, WalkTimeType
<1>5. dp[mask][j] \in Int
  BY <1>1, TravelEntry
<1>6. m[1 + j][1] \in Int
  <2>. HIDE DEF j
  <2>1. j \in 1..n
    BY <1>1
  <2>2. 1 + j \in 0..(n + 1) /\ 1 \in 0..(n + 1)
    BY <2>1
  <2>. QED
    BY <2>2 DEF IsMatrix
<1>. HIDE DEF j
<1>7. ~Exceeds(dp[mask][j] + m[1 + j][1], b)
  BY <1>1, <1>3, <1>4, <1>5, <1>6 DEF Exceeds
<1>8. j \in FeasibleLast(dp, m, b, mask)
  BY <1>1, <1>7 DEF FeasibleLast
<1>. QED
  BY <1>8 DEF j

(* What TspPeakOrder returns, for any input.                               *)
HottestAffordable(n, m, b, h, t) ==
  /\ t # NoTour => t \in Affordable(n, m, b)
  /\ t = NoTour <=> Affordable(n, m, b) = {}
  /\ \A u \in Affordable(n, m, b) : TourHeat(h, u) <= TourHeat(h, t)

THEOREM TspOptimal ==
  ASSUME NEW n \in Nat, NEW m, IsMatrix(m, n), NEW b \in Int, NEW h, IntsOn(h, 1..n)
  PROVE  HottestAffordable(n, m, b, h, TspPeakOrder(n, m, b, h))
<1>. DEFINE dp       == Travel(n, m)
            path     == Walk(n, m, dp)
            feasible == {mask \in SUBSET (1..n) : FeasibleLast(dp, m, b, mask) # {}}
            chosen   == FirstHottest(h, feasible)
            ends     == FeasibleLast(dp, m, b, chosen)
            t        == path[chosen][Min(ends)]
<1>1. IsTravel(dp, n, m)
  BY TravelTable
<1>2. IsWalk(path, dp, m, n)
  BY <1>1, WalkTable
<1>3. TspPeakOrder(n, m, b, h) = IF feasible = {} THEN NoTour ELSE t
  BY DEF TspPeakOrder, FirstHottest
<1>4. ASSUME NEW u \in Affordable(n, m, b)
      PROVE  \E mask \in feasible : mask # {} /\ u \in SetToSeqs(mask)
  <2>1. u \in AllTours(n) /\ ~Exceeds(TourTime(m, u), b)
    BY DEF Affordable
  <2>2. PICK mask \in (SUBSET (1..n)) \ {{}} : u \in SetToSeqs(mask)
    BY <2>1 DEF AllTours
  <2>3. mask \in SUBSET (1..n) /\ mask # {}
    OBVIOUS
  <2>. HIDE DEF dp
  <2>4. Last(u) \in FeasibleLast(dp, m, b, mask)
    BY <1>1, <2>1, <2>2, <2>3, AffordableFeasible
  <2>. QED
    BY <2>2, <2>3, <2>4
<1>5. CASE feasible = {}
  <2>1. Affordable(n, m, b) = {}
    BY <1>4, <1>5
  <2>2. TspPeakOrder(n, m, b, h) = NoTour
    BY <1>3, <1>5
  <2>. HIDE DEF feasible, t
  <2>. QED
    BY <2>1, <2>2 DEF HottestAffordable
<1>6. CASE feasible # {}
  <2>1. feasible \in SUBSET SUBSET (1..n)
    OBVIOUS
  <2>2. chosen \in feasible /\ \A mask \in feasible : HeatSum(h, mask) <= HeatSum(h, chosen)
    <3>. HIDE DEF feasible
    <3>. QED
      BY <1>6, <2>1, HottestFirst
  <2>3. chosen \in SUBSET (1..n) /\ ends # {}
    BY <2>2
  <2>4. ends \subseteq chosen
    BY DEF FeasibleLast
  <2>. DEFINE last == Min(ends)
  <2>5. last \in ends
    <3>1. IsFiniteSet(ends) /\ ends \in SUBSET Int
      <4>1. ends \in SUBSET (1..n)
        BY <2>3, <2>4
      <4>. HIDE DEF ends
      <4>2. ends \in SUBSET Int
        BY <4>1
      <4>. QED
        BY <4>1, <4>2, MaskFinite
    <3>. HIDE DEF ends
    <3>. QED
      BY <2>3, <3>1, MinLeast
  <2>6. last \in chosen /\ ~Exceeds(dp[chosen][last] + m[1 + last][1], b)
    BY <2>5 DEF FeasibleLast
  <2>. HIDE DEF last
  <2>7. t = path[chosen][last]
    BY DEF last
  <2>. HIDE DEF t, ends, chosen, path, dp
  <2>8. t \in SetToSeqs(chosen) /\ Len(t) > 0 /\ t[Len(t)] = last /\ WalkTime(m, t) = dp[chosen][last]
    BY <1>1, <1>2, <2>3, <2>6, <2>7, WalkIsTour
  <2>9. t \in Seq(1..n) /\ chosen # {}
    BY <2>3, <2>6, <2>8, ToursType
  <2>10. TourTime(m, t) = dp[chosen][last] + m[1 + last][1]
    BY <2>8, <2>9, TourTimeWalk
  <2>11. t \in Affordable(n, m, b)
    BY <2>3, <2>6, <2>8, <2>9, <2>10 DEF Affordable, AllTours
  <2>12. t # NoTour
    BY <2>8 DEF NoTour
  <2>13. TourHeat(h, t) = HeatSum(h, chosen)
    BY <2>3, <2>8, <2>9, TourHeatSum
  <2>14. ASSUME NEW u \in Affordable(n, m, b) PROVE TourHeat(h, u) <= TourHeat(h, t)
    <3>1. PICK mask \in feasible : mask # {} /\ u \in SetToSeqs(mask)
      BY <1>4
    <3>2. mask \in SUBSET (1..n)
      OBVIOUS
    <3>. HIDE DEF feasible
    <3>3. TourHeat(h, u) = HeatSum(h, mask)
      BY <3>1, <3>2, TourHeatSum
    <3>. QED
      BY <2>2, <2>13, <3>3
  <2>15. TspPeakOrder(n, m, b, h) = t
    BY <1>3, <1>6
  <2>. HIDE DEF feasible
  <2>. QED
    BY <2>11, <2>12, <2>14, <2>15 DEF HottestAffordable
<1>. QED
  BY <1>5, <1>6

-----------------------------------------------------------------------------
(* The inputs of a call stay what Init made them, and its result is right. *)
Inputs ==
  /\ IsMatrix(matrix, N)
  /\ budget \in Int
  /\ IntsOn(heats, 1..N)

Result == called => HottestAffordable(N, matrix, budget, heats, order)

IInv == Inputs /\ called \in BOOLEAN /\ Result

LEMMA IInvInductive == Spec => []IInv
<1>1. Init => IInv
  <2>1. SUFFICES ASSUME Init PROVE IInv
    OBVIOUS
  <2>2. IsMatrix(matrix, N)
    <3>1. PICK t \in [Cells -> Times] :
            matrix = [i \in 0..(N + 1) |-> [j \in 0..(N + 1) |-> IF Read(i, j) THEN t[<<i, j>>] ELSE 0]]
      BY <2>1 DEF Init
    <3>2. ASSUME NEW i \in 0..(N + 1), NEW j \in 0..(N + 1) PROVE matrix[i][j] \in Int
      <4>1. matrix[i][j] = IF Read(i, j) THEN t[<<i, j>>] ELSE 0
        BY <3>1
      <4>2. Read(i, j) => <<i, j>> \in Cells
        BY DEF Cells
      <4>3. Read(i, j) => t[<<i, j>>] \in Int
        BY <4>2, PeakAssumption
      <4>. QED
        BY <4>1, <4>3
    <3>. QED
      BY <3>2 DEF IsMatrix
  <2>3. budget \in Int /\ IntsOn(heats, 1..N)
    BY <2>1, PeakAssumption DEF Init, IntsOn
  <2>4. called = FALSE
    BY <2>1 DEF Init
  <2>. QED
    BY <2>2, <2>3, <2>4 DEF IInv, Inputs, Result
<1>2. IInv /\ [Next]_vars => IInv'
  <2>1. SUFFICES ASSUME IInv, [Next]_vars PROVE IInv'
    OBVIOUS
  <2>2. CASE Call
    <3>1. matrix' = matrix /\ budget' = budget /\ heats' = heats /\ called' = TRUE
          /\ order' = TspPeakOrder(N, matrix, budget, heats)
      BY <2>2 DEF Call
    <3>2. Inputs'
      BY <2>1, <3>1 DEF IInv, Inputs, IsMatrix, IntsOn
    <3>3. HottestAffordable(N, matrix, budget, heats, TspPeakOrder(N, matrix, budget, heats))
      BY <2>1, PeakAssumption, TspOptimal DEF IInv, Inputs
    <3>4. Result'
      BY <3>1, <3>3 DEF Result
    <3>. QED
      BY <3>1, <3>2, <3>4 DEF IInv
  <2>3. CASE UNCHANGED vars
    BY <2>1, <2>3 DEF vars, IInv, Inputs, Result, IsMatrix, IntsOn
  <2>. QED
    BY <2>1, <2>2, <2>3 DEF Next
<1>. QED
  BY <1>1, <1>2, PTL DEF Spec

(* The order returned is a tour that the budget allows.                    *)
THEOREM Affordability == Spec => []TourAffordable
<1>1. IInv => TourAffordable
  BY DEF IInv, Result, HottestAffordable, TourAffordable
<1>. QED
  BY <1>1, IInvInductive, PTL

(* No tour that the budget allows is hotter than the order returned, and   *)
(* there is none when nil is returned.                                     *)
THEOREM Optimality == Spec => []TourHottest
<1>1. IInv => TourHottest
  BY DEF IInv, Result, HottestAffordable, TourHottest
<1>. QED
  BY <1>1, IInvInductive, PTL

-----------------------------------------------------------------------------
LEMMA TourHeatSame ==
  ASSUME NEW n \in Nat, NEW t \in Seq(1..n), NEW h, NEW g, \A i \in 1..n : h[i] = g[i]
  PROVE  TourHeat(h, t) = TourHeat(g, t)
<1>1. \A i \in DOMAIN t : t[i] \in 1..n
  OBVIOUS
<1>2. [i \in DOMAIN t |-> h[t[i]]] = [i \in DOMAIN t |-> g[t[i]]]
  BY <1>1
<1>. QED
  BY <1>2 DEF TourHeat

LEMMA TourHeatNatural ==
  ASSUME NEW n \in Nat, NEW h, \A i \in 1..n : h[i] \in Nat, NEW t \in Seq(1..n)
  PROVE  TourHeat(h, t) \in Nat
<1>. DEFINE f == [i \in DOMAIN t |-> h[t[i]]]
<1>1. DOMAIN t = 1..Len(t) /\ \A i \in DOMAIN t : t[i] \in 1..n
  OBVIOUS
<1>2. IsFiniteSet(DOMAIN t) /\ \A i \in DOMAIN t : f[i] \in Nat
  <2>1. 1 \in Int /\ Len(t) \in Int
    OBVIOUS
  <2>2. IsFiniteSet(1..Len(t))
    BY <2>1, FS_Interval
  <2>3. \A i \in DOMAIN t : f[i] \in Nat
    BY <1>1
  <2>. QED
    BY <1>1, <2>2, <2>3
<1>. HIDE DEF f
<1>3. SumFunctionOnSet(f, DOMAIN t) \in Nat
  BY <1>2, SumNatural
<1>. QED
  BY <1>3 DEF TourHeat, f

LEMMA AffordableType ==
  ASSUME NEW n \in Nat, NEW m, IsMatrix(m, n), NEW b, NEW t \in Affordable(n, m, b)
  PROVE  t \in Seq(1..n) /\ t # NoTour /\ TourTime(m, t) \in Int /\ ~Exceeds(TourTime(m, t), b)
<1>1. t \in AllTours(n) /\ ~Exceeds(TourTime(m, t), b)
  BY DEF Affordable
<1>2. PICK mask \in (SUBSET (1..n)) \ {{}} : t \in SetToSeqs(mask)
  BY <1>1 DEF AllTours
<1>3. PICK j \in mask : \E u \in SetToSeqs(mask \ {j}) : t = Append(u, j) /\ Len(t) > 0 /\ t[Len(t)] = j
  BY <1>2, TourShrinks
<1>4. t \in Seq(1..n) /\ Len(t) > 0
  BY <1>2, <1>3, ToursType
<1>5. m[1 + t[Len(t)]][1] \in Int
  <2>1. t[Len(t)] \in 1..n
    BY <1>4
  <2>2. 1 + t[Len(t)] \in 0..(n + 1) /\ 1 \in 0..(n + 1)
    BY <2>1
  <2>. QED
    BY <2>2 DEF IsMatrix
<1>6. WalkTime(m, t) \in Int
  BY <1>4, WalkTimeType
<1>7. TourTime(m, t) = WalkTime(m, t) + m[1 + t[Len(t)]][1]
  BY <1>4, TourTimeWalk
<1>. QED
  BY <1>1, <1>4, <1>5, <1>6, <1>7 DEF NoTour

LEMMA AffordableGrows ==
  ASSUME NEW n \in Nat, NEW k \in 0..n, NEW m, NEW b
  PROVE  Affordable(k, m, b) \subseteq Affordable(n, m, b)
<1>1. 1..k \subseteq 1..n
  OBVIOUS
<1>2. AllTours(k) \subseteq AllTours(n)
  BY <1>1 DEF AllTours
<1>. QED
  BY <1>2 DEF Affordable

(* What ScenicPlan assumes of TourOrder, TspPeakOrder gives, for every     *)
(* matrix of integers, naturals for heats, and budget (scenic.go:176-181   *)
(* calls it with the first peaks only).                                    *)
THEOREM TspMeetsContract ==
  ASSUME NEW h \in Seq(Nat), NEW m, IsMatrix(m, Len(h)), NEW b \in Int
  PROVE  PlansTours(TspPeakOrder, m, h, b)
<1>. DEFINE Tour(k) == TspPeakOrder(k, m, b, SubSeq(h, 1, k))
<1>1. ASSUME NEW k \in 1..Len(h)
      PROVE  /\ \A i \in 1..k : SubSeq(h, 1, k)[i] = h[i] /\ h[i] \in Nat
             /\ IsMatrix(m, k)
             /\ HottestAffordable(k, m, b, SubSeq(h, 1, k), Tour(k))
             /\ Tour(k) # NoTour => Tour(k) \in Affordable(k, m, b)
             /\ Tour(k) \in Seq(1..k)
  <2>1. k \in Nat /\ k <= Len(h) /\ \A i \in 1..k : SubSeq(h, 1, k)[i] = h[i] /\ h[i] \in Nat
    OBVIOUS
  <2>2. IsMatrix(m, k)
    <3>1. 0..(k + 1) \subseteq 0..(Len(h) + 1)
      BY <2>1
    <3>. QED
      BY <3>1 DEF IsMatrix
  <2>3. IntsOn(SubSeq(h, 1, k), 1..k)
    BY <2>1 DEF IntsOn
  <2>4. HottestAffordable(k, m, b, SubSeq(h, 1, k), Tour(k))
    BY <2>1, <2>2, <2>3, TspOptimal
  <2>5. Tour(k) # NoTour => Tour(k) \in Affordable(k, m, b)
    BY <2>4 DEF HottestAffordable
  <2>6. Tour(k) \in Seq(1..k)
    <3>. HIDE DEF Tour
    <3>1. CASE Tour(k) = NoTour
      <4>1. NoTour \in Seq(1..k)
        BY DEF NoTour
      <4>. QED
        BY <3>1, <4>1
    <3>2. CASE Tour(k) # NoTour
      BY <2>1, <2>2, <2>5, <3>2, AffordableType
    <3>. QED
      BY <3>1, <3>2
  <2>. QED
    BY <2>1, <2>2, <2>4, <2>5, <2>6
<1>. HIDE DEF Tour
<1>2. ASSUME NEW n \in 1..Len(h), Tour(n) # NoTour
      PROVE  TourTime(m, Tour(n)) \in Int /\ ~Exceeds(TourTime(m, Tour(n)), b)
  <2>1. n \in Nat /\ IsMatrix(m, n) /\ Tour(n) \in Affordable(n, m, b)
    BY <1>1, <1>2
  <2>. QED
    BY <2>1, AffordableType
<1>3. ASSUME NEW n \in 1..Len(h), NEW k \in 1..n
      PROVE  /\ Tour(k) # NoTour => Tour(n) # NoTour
             /\ TourHeat(h, Tour(k)) <= TourHeat(h, Tour(n))
  <2>1. n \in Nat /\ k \in 0..n /\ k \in 1..Len(h) /\ k \in Nat
    OBVIOUS
  <2>2. Affordable(k, m, b) \subseteq Affordable(n, m, b)
    BY <2>1, AffordableGrows
  <2>3. Tour(n) \in Seq(1..n) /\ Tour(k) \in Seq(1..n)
    <3>1. Tour(n) \in Seq(1..n) /\ Tour(k) \in Seq(1..k)
      BY <1>1, <2>1
    <3>2. 1..k \subseteq 1..n
      OBVIOUS
    <3>3. Seq(1..k) \subseteq Seq(1..n)
      BY <3>2
    <3>. QED
      BY <3>1, <3>3
  <2>4. \A i \in 1..n : SubSeq(h, 1, n)[i] = h[i] /\ h[i] \in Nat
    BY <1>1
  <2>5. \A t \in Seq(1..n) : TourHeat(SubSeq(h, 1, n), t) = TourHeat(h, t) /\ TourHeat(h, t) \in Nat
    <3>1. ASSUME NEW t \in Seq(1..n)
          PROVE  TourHeat(SubSeq(h, 1, n), t) = TourHeat(h, t) /\ TourHeat(h, t) \in Nat
      <4>. DEFINE g == SubSeq(h, 1, n)
      <4>0. \A i \in 1..n : g[i] = h[i]
        BY <2>4
      <4>1. \A i \in 1..n : h[i] \in Nat
        BY <2>4
      <4>. HIDE DEF g
      <4>2. TourHeat(g, t) = TourHeat(h, t)
        BY ONLY <2>1, <4>0, TourHeatSame, t \in Seq(1..n)
      <4>3. TourHeat(h, t) \in Nat
        BY <2>1, <4>1, TourHeatNatural
      <4>. QED
        BY <4>2, <4>3 DEF g
    <3>. QED
      BY <3>1
  <2>6. HottestAffordable(n, m, b, SubSeq(h, 1, n), Tour(n))
    BY <1>1
  <2>7. CASE Tour(k) # NoTour
    <3>1. Tour(k) \in Affordable(n, m, b)
      BY <1>1, <2>1, <2>2, <2>7
    <3>2. Tour(n) # NoTour /\ TourHeat(SubSeq(h, 1, n), Tour(k)) <= TourHeat(SubSeq(h, 1, n), Tour(n))
      BY <2>6, <3>1 DEF HottestAffordable
    <3>. QED
      BY <2>3, <2>5, <3>2
  <2>8. CASE Tour(k) = NoTour
    <3>1. TourHeat(h, NoTour) = 0
      <4>1. DOMAIN NoTour = {}
        BY DEF NoTour
      <4>. QED
        BY <4>1, SumEmpty DEF TourHeat
    <3>2. TourHeat(h, Tour(n)) \in Nat
      BY <2>3, <2>5
    <3>. QED
      BY <2>8, <3>1, <3>2
  <2>. QED
    BY <2>7, <2>8
<1>. QED
  BY <1>1, <1>2, <1>3 DEF PlansTours, Tour
=============================================================================
