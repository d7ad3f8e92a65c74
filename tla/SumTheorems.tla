----------------------------- MODULE SumTheorems -----------------------------
(***************************************************************************)
(* What proofs about recursive functions need: induction over the naturals *)
(* and over the subsets of a finite set, for sets in place of predicates   *)
(* so that it can be cited; the recursion theorem for functions of finite  *)
(* sets; and the laws of a sum over a finite set.                          *)
(***************************************************************************)
EXTENDS Integers, FiniteSets, FiniteSetsExt, FiniteSetTheorems, WellFoundedInduction, TLAPS

(* A non-empty set of naturals has a least element.                        *)
LEMMA NatLeast ==
  ASSUME NEW T \in SUBSET Nat, T # {}
  PROVE  \E n \in T : \A m \in T : n <= m
<1>. DEFINE R == {ss \in Nat \X Nat : ss[1] < ss[2]}
<1>1. IsWellFoundedOn(R, Nat)
  BY NatLessThanWellFounded, Zenon DEF OpToRel
<1>2. \A m, n \in Nat : m < n => <<m, n>> \in R
  OBVIOUS
<1>. HIDE DEF R
<1>3. PICK n \in T : \A m \in T : ~(<<m, n>> \in R)
  BY <1>1, WFMin
<1>4. \A m \in T : ~(m < n)
  BY <1>2, <1>3
<1>. QED
  BY <1>4

(* What 0 has and every successor inherits, every natural has.             *)
LEMMA NatInductive ==
  ASSUME NEW G, 0 \in G, \A n \in Nat : n \in G => n + 1 \in G
  PROVE  Nat \subseteq G
<1>1. SUFFICES ASSUME Nat \ G # {} PROVE FALSE
  OBVIOUS
<1>2. PICK n \in Nat \ G : \A m \in Nat \ G : n <= m
  BY <1>1, NatLeast
<1>3. n - 1 \in Nat /\ n - 1 \in G
  BY <1>2
<1>. QED
  BY <1>2, <1>3

(* What a set has as soon as its proper subsets do, every subset of a      *)
(* finite set has.                                                         *)
LEMMA SubsetInductive ==
  ASSUME NEW S, IsFiniteSet(S), NEW G,
         \A T \in SUBSET S : (\A U \in SUBSET T : U # T => U \in G) => T \in G
  PROVE  SUBSET S \subseteq G
<1>1. SUFFICES ASSUME (SUBSET S) \ G # {} PROVE FALSE
  OBVIOUS
<1>2. IsWellFoundedOn(StrictSubsetOrdering(S), SUBSET S)
  BY FS_FiniteSubsetsOfFinite, FS_StrictSubsetOrderingWellFounded, Zenon
<1>3. \E T \in (SUBSET S) \ G : \A U \in (SUBSET S) \ G : ~(<<U, T>> \in StrictSubsetOrdering(S))
  <2>. DEFINE R == StrictSubsetOrdering(S)
              all == SUBSET S
              out == all \ G
  <2>1. IsWellFoundedOn(R, all) /\ out \subseteq all /\ out # {}
    BY <1>1, <1>2
  <2>. HIDE DEF R, all, out
  <2>2. \E T \in out : \A U \in out : ~(<<U, T>> \in R)
    BY <2>1, WFMin
  <2>. QED
    BY <2>2 DEF R, all, out
<1>4. PICK T \in (SUBSET S) \ G : \A U \in (SUBSET S) \ G : ~(<<U, T>> \in StrictSubsetOrdering(S))
  BY <1>3
<1>5. ASSUME NEW U \in SUBSET T, U # T, U \notin G PROVE FALSE
  <2>1. <<U, T>> \in StrictSubsetOrdering(S)
    BY <1>5 DEF StrictSubsetOrdering
  <2>. QED
    BY <1>4, <1>5, <2>1
<1>. QED
  BY <1>4, <1>5

-----------------------------------------------------------------------------
(* The least and the greatest element of a finite set of integers.         *)
LEMMA IntLeast ==
  ASSUME NEW T \in SUBSET Int, IsFiniteSet(T), T # {}
  PROVE  \E n \in T : \A m \in T : n <= m
<1>. DEFINE G == {U \in SUBSET T : U # {} => \E n \in U : \A m \in U : n <= m}
<1>1. ASSUME NEW U \in SUBSET T, \A V \in SUBSET U : V # U => V \in G
      PROVE  U \in G
  <2>1. SUFFICES ASSUME U # {} PROVE \E n \in U : \A m \in U : n <= m
    OBVIOUS
  <2>2. PICK x \in U : TRUE
    BY <2>1
  <2>3. U \ {x} \in G
    BY <1>1
  <2>4. CASE U \ {x} = {}
    BY <2>4
  <2>5. CASE U \ {x} # {}
    <3>1. PICK n \in U \ {x} : \A m \in U \ {x} : n <= m
      BY <2>3, <2>5
    <3>2. CASE x <= n
      BY <3>1, <3>2
    <3>3. CASE n <= x
      BY <3>1, <3>3
    <3>. QED
      BY <3>2, <3>3
  <2>. QED
    BY <2>4, <2>5
<1>. HIDE DEF G
<1>2. SUBSET T \subseteq G
  BY <1>1, SubsetInductive
<1>. QED
  BY <1>2 DEF G

LEMMA MinLeast ==
  ASSUME NEW T \in SUBSET Int, IsFiniteSet(T), T # {}
  PROVE  Min(T) \in T /\ \A m \in T : Min(T) <= m
BY IntLeast DEF Min

LEMMA MaxGreatest ==
  ASSUME NEW T \in SUBSET Int, IsFiniteSet(T), T # {}
  PROVE  Max(T) \in T /\ \A m \in T : Max(T) >= m
<1>. DEFINE N == {-m : m \in T}
            f == [m \in T |-> -m]
<1>1. f \in Surjection(T, N)
  BY DEF Surjection
<1>2. IsFiniteSet(N) /\ N # {} /\ N \subseteq Int
  <2>1. N # {} /\ N \subseteq Int
    <3>1. PICK x \in T : TRUE
      OBVIOUS
    <3>2. -x \in N
      OBVIOUS
    <3>3. ASSUME NEW n \in N PROVE n \in Int
      OBVIOUS
    <3>. QED
      BY <3>2, <3>3
  <2>. HIDE DEF N, f
  <2>. QED
    BY <1>1, <2>1, FS_Surjection
<1>3. PICK n \in N : \A m \in N : n <= m
  BY <1>2, IntLeast
<1>4. -n \in T /\ \A m \in T : -n >= m
  <2>1. PICK k \in T : n = -k
    OBVIOUS
  <2>2. ASSUME NEW m \in T PROVE -n >= m
    BY <1>3, <2>1
  <2>. QED
    BY <2>1, <2>2
<1>. QED
  BY <1>4 DEF Max

LEMMA PairFinite ==
  ASSUME NEW a, NEW b
  PROVE  IsFiniteSet({a, b})
<1>1. IsFiniteSet({a})
  BY FS_Singleton
<1>2. IsFiniteSet({a} \cup {b})
  BY <1>1, FS_AddElement
<1>3. {a} \cup {b} = {a, b}
  OBVIOUS
<1>. QED
  BY <1>2, <1>3

LEMMA MinPair ==
  ASSUME NEW a \in Int, NEW b \in Int
  PROVE  Min({a, b}) = IF a <= b THEN a ELSE b
<1>. DEFINE T == {a, b}
<1>1. IsFiniteSet(T)
  BY PairFinite
<1>2. T \in SUBSET Int /\ T # {} /\ a \in T /\ b \in T /\ \A x \in T : x = a \/ x = b
  OBVIOUS
<1>. HIDE DEF T
<1>3. Min(T) \in T /\ \A x \in T : Min(T) <= x
  BY <1>1, <1>2, MinLeast
<1>4. (Min(T) = a \/ Min(T) = b) /\ Min(T) <= a /\ Min(T) <= b
  BY <1>2, <1>3
<1>5. Min(T) = IF a <= b THEN a ELSE b
  BY <1>4
<1>. QED
  BY <1>5 DEF T

LEMMA MaxPair ==
  ASSUME NEW a \in Int, NEW b \in Int
  PROVE  Max({a, b}) = IF a >= b THEN a ELSE b
<1>. DEFINE T == {a, b}
<1>1. IsFiniteSet(T)
  BY PairFinite
<1>2. T \in SUBSET Int /\ T # {} /\ a \in T /\ b \in T /\ \A x \in T : x = a \/ x = b
  OBVIOUS
<1>. HIDE DEF T
<1>3. Max(T) \in T /\ \A x \in T : Max(T) >= x
  BY <1>1, <1>2, MaxGreatest
<1>4. (Max(T) = a \/ Max(T) = b) /\ Max(T) >= a /\ Max(T) >= b
  BY <1>2, <1>3
<1>5. Max(T) = IF a >= b THEN a ELSE b
  BY <1>4
<1>. QED
  BY <1>5 DEF T

-----------------------------------------------------------------------------
(* The values of a function on a finite set: finitely many.                *)
LEMMA ImageFinite ==
  ASSUME NEW S, IsFiniteSet(S), NEW f
  PROVE  IsFiniteSet({f[x] : x \in S})
<1>. DEFINE T == {f[x] : x \in S}
            g == [x \in S |-> f[x]]
<1>1. g \in Surjection(S, T)
  BY DEF Surjection
<1>. HIDE DEF T, g
<1>2. IsFiniteSet(T)
  BY <1>1, FS_Surjection
<1>. QED
  BY <1>2 DEF T

LEMMA ImageMin ==
  ASSUME NEW S, IsFiniteSet(S), S # {}, NEW f, \A x \in S : f[x] \in Int
  PROVE  /\ Min({f[x] : x \in S}) \in Int
         /\ \E x \in S : Min({f[y] : y \in S}) = f[x]
         /\ \A x \in S : Min({f[y] : y \in S}) <= f[x]
<1>. DEFINE T == {f[x] : x \in S}
<1>1. IsFiniteSet(T)
  BY ImageFinite
<1>2. T # {} /\ T \in SUBSET Int /\ \A x \in S : f[x] \in T
  OBVIOUS
<1>. HIDE DEF T
<1>3. Min(T) \in T /\ \A v \in T : Min(T) <= v
  BY <1>1, <1>2, MinLeast
<1>. QED
  BY <1>2, <1>3 DEF T

LEMMA ImageMax ==
  ASSUME NEW S, IsFiniteSet(S), S # {}, NEW f, \A x \in S : f[x] \in Int
  PROVE  /\ Max({f[x] : x \in S}) \in Int
         /\ \E x \in S : Max({f[y] : y \in S}) = f[x]
         /\ \A x \in S : Max({f[y] : y \in S}) >= f[x]
<1>. DEFINE T == {f[x] : x \in S}
<1>1. IsFiniteSet(T)
  BY ImageFinite
<1>2. T # {} /\ T \in SUBSET Int /\ \A x \in S : f[x] \in T
  OBVIOUS
<1>. HIDE DEF T
<1>3. Max(T) \in T /\ \A v \in T : Max(T) >= v
  BY <1>1, <1>2, MaxGreatest
<1>. QED
  BY <1>2, <1>3 DEF T

-----------------------------------------------------------------------------
LEMMA ProperSubsetSmaller ==
  ASSUME NEW S, IsFiniteSet(S), NEW T \in SUBSET S, NEW U \in SUBSET T, U # T
  PROVE  Cardinality(U) \in Nat /\ Cardinality(T) \in Nat /\ Cardinality(U) < Cardinality(T)
<1>1. IsFiniteSet(T) /\ IsFiniteSet(U)
  BY FS_Subset
<1>2. Cardinality(U) <= Cardinality(T) /\ Cardinality(U) # Cardinality(T)
  BY <1>1, FS_Subset
<1>3. Cardinality(U) \in Nat /\ Cardinality(T) \in Nat
  BY <1>1, FS_CardinalityType
<1>. QED
  BY <1>2, <1>3

(* A function of the subsets of S whose value at each is F of that subset  *)
(* and of the values at its proper subsets exists.                         *)
Recursor(F, S, V) ==
  /\ F \in [(SUBSET S) \X [SUBSET S -> V] -> V]
  /\ \A T \in SUBSET S : \A g, h \in [SUBSET S -> V] :
       (\A U \in SUBSET T : U # T => g[U] = h[U]) => F[<<T, g>>] = F[<<T, h>>]

Recursive(f, F, S, V) ==
  f \in [SUBSET S -> V] /\ \A T \in SUBSET S : f[T] = F[<<T, f>>]

LEMMA SubsetRecursion ==
  ASSUME NEW S, IsFiniteSet(S), NEW V, V # {}, NEW F, Recursor(F, S, V)
  PROVE  \E f : Recursive(f, F, S, V)
<1>0. PICK v0 \in V : TRUE
  OBVIOUS
<1>. DEFINE Upto(n) == {T \in SUBSET S : Cardinality(T) < n}
            G == {n \in Nat : \E f \in [SUBSET S -> V] : \A T \in Upto(n) : f[T] = F[<<T, f>>]}
<1>1. \A T \in SUBSET S : Cardinality(T) \in Nat
  BY FS_Subset, FS_CardinalityType
<1>2. 0 \in G
  <2>. DEFINE f == [T \in SUBSET S |-> v0]
  <2>1. f \in [SUBSET S -> V] /\ Upto(0) = {}
    BY <1>1
  <2>. QED
    BY <2>1
<1>3. ASSUME NEW n \in Nat, n \in G PROVE n + 1 \in G
  <2>1. PICK f \in [SUBSET S -> V] : \A T \in Upto(n) : f[T] = F[<<T, f>>]
    BY <1>3
  <2>. DEFINE h == [T \in SUBSET S |-> IF T \in Upto(n) THEN f[T] ELSE F[<<T, f>>]]
  <2>2. h \in [SUBSET S -> V]
    BY DEF Recursor
  <2>3. ASSUME NEW T \in Upto(n + 1) PROVE h[T] = F[<<T, h>>]
    <3>1. ASSUME NEW U \in SUBSET T, U # T PROVE h[U] = f[U]
      <4>1. Cardinality(U) \in Nat /\ Cardinality(T) \in Nat /\ Cardinality(U) < Cardinality(T)
        BY <3>1, ProperSubsetSmaller
      <4>2. U \in SUBSET S /\ Cardinality(T) < n + 1
        OBVIOUS
      <4>4. Cardinality(U) < n
        <5>. HIDE DEF Upto
        <5>. QED
          BY ONLY <4>1, <4>2, n \in Nat
      <4>5. U \in Upto(n)
        BY <4>2, <4>4
      <4>. QED
        BY <4>5
    <3>2. T \in SUBSET S
      OBVIOUS
    <3>3. h[T] = F[<<T, f>>]
      BY <2>1, <3>2
    <3>. HIDE DEF h, Upto
    <3>4. F[<<T, f>>] = F[<<T, h>>]
      BY <2>2, <3>1, <3>2 DEF Recursor
    <3>. QED
      BY <3>3, <3>4
  <2>. HIDE DEF h, Upto
  <2>4. n + 1 \in Nat
    OBVIOUS
  <2>. QED
    BY <2>2, <2>3, <2>4
<1>4. Nat \subseteq G
  <2>. HIDE DEF G
  <2>. QED
    BY <1>2, <1>3, NatInductive
<1>5. Cardinality(S) + 1 \in G
  <2>1. Cardinality(S) + 1 \in Nat
    BY <1>1
  <2>. HIDE DEF G
  <2>. QED
    BY <1>4, <2>1
<1>6. PICK f \in [SUBSET S -> V] : \A T \in Upto(Cardinality(S) + 1) : f[T] = F[<<T, f>>]
  BY <1>5
<1>7. \A T \in SUBSET S : T \in Upto(Cardinality(S) + 1)
  BY <1>1, FS_Subset
<1>. QED
  BY <1>6, <1>7 DEF Recursive

(* The same when the value at each subset has a type of its own, W: the    *)
(* step G need only keep to it when the values it reads do.                *)
Stepper(G, S, V, W) ==
  /\ \A T \in SUBSET S : W[T] # {} /\ W[T] \subseteq V
  /\ \A T \in SUBSET S : \A g \in [SUBSET S -> V] :
       (\A U \in SUBSET T : U # T => g[U] \in W[U]) => G[<<T, g>>] \in W[T]
  /\ \A T \in SUBSET S : \A g, h \in [SUBSET S -> V] :
       (\A U \in SUBSET T : U # T => g[U] = h[U]) => G[<<T, g>>] = G[<<T, h>>]

LEMMA TypedRecursion ==
  ASSUME NEW S, IsFiniteSet(S), NEW V, NEW W, NEW G, Stepper(G, S, V, W)
  PROVE  \E f : Recursive(f, G, S, V)
<1>. DEFINE Keep(T, v) == IF v \in W[T] THEN v ELSE CHOOSE w \in W[T] : TRUE
            F == [p \in (SUBSET S) \X [SUBSET S -> V] |-> Keep(p[1], G[p])]
<1>1. \A T \in SUBSET S : \A v : Keep(T, v) \in W[T] /\ Keep(T, v) \in V
  BY DEF Stepper
<1>2. ASSUME NEW T \in SUBSET S, NEW g \in [SUBSET S -> V] PROVE F[<<T, g>>] = Keep(T, G[<<T, g>>])
  <2>. HIDE DEF Keep
  <2>1. <<T, g>> \in (SUBSET S) \X [SUBSET S -> V] /\ <<T, g>>[1] = T
    OBVIOUS
  <2>. QED
    BY <2>1
<1>3. F \in [(SUBSET S) \X [SUBSET S -> V] -> V]
  BY <1>1
<1>. HIDE DEF F, Keep
<1>4. Recursor(F, S, V)
  <2>1. ASSUME NEW T \in SUBSET S, NEW g \in [SUBSET S -> V], NEW h \in [SUBSET S -> V],
               \A U \in SUBSET T : U # T => g[U] = h[U]
        PROVE  F[<<T, g>>] = F[<<T, h>>]
    <3>1. G[<<T, g>>] = G[<<T, h>>]
      BY <2>1 DEF Stepper
    <3>2. F[<<T, g>>] = Keep(T, G[<<T, g>>]) /\ F[<<T, h>>] = Keep(T, G[<<T, h>>])
      BY <1>2
    <3>. QED
      BY <3>1, <3>2
  <2>. QED
    BY <1>3, <2>1 DEF Recursor
<1>5. V # {}
  BY DEF Stepper
<1>6. \E f : Recursive(f, F, S, V)
  BY <1>4, <1>5, SubsetRecursion
<1>7. PICK f : Recursive(f, F, S, V)
  BY <1>6
<1>8. f \in [SUBSET S -> V] /\ \A T \in SUBSET S : f[T] = Keep(T, G[<<T, f>>])
  BY <1>2, <1>7 DEF Recursive
<1>9. \A T \in SUBSET S : f[T] \in W[T]
  <2>1. ASSUME NEW T \in SUBSET S PROVE f[T] \in W[T]
    <3>1. f[T] = Keep(T, G[<<T, f>>])
      BY <1>8
    <3>2. Keep(T, G[<<T, f>>]) \in W[T]
      BY <1>1
    <3>. QED
      BY <3>1, <3>2
  <2>. QED
    BY <2>1
<1>10. \A T \in SUBSET S : G[<<T, f>>] \in W[T]
  <2>1. ASSUME NEW T \in SUBSET S PROVE G[<<T, f>>] \in W[T]
    <3>1. \A U \in SUBSET T : U # T => f[U] \in W[U]
      BY <1>9
    <3>. QED
      BY <1>8, <3>1 DEF Stepper
  <2>. QED
    BY <2>1
<1>. QED
  BY <1>8, <1>10 DEF Recursive, Keep

-----------------------------------------------------------------------------
IntsOn(f, S) == \A x \in S : f[x] \in Int

(* One unfolding of the sum of f over T, given the sums g over subsets.    *)
Pick(T) == CHOOSE x \in T : TRUE
SumStep(f, g, T) == IF T = {} THEN 0 ELSE f[Pick(T)] + g[T \ {Pick(T)}]

IsSum(g, f, S) == g \in [SUBSET S -> Int] /\ \A T \in SUBSET S : g[T] = SumStep(f, g, T)

LEMMA PickIn == \A T : T # {} => Pick(T) \in T
BY DEF Pick

LEMMA SumTable ==
  ASSUME NEW S, IsFiniteSet(S), NEW f, IntsOn(f, S)
  PROVE  \E g : IsSum(g, f, S) /\ SumFunctionOnSet(f, S) = g[S]
<1>. DEFINE F == [p \in (SUBSET S) \X [SUBSET S -> Int] |-> SumStep(f, p[2], p[1])]
            iter == CHOOSE g : g = [T \in SUBSET S |-> SumStep(f, g, T)]
<1>0. \A T \in SUBSET S : T # {} => Pick(T) \in S /\ T \ {Pick(T)} \in SUBSET T /\ T \ {Pick(T)} # T
  BY PickIn
<1>1. ASSUME NEW T \in SUBSET S, NEW g, \A U \in SUBSET T : U # T => g[U] \in Int
      PROVE  SumStep(f, g, T) \in Int
  BY <1>0, <1>1 DEF SumStep, IntsOn
<1>2. F \in [(SUBSET S) \X [SUBSET S -> Int] -> Int]
  BY <1>1
<1>3. ASSUME NEW T \in SUBSET S, NEW g \in [SUBSET S -> Int], NEW h \in [SUBSET S -> Int],
             \A U \in SUBSET T : U # T => g[U] = h[U]
      PROVE  F[<<T, g>>] = F[<<T, h>>]
  <2>1. SumStep(f, g, T) = SumStep(f, h, T)
    BY <1>0, <1>3 DEF SumStep
  <2>. QED
    BY <2>1
<1>4. PICK g \in [SUBSET S -> Int] : \A T \in SUBSET S : g[T] = F[<<T, g>>]
  <2>. HIDE DEF F
  <2>1. Recursor(F, S, Int)
    BY <1>2, <1>3 DEF Recursor
  <2>2. Int # {}
    OBVIOUS
  <2>3. \E g : Recursive(g, F, S, Int)
    BY <2>1, <2>2, SubsetRecursion
  <2>. QED
    BY <2>3 DEF Recursive
<1>5. g = [T \in SUBSET S |-> SumStep(f, g, T)]
  BY <1>4
<1>6. iter = [T \in SUBSET S |-> SumStep(f, iter, T)]
  BY <1>5
<1>7. SumFunctionOnSet(f, S) = iter[S]
  BY DEF SumFunctionOnSet, FoldFunctionOnSet, MapThenFoldSet, SumStep, Pick
<1>. HIDE DEF iter, F
<1>8. \A T \in SUBSET S : iter[T] = SumStep(f, iter, T)
  BY <1>6
<1>. DEFINE G == {T \in SUBSET S : iter[T] \in Int}
<1>9. ASSUME NEW T \in SUBSET S, \A U \in SUBSET T : U # T => U \in G
      PROVE  T \in G
  BY <1>1, <1>8, <1>9
<1>10. SUBSET S \subseteq G
  <2>. HIDE DEF G
  <2>. QED
    BY <1>9, SubsetInductive
<1>11. \A T \in SUBSET S : iter[T] \in Int
  BY <1>10
<1>12. IsSum(iter, f, S)
  BY <1>6, <1>8, <1>11 DEF IsSum
<1>. QED
  BY <1>7, <1>12

(* Any element may be taken off first.                                     *)
LEMMA SumTakesAny ==
  ASSUME NEW S, IsFiniteSet(S), NEW f, IntsOn(f, S), NEW g, IsSum(g, f, S),
         NEW a \in S
  PROVE  g[S] = f[a] + g[S \ {a}]
<1>. DEFINE G == {T \in SUBSET S : \A x \in T : g[T] = f[x] + g[T \ {x}]}
<1>0. \A T \in SUBSET S : g[T] \in Int /\ g[T] = SumStep(f, g, T)
  BY DEF IsSum
<1>1. ASSUME NEW T \in SUBSET S, \A U \in SUBSET T : U # T => U \in G, NEW x \in T
      PROVE  g[T] = f[x] + g[T \ {x}]
  <2>. DEFINE y == Pick(T)
  <2>1. y \in T /\ g[T] = f[y] + g[T \ {y}]
    BY <1>0, PickIn DEF SumStep
  <2>. HIDE DEF y
  <2>2. CASE x = y
    BY <2>1, <2>2
  <2>3. CASE x # y
    <3>1. T \ {y} \in G /\ x \in T \ {y} /\ T \ {x} \in G /\ y \in T \ {x}
      BY <1>1, <2>1, <2>3
    <3>. DEFINE rest == (T \ {x}) \ {y}
    <3>2. (T \ {y}) \ {x} = rest /\ rest \in SUBSET S
      OBVIOUS
    <3>3. g[T \ {y}] = f[x] + g[rest] /\ g[T \ {x}] = f[y] + g[rest]
      BY <3>1, <3>2
    <3>4. f[x] \in Int /\ f[y] \in Int /\ g[rest] \in Int
      BY <1>0, <2>1, <3>2 DEF IntsOn
    <3>. HIDE DEF rest, G
    <3>5. f[y] + (f[x] + g[rest]) = f[x] + (f[y] + g[rest])
      BY <3>4
    <3>. QED
      BY <2>1, <3>3, <3>5
  <2>. QED
    BY <2>2, <2>3
<1>2. SUBSET S \subseteq G
  <2>1. ASSUME NEW T \in SUBSET S, \A U \in SUBSET T : U # T => U \in G PROVE T \in G
    BY <1>1, <2>1
  <2>. HIDE DEF G
  <2>. QED
    BY <2>1, SubsetInductive
<1>. QED
  BY <1>2

(* Sums depend on the values summed only.                                  *)
LEMMA SumsAgree ==
  ASSUME NEW S, IsFiniteSet(S), NEW f, NEW g, IsSum(g, f, S),
         NEW R, NEW e, NEW h, IsSum(h, e, R),
         S \subseteq R, \A x \in S : f[x] = e[x]
  PROVE  g[S] = h[S]
<1>. DEFINE G == {T \in SUBSET S : g[T] = h[T]}
<1>1. ASSUME NEW T \in SUBSET S, \A U \in SUBSET T : U # T => U \in G
      PROVE  T \in G
  <2>1. g[T] = SumStep(f, g, T) /\ h[T] = SumStep(e, h, T)
    BY DEF IsSum
  <2>2. CASE T = {}
    BY <2>1, <2>2 DEF SumStep
  <2>3. CASE T # {}
    <3>1. Pick(T) \in T /\ Pick(T) \in S
      BY <2>3, PickIn
    <3>2. T \ {Pick(T)} \in G
      BY <1>1, <3>1
    <3>. QED
      BY <2>1, <2>3, <3>1, <3>2 DEF SumStep
  <2>. QED
    BY <2>2, <2>3
<1>2. SUBSET S \subseteq G
  <2>. HIDE DEF G
  <2>. QED
    BY <1>1, SubsetInductive
<1>. QED
  BY <1>2

-----------------------------------------------------------------------------
LEMMA SumType ==
  ASSUME NEW S, IsFiniteSet(S), NEW f, IntsOn(f, S)
  PROVE  SumFunctionOnSet(f, S) \in Int
<1>1. PICK g : IsSum(g, f, S) /\ SumFunctionOnSet(f, S) = g[S]
  BY SumTable
<1>. QED
  BY <1>1 DEF IsSum

LEMMA SumEmpty ==
  ASSUME NEW f
  PROVE  SumFunctionOnSet(f, {}) = 0
<1>1. IsFiniteSet({}) /\ IntsOn(f, {})
  BY FS_EmptySet DEF IntsOn
<1>2. PICK g : IsSum(g, f, {}) /\ SumFunctionOnSet(f, {}) = g[{}]
  BY <1>1, SumTable
<1>. QED
  BY <1>2 DEF IsSum, SumStep

LEMMA SumSame ==
  ASSUME NEW S, IsFiniteSet(S), NEW f, NEW e, IntsOn(f, S), \A x \in S : f[x] = e[x]
  PROVE  SumFunctionOnSet(f, S) = SumFunctionOnSet(e, S)
<1>1. PICK g : IsSum(g, f, S) /\ SumFunctionOnSet(f, S) = g[S]
  BY SumTable
<1>2. PICK h : IsSum(h, e, S) /\ SumFunctionOnSet(e, S) = h[S]
  <2>1. IntsOn(e, S)
    BY DEF IntsOn
  <2>. QED
    BY <2>1, SumTable
<1>. QED
  BY <1>1, <1>2, SumsAgree

LEMMA SumRemove ==
  ASSUME NEW S, IsFiniteSet(S), NEW f, IntsOn(f, S), NEW y \in S
  PROVE  SumFunctionOnSet(f, S) = f[y] + SumFunctionOnSet(f, S \ {y})
<1>. DEFINE R == S \ {y}
<1>1. IsFiniteSet(R) /\ R \subseteq S /\ IntsOn(f, R)
  BY FS_Subset DEF IntsOn
<1>2. PICK g : IsSum(g, f, S) /\ SumFunctionOnSet(f, S) = g[S]
  BY SumTable
<1>. HIDE DEF R
<1>3. PICK h : IsSum(h, f, R) /\ SumFunctionOnSet(f, R) = h[R]
  BY <1>1, SumTable
<1>4. h[R] = g[R]
  BY <1>1, <1>2, <1>3, SumsAgree
<1>5. g[S] = f[y] + g[R]
  BY <1>2, SumTakesAny DEF R
<1>. QED
  BY <1>2, <1>3, <1>4, <1>5 DEF R

(* A sum over 1..k+1 ends with its last term.                              *)
LEMMA SumLast ==
  ASSUME NEW k \in Nat, NEW f, IntsOn(f, 1..(k + 1))
  PROVE  SumFunctionOnSet(f, 1..(k + 1)) = SumFunctionOnSet(f, 1..k) + f[k + 1]
<1>. DEFINE S == 1..(k + 1)
<1>0. k + 1 \in Int /\ k + 1 \in S /\ S \ {k + 1} = 1..k
  OBVIOUS
<1>1. IsFiniteSet(S)
  BY <1>0, FS_Interval
<1>2. IsFiniteSet(1..k) /\ IntsOn(f, 1..k) /\ f[k + 1] \in Int
  BY FS_Interval DEF IntsOn
<1>3. SumFunctionOnSet(f, 1..k) \in Int
  BY <1>2, SumType
<1>. HIDE DEF S
<1>4. IntsOn(f, S)
  BY DEF S
<1>5. SumFunctionOnSet(f, S) = f[k + 1] + SumFunctionOnSet(f, S \ {k + 1})
  BY <1>0, <1>1, <1>4, SumRemove
<1>6. SumFunctionOnSet(f, S) = f[k + 1] + SumFunctionOnSet(f, 1..k)
  BY <1>0, <1>5
<1>. QED
  BY <1>2, <1>3, <1>6 DEF S

(* A sum of smaller numbers is smaller.                                    *)
LEMMA SumMonotonic ==
  ASSUME NEW S, IsFiniteSet(S), NEW f, IntsOn(f, S), NEW e, IntsOn(e, S), \A x \in S : f[x] <= e[x]
  PROVE  SumFunctionOnSet(f, S) <= SumFunctionOnSet(e, S)
<1>1. PICK g : IsSum(g, f, S) /\ SumFunctionOnSet(f, S) = g[S]
  BY SumTable
<1>2. PICK h : IsSum(h, e, S) /\ SumFunctionOnSet(e, S) = h[S]
  BY SumTable
<1>. DEFINE G == {T \in SUBSET S : g[T] <= h[T]}
<1>3. ASSUME NEW T \in SUBSET S, \A U \in SUBSET T : U # T => U \in G
      PROVE  T \in G
  <2>1. g[T] = SumStep(f, g, T) /\ h[T] = SumStep(e, h, T)
    BY <1>1, <1>2 DEF IsSum
  <2>2. CASE T = {}
    BY <2>1, <2>2 DEF SumStep
  <2>3. CASE T # {}
    <3>. DEFINE x == Pick(T)
                U == T \ {x}
    <3>1. x \in T /\ x \in S
      BY <2>3, PickIn
    <3>2. U \in SUBSET S /\ U \in G
      BY <1>3, <3>1
    <3>3. g[U] \in Int /\ h[U] \in Int /\ g[U] <= h[U]
      BY <1>1, <1>2, <3>2 DEF IsSum
    <3>4. f[x] \in Int /\ e[x] \in Int /\ f[x] <= e[x]
      BY <3>1 DEF IntsOn
    <3>5. g[T] = f[x] + g[U] /\ h[T] = e[x] + h[U]
      BY <2>1, <2>3 DEF SumStep
    <3>. HIDE DEF x, U
    <3>6. g[T] <= h[T]
      BY <3>3, <3>4, <3>5
    <3>. QED
      BY <3>6
  <2>. QED
    BY <2>2, <2>3
<1>4. SUBSET S \subseteq G
  <2>. HIDE DEF G
  <2>. QED
    BY <1>3, SubsetInductive
<1>5. g[S] <= h[S]
  BY <1>4
<1>. QED
  BY <1>1, <1>2, <1>5

LEMMA SumZero ==
  ASSUME NEW S, IsFiniteSet(S), NEW f, \A x \in S : f[x] = 0
  PROVE  SumFunctionOnSet(f, S) = 0
<1>0. IntsOn(f, S)
  BY DEF IntsOn
<1>1. PICK g : IsSum(g, f, S) /\ SumFunctionOnSet(f, S) = g[S]
  BY <1>0, SumTable
<1>. DEFINE G == {T \in SUBSET S : g[T] = 0}
<1>2. ASSUME NEW T \in SUBSET S, \A U \in SUBSET T : U # T => U \in G
      PROVE  T \in G
  <2>1. g[T] = SumStep(f, g, T)
    BY <1>1 DEF IsSum
  <2>2. CASE T = {}
    BY <2>1, <2>2 DEF SumStep
  <2>3. CASE T # {}
    <3>1. Pick(T) \in T /\ Pick(T) \in S
      BY <2>3, PickIn
    <3>2. T \ {Pick(T)} \in G
      BY <1>2, <3>1
    <3>. QED
      BY <2>1, <2>3, <3>1, <3>2 DEF SumStep
  <2>. QED
    BY <2>2, <2>3
<1>3. SUBSET S \subseteq G
  <2>. HIDE DEF G
  <2>. QED
    BY <1>2, SubsetInductive
<1>. QED
  BY <1>1, <1>3

LEMMA SumNatural ==
  ASSUME NEW S, IsFiniteSet(S), NEW f, \A x \in S : f[x] \in Nat
  PROVE  SumFunctionOnSet(f, S) \in Nat
<1>. DEFINE zero == [x \in S |-> 0]
<1>1. IntsOn(zero, S) /\ IntsOn(f, S) /\ (\A x \in S : zero[x] <= f[x]) /\ \A x \in S : zero[x] = 0
  BY DEF IntsOn
<1>. HIDE DEF zero
<1>2. SumFunctionOnSet(zero, S) = 0 /\ SumFunctionOnSet(f, S) \in Int
  BY <1>1, SumZero, SumType
<1>3. SumFunctionOnSet(zero, S) <= SumFunctionOnSet(f, S)
  BY <1>1, SumMonotonic
<1>. QED
  BY <1>2, <1>3

(* A linear bound on the terms is one on the sum.                          *)
LEMMA SumBounded ==
  ASSUME NEW S, IsFiniteSet(S), NEW f, IntsOn(f, S), NEW e, IntsOn(e, S),
         NEW k \in Int, NEW l \in Int, NEW m \in Int,
         \A x \in S : k * f[x] <= l * e[x] + m
  PROVE  k * SumFunctionOnSet(f, S) <= l * SumFunctionOnSet(e, S) + m * Cardinality(S)
<1>1. PICK g : IsSum(g, f, S) /\ SumFunctionOnSet(f, S) = g[S]
  BY SumTable
<1>2. PICK h : IsSum(h, e, S) /\ SumFunctionOnSet(e, S) = h[S]
  BY SumTable
<1>. DEFINE G == {T \in SUBSET S : k * g[T] <= l * h[T] + m * Cardinality(T)}
<1>3. ASSUME NEW T \in SUBSET S, \A U \in SUBSET T : U # T => U \in G
      PROVE  T \in G
  <2>1. g[T] = SumStep(f, g, T) /\ h[T] = SumStep(e, h, T)
    BY <1>1, <1>2 DEF IsSum
  <2>2. CASE T = {}
    <3>1. Cardinality(T) = 0
      BY <2>2, FS_EmptySet
    <3>2. g[T] = 0 /\ h[T] = 0
      BY <2>1, <2>2 DEF SumStep
    <3>. QED
      BY <3>1, <3>2
  <2>3. CASE T # {}
    <3>. DEFINE x == Pick(T)
                U == T \ {x}
    <3>1. x \in T /\ x \in S
      BY <2>3, PickIn
    <3>2. U \in SUBSET S /\ U \in SUBSET T /\ U # T
      BY <3>1
    <3>3. U \in G
      BY <1>3, <3>2
    <3>4. g[U] \in Int /\ h[U] \in Int /\ k * g[U] <= l * h[U] + m * Cardinality(U)
      BY <1>1, <1>2, <3>2, <3>3 DEF IsSum
    <3>5. f[x] \in Int /\ e[x] \in Int /\ k * f[x] <= l * e[x] + m
      BY <3>1 DEF IntsOn
    <3>6. g[T] = f[x] + g[U] /\ h[T] = e[x] + h[U]
      BY <2>1, <2>3 DEF SumStep
    <3>. HIDE DEF U
    <3>7. Cardinality(T) = Cardinality(U) + 1 /\ Cardinality(U) \in Nat
      <4>1. IsFiniteSet(T)
        BY FS_Subset
      <4>2. Cardinality(T \ {x}) = Cardinality(T) - 1
        BY <3>1, <4>1, FS_RemoveElement
      <4>3. Cardinality(T) \in Nat
        BY <4>1, FS_CardinalityType
      <4>4. IsFiniteSet(T \ {x})
        BY <4>1, FS_Subset
      <4>5. Cardinality(T \ {x}) \in Nat
        BY <4>4, FS_CardinalityType
      <4>. QED
        BY <4>2, <4>3, <4>5 DEF U
    <3>. HIDE DEF x, G
    <3>8. k * g[T] = k * f[x] + k * g[U] /\ l * h[T] = l * e[x] + l * h[U]
      BY <3>4, <3>5, <3>6
    <3>9. m * Cardinality(T) = m * Cardinality(U) + m
      BY <3>7
    <3>10. k * g[T] <= l * h[T] + m * Cardinality(T)
      <4>. DEFINE a == k * f[x]
                  b == k * g[U]
                  c == l * e[x]
                  d == l * h[U]
                  n == m * Cardinality(U)
      <4>1. a \in Int /\ b \in Int /\ c \in Int /\ d \in Int /\ n \in Int
        BY <3>4, <3>5, <3>7
      <4>2. a <= c + m /\ b <= d + n
        BY <3>4, <3>5
      <4>. HIDE DEF a, b, c, d, n
      <4>3. a + b <= (c + d) + (n + m)
        BY <4>1, <4>2
      <4>. QED
        BY <3>8, <3>9, <4>3 DEF a, b, c, d, n
    <3>. QED
      BY <3>10 DEF G
  <2>. QED
    BY <2>2, <2>3
<1>4. SUBSET S \subseteq G
  <2>. HIDE DEF G
  <2>. QED
    BY <1>3, SubsetInductive
<1>5. k * g[S] <= l * h[S] + m * Cardinality(S)
  BY <1>4
<1>. QED
  BY <1>1, <1>2, <1>5
=============================================================================
