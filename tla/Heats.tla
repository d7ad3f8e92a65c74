-------------------------------- MODULE Heats --------------------------------
(***************************************************************************)
(* Vocabulary shared by the operations of a heat grid                      *)
(* (internal/heatmap/heatmap.go): a grid is a function from cells <<y, x>> *)
(* to integer heats, 0 standing for -Inf, which no feature reaches.        *)
(***************************************************************************)
EXTENDS Integers, FiniteSets, FiniteSetsExt

Nonzero(g) == {c \in DOMAIN g : g[c] > 0}

(* sorted[i] (from 0) of the heats of the cells S in ascending order.      *)
SortedAt(g, S, i) ==
  CHOOSE v \in {g[c] : c \in S} :
    /\ Cardinality({c \in S : g[c] < v}) <= i
    /\ i < Cardinality({c \in S : g[c] <= v})

TotalHeat(g, S) == MapThenSumSet(LAMBDA c : g[c], S)
=============================================================================
