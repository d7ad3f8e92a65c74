----------------------------- MODULE FeatureQuery -----------------------------
(***************************************************************************)
(* Client.Features (internal/geodata/geodata.go:90-266): which rows of the *)
(* table feature a search returns, in which order.  Similarities are in    *)
(* thousandths; a row carries what PostgreSQL computes for it against the  *)
(* query: its cosine similarity and its word similarity, in hundredths.    *)
(***************************************************************************)
EXTENDS Integers, Sequences, FiniteSets, FiniteSetsExt, SequencesExt

AnyValue == "*"
NoVector == -1000 \* the cosine of a row whose poi_vec is null

(* pg_trgm.word_similarity_threshold, which nothing in infra/db sets.      *)
WordThreshold == 60

Limit(q) == IF q.limit <= 0 \/ q.limit > 5000 THEN 1000 ELSE q.limit

MinSim(q) ==
  IF q.minSim > 0 THEN q.minSim
  ELSE CASE q.vec /\ q.name -> 450
         [] q.vec /\ ~q.name -> 550
         [] q.name /\ ~q.vec -> 250
         [] OTHER -> 0

Similarity(q, row) ==
  CASE q.vec /\ q.name  -> 6 * row.cosine + 4 * row.words
    [] q.vec /\ ~q.name -> 10 * row.cosine
    [] q.name /\ ~q.vec -> 10 * row.words
    [] OTHER -> 1000

(* tags ? key, and tags @> pairs.                                          *)
HasKey(row, k) == k \in DOMAIN row.tags
HasPair(row, k, v) == HasKey(row, k) /\ row.tags[k] = v

Included(include, row) ==
  \A k \in DOMAIN include :
    IF include[k] = AnyValue THEN HasKey(row, k) ELSE HasPair(row, k, include[k])

(* Mutant of Excluded: every pair is compared, "*" too.                    *)
ExcludedLiterally(exclude, row) ==
  DOMAIN exclude # {} /\ \A k \in DOMAIN exclude : HasPair(row, k, exclude[k])

(* Every "*" excludes by itself; the pairs with a value are one clause,    *)
(* NOT (tags @> {all of them}).                                            *)
Excluded(exclude, row) ==
  LET exact == {k \in DOMAIN exclude : exclude[k] # AnyValue}
  IN  \/ \E k \in DOMAIN exclude \ exact : HasKey(row, k)
      \/ exact # {} /\ \A k \in exact : HasPair(row, k, exclude[k])

(* The WHERE clauses of candidates and scored.                             *)
Scored(q, table) ==
  {row \in table :
     /\ row.located /\ row.inBox
     /\ q.vec => row.cosine # NoVector
     /\ q.name => row.words >= WordThreshold
     /\ Included(q.include, row)
     /\ ~Excluded(q.exclude, row)
     /\ Similarity(q, row) >= MinSim(q)}

(* ORDER BY similarity DESC LIMIT n; rows of equal similarity come in any  *)
(* order.                                                                  *)
Ranked(q, table) ==
  LET rows == Scored(q, table)
      n    == Min({Cardinality(rows), Limit(q)})
  IN  {s \in [1..n -> rows] :
         /\ \A i, j \in 1..n : i < j => s[i] # s[j] /\ Similarity(q, s[i]) >= Similarity(q, s[j])
         /\ \A row \in rows : (\A i \in 1..n : s[i] # row) =>
              \A i \in 1..n : Similarity(q, s[i]) >= Similarity(q, row)}

(* Mutant of CutTail: each row is compared with the one before it.         *)
CutTailStepwise(q, s) ==
  LET low == {i \in 2..Len(s) : 100 * Similarity(q, s[i]) < 88 * Similarity(q, s[i - 1])}
  IN  IF q.vec /\ low # {} THEN SubSeq(s, 1, Min(low) - 1) ELSE s

(* A semantic search drops the rows below 0.88 of the best.                *)
CutTail(q, s) ==
  LET low == {i \in 2..Len(s) : 100 * Similarity(q, s[i]) < 88 * Similarity(q, s[1])}
  IN  IF q.vec /\ low # {} THEN SubSeq(s, 1, Min(low) - 1) ELSE s

Features(q, table) == {CutTail(q, s) : s \in Ranked(q, table)}
=============================================================================
