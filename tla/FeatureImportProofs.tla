-------------------------- MODULE FeatureImportProofs --------------------------
(***************************************************************************)
(* Proofs about FeatureImport for any number of overlapping runs, any      *)
(* extracts and any number of failures.                                    *)
(***************************************************************************)
EXTENDS FeatureImport, FiniteSetTheorems, TLAPS

(* Ids are never reused, so an id that a run has read names the row with   *)
(* the same tags or no row at all.                                         *)
IdsUnique ==
  /\ \A x \in rows : x.id < nextId
  /\ \A x, y \in rows : x.id = y.id => x = y

PendingFresh ==
  \A r \in Runs : \A p \in pending[r] :
    /\ p.id < nextId
    /\ \A x \in rows : x.id = p.id => x.tags = p.tags

(* A snapshot is a function from objects to vectors of their tags.         *)
SnapshotOK(old) ==
  /\ \A o \in old : o.vec = o.tags
  /\ \A o, q \in old : o.obj = q.obj => o = q

OldVecsOK == \A r \in Runs : SnapshotOK(oldVecs[r])

DataInv == IdsUnique /\ PendingFresh /\ OldVecsOK /\ OneRowPerObject /\ VectorsMatch

IInv == TypeOK /\ DataInv /\ MissingVectorsCovered

LEMMA InitIInv == Init => IInv
<1>. SUFFICES ASSUME Init PROVE IInv
  OBVIOUS
<1>1. TypeOK
  <2>1. owed \in BOOLEAN /\ overlapped \in BOOLEAN
    BY Zenon DEF Init
  <2>2. Contents(opened) /\ Contents(raw)
    BY DEF Init, Contents
  <2>. QED
    BY <2>1, <2>2 DEF Init, TypeOK
<1>2. DataInv
  BY DEF Init, DataInv, IdsUnique, PendingFresh, OldVecsOK, SnapshotOK, OneRowPerObject, VectorsMatch
<1>3. MissingVectorsCovered
  BY DEF Init, MissingVectorsCovered
<1>. QED
  BY <1>1, <1>2, <1>3 DEF IInv

-----------------------------------------------------------------------------
(* What a join yields: one row per object, whose vector, if any, is that   *)
(* of the object's tags.                                                   *)
LEMMA JoinedTypes ==
  ASSUME Contents(raw), NEW old \in SUBSET [obj : Objects, tags : Tags, vec : Tags], SnapshotOK(old),
         NEW j \in LeftJoin(old), NEW n \in Nat
  PROVE  /\ j.obj \in DOMAIN raw
         /\ NewRow(j, n) \in Row
         /\ NewRow(j, n).id = n /\ NewRow(j, n).obj = j.obj
         /\ NewRow(j, n).vec \in {NoVec, NewRow(j, n).tags}
<1>1. j.obj \in DOMAIN raw /\ raw[j.obj] \in Tags /\ j.obj \in Objects
  BY DEF LeftJoin, Contents
<1>2. j.from # NoVec => j.from \in old /\ j.from.tags = raw[j.obj]
  BY DEF LeftJoin, Matches
<1>3. j.from # NoVec => j.from.vec = raw[j.obj]
  BY <1>2 DEF SnapshotOK
<1>. QED
  BY <1>1, <1>3 DEF NewRow, Row

LEMMA JoinedOnce ==
  ASSUME NEW old, SnapshotOK(old), NEW i \in LeftJoin(old), NEW j \in LeftJoin(old), i.obj = j.obj
  PROVE  i = j
<1>1. i.from = j.from
  <2>1. CASE Matches(old, i.obj, raw[i.obj]) = {}
    BY <2>1 DEF LeftJoin
  <2>2. CASE Matches(old, i.obj, raw[i.obj]) # {}
    <3>1. i.from \in old /\ i.from.obj = i.obj /\ j.from \in old /\ j.from.obj = i.obj
      BY <2>2 DEF LeftJoin, Matches
    <3>. QED
      BY <3>1 DEF SnapshotOK
  <2>. QED
    BY <2>1, <2>2
<1>. QED
  BY <1>1 DEF LeftJoin

LEMMA JoinedFinite ==
  ASSUME Contents(raw), NEW old, SnapshotOK(old)
  PROVE  Cardinality(LeftJoin(old)) \in Nat
<1>. DEFINE f == [j \in LeftJoin(old) |-> j.obj]
<1>1. f \in [LeftJoin(old) -> Objects]
  BY DEF LeftJoin, Contents
<1>2. IsInjective(f)
  BY JoinedOnce DEF IsInjective
<1>3. f \in Injection(LeftJoin(old), Objects)
  BY <1>1, <1>2 DEF Injection
<1>4. IsFiniteSet(LeftJoin(old))
  BY <1>3, ImportAssumption, FS_Injection
<1>. QED
  BY <1>4, FS_CardinalityType

(* What one chunk changes: vectors of rows it names, to those of the tags  *)
(* that were read.                                                         *)
LEMMA WrittenRow ==
  ASSUME TypeOK, PendingFresh, NEW r \in Runs, NEW chunk \in SUBSET pending[r], NEW y \in Written(chunk)
  PROVE  \E x \in rows :
           /\ y \in Row /\ y.id = x.id /\ y.obj = x.obj /\ y.tags = x.tags
           /\ (\E p \in chunk : p.id = x.id) => y.vec = x.tags
           /\ ~(\E p \in chunk : p.id = x.id) => y = x
<1>1. PICK x \in rows : y = IF \E p \in chunk : p.id = x.id
                              THEN [x EXCEPT !.vec = (CHOOSE p \in chunk : p.id = x.id).tags]
                              ELSE x
  BY DEF Written
<1>2. x \in Row
  BY DEF TypeOK
<1>3. CASE \E p \in chunk : p.id = x.id
  <2>. DEFINE q == CHOOSE p \in chunk : p.id = x.id
  <2>1. q \in chunk /\ q.id = x.id
    BY <1>3
  <2>2. q.tags = x.tags
    BY <2>1 DEF PendingFresh
  <2>3. y = [x EXCEPT !.vec = x.tags]
    BY <1>1, <1>3, <2>2
  <2>4. y \in Row /\ y.id = x.id /\ y.obj = x.obj /\ y.tags = x.tags /\ y.vec = x.tags
    BY <1>2, <2>3 DEF Row
  <2>. QED
    BY <1>3, <2>4
<1>4. CASE ~\E p \in chunk : p.id = x.id
  BY <1>1, <1>2, <1>4
<1>. QED
  BY <1>3, <1>4

-----------------------------------------------------------------------------
(* The actions in between: they move the program counter of one run that   *)
(* is not embedding, and touch neither the rows nor what is pending.       *)
Quiet(r) ==
  /\ pc[r] \notin {"fetch", "embed", "write"}
  /\ \E to \in Running \cup {"failed"} : Go(r, to)
  /\ UNCHANGED <<rows, nextId, pending, owed>>

LEMMA QuietActions ==
  ASSUME NEW r \in Runs,
         \/ StartInit(r) \/ StartUpdate(r) \/ ImportStart(r) \/ ImportDone(r)
         \/ Snapshot(r) \/ RequestTruncate(r) \/ DeadlockAbort(r)
  PROVE  Quiet(r)
<1>1. CASE StartInit(r)
  BY <1>1 DEF StartInit, MayStart, Quiet, Running
<1>2. CASE StartUpdate(r)
  BY <1>2 DEF StartUpdate, MayStart, Quiet, Running
<1>3. CASE ImportStart(r)
  BY <1>3 DEF ImportStart, Quiet, Running
<1>4. CASE ImportDone(r)
  BY <1>4 DEF ImportDone, Quiet, Running
<1>5. CASE Snapshot(r)
  BY <1>5 DEF Snapshot, Quiet, Running
<1>6. CASE RequestTruncate(r)
  BY <1>6 DEF RequestTruncate, Quiet, Running
<1>7. CASE DeadlockAbort(r)
  BY <1>7 DEF DeadlockAbort, Quiet, Running
<1>. QED
  BY <1>1, <1>2, <1>3, <1>4, <1>5, <1>6, <1>7

LEMMA GoType ==
  ASSUME TypeOK, NEW r \in Runs, NEW to \in Running \cup {"idle", "done", "failed"}, Go(r, to)
  PROVE  pc' \in [Runs -> Running \cup {"idle", "done", "failed"}]
BY DEF TypeOK, Go

LEMMA QuietStep ==
  ASSUME TypeOK, NEW r \in Runs, Quiet(r)
  PROVE  /\ pc' \in [Runs -> Running \cup {"idle", "done", "failed"}]
         /\ MissingVectorsCovered => MissingVectorsCovered'
         /\ DataInv /\ UNCHANGED oldVecs => DataInv'
<1>1. PICK to \in Running \cup {"failed"} : Go(r, to)
  BY DEF Quiet
<1>2. pc' \in [Runs -> Running \cup {"idle", "done", "failed"}]
  BY <1>1, GoType
<1>3. \A s \in Runs : pc[s] \in {"fetch", "embed", "write"} => pc'[s] = pc[s]
  BY <1>1 DEF Quiet, Go, TypeOK
<1>4. ASSUME MissingVectorsCovered PROVE MissingVectorsCovered'
  BY <1>3, <1>4 DEF Quiet, MissingVectorsCovered
<1>5. ASSUME DataInv, UNCHANGED oldVecs PROVE DataInv'
  BY <1>5 DEF Quiet, DataInv, IdsUnique, PendingFresh, OldVecsOK, OneRowPerObject, VectorsMatch
<1>. QED
  BY <1>2, <1>4, <1>5

(* A snapshot of rows that match their vectors, one per object.            *)
LEMMA SnapshotStep ==
  ASSUME TypeOK, DataInv, NEW r \in Runs, Snapshot(r)
  PROVE  /\ oldVecs' \in [Runs -> SUBSET [obj : Objects, tags : Tags, vec : Tags]]
         /\ DataInv'
<1>. DEFINE taken == {[obj |-> x.obj, tags |-> x.tags, vec |-> x.vec] : x \in {y \in rows : y.vec # NoVec}}
<1>1. oldVecs' = [oldVecs EXCEPT ![r] = taken]
  BY DEF Snapshot
<1>2. ASSUME NEW o \in taken
      PROVE  \E x \in rows : /\ x \in Row /\ o.obj = x.obj /\ o.tags = x.tags /\ o.vec = x.vec
                            /\ x.vec # NoVec /\ o = [obj |-> x.obj, tags |-> x.tags, vec |-> x.vec]
  BY <1>2 DEF TypeOK
<1>3. taken \subseteq [obj : Objects, tags : Tags, vec : Tags]
  BY <1>2 DEF Row
<1>4. SnapshotOK(taken)
  <2>1. \A o \in taken : o.vec = o.tags
    BY <1>2 DEF DataInv, VectorsMatch
  <2>2. \A o, q \in taken : o.obj = q.obj => o = q
    BY <1>2 DEF DataInv, OneRowPerObject
  <2>. QED
    BY <2>1, <2>2 DEF SnapshotOK
<1>5. oldVecs' \in [Runs -> SUBSET [obj : Objects, tags : Tags, vec : Tags]]
  BY <1>1, <1>3 DEF TypeOK
<1>6. OldVecsOK'
  <2>1. \A s \in Runs : oldVecs'[s] = IF s = r THEN taken ELSE oldVecs[s]
    BY <1>1 DEF TypeOK
  <2>. QED
    BY <1>4, <2>1 DEF DataInv, OldVecsOK, SnapshotOK
<1>7. IdsUnique' /\ PendingFresh' /\ OneRowPerObject' /\ VectorsMatch'
  BY DEF Snapshot, DataInv, IdsUnique, PendingFresh, OneRowPerObject, VectorsMatch
<1>. QED
  BY <1>5, <1>6, <1>7 DEF DataInv

(* The new rows get ids from the sequence, above all ids ever read.        *)
LEMMA RebuildStep ==
  ASSUME TypeOK, DataInv, NEW r \in Runs, Rebuild(r)
  PROVE  /\ rows' \subseteq Row /\ nextId' \in Nat
         /\ DataInv'
         /\ MissingVectorsCovered'
<1>. DEFINE joined == LeftJoin(oldVecs[r])
            last   == nextId + Cardinality(joined) - 1
<1>1. /\ Contents(raw) /\ SnapshotOK(oldVecs[r]) /\ nextId \in Nat
      /\ oldVecs[r] \in SUBSET [obj : Objects, tags : Tags, vec : Tags]
  BY DEF TypeOK, DataInv, OldVecsOK
<1>2. Cardinality(joined) \in Nat
  BY <1>1, JoinedFinite
<1>3. PICK id \in Injection(joined, nextId..last) : rows' = {NewRow(j, id[j]) : j \in joined}
  BY DEF Rebuild
<1>4. nextId' = last + 1
  BY DEF Rebuild
<1>5. \A j \in joined : id[j] \in Nat /\ nextId <= id[j] /\ id[j] < nextId'
  BY <1>1, <1>2, <1>3, <1>4 DEF Injection
<1>6. \A i, j \in joined : id[i] = id[j] => i = j
  BY <1>3 DEF Injection, IsInjective
<1>7. ASSUME NEW j \in joined
      PROVE  /\ NewRow(j, id[j]) \in Row
             /\ NewRow(j, id[j]).id = id[j] /\ NewRow(j, id[j]).obj = j.obj
             /\ NewRow(j, id[j]).vec \in {NoVec, NewRow(j, id[j]).tags}
  BY <1>1, <1>5, <1>7, JoinedTypes
<1>8. \A x \in rows' : \E j \in joined :
        x = NewRow(j, id[j]) /\ x \in Row /\ x.id = id[j] /\ x.obj = j.obj /\ x.vec \in {NoVec, x.tags}
  BY <1>3, <1>7
<1>. HIDE DEF joined, last
<1>9. IdsUnique'
  BY <1>5, <1>6, <1>8 DEF IdsUnique
<1>10. PendingFresh'
  <2>. SUFFICES ASSUME NEW s \in Runs, NEW p \in pending[s]
                PROVE  /\ p.id < nextId'
                       /\ \A x \in rows' : x.id # p.id
    BY DEF Rebuild, PendingFresh
  <2>1. p.id \in Nat /\ p.id < nextId
    BY DEF TypeOK, DataInv, PendingFresh
  <2>2. nextId' \in Nat /\ nextId <= nextId'
    BY <1>1, <1>2, <1>4 DEF last
  <2>3. \A x \in rows' : x.id \in Nat /\ nextId <= x.id
    BY <1>5, <1>8
  <2>. QED
    BY <1>1, <2>1, <2>2, <2>3
<1>11. OldVecsOK'
  BY DEF Rebuild, DataInv, OldVecsOK, SnapshotOK
<1>12. OneRowPerObject'
  <2>1. \A i, j \in joined : i.obj = j.obj => i = j
    BY <1>1, JoinedOnce DEF joined
  <2>. QED
    BY <1>8, <2>1 DEF OneRowPerObject
<1>13. VectorsMatch'
  BY <1>8 DEF VectorsMatch
<1>14. MissingVectorsCovered'
  <2>1. pc'[r] = "fetch"
    BY DEF Rebuild, Go, TypeOK
  <2>. QED
    BY <2>1 DEF MissingVectorsCovered
<1>15. rows' \subseteq Row /\ nextId' \in Nat
  BY <1>1, <1>2, <1>4, <1>8 DEF last
<1>. QED
  BY <1>9, <1>10, <1>11, <1>12, <1>13, <1>14, <1>15 DEF DataInv

LEMMA FetchStep ==
  ASSUME TypeOK, DataInv, NEW r \in Runs, Fetch(r)
  PROVE  /\ pending' \in [Runs -> SUBSET [id : Nat, tags : Tags]]
         /\ DataInv'
         /\ MissingVectorsCovered'
<1>. DEFINE todo == {[id |-> x.id, tags |-> x.tags] : x \in {y \in rows : y.vec = NoVec}}
<1>1. /\ pending' = [pending EXCEPT ![r] = todo]
      /\ Go(r, IF todo = {} THEN "done" ELSE "embed")
      /\ UNCHANGED <<rows, nextId, oldVecs>>
  BY DEF Fetch
<1>2. ASSUME NEW p \in todo
      PROVE  \E x \in rows : x \in Row /\ p.id = x.id /\ p.tags = x.tags /\ p = [id |-> x.id, tags |-> x.tags]
  BY <1>2 DEF TypeOK
<1>3. todo \subseteq [id : Nat, tags : Tags]
  BY <1>2 DEF Row
<1>4. \A s \in Runs : pending'[s] = IF s = r THEN todo ELSE pending[s]
  BY <1>1 DEF TypeOK
<1>5. PendingFresh'
  <2>1. ASSUME NEW p \in todo
        PROVE  p.id < nextId /\ \A x \in rows : x.id = p.id => x.tags = p.tags
    BY <1>2 DEF DataInv, IdsUnique
  <2>. QED
    BY <1>1, <1>4, <2>1 DEF DataInv, PendingFresh
<1>6. IdsUnique' /\ OldVecsOK' /\ OneRowPerObject' /\ VectorsMatch'
  BY <1>1 DEF DataInv, IdsUnique, OldVecsOK, SnapshotOK, OneRowPerObject, VectorsMatch
<1>7. MissingVectorsCovered'
  <2>. SUFFICES ASSUME NEW x \in rows, x.vec = NoVec
                PROVE  pc'[r] \in {"embed", "write"} /\ \E p \in pending'[r] : p.id = x.id
    BY <1>1 DEF MissingVectorsCovered
  <2>1. [id |-> x.id, tags |-> x.tags] \in todo
    OBVIOUS
  <2>2. pc'[r] = "embed"
    BY <1>1, <2>1 DEF Go, TypeOK
  <2>3. \E p \in todo : p.id = x.id
    <3>. WITNESS [id |-> x.id, tags |-> x.tags] \in todo
    <3>. QED
      OBVIOUS
  <2>4. pending'[r] = todo
    BY <1>4
  <2>. HIDE DEF todo
  <2>. QED
    BY <2>2, <2>3, <2>4
<1>8. pending' \in [Runs -> SUBSET [id : Nat, tags : Tags]]
  BY <1>1, <1>3 DEF TypeOK
<1>. QED
  BY <1>5, <1>6, <1>7, <1>8 DEF DataInv

LEMMA WriteChunkStep ==
  ASSUME TypeOK, DataInv, NEW r \in Runs, WriteChunk(r)
  PROVE  /\ rows' \subseteq Row
         /\ pending' \in [Runs -> SUBSET [id : Nat, tags : Tags]]
         /\ DataInv'
         /\ MissingVectorsCovered => MissingVectorsCovered'
<1>1. PICK chunk \in Chunks(r) :
        /\ rows' = Written(chunk)
        /\ pending' = [pending EXCEPT ![r] = @ \ chunk]
        /\ Go(r, IF pending[r] = chunk THEN "done" ELSE "write")
  BY DEF WriteChunk
<1>2. chunk \in SUBSET pending[r] /\ PendingFresh /\ UNCHANGED <<nextId, oldVecs, owed>>
  BY DEF Chunks, DataInv, WriteChunk
<1>3. \A y \in rows' : \E x \in rows :
        /\ y \in Row /\ y.id = x.id /\ y.obj = x.obj /\ y.tags = x.tags
        /\ (\E p \in chunk : p.id = x.id) => y.vec = x.tags
        /\ ~(\E p \in chunk : p.id = x.id) => y = x
  BY <1>1, <1>2, WrittenRow
<1>4. \A s \in Runs : pending'[s] = IF s = r THEN pending[s] \ chunk ELSE pending[s]
  BY <1>1 DEF TypeOK
<1>5. rows' \subseteq Row
  BY <1>3
<1>6. pending' \in [Runs -> SUBSET [id : Nat, tags : Tags]]
  BY <1>1 DEF TypeOK
<1>7. \A y, z \in rows' : y.id = z.id => y = z
  <2>. SUFFICES ASSUME NEW y \in rows', NEW z \in rows', y.id = z.id
                PROVE  y = z
    OBVIOUS
  <2>1. PICK x \in rows :
          /\ y \in Row /\ y.id = x.id /\ y.obj = x.obj /\ y.tags = x.tags
          /\ (\E p \in chunk : p.id = x.id) => y.vec = x.tags
          /\ ~(\E p \in chunk : p.id = x.id) => y = x
    BY <1>3
  <2>2. PICK w \in rows :
          /\ z \in Row /\ z.id = w.id /\ z.obj = w.obj /\ z.tags = w.tags
          /\ (\E p \in chunk : p.id = w.id) => z.vec = w.tags
          /\ ~(\E p \in chunk : p.id = w.id) => z = w
    BY <1>3
  <2>3. x = w
    BY <2>1, <2>2 DEF DataInv, IdsUnique
  <2>4. CASE \E p \in chunk : p.id = x.id
    BY <2>1, <2>2, <2>3, <2>4 DEF Row
  <2>5. CASE ~\E p \in chunk : p.id = x.id
    BY <2>1, <2>2, <2>3, <2>5
  <2>. QED
    BY <2>4, <2>5
<1>8. IdsUnique'
  BY <1>2, <1>3, <1>7 DEF DataInv, IdsUnique
<1>9. PendingFresh'
  <2>. SUFFICES ASSUME NEW s \in Runs, NEW p \in pending'[s]
                PROVE  /\ p.id < nextId'
                       /\ \A y \in rows' : y.id = p.id => y.tags = p.tags
    BY DEF PendingFresh
  <2>1. p \in pending[s]
    BY <1>4
  <2>2. p.id < nextId /\ \A x \in rows : x.id = p.id => x.tags = p.tags
    BY <1>2, <2>1 DEF PendingFresh
  <2>3. \A y \in rows' : \E x \in rows : y.id = x.id /\ y.tags = x.tags
    BY <1>3
  <2>. QED
    BY <1>2, <2>2, <2>3
<1>10. OneRowPerObject'
  <2>. SUFFICES ASSUME NEW y \in rows', NEW z \in rows', y.obj = z.obj
                PROVE  y.id = z.id
    BY <1>7 DEF OneRowPerObject
  <2>1. PICK x \in rows : y.id = x.id /\ y.obj = x.obj
    BY <1>3
  <2>2. PICK w \in rows : z.id = w.id /\ z.obj = w.obj
    BY <1>3
  <2>. QED
    BY <2>1, <2>2 DEF DataInv, OneRowPerObject
<1>11. VectorsMatch'
  BY <1>3 DEF DataInv, VectorsMatch
<1>12. OldVecsOK'
  BY <1>2 DEF DataInv, OldVecsOK, SnapshotOK
<1>13. ASSUME MissingVectorsCovered PROVE MissingVectorsCovered'
  <2>1. pc[r] \in {"embed", "write"}
    BY DEF WriteChunk
  <2>2. /\ \A s \in Runs \ {r} : pc'[s] = pc[s]
        /\ pc'[r] = IF pending[r] = chunk THEN "done" ELSE "write"
    BY <1>1 DEF Go, TypeOK
  <2>. SUFFICES ASSUME NEW y \in rows', y.vec = NoVec, ~owed, \A s \in Runs : pc'[s] # "fetch"
                PROVE  \E s \in Runs : pc'[s] \in {"embed", "write"} /\ \E p \in pending'[s] : p.id = y.id
    BY <1>2 DEF MissingVectorsCovered
  <2>3. PICK x \in rows :
          /\ y.id = x.id
          /\ (\E p \in chunk : p.id = x.id) => y.vec = x.tags
          /\ ~(\E p \in chunk : p.id = x.id) => y = x
    BY <1>3
  <2>4. x.tags # NoVec
    BY ImportAssumption DEF TypeOK, Row
  <2>5. x.vec = NoVec /\ ~\E p \in chunk : p.id = x.id
    BY <2>3, <2>4
  <2>6. \A s \in Runs : pc[s] # "fetch"
    BY <2>1, <2>2
  <2>7. PICK s \in Runs : pc[s] \in {"embed", "write"} /\ \E p \in pending[s] : p.id = x.id
    BY <1>13, <2>5, <2>6 DEF MissingVectorsCovered
  <2>8. PICK p \in pending[s] : p.id = x.id
    BY <2>7
  <2>9. p \in pending'[s] /\ pc'[s] \in {"embed", "write"}
    BY <1>2, <1>4, <2>2, <2>5, <2>7, <2>8
  <2>. QED
    BY <2>3, <2>8, <2>9
<1>. QED
  BY <1>5, <1>6, <1>8, <1>9, <1>10, <1>11, <1>12, <1>13 DEF DataInv

LEMMA DieStep ==
  ASSUME TypeOK, NEW r \in Runs, Die(r)
  PROVE  /\ DataInv => DataInv'
         /\ MissingVectorsCovered => MissingVectorsCovered'
         /\ owed' \in BOOLEAN /\ fails' \in Nat
<1>1. UNCHANGED <<rows, nextId, oldVecs, pending>> /\ Go(r, "failed")
  BY DEF Die
<1>2. ASSUME DataInv PROVE DataInv'
  BY <1>1, <1>2 DEF DataInv, IdsUnique, PendingFresh, OldVecsOK, SnapshotOK, OneRowPerObject, VectorsMatch
<1>3. ASSUME MissingVectorsCovered PROVE MissingVectorsCovered'
  <2>1. CASE pc[r] \in {"fetch", "embed", "write"}
    BY <2>1, Zenon DEF Die, MissingVectorsCovered
  <2>2. CASE pc[r] \notin {"fetch", "embed", "write"}
    <3>1. owed => owed'
      BY Zenon DEF Die
    <3>2. \A s \in Runs : pc[s] \in {"fetch", "embed", "write"} => pc'[s] = pc[s]
      BY <1>1, <2>2 DEF Go, TypeOK
    <3>. QED
      BY <1>1, <1>3, <3>1, <3>2 DEF MissingVectorsCovered
  <2>. QED
    BY <2>1, <2>2
<1>4. owed' \in BOOLEAN
  BY Zenon DEF Die
<1>5. fails' \in Nat
  BY DEF Die, TypeOK
<1>. QED
  BY <1>2, <1>3, <1>4, <1>5

-----------------------------------------------------------------------------
LEMMA RawType ==
  ASSUME TypeOK, NEW r \in Runs, ImportStart(r) \/ ImportDone(r)
  PROVE  Contents(opened') /\ Contents(raw')
<1>1. Contents(osm) /\ Contents(opened)
  BY ImportAssumption DEF TypeOK, Contents
<1>2. CASE ImportStart(r)
  <2>1. PICK part \in SUBSET DOMAIN osm : raw' = Restrict(osm, part)
    BY <1>2 DEF ImportStart
  <2>2. raw' = [o \in part |-> osm[o]]
    BY <2>1 DEF Restrict
  <2>. QED
    BY <1>1, <1>2, <2>2 DEF ImportStart, Contents
<1>3. CASE ImportDone(r)
  BY <1>1, <1>3 DEF ImportDone, Contents
<1>. QED
  BY <1>2, <1>3

LEMMA OverlappedType ==
  ASSUME TypeOK, NEW r \in Runs,
         StartInit(r) \/ StartUpdate(r) \/ Proceed(r) \/ DeadlockAbort(r) \/ Die(r)
  PROVE  overlapped' \in BOOLEAN
<1>1. CASE StartInit(r) \/ StartUpdate(r)
  BY <1>1, Zenon DEF StartInit, StartUpdate, MayStart
<1>2. CASE Proceed(r) \/ DeadlockAbort(r) \/ Die(r)
  <2>1. UNCHANGED overlapped
    BY <1>2 DEF Proceed, ImportStart, ImportDone, PostImport, Snapshot, RequestTruncate, Rebuild,
                EmbedFeatures, Fetch, WriteChunk, DeadlockAbort, Die
  <2>. QED
    BY <2>1 DEF TypeOK
<1>. QED
  BY <1>1, <1>2

LEMMA RunStep ==
  ASSUME IInv, NEW r \in Runs,
         StartInit(r) \/ StartUpdate(r) \/ Proceed(r) \/ DeadlockAbort(r) \/ Die(r)
  PROVE  IInv'
<1>0. TypeOK /\ DataInv /\ MissingVectorsCovered /\ overlapped' \in BOOLEAN
  BY OverlappedType DEF IInv
<1>1. CASE StartInit(r) \/ StartUpdate(r) \/ RequestTruncate(r) \/ DeadlockAbort(r)
  <2>1. Quiet(r)
    BY <1>1, QuietActions
  <2>2. UNCHANGED <<opened, raw, oldVecs, fails>> /\ osm' \in Extracts
    BY <1>0, <1>1 DEF StartInit, StartUpdate, RequestTruncate, DeadlockAbort, TypeOK
  <2>3. TypeOK'
    BY <1>0, <2>1, <2>2, QuietStep DEF Quiet, TypeOK, Contents
  <2>. QED
    BY <1>0, <2>1, <2>2, <2>3, QuietStep DEF IInv
<1>2. CASE ImportStart(r) \/ ImportDone(r)
  <2>1. Quiet(r) /\ Contents(opened') /\ Contents(raw')
    BY <1>0, <1>2, QuietActions, RawType
  <2>2. UNCHANGED <<osm, oldVecs, fails>>
    BY <1>2 DEF ImportStart, ImportDone
  <2>3. Contents(opened)' /\ Contents(raw)'
    BY <2>1 DEF Contents
  <2>4. TypeOK'
    BY <1>0, <2>1, <2>2, <2>3, QuietStep DEF Quiet, TypeOK
  <2>. QED
    BY <1>0, <2>1, <2>2, <2>4, QuietStep DEF IInv
<1>3. CASE Snapshot(r)
  <2>1. Quiet(r)
    BY <1>3, QuietActions
  <2>2. UNCHANGED <<osm, opened, raw, fails>>
    BY <1>3 DEF Snapshot
  <2>3. TypeOK'
    BY <1>0, <1>3, <2>1, <2>2, QuietStep, SnapshotStep DEF Quiet, TypeOK, Contents
  <2>. QED
    BY <1>0, <1>3, <2>1, <2>3, QuietStep, SnapshotStep DEF IInv
<1>4. CASE Rebuild(r)
  <2>1. UNCHANGED <<osm, opened, raw, oldVecs, pending, owed, fails>> /\ Go(r, "fetch")
    BY <1>4 DEF Rebuild
  <2>2. pc' \in [Runs -> Running \cup {"idle", "done", "failed"}]
    BY <1>0, <2>1, GoType DEF Running
  <2>3. TypeOK'
    BY <1>0, <1>4, <2>1, <2>2, RebuildStep DEF TypeOK, Contents
  <2>. QED
    BY <1>0, <1>4, <2>3, RebuildStep DEF IInv
<1>5. CASE Fetch(r)
  <2>1. UNCHANGED <<osm, opened, raw, rows, nextId, oldVecs, fails>> /\ owed' = FALSE
    BY <1>5 DEF Fetch
  <2>2. Go(r, "done") \/ Go(r, "embed")
    BY <1>5 DEF Fetch
  <2>3. pc' \in [Runs -> Running \cup {"idle", "done", "failed"}]
    BY <1>0, <2>2, GoType DEF Running
  <2>4. TypeOK'
    BY <1>0, <1>5, <2>1, <2>3, FetchStep DEF TypeOK, Contents
  <2>. QED
    BY <1>0, <1>5, <2>4, FetchStep DEF IInv
<1>6. CASE WriteChunk(r)
  <2>1. UNCHANGED <<osm, opened, raw, nextId, oldVecs, owed, fails>>
    BY <1>6 DEF WriteChunk
  <2>2. Go(r, "done") \/ Go(r, "write")
    BY <1>6 DEF WriteChunk
  <2>3. pc' \in [Runs -> Running \cup {"idle", "done", "failed"}]
    BY <1>0, <2>2, GoType DEF Running
  <2>4. TypeOK'
    BY <1>0, <1>6, <2>1, <2>3, WriteChunkStep DEF TypeOK, Contents
  <2>. QED
    BY <1>0, <1>6, <2>4, WriteChunkStep DEF IInv
<1>7. CASE Die(r)
  <2>1. UNCHANGED <<osm, opened, raw, rows, nextId, oldVecs, pending>> /\ Go(r, "failed")
    BY <1>7 DEF Die
  <2>2. pc' \in [Runs -> Running \cup {"idle", "done", "failed"}]
    BY <1>0, <2>1, GoType
  <2>3. TypeOK'
    BY <1>0, <1>7, <2>1, <2>2, DieStep DEF TypeOK, Contents
  <2>. QED
    BY <1>0, <1>7, <2>3, DieStep DEF IInv
<1>. QED
  BY <1>1, <1>2, <1>3, <1>4, <1>5, <1>6, <1>7 DEF Proceed, PostImport, EmbedFeatures

LEMMA InvStep ==
  ASSUME IInv, [Next]_vars
  PROVE  IInv'
<1>1. CASE Next
  BY <1>1, RunStep DEF Next
<1>2. CASE UNCHANGED vars
  BY <1>2 DEF vars, IInv, TypeOK, Contents, DataInv, IdsUnique, PendingFresh, OldVecsOK, SnapshotOK,
              OneRowPerObject, VectorsMatch, MissingVectorsCovered
<1>. QED
  BY <1>1, <1>2

(* The inductive invariant.                                                *)
THEOREM ImportInvariant == Spec => []IInv
BY InitIInv, InvStep, PTL DEF Spec, SafeSpec

(* The variables stay in their types: no NULL ever gets into a snapshot.   *)
THEOREM ImportTypeOK == Spec => []TypeOK
<1>1. IInv => TypeOK
  BY DEF IInv
<1>. QED
  BY <1>1, ImportInvariant, PTL

(* However runs overlap and die, a row's vector is that of its own tags.   *)
THEOREM ImportVectorsMatch == Spec => []VectorsMatch
<1>1. IInv => VectorsMatch
  BY DEF IInv, DataInv
<1>. QED
  BY <1>1, ImportInvariant, PTL

(* No merge ever gives an object two rows.                                 *)
THEOREM ImportOneRowPerObject == Spec => []OneRowPerObject
<1>1. IInv => OneRowPerObject
  BY DEF IInv, DataInv
<1>. QED
  BY <1>1, ImportInvariant, PTL

(* A missing vector is some run's to write, or the next run's.             *)
THEOREM ImportMissingVectorsCovered == Spec => []MissingVectorsCovered
<1>1. IInv => MissingVectorsCovered
  BY DEF IInv
<1>. QED
  BY <1>1, ImportInvariant, PTL
-----------------------------------------------------------------------------
(* As long as no run has overlapped another: one run at a time, and what   *)
(* it has imported is a whole extract.                                     *)
AloneInv ==
  ~overlapped =>
    /\ \A r, s \in Runs : pc[r] \in Running /\ pc[s] \in Running => r = s
    /\ \A r \in Runs : pc[r] = "osm2pgsql" => opened \in Extracts
    /\ \A r \in Runs : pc[r] \in {"imported", "snapped", "truncate"} => raw \in Extracts

Holds(table, e) ==
  /\ \A x \in table : x.obj \in DOMAIN e /\ x.tags = e[x.obj]
  /\ \A o \in DOMAIN e : \E x \in table : x.obj = o

LEMMA HoldsIsExtract ==
  ASSUME NEW e
  PROVE  Holds(rows, e) <=> {x.obj : x \in rows} = DOMAIN e /\ \A x \in rows : x.tags = e[x.obj]
BY DEF Holds

LEMMA AloneStep ==
  ASSUME TypeOK, AloneInv, NEW r \in Runs,
         StartInit(r) \/ StartUpdate(r) \/ Proceed(r) \/ DeadlockAbort(r) \/ Die(r)
  PROVE  AloneInv'
<1>. SUFFICES ASSUME ~overlapped' PROVE AloneInv'
  BY DEF AloneInv
<1>. USE DEF AloneInv, Running
<1>0. osm \in Extracts /\ pc \in [Runs -> Running \cup {"idle", "done", "failed"}]
  BY DEF TypeOK
<1>1. CASE StartInit(r) \/ StartUpdate(r)
  <2>1. ~overlapped /\ \A s \in Runs : pc[s] \notin Running
    BY <1>1, Zenon DEF StartInit, StartUpdate, MayStart
  <2>2. \E to \in {"fetch", "ready"} : pc' = [pc EXCEPT ![r] = to]
    BY <1>1 DEF StartInit, StartUpdate, Go
  <2>. QED
    BY <1>0, <2>1, <2>2
<1>2. CASE ImportStart(r)
  BY <1>0, <1>2 DEF ImportStart, Go
<1>3. CASE ImportDone(r)
  BY <1>0, <1>3 DEF ImportDone, Go
<1>4. CASE Snapshot(r)
  BY <1>0, <1>4 DEF Snapshot, Go
<1>5. CASE RequestTruncate(r)
  BY <1>0, <1>5 DEF RequestTruncate, Go
<1>6. CASE Rebuild(r)
  <2>1. pc[r] = "truncate" /\ UNCHANGED <<opened, raw, overlapped>> /\ pc' = [pc EXCEPT ![r] = "fetch"]
    BY <1>6 DEF Rebuild, MayTruncate, Go
  <2>. QED
    BY <1>0, <2>1
<1>7. CASE Fetch(r)
  <2>1. /\ pc[r] = "fetch" /\ UNCHANGED <<opened, raw, overlapped>>
        /\ \E to \in {"done", "embed"} : pc' = [pc EXCEPT ![r] = to]
    BY <1>7 DEF Fetch, Go
  <2>. QED
    BY <1>0, <2>1
<1>8. CASE WriteChunk(r)
  <2>1. /\ pc[r] \in {"embed", "write"} /\ UNCHANGED <<opened, raw, overlapped>>
        /\ \E to \in {"done", "write"} : pc' = [pc EXCEPT ![r] = to]
    BY <1>8 DEF WriteChunk, Go
  <2>. QED
    BY <1>0, <2>1
<1>9. CASE DeadlockAbort(r)
  BY <1>0, <1>9 DEF DeadlockAbort, Go
<1>10. CASE Die(r)
  BY <1>0, <1>10 DEF Die, Go
<1>. QED
  BY <1>1, <1>2, <1>3, <1>4, <1>5, <1>6, <1>7, <1>8, <1>9, <1>10 DEF Proceed, PostImport, EmbedFeatures

(* The merge yields what the raw tables hold.                              *)
LEMMA RebuildHolds ==
  ASSUME IInv, NEW r \in Runs, Rebuild(r)
  PROVE  Holds(rows', raw)
<1>. DEFINE joined == LeftJoin(oldVecs[r])
<1>1. Contents(raw) /\ oldVecs[r] \in SUBSET [obj : Objects, tags : Tags, vec : Tags]
  BY DEF IInv, TypeOK
<1>2. SnapshotOK(oldVecs[r])
  BY DEF IInv, DataInv, OldVecsOK
<1>3. Cardinality(joined) \in Nat
  BY <1>1, <1>2, JoinedFinite
<1>4. PICK id \in Injection(joined, nextId..(nextId + Cardinality(joined) - 1)) :
        rows' = {NewRow(j, id[j]) : j \in joined}
  BY DEF Rebuild
<1>5. \A j \in joined : id[j] \in Nat
  BY <1>3, <1>4 DEF Injection, IInv, TypeOK
<1>6. \A j \in joined : j.obj \in DOMAIN raw
  BY DEF LeftJoin
<1>7. \A j \in joined : NewRow(j, id[j]).obj = j.obj /\ NewRow(j, id[j]).tags = raw[j.obj]
  BY DEF NewRow
<1>8. ASSUME NEW o \in DOMAIN raw PROVE \E j \in joined : j.obj = o
  <2>. DEFINE found == Matches(oldVecs[r], o, raw[o])
              j == [obj |-> o, from |-> IF found = {} THEN NoVec ELSE CHOOSE v \in found : TRUE]
  <2>1. found \subseteq oldVecs[r]
    BY DEF Matches
  <2>2. j \in [obj : DOMAIN raw, from : oldVecs[r] \cup {NoVec}]
    BY <2>1
  <2>3. IF found = {} THEN j.from = NoVec ELSE j.from \in found
    OBVIOUS
  <2>4. j \in joined
    BY <2>2, <2>3 DEF LeftJoin
  <2>. QED
    BY <2>4
<1>9. \A x \in rows' : \E j \in joined : x = NewRow(j, id[j])
  BY <1>4
<1>10. \A j \in joined : NewRow(j, id[j]) \in rows'
  BY <1>4
<1>. HIDE DEF joined
<1>11. \A x \in rows' : x.obj \in DOMAIN raw /\ x.tags = raw[x.obj]
  BY <1>6, <1>7, <1>9
<1>12. \A o \in DOMAIN raw : \E x \in rows' : x.obj = o
  BY <1>7, <1>8, <1>10
<1>. QED
  BY <1>11, <1>12 DEF Holds

(* A chunk of vectors changes neither objects nor tags.                    *)
LEMMA WrittenHolds ==
  ASSUME TypeOK, PendingFresh, NEW r \in Runs, NEW chunk \in SUBSET pending[r], NEW e, Holds(rows, e)
  PROVE  Holds(Written(chunk), e)
<1>1. \A y \in Written(chunk) : \E x \in rows : y.obj = x.obj /\ y.tags = x.tags
  BY WrittenRow
<1>2. ASSUME NEW x \in rows PROVE \E y \in Written(chunk) : y.obj = x.obj
  <2>. DEFINE y == IF \E p \in chunk : p.id = x.id
                     THEN [x EXCEPT !.vec = (CHOOSE p \in chunk : p.id = x.id).tags]
                     ELSE x
  <2>1. y \in Written(chunk)
    BY DEF Written
  <2>2. x \in Row
    BY DEF TypeOK
  <2>3. y.obj = x.obj
    BY <2>2 DEF Row
  <2>. QED
    BY <2>1, <2>3
<1>3. \A y \in Written(chunk) : y.obj \in DOMAIN e /\ y.tags = e[y.obj]
  BY <1>1 DEF Holds
<1>4. \A o \in DOMAIN e : \E y \in Written(chunk) : y.obj = o
  BY <1>2 DEF Holds
<1>. QED
  BY <1>3, <1>4 DEF Holds

LEMMA TableStep ==
  ASSUME IInv, AloneInv, TableIsExtract, NEW r \in Runs,
         StartInit(r) \/ StartUpdate(r) \/ Proceed(r) \/ DeadlockAbort(r) \/ Die(r)
  PROVE  TableIsExtract'
<1>. SUFFICES ASSUME ~overlapped' PROVE rows' = {} \/ \E e \in Extracts : Holds(rows', e)
  <2>1. \A e : Holds(rows', e) <=> {x.obj : x \in rows'} = DOMAIN e /\ \A x \in rows' : x.tags = e[x.obj]
    BY DEF Holds
  <2>. QED
    BY <2>1 DEF TableIsExtract
<1>0. ~overlapped
  BY Zenon DEF StartInit, StartUpdate, MayStart, Proceed, ImportStart, ImportDone, PostImport, Snapshot,
               RequestTruncate, Rebuild, EmbedFeatures, Fetch, WriteChunk, DeadlockAbort, Die
<1>1. rows = {} \/ \E e \in Extracts : Holds(rows, e)
  BY <1>0, HoldsIsExtract DEF TableIsExtract
<1>2. CASE Rebuild(r)
  <2>1. raw \in Extracts
    BY <1>0, <1>2 DEF Rebuild, MayTruncate, AloneInv
  <2>. QED
    BY <1>2, <2>1, RebuildHolds
<1>3. CASE WriteChunk(r)
  <2>1. PICK chunk \in SUBSET pending[r] : rows' = Written(chunk)
    BY <1>3 DEF WriteChunk, Chunks
  <2>2. rows = {} => rows' = {}
    BY <2>1 DEF Written
  <2>. QED
    BY <1>1, <2>1, <2>2, WrittenHolds DEF IInv, DataInv
<1>4. CASE ~Rebuild(r) /\ ~WriteChunk(r)
  <2>1. rows' = rows
    BY <1>4 DEF StartInit, StartUpdate, Proceed, ImportStart, ImportDone, PostImport, Snapshot,
                RequestTruncate, EmbedFeatures, Fetch, DeadlockAbort, Die
  <2>. QED
    BY <1>1, <2>1
<1>. QED
  BY <1>2, <1>3, <1>4

(* As long as no two runs overlap, the table is always one whole extract,  *)
(* wherever a run dies: post-import.sql works in one transaction, and      *)
(* never on raw tables that osm2pgsql has not finished.                    *)
THEOREM ImportTableIsExtract == Spec => []TableIsExtract
<1>1. Init => AloneInv /\ TableIsExtract
  BY DEF Init, AloneInv, TableIsExtract, Running
<1>2. IInv /\ AloneInv /\ TableIsExtract /\ [Next]_vars => (AloneInv /\ TableIsExtract)'
  <2>. SUFFICES ASSUME IInv, AloneInv, TableIsExtract, [Next]_vars PROVE (AloneInv /\ TableIsExtract)'
    OBVIOUS
  <2>1. CASE Next
    BY <2>1, AloneStep, TableStep DEF Next, IInv
  <2>2. CASE UNCHANGED vars
    BY <2>2 DEF vars, AloneInv, TableIsExtract
  <2>. QED
    BY <2>1, <2>2
<1>. QED
  BY <1>1, <1>2, ImportInvariant, PTL DEF Spec, SafeSpec
-----------------------------------------------------------------------------
(* A snapshot stays current until the merge that it was taken for: no row  *)
(* gets a vector in between unless runs overlap.                           *)
SnapshotCurrent ==
  ~overlapped =>
    \A r \in Runs : pc[r] \in {"snapped", "truncate"} =>
      \A x \in rows : x.vec # NoVec => \E o \in oldVecs[r] : o.obj = x.obj /\ o.tags = x.tags

LEMMA SnapshotCurrentStep ==
  ASSUME IInv, AloneInv, SnapshotCurrent, NEW r \in Runs,
         StartInit(r) \/ StartUpdate(r) \/ Proceed(r) \/ DeadlockAbort(r) \/ Die(r)
  PROVE  SnapshotCurrent'
<1>. SUFFICES ASSUME ~overlapped', NEW s \in Runs, pc'[s] \in {"snapped", "truncate"},
                     NEW x \in rows', x.vec # NoVec
              PROVE  \E o \in oldVecs'[s] : o.obj = x.obj /\ o.tags = x.tags
  BY DEF SnapshotCurrent
<1>0. /\ ~overlapped
      /\ pc \in [Runs -> Running \cup {"idle", "done", "failed"}]
      /\ oldVecs \in [Runs -> SUBSET [obj : Objects, tags : Tags, vec : Tags]]
  BY Zenon DEF IInv, TypeOK, StartInit, StartUpdate, MayStart, Proceed, ImportStart, ImportDone, PostImport, Snapshot,
               RequestTruncate, Rebuild, EmbedFeatures, Fetch, WriteChunk, DeadlockAbort, Die
<1>1. CASE Snapshot(r)
  <2>1. CASE s = r
    <3>1. x \in rows /\ oldVecs'[s] =
            {[obj |-> y.obj, tags |-> y.tags, vec |-> y.vec] : y \in {z \in rows : z.vec # NoVec}}
      BY <1>0, <1>1, <2>1 DEF Snapshot
    <3>2. [obj |-> x.obj, tags |-> x.tags, vec |-> x.vec] \in oldVecs'[s]
      BY <3>1
    <3>. QED
      BY <3>2
  <2>2. CASE s # r
    <3>1. pc[s] = pc'[s] /\ oldVecs'[s] = oldVecs[s] /\ rows' = rows
      BY <1>0, <1>1, <2>2 DEF Snapshot, Go
    <3>. QED
      BY <1>0, <3>1 DEF SnapshotCurrent
  <2>. QED
    BY <2>1, <2>2
<1>2. CASE Rebuild(r) \/ WriteChunk(r)
  <2>1. pc[r] \in Running /\ (s = r => pc'[s] \in {"fetch", "done", "write"}) /\ (s # r => pc'[s] = pc[s])
    BY <1>0, <1>2 DEF Rebuild, MayTruncate, WriteChunk, Go, Running
  <2>. QED
    BY <1>0, <2>1 DEF AloneInv, Running
<1>3. CASE ~Snapshot(r) /\ ~Rebuild(r) /\ ~WriteChunk(r)
  <2>1. /\ rows' = rows /\ oldVecs' = oldVecs
        /\ \E to \in {"fetch", "ready", "osm2pgsql", "imported", "truncate", "done", "embed", "failed"} :
             /\ pc' = [pc EXCEPT ![r] = to]
             /\ to = "truncate" => pc[r] = "snapped"
    BY <1>3 DEF StartInit, StartUpdate, Proceed, ImportStart, ImportDone, PostImport,
                RequestTruncate, EmbedFeatures, Fetch, DeadlockAbort, Die, Go
  <2>2. pc[s] \in {"snapped", "truncate"}
    BY <1>0, <2>1
  <2>. QED
    BY <1>0, <2>1, <2>2 DEF SnapshotCurrent
<1>. QED
  BY <1>1, <1>2, <1>3

(* The merge gives every object whose tags it keeps the vector it had.     *)
LEMMA RebuildKeeps ==
  ASSUME IInv, SnapshotCurrent, ~overlapped, NEW r \in Runs, Rebuild(r)
  PROVE  KeepsVectors
<1>. SUFFICES ASSUME NEW x \in rows, NEW y \in rows', x.vec # NoVec, y.obj = x.obj, y.tags = x.tags
              PROVE  y.vec # NoVec
  BY DEF KeepsVectors
<1>1. PICK j \in LeftJoin(oldVecs[r]) : \E n : y = NewRow(j, n)
  BY DEF Rebuild
<1>2. /\ y.obj = j.obj /\ y.tags = raw[j.obj]
      /\ y.vec = IF j.from = NoVec THEN NoVec ELSE j.from.vec
  BY <1>1 DEF NewRow
<1>3. PICK o \in oldVecs[r] : o.obj = x.obj /\ o.tags = x.tags
  BY DEF SnapshotCurrent, Rebuild, MayTruncate
<1>4. o \in Matches(oldVecs[r], j.obj, raw[j.obj])
  BY <1>2, <1>3 DEF Matches
<1>5. j.from \in oldVecs[r]
  BY <1>4 DEF LeftJoin, Matches
<1>6. oldVecs[r] \in SUBSET [obj : Objects, tags : Tags, vec : Tags]
  BY DEF IInv, TypeOK
<1>7. j.from \in [obj : Objects, tags : Tags, vec : Tags]
  BY <1>5, <1>6
<1>8. j.from # NoVec /\ j.from.vec # NoVec
  BY <1>7, ImportAssumption
<1>. QED
  BY <1>2, <1>8

LEMMA WriteKeeps ==
  ASSUME IInv, NEW r \in Runs, WriteChunk(r)
  PROVE  KeepsVectors
<1>. SUFFICES ASSUME NEW x \in rows, NEW y \in rows', x.vec # NoVec, y.obj = x.obj
              PROVE  y.vec # NoVec
  BY DEF KeepsVectors
<1>1. PICK chunk \in SUBSET pending[r] : rows' = Written(chunk)
  BY DEF WriteChunk, Chunks
<1>2. PICK z \in rows : y.obj = z.obj /\ (y.vec = z.tags \/ y = z)
  BY <1>1, WrittenRow DEF IInv, DataInv
<1>3. z = x
  BY <1>2 DEF IInv, DataInv, OneRowPerObject
<1>4. x.tags \in Tags
  BY DEF IInv, TypeOK, Row
<1>. QED
  BY <1>2, <1>3, <1>4, ImportAssumption

LEMMA KeepStep ==
  ASSUME IInv, SnapshotCurrent, ~overlapped, NEW r \in Runs,
         StartInit(r) \/ StartUpdate(r) \/ Proceed(r) \/ DeadlockAbort(r) \/ Die(r)
  PROVE  KeepsVectors
<1>1. CASE ~Rebuild(r) /\ ~WriteChunk(r)
  <2>1. rows' = rows
    BY <1>1 DEF StartInit, StartUpdate, Proceed, ImportStart, ImportDone, PostImport, Snapshot,
                RequestTruncate, EmbedFeatures, Fetch, DeadlockAbort, Die
  <2>. QED
    BY <2>1 DEF KeepsVectors, IInv, DataInv, OneRowPerObject
<1>. QED
  BY <1>1, RebuildKeeps, WriteKeeps

(* As long as no two runs overlap, a vector is computed once for each      *)
(* object and its tags: neither a merge nor the death of a run loses it.   *)
THEOREM ImportVectorsKeptAlone == Spec => VectorsKeptAlone
<1>1. Init => AloneInv /\ SnapshotCurrent
  BY DEF Init, AloneInv, SnapshotCurrent, Running
<1>2. IInv /\ AloneInv /\ SnapshotCurrent /\ [Next]_vars => (AloneInv /\ SnapshotCurrent)'
  <2>. SUFFICES ASSUME IInv, AloneInv, SnapshotCurrent, [Next]_vars PROVE (AloneInv /\ SnapshotCurrent)'
    OBVIOUS
  <2>1. CASE Next
    BY <2>1, AloneStep, SnapshotCurrentStep DEF Next, IInv
  <2>2. CASE UNCHANGED vars
    BY <2>2 DEF vars, AloneInv, SnapshotCurrent
  <2>. QED
    BY <2>1, <2>2
<1>3. IInv /\ SnapshotCurrent /\ [Next]_vars => [overlapped \/ KeepsVectors]_vars
  BY KeepStep DEF Next
<1>. QED
  BY <1>1, <1>2, <1>3, ImportInvariant, PTL DEF Spec, SafeSpec, VectorsKeptAlone
=============================================================================
