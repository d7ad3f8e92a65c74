----------------------------- MODULE FeatureImport -----------------------------
(***************************************************************************)
(* How the `feature' table is kept: init.sh (first import, or embedding    *)
(* only) and update.sh (nightly) both run osm2pgsql into raw tables, then  *)
(* post-import.sql, which rebuilds `feature' in one transaction and        *)
(* carries vectors over from rows whose tags did not change, then          *)
(* embed_features.py, which computes the missing vectors and writes them   *)
(* in chunks, by row id.  Runs share the database and take no lock of      *)
(* their own, so they may overlap, and each may die anywhere.              *)
(*                                                                         *)
(* PostgreSQL's table lock on `feature' is modelled: TRUNCATE waits for    *)
(* every transaction that has read the table, and makes newcomers wait.    *)
(* An extract maps the objects it holds that pass the tag and geometry     *)
(* filters to their tags; a vector is named by the tags it was computed    *)
(* from.                                                                   *)
(***************************************************************************)
EXTENDS Integers, FiniteSets, Functions

CONSTANTS
  Runs,        \* runs of init.sh and update.sh
  Objects,     \* [type, id]: ids are unique per type only
  Tags,        \* tag sets
  NoVec,       \* NULL
  Extracts,    \* contents the working PBF may have
  UpdateChunk, \* UPDATE_CHUNK: rows per UPDATE
  MaxFails     \* bound on failures

ASSUME ImportAssumption ==
  /\ IsFiniteSet(Objects)
  /\ NoVec \notin Tags /\ NoVec \notin [obj : Objects, tags : Tags, vec : Tags]
  /\ \A e \in Extracts : DOMAIN e \subseteq Objects /\ e \in [DOMAIN e -> Tags]
  /\ UpdateChunk \in Nat \ {0}
  /\ MaxFails \in Nat

VARIABLES
  osm,      \* contents of the working PBF
  opened,   \* the PBF osm2pgsql has open: an update replaces the file
  raw,      \* the raw tables
  rows,     \* `feature': [id, obj, tags, vec]
  nextId,   \* its BIGSERIAL
  pc,       \* where each run is
  oldVecs,  \* each run's temporary table old_vecs
  pending,  \* each run's [id, tags] still to be written
  owed,     \* history: a run died with rows it should have embedded
  overlapped, \* history: a run started while another was under way
  fails     \* failures so far

vars == <<osm, opened, raw, rows, nextId, pc, oldVecs, pending, owed, overlapped, fails>>

Running == {"ready", "osm2pgsql", "imported", "snapped", "truncate", "fetch", "embed", "write"}

Go(r, to) == pc' = [pc EXCEPT ![r] = to]

(* A run whose open transaction has read `feature': psycopg2 opens one     *)
(* with its SELECT and keeps it until the first chunk is committed.        *)
Reading(s) == pc[s] \in {"snapped", "truncate", "embed"}

(* Another run's TRUNCATE is queued for the table.                         *)
TruncateQueued(r) == \E s \in Runs \ {r} : pc[s] = "truncate"

Init ==
  /\ osm \in Extracts
  /\ opened = <<>>
  /\ raw = <<>>
  /\ rows = {}
  /\ nextId = 1
  /\ pc = [r \in Runs |-> "idle"]
  /\ oldVecs = [r \in Runs |-> {}]
  /\ pending = [r \in Runs |-> {}]
  /\ owed = FALSE
  /\ overlapped = FALSE
  /\ fails = 0

(* Nothing overlaps the first import; later, cron's runs may overlap each  *)
(* other and the init.sh of another `docker compose up'.                   *)
MayStart(r) ==
  /\ pc[r] = "idle"
  /\ \/ \A s \in Runs : pc[s] \notin Running
     \/ \E s \in Runs : pc[s] = "done"
  /\ overlapped' = (overlapped \/ \E s \in Runs : pc[s] \in Running)

-----------------------------------------------------------------------------
(* Mutant of StartInit: raw tables that exist are merged again instead of  *)
(* running osm2pgsql.                                                      *)
StartInitMerge(r) ==
  /\ MayStart(r)
  /\ ~TruncateQueued(r)
  /\ Go(r, IF rows # {} THEN "fetch" ELSE IF raw # <<>> THEN "imported" ELSE "ready")
  /\ UNCHANGED <<osm, opened, raw, rows, nextId, oldVecs, pending, owed, fails>>

(* init.sh: import only into an empty table, embed in any case.            *)
StartInit(r) ==
  /\ MayStart(r)
  /\ ~TruncateQueued(r)
  /\ Go(r, IF rows # {} THEN "fetch" ELSE "ready")
  /\ UNCHANGED <<osm, opened, raw, rows, nextId, oldVecs, pending, owed, fails>>

(* update.sh: cron starts it once an init.sh has completed (compose,       *)
(* depends_on); the extract is patched first (update.sh:22-37).            *)
StartUpdate(r) ==
  /\ MayStart(r)
  /\ \E s \in Runs : pc[s] = "done"
  /\ osm' \in Extracts
  /\ Go(r, "ready")
  /\ UNCHANGED <<opened, raw, rows, nextId, oldVecs, pending, owed, fails>>

(* osm2pgsql drops the raw tables and fills new ones; until it is done,    *)
(* and if it dies, they hold some part of the extract.  (Two osm2pgsql at  *)
(* once are left out.)                                                     *)
ImportStart(r) ==
  /\ pc[r] = "ready"
  /\ \A s \in Runs : pc[s] # "osm2pgsql"
  /\ opened' = osm
  /\ \E part \in SUBSET DOMAIN osm : raw' = Restrict(osm, part)
  /\ Go(r, "osm2pgsql")
  /\ UNCHANGED <<osm, rows, nextId, oldVecs, pending, owed, overlapped, fails>>

ImportDone(r) ==
  /\ pc[r] = "osm2pgsql"
  /\ raw' = opened
  /\ Go(r, "imported")
  /\ UNCHANGED <<osm, opened, rows, nextId, oldVecs, pending, owed, overlapped, fails>>

-----------------------------------------------------------------------------
(* post-import.sql                                                         *)

(* Mutants of Snapshot: WHERE poi_vec IS NOT NULL is dropped; the table is *)
(* truncated first.                                                        *)
SnapshotAll(r) ==
  /\ pc[r] = "imported"
  /\ ~TruncateQueued(r)
  /\ oldVecs' = [oldVecs EXCEPT ![r] =
       {[obj |-> x.obj, tags |-> x.tags, vec |-> x.vec] : x \in rows}]
  /\ Go(r, "snapped")
  /\ UNCHANGED <<osm, opened, raw, rows, nextId, pending, owed, overlapped, fails>>

SnapshotTruncated(r) ==
  /\ pc[r] = "imported"
  /\ ~TruncateQueued(r)
  /\ oldVecs' = [oldVecs EXCEPT ![r] = {}]
  /\ Go(r, "snapped")
  /\ UNCHANGED <<osm, opened, raw, rows, nextId, pending, owed, overlapped, fails>>

(* BEGIN; CREATE TEMP TABLE old_vecs (post-import.sql:9-16).               *)
Snapshot(r) ==
  /\ pc[r] = "imported"
  /\ ~TruncateQueued(r)
  /\ oldVecs' = [oldVecs EXCEPT ![r] =
       {[obj |-> x.obj, tags |-> x.tags, vec |-> x.vec] : x \in {y \in rows : y.vec # NoVec}}]
  /\ Go(r, "snapped")
  /\ UNCHANGED <<osm, opened, raw, rows, nextId, pending, owed, overlapped, fails>>

(* TRUNCATE asks for its lock.                                             *)
RequestTruncate(r) ==
  /\ pc[r] = "snapped"
  /\ Go(r, "truncate")
  /\ UNCHANGED <<osm, opened, raw, rows, nextId, oldVecs, pending, owed, overlapped, fails>>

(* Mutants of Matches: a join that forgets the type, and one that forgets  *)
(* the hash of the tags.                                                   *)
MatchesById(old, obj, tags) == {o \in old : o.obj.id = obj.id /\ o.tags = tags}

MatchesAnyTags(old, obj, tags) == {o \in old : o.obj = obj}

(* Rows of old_vecs that a raw row joins: same osm_id, osm_type and        *)
(* md5(tags).                                                              *)
Matches(old, obj, tags) == {o \in old : o.obj = obj /\ o.tags = tags}

(* ... LEFT JOIN old_vecs (post-import.sql:20-54).                         *)
LeftJoin(old) ==
  {j \in [obj : DOMAIN raw, from : old \cup {NoVec}] :
     LET found == Matches(old, j.obj, raw[j.obj])
     IN  IF found = {} THEN j.from = NoVec ELSE j.from \in found}

NewRow(j, id) ==
  [id |-> id, obj |-> j.obj, tags |-> raw[j.obj], vec |-> IF j.from = NoVec THEN NoVec ELSE j.from.vec]

MayTruncate(r) ==
  /\ pc[r] = "truncate"
  /\ \A s \in Runs \ {r} : ~Reading(s)

(* Mutants of Rebuild: TRUNCATE ... RESTART IDENTITY; no embedding after.  *)
RebuildRestart(r) ==
  /\ MayTruncate(r)
  /\ LET joined == LeftJoin(oldVecs[r])
         last   == Cardinality(joined)
     IN  /\ \E id \in Injection(joined, 1..last) : rows' = {NewRow(j, id[j]) : j \in joined}
         /\ nextId' = last + 1
  /\ Go(r, "fetch")
  /\ UNCHANGED <<osm, opened, raw, oldVecs, pending, owed, overlapped, fails>>

RebuildOnly(r) ==
  /\ MayTruncate(r)
  /\ LET joined == LeftJoin(oldVecs[r])
         last   == nextId + Cardinality(joined) - 1
     IN  /\ \E id \in Injection(joined, nextId..last) : rows' = {NewRow(j, id[j]) : j \in joined}
         /\ nextId' = last + 1
  /\ Go(r, "done")
  /\ UNCHANGED <<osm, opened, raw, oldVecs, pending, owed, overlapped, fails>>

(* TRUNCATE, the four INSERTs and COMMIT: others see all of it or nothing. *)
Rebuild(r) ==
  /\ MayTruncate(r)
  /\ LET joined == LeftJoin(oldVecs[r])
         last   == nextId + Cardinality(joined) - 1
     IN  /\ \E id \in Injection(joined, nextId..last) : rows' = {NewRow(j, id[j]) : j \in joined}
         /\ nextId' = last + 1
  /\ Go(r, "fetch")
  /\ UNCHANGED <<osm, opened, raw, oldVecs, pending, owed, overlapped, fails>>

(* Two transactions that have read the table and both want to truncate it: *)
(* PostgreSQL aborts one, and psql and the script leave with an error.     *)
DeadlockAbort(r) ==
  /\ pc[r] = "truncate"
  /\ TruncateQueued(r)
  /\ Go(r, "failed")
  /\ UNCHANGED <<osm, opened, raw, rows, nextId, oldVecs, pending, owed, overlapped, fails>>

-----------------------------------------------------------------------------
(* embed_features.py                                                       *)

(* SELECT id, tags ... WHERE poi_vec IS NULL.                              *)
Fetch(r) ==
  /\ pc[r] = "fetch"
  /\ ~TruncateQueued(r)
  /\ LET todo == {[id |-> x.id, tags |-> x.tags] : x \in {y \in rows : y.vec = NoVec}}
     IN  /\ pending' = [pending EXCEPT ![r] = todo]
         /\ Go(r, IF todo = {} THEN "done" ELSE "embed")
  /\ owed' = FALSE
  /\ UNCHANGED <<osm, opened, raw, rows, nextId, oldVecs, overlapped, fails>>

(* UPDATE feature SET poi_vec ... WHERE f.id = d.id.                       *)
Written(chunk) ==
  {IF \E p \in chunk : p.id = x.id
     THEN [x EXCEPT !.vec = (CHOOSE p \in chunk : p.id = x.id).tags]
     ELSE x : x \in rows}

Chunks(r) ==
  {c \in SUBSET pending[r] :
     Cardinality(c) = IF Cardinality(pending[r]) < UpdateChunk THEN Cardinality(pending[r]) ELSE UpdateChunk}

(* Mutant of WriteChunk: the loop does not move on to the next chunk.      *)
WriteChunkAgain(r) ==
  /\ pc[r] \in {"embed", "write"}
  /\ pc[r] = "embed" \/ ~TruncateQueued(r)
  /\ \E chunk \in Chunks(r) : rows' = Written(chunk)
  /\ Go(r, "write")
  /\ UNCHANGED <<osm, opened, raw, nextId, oldVecs, pending, owed, overlapped, fails>>

(* One chunk and its commit.  The vectors were computed before the first.  *)
(* A transaction that has read the table overtakes a queued TRUNCATE.      *)
WriteChunk(r) ==
  /\ pc[r] \in {"embed", "write"}
  /\ pc[r] = "embed" \/ ~TruncateQueued(r)
  /\ \E chunk \in Chunks(r) :
       /\ rows' = Written(chunk)
       /\ pending' = [pending EXCEPT ![r] = @ \ chunk]
       /\ Go(r, IF pending[r] = chunk THEN "done" ELSE "write")
  /\ UNCHANGED <<osm, opened, raw, nextId, oldVecs, owed, overlapped, fails>>

(* Any command fails (set -e), Ollama does not answer, or the container    *)
(* stops; open transactions are rolled back.                               *)
Die(r) ==
  /\ pc[r] \in Running
  /\ fails < MaxFails
  /\ fails' = fails + 1
  /\ Go(r, "failed")
  /\ owed' = (owed \/ pc[r] \in {"fetch", "embed", "write"})
  /\ UNCHANGED <<osm, opened, raw, rows, nextId, oldVecs, pending, overlapped>>

-----------------------------------------------------------------------------
PostImport(r) == Snapshot(r) \/ RequestTruncate(r) \/ Rebuild(r)
EmbedFeatures(r) == Fetch(r) \/ WriteChunk(r)
Proceed(r) == ImportStart(r) \/ ImportDone(r) \/ PostImport(r) \/ EmbedFeatures(r)

Next == \E r \in Runs :
  StartInit(r) \/ StartUpdate(r) \/ Proceed(r) \/ DeadlockAbort(r) \/ Die(r)

SafeSpec == Init /\ [][Next]_vars

(* A script that was started runs on: its commands end, its HTTP calls     *)
(* have a timeout, and PostgreSQL detects deadlocks.                       *)
Fairness == \A r \in Runs : WF_vars(Proceed(r)) /\ WF_vars(DeadlockAbort(r))

Spec == SafeSpec /\ Fairness

-----------------------------------------------------------------------------
Row == [id : Nat, obj : Objects, tags : Tags, vec : Tags \cup {NoVec}]

(* A part of an extract.                                                   *)
Contents(e) == DOMAIN e \subseteq Objects /\ e \in [DOMAIN e -> Tags]

TypeOK ==
  /\ osm \in Extracts
  /\ Contents(opened)
  /\ Contents(raw)
  /\ rows \subseteq Row
  /\ nextId \in Nat
  /\ pc \in [Runs -> Running \cup {"idle", "done", "failed"}]
  /\ oldVecs \in [Runs -> SUBSET [obj : Objects, tags : Tags, vec : Tags]]
  /\ pending \in [Runs -> SUBSET [id : Nat, tags : Tags]]
  /\ owed \in BOOLEAN /\ overlapped \in BOOLEAN
  /\ fails \in Nat

(* A row's vector is that of the row's own tags, although vectors are      *)
(* written by row id long after the rows were read, and carried over from  *)
(* one table to the next (embed_features.py:135-145, post-import.sql:11-54)*)
VectorsMatch == \A x \in rows : x.vec \in {NoVec, x.tags}

(* An object has one row: the join with old_vecs never doubles it          *)
(* (post-import.sql:20-54).                                                *)
OneRowPerObject == \A x, y \in rows : x.obj = y.obj => x = y

(* A row without a vector is some run's to embed, or one died with it and  *)
(* the next run will find it (init.sh:23-26, embed_features.py:96).        *)
MissingVectorsCovered ==
  \A x \in rows : x.vec = NoVec =>
    \/ owed
    \/ \E r \in Runs : pc[r] = "fetch"
    \/ \E r \in Runs : pc[r] \in {"embed", "write"} /\ \E p \in pending[r] : p.id = x.id

(* Every run ends: neither the table lock nor the chunk loop holds one up  *)
(* for ever (post-import.sql:18, embed_features.py:132-146).               *)
RunsEnd == \A r \in Runs : pc[r] \in Running ~> pc[r] \in {"done", "failed"}

(* What the table holds is one whole extract, also after a crash in the    *)
(* middle of osm2pgsql (post-import.sql:3, init.sh:20-30), unless runs     *)
(* overlapped: then a merge may read raw tables that are being filled.     *)
TableIsExtract ==
  \/ overlapped
  \/ rows = {}
  \/ \E e \in Extracts :
       {x.obj : x \in rows} = DOMAIN e /\ \A x \in rows : x.tags = e[x.obj]

(* No step takes the vector of an object whose tags stay the same.         *)
KeepsVectors ==
  \A x \in rows, y \in rows' :
    x.vec # NoVec /\ y.obj = x.obj /\ y.tags = x.tags => y.vec # NoVec

(* As long as runs do not overlap, no vector is computed twice, whichever  *)
(* step of the merge or of the embedding a run dies in.                    *)
VectorsKeptAlone == [][overlapped \/ KeepsVectors]_vars

(* Claim of post-import.sql:5: "poi_vec is preserved for objects whose     *)
(* tags haven't changed".  False when an embedding run commits its first   *)
(* chunk between another run's snapshot and its TRUNCATE, which waits for  *)
(* exactly that commit.                                                    *)
VectorsKept == [][KeepsVectors]_vars
=============================================================================
