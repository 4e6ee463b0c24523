---------------------------- MODULE SourceIngest ----------------------------
(***************************************************************************)
(* Ingestion of source files into one wing, room and project: the pipeline *)
(* of ingest/mod.rs, the per-source lock of ingest/lock.rs and the drawer  *)
(* and vector writes of core/db.rs.  The calls run in several processes.   *)
(* A file is read before its lock is taken; under the lock every database  *)
(* call is a transaction of its own, so calls for other sources come in    *)
(* between.  A file is the set of its chunks: equal chunks of one file are *)
(* one chunk here.  Gating, pinning, pattern and repair signals are left   *)
(* out but for a chunk being dropped.                                      *)
(***************************************************************************)
EXTENDS Naturals, FiniteSets

CONSTANTS
    Chunks,         \* contents, after normalising and scrubbing
    Sources,        \* source files
    Ingests,        \* calls of ingest_file_with_options
    SourceOf,       \* the file each call ingests
    ModesOf,        \* its options: "add", "replace" (replace_existing_source), "supersede"
    Nobody,         \* no call; no drawer
    MaxVersions     \* bound on the edits of a file

ASSUME IngestAssumption ==
    /\ IsFiniteSet(Ingests) /\ SourceOf \in [Ingests -> Sources]
    /\ ModesOf \in [Ingests -> SUBSET {"add", "replace", "supersede"}]
    /\ Nobody \notin Ingests /\ MaxVersions \in Nat

\* A drawer's id is a hash of its content, and a suffix when that is in use.
Ids == Chunks \X (Nat \ {0})
ASSUME NobodyAssumption == Nobody \notin Ids

VARIABLES
    disk,       \* the chunks of each file
    edits,
    rows,       \* drawers: id, source_file, active (deleted_at IS NULL), the inserting call
    vectors,    \* ids in drawer_vectors
    held,       \* who holds the lock of each source
    ingest,     \* where each call stands
    cut         \* history: drawers whose insertion ended before their vector

ingestVars == <<disk, edits, rows, vectors, held, ingest, cut>>
store == <<rows, vectors, cut>>

Fresh == [pc |-> "idle", mode |-> "add", read |-> {}, todo |-> {}, plan |-> {}, kept |-> FALSE,
          cand |-> Nobody, now |-> Nobody, target |-> Nobody, lost |-> {}]

IngestInit ==
    /\ disk \in [Sources -> SUBSET Chunks \ {{}}]
    /\ edits = 0
    /\ rows = {} /\ vectors = {} /\ cut = {}
    /\ held = [s \in Sources |-> Nobody]
    /\ ingest = [c \in Ingests |-> Fresh]

----------------------------------------------------------------------------
ActiveRows == {r \in rows : r.active}
InUse == {r.id : r \in rows}

\* find_active_drawers_by_content, without the drawer that is being superseded.
Duplicates(x, target) == {r \in ActiveRows : r.id[1] = x /\ r.id # target}

\* drawer_id_in_use; in the mutant a soft-deleted drawer's id is free.
MutDrawerIdInUse(id) == \E r \in ActiveRows : r.id = id
DrawerIdInUse(id) == \E r \in rows : r.id = id

\* Ingest c becomes v; the others learn what they lost with the chunks X (history).
Becomes(c, v, X) ==
    ingest' = [d \in Ingests |->
                 IF d = c THEN v
                 ELSE [ingest[d] EXCEPT !.lost = @ \cup (X \cap ingest[d].read)]]
Goto(c, pc) == Becomes(c, [ingest[c] EXCEPT !.pc = pc], {})
\* The call returns; its mode and its target are remembered.
Over(c, pc) ==
    [Fresh EXCEPT !.pc = pc, !.mode = ingest[c].mode, !.target = ingest[c].target]
At(c) == ingest[c].pc

\* The file is edited.
Edit(s) ==
    /\ edits < MaxVersions
    /\ edits' = edits + 1
    /\ \E text \in SUBSET Chunks \ {{}} : disk' = [disk EXCEPT ![s] = text]
    /\ UNCHANGED <<store, held, ingest>>

\* Read, parse, normalise, scrub and split.
ReadFile(c) ==
    /\ At(c) = "idle"
    /\ \E mode \in ModesOf[c] :
          Becomes(c, [Fresh EXCEPT !.pc = "read", !.mode = mode, !.read = disk[SourceOf[c]],
                                   !.todo = disk[SourceOf[c]]], {})
    /\ UNCHANGED <<disk, edits, store, held>>

\* acquire_source_lock, and its timeout; the mutant does not wait.
MutTakeLock(c) ==
    /\ At(c) = "read"
    /\ held' = [held EXCEPT ![SourceOf[c]] = c]
    /\ Goto(c, "locked")
    /\ UNCHANGED <<disk, edits, store>>
TakeLock(c) ==
    /\ At(c) = "read" /\ held[SourceOf[c]] = Nobody
    /\ held' = [held EXCEPT ![SourceOf[c]] = c]
    /\ Goto(c, "locked")
    /\ UNCHANGED <<disk, edits, store>>
LockTimeout(c) ==
    /\ At(c) = "read" /\ held[SourceOf[c]] # Nobody
    /\ Becomes(c, Over(c, "failed"), {})
    /\ UNCHANGED <<disk, edits, store, held>>

\* replace_active_source_drawers: one transaction deletes the source's active
\* drawers and their vectors.
Dropped(c) == {r.id : r \in {r \in ActiveRows : r.src = SourceOf[c]}}
Replace(c) ==
    /\ At(c) = "locked" /\ ingest[c].mode = "replace"
    /\ rows' = {r \in rows : ~(r.active /\ r.src = SourceOf[c])}
    /\ vectors' = vectors \ Dropped(c)
    /\ Becomes(c, [ingest[c] EXCEPT !.pc = "check"], {id[1] : id \in Dropped(c)})
    /\ UNCHANGED <<disk, edits, held, cut>>

\* resolve_replacement_target
FindTarget(c) ==
    /\ At(c) = "locked" /\ ingest[c].mode = "supersede"
    /\ \E r \in ActiveRows : Becomes(c, [ingest[c] EXCEPT !.pc = "check", !.target = r.id], {})
    /\ UNCHANGED <<disk, edits, store, held>>
NothingToReplace(c) ==
    /\ At(c) = "locked" /\ ingest[c].mode = "add"
    /\ Goto(c, "check")
    /\ UNCHANGED <<disk, edits, store, held>>

\* The loop over the chunks.  A chunk that has a drawer is skipped; for any other
\* the ids of its content are tried from the first.
CheckChunk(c, x) ==
    /\ At(c) = "check" /\ x \in ingest[c].todo
    /\ IF Duplicates(x, ingest[c].target) # {}
       THEN Becomes(c, [ingest[c] EXCEPT !.todo = @ \ {x}, !.kept = TRUE], {})
       ELSE Becomes(c, [ingest[c] EXCEPT !.pc = "resolve", !.cand = <<x, 1>>], {})
    /\ UNCHANGED <<disk, edits, store, held>>

\* resolve_available_drawer_id: one query for every id it tries.
ResolveId(c) ==
    /\ At(c) = "resolve"
    /\ IF DrawerIdInUse(ingest[c].cand)
       THEN Becomes(c, [ingest[c] EXCEPT !.cand = <<@[1], @[2] + 1>>], {})
       ELSE Goto(c, "exists")
    /\ UNCHANGED <<disk, edits, store, held>>

\* drawer_exists: a drawer that came since is taken for the chunk's; otherwise the
\* gate may drop the chunk, or it is planned under the id.
PlanChunk(c) ==
    /\ At(c) = "exists"
    /\ LET id == ingest[c].cand
           rest == [ingest[c] EXCEPT !.pc = "check", !.todo = @ \ {id[1]}, !.cand = Nobody]
       IN  IF \E r \in ActiveRows : r.id = id
           THEN Becomes(c, rest, {})
           ELSE \/ Becomes(c, [rest EXCEPT !.plan = @ \cup {id}], {})
                \/ Becomes(c, [rest EXCEPT !.lost = @ \cup {id[1]}], {})
    /\ UNCHANGED <<disk, edits, store, held>>

\* embed: everything that is planned, and then it is stored drawer by drawer.
Embed(c) ==
    /\ At(c) = "check" /\ ingest[c].todo = {}
    /\ Goto(c, "store")
    /\ UNCHANGED <<disk, edits, store, held>>

\* INSERT OR IGNORE INTO drawers.
InsertDrawer(c, id) ==
    /\ At(c) = "store"
    /\ rows' = IF id \in InUse THEN rows
               ELSE rows \cup {[id |-> id, src |-> SourceOf[c], active |-> TRUE, by |-> c]}
    /\ Becomes(c, [ingest[c] EXCEPT !.pc = "vector", !.plan = @ \ {id}, !.now = id], {})
    /\ UNCHANGED <<disk, edits, vectors, held, cut>>

\* insert_vector_with_project; the vector that is there first stays.
InsertVector(c) ==
    /\ At(c) = "vector"
    /\ vectors' = vectors \cup {ingest[c].now}
    /\ Becomes(c, [ingest[c] EXCEPT !.pc = "store", !.kept = TRUE, !.now = Nobody], {})
    /\ UNCHANGED <<disk, edits, rows, held, cut>>

Unlocked(c) == held' = [s \in Sources |-> IF held[s] = c THEN Nobody ELSE held[s]]

\* supersede_after_successful_replacement, and the lock is dropped.
Finish(c) ==
    /\ At(c) = "store" /\ ingest[c].plan = {}
    /\ LET Old == {r \in ActiveRows : ingest[c].kept /\ r.id = ingest[c].target}
       IN  /\ rows' = (rows \ Old) \cup {[r EXCEPT !.active = FALSE] : r \in Old}
           /\ Becomes(c, Over(c, "done"), {r.id[1] : r \in Old})
    /\ Unlocked(c)
    /\ UNCHANGED <<disk, edits, vectors, cut>>

\* A database error, a lost writer lease, an embedding that fails, or the end of
\* the process: the lock goes, what was written stays.
Fail(c) ==
    /\ At(c) \in {"locked", "check", "resolve", "exists", "store", "vector"}
    /\ Becomes(c, Over(c, "failed"), {})
    /\ cut' = IF At(c) = "vector" THEN cut \cup {ingest[c].now} ELSE cut
    /\ Unlocked(c)
    /\ UNCHANGED <<disk, edits, rows, vectors>>

IngestNext ==
    \/ \E s \in Sources : Edit(s)
    \/ \E c \in Ingests :
          \/ ReadFile(c) \/ TakeLock(c) \/ LockTimeout(c)
          \/ Replace(c) \/ FindTarget(c) \/ NothingToReplace(c)
          \/ \E x \in Chunks : CheckChunk(c, x)
          \/ ResolveId(c) \/ PlanChunk(c)
          \/ Embed(c) \/ InsertVector(c) \/ Finish(c) \/ Fail(c)
          \/ \E id \in ingest[c].plan : InsertDrawer(c, id)

IngestSpec == IngestInit /\ [][IngestNext]_ingestVars

----------------------------------------------------------------------------
\* Types of the tables, the locks and of where each call stands.
IngestTypeOK ==
    /\ disk \in [Sources -> SUBSET Chunks]
    /\ rows \subseteq [id : Ids, src : Sources, active : BOOLEAN, by : Ingests]
    /\ \A r, q \in rows : r.id = q.id => r = q
    /\ vectors \subseteq Ids /\ cut \subseteq Ids
    /\ held \in [Sources -> Ingests \cup {Nobody}]
    /\ \A c \in Ingests :
          /\ At(c) \in {"idle", "read", "locked", "check", "resolve", "exists", "store", "vector", "done", "failed"}
          /\ ingest[c].plan \subseteq Ids
          /\ ingest[c].cand \in Ids \cup {Nobody}
          /\ ingest[c].now \in Ids \cup {Nobody}

\* A source that is ingested again and again by replacing calls never shows
\* drawers of two versions, whatever fails half-way: the lock spans the deletion
\* and all inserts of one call (acquire_source_lock).
VersionsNeverMix ==
    \A r, q \in ActiveRows :
        r.src = q.src /\ {ingest[r.by].mode, ingest[q.by].mode} = {"replace"} => r.by = q.by

\* A drawer without a vector, which vector search never finds and which every
\* retry takes for a duplicate, is left only by a call that ended between the
\* two inserts.
Searchable ==
    \A r \in ActiveRows :
        r.id \in vectors \cup cut \cup {ingest[c].now : c \in Ingests}

\* A call that reports success has every chunk it read stored and active, unless
\* the gate dropped it or another call removed such content while this one ran:
\* an insert that is ignored hides nothing.
SuccessMeansStored ==
    [][\A c \in Ingests : At(c) # "done" /\ ingest'[c].pc = "done" =>
          \A x \in ingest[c].read \ ingest[c].lost :
              \E r \in rows' : r.active /\ r.id[1] = x]_ingestVars
=============================================================================
