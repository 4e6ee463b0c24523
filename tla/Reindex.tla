------------------------------ MODULE Reindex ------------------------------
(***************************************************************************)
(* mempal reindex --embedder: every drawer gets a vector of the configured *)
(* model, row by row with a checkpoint to resume from, or in batches of    *)
(* the stale ones.  The command holds the writer lease while it embeds and *)
(* writes; the lease is dropped with the future that embeds, and what is   *)
(* decided about the old vectors after that is not fenced.  Another        *)
(* process takes the lease when it is free or has run out, and merges new  *)
(* content into drawers; a historical rejudge, whose lease has another     *)
(* name, deletes drawers at any time.  A vector is the model and the       *)
(* content it was made from.                                               *)
(***************************************************************************)
EXTENDS Integers, FiniteSets, FiniteSetsExt

CONSTANTS
    Drawers,        \* 1..n in the order of reindex_rows: source path, chunk index, id
    PathOf,         \* the source path of each drawer, as a number
    ChunkOf,        \* COALESCE(chunk_index, 0)
    Targets,        \* the sets of drawers --stale may be narrowed to
    BatchSize,      \* --batch-size
    NoVector, NoStash,
    MaxReindexes,   \* bound on the runs of the command
    MaxAccidents,   \* bound on kills and lease losses
    Merged,         \* the drawers another process merges content into
    Deleted,        \* the drawers a rejudge deletes
    MaxMerges       \* bound on the merges into a drawer

ASSUME ReindexAssumption ==
    /\ IsFiniteSet(Drawers) /\ Drawers = 1..Cardinality(Drawers)
    /\ PathOf \in [Drawers -> Nat \ {0}] /\ ChunkOf \in [Drawers -> Nat]
    /\ \A d, e \in Drawers : d < e =>
          PathOf[d] < PathOf[e] \/ (PathOf[d] = PathOf[e] /\ ChunkOf[d] <= ChunkOf[e])
    /\ Merged \subseteq Drawers /\ Deleted \subseteq Drawers /\ Targets \subseteq SUBSET Drawers /\ BatchSize \in Nat \ {0}
    /\ MaxReindexes \in Nat /\ MaxAccidents \in Nat /\ MaxMerges \in Nat
    /\ NoVector \notin [model : {"old", "new"}, body : Int]

Paths == {PathOf[d] : d \in Drawers}
Modes == [stale : BOOLEAN, resume : BOOLEAN]

VARIABLES
    present,    \* the drawers that are not deleted
    body,       \* the version of each drawer's content (content_hash)
    layout,     \* drawer_vectors has the dimension and metric of the "new" or an "old" model, or is "absent"
    index,      \* the vectors in drawer_vectors
    stamp,      \* the model recorded in fork_ext_meta for each drawer
    progress,   \* reindex_progress: status and last_processed_chunk_id for each source, and
                \* (history) the table a row-by-row run wrote it about, 0 for a run in batches
    older,      \* the pairs of sources in reindex_progress of which the first was updated in an
                \* earlier second than the second (updated_at)
    lessee,     \* who holds the writer lease
    job,        \* the running command
    reindexes, accidents,
    epoch       \* history: how often drawer_vectors was recreated or dropped

dbVars == <<present, body, layout, index, stamp, epoch>>
progVars == <<progress, older>>
reindexVars == <<dbVars, progVars, lessee, job, reindexes, accidents>>

NoJob == [pc |-> "idle", mode |-> [stale |-> FALSE, resume |-> FALSE], fits |-> FALSE, from |-> 0,
          target |-> Drawers, rows |-> {}, last |-> 0, batch |-> {}, marks |-> {}, failed |-> {},
          stash |-> NoStash, result |-> "ok", wrote |-> FALSE, alone |-> TRUE, apt |-> TRUE]
NoRow == [status |-> "none", last |-> 0, epoch |-> 0]
Vector(m, b) == [model |-> m, body |-> b]

\* A store with vectors of the old model in the old layout, or one that has been
\* brought to the new layout in part.
ReindexInit ==
    /\ present = Drawers /\ body = [d \in Drawers |-> 0]
    /\ layout \in {"old", "new"}
    /\ stamp \in [Drawers -> {"old", "new"}]
    /\ layout = "old" => \A d \in Drawers : stamp[d] = "old"
    /\ index = [d \in Drawers |-> Vector(stamp[d], 0)]
    /\ progress = [s \in Paths |-> NoRow] /\ older = {}
    /\ lessee = "nobody" /\ job = NoJob
    /\ reindexes = 0 /\ accidents = 0 /\ epoch = 1

----------------------------------------------------------------------------
HasVectors == \E d \in Drawers : index[d] # NoVector
\* reindex_row_is_stale, build_reindex_stale_pending_rows
IsStale(d) == index[d] = NoVector \/ stamp[d] # "new"
\* current_vector_dim reads the dimension from a row, so an empty table has none.
LayoutIsCurrent == layout = "new" /\ HasVectors

\* upsert_on_connection: the row becomes the most recently updated one, in a second of
\* its own or in that of the last updates before it.
Known == {s \in Paths : progress[s].status # "none"}
Newest == {s \in Known : \A t \in Known : <<s, t>> \notin older}
Upsert(s, status, last) ==
    /\ progress' = [progress EXCEPT ![s] = [status |-> status, last |-> last,
                                            epoch |-> IF job.pc = "mark" \/ ~job.apt THEN 0 ELSE epoch]]
    /\ \E before \in {Known \ {s}, Known \ (Newest \cup {s})} :
          older' = {p \in older : p[1] # s /\ p[2] # s} \cup {<<t, s>> : t \in before}

\* latest_resumable: the latest update, and the least path among those of one second.
Resumable == {s \in Paths : progress[s].status \in {"running", "paused"}}
LatestResumable == Min({s \in Resumable : \A t \in Resumable : <<s, t>> \notin older})

\* should_skip_reindex_row
Skipped(d, from, last) ==
    from # 0 /\ (PathOf[d] < from \/ (PathOf[d] = from /\ ChunkOf[d] <= last))

\* The rows are taken in the order of reindex_rows.
First(rows) == CHOOSE r \in rows : \A q \in rows : r.id <= q.id
Row(d) == [id |-> d, body |-> body[d]]
Proceed(pc) == job' = [job EXCEPT !.pc = pc]

\* The embedding future ends with an error or without: its lease guard is dropped.
Ends(result) == job' = [job EXCEPT !.pc = "release", !.result = result]

\* write_fenced: the write happens under the lease, or the command ends; the mutant
\* writes without asking.
MutFenced(Write) == Write
Fenced(Write) ==
    \/ lessee = "reindex" /\ Write
    \/ lessee # "reindex" /\ Ends("error") /\ UNCHANGED <<dbVars, progVars>>

----------------------------------------------------------------------------
\* acquire_maintenance_writer_lease
StartReindex(mode) ==
    /\ job.pc = "idle" /\ lessee = "nobody" /\ reindexes < MaxReindexes
    /\ reindexes' = reindexes + 1
    /\ lessee' = "reindex"
    /\ job' = [NoJob EXCEPT !.pc = "layout", !.mode = mode]
    /\ UNCHANGED <<dbVars, progVars, accidents>>

\* The command leaves the function before there is anything to decide about.
Quit ==
    /\ job' = NoJob /\ lessee' = IF lessee = "reindex" THEN "nobody" ELSE lessee
    /\ UNCHANGED <<dbVars, progVars>>

\* The embedder is built, or is not, and the layout of the table is read.
ReadLayout ==
    /\ job.pc = "layout"
    /\ \/ /\ job' = [job EXCEPT !.pc = "plan", !.fits = LayoutIsCurrent]
          /\ UNCHANGED <<dbVars, progVars, lessee>>
       \/ Quit
    /\ UNCHANGED <<reindexes, accidents>>

\* The checkpoint is read.  The table is recreated unless it fits and there is a
\* checkpoint or only stale drawers are wanted; a narrowed --stale is refused when
\* it does not fit.
PlanReindex ==
    /\ job.pc = "plan"
    /\ LET mode == job.mode
           from == IF mode.resume /\ Resumable # {} THEN LatestResumable ELSE 0
           recreate == ~job.fits \/ (~mode.stale /\ from = 0)
       IN  \E target \in IF mode.stale /\ ~mode.resume THEN Targets ELSE {Drawers} :
              IF recreate /\ target # Drawers THEN Quit
              ELSE /\ job' = [job EXCEPT !.pc = IF recreate THEN "stash" ELSE "load",
                                          !.target = target, !.from = IF recreate THEN 0 ELSE from,
                                          !.apt = recreate \/ from = 0 \/ progress[from].epoch = epoch]
                   /\ UNCHANGED <<dbVars, progVars, lessee>>
    /\ UNCHANGED <<reindexes, accidents>>

\* stash_vectors_before_recreate and recreate_vectors_table, two fenced writes.  A
\* refusal here leaves the function without the decision about the old vectors.
Stash == [vectors |-> index, layout |-> layout]
StashVectors ==
    /\ job.pc = "stash"
    /\ IF lessee = "reindex"
       THEN /\ job' = [job EXCEPT !.pc = "recreate", !.stash = IF HasVectors THEN Stash ELSE NoStash]
            /\ UNCHANGED <<dbVars, progVars, lessee>>
       ELSE Quit
    /\ UNCHANGED <<reindexes, accidents>>
RecreateTable ==
    /\ job.pc = "recreate"
    /\ IF lessee = "reindex"
       THEN /\ layout' = "new" /\ index' = [d \in Drawers |-> NoVector] /\ epoch' = epoch + 1
            /\ Proceed("load")
            /\ UNCHANGED <<present, body, stamp, progVars, lessee>>
       ELSE Quit
    /\ UNCHANGED <<reindexes, accidents>>

\* The rows to embed: all drawers, or the stale ones, behind the checkpoint.
LoadRows ==
    /\ job.pc = "load" /\ ~(job.mode.stale /\ job.from = 0)
    /\ LET wanted == {d \in present : job.mode.stale => IsStale(d)}
           done == {d \in wanted : job.from # 0 /\ Skipped(d, job.from, progress[job.from].last)}
       IN  job' = [job EXCEPT !.pc = "next", !.rows = {Row(d) : d \in wanted \ done},
                              !.last = IF done = {} THEN 0 ELSE CHOOSE d \in done : \A e \in done : e <= d]
    /\ UNCHANGED <<dbVars, progVars, lessee, reindexes, accidents>>

\* The loop over the rows: the source that is left behind is marked done.
NextRow ==
    /\ job.pc = "next" /\ job.rows # {}
    /\ IF job.last # 0 /\ PathOf[job.last] # PathOf[First(job.rows).id]
       THEN Upsert(PathOf[job.last], "done", ChunkOf[job.last])
       ELSE UNCHANGED progVars
    /\ Proceed("embed")
    /\ UNCHANGED <<dbVars, lessee, reindexes, accidents>>
NoRowsLeft ==
    /\ job.pc = "next" /\ job.rows = {}
    /\ IF job.last # 0 THEN Upsert(PathOf[job.last], "done", ChunkOf[job.last]) ELSE UNCHANGED progVars
    /\ Ends("ok")
    /\ UNCHANGED <<dbVars, lessee, reindexes, accidents>>

\* The embedder answers, fails, or the operator interrupts it.
EmbedRow ==
    /\ job.pc = "embed"
    /\ \/ Proceed("clear") /\ UNCHANGED progVars
       \/ Ends("error") /\ UNCHANGED progVars
       \/ /\ Ends("error")
          /\ IF job.last # 0 THEN Upsert(PathOf[job.last], "paused", ChunkOf[job.last])
             ELSE UNCHANGED progVars
    /\ UNCHANGED <<dbVars, lessee, reindexes, accidents>>

\* Four fenced writes: DELETE, insert_vector_with_project (first writer wins, with
\* the metadata), record_reindex_metadata, the checkpoint.
ClearVector ==
    /\ job.pc = "clear"
    /\ Fenced(/\ index' = [index EXCEPT ![First(job.rows).id] = NoVector]
              /\ Proceed("insert")
              /\ UNCHANGED <<present, body, layout, stamp, epoch, progVars>>)
    /\ UNCHANGED <<lessee, reindexes, accidents>>
InsertRowVector ==
    /\ job.pc = "insert"
    /\ LET r == First(job.rows)
       IN  Fenced(/\ IF index[r.id] = NoVector
                     THEN /\ index' = [index EXCEPT ![r.id] = Vector("new", r.body)]
                          /\ stamp' = [stamp EXCEPT ![r.id] = "new"]
                     ELSE UNCHANGED <<index, stamp>>
                  /\ job' = [job EXCEPT !.pc = "record", !.wrote = TRUE]
                  /\ UNCHANGED <<present, body, layout, epoch, progVars>>)
    /\ UNCHANGED <<lessee, reindexes, accidents>>
RecordMetadata ==
    /\ job.pc = "record"
    /\ Fenced(/\ stamp' = [stamp EXCEPT ![First(job.rows).id] = "new"]
              /\ Proceed("check")
              /\ UNCHANGED <<present, body, layout, index, epoch, progVars>>)
    /\ UNCHANGED <<lessee, reindexes, accidents>>
CheckpointRow ==
    /\ job.pc = "check"
    /\ LET d == First(job.rows).id
       IN  Fenced(/\ Upsert(PathOf[d], "running", ChunkOf[d])
                  /\ job' = [job EXCEPT !.pc = "next", !.rows = @ \ {First(@)}, !.last = d]
                  /\ UNCHANGED dbVars)
    /\ UNCHANGED <<lessee, reindexes, accidents>>

----------------------------------------------------------------------------
\* --stale without a checkpoint: the stale drawers are listed once.
SnapshotStale ==
    /\ job.pc = "load" /\ job.mode.stale /\ job.from = 0
    /\ LET todo == {d \in present \cap job.target : IsStale(d)}
       IN  Fenced(/\ job' = [job EXCEPT !.pc = "pull", !.rows = {Row(d) : d \in todo}]
                  /\ UNCHANGED <<dbVars, progVars>>)
    /\ UNCHANGED <<lessee, reindexes, accidents>>

\* reindex_source_checkpoints: each source of the batch with its last row.
Checkpoints(batch) ==
    LET ids == {r.id : r \in batch}
    IN  {d \in ids : \A e \in ids : PathOf[e] = PathOf[d] => e <= d}

\* pull_reindex_pending_batch reads the contents now; embed_stale_batch_with_retry
\* answers, or fails for good and the batch is passed over.
PullBatch ==
    /\ job.pc = "pull" /\ job.rows # {}
    /\ LET pulled == {r \in job.rows : Cardinality({q \in job.rows : q.id <= r.id}) <= BatchSize}
       IN  job' = [job EXCEPT !.pc = "vectors", !.rows = @ \ pulled,
                              !.batch = {Row(r.id) : r \in pulled}]
    /\ UNCHANGED <<dbVars, progVars, lessee, reindexes, accidents>>
BatchEmbedded ==
    /\ job.pc = "vectors"
    /\ Proceed("write")
    /\ UNCHANGED <<dbVars, progVars, lessee, reindexes, accidents>>
BatchFailed ==
    /\ job.pc = "vectors"
    /\ Fenced(/\ job' = [job EXCEPT !.pc = "mark", !.marks = Checkpoints(job.batch),
                            !.failed = @ \cup {PathOf[r.id] : r \in job.batch}]
              /\ UNCHANGED <<dbVars, progVars>>)
    /\ UNCHANGED <<lessee, reindexes, accidents>>

\* write_reindex_vector_batch: one transaction, without the drawers that changed.
WriteBatch ==
    /\ job.pc = "write"
    /\ LET same == {r \in job.batch : r.id \in present /\ body[r.id] = r.body}
           ids == {r.id : r \in same}
       IN  Fenced(/\ index' = [d \in Drawers |->
                                 IF d \in ids THEN Vector("new", body[d]) ELSE index[d]]
                  /\ stamp' = [d \in Drawers |-> IF d \in ids THEN "new" ELSE stamp[d]]
                  /\ job' = [job EXCEPT !.pc = "mark", !.marks = Checkpoints(job.batch),
                                        !.wrote = @ \/ ids # {}]
                  /\ UNCHANGED <<present, body, layout, epoch, progVars>>)
    /\ UNCHANGED <<lessee, reindexes, accidents>>
MarkSource ==
    /\ job.pc = "mark"
    /\ LET d == Min(job.marks)
       IN  Fenced(/\ Upsert(PathOf[d], IF PathOf[d] \in job.failed THEN "failed" ELSE "running", ChunkOf[d])
                  /\ job' = [job EXCEPT !.marks = @ \ {d},
                                        !.pc = IF job.marks = {d} THEN "pull" ELSE "mark"]
                  /\ UNCHANGED dbVars)
    /\ UNCHANGED <<lessee, reindexes, accidents>>

\* finalize_completed_running_rows
Settled(s) ==
    LET own == {d \in present : PathOf[d] = s}
    IN  progress[s].status = "running" /\ own # {} /\ \A d \in own : ~IsStale(d)
Finalize ==
    /\ progress' = [s \in Paths |->
          IF Settled(s) THEN [progress[s] EXCEPT !.status = "done",
                                !.last = Max({ChunkOf[d] : d \in {e \in present : PathOf[e] = s}})]
          ELSE progress[s]]
    /\ UNCHANGED older
FinalizeStale ==
    /\ job.pc = "pull" /\ job.rows = {}
    /\ Fenced(Finalize /\ Ends("ok") /\ UNCHANGED dbVars)
    /\ UNCHANGED <<lessee, reindexes, accidents>>

----------------------------------------------------------------------------
\* The guard is dropped with the future, before finalize_reindex_atomicity.
ReindexOver(result) == job' = [NoJob EXCEPT !.result = result]
ReleaseLease ==
    /\ job.pc = "release"
    /\ lessee' = IF lessee = "reindex" THEN "nobody" ELSE lessee
    /\ IF job.stash # NoStash THEN Proceed("count")
       ELSE IF job.result = "ok" THEN Proceed("finalize") ELSE ReindexOver("error")
    /\ UNCHANGED <<dbVars, progVars, reindexes, accidents>>

\* finalize_reindex_atomicity: the old vectors come back when there are none now; the
\* mutant goes by the exit status.
MutNothingEmbedded == job.result = "error"
NothingEmbedded == ~HasVectors
CountVectors ==
    /\ job.pc = "count"
    /\ IF NothingEmbedded THEN Proceed("drop")
       ELSE IF job.result = "ok" THEN Proceed("finalize") ELSE ReindexOver("error")
    /\ UNCHANGED <<dbVars, progVars, lessee, reindexes, accidents>>
\* restore_vectors_from_stash: DROP, CREATE and INSERT, each a transaction of its own;
\* the INSERT fails on the id of a row another process has put in meanwhile.
DropTable ==
    /\ job.pc = "drop"
    /\ layout' = "absent" /\ index' = [d \in Drawers |-> NoVector] /\ epoch' = epoch + 1
    /\ Proceed("create")
    /\ UNCHANGED <<present, body, stamp, progVars, lessee, reindexes, accidents>>
CreateTable ==
    /\ job.pc = "create"
    /\ IF layout = "absent" THEN layout' = job.stash.layout /\ Proceed("copy")
       ELSE UNCHANGED layout /\ ReindexOver("error")
    /\ UNCHANGED <<present, body, index, stamp, epoch, progVars, lessee, reindexes, accidents>>
CopyBack ==
    /\ job.pc = "copy"
    /\ index' = IF \E d \in Drawers : index[d] # NoVector /\ job.stash.vectors[d] # NoVector THEN index
                ELSE [d \in Drawers |-> IF index[d] = NoVector THEN job.stash.vectors[d] ELSE index[d]]
    /\ ReindexOver("error")
    /\ UNCHANGED <<present, body, layout, stamp, epoch, progVars, lessee, reindexes, accidents>>
FinalizeRows ==
    /\ job.pc = "finalize"
    /\ Finalize /\ ReindexOver("ok")
    /\ UNCHANGED <<dbVars, lessee, reindexes, accidents>>

----------------------------------------------------------------------------
\* The command is killed: its TEMP tables go with it, and its lease is found dead.
KillReindex ==
    /\ job.pc # "idle" /\ accidents < MaxAccidents
    /\ accidents' = accidents + 1
    /\ ReindexOver("killed")
    /\ lessee' = IF lessee = "reindex" THEN "nobody" ELSE lessee
    /\ UNCHANGED <<dbVars, progVars, reindexes>>

\* Another process takes the lease: a free one, or one that ran out while the
\* command was suspended.
OtherTakes ==
    /\ \/ lessee = "nobody" /\ UNCHANGED accidents
       \/ lessee = "reindex" /\ accidents < MaxAccidents /\ accidents' = accidents + 1
    /\ lessee' = "other"
    /\ job' = [job EXCEPT !.alone = job.pc = "idle"]
    /\ UNCHANGED <<dbVars, progVars, reindexes>>
OtherReleases ==
    /\ lessee = "other"
    /\ lessee' = "nobody"
    /\ UNCHANGED <<dbVars, progVars, job, reindexes, accidents>>

\* A merge replaces a drawer's content and vector in one transaction; it fails on
\* a table of another dimension and creates an absent one.
OtherMerges(d) ==
    /\ lessee = "other" /\ d \in present /\ body[d] < MaxMerges /\ layout # "old"
    /\ body' = [body EXCEPT ![d] = @ + 1]
    /\ index' = [index EXCEPT ![d] = Vector("new", body[d] + 1)]
    /\ stamp' = [stamp EXCEPT ![d] = "new"]
    /\ layout' = "new"
    /\ UNCHANGED <<present, progVars, epoch, lessee, job, reindexes, accidents>>

\* delete_rejudge_backup_items_by_version_inner
RejudgeDeletes(d) ==
    /\ d \in present
    /\ present' = present \ {d} /\ index' = [index EXCEPT ![d] = NoVector]
    /\ UNCHANGED <<body, layout, stamp, epoch, progVars, lessee, job, reindexes, accidents>>

ReindexNext ==
    \/ \E mode \in Modes : StartReindex(mode)
    \/ ReadLayout \/ PlanReindex \/ StashVectors \/ RecreateTable \/ LoadRows \/ NextRow \/ NoRowsLeft \/ EmbedRow
    \/ ClearVector \/ InsertRowVector \/ RecordMetadata \/ CheckpointRow
    \/ SnapshotStale \/ PullBatch \/ BatchEmbedded \/ BatchFailed \/ WriteBatch \/ MarkSource
    \/ FinalizeStale \/ ReleaseLease \/ CountVectors \/ DropTable \/ CreateTable \/ CopyBack
    \/ FinalizeRows \/ KillReindex \/ OtherTakes \/ OtherReleases
    \/ \E d \in Merged : OtherMerges(d)
    \/ \E d \in Deleted : RejudgeDeletes(d)

ReindexSpec == ReindexInit /\ [][ReindexNext]_reindexVars

----------------------------------------------------------------------------
\* Types of the tables and of the running command.
ReindexTypeOK ==
    /\ present \subseteq Drawers /\ epoch \in Nat
    /\ layout \in {"old", "new", "absent"} /\ lessee \in {"nobody", "reindex", "other"}
    /\ stamp \in [Drawers -> {"old", "new"}]
    /\ index \in [Drawers -> [model : {"old", "new"}, body : 0..MaxMerges] \cup {NoVector}]
    /\ progress \in [Paths -> [status : {"none", "running", "paused", "failed", "done"}, last : Nat, epoch : Nat]]
    /\ job.last \in Drawers \cup {0} /\ job.failed \subseteq Paths

Completes == job.pc = "next" /\ job'.pc = "release" /\ job'.result = "ok"
AllCurrent == \A d \in present : index[d] = Vector("new", body[d])

\* A full run embeds what it read when it started: when it reports "reindex
\* complete", every drawer has a vector of the configured model and of the content
\* it has now, though others took its lease and merged new content, or deleted
\* drawers, while it worked.
FullRunIsCurrent ==
    [][Completes /\ ~job.mode.stale /\ job.from = 0 => AllCurrent]_reindexVars

\* The same of any run row by row that resumed from a checkpoint about the table
\* that is there: what it passes over an earlier run has embedded.
CompleteMeansCurrent ==
    [][Completes /\ job.apt => AllCurrent]_reindexVars

\* "restore the old rows so the store is left exactly as it started": a run that
\* recreated the table and embedded nothing ends with the vectors and the layout it
\* found, unless it was killed or another process wrote in its time.
EmptyRunRestores ==
    [][job.stash # NoStash /\ ~job.wrote /\ job.alone /\ job'.pc = "idle" /\ job'.result # "killed"
          => /\ \A d \in present : index'[d] = job.stash.vectors[d]
             /\ layout' = job.stash.layout]_reindexVars

\* The same whoever wrote in its time: the decision is taken without the lease, so
\* the vector of another process passes for one of the run's own, or is dropped
\* with the table.
EmptyRunRestoresAmongOthers ==
    [][job.stash # NoStash /\ ~job.wrote /\ job'.pc = "idle" /\ job'.result # "killed"
          /\ job.pc \in {"count", "copy"}
          => \A d \in present : index'[d] # NoVector]_reindexVars
=============================================================================
