# mempal: specifications, model checks and proofs

mempal keeps an agent's memory in one SQLite database that several processes use at the same time: a daemon,
short-lived hook processes, MCP servers, a REST server, maintenance commands and a historical rejudge. Its hard part
is not ranking or text processing but coordination: who may write, which worker owns a piece of work, what happens to
a capture between the moment its producer is told "queued" and the moment it is stored, and what a process that dies,
stalls or is restarted leaves for the next one. These modules specify that part, check it with TLC on small instances
and prove the central safety properties with TLAPS for all instances.

Paths below are relative to the repository's `src/` (so `core/queue.rs` is `src/src/core/queue.rs` in the map).

## Inventory

| Component | State | Operations | Talks to | What makes it correct |
|---|---|---|---|---|
| Runtime writer lease (`core/db.rs`, `core/db_writer_lease_*.rs`, `daemon/writer_lease.rs`, guards in `main.rs`, `mcp/server.rs`) | rows of `runtime_writer_leases`, the generation counter per name, each process's copy of its lease | acquire (3 policies), renew, release, restore, fenced write | every writer of the database | fenced writes in generation order; a live holder is not replaced; a daemon that lost the lease exits |
| Pending queue (`core/queue*.rs`) | `pending_messages`, `pending_message_completions`, `ClaimedMessage`s in workers' memory | enqueue, claim, complete, fail, release, heartbeat, reclaim, requeue, retry, archive, status | daemon workers, ingest workers of other processes, drain of the spool | acknowledged work is kept and settled; one owner; completions final; byte budget |
| Ingress spool and hook IPC (`ingress_spool*.rs`, `hook.rs`, `hook_ipc.rs`, `daemon/self_heal.rs`) | record, claim, quarantine and temporary files, their directory entries | submit, append, answer, fall back, list, claim, enqueue, delete, quarantine, release, recover | hook and MCP clients, queue | nothing accepted is lost or stored twice; the spool is bounded; everything accepted is delivered |
| Daemon start (`daemon/writer_lease.rs`, `daemon_singleton.rs`, `daemon_bootstrap.rs`, `daemon_recovery.rs`, commands of `main.rs`) | deadline of the wait; lock, metadata and PID files; restart budget | attempt, wait, take over, admit, charge, cool down, serve, exit; stop, reap | lease, operating system | a start is not refused for a passing holder; one daemon; an exact restart budget; in the end a daemon serves |
| Database admission (`core/db_admission*.rs`) | state file of holders, a locked lease file per holder | admit, reap, release | every process that opens the database | the limits on holders and cache hold through crashes; nobody is refused for the sake of the dead |
| Cowork inbox and bus (`cowork/`) | inbox file, draining file, `events.jsonl` | send, drain, acknowledge, replay | agents | at most once (which overlapping drains break); nothing sent is lost; the replayed status covers the mail |
| Ingestion of sources (`ingest/mod.rs`, `ingest/lock.rs`) | per-source flock, drawers, vectors | read, lock, replace, deduplicate, embed, insert, supersede | database, embedder | versions never mix; success means stored |
| Reindex (`main.rs`, `core/reindex.rs`) | vector table, stash of the old one, checkpoint | recreate, embed row by row or in batches, resume, restore | lease, embedder | complete means current (which resumed runs break); an empty run restores |
| Historical rejudge (`main.rs`, `historical_rejudge*.rs`) | work items, checkpoint, backup file, scoped lease | propose, confirm, back up, remove, resume, restore | lease, lanes of judges | removes what was condemned and can restore it; ends |
| Configuration hot reload (`core/hot_reload.rs`, `core/config.rs`, `llm/worker.rs`) | file, snapshot, generations, shared router, cached embedder | edit, notice, load, store, bump, follow | workers, callers | no edit is lost; nobody keeps a stale client unknowingly |
| Endpoint pool (`endpoint_pool.rs`, `endpoint_health.rs`, `embed/`) | permits, cooldown and health per endpoint | select, wait, send, report, retry | LLM workers, embedding | permits are accounted for; every call ends |
| Knowledge cards (`knowledge_card_lifecycle.rs`) | card, evidence links, events | gate, promote, demote, link | lease | a promotion meets the gate when it takes effect; the events tell the card's life |
| Path leases, write reserve, sleep scheduler, knowledge drawers | rows, due times, a reserve of disk space | acquire, run, promote | database | exclusion; legal transitions |
| Search, embedding models, text processing, wiki and export, transcripts, diagnostics | none of their own, or caches | read-only or one transaction | | ranking and text quality, not stated here |

Behaviours that are hard to test, and what becomes of them here: two transactions where one is meant (lease look and
acquisition, status and receipt lookups, links, card and event of a command); state kept in memory while the row
changes owner (claims, leases, checkpoints); whole-second clocks; a client that times out while its request is still
being executed; files appended to, renamed and drained without a lock; directory renames that are not yet synced; a
process that dies between two steps of a protocol that another process continues; counters that several generations of
a daemon share; deadlines that move. `PROJECT.json` lists each at its line with the properties that cover it.

## Modules

| Module | Models | MC module | Proofs |
|---|---|---|---|
| `WriterLease` | the lease tables and four kinds of holders | `MCWriterLease` | `WriterLeaseProofs` |
| `PendingQueue` | the two queue tables, workers, the daemon's life as it touches claims | `MCPendingQueue` | `PendingQueueProofs` |
| `WorkLedger` | what the queue promises: an abstract ledger that `PendingQueue` implements | `MCPendingQueue` | `PendingQueueProofs` |
| `IngressSpool` | clients, IPC handlers, `append`, the drain, crashes and power losses | `MCIngressSpool` | `IngressSpoolProofs` |
| `SpoolReceipt` | `IngressSpool` composed with a receipt lookup of one operation | itself | |
| `DaemonAdmission` | the wait for the lease at daemon start, the lease row reduced to mode, remaining time and liveness | `MCDaemonStart`, itself | `DaemonAdmissionProofs` |
| `DaemonLife` | singleton, bootstrap, restart budget, exit, and the commands stop and reap | `MCDaemonStart` | `DaemonLifeProofs` |
| `RejudgeSweep` | the full sweep of the historical rejudge, its resumption and the restore of its backup | `MCDaemonStart` | `RejudgeSweepProofs` |
| `DbAdmission` | the admission of SQLite holders | `MCProfileFiles` | `ProfileFilesProofs` |
| `CoworkInbox`, `CoworkBus` | the inbox file of an agent; the bus around it with its event log | `MCProfileFiles`, `MCCoworkInbox` | `ProfileFilesProofs` |
| `SourceIngest` | concurrent ingestion of source files | `MCProfileFiles` | `ProfileFilesProofs` |
| `Reindex` | `mempal reindex --embedder` | `MCProfileFiles`, `MCReindex` | `ProfileFilesProofs` |
| `KnowledgeCards` | the lifecycle of a knowledge card | `MCProfileFiles` | `ProfileFilesProofs` |
| `HotReload` | the configuration coordinator and the clients that follow it | `MCModelRuntime` | `ModelRuntimeProofs` |
| `EndpointPool` | routing, permits, cooldown, retries and health | `MCModelRuntime` | `ModelRuntimeProofs` |

Three MC modules check several components in one instance: `MCProfileFiles` (parts `bus`, `admission`, `ingest`,
`reindex`, `cards`), `MCModelRuntime` (`llm`, `embed`, `pool`) and `MCDaemonStart` (`wait`, `life`, `sweep`). A behaviour
belongs to one part, chosen in the initial state, while the others rest. Components of different parts share no
variable, no action of one reads what another part writes, and every property is about one part, so their product
would add interleavings and no behaviour of either (`llm` and `embed` share the coordinator, which runs in both and
which neither the workers nor the callers write to). What does cross the border is an action inside the part it
concerns: the daemon that takes a sweep's lease is an action of `RejudgeSweep`, the outcome of the wait one of
`DaemonLife`. Likewise `CrewSpec` of `MCWriterLease` explores two crews of four live processes, not all six at once; a
process outside the crew was never born and has no row.

A `Mut...` operator next to a definition is a plausible defect in that definition's code. It is not used by any
specification; replacing the definition by it must make the property it is listed for in `PROJECT.json` fail.

### WriterLease

`rows` is the table, one row per lease name (`sqlite-writer`, and the rejudge's scoped name), `lastGen` the generation
counter, `handle` what each process remembers, `active` the rejudge guard's flag, `lastWrite` a history of the last
fenced write per name. Each lease transaction is one action and begins with the cleanup the code runs first
(`CleanupExpired`, `RebindDead`), also when it then refuses. The command line's look for a scoped rejudge lease
(`EnsureNoRejudge`) and its acquisition are two actions because they are two transactions. A renewal can take effect
without the process learning it (`RenewUnconfirmed`), a release can fail in `Drop` (`ReleaseFails`), and any process
can crash. A process birth is one element of `Procs`; PID reuse is out of the model because the code compares start
identities. `Namespace` is the PID namespace from which liveness is judged.

### PendingQueue

Every queue transaction is one action; a worker's `claims[w]` is its `ClaimedMessage`, which outlives the row's claim.
Times are distances from now, so the clock never stops. `acked[id]` is the set of payloads whose producer was told
"queued". The code's claim tokens are never reused; the model reuses one only when neither a row nor a worker has it
any more, where nobody can tell the difference. A status query takes two steps because the code reads two tables without a transaction. The daemon starts, shuts down (drain,
abort, release of claims that were cancelled, shutdown reclaim), crashes and loses its lease; finalizers of daemon
workers need the lease, those of other processes do not. `Spooled` identities arrive by the drain's fenced enqueue, which
does not charge the byte budget. A retry waits for the backoff or for the delay the
model server asked for (`Hints`), and a worker whose finalizer meets a locked database forgets the message and leaves its
claim to be reclaimed (`FinalizeFails`). Left out: the counter of rejected oversize payloads, statistics and previews.

`WorkLedger` is what this amounts to for producers and workers, without tables, tokens, heartbeats, retries or the
daemon: an identity is accepted once, for one payload; it is open, failed or settled; only held work is completed, only
failed work is archived, settled work never comes back, and a step hands work to one taker at most.
`ImplementsLedger` is that specification under the mapping at the end of `PendingQueue` (`INSTANCE WorkLedger WITH`): the
state is read off the two tables, the holder off the claim.

### DaemonAdmission

The loop of `acquire_daemon_writer_lease`: attempt, look at the holder, refuse at once for a durable-ingest worker,
otherwise compute a target from the holder's remaining time, move the deadline up to it, sleep, repeat. Failing
attempts and looks are actions of their own. The environment takes, renews, releases and abandons the lease.

### IngressSpool

`disk[k]` is the files of an identity now (record, claim, quarantined), `maybe[k]` the set of files a power loss may leave:
a change without a directory sync adds to it, a sync reduces it to `disk[k]`. `PowerLoss` picks one element per key and
drops commits that were not checkpointed. A rename and the directory sync after it are one action with two outcomes,
because the file is in both states to any observer; `append`'s two existence tests, its read and its write are separate
steps, because `release_claim` does not take `append_lock`. Listing with recovery, and `release_claim`, are atomic: only
the drain claims, so nothing is claimed while it lists. The order in which records are drained is left open. `committed`
is a history of what the queue took; `rest` is what the daemon's REST server ingested directly, also for a request whose
client has given up and reports a failure. A client that times out may leave a handler running in the daemon. The classes are a hook (new identity when the request certainly did not
arrive, the same otherwise), an MCP request with a generated key, a caller's operation key, and a durable REST
admission. Left out: undecodable records (no writer of this program makes one), the limit on concurrent handlers, the
readiness probe, metrics. `Acked` does not count the answer "queued" that only rests on a visible key when that key
was used for two payloads: that lookup does not compare payloads (`mcp/server.rs:7741`).

### DaemonLife

A birth is one daemon process, numbered so that a lower PID is a lower number. A start takes the singleton's flock, writes
its metadata, asks the recovery state for admission and waits out a cooldown, opens the database, writes `daemon.pid`,
takes the lease (`DaemonAdmission` is that step in detail), serves, and removes its files by path in the drop order of its
context. Every step can be followed by a kill, which frees the flock and leaves the files. A fault charges the restart
budget that all generations share; `record_recovered` may come after this generation was charged itself. `stop` and
`reap` read `daemon.pid`, send signals and rewrite or remove the file without the lock, in several steps. The code keeps
the recent faults in a list and asks only how many there are and which are its own, so here they are a set of numbered
ones. `charged` is a
history of the faults the budget should count and `meddled` says that a command touched `daemon.pid`. A number is used
again for a later birth once no file, command or charge remembers it. Left out: the readiness probe, log files.

### RejudgeSweep

`mempal maintenance rejudge --all --execute`: build or load the snapshot of work items, take a page, ask the proposal
lane and then the confirmation lane for several items at once, append what will be removed to the backup file, and remove
it together with the page's items and the checkpoint in one fenced transaction. `--proposal-only` leaves
`confirm_pending` items for a later `--confirm-pending-only`. The command may be killed anywhere, lose its lease, meet a
locked database, or find a lane unavailable, and is resumed from its checkpoint. Others merge content into drawers,
delete them, or restore a backup. Left out: the limited run without `--all`, the artifact scan and apply with its
journal, rebinding, and hard deletion without a backup.

### DbAdmission

One call under the state file's flock is one action, with an outcome for each place where it can fail or its process
can die: the lease file exists but no holder is published, the holder is published but the directory sync failed, the
holder is removed but its lease file is not. The kernel drops a dead process's flock, which is what reaping looks at; a
lease that cannot be judged counts as live. The sweep of unreferenced lease files keeps the ones it cannot open, lock,
verify or unlink (`Sweeps`; `Sticky` are those that may resist).

### CoworkInbox and CoworkBus

The processes share files without a lock, so every system call is an action: a push looks at the file, opens it, writes
the line, writes the newline and looks at the size by path; a drain renames, reads and removes. A send that is killed
between its two writes (`cut`) leaves half a line, which the next message runs into. `CoworkBus` adds the
project's event log, which every call appends to in two writes, and the status that a replay computes from it line by line
(`Replayed`: a drain is charged to the oldest waiting messages, as many as it says it returned). A torn line
makes everything that replays fail, as in the code. A look at the sizes that fails, and an event that cannot be written, end
the call with an error (`StatsFail`, `SendUnlogged`, `DrainUnlogged`); what such a drain has taken is returned to nobody. A
broadcast is one send per target. Left out: registries,
heartbeats, channels, and sessions, which only log.

### SourceIngest

A file is the set of its chunks. It is read before its lock is taken; under the lock the deletion of the old drawers,
the duplicate check (`CheckChunk`), the resolution of an id (`ResolveId`), the look whether it exists (`PlanChunk`), the insert
of the drawer and of its vector are separate transactions, with calls for other sources between them and a failure
possible at each. Superseded drawers keep their ids.

### Reindex

The command takes the lease, reads the layout and then the checkpoints while others may take its lease already. It works row
by row into a recreated table with a checkpoint after each source and chunk, or in batches over the stale ones. The
latest resumable checkpoint is found by a timestamp of whole seconds, so `older` relates two sources when the first
was updated in an earlier second, and within one second the least path is taken. `epoch` and `job.apt` are history: which table a
checkpoint is about, and whether a run resumed from one about the present table. The stash keeps the old vectors and the layout of their table. The
lease guard is dropped with the future that embeds, so the decision to put the old vectors back is taken without it; copying
them back fails as a whole when another process has inserted one of the ids meanwhile.
Another process merges content when the lease is free or has run out; a rejudge deletes drawers under its own lease.

### KnowledgeCards

A call takes the lease, reads the card and its links, judges the gate on the projected counts, and writes. An MCP call
writes links, card and event in one transaction that first checks its lease. The command line passes no lease to
`apply_card_lifecycle`, so its statements are actions of their own and stay when a later one fails. Either then reads the
links back for its answer, which can fail after everything is committed (`ReadBack`). Links are unique
by card, drawer and role, events by an id made of card, type and reason. Refs are sequences, and what a call still has to
insert (`fresh`) is a set of positions, because a ref that is named twice is counted twice by the gate. Left out: the other fields of the card (a stale copy of them is written back),
the type of a demotion's reason, and single inserts of cards and events.

### HotReload and EndpointPool

The coordinator learns of an edit from inotify, from polling once the watch is gone, or from SIGHUP, takes the file's
signature, loads it, stores the snapshot and then bumps the generations; a file that is being written reads as `Bad`.
Workers read the generation before the configuration and compare again after building their router; callers of the
embedder label a cached client with the generation they read first. In the pool every lock and every atomic is an action:
look, try a permit, queue for one, send, mark a cooldown, clear it, report health. A dropped future may have been handed
a permit already. Jitter and backoff are a wake-up at any time.

Two abstractions to keep in mind. `Configs` are contents that differ in hot-reloadable fields: `merge_runtime_allowed`
(`core/config.rs:704`) keeps the running values of the other fields, and of the whole llm section when the model is
switched on or off or its backend changes, so such an edit never reaches the snapshot. And a cooldown is on or off, and may
end at any time: how long one lasts, and that a later failure with a shorter `retry_after` shortens it
(`endpoint_pool.rs:225`), is not told apart.

## Runs

| Run | Configuration | Properties | States | Shows |
|---|---|---|---|---|
| `lease_fencing` | `WriterLease.cfg` | `WritesInGenerationOrder`, `LiveHolderKept`, `LostDaemonStepsDown` | 541,981 | whatever is taken over, restored or renewed, no stale process writes after its successor; only an expired row, and only a command, removes a live holder; a daemon without a lease exits |
| `lease_rejudge_race` | `WriterLeaseRejudgeRace.cfg` | `CliRejectedUnderRejudge` | violated | a command can run beside an active rejudge lease |
| `queue_claims` | `QueueClaims.cfg` | `AckedWorkIsKept`, `OneOwner`, `CompletionIsFinal`, `HeartbeatKeepsClaim`, `ImplementsLedger` | 944,840 | ownership and durability of work through reclaims, retries, crashes, shutdowns and lost leases; the queue is a ledger of accepted work |
| `queue_admission` | `QueueBudget.cfg` | `BudgetRespected`, `StatusNeverMissing`, `EveryClaimEnds`, `AckedWorkSettles` | 56,732 | the byte budget through failure, requeue and retry; status lookups never miss known work; every claim ends, and acknowledged work is completed, archived or parked |
| `spool_crashes` | `SpoolHook.cfg` | `HandedOver`, `OneIdentity` | 563,039 | with timeouts, late handlers, failed syncs, kills and power losses, nothing accepted leaves the spool except into queue or quarantine, and nothing has two identities |
| `spool_delivery` | `SpoolDelivery.cfg` | `SpoolBounded`, `Delivered` | 53,632 | everything accepted is delivered, within the limit |
| `spool_clash` | `SpoolClash.cfg` | `HandedOver` | violated | an accepted record is overwritten by another payload under its key |
| `profile_files` | `ProfileFiles.cfg` | `SentIsKept`, `MailIsReported` (bus); `WithinBudget`, `RefusedOnlyWhenFull` (admission); `VersionsNeverMix`, `SuccessMeansStored` (ingest); `FullRunIsCurrent`, `EmptyRunRestores` (reindex); `GateHoldsWhenPromoted`, `HistoryIsUnbroken` (cards) | 2,381,821 | what processes share through the files and tables of a profile survives their interleavings, deaths and half-done steps |
| `inbox_drains` | `InboxDrains.cfg` | `AtMostOnce` | violated | two drains that overlap return the same messages |
| `model_runtime` | `ModelRuntime.cfg` | `StaleClientIsTold`, `ConfigCatchesUp`; `PermitsAccounted`, `EveryCallEnds` | 810,177 | no edit is lost and nobody keeps a stale client unknowingly; calls end through outages, saturation and dropped futures |
| `daemon_start` | `DaemonStart.cfg` | `RefusedOnlyByIngestWorker` (wait); `OneDaemon`, `BudgetIsExact`, `DaemonServes` (life); `RemovedIsRestorable`, `OnlyCondemnedRemoved`, `CheckpointAgrees`, `SweepEnds` (sweep) | 245,439 | a start is refused by a durable-ingest worker only; one daemon, an exact restart budget, a daemon in the end; a rejudge removes what was condemned and backed up, counts right and ends |
| `reindex_resume` | `ReindexResume.cfg` | `CompleteMeansCurrent` | violated | a resumed reindex skips drawers that share source and chunk with the checkpoint |

Deadlock is checked for the queue and for `daemon_start` (where a sweep that may not run again stutters). It is not checked
where all processes may have exited or all calls may be done: lease, spool, `profile_files`, `model_runtime`.

### Findings

1. `main.rs:5590`: the look for a scoped rejudge lease and the acquisition of `sqlite-writer` are two transactions. A
   rejudge starts between them while a daemon holds `sqlite-writer`, the daemon exits, and the command acquires beside
   it, although a test says the command must be rejected then (`main.rs:25886`).
2. `ingress_spool.rs:139`: between the test for the record and the test for the claim, `release_claim` can rename the
   claim back. `append` then sees neither and overwrites an accepted record instead of reporting the conflict.
3. `cowork/inbox.rs:195`: a push between the renames of two overlapping drains creates a new inbox file, so the second
   rename succeeds as well, over the first's draining file. Both drains return the message of the second, and those of the
   first are gone, although the documentation at `cowork/inbox.rs:179` says that "exactly one caller wins" and the other
   finds nothing. The bus properties of `profile_files` are therefore stated, checked and proved for drains that do not overlap.
4. `main.rs:15852`: a resumed reindex skips every row whose source path and chunk index are those of the checkpoint.
   Captures without a payload file all share one source and chunk 0, so a run interrupted between two of them leaves the
   rest without a vector and reports "reindex complete".

### Configurations that are not runs

They instantiate the same modules. These document further disagreements, each noted with its hazard:

| Configuration | Violates | Because |
|---|---|---|
| `CardsCli.cfg` | `HistoryExplainsStatus` | the command line changes a card's status and then fails to append the event, whose id repeats when a reason is given again, or dies before it; `specs/p39-knowledge-card-lifecycle-cli.spec.md:19` says the three writes "are transactional" |
| `QueueShutdownSecond.cfg` | `ShutdownReleasesClaims` | `reclaim_stale(0)` keeps claims whose heartbeat is in the current second, although the comment at `daemon.rs:505` says all are released; they wait for the claim's time to live |
| `QueueShutdownOthers.cfg` | `ShutdownSparesOtherWorkers` | the shutdown reclaim takes the claims of live workers of other processes; the work is repeated, never lost |
| `QueueBudget.cfg` with `Queried = {}`, `Spooled = {1, 2}` | `BudgetRespected` | the drain's fenced enqueue does not charge the budget |
| `AdmissionUnbounded.cfg` | `AdmissionEnds` | the deadline moves with the clock while a holder is seen, so the refusal at the deadline is dead code although two comments (`daemon/writer_lease.rs:25`, `:498`) promise a bounded wait: a start waits as long as its holder lives |
| `WriterLeaseRestore.cfg` | `RestoredLeaseIsActive` | an expired row counts as restored |
| `WriterLeaseContainer.cfg` | `LiveHolderKept` | a daemon in another PID namespace deletes a live daemon's row |
| `SpoolPower.cfg` | `AckedSurvivesPowerLoss` | the record is deleted durably while the commit, under `synchronous = NORMAL`, may still be lost |
| `SpoolReceipt.cfg` | `AcceptedIsNotMissing` | a receipt lookup lists the directory before a rename and reads after it |
| `ReindexRestore.cfg` | `EmptyRunRestoresAmongOthers` | another process writes into the table that is counted, dropped and copied back without the lease |

The others pass and hold the type invariants and weaker properties, to keep the runs to one question each:
`WriterLeaseHolders.cfg` (`TypeOK` and the holders' properties with everyone alive), `ProfileFilesMore.cfg` (`ProfileTypeOK`,
`RoomKept`, `Searchable`, `StatusForward`, and the bus and ingest properties with two acknowledgements, a tighter inbox and
more modes of ingestion: 3,856,400 states), `QueueProgress.cfg` (`EveryClaimEnds` and `AckedWorkSettles` with a hook worker
in the daemon and an ingest worker outside it: 9,264 states), `ModelRuntimeMore.cfg` (`RuntimeTypeOK`,
`HealthyWhenServed`, `CooldownLasts`) and `DaemonStartMore.cfg` (`StartTypeOK`, `NeverTurnedAway`, `CooldownFixed`,
`ProposalAskedOnce`, and the sweep's safety with two mishaps: 546,616 states).

### Observations without a configuration

- Rejudge: `docs/usage.md:216` says only confirmed candidates are soft-deleted; with two lanes, drawers the deterministic
  tier rejects are removed without a confirmation (`OnlyCondemnedRemoved` says so). A locked database while a proposal is
  stored turns that proposal into a final "keep". A sweep whose `sqlite-writer` lease a live daemon has taken asks the
  lanes about the same page again and again (`SweepEnds` exempts it). A restore also brings back drawers that the sweep
  backed up and somebody else removed. The backup's vector and triples may be older than its content.
- Knowledge cards: a command that overruns its lease writes unfenced. With `cl` in `Overdue`, which `CliInTime` excludes, TLC
  finds a promotion over a counterexample that somebody else has linked meanwhile (`GateHoldsWhenPromoted`), and an event
  whose `from` is not the status it replaced (`HistoryIsUnbroken`). A call whose links cannot be read back reports an error
  for a transition that is committed; when its caller tries again, the event's id is taken.
- Ingestion: calls for different sources that check the same content at the same time store it twice, the second as `<id>_2`:
  neither the lock nor a transaction spans the duplicate check and the insert.
- Admission: lease files that a sweep cannot remove stay, one for each holder that died with such a file, until a sweep
  succeeds.
- Model runtime: the signature of the shared router holds `privacy.remote_calls` too, which `llm_hot_changed`
  (`core/hot_reload.rs:578`) does not compare: a change of that field alone rebuilds the router at the next claim and does not
  interrupt the request under way.
- REST: an MCP request without a key that times out at the REST server is reported as failed and may be stored all the same;
  a caller that repeats it stores the content under another identity, unless the duplicate check meets it.
- Reindex: a resumed run can report "reindex complete" too early even when no two drawers share source and chunk, so
  `CompleteMeansCurrent` is stated for the violation run only, and `FullRunIsCurrent` says what holds of runs that do not resume.
  The second way takes checkpoints that tie. A `--stale --resume` run leaves the checkpoint of an older source "paused" when none of its rows is wanted, in the same second as a
  checkpoint of the next source. A full resume then goes by the older one (the least path of the second), finishes that
  source, clears a vector behind the newer checkpoint and is killed; the next resume goes by the newer checkpoint, skips the row
  and reports "reindex complete". It takes four drawers of two sources and four runs.
- Cowork bus: half a line that a killed send leaves swallows the message after it, although that send reports success:
  the drain skips the line, which is not JSON (`cowork/bus.rs:1428`). `SentIsKept` exempts it. A drain that cannot append its
  event fails after the file is removed (`cowork/bus.rs:1433`), and its messages are returned to nobody.
- Events of a card are listed by a timestamp of whole seconds and then by a hash, so two events of one second may be
  listed in either order.

### Bounds and why they are enough

- Lease: `TTL = 1`, two or three instants (`MaxTime`) and three generations (`MaxGen`): a lease can run out, be taken
  over and be taken over again, which is one takeover more than a stale write or a restore needs. Crews: a daemon, a
  command and two rejudges (which contend for the scoped name); two daemon births, a command and an MCP server. The
  proofs remove all of these bounds.
- Queue: two identities, of which one ingest key with two payloads; two daemon workers and one outside; five tokens, more
  than workers and rows can hold at once, so minting never blocks; `Horizon` is at least the largest age any comparison
  uses, `RetryCap` is where the backoff has reached `MaxDelay`; `MaxFaults = 2` lets a crash follow a lost lease.
  `ClaimTtl = 1` against `StartupTtl = 0` tells the two reclaims apart. The admission run has two ingest keys, each with
  payloads of 2 and of 1 against a budget of 3, and a delay asked for by the server (`Hints = {2}`) beyond the backoff.
  `MaxFaults` is 1 there: a liveness property needs the interruptions to stop, not to be many.
- Spool: two captures with three identities under every fault; three captures of one key with a limit of one record for
  delivery. The limits are small enough that a spool filled by records or by the temporary files of dead writers
  happens. `SpoolBounded` is checked without hook captures: `append_lock` belongs to one process, so each hook process
  may overshoot by one record.
- Files of the profile: two messages of different sizes against limits of two pending messages and four bytes (one
  waiting message fills the inbox unless its line was cut), two drains, one acknowledgement, one call of either kind may die; a service and two transient processes whose requests meet the limits on holders, on
  bytes and on the reserved seat, one lease file that may resist its sweep; three ingests, two of one source, with one edit; three drawers, two of one source, two
  runs of reindex with one accident; two MCP calls and a command on a card of the strictest and of a lax tier, with
  requests that repeat a ref, go past the gate and repeat a reason.
- Model runtime: two workers, two callers and three configurations with two edits, so that an edit can be overtaken by
  another; two calls over two endpoints of one permit, one of which may stay down, and two faults.
- Daemon start: `Ttl = 4` is more than `WaitMax = 1` and `ExtendedMax = 3`, so both branches of the effective wait occur;
  two successive holders. Three births, a budget of two faults per window and three troubles: one more than the budget,
  and enough for a late recovery to race a fault. Three drawers in pages of two, one protected, one rejected by the
  deterministic tier, one edited meanwhile; two runs of the sweep, one mishap.

No state or action constraint and no symmetry is used.

### Fairness

- Lease (`LeaseFairness`): the heartbeat task keeps ticking, and a daemon that is stopping reaches its release. Crashes
  and time have no fairness.
- Queue: the clock runs; workers poll in a loop; a worker that holds a message finalizes it; an attempt that is possible
  again and again succeeds once (strong fairness of `Complete`: without it a retryable message may fail for ever, and the
  code has no limit on model retries); a lost lease leads to shutdown (`daemon.rs` selects on it); a supervisor restarts
  the daemon (the unit's `Restart`).
- Spool: the supervisor restarts the daemon, its handlers run, and the daemon, disk and database do not fail in every
  single pass of the drain (strong fairness of each of its steps). Nothing is assumed of clients.
- Wait: `daemon_start` assumes nothing of it. `AdmissionUnbounded.cfg` lets the loop and the clock run and the status read
  succeed often enough to be seen (strong fairness of `Observe`); nothing is assumed of the holder.
- Life (`LifeFairness`): somebody starts a daemon while none runs, each daemon's and each command's steps go on, the clock
  runs. Who starts it is a hook, a command or the unit. The unit alone would not do: it gives up after five quick starts
  (`StartLimitBurst`) and does not restart after exit 75 (`RestartPreventExitStatus`).
- Sweep (`SweepFairness`): the command's own steps go on. Kills, lost leases, locks and failing lanes are bounded, not fair.
- Reload and pool (`HotFairness`, `PoolFairness`): the coordinator's thread runs; a call's next step is taken, a cooldown
  runs out, and an endpoint outside `MayStayDown` comes back. The edits and the outages themselves have no fairness.

## Proofs

Every theorem is for every value of the constants that satisfies the named assumptions of the modules; hypotheses beyond
those are spelled out below and in the statement. Each inductive invariant was first checked by TLC on the run of its module.

- `WriterLeaseProofs`: `LeaseTypeCorrect`, `LeaseRowIsNewest`, `LeaseWritesInGenerationOrder`. That a row carries the newest
  generation is not inductive: a restore could put an old one back. The invariant adds that a handle's generation was
  issued, that no generation is in two handles (`UniqueGen`), that a row's generation is positive, and that the last
  write's generation belongs to the process that wrote it (`WriteInv`). Lemma `CleanupShrinks` reduces all cleanups to
  "some rows are gone", `AcquirePreserves` treats the four acquisitions at once. The order of writes then follows from
  the fence: the writer's row is the newest, and equal generations mean the same writer. `LeaseLiveHolderKept` needs
  `OneNamespace`, that all processes see one another in /proc; `WriterLeaseContainer.cfg` shows what happens otherwise.
- `PendingQueueProofs`: `QueueTypeCorrect`, `QueueKeepsAckedWork`, `QueueNeverInBothTables`, `QueueOneOwner`,
  `QueueCompletionIsFinal`. The inductive invariant adds `RowShape` (only claimed rows have tokens) and `TokenInv` (a token
  that is both in memory and in the table names the same message, worker and payload): a completion records the
  payload from memory, so keeping acknowledged work needs to know it is the row's. Most actions are shown
  `Benign` - no row appears, disappears or changes payload, and claims are only dropped - and one lemma shows that benign
  steps keep the invariant; enqueue, claim, completion and archive are proved on their own. It assumes
  `HookPayloadAssumption`: an identity of a kind other than ingest has one payload, as a key is minted for each submission.
  - `QueueStatusNeverMissing`: between the two lookups, `QueryInv` keeps that acknowledged work which was not pending is
    completed, which the completions' finality preserves.
  - `QueueHeartbeatKeepsClaim`: how each step may end a claim (`ClaimEndsWell`), from `TokenInv`.
  - `QueueImplementsLedger`, the refinement of `WorkLedger`: the empty tables are the empty ledger; a benign step lets every
    message rest, frees it, fails it or reopens it; enqueue, claim, completion and archive are moves of the ledger that give at
    most one message a new holder.
  - `QueueBudgetRespected`, under `BudgetCharged`: no ingest message comes in through the spool, whose path charges nothing. The
    bytes of the active messages are counted as a set of pairs of message and position, so that sums are cardinalities and the
    theorems on finite sets apply. Of the messages a requeue activates, the youngest with any bytes (`Youngest`, by
    well-foundedness of the strict subsets of a finite set) was charged against all the others.
- `DaemonAdmissionProofs`: `AdmissionRefusal`. From `WaitIsPositive` (the effective wait is at least one second): right after
  re-arming, the deadline lies ahead, so the only refusal left is the immediate one. This is the other side of
  `AdmissionUnbounded.cfg`.
- `IngressSpoolProofs`: `SpoolTyped`, `SpoolOneIdentity`, `SpoolHandedOver`, `SpoolKeepsLimit`. What a step does to the
  directory, the queue and the drain is summed up by `StoreStep`: nothing is lost but into the queue (`KeptAt`), and nothing
  appears but what the step writes (`UntouchedAt`). The invariant of the store (`DirInv`, `QueueInv`, `DrainInv`: the drain has a
  claim in its hands and deletes it only once it is committed) is extended capture by capture: `IdInv`, that a client turns to
  another identity only when the daemon has not stored the first and never will, and `AckInv`, that what was promised, or is
  about to be, is kept. `SpoolHandedOver` assumes `OnePayload`, that a key names one payload; `SpoolClash.cfg` is the
  counterexample without it. `SpoolKeepsLimit` assumes `DaemonAlone`: hooks have an append_lock of their own, and a power loss brings
  back files whose removal was not synced. `BoundInv` adds to the limit that one append at a time is past its look and that
  whoever was told there is room still has it; the files are counted as a set (`Entries`), and each step of the drain
  is shown to move or remove entries (`NotMore`), the listing by an injection of the new entries into the old.
- `DaemonLifeProofs`: `LifeOneDaemon`, `LifeNeverTurnedAway`, `LifeCooldownFixed`, `LifeBudgetIsExact`. `GateInv`: whoever is past the singleton gate has
  the lock; `FilesInv`: the files name the holder from the moment it publishes them; `NapInv`: the time a start
  sleeps covers what is left of the cooldown. The restart budget is exact because the faults it keeps and the history of charges
  can be paired off, one to one, by age and by the generation that was charged (`ChargeInv`): pruning, ageing, a late recovery
  and a reload of the state file by another generation each take the pairing along, and equal counts follow.
- `RejudgeSweepProofs`: `SweepRemovedIsRestorable`, `SweepOnlyCondemnedRemoved`, `SweepCheckpointAgrees`, `SweepProposalAskedOnce`. The
  invariant relates the memory of the running sweep to the work table (`MemoryInv`, `RunInv`, `PageInv`), the lanes'
  verdicts to the content they were given (`LaneInv`, `PendingInv`), the batch about to be removed to the snapshot and the
  backup (`BatchInv`), and what was removed to the verdict it was removed for (`RemovalInv`). A kill forgets the memory
  and leaves the tables, so every part about a table is stated of the table alone.
- `ModelRuntimeProofs`: `HotStaleClientIsTold` from `BootInv`, `WorkerInv` and `CallerInv` (a client that was built from an older
  configuration has an unread change or looks before it uses it), and `PoolPermitsAccounted` from `LineInv` (the line holds
  each waiting call once) and `PermitInv` (permits in hands and free ones add up, by cardinality of the holders).
  `PoolHealthyWhenServed` follows from `HealthInv`: a failure stays on the count, or on the degraded flag, only while some call has
  still to take it off or has failed for good. The count and the flag are separate writes, so the two are separate parts,
  with different steps at which a call is past them. `PoolCooldownLasts` needs `ClearInv`: no call of the llm strategy comes to
  the step that clears.
- `ProfileFilesProofs`, one section for each module:
  - ingestion: `IngestTypes`, `IngestVersionsNeverMix`, `IngestSearchable` and `IngestSuccessMeansStored` from
    `IngestInv`: rows and vectors (`RowInv`), one call at a time in a source's critical section (`LockInv`), the versions of
    a source (`VersionInv`), drawer ids (`FirstIdInv`), and for every call what it has planned, read and superseded (`CallInv`);
  - cards: `CardsGateHolds` from `CardInv`, and `CardsHistoryIsUnbroken` from `ChainInv` on top of it (while a command is between its
    writes of card and event, exactly its event is missing), both under `CliInTime`: the commands finish within their
    lease. With a command in `Overdue` TLC finds counterexamples to both. `CardsCli.cfg` is about what the second leaves
    out: a command that ends between the two writes;
  - admission: `AdmissionRefusedOnlyWhenFull`, `AdmissionSeatsKept`, `AdmissionWithinBudget` from `AdmInv` (each handle is
    listed, or its process died or was unlisted while it could not be judged). The page cache is a set of pairs of
    holder and byte, counted like the queue's bytes. Lease files that a sweep could not remove do not count as holders, so
    none of this depends on which those are;
  - bus: `BusSentIsKept` and `BusMailIsReported`, under `OneDrainer`: drains do not overlap (`InboxDrains.cfg` is the
    counterexample); `BusTypes` and `BusStatusForward` without it. `MailInv` says where a message can be at all; `SentInv` follows a
    message that was sent alone from its newline to the drain that returns it. A replay is a recursive function over the
    log: that there is such a function for every log, and that one more line takes the old account one event further
    (`ReplayExists`, `ReplayedAppend`), is shown with the least number in the set of lengths where it would fail. `StatusInv`
    says which messages the log may know and in which status, `ChargeInv` that no more messages count as drained than drains have
    taken: a drain's line is charged to the oldest waiting messages (`ChargeFacts`), which need not be the ones it
    took, but never to more of them (`LogDrainCharge`);
  - reindex: `ReindexEmptyRunRestores` from `ReindexInv`: as long as a run has embedded nothing, the stash holds the vectors and the
    layout that the run found;
  - reindex: `ReindexFullRunIsCurrent` from `FullInv`: in a full run that resumes from nothing, every drawer that is not waiting for its
    turn has a current vector, and while the run has the lease, what it read is what is there. The lease may be lost and
    content merged at any step; the fence at the next write is what stops the run then. Runs that resume are not covered:
    findings and observations have their counterexamples.

`LeaseRowIsNewest`, `QueueNeverInBothTables`, `AdmissionSeatsKept`, `LifeNeverTurnedAway`, `LifeCooldownFixed`, `SweepProposalAskedOnce`,
`IngestSearchable`, `BusStatusForward`, `PoolHealthyWhenServed`, `PoolCooldownLasts` and the typing theorems state properties that the runs do not repeat.

Only model-checked:

- liveness, which the prover does not handle: `LostDaemonStepsDown`, `EveryClaimEnds`, `AckedWorkSettles`,
  `Delivered`, `DaemonServes`, `SweepEnds`, `ConfigCatchesUp`, `EveryCallEnds`;
- `RoomKept`, which adds up the bytes of a file line by line: the sum is a fold over a sequence, and what a fold computes for every
  sequence needs an induction the provers cannot instantiate;
- the type invariants of the composed modules, which are conjunctions of those of their parts.

## Not modelled

The share of the implementation that a state machine can say something about is small: of some 180,000 lines, most are
request handlers and formatting of the command line, the MCP and the REST server, SQL over the drawers' tables, parsing,
scoring and text processing, and tests inside the source files. The modules cover the protocols between processes, where
the lines are few.

- Floating point, pure functions of their input or remote calls: search, reranking, context packing, embedding models,
  gating and novelty scores, decay and crystallisation.
- String processing: normalisation, chunking, privacy scrubbing, transcripts, wiki and export, fact checks.
- Single transactions or single files without a protocol: REST handlers, knowledge distilling and anchors, card
  backfill, hotpatch suggestions, hook installation and service files, metrics and diagnostics.
- Left for later, as they do keep state between steps: path leases (`runtime_leases`), the write reserve, the sleep
  scheduler, the lifecycle of knowledge drawers with its audit file, the rejudge's limited run, artifact apply journal
  and rebinding, the registries of the cowork bus and fork intents, repair and pattern signals of ingestion.
- PID reuse while something still remembers the PID: the code compares start identities where it judges a process.

What a worker does with a claimed message is reduced to completing or failing it. `PROJECT.json` gives the reason for each
component.

## Plan

1. Done: the modules and runs above; every safety property of the passing runs is a theorem, the refinement of the ledger
   included.
2. Theorems next: `RoomKept` with the bytes of a file as a set, as in `DbAdmission`, and what a resumed reindex guarantees when
   its checkpoint names one drawer and no other was written in its second.
3. Modules after that: path leases, the drawers' lifecycle with its audit file, the apply journal of the rejudge, the
   sleep scheduler.
4. Runs stay one per question: new properties of an existing instance join its run.
