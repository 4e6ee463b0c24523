--------------------------- MODULE PendingQueue ---------------------------
(***************************************************************************)
(* The durable work queue: the SQLite tables pending_messages and          *)
(* pending_message_completions, and the workers that claim rows from them. *)
(* Every enqueue, claim, completion, failure, release, heartbeat, reclaim  *)
(* and requeue is one BEGIN IMMEDIATE transaction (or one autocommit       *)
(* UPDATE), hence one action; between two of them a worker holds a         *)
(* ClaimedMessage in memory while anybody else may act on the row.         *)
(*                                                                         *)
(* Time is relative: born, due and beat are kept as distances from now,    *)
(* so Tick never runs out.  Distances into the past stop at Horizon; a     *)
(* retry count stops at RetryCap, where the backoff is at its maximum.     *)
(***************************************************************************)
EXTENDS Integers, FiniteSets

CONSTANTS
    Ids,            \* message identities (numbers: their order breaks ties)
    KindOf,         \* the queue kind is part of every identity
    PayloadsOf,     \* payloads a producer may submit under an identity
    Queried,        \* identities some client asks the status of
    Spooled,        \* identities submitted through the daemon's ingress spool
    SizeOf,         \* payload bytes
    Workers,        \* worker ids, each processing one message at a time
    Serves,         \* the kind of message a worker claims
    DaemonWorkers,  \* workers of the daemon: their stores carry its lease
    Tokens,         \* claim tokens, minted by next_id("claim")
    None,
    MaxActiveBytes, \* QueueConfig::max_ingest_active_bytes
    BaseDelay,      \* QueueConfig::base_delay_ms, in seconds
    MaxDelay,       \* QueueConfig::max_delay_ms, in seconds
    Hints,          \* delays a failing model service may ask for (retry_after)
    ClaimTtl,       \* claim_ttl_secs
    StartupTtl,     \* STARTUP_RECLAIM_STALE_SECS
    Horizon,        \* bound: how far back times are told apart
    RetryCap,       \* bound: retry counts above it behave alike
    MaxFaults       \* bound: interruptions (crash, release, lost lease...)

Kinds == {"hook", "ingest", "llm"}

ASSUME IdsAssumption == Ids \subseteq Nat /\ IsFiniteSet(Ids) /\ (Queried \cup Spooled) \subseteq Ids
ASSUME KindAssumption == KindOf \in [Ids -> Kinds] /\ Serves \in [Workers -> Kinds]
ASSUME PayloadAssumption ==
    /\ DOMAIN PayloadsOf = Ids
    /\ \A id \in Ids : \A p \in PayloadsOf[id] : SizeOf[p] \in Nat /\ p # None
\* Hook identities are drawn per payload (new_idempotency_key, next_id); only
\* a durable ingest key can come back with another payload.
ASSUME HookPayloadAssumption ==
    \A id \in Ids : KindOf[id] # "ingest" => Cardinality(PayloadsOf[id]) = 1
ASSUME WorkerAssumption == DaemonWorkers \subseteq Workers /\ None \notin Workers
ASSUME TokenAssumption == None \notin Tokens
ASSUME BoundsAssumption ==
    /\ {MaxActiveBytes, ClaimTtl, StartupTtl, Horizon, RetryCap, MaxFaults} \subseteq Nat
    /\ BaseDelay \in Nat /\ MaxDelay \in Nat /\ Hints \subseteq Nat
    /\ StartupTtl <= ClaimTtl /\ ClaimTtl <= Horizon /\ RetryCap >= 1

VARIABLES
    rows,        \* pending_messages
    completions, \* pending_message_completions
    claims,      \* the ClaimedMessage each worker holds in memory
    daemon,      \* "running", "draining" (shutdown requested) or "stopped"
    leaseOk,     \* the daemon's lifecycle writer lease is in force
    acked,       \* payloads a producer was told are queued, by identity
    query,       \* an operation_status call between its two lookups
    faults       \* interruptions so far

vars == <<rows, completions, claims, daemon, leaseOk, acked, query, faults>>

Payloads == UNION {PayloadsOf[id] : id \in Ids}

----------------------------------------------------------------------------
\* Rows.

NoRow == [st |-> "none", pay |-> None, born |-> 0, due |-> 0, retry |-> 0,
          class |-> "none", owner |-> None, tok |-> None, beat |-> 0]

PendingRow(pay, born, due, retry) ==
    [st |-> "pending", pay |-> pay, born |-> born, due |-> due, retry |-> retry,
     class |-> "none", owner |-> None, tok |-> None, beat |-> 0]

ClaimedRow(r, w, t, beat) ==
    [st |-> "claimed", pay |-> r.pay, born |-> r.born, due |-> r.due, retry |-> r.retry,
     class |-> "none", owner |-> w, tok |-> t, beat |-> beat]

FailedRow(r, retry, class) ==
    [st |-> "failed", pay |-> r.pay, born |-> r.born, due |-> 0, retry |-> retry,
     class |-> class, owner |-> None, tok |-> None, beat |-> 0]

NoCompletion == [outcome |-> "none", pay |-> None]
NoClaim == [id |-> None, tok |-> None, pay |-> None]
NoQuery == [id |-> None, known |-> FALSE, answer |-> "none"]

Exists(id) == rows[id].st # "none" \/ completions[id].outcome # "none"

\* The bytes of the ingest messages among S, one by one.
Bytes(rs, S) == UNION {{id} \X (1..SizeOf[rs[id].pay]) : id \in {o \in S : KindOf[o] = "ingest"}}

\* How many the pending or claimed ingest rows have.
ActiveIn(rs) == {id \in Ids : rs[id].st \in {"pending", "claimed"}}
ActiveBytes(rs) == Cardinality(Bytes(rs, ActiveIn(rs)))

\* Silent claims are left alone.
MutReclaimNone(rs, age) == rs
\* Claims without a heartbeat for more than age seconds go back to pending,
\* at the place in the queue they had.
Reclaimed(rs, age) ==
    [id \in Ids |-> IF rs[id].st = "claimed" /\ rs[id].beat > age
                    THEN PendingRow(rs[id].pay, rs[id].born, rs[id].due, rs[id].retry)
                    ELSE rs[id]]

BackoffOf(retry) ==
    LET doubled == BaseDelay * 2^(retry - 1)
    IN  IF doubled \in 0..MaxDelay THEN doubled ELSE MaxDelay

----------------------------------------------------------------------------
\* Producers.

Insert(id, p) == rows' = [rows EXCEPT ![id] = PendingRow(p, 0, 0, 0)]

\* The stored work under an identity: the row if there is one, else the completion.
StoredPayload(id) == IF rows[id].st # "none" THEN rows[id].pay ELSE completions[id].pay

\* explicit_key_conflicts: the identity names other work.  A key minted for
\* one payload (Fresh, SourceHash, a hook's key) never conflicts.
KeyConflicts(id, p) == Exists(id) /\ StoredPayload(id) # p

FitsBudget(p) ==
    /\ SizeOf[p] <= MaxActiveBytes
    /\ ActiveBytes(rows) <= MaxActiveBytes - SizeOf[p]

\* An insert that only looks for a live row and not for a completion.
MutEnqueue(id, p) ==
    /\ ~KeyConflicts(id, p)
    /\ acked' = [acked EXCEPT ![id] = @ \cup {p}]
    /\ IF rows[id].st # "none" THEN UNCHANGED rows
       ELSE (KindOf[id] = "ingest" => FitsBudget(p)) /\ Insert(id, p)
    /\ UNCHANGED <<completions, claims, daemon, leaseOk, query, faults>>
\* An accepted enqueue; a conflicting or oversized one is an error that
\* changes neither table, and the producer may call again.
Enqueue(id, p) ==
    /\ ~KeyConflicts(id, p)
    /\ acked' = [acked EXCEPT ![id] = @ \cup {p}]
    /\ IF Exists(id) THEN UNCHANGED rows
       ELSE (KindOf[id] = "ingest" => FitsBudget(p)) /\ Insert(id, p)
    /\ UNCHANGED <<completions, claims, daemon, leaseOk, query, faults>>

\* enqueue_idempotent_with_key_fail_fast_fenced: the daemon moves a record of
\* its ingress spool into the queue.  This path charges no byte budget.
EnqueueSpooled(id, p) ==
    /\ daemon # "stopped" /\ leaseOk
    /\ ~KeyConflicts(id, p)
    /\ acked' = [acked EXCEPT ![id] = @ \cup {p}]
    /\ IF Exists(id) THEN UNCHANGED rows ELSE Insert(id, p)
    /\ UNCHANGED <<completions, claims, daemon, leaseOk, query, faults>>

\* operation_status looks in one table and then, in a second statement that
\* sees a later snapshot, in the other.
InTable(t, id) == IF t = "pending" THEN rows[id].st # "none"
                                   ELSE completions[id].outcome # "none"
\* The completion table first.
MutLookupOrder == <<"completions", "pending">>
LookupOrder == <<"pending", "completions">>

StatusFirst(id) ==
    /\ query.id = None
    /\ query' = [id |-> id, known |-> acked[id] # {},
                 answer |-> IF InTable(LookupOrder[1], id) THEN "found" ELSE "none"]
    /\ UNCHANGED <<rows, completions, claims, daemon, leaseOk, acked, faults>>

StatusSecond ==
    /\ query.id # None /\ query.answer = "none"
    /\ query' = [id |-> query.id, known |-> query.known,
                 answer |-> IF InTable(LookupOrder[2], query.id) THEN "found" ELSE "missing"]
    /\ UNCHANGED <<rows, completions, claims, daemon, leaseOk, acked, faults>>

StatusReturn ==
    /\ query.answer # "none"
    /\ query' = NoQuery
    /\ UNCHANGED <<rows, completions, claims, daemon, leaseOk, acked, faults>>

----------------------------------------------------------------------------
\* Workers.

\* require_lifecycle_writer_lease: only the daemon's stores carry a lease.
LeaseInForce(w) == w \in DaemonWorkers => leaseOk
WorkerUp(w) == w \in DaemonWorkers => daemon = "running"

\* Only messages that never failed are served.
MutDue(rs, id) == rs[id].st = "pending" /\ rs[id].due <= 0 /\ rs[id].retry = 0
Due(rs, id) == rs[id].st = "pending" /\ rs[id].due <= 0
\* ORDER BY next_attempt_at ASC, id ASC
Before(rs, a, b) == rs[a].due < rs[b].due \/ (rs[a].due = rs[b].due /\ a < b)
HeadOf(rs, kind) ==
    {id \in Ids : /\ Due(rs, id) /\ KindOf[id] = kind
                  /\ \A o \in Ids \ {id} : Due(rs, o) /\ KindOf[o] = kind => Before(rs, id, o)}

TokensInUse == {rows[id].tok : id \in Ids} \cup {claims[w].tok : w \in Workers}
\* A token that only tells workers apart.
MutMint(w) == CHOOSE t \in Tokens : TRUE
\* next_id: a token nobody holds or remembers.
MintToken(w) == CHOOSE t \in Tokens : t \notin TokensInUse

\* Take row id of rs (the table after the reclaim at the start of the claim).
TakeRow(rs, w, id) ==
    /\ rows' = [rs EXCEPT ![id] = ClaimedRow(rs[id], w, MintToken(w), 0)]
    /\ claims' = [claims EXCEPT ![w] = [id |-> id, tok |-> MintToken(w), pay |-> rs[id].pay]]

CanClaim(w) == WorkerUp(w) /\ claims[w] = NoClaim /\ Tokens \ TokensInUse # {}

\* claim_next: the hook worker's claim, not fenced by the lease; it serves
\* every kind without a dedicated worker.
ClaimNext(w) ==
    /\ CanClaim(w) /\ Serves[w] = "hook"
    /\ LET rs == Reclaimed(rows, ClaimTtl)
       IN  \/ \E id \in HeadOf(rs, "hook") : TakeRow(rs, w, id)
           \/ HeadOf(rs, "hook") = {} /\ rows' = rs /\ UNCHANGED claims
    /\ UNCHANGED <<completions, daemon, leaseOk, acked, query, faults>>

\* claim_next_by_kind: ingest and llm workers, fenced.
ClaimByKind(w) ==
    /\ CanClaim(w) /\ Serves[w] # "hook" /\ LeaseInForce(w)
    /\ LET rs == Reclaimed(rows, ClaimTtl)
       IN  \/ \E id \in HeadOf(rs, Serves[w]) : TakeRow(rs, w, id)
           \/ HeadOf(rs, Serves[w]) = {} /\ rows' = rs /\ UNCHANGED claims
    /\ UNCHANGED <<completions, daemon, leaseOk, acked, query, faults>>

\* claim_by_id_and_kind: the caller that waits for its own operation.
ClaimById(w, id) ==
    /\ CanClaim(w) /\ Serves[w] = "ingest" /\ LeaseInForce(w)
    /\ KindOf[id] = "ingest"
    /\ LET rs == Reclaimed(rows, ClaimTtl)
       IN  \/ Due(rs, id) /\ TakeRow(rs, w, id)
           \/ ~Due(rs, id) /\ rows' = rs /\ UNCHANGED claims
    /\ UNCHANGED <<completions, daemon, leaseOk, acked, query, faults>>

\* The token is not compared.
MutOwnsClaim(w, id) == id # None /\ rows[id].st = "claimed"
\* WHERE id = ? AND status = 'claimed' AND claim_token = ?
OwnsClaim(w, id) ==
    id # None /\ rows[id].st = "claimed" /\ rows[id].tok = claims[w].tok

\* claim_token LIKE 'worker:%': any claim of this worker on that message.
HeartbeatMatches(w, id) == rows[id].st = "claimed" /\ rows[id].owner = w

Holding(w) == claims[w].id \in Ids
Done(w) == claims' = [claims EXCEPT ![w] = NoClaim]
MayFinalize(w) == Holding(w) /\ LeaseInForce(w) /\ OwnsClaim(w, claims[w].id)

\* confirm and complete_operation (confirm_in_tx): record the outcome and
\* delete the row in one transaction.  An upsert keeps the stored source hash.
CompletionOf(w) ==
    LET id == claims[w].id
    IN  [outcome |-> "completed",
         pay |-> IF completions[id].outcome = "none" THEN claims[w].pay ELSE completions[id].pay]
\* The row is deleted without its completion.
MutComplete(w) ==
    /\ MayFinalize(w)
    /\ rows' = [rows EXCEPT ![claims[w].id] = NoRow]
    /\ Done(w)
    /\ UNCHANGED <<completions, daemon, leaseOk, acked, query, faults>>
Complete(w) ==
    /\ MayFinalize(w)
    /\ completions' = [completions EXCEPT ![claims[w].id] = CompletionOf(w)]
    /\ rows' = [rows EXCEPT ![claims[w].id] = NoRow]
    /\ Done(w)
    /\ UNCHANGED <<daemon, leaseOk, acked, query, faults>>

NextRetry(r) == IF r.retry < RetryCap THEN r.retry + 1 ELSE RetryCap

\* Retryable backs off, RetryableAfter waits as long as the service asked for.
RetryDelays(r) == {BackoffOf(NextRetry(r))} \cup Hints

\* mark_failed_with_disposition(Retryable or RetryableAfter)
FailRetryable(w) ==
    /\ MayFinalize(w)
    /\ LET id == claims[w].id
           r == rows[id]
       IN  \E delay \in RetryDelays(r) :
              rows' = [rows EXCEPT ![id] = PendingRow(r.pay, r.born, delay, NextRetry(r))]
    /\ Done(w)
    /\ UNCHANGED <<completions, daemon, leaseOk, acked, query, faults>>

\* mark_failed_with_disposition(Terminal)
FailTerminal(w) ==
    /\ MayFinalize(w)
    /\ LET id == claims[w].id
       IN  rows' = [rows EXCEPT ![id] = FailedRow(rows[id], NextRetry(rows[id]), "terminal")]
    /\ Done(w)
    /\ UNCHANGED <<completions, daemon, leaseOk, acked, query, faults>>

\* A row put back as it was: same place, same attempts.
ReleasedRow(r) == PendingRow(r.pay, r.born, r.due, r.retry)

\* release_claim: back to pending, same place, nothing charged.
ReleaseClaim(w) ==
    /\ MayFinalize(w) /\ faults < MaxFaults
    /\ LET id == claims[w].id IN rows' = [rows EXCEPT ![id] = ReleasedRow(rows[id])]
    /\ Done(w)
    /\ faults' = faults + 1
    /\ UNCHANGED <<completions, daemon, leaseOk, acked, query>>

\* claim_miss_error or RuntimeWriterLeaseLost: the worker drops the message.
FinalizeRefused(w) ==
    /\ Holding(w) /\ ~MayFinalize(w)
    /\ Done(w)
    /\ UNCHANGED <<rows, completions, daemon, leaseOk, acked, query, faults>>

\* A finalizer that finds the database locked: the worker drops the message all the
\* same, and its claim stays until it is reclaimed.
FinalizeFails(w) ==
    /\ Holding(w) /\ faults < MaxFaults
    /\ Done(w)
    /\ faults' = faults + 1
    /\ UNCHANGED <<rows, completions, daemon, leaseOk, acked, query>>

\* refresh_heartbeat
RefreshHeartbeat(w) ==
    /\ Holding(w) /\ LeaseInForce(w)
    /\ LET id == claims[w].id
       IN  /\ HeartbeatMatches(w, id)
           /\ rows' = [rows EXCEPT ![id] = ClaimedRow(rows[id], w, rows[id].tok, 0)]
    /\ UNCHANGED <<completions, claims, daemon, leaseOk, acked, query, faults>>

----------------------------------------------------------------------------
\* Maintenance, daemon life cycle and time.

\* PendingMessageStore::new, in any process: claims silent for StartupTtl.
StartupReclaim ==
    /\ rows' = Reclaimed(rows, StartupTtl)
    /\ UNCHANGED <<completions, claims, daemon, leaseOk, acked, query, faults>>

\* mark_model_task_failed_retryable: by id alone, whoever holds the claim.
MarkModelTaskFailed(id) ==
    /\ rows[id].st # "none" /\ faults < MaxFaults
    /\ rows' = [rows EXCEPT ![id] = FailedRow(rows[id], 0, "retryable_model")]
    /\ faults' = faults + 1
    /\ UNCHANGED <<completions, claims, daemon, leaseOk, acked, query>>

\* Requeued rows keep their original place: next_attempt_at = created_at.
RequeueRows(A) ==
    rows' = [id \in Ids |-> IF id \in A THEN PendingRow(rows[id].pay, rows[id].born, rows[id].born, 0)
                                        ELSE rows[id]]
BytesOf(S) == Cardinality(Bytes(rows, S))
\* max_ingest_active_bytes.saturating_sub(used)
RoomBeside(used) == IF used <= MaxActiveBytes THEN MaxActiveBytes - used ELSE 0
\* The running total of the pass is forgotten.
MutFitsBeside(id, S) ==
    KindOf[id] = "ingest" => SizeOf[rows[id].pay] <= RoomBeside(ActiveBytes(rows))
\* Does message id still fit once the messages in S are active again?
FitsBeside(id, S) ==
    KindOf[id] = "ingest" =>
        SizeOf[rows[id].pay] <= RoomBeside(ActiveBytes(rows) + BytesOf(S))

\* requeue_failed_model_tasks: oldest first, skipping what does not fit.
OlderFailed(a, b) == rows[a].born < rows[b].born \/ (rows[a].born = rows[b].born /\ a < b)
AutoRequeue(family) ==
    LET candidates == {id \in Ids : /\ rows[id].st = "failed"
                                    /\ rows[id].class = "retryable_model"
                                    /\ (KindOf[id] = "llm") = (family = "llm")}
    IN  /\ candidates # {}
        /\ \E A \in SUBSET candidates :
              /\ \A id \in candidates :
                    (id \in A) = FitsBeside(id, {o \in A : OlderFailed(o, id)})
              /\ RequeueRows(A)
        /\ UNCHANGED <<completions, claims, daemon, leaseOk, acked, query, faults>>

\* retry_failed_messages over the failed rows a filter selects; the rows come
\* in no particular order, so any maximal set that fits may be the result.
RetryFailed(selected) ==
    /\ selected # {} /\ \A id \in selected : rows[id].st = "failed"
    /\ \E A \in SUBSET selected :
          /\ \A id \in A : FitsBeside(id, A \ {id})
          /\ \A id \in selected \ A : ~FitsBeside(id, A)
          /\ RequeueRows(A)
    /\ UNCHANGED <<completions, claims, daemon, leaseOk, acked, query, faults>>

\* archive_failed_messages: the failed row becomes a failed completion.
ArchiveFailed(selected) ==
    /\ selected # {} /\ \A id \in selected : rows[id].st = "failed"
    /\ completions' = [id \in Ids |-> IF id \in selected
                                      THEN [outcome |-> "archived", pay |-> rows[id].pay]
                                      ELSE completions[id]]
    /\ rows' = [id \in Ids |-> IF id \in selected THEN NoRow ELSE rows[id]]
    /\ UNCHANGED <<claims, daemon, leaseOk, acked, query, faults>>

\* The daemon's lease is taken over or expires (module WriterLease).
LeaseLost ==
    /\ daemon # "stopped" /\ leaseOk /\ faults < MaxFaults
    /\ leaseOk' = FALSE
    /\ faults' = faults + 1
    /\ UNCHANGED <<rows, completions, claims, daemon, acked, query>>

\* A stop signal, or the daemon steps down because its lease is gone.
BeginShutdown ==
    /\ daemon = "running"
    /\ daemon' = "draining"
    /\ \/ ~leaseOk /\ UNCHANGED faults
       \/ leaseOk /\ faults < MaxFaults /\ faults' = faults + 1
    /\ UNCHANGED <<rows, completions, claims, leaseOk, acked, query>>

\* Past the drain budget a worker task is aborted with its claim in hand.
AbortWorker(w) ==
    /\ daemon = "draining" /\ w \in DaemonWorkers /\ Holding(w)
    /\ Done(w)
    /\ UNCHANGED <<rows, completions, daemon, leaseOk, acked, query, faults>>

\* ApprovedClaimOwner dropped before the hand-over: released without the lease.
CancelledClaimReleased(w) ==
    /\ daemon = "draining" /\ w \in DaemonWorkers /\ Serves[w] = "ingest"
    /\ Holding(w) /\ OwnsClaim(w, claims[w].id)
    /\ LET id == claims[w].id IN rows' = [rows EXCEPT ![id] = ReleasedRow(rows[id])]
    /\ Done(w)
    /\ UNCHANGED <<completions, daemon, leaseOk, acked, query, faults>>

\* The last step of the daemon's shutdown: reclaim_stale(0).  An llm worker
\* that outlasts the drain deadline is not aborted but left running.
ShutdownReclaim ==
    /\ daemon = "draining"
    /\ \A w \in DaemonWorkers : claims[w] = NoClaim \/ Serves[w] = "llm"
    /\ rows' = Reclaimed(rows, 0)
    /\ daemon' = "stopped"
    /\ UNCHANGED <<completions, claims, leaseOk, acked, query, faults>>

\* The daemon process dies: its workers' memory is gone, their rows stay.
DaemonCrash ==
    /\ daemon # "stopped" /\ faults < MaxFaults
    /\ daemon' = "stopped"
    /\ claims' = [w \in Workers |-> IF w \in DaemonWorkers THEN NoClaim ELSE claims[w]]
    /\ faults' = faults + 1
    /\ UNCHANGED <<rows, completions, leaseOk, acked, query>>

\* A standalone worker (an MCP server) dies and comes back.
WorkerCrash(w) ==
    /\ w \notin DaemonWorkers /\ Holding(w) /\ faults < MaxFaults
    /\ Done(w)
    /\ faults' = faults + 1
    /\ UNCHANGED <<rows, completions, daemon, leaseOk, acked, query>>

\* Daemon start under a new lease, by a new process: open the store (startup reclaim) and make
\* hook work that failed on the previous daemon's lost lease runnable at once.
DaemonStart ==
    /\ daemon = "stopped"
    /\ LET rs == Reclaimed(rows, StartupTtl)
       IN  \E S \in SUBSET {id \in Ids : /\ rs[id].st = "pending" /\ KindOf[id] = "hook"
                                         /\ rs[id].retry > 0} :
              rows' = [id \in Ids |-> IF id \in S
                                      THEN PendingRow(rs[id].pay, rs[id].born, rs[id].born, 0)
                                      ELSE rs[id]]
    /\ daemon' = "running"
    /\ leaseOk' = TRUE
    /\ claims' = [w \in Workers |-> IF w \in DaemonWorkers THEN NoClaim ELSE claims[w]]
    /\ UNCHANGED <<completions, acked, query, faults>>

Earlier(t) == IF t > -Horizon THEN t - 1 ELSE t
Later(t) == IF t < Horizon + 1 THEN t + 1 ELSE t
Aged(r) ==
    IF r.st = "none" THEN r
    ELSE [st |-> r.st, pay |-> r.pay, born |-> Earlier(r.born), due |-> Earlier(r.due),
          retry |-> r.retry, class |-> r.class, owner |-> r.owner, tok |-> r.tok,
          beat |-> IF r.st = "claimed" THEN Later(r.beat) ELSE r.beat]
Tick ==
    /\ rows' = [id \in Ids |-> Aged(rows[id])]
    /\ UNCHANGED <<completions, claims, daemon, leaseOk, acked, query, faults>>

----------------------------------------------------------------------------
Init ==
    /\ rows = [id \in Ids |-> NoRow]
    /\ completions = [id \in Ids |-> NoCompletion]
    /\ claims = [w \in Workers |-> NoClaim]
    /\ daemon = "stopped"
    /\ leaseOk = FALSE
    /\ acked = [id \in Ids |-> {}]
    /\ query = NoQuery
    /\ faults = 0

WorkerStep(w) ==
    \/ ClaimNext(w) \/ ClaimByKind(w) \/ \E id \in Ids : ClaimById(w, id)
    \/ Complete(w) \/ FailRetryable(w) \/ FailTerminal(w) \/ ReleaseClaim(w)
    \/ FinalizeRefused(w) \/ FinalizeFails(w) \/ RefreshHeartbeat(w)
    \/ AbortWorker(w) \/ CancelledClaimReleased(w) \/ WorkerCrash(w)

Next ==
    \/ \E id \in Ids : \E p \in PayloadsOf[id] : Enqueue(id, p)
    \/ \E id \in Spooled : \E p \in PayloadsOf[id] : EnqueueSpooled(id, p)
    \/ (\E id \in Queried : StatusFirst(id)) \/ StatusSecond \/ StatusReturn
    \/ \E w \in Workers : WorkerStep(w)
    \/ StartupReclaim
    \/ \E id \in Ids : MarkModelTaskFailed(id)
    \/ \E family \in {"embedding", "llm"} : AutoRequeue(family)
    \/ \E S \in SUBSET Ids : RetryFailed(S) \/ ArchiveFailed(S)
    \/ LeaseLost \/ BeginShutdown \/ ShutdownReclaim \/ DaemonCrash \/ DaemonStart
    \/ Tick

Spec == Init /\ [][Next]_vars

Finalize(w) == Complete(w) \/ FailRetryable(w) \/ FailTerminal(w) \/ FinalizeRefused(w)

\* The clock runs, workers poll and finish what they hold, a lease loss stops
\* the daemon and a supervisor restarts it.
FairSpec ==
    /\ Spec
    /\ WF_vars(Tick)
    /\ \A w \in Workers : /\ WF_vars(ClaimNext(w)) /\ WF_vars(ClaimByKind(w))
                          /\ WF_vars(Finalize(w)) /\ SF_vars(Complete(w))
    /\ WF_vars(~leaseOk /\ BeginShutdown) /\ WF_vars(ShutdownReclaim) /\ WF_vars(DaemonStart)

----------------------------------------------------------------------------
\* The queue as module WorkLedger sees it.
LedgerState(id) ==
    IF rows[id].st = "none"
    THEN IF completions[id].outcome = "none" THEN "new" ELSE completions[id].outcome
    ELSE IF rows[id].st = "failed" THEN "failed" ELSE "open"

Ledger == INSTANCE WorkLedger WITH
    state   <- [id \in Ids |-> LedgerState(id)],
    payload <- [id \in Ids |-> StoredPayload(id)],
    holder  <- [id \in Ids |-> rows[id].owner]

----------------------------------------------------------------------------
RowType ==
    [st : {"none", "pending", "claimed", "failed"}, pay : Payloads \cup {None},
     born : Int, due : Int, retry : Nat, class : {"none", "terminal", "retryable_model"},
     owner : Workers \cup {None}, tok : Tokens \cup {None}, beat : Nat]

\* Types of the two tables, of the workers' claims and of the daemon; ages and
\* retry counts never go below zero (pending_messages, ClaimedMessage).
TypeOK ==
    /\ rows \in [Ids -> RowType]
    /\ completions \in [Ids -> [outcome : {"none", "completed", "archived"},
                                pay : Payloads \cup {None}]]
    /\ claims \in [Workers -> [id : Ids \cup {None}, tok : Tokens \cup {None},
                               pay : Payloads \cup {None}]]
    /\ daemon \in {"running", "draining", "stopped"}
    /\ leaseOk \in BOOLEAN
    /\ acked \in [Ids -> SUBSET Payloads]
    /\ query \in [id : Ids \cup {None}, known : BOOLEAN,
                  answer : {"none", "found", "missing"}]
    /\ faults \in Nat

\* Work a producer was told is queued stays in exactly one of the two tables
\* with the payload it was accepted for: no crash, reclaim, failure, requeue or
\* archive loses it, and no second payload was accepted under its key.
AckedWorkIsKept ==
    \A id \in Ids : acked[id] # {} => Exists(id) /\ acked[id] = {StoredPayload(id)}

\* Finished work is never queued again: an identity is not in both tables, so a
\* producer that retries an enqueue after the completion runs nothing twice.
NeverInBothTables ==
    \A id \in Ids : rows[id].st = "none" \/ completions[id].outcome = "none"

\* A recorded completion is final; a late finalizer cannot rewrite it.
CompletionIsFinal ==
    [][\A id \in Ids : completions[id].outcome # "none"
                          => completions'[id] = completions[id]]_vars

\* The two tables, the claims and every failure, retry, reclaim, restart and
\* archive implement the ledger: one payload per identity, completed only out of
\* somebody's hands and archived only out of failure, settled for good.
ImplementsLedger == Ledger!LedgerSpec

\* At most one worker can finalize a message, and it is the one the row names,
\* although workers that lost their claim still hold it in memory.
OneOwner ==
    \A id \in Ids : \A v, w \in Workers :
        /\ OwnsClaim(v, id) /\ OwnsClaim(w, id) => v = w
        /\ OwnsClaim(w, id) => rows[id].owner = w /\ claims[w].id = id

\* A claim that was heard of within StartupTtl ends only when its own worker
\* finishes with it, when the daemon shuts down, or when the message is failed by
\* id: a worker with a stale claim never touches its successor's.
ClaimEnds(id) == rows[id].st = "claimed" /\ rows'[id].tok # rows[id].tok
FinishedBy(w, id) == claims[w].tok = rows[id].tok /\ claims'[w] = NoClaim
Shutdown == daemon = "draining" /\ daemon' = "stopped" /\ faults' = faults
HeartbeatKeepsClaim ==
    [][\A id \in Ids : ClaimEnds(id) =>
          \/ rows[id].beat > StartupTtl
          \/ \E w \in Workers : FinishedBy(w, id)
          \/ Shutdown
          \/ rows'[id].class = "retryable_model"]_vars

\* Pending and claimed ingest payloads stay within max_ingest_active_bytes,
\* whatever mix of admissions, failures, requeues and retries got there.
BudgetRespected == ActiveBytes(rows) <= MaxActiveBytes

\* operation_status of work that was acknowledged before the call always finds
\* it, also when it completes between the two lookups.
StatusNeverMissing == query.known => query.answer # "missing"

\* No claim lasts forever: its worker finishes, or dies and is reclaimed.
EveryClaimEnds ==
    \A id \in Ids : \A t \in Tokens : rows[id].tok = t ~> rows[id].tok # t

\* Acknowledged work is settled in the end, through crashes, lost leases,
\* retries and restarts, provided attempts do not fail forever.
AckedWorkSettles ==
    \A id \in Ids : acked[id] # {} ~>
        completions[id].outcome # "none" \/ rows[id].st = "failed"

\* "Release any tasks still claimed by workers that were aborted or did not
\* finish": after the shutdown reclaim no row is claimed by a daemon worker.
ShutdownReleasesClaims ==
    [][Shutdown => \A id \in Ids : rows'[id].owner \notin DaemonWorkers]_vars

\* The same sentence read the other way: a worker that was not aborted, one of
\* another process that is still processing, keeps its claim.
ShutdownSparesOtherWorkers ==
    [][Shutdown => \A w \in Workers \ DaemonWorkers :
          Holding(w) /\ OwnsClaim(w, claims[w].id)
             => rows'[claims[w].id].tok = claims[w].tok]_vars
=============================================================================
