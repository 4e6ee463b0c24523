---------------------------- MODULE IngressSpool ----------------------------
(***************************************************************************)
(* The ingress spool and the hook IPC around it: ingress_spool.rs,         *)
(* hook.rs, hook_ipc.rs, daemon/self_heal.rs and the admission of          *)
(* mcp/server.rs.  A capture reaches the queue of module PendingQueue in   *)
(* one of three ways: through the daemon, which fsyncs it into a spool     *)
(* file before it answers and drains the spool later; by a direct enqueue  *)
(* of the client; or, for hooks, through a spool file of the client's own. *)
(*                                                                         *)
(* A record file is `<hash of kind and key>.json`, becomes `.claim` while  *)
(* the drain task works on it, and `.quarantine` when the queue refuses    *)
(* it.  Directory entries reach the disk at the directory's fsync: maybe   *)
(* is what a power loss may leave of a key's files.                        *)
(***************************************************************************)
EXTENDS FiniteSets, Integers

CONSTANTS
    Captures,   \* the submissions of the clients
    Keys,       \* message identities (kind and idempotency key)
    KeyOf,      \* the identity a capture is submitted under
    FreshOf,    \* the identity of a fallback that was certainly not delivered
    PayloadOf,  \* the content of a capture
    ClassOf,    \* "hook", "mcp" (generated key), "keyed" (caller's operation
                \* key) or "direct" (durable REST admission)
    MaxFiles,   \* max_bytes, in records of one size
    Faults      \* which of "timeout", "busy", "io", "kill", "power" happen

None == "none"
Payloads == {PayloadOf[c] : c \in Captures}
Content == Payloads \cup {None}

ASSUME SpoolAssumption ==
    /\ KeyOf \in [Captures -> Keys] /\ FreshOf \in [Captures -> Keys]
    /\ ClassOf \in [Captures -> {"hook", "mcp", "keyed", "direct"}]
    /\ None \notin Payloads
    /\ MaxFiles \in Nat
    \* new_idempotency_key and the generated mcp keys are unique
    /\ \A c, d \in Captures : c # d /\ ClassOf[c] \in {"hook", "mcp"} =>
          {KeyOf[c], FreshOf[c]} \cap {KeyOf[d], FreshOf[d]} = {}
    /\ \A c \in Captures : (FreshOf[c] # KeyOf[c]) <=> (ClassOf[c] = "hook")

VARIABLES
    client,     \* where each capture's client stands
    app,        \* append calls: the daemon's handlers and the hooks' own
    disk,       \* the files of every key
    maybe,      \* the files of every key a power loss may leave
    junk,       \* temporary files of writers that died
    queue,      \* the payload queued (or completed) under every key
    safe,       \* the keys whose commit has reached the disk
    committed,  \* every <<key, payload>> ever committed (history)
    rest,       \* captures the daemon's REST server has ingested
    daemon,     \* whether the daemon runs
    drain       \* the drain task

vars == <<client, app, disk, maybe, junk, queue, safe, committed, rest,
          daemon, drain>>

tables == <<queue, safe, committed>>
files == <<disk, maybe, junk>>

Writers == {"daemon", "hook"}
Phases == {"none", "queued", "look", "look2", "pick", "readJson", "readClaim",
           "write", "ok", "uncertain", "rejected"}
Files == [json : Content, claim : Content, parked : SUBSET Payloads]
NoFiles == [json |-> None, claim |-> None, parked |-> {}]
DrainIdle == [pc |-> "idle", todo |-> {}, key |-> None, payload |-> None]

Init ==
    /\ client = [c \in Captures |-> "idle"]
    /\ app = [w \in Writers |-> [c \in Captures |-> "none"]]
    /\ disk = [k \in Keys |-> NoFiles]
    /\ maybe = [k \in Keys |-> {NoFiles}]
    /\ junk = 0
    /\ queue = [k \in Keys |-> None]
    /\ safe = {}
    /\ committed = {}
    /\ rest = {}
    /\ daemon = TRUE
    /\ drain = DrainIdle

-----------------------------------------------------------------------------
\* Files and directory entries.

\* The files of a spool: whose, of which kind and with what in them.
Entries(d) ==
    {e \in Keys \X {"json", "claim", "parked"} \X Payloads :
        \/ e[2] = "json" /\ d[e[1]].json = e[3]
        \/ e[2] = "claim" /\ d[e[1]].claim = e[3]
        \/ e[2] = "parked" /\ e[3] \in d[e[1]].parked}

\* spool_bytes: records, claims, quarantined records and temporary files.
SpoolFiles == Cardinality(Entries(disk)) + junk

\* sync_spool_namespace: the directory's entries are on the disk.
Synced(d) == [k \in Keys |-> {d[k]}]

\* A change of the entries of k that was not synced.
Unsynced(k, f) == [maybe EXCEPT ![k] = @ \cup {f}]

\* Change the files of k and sync the directory.
PutSynced(k, f) ==
    LET d == [disk EXCEPT ![k] = f]
    IN  disk' = d /\ maybe' = Synced(d)

\* The same with a failing sync.
PutUnsynced(k, f) ==
    /\ "io" \in Faults
    /\ disk' = [disk EXCEPT ![k] = f]
    /\ maybe' = Unsynced(k, f)

-----------------------------------------------------------------------------
\* The clients.

\* The key the client's own fallback uses.
FallbackId(c) ==
    IF client[c] \in {"fresh", "spoolFresh"} THEN FreshOf[c] ELSE KeyOf[c]

\* may_have_reached_daemon: whether a failed hook IPC call may still be
\* delivered.
MutMayHaveReached(reason) == reason = "uncertain"
MayHaveReached(reason) == reason \in {"timeout", "uncertain"}

\* The fallback a failed call leads to.
Fallback(reason) == IF MayHaveReached(reason) THEN "keyed" ELSE "fresh"

\* The request is written to the daemon's socket.
Submit(c) ==
    /\ client[c] = "idle" /\ ClassOf[c] # "direct" /\ daemon
    /\ client' = [client EXCEPT ![c] = "waiting"]
    /\ app' = [app EXCEPT !["daemon"][c] = "queued"]
    /\ UNCHANGED <<files, tables, rest, daemon, drain>>

\* The socket is missing or the connection is refused, or the request does
\* not go through the hook IPC at all.
Unavailable(c) ==
    /\ client[c] = "idle" /\ (ClassOf[c] = "direct" \/ ~daemon)
    /\ client' = [client EXCEPT ![c] = Fallback("unavailable")]
    /\ UNCHANGED <<app, files, tables, rest, daemon, drain>>

\* The handler's answer; nobody reads it when the client has given up.
Answer(c) ==
    /\ app["daemon"][c] \in {"ok", "uncertain", "rejected"}
    /\ client' = [client EXCEPT ![c] =
                    IF @ # "waiting" THEN @
                    ELSE IF app["daemon"][c] = "ok" THEN "accepted"
                    ELSE Fallback(app["daemon"][c])]
    /\ app' = [app EXCEPT !["daemon"][c] = "none"]
    /\ UNCHANGED <<files, tables, rest, daemon, drain>>

\* The call times out, or the daemon closed the connection.  A request that
\* was not read yet may or may not be read later.
GiveUp(c) ==
    /\ client[c] = "waiting"
    /\ "timeout" \in Faults \/ app["daemon"][c] = "none"
    /\ client' = [client EXCEPT ![c] = Fallback("timeout")]
    /\ \/ app' = app
       \/ /\ app["daemon"][c] = "queued"
          /\ app' = [app EXCEPT !["daemon"][c] = "none"]
    /\ UNCHANGED <<files, tables, rest, daemon, drain>>

\* daemon_admitted_operation_is_visible: an MCP client with an uncertain
\* delivery looks whether the operation is in the queue; a lookup that runs
\* out of time counts as not visible.
CheckVisible(c) ==
    /\ client[c] = "keyed" /\ ClassOf[c] # "hook"
    /\ \/ /\ queue[KeyOf[c]] # None
          /\ client' = [client EXCEPT ![c] = "visible"]
       \/ /\ queue[KeyOf[c]] = None \/ "timeout" \in Faults
          /\ client' = [client EXCEPT ![c] = "unseen"]
    /\ UNCHANGED <<app, files, tables, rest, daemon, drain>>

\* Clients that are about to enqueue themselves.
AtQueue(c) ==
    client[c] \in {"fresh"} \cup (IF ClassOf[c] = "hook" THEN {"keyed"} ELSE {"unseen"})

\* Commit payload p under key k.  The queue keeps what it has.
Commit(k, p) ==
    /\ queue' = [queue EXCEPT ![k] = IF @ = None THEN p ELSE @]
    /\ committed' = committed \cup {<<k, p>>}
    /\ UNCHANGED safe

\* The direct enqueue of a fallback: Accepted, or refused for its key.
LocalEnqueue(c) ==
    /\ AtQueue(c)
    /\ \/ /\ queue[FallbackId(c)] \in {None, PayloadOf[c]}
          /\ Commit(FallbackId(c), PayloadOf[c])
          /\ client' = [client EXCEPT ![c] = "accepted"]
       \/ /\ queue[FallbackId(c)] \notin {None, PayloadOf[c]}
          /\ client' = [client EXCEPT ![c] = "failed"]
          /\ UNCHANGED tables
    /\ UNCHANGED <<app, files, rest, daemon, drain>>

\* The database is locked or cannot be opened: a hook turns to the spool, an
\* MCP client that was uncertain looks once more and reports an error else.
LocalEnqueueFails(c) ==
    /\ "busy" \in Faults /\ AtQueue(c)
    /\ \/ /\ ClassOf[c] = "hook"
          /\ client' = [client EXCEPT ![c] = IF @ = "fresh" THEN "spoolFresh" ELSE "spoolKeyed"]
          /\ app' = [app EXCEPT !["hook"][c] = "look"]
       \/ /\ client[c] = "unseen" /\ queue[KeyOf[c]] # None
          /\ client' = [client EXCEPT ![c] = "visible"]
          /\ UNCHANGED app
       \/ /\ ClassOf[c] # "hook"
          /\ client' = [client EXCEPT ![c] = "failed"]
          /\ UNCHANGED app
    /\ UNCHANGED <<files, tables, rest, daemon, drain>>

\* An MCP client whose request certainly did not reach the hook IPC, and has
\* no operation key, may use the daemon's REST server; a request that times out
\* may have been ingested.
RestIngest(c) ==
    /\ ClassOf[c] = "mcp" /\ client[c] = "fresh" /\ daemon
    /\ \/ /\ rest' = rest \cup {c}
          /\ client' = [client EXCEPT ![c] = "accepted"]
       \/ /\ rest' \in {rest, rest \cup {c}}
          /\ client' = [client EXCEPT ![c] = "failed"]
    /\ UNCHANGED <<app, files, tables, daemon, drain>>

\* A hook process ends with the outcome of its own append.
HookEnds(c) ==
    /\ app["hook"][c] \in {"ok", "uncertain", "rejected"}
    /\ client' = [client EXCEPT ![c] = IF app["hook"][c] = "ok" THEN "accepted" ELSE "failed"]
    /\ app' = [app EXCEPT !["hook"][c] = "none"]
    /\ UNCHANGED <<files, tables, rest, daemon, drain>>

-----------------------------------------------------------------------------
\* IngressSpool::append, in the daemon's handlers and in hook processes.

Busy == {"look", "look2", "pick", "readJson", "readClaim", "write"}

\* append_lock belongs to one process: it orders the daemon's appends and its
\* listing, not those of a hook process.
LockFree == \A c \in Captures : app["daemon"][c] \notin Busy

\* The identity and the record an append call writes.
AppendId(w, c) == IF w = "hook" THEN FallbackId(c) ELSE KeyOf[c]

AppendGoto(w, c, phase) == app' = [app EXCEPT ![w][c] = phase]

\* The blocking task runs and takes the lock.
AppendStart(c) ==
    /\ app["daemon"][c] = "queued" /\ LockFree
    /\ AppendGoto("daemon", c, "look")
    /\ UNCHANGED <<client, files, tables, rest, daemon, drain>>

\* `path.exists()`
AppendLook(w, c) ==
    /\ app[w][c] = "look"
    /\ AppendGoto(w, c, IF disk[AppendId(w, c)].json # None THEN "pick" ELSE "look2")
    /\ UNCHANGED <<client, files, tables, rest, daemon, drain>>

\* The spool holds as many bytes as it may.
MutSpoolFull == SpoolFiles > MaxFiles
SpoolFull == SpoolFiles >= MaxFiles

\* `|| claim_path.exists()`, and for a new record the check of the limit.
AppendLookClaim(w, c) ==
    /\ app[w][c] = "look2"
    /\ AppendGoto(w, c, IF disk[AppendId(w, c)].claim # None THEN "pick"
                        ELSE IF SpoolFull THEN "rejected" ELSE "write")
    /\ UNCHANGED <<client, files, tables, rest, daemon, drain>>

\* `if path.exists() { &path } else { &claim_path }`
AppendPick(w, c) ==
    /\ app[w][c] = "pick"
    /\ AppendGoto(w, c, IF disk[AppendId(w, c)].json # None THEN "readJson" ELSE "readClaim")
    /\ UNCHANGED <<client, files, tables, rest, daemon, drain>>

\* What an append that finds its own record does to the directory.
MutPresentSync == UNCHANGED maybe
PresentSync == maybe' = Synced(disk)

\* The existing record is read.  The same request is AlreadyPresent once the
\* directory is synced, another one is a conflict, and a file that has moved
\* meanwhile is an I/O error.
AppendRead(w, c) ==
    /\ app[w][c] \in {"readJson", "readClaim"}
    /\ LET f == disk[AppendId(w, c)]
           found == IF app[w][c] = "readJson" THEN f.json ELSE f.claim
       IN  \/ found = PayloadOf[c] /\ PresentSync /\ AppendGoto(w, c, "ok")
           \/ /\ found = PayloadOf[c] /\ "io" \in Faults
              /\ UNCHANGED maybe
              /\ AppendGoto(w, c, "uncertain")
           \/ /\ found # PayloadOf[c]
              /\ UNCHANGED maybe
              /\ AppendGoto(w, c, "rejected")
    /\ UNCHANGED <<client, disk, junk, tables, rest, daemon, drain>>

\* Write and fsync a temporary file, rename it, sync the directory.
AppendWrite(w, c) ==
    /\ app[w][c] = "write"
    /\ LET k == AppendId(w, c)
           f == [disk[k] EXCEPT !.json = PayloadOf[c]]
       IN  \/ PutSynced(k, f) /\ AppendGoto(w, c, "ok")
           \/ PutUnsynced(k, f) /\ AppendGoto(w, c, "uncertain")
           \/ /\ "io" \in Faults
              /\ UNCHANGED <<disk, maybe>>
              /\ AppendGoto(w, c, "rejected")
    /\ UNCHANGED <<client, junk, tables, rest, daemon, drain>>

-----------------------------------------------------------------------------
\* The drain task of the daemon: drain_claimed, one record after another.

\* recover_stale_claims: a claim nobody works on becomes a record again.  The
\* drain task is the only claimer, so when it lists every claim is stale.
MutRecovered(f) == f
Recovered(f) == IF f.claim = None THEN f
                ELSE [f EXCEPT !.json = IF @ = None THEN f.claim ELSE @, !.claim = None]

\* A claim and a record of one key that differ: the listing fails.
ClaimConflict == \E k \in Keys : disk[k].json # None /\ disk[k].claim # None
                                 /\ disk[k].json # disk[k].claim

\* What the listing leaves of every key.
ListedFiles == [k \in Keys |-> Recovered(disk[k])]

\* records(): recover, sync if anything was recovered, list.
DrainList ==
    /\ daemon /\ drain.pc = "idle" /\ LockFree /\ ~ClaimConflict
    /\ \E k \in Keys : ListedFiles[k].json # None
    /\ disk' = ListedFiles
    /\ maybe' = IF ListedFiles = disk THEN maybe ELSE Synced(ListedFiles)
    /\ drain' = [drain EXCEPT !.pc = "next",
                   !.todo = {<<k, ListedFiles[k].json>> :
                                k \in {x \in Keys : ListedFiles[x].json # None}}]
    /\ UNCHANGED <<client, app, junk, tables, rest, daemon>>

\* The sync after the recovery fails and the pass ends.
DrainListFails ==
    /\ "io" \in Faults
    /\ daemon /\ drain.pc = "idle" /\ LockFree /\ ~ClaimConflict
    /\ ListedFiles # disk
    /\ disk' = ListedFiles
    /\ maybe' = [k \in Keys |-> maybe[k] \cup {ListedFiles[k]}]
    /\ UNCHANGED <<client, app, junk, tables, rest, daemon, drain>>

\* The loop over the listed records, in the order of their hashes: what is
\* left, or the end of this pass.
Rest(todo) == [DrainIdle EXCEPT !.pc = IF todo = {} THEN "idle" ELSE "next", !.todo = todo]

\* The files of k once its record is renamed to a claim.
ClaimedFiles(k) == [disk[k] EXCEPT !.json = None, !.claim = disk[k].json]

\* claim: rename the record and sync; a record that is gone is skipped.
DrainClaim(k, p) ==
    /\ drain.pc = "next" /\ <<k, p>> \in drain.todo
    /\ LET left == drain.todo \ {<<k, p>>}
       IN  IF disk[k].json # None
           THEN /\ PutSynced(k, ClaimedFiles(k))
                /\ drain' = [pc |-> "enqueue", todo |-> left, key |-> k, payload |-> p]
           ELSE drain' = Rest(left) /\ UNCHANGED <<disk, maybe>>
    /\ UNCHANGED <<client, app, junk, tables, rest, daemon>>

\* A failing sync ends the pass and leaves the claim for the next listing.
DrainClaimFails(k, p) ==
    /\ drain.pc = "next" /\ <<k, p>> \in drain.todo
    /\ disk[k].json # None
    /\ PutUnsynced(k, ClaimedFiles(k))
    /\ drain' = DrainIdle
    /\ UNCHANGED <<client, app, junk, tables, rest, daemon>>

\* The fenced enqueue is accepted, also as a repetition of what is there.
DrainEnqueue ==
    /\ drain.pc = "enqueue"
    /\ queue[drain.key] \in {None, drain.payload}
    /\ Commit(drain.key, drain.payload)
    /\ drain' = [drain EXCEPT !.pc = "delete"]
    /\ UNCHANGED <<client, app, files, rest, daemon>>

\* The key is taken by another payload.
DrainConflict ==
    /\ drain.pc = "enqueue"
    /\ queue[drain.key] \notin {None, drain.payload}
    /\ drain' = [drain EXCEPT !.pc = "park"]
    /\ UNCHANGED <<client, app, files, tables, rest, daemon>>

\* The database is locked, or the writer lease is gone.
DrainEnqueueFails ==
    /\ drain.pc = "enqueue" /\ "busy" \in Faults
    /\ drain' = [drain EXCEPT !.pc = "release"]
    /\ UNCHANGED <<client, app, files, tables, rest, daemon>>

\* The files of the key in hand after each of the three endings: removed,
\* quarantined, or put back (release_claim keeps an equal replacement).
EndedFiles ==
    LET f == disk[drain.key]
    IN  CASE drain.pc = "delete"  -> [f EXCEPT !.claim = None]
          [] drain.pc = "park"    -> [f EXCEPT !.claim = None, !.parked = @ \cup {f.claim}]
          [] drain.pc = "release" -> IF f.json \in {None, f.claim}
                                     THEN [f EXCEPT !.json = f.claim, !.claim = None]
                                     ELSE f

\* The ending and its sync; a put-back record and a failing sync end the pass.
DrainFinish ==
    /\ drain.pc \in {"delete", "park", "release"}
    /\ \/ /\ PutSynced(drain.key, EndedFiles)
          /\ drain' = IF drain.pc = "release" THEN DrainIdle ELSE Rest(drain.todo)
       \/ /\ PutUnsynced(drain.key, EndedFiles)
          /\ drain' = DrainIdle
    /\ UNCHANGED <<client, app, junk, tables, rest, daemon>>

-----------------------------------------------------------------------------
\* Crashes, restarts and the checkpoints of the database.

\* A writer that dies between creating and renaming its temporary file
\* leaves it behind.
JunkLeft(dying) ==
    \/ UNCHANGED junk
    \/ (\E p \in dying : app[p[1]][p[2]] = "write") /\ junk' = junk + 1

DaemonDies ==
    /\ "kill" \in Faults /\ daemon
    /\ daemon' = FALSE
    /\ drain' = DrainIdle
    /\ app' = [app EXCEPT !["daemon"] = [c \in Captures |-> "none"]]
    /\ JunkLeft({"daemon"} \X Captures)
    /\ UNCHANGED <<client, disk, maybe, tables, rest>>

DaemonStart ==
    /\ ~daemon
    /\ daemon' = TRUE
    /\ UNCHANGED <<client, app, files, tables, rest, drain>>

ClientDies(c) ==
    /\ "kill" \in Faults
    /\ client[c] \notin {"idle", "accepted", "visible", "failed"}
    /\ client' = [client EXCEPT ![c] = "failed"]
    /\ app' = [app EXCEPT !["hook"][c] = "none"]
    /\ JunkLeft({<<"hook", c>>})
    /\ UNCHANGED <<disk, maybe, tables, rest, daemon, drain>>

\* SQLite syncs the write-ahead log at a checkpoint (synchronous = NORMAL).
Checkpoint ==
    /\ safe' = {k \in Keys : queue[k] # None}
    /\ safe' # safe
    /\ UNCHANGED <<client, app, files, queue, committed, rest, daemon, drain>>

\* The machine loses power: every process dies, every key's files are one of
\* the possible ones, and commits after the last checkpoint may be gone.
PowerLoss ==
    /\ "power" \in Faults
    /\ disk' \in {d \in [Keys -> UNION {maybe[k] : k \in Keys}] : \A k \in Keys : d[k] \in maybe[k]}
    /\ maybe' = Synced(disk')
    /\ JunkLeft(Writers \X Captures)
    /\ \E lost \in SUBSET {k \in Keys : queue[k] # None /\ k \notin safe} :
          /\ queue' = [k \in Keys |-> IF k \in lost THEN None ELSE queue[k]]
          /\ safe' = {k \in Keys : queue[k] # None} \ lost
    /\ client' = [c \in Captures |-> IF client[c] \in {"idle", "accepted", "visible"} THEN client[c] ELSE "failed"]
    /\ app' = [w \in Writers |-> [c \in Captures |-> "none"]]
    /\ daemon' = FALSE
    /\ drain' = DrainIdle
    /\ UNCHANGED <<committed, rest>>

-----------------------------------------------------------------------------
Client(c) ==
    \/ Submit(c) \/ Unavailable(c) \/ Answer(c) \/ GiveUp(c) \/ CheckVisible(c)
    \/ LocalEnqueue(c) \/ LocalEnqueueFails(c) \/ RestIngest(c) \/ HookEnds(c)

Append(w, c) ==
    \/ AppendLook(w, c) \/ AppendLookClaim(w, c) \/ AppendPick(w, c)
    \/ AppendRead(w, c) \/ AppendWrite(w, c)

Drain ==
    \/ DrainList \/ DrainListFails
    \/ \E t \in drain.todo : DrainClaim(t[1], t[2]) \/ DrainClaimFails(t[1], t[2])
    \/ DrainEnqueue \/ DrainConflict \/ DrainEnqueueFails \/ DrainFinish

Next ==
    \/ \E c \in Captures : Client(c) \/ AppendStart(c) \/ ClientDies(c)
    \/ \E w \in Writers, c \in Captures : Append(w, c)
    \/ Drain
    \/ DaemonDies \/ DaemonStart \/ Checkpoint \/ PowerLoss

Spec == Init /\ [][Next]_vars

\* The supervisor restarts the daemon, which is not killed, and whose database
\* and disk do not fail, before the end of every single pass.
Fairness ==
    /\ WF_vars(DaemonStart)
    /\ SF_vars(DrainList)
    /\ SF_vars(\E t \in drain.todo : DrainClaim(t[1], t[2]))
    /\ SF_vars(DrainEnqueue \/ DrainConflict)
    /\ SF_vars(drain.pc = "release" /\ DrainFinish)
    /\ SF_vars(drain.pc # "release" /\ DrainFinish)
    /\ \A c \in Captures : WF_vars(Append("daemon", c))

FairSpec == Spec /\ Fairness

-----------------------------------------------------------------------------
\* Properties.

\* Types; the current files are among the possible ones, and only committed
\* keys are checkpointed.
TypeOK ==
    /\ client \in [Captures -> {"idle", "waiting", "fresh", "keyed", "unseen",
                                "spoolFresh", "spoolKeyed", "accepted", "visible", "failed"}]
    /\ app \in [Writers -> [Captures -> Phases]]
    /\ disk \in [Keys -> Files]
    /\ \A k \in Keys : maybe[k] \subseteq Files /\ disk[k] \in maybe[k]
    /\ junk \in Nat
    /\ queue \in [Keys -> Content]
    /\ safe \subseteq {k \in Keys : queue[k] # None}
    /\ committed \subseteq Keys \X Payloads
    /\ rest \subseteq Captures
    /\ daemon \in BOOLEAN
    /\ drain.pc \in {"idle", "next", "enqueue", "delete", "park", "release"}

\* The producer was told that c is queued: its own submission was accepted, or
\* the key was found in the queue.  The latter says nothing of the payload when
\* the key was used for two.
Acked(c) ==
    \/ client[c] = "accepted"
    \/ /\ client[c] = "visible"
       /\ \A d \in Captures : KeyOf[d] = KeyOf[c] => PayloadOf[d] = PayloadOf[c]

\* The files f hold payload p: as a record, in the hands of the drain, or
\* quarantined.
Holds(f, p) == f.json = p \/ f.claim = p \/ p \in f.parked

\* Capture c is kept under key k whatever happens to the machine's directory.
KeptOnDisk(c, k) == \A f \in maybe[k] : Holds(f, PayloadOf[c])

\* A capture its producer was told is accepted leaves the spool only into the
\* queue or into quarantine: at every moment, in every directory a power loss
\* may leave, it is there, unless it was committed to the queue before
\* (persist_hook_ipc_request answers after the sync; drain_claimed deletes
\* after the commit).
HandedOver ==
    \A c \in Captures : Acked(c) =>
        \/ c \in rest
        \/ \E k \in {KeyOf[c], FreshOf[c]} :
              <<k, PayloadOf[c]>> \in committed \/ KeptOnDisk(c, k)

\* A capture is never stored under two identities, whatever timeouts, late
\* handlers, retries and fallbacks did to it: two identities are two messages,
\* and the queue would run both (DaemonFallback::Fresh and ::Idempotent; the
\* REST fallback of the MCP server).
Stored(c, k) == <<k, PayloadOf[c]>> \in committed \/ Holds(disk[k], PayloadOf[c])
OneIdentity ==
    \A c \in Captures : Stored(c, KeyOf[c]) =>
        c \notin rest /\ (FreshOf[c] = KeyOf[c] \/ ~Stored(c, FreshOf[c]))

\* The spool never outgrows its limit when the daemon alone writes to it,
\* temporary files of crashed daemons included (append checks and writes under
\* append_lock; spool_bytes).
SpoolBounded == SpoolFiles <= MaxFiles

\* Every accepted capture reaches the queue or quarantine: no crash, failed
\* sync or busy database leaves it in the spool for good.
Delivered ==
    \A c \in Captures : Acked(c) ~>
        \/ c \in rest
        \/ \E k \in {KeyOf[c], FreshOf[c]} :
              <<k, PayloadOf[c]>> \in committed \/ PayloadOf[c] \in disk[k].parked

\* An accepted capture survives a power loss at any moment: it is in a
\* possible directory of every kind or in a commit that was checkpointed.
AckedSurvivesPowerLoss ==
    \A c \in Captures : Acked(c) =>
        \/ c \in rest
        \/ \E k \in {KeyOf[c], FreshOf[c]} :
              (k \in safe /\ queue[k] = PayloadOf[c]) \/ KeptOnDisk(c, k)
=============================================================================
