---------------------------- MODULE WriterLease ----------------------------
(***************************************************************************)
(* The runtime writer lease: the SQLite row that says which process may    *)
(* write the palace database.  Every mempal process (daemon, command line, *)
(* MCP server, historical rejudge) opens the same file, so one action here *)
(* is one BEGIN IMMEDIATE transaction of one process, or one step a        *)
(* process takes between two transactions.                                 *)
(*                                                                         *)
(* A lease row is identified by (owner, session, generation); the owner    *)
(* string embeds the process birth identity, so a member of Procs is one   *)
(* process birth and a restarted program is another member.                *)
(***************************************************************************)
EXTENDS Integers

CONSTANTS
    Procs,      \* process births that use the database
    None,       \* no holder
    Mode,       \* what each process is: see Modes
    Namespace,  \* the PID namespace each process runs in
    TTL,        \* lease lifetime, in seconds of the clock
    MaxTime,    \* bound: the clock stops here
    MaxGen      \* bound: generations issued per lease name

SqliteWriter  == "sqlite-writer"
RejudgeWriter == "maintenance-rejudge-writer"
Names == {SqliteWriter, RejudgeWriter}

\* "cli" stands for the maintenance, ingest and cli-content-write modes,
\* "mcp" for mcp-content-write and mcp-ingest-worker.
Modes == {"daemon", "cli", "mcp", "rejudge"}

Policies == {"Standard", "PreserveLiveHolders", "RebindDeadDaemon"}

ASSUME ProcsAssumption == None \notin Procs
ASSUME ModeAssumption == Mode \in [Procs -> Modes]
ASSUME NamespaceAssumption == DOMAIN Namespace = Procs
ASSUME BoundsAssumption == TTL \in Nat /\ MaxTime \in Nat /\ MaxGen \in Nat

VARIABLES
    now,        \* wall clock, in whole seconds (format_rfc3339 truncates)
    rows,       \* table runtime_writer_leases: one row or NoRow per name
    lastGen,    \* table runtime_writer_lease_generations
    alive,      \* is the process running
    pc,         \* where each process is in its acquire/use/release life
    handle,     \* the lease each process last acquired
    active,     \* heartbeat has not reported the lease lost
    lastWrite   \* who committed the last write fenced by each name, and when

vars == <<now, rows, lastGen, alive, pc, handle, active, lastWrite>>

----------------------------------------------------------------------------
NoRow == [holder |-> None, gen |-> 0, exp |-> 0]
\* A row and its in-memory copy, as written at this instant.
NewRow(p, gen) == [holder |-> p, gen |-> gen, exp |-> now + TTL]
NewHandle(n, gen) == [name |-> n, gen |-> gen, exp |-> now + TTL]
NoHandle == [name |-> SqliteWriter, gen |-> 0, exp |-> 0]

Held(n) == rows[n].holder # None

\* Timestamps are compared as text: a whole-second expiry sorts after every
\* instant of its own second, so a row expires when that second has passed.
Expired(row) == row.exp < now

\* A daemon row is live when /proc of the observer shows that birth; any
\* other row is Live, Dead, or Unverifiable from another PID namespace.
Verifiable(by, p) == Namespace[by] = Namespace[p]
HolderIsLive(by, p) == Verifiable(by, p) /\ alive[p]
HolderShouldRetain(by, p) ==
    IF Mode[p] = "daemon" THEN HolderIsLive(by, p)
                          ELSE Verifiable(by, p) => alive[p]

\* Every lease transaction starts by deleting expired rows, of all names.
CleanupExpired(by, preserveLive) ==
    [n \in Names |->
        IF /\ Held(n)
           /\ Expired(rows[n])
           /\ ~(preserveLive /\ HolderShouldRetain(by, rows[n].holder))
        THEN NoRow ELSE rows[n]]

\* Daemon start that takes the name from whoever holds it.
MutRebindDead(by, n, table) == [table EXCEPT ![n] = NoRow]

\* Daemon start also deletes an unexpired row whose holder is not retained.
RebindDead(by, n, table) ==
    IF table[n].holder # None /\ ~HolderShouldRetain(by, table[n].holder)
    THEN [table EXCEPT ![n] = NoRow] ELSE table

AfterAcquireCleanup(p, n, policy) ==
    LET table == CleanupExpired(p, policy # "Standard")
    IN  IF policy = "RebindDeadDaemon" THEN RebindDead(p, n, table) ELSE table

\* The row is p's own, by owner, session and generation.
OwnsRow(p, table) ==
    LET h == handle[p] IN table[h.name].holder = p /\ table[h.name].gen = h.gen

\* A fence that accepts any unexpired row of the name.
MutFenceOpen(p, table) ==
    table[handle[p].name].holder # None /\ ~Expired(table[handle[p].name])

\* The check inside every fenced transaction.
FenceOpen(p, table) == OwnsRow(p, table) /\ ~Expired(table[handle[p].name])

----------------------------------------------------------------------------
Init ==
    /\ now = 0
    /\ rows = [n \in Names |-> NoRow]
    /\ lastGen = [n \in Names |-> 0]
    /\ alive \in [Procs -> BOOLEAN]      \* who is ever started
    /\ pc = [p \in Procs |-> "idle"]
    /\ handle = [p \in Procs |-> NoHandle]
    /\ active = [p \in Procs |-> FALSE]
    /\ lastWrite = [n \in Names |-> [who |-> None, gen |-> 0]]

Tick ==
    /\ now < MaxTime
    /\ now' = now + 1
    /\ UNCHANGED <<rows, lastGen, alive, pc, handle, active, lastWrite>>

\* A process is killed: its row stays in the table.
Crash(p) ==
    /\ alive[p]
    /\ alive' = [alive EXCEPT ![p] = FALSE]
    /\ pc' = [pc EXCEPT ![p] = "exited"]
    /\ UNCHANGED <<now, rows, lastGen, handle, active, lastWrite>>

\* Where a refused acquisition leaves the process: the daemon retries, the MCP
\* server reports the error and stays, a command exits.
AfterRefusal(p) == IF Mode[p] \in {"daemon", "mcp"} THEN "idle" ELSE "exited"

Exits(p, next) == alive' = [alive EXCEPT ![p] = @ /\ next # "exited"]

\* The transaction shared by the three acquire policies: clean up, give up if
\* the name is held, otherwise issue the next generation and insert the row.
Acquire(p, n, policy, refusedPc) ==
    LET table == AfterAcquireCleanup(p, n, policy)
        gen   == lastGen[n] + 1
        next  == IF table[n].holder = None THEN "held" ELSE refusedPc
    IN  /\ table[n].holder = None => gen <= MaxGen
        /\ pc' = [pc EXCEPT ![p] = next]
        /\ Exits(p, next)
        /\ IF table[n].holder = None
           THEN /\ lastGen' = [lastGen EXCEPT ![n] = gen]
                /\ rows' = [table EXCEPT ![n] = NewRow(p, gen)]
                /\ handle' = [handle EXCEPT ![p] = NewHandle(n, gen)]
                /\ active' = [active EXCEPT ![p] = TRUE]
           ELSE /\ rows' = table
                /\ UNCHANGED <<lastGen, handle, active>>
        /\ UNCHANGED <<now, lastWrite>>

\* Daemon start: rebinding acquisition, retried by the admission loop.
DaemonAcquire(p) ==
    /\ Mode[p] = "daemon" /\ pc[p] = "idle"
    /\ Acquire(p, SqliteWriter, "RebindDeadDaemon", AfterRefusal(p))

\* MCP ingest worker and MCP content writer.
McpAcquire(p) ==
    /\ Mode[p] = "mcp" /\ pc[p] = "idle"
    /\ Acquire(p, SqliteWriter, "PreserveLiveHolders", AfterRefusal(p))

\* Command line and rejudge look for a scoped rejudge lease first, in a
\* transaction of its own.
EnsureNoRejudge(p) ==
    /\ Mode[p] \in {"cli", "rejudge"} /\ pc[p] = "idle"
    /\ rows' = CleanupExpired(p, TRUE)
    /\ LET next == IF rows'[RejudgeWriter].holder = None THEN "checked"
                                                         ELSE AfterRefusal(p)
       IN  pc' = [pc EXCEPT ![p] = next] /\ Exits(p, next)
    /\ UNCHANGED <<now, lastGen, handle, active, lastWrite>>

CliAcquire(p) ==
    /\ Mode[p] = "cli" /\ pc[p] = "checked"
    /\ Acquire(p, SqliteWriter, "Standard", AfterRefusal(p))

\* Historical rejudge: the global lease if free ...
RejudgeAcquire(p) ==
    /\ Mode[p] = "rejudge" /\ pc[p] = "checked"
    /\ Acquire(p, SqliteWriter, "PreserveLiveHolders", "conflict")

\* ... otherwise it may coexist with a live daemon, and with nothing else ...
ConflictIsLiveDaemon(p, table) ==
    LET h == table[SqliteWriter].holder
    IN  h # None /\ Mode[h] = "daemon" /\ HolderIsLive(p, h)

RejudgeInspectConflict(p) ==
    /\ Mode[p] = "rejudge" /\ pc[p] = "conflict"
    /\ rows' = CleanupExpired(p, TRUE)
    /\ LET next == IF ConflictIsLiveDaemon(p, rows') THEN "scoped" ELSE "exited"
       IN  pc' = [pc EXCEPT ![p] = next] /\ Exits(p, next)
    /\ UNCHANGED <<now, lastGen, handle, active, lastWrite>>

\* ... under a lease name of its own.
RejudgeAcquireScoped(p) ==
    /\ Mode[p] = "rejudge" /\ pc[p] = "scoped"
    /\ Acquire(p, RejudgeWriter, "PreserveLiveHolders", AfterRefusal(p))

----------------------------------------------------------------------------
\* A heartbeat that only logs the refusal.
MutAfterRenewalRefused(p) == "held"

AfterRenewalRefused(p) == IF Mode[p] = "daemon" THEN "stopping" ELSE "held"

\* The heartbeat's renewal.  A refused renewal makes the daemon shut down;
\* the other heartbeats only stop, and the command line's guard remembers.
Renew(p) ==
    LET table   == CleanupExpired(p, TRUE)
        n       == handle[p].name
        gen     == handle[p].gen
        renewed == FenceOpen(p, table)
    IN  /\ pc[p] = "held" /\ active[p]
        /\ rows' = IF renewed THEN [table EXCEPT ![n] = NewRow(p, gen)] ELSE table
        /\ handle' = IF renewed THEN [handle EXCEPT ![p] = NewHandle(n, gen)]
                     ELSE handle
        /\ active' = [active EXCEPT ![p] = renewed]
        /\ pc' = IF renewed THEN pc ELSE [pc EXCEPT ![p] = AfterRenewalRefused(p)]
        /\ UNCHANGED <<now, lastGen, alive, lastWrite>>

\* Renewal fails with an error (the database stayed locked): nothing is
\* learned, and a daemon that learned nothing for a whole TTL shuts down.
RenewUnconfirmed(p) ==
    /\ pc[p] = "held" /\ active[p] /\ Mode[p] = "daemon"
    /\ now >= handle[p].exp
    /\ pc' = [pc EXCEPT ![p] = "stopping"]
    /\ active' = [active EXCEPT ![p] = FALSE]
    /\ UNCHANGED <<now, rows, lastGen, alive, handle, lastWrite>>

\* Work finished, command failed or daemon stopping: the guard is dropped and
\* deletes its own row, expired or not.
Release(p) ==
    /\ pc[p] \in {"held", "stopping"}
    /\ rows' = IF OwnsRow(p, rows) THEN [rows EXCEPT ![handle[p].name] = NoRow]
                                   ELSE rows
    /\ LET next == IF Mode[p] = "mcp" THEN "idle" ELSE "exited"
       IN  pc' = [pc EXCEPT ![p] = next] /\ Exits(p, next)
    /\ active' = [active EXCEPT ![p] = FALSE]
    /\ UNCHANGED <<now, lastGen, handle, lastWrite>>

\* The same when the delete cannot be committed: Drop ignores the error.
ReleaseFails(p) ==
    /\ pc[p] \in {"held", "stopping"}
    /\ LET next == IF Mode[p] = "mcp" THEN "idle" ELSE "exited"
       IN  pc' = [pc EXCEPT ![p] = next] /\ Exits(p, next)
    /\ active' = [active EXCEPT ![p] = FALSE]
    /\ UNCHANGED <<now, rows, lastGen, handle, lastWrite>>

\* A write inside the fenced transaction.  The command line's guard refuses
\* beforehand once its heartbeat has reported the loss.
FencedWrite(p) ==
    LET table == CleanupExpired(p, TRUE)
        n     == handle[p].name
    IN  /\ pc[p] = "held"
        /\ Mode[p] \in {"cli", "rejudge"} => active[p]
        /\ FenceOpen(p, table)
        /\ rows' = table
        /\ lastWrite' = [lastWrite EXCEPT ![n] = [who |-> p, gen |-> handle[p].gen]]
        /\ UNCHANGED <<now, lastGen, alive, pc, handle, active>>

\* The rejudge finds its lease lost at a checkpoint.  A lost global lease is
\* tolerated while a live daemon holds it; a lost scoped lease is restored
\* under its old generation when nobody took it since.
RejudgeLost(p) ==
    /\ Mode[p] = "rejudge" /\ pc[p] = "held"
    /\ active[p] => ~FenceOpen(p, CleanupExpired(p, TRUE))

RejudgeLostGlobal(p) ==
    /\ RejudgeLost(p) /\ handle[p].name = SqliteWriter
    /\ rows' = CleanupExpired(p, TRUE)
    /\ pc' = IF ConflictIsLiveDaemon(p, rows') THEN pc
             ELSE [pc EXCEPT ![p] = "stopping"]
    /\ UNCHANGED <<now, lastGen, alive, handle, active, lastWrite>>

\* runtime_writer_lease_restore_if_unheld, called by the live owner.
CanRestore(p, table) ==
    /\ lastGen[handle[p].name] = handle[p].gen
    /\ OwnsRow(p, table) \/ table[handle[p].name].holder = None

RejudgeRestore(p) ==
    LET table == CleanupExpired(p, TRUE)
        n     == handle[p].name
    IN  /\ RejudgeLost(p) /\ n = RejudgeWriter
        /\ IF CanRestore(p, table)
           THEN /\ rows' = IF OwnsRow(p, table) THEN table
                           ELSE [table EXCEPT ![n] = NewRow(p, handle[p].gen)]
                /\ active' = [active EXCEPT ![p] = TRUE]
                /\ pc' = pc
           ELSE /\ rows' = table
                /\ pc' = [pc EXCEPT ![p] = "stopping"]
                /\ active' = active
        /\ UNCHANGED <<now, lastGen, alive, handle, lastWrite>>

----------------------------------------------------------------------------
ProcStep(p) ==
    /\ alive[p]
    /\ \/ DaemonAcquire(p)  \/ McpAcquire(p)
       \/ EnsureNoRejudge(p) \/ CliAcquire(p)
       \/ RejudgeAcquire(p) \/ RejudgeInspectConflict(p) \/ RejudgeAcquireScoped(p)
       \/ Renew(p) \/ RenewUnconfirmed(p)
       \/ Release(p) \/ ReleaseFails(p)
       \/ FencedWrite(p)
       \/ RejudgeLostGlobal(p) \/ RejudgeRestore(p)

Next == Tick \/ \E p \in Procs : Crash(p) \/ ProcStep(p)

Spec == Init /\ [][Next]_vars

\* A daemon's heartbeat task keeps ticking and a stopping daemon gets to its
\* release.
Daemons == {p \in Procs : Mode[p] = "daemon"}
LeaseFairness ==
    \A p \in Daemons : /\ WF_vars(alive[p] /\ Renew(p))
                       /\ WF_vars(alive[p] /\ pc[p] = "stopping" /\ Release(p))
FairSpec == Spec /\ LeaseFairness

----------------------------------------------------------------------------
\* Types of the lease tables and of what each process remembers of its lease
\* (RuntimeWriterLease, the guards of daemon, command, MCP server and rejudge).
TypeOK ==
    /\ now \in Nat
    /\ rows \in [Names -> [holder : Procs \cup {None}, gen : Nat, exp : Nat]]
    /\ lastGen \in [Names -> Nat]
    /\ alive \in [Procs -> BOOLEAN]
    /\ pc \in [Procs -> {"idle", "checked", "conflict", "scoped", "held",
                         "stopping", "exited"}]
    /\ handle \in [Procs -> [name : Names, gen : Nat, exp : Nat]]
    /\ active \in [Procs -> BOOLEAN]
    /\ lastWrite \in [Names -> [who : Procs \cup {None}, gen : Nat]]

\* Fenced writes commit in generation order, and a new writer commits only
\* under a newer generation: whatever was taken over, restored or renewed in
\* between, a stale process never overwrites its successor
\* (require_runtime_writer_lease_tx and restore_if_unheld together).
WritesInGenerationOrder ==
    [][\A n \in Names : lastWrite'[n] # lastWrite[n] =>
          \/ lastWrite'[n].gen > lastWrite[n].gen
          \/ lastWrite'[n].who = lastWrite[n].who
             /\ lastWrite'[n].gen = lastWrite[n].gen]_vars

\* A row always carries the newest generation issued for its name, and its
\* identity is the one its holder keeps in memory, also after a restore or an
\* abandoned release: no generation is ever issued twice.
RowIsNewestGeneration ==
    \A n \in Names : Held(n) =>
        /\ rows[n].gen = lastGen[n]
        /\ handle[rows[n].holder].name = n
        /\ handle[rows[n].holder].gen = rows[n].gen

\* The row of a process that is alive and did not drop its guard disappears
\* only after it expired, and then only by a command-line acquisition, the one
\* caller of the Standard policy.  In particular daemon start never replaces a
\* live holder.
Removed(n) ==
    /\ Held(n)
    /\ rows'[n].holder # rows[n].holder \/ rows'[n].gen # rows[n].gen
LiveHolderKept ==
    [][\A n \in Names :
         LET h == rows[n].holder
         IN  Removed(n) /\ alive[h] /\ pc'[h] = pc[h] =>
               /\ Expired(rows[n])
               /\ \E c \in Procs : Mode[c] = "cli" /\ pc[c] = "checked"
                                   /\ pc'[c] # "checked"]_vars

\* A daemon whose lease is gone or has run out steps down: its heartbeat
\* notices and the daemon exits, however the lease was lost.
LostDaemonStepsDown ==
    \A p \in Daemons : (pc[p] = "held" /\ ~FenceOpen(p, rows)) ~> pc[p] = "exited"

\* A command is rejected while a scoped rejudge lease is active: no
\* command-line acquisition succeeds beside one (acquire_named_runtime_writer_lease
\* looks for it first).
CliRejectedUnderRejudge ==
    [][\A p \in Procs :
         Mode[p] = "cli" /\ pc[p] # "held" /\ pc'[p] = "held"
            => rows'[RejudgeWriter].holder = None]_vars

\* A rejudge lease reported as recovered is usable: the fence accepts it.
RestoredLeaseIsActive ==
    [][\A p \in Procs :
         pc[p] = "held" /\ ~active[p] /\ active'[p] => FenceOpen(p, rows')]_vars
=============================================================================
