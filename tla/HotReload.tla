----------------------------- MODULE HotReload -----------------------------
(***************************************************************************)
(* Configuration hot reload and the clients that follow it.                *)
(*                                                                         *)
(* An editor changes the configuration file at any time, in several writes *)
(* if it likes (the file then reads as Bad in between).  The coordinator   *)
(* thread learns of a change from inotify, from polling the file's         *)
(* signature once the watch is gone, or from SIGHUP; it loads the file,    *)
(* stores a new snapshot and only then bumps the generation counters.      *)
(* LLM workers read the generation before the configuration, build or      *)
(* reuse the shared router and compare generations again; callers of the   *)
(* daemon's embedder label a cached client with the generation they read   *)
(* first.  Each of those reads is an action of its own.                    *)
(***************************************************************************)
EXTENDS Naturals, FiniteSets

CONSTANTS
    Configs,     \* valid contents of the file
    LlmOf,       \* the hot-reloadable LLM fields of a configuration
    EmbedOf,     \* its embedding endpoint fields
    Bad,         \* contents that do not parse
    Off,         \* LLM fields under which workers claim nothing
    LlmWorkers,
    EmbedCallers,
    MaxEdits     \* bound: edits of the file

ASSUME ConfigsAssumption == Bad \notin Configs /\ DOMAIN LlmOf = Configs /\ DOMAIN EmbedOf = Configs
ASSUME EditsAssumption == MaxEdits \in Nat

Absent == "absent"
Contents == Configs \cup {Bad}
LlmParts == {LlmOf[c] : c \in Configs} \ {Off}
EmbedParts == {EmbedOf[c] : c \in Configs}
Gens == 0..MaxEdits + 1

VARIABLES
    file,      \* what the configuration file says
    stamp,     \* its signature: dev, inode, length and mtime
    notices,   \* an inotify event waits in the watcher's descriptor
    hup,       \* SIGHUP_PENDING
    coord,     \* the coordinator thread, and the start that stages it
    snapshot,  \* HotReloadState::snapshot
    gens,      \* llm_gen_tx and embed_gen_tx
    router,    \* LlmClientRuntime: the shared router, by the fields it was built from
    worker,    \* LLM workers
    cached,    \* DaemonEmbedder::runtime
    caller     \* callers of DaemonEmbedder::embed

fileVars == <<file, stamp>>
hotVars == <<file, stamp, notices, hup, coord, snapshot, gens, router, worker, cached, caller>>

----------------------------------------------------------------------------
\* The coordinator.

\* No watch, no event: an edit before the registration leaves no trace.
Edit(c) ==
    /\ stamp < MaxEdits
    /\ file' = c /\ stamp' = stamp + 1
    /\ notices' = (notices \/ coord.mode = "notify")
    /\ UNCHANGED <<hup, coord, snapshot, gens, router, worker, cached, caller>>

Hangup ==
    /\ ~hup /\ coord.pc = "wait"
    /\ hup' = TRUE
    /\ UNCHANGED <<file, stamp, notices, coord, snapshot, gens, router, worker, cached, caller>>

\* bootstrap loads the file before there is any watch.
BootLoad ==
    /\ coord.pc = "boot" /\ file # Bad
    /\ snapshot' = file
    /\ coord' = [coord EXCEPT !.pc = "register"]
    /\ UNCHANGED <<file, stamp, notices, hup, gens, router, worker, cached, caller>>

\* HotReloadWatcher::register; a failed registration leaves polling.
Register ==
    /\ coord.pc = "register"
    /\ \E m \in {"notify", "poll"} : coord' = [coord EXCEPT !.pc = "mark", !.mode = m]
    /\ UNCHANGED <<file, stamp, notices, hup, snapshot, gens, router, worker, cached, caller>>

\* The events of the watch are read; none of them is remembered.
MutNotice ==
    /\ coord.pc = "wait" /\ coord.mode = "notify" /\ notices
    /\ notices' = FALSE
    /\ UNCHANGED <<file, stamp, hup, coord, snapshot, gens, router, worker, cached, caller>>
\* The watcher drains its descriptor and the debounce begins.
Notice ==
    /\ coord.pc = "wait" /\ coord.mode = "notify" /\ notices
    /\ notices' = FALSE
    /\ coord' = [coord EXCEPT !.pc = "mark"]
    /\ UNCHANGED <<file, stamp, hup, snapshot, gens, router, worker, cached, caller>>

Poll ==
    /\ coord.pc = "wait" /\ coord.mode = "poll" /\ coord.seen # stamp
    /\ coord' = [coord EXCEPT !.pc = "mark", !.seen = stamp]
    /\ UNCHANGED <<file, stamp, notices, hup, snapshot, gens, router, worker, cached, caller>>

TakeHangup ==
    /\ coord.pc = "wait" /\ hup
    /\ hup' = FALSE
    /\ coord' = [coord EXCEPT !.pc = "mark"]
    /\ UNCHANGED <<file, stamp, notices, snapshot, gens, router, worker, cached, caller>>

\* A read error or NotifyFailed: the watch and what it still held are gone.
WatcherCrash ==
    /\ coord.pc = "wait" /\ coord.mode = "notify"
    /\ notices' = FALSE
    /\ coord' = [coord EXCEPT !.mode = "poll"]
    /\ UNCHANGED <<file, stamp, hup, snapshot, gens, router, worker, cached, caller>>

\* previous = file_signature(path): before the read, so that an edit during the
\* read differs from it.
Mark ==
    /\ coord.pc = "mark"
    /\ coord' = [coord EXCEPT !.pc = "load", !.seen = stamp]
    /\ UNCHANGED <<file, stamp, notices, hup, snapshot, gens, router, worker, cached, caller>>

\* Config::load_from
Load ==
    /\ coord.pc = "load"
    /\ coord' = [coord EXCEPT !.pc = "apply", !.loaded = file]
    /\ UNCHANGED <<file, stamp, notices, hup, snapshot, gens, router, worker, cached, caller>>

\* The generations a new snapshot moves on.
Moved(old, new) ==
    {k \in {"llm", "embed"} : IF k = "llm" THEN LlmOf[old] # LlmOf[new]
                                          ELSE EmbedOf[old] # EmbedOf[new]}

\* apply_reload up to the store: contents that do not parse, or that change
\* nothing, are dropped.
Apply ==
    /\ coord.pc = "apply"
    /\ LET new == IF coord.loaded = Bad THEN snapshot ELSE coord.loaded
       IN  /\ snapshot' = new
           /\ coord' = [coord EXCEPT !.pc = "bump", !.todo = Moved(snapshot, new),
                                      !.loaded = Bad]
    /\ UNCHANGED <<file, stamp, notices, hup, gens, router, worker, cached, caller>>

\* The LLM generation first, then the embedding generation.
Bump(k) ==
    /\ coord.pc = "bump" /\ k \in coord.todo /\ (k = "embed" => "llm" \notin coord.todo)
    /\ gens' = [gens EXCEPT ![k] = @ + 1]
    /\ coord' = [coord EXCEPT !.todo = @ \ {k}]
    /\ UNCHANGED <<file, stamp, notices, hup, snapshot, router, worker, cached, caller>>

\* Back to the loop; the first time, bootstrap returns and the clients start.
Settle ==
    /\ coord.pc = "bump" /\ coord.todo = {}
    /\ coord' = [coord EXCEPT !.pc = "wait", !.up = TRUE]
    /\ UNCHANGED <<file, stamp, notices, hup, snapshot, gens, router, worker, cached, caller>>

----------------------------------------------------------------------------
\* LLM workers: client_for_claimed_generation and the select around a task.

NoWork == [pc |-> "idle", gen |-> 0, llm |-> Absent, seen |-> 0]

SetWorker(w, r) ==
    /\ worker' = [worker EXCEPT ![w] = r]
    /\ UNCHANGED <<file, stamp, notices, hup, coord, snapshot, gens, cached, caller>>

\* A message is claimed under an enabled configuration.
Claim(w) ==
    /\ coord.up /\ worker[w].pc = "idle" /\ LlmOf[snapshot] # Off
    /\ SetWorker(w, [worker[w] EXCEPT !.pc = "claimed"])
    /\ UNCHANGED router

\* current_llm_runtime_snapshot reads the generation, then the configuration; the
\* claim is released if that disables the worker.
ReadGeneration(w) ==
    /\ worker[w].pc = "claimed"
    /\ SetWorker(w, [worker[w] EXCEPT !.pc = "read", !.gen = gens.llm])
    /\ UNCHANGED router
ReadConfig(w) ==
    /\ worker[w].pc = "read"
    /\ LET llm == LlmOf[snapshot]
       IN  SetWorker(w, IF llm = Off THEN [worker[w] EXCEPT !.pc = "idle", !.gen = 0, !.llm = Absent]
                                     ELSE [worker[w] EXCEPT !.pc = "build", !.llm = llm])
    /\ UNCHANGED router

\* router_for_config: rebuilt when its signature differs.
RouterFor(llm) == IF router # llm THEN llm ELSE router
Build(w) ==
    /\ worker[w].pc = "build"
    /\ LET r == RouterFor(worker[w].llm)
       IN  /\ router' = r
           /\ SetWorker(w, [worker[w] EXCEPT !.pc = "check", !.llm = r])

\* The router cannot be built: the claim is released, the shared one stays.
BuildFails(w) ==
    /\ worker[w].pc = "build" /\ RouterFor(worker[w].llm) # router
    /\ SetWorker(w, [worker[w] EXCEPT !.pc = "idle", !.gen = 0, !.llm = Absent])
    /\ UNCHANGED router

\* The newer generation is marked as seen and the task runs all the same.
MutCheck(w) ==
    /\ worker[w].pc = "check"
    /\ SetWorker(w, [worker[w] EXCEPT !.pc = "run", !.gen = gens.llm, !.seen = gens.llm])
    /\ UNCHANGED router
\* borrow_and_update: run the task, or prepare again for the newer generation.
Check(w) ==
    /\ worker[w].pc = "check"
    /\ LET same == gens.llm = worker[w].gen
       IN  SetWorker(w, IF same THEN [worker[w] EXCEPT !.pc = "run", !.seen = gens.llm]
                                  ELSE [NoWork EXCEPT !.pc = "claimed", !.seen = gens.llm])
    /\ UNCHANGED router

\* The task ends, or changed() wins the select and the claim is released.
Finish(w) ==
    /\ worker[w].pc = "run"
    /\ \E s \in {worker[w].seen} \cup {gens.llm} :
          SetWorker(w, [pc |-> "idle", gen |-> 0, llm |-> Absent, seen |-> s])
    /\ UNCHANGED router

----------------------------------------------------------------------------
\* Callers of the daemon's embedder: runtime_snapshot.

NoCall == [pc |-> "idle", gen |-> 0, embed |-> Absent]

SetCaller(e, r) ==
    /\ caller' = [caller EXCEPT ![e] = r]
    /\ UNCHANGED <<file, stamp, notices, hup, coord, snapshot, gens, router, worker>>

\* The generation is read; a cached client of that generation is used at once.
EmbedBegin(e) ==
    /\ coord.up /\ caller[e].pc = "idle"
    /\ IF cached.gen = gens.embed /\ cached.embed # Absent
       THEN SetCaller(e, [pc |-> "use", gen |-> gens.embed, embed |-> cached.embed])
       ELSE SetCaller(e, [pc |-> "lock", gen |-> gens.embed, embed |-> Absent])
    /\ UNCHANGED cached

\* runtime_init_lock: one caller builds; the cache is looked at again.
EmbedLock(e) ==
    /\ caller[e].pc = "lock"
    /\ \A o \in EmbedCallers : caller[o].pc \notin {"locked", "install"}
    /\ IF cached.gen = caller[e].gen /\ cached.embed # Absent
       THEN SetCaller(e, [caller[e] EXCEPT !.pc = "use", !.embed = cached.embed])
       ELSE SetCaller(e, [caller[e] EXCEPT !.pc = "locked"])
    /\ UNCHANGED cached

\* active_config, and the client is built from it.
EmbedRead(e) ==
    /\ caller[e].pc = "locked"
    /\ SetCaller(e, [caller[e] EXCEPT !.pc = "install", !.embed = EmbedOf[snapshot]])
    /\ UNCHANGED cached

EmbedBuildFails(e) ==
    /\ caller[e].pc = "install"
    /\ SetCaller(e, NoCall)
    /\ UNCHANGED cached

\* The label is the generation read before the configuration.
Label(e) == caller[e].gen
EmbedInstall(e) ==
    /\ caller[e].pc = "install"
    /\ cached' = [gen |-> Label(e), embed |-> caller[e].embed]
    /\ SetCaller(e, [caller[e] EXCEPT !.pc = "use"])

EmbedEnd(e) ==
    /\ caller[e].pc = "use"
    /\ SetCaller(e, NoCall)
    /\ UNCHANGED cached

----------------------------------------------------------------------------
HotInit ==
    /\ file \in Configs /\ stamp = 0 /\ notices = FALSE /\ hup = FALSE
    /\ coord = [pc |-> "boot", mode |-> "none", seen |-> 0, loaded |-> Bad, todo |-> {}, up |-> FALSE]
    /\ snapshot = Absent
    /\ gens = [llm |-> 0, embed |-> 0]
    /\ router = Absent
    /\ worker = [w \in LlmWorkers |-> NoWork]
    /\ cached = [gen |-> 0, embed |-> Absent]
    /\ caller = [e \in EmbedCallers |-> NoCall]

Coordinator ==
    \/ BootLoad \/ Register \/ Notice \/ Poll \/ TakeHangup \/ Mark \/ Load \/ Apply
    \/ (\E k \in {"llm", "embed"} : Bump(k)) \/ Settle

ReloadNext == (\E c \in Contents : Edit(c)) \/ Hangup \/ Coordinator \/ WatcherCrash
LlmNext ==
    \E w \in LlmWorkers :
        \/ Claim(w) \/ ReadGeneration(w) \/ ReadConfig(w) \/ Build(w) \/ BuildFails(w)
        \/ Check(w) \/ Finish(w)
EmbedNext ==
    \E e \in EmbedCallers :
        \/ EmbedBegin(e) \/ EmbedLock(e) \/ EmbedRead(e) \/ EmbedBuildFails(e)
        \/ EmbedInstall(e) \/ EmbedEnd(e)
HotNext == ReloadNext \/ LlmNext \/ EmbedNext

\* The coordinator's loop runs on a timeout of its own.
HotFairness == WF_hotVars(Coordinator)
HotSpec == HotInit /\ [][HotNext]_hotVars /\ HotFairness

----------------------------------------------------------------------------
\* Types; the generations never run past the edits (HotReloadState).
HotTypeOK ==
    /\ file \in Contents /\ stamp \in 0..MaxEdits /\ notices \in BOOLEAN /\ hup \in BOOLEAN
    /\ coord \in [pc : {"boot", "register", "mark", "load", "apply", "bump", "wait"},
                   mode : {"none", "notify", "poll"}, seen : 0..MaxEdits, loaded : Contents,
                   todo : SUBSET {"llm", "embed"}, up : BOOLEAN]
    /\ snapshot \in Configs \cup {Absent}
    /\ gens \in [llm : Gens, embed : Gens]
    /\ router \in LlmParts \cup {Absent}
    /\ worker \in [LlmWorkers -> [pc : {"idle", "claimed", "read", "build", "check", "run"}, gen : Gens,
                                  llm : LlmParts \cup {Absent}, seen : Gens]]
    /\ cached \in [gen : Gens, embed : EmbedParts \cup {Absent}]
    /\ caller \in [EmbedCallers -> [pc : {"idle", "lock", "locked", "install", "use"},
                                    gen : Gens, embed : EmbedParts \cup {Absent}]]

\* "LLM workers subscribe to this to cancel in-flight requests and restart with
\* the new config": a worker whose router was not built from the current LLM
\* fields has a change to wake up for, now or as soon as the coordinator bumps
\* the generation it has just stored a snapshot for.  Likewise a cached embedding
\* client that callers take without a look at the configuration was built from
\* the current embedding fields.
StaleClientIsTold ==
    /\ \A w \in LlmWorkers :
          worker[w].pc = "run" /\ worker[w].llm # LlmOf[snapshot]
              => worker[w].seen # gens.llm \/ "llm" \in coord.todo
    /\ cached.embed # Absent /\ cached.gen = gens.embed /\ "embed" \notin coord.todo
          => cached.embed = EmbedOf[snapshot]

\* The last valid contents of the file become the snapshot: no edit is lost
\* between load, registration, crash of the watch, debounce and the next poll.
ConfigCatchesUp == <>[](file # Bad => snapshot = file)
=============================================================================
