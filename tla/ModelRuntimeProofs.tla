------------------------- MODULE ModelRuntimeProofs -------------------------
(***************************************************************************)
(* Hot reload and the pool of endpoints for every set of configurations,   *)
(* workers, callers and calls, and every number of endpoints and permits:  *)
(* no client outlives its configuration unnoticed, and no permit is lost.  *)
(***************************************************************************)
EXTENDS HotReload, EndpointPool, SequenceTheorems, FiniteSetTheorems, TLAPS

----------------------------------------------------------------------------
\* Hot reload.

WorkerState == [pc : {"idle", "claimed", "read", "build", "check", "run"}, gen : Nat,
                llm : LlmParts \cup {Absent}, seen : Nat]
CallerState == [pc : {"idle", "lock", "locked", "install", "use"}, gen : Nat,
                embed : EmbedParts \cup {Absent}]
CoordState == [pc : {"boot", "register", "mark", "load", "apply", "bump", "wait"},
               mode : {"none", "notify", "poll"}, seen : Nat, loaded : Contents,
               todo : SUBSET {"llm", "embed"}, up : BOOLEAN]

HotTyped ==
    /\ file \in Contents /\ stamp \in Nat /\ coord \in CoordState
    /\ snapshot \in Configs \cup {Absent} /\ gens \in [llm : Nat, embed : Nat]
    /\ worker \in [LlmWorkers -> WorkerState]
    /\ cached \in [gen : Nat, embed : EmbedParts \cup {Absent}]
    /\ caller \in [EmbedCallers -> CallerState]

\* The followers start after the first load, and a change is announced before the
\* next one is loaded.
BootInv ==
    /\ coord.pc # "boot" => snapshot \in Configs
    /\ coord.pc = "boot" => ~coord.up
    /\ coord.pc # "bump" => coord.todo = {}
    /\ ~coord.up => /\ \A w \in LlmWorkers : worker[w].pc = "idle"
                    /\ \A e \in EmbedCallers : caller[e].pc = "idle"
                    /\ cached.embed = Absent

\* What was built from the configuration after generation gen was read is current,
\* or a newer generation is there or is about to be announced.
CurrentLlm(gen, llm) == gen < gens.llm \/ "llm" \in coord.todo \/ llm = LlmOf[snapshot]
CurrentEmbed(gen, embed) == gen < gens.embed \/ "embed" \in coord.todo \/ embed = EmbedOf[snapshot]

WorkerInv ==
    \A w \in LlmWorkers :
        /\ worker[w].gen <= gens.llm
        /\ worker[w].pc \in {"build", "check", "run"} => CurrentLlm(worker[w].gen, worker[w].llm)
        /\ worker[w].pc = "run" => worker[w].seen = worker[w].gen

CallerInv ==
    /\ \A e \in EmbedCallers :
        /\ caller[e].gen <= gens.embed
        /\ caller[e].pc = "install" => CurrentEmbed(caller[e].gen, caller[e].embed)
    /\ cached.gen <= gens.embed
    /\ cached.embed # Absent => CurrentEmbed(cached.gen, cached.embed)

HotInv == HotTyped /\ BootInv /\ WorkerInv /\ CallerInv

\* The invariant holds at the start.
LEMMA InitHotInv == HotInit => HotInv
<1> SUFFICES ASSUME HotInit PROVE HotInv
    OBVIOUS
<1>1. HotTyped
    BY DEF HotInit, HotTyped, Contents, CoordState, WorkerState, CallerState, NoWork, NoCall
<1>2. BootInv /\ WorkerInv /\ CallerInv
    BY DEF HotInit, BootInv, WorkerInv, CallerInv, NoWork, NoCall
<1> QED
    BY <1>1, <1>2 DEF HotInv

\* The coordinator stores a snapshot or announces it.
LEMMA ReloadKeepsHotInv == ASSUME HotInv, ReloadNext PROVE HotInv'
<1>0. /\ HotTyped /\ coord \in CoordState /\ UNCHANGED <<worker, caller, cached, router>>
    BY DEF HotInv, HotTyped, ReloadNext, Edit, Hangup, Coordinator, BootLoad, Register, Notice, Poll,
           TakeHangup, Mark, Load, Apply, Bump, Settle, WatcherCrash
<1>1. ASSUME UNCHANGED <<snapshot, gens>>, file' \in Contents, stamp' \in Nat, coord' \in CoordState,
             coord'.todo = coord.todo, coord'.up = coord.up \/ (coord'.up /\ coord.pc # "boot"),
             coord'.pc # "boot" => coord.pc # "boot", coord'.pc = "boot" => ~coord'.up,
             coord'.pc # "bump" => coord.todo = {}
      PROVE  HotInv'
  <2>1. HotTyped' /\ BootInv'
      BY <1>0, <1>1 DEF HotInv, HotTyped, BootInv
  <2>2. WorkerInv' /\ CallerInv'
      BY <1>0, <1>1 DEF HotInv, WorkerInv, CallerInv, CurrentLlm, CurrentEmbed
  <2> QED
      BY <2>1, <2>2 DEF HotInv
<1>2. CASE (\E c \in Contents : Edit(c)) \/ Hangup
    BY <1>0, <1>1, <1>2 DEF Edit, Hangup, HotInv, HotTyped, BootInv
<1>3. CASE Register \/ Notice \/ Poll \/ TakeHangup \/ WatcherCrash \/ Mark \/ Load \/ Settle
  <2>1. UNCHANGED <<file, stamp, snapshot, gens>> /\ coord.pc # "boot" /\ coord.todo = {}
      BY <1>3 DEF Register, Notice, Poll, TakeHangup, WatcherCrash, Mark, Load, Settle, HotInv, BootInv
  <2>2. /\ coord' \in CoordState /\ coord'.todo = coord.todo /\ coord'.pc \in {"mark", "load", "apply", "wait"}
        /\ coord'.up = coord.up \/ coord'.up
    <3>0. file \in Contents /\ stamp \in Nat
        BY <1>0 DEF HotTyped
    <3>1. \/ \E m \in {"notify", "poll"} : coord' = [coord EXCEPT !.pc = "mark", !.mode = m]
          \/ coord' = [coord EXCEPT !.pc = "mark"]
          \/ coord' = [coord EXCEPT !.pc = "mark", !.seen = stamp]
          \/ coord' = [coord EXCEPT !.mode = "poll"] /\ coord.pc = "wait"
          \/ coord' = [coord EXCEPT !.pc = "load", !.seen = stamp]
          \/ coord' = [coord EXCEPT !.pc = "apply", !.loaded = file]
          \/ coord' = [coord EXCEPT !.pc = "wait", !.up = TRUE]
        BY <1>3 DEF Register, Notice, Poll, TakeHangup, WatcherCrash, Mark, Load, Settle
    <3> QED
        BY <1>0, <3>0, <3>1 DEF CoordState
  <2> QED
      BY <1>0, <1>1, <2>1, <2>2 DEF HotTyped
<1>4. CASE BootLoad
  <2>1. /\ coord.pc = "boot" /\ snapshot' = file /\ file \in Configs /\ UNCHANGED <<file, stamp, gens>>
        /\ coord' = [coord EXCEPT !.pc = "register"] /\ ~coord.up /\ coord.todo = {}
      BY <1>0, <1>4 DEF BootLoad, HotTyped, Contents, HotInv, BootInv
  <2>2. coord' \in CoordState /\ coord'.pc = "register" /\ coord'.todo = {} /\ ~coord'.up
      BY <1>0, <2>1 DEF CoordState
  <2>3. HotTyped' /\ BootInv'
      BY <1>0, <2>1, <2>2 DEF HotInv, HotTyped, BootInv
  <2>4. WorkerInv' /\ CallerInv'
      BY <1>0, <2>1, <2>2 DEF HotInv, BootInv, WorkerInv, CallerInv
  <2> QED
      BY <2>3, <2>4 DEF HotInv
<1>5. CASE Apply
  <2> DEFINE new == IF coord.loaded = Bad THEN snapshot ELSE coord.loaded
  <2>1. /\ coord.pc = "apply" /\ snapshot' = new /\ UNCHANGED <<file, stamp, gens>>
        /\ coord' = [coord EXCEPT !.pc = "bump", !.todo = Moved(snapshot, new), !.loaded = Bad]
      BY <1>5 DEF Apply
  <2>2. new \in Configs /\ coord.todo = {}
      BY <1>0, <2>1 DEF HotInv, BootInv, CoordState, Contents
  <2>3. /\ Moved(snapshot, new) \in SUBSET {"llm", "embed"}
        /\ "llm" \in Moved(snapshot, new) \/ LlmOf[snapshot] = LlmOf[new]
        /\ "embed" \in Moved(snapshot, new) \/ EmbedOf[snapshot] = EmbedOf[new]
      BY DEF Moved
  <2> HIDE DEF new
  <2>4. coord' \in CoordState /\ coord'.pc = "bump" /\ coord'.todo = Moved(snapshot, new) /\ coord'.up = coord.up
      BY <1>0, <2>1, <2>3 DEF CoordState, Contents
  <2>5. HotTyped' /\ BootInv'
      BY <1>0, <2>1, <2>2, <2>4 DEF HotInv, HotTyped, BootInv
  <2>6. WorkerInv' /\ CallerInv'
      BY <1>0, <2>1, <2>2, <2>3, <2>4 DEF HotInv, WorkerInv, CallerInv, CurrentLlm, CurrentEmbed
  <2> QED
      BY <2>5, <2>6 DEF HotInv
<1>6. ASSUME NEW k \in {"llm", "embed"}, Bump(k) PROVE HotInv'
  <2>1. /\ coord.pc = "bump" /\ k \in coord.todo /\ UNCHANGED <<file, stamp, snapshot>>
        /\ gens' = [gens EXCEPT ![k] = @ + 1] /\ coord' = [coord EXCEPT !.todo = @ \ {k}]
      BY <1>6 DEF Bump
  <2>2. coord' \in CoordState /\ coord'.pc = "bump" /\ coord'.todo = coord.todo \ {k} /\ coord'.up = coord.up
      BY <1>0, <2>1 DEF CoordState
  <2>3. /\ gens' \in [llm : Nat, embed : Nat]
        /\ k = "llm" => gens'.llm = gens.llm + 1 /\ gens'.embed = gens.embed
        /\ k = "embed" => gens'.embed = gens.embed + 1 /\ gens'.llm = gens.llm
      BY <1>0, <2>1 DEF HotTyped
  <2>4. HotTyped' /\ BootInv'
      BY <1>0, <2>1, <2>2, <2>3 DEF HotInv, HotTyped, BootInv
  <2>5. \A w \in LlmWorkers : worker[w].gen \in Nat
      BY <1>0 DEF HotTyped, WorkerState
  <2>6. WorkerInv'
      BY <1>0, <2>1, <2>2, <2>3, <2>5 DEF HotInv, HotTyped, WorkerInv, CurrentLlm
  <2>7. cached.gen \in Nat /\ \A e \in EmbedCallers : caller[e].gen \in Nat
      BY <1>0 DEF HotTyped, CallerState
  <2>8. CallerInv'
      BY <1>0, <2>1, <2>2, <2>3, <2>7 DEF HotInv, HotTyped, CallerInv, CurrentEmbed
  <2> QED
      BY <2>4, <2>6, <2>8 DEF HotInv
<1> QED
    BY <1>2, <1>3, <1>4, <1>5, <1>6 DEF ReloadNext, Coordinator

\* A worker moves: it keeps the invariant if what it becomes does.
LEMMA WorkerMoves ==
    ASSUME HotInv, NEW w \in LlmWorkers, NEW r \in WorkerState, coord.up, SetWorker(w, r),
           r.gen <= gens.llm,
           r.pc \in {"build", "check", "run"} => CurrentLlm(r.gen, r.llm),
           r.pc = "run" => r.seen = r.gen
    PROVE  HotInv'
<1>1. /\ UNCHANGED <<file, stamp, coord, snapshot, gens, cached, caller>>
      /\ worker \in [LlmWorkers -> WorkerState] /\ worker' = [worker EXCEPT ![w] = r]
    BY DEF SetWorker, HotInv, HotTyped
<1>2. worker' \in [LlmWorkers -> WorkerState] /\ \A x \in LlmWorkers : worker'[x] = IF x = w THEN r ELSE worker[x]
    BY <1>1
<1>3. HotTyped' /\ BootInv'
    BY <1>1, <1>2 DEF HotInv, HotTyped, BootInv
<1>4. WorkerInv' /\ CallerInv'
    BY <1>1, <1>2 DEF HotInv, WorkerInv, CallerInv, CurrentLlm, CurrentEmbed
<1> QED
    BY <1>3, <1>4 DEF HotInv

\* The workers read the generation before the configuration.
LEMMA LlmKeepsHotInv == ASSUME HotInv, LlmNext PROVE HotInv'
<1>1. PICK w \in LlmWorkers : Claim(w) \/ ReadGeneration(w) \/ ReadConfig(w) \/ Build(w) \/ BuildFails(w)
                              \/ Check(w) \/ Finish(w)
    BY DEF LlmNext
<1>2. /\ worker[w] \in WorkerState /\ gens.llm \in Nat /\ worker[w].gen \in Nat /\ worker[w].seen \in Nat
      /\ worker[w].llm \in LlmParts \cup {Absent}
    BY DEF HotInv, HotTyped, WorkerState
<1>3. coord.up /\ snapshot \in Configs
  <2>1. coord.up
      BY <1>1 DEF Claim, ReadGeneration, ReadConfig, Build, BuildFails, Check, Finish, HotInv, BootInv
  <2> QED
      BY <2>1 DEF HotInv, BootInv
<1>4. /\ worker[w].gen <= gens.llm
      /\ worker[w].pc \in {"build", "check", "run"} => CurrentLlm(worker[w].gen, worker[w].llm)
    BY DEF HotInv, WorkerInv
<1>5. CASE Claim(w)
  <2> DEFINE r == [worker[w] EXCEPT !.pc = "claimed"]
  <2>1. SetWorker(w, r)
      BY <1>5 DEF Claim
  <2>2. r \in WorkerState /\ r.gen = worker[w].gen /\ r.pc = "claimed"
      BY <1>2 DEF WorkerState
  <2> QED
      BY <1>3, <1>4, <2>1, <2>2, WorkerMoves
<1>6. CASE ReadGeneration(w)
  <2> DEFINE r == [worker[w] EXCEPT !.pc = "read", !.gen = gens.llm]
  <2>1. SetWorker(w, r)
      BY <1>6 DEF ReadGeneration
  <2>2. r \in WorkerState /\ r.gen = gens.llm /\ r.pc = "read"
      BY <1>2 DEF WorkerState
  <2>3. r.gen <= gens.llm
      BY <1>2, <2>2
  <2> QED
      BY <1>3, <2>1, <2>2, <2>3, WorkerMoves
<1>7. CASE ReadConfig(w)
  <2>1. CASE LlmOf[snapshot] = Off
    <3> DEFINE r == [worker[w] EXCEPT !.pc = "idle", !.gen = 0, !.llm = Absent]
    <3>1. SetWorker(w, r)
        BY <1>7, <2>1 DEF ReadConfig
    <3>2. r \in WorkerState /\ r.gen = 0 /\ r.pc = "idle"
        BY <1>2 DEF WorkerState
    <3>3. r.gen <= gens.llm
        BY <1>2, <3>2
    <3> QED
        BY <1>3, <3>1, <3>2, <3>3, WorkerMoves
  <2>2. CASE LlmOf[snapshot] # Off
    <3> DEFINE r == [worker[w] EXCEPT !.pc = "build", !.llm = LlmOf[snapshot]]
    <3>1. SetWorker(w, r)
        BY <1>7, <2>2 DEF ReadConfig
    <3>2. LlmOf[snapshot] \in LlmParts
        BY <1>3, <2>2 DEF LlmParts
    <3>3. r \in WorkerState /\ r.gen = worker[w].gen /\ r.pc = "build" /\ r.llm = LlmOf[snapshot]
        BY <1>2, <3>2 DEF WorkerState
    <3>4. CurrentLlm(r.gen, r.llm)
        BY <3>3 DEF CurrentLlm
    <3> QED
        BY <1>3, <1>4, <3>1, <3>3, <3>4, WorkerMoves
  <2> QED
      BY <2>1, <2>2
<1>8. CASE Build(w)
  <2>1. RouterFor(worker[w].llm) = worker[w].llm
      BY DEF RouterFor
  <2> DEFINE r == [worker[w] EXCEPT !.pc = "check", !.llm = RouterFor(worker[w].llm)]
  <2>2. SetWorker(w, r) /\ worker[w].pc = "build"
      BY <1>8 DEF Build
  <2>3. r \in WorkerState /\ r.gen = worker[w].gen /\ r.pc = "check" /\ r.llm = worker[w].llm
      BY <1>2, <2>1 DEF WorkerState
  <2> QED
      BY <1>3, <1>4, <2>2, <2>3, WorkerMoves
<1>9. CASE BuildFails(w)
  <2> DEFINE r == [worker[w] EXCEPT !.pc = "idle", !.gen = 0, !.llm = Absent]
  <2>1. SetWorker(w, r)
      BY <1>9 DEF BuildFails
  <2>2. r \in WorkerState /\ r.gen = 0 /\ r.pc = "idle"
      BY <1>2 DEF WorkerState
  <2>3. r.gen <= gens.llm
      BY <1>2, <2>2
  <2> QED
      BY <1>3, <2>1, <2>2, <2>3, WorkerMoves
<1>10. CASE Check(w)
  <2>0. worker[w].pc = "check"
      BY <1>10 DEF Check
  <2>1. CASE gens.llm = worker[w].gen
    <3> DEFINE r == [worker[w] EXCEPT !.pc = "run", !.seen = gens.llm]
    <3>1. SetWorker(w, r)
        BY <1>10, <2>1 DEF Check
    <3>2. r \in WorkerState /\ r.gen = worker[w].gen /\ r.pc = "run" /\ r.llm = worker[w].llm /\ r.seen = r.gen
        BY <1>2, <2>1 DEF WorkerState
    <3> QED
        BY <1>3, <1>4, <2>0, <3>1, <3>2, WorkerMoves
  <2>2. CASE gens.llm # worker[w].gen
    <3> DEFINE r == [NoWork EXCEPT !.pc = "claimed", !.seen = gens.llm]
    <3>1. SetWorker(w, r)
        BY <1>10, <2>2 DEF Check
    <3>2. r \in WorkerState /\ r.gen = 0 /\ r.pc = "claimed"
        BY <1>2 DEF WorkerState, NoWork
    <3>3. r.gen <= gens.llm
        BY <1>2, <3>2
    <3> QED
        BY <1>3, <3>1, <3>2, <3>3, WorkerMoves
  <2> QED
      BY <2>1, <2>2
<1>11. CASE Finish(w)
  <2>1. PICK n \in {worker[w].seen, gens.llm} :
           SetWorker(w, [pc |-> "idle", gen |-> 0, llm |-> Absent, seen |-> n])
      BY <1>11 DEF Finish
  <2> DEFINE r == [pc |-> "idle", gen |-> 0, llm |-> Absent, seen |-> n]
  <2>2. SetWorker(w, r)
      BY <2>1
  <2>3. r \in WorkerState /\ r.gen = 0 /\ r.pc = "idle"
      BY <1>2 DEF WorkerState
  <2>4. r.gen <= gens.llm
      BY <1>2, <2>3
  <2> QED
      BY <1>3, <2>2, <2>3, <2>4, WorkerMoves
<1> QED
    BY <1>1, <1>5, <1>6, <1>7, <1>8, <1>9, <1>10, <1>11

\* A caller moves, and may install a client.
LEMMA CallerMoves ==
    ASSUME HotInv, NEW e \in EmbedCallers, NEW r \in CallerState, coord.up, SetCaller(e, r),
           r.gen <= gens.embed,
           r.pc = "install" => CurrentEmbed(r.gen, r.embed),
           \/ cached' = cached
           \/ /\ cached' \in [gen : Nat, embed : EmbedParts \cup {Absent}] /\ cached'.gen <= gens.embed
              /\ CurrentEmbed(cached'.gen, cached'.embed)
    PROVE  HotInv'
<1>1. /\ UNCHANGED <<file, stamp, coord, snapshot, gens, worker>>
      /\ caller \in [EmbedCallers -> CallerState] /\ caller' = [caller EXCEPT ![e] = r]
    BY DEF SetCaller, HotInv, HotTyped
<1>2. caller' \in [EmbedCallers -> CallerState] /\ \A x \in EmbedCallers : caller'[x] = IF x = e THEN r ELSE caller[x]
    BY <1>1
<1>3. HotTyped' /\ BootInv'
    BY <1>1, <1>2 DEF HotInv, HotTyped, BootInv
<1>4. WorkerInv' /\ CallerInv'
    BY <1>1, <1>2 DEF HotInv, WorkerInv, CallerInv, CurrentLlm, CurrentEmbed
<1> QED
    BY <1>3, <1>4 DEF HotInv

\* The callers label a client with the generation they read before the configuration.
LEMMA EmbedKeepsHotInv == ASSUME HotInv, EmbedNext PROVE HotInv'
<1>1. PICK e \in EmbedCallers : EmbedBegin(e) \/ EmbedLock(e) \/ EmbedRead(e) \/ EmbedBuildFails(e)
                                \/ EmbedInstall(e) \/ EmbedEnd(e)
    BY DEF EmbedNext
<1>2. /\ caller[e] \in CallerState /\ gens.embed \in Nat /\ caller[e].gen \in Nat
      /\ caller[e].embed \in EmbedParts \cup {Absent} /\ cached.embed \in EmbedParts \cup {Absent}
    BY DEF HotInv, HotTyped, CallerState
<1>3. coord.up /\ snapshot \in Configs
  <2>1. coord.up
      BY <1>1 DEF EmbedBegin, EmbedLock, EmbedRead, EmbedBuildFails, EmbedInstall, EmbedEnd, HotInv, BootInv
  <2> QED
      BY <2>1 DEF HotInv, BootInv
<1>4. /\ caller[e].gen <= gens.embed
      /\ caller[e].pc = "install" => CurrentEmbed(caller[e].gen, caller[e].embed)
    BY DEF HotInv, CallerInv
<1>5. CASE EmbedBegin(e)
  <2>1. PICK p \in {"use", "lock"}, x \in EmbedParts \cup {Absent} :
           SetCaller(e, [pc |-> p, gen |-> gens.embed, embed |-> x])
      BY <1>2, <1>5 DEF EmbedBegin
  <2> DEFINE r == [pc |-> p, gen |-> gens.embed, embed |-> x]
  <2>2. SetCaller(e, r) /\ cached' = cached
      BY <1>5, <2>1 DEF EmbedBegin
  <2>3. r \in CallerState /\ r.gen = gens.embed /\ r.pc # "install"
      BY <1>2 DEF CallerState
  <2>4. r.gen <= gens.embed
      BY <1>2, <2>3
  <2> QED
      BY <1>3, <2>2, <2>3, <2>4, CallerMoves
<1>6. CASE EmbedLock(e)
  <2>1. /\ \/ SetCaller(e, [caller[e] EXCEPT !.pc = "use", !.embed = cached.embed])
           \/ SetCaller(e, [caller[e] EXCEPT !.pc = "locked"])
        /\ cached' = cached
      BY <1>6 DEF EmbedLock
  <2>2. PICK r : SetCaller(e, r) /\ (\/ r = [caller[e] EXCEPT !.pc = "use", !.embed = cached.embed]
                                     \/ r = [caller[e] EXCEPT !.pc = "locked"])
      BY <2>1
  <2>3. r \in CallerState /\ r.gen = caller[e].gen /\ r.pc # "install"
      BY <1>2, <2>2 DEF CallerState
  <2> QED
      BY <1>3, <1>4, <2>1, <2>2, <2>3, CallerMoves
<1>7. CASE EmbedRead(e)
  <2> DEFINE r == [caller[e] EXCEPT !.pc = "install", !.embed = EmbedOf[snapshot]]
  <2>1. SetCaller(e, r) /\ cached' = cached
      BY <1>7 DEF EmbedRead
  <2>2. EmbedOf[snapshot] \in EmbedParts
      BY <1>3 DEF EmbedParts
  <2>3. r \in CallerState /\ r.gen = caller[e].gen /\ r.embed = EmbedOf[snapshot]
      BY <1>2, <2>2 DEF CallerState
  <2>4. CurrentEmbed(r.gen, r.embed)
      BY <2>3 DEF CurrentEmbed
  <2> QED
      BY <1>3, <1>4, <2>1, <2>3, <2>4, CallerMoves
<1>8. CASE EmbedBuildFails(e) \/ EmbedEnd(e)
  <2>1. SetCaller(e, NoCall) /\ cached' = cached
      BY <1>8 DEF EmbedBuildFails, EmbedEnd
  <2>2. NoCall \in CallerState /\ NoCall.gen <= gens.embed /\ NoCall.pc = "idle"
      BY <1>2 DEF CallerState, NoCall
  <2> QED
      BY <1>3, <2>1, <2>2, CallerMoves
<1>9. CASE EmbedInstall(e)
  <2> DEFINE r == [caller[e] EXCEPT !.pc = "use"]
  <2>1. /\ SetCaller(e, r) /\ caller[e].pc = "install"
        /\ cached' = [gen |-> caller[e].gen, embed |-> caller[e].embed]
      BY <1>9 DEF EmbedInstall, Label
  <2>2. r \in CallerState /\ r.gen = caller[e].gen /\ r.pc = "use"
      BY <1>2 DEF CallerState
  <2>3. /\ cached' \in [gen : Nat, embed : EmbedParts \cup {Absent}] /\ cached'.gen <= gens.embed
        /\ CurrentEmbed(cached'.gen, cached'.embed)
    <3>1. CurrentEmbed(caller[e].gen, caller[e].embed)
        BY <1>4, <2>1
    <3>2. cached'.gen = caller[e].gen /\ cached'.embed = caller[e].embed
        BY <2>1
    <3> QED
        BY <1>2, <1>4, <2>1, <3>1, <3>2
  <2> QED
      BY <1>3, <1>4, <2>1, <2>2, <2>3, CallerMoves
<1> QED
    BY <1>1, <1>5, <1>6, <1>7, <1>8, <1>9

\* Every step of hot reload and its followers keeps the invariant.
LEMMA NextHotInv == HotInv /\ [HotNext]_hotVars => HotInv'
<1> SUFFICES ASSUME HotInv, [HotNext]_hotVars PROVE HotInv'
    OBVIOUS
<1>1. CASE UNCHANGED hotVars
    BY <1>1 DEF hotVars, HotInv, HotTyped, BootInv, WorkerInv, CallerInv, CurrentLlm, CurrentEmbed
<1> QED
    BY <1>1, ReloadKeepsHotInv, LlmKeepsHotInv, EmbedKeepsHotInv DEF HotNext

\* A worker that runs on a router of older LLM fields has a change to wake up for, and
\* no cached embedding client of older fields passes for current.
THEOREM HotStaleClientIsTold == HotSpec => []StaleClientIsTold
<1>1. HotInv => StaleClientIsTold
  <2> SUFFICES ASSUME HotInv PROVE StaleClientIsTold
      OBVIOUS
  <2>1. /\ \A w \in LlmWorkers : worker[w].gen \in Nat
        /\ gens.llm \in Nat /\ gens.embed \in Nat /\ cached.gen \in Nat
      BY DEF HotInv, HotTyped, WorkerState
  <2> QED
      BY <2>1 DEF HotInv, WorkerInv, CallerInv, CurrentLlm, CurrentEmbed, StaleClientIsTold
<1> QED
    BY <1>1, InitHotInv, NextHotInv, PTL DEF HotSpec

----------------------------------------------------------------------------
\* The pool of endpoints.

CallState == [pc : Pcs, at : 0..Lowest + 1, sat : 0..Lowest, cooled : BOOLEAN, n : 0..Threshold]

\* A call that looks at, holds, queues for or reports on an endpoint knows which.
Placed(r) ==
    /\ r.pc \in {"try", "send", "mark", "queued", "waited", "clear"} => r.at \in Endpoints
    /\ r.pc = "look" => r.at # 0
PoolTyped ==
    /\ free \in [Endpoints -> Nat] /\ line \in [Endpoints -> Seq(Calls)]
    /\ call \in [Calls -> CallState] /\ fails \in 0..Threshold
    /\ \A c \in Calls : Placed(call[c])

\* Calls queue once, for the endpoint they know.
LineInv ==
    \A e \in Endpoints :
        /\ \A i, j \in DOMAIN line[e] : line[e][i] = line[e][j] => i = j
        /\ \A i \in DOMAIN line[e] : call[line[e][i]].pc = "queued" /\ call[line[e][i]].at = e
        /\ \A c \in Calls : call[c].pc = "queued" /\ call[c].at = e => \E i \in DOMAIN line[e] : line[e][i] = c

\* Permits are free or held, and nobody queues while one is free.
PermitInv ==
    \A e \in Endpoints :
        /\ IsFiniteSet(Holders(e)) /\ free[e] + Cardinality(Holders(e)) = Capacity[e]
        /\ line[e] # << >> => free[e] = 0

PoolInv == PoolTyped /\ LineInv /\ PermitInv

Has(c) == call[c].pc \in {"send", "waited"}
Queues(c) == call[c].pc = "queued"

\* A line after its last call joined, after its first and after one of them left.
LEMMA LineEnds ==
    ASSUME NEW S, NEW s \in Seq(S)
    PROVE  /\ Len(s) \in Nat /\ DOMAIN s = 1..Len(s) /\ (s = << >> <=> Len(s) = 0)
           /\ \A x \in S : /\ Append(s, x) \in Seq(S) /\ DOMAIN Append(s, x) = 1..Len(s) + 1
                           /\ \A i \in 1..Len(s) : Append(s, x)[i] = s[i]
                           /\ Append(s, x)[Len(s) + 1] = x
           /\ s # << >> => /\ Tail(s) \in Seq(S) /\ DOMAIN Tail(s) = 1..Len(s) - 1 /\ Head(s) = s[1]
                           /\ \A i \in 1..Len(s) - 1 : Tail(s)[i] = s[i + 1]
<1>1. Len(s) \in Nat /\ DOMAIN s = 1..Len(s) /\ (s = << >> <=> Len(s) = 0)
    BY LenProperties, EmptySeq, SeqEqual
<1>2. ASSUME NEW x \in S
      PROVE  /\ Append(s, x) \in Seq(S) /\ DOMAIN Append(s, x) = 1..Len(s) + 1
             /\ \A i \in 1..Len(s) : Append(s, x)[i] = s[i]
             /\ Append(s, x)[Len(s) + 1] = x
    BY <1>1, AppendProperties, LenProperties
<1>3. ASSUME s # << >>
      PROVE  /\ Tail(s) \in Seq(S) /\ DOMAIN Tail(s) = 1..Len(s) - 1 /\ Head(s) = s[1]
             /\ \A i \in 1..Len(s) - 1 : Tail(s)[i] = s[i + 1]
    BY <1>1, <1>3, HeadTailProperties, LenProperties
<1> QED
    BY <1>1, <1>2, <1>3

\* The one at i leaves.
LEMMA LineWithout ==
    ASSUME NEW S, NEW s \in Seq(S), NEW i \in DOMAIN s
    PROVE  /\ RemoveAt(s, i) \in Seq(S) /\ DOMAIN RemoveAt(s, i) = 1..Len(s) - 1
           /\ \A j \in 1..Len(s) - 1 : RemoveAt(s, i)[j] = IF j < i THEN s[j] ELSE s[j + 1]
<1>1. Len(s) \in Nat /\ i \in 1..Len(s)
    BY LenProperties
<1> DEFINE a == SubSeq(s, 1, i - 1)
           b == SubSeq(s, i + 1, Len(s))
<1>2. /\ a \in Seq(S) /\ Len(a) = i - 1 /\ \A j \in 1..i - 1 : a[j] = s[j]
    BY <1>1, SubSeqProperties
<1>3. /\ b \in Seq(S) /\ Len(b) = Len(s) - i /\ \A j \in 1..Len(s) - i : b[j] = s[i + j]
    BY <1>1, SubSeqProperties
<1> HIDE DEF a, b
<1>4. /\ a \o b \in Seq(S) /\ Len(a \o b) = Len(s) - 1
      /\ \A j \in 1..Len(s) - 1 : (a \o b)[j] = IF j < i THEN s[j] ELSE s[j + 1]
    BY <1>1, <1>2, <1>3, ConcatProperties, SMTT(60)
<1>5. RemoveAt(s, i) = a \o b
    BY DEF RemoveAt, a, b
<1> QED
    BY <1>4, <1>5, LenProperties

\* A step on which every call keeps its permit and its place.
LEMMA NeutralKeepsPoolInv ==
    ASSUME PoolInv, PoolTyped', free' = free, line' = line,
           \A c \in Calls : /\ Has(c)' <=> Has(c)
                            /\ Queues(c)' <=> Queues(c)
                            /\ Has(c) \/ Queues(c) => At(c)' = At(c)
    PROVE  PoolInv'
<1>1. \A e \in Endpoints : Holders(e)' = Holders(e)
    BY DEF Holders, Has
<1>2. PermitInv'
    BY <1>1 DEF PoolInv, PermitInv
<1>3. LineInv'
    BY DEF PoolInv, LineInv, PoolTyped, Queues, At
<1> QED
    BY <1>2, <1>3 DEF PoolInv

\* One call moves and the others stay.
LEMMA OneCall ==
    ASSUME PoolInv, NEW c \in Calls, NEW r \in CallState, Placed(r), call' = [call EXCEPT ![c] = r]
    PROVE  /\ call' \in [Calls -> CallState] /\ call'[c] = r
           /\ \A o \in Calls \ {c} : call'[o] = call[o]
           /\ \A o \in Calls : Placed(call'[o])
BY DEF PoolInv, PoolTyped

\* A permit is taken.
LEMMA TakeKeepsPoolInv ==
    ASSUME PoolInv, NEW c \in Calls, NEW e \in Endpoints, NEW r \in CallState, Placed(r),
           r.pc \in {"send", "waited"}, r.at = e, ~Has(c), ~Queues(c), free[e] > 0,
           call' = [call EXCEPT ![c] = r], free' = [free EXCEPT ![e] = @ - 1],
           line' = line, fails' = fails
    PROVE  PoolInv'
<1>1. /\ call' \in [Calls -> CallState] /\ call'[c] = r /\ \A o \in Calls \ {c} : call'[o] = call[o]
      /\ \A o \in Calls : Placed(call'[o])
    BY OneCall
<1>2. free' \in [Endpoints -> Nat] /\ free'[e] = free[e] - 1 /\ \A x \in Endpoints \ {e} : free'[x] = free[x]
    BY DEF PoolInv, PoolTyped
<1>3. PoolTyped'
    BY <1>1, <1>2 DEF PoolInv, PoolTyped
<1>4. Holders(e)' = Holders(e) \cup {c} /\ c \notin Holders(e) /\ \A x \in Endpoints \ {e} : Holders(x)' = Holders(x)
    BY <1>1 DEF Holders, Has, At
<1>5. PermitInv'
  <2>1. line[e] = << >>
      BY DEF PoolInv, PermitInv, PoolTyped
  <2>2. IsFiniteSet(Holders(e)') /\ Cardinality(Holders(e)') = Cardinality(Holders(e)) + 1
      BY <1>4, FS_AddElement DEF PoolInv, PermitInv
  <2>3. Cardinality(Holders(e)) \in Nat
      BY FS_CardinalityType DEF PoolInv, PermitInv
  <2>4. free'[e] + Cardinality(Holders(e)') = Capacity[e]
      BY <1>2, <2>2, <2>3 DEF PoolInv, PermitInv, PoolTyped
  <2> QED
      BY <1>2, <1>4, <2>1, <2>2, <2>4, ZenonT(60) DEF PoolInv, PermitInv
<1>6. LineInv'
    BY <1>1 DEF PoolInv, PoolTyped, LineInv, Queues
<1> QED
    BY <1>3, <1>5, <1>6 DEF PoolInv

\* A call joins the line.
LEMMA JoinKeepsPoolInv ==
    ASSUME PoolInv, NEW c \in Calls, NEW e \in Endpoints, NEW r \in CallState, Placed(r),
           r.pc = "queued", r.at = e, ~Has(c), ~Queues(c), ~(free[e] > 0),
           call' = [call EXCEPT ![c] = r], line' = [line EXCEPT ![e] = Append(@, c)],
           free' = free, fails' = fails
    PROVE  PoolInv'
<1>1. /\ call' \in [Calls -> CallState] /\ call'[c] = r /\ \A o \in Calls \ {c} : call'[o] = call[o]
      /\ \A o \in Calls : Placed(call'[o])
    BY OneCall
<1> DEFINE s == line[e]
<1>2. /\ s \in Seq(Calls) /\ Len(s) \in Nat /\ DOMAIN s = 1..Len(s)
      /\ line' \in [Endpoints -> Seq(Calls)] /\ DOMAIN line'[e] = 1..Len(s) + 1
      /\ \A i \in 1..Len(s) : line'[e][i] = s[i]
      /\ line'[e][Len(s) + 1] = c /\ \A x \in Endpoints \ {e} : line'[x] = line[x]
    BY LineEnds DEF PoolInv, PoolTyped
<1>3. PoolTyped'
    BY <1>1, <1>2 DEF PoolInv, PoolTyped
<1>4. \A x \in Endpoints : Holders(x)' = Holders(x)
    BY <1>1 DEF Holders, Has, At
<1>5. PermitInv'
  <2>1. free[e] = 0
      BY DEF PoolInv, PoolTyped
  <2> QED
      BY <1>2, <1>4, <2>1 DEF PoolInv, PermitInv
<1>6. LineInv'
  <2> SUFFICES ASSUME NEW x \in Endpoints
               PROVE  /\ \A i, j \in DOMAIN line'[x] : line'[x][i] = line'[x][j] => i = j
                      /\ \A i \in DOMAIN line'[x] : call'[line'[x][i]].pc = "queued" /\ call'[line'[x][i]].at = x
                      /\ \A o \in Calls : call'[o].pc = "queued" /\ call'[o].at = x =>
                            \E i \in DOMAIN line'[x] : line'[x][i] = o
      BY DEF LineInv
  <2>1. /\ \A i, j \in DOMAIN line[x] : line[x][i] = line[x][j] => i = j
        /\ \A i \in DOMAIN line[x] : line[x][i] \in Calls /\ call[line[x][i]].pc = "queued" /\ call[line[x][i]].at = x
        /\ \A o \in Calls : call[o].pc = "queued" /\ call[o].at = x => \E i \in DOMAIN line[x] : line[x][i] = o
      BY DEF PoolInv, PoolTyped, LineInv
  <2>2. CASE x # e
      BY <1>1, <1>2, <2>1, <2>2 DEF Queues
  <2>3. CASE x = e
    <3>1. \A i \in 1..Len(s) : line'[e][i] # c /\ line'[e][i] \in Calls
        BY <1>2, <2>1, <2>3 DEF Queues
    <3>2. \A i, j \in 1..Len(s) + 1 : line'[e][i] = line'[e][j] => i = j
        BY <1>2, <2>1, <2>3, <3>1, SMTT(60)
    <3>3. \A i \in 1..Len(s) + 1 : call'[line'[e][i]].pc = "queued" /\ call'[line'[e][i]].at = e
        BY <1>1, <1>2, <2>1, <2>3, <3>1
    <3>4. ASSUME NEW o \in Calls, call'[o].pc = "queued", call'[o].at = e
          PROVE  \E i \in 1..Len(s) + 1 : line'[e][i] = o
      <4>1. CASE o = c
          BY <1>2, <4>1
      <4>2. CASE o # c
        <5>1. PICK i \in 1..Len(s) : s[i] = o
            BY <1>1, <1>2, <2>1, <2>3, <3>4, <4>2
        <5> QED
            BY <1>2, <5>1
      <4> QED
          BY <4>1, <4>2
    <3> QED
        BY <1>2, <2>3, <3>2, <3>3, <3>4, SMTT(60)
  <2> QED
      BY <2>2, <2>3
<1> QED
    BY <1>3, <1>5, <1>6 DEF PoolInv

\* The waiter of a dropped call leaves the line.
LEMMA LeaveKeepsPoolInv ==
    ASSUME PoolInv, NEW c \in Calls, Queues(c), LeaveLine(c, At(c)), fails' = fails
    PROVE  PoolInv'
<1> DEFINE e == At(c)
           s == line[e]
<1>0. e \in Endpoints /\ Idle \in CallState /\ Placed(Idle) /\ Idle.pc = "idle"
    BY PoolAssumption DEF PoolInv, PoolTyped, Placed, Queues, At, Idle, CallState, Pcs
<1>1. /\ call' \in [Calls -> CallState] /\ call'[c].pc = "idle" /\ \A o \in Calls \ {c} : call'[o] = call[o]
      /\ \A o \in Calls : Placed(call'[o])
    BY <1>0, OneCall DEF LeaveLine
<1>2. PICK k \in DOMAIN s : s[k] = c /\ line' = [line EXCEPT ![e] = RemoveAt(@, k)]
    BY DEF LeaveLine
<1> HIDE DEF e, s
<1>3. /\ s \in Seq(Calls) /\ Len(s) \in Nat /\ DOMAIN s = 1..Len(s) /\ k \in 1..Len(s) /\ s = line[e]
    BY <1>0, <1>2, LineEnds DEF PoolInv, PoolTyped, s
<1>4. /\ line' \in [Endpoints -> Seq(Calls)] /\ DOMAIN line'[e] = 1..Len(s) - 1
      /\ \A j \in 1..Len(s) - 1 : line'[e][j] = IF j < k THEN s[j] ELSE s[j + 1]
      /\ \A x \in Endpoints \ {e} : line'[x] = line[x]
    BY <1>0, <1>2, <1>3, LineWithout DEF PoolInv, PoolTyped
<1>5. PoolTyped' /\ free' = free
    BY <1>1, <1>4 DEF LeaveLine, PoolInv, PoolTyped
<1>6. \A x \in Endpoints : Holders(x)' = Holders(x)
    BY <1>1 DEF Holders, Queues, At
<1>7. PermitInv'
  <2>1. s # << >>
      BY <1>3, LineEnds
  <2>2. free[e] = 0
      BY <1>0, <1>3, <2>1 DEF PoolInv, PermitInv
  <2> QED
      BY <1>4, <1>5, <1>6, <2>2 DEF PoolInv, PermitInv
<1>8. LineInv'
  <2> SUFFICES ASSUME NEW x \in Endpoints
               PROVE  /\ \A i, j \in DOMAIN line'[x] : line'[x][i] = line'[x][j] => i = j
                      /\ \A i \in DOMAIN line'[x] : call'[line'[x][i]].pc = "queued" /\ call'[line'[x][i]].at = x
                      /\ \A o \in Calls : call'[o].pc = "queued" /\ call'[o].at = x =>
                            \E i \in DOMAIN line'[x] : line'[x][i] = o
      BY DEF LineInv
  <2>1. /\ \A i, j \in DOMAIN line[x] : line[x][i] = line[x][j] => i = j
        /\ \A i \in DOMAIN line[x] : line[x][i] \in Calls /\ call[line[x][i]].pc = "queued" /\ call[line[x][i]].at = x
        /\ \A o \in Calls : call[o].pc = "queued" /\ call[o].at = x => \E i \in DOMAIN line[x] : line[x][i] = o
      BY DEF PoolInv, PoolTyped, LineInv
  <2>2. CASE x # e
    <3>1. \A i \in DOMAIN line[x] : line[x][i] # c
        BY <2>1, <2>2 DEF e, At
    <3> QED
        BY <1>1, <1>4, <2>1, <2>2, <3>1, SMTT(60)
  <2>3. CASE x = e
    <3> DEFINE old(i) == IF i < k THEN i ELSE i + 1
    <3>1. \A i \in 1..Len(s) - 1 : /\ old(i) \in 1..Len(s) /\ old(i) # k /\ line'[e][i] = s[old(i)]
      <4> SUFFICES ASSUME NEW i \in 1..Len(s) - 1
                   PROVE  old(i) \in 1..Len(s) /\ old(i) # k /\ line'[e][i] = s[old(i)]
          OBVIOUS
      <4>1. line'[e][i] = IF i < k THEN s[i] ELSE s[i + 1]
          BY <1>4
      <4> QED
          BY <1>3, <4>1
    <3>5. \A i, j \in 1..Len(s) - 1 : old(i) = old(j) => i = j
        BY <1>3
    <3> HIDE DEF old
    <3>2. \A i, j \in 1..Len(s) - 1 : line'[e][i] = line'[e][j] => i = j
      <4> SUFFICES ASSUME NEW i \in 1..Len(s) - 1, NEW j \in 1..Len(s) - 1, line'[e][i] = line'[e][j]
                   PROVE  i = j
          OBVIOUS
      <4>1. s[old(i)] = s[old(j)] /\ old(i) \in DOMAIN line[e] /\ old(j) \in DOMAIN line[e]
          BY <1>3, <3>1
      <4>2. old(i) = old(j)
          BY <1>3, <2>1, <2>3, <4>1
      <4> QED
          BY <3>5, <4>2
    <3>3. \A i \in 1..Len(s) - 1 : line'[e][i] # c /\ line'[e][i] \in Calls
                                   /\ call[line'[e][i]].pc = "queued" /\ call[line'[e][i]].at = e
        BY <1>2, <1>3, <2>1, <2>3, <3>1
    <3>4. ASSUME NEW o \in Calls, call'[o].pc = "queued", call'[o].at = e
          PROVE  \E i \in 1..Len(s) - 1 : line'[e][i] = o
      <4>1. PICK j \in 1..Len(s) : s[j] = o
          BY <1>1, <1>3, <2>1, <2>3, <3>4
      <4>2. j # k
          BY <1>1, <1>2, <3>4, <4>1
      <4>3. CASE j < k
          BY <1>3, <1>4, <4>1, <4>3
      <4>4. CASE j > k
        <5>1. j - 1 \in 1..Len(s) - 1 /\ ~(j - 1 < k) /\ (j - 1) + 1 = j
            BY <1>3, <4>4
        <5>2. line'[e][j - 1] = s[(j - 1) + 1]
            BY <1>4, <5>1
        <5> QED
            BY <4>1, <5>1, <5>2
      <4> QED
          BY <1>3, <4>2, <4>3, <4>4
    <3>6. \A i \in 1..Len(s) - 1 : call'[line'[e][i]].pc = "queued" /\ call'[line'[e][i]].at = e
        BY <1>1, <3>3
    <3> QED
        BY <1>4, <2>3, <3>2, <3>4, <3>6
  <2> QED
      BY <2>2, <2>3
<1> QED
    BY <1>5, <1>7, <1>8 DEF PoolInv

\* A permit is returned: it is free again, or the first in line has it.
LEMMA ReturnKeepsPoolInv ==
    ASSUME PoolInv, NEW c \in Calls, NEW e \in Endpoints, e = At(c), NEW r \in CallState, Has(c), Placed(r),
           r.pc \notin {"send", "waited", "queued"}, ReturnPermit(c, e, r), fails' = fails
    PROVE  PoolInv'
<1> DEFINE s == line[e]
<1>0. e \in Endpoints /\ c \in Holders(e)
    BY DEF PoolInv, PoolTyped, Placed, Has, At, Holders
<1>1. /\ s \in Seq(Calls) /\ Len(s) \in Nat /\ DOMAIN s = 1..Len(s)
    BY <1>0, LineEnds DEF PoolInv, PoolTyped
<1>2. /\ IsFiniteSet(Holders(e)) /\ Cardinality(Holders(e)) \in Nat /\ free[e] \in Nat
      /\ free[e] + Cardinality(Holders(e)) = Capacity[e]
    BY <1>0, FS_CardinalityType DEF PoolInv, PermitInv, PoolTyped
<1>3. /\ IsFiniteSet(Holders(e) \ {c}) /\ Cardinality(Holders(e) \ {c}) = Cardinality(Holders(e)) - 1
    BY <1>0, <1>2, FS_RemoveElement
<1>4. CASE s = << >>
  <2>1. /\ line' = line /\ call' = [call EXCEPT ![c] = r] /\ free' = [free EXCEPT ![e] = @ + 1]
      BY <1>4 DEF ReturnPermit
  <2>2. /\ call' \in [Calls -> CallState] /\ call'[c] = r /\ \A o \in Calls \ {c} : call'[o] = call[o]
        /\ \A o \in Calls : Placed(call'[o])
      BY <2>1, OneCall
  <2>3. free' \in [Endpoints -> Nat] /\ free'[e] = free[e] + 1 /\ \A x \in Endpoints \ {e} : free'[x] = free[x]
      BY <1>0, <2>1 DEF PoolInv, PoolTyped
  <2>4. Holders(e)' = Holders(e) \ {c} /\ \A x \in Endpoints \ {e} : Holders(x)' = Holders(x)
      BY <2>2 DEF Holders, Has, At
  <2>5. PoolTyped'
      BY <2>1, <2>2, <2>3 DEF PoolInv, PoolTyped
  <2>6. PermitInv'
    <3>1. IsFiniteSet(Holders(e)') /\ free'[e] + Cardinality(Holders(e)') = Capacity[e]
        BY <1>2, <1>3, <2>3, <2>4
    <3> QED
        BY <1>4, <2>1, <2>3, <2>4, <3>1 DEF PoolInv, PermitInv
  <2>7. LineInv'
      BY <2>1, <2>2 DEF PoolInv, PoolTyped, LineInv, Has
  <2> QED
      BY <2>5, <2>6, <2>7 DEF PoolInv
<1>5. CASE s # << >>
  <2>0. PICK h \in Calls : h = s[1]
      BY <1>1, <1>5, LineEnds
  <2>1. /\ h \in Calls /\ call[h].pc = "queued" /\ call[h].at = e /\ h # c /\ h \notin Holders(e)
        /\ 1 \in DOMAIN s /\ Len(s) > 0 /\ Head(s) = h
    <3>1. 1 \in DOMAIN s /\ Len(s) > 0 /\ Head(s) = h /\ h \in Calls
        BY <1>1, <1>5, <2>0, LineEnds
    <3>2. call[h].pc = "queued" /\ call[h].at = e
        BY <1>0, <2>0, <3>1 DEF PoolInv, LineInv
    <3> QED
        BY <3>1, <3>2 DEF Has, Holders
  <2>2. /\ free' = free /\ line' = [line EXCEPT ![e] = Tail(@)]
        /\ call' = [call EXCEPT ![c] = r, ![h].pc = "waited"]
      BY <1>5, <2>1 DEF ReturnPermit
  <2> HIDE DEF s
  <2>3. /\ line' \in [Endpoints -> Seq(Calls)] /\ DOMAIN line'[e] = 1..Len(s) - 1
        /\ \A i \in 1..Len(s) - 1 : line'[e][i] = s[i + 1]
        /\ \A x \in Endpoints \ {e} : line'[x] = line[x]
      BY <1>0, <1>1, <1>5, <2>2, LineEnds DEF PoolInv, PoolTyped, s
  <2>4. /\ call'[h] = [call[h] EXCEPT !.pc = "waited"] /\ call'[c] = r
        /\ \A o \in Calls \ {c, h} : call'[o] = call[o]
        /\ call' \in [Calls -> CallState]
    <3>1. [call[h] EXCEPT !.pc = "waited"] \in CallState
        BY <2>1 DEF PoolInv, PoolTyped, CallState, Pcs
    <3> QED
        BY <2>1, <2>2, <3>1 DEF PoolInv, PoolTyped
  <2>5. call'[h].pc = "waited" /\ call'[h].at = e
      BY <2>1, <2>4 DEF PoolInv, PoolTyped, CallState
  <2>6. PoolTyped'
    <3>1. \A o \in Calls : Placed(call'[o])
        BY <1>0, <2>4, <2>5 DEF Placed, PoolInv, PoolTyped
    <3> QED
        BY <2>2, <2>3, <2>4, <3>1 DEF PoolInv, PoolTyped
  <2>7. /\ Holders(e)' = (Holders(e) \ {c}) \cup {h} /\ \A x \in Endpoints \ {e} : Holders(x)' = Holders(x)
    <3>0. /\ \A o \in Calls : (call'[o].pc \in {"send", "waited"}) <=>
                               (o = h \/ (o # c /\ call[o].pc \in {"send", "waited"}))
          /\ \A o \in Calls : o # c => call'[o].at = call[o].at
        BY <2>1, <2>4, <2>5
    <3>1. \A x \in Endpoints \ {e} : Holders(x)' = Holders(x)
        BY <2>1, <3>0 DEF Holders, At
    <3> QED
        BY <2>1, <3>0, <3>1 DEF Holders, At
  <2>8. PermitInv'
    <3>0. /\ IsFiniteSet((Holders(e) \ {c}) \cup {h})
          /\ Cardinality((Holders(e) \ {c}) \cup {h}) = Cardinality(Holders(e) \ {c}) + 1
      <4> DEFINE H == Holders(e) \ {c}
      <4>1. IsFiniteSet(H) /\ h \notin H
          BY <1>3, <2>1
      <4> HIDE DEF H
      <4>2. IsFiniteSet(H \cup {h}) /\ Cardinality(H \cup {h}) = Cardinality(H) + 1
          BY <4>1, FS_AddElement
      <4> QED
          BY <4>2 DEF H
    <3>1. /\ IsFiniteSet((Holders(e) \ {c}) \cup {h})
          /\ Cardinality((Holders(e) \ {c}) \cup {h}) = Cardinality(Holders(e))
        BY <1>2, <1>3, <3>0
    <3>2. free[e] = 0
        BY <1>0, <1>5 DEF PoolInv, PermitInv, s
    <3>3. IsFiniteSet(Holders(e)') /\ free'[e] + Cardinality(Holders(e)') = Capacity[e]
        BY <1>2, <2>2, <2>7, <3>1
    <3>4. free'[e] = 0 /\ \A x \in Endpoints \ {e} : free'[x] = free[x] /\ line'[x] = line[x]
        BY <2>2, <2>3, <3>2
    <3>5. ASSUME NEW x \in Endpoints
          PROVE  /\ IsFiniteSet(Holders(x)') /\ free'[x] + Cardinality(Holders(x)') = Capacity[x]
                 /\ line'[x] # << >> => free'[x] = 0
      <4>1. CASE x = e
          BY <3>3, <3>4, <4>1
      <4>2. CASE x # e
          BY <2>7, <3>4, <4>2 DEF PoolInv, PermitInv
      <4> QED
          BY <4>1, <4>2
    <3> QED
        BY <3>5 DEF PermitInv
  <2>9. LineInv'
    <3> SUFFICES ASSUME NEW x \in Endpoints
                 PROVE  /\ \A i, j \in DOMAIN line'[x] : line'[x][i] = line'[x][j] => i = j
                        /\ \A i \in DOMAIN line'[x] : call'[line'[x][i]].pc = "queued" /\ call'[line'[x][i]].at = x
                        /\ \A o \in Calls : call'[o].pc = "queued" /\ call'[o].at = x =>
                              \E i \in DOMAIN line'[x] : line'[x][i] = o
        BY DEF LineInv
    <3>1. /\ \A i, j \in DOMAIN line[x] : line[x][i] = line[x][j] => i = j
          /\ \A i \in DOMAIN line[x] : line[x][i] \in Calls /\ call[line[x][i]].pc = "queued" /\ call[line[x][i]].at = x
          /\ \A o \in Calls : call[o].pc = "queued" /\ call[o].at = x => \E i \in DOMAIN line[x] : line[x][i] = o
        BY DEF PoolInv, PoolTyped, LineInv
    <3>2. CASE x # e
      <4>1. \A i \in DOMAIN line[x] : line[x][i] # c /\ line[x][i] # h
          BY <2>1, <3>1, <3>2 DEF Has
      <4>2. line'[x] = line[x]
          BY <2>3, <3>2
      <4>3. \A o \in Calls : o # c /\ o # h => call'[o] = call[o]
          BY <2>4
      <4>4. \A o \in Calls : call'[o].pc = "queued" => o # c /\ o # h
          BY <2>4, <2>5
      <4>5. \A i \in DOMAIN line'[x] : call'[line'[x][i]].pc = "queued" /\ call'[line'[x][i]].at = x
          BY <3>1, <4>1, <4>2, <4>3
      <4>6. \A o \in Calls : call'[o].pc = "queued" /\ call'[o].at = x => \E i \in DOMAIN line'[x] : line'[x][i] = o
          BY <3>1, <4>2, <4>3, <4>4
      <4> QED
          BY <3>1, <4>2, <4>5, <4>6
    <3>3. CASE x = e
      <4>0. /\ \A i, j \in 1..Len(s) : s[i] = s[j] => i = j
            /\ \A i \in 1..Len(s) : s[i] \in Calls /\ call[s[i]].pc = "queued" /\ call[s[i]].at = e
            /\ \A o \in Calls : call[o].pc = "queued" /\ call[o].at = e => \E i \in 1..Len(s) : s[i] = o
          BY <1>1, <3>1, <3>3 DEF s
      <4>1. \A i \in 1..Len(s) - 1 : i + 1 \in 1..Len(s) /\ line'[e][i] = s[i + 1] /\ s[i + 1] # h /\ s[i + 1] # c
          BY <1>1, <2>0, <2>1, <2>3, <4>0 DEF Has
      <4>2. \A i, j \in 1..Len(s) - 1 : line'[e][i] = line'[e][j] => i = j
        <5> SUFFICES ASSUME NEW i \in 1..Len(s) - 1, NEW j \in 1..Len(s) - 1, line'[e][i] = line'[e][j]
                     PROVE  i = j
            OBVIOUS
        <5>1. s[i + 1] = s[j + 1] /\ i + 1 \in 1..Len(s) /\ j + 1 \in 1..Len(s)
            BY <4>1
        <5>2. i + 1 = j + 1
            BY <4>0, <5>1
        <5> QED
            BY <5>2
      <4>3. ASSUME NEW i \in 1..Len(s) - 1 PROVE call'[line'[e][i]].pc = "queued" /\ call'[line'[e][i]].at = e
        <5>1. PICK o \in Calls : o = line'[e][i] /\ o # h /\ o # c /\ call[o].pc = "queued" /\ call[o].at = e
            BY <4>0, <4>1
        <5>2. call'[o] = call[o]
            BY <2>4, <5>1
        <5> QED
            BY <5>1, <5>2
      <4>4. ASSUME NEW o \in Calls, call'[o].pc = "queued", call'[o].at = e
            PROVE  \E i \in 1..Len(s) - 1 : line'[e][i] = o
        <5>1. o # c /\ o # h
            BY <2>4, <2>5, <4>4
        <5>2. PICK j \in 1..Len(s) : s[j] = o
            BY <2>4, <4>0, <4>4, <5>1
        <5>3. j # 1
            BY <2>0, <5>1, <5>2
        <5>4. j - 1 \in 1..Len(s) - 1 /\ (j - 1) + 1 = j
            BY <1>1, <5>3
        <5>5. line'[e][j - 1] = s[(j - 1) + 1]
            BY <4>1, <5>4
        <5> QED
            BY <5>2, <5>4, <5>5
      <4>5. DOMAIN line'[e] = 1..Len(s) - 1
          BY <1>1, <2>3
      <4> QED
          BY <3>3, <4>2, <4>3, <4>4, <4>5
    <3> QED
        BY <3>2, <3>3
  <2> QED
      BY <2>6, <2>8, <2>9 DEF PoolInv
<1> QED
    BY <1>4, <1>5

\* A call without a permit or a place moves on to where it has neither.
LEMMA MoveKeepsPoolInv ==
    ASSUME PoolInv, NEW c \in Calls, NEW r \in CallState, Placed(r), ~Has(c), ~Queues(c),
           r.pc \notin {"send", "waited", "queued"}, call' = [call EXCEPT ![c] = r],
           free' = free, line' = line, fails' \in 0..Threshold
    PROVE  PoolInv'
<1>1. /\ call' \in [Calls -> CallState] /\ call'[c] = r /\ \A o \in Calls \ {c} : call'[o] = call[o]
      /\ \A o \in Calls : Placed(call'[o])
    BY OneCall
<1>2. PoolTyped'
    BY <1>1 DEF PoolInv, PoolTyped
<1>3. \A o \in Calls : /\ Has(o)' <=> Has(o)
                       /\ Queues(o)' <=> Queues(o)
                       /\ Has(o) \/ Queues(o) => At(o)' = At(o)
    BY <1>1 DEF Has, Queues, At
<1> QED
    BY <1>2, <1>3, NeutralKeepsPoolInv

\* What a call is that remembers no more than where it is.
LEMMA BareIsState ==
    ASSUME NEW pc \in Pcs, NEW at \in 0..Lowest + 1, NEW r,
           r = [pc |-> pc, at |-> at, sat |-> 0, cooled |-> FALSE, n |-> 0]
    PROVE  r \in CallState /\ r.pc = pc /\ r.at = at
<1>1. 0 \in 0..Lowest /\ 0 \in 0..Threshold
    BY PoolAssumption
<1> QED
    BY <1>1 DEF CallState

LEMMA BareAt ==
    ASSUME NEW pc \in Pcs, NEW e \in Endpoints, NEW r, r = [Past(pc) EXCEPT !.at = e]
    PROVE  r \in CallState /\ Placed(r) /\ r.pc = pc /\ r.at = e
<1>1. r = [pc |-> pc, at |-> e, sat |-> 0, cooled |-> FALSE, n |-> 0]
    BY DEF Past, Idle
<1>2. e \in 0..Lowest + 1 /\ e # 0
    BY PoolAssumption DEF Endpoints
<1>3. r \in CallState /\ r.pc = pc /\ r.at = e
    BY <1>1, <1>2, BareIsState
<1> QED
    BY <1>2, <1>3 DEF Placed

\* The call goes on to the next endpoint of the list.
LEMMA NextEndpoint ==
    ASSUME NEW old \in CallState, old.at \in Endpoints, NEW r, NEW sat \in 0..Lowest, NEW cooled \in BOOLEAN,
           r = [old EXCEPT !.pc = "look", !.at = @ + 1, !.sat = sat, !.cooled = cooled]
    PROVE  r \in CallState /\ Placed(r) /\ r.pc = "look"
<1>1. old.at + 1 \in 0..Lowest + 1 /\ old.at + 1 # 0
    BY PoolAssumption DEF Endpoints
<1>2. r \in CallState /\ r.pc = "look" /\ r.at = old.at + 1
    BY <1>1 DEF CallState, Pcs
<1> QED
    BY <1>1, <1>2 DEF Placed

\* What a call is once it is past the route.
LEMMA PastIsPlaced ==
    ASSUME NEW pc \in Pcs \ {"look", "try", "send", "mark", "queued", "waited", "clear"}
    PROVE  Past(pc) \in CallState /\ Placed(Past(pc)) /\ Past(pc).pc = pc
<1>0. 0 \in 0..Lowest + 1 /\ pc \in Pcs
    BY PoolAssumption
<1>1. PICK r : r = Past(pc)
    OBVIOUS
<1>2. r = [pc |-> pc, at |-> 0, sat |-> 0, cooled |-> FALSE, n |-> 0]
    BY <1>1 DEF Past, Idle
<1>3. r \in CallState /\ r.pc = pc
    BY <1>0, <1>2, BareIsState
<1> QED
    BY <1>1, <1>3 DEF Placed

LEMMA IdleIsPlaced == Idle \in CallState /\ Placed(Idle) /\ Idle.pc = "idle"
BY PoolAssumption DEF Idle, CallState, Placed, Pcs

\* What a call knows of itself, as far as the steps below need it.
LEMMA CallTyped ==
    ASSUME PoolInv, NEW c \in Calls
    PROVE  /\ call[c] \in CallState /\ Placed(call[c]) /\ DOMAIN call = Calls
           /\ call[c].pc \in Pcs /\ call[c].at \in 0..Lowest + 1 /\ call[c].sat \in 0..Lowest
           /\ Lowest \in Nat /\ Threshold \in Nat /\ fails \in 0..Threshold
BY PoolAssumption DEF PoolInv, PoolTyped, CallState

LEMMA RouteKeepsPoolInv ==
    ASSUME PoolInv, NEW c \in Calls, Route(c) PROVE PoolInv'
<1> DEFINE r == [Idle EXCEPT !.pc = "look", !.at = 1]
<1>1. r \in CallState /\ Placed(r) /\ r.pc = "look"
  <2>1. r = [Past("look") EXCEPT !.at = 1]
      BY DEF Past, Idle
  <2> QED
      BY <2>1, BareAt, PoolAssumption DEF Pcs, Endpoints
<1>2. ~Has(c) /\ ~Queues(c) /\ call' = [call EXCEPT ![c] = r] /\ free' = free /\ line' = line /\ fails' \in 0..Threshold
    BY CallTyped DEF Route, Has, Queues
<1> HIDE DEF r
<1> QED
    BY <1>1, <1>2, MoveKeepsPoolInv

LEMMA LookKeepsPoolInv ==
    ASSUME PoolInv, NEW c \in Calls, Look(c) PROVE PoolInv'
<1>0. ~Has(c) /\ ~Queues(c) /\ free' = free /\ line' = line /\ fails' \in 0..Threshold
    BY CallTyped DEF Look, Has, Queues
<1>1. CASE cool[At(c)]
  <2> DEFINE r == [call[c] EXCEPT !.at = @ + 1, !.cooled = TRUE]
  <2>1. r \in CallState /\ Placed(r) /\ r.pc = "look"
    <3>1. call[c] \in CallState /\ call[c].at \in Endpoints /\ call[c].sat \in 0..Lowest /\ call[c].pc = "look"
        BY CallTyped DEF Look, At
    <3>2. r = [call[c] EXCEPT !.pc = "look", !.at = @ + 1, !.sat = call[c].sat, !.cooled = TRUE]
        BY <3>1 DEF CallState
    <3> HIDE DEF r
    <3> QED
        BY <3>1, <3>2, NextEndpoint
  <2>2. call' = [call EXCEPT ![c] = r]
      BY <1>1 DEF Look
  <2> HIDE DEF r
  <2> QED
      BY <1>0, <2>1, <2>2, MoveKeepsPoolInv
<1>2. CASE ~cool[At(c)]
  <2> DEFINE r == [call[c] EXCEPT !.pc = "try"]
  <2>1. r \in CallState /\ Placed(r) /\ r.pc = "try"
      BY CallTyped DEF Look, CallState, Placed, At, Endpoints, Pcs
  <2>2. call' = [call EXCEPT ![c] = r]
      BY <1>2 DEF Look, Goto
  <2> HIDE DEF r
  <2> QED
      BY <1>0, <2>1, <2>2, MoveKeepsPoolInv
<1> QED
    BY <1>1, <1>2

LEMMA TryKeepsPoolInv ==
    ASSUME PoolInv, NEW c \in Calls, Try(c) PROVE PoolInv'
<1>0. ~Has(c) /\ ~Queues(c) /\ line' = line /\ fails' = fails /\ At(c) \in Endpoints /\ fails' \in 0..Threshold
    BY CallTyped DEF Try, Has, Queues, At, Placed
<1>1. CASE free[At(c)] > 0
  <2> DEFINE r == [call[c] EXCEPT !.pc = "send"]
  <2>1. r \in CallState /\ Placed(r) /\ r.pc = "send" /\ r.at = At(c)
      BY <1>0, CallTyped DEF CallState, Placed, At, Pcs
  <2>2. call' = [call EXCEPT ![c] = r] /\ free' = [free EXCEPT ![At(c)] = @ - 1]
      BY <1>1 DEF Try, Goto
  <2>3. PICK e \in Endpoints : e = At(c)
      BY <1>0
  <2> HIDE DEF r
  <2> QED
      BY <1>0, <1>1, <2>1, <2>2, <2>3, TakeKeepsPoolInv
<1>2. CASE ~(free[At(c)] > 0)
  <2> DEFINE r == [call[c] EXCEPT !.pc = "look", !.at = @ + 1, !.sat = IF @ = 0 THEN At(c) ELSE @]
  <2>1. r \in CallState /\ Placed(r) /\ r.pc = "look"
    <3> DEFINE s == IF call[c].sat = 0 THEN At(c) ELSE call[c].sat
    <3>1. call[c] \in CallState /\ call[c].at \in Endpoints /\ s \in 0..Lowest /\ call[c].cooled \in BOOLEAN
        BY <1>0, CallTyped DEF At, Endpoints, CallState
    <3>2. r = [call[c] EXCEPT !.pc = "look", !.at = @ + 1, !.sat = s, !.cooled = call[c].cooled]
        BY <3>1 DEF CallState
    <3> HIDE DEF r, s
    <3> QED
        BY <3>1, <3>2, NextEndpoint
  <2>2. call' = [call EXCEPT ![c] = r] /\ free' = free
      BY <1>2 DEF Try
  <2> HIDE DEF r
  <2> QED
      BY <1>0, <2>1, <2>2, MoveKeepsPoolInv
<1> QED
    BY <1>1, <1>2

LEMMA AnswersKeepPoolInv ==
    ASSUME PoolInv, NEW c \in Calls, AnswerOk(c) \/ AnswerDown(c) \/ WaitedDown(c) \/ AnswerFatal(c)
    PROVE  PoolInv'
<1>0. Has(c) /\ fails' = fails /\ At(c) \in Endpoints
    BY CallTyped DEF AnswerOk, AnswerDown, WaitedDown, AnswerFatal, Has, At, Placed
<1>1. PICK e \in Endpoints : e = At(c)
    BY <1>0
<1>2. \E r \in CallState : Placed(r) /\ r.pc \notin {"send", "waited", "queued"} /\ ReturnPermit(c, e, r)
  <2>1. CASE AnswerOk(c)
    <3> DEFINE r == [Past(AfterSuccess) EXCEPT !.at = At(c)]
    <3>1. r \in CallState /\ Placed(r) /\ r.pc \notin {"send", "waited", "queued"}
      <4>1. AfterSuccess \in Pcs /\ AfterSuccess \notin {"send", "waited", "queued"}
          BY DEF AfterSuccess, Pcs
      <4>2. PICK pc \in Pcs : pc = AfterSuccess
          BY <4>1
      <4>3. PICK q : q = [Past(pc) EXCEPT !.at = e]
          OBVIOUS
      <4> QED
        <5>1. q \in CallState /\ Placed(q) /\ q.pc = pc
            BY <4>3, BareAt, ZenonT(60)
        <5>2. q = r
            BY <1>1, <4>2, <4>3
        <5> HIDE DEF r
        <5> QED
            BY <4>1, <4>2, <5>1, <5>2
    <3>2. ReturnPermit(c, e, r)
        BY <1>1, <2>1 DEF AnswerOk
    <3> QED
        BY <3>1, <3>2
  <2>2. CASE AnswerDown(c)
    <3> DEFINE r == [call[c] EXCEPT !.pc = "mark"]
               q == [call[c] EXCEPT !.pc = "look", !.at = @ + 1]
    <3>1. /\ r \in CallState /\ Placed(r) /\ r.pc = "mark"
          /\ q \in CallState /\ Placed(q) /\ q.pc = "look"
      <4>1. call[c] \in CallState /\ call[c].at \in Endpoints /\ call[c].sat \in 0..Lowest
            /\ call[c].cooled \in BOOLEAN
          BY <1>0, CallTyped DEF At, CallState
      <4>2. r \in CallState /\ r.at = call[c].at /\ r.pc = "mark"
          BY <4>1 DEF CallState, Pcs
      <4>3. q = [call[c] EXCEPT !.pc = "look", !.at = @ + 1, !.sat = call[c].sat, !.cooled = call[c].cooled]
          BY <4>1 DEF CallState
      <4> HIDE DEF r, q
      <4> QED
          BY <4>1, <4>2, <4>3, NextEndpoint DEF Placed
    <3>2. ReturnPermit(c, e, r) \/ ReturnPermit(c, e, q)
        BY <1>1, <2>2 DEF AnswerDown
    <3> HIDE DEF r, q
    <3> QED
        BY <3>1, <3>2
  <2>3. CASE WaitedDown(c)
    <3>1. Past(AfterError) \in CallState /\ Placed(Past(AfterError)) /\ Past(AfterError).pc \in {"note", "asleep"}
        BY PastIsPlaced DEF AfterError, Pcs
    <3>2. ReturnPermit(c, e, Past(AfterError))
        BY <1>1, <2>3 DEF WaitedDown
    <3> QED
        BY <3>1, <3>2
  <2>4. CASE AnswerFatal(c)
    <3>1. Past(AfterFatal) \in CallState /\ Placed(Past(AfterFatal)) /\ Past(AfterFatal).pc \in {"fatal", "failed"}
        BY PastIsPlaced DEF AfterFatal, Pcs
    <3>2. ReturnPermit(c, e, Past(AfterFatal))
        BY <1>1, <2>4 DEF AnswerFatal
    <3> QED
        BY <3>1, <3>2
  <2> QED
      BY <2>1, <2>2, <2>3, <2>4
<1> QED
    BY <1>0, <1>1, <1>2, ReturnKeepsPoolInv

LEMMA EndOfListKeepsPoolInv ==
    ASSUME PoolInv, NEW c \in Calls, EndOfList(c) PROVE PoolInv'
<1>0. ~Has(c) /\ ~Queues(c) /\ fails' = fails /\ fails' \in 0..Threshold
    BY CallTyped DEF EndOfList, Has, Queues
<1>1. CASE call[c].sat # 0
  <2>1. PICK e \in Endpoints : e = call[c].sat
      BY <1>1, CallTyped DEF Endpoints
  <2> DEFINE r(pc) == [Past(pc) EXCEPT !.at = e]
  <2>2. \A pc \in {"waited", "queued"} : r(pc) \in CallState /\ Placed(r(pc)) /\ r(pc).pc = pc /\ r(pc).at = e
    <3> SUFFICES ASSUME NEW pc \in {"waited", "queued"}
                 PROVE  r(pc) \in CallState /\ Placed(r(pc)) /\ r(pc).pc = pc /\ r(pc).at = e
        OBVIOUS
    <3>1. pc \in Pcs
        BY DEF Pcs
    <3>2. PICK q : q = [Past(pc) EXCEPT !.at = e]
        OBVIOUS
    <3> QED
        BY <3>1, <3>2, BareAt
  <2>3. \/ free[e] > 0 /\ free' = [free EXCEPT ![e] = @ - 1] /\ call' = [call EXCEPT ![c] = r("waited")] /\ line' = line
        \/ ~(free[e] > 0) /\ line' = [line EXCEPT ![e] = Append(@, c)] /\ call' = [call EXCEPT ![c] = r("queued")] /\ free' = free
      BY <1>1, <2>1 DEF EndOfList
  <2> HIDE DEF r
  <2> QED
      BY <1>0, <2>2, <2>3, TakeKeepsPoolInv, JoinKeepsPoolInv
<1>2. CASE call[c].sat = 0
  <2>1. PICK pc \in {AfterError, AfterFatal} : call' = [call EXCEPT ![c] = Past(pc)] /\ free' = free /\ line' = line
      BY <1>2 DEF EndOfList
  <2>2. Past(pc) \in CallState /\ Placed(Past(pc)) /\ Past(pc).pc \in {"note", "asleep", "fatal", "failed"}
      BY <2>1, PastIsPlaced DEF AfterError, AfterFatal, Pcs
  <2> QED
      BY <1>0, <2>1, <2>2, MoveKeepsPoolInv
<1> QED
    BY <1>1, <1>2

\* The steps of the retry loop and of the cooldown touch neither permits nor lines.
LEMMA RestKeepsPoolInv ==
    ASSUME PoolInv, NEW c \in Calls,
           MarkCool(c) \/ Clear(c) \/ NoteFailure(c) \/ Latch(c) \/ ResetCount(c) \/ Unlatch(c) \/ Wake(c)
    PROVE  PoolInv'
<1>0. ~Has(c) /\ ~Queues(c) /\ free' = free /\ line' = line /\ fails' \in 0..Threshold
    BY CallTyped DEF MarkCool, Clear, NoteFailure, Latch, ResetCount, Unlatch, Wake, Has, Queues
<1>1. \E r \in CallState : Placed(r) /\ r.pc \notin {"send", "waited", "queued"} /\ call' = [call EXCEPT ![c] = r]
  <2>1. CASE MarkCool(c)
    <3> DEFINE r == [call[c] EXCEPT !.pc = "look", !.at = @ + 1, !.cooled = TRUE]
    <3>1. r \in CallState /\ Placed(r) /\ r.pc = "look"
      <4>1. call[c] \in CallState /\ call[c].at \in Endpoints /\ call[c].sat \in 0..Lowest
          BY <2>1, CallTyped DEF MarkCool, Placed
      <4>2. r = [call[c] EXCEPT !.pc = "look", !.at = @ + 1, !.sat = call[c].sat, !.cooled = TRUE]
          BY <4>1 DEF CallState
      <4> HIDE DEF r
      <4> QED
          BY <4>1, <4>2, NextEndpoint
    <3>2. call' = [call EXCEPT ![c] = r]
        BY <2>1 DEF MarkCool
    <3> HIDE DEF r
    <3> QED
        BY <3>1, <3>2
  <2>2. CASE Clear(c)
    <3>1. Past("reset") \in CallState /\ Placed(Past("reset")) /\ Past("reset").pc = "reset"
        BY PastIsPlaced DEF Pcs
    <3> QED
        BY <2>2, <3>1 DEF Clear
  <2>3. CASE NoteFailure(c)
    <3>1. PICK n \in 0..Threshold :
              call' = [call EXCEPT ![c].n = n, ![c].pc = IF @ = "note" THEN "latch" ELSE "latchFatal"]
      <4>1. (IF fails < Threshold THEN fails + 1 ELSE Threshold) \in 0..Threshold
          BY CallTyped
      <4> QED
          BY <2>3, <4>1 DEF NoteFailure
    <3> DEFINE r == [call[c] EXCEPT !.n = n, !.pc = IF @ = "note" THEN "latch" ELSE "latchFatal"]
    <3>2. r \in CallState /\ Placed(r) /\ r.pc \in {"latch", "latchFatal"}
        BY CallTyped DEF CallState, Placed, Pcs
    <3>3. call' = [call EXCEPT ![c] = r]
        BY <3>1
    <3> HIDE DEF r
    <3> QED
        BY <3>2, <3>3
  <2>4. CASE Latch(c)
    <3>1. PICK pc \in {"asleep", "failed"} : call' = [call EXCEPT ![c] = Past(pc)]
        BY <2>4 DEF Latch
    <3>2. Past(pc) \in CallState /\ Placed(Past(pc)) /\ Past(pc).pc = pc
        BY PastIsPlaced DEF Pcs
    <3> QED
        BY <3>1, <3>2
  <2>5. CASE ResetCount(c) \/ Unlatch(c)
    <3>1. PICK pc \in {"unlatch", "done"} : call' = [call EXCEPT ![c].pc = pc]
        BY <2>5 DEF ResetCount, Unlatch, Goto
    <3> DEFINE r == [call[c] EXCEPT !.pc = pc]
    <3>2. r \in CallState /\ Placed(r) /\ r.pc = pc
        BY CallTyped DEF CallState, Placed, Pcs
    <3>3. call' = [call EXCEPT ![c] = r]
        BY <3>1
    <3> HIDE DEF r
    <3> QED
        BY <3>2, <3>3
  <2>6. CASE Wake(c)
      BY <2>6, IdleIsPlaced DEF Wake
  <2> QED
      BY <2>1, <2>2, <2>3, <2>4, <2>5, <2>6
<1> QED
    BY <1>0, <1>1, MoveKeepsPoolInv

LEMMA DropKeepsPoolInv ==
    ASSUME PoolInv, NEW c \in Calls, Drop(c) PROVE PoolInv'
<1>0. fails' = fails /\ fails' \in 0..Threshold
    BY CallTyped DEF Drop
<1>1. CASE Has(c)
  <2>1. ReturnPermit(c, At(c), Idle) /\ At(c) \in Endpoints
      BY <1>1, CallTyped DEF Drop, Has, At, Placed
  <2>2. PICK e \in Endpoints : e = At(c)
      BY <2>1
  <2> QED
      BY <1>0, <1>1, <2>1, <2>2, IdleIsPlaced, ReturnKeepsPoolInv
<1>2. CASE Queues(c)
  <2>1. LeaveLine(c, At(c))
      BY <1>2 DEF Drop, Queues
  <2> QED
      BY <1>0, <1>2, <2>1, LeaveKeepsPoolInv
<1>3. CASE ~Has(c) /\ ~Queues(c)
  <2>1. call' = [call EXCEPT ![c] = Idle] /\ free' = free /\ line' = line
      BY <1>3 DEF Drop, Has, Queues
  <2> QED
      BY <1>0, <1>3, <2>1, IdleIsPlaced, MoveKeepsPoolInv
<1> QED
    BY <1>1, <1>2, <1>3

LEMMA InitPoolInv == PoolInit => PoolInv
<1> SUFFICES ASSUME PoolInit PROVE PoolInv
    OBVIOUS
<1>1. PoolTyped
    BY PoolAssumption, IdleIsPlaced DEF PoolInit, PoolTyped
<1>2. LineInv
    BY IdleIsPlaced DEF PoolInit, LineInv
<1>3. \A e \in Endpoints : Holders(e) = {}
    BY IdleIsPlaced DEF PoolInit, Holders
<1>4. PermitInv
  <2>1. \A e \in Endpoints : Capacity[e] + 0 = Capacity[e]
      BY PoolAssumption
  <2>2. \A e \in Endpoints : IsFiniteSet(Holders(e)) /\ Cardinality(Holders(e)) = 0
      BY <1>3, FS_EmptySet
  <2> QED
      BY <2>1, <2>2 DEF PoolInit, PermitInv
<1> QED
    BY <1>1, <1>2, <1>4 DEF PoolInv

LEMMA NextPoolInv == PoolInv /\ [PoolNext]_poolVars => PoolInv'
<1> SUFFICES ASSUME PoolInv, [PoolNext]_poolVars PROVE PoolInv'
    OBVIOUS
<1>1. ASSUME NEW c \in Calls, CallStep(c) \/ AnswerFatal(c) \/ Drop(c) PROVE PoolInv'
    BY <1>1, RouteKeepsPoolInv, LookKeepsPoolInv, TryKeepsPoolInv, AnswersKeepPoolInv,
       EndOfListKeepsPoolInv, RestKeepsPoolInv, DropKeepsPoolInv DEF CallStep
<1>2. ASSUME free' = free, line' = line, call' = call, fails' = fails PROVE PoolInv'
    BY <1>2 DEF PoolInv, PoolTyped, LineInv, PermitInv, Holders, At
<1>3. ASSUME NEW e \in Endpoints, Expire(e) \/ GoesDown(e) \/ ComesBack(e) PROVE PoolInv'
    BY <1>2, <1>3 DEF Expire, GoesDown, ComesBack
<1>4. CASE UNCHANGED poolVars
    BY <1>2, <1>4 DEF poolVars
<1> QED
    BY <1>1, <1>3, <1>4 DEF PoolNext

\* Whatever calls are dropped, refused or answered, in whatever order, for any
\* number of calls, endpoints and permits: a permit is free or held by one call,
\* a dropped permit goes to the first in line, and the line is exactly the calls
\* that queue, each once (EndpointPool::route, tokio's Semaphore).
THEOREM PoolPermitsAccounted == PoolSpec => []PermitsAccounted
<1>1. PoolInv => PermitsAccounted
  <2> SUFFICES ASSUME PoolInv, NEW e \in Endpoints
               PROVE  /\ free[e] + Cardinality(Holders(e)) = Capacity[e]
                      /\ line[e] # << >> => free[e] = 0
                      /\ ToSet(line[e]) = {c \in Calls : call[c].pc = "queued" /\ At(c) = e}
      BY DEF PermitsAccounted
  <2>1. line[e] \in Seq(Calls)
      BY DEF PoolInv, PoolTyped
  <2>2. ToSet(line[e]) = {line[e][i] : i \in DOMAIN line[e]}
      BY DEF ToSet
  <2>3. \A i \in DOMAIN line[e] : line[e][i] \in Calls
      BY <2>1, LineEnds
  <2>4. ToSet(line[e]) = {c \in Calls : call[c].pc = "queued" /\ At(c) = e}
      BY <2>2, <2>3 DEF PoolInv, LineInv, At
  <2> QED
      BY <2>4 DEF PoolInv, PermitInv
<1> QED
    BY <1>1, InitPoolInv, NextPoolInv, PTL DEF PoolSpec

\* The health of the pool: a failure is on the count, or on the flag, only while some
\* call has still to take it off again, or has failed for good.
HealthInv ==
    strategy = "embed" => /\ fails # 0 => \E c \in Calls : call[c].pc \notin {"unlatch", "done"}
                          /\ degraded => \E c \in Calls : call[c].pc # "done"
\* Only an embedding call clears a cooldown.
ClearInv == strategy = "llm" => \A c \in Calls : call[c].pc # "clear"

LEMMA ReturnPcs ==
    ASSUME PoolInv, NEW c \in Calls, NEW e \in Endpoints, call[c].pc # "queued", NEW now, ReturnPermit(c, e, now)
    PROVE  call'[c].pc = now.pc /\ \A o \in Calls \ {c} : call'[o].pc \in {call[o].pc, "waited"}
<1>1. call \in [Calls -> CallState] /\ line[e] \in Seq(Calls)
    BY DEF PoolInv, PoolTyped
<1>2. CASE line[e] = << >>
    BY <1>1, <1>2 DEF ReturnPermit
<1>3. CASE line[e] # << >>
  <2>1. Head(line[e]) = line[e][1] /\ 1 \in DOMAIN line[e] /\ Head(line[e]) \in Calls
      BY <1>1, <1>3, LineEnds
  <2>2. Head(line[e]) # c
      BY <2>1 DEF PoolInv, LineInv
  <2>3. call' = [call EXCEPT ![c] = now, ![Head(line[e])].pc = "waited"]
      BY <1>3 DEF ReturnPermit
  <2>4. \A o \in Calls : call[o] \in CallState
      BY <1>1
  <2> QED
      BY <1>1, <2>1, <2>2, <2>3, <2>4 DEF CallState
<1> QED
    BY <1>2, <1>3

\* What a call's own step does to its stage, and to the count and the flag.
HealthMove(c) ==
    /\ \A o \in Calls \ {c} : call'[o].pc \in {call[o].pc, "waited"}
    /\ strategy' = strategy /\ call[c].pc # "done"
    /\ call'[c].pc = "clear" => strategy = "embed"
    /\ call'[c].pc = "unlatch" => fails' = 0
    /\ call'[c].pc = "done" /\ strategy = "embed" => call[c].pc = "unlatch" /\ ~degraded' /\ fails' = fails
    /\ fails' # fails => call'[c].pc \in {"latch", "latchFatal", "unlatch"}
    /\ degraded' => degraded \/ call'[c].pc \in {"asleep", "failed"}
    /\ \A e \in Endpoints : cool[e] /\ ~cool'[e] => call[c].pc = "clear"

LEMMA StepsAreHealthMoves ==
    ASSUME PoolInv, NEW c \in Calls, CallStep(c) \/ AnswerFatal(c) \/ Drop(c)
    PROVE  HealthMove(c)
<1>1. /\ call \in [Calls -> CallState] /\ call[c] \in CallState /\ \A o \in Calls : DOMAIN call[o] = {"pc", "at", "sat", "cooled", "n"}
      /\ call[c].pc \in {"send", "waited"} => At(c) \in Endpoints
    BY DEF PoolInv, PoolTyped, CallState, Placed, At
<1>2. /\ \A pc : Past(pc).pc = pc /\ \A e : [Past(pc) EXCEPT !.at = e].pc = pc
      /\ Idle.pc = "idle" /\ [Idle EXCEPT !.pc = "look", !.at = 1].pc = "look"
    BY DEF Past, Idle
<1>3. ASSUME NEW now, call' = [call EXCEPT ![c] = now], UNCHANGED <<strategy, fails, degraded>>,
             \A e \in Endpoints : cool[e] /\ ~cool'[e] => call[c].pc = "clear",
             call[c].pc # "done", now.pc \notin {"unlatch", "done", "clear"}
      PROVE  HealthMove(c)
  <2>1. call'[c] = now /\ \A o \in Calls \ {c} : call'[o] = call[o]
      BY <1>1, <1>3
  <2> QED
      BY <1>3, <2>1 DEF HealthMove
<1>4. ASSUME NEW now, call[c].pc \in {"send", "waited"}, ReturnPermit(c, At(c), now), UNCHANGED <<strategy, cool, fails, degraded>>,
             now.pc # "unlatch", now.pc = "done" => strategy # "embed", now.pc = "clear" => strategy = "embed"
      PROVE  HealthMove(c)
  <2>1. call'[c].pc = now.pc /\ \A o \in Calls \ {c} : call'[o].pc \in {call[o].pc, "waited"}
      BY <1>1, <1>4, ReturnPcs
  <2> QED
      BY <1>4, <2>1 DEF HealthMove
<1>5. CASE Route(c) \/ Wake(c)
    BY <1>2, <1>3, <1>5 DEF Route, Wake
<1>6. CASE Look(c)
    BY <1>1, <1>6 DEF Look, Goto, HealthMove
<1>7. CASE Try(c)
    BY <1>1, <1>7 DEF Try, Goto, HealthMove
<1>8. CASE MarkCool(c)
  <2>1. \A e \in Endpoints : cool[e] => cool'[e]
      BY <1>1, <1>8 DEF MarkCool
  <2> QED
      BY <1>1, <1>8, <2>1 DEF MarkCool, HealthMove
<1>9. CASE Clear(c)
    BY <1>2, <1>3, <1>9 DEF Clear
<1>10. CASE EndOfList(c)
  <2>1. UNCHANGED <<strategy, cool, fails, degraded>> /\ call[c].pc = "look"
      BY <1>10 DEF EndOfList
  <2>2. AfterError \in {"note", "asleep"} /\ AfterFatal \in {"fatal", "failed"}
      BY DEF AfterError, AfterFatal
  <2>3. \/ call' = [call EXCEPT ![c] = [Past("waited") EXCEPT !.at = call[c].sat]]
        \/ call' = [call EXCEPT ![c] = [Past("queued") EXCEPT !.at = call[c].sat]]
        \/ call' = [call EXCEPT ![c] = Past(AfterError)]
        \/ call' = [call EXCEPT ![c] = Past(AfterFatal)]
      BY <1>10 DEF EndOfList
  <2>4. ASSUME NEW now, call' = [call EXCEPT ![c] = now], now.pc \in {"waited", "queued", "note", "asleep", "fatal", "failed"}
        PROVE  HealthMove(c)
      BY <1>3, <2>1, <2>4
  <2>5. /\ [Past("waited") EXCEPT !.at = call[c].sat].pc = "waited" /\ [Past("queued") EXCEPT !.at = call[c].sat].pc = "queued"
        /\ Past(AfterError).pc \in {"note", "asleep"} /\ Past(AfterFatal).pc \in {"fatal", "failed"}
      BY <1>2, <2>2
  <2> QED
      BY <2>3, <2>4, <2>5
<1>11. CASE NoteFailure(c)
    BY <1>1, <1>11 DEF NoteFailure, HealthMove
<1>12. CASE Latch(c)
  <2>1. \/ call' = [call EXCEPT ![c] = Past("asleep")]
        \/ call' = [call EXCEPT ![c] = Past("failed")]
      BY <1>12 DEF Latch
  <2>2. call'[c].pc \in {"asleep", "failed"} /\ \A o \in Calls \ {c} : call'[o] = call[o]
      BY <1>1, <1>2, <2>1
  <2> QED
      BY <1>12, <2>2 DEF Latch, HealthMove
<1>13. CASE ResetCount(c) \/ Unlatch(c)
    BY <1>1, <1>13 DEF HealthMove, ResetCount, Unlatch, Goto
<1>14. CASE AnswerDown(c)
  <2>1. [call[c] EXCEPT !.pc = "mark"].pc = "mark" /\ [call[c] EXCEPT !.pc = "look", !.at = @ + 1].pc = "look"
      BY <1>1
  <2>2. UNCHANGED <<strategy, cool, fails, degraded>> /\ call[c].pc \in {"send", "waited"}
      BY <1>14 DEF AnswerDown
  <2>3. CASE ReturnPermit(c, At(c), [call[c] EXCEPT !.pc = "mark"])
    <3>1. PICK now : now = [call[c] EXCEPT !.pc = "mark"]
        OBVIOUS
    <3>2. ReturnPermit(c, At(c), now) /\ now.pc = "mark"
        BY <2>1, <2>3, <3>1
    <3> QED
        BY <1>4, <2>2, <3>2
  <2>4. CASE ReturnPermit(c, At(c), [call[c] EXCEPT !.pc = "look", !.at = @ + 1])
    <3>1. PICK now : now = [call[c] EXCEPT !.pc = "look", !.at = @ + 1]
        OBVIOUS
    <3>2. ReturnPermit(c, At(c), now) /\ now.pc = "look"
        BY <2>1, <2>4, <3>1
    <3> QED
        BY <1>4, <2>2, <3>2
  <2> QED
      BY <1>14, <2>3, <2>4 DEF AnswerDown
<1>15. CASE WaitedDown(c) \/ AnswerFatal(c)
  <2>1. AfterError \in {"note", "asleep"} /\ AfterFatal \in {"fatal", "failed"}
      BY DEF AfterError, AfterFatal
  <2> QED
      BY <1>2, <1>4, <1>15, <2>1 DEF WaitedDown, AnswerFatal
<1>16. CASE AnswerOk(c)
  <2>1. [Past(AfterSuccess) EXCEPT !.at = At(c)].pc = AfterSuccess
      BY <1>2
  <2>2. AfterSuccess = IF strategy = "embed" THEN "clear" ELSE "done"
      BY DEF AfterSuccess
  <2>3. PICK now : now = [Past(AfterSuccess) EXCEPT !.at = At(c)]
      OBVIOUS
  <2>4. /\ ReturnPermit(c, At(c), now) /\ UNCHANGED <<strategy, cool, fails, degraded>> /\ call[c].pc \in {"send", "waited"}
        /\ now.pc = IF strategy = "embed" THEN "clear" ELSE "done"
      BY <1>16, <2>1, <2>2, <2>3 DEF AnswerOk
  <2>5. now.pc # "unlatch" /\ (now.pc = "done" => strategy # "embed") /\ (now.pc = "clear" => strategy = "embed")
      BY <2>4
  <2> QED
      BY <1>4, <2>4, <2>5
<1>17. CASE Drop(c)
  <2>1. CASE call[c].pc \in {"send", "waited"}
      BY <1>2, <1>4, <1>17, <2>1 DEF Drop
  <2>2. CASE call[c].pc \notin {"send", "waited"}
    <3>1. call' = [call EXCEPT ![c] = Idle]
        BY <1>17, <2>2 DEF Drop, LeaveLine
    <3> QED
        BY <1>2, <1>3, <1>17, <3>1 DEF Drop
  <2> QED
      BY <2>1, <2>2
<1> QED
    BY <1>5, <1>6, <1>7, <1>8, <1>9, <1>10, <1>11, <1>12, <1>13, <1>14, <1>15, <1>16, <1>17 DEF CallStep

LEMMA HealthInit == PoolInit => HealthInv /\ ClearInv
BY DEF PoolInit, HealthInv, ClearInv, Idle

LEMMA HealthStep ==
    ASSUME PoolInv, HealthInv, ClearInv, [PoolNext]_poolVars
    PROVE  HealthInv' /\ ClearInv' /\ (strategy = "llm" => \A e \in Endpoints : cool[e] /\ ~cool'[e] => call' = call)
<1>1. ASSUME NEW c \in Calls, CallStep(c) \/ AnswerFatal(c) \/ Drop(c)
      PROVE  HealthInv' /\ ClearInv' /\ (strategy = "llm" => \A e \in Endpoints : ~(cool[e] /\ ~cool'[e]))
  <2>1. HealthMove(c)
      BY <1>1, StepsAreHealthMoves
  <2>2. ClearInv'
      BY <2>1 DEF HealthMove, ClearInv
  <2>3. ASSUME strategy = "embed", fails' # 0 PROVE \E o \in Calls : call'[o].pc \notin {"unlatch", "done"}
    <3>1. CASE fails' # fails
        BY <2>1, <2>3, <3>1 DEF HealthMove
    <3>2. CASE fails' = fails
      <4>1. PICK o \in Calls : call[o].pc \notin {"unlatch", "done"}
          BY <2>3, <3>2 DEF HealthInv
      <4> QED
          BY <2>1, <2>3, <4>1 DEF HealthMove
    <3> QED
        BY <3>1, <3>2
  <2>4. ASSUME strategy = "embed", degraded' PROVE \E o \in Calls : call'[o].pc # "done"
    <3>1. CASE degraded
      <4>1. PICK o \in Calls : call[o].pc # "done"
          BY <2>4, <3>1 DEF HealthInv
      <4> QED
          BY <2>1, <2>4, <4>1 DEF HealthMove
    <3>2. CASE ~degraded
        BY <2>1, <2>4, <3>2 DEF HealthMove
    <3> QED
        BY <3>1, <3>2
  <2>5. HealthInv'
      BY <2>1, <2>3, <2>4 DEF HealthInv, HealthMove
  <2> QED
      BY <2>1, <2>2, <2>5 DEF HealthMove, ClearInv
<1>2. ASSUME UNCHANGED <<strategy, call, fails, degraded>> PROVE HealthInv' /\ ClearInv'
    BY <1>2 DEF HealthInv, ClearInv
<1>3. ASSUME NEW e \in Endpoints, Expire(e) \/ GoesDown(e) \/ ComesBack(e) PROVE UNCHANGED <<strategy, call, fails, degraded>>
    BY <1>3 DEF Expire, GoesDown, ComesBack
<1>4. ASSUME UNCHANGED poolVars PROVE UNCHANGED <<strategy, call, fails, degraded>>
    BY <1>4 DEF poolVars
<1> QED
    BY <1>1, <1>2, <1>3, <1>4 DEF PoolNext

\* For any calls, endpoints and threshold: when every embedding call has succeeded, the
\* count of failures is zero and writes are not refused, in whatever order record_failure
\* and record_primary_success of racing calls wrote the count and the flag.
THEOREM PoolHealthyWhenServed == PoolSpec => []HealthyWhenServed
<1>1. HealthInv => HealthyWhenServed
    BY DEF HealthInv, HealthyWhenServed
<1> QED
    BY <1>1, InitPoolInv, NextPoolInv, HealthInit, HealthStep, PTL DEF PoolSpec

\* For any calls and endpoints: under the llm strategy no step of a call, not even a
\* success that overlaps the failure, ends a cooldown (clear_cooldown_on_success).
THEOREM PoolCooldownLasts == PoolSpec => CooldownLasts
<1>1. PoolInv /\ HealthInv /\ ClearInv /\ [PoolNext]_poolVars
         => [strategy = "llm" => \A e \in Endpoints : cool[e] /\ ~cool'[e] => call' = call]_poolVars
    BY HealthStep
<1> QED
    BY <1>1, InitPoolInv, NextPoolInv, HealthInit, HealthStep, PTL DEF PoolSpec, CooldownLasts
=============================================================================
