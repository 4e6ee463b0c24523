--------------------------- MODULE MCModelRuntime ---------------------------
(***************************************************************************)
(* The runtime of the model services, for TLC: hot reload with the LLM     *)
(* workers, hot reload with the callers of the embedder, and the pool of   *)
(* endpoints.  The workers and the callers only share what the coordinator *)
(* writes, and the pool shares nothing with either, so each is explored    *)
(* with the others at rest; part says which one.                           *)
(***************************************************************************)
EXTENDS HotReload, EndpointPool

CONSTANTS w1, w2, e1, e2, c1, c2

VARIABLE part
runtimeVars == <<hotVars, poolVars, part>>

\* The second configuration has another LLM endpoint, the third turns it off,
\* and both have another embedding endpoint.
MCLlmOf == [c \in Configs |-> CASE c = "c1" -> "a" [] c = "c2" -> "b" [] OTHER -> Off]
MCEmbedOf == [c \in Configs |-> IF c = "c1" THEN "x" ELSE "y"]
MCCapacity == [e \in Endpoints |-> 1]

\* The daemon runs on the first configuration and nobody edits it.
ReloadAtRest ==
    /\ file = "c1" /\ snapshot = "c1" /\ stamp = 0 /\ notices = FALSE /\ hup = FALSE
    /\ coord = [pc |-> "wait", mode |-> "notify", seen |-> 0, loaded |-> Bad, todo |-> {}, up |-> TRUE]
    /\ gens = [llm |-> 0, embed |-> 0]
    /\ router = Absent /\ worker = [w \in LlmWorkers |-> NoWork]
    /\ cached = [gen |-> 0, embed |-> Absent] /\ caller = [e \in EmbedCallers |-> NoCall]

\* Every call is done.
PoolAtRest ==
    /\ strategy = "llm" /\ up = [e \in Endpoints |-> TRUE]
    /\ cool = [e \in Endpoints |-> FALSE] /\ free = Capacity
    /\ line = [e \in Endpoints |-> <<>>] /\ call = [c \in Calls |-> Past("done")]
    /\ fails = 0 /\ degraded = FALSE /\ pfaults = 0

RuntimeInit ==
    \/ part \in {"llm", "embed"} /\ HotInit /\ file = "c1" /\ PoolAtRest
    \/ part = "pool" /\ PoolInit /\ ReloadAtRest

RuntimeNext ==
    \/ part \in {"llm", "embed"} /\ ReloadNext /\ UNCHANGED <<poolVars, part>>
    \/ part = "llm" /\ LlmNext /\ UNCHANGED <<poolVars, part>>
    \/ part = "embed" /\ EmbedNext /\ UNCHANGED <<poolVars, part>>
    \/ part = "pool" /\ PoolNext /\ UNCHANGED <<hotVars, part>>

RuntimeSpec == RuntimeInit /\ [][RuntimeNext]_runtimeVars /\ HotFairness /\ PoolFairness

\* Types of the coordinator, its followers and the pool.
RuntimeTypeOK == HotTypeOK /\ PoolTypeOK
=============================================================================
