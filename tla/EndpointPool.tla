---------------------------- MODULE EndpointPool ----------------------------
(***************************************************************************)
(* The pool that routes LLM and embedding calls over model endpoints in    *)
(* priority order, the semaphore of every endpoint, the cooldown after a   *)
(* failure, the retry around a call, and the health the embedding calls    *)
(* report (fail_count and degraded, on which writes are refused).          *)
(*                                                                         *)
(* A behaviour uses one strategy throughout.  "embed" clears a cooldown on *)
(* success, reports health and retries in place; "llm" does neither: its   *)
(* message goes back to the queue and a later claim routes it again, which *)
(* is the same wake-up here.  Locks and atomics are separate actions.      *)
(***************************************************************************)
EXTENDS Naturals, Sequences, FiniteSets, SequencesExt

CONSTANTS
    Calls,
    Lowest,         \* endpoints are 1..Lowest, in the order of their priority
    Capacity,     \* permits of every endpoint, max_concurrent.max(1)
    Threshold,    \* degrade_after_n_failures
    MayStayDown,  \* endpoints that need not come back
    MaxFaults     \* bound: outages, fatal answers and dropped calls

Endpoints == 1..Lowest

ASSUME PoolAssumption ==
    /\ Lowest \in Nat \ {0} /\ Threshold \in Nat \ {0} /\ MaxFaults \in Nat
    /\ Capacity \in [Endpoints -> Nat \ {0}]
    /\ MayStayDown \subseteq Endpoints

VARIABLES
    strategy,  \* "embed" or "llm"
    up,        \* the service behind the endpoint answers (external)
    cool,      \* unavailable_until lies in the future
    free,      \* available permits
    line,      \* callers queued in the semaphore, first in first out
    call,      \* the calls
    fails,     \* fail_count, told apart up to Threshold
    degraded,
    pfaults    \* faults so far

poolVars == <<strategy, up, cool, free, line, call, fails, degraded, pfaults>>

Idle == [pc |-> "idle", at |-> 0, sat |-> 0, cooled |-> FALSE, n |-> 0]
At(c) == call[c].at
Goto(c, pc) == call' = [call EXCEPT ![c].pc = pc]
\* The call is past the route: what it remembered of the endpoints is gone.
Past(pc) == [Idle EXCEPT !.pc = pc]

----------------------------------------------------------------------------
\* EndpointPool::route.

Route(c) ==
    /\ call[c].pc = "idle"
    /\ call' = [call EXCEPT ![c] = [Idle EXCEPT !.pc = "look", !.at = 1]]
    /\ UNCHANGED <<strategy, up, cool, free, line, fails, degraded, pfaults>>

\* temporary_unavailable_remaining
Look(c) ==
    /\ call[c].pc = "look" /\ At(c) \in Endpoints
    /\ IF cool[At(c)]
       THEN call' = [call EXCEPT ![c].at = @ + 1, ![c].cooled = TRUE]
       ELSE Goto(c, "try")
    /\ UNCHANGED <<strategy, up, cool, free, line, fails, degraded, pfaults>>

\* The permit is dropped before the request is sent.
MutTry(c) ==
    /\ call[c].pc = "try"
    /\ IF free[At(c)] > 0
       THEN Goto(c, "send")
       ELSE call' = [call EXCEPT ![c].pc = "look", ![c].at = @ + 1,
                                 ![c].sat = IF @ = 0 THEN At(c) ELSE @]
    /\ UNCHANGED <<strategy, up, cool, free, line, fails, degraded, pfaults>>
\* try_acquire: a permit, or the endpoint is saturated and the next one is looked at.
Try(c) ==
    /\ call[c].pc = "try"
    /\ IF free[At(c)] > 0
       THEN free' = [free EXCEPT ![At(c)] = @ - 1] /\ Goto(c, "send")
       ELSE /\ call' = [call EXCEPT ![c].pc = "look", ![c].at = @ + 1,
                                    ![c].sat = IF @ = 0 THEN At(c) ELSE @]
            /\ UNCHANGED free
    /\ UNCHANGED <<strategy, up, cool, line, fails, degraded, pfaults>>

\* A dropped permit goes to the first in line (tokio's semaphore); now says what
\* became of c.
ReturnPermit(c, e, now) ==
    IF line[e] = << >>
    THEN /\ free' = [free EXCEPT ![e] = @ + 1]
         /\ call' = [call EXCEPT ![c] = now]
         /\ UNCHANGED line
    ELSE /\ line' = [line EXCEPT ![e] = Tail(@)]
         /\ call' = [call EXCEPT ![c] = now, ![Head(line[e])].pc = "waited"]
         /\ UNCHANGED free

\* clear_cooldown_on_success
AfterSuccess == IF strategy = "embed" THEN "clear" ELSE "done"
AfterError == IF strategy = "embed" THEN "note" ELSE "asleep"
AfterFatal == IF strategy = "embed" THEN "fatal" ELSE "failed"

AnswerOk(c) ==
    /\ call[c].pc \in {"send", "waited"} /\ up[At(c)]
    /\ ReturnPermit(c, At(c), [Past(AfterSuccess) EXCEPT !.at = At(c)])
    /\ UNCHANGED <<strategy, up, cool, fails, degraded, pfaults>>

\* A retryable error of a tried endpoint: cool it down and go on, or go on at
\* once when the error says nothing about when (404 for llm, 408 for embed).
AnswerDown(c) ==
    /\ call[c].pc = "send" /\ ~up[At(c)]
    /\ \/ ReturnPermit(c, At(c), [call[c] EXCEPT !.pc = "mark"])
       \/ ReturnPermit(c, At(c), [call[c] EXCEPT !.pc = "look", !.at = @ + 1])
    /\ UNCHANGED <<strategy, up, cool, fails, degraded, pfaults>>

\* mark_temporarily_unavailable
MarkCool(c) ==
    /\ call[c].pc = "mark"
    /\ cool' = [cool EXCEPT ![At(c)] = TRUE]
    /\ call' = [call EXCEPT ![c].pc = "look", ![c].at = @ + 1, ![c].cooled = TRUE]
    /\ UNCHANGED <<strategy, up, free, line, fails, degraded, pfaults>>

\* Every endpoint was seen: wait for the first saturated one, whatever has
\* happened to it since; else report the cooldown, or the first error.
EndOfList(c) ==
    /\ call[c].pc = "look" /\ At(c) > Lowest
    /\ LET s == call[c].sat
       IN  IF s # 0
           THEN IF free[s] > 0
                THEN /\ free' = [free EXCEPT ![s] = @ - 1]
                     /\ call' = [call EXCEPT ![c] = [Past("waited") EXCEPT !.at = s]]
                     /\ UNCHANGED line
                ELSE /\ line' = [line EXCEPT ![s] = Append(@, c)]
                     /\ call' = [call EXCEPT ![c] = [Past("queued") EXCEPT !.at = s]]
                     /\ UNCHANGED free
           ELSE /\ call' = [call EXCEPT ![c] = Past(IF call[c].cooled \/ strategy = "embed"
                                                    THEN AfterError ELSE AfterFatal)]
                /\ UNCHANGED <<free, line>>
    /\ UNCHANGED <<strategy, up, cool, fails, degraded, pfaults>>

\* wait_for_endpoint(..)?: the error is returned as it is, no cooldown is marked.
WaitedDown(c) ==
    /\ call[c].pc = "waited" /\ ~up[At(c)]
    /\ ReturnPermit(c, At(c), Past(AfterError))
    /\ UNCHANGED <<strategy, up, cool, fails, degraded, pfaults>>

\* A response that cannot be used and is not retried (401, 400, wrong dimensions).
AnswerFatal(c) ==
    /\ call[c].pc \in {"send", "waited"} /\ pfaults < MaxFaults
    /\ ReturnPermit(c, At(c), Past(AfterFatal))
    /\ pfaults' = pfaults + 1
    /\ UNCHANGED <<strategy, up, cool, fails, degraded>>

\* mark_available, also when the cooldown is younger than the request.
Clear(c) ==
    /\ call[c].pc = "clear"
    /\ cool' = [cool EXCEPT ![At(c)] = FALSE]
    /\ call' = [call EXCEPT ![c] = Past("reset")]
    /\ UNCHANGED <<strategy, up, free, line, fails, degraded, pfaults>>

\* A queued future that is dropped takes its waiter out of the line.
LeaveLine(c, e) ==
    /\ \E i \in DOMAIN line[e] : line[e][i] = c /\ line' = [line EXCEPT ![e] = RemoveAt(@, i)]
    /\ call' = [call EXCEPT ![c] = Idle]
    /\ UNCHANGED free

\* The request outlives the future that is dropped, and its permit with it.
MutDrop(c) ==
    /\ call[c].pc \in {"look", "try", "send", "queued", "waited", "asleep"} /\ pfaults < MaxFaults
    /\ pfaults' = pfaults + 1
    /\ IF call[c].pc = "queued" THEN LeaveLine(c, At(c))
       ELSE call' = [call EXCEPT ![c] = Idle] /\ UNCHANGED <<free, line>>
    /\ UNCHANGED <<strategy, up, cool, fails, degraded>>
\* The future is dropped (config change, shutdown); the work is routed again.
Drop(c) ==
    /\ call[c].pc \in {"look", "try", "send", "queued", "waited", "asleep"} /\ pfaults < MaxFaults
    /\ pfaults' = pfaults + 1
    /\ CASE call[c].pc \in {"send", "waited"} -> ReturnPermit(c, At(c), Idle)
         [] call[c].pc = "queued" -> LeaveLine(c, At(c))
         [] OTHER -> call' = [call EXCEPT ![c] = Idle] /\ UNCHANGED <<free, line>>
    /\ UNCHANGED <<strategy, up, cool, fails, degraded>>

----------------------------------------------------------------------------
\* retry_embed_operation and EmbedStatus.

\* record_failure: the counter first, then the flag.
NoteFailure(c) ==
    /\ call[c].pc \in {"note", "fatal"}
    /\ LET n == IF fails < Threshold THEN fails + 1 ELSE Threshold
       IN  /\ fails' = n
           /\ call' = [call EXCEPT ![c].n = n,
                                   ![c].pc = IF @ = "note" THEN "latch" ELSE "latchFatal"]
    /\ UNCHANGED <<strategy, up, cool, free, line, degraded, pfaults>>

Latch(c) ==
    /\ call[c].pc \in {"latch", "latchFatal"}
    /\ degraded' = (degraded \/ call[c].n >= Threshold)
    /\ call' = [call EXCEPT ![c] = Past(IF @.pc = "latch" THEN "asleep" ELSE "failed")]
    /\ UNCHANGED <<strategy, up, cool, free, line, fails, pfaults>>

\* record_primary_success: the counter first, then the flag.
ResetCount(c) ==
    /\ call[c].pc = "reset"
    /\ fails' = 0
    /\ Goto(c, "unlatch")
    /\ UNCHANGED <<strategy, up, cool, free, line, degraded, pfaults>>
Unlatch(c) ==
    /\ call[c].pc = "unlatch"
    /\ degraded' = FALSE
    /\ Goto(c, "done")
    /\ UNCHANGED <<strategy, up, cool, free, line, fails, pfaults>>

\* The wait is over: wait_for_next_retry, or the queue's next claim.
Wake(c) ==
    /\ call[c].pc = "asleep"
    /\ call' = [call EXCEPT ![c] = Idle]
    /\ UNCHANGED <<strategy, up, cool, free, line, fails, degraded, pfaults>>

----------------------------------------------------------------------------
\* Time and the services.

Expire(e) ==
    /\ cool[e]
    /\ cool' = [cool EXCEPT ![e] = FALSE]
    /\ UNCHANGED <<strategy, up, free, line, call, fails, degraded, pfaults>>

GoesDown(e) ==
    /\ up[e] /\ pfaults < MaxFaults
    /\ up' = [up EXCEPT ![e] = FALSE]
    /\ pfaults' = pfaults + 1
    /\ UNCHANGED <<strategy, cool, free, line, call, fails, degraded>>

ComesBack(e) ==
    /\ ~up[e]
    /\ up' = [up EXCEPT ![e] = TRUE]
    /\ UNCHANGED <<strategy, cool, free, line, call, fails, degraded, pfaults>>

----------------------------------------------------------------------------
PoolInit ==
    /\ strategy \in {"embed", "llm"}
    /\ up \in [Endpoints -> BOOLEAN]
    /\ cool = [e \in Endpoints |-> FALSE]
    /\ free = Capacity
    /\ line = [e \in Endpoints |-> << >>]
    /\ call = [c \in Calls |-> Idle]
    /\ fails = 0 /\ degraded = FALSE /\ pfaults = 0

\* What a call does by itself once it runs.
CallStep(c) ==
    \/ Route(c) \/ Look(c) \/ Try(c) \/ AnswerOk(c) \/ AnswerDown(c) \/ MarkCool(c)
    \/ EndOfList(c) \/ WaitedDown(c) \/ Clear(c)
    \/ NoteFailure(c) \/ Latch(c) \/ ResetCount(c) \/ Unlatch(c) \/ Wake(c)

PoolNext ==
    \/ \E c \in Calls : CallStep(c) \/ AnswerFatal(c) \/ Drop(c)
    \/ \E e \in Endpoints : Expire(e) \/ GoesDown(e) \/ ComesBack(e)

\* Tasks are scheduled, requests end (request_timeout_secs), cooldowns expire,
\* and the services outside MayStayDown come back.
PoolFairness ==
    /\ \A c \in Calls : WF_poolVars(CallStep(c))
    /\ \A e \in Endpoints : WF_poolVars(Expire(e))
    /\ \A e \in Endpoints \ MayStayDown : WF_poolVars(ComesBack(e))
PoolSpec == PoolInit /\ [][PoolNext]_poolVars /\ PoolFairness

----------------------------------------------------------------------------
Pcs == {"idle", "look", "try", "send", "mark", "queued", "waited", "clear", "reset", "unlatch",
        "note", "latch", "fatal", "latchFatal", "asleep", "done", "failed"}

\* Types; no endpoint has more permits than max_concurrent (LlmClient, EmbedStatus).
PoolTypeOK ==
    /\ strategy \in {"embed", "llm"} /\ up \in [Endpoints -> BOOLEAN] /\ cool \in [Endpoints -> BOOLEAN]
    /\ \A e \in Endpoints : free[e] \in 0..Capacity[e]
    /\ line \in [Endpoints -> Seq(Calls)]
    /\ call \in [Calls -> [pc : Pcs, at : 0..Lowest + 1, sat : 0..Lowest, cooled : BOOLEAN,
                           n : 0..Threshold]]
    /\ fails \in 0..Threshold /\ degraded \in BOOLEAN /\ pfaults \in 0..MaxFaults

Holders(e) == {c \in Calls : call[c].pc \in {"send", "waited"} /\ At(c) = e}

\* A permit is free or in the hands of one call, whatever was dropped while it
\* sent or queued; nobody queues while a permit is free, so a caller that tries
\* never overtakes one that waits.
PermitsAccounted ==
    \A e \in Endpoints :
        /\ free[e] + Cardinality(Holders(e)) = Capacity[e]
        /\ line[e] # << >> => free[e] = 0
        /\ ToSet(line[e]) = {c \in Calls : call[c].pc = "queued" /\ At(c) = e}

\* concurrent_success_does_not_clear_newer_cooldown_by_default: under the llm
\* strategy a cooldown ends by its time and by nothing a call does.
CooldownLasts ==
    [][strategy = "llm" => \A e \in Endpoints : cool[e] /\ ~cool'[e] => call' = call]_poolVars

\* When every embedding call has succeeded the pool is healthy again: no failure
\* that raced with a success leaves writes refused.
HealthyWhenServed ==
    (strategy = "embed" /\ \A c \in Calls : call[c].pc = "done") => fails = 0 /\ ~degraded

\* Every call ends, through outages, saturation, cooldowns and dropped futures,
\* as long as one endpoint comes back: none waits in a line forever or is turned
\* away from one endpoint to the other without end.
EveryCallEnds == <>(\A c \in Calls : call[c].pc \in {"done", "failed"})
=============================================================================
