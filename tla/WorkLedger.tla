----------------------------- MODULE WorkLedger -----------------------------
(***************************************************************************)
(* What the pending-message queue promises its producers and its workers,  *)
(* without tables, claim tokens, heartbeats, retries or the daemon: an     *)
(* identity is accepted once, for one payload; from then on it is open,    *)
(* failed or settled; only work somebody holds is completed, only failed   *)
(* work is archived, and settled work never comes back.                    *)
(*                                                                         *)
(* One step may move several identities: a claim first takes silent claims *)
(* back and then hands one message out, a requeue reopens a whole set.     *)
(***************************************************************************)
CONSTANTS Ids, Payloads, Workers, None

VARIABLES
    state,    \* "new", "open", "failed", "completed" or "archived"
    payload,  \* the payload the identity was accepted for
    holder    \* the worker that may complete it

ledgerVars == <<state, payload, holder>>

Goes(id, from, to) == state[id] = from /\ state'[id] = to
Keeps(id) == payload'[id] = payload[id]
Nobody(id) == holder'[id] = None

Accepted(id)  == Goes(id, "new", "open") /\ payload'[id] \in Payloads /\ Nobody(id)
Taken(id)     == Goes(id, "open", "open") /\ Keeps(id) /\ holder'[id] \in Workers
Freed(id)     == Goes(id, "open", "open") /\ Keeps(id) /\ Nobody(id)
Failed(id)    == Goes(id, "open", "failed") /\ Keeps(id) /\ Nobody(id)
Reopened(id)  == Goes(id, "failed", "open") /\ Keeps(id) /\ Nobody(id)
Completed(id) == Goes(id, "open", "completed") /\ holder[id] \in Workers /\ Keeps(id) /\ Nobody(id)
Archived(id)  == Goes(id, "failed", "archived") /\ Keeps(id) /\ Nobody(id)
Rests(id)     == Goes(id, state[id], state[id]) /\ Keeps(id) /\ holder'[id] = holder[id]

Move(id) ==
    \/ Accepted(id) \/ Taken(id) \/ Freed(id) \/ Failed(id) \/ Reopened(id)
    \/ Completed(id) \/ Archived(id) \/ Rests(id)

\* Two workers never get something out of the queue in the same step.
OneTaker == \A a, b \in Ids : holder'[a] \notin {holder[a], None}
                              /\ holder'[b] \notin {holder[b], None} => a = b

LedgerInit ==
    /\ state = [id \in Ids |-> "new"]
    /\ payload = [id \in Ids |-> None]
    /\ holder = [id \in Ids |-> None]
LedgerNext == OneTaker /\ \A id \in Ids : Move(id)
LedgerSpec == LedgerInit /\ [][LedgerNext]_ledgerVars
=============================================================================
