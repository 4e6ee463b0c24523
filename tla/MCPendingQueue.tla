--------------------------- MODULE MCPendingQueue ---------------------------
(***************************************************************************)
(* Small instances of the pending-message queue for TLC.                   *)
(***************************************************************************)
EXTENDS PendingQueue

CONSTANTS h1, h2, m1, m2, l1, pa, pb, px, t1, t2, t3, t4, t5

\* Identities 1 and 2 are durable ingest keys, 3 a hook event, 4 an llm task.
MCKindOf == [id \in Ids |-> CASE id \in {1, 2} -> "ingest" [] id = 3 -> "hook"
                              [] id = 4 -> "llm"]
\* An ingest key may be resubmitted with another payload.
MCPayloadsOf == [id \in Ids |-> IF id \in {1, 2} THEN {pa, pb} ELSE {px}]
MCOnePayloadOf == [id \in Ids |-> {px}]
MCSizeOf == [p \in {pa, pb, px} |-> IF p = pa THEN 2 ELSE 1]
\* h1 and h2 are hook workers, m1 and m2 ingest workers, l1 an llm worker.
MCServes == [w \in Workers |-> CASE w \in {h1, h2} -> "hook" [] w \in {m1, m2} -> "ingest"
                                 [] w = l1 -> "llm"]
=============================================================================
