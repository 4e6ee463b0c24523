--------------------------- MODULE MCIngressSpool ---------------------------
(* Instances of IngressSpool for TLC. *)
EXTENDS IngressSpool

\* A hook capture and an MCP capture with a generated key.
HookKeys == {"kh", "fh", "km"}
HookKeyOf == [h |-> "kh", m |-> "km"]
HookFreshOf == [h |-> "fh", m |-> "km"]
HookPayloadOf == [h |-> "ph", m |-> "pm"]
HookClassOf == [h |-> "hook", m |-> "mcp"]

\* A caller's operation key used twice with one payload (a, b), a durable REST
\* request with the same key and another payload (d), and another key (o).
RetryKeys == {"k", "ko"}
RetryKeyOf == [c \in Captures |-> IF c = "o" THEN "ko" ELSE "k"]
RetryPayloadOf == [c \in Captures |-> CASE c = "o" -> "po" [] c = "d" -> "q" [] OTHER -> "p"]
RetryClassOf == [c \in Captures |-> CASE c = "o" -> "mcp" [] c = "d" -> "direct" [] OTHER -> "keyed"]

\* A caller's operation key used twice with two payloads.
ClashKeys == {"k"}
ClashKeyOf == [a |-> "k", b |-> "k"]
ClashPayloadOf == [a |-> "p", b |-> "q"]
ClashClassOf == [a |-> "keyed", b |-> "keyed"]
=============================================================================
