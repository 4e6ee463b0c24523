--------------------------- MODULE MCWriterLease ---------------------------
(***************************************************************************)
(* Small instances of the writer lease for TLC.                            *)
(***************************************************************************)
EXTENDS WriterLease

CONSTANTS d1, d2, c1, m1, r1, r2

\* Two daemon births, a command, an MCP server and two rejudge births.
MCMode == [p \in Procs |-> CASE p \in {d1, d2} -> "daemon" [] p = c1 -> "cli"
                              [] p = m1 -> "mcp" [] p \in {r1, r2} -> "rejudge"]
MCOneNamespace == [p \in Procs |-> "host"]
\* The second daemon runs in a container that shares the database directory.
MCContainer == [p \in Procs |-> IF p = d2 THEN "container" ELSE "host"]

\* Who runs together: one daemon, a command and two rejudge births, or two
\* daemon births, a command and an MCP server; or everyone.
Crews == {{d1, c1, r1, r2}, {d1, d2, c1, m1}}
CrewInit == Init /\ \E crew \in Crews : alive = [p \in Procs |-> p \in crew]
CrewSpec == CrewInit /\ [][Next]_vars /\ LeaseFairness
EveryoneInit == Init /\ alive = [p \in Procs |-> TRUE]
EveryoneSpec == EveryoneInit /\ [][Next]_vars /\ LeaseFairness
=============================================================================
