----------------------------- MODULE MCReindex -----------------------------
(***************************************************************************)
(* Small instances of the reindex command for TLC: two sources, the first  *)
(* with two drawers.                                                       *)
(***************************************************************************)
EXTENDS Reindex

MCPathOf == [d \in Drawers |-> IF d <= 2 THEN 1 ELSE 2]
MCChunkOf == [d \in Drawers |-> IF d = 2 THEN 1 ELSE 0]
\* Captures without a payload file share the source path of all of them, each as
\* its first chunk (synthetic_source_file in daemon.rs).
MCSameChunk == [d \in Drawers |-> 0]
MCTargets == {Drawers, {2}}
=============================================================================
