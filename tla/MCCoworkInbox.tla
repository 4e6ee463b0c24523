--------------------------- MODULE MCCoworkInbox ---------------------------
(* Small instances of the two-party inbox for TLC. *)
EXTENDS CoworkInbox

CONSTANTS m1, m2, m3, k1, k2

\* The line of m2 is longer than the others.
MCSize == [m \in Msgs |-> IF m = m2 THEN 2 ELSE 1]
=============================================================================
