---------------------------- MODULE SpoolReceipt ----------------------------
(***************************************************************************)
(* Following the receipt of a capture that the daemon has accepted:        *)
(* operation_lookup_within of mcp/server_operation_receipt.rs beside the   *)
(* spool of module IngressSpool.  The lookup reads the queue, lists the    *)
(* spool directory, reads the files it listed and reads the queue again.   *)
(***************************************************************************)
EXTENDS IngressSpool

CONSTANT Followed    \* the capture whose receipt is followed

VARIABLE lookup      \* the lookup: its step, the listed files, what it read

varsL == <<vars, lookup>>

InitL == Init /\ lookup = [pc |-> "idle", names |-> {}, pending |-> FALSE]

Key == KeyOf[Followed]

\* The first look at the queue finds nothing.
LookupBegin ==
    /\ lookup.pc = "idle" /\ client[Followed] = "accepted" /\ queue[Key] = None
    /\ lookup' = [lookup EXCEPT !.pc = "list"]

\* contains_operation_id: read_dir.
LookupList ==
    /\ lookup.pc = "list"
    /\ lookup' = [lookup EXCEPT !.pc = "read",
                    !.names = {n \in {"json", "claim"} : disk[Key][n] # None}]

\* Each listed file is read; one that is gone is skipped.
LookupRead(n) ==
    /\ lookup.pc = "read" /\ n \in lookup.names
    /\ lookup' = [lookup EXCEPT !.names = @ \ {n},
                    !.pending = @ \/ disk[Key][n] # None]

\* The second look at the queue decides.
LookupEnd ==
    /\ lookup.pc = "read" /\ lookup.names = {}
    /\ lookup' = [lookup EXCEPT !.pc =
                    IF queue[Key] # None THEN "record"
                    ELSE IF lookup.pending THEN "pending" ELSE "missing"]

Lookup ==
    /\ \/ LookupBegin \/ LookupList \/ LookupEnd
       \/ \E n \in {"json", "claim"} : LookupRead(n)
    /\ UNCHANGED vars

NextL == (Next /\ UNCHANGED lookup) \/ Lookup

SpecL == InitL /\ [][NextL]_varsL

\* The receipt of an accepted capture can be followed: a lookup that starts
\* after the daemon's answer never reports the operation missing.
AcceptedIsNotMissing == lookup.pc # "missing"

----------------------------------------------------------------------------
\* The instance TLC explores: one MCP capture with a generated key.
OneKeyOf == [m |-> "km"]
OnePayloadOf == [m |-> "pm"]
OneClassOf == [m |-> "mcp"]
=============================================================================
