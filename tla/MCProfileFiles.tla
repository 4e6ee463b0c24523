--------------------------- MODULE MCProfileFiles ---------------------------
(***************************************************************************)
(* The protocols of the profile's own files, for TLC: the inbox of an      *)
(* agent on the bus, the holders of the database, the ingestion of source  *)
(* files, the reindex command and the lifecycle of a knowledge card.  They *)
(* share no state, so each is explored with the others at rest; part says  *)
(* which one.                                                              *)
(***************************************************************************)
EXTENDS CoworkBus, DbAdmission, SourceIngest, Reindex, KnowledgeCards

CONSTANTS m1, m2, k1, k2, svc, c1, c2, i1, i2, i3, p1, p2, cl

VARIABLE part
profileVars == <<busVars, admVars, ingestVars, reindexVars, cardVars, part>>

MCSize == [m \in Msgs |-> IF m = m2 THEN 2 ELSE 1]

\* A daemon and a large command with two units of cache each, a command with one:
\* the limits on bytes, on holders and on transient holders each bind somewhere.
MCBytesOf == [p \in Procs |-> IF p = c1 THEN 1 ELSE 2]
\* The lease files of its first admission may resist removal.
MCSticky == {<<c1, 1>>}

\* Two calls for one source and one for another with the same content in it.
MCSourceOf == [i \in Ingests |-> IF i = i3 THEN "t" ELSE "s"]
MCModesOf ==
    [i \in Ingests |-> IF i = i1 THEN {"replace"}
                       ELSE IF i = i2 THEN {"replace", "supersede"}
                       ELSE {"add", "supersede"}]
MCFewModesOf == [MCModesOf EXCEPT ![i3] = {"add"}]

\* Two sources, the first with two drawers.
MCPathOf == [x \in Drawers |-> IF x <= 2 THEN 1 ELSE 2]
MCChunkOf == [x \in Drawers |-> IF x = 2 THEN 1 ELSE 0]
MCTargets == {Drawers, {2}}

\* Three pieces of supporting evidence, one of them for teaching too, no verification.
MCFirstLinks == {<<e, "supporting">> : e \in {"e1", "e2", "e3"}} \cup {<<"e1", "teaching">>}

\* Promotions with two refs, with one ref named twice, past the gate, over
\* counterexamples and without a reviewer; a demotion, a retirement and a link.
Promotion(to, refs) ==
    [kind |-> "promote", to |-> to, refs |-> refs, reason |-> "r",
     reviewer |-> TRUE, allow |-> FALSE, gated |-> TRUE]
Demotion(to) == [Promotion(to, <<"e3">>) EXCEPT !.kind = "demote", !.gated = FALSE]
MCCardRequests ==
    {Promotion("canonical", <<"e1", "e2">>), Promotion("canonical", <<"e1", "e1">>),
     [Promotion("canonical", <<"e1">>) EXCEPT !.gated = FALSE, !.reason = "s"],
     [Promotion("canonical", <<"e2">>) EXCEPT !.allow = TRUE],
     [Promotion("promoted", <<"e1">>) EXCEPT !.reviewer = FALSE],
     Demotion("demoted"), Demotion("retired"),
     [Demotion("counterexample") EXCEPT !.kind = "link"]}

ProfileInit ==
    /\ BusInit /\ AdmInit /\ IngestInit /\ ReindexInit /\ CardInit
    /\ disk["t"] = {"a"}
    /\ part \in {"bus", "admission", "ingest", "reindex", "cards"}
    /\ part # "ingest" => disk["s"] = {"a"}
    /\ part # "reindex" => \A x \in Drawers : stamp[x] = "new"
    /\ part # "cards" => tier = "shu"

ProfileNext ==
    \/ part = "bus" /\ BusNext /\ UNCHANGED <<admVars, ingestVars, reindexVars, cardVars, part>>
    \/ part = "admission" /\ AdmNext /\ UNCHANGED <<busVars, ingestVars, reindexVars, cardVars, part>>
    \/ part = "ingest" /\ IngestNext /\ UNCHANGED <<busVars, admVars, reindexVars, cardVars, part>>
    \/ part = "reindex" /\ ReindexNext /\ UNCHANGED <<busVars, admVars, ingestVars, cardVars, part>>
    \/ part = "cards" /\ CardNext /\ UNCHANGED <<busVars, admVars, ingestVars, reindexVars, part>>

\* The knowledge card alone.
CardsInit == ProfileInit /\ part = "cards"
CardsSpec == CardsInit /\ [][ProfileNext]_profileVars

ProfileSpec == ProfileInit /\ [][ProfileNext]_profileVars

\* Types of the five protocols' files, tables and calls.
ProfileTypeOK == BusTypeOK /\ AdmTypeOK /\ IngestTypeOK /\ ReindexTypeOK /\ CardTypeOK
=============================================================================
