--------------------------- MODULE KnowledgeCards ---------------------------
(***************************************************************************)
(* The lifecycle of one knowledge card: promotion behind the evidence      *)
(* gate, demotion with counterexamples, and the link command.  A promotion *)
(* or demotion reads the card and its links, judges the gate on what it    *)
(* read, and then writes new links, the card and an event whose id is      *)
(* made from the card, the event's type and the reason.                    *)
(*                                                                         *)
(* A call of the MCP server writes in one transaction fenced by its        *)
(* writer lease.  The command line holds a lease too but hands none to     *)
(* the write, so each of its statements commits by itself.                 *)
(***************************************************************************)
EXTENDS Integers, Sequences, FiniteSets, Functions

CONSTANTS
    CardCalls,      \* calls of the MCP server and of the command line
    Cli,            \* those of the command line
    Overdue,        \* calls whose lease may run out while they work
    CardRequests,   \* what a call may ask for
    CardTiers,      \* tiers the card may have
    FirstLinks,     \* the evidence the card starts with
    NoHolder

ASSUME CardAssumption ==
    /\ NoHolder \notin CardCalls /\ Cli \subseteq CardCalls /\ IsFiniteSet(FirstLinks)
    /\ \A r \in CardRequests : r.refs \in Seq(Range(r.refs))

VARIABLES
    tier,           \* knowledge_cards.tier
    cardStatus,     \* knowledge_cards.status
    links,          \* knowledge_evidence_links, as <<drawer, role>>
    events,         \* knowledge_events, in order of insertion
    holder,         \* the call the lease row belongs to
    call            \* progress of each call
cardVars == <<tier, cardStatus, links, events, holder, call>>

NoRequest == [kind |-> "none", to |-> "none", refs |-> <<>>, reason |-> "none",
              reviewer |-> FALSE, allow |-> FALSE, gated |-> FALSE]
Untouched == [pc |-> "idle", req |-> NoRequest, old |-> "none", fresh |-> {}]

CardInit ==
    /\ tier \in CardTiers
    /\ cardStatus = "demoted"
    /\ links = FirstLinks
    /\ events = <<>>
    /\ holder = NoHolder
    /\ call = [c \in CardCalls |-> Untouched]

-----------------------------------------------------------------------------
(* The gate. *)

TierAllows ==
    CASE tier = "dao_tian" -> {"canonical", "demoted"}
      [] tier = "shu" -> {"pending_review", "promoted", "demoted", "retired"}
      [] OTHER -> {"pending_review", "candidate", "promoted", "demoted", "retired"}

Requirements(to) ==
    CASE tier = "dao_tian" /\ to = "canonical" ->
            [supporting |-> 3, verification |-> 2, teaching |-> 1, reviewer |-> TRUE]
      [] tier = "dao_ren" /\ to = "promoted" ->
            [supporting |-> 2, verification |-> 1, teaching |-> 0, reviewer |-> FALSE]
      [] tier \in {"shu", "qi"} /\ to = "promoted" ->
            [supporting |-> 1, verification |-> 1, teaching |-> 0, reviewer |-> FALSE]
      [] OTHER ->
            [supporting |-> 0, verification |-> 0, teaching |-> 0, reviewer |-> FALSE]

Roles == {"supporting", "verification", "counterexample", "teaching"}
Counts(ls) == [role \in Roles |-> Cardinality({l \in ls : l[2] = role})]

GateAllows(r, counts) ==
    LET need == Requirements(r.to)
    IN  /\ counts["supporting"] >= need.supporting
        /\ counts["verification"] >= need.verification
        /\ counts["teaching"] >= need.teaching
        /\ need.reviewer => r.reviewer
        /\ counts["counterexample"] = 0 \/ r.allow

RoleOf(r) == IF r.kind = "promote" THEN "verification" ELSE "counterexample"

\* The refs, by position, that are not linked in the role yet; a ref named twice
\* stays twice.
MissingRefs(r) == {i \in DOMAIN r.refs : <<r.refs[i], RoleOf(r)>> \notin links}

ProjectedCounts(r) ==
    [Counts(links) EXCEPT ![RoleOf(r)] = @ + Cardinality(MissingRefs(r))]

Accepted(r) ==
    /\ r.to \in IF r.kind = "promote" THEN {"promoted", "canonical"} ELSE {"demoted", "retired"}
    /\ r.refs # <<>>
    /\ r.to \in TierAllows
    /\ r.kind = "promote" /\ r.gated => GateAllows(r, ProjectedCounts(r))

-----------------------------------------------------------------------------
(* The tables.  Links are unique by card, drawer and role, events by id.   *)

MutLinksClash(refs, at, role) == FALSE
LinksClash(refs, at, role) ==
    \E i \in at : <<refs[i], role>> \in links \/ \E j \in at \ {i} : refs[i] = refs[j]

WithLinks(refs, at, role) == links \cup {<<refs[i], role>> : i \in at}

EventType(r) ==
    CASE r.kind = "promote" -> "promoted" [] r.to = "retired" -> "retired" [] OTHER -> "demoted"

EventOf(c) ==
    [type |-> EventType(call[c].req), reason |-> call[c].req.reason,
     from |-> call[c].old, to |-> call[c].req.to]

EventIdTaken(c) ==
    \E i \in DOMAIN events :
        events[i].type = EventOf(c).type /\ events[i].reason = EventOf(c).reason

-----------------------------------------------------------------------------
(* The steps of a call. *)

CardAt(c, pc) == call[c].pc = pc
CardGoto(c, pc) == call' = [call EXCEPT ![c].pc = pc]

Freed(c) == IF holder = c THEN NoHolder ELSE holder

\* The call answers; its guard releases the lease when it still has it.
AnswerCard(c, answer) == CardGoto(c, answer) /\ holder' = Freed(c)

\* acquire_content_writer_lease and acquire_cli_content_writer_lease.
AcquireForCard(c) ==
    /\ CardAt(c, "idle")
    /\ \/ /\ holder = NoHolder
          /\ holder' = c
          /\ \E r \in CardRequests :
                /\ r.kind = "link" => c \in Cli
                /\ call' = [call EXCEPT ![c].pc = "held", ![c].req = r]
       \/ /\ holder # NoHolder
          /\ CardGoto(c, "refused")
          /\ UNCHANGED holder
    /\ UNCHANGED <<tier, cardStatus, links, events>>

\* The reads and checks of promote_card and demote_card.
ReadCard(c) ==
    /\ CardAt(c, "held")
    /\ call[c].req.kind # "link"
    /\ IF Accepted(call[c].req)
       THEN /\ call' = [call EXCEPT ![c].pc = "ready", ![c].old = cardStatus,
                                    ![c].fresh = MissingRefs(call[c].req)]
            /\ UNCHANGED holder
       ELSE AnswerCard(c, "refused")
    /\ UNCHANGED <<tier, cardStatus, links, events>>

MutFenceHolds(c) == TRUE
FenceHolds(c) == holder = c

\* apply_card_lifecycle with a lease: the fence and every write commit, or nothing.
ApplyFenced(c) ==
    LET r == call[c].req
    IN  /\ CardAt(c, "ready")
        /\ c \notin Cli
        /\ IF FenceHolds(c) /\ ~LinksClash(r.refs, call[c].fresh, RoleOf(r)) /\ ~EventIdTaken(c)
           THEN /\ links' = WithLinks(r.refs, call[c].fresh, RoleOf(r))
                /\ cardStatus' = r.to
                /\ events' = Append(events, EventOf(c))
                /\ CardGoto(c, "committed")
                /\ UNCHANGED holder
           ELSE AnswerCard(c, "refused") /\ UNCHANGED <<links, cardStatus, events>>
        /\ UNCHANGED tier

\* apply_card_lifecycle without a lease: link by link, then the card, then the event.
CliInsertLink(c, i) ==
    LET r == call[c].req
    IN  /\ CardAt(c, "ready")
        /\ c \in Cli
        /\ i \in call[c].fresh /\ \A j \in call[c].fresh : i <= j
        /\ IF LinksClash(r.refs, {i}, RoleOf(r))
           THEN AnswerCard(c, "refused") /\ UNCHANGED links
           ELSE /\ links' = WithLinks(r.refs, {i}, RoleOf(r))
                /\ call' = [call EXCEPT ![c].fresh = @ \ {i}]
                /\ UNCHANGED holder
        /\ UNCHANGED <<tier, cardStatus, events>>

CliUpdateCard(c) ==
    /\ CardAt(c, "ready")
    /\ c \in Cli
    /\ call[c].fresh = {}
    /\ cardStatus' = call[c].req.to
    /\ CardGoto(c, "updated")
    /\ UNCHANGED <<tier, links, events, holder>>

CliAppendEvent(c) ==
    /\ CardAt(c, "updated")
    /\ IF EventIdTaken(c)
       THEN AnswerCard(c, "torn") /\ UNCHANGED events
       ELSE CardGoto(c, "committed") /\ events' = Append(events, EventOf(c)) /\ UNCHANGED holder
    /\ UNCHANGED <<tier, cardStatus, links>>

\* The links are read back for the answer; a read that fails turns what has been
\* committed into an error.
ReadBack(c) ==
    /\ CardAt(c, "committed")
    /\ AnswerCard(c, "ok") \/ AnswerCard(c, "failed")
    /\ UNCHANGED <<tier, cardStatus, links, events>>

\* knowledge-card link: one insert.
LinkEvidence(c) ==
    LET r == call[c].req
    IN  /\ CardAt(c, "held")
        /\ r.kind = "link"
        /\ IF LinksClash(r.refs, DOMAIN r.refs, r.to)
           THEN AnswerCard(c, "refused") /\ UNCHANGED links
           ELSE AnswerCard(c, "ok") /\ links' = WithLinks(r.refs, DOMAIN r.refs, r.to)
        /\ UNCHANGED <<tier, cardStatus, events>>

InProgress(c) == call[c].pc \in {"held", "ready", "updated", "committed"}

\* A call's heartbeats come late and some command's cleanup, which does not ask
\* whether the holder is alive, removes the row.
LeaseLapses(c) ==
    /\ InProgress(c)
    /\ c \in Overdue
    /\ holder = c
    /\ holder' = NoHolder
    /\ UNCHANGED <<tier, cardStatus, links, events, call>>

\* The process dies; the next acquisition drops the lease of a dead process.  The
\* command that dies between the card and the event leaves its work torn.
CardCallDies(c) ==
    /\ InProgress(c)
    /\ AnswerCard(c, IF CardAt(c, "updated") THEN "torn" ELSE "dead")
    /\ UNCHANGED <<tier, cardStatus, links, events>>

CardNext ==
    \E c \in CardCalls :
        \/ AcquireForCard(c) \/ ReadCard(c) \/ ApplyFenced(c)
        \/ (\E i \in call[c].fresh : CliInsertLink(c, i)) \/ CliUpdateCard(c) \/ CliAppendEvent(c) \/ ReadBack(c)
        \/ LinkEvidence(c) \/ LeaseLapses(c) \/ CardCallDies(c)

CardSpec == CardInit /\ [][CardNext]_cardVars

-----------------------------------------------------------------------------
(* Properties. *)

\* Types of the card's rows and of the calls.
CardTypeOK ==
    /\ tier \in {"dao_tian", "dao_ren", "shu", "qi"}
    /\ cardStatus \in TierAllows
    /\ \A l \in links : l[2] \in Roles
    /\ \A i \in DOMAIN events : events[i].to \in TierAllows
    /\ holder \in CardCalls \cup {NoHolder}
    /\ DOMAIN call = CardCalls

WritesStatus(c) == CardAt(c, "ready") /\ call'[c].pc \in {"updated", "committed"}

\* A gated promotion takes effect only on a card whose linked evidence meets the
\* gate at that moment: not with evidence counted twice, and not with what was
\* there when the call read it.
GateHoldsWhenPromoted ==
    [][\A c \in CardCalls :
          WritesStatus(c) /\ call[c].req.kind = "promote" /\ call[c].req.gated
              => GateAllows(call[c].req, Counts(links'))]_cardVars

LastStatus == IF events = <<>> THEN "demoted" ELSE events[Len(events)].to
Linked ==
    \A i \in DOMAIN events : events[i].from = IF i = 1 THEN "demoted" ELSE events[i - 1].to

\* The events tell the whole life of the card: each starts from the status the one
\* before it set, and the last names the status the card has, whichever calls lost
\* their lease, failed after their commit or died.  Only a command that is between
\* its writes of card and event, or that ended there, may break it.
HistoryIsUnbroken ==
    (\A c \in CardCalls : call[c].pc \notin {"updated", "torn"}) => Linked /\ cardStatus = LastStatus

\* When no call is under way the last event names the card's status
\* ("Card status update, new evidence links, and lifecycle event append are
\* transactional"): the command line does not keep it.
HistoryExplainsStatus ==
    (\A c \in CardCalls : ~InProgress(c)) =>
        cardStatus = LastStatus
=============================================================================
