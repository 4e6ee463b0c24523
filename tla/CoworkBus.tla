----------------------------- MODULE CoworkBus -----------------------------
(***************************************************************************)
(* Deliveries to one agent of the multi-agent bus: send, drain_agent,      *)
(* ack_delivery and list_delivery_statuses of cowork/bus.rs.  Beside the   *)
(* inbox file of module CoworkInbox there is the project's events.jsonl,   *)
(* appended to by every call, again with two writes and no lock; what has  *)
(* become of a delivery is computed by replaying it.  A broadcast is one   *)
(* send per target, and this is the part of one target.  The calls that    *)
(* only log (register, heartbeat, channels, sessions) are left out.        *)
(***************************************************************************)
EXTENDS CoworkInbox

CONSTANT Acked      \* deliveries the agent tries to acknowledge

ASSUME BusAssumption == Acked \subseteq Msgs

VARIABLES
    log,        \* the lines of events.jsonl, or Torn when one is not an event
    halfLine,   \* the last line of events.jsonl has no newline yet
    ack         \* where the acknowledgement of each delivery stands

busVars == <<inboxVars, log, halfLine, ack>>

Torn == NoFile
BusInit == InboxInit /\ log = <<>> /\ halfLine = FALSE /\ ack = [m \in Msgs |-> "idle"]

----------------------------------------------------------------------------
\* list_events fails on a line that is not an event, and so does everything that
\* replays the log from then on.
Readable(l) == l # Torn

\* A drain of n messages is charged to the first n pending deliveries.
Charge(acc, n) ==
    LET due == {i \in DOMAIN acc.order : acc.of[acc.order[i]] = "pending"}
        Rank(i) == Cardinality({j \in due : j <= i})
        hit == {acc.order[i] : i \in {j \in due : Rank(j) <= n}}
    IN  [acc EXCEPT !.of = [m \in Msgs |-> IF m \in hit THEN "drained" ELSE @[m]]]

Replay(acc, e) ==
    CASE e.type = "drain" -> Charge(acc, e.count)
      [] e.type = "acked" -> [acc EXCEPT !.of[e.msg] = "acked"]
      [] OTHER -> [order |-> Append(acc.order, e.msg),
                   of |-> [acc.of EXCEPT ![e.msg] = e.type]]

NoStatus == [order |-> <<>>, of |-> [m \in Msgs |-> "none"]]

\* list_delivery_statuses
Replayed(l) ==
    LET r[n \in 0..Len(l)] == IF n = 0 THEN NoStatus ELSE Replay(r[n - 1], l[n])
    IN  r[Len(l)]
StatusIn(l) == Replayed(l).of

----------------------------------------------------------------------------
\* Appending an event: the line, then the newline.  A line that another call
\* has not ended yet, or that a killed one never will, runs into this one.
LogLine(e) ==
    /\ log' = IF halfLine \/ log = Torn THEN Torn ELSE Append(log, e)
    /\ halfLine' = TRUE
LogNewline ==
    /\ halfLine' = FALSE
    /\ UNCHANGED log

\* read_inbox_stats fails, because a drain renamed the file after it was seen to
\* exist or because it cannot be read: the send is refused.
StatsFail(m) ==
    /\ push[m] = "idle"
    /\ PushAt(m, "full")
    /\ UNCHANGED <<files, fd, drain, got, met, log, halfLine, ack>>

\* send, for an agent registered with a tmux target: it fails or not (external).
SendTmux(m) ==
    /\ push[m] = "idle"
    /\ PushAt(m, "typed") \/ PushAt(m, "refused")
    /\ UNCHANGED <<files, fd, drain, got, met, log, halfLine, ack>>

\* The event follows the append to the inbox, or the keys.
LogSent(m) ==
    /\ push[m] \in {"stored", "typed"}
    /\ LogLine([type |-> "pending", msg |-> m])
    /\ PushAt(m, IF push[m] = "stored" THEN "logged" ELSE "noted")
    /\ UNCHANGED <<files, fd, drain, got, met, ack>>

LogFailed(m) ==
    /\ push[m] = "refused"
    /\ LogLine([type |-> "failed", msg |-> m])
    /\ PushAt(m, "noted")
    /\ UNCHANGED <<files, fd, drain, got, met, ack>>

\* events.jsonl cannot be opened or written: the send returns an error, and what
\* it put into the inbox stays there.
SendUnlogged(m) ==
    /\ push[m] \in {"stored", "typed", "refused"}
    /\ PushAt(m, IF push[m] = "stored" THEN "error" ELSE "ended")
    /\ UNCHANGED <<files, fd, drain, got, met, log, halfLine, ack>>

EndSend(m) ==
    /\ push[m] \in {"logged", "noted"}
    /\ LogNewline
    /\ PushAt(m, IF push[m] = "logged" THEN "sent" ELSE "ended")
    /\ UNCHANGED <<files, fd, drain, got, met, ack>>

\* drain_agent: the event follows the removal, or the missing file.
MutLogDrain(k) ==
    /\ drain[k] = "emptied"
    /\ LogLine([type |-> "drain", count |-> Cardinality(Drains)])
    /\ DrainAt(k, "counted")
    /\ UNCHANGED <<files, push, fd, got, met, ack>>
LogDrain(k) ==
    /\ drain[k] = "emptied"
    /\ LogLine([type |-> "drain", count |-> Cardinality(got[k])])
    /\ DrainAt(k, "counted")
    /\ UNCHANGED <<files, push, fd, got, met, ack>>

\* Without its event drain_agent returns an error, and the messages it has removed
\* are gone.
DrainUnlogged(k) ==
    /\ drain[k] = "emptied"
    /\ DrainAt(k, "lost")
    /\ UNCHANGED <<files, push, fd, got, met, log, halfLine, ack>>

EndDrain(k) ==
    /\ drain[k] = "counted"
    /\ LogNewline
    /\ DrainAt(k, "done")
    /\ UNCHANGED <<files, push, fd, got, met, ack>>

\* ack_delivery reads the statuses; an unknown or failed delivery is refused,
\* an acknowledged one is left as it is.
MayAck(s) == s \in {"pending", "drained"}

CheckAck(m) ==
    /\ m \in Acked /\ ack[m] = "idle"
    /\ Readable(log) /\ MayAck(StatusIn(log)[m])
    /\ ack' = [ack EXCEPT ![m] = "checked"]
    /\ UNCHANGED <<inboxVars, log, halfLine>>

LogAck(m) ==
    /\ ack[m] = "checked"
    /\ LogLine([type |-> "acked", msg |-> m])
    /\ ack' = [ack EXCEPT ![m] = "logged"]
    /\ UNCHANGED inboxVars

EndAck(m) ==
    /\ ack[m] = "logged"
    /\ LogNewline
    /\ ack' = [ack EXCEPT ![m] = "done"]
    /\ UNCHANGED inboxVars

----------------------------------------------------------------------------
BusNext ==
    \/ \E m \in Msgs :
          \/ /\ \/ CheckRoom(m) \/ OpenInbox(m) \/ WriteLine(m) \/ WriteNewline(m)
                \/ Stat(m, "stored") \/ PushDies(m)
             /\ UNCHANGED <<log, halfLine, ack>>
          \/ StatsFail(m) \/ SendTmux(m) \/ LogSent(m) \/ LogFailed(m)
          \/ SendUnlogged(m) \/ EndSend(m)
          \/ CheckAck(m) \/ LogAck(m) \/ EndAck(m)
    \/ \E k \in Drains :
          \/ /\ Rename(k, "emptied") \/ Read(k) \/ Unlink(k, "emptied") \/ DrainDies(k)
             /\ UNCHANGED <<log, halfLine, ack>>
          \/ LogDrain(k) \/ DrainUnlogged(k) \/ EndDrain(k)

BusSpec == BusInit /\ [][BusNext]_busVars

----------------------------------------------------------------------------
\* Types of the files and of where each call stands.
BusTypeOK ==
    /\ inbox \in Inodes \cup {NoFile} /\ draining \in Inodes \cup {NoFile}
    /\ \A i \in Inodes : text[i] \in Seq(Msgs \cup {NL})
    /\ push \in [Msgs -> {"idle", "fits", "full", "open", "line", "written", "stored",
                          "typed", "refused", "logged", "noted", "sent", "ended", "error",
                          "dead", "cut"}]
    /\ fd \in [Msgs -> Inodes \cup {NoFile}]
    /\ drain \in [Drains -> {"idle", "renamed", "read", "emptied", "counted", "done",
                             "error", "lost", "dead"}]
    /\ got \in [Drains -> SUBSET Msgs] /\ met \subseteq Msgs
    /\ halfLine \in BOOLEAN
    /\ ack \in [Msgs -> {"idle", "checked", "logged", "done"}]

\* A send that met no other send and reports success is not lost, unless a drain
\* dies with it or cannot write its event, or a killed send left half a line for it
\* to run into: the message is waiting, being drained or returned, although the file may be renamed under the
\* sender's descriptor at any point (the size is looked up by path after the write).
SentIsKept ==
    \A m \in Msgs :
        push[m] = "sent" /\ m \notin met
            /\ (\A k \in Drains : drain[k] \notin {"lost", "dead"}) /\ (\A n \in Msgs : push[n] # "cut")
            => m \in Range(TextOf(inbox)) \cup Range(TextOf(draining))
                    \cup UNION {got[k] : k \in Drains}

InStatus(s) == {m \in Msgs : StatusIn(log)[m] = s}
Quiet == Running = {} /\ InDrain = {}

\* The reported deliveries cover the mail: when no call is under way, no more
\* messages wait in the inbox than are reported pending or were acknowledged,
\* but for sends that ended before their event was written.  Drains are charged
\* by number, in an order that need not be the order of the inbox.
MailIsReported ==
    Quiet /\ Readable(log) =>
        Cardinality(Range(TextOf(inbox)) \ {NL})
            <= Cardinality(InStatus("pending") \cup InStatus("acked"))
               + Cardinality({m \in Msgs : push[m] \in {"error", "dead", "cut"}})

\* What replaying the log says of a delivery only moves forward, whatever events
\* of other calls come in between; a failed delivery is never drained or acked.
Forward(old, new) ==
    \/ new = old
    \/ old = "none" /\ new \in {"pending", "failed"}
    \/ old = "pending" /\ new \in {"drained", "acked"}
    \/ old = "drained" /\ new = "acked"
StatusForward ==
    [][Readable(log) /\ Readable(log') =>
          \A m \in Msgs : Forward(StatusIn(log)[m], StatusIn(log')[m])]_busVars
=============================================================================
