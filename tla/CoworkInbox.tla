---------------------------- MODULE CoworkInbox ----------------------------
(***************************************************************************)
(* The inbox file of one agent: cowork/inbox.rs (push, drain), and the     *)
(* same steps in cowork/bus.rs (append_to_agent_inbox, drain_agent), which *)
(* module CoworkBus builds on.  The callers are separate processes with no *)
(* lock between them, so every system call is a step: a push reads the     *)
(* file, opens it for appending, writes the line, writes the newline       *)
(* (writeln! on an unbuffered file makes two writes) and looks at the      *)
(* file's size; a drain renames, reads and removes.                        *)
(***************************************************************************)
EXTENDS Integers, Sequences, FiniteSets, FiniteSetsExt, SequencesExt

CONSTANTS
    Msgs,           \* messages, each pushed by one call
    Size,           \* the bytes of each message's line
    Drains,         \* calls of drain
    OneDrainer,     \* TRUE: the calls of drain do not overlap
    NoFile, NL,     \* no file; the newline
    MaxPending,     \* MAX_PENDING_MESSAGES
    MaxInboxBytes,  \* MAX_TOTAL_INBOX_BYTES
    MaxDeaths       \* bound on the calls whose process is killed

ASSUME InboxAssumption ==
    /\ IsFiniteSet(Msgs) /\ Size \in [Msgs -> Nat \ {0}]
    /\ OneDrainer \in BOOLEAN /\ NL \notin Msgs
    /\ MaxPending \in Nat /\ MaxInboxBytes \in Nat /\ MaxDeaths \in Nat

\* Files: one for every open descriptor, the inbox and the file being drained.
Inodes == 1..(Cardinality(Msgs) + 2)
ASSUME FileAssumption == NoFile \notin Inodes

VARIABLES
    inbox,      \* the file at <agent>.jsonl
    draining,   \* the file at <agent>.draining
    text,       \* what each file contains
    push,       \* where each push stands
    fd,         \* the file each push has opened
    drain,      \* where each drain stands
    got,        \* what each drain has parsed
    met         \* the messages whose push overlapped another push

files == <<inbox, draining, text>>
inboxVars == <<inbox, draining, text, push, fd, drain, got, met>>

InboxInit ==
    /\ inbox = NoFile /\ draining = NoFile
    /\ text = [i \in Inodes |-> <<>>]
    /\ push = [m \in Msgs |-> "idle"]
    /\ fd = [m \in Msgs |-> NoFile]
    /\ drain = [k \in Drains |-> "idle"]
    /\ got = [k \in Drains |-> {}]
    /\ met = {}

----------------------------------------------------------------------------
\* str::lines, without the empty ones.
Lines(t) ==
    LET ends == {0} \cup {i \in 1..Len(t) : t[i] = NL} \cup {Len(t) + 1}
        After(i) == Min({j \in ends : j > i})
    IN  {SubSeq(t, i + 1, After(i) - 1) : i \in ends \ {Len(t) + 1}} \ {<<>>}

\* A line that holds more than one message is not JSON and is skipped.
Parsed(t) == {l[1] : l \in {l \in Lines(t) : Len(l) = 1}}

TextOf(f) == IF f = NoFile THEN <<>> ELSE text[f]
Bytes(t) == FoldSeq(LAMBDA e, n : n + (IF e = NL THEN 1 ELSE Size[e]), 0, t)

Running == {m \in Msgs : push[m] \notin {"idle", "sent", "full", "ended", "error", "dead", "cut"}}
InDrain == {k \in Drains : drain[k] \notin {"idle", "done", "error", "lost", "dead"}}

PushAt(m, where) == push' = [push EXCEPT ![m] = where]
DrainAt(k, where) == drain' = [drain EXCEPT ![k] = where]

\* The call begins: it reads the file and compares what would be there after it.
HasRoom(t, m) ==
    /\ Cardinality(Lines(t)) + 1 <= MaxPending
    /\ Bytes(t) + Size[m] + 1 <= MaxInboxBytes

CheckRoom(m) ==
    /\ push[m] = "idle"
    /\ PushAt(m, IF HasRoom(TextOf(inbox), m) THEN "fits" ELSE "full")
    /\ met' = IF Running = {} THEN met ELSE met \cup Running \cup {m}
    /\ UNCHANGED <<files, fd, drain, got>>

Unused == CHOOSE i \in Inodes : i \notin {inbox, draining} \cup {fd[m] : m \in Msgs}

\* OpenOptions::create(true).append(true)
OpenInbox(m) ==
    /\ push[m] = "fits"
    /\ IF inbox = NoFile
       THEN inbox' = Unused /\ text' = [text EXCEPT ![Unused] = <<>>]
       ELSE UNCHANGED <<inbox, text>>
    /\ fd' = [fd EXCEPT ![m] = inbox']
    /\ PushAt(m, "open")
    /\ UNCHANGED <<draining, drain, got, met>>

\* The two writes of writeln!
WriteLine(m) ==
    /\ push[m] = "open"
    /\ text' = [text EXCEPT ![fd[m]] = Append(@, m)]
    /\ PushAt(m, "line")
    /\ UNCHANGED <<inbox, draining, fd, drain, got, met>>

WriteNewline(m) ==
    /\ push[m] = "line"
    /\ text' = [text EXCEPT ![fd[m]] = Append(@, NL)]
    /\ PushAt(m, "written")
    /\ UNCHANGED <<inbox, draining, fd, drain, got, met>>

\* fs::metadata(&path)? fails when a drain has renamed the file meanwhile.
MutStat(m, next) ==
    /\ push[m] = "written"
    /\ PushAt(m, next)
    /\ fd' = [fd EXCEPT ![m] = NoFile]
    /\ UNCHANGED <<files, drain, got, met>>
Stat(m, next) ==
    /\ push[m] = "written"
    /\ PushAt(m, IF inbox = NoFile THEN "error" ELSE next)
    /\ fd' = [fd EXCEPT ![m] = NoFile]
    /\ UNCHANGED <<files, drain, got, met>>

\* The process is killed; between the two writes it leaves a line without an end.
Deaths == Cardinality({m \in Msgs : push[m] \in {"dead", "cut"}})
          + Cardinality({k \in Drains : drain[k] = "dead"})
PushDies(m) ==
    /\ m \in Running /\ Deaths < MaxDeaths
    /\ PushAt(m, IF push[m] = "line" THEN "cut" ELSE "dead")
    /\ fd' = [fd EXCEPT ![m] = NoFile]
    /\ UNCHANGED <<files, drain, got, met>>

----------------------------------------------------------------------------
\* fs::rename(path, draining) replaces a .draining file that is there.
Rename(k, next) ==
    /\ drain[k] = "idle" /\ (OneDrainer => InDrain = {})
    /\ IF inbox = NoFile
       THEN DrainAt(k, next) /\ UNCHANGED files
       ELSE DrainAt(k, "renamed") /\ draining' = inbox /\ inbox' = NoFile /\ UNCHANGED text
    /\ UNCHANGED <<push, fd, got, met>>

Read(k) ==
    /\ drain[k] = "renamed"
    /\ IF draining = NoFile
       THEN DrainAt(k, "error") /\ UNCHANGED got
       ELSE DrainAt(k, "read") /\ got' = [got EXCEPT ![k] = Parsed(text[draining])]
    /\ UNCHANGED <<files, push, fd, met>>

\* Best effort: a failing removal is ignored.
Unlink(k, next) ==
    /\ drain[k] = "read"
    /\ draining' \in {NoFile, draining}
    /\ DrainAt(k, next)
    /\ UNCHANGED <<inbox, text, push, fd, got, met>>

DrainDies(k) ==
    /\ k \in InDrain /\ Deaths < MaxDeaths
    /\ DrainAt(k, "dead")
    /\ UNCHANGED <<files, push, fd, got, met>>

----------------------------------------------------------------------------
\* The file steps that push and drain share with the bus.
InboxStep ==
    \/ \E m \in Msgs : \/ CheckRoom(m) \/ OpenInbox(m) \/ WriteLine(m)
                       \/ WriteNewline(m) \/ PushDies(m)
    \/ \E k \in Drains : Read(k) \/ DrainDies(k)

\* The two-party inbox, which keeps no event log.
InboxNext ==
    \/ InboxStep
    \/ \E m \in Msgs : Stat(m, "sent")
    \/ \E k \in Drains : Rename(k, "done") \/ Unlink(k, "done")

InboxSpec == InboxInit /\ [][InboxNext]_inboxVars

----------------------------------------------------------------------------
\* What drains have returned.
Returned == {k \in Drains : drain[k] = "done"}

\* drain promises at-most-once delivery, winner takes all: no message is
\* returned by two calls, and none that a call returned is waiting again.
AtMostOnce ==
    /\ \A j, k \in Returned : j # k => got[j] \cap got[k] = {}
    /\ \A k \in Returned : got[k] \cap Range(TextOf(inbox)) = {}

\* The limits checked before the append hold after it, but for the pushes that
\* checked at the same time.
RoomKept ==
    /\ Cardinality(Lines(TextOf(inbox))) <= MaxPending + Cardinality(met)
    /\ Bytes(TextOf(inbox)) <= MaxInboxBytes + MapThenSumSet(LAMBDA m : Size[m] + 1, met)
=============================================================================
