------------------------- MODULE IngressSpoolProofs -------------------------
(***************************************************************************)
(* Proofs about module IngressSpool: what an accepted capture can count    *)
(* on, and under how many identities it is stored, for any number of       *)
(* captures, keys and files and any choice of faults.                      *)
(*                                                                         *)
(* The argument has two layers.  What the steps do to the directory, to    *)
(* the queue and to the drain is summed up by StoreStep: nothing is lost   *)
(* but into the queue, and nothing appears but what the step writes.  The  *)
(* clients' invariants follow from it capture by capture.                  *)
(***************************************************************************)
EXTENDS IngressSpool, FiniteSetTheorems, TLAPS

KeysOf(c) == {KeyOf[c], FreshOf[c]}

\* The payloads that are submitted under k.
PayloadsAt(k) == {PayloadOf[c] : c \in {d \in Captures : k \in KeysOf(d)}}
FilesAt(k) ==
    [json : PayloadsAt(k) \cup {None}, claim : PayloadsAt(k) \cup {None}, parked : SUBSET PayloadsAt(k)]
Owned == {x \in Keys \X Payloads : x[2] \in PayloadsAt(x[1])}

\* An operation key is not used for two payloads.
OnePayload == \A c, d \in Captures : KeyOf[c] = KeyOf[d] => PayloadOf[c] = PayloadOf[d]
Lone(k) == \A p, q \in PayloadsAt(k) : p = q

----------------------------------------------------------------------------
\* Files, queue and drain.

InHand == {"enqueue", "delete", "park", "release"}

DirInv ==
    /\ disk \in [Keys -> Files] /\ maybe \in [Keys -> SUBSET Files] /\ junk \in Nat
    /\ \A k \in Keys : disk[k] \in maybe[k] /\ maybe[k] \subseteq FilesAt(k)

QueueInv ==
    /\ queue \in [Keys -> Content] /\ safe \subseteq {k \in Keys : queue[k] # None}
    /\ \A k \in Keys : queue[k] # None => queue[k] \in PayloadsAt(k) /\ <<k, queue[k]>> \in committed
    /\ committed \subseteq Owned

\* The drain has a claim in its hands, and deletes it only when it is committed.
DrainInv ==
    /\ drain \in [pc : {"idle", "next"} \cup InHand, todo : SUBSET Owned, key : Keys \cup {None}, payload : Content]
    /\ drain.pc \in InHand => <<drain.key, drain.payload>> \in Owned /\ disk[drain.key].claim # None
    /\ drain.pc = "delete" => <<drain.key, drain.payload>> \in committed

StoreInv == DirInv /\ QueueInv /\ DrainInv

\* Payload p of key k is in every directory a power loss may leave, or was committed.
KeptAt(k, p) == <<k, p>> \in committed \/ \A f \in maybe[k] : Holds(f, p)

\* It is nowhere, and the drain is not about to commit it.
UntouchedAt(k, p) ==
    /\ <<k, p>> \notin committed /\ <<k, p>> \notin drain.todo
    /\ \A f \in maybe[k] : ~Holds(f, p)
    /\ drain.pc \in InHand => <<drain.key, drain.payload>> # <<k, p>>

\* What a step does to the files: every new possibility comes from an old one,
\* without losing anything but to the queue and with nothing new but W.
DirStep(W) ==
    /\ DirInv'
    /\ committed \subseteq committed'
    /\ \A k \in Keys : \A g \in maybe'[k] : \E f \in maybe[k] :
          /\ \A p \in PayloadsAt(k) : Lone(k) /\ Holds(f, p) => Holds(g, p) \/ <<k, p>> \in committed'
          /\ \A p \in Payloads : <<k, p>> \notin W /\ Holds(g, p) => Holds(f, p)

Keeps == \A k \in Keys : \A p \in PayloadsAt(k) : Lone(k) /\ KeptAt(k, p) => KeptAt(k, p)'
Spares(W) == \A k \in Keys : \A p \in Payloads : <<k, p>> \notin W /\ UntouchedAt(k, p) => UntouchedAt(k, p)'
StoreStep(W) == StoreInv' /\ committed \subseteq committed' /\ Keeps /\ Spares(W)

LEMMA PayloadsAtType ==
    ASSUME NEW k PROVE PayloadsAt(k) \subseteq Payloads /\ None \notin PayloadsAt(k) /\ FilesAt(k) \subseteq Files
<1>1. PayloadsAt(k) \subseteq Payloads /\ None \notin PayloadsAt(k)
    BY SpoolAssumption DEF PayloadsAt, Payloads
<1> QED
    BY <1>1 DEF FilesAt, Files, Content

LEMMA OwnPayload ==
    ASSUME NEW c \in Captures, NEW k \in KeysOf(c)
    PROVE  /\ k \in Keys /\ PayloadOf[c] \in PayloadsAt(k) /\ PayloadOf[c] \in Payloads
           /\ <<k, PayloadOf[c]>> \in Owned
<1>1. k \in Keys /\ PayloadOf[c] \in PayloadsAt(k) /\ PayloadOf[c] \in Payloads
    BY SpoolAssumption DEF KeysOf, PayloadsAt, Payloads
<1> QED
    BY <1>1 DEF Owned

\* Generated keys belong to one capture; with OnePayload every key has one payload.
LEMMA LoneKeys ==
    ASSUME NEW c \in Captures, NEW k \in KeysOf(c), OnePayload \/ ClassOf[c] \in {"hook", "mcp"}
    PROVE  Lone(k) /\ \A p \in PayloadsAt(k) : p = PayloadOf[c]
<1>1. ASSUME NEW d \in Captures, k \in KeysOf(d) PROVE PayloadOf[d] = PayloadOf[c]
  <2>1. CASE d = c
      BY <2>1
  <2>2. CASE d # c
    <3>1. KeysOf(c) \cap KeysOf(d) # {}
        BY <1>1
    <3>2. ClassOf[c] \notin {"hook", "mcp"} /\ ClassOf[d] \notin {"hook", "mcp"}
        BY <2>2, <3>1, SpoolAssumption DEF KeysOf
    <3>3. KeyOf[c] = FreshOf[c] /\ KeyOf[d] = FreshOf[d]
        BY <3>2, SpoolAssumption
    <3> QED
        BY <1>1, <3>2, <3>3 DEF KeysOf, OnePayload
  <2> QED
      BY <2>1, <2>2
<1> QED
    BY <1>1 DEF Lone, PayloadsAt

\* A capture with a generated key shares it with no other.
LEMMA DisjointKeys ==
    ASSUME NEW c \in Captures, NEW d \in Captures, c # d, ClassOf[c] \in {"hook", "mcp"},
           NEW k \in KeysOf(c), NEW m \in KeysOf(d)
    PROVE  k # m
BY SpoolAssumption DEF KeysOf

\* The files alone decide what is kept.
LEMMA DirStepKeeps ==
    ASSUME NEW W, DirStep(W) PROVE Keeps
<1> SUFFICES ASSUME NEW k \in Keys, NEW p \in PayloadsAt(k), Lone(k), KeptAt(k, p) PROVE KeptAt(k, p)'
    BY DEF Keeps
<1>1. CASE <<k, p>> \in committed
    BY <1>1 DEF KeptAt, DirStep
<1>2. CASE \A f \in maybe[k] : Holds(f, p)
  <2> SUFFICES ASSUME <<k, p>> \notin committed', NEW g \in maybe'[k] PROVE Holds(g, p)
      BY DEF KeptAt, Holds
  <2> QED
      BY <1>2 DEF DirStep
<1> QED
    BY <1>1, <1>2 DEF KeptAt

LEMMA DirStepSpares ==
    ASSUME NEW W, DirStep(W), NEW k \in Keys, NEW p \in Payloads, <<k, p>> \notin W,
           \A f \in maybe[k] : ~Holds(f, p)
    PROVE  \A f \in maybe'[k] : ~Holds(f, p)
BY DEF DirStep

\* The files of one key change.
LEMMA PutDirStep ==
    ASSUME StoreInv, NEW W, NEW k \in Keys, NEW f \in FilesAt(k), PutSynced(k, f) \/ PutUnsynced(k, f),
           junk' = junk, committed \subseteq committed',
           \A p \in PayloadsAt(k) : Lone(k) /\ Holds(disk[k], p) => Holds(f, p) \/ <<k, p>> \in committed',
           \A p \in Payloads : <<k, p>> \notin W /\ Holds(f, p) => Holds(disk[k], p)
    PROVE  DirStep(W)
<1>1. disk' = [disk EXCEPT ![k] = f] /\ f \in Files
    BY PayloadsAtType DEF PutSynced, PutUnsynced
<1>2. /\ disk' \in [Keys -> Files] /\ disk'[k] = f
      /\ \A x \in Keys \ {k} : disk'[x] = disk[x]
    BY <1>1 DEF StoreInv, DirInv
<1>3. \/ maybe' = [x \in Keys |-> {disk'[x]}]
      \/ maybe' = [maybe EXCEPT ![k] = @ \cup {f}]
    BY <1>1 DEF PutSynced, PutUnsynced, Synced, Unsynced
<1>4. /\ maybe' \in [Keys -> SUBSET Files]
      /\ \A x \in Keys : disk'[x] \in maybe'[x] /\ maybe'[x] \subseteq maybe[x] \cup {disk'[x]}
    BY <1>1, <1>2, <1>3 DEF StoreInv, DirInv
<1>5. DirInv'
    BY <1>2, <1>4 DEF StoreInv, DirInv
<1>6. ASSUME NEW x \in Keys, NEW g \in maybe'[x]
      PROVE  \E h \in maybe[x] :
                /\ \A p \in PayloadsAt(x) : Lone(x) /\ Holds(h, p) => Holds(g, p) \/ <<x, p>> \in committed'
                /\ \A p \in Payloads : <<x, p>> \notin W /\ Holds(g, p) => Holds(h, p)
  <2>1. CASE g \in maybe[x]
      BY <2>1
  <2>2. CASE g \notin maybe[x]
    <3>1. x = k /\ g = f /\ disk[k] \in maybe[k]
        BY <1>2, <1>4, <1>6, <2>2 DEF StoreInv, DirInv
    <3> QED
        BY <3>1
  <2> QED
      BY <2>1, <2>2
<1> QED
    BY <1>5, <1>6 DEF DirStep

\* Nothing is done to the directory, or it is synced.
LEMMA CalmDirStep ==
    ASSUME StoreInv, NEW W, disk' = disk, maybe' = maybe \/ maybe' = Synced(disk), junk' \in Nat,
           committed \subseteq committed'
    PROVE  DirStep(W)
<1>1. DirInv' /\ \A k \in Keys : maybe'[k] \subseteq maybe[k]
    BY DEF StoreInv, DirInv, Synced
<1> QED
    BY <1>1 DEF DirStep

\* The drain is left alone.
LEMMA CalmDrain ==
    ASSUME StoreInv, NEW W, DirStep(W), drain' = drain, QueueInv',
           \A k \in Keys : disk[k].claim # None => disk'[k].claim # None,
           \A k \in Keys : \A p \in Payloads : <<k, p>> \in committed' => <<k, p>> \in committed \cup W
    PROVE  StoreStep(W)
<1>1. DrainInv'
    BY DEF StoreInv, DrainInv, DirStep, Owned
<1>2. Spares(W)
  <2> SUFFICES ASSUME NEW k \in Keys, NEW p \in Payloads, <<k, p>> \notin W, UntouchedAt(k, p)
               PROVE  UntouchedAt(k, p)'
      BY DEF Spares
  <2>1. \A f \in maybe'[k] : ~Holds(f, p)
      BY DirStepSpares DEF UntouchedAt
  <2> QED
      BY <2>1 DEF UntouchedAt, Holds
<1> QED
    BY <1>1, <1>2, DirStepKeeps DEF StoreStep, DirStep, StoreInv

\* No step of the queue: the directory is left alone or synced.
LEMMA CalmStore ==
    ASSUME StoreInv, disk' = disk, maybe' = maybe \/ maybe' = Synced(disk), junk' \in Nat,
           UNCHANGED tables, drain' = drain
    PROVE  StoreStep({})
<1>1. queue' = queue /\ safe' = safe /\ committed' = committed
    BY DEF tables
<1>2. DirStep({})
    BY <1>1, CalmDirStep
<1>3. QueueInv'
    BY <1>1 DEF StoreInv, QueueInv
<1> QED
    BY <1>1, <1>2, <1>3, CalmDrain

\* A payload is committed under its own key.
LEMMA CommitQueue ==
    ASSUME StoreInv, NEW k \in Keys, NEW p, <<k, p>> \in Owned, queue[k] \in {None, p}, Commit(k, p)
    PROVE  /\ QueueInv' /\ committed \subseteq committed' /\ <<k, p>> \in committed'
           /\ \A x \in committed' : x \in committed \cup {<<k, p>>}
<1>1. p \in Payloads /\ p \in PayloadsAt(k) /\ p # None /\ committed' = committed \cup {<<k, p>>} /\ safe' = safe
    BY PayloadsAtType DEF Owned, Commit
<1>2. queue' \in [Keys -> Content] /\ queue'[k] = p /\ \A x \in Keys \ {k} : queue'[x] = queue[x]
    BY <1>1 DEF StoreInv, QueueInv, Commit, Content
<1>3. QueueInv'
    BY <1>1, <1>2 DEF StoreInv, QueueInv
<1> QED
    BY <1>1, <1>3

LEMMA CommitStore ==
    ASSUME StoreInv, NEW k \in Keys, NEW p, <<k, p>> \in Owned, queue[k] \in {None, p}, Commit(k, p),
           UNCHANGED files, drain' = drain
    PROVE  StoreStep({<<k, p>>}) /\ <<k, p>> \in committed'
<1>1. /\ QueueInv' /\ committed \subseteq committed' /\ <<k, p>> \in committed'
      /\ \A x \in committed' : x \in committed \cup {<<k, p>>}
    BY CommitQueue
<1>2. disk' = disk /\ maybe' = maybe /\ junk' \in Nat
    BY DEF files, StoreInv, DirInv
<1>3. DirStep({<<k, p>>})
    BY <1>1, <1>2, CalmDirStep
<1> QED
    BY <1>1, <1>2, <1>3, CalmDrain

\* A record is written.
LEMMA WriteStore ==
    ASSUME StoreInv, NEW k \in Keys, NEW p, <<k, p>> \in Owned, NEW f, f = [disk[k] EXCEPT !.json = p],
           PutSynced(k, f) \/ PutUnsynced(k, f), junk' = junk, UNCHANGED tables, drain' = drain
    PROVE  /\ StoreStep({<<k, p>>}) /\ Holds(f, p) /\ f.claim = disk[k].claim /\ disk' = [disk EXCEPT ![k] = f]
<1>0. p \in Payloads /\ p \in PayloadsAt(k) /\ committed' = committed /\ queue' = queue /\ safe' = safe
    BY DEF Owned, tables
<1>1. disk[k] \in FilesAt(k) /\ disk[k] \in Files
    BY DEF StoreInv, DirInv
<1>2. /\ f \in FilesAt(k) /\ f.json = p /\ f.claim = disk[k].claim /\ f.parked = disk[k].parked
      /\ disk' = [disk EXCEPT ![k] = f]
    BY <1>0, <1>1 DEF FilesAt, PutSynced, PutUnsynced
<1>3. /\ \A q \in PayloadsAt(k) : Lone(k) /\ Holds(disk[k], q) => Holds(f, q)
      /\ \A q \in Payloads : <<k, q>> \notin {<<k, p>>} /\ Holds(f, q) => Holds(disk[k], q)
    BY <1>0, <1>2 DEF Lone, Holds
<1>4. DirStep({<<k, p>>})
    BY <1>0, <1>2, <1>3, PutDirStep
<1>5. QueueInv'
    BY <1>0 DEF StoreInv, QueueInv
<1>6. \A x \in Keys : disk[x].claim # None => disk'[x].claim # None
    BY <1>2 DEF StoreInv, DirInv
<1> QED
    BY <1>0, <1>2, <1>4, <1>5, <1>6, CalmDrain DEF Holds

----------------------------------------------------------------------------
\* The drain.

\* A drain step on the files: what it takes up was there.
LEMMA DrainStep ==
    ASSUME StoreInv, DirStep({}), UNCHANGED tables, DrainInv',
           \A x \in drain'.todo : x \in drain.todo \/ Holds(disk[x[1]], x[2]),
           drain'.pc \in InHand => \/ <<drain'.key, drain'.payload>> \in drain.todo
                                   \/ drain.pc \in InHand /\ drain'.key = drain.key /\ drain'.payload = drain.payload
    PROVE  StoreStep({})
<1>1. queue' = queue /\ safe' = safe /\ committed' = committed
    BY DEF tables
<1>2. QueueInv'
    BY <1>1 DEF StoreInv, QueueInv
<1>3. Spares({})
  <2> SUFFICES ASSUME NEW k \in Keys, NEW p \in Payloads, UntouchedAt(k, p)
               PROVE  UntouchedAt(k, p)'
      BY DEF Spares
  <2>1. \A f \in maybe'[k] : ~Holds(f, p)
      BY DirStepSpares DEF UntouchedAt
  <2>2. <<k, p>> \notin drain'.todo
      BY DEF UntouchedAt, StoreInv, DirInv
  <2>3. drain'.pc \in InHand => <<drain'.key, drain'.payload>> # <<k, p>>
      BY DEF UntouchedAt
  <2> QED
      BY <1>1, <2>1, <2>2, <2>3 DEF UntouchedAt, Holds
<1> QED
    BY <1>1, <1>2, <1>3, DirStepKeeps DEF StoreStep, DirStep, StoreInv

\* A recovered claim.
LEMMA RecoveredFiles ==
    ASSUME NEW k \in Keys, NEW f \in FilesAt(k)
    PROVE  /\ Recovered(f) \in FilesAt(k)
           /\ \A p \in PayloadsAt(k) : Lone(k) /\ Holds(f, p) => Holds(Recovered(f), p)
           /\ \A p \in Payloads : Holds(Recovered(f), p) => Holds(f, p)
           /\ Recovered(f).json # None => Recovered(f).json \in PayloadsAt(k) /\ Holds(f, Recovered(f).json)
<1>0. None \notin Payloads /\ PayloadsAt(k) \subseteq Payloads
    BY SpoolAssumption, PayloadsAtType
<1>1. CASE f.claim = None
    BY <1>0, <1>1 DEF Recovered, Holds, FilesAt
<1>2. CASE f.claim # None
  <2> DEFINE g == [f EXCEPT !.json = IF @ = None THEN f.claim ELSE @, !.claim = None]
  <2>1. /\ g \in FilesAt(k) /\ g.json = (IF f.json = None THEN f.claim ELSE f.json) /\ g.claim = None
        /\ g.parked = f.parked /\ g.json \in PayloadsAt(k)
      BY <1>2 DEF FilesAt
  <2>2. Recovered(f) = g
      BY <1>2 DEF Recovered
  <2> HIDE DEF g
  <2> QED
      BY <1>0, <1>2, <2>1, <2>2 DEF Holds, Lone, FilesAt
<1> QED
    BY <1>1, <1>2

\* The listing, its sync done or failing.
LEMMA ListDir ==
    ASSUME StoreInv, disk' = ListedFiles, UNCHANGED <<junk, tables>>,
           \/ maybe' = IF ListedFiles = disk THEN maybe ELSE Synced(ListedFiles)
           \/ maybe' = [k \in Keys |-> maybe[k] \cup {ListedFiles[k]}]
    PROVE  DirStep({})
<1>1. /\ disk' \in [Keys -> Files] /\ \A k \in Keys : disk'[k] = Recovered(disk[k]) /\ disk'[k] \in FilesAt(k)
  <2>1. \A k \in Keys : disk[k] \in FilesAt(k) /\ Recovered(disk[k]) \in FilesAt(k) /\ FilesAt(k) \subseteq Files
      BY RecoveredFiles, PayloadsAtType DEF StoreInv, DirInv
  <2> QED
      BY <2>1 DEF ListedFiles
<1>2. /\ maybe' \in [Keys -> SUBSET Files]
      /\ \A k \in Keys : disk'[k] \in maybe'[k] /\ maybe'[k] \subseteq maybe[k] \cup {disk'[k]}
  <2>1. CASE maybe' = maybe /\ ListedFiles = disk
      BY <2>1 DEF StoreInv, DirInv
  <2>2. CASE maybe' = Synced(ListedFiles)
    <3>1. maybe' = [k \in Keys |-> {disk'[k]}]
        BY <2>2 DEF Synced
    <3> QED
        BY <1>1, <3>1
  <2>3. CASE maybe' = [k \in Keys |-> maybe[k] \cup {ListedFiles[k]}]
    <3>1. maybe' = [k \in Keys |-> maybe[k] \cup {disk'[k]}]
        BY <2>3
    <3> QED
        BY <1>1, <3>1 DEF StoreInv, DirInv
  <2> QED
      BY <2>1, <2>2, <2>3
<1>3. DirInv' /\ committed' = committed
    BY <1>1, <1>2 DEF StoreInv, DirInv, tables
<1>4. ASSUME NEW k \in Keys, NEW g \in maybe'[k]
      PROVE  \E f \in maybe[k] :
                /\ \A p \in PayloadsAt(k) : Lone(k) /\ Holds(f, p) => Holds(g, p) \/ <<k, p>> \in committed'
                /\ \A p \in Payloads : <<k, p>> \notin {} /\ Holds(g, p) => Holds(f, p)
  <2>1. CASE g \in maybe[k]
      BY <2>1
  <2>2. CASE g \notin maybe[k]
    <3>1. g = Recovered(disk[k]) /\ disk[k] \in maybe[k] /\ disk[k] \in FilesAt(k)
        BY <1>1, <1>2, <1>4, <2>2 DEF StoreInv, DirInv
    <3> QED
        BY <3>1, RecoveredFiles
  <2> QED
      BY <2>1, <2>2
<1> QED
    BY <1>3, <1>4 DEF DirStep

LEMMA DrainListStore ==
    ASSUME StoreInv, DrainList \/ DrainListFails PROVE StoreStep({})
<1>1. DirStep({}) /\ UNCHANGED tables
    BY ListDir DEF DrainList, DrainListFails
<1>2. ASSUME NEW k \in Keys, ListedFiles[k].json # None
      PROVE  <<k, ListedFiles[k].json>> \in Owned /\ Holds(disk[k], ListedFiles[k].json)
  <2>1. disk[k] \in FilesAt(k) /\ ListedFiles[k] = Recovered(disk[k])
      BY DEF StoreInv, DirInv, ListedFiles
  <2> QED
      BY <1>2, <2>1, RecoveredFiles, PayloadsAtType DEF Owned
<1>3. CASE DrainList
  <2> DEFINE T == {<<k, ListedFiles[k].json>> : k \in {x \in Keys : ListedFiles[x].json # None}}
  <2>1. T \subseteq Owned /\ \A x \in T : Holds(disk[x[1]], x[2])
      BY <1>2
  <2>2. drain' = [drain EXCEPT !.pc = "next", !.todo = T]
      BY <1>3 DEF DrainList
  <2> HIDE DEF T
  <2>3. drain'.pc = "next" /\ drain'.todo = T /\ DrainInv'
      BY <2>1, <2>2 DEF StoreInv, DrainInv, InHand
  <2> QED
      BY <1>1, <2>1, <2>3, DrainStep DEF InHand
<1>4. CASE DrainListFails
  <2>1. drain' = drain /\ drain.pc = "idle" /\ committed' = committed
      BY <1>4 DEF DrainListFails, tables
  <2>2. DrainInv'
      BY <2>1 DEF StoreInv, DrainInv, InHand
  <2> QED
      BY <1>1, <2>1, <2>2, DrainStep DEF InHand
<1> QED
    BY <1>3, <1>4

\* What the drain is after a pass, or before its next record.
LEMMA RestTyped ==
    ASSUME StoreInv, NEW todo, todo \subseteq drain.todo, drain' = Rest(todo) \/ drain' = DrainIdle
    PROVE  DrainInv' /\ drain'.pc \notin InHand /\ drain'.todo \subseteq drain.todo
<1>1. /\ drain' \in [pc : {"idle", "next"}, todo : SUBSET Owned, key : Keys \cup {None}, payload : Content]
      /\ drain'.todo \subseteq drain.todo
  <2>1. drain.todo \subseteq Owned
      BY DEF StoreInv, DrainInv
  <2>2. \E pc \in {"idle", "next"}, x \in SUBSET drain.todo :
            drain' = [pc |-> pc, todo |-> x, key |-> None, payload |-> None]
    <3>1. CASE drain' = DrainIdle
        BY <3>1 DEF DrainIdle
    <3>2. CASE drain' = Rest(todo)
      <4>1. drain' = [pc |-> IF todo = {} THEN "idle" ELSE "next", todo |-> todo, key |-> None, payload |-> None]
          BY <3>2 DEF Rest, DrainIdle
      <4> QED
          BY <4>1
    <3> QED
        BY <3>1, <3>2
  <2> QED
      BY <2>1, <2>2 DEF Content
<1> QED
    BY <1>1 DEF DrainInv, InHand

LEMMA DrainClaimStore ==
    ASSUME StoreInv, NEW k, NEW p, DrainClaim(k, p) \/ DrainClaimFails(k, p) PROVE StoreStep({})
<1>0. /\ k \in Keys /\ p \in PayloadsAt(k) /\ <<k, p>> \in Owned /\ <<k, p>> \in drain.todo
      /\ UNCHANGED tables /\ junk' = junk /\ committed' = committed /\ p \in Payloads
    BY DEF StoreInv, DrainInv, Owned, DrainClaim, DrainClaimFails, tables
<1>1. CASE disk[k].json = None
  <2> DEFINE left == drain.todo \ {<<k, p>>}
  <2>1. drain' = Rest(left) /\ disk' = disk /\ maybe' = maybe
      BY <1>1 DEF DrainClaim, DrainClaimFails
  <2>2. DirStep({})
      BY <1>0, <2>1, CalmDirStep DEF StoreInv, DirInv
  <2>3. DrainInv' /\ drain'.pc \notin InHand /\ drain'.todo \subseteq drain.todo
      BY <2>1, RestTyped
  <2> QED
      BY <1>0, <2>2, <2>3, DrainStep
<1>2. CASE disk[k].json # None
  <2> DEFINE f == ClaimedFiles(k)
  <2>1. disk[k] \in FilesAt(k)
      BY <1>0 DEF StoreInv, DirInv
  <2>2. /\ f \in FilesAt(k) /\ f.json = None /\ f.claim = disk[k].json /\ f.parked = disk[k].parked
        /\ f.claim \in PayloadsAt(k)
      BY <1>2, <2>1 DEF FilesAt, ClaimedFiles
  <2> HIDE DEF f
  <2>3. /\ \A q \in PayloadsAt(k) : Lone(k) /\ Holds(disk[k], q) => Holds(f, q)
        /\ \A q \in Payloads : Holds(f, q) => Holds(disk[k], q)
      BY <2>2, SpoolAssumption DEF Holds, Lone
  <2>4. PutSynced(k, f) \/ PutUnsynced(k, f)
      BY <1>2 DEF DrainClaim, DrainClaimFails, f
  <2>5. DirStep({})
      BY <1>0, <2>2, <2>3, <2>4, PutDirStep
  <2>6. disk'[k].claim # None
      BY <1>0, <1>2, <2>2, <2>4 DEF StoreInv, DirInv, PutSynced, PutUnsynced
  <2>7. CASE drain' = DrainIdle
    <3>1. DrainInv' /\ drain'.pc \notin InHand /\ drain'.todo \subseteq drain.todo
        BY <2>7, RestTyped
    <3> QED
        BY <1>0, <2>5, <3>1, DrainStep
  <2>8. CASE drain' = [pc |-> "enqueue", todo |-> drain.todo \ {<<k, p>>}, key |-> k, payload |-> p]
    <3>1. DrainInv' /\ drain'.todo \subseteq drain.todo /\ drain'.key = k /\ drain'.payload = p
        BY <1>0, <2>6, <2>8 DEF StoreInv, DrainInv, InHand, Content
    <3> QED
        BY <1>0, <2>5, <3>1, DrainStep
  <2> QED
      BY <1>2, <2>7, <2>8 DEF DrainClaim, DrainClaimFails
<1> QED
    BY <1>1, <1>2

LEMMA DrainQueueStore ==
    ASSUME StoreInv, DrainEnqueue \/ DrainConflict \/ DrainEnqueueFails PROVE StoreStep({})
<1>0. /\ drain.pc = "enqueue" /\ <<drain.key, drain.payload>> \in Owned /\ drain.key \in Keys
      /\ disk' = disk /\ maybe' = maybe /\ junk' \in Nat /\ junk' = junk
    BY DEF StoreInv, DirInv, DrainInv, InHand, Owned, DrainEnqueue, DrainConflict, DrainEnqueueFails, files
<1>1. CASE DrainConflict \/ DrainEnqueueFails
  <2>1. UNCHANGED tables /\ committed' = committed
      BY <1>1 DEF DrainConflict, DrainEnqueueFails, tables
  <2>2. /\ DrainInv' /\ drain'.todo = drain.todo /\ drain'.key = drain.key /\ drain'.payload = drain.payload
      BY <1>0, <1>1, <2>1 DEF StoreInv, DrainInv, InHand, DrainConflict, DrainEnqueueFails
  <2>3. DirStep({})
      BY <1>0, <2>1, CalmDirStep
  <2> QED
      BY <1>0, <2>1, <2>2, <2>3, DrainStep DEF InHand
<1>2. CASE DrainEnqueue
  <2>1. /\ QueueInv' /\ committed \subseteq committed' /\ <<drain.key, drain.payload>> \in committed'
        /\ \A x \in committed' : x \in committed \cup {<<drain.key, drain.payload>>}
      BY <1>0, <1>2, CommitQueue DEF DrainEnqueue
  <2>2. /\ DrainInv' /\ drain'.todo = drain.todo /\ drain'.key = drain.key /\ drain'.payload = drain.payload
      BY <1>0, <1>2, <2>1 DEF StoreInv, DrainInv, InHand, DrainEnqueue
  <2>3. DirStep({})
      BY <1>0, <2>1, CalmDirStep
  <2>4. Spares({})
    <3> SUFFICES ASSUME NEW k \in Keys, NEW p \in Payloads, UntouchedAt(k, p) PROVE UntouchedAt(k, p)'
        BY DEF Spares
    <3>1. <<drain.key, drain.payload>> # <<k, p>>
        BY <1>0 DEF UntouchedAt, InHand
    <3> QED
        BY <1>0, <2>1, <2>2, <3>1 DEF UntouchedAt, Holds
  <2> QED
      BY <2>1, <2>2, <2>3, <2>4, DirStepKeeps DEF StoreStep, DirStep, StoreInv
<1> QED
    BY <1>1, <1>2

LEMMA DrainFinishStore ==
    ASSUME StoreInv, DrainFinish PROVE StoreStep({})
<1>0. /\ drain.pc \in {"delete", "park", "release"} /\ drain.key \in Keys /\ drain.payload \in PayloadsAt(drain.key)
      /\ disk[drain.key].claim # None /\ disk[drain.key] \in FilesAt(drain.key)
      /\ UNCHANGED tables /\ committed' = committed /\ junk' = junk
    BY DEF StoreInv, DirInv, DrainInv, InHand, Owned, DrainFinish, tables
<1>1. PICK k \in Keys : k = drain.key
    BY <1>0
<1>2. PICK f : f = EndedFiles
    OBVIOUS
<1>3. /\ f \in FilesAt(k)
      /\ \A p \in PayloadsAt(k) : Lone(k) /\ Holds(disk[k], p) => Holds(f, p) \/ <<k, p>> \in committed'
      /\ \A p \in Payloads : Holds(f, p) => Holds(disk[k], p)
  <2>0. None \notin Payloads /\ PayloadsAt(k) \subseteq Payloads
      BY SpoolAssumption, PayloadsAtType
  <2>1. CASE drain.pc = "delete"
    <3>1. f = [disk[k] EXCEPT !.claim = None]
        BY <1>1, <1>2, <2>1 DEF EndedFiles
    <3>2. /\ f \in FilesAt(k) /\ f.json = disk[k].json /\ f.claim = None /\ f.parked = disk[k].parked
        BY <1>0, <1>1, <3>1 DEF FilesAt
    <3>3. \A p \in PayloadsAt(k) : Lone(k) => <<k, p>> \in committed'
        BY <1>0, <1>1, <2>1 DEF Lone, StoreInv, DrainInv
    <3> QED
        BY <2>0, <3>2, <3>3 DEF Holds
  <2>2. CASE drain.pc = "park"
    <3>1. f = [disk[k] EXCEPT !.claim = None, !.parked = @ \cup {disk[k].claim}]
        BY <1>1, <1>2, <2>2 DEF EndedFiles
    <3>2. /\ f \in FilesAt(k) /\ f.json = disk[k].json /\ f.claim = None
          /\ f.parked = disk[k].parked \cup {disk[k].claim}
        BY <1>0, <1>1, <3>1 DEF FilesAt
    <3> QED
        BY <2>0, <3>2 DEF Holds
  <2>3. CASE drain.pc = "release" /\ disk[k].json \in {None, disk[k].claim}
    <3>1. f = [disk[k] EXCEPT !.json = disk[k].claim, !.claim = None]
        BY <1>1, <1>2, <2>3 DEF EndedFiles
    <3>2. /\ f \in FilesAt(k) /\ f.json = disk[k].claim /\ f.claim = None /\ f.parked = disk[k].parked
        BY <1>0, <1>1, <3>1 DEF FilesAt
    <3> QED
        BY <2>0, <2>3, <3>2 DEF Holds
  <2>4. CASE drain.pc = "release" /\ disk[k].json \notin {None, disk[k].claim}
    <3>1. f = disk[k]
        BY <1>1, <1>2, <2>4 DEF EndedFiles
    <3> QED
        BY <1>0, <1>1, <3>1
  <2> QED
      BY <1>0, <2>1, <2>2, <2>3, <2>4
<1>4. PutSynced(k, f) \/ PutUnsynced(k, f)
    BY <1>1, <1>2 DEF DrainFinish
<1>5. DirStep({})
    BY <1>0, <1>3, <1>4, PutDirStep
<1>6. DrainInv' /\ drain'.pc \notin InHand /\ drain'.todo \subseteq drain.todo
  <2>1. drain' = Rest(drain.todo) \/ drain' = DrainIdle
      BY DEF DrainFinish
  <2> QED
      BY <2>1, RestTyped
<1> QED
    BY <1>0, <1>5, <1>6, DrainStep

\* Processes die, the database is checkpointed, the power fails.
LEMMA DeathStore ==
    ASSUME StoreInv, disk' = disk, maybe' = maybe, junk' \in Nat, UNCHANGED tables, drain' = DrainIdle
    PROVE  StoreStep({})
<1>1. DirStep({})
    BY CalmDirStep DEF tables
<1>2. DrainInv' /\ drain'.pc \notin InHand /\ drain'.todo \subseteq drain.todo
    BY RestTyped
<1> QED
    BY <1>1, <1>2, DrainStep

LEMMA CheckpointStore ==
    ASSUME StoreInv, Checkpoint PROVE StoreStep({})
<1>1. /\ disk' = disk /\ maybe' = maybe /\ junk' \in Nat /\ drain' = drain /\ committed' = committed
      /\ queue' = queue /\ safe' \subseteq {k \in Keys : queue[k] # None}
    BY DEF Checkpoint, files, StoreInv, DirInv
<1>2. QueueInv'
    BY <1>1 DEF StoreInv, QueueInv
<1>3. DirStep({})
    BY <1>1, CalmDirStep
<1> QED
    BY <1>1, <1>2, <1>3, CalmDrain

LEMMA PowerLossStore ==
    ASSUME StoreInv, PowerLoss PROVE StoreStep({})
<1>1. /\ \A k \in Keys : disk'[k] \in maybe[k]
      /\ disk' \in [Keys -> Files] /\ maybe' = [k \in Keys |-> {disk'[k]}]
  <2>1. /\ disk' \in [Keys -> UNION {maybe[k] : k \in Keys}] /\ \A k \in Keys : disk'[k] \in maybe[k]
      BY DEF PowerLoss
  <2>2. \A k \in Keys : maybe[k] \subseteq Files
      BY DEF StoreInv, DirInv
  <2> QED
      BY <2>1, <2>2 DEF PowerLoss, Synced
<1>2. junk' \in Nat /\ committed' = committed /\ drain' = DrainIdle
    BY DEF PowerLoss, JunkLeft, StoreInv, DirInv
<1>3. DirInv' /\ \A k \in Keys : maybe'[k] \subseteq maybe[k]
    BY <1>1, <1>2 DEF StoreInv, DirInv
<1>4. DirStep({})
    BY <1>2, <1>3 DEF DirStep
<1>5. QueueInv'
  <2>1. PICK lost \in SUBSET {k \in Keys : queue[k] # None /\ k \notin safe} :
            /\ queue' = [k \in Keys |-> IF k \in lost THEN None ELSE queue[k]]
            /\ safe' = {k \in Keys : queue[k] # None} \ lost
      BY DEF PowerLoss
  <2> QED
      BY <1>2, <2>1 DEF StoreInv, QueueInv, Content
<1>6. DrainInv' /\ drain'.pc \notin InHand /\ drain'.todo \subseteq drain.todo
    BY <1>2, RestTyped
<1>7. Spares({})
  <2> SUFFICES ASSUME NEW k \in Keys, NEW p \in Payloads, UntouchedAt(k, p) PROVE UntouchedAt(k, p)'
      BY DEF Spares
  <2>1. \A f \in maybe'[k] : ~Holds(f, p)
      BY <1>4, DirStepSpares DEF UntouchedAt
  <2> QED
      BY <1>2, <1>6, <2>1 DEF UntouchedAt, Holds
<1> QED
    BY <1>2, <1>4, <1>5, <1>6, <1>7, DirStepKeeps DEF StoreStep, DirStep, StoreInv

----------------------------------------------------------------------------
\* The clients.

ClientStates == {"idle", "waiting", "fresh", "keyed", "unseen", "spoolFresh", "spoolKeyed",
                 "accepted", "visible", "failed"}
ClientTyped ==
    /\ client \in [Captures -> ClientStates] /\ app \in [Writers -> [Captures -> Phases]]
    /\ rest \subseteq Captures /\ daemon \in BOOLEAN

\* What was promised to the producer of c, and what an append is about to promise, is kept.
Kept(c) == \E k \in KeysOf(c) : KeptAt(k, PayloadOf[c])
AckInv(c) ==
    /\ client[c] = "accepted" => c \in rest \/ Kept(c)
    /\ client[c] = "visible" => Kept(c)
    /\ \A w \in Writers : app[w][c] = "ok" => Kept(c)

\* Capture c is not stored under the key it was submitted under, and not elsewhere.
Unstored(c) == UntouchedAt(KeyOf[c], PayloadOf[c])
NotElsewhere(c) == c \notin rest /\ (FreshOf[c] # KeyOf[c] => UntouchedAt(FreshOf[c], PayloadOf[c]))

\* A client turns to another identity only when the daemon has not stored the
\* first and never will.
IdInv(c) ==
    /\ c \in rest => ClassOf[c] = "mcp"
    /\ app["hook"][c] # "none" => ClassOf[c] = "hook" /\ client[c] \in {"spoolFresh", "spoolKeyed"}
    /\ client[c] \in {"spoolFresh", "spoolKeyed"} => ClassOf[c] = "hook"
    /\ ClassOf[c] \in {"hook", "mcp"} =>
          /\ client[c] \in {"idle", "waiting", "fresh", "keyed", "unseen", "spoolKeyed"} => NotElsewhere(c)
          /\ client[c] \in {"idle", "fresh", "spoolFresh"} => Unstored(c) /\ app["daemon"][c] = "none"
          /\ client[c] = "waiting" =>
                \/ app["daemon"][c] \in {"none", "ok", "uncertain"}
                \/ app["daemon"][c] \in {"queued", "look", "look2", "write", "rejected"} /\ Unstored(c)
          /\ client[c] \in {"accepted", "failed", "visible"} =>
                NotElsewhere(c) \/ (Unstored(c) /\ app["daemon"][c] = "none")

IInv ==
    /\ StoreInv /\ ClientTyped
    /\ \A c \in Captures : IdInv(c)
    /\ OnePayload => \A c \in Captures : AckInv(c)

\* A step of the store leaves what is kept kept, and what it does not write untouched.
LEMMA StoreStepFacts ==
    ASSUME NEW W, StoreStep(W), NEW c \in Captures
    PROVE  /\ OnePayload /\ Kept(c) => Kept(c)'
           /\ Unstored(c) /\ <<KeyOf[c], PayloadOf[c]>> \notin W => Unstored(c)'
           /\ NotElsewhere(c) /\ c \notin rest' /\ (FreshOf[c] # KeyOf[c] => <<FreshOf[c], PayloadOf[c]>> \notin W)
                => NotElsewhere(c)'
<1>0. KeyOf[c] \in KeysOf(c) /\ FreshOf[c] \in KeysOf(c)
    BY DEF KeysOf
<1>1. ASSUME OnePayload, Kept(c) PROVE Kept(c)'
  <2>1. PICK k \in KeysOf(c) : KeptAt(k, PayloadOf[c])
      BY <1>1 DEF Kept
  <2>2. k \in Keys /\ PayloadOf[c] \in PayloadsAt(k) /\ Lone(k)
      BY <1>1, OwnPayload, LoneKeys
  <2>3. KeptAt(k, PayloadOf[c])'
      BY <2>1, <2>2 DEF StoreStep, Keeps
  <2> QED
      BY <2>3 DEF Kept
<1>2. \A k \in KeysOf(c) : <<k, PayloadOf[c]>> \notin W /\ UntouchedAt(k, PayloadOf[c]) => UntouchedAt(k, PayloadOf[c])'
    BY OwnPayload DEF StoreStep, Spares
<1> QED
    BY <1>0, <1>1, <1>2 DEF Unstored, NotElsewhere

\* Capture d stands where it stood.
LEMMA BystanderKeeps ==
    ASSUME IInv, NEW W, StoreStep(W), NEW d \in Captures,
           ClassOf[d] \in {"hook", "mcp"} => \A k \in KeysOf(d) : <<k, PayloadOf[d]>> \notin W,
           client'[d] = client[d], \A w \in Writers : app'[w][d] = app[w][d], d \in rest' <=> d \in rest
    PROVE  IdInv(d)' /\ (OnePayload => AckInv(d)')
<1>0. KeyOf[d] \in KeysOf(d) /\ FreshOf[d] \in KeysOf(d) /\ "hook" \in Writers /\ "daemon" \in Writers
    BY DEF KeysOf, Writers
<1>1. ClassOf[d] \in {"hook", "mcp"} => (Unstored(d) => Unstored(d)') /\ (NotElsewhere(d) => NotElsewhere(d)')
  <2>1. NotElsewhere(d) => d \notin rest'
      BY DEF NotElsewhere
  <2> QED
      BY <1>0, <2>1, StoreStepFacts
<1>2. IdInv(d)'
    BY <1>0, <1>1 DEF IInv, IdInv
<1>3. OnePayload => AckInv(d)'
    BY StoreStepFacts DEF IInv, AckInv
<1> QED
    BY <1>2, <1>3

\* Only capture c moves.
LEMMA ActorKeeps ==
    ASSUME IInv, NEW c \in Captures, NEW W, StoreStep(W), W \subseteq KeysOf(c) \X Payloads, ClientTyped',
           \A d \in Captures \ {c} : client'[d] = client[d] /\ \A w \in Writers : app'[w][d] = app[w][d],
           \A d \in Captures \ {c} : d \in rest' <=> d \in rest,
           IdInv(c)', OnePayload => AckInv(c)'
    PROVE  IInv'
<1>1. ASSUME NEW d \in Captures, d # c PROVE IdInv(d)' /\ (OnePayload => AckInv(d)')
  <2>1. ClassOf[d] \in {"hook", "mcp"} => \A k \in KeysOf(d) : <<k, PayloadOf[d]>> \notin W
      BY <1>1, DisjointKeys
  <2> QED
      BY <1>1, <2>1, BystanderKeeps
<1> QED
    BY <1>1 DEF IInv, StoreStep

\* Nobody moves.
LEMMA StoreAlone ==
    ASSUME IInv, StoreStep({}), UNCHANGED <<client, app, rest>>, daemon' \in BOOLEAN PROVE IInv'
<1>1. ASSUME NEW d \in Captures PROVE IdInv(d)' /\ (OnePayload => AckInv(d)')
    BY <1>1, BystanderKeeps
<1> QED
    BY <1>1 DEF IInv, StoreStep, ClientTyped

\* The client alone moves: nothing happens to the store.
LEMMA ClientMoves ==
    ASSUME IInv, NEW c \in Captures, UNCHANGED <<files, tables, drain, daemon>>,
           NEW s \in ClientStates, client' = [client EXCEPT ![c] = s],
           NEW w \in Writers, NEW ph \in Phases, app' = [app EXCEPT ![w][c] = ph],
           rest' = rest \/ (rest' = rest \cup {c})
    PROVE  /\ StoreStep({}) /\ ClientTyped' /\ client'[c] = s /\ app'[w][c] = ph
           /\ \A v \in Writers \ {w} : app'[v][c] = app[v][c]
           /\ \A d \in Captures \ {c} : client'[d] = client[d] /\ \A v \in Writers : app'[v][d] = app[v][d]
           /\ \A d \in Captures \ {c} : d \in rest' <=> d \in rest
           /\ OnePayload /\ Kept(c) => Kept(c)'
           /\ Unstored(c) => Unstored(c)'
           /\ NotElsewhere(c) /\ c \notin rest' => NotElsewhere(c)'
<1>1. StoreStep({})
    BY CalmStore DEF files, IInv, StoreInv, DirInv
<1>2. /\ OnePayload /\ Kept(c) => Kept(c)'
      /\ Unstored(c) => Unstored(c)'
      /\ NotElsewhere(c) /\ c \notin rest' => NotElsewhere(c)'
  <2>1. PICK W : W = {}
      OBVIOUS
  <2>2. StoreStep(W) /\ \A x : x \notin W
      BY <1>1, <2>1
  <2> QED
      BY <2>2, StoreStepFacts
<1>3. /\ client' \in [Captures -> ClientStates] /\ client'[c] = s
      /\ \A d \in Captures \ {c} : client'[d] = client[d]
    BY DEF IInv, ClientTyped
<1>4. /\ app' \in [Writers -> [Captures -> Phases]] /\ app'[w][c] = ph
      /\ \A v \in Writers \ {w} : app'[v][c] = app[v][c]
      /\ \A d \in Captures \ {c} : \A v \in Writers : app'[v][d] = app[v][d]
    BY DEF IInv, ClientTyped
<1>5. rest' \subseteq Captures /\ daemon' \in BOOLEAN /\ \A d \in Captures \ {c} : d \in rest' <=> d \in rest
    BY DEF IInv, ClientTyped
<1> QED
    BY <1>1, <1>2, <1>3, <1>4, <1>5 DEF ClientTyped

\* An unstored capture has no file, and a queued one was committed.
LEMMA NoFileYet ==
    ASSUME StoreInv, NEW c \in Captures, ClassOf[c] \in {"hook", "mcp"}, Unstored(c)
    PROVE  disk[KeyOf[c]].json = None /\ disk[KeyOf[c]].claim = None
<1>1. KeyOf[c] \in KeysOf(c) /\ KeyOf[c] \in Keys
    BY OwnPayload DEF KeysOf
<1>2. \A p \in PayloadsAt(KeyOf[c]) : p = PayloadOf[c]
    BY <1>1, LoneKeys
<1>3. disk[KeyOf[c]] \in FilesAt(KeyOf[c]) /\ ~Holds(disk[KeyOf[c]], PayloadOf[c])
    BY <1>1 DEF StoreInv, DirInv, Unstored, UntouchedAt
<1> QED
    BY <1>2, <1>3 DEF Holds, FilesAt

LEMMA QueuedIsKept ==
    ASSUME StoreInv, NEW c \in Captures, OnePayload, queue[KeyOf[c]] # None
    PROVE  Kept(c)
<1>1. KeyOf[c] \in KeysOf(c) /\ KeyOf[c] \in Keys
    BY OwnPayload DEF KeysOf
<1>2. \A p \in PayloadsAt(KeyOf[c]) : p = PayloadOf[c]
    BY <1>1, LoneKeys
<1>3. queue[KeyOf[c]] = PayloadOf[c] /\ <<KeyOf[c], queue[KeyOf[c]]>> \in committed
    BY <1>1, <1>2 DEF StoreInv, QueueInv
<1> QED
    BY <1>1, <1>3 DEF Kept, KeptAt

----------------------------------------------------------------------------
\* The steps of one capture.

LEMMA FallbackStates == \A r \in {"unavailable", "timeout", "uncertain", "rejected"} :
    Fallback(r) = IF r \in {"timeout", "uncertain"} THEN "keyed" ELSE "fresh"
BY DEF Fallback, MayHaveReached

\* What is known of c after a step of its client, its handler or its own append
\* that writes nothing.
Moved(c, s, w, ph) ==
    /\ client'[c] = s /\ app'[w][c] = ph /\ \A v \in Writers \ {w} : app'[v][c] = app[v][c]
    /\ OnePayload /\ Kept(c) => Kept(c)'
    /\ Unstored(c) => Unstored(c)'
    /\ NotElsewhere(c) /\ c \notin rest' => NotElsewhere(c)'

LEMMA QuietActor ==
    ASSUME IInv, NEW c \in Captures, UNCHANGED <<files, tables, drain, daemon>>,
           NEW s \in ClientStates, client' = [client EXCEPT ![c] = s],
           NEW w \in Writers, NEW ph \in Phases, app' = [app EXCEPT ![w][c] = ph],
           rest' = rest \/ (rest' = rest \cup {c}),
           Moved(c, s, w, ph) => IdInv(c)' /\ (OnePayload => AckInv(c)')
    PROVE  IInv'
<1>1. /\ StoreStep({}) /\ ClientTyped' /\ client'[c] = s /\ app'[w][c] = ph
      /\ \A v \in Writers \ {w} : app'[v][c] = app[v][c]
      /\ \A d \in Captures \ {c} : client'[d] = client[d] /\ \A v \in Writers : app'[v][d] = app[v][d]
      /\ \A d \in Captures \ {c} : d \in rest' <=> d \in rest
      /\ OnePayload /\ Kept(c) => Kept(c)'
      /\ Unstored(c) => Unstored(c)'
      /\ NotElsewhere(c) /\ c \notin rest' => NotElsewhere(c)'
    BY ClientMoves
<1>2. IdInv(c)' /\ (OnePayload => AckInv(c)')
    BY <1>1 DEF Moved
<1> QED
    BY <1>1, <1>2, ActorKeeps

LEMMA SameAgain ==
    ASSUME IInv, NEW c \in Captures
    PROVE  /\ client[c] \in ClientStates /\ client = [client EXCEPT ![c] = client[c]]
           /\ \A w \in Writers : app[w][c] \in Phases /\ app = [app EXCEPT ![w][c] = app[w][c]]
           /\ "daemon" \in Writers /\ "hook" \in Writers
           /\ IdInv(c) /\ (OnePayload => AckInv(c)) /\ StoreInv
<1>1. /\ client[c] \in ClientStates /\ client = [client EXCEPT ![c] = client[c]]
    BY DEF IInv, ClientTyped
<1>2. ASSUME NEW w \in Writers PROVE app[w][c] \in Phases /\ app = [app EXCEPT ![w][c] = app[w][c]]
    BY <1>2 DEF IInv, ClientTyped
<1> QED
    BY <1>1, <1>2 DEF Writers, IInv

LEMMA SubmitKeeps ==
    ASSUME IInv, NEW c \in Captures, Submit(c) \/ Unavailable(c) PROVE IInv'
<1>0. IdInv(c) /\ (OnePayload => AckInv(c)) /\ client[c] = "idle" /\ UNCHANGED <<files, tables, drain, daemon>> /\ rest' = rest
    BY SameAgain DEF Submit, Unavailable
<1>1. CASE Submit(c)
  <2>1. /\ client' = [client EXCEPT ![c] = "waiting"] /\ app' = [app EXCEPT !["daemon"][c] = "queued"]
        /\ "waiting" \in ClientStates /\ "queued" \in Phases /\ "daemon" \in Writers
      BY <1>1 DEF Submit, ClientStates, Phases, Writers
  <2>2. Moved(c, "waiting", "daemon", "queued") => IdInv(c)' /\ (OnePayload => AckInv(c)')
      BY <1>0 DEF Moved, IdInv, AckInv, Writers, NotElsewhere
  <2> QED
      BY <1>0, <2>1, <2>2, QuietActor
<1>2. CASE Unavailable(c)
  <2>1. /\ client' = [client EXCEPT ![c] = "fresh"] /\ app' = [app EXCEPT !["daemon"][c] = app["daemon"][c]]
        /\ "fresh" \in ClientStates /\ "daemon" \in Writers /\ app["daemon"][c] \in Phases
      BY <1>2, SameAgain, FallbackStates DEF Unavailable, ClientStates
  <2>2. Moved(c, "fresh", "daemon", app["daemon"][c]) => IdInv(c)' /\ (OnePayload => AckInv(c)')
      BY <1>0 DEF Moved, IdInv, AckInv, Writers, NotElsewhere
  <2> QED
      BY <1>0, <2>1, <2>2, QuietActor
<1> QED
    BY <1>1, <1>2

LEMMA AnswerKeeps ==
    ASSUME IInv, NEW c \in Captures, Answer(c) PROVE IInv'
<1>0. /\ IdInv(c) /\ (OnePayload => AckInv(c)) /\ UNCHANGED <<files, tables, drain, daemon>> /\ rest' = rest
      /\ "none" \in Phases /\ "daemon" \in Writers /\ app' = [app EXCEPT !["daemon"][c] = "none"]
      /\ app["daemon"][c] \in {"ok", "uncertain", "rejected"} /\ client[c] \in ClientStates
    BY SameAgain DEF Answer, Phases
<1> DEFINE s == IF client[c] # "waiting" THEN client[c] ELSE IF app["daemon"][c] = "ok" THEN "accepted"
                ELSE IF app["daemon"][c] = "uncertain" THEN "keyed" ELSE "fresh"
<1>1. client' = [client EXCEPT ![c] = s]
    BY <1>0, FallbackStates DEF Answer
<1>2. s \in ClientStates
    BY <1>0 DEF ClientStates
<1>3. ASSUME Moved(c, s, "daemon", "none") PROVE IdInv(c)' /\ (OnePayload => AckInv(c)')
  <2>1. CASE client[c] # "waiting"
      BY <1>0, <1>3, <2>1 DEF Moved, IdInv, AckInv, Writers, NotElsewhere
  <2>2. CASE client[c] = "waiting"
      BY <1>0, <1>3, <2>2 DEF Moved, IdInv, AckInv, Writers, NotElsewhere
  <2> QED
      BY <2>1, <2>2
<1> HIDE DEF s
<1> QED
    BY <1>0, <1>1, <1>2, <1>3, QuietActor

LEMMA GiveUpKeeps ==
    ASSUME IInv, NEW c \in Captures, GiveUp(c) PROVE IInv'
<1>0. /\ IdInv(c) /\ (OnePayload => AckInv(c)) /\ UNCHANGED <<files, tables, drain, daemon>> /\ rest' = rest
      /\ "daemon" \in Writers /\ client[c] = "waiting" /\ "keyed" \in ClientStates
      /\ client' = [client EXCEPT ![c] = "keyed"]
    BY SameAgain, FallbackStates DEF GiveUp, ClientStates
<1>1. PICK ph \in Phases : app' = [app EXCEPT !["daemon"][c] = ph] /\ ph \in {"none", app["daemon"][c]}
    BY SameAgain DEF GiveUp, Phases
<1>2. Moved(c, "keyed", "daemon", ph) => IdInv(c)' /\ (OnePayload => AckInv(c)')
    BY <1>0, <1>1 DEF Moved, IdInv, AckInv, Writers, NotElsewhere
<1> QED
    BY <1>0, <1>1, <1>2, QuietActor

LEMMA CheckVisibleKeeps ==
    ASSUME IInv, NEW c \in Captures, CheckVisible(c) PROVE IInv'
<1>0. /\ IdInv(c) /\ (OnePayload => AckInv(c)) /\ UNCHANGED <<files, tables, drain, daemon>> /\ rest' = rest
      /\ "daemon" \in Writers /\ client[c] = "keyed" /\ ClassOf[c] # "hook"
      /\ app["daemon"][c] \in Phases /\ app' = [app EXCEPT !["daemon"][c] = app["daemon"][c]]
    BY SameAgain DEF CheckVisible
<1>1. PICK s \in {"visible", "unseen"} : client' = [client EXCEPT ![c] = s] /\ (s = "visible" => queue[KeyOf[c]] # None)
    BY DEF CheckVisible
<1>2. s \in ClientStates /\ (s = "visible" /\ OnePayload => Kept(c))
    BY <1>1, SameAgain, QueuedIsKept DEF ClientStates
<1>3. Moved(c, s, "daemon", app["daemon"][c]) => IdInv(c)' /\ (OnePayload => AckInv(c)')
    BY <1>0, <1>1, <1>2 DEF Moved, IdInv, AckInv, Writers, NotElsewhere
<1> QED
    BY <1>0, <1>1, <1>2, <1>3, QuietActor

LEMMA EnqueueFailsKeeps ==
    ASSUME IInv, NEW c \in Captures, LocalEnqueueFails(c) PROVE IInv'
<1>0. /\ IdInv(c) /\ (OnePayload => AckInv(c)) /\ UNCHANGED <<files, tables, drain, daemon>> /\ rest' = rest
      /\ client[c] = "fresh" \/ client[c] = IF ClassOf[c] = "hook" THEN "keyed" ELSE "unseen"
      /\ "daemon" \in Writers /\ "hook" \in Writers /\ "look" \in Phases
    BY SameAgain DEF LocalEnqueueFails, AtQueue, Phases
<1>1. CASE ClassOf[c] = "hook"
  <2> DEFINE s == IF client[c] = "fresh" THEN "spoolFresh" ELSE "spoolKeyed"
  <2>1. client' = [client EXCEPT ![c] = s] /\ app' = [app EXCEPT !["hook"][c] = "look"]
      BY <1>0, <1>1 DEF LocalEnqueueFails
  <2>2. s \in ClientStates
      BY DEF ClientStates
  <2>3. Moved(c, s, "hook", "look") => IdInv(c)' /\ (OnePayload => AckInv(c)')
      BY <1>0, <1>1 DEF Moved, IdInv, AckInv, Writers, NotElsewhere
  <2> HIDE DEF s
  <2> QED
      BY <1>0, <2>1, <2>2, <2>3, QuietActor
<1>2. CASE ClassOf[c] # "hook"
  <2>1. PICK s \in {"visible", "failed"} :
            /\ client' = [client EXCEPT ![c] = s]
            /\ s = "visible" => queue[KeyOf[c]] # None /\ client[c] = "unseen"
      BY <1>2 DEF LocalEnqueueFails
  <2>2. s \in ClientStates /\ (s = "visible" /\ OnePayload => Kept(c))
      BY <2>1, SameAgain, QueuedIsKept DEF ClientStates
  <2>3. app["daemon"][c] \in Phases /\ app' = [app EXCEPT !["daemon"][c] = app["daemon"][c]]
      BY <1>2, SameAgain DEF LocalEnqueueFails
  <2>4. Moved(c, s, "daemon", app["daemon"][c]) => IdInv(c)' /\ (OnePayload => AckInv(c)')
      BY <1>0, <1>2, <2>1, <2>2 DEF Moved, IdInv, AckInv, Writers, NotElsewhere
  <2> QED
      BY <1>0, <2>1, <2>2, <2>3, <2>4, QuietActor
<1> QED
    BY <1>1, <1>2

LEMMA RestIngestKeeps ==
    ASSUME IInv, NEW c \in Captures, RestIngest(c) PROVE IInv'
<1>0. /\ IdInv(c) /\ (OnePayload => AckInv(c)) /\ UNCHANGED <<files, tables, drain, daemon>>
      /\ client[c] = "fresh" /\ ClassOf[c] = "mcp" /\ "daemon" \in Writers
      /\ app["daemon"][c] \in Phases /\ app' = [app EXCEPT !["daemon"][c] = app["daemon"][c]]
    BY SameAgain DEF RestIngest
<1>1. PICK s \in {"accepted", "failed"} :
          /\ client' = [client EXCEPT ![c] = s]
          /\ rest' = rest \cup {c} \/ (s = "failed" /\ rest' = rest)
    BY DEF RestIngest
<1>2. s \in ClientStates
    BY DEF ClientStates
<1>3. Moved(c, s, "daemon", app["daemon"][c]) => IdInv(c)' /\ (OnePayload => AckInv(c)')
    BY <1>0, <1>1, <1>2 DEF Moved, IdInv, AckInv, Writers, NotElsewhere
<1> QED
    BY <1>0, <1>1, <1>2, <1>3, QuietActor

LEMMA HookEndsKeeps ==
    ASSUME IInv, NEW c \in Captures, HookEnds(c) PROVE IInv'
<1>0. /\ IdInv(c) /\ (OnePayload => AckInv(c)) /\ UNCHANGED <<files, tables, drain, daemon>> /\ rest' = rest
      /\ app["hook"][c] \in {"ok", "uncertain", "rejected"} /\ "hook" \in Writers /\ "none" \in Phases
      /\ app' = [app EXCEPT !["hook"][c] = "none"]
    BY SameAgain DEF HookEnds, Phases
<1> DEFINE s == IF app["hook"][c] = "ok" THEN "accepted" ELSE "failed"
<1>1. client' = [client EXCEPT ![c] = s] /\ s \in ClientStates
    BY DEF HookEnds, ClientStates
<1>2. Moved(c, s, "hook", "none") => IdInv(c)' /\ (OnePayload => AckInv(c)')
    BY <1>0 DEF Moved, IdInv, AckInv, Writers, NotElsewhere
<1> HIDE DEF s
<1> QED
    BY <1>0, <1>1, <1>2, QuietActor

LEMMA ClientDiesKeeps ==
    ASSUME IInv, NEW c \in Captures, ClientDies(c) PROVE IInv'
<1>0. /\ IdInv(c) /\ (OnePayload => AckInv(c)) /\ rest' = rest /\ daemon' = daemon
      /\ client[c] \in ClientStates \ {"idle", "accepted", "visible", "failed"}
      /\ client' = [client EXCEPT ![c] = "failed"] /\ app' = [app EXCEPT !["hook"][c] = "none"]
    BY SameAgain DEF ClientDies
<1>1. StoreStep({})
    BY CalmStore DEF ClientDies, JunkLeft, IInv, StoreInv, DirInv
<1>2. /\ ClientTyped' /\ client'[c] = "failed" /\ app'["hook"][c] = "none" /\ app'["daemon"][c] = app["daemon"][c]
      /\ \A d \in Captures \ {c} : client'[d] = client[d] /\ \A v \in Writers : app'[v][d] = app[v][d]
  <2>1. /\ client' \in [Captures -> ClientStates] /\ client'[c] = "failed"
        /\ \A d \in Captures \ {c} : client'[d] = client[d]
      BY <1>0 DEF IInv, ClientTyped, ClientStates
  <2>2. /\ app' \in [Writers -> [Captures -> Phases]] /\ app'["hook"][c] = "none"
        /\ app'["daemon"][c] = app["daemon"][c]
        /\ \A d \in Captures \ {c} : \A v \in Writers : app'[v][d] = app[v][d]
      BY <1>0 DEF IInv, ClientTyped, Phases, Writers
  <2> QED
      BY <1>0, <2>1, <2>2 DEF IInv, ClientTyped
<1>3. /\ OnePayload /\ Kept(c) => Kept(c)'
      /\ Unstored(c) => Unstored(c)'
      /\ NotElsewhere(c) => NotElsewhere(c)'
  <2>1. PICK W : W = {}
      OBVIOUS
  <2>2. StoreStep(W) /\ (\A x : x \notin W) /\ (NotElsewhere(c) => c \notin rest')
      BY <1>0, <1>1, <2>1 DEF NotElsewhere
  <2> QED
      BY <2>2, StoreStepFacts
<1>4. IdInv(c)' /\ (OnePayload => AckInv(c)')
    BY <1>0, <1>2, <1>3 DEF IdInv, AckInv, Writers, ClientStates
<1>5. \A d \in Captures \ {c} : d \in rest' <=> d \in rest
    BY <1>0
<1> QED
    BY <1>1, <1>2, <1>4, <1>5, ActorKeeps

\* The append goes on without touching the directory.
LEMMA AppendQuiet ==
    ASSUME IInv, NEW c \in Captures, NEW w \in Writers, NEW ph \in Phases, AppendGoto(w, c, ph),
           app[w][c] \notin {"none", "ok"}, ph \notin {"none", "ok"},
           w = "daemon" /\ client[c] = "waiting" /\ ClassOf[c] \in {"hook", "mcp"} =>
              \/ ph \in {"queued", "look", "look2", "write", "rejected"} /\ Unstored(c)
              \/ ph = "uncertain",
           UNCHANGED <<client, files, tables, rest, daemon, drain>>
    PROVE  IInv'
<1>0. /\ client[c] \in ClientStates /\ client' = [client EXCEPT ![c] = client[c]]
      /\ app' = [app EXCEPT ![w][c] = ph] /\ IdInv(c) /\ (OnePayload => AckInv(c)) /\ rest' = rest
    BY SameAgain DEF AppendGoto
<1>1. ASSUME Moved(c, client[c], w, ph) PROVE IdInv(c)' /\ (OnePayload => AckInv(c)')
  <2>1. CASE w = "daemon"
    <3>1. app["daemon"][c] # "none" /\ app'["hook"][c] = app["hook"][c]
        BY <1>1, <2>1 DEF Moved, Writers
    <3>2. IdInv(c)'
        BY <1>0, <1>1, <2>1, <3>1 DEF Moved, IdInv, NotElsewhere
    <3> QED
        BY <1>0, <1>1, <2>1, <3>1, <3>2 DEF Moved, AckInv, Writers
  <2>2. CASE w = "hook"
    <3>1. app'["daemon"][c] = app["daemon"][c] /\ app["hook"][c] # "none"
        BY <1>1, <2>2 DEF Moved, Writers
    <3>2. IdInv(c)'
        BY <1>0, <1>1, <2>2, <3>1 DEF Moved, IdInv, NotElsewhere
    <3> QED
        BY <1>0, <1>1, <2>2, <3>1, <3>2 DEF Moved, AckInv, Writers
  <2> QED
      BY <2>1, <2>2 DEF Writers
<1> QED
    BY <1>0, <1>1, QuietActor

LEMMA AppendLooksKeep ==
    ASSUME IInv, NEW c \in Captures, NEW w \in Writers, AppendLook(w, c) \/ AppendLookClaim(w, c) \/ AppendPick(w, c)
    PROVE  IInv'
<1>0. UNCHANGED <<client, files, tables, rest, daemon, drain>> /\ IdInv(c) /\ StoreInv
    BY SameAgain DEF AppendLook, AppendLookClaim, AppendPick
<1>1. CASE AppendLook(w, c)
  <2>1. PICK ph \in {"pick", "look2"} : /\ AppendGoto(w, c, ph) /\ app[w][c] = "look"
                                        /\ (ph = "pick" => disk[AppendId(w, c)].json # None)
      BY <1>1 DEF AppendLook
  <2>2. w = "daemon" /\ client[c] = "waiting" /\ ClassOf[c] \in {"hook", "mcp"} => ph = "look2" /\ Unstored(c)
      BY <1>0, <2>1, NoFileYet DEF IdInv, AppendId
  <2> QED
      BY <1>0, <2>1, <2>2, AppendQuiet DEF Phases
<1>2. CASE AppendLookClaim(w, c)
  <2>1. PICK ph \in {"pick", "rejected", "write"} : /\ AppendGoto(w, c, ph) /\ app[w][c] = "look2"
                                                    /\ (ph = "pick" => disk[AppendId(w, c)].claim # None)
      BY <1>2 DEF AppendLookClaim
  <2>2. w = "daemon" /\ client[c] = "waiting" /\ ClassOf[c] \in {"hook", "mcp"} => ph # "pick" /\ Unstored(c)
      BY <1>0, <2>1, NoFileYet DEF IdInv, AppendId
  <2> QED
      BY <1>0, <2>1, <2>2, AppendQuiet DEF Phases
<1>3. CASE AppendPick(w, c)
  <2>1. PICK ph \in {"readJson", "readClaim"} : AppendGoto(w, c, ph) /\ app[w][c] = "pick"
      BY <1>3 DEF AppendPick
  <2>2. ~(w = "daemon" /\ client[c] = "waiting" /\ ClassOf[c] \in {"hook", "mcp"})
      BY <1>0, <2>1 DEF IdInv
  <2> QED
      BY <1>0, <2>1, <2>2, AppendQuiet DEF Phases
<1> QED
    BY <1>1, <1>2, <1>3

LEMMA AppendStartKeeps ==
    ASSUME IInv, NEW c \in Captures, AppendStart(c) PROVE IInv'
<1>1. /\ app["daemon"][c] = "queued" /\ AppendGoto("daemon", c, "look") /\ "daemon" \in Writers /\ "look" \in Phases
      /\ UNCHANGED <<client, files, tables, rest, daemon, drain>> /\ IdInv(c)
    BY SameAgain DEF AppendStart, Phases
<1>2. client[c] = "waiting" /\ ClassOf[c] \in {"hook", "mcp"} => Unstored(c)
    BY <1>1 DEF IdInv
<1> QED
    BY <1>1, <1>2, AppendQuiet

\* The keys an append and a fallback use.
LEMMA OwnIds ==
    ASSUME NEW c \in Captures, NEW w \in Writers
    PROVE  /\ FallbackId(c) \in KeysOf(c) /\ AppendId(w, c) \in KeysOf(c) /\ AppendId("daemon", c) = KeyOf[c]
           /\ AppendId("hook", c) = FallbackId(c)
           /\ FreshOf[c] # KeyOf[c] <=> ClassOf[c] = "hook"
           /\ FallbackId(c) = IF client[c] \in {"fresh", "spoolFresh"} THEN FreshOf[c] ELSE KeyOf[c]
BY SpoolAssumption DEF FallbackId, AppendId, KeysOf, Writers

\* What is known of c after it has written its payload under k.
Wrote(c, k) ==
    /\ Unstored(c) /\ k # KeyOf[c] => Unstored(c)'
    /\ NotElsewhere(c) /\ (k # FreshOf[c] \/ FreshOf[c] = KeyOf[c]) => NotElsewhere(c)'
    /\ OnePayload /\ Kept(c) => Kept(c)'

LEMMA WritingActor ==
    ASSUME IInv, NEW c \in Captures, NEW k \in KeysOf(c), StoreStep({<<k, PayloadOf[c]>>}),
           ClientTyped', rest' = rest,
           \A d \in Captures \ {c} : client'[d] = client[d] /\ \A w \in Writers : app'[w][d] = app[w][d],
           Wrote(c, k) => IdInv(c)' /\ (OnePayload => AckInv(c)')
    PROVE  IInv'
<1>1. PICK W : W = {<<k, PayloadOf[c]>>}
    OBVIOUS
<1>2. PayloadOf[c] \in Payloads /\ W \subseteq KeysOf(c) \X Payloads
    BY <1>1, OwnPayload
<1>3. Wrote(c, k)
  <2>1. StoreStep(W) /\ (\A x : x # k => <<x, PayloadOf[c]>> \notin W) /\ (NotElsewhere(c) => c \notin rest')
      BY <1>1 DEF NotElsewhere
  <2> QED
      BY <2>1, StoreStepFacts DEF Wrote
<1>4. IdInv(c)' /\ (OnePayload => AckInv(c)')
    BY <1>3
<1>5. StoreStep(W) /\ \A d \in Captures \ {c} : d \in rest' <=> d \in rest
    BY <1>1
<1> QED
    BY <1>2, <1>4, <1>5, ActorKeeps

LEMMA LocalEnqueueKeeps ==
    ASSUME IInv, NEW c \in Captures, LocalEnqueue(c) PROVE IInv'
<1>0. /\ IdInv(c) /\ (OnePayload => AckInv(c)) /\ StoreInv /\ rest' = rest /\ daemon' = daemon /\ app' = app
      /\ client[c] = "fresh" \/ client[c] = IF ClassOf[c] = "hook" THEN "keyed" ELSE "unseen"
      /\ UNCHANGED files /\ drain' = drain
    BY SameAgain DEF LocalEnqueue, AtQueue
<1>1. CASE /\ queue[FallbackId(c)] \in {None, PayloadOf[c]} /\ Commit(FallbackId(c), PayloadOf[c])
           /\ client' = [client EXCEPT ![c] = "accepted"]
  <2>1. PICK k \in KeysOf(c) : k = FallbackId(c)
      BY OwnIds DEF Writers
  <2>2. k \in Keys /\ <<k, PayloadOf[c]>> \in Owned
      BY OwnPayload
  <2>3. StoreStep({<<k, PayloadOf[c]>>}) /\ <<k, PayloadOf[c]>> \in committed'
      BY <1>0, <1>1, <2>1, <2>2, CommitStore
  <2>4. /\ ClientTyped' /\ client'[c] = "accepted"
        /\ \A d \in Captures \ {c} : client'[d] = client[d] /\ \A w \in Writers : app'[w][d] = app[w][d]
      BY <1>0, <1>1 DEF IInv, ClientTyped, ClientStates
  <2>5. Kept(c)'
      BY <2>3 DEF Kept, KeptAt
  <2>6. /\ FreshOf[c] # KeyOf[c] <=> ClassOf[c] = "hook"
        /\ k = IF client[c] = "fresh" THEN FreshOf[c] ELSE KeyOf[c]
      BY <1>0, <2>1, OwnIds DEF Writers
  <2>7. ASSUME Wrote(c, k) PROVE IdInv(c)' /\ (OnePayload => AckInv(c)')
    <3>1. IdInv(c)'
      <4>1. CASE client[c] = "fresh" /\ ClassOf[c] = "hook"
          BY <1>0, <2>4, <2>6, <2>7, <4>1 DEF IdInv, Wrote
      <4>2. CASE ClassOf[c] \in {"hook", "mcp"} /\ ~(client[c] = "fresh" /\ ClassOf[c] = "hook")
        <5>1. NotElsewhere(c)
            BY <1>0, <4>2 DEF IdInv
        <5>2. k # FreshOf[c] \/ FreshOf[c] = KeyOf[c]
            BY <1>0, <2>6, <4>2
        <5> QED
            BY <1>0, <2>4, <2>7, <4>2, <5>1, <5>2 DEF IdInv, Wrote
      <4>3. CASE ClassOf[c] \notin {"hook", "mcp"}
          BY <1>0, <2>4, <4>3 DEF IdInv
      <4> QED
          BY <4>1, <4>2, <4>3
    <3> QED
        BY <2>4, <2>5, <3>1 DEF AckInv
  <2>8. rest' = rest
      BY <1>0
  <2> QED
      BY <2>3, <2>4, <2>7, <2>8, WritingActor
<1>2. CASE client' = [client EXCEPT ![c] = "failed"] /\ UNCHANGED tables
  <2>1. /\ "failed" \in ClientStates /\ "daemon" \in Writers
        /\ app["daemon"][c] \in Phases /\ app' = [app EXCEPT !["daemon"][c] = app["daemon"][c]]
      BY <1>0, SameAgain DEF ClientStates
  <2>2. UNCHANGED <<files, tables, drain, daemon>> /\ rest' = rest
      BY <1>0, <1>2
  <2>3. Moved(c, "failed", "daemon", app["daemon"][c]) => IdInv(c)' /\ (OnePayload => AckInv(c)')
      BY <1>0 DEF Moved, IdInv, AckInv, Writers, NotElsewhere
  <2> QED
      BY <1>2, <2>1, <2>2, <2>3, QuietActor
<1> QED
    BY <1>1, <1>2 DEF LocalEnqueue

\* A record that is found is synced and then as good as written.
LEMMA AppendReadKeeps ==
    ASSUME IInv, NEW c \in Captures, NEW w \in Writers, AppendRead(w, c) PROVE IInv'
<1>0. /\ IdInv(c) /\ (OnePayload => AckInv(c)) /\ StoreInv /\ app[w][c] \in {"readJson", "readClaim"}
      /\ disk' = disk /\ junk' = junk /\ UNCHANGED tables /\ client' = client /\ rest' = rest /\ daemon' = daemon
      /\ drain' = drain
    BY SameAgain DEF AppendRead
<1>1. PICK k \in KeysOf(c) : k = AppendId(w, c)
    BY OwnIds
<1>2. ~(w = "daemon" /\ client[c] = "waiting" /\ ClassOf[c] \in {"hook", "mcp"})
    BY <1>0 DEF IdInv
<1>3. CASE AppendGoto(w, c, "ok") /\ Holds(disk[k], PayloadOf[c]) /\ maybe' = Synced(disk)
  <2>1. StoreStep({})
      BY <1>0, <1>3, CalmStore DEF StoreInv, DirInv
  <2>2. k \in Keys
      BY OwnPayload
  <2>3. Kept(c)'
    <3>1. \A f \in maybe'[k] : Holds(f, PayloadOf[c])
        BY <1>3, <2>2 DEF Synced
    <3> QED
        BY <3>1 DEF Kept, KeptAt, Holds
  <2>4. /\ ClientTyped' /\ app'[w][c] = "ok" /\ (\A v \in Writers \ {w} : app'[v][c] = app[v][c])
        /\ \A d \in Captures \ {c} : client'[d] = client[d] /\ \A v \in Writers : app'[v][d] = app[v][d]
    <3>1. /\ app' \in [Writers -> [Captures -> Phases]]
          /\ app'[w][c] = "ok" /\ (\A v \in Writers \ {w} : app'[v][c] = app[v][c])
          /\ \A d \in Captures \ {c} : \A v \in Writers : app'[v][d] = app[v][d]
        BY <1>3 DEF IInv, ClientTyped, AppendGoto, Phases
    <3> QED
        BY <1>0, <3>1 DEF IInv, ClientTyped
  <2>5. (Unstored(c) => Unstored(c)') /\ (NotElsewhere(c) => NotElsewhere(c)')
    <3>1. PICK W : W = {}
        OBVIOUS
    <3>2. StoreStep(W) /\ (\A x : x \notin W) /\ (NotElsewhere(c) => c \notin rest')
        BY <1>0, <2>1, <3>1 DEF NotElsewhere
    <3> QED
        BY <3>2, StoreStepFacts
  <2>6. IdInv(c)'
    <3>1. CASE w = "daemon"
      <4>1. app["daemon"][c] # "none" /\ app'["hook"][c] = app["hook"][c]
          BY <1>0, <2>4, <3>1 DEF Writers
      <4> QED
          BY <1>0, <1>2, <2>4, <2>5, <3>1, <4>1 DEF IdInv
    <3>2. CASE w = "hook"
      <4>1. app["hook"][c] # "none" /\ app'["daemon"][c] = app["daemon"][c]
          BY <1>0, <2>4, <3>2 DEF Writers
      <4> QED
          BY <1>0, <2>4, <2>5, <3>2, <4>1 DEF IdInv
    <3> QED
        BY <3>1, <3>2 DEF Writers
  <2>7. OnePayload => AckInv(c)'
      BY <2>3 DEF AckInv
  <2>8. \A d \in Captures \ {c} : d \in rest' <=> d \in rest
      BY <1>0
  <2> QED
      BY <2>1, <2>4, <2>6, <2>7, <2>8, ActorKeeps
<1>4. CASE maybe' = maybe /\ (AppendGoto(w, c, "uncertain") \/ AppendGoto(w, c, "rejected"))
  <2>1. UNCHANGED <<client, files, tables, rest, daemon, drain>>
      BY <1>0, <1>4 DEF files
  <2>2. "uncertain" \in Phases /\ "rejected" \in Phases
      BY DEF Phases
  <2> QED
      BY <1>0, <1>2, <1>4, <2>1, <2>2, AppendQuiet
<1> QED
    BY <1>0, <1>1, <1>3, <1>4 DEF AppendRead, PresentSync, Holds

LEMMA AppendWriteKeeps ==
    ASSUME IInv, NEW c \in Captures, NEW w \in Writers, AppendWrite(w, c) PROVE IInv'
<1>0. /\ IdInv(c) /\ (OnePayload => AckInv(c)) /\ StoreInv /\ app[w][c] = "write"
      /\ junk' = junk /\ UNCHANGED tables /\ client' = client /\ rest' = rest /\ daemon' = daemon /\ drain' = drain
    BY SameAgain DEF AppendWrite
<1>1. PICK k \in KeysOf(c) : k = AppendId(w, c)
    BY OwnIds
<1>2. k \in Keys /\ <<k, PayloadOf[c]>> \in Owned
    BY OwnPayload
<1>3. PICK f : f = [disk[k] EXCEPT !.json = PayloadOf[c]]
    OBVIOUS
<1>4. CASE (PutSynced(k, f) /\ AppendGoto(w, c, "ok")) \/ (PutUnsynced(k, f) /\ AppendGoto(w, c, "uncertain"))
  <2>1. /\ StoreStep({<<k, PayloadOf[c]>>}) /\ Holds(f, PayloadOf[c]) /\ disk' = [disk EXCEPT ![k] = f]
    <3>1. PutSynced(k, f) \/ PutUnsynced(k, f)
        BY <1>4
    <3> QED
        BY <1>0, <1>2, <1>3, <3>1, WriteStore
  <2>2. PICK ph \in {"ok", "uncertain"} : AppendGoto(w, c, ph) /\ (ph = "ok" => PutSynced(k, f))
      BY <1>4
  <2>3. ph = "ok" => Kept(c)'
    <3>1. PutSynced(k, f) => \A g \in maybe'[k] : Holds(g, PayloadOf[c])
        BY <1>0, <1>2, <2>1 DEF PutSynced, Synced, StoreInv, DirInv
    <3> QED
        BY <2>2, <3>1 DEF Kept, KeptAt, Holds
  <2>4. /\ ClientTyped' /\ app'[w][c] = ph /\ (\A v \in Writers \ {w} : app'[v][c] = app[v][c])
        /\ \A d \in Captures \ {c} : client'[d] = client[d] /\ \A v \in Writers : app'[v][d] = app[v][d]
    <3>1. /\ app' \in [Writers -> [Captures -> Phases]]
          /\ app'[w][c] = ph /\ (\A v \in Writers \ {w} : app'[v][c] = app[v][c])
          /\ \A d \in Captures \ {c} : \A v \in Writers : app'[v][d] = app[v][d]
        BY <2>2 DEF IInv, ClientTyped, AppendGoto, Phases
    <3> QED
        BY <1>0, <3>1 DEF IInv, ClientTyped
  <2>5. ASSUME Wrote(c, k) PROVE IdInv(c)' /\ (OnePayload => AckInv(c)')
    <3>0. FreshOf[c] # KeyOf[c] <=> ClassOf[c] = "hook"
        BY OwnIds
    <3>1. CASE w = "daemon"
      <4>1. /\ app["daemon"][c] # "none" /\ app'["hook"][c] = app["hook"][c] /\ k = KeyOf[c]
            /\ app'["daemon"][c] = ph
          BY <1>0, <1>1, <2>4, <3>1, OwnIds DEF Writers
      <4>2. NotElsewhere(c) => NotElsewhere(c)'
          BY <2>5, <4>1 DEF Wrote
      <4> QED
          BY <1>0, <2>2, <2>3, <2>5, <3>1, <4>1, <4>2 DEF IdInv, AckInv, Writers, Wrote
    <3>2. CASE w = "hook"
      <4>1. /\ app["hook"][c] # "none" /\ app'["daemon"][c] = app["daemon"][c] /\ app'["hook"][c] = ph
            /\ k = IF client[c] \in {"fresh", "spoolFresh"} THEN FreshOf[c] ELSE KeyOf[c]
          BY <1>0, <1>1, <2>4, <3>2, OwnIds DEF Writers
      <4> QED
          BY <1>0, <2>2, <2>3, <2>5, <3>0, <3>2, <4>1 DEF IdInv, AckInv, Writers, Wrote
    <3> QED
        BY <3>1, <3>2 DEF Writers
  <2> QED
      BY <1>0, <2>1, <2>4, <2>5, WritingActor
<1>5. CASE disk' = disk /\ maybe' = maybe /\ AppendGoto(w, c, "rejected")
  <2>1. UNCHANGED <<client, files, tables, rest, daemon, drain>> /\ "rejected" \in Phases
      BY <1>0, <1>5 DEF files, Phases
  <2>2. w = "daemon" /\ client[c] = "waiting" /\ ClassOf[c] \in {"hook", "mcp"} => Unstored(c)
      BY <1>0 DEF IdInv
  <2> QED
      BY <1>0, <1>5, <2>1, <2>2, AppendQuiet
<1>6. \/ PutSynced(k, f) /\ AppendGoto(w, c, "ok")
      \/ PutUnsynced(k, f) /\ AppendGoto(w, c, "uncertain")
      \/ disk' = disk /\ maybe' = maybe /\ AppendGoto(w, c, "rejected")
  <2> DEFINE m == AppendId(w, c)
             g == [disk[m] EXCEPT !.json = PayloadOf[c]]
  <2>1. \/ PutSynced(m, g) /\ AppendGoto(w, c, "ok")
        \/ PutUnsynced(m, g) /\ AppendGoto(w, c, "uncertain")
        \/ disk' = disk /\ maybe' = maybe /\ AppendGoto(w, c, "rejected")
      BY DEF AppendWrite
  <2> QED
      BY <1>1, <1>3, <2>1
<1> QED
    BY <1>4, <1>5, <1>6

----------------------------------------------------------------------------
\* The steps of everybody, and the theorems.

\* A step that writes nothing.
LEMMA NothingWritten ==
    ASSUME StoreStep({}), rest' = rest, NEW c \in Captures
    PROVE  /\ OnePayload /\ Kept(c) => Kept(c)'
           /\ Unstored(c) => Unstored(c)'
           /\ NotElsewhere(c) => NotElsewhere(c)'
<1>1. PICK W : W = {}
    OBVIOUS
<1>2. StoreStep(W) /\ (\A x : x \notin W) /\ (NotElsewhere(c) => c \notin rest')
    BY <1>1 DEF NotElsewhere
<1> QED
    BY <1>2, StoreStepFacts

LEMMA DaemonDiesKeeps ==
    ASSUME IInv, DaemonDies PROVE IInv'
<1>1. /\ client' = client /\ rest' = rest /\ daemon' = FALSE
      /\ app' = [app EXCEPT !["daemon"] = [c \in Captures |-> "none"]]
    BY DEF DaemonDies
<1>2. StoreStep({})
    BY DeathStore DEF DaemonDies, JunkLeft, IInv, StoreInv, DirInv
<1>3. /\ app' \in [Writers -> [Captures -> Phases]]
      /\ \A c \in Captures : app'["daemon"][c] = "none" /\ app'["hook"][c] = app["hook"][c]
    BY <1>1 DEF IInv, ClientTyped, Phases, Writers
<1>4. ClientTyped'
    BY <1>1, <1>3 DEF IInv, ClientTyped
<1>5. ASSUME NEW c \in Captures PROVE IdInv(c)' /\ (OnePayload => AckInv(c)')
  <2>1. /\ OnePayload /\ Kept(c) => Kept(c)'
        /\ Unstored(c) => Unstored(c)'
        /\ NotElsewhere(c) => NotElsewhere(c)'
      BY <1>1, <1>2, NothingWritten
  <2>2. IdInv(c)'
      BY <1>1, <1>3, <2>1 DEF IInv, IdInv
  <2>3. OnePayload => AckInv(c)'
      BY <1>1, <1>3, <2>1 DEF IInv, AckInv, Writers
  <2> QED
      BY <2>2, <2>3
<1> QED
    BY <1>2, <1>4, <1>5 DEF IInv, StoreStep

LEMMA PowerLossKeeps ==
    ASSUME IInv, PowerLoss PROVE IInv'
<1>1. /\ client' = [c \in Captures |-> IF client[c] \in {"idle", "accepted", "visible"} THEN client[c] ELSE "failed"]
      /\ app' = [w \in Writers |-> [c \in Captures |-> "none"]] /\ daemon' = FALSE /\ rest' = rest
    BY DEF PowerLoss
<1>2. StoreStep({})
    BY PowerLossStore DEF IInv
<1>3. ClientTyped'
    BY <1>1 DEF IInv, ClientTyped, ClientStates, Phases
<1>4. ASSUME NEW c \in Captures PROVE IdInv(c)' /\ (OnePayload => AckInv(c)')
  <2>1. /\ OnePayload /\ Kept(c) => Kept(c)'
        /\ Unstored(c) => Unstored(c)'
        /\ NotElsewhere(c) => NotElsewhere(c)'
      BY <1>1, <1>2, NothingWritten
  <2>2. /\ \A w \in Writers : app'[w][c] = "none"
        /\ client'[c] = IF client[c] \in {"idle", "accepted", "visible"} THEN client[c] ELSE "failed"
        /\ client[c] \in ClientStates /\ "daemon" \in Writers /\ "hook" \in Writers
      BY <1>1 DEF IInv, ClientTyped, Writers
  <2>3. IdInv(c)'
      BY <1>1, <2>1, <2>2 DEF IInv, IdInv, ClientStates
  <2>4. OnePayload => AckInv(c)'
      BY <1>1, <2>1, <2>2 DEF IInv, AckInv
  <2> QED
      BY <2>3, <2>4
<1> QED
    BY <1>2, <1>3, <1>4 DEF IInv, StoreStep

LEMMA StoreKeeps ==
    ASSUME IInv, Drain \/ DaemonStart \/ Checkpoint PROVE IInv'
<1>1. CASE Drain
  <2>1. StoreStep({})
      BY <1>1, DrainListStore, DrainClaimStore, DrainQueueStore, DrainFinishStore DEF Drain, IInv
  <2>2. UNCHANGED <<client, app, rest, daemon>>
      BY <1>1 DEF Drain, DrainList, DrainListFails, DrainClaim, DrainClaimFails, DrainEnqueue, DrainConflict,
                  DrainEnqueueFails, DrainFinish
  <2> QED
      BY <2>1, <2>2, StoreAlone DEF IInv, ClientTyped
<1>2. CASE DaemonStart
    BY <1>2, CalmStore, StoreAlone DEF DaemonStart, files, IInv, StoreInv, DirInv
<1>3. CASE Checkpoint
  <2>1. StoreStep({})
      BY <1>3, CheckpointStore DEF IInv
  <2> QED
      BY <1>3, <2>1, StoreAlone DEF Checkpoint, IInv, ClientTyped
<1> QED
    BY <1>1, <1>2, <1>3

LEMMA InitIInv == Init => IInv
<1> SUFFICES ASSUME Init PROVE IInv
    OBVIOUS
<1>1. DirInv
  <2>1. \A k \in Keys : NoFiles \in FilesAt(k) /\ FilesAt(k) \subseteq Files
      BY PayloadsAtType DEF NoFiles, FilesAt
  <2> QED
      BY <2>1 DEF Init, DirInv
<1>2. QueueInv /\ DrainInv
    BY DEF Init, QueueInv, DrainInv, DrainIdle, InHand, Content
<1>3. ClientTyped
    BY DEF Init, ClientTyped, ClientStates, Phases
<1>4. ASSUME NEW c \in Captures PROVE IdInv(c) /\ AckInv(c)
  <2>1. \A k \in KeysOf(c) : UntouchedAt(k, PayloadOf[c])
    <3> SUFFICES ASSUME NEW k \in KeysOf(c) PROVE UntouchedAt(k, PayloadOf[c])
        OBVIOUS
    <3>1. k \in Keys /\ PayloadOf[c] # None
        BY OwnPayload, SpoolAssumption
    <3> QED
        BY <3>1 DEF Init, UntouchedAt, Holds, NoFiles, DrainIdle, InHand
  <2>2. Unstored(c) /\ NotElsewhere(c)
      BY <2>1 DEF Unstored, NotElsewhere, KeysOf, Init
  <2>3. client[c] = "idle" /\ rest = {} /\ \A w \in Writers : app[w][c] = "none"
      BY DEF Init
  <2> QED
      BY <2>2, <2>3 DEF IdInv, AckInv, Writers
<1> QED
    BY <1>1, <1>2, <1>3, <1>4 DEF IInv, StoreInv

LEMMA NextIInv == IInv /\ [Next]_vars => IInv'
<1> SUFFICES ASSUME IInv, [Next]_vars PROVE IInv'
    OBVIOUS
<1>1. ASSUME NEW c \in Captures, Client(c) \/ AppendStart(c) \/ ClientDies(c) PROVE IInv'
    BY <1>1, SubmitKeeps, AnswerKeeps, GiveUpKeeps, CheckVisibleKeeps, LocalEnqueueKeeps, EnqueueFailsKeeps,
       RestIngestKeeps, HookEndsKeeps, AppendStartKeeps, ClientDiesKeeps DEF Client
<1>2. ASSUME NEW w \in Writers, NEW c \in Captures, Append(w, c) PROVE IInv'
    BY <1>2, AppendLooksKeep, AppendReadKeeps, AppendWriteKeeps DEF Append
<1>3. CASE UNCHANGED vars
  <2>1. UNCHANGED <<client, app, disk, maybe, junk, tables, rest, daemon, drain>>
      BY <1>3 DEF vars, tables
  <2>2. StoreStep({})
      BY <2>1, CalmStore DEF IInv, StoreInv, DirInv
  <2> QED
      BY <2>1, <2>2, StoreAlone DEF IInv, ClientTyped
<1> QED
    BY <1>1, <1>2, <1>3, StoreKeeps, DaemonDiesKeeps, PowerLossKeeps DEF Next

\* The inductive invariant of the spool.
THEOREM SpoolInvariant == Spec => []IInv
BY InitIInv, NextIInv, PTL DEF Spec

\* The variables keep their types, the current files are among the possible
\* ones and only committed keys are checkpointed.
THEOREM SpoolTyped == Spec => []TypeOK
<1>1. IInv => TypeOK
  <2> SUFFICES ASSUME IInv PROVE TypeOK
      OBVIOUS
  <2>1. \A k \in Keys : maybe[k] \subseteq Files /\ disk[k] \in maybe[k]
      BY DEF IInv, StoreInv, DirInv
  <2>2. drain.pc \in {"idle", "next", "enqueue", "delete", "park", "release"}
      BY DEF IInv, StoreInv, DrainInv, InHand
  <2>3. committed \subseteq Keys \X Payloads
      BY DEF IInv, StoreInv, QueueInv, Owned
  <2> QED
      BY <2>1, <2>2, <2>3 DEF IInv, StoreInv, DirInv, QueueInv, ClientTyped, ClientStates, TypeOK
<1> QED
    BY <1>1, SpoolInvariant, PTL

\* Whatever timeouts, late handlers, fallbacks, crashes and power losses do, no
\* capture is stored under two identities: the daemon's key and the fallback's
\* fresh one, or the daemon's key and the REST server (OneIdentity).
THEOREM SpoolOneIdentity == Spec => []OneIdentity
<1>1. IInv => OneIdentity
  <2> SUFFICES ASSUME IInv, NEW c \in Captures, Stored(c, KeyOf[c])
               PROVE  c \notin rest /\ (FreshOf[c] = KeyOf[c] \/ ~Stored(c, FreshOf[c]))
      BY DEF OneIdentity
  <2>1. ASSUME NEW k \in KeysOf(c), UntouchedAt(k, PayloadOf[c]) PROVE ~Stored(c, k)
    <3>1. k \in Keys
        BY OwnPayload
    <3> QED
        BY <2>1, <3>1 DEF IInv, StoreInv, DirInv, UntouchedAt, Stored
  <2>2. CASE ClassOf[c] \in {"hook", "mcp"}
    <3>1. ~Unstored(c)
        BY <2>1 DEF Unstored, KeysOf
    <3>2. NotElsewhere(c) \/ client[c] = "spoolFresh"
        BY <2>2, <3>1 DEF IInv, IdInv, ClientTyped, ClientStates
    <3>3. NotElsewhere(c)
        BY <2>2, <3>1, <3>2 DEF IInv, IdInv
    <3> QED
        BY <2>1, <3>3 DEF NotElsewhere, KeysOf
  <2>3. CASE ClassOf[c] \notin {"hook", "mcp"}
    <3>1. FreshOf[c] = KeyOf[c]
        BY <2>3, SpoolAssumption
    <3> QED
        BY <2>3, <3>1 DEF IInv, IdInv
  <2> QED
      BY <2>2, <2>3
<1> QED
    BY <1>1, SpoolInvariant, PTL

\* When an operation key stands for one payload, an accepted capture is at
\* every moment, and in every directory a power loss may leave, in the spool or
\* in quarantine, unless it was committed or ingested (HandedOver).
THEOREM SpoolHandedOver == OnePayload => (Spec => []HandedOver)
<1>1. OnePayload /\ IInv => HandedOver
  <2> SUFFICES ASSUME OnePayload, IInv, NEW c \in Captures, Acked(c), c \notin rest
               PROVE  \E k \in KeysOf(c) : <<k, PayloadOf[c]>> \in committed \/ KeptOnDisk(c, k)
      BY DEF HandedOver, KeysOf
  <2>1. Kept(c)
      BY DEF IInv, AckInv, Acked
  <2> QED
      BY <2>1 DEF Kept, KeptAt, KeptOnDisk
<1> SUFFICES ASSUME OnePayload PROVE Spec => []HandedOver
    OBVIOUS
<1>2. IInv => HandedOver
    BY <1>1
<1> QED
    BY <1>2, SpoolInvariant, PTL
----------------------------------------------------------------------------
\* The limit.

\* The daemon alone writes to the spool, and the machine keeps its power: a hook
\* process has an append_lock of its own, and a power loss brings back files whose
\* removal was not synced.
DaemonAlone == (\A c \in Captures : ClassOf[c] # "hook") /\ "power" \notin Faults

\* Whoever holds append_lock and was told that there is room still has it.
Appending == {c \in Captures : app["daemon"][c] \in Busy}
BoundInv ==
    /\ IsFiniteSet(Entries(disk)) /\ SpoolFiles <= MaxFiles
    /\ \A c, d \in Appending : c = d
    /\ \A c \in Captures : app["daemon"][c] = "write" => SpoolFiles < MaxFiles

\* One file becomes another, and more may go.
LEMMA OneFileMoves ==
    ASSUME NEW E, IsFiniteSet(E), NEW a \in E, NEW b, NEW S, S \subseteq (E \ {a}) \cup {b}
    PROVE  IsFiniteSet(S) /\ Cardinality(S) <= Cardinality(E)
<1>1. PICK R : R = E \ {a}
    OBVIOUS
<1>2. IsFiniteSet(R) /\ Cardinality(R) = Cardinality(E) - 1 /\ Cardinality(E) \in Nat
    BY <1>1, FS_RemoveElement, FS_CardinalityType
<1>3. Cardinality(R) \in Nat
    BY <1>2, FS_CardinalityType
<1>4. IsFiniteSet(R \cup {b}) /\ (Cardinality(R \cup {b}) = Cardinality(R) \/ Cardinality(R \cup {b}) = Cardinality(R) + 1)
    BY <1>2, FS_AddElement
<1>5. IsFiniteSet(S) /\ Cardinality(S) <= Cardinality(R \cup {b})
    BY <1>1, <1>4, FS_Subset
<1>6. Cardinality(S) \in Nat
    BY <1>5, FS_CardinalityType
<1> QED
    BY <1>2, <1>3, <1>4, <1>5, <1>6

\* Which files there are.
LEMMA EntryOf ==
    ASSUME NEW d, NEW k \in Keys, NEW p \in Payloads
    PROVE  /\ <<k, "json", p>> \in Entries(d) <=> d[k].json = p
           /\ <<k, "claim", p>> \in Entries(d) <=> d[k].claim = p
           /\ <<k, "parked", p>> \in Entries(d) <=> p \in d[k].parked
BY DEF Entries

LEMMA EntryForm ==
    ASSUME NEW d, NEW e \in Entries(d)
    PROVE  \E k \in Keys, p \in Payloads : e \in {<<k, "json", p>>, <<k, "claim", p>>, <<k, "parked", p>>}
<1>1. PICK k \in Keys, w \in {"json", "claim", "parked"}, p \in Payloads : e = <<k, w, p>>
    BY DEF Entries
<1> QED
    BY <1>1

\* The files after those of one key have changed.
LEMMA EntriesPut ==
    ASSUME NEW d, NEW g, NEW k \in Keys, \A j \in Keys : j # k => g[j] = d[j], NEW e \in Entries(g)
    PROVE  e \in Entries(d) \/ \E p \in Payloads : \/ e = <<k, "json", p>> /\ g[k].json = p
                                                   \/ e = <<k, "claim", p>> /\ g[k].claim = p
                                                   \/ e = <<k, "parked", p>> /\ p \in g[k].parked
<1>1. PICK j \in Keys, p \in Payloads : e \in {<<j, "json", p>>, <<j, "claim", p>>, <<j, "parked", p>>}
    BY EntryForm
<1>2. /\ <<j, "json", p>> \in Entries(g) <=> g[j].json = p
      /\ <<j, "claim", p>> \in Entries(g) <=> g[j].claim = p
      /\ <<j, "parked", p>> \in Entries(g) <=> p \in g[j].parked
    BY EntryOf
<1>3. /\ <<j, "json", p>> \in Entries(d) <=> d[j].json = p
      /\ <<j, "claim", p>> \in Entries(d) <=> d[j].claim = p
      /\ <<j, "parked", p>> \in Entries(d) <=> p \in d[j].parked
    BY EntryOf
<1>4. CASE j = k
    BY <1>1, <1>2, <1>4
<1>5. CASE j # k
  <2>1. g[j] = d[j]
      BY <1>5
  <2> QED
      BY <1>1, <1>2, <1>3, <2>1
<1> QED
    BY <1>4, <1>5

NotMore(d, g) == IsFiniteSet(Entries(g)) /\ Cardinality(Entries(g)) <= Cardinality(Entries(d))

\* What is known of the files of a key.
LEMMA FilesOfKey ==
    ASSUME NEW d \in [Keys -> Files], NEW k \in Keys
    PROVE  /\ d[k] = [json |-> d[k].json, claim |-> d[k].claim, parked |-> d[k].parked]
           /\ d[k].json \in Content /\ d[k].claim \in Content /\ d[k].parked \subseteq Payloads
BY DEF Files

\* The record of the files f is renamed to a claim.
Renamed(f, g) == f.json # None /\ g.json = None /\ g.claim = f.json /\ g.parked = f.parked

LEMMA ClaimMovesFile ==
    ASSUME NEW d \in [Keys -> Files], IsFiniteSet(Entries(d)), NEW k \in Keys, NEW f \in Files, Renamed(d[k], f)
    PROVE  NotMore(d, [d EXCEPT ![k] = f])
<1> DEFINE g == [d EXCEPT ![k] = f]
<1>1. PICK p \in Payloads : d[k].json = p
    BY FilesOfKey DEF Content, Renamed
<1>2. f \in Files /\ f.json = None /\ f.claim = p /\ f.parked = d[k].parked /\ g[k] = f
    BY <1>1 DEF Renamed
<1>0. \A j \in Keys : j # k => g[j] = d[j]
    OBVIOUS
<1> HIDE DEF g
<1>3. <<k, "json", p>> \in Entries(d)
    BY <1>1, EntryOf
<1>4. ASSUME NEW e \in Entries(g) PROVE e \in Entries(d) \cup {<<k, "claim", p>>}
  <2>0. e \in Entries(d) \/ \E q \in Payloads : \/ e = <<k, "json", q>> /\ g[k].json = q
                                                \/ e = <<k, "claim", q>> /\ g[k].claim = q
                                                \/ e = <<k, "parked", q>> /\ q \in g[k].parked
      BY <1>0, <1>4, EntriesPut
  <2>1. ASSUME NEW q \in Payloads, e = <<k, "parked", q>>, q \in f.parked PROVE e \in Entries(d)
      BY <1>2, <2>1, EntryOf
  <2>2. \A q \in Payloads : q # None
      BY SpoolAssumption
  <2> QED
      BY <1>2, <2>0, <2>1, <2>2
<1>5. <<k, "json", p>> \notin Entries(g)
  <2>1. p # None
      BY SpoolAssumption
  <2>2. <<k, "json", p>> \in Entries(g) => g[k].json = p
      BY EntryOf
  <2> QED
      BY <1>2, <2>1, <2>2
<1>6. Entries(g) \subseteq (Entries(d) \ {<<k, "json", p>>}) \cup {<<k, "claim", p>>}
    BY <1>4, <1>5
<1>7. NotMore(d, g)
    BY <1>3, <1>6, OneFileMoves DEF NotMore
<1> QED
    BY <1>7 DEF g

\* A claim is removed from the files f, and a file with what was in it may take its place.
Settled(f, g, p) ==
    /\ f.claim = p /\ g.claim = None
    /\ \/ g.json = f.json /\ g.parked = f.parked
       \/ g.json = f.json /\ g.parked = f.parked \cup {p}
       \/ g.json = p /\ g.parked = f.parked

LEMMA ClaimGoes ==
    ASSUME NEW d \in [Keys -> Files], IsFiniteSet(Entries(d)), NEW k \in Keys, NEW p \in Payloads,
           NEW f \in Files, Settled(d[k], f, p)
    PROVE  NotMore(d, [d EXCEPT ![k] = f])
<1> DEFINE g == [d EXCEPT ![k] = f]
<1>1. g[k] = f /\ p # None /\ d[k].claim = p /\ f.claim = None
    BY SpoolAssumption DEF Settled
<1>0. \A j \in Keys : j # k => g[j] = d[j]
    OBVIOUS
<1> HIDE DEF g
<1>2. <<k, "claim", p>> \in Entries(d)
    BY <1>1, EntryOf
<1>3. ASSUME NEW e \in Entries(g)
      PROVE  \/ e \in Entries(d)
             \/ e = <<k, "json", p>> /\ f.json = p /\ f.json # d[k].json
             \/ e = <<k, "parked", p>> /\ f.parked # d[k].parked
  <2>1. e \in Entries(d) \/ \E q \in Payloads : \/ e = <<k, "json", q>> /\ g[k].json = q
                                                \/ e = <<k, "claim", q>> /\ g[k].claim = q
                                                \/ e = <<k, "parked", q>> /\ q \in g[k].parked
      BY <1>0, <1>3, EntriesPut
  <2>2. ASSUME NEW q \in Payloads
        PROVE  /\ <<k, "json", q>> \in Entries(d) <=> d[k].json = q
               /\ <<k, "parked", q>> \in Entries(d) <=> q \in d[k].parked
               /\ q # None
      BY EntryOf, SpoolAssumption
  <2>3. CASE e \in Entries(d)
      BY <2>3
  <2>4. ASSUME NEW q \in Payloads, e = <<k, "json", q>>, f.json = q PROVE e \in Entries(d) \/ (q = p /\ f.json # d[k].json)
      BY <2>2, <2>4 DEF Settled
  <2>5. ASSUME NEW q \in Payloads, e = <<k, "parked", q>>, q \in f.parked PROVE e \in Entries(d) \/ (q = p /\ f.parked # d[k].parked)
      BY <2>2, <2>5 DEF Settled
  <2> QED
      BY <1>1, <2>1, <2>2, <2>3, <2>4, <2>5
<1>4. \E b : \A e \in Entries(g) : e \in Entries(d) \cup {b}
  <2>1. f.json = d[k].json \/ f.parked = d[k].parked
      BY DEF Settled
  <2>2. CASE f.json = d[k].json
    <3>1. \A e \in Entries(g) : e \in Entries(d) \cup {<<k, "parked", p>>}
        BY <1>3, <2>2
    <3> QED
        BY <3>1
  <2>3. CASE f.parked = d[k].parked
    <3>1. \A e \in Entries(g) : e \in Entries(d) \cup {<<k, "json", p>>}
        BY <1>3, <2>3
    <3> QED
        BY <3>1
  <2> QED
      BY <2>1, <2>2, <2>3
<1>5. PICK b : \A e \in Entries(g) : e \in Entries(d) \cup {b}
    BY <1>4
<1>6. <<k, "claim", p>> \notin Entries(g)
  <2>1. <<k, "claim", p>> \in Entries(g) => g[k].claim = p
      BY EntryOf
  <2> QED
      BY <1>1, <2>1
<1>7. Entries(g) \subseteq (Entries(d) \ {<<k, "claim", p>>}) \cup {b}
    BY <1>5, <1>6
<1>8. NotMore(d, g)
    BY <1>2, <1>7, OneFileMoves DEF NotMore
<1> QED
    BY <1>8 DEF g

\* The listing turns claims back into records.
LEMMA ListMovesFiles ==
    ASSUME disk \in [Keys -> Files], IsFiniteSet(Entries(disk)) PROVE NotMore(disk, ListedFiles)
<1> DEFINE E == Entries(disk)
<1> DEFINE L == Entries(ListedFiles)
<1> DEFINE from == [e \in L |-> IF e \in E THEN e ELSE <<e[1], "claim", e[3]>>]
<1>1. ASSUME NEW e \in L
      PROVE  \/ e \in E /\ e[2] # "claim"
             \/ e[2] = "json" /\ <<e[1], "claim", e[3]>> \in E
  <2>1. PICK k \in Keys, p \in Payloads : e \in {<<k, "json", p>>, <<k, "claim", p>>, <<k, "parked", p>>}
      BY <1>1, EntryForm
  <2>2. PICK g : g = ListedFiles
      OBVIOUS
  <2>3. g[k] = Recovered(disk[k]) /\ p # None
      BY <2>2, SpoolAssumption DEF ListedFiles
  <2>4. /\ g[k].claim = None /\ g[k].parked = disk[k].parked
        /\ g[k].json = disk[k].json \/ g[k].json = disk[k].claim
      BY <2>3, FilesOfKey DEF Recovered
  <2>5. /\ <<k, "json", p>> \in Entries(g) <=> g[k].json = p
        /\ <<k, "claim", p>> \in Entries(g) <=> g[k].claim = p
        /\ <<k, "parked", p>> \in Entries(g) <=> p \in g[k].parked
      BY EntryOf
  <2>6. /\ <<k, "json", p>> \in E <=> disk[k].json = p
        /\ <<k, "claim", p>> \in E <=> disk[k].claim = p
        /\ <<k, "parked", p>> \in E <=> p \in disk[k].parked
      BY EntryOf
  <2> QED
      BY <1>1, <2>1, <2>2, <2>3, <2>4, <2>5, <2>6
<1>2. ASSUME NEW e \in L PROVE from[e] \in E
    BY <1>1, <1>2
<1>3. ASSUME NEW x \in L, NEW y \in L, from[x] = from[y] PROVE x = y
  <2>1. (x \in E /\ x[2] # "claim") \/ (x[2] = "json" /\ from[x] = <<x[1], "claim", x[3]>>) \/ x \in E
      BY <1>1
  <2>2. CASE x \in E /\ y \in E
      BY <1>3, <2>2
  <2>3. CASE x \notin E /\ y \notin E
    <3>1. x[2] = "json" /\ y[2] = "json" /\ x[1] = y[1] /\ x[3] = y[3]
        BY <1>1, <1>3, <2>3
    <3> QED
        BY <3>1 DEF Entries
  <2>4. CASE x \in E /\ y \notin E
      BY <1>1, <1>3, <2>4
  <2>5. CASE x \notin E /\ y \in E
      BY <1>1, <1>3, <2>5
  <2> QED
      BY <2>2, <2>3, <2>4, <2>5
<1>4. from \in Injection(L, E)
    BY <1>2, <1>3 DEF Injection, IsInjective
<1> HIDE DEF E, L, from
<1>5. IsFiniteSet(L) /\ Cardinality(L) <= Cardinality(E)
  <2>1. IsFiniteSet(E)
      BY DEF E
  <2> QED
      BY <1>4, <2>1, FS_Injection
<1> QED
    BY <1>5 DEF NotMore, E, L

\* A step that adds no file and lets nobody past the check but when there is room.
LEMMA BoundStep ==
    ASSUME BoundInv, junk \in Nat, junk' = junk, NotMore(disk, disk'),
           \A c, d \in Appending' : c = d,
           \A c \in Captures : app'["daemon"][c] = "write" => app["daemon"][c] = "write" \/ ~SpoolFull
    PROVE  BoundInv'
<1>1. PICK m \in Nat : m = Cardinality(Entries(disk))
    BY FS_CardinalityType DEF BoundInv
<1>2. PICK n \in Nat : n = Cardinality(Entries(disk'))
    BY FS_CardinalityType DEF NotMore
<1>3. SpoolFiles = m + junk /\ SpoolFiles' = n + junk /\ n <= m
    BY <1>1, <1>2 DEF SpoolFiles, NotMore
<1>4. SpoolFiles' <= MaxFiles
    BY <1>3, SpoolAssumption DEF BoundInv
<1>5. ASSUME NEW c \in Captures, app'["daemon"][c] = "write" PROVE SpoolFiles' < MaxFiles
    BY <1>3, <1>5, SpoolAssumption DEF BoundInv, SpoolFull
<1>6. IsFiniteSet(Entries(disk'))
    BY DEF NotMore
<1> QED
    BY <1>4, <1>5, <1>6 DEF BoundInv

\* Steps that do not touch the files, and let nobody go on in an append.
LEMMA BoundCalm ==
    ASSUME BoundInv, junk \in Nat, UNCHANGED <<disk, junk>>,
           \A c \in Captures : app'["daemon"][c] \in Busy => app'["daemon"][c] = app["daemon"][c]
    PROVE  BoundInv'
<1>1. NotMore(disk, disk')
  <2>1. Cardinality(Entries(disk)) \in Nat
      BY FS_CardinalityType DEF BoundInv
  <2> QED
      BY <2>1 DEF NotMore, BoundInv
<1>2. \A c, d \in Appending' : c = d
    BY DEF BoundInv, Appending
<1>3. \A c \in Captures : app'["daemon"][c] = "write" => app["daemon"][c] = "write"
    BY DEF Busy
<1> QED
    BY <1>1, <1>2, <1>3, BoundStep

LEMMA ClientsBounded ==
    ASSUME IInv, DaemonAlone, BoundInv, NEW c \in Captures, Client(c) \/ ClientDies(c) PROVE BoundInv'
<1>1. junk \in Nat /\ app \in [Writers -> [Captures -> Phases]] /\ app["hook"][c] = "none"
    BY DEF IInv, StoreInv, DirInv, ClientTyped, IdInv, DaemonAlone
<1>2. UNCHANGED <<disk, junk>>
    BY <1>1 DEF Client, Submit, Unavailable, Answer, GiveUp, CheckVisible, LocalEnqueue, LocalEnqueueFails,
                RestIngest, HookEnds, ClientDies, JunkLeft, files
<1>3. \/ app' = app \/ \E x \in {"none", "queued"} : app' = [app EXCEPT !["daemon"][c] = x]
      \/ \E x \in Phases : app' = [app EXCEPT !["hook"][c] = x]
    BY DEF Client, Submit, Unavailable, Answer, GiveUp, CheckVisible, LocalEnqueue, LocalEnqueueFails,
           RestIngest, HookEnds, ClientDies, Phases
<1>4. \A d \in Captures : app'["daemon"][d] \in Busy => app'["daemon"][d] = app["daemon"][d]
    BY <1>1, <1>3 DEF Writers, Busy
<1> QED
    BY <1>1, <1>2, <1>4, BoundCalm

\* The lock is free when it is taken.
LEMMA StartBounded ==
    ASSUME IInv, BoundInv, NEW c \in Captures, AppendStart(c) PROVE BoundInv'
<1>1. junk \in Nat /\ UNCHANGED <<disk, junk>> /\ NotMore(disk, disk')
  <2>1. Cardinality(Entries(disk)) \in Nat
      BY FS_CardinalityType DEF BoundInv
  <2> QED
      BY <2>1 DEF NotMore, BoundInv, IInv, StoreInv, DirInv, AppendStart, files
<1>2. ASSUME NEW d \in Captures PROVE app'["daemon"][d] \in Busy => d = c /\ app'["daemon"][d] = "look"
    BY DEF AppendStart, AppendGoto, LockFree, IInv, ClientTyped, Writers
<1>3. \A a, b \in Appending' : a = b
    BY <1>2 DEF Appending
<1>4. \A d \in Captures : app'["daemon"][d] # "write"
    BY <1>2 DEF Busy
<1> QED
    BY <1>1, <1>3, <1>4, BoundStep

\* The looks of an append; whoever goes on to write was told that there is room.
LEMMA LooksBounded ==
    ASSUME IInv, BoundInv, NEW c \in Captures,
           \/ AppendLook("daemon", c) \/ AppendLookClaim("daemon", c) \/ AppendPick("daemon", c)
           \/ AppendRead("daemon", c)
    PROVE  BoundInv'
<1>1. junk \in Nat /\ UNCHANGED <<disk, junk>> /\ NotMore(disk, disk')
  <2>1. Cardinality(Entries(disk)) \in Nat
      BY FS_CardinalityType DEF BoundInv
  <2>2. UNCHANGED <<disk, junk>>
      BY DEF AppendLook, AppendLookClaim, AppendPick, AppendRead, files
  <2> QED
      BY <2>1, <2>2 DEF NotMore, BoundInv, IInv, StoreInv, DirInv
<1>2. PICK x \in Phases : app' = [app EXCEPT !["daemon"][c] = x] /\ app["daemon"][c] \in Busy /\ (x = "write" => ~SpoolFull)
    BY DEF AppendLook, AppendLookClaim, AppendPick, AppendRead, AppendGoto, Phases, Busy
<1>3. \A d \in Captures : d # c => app'["daemon"][d] = app["daemon"][d]
    BY <1>2 DEF IInv, ClientTyped, Writers
<1>4. app'["daemon"][c] = x
    BY <1>2 DEF IInv, ClientTyped, Writers
<1>5. \A a, b \in Appending' : a = b
    BY <1>2, <1>3 DEF Appending, BoundInv
<1> QED
    BY <1>1, <1>2, <1>3, <1>4, <1>5, BoundStep

\* The write: one file more, where one more fits.
LEMMA WriteBounded ==
    ASSUME IInv, BoundInv, NEW c \in Captures, AppendWrite("daemon", c) PROVE BoundInv'
<1>1. /\ junk \in Nat /\ junk' = junk /\ app["daemon"][c] = "write" /\ disk \in [Keys -> Files]
      /\ app \in [Writers -> [Captures -> Phases]] /\ MaxFiles \in Nat
    BY SpoolAssumption DEF AppendWrite, IInv, StoreInv, DirInv, ClientTyped
<1>2. PICK k \in Keys, p \in Payloads : k = KeyOf[c] /\ p = PayloadOf[c]
    BY SpoolAssumption DEF Payloads
<1>3. PICK f \in Files : f = [disk[k] EXCEPT !.json = p]
  <2>1. disk[k] \in Files
      BY <1>1
  <2>2. [disk[k] EXCEPT !.json = p] \in Files
      BY <2>1 DEF Files, Content
  <2> QED
      BY <2>2
<1>4. f.json = p /\ f.claim = disk[k].claim /\ f.parked = disk[k].parked
    BY <1>1, <1>3, FilesOfKey
<1>5. disk' = disk \/ disk' = [disk EXCEPT ![k] = f]
    BY <1>2, <1>3 DEF AppendWrite, AppendId, PutSynced, PutUnsynced
<1>6. ASSUME NEW e \in Entries(disk') PROVE e \in Entries(disk) \cup {<<k, "json", p>>}
  <2>1. CASE disk' = disk
      BY <1>6, <2>1
  <2>2. CASE disk' = [disk EXCEPT ![k] = f]
    <3>1. PICK g : g = disk'
        OBVIOUS
    <3>2. g[k] = f /\ (\A j \in Keys : j # k => g[j] = disk[j]) /\ e \in Entries(g)
        BY <1>1, <1>6, <2>2, <3>1
    <3>3. e \in Entries(disk) \/ \E q \in Payloads : \/ e = <<k, "json", q>> /\ g[k].json = q
                                                     \/ e = <<k, "claim", q>> /\ g[k].claim = q
                                                     \/ e = <<k, "parked", q>> /\ q \in g[k].parked
        BY <3>2, EntriesPut
    <3>4. ASSUME NEW q \in Payloads
          PROVE  /\ <<k, "claim", q>> \in Entries(disk) <=> disk[k].claim = q
                 /\ <<k, "parked", q>> \in Entries(disk) <=> q \in disk[k].parked
        BY EntryOf
    <3> QED
        BY <1>4, <3>2, <3>3, <3>4
  <2> QED
      BY <1>5, <2>1, <2>2
<1>7. PICK E : E = Entries(disk) \cup {<<k, "json", p>>}
    OBVIOUS
<1>8. /\ IsFiniteSet(E) /\ Cardinality(Entries(disk)) \in Nat
      /\ Cardinality(E) = Cardinality(Entries(disk)) \/ Cardinality(E) = Cardinality(Entries(disk)) + 1
    BY <1>7, FS_AddElement, FS_CardinalityType DEF BoundInv
<1>9. IsFiniteSet(Entries(disk')) /\ Cardinality(Entries(disk')) <= Cardinality(E)
    BY <1>6, <1>7, <1>8, FS_Subset
<1>10. Cardinality(Entries(disk')) \in Nat
    BY <1>9, FS_CardinalityType
<1>11. SpoolFiles' <= MaxFiles
  <2>1. SpoolFiles' = Cardinality(Entries(disk')) + junk
      BY <1>1 DEF SpoolFiles
  <2>2. Cardinality(Entries(disk)) + junk < MaxFiles
      BY <1>1 DEF BoundInv, SpoolFiles
  <2> QED
      BY <1>1, <1>8, <1>9, <1>10, <2>1, <2>2
<1>12. PICK x \in {"ok", "uncertain", "rejected"} : app' = [app EXCEPT !["daemon"][c] = x]
    BY DEF AppendWrite, AppendGoto
<1>13. \A d \in Captures : app'["daemon"][d] \notin Busy
  <2>1. \A d \in Captures : d # c => app["daemon"][d] \notin Busy
      BY <1>1 DEF BoundInv, Appending, Busy
  <2> QED
      BY <1>1, <1>12, <2>1 DEF Busy, Writers
<1>14. \A d \in Captures : app'["daemon"][d] # "write"
    BY <1>13 DEF Busy
<1> QED
    BY <1>9, <1>11, <1>13, <1>14 DEF BoundInv, Appending

\* The drain moves files and removes them.
LEMMA DrainNotMore ==
    ASSUME IInv, BoundInv, Drain PROVE NotMore(disk, disk')
<1>1. disk \in [Keys -> Files] /\ IsFiniteSet(Entries(disk))
    BY DEF IInv, StoreInv, DirInv, BoundInv
<1>2. NotMore(disk, disk)
  <2>1. Cardinality(Entries(disk)) \in Nat
      BY <1>1, FS_CardinalityType
  <2> QED
      BY <1>1, <2>1 DEF NotMore
<1>3. CASE disk' = disk
    BY <1>2, <1>3
<1>4. CASE DrainList \/ DrainListFails
  <2>1. disk' = ListedFiles
      BY <1>4 DEF DrainList, DrainListFails
  <2>2. NotMore(disk, ListedFiles)
      BY <1>1, ListMovesFiles
  <2> QED
      BY <2>1, <2>2
<1>5. ASSUME NEW t \in drain.todo, DrainClaim(t[1], t[2]) \/ DrainClaimFails(t[1], t[2])
      PROVE  NotMore(disk, disk')
  <2>1. PICK k \in Keys : k = t[1]
      BY DEF IInv, StoreInv, DrainInv, Owned
  <2>2. CASE disk' = disk
      BY <1>2, <2>2
  <2>3. CASE disk[k].json # None /\ disk' = [disk EXCEPT ![k] = ClaimedFiles(k)]
    <3>1. PICK f : f = ClaimedFiles(k)
        OBVIOUS
    <3>2. disk[k] \in Files
        BY <1>1
    <3>3. f \in Files /\ f.json = None /\ f.claim = disk[k].json /\ f.parked = disk[k].parked
        BY <3>1, <3>2 DEF ClaimedFiles, Files, Content
    <3>4. Renamed(disk[k], f)
        BY <2>3, <3>3 DEF Renamed
    <3>5. NotMore(disk, [disk EXCEPT ![k] = f])
        BY <1>1, <3>3, <3>4, ClaimMovesFile
    <3> QED
        BY <2>3, <3>1, <3>5
  <2> QED
      BY <1>5, <2>1, <2>2, <2>3 DEF DrainClaim, DrainClaimFails, PutSynced, PutUnsynced
<1>6. CASE DrainFinish
  <2>1. PICK k \in Keys : k = drain.key /\ disk[k].claim # None
      BY <1>6 DEF DrainFinish, IInv, StoreInv, DrainInv, InHand, Owned
  <2>2. disk[k].json \in Content /\ disk[k].claim \in Content /\ disk[k].parked \subseteq Payloads /\ disk[k] \in Files
      BY <1>1, FilesOfKey
  <2>3. PICK p \in Payloads : disk[k].claim = p
      BY <2>1, <2>2 DEF Content
  <2>4. PICK f : f = EndedFiles
      OBVIOUS
  <2>5. disk' = [disk EXCEPT ![k] = f]
      BY <1>6, <2>1, <2>4 DEF DrainFinish, PutSynced, PutUnsynced
  <2>6. CASE f \in Files /\ Settled(disk[k], f, p)
    <3>1. NotMore(disk, [disk EXCEPT ![k] = f])
        BY <1>1, <2>6, ClaimGoes
    <3> QED
        BY <2>5, <3>1
  <2>7. CASE f = disk[k]
    <3>1. disk' = disk
        BY <1>1, <2>5, <2>7
    <3> QED
        BY <1>2, <3>1
  <2>8. CASE drain.pc = "delete"
    <3>1. f = [disk[k] EXCEPT !.claim = None]
        BY <2>1, <2>4, <2>8 DEF EndedFiles
    <3>2. f \in Files /\ f.claim = None /\ f.json = disk[k].json /\ f.parked = disk[k].parked
        BY <2>2, <3>1 DEF Files, Content
    <3> QED
        BY <2>3, <2>6, <3>2 DEF Settled
  <2>9. CASE drain.pc = "park"
    <3>1. f = [disk[k] EXCEPT !.claim = None, !.parked = @ \cup {disk[k].claim}]
        BY <2>1, <2>4, <2>9 DEF EndedFiles
    <3>2. f \in Files /\ f.claim = None /\ f.json = disk[k].json /\ f.parked = disk[k].parked \cup {p}
        BY <2>2, <2>3, <3>1 DEF Files, Content
    <3> QED
        BY <2>3, <2>6, <3>2 DEF Settled
  <2>10. CASE drain.pc = "release" /\ disk[k].json \in {None, p}
    <3>1. f = [disk[k] EXCEPT !.json = disk[k].claim, !.claim = None]
        BY <2>1, <2>3, <2>4, <2>10 DEF EndedFiles
    <3>2. f \in Files /\ f.claim = None /\ f.json = p /\ f.parked = disk[k].parked
        BY <2>2, <2>3, <3>1 DEF Files, Content
    <3> QED
        BY <2>3, <2>6, <3>2 DEF Settled
  <2>11. CASE drain.pc = "release" /\ disk[k].json \notin {None, p}
    <3>1. f = disk[k]
        BY <2>1, <2>3, <2>4, <2>11 DEF EndedFiles
    <3> QED
        BY <2>7, <3>1
  <2> QED
      BY <1>6, <2>8, <2>9, <2>10, <2>11 DEF DrainFinish
<1>7. CASE DrainEnqueue \/ DrainConflict \/ DrainEnqueueFails
    BY <1>3, <1>7 DEF DrainEnqueue, DrainConflict, DrainEnqueueFails, files
<1> QED
    BY <1>4, <1>5, <1>6, <1>7 DEF Drain

LEMMA DrainBounded ==
    ASSUME IInv, BoundInv, Drain PROVE BoundInv'
<1>1. junk \in Nat /\ junk' = junk /\ app' = app
    BY DEF IInv, StoreInv, DirInv, Drain, DrainList, DrainListFails, DrainClaim, DrainClaimFails,
           DrainEnqueue, DrainConflict, DrainEnqueueFails, DrainFinish, files
<1>2. \A c, d \in Appending' : c = d
    BY <1>1 DEF BoundInv, Appending
<1> QED
    BY <1>1, <1>2, DrainNotMore, BoundStep

\* The temporary file of a daemon that dies takes the room its record was to have.
LEMMA DeathBounded ==
    ASSUME IInv, BoundInv, DaemonDies PROVE BoundInv'
<1>1. /\ junk \in Nat /\ disk' = disk /\ MaxFiles \in Nat
      /\ junk' = junk \/ ((\E c \in Captures : app["daemon"][c] = "write") /\ junk' = junk + 1)
    BY SpoolAssumption DEF IInv, StoreInv, DirInv, DaemonDies, JunkLeft
<1>2. Cardinality(Entries(disk)) \in Nat
    BY FS_CardinalityType DEF BoundInv
<1>3. SpoolFiles' <= MaxFiles
  <2>1. SpoolFiles' = Cardinality(Entries(disk)) + junk' /\ SpoolFiles = Cardinality(Entries(disk)) + junk
      BY <1>1 DEF SpoolFiles
  <2> QED
      BY <1>1, <1>2, <2>1 DEF BoundInv
<1>4. \A c \in Captures : app'["daemon"][c] = "none"
    BY DEF DaemonDies, IInv, ClientTyped, Writers
<1>5. Appending' = {} /\ \A c \in Captures : app'["daemon"][c] # "write"
    BY <1>4 DEF Appending, Busy
<1>6. IsFiniteSet(Entries(disk'))
    BY <1>1 DEF BoundInv
<1> QED
    BY <1>3, <1>5, <1>6 DEF BoundInv

LEMMA InitBounded == Init => BoundInv
<1> SUFFICES ASSUME Init PROVE BoundInv
    OBVIOUS
<1>1. Entries(disk) = {}
  <2> SUFFICES ASSUME NEW e \in Entries(disk) PROVE FALSE
      OBVIOUS
  <2>1. PICK k \in Keys, p \in Payloads : e \in {<<k, "json", p>>, <<k, "claim", p>>, <<k, "parked", p>>}
      BY EntryForm
  <2>2. /\ <<k, "json", p>> \in Entries(disk) <=> disk[k].json = p
        /\ <<k, "claim", p>> \in Entries(disk) <=> disk[k].claim = p
        /\ <<k, "parked", p>> \in Entries(disk) <=> p \in disk[k].parked
      BY EntryOf
  <2>3. disk[k] = NoFiles /\ p # None
      BY SpoolAssumption DEF Init
  <2> QED
      BY <2>1, <2>2, <2>3 DEF NoFiles
<1>2. IsFiniteSet(Entries(disk)) /\ SpoolFiles = 0
    BY <1>1, FS_EmptySet DEF SpoolFiles, Init
<1>3. \A c \in Captures : app["daemon"][c] = "none"
    BY DEF Init, Writers
<1>4. Appending = {} /\ \A c \in Captures : app["daemon"][c] # "write"
    BY <1>3 DEF Appending, Busy
<1> QED
    BY <1>2, <1>4, SpoolAssumption DEF BoundInv

LEMMA NextBounded == IInv /\ DaemonAlone /\ BoundInv /\ [Next]_vars => BoundInv'
<1> SUFFICES ASSUME IInv, DaemonAlone, BoundInv, [Next]_vars PROVE BoundInv'
    OBVIOUS
<1>1. ASSUME NEW w \in Writers, NEW c \in Captures, Append(w, c) PROVE BoundInv'
  <2>1. app["hook"][c] = "none"
      BY DEF IInv, IdInv, DaemonAlone
  <2>2. w = "daemon"
      BY <1>1, <2>1 DEF Writers, Append, AppendLook, AppendLookClaim, AppendPick, AppendRead, AppendWrite
  <2> QED
      BY <1>1, <2>2, LooksBounded, WriteBounded DEF Append
<1>2. CASE DaemonStart \/ Checkpoint \/ UNCHANGED vars
  <2>1. UNCHANGED <<disk, junk, app>> /\ junk \in Nat
      BY <1>2 DEF DaemonStart, Checkpoint, vars, files, IInv, StoreInv, DirInv
  <2> QED
      BY <2>1, BoundCalm
<1>3. ~PowerLoss
    BY DEF PowerLoss, DaemonAlone
<1> QED
    BY <1>1, <1>2, <1>3, ClientsBounded, StartBounded, DrainBounded, DeathBounded DEF Next

\* A spool that only the daemon writes to keeps its limit, for any number of
\* captures, keys and files: the room an append was promised under append_lock is
\* still there when it writes, whatever the drain moves meanwhile, and a temporary
\* file that a dying daemon leaves takes that room (append, spool_bytes).
THEOREM SpoolKeepsLimit == DaemonAlone => (Spec => []SpoolBounded)
<1> SUFFICES ASSUME DaemonAlone PROVE Spec => []SpoolBounded
    OBVIOUS
<1>1. IInv /\ BoundInv /\ [Next]_vars => BoundInv'
    BY NextBounded
<1>2. BoundInv => SpoolBounded
    BY DEF BoundInv, SpoolBounded
<1> QED
    BY <1>1, <1>2, InitBounded, SpoolInvariant, PTL DEF Spec
=============================================================================
