-------------------------- MODULE ProfileFilesProofs --------------------------
(***************************************************************************)
(* Proofs about the protocols of the profile's files, for any number of    *)
(* calls, sources, chunks, cards, processes and messages: the ingestion of *)
(* source files, the lifecycle of a knowledge card, the admission of       *)
(* database holders, the inbox of an agent and the reindex command.        *)
(***************************************************************************)
EXTENDS CoworkBus, DbAdmission, SourceIngest, KnowledgeCards, Reindex, FiniteSetTheorems, TLAPS

\* A set of natural numbers that is not empty has a least one.
LEMMA LeastNumber ==
    ASSUME NEW T, T \subseteq Nat, T # {} PROVE \E m \in T : \A n \in T : m <= n
<1>1. PICK m \in T : \A n \in T : ~(<<n, m>> \in OpToRel(<, Nat))
    BY NatLessThanWellFounded, WFMin
<1>2. \A n \in T : ~(n < m)
    BY <1>1 DEF OpToRel
<1> QED
    BY <1>2

----------------------------------------------------------------------------
\* Ingestion of source files.

Checking == {"check", "resolve", "exists"}
Working == {"locked", "check", "resolve", "exists", "store", "vector"}
CallState ==
    [pc : {"idle", "read", "done", "failed"} \cup Working, mode : {"add", "replace", "supersede"},
     read : SUBSET Chunks, todo : SUBSET Chunks, plan : SUBSET Ids, kept : BOOLEAN, cand : Ids \cup {Nobody},
     now : Ids \cup {Nobody}, target : Ids \cup {Nobody}, lost : SUBSET Chunks]

IngestTyped ==
    /\ disk \in [Sources -> SUBSET Chunks]
    /\ rows \subseteq [id : Ids, src : Sources, active : BOOLEAN, by : Ingests]
    /\ vectors \subseteq Ids /\ cut \subseteq Ids
    /\ held \in [Sources -> Ingests \cup {Nobody}]
    /\ ingest \in [Ingests -> CallState]

\* The ids are unique, and a drawer belongs to the source of the call that inserted it.
RowInv ==
    /\ \A r, q \in rows : r.id = q.id => r = q
    /\ \A r \in rows : r.src = SourceOf[r.by] /\ At(r.by) \in {"store", "vector", "done", "failed"}

\* The lock of a source belongs to the call at work on it.
LockInv ==
    /\ \A s \in Sources : held[s] # Nobody => SourceOf[held[s]] = s /\ At(held[s]) \in Working
    /\ \A c \in Ingests : At(c) \in Working => held[SourceOf[c]] = c

\* Once a replacing call has deleted the old drawers, its own are the only ones
\* of replacing calls.
VersionInv ==
    \A c \in Ingests, r \in ActiveRows :
        /\ At(c) \in Checking \cup {"store", "vector"} /\ ingest[c].mode = "replace"
        /\ r.src = SourceOf[c] /\ ingest[r.by].mode = "replace"
        => r.by = c

\* Where a call stands tells what it has read, planned and in hand.
StageInv(c) ==
    /\ ingest[c].todo \subseteq ingest[c].read
    /\ \A i \in ingest[c].plan : i[1] \in ingest[c].read
    /\ At(c) \in {"idle", "done", "failed"} => ingest[c].read = {}
    /\ At(c) \in {"idle", "read", "locked"} => ingest[c].target = Nobody
    /\ At(c) \in {"read", "locked"} => ingest[c].todo = ingest[c].read
    /\ At(c) \notin Checking \cup {"store", "vector"} => ingest[c].plan = {}
    /\ At(c) \notin Checking => ingest[c].todo = {} \/ At(c) \in {"read", "locked"}
    /\ At(c) \in {"resolve", "exists"} <=> ingest[c].cand # Nobody
    /\ ingest[c].cand # Nobody => ingest[c].cand[1] \in ingest[c].todo
    /\ At(c) = "vector" <=> ingest[c].now # Nobody

\* What a call has read and nobody took away is still to be looked at, planned, or
\* stored in a drawer that it does not supersede itself.
SupersedeInv(c) ==
    ingest[c].target # Nobody /\ ingest[c].target[1] \in ingest[c].read \ ingest[c].lost
        => ingest[c].target \in InUse
Chosen(c) == ingest[c].plan \cup (IF At(c) = "exists" THEN {ingest[c].cand} ELSE {})
PlanInv(c) ==
    \A i \in Chosen(c) : i[1] \notin ingest[c].lost =>
        i # ingest[c].target /\ \A r \in rows : r.id = i => r.active
Settles(c, x) ==
    \/ x \in ingest[c].todo
    \/ \E i \in ingest[c].plan : i[1] = x
    \/ \E r \in ActiveRows : r.id[1] = x /\ r.id # ingest[c].target
ReadInv(c) == \A x \in ingest[c].read \ ingest[c].lost : Settles(c, x)

CallInv(c) == StageInv(c) /\ SupersedeInv(c) /\ PlanInv(c) /\ ReadInv(c)

IngestInv ==
    /\ IngestTyped /\ RowInv /\ LockInv /\ VersionInv /\ VersionsNeverMix /\ Searchable
    /\ \A c \in Ingests : CallInv(c)

\* What a step of c does to the drawers: it adds a planned one, and it removes or
\* deactivates some with contents in X.
RowChange(c, X) ==
    /\ rows' \subseteq [id : Ids, src : Sources, active : BOOLEAN, by : Ingests]
    /\ \A r, q \in rows' : r.id = q.id => r = q
    /\ \A r \in rows : r \in rows' \/ (r.active /\ r.id[1] \in X)
    /\ \A q \in rows' :
          \/ q \in rows
          \/ /\ q.active /\ q.by = c /\ q.src = SourceOf[c] /\ At(c) = "store"
             /\ q.id \in ingest[c].plan \ InUse
          \/ /\ ~q.active /\ q.id[1] \in X /\ q.id = ingest[c].target
             /\ \E r \in rows : r.active /\ r.id = q.id /\ r.by = q.by /\ r.src = q.src

\* Call d does not move; it learns what it lost.
Stays(d, X) ==
    /\ ingest'[d].pc = ingest[d].pc /\ ingest'[d].mode = ingest[d].mode
    /\ ingest'[d].read = ingest[d].read /\ ingest'[d].todo = ingest[d].todo
    /\ ingest'[d].plan = ingest[d].plan /\ ingest'[d].cand = ingest[d].cand /\ ingest'[d].now = ingest[d].now
    /\ ingest'[d].target = ingest[d].target
    /\ ingest'[d].lost = ingest[d].lost \cup (X \cap ingest[d].read)

LEMMA BecomesFacts ==
    ASSUME IngestTyped, NEW c \in Ingests, NEW v \in CallState, NEW X, Becomes(c, v, X)
    PROVE  /\ ingest' \in [Ingests -> CallState] /\ ingest'[c] = v
           /\ \A d \in Ingests \ {c} : Stays(d, X)
<1>1. ASSUME NEW d \in Ingests, d # c
      PROVE  /\ [ingest[d] EXCEPT !.lost = @ \cup (X \cap ingest[d].read)] \in CallState
             /\ ingest'[d] = [ingest[d] EXCEPT !.lost = @ \cup (X \cap ingest[d].read)]
             /\ Stays(d, X)
  <2>1. ingest[d] \in CallState
      BY DEF IngestTyped
  <2>2. ingest'[d] = [ingest[d] EXCEPT !.lost = @ \cup (X \cap ingest[d].read)]
      BY <1>1 DEF Becomes
  <2> QED
      BY <2>1, <2>2 DEF CallState, Stays
<1>2. ingest'[c] = v
    BY DEF Becomes
<1>3. ingest' = [d \in Ingests |-> ingest'[d]]
    BY DEF Becomes
<1> QED
    BY <1>1, <1>2, <1>3

\* A call that does not move keeps its invariant.
LEMMA StayingCall ==
    ASSUME IngestInv, NEW c \in Ingests, NEW d \in Ingests \ {c}, NEW X, RowChange(c, X), Stays(d, X)
    PROVE  CallInv(d)'
<1>0. StageInv(d) /\ SupersedeInv(d) /\ PlanInv(d) /\ ReadInv(d)
    BY DEF IngestInv, CallInv
<1>1. StageInv(d)'
    BY <1>0 DEF StageInv, Stays, At
<1>3. SupersedeInv(d)'
    BY <1>0 DEF SupersedeInv, Stays, RowChange, InUse
<1>4. PlanInv(d)'
  <2> SUFFICES ASSUME NEW i \in Chosen(d), i[1] \notin ingest'[d].lost
               PROVE  i # ingest[d].target /\ \A r \in rows' : r.id = i => r.active
    <3>1. Chosen(d)' = Chosen(d)
        BY DEF Chosen, Stays, At
    <3> QED
        BY <3>1 DEF PlanInv, Stays
  <2>1. i[1] \notin X /\ i[1] \notin ingest[d].lost
      BY <1>0 DEF StageInv, Stays, Chosen
  <2> QED
      BY <1>0, <2>1 DEF PlanInv, RowChange
<1>5. ReadInv(d)'
  <2> SUFFICES ASSUME NEW x \in ingest[d].read, x \notin ingest'[d].lost PROVE Settles(d, x)'
      BY DEF ReadInv, Stays
  <2>1. x \notin X /\ Settles(d, x)
      BY <1>0 DEF ReadInv, Stays
  <2> QED
      BY <2>1 DEF Settles, Stays, RowChange, ActiveRows
<1> QED
    BY <1>1, <1>3, <1>4, <1>5 DEF CallInv

\* What c becomes fits what it was.
Follows(c, v) ==
    /\ v.target = ingest[c].target \/ ingest[c].target = Nobody
    /\ v.mode = ingest[c].mode \/ At(c) = "idle"
    /\ At(c) \in {"store", "vector", "done", "failed"} => v.pc \in {"store", "vector", "done", "failed"}
    /\ v.pc \in Checking \cup {"store", "vector"} /\ v.mode = "replace" =>
          \/ At(c) \in Checking \cup {"store", "vector"}
          \/ \A r \in rows' : r.active => r.src # SourceOf[c]

\* One call moves: what is left to show is about the locks, the vectors and itself.
LEMMA CallMoves ==
    ASSUME IngestInv, NEW c \in Ingests, NEW v \in CallState, NEW X, Becomes(c, v, X), RowChange(c, X),
           Follows(c, v), disk' \in [Sources -> SUBSET Chunks], vectors' \subseteq Ids, cut' \subseteq Ids,
           held' \in [Sources -> Ingests \cup {Nobody}], LockInv', Searchable', CallInv(c)'
    PROVE  IngestInv'
<1>1. /\ ingest' \in [Ingests -> CallState] /\ ingest'[c] = v
      /\ \A d \in Ingests \ {c} : Stays(d, X)
    BY BecomesFacts DEF IngestInv
<1>2. IngestTyped'
    BY <1>1 DEF IngestTyped, RowChange
<1>3. \A d \in Ingests : CallInv(d)'
    BY <1>1, StayingCall
<1>4. \A d \in Ingests : At(d) # "idle" => ingest'[d].mode = ingest[d].mode
    BY <1>1 DEF Stays, Follows
<1>5. \A r \in rows : r.by \in Ingests /\ r.src = SourceOf[r.by] /\ At(r.by) \in {"store", "vector", "done", "failed"}
    BY DEF IngestInv, RowInv, IngestTyped
<1>6. RowInv'
  <2>1. \A d \in Ingests : At(d) \in {"store", "vector", "done", "failed"}
                              => ingest'[d].pc \in {"store", "vector", "done", "failed"}
      BY <1>1 DEF Stays, Follows, At
  <2>2. ASSUME NEW q \in rows' PROVE q.src = SourceOf[q.by] /\ q.by \in Ingests /\ At(q.by) \in {"store", "vector", "done", "failed"}
      BY <1>5 DEF RowChange
  <2> QED
      BY <2>1, <2>2 DEF RowInv, RowChange, At
<1>7. VersionInv'
  <2> SUFFICES ASSUME NEW d \in Ingests, NEW r \in rows', r.active, r.src = SourceOf[d],
                      ingest'[d].pc \in Checking \cup {"store", "vector"}, ingest'[d].mode = "replace",
                      ingest'[r.by].mode = "replace"
               PROVE  r.by = d
      BY DEF VersionInv, ActiveRows, At
  <2>1. CASE r \in rows
    <3>1. ingest[r.by].mode = "replace" /\ r.by \in Ingests
        BY <1>4, <1>5, <2>1
    <3>2. CASE At(d) \in Checking \cup {"store", "vector"}
      <4>1. ingest[d].mode = "replace"
          BY <1>4, <3>2 DEF Checking
      <4> QED
          BY <2>1, <3>1, <3>2, <4>1 DEF IngestInv, VersionInv, ActiveRows
    <3>3. CASE At(d) \notin Checking \cup {"store", "vector"}
      <4>1. d = c
          BY <1>1, <3>3 DEF Stays, At
      <4> QED
          BY <1>1, <3>3, <4>1 DEF Follows
    <3> QED
        BY <3>2, <3>3
  <2>2. CASE r \notin rows
    <3>1. r.by = c /\ r.src = SourceOf[c] /\ At(c) = "store"
        BY <2>2 DEF RowChange
    <3>2. CASE d # c
      <4>1. At(d) \in Working /\ At(c) \in Working
          BY <1>1, <3>1, <3>2 DEF Stays, At, Working, Checking
      <4>2. held[SourceOf[d]] = d /\ held[SourceOf[c]] = c
          BY <4>1 DEF IngestInv, LockInv
      <4>3. SourceOf[d] = SourceOf[c]
          BY <3>1
      <4> QED
          BY <3>2, <4>2, <4>3
    <3> QED
        BY <3>1, <3>2
  <2> QED
      BY <2>1, <2>2
<1>9. VersionsNeverMix'
  <2>1. ASSUME NEW r \in rows', r.active, ingest'[r.by].mode = "replace"
        PROVE  r.by \in Ingests /\ (r \in rows \/ r.by = c) /\ ingest[r.by].mode = "replace"
      BY <1>1, <1>4, <1>5, <2>1 DEF RowChange, Follows
  <2>2. ASSUME NEW r \in rows', NEW q \in rows', r.active, q.active, r.src = q.src, r.by = c, q.by # c,
               ingest'[r.by].mode = "replace", ingest'[q.by].mode = "replace"
        PROVE  FALSE
    <3>1. q \in rows /\ ingest[q.by].mode = "replace" /\ ingest[c].mode = "replace"
        BY <2>1, <2>2
    <3>2. CASE r \in rows
        BY <2>2, <3>1, <3>2 DEF IngestInv, VersionsNeverMix, ActiveRows
    <3>3. CASE r \notin rows
      <4>1. At(c) = "store" /\ r.src = SourceOf[c]
          BY <2>2, <3>3 DEF RowChange
      <4> QED
          BY <2>2, <3>1, <4>1 DEF IngestInv, VersionInv, ActiveRows
    <3> QED
        BY <3>2, <3>3
  <2>3. ASSUME NEW r \in rows', NEW q \in rows', r.active, q.active, r.src = q.src, r.by # c, q.by # c,
               ingest'[r.by].mode = "replace", ingest'[q.by].mode = "replace"
        PROVE  r.by = q.by
    <3>1. r \in rows /\ q \in rows /\ ingest[q.by].mode = "replace" /\ ingest[r.by].mode = "replace"
        BY <2>1, <2>3
    <3> QED
        BY <2>3, <3>1 DEF IngestInv, VersionsNeverMix, ActiveRows
  <2> QED
      BY <2>2, <2>3 DEF VersionsNeverMix, ActiveRows
<1> QED
    BY <1>2, <1>3, <1>6, <1>7, <1>9 DEF IngestInv

----------------------------------------------------------------------------
\* The parts of an ingestion step.

LEMMA QuietRows ==
    ASSUME IngestInv, NEW c \in Ingests, rows' = rows PROVE RowChange(c, {})
BY DEF IngestInv, IngestTyped, RowInv, RowChange

LEMMA LockStays ==
    ASSUME IngestInv, NEW c \in Ingests, NEW v \in CallState, NEW X, Becomes(c, v, X), held' = held,
           At(c) \in Working <=> v.pc \in Working
    PROVE  LockInv' /\ held' \in [Sources -> Ingests \cup {Nobody}]
<1>1. ingest'[c] = v /\ \A d \in Ingests \ {c} : Stays(d, X)
    BY BecomesFacts DEF IngestInv
<1>2. \A d \in Ingests : At(d)' \in Working <=> At(d) \in Working
    BY <1>1 DEF Stays, At
<1> QED
    BY <1>2 DEF IngestInv, LockInv, IngestTyped

LEMMA LockGoes ==
    ASSUME IngestInv, NEW c \in Ingests, NEW v \in CallState, NEW X, Becomes(c, v, X), Unlocked(c),
           v.pc \notin Working
    PROVE  LockInv' /\ held' \in [Sources -> Ingests \cup {Nobody}]
<1>1. ingest'[c] = v /\ \A d \in Ingests \ {c} : Stays(d, X)
    BY BecomesFacts DEF IngestInv
<1>2. \A d \in Ingests \ {c} : At(d)' = At(d)
    BY <1>1 DEF Stays, At
<1>3. At(c)' \notin Working
    BY <1>1 DEF At
<1>4. /\ held' \in [Sources -> Ingests \cup {Nobody}]
      /\ \A s \in Sources : held'[s] = IF held[s] = c THEN Nobody ELSE held[s]
    BY DEF Unlocked, IngestInv, IngestTyped
<1>5. \A s \in Sources : held'[s] # Nobody => SourceOf[held'[s]] = s /\ ingest'[held'[s]].pc \in Working
  <2> SUFFICES ASSUME NEW s \in Sources, held'[s] # Nobody
               PROVE  SourceOf[held'[s]] = s /\ ingest'[held'[s]].pc \in Working
      OBVIOUS
  <2>1. held'[s] = held[s] /\ held[s] \in Ingests \ {c}
      BY <1>4
  <2> QED
      BY <1>1, <2>1 DEF IngestInv, LockInv, Stays, At
<1>6. \A d \in Ingests : At(d)' \in Working => held'[SourceOf[d]] = d
    BY <1>2, <1>3, <1>4, IngestAssumption DEF IngestInv, LockInv
<1> QED
    BY <1>4, <1>5, <1>6 DEF LockInv, At

LEMMA SearchStays ==
    ASSUME IngestInv, NEW c \in Ingests, NEW v \in CallState, NEW X, Becomes(c, v, X), RowChange(c, X),
           vectors \subseteq vectors', cut \subseteq cut',
           ingest[c].now \in vectors' \cup cut' \cup {v.now, Nobody},
           \A q \in rows' : q.active /\ q \notin rows => q.id = v.now
    PROVE  Searchable'
<1>1. ingest'[c] = v /\ \A d \in Ingests \ {c} : Stays(d, X)
    BY BecomesFacts DEF IngestInv
<1> SUFFICES ASSUME NEW q \in rows', q.active
             PROVE  q.id \in vectors' \cup cut' \cup {ingest'[d].now : d \in Ingests}
    BY DEF Searchable, ActiveRows
<1>2. CASE q \in rows
  <2>1. q.id # Nobody
      BY NobodyAssumption DEF RowChange
  <2>2. q.id \in vectors \cup cut \/ \E d \in Ingests : q.id = ingest[d].now
      BY <1>2 DEF IngestInv, Searchable, ActiveRows
  <2> QED
      BY <1>1, <2>1, <2>2 DEF Stays
<1>3. CASE q \notin rows
    BY <1>1, <1>3
<1> QED
    BY <1>2, <1>3

\* The call goes on with what it has.
Same(c, v) ==
    /\ v.mode = ingest[c].mode /\ v.read = ingest[c].read /\ v.todo = ingest[c].todo
    /\ v.plan = ingest[c].plan /\ v.target = ingest[c].target /\ v.lost = ingest[c].lost
    /\ v.cand = ingest[c].cand /\ (v.pc = "exists" => At(c) = "exists")

LEMMA SameCall ==
    ASSUME IngestInv, NEW c \in Ingests, NEW v \in CallState, NEW X, Becomes(c, v, X), rows' = rows, Same(c, v),
           StageInv(c)'
    PROVE  CallInv(c)'
<1>1. ingest'[c] = v
    BY BecomesFacts DEF IngestInv
<1>2. SupersedeInv(c) /\ PlanInv(c) /\ ReadInv(c)
    BY DEF IngestInv, CallInv
<1>3. Chosen(c)' \subseteq Chosen(c)
    BY <1>1 DEF Chosen, Same, At
<1>4. SupersedeInv(c)' /\ PlanInv(c)'
    BY <1>1, <1>2, <1>3 DEF SupersedeInv, PlanInv, Same, InUse
<1>5. ReadInv(c)'
    BY <1>1, <1>2 DEF ReadInv, Settles, Same, ActiveRows
<1> QED
    BY <1>4, <1>5 DEF CallInv

\* The call is over.
Ended(c, v) ==
    /\ v.mode = ingest[c].mode /\ v.target = ingest[c].target /\ v.pc \in {"done", "failed"}
    /\ v.read = {} /\ v.todo = {} /\ v.plan = {} /\ v.cand = Nobody /\ v.now = Nobody

LEMMA OverEnds ==
    ASSUME IngestInv, NEW c \in Ingests, NEW p \in {"done", "failed"}
    PROVE  Over(c, p) \in CallState /\ Ended(c, Over(c, p)) /\ Over(c, p).pc = p
<1>1. ingest[c].mode \in {"add", "replace", "supersede"} /\ ingest[c].target \in Ids \cup {Nobody}
    BY DEF IngestInv, IngestTyped, CallState
<1>2. /\ Fresh \in CallState /\ Fresh.read = {} /\ Fresh.todo = {} /\ Fresh.plan = {} /\ Fresh.now = Nobody
      /\ Fresh.cand = Nobody
    BY DEF Fresh, CallState
<1>3. /\ Over(c, p) \in CallState /\ Over(c, p).pc = p
      /\ Over(c, p).mode = ingest[c].mode /\ Over(c, p).target = ingest[c].target
      /\ Over(c, p).read = Fresh.read /\ Over(c, p).todo = Fresh.todo
      /\ Over(c, p).plan = Fresh.plan /\ Over(c, p).now = Fresh.now /\ Over(c, p).cand = Fresh.cand
    BY <1>1, <1>2 DEF Over, CallState
<1> QED
    BY <1>2, <1>3 DEF Ended

LEMMA EndedCall ==
    ASSUME IngestInv, NEW c \in Ingests, NEW v \in CallState, NEW X, Becomes(c, v, X), RowChange(c, X), Ended(c, v),
           \A q \in rows' : q.active => q \in rows
    PROVE  CallInv(c)' /\ Follows(c, v)
<1>1. ingest'[c] = v
    BY BecomesFacts DEF IngestInv
<1>2. StageInv(c)'
    BY <1>1 DEF StageInv, Ended, At, Checking
<1>3. SupersedeInv(c)' /\ PlanInv(c)' /\ ReadInv(c)'
    BY <1>1 DEF SupersedeInv, PlanInv, Chosen, ReadInv, Ended, At
<1>4. Follows(c, v)
    BY DEF Follows, Ended, Checking
<1> QED
    BY <1>2, <1>3, <1>4 DEF CallInv

----------------------------------------------------------------------------
\* The steps of an ingestion.

LEMMA EditKeeps ==
    ASSUME IngestInv, disk' \in [Sources -> SUBSET Chunks], UNCHANGED <<rows, vectors, cut, held, ingest>>
    PROVE  IngestInv'
<1>1. IngestTyped' /\ RowInv' /\ LockInv' /\ VersionInv'
    BY DEF IngestInv, IngestTyped, RowInv, LockInv, VersionInv, ActiveRows, At
<1>2. Searchable' /\ VersionsNeverMix'
    BY ZenonT(60) DEF IngestInv, Searchable, VersionsNeverMix, ActiveRows
<1>3. \A c \in Ingests : CallInv(c)'
    BY DEF IngestInv, CallInv, StageInv, SupersedeInv, PlanInv, Chosen, ReadInv, Settles, InUse, ActiveRows, At
<1> QED
    BY <1>1, <1>2, <1>3 DEF IngestInv

\* A step that goes on with what the call has and leaves the tables alone.
LEMMA SteadyStep ==
    ASSUME IngestInv, NEW c \in Ingests, NEW v \in CallState, Becomes(c, v, {}), Same(c, v),
           UNCHANGED <<disk, rows, cut>>, vectors' \subseteq Ids, vectors \subseteq vectors',
           held' \in [Sources -> Ingests \cup {Nobody}], LockInv', StageInv(c)',
           ingest[c].now \in vectors' \cup {v.now, Nobody},
           At(c) \in {"store", "vector", "done", "failed"} => v.pc \in {"store", "vector", "done", "failed"},
           v.pc \in Checking \cup {"store", "vector"} /\ v.mode = "replace" => At(c) \in Checking \cup {"store", "vector"}
    PROVE  IngestInv'
<1>1. PICK X : X = {}
    OBVIOUS
<1>2. RowChange(c, X) /\ Becomes(c, v, X)
    BY <1>1, QuietRows
<1>3. CallInv(c)'
    BY <1>2, SameCall
<1>4. Searchable'
    BY <1>2, SearchStays
<1>5. Follows(c, v)
    BY DEF Follows, Same
<1>6. disk' \in [Sources -> SUBSET Chunks] /\ cut' \subseteq Ids
    BY DEF IngestInv, IngestTyped
<1> QED
    BY <1>2, <1>3, <1>4, <1>5, <1>6, CallMoves

\* A call that moves on to pc.
LEMMA Onward ==
    ASSUME IngestInv, NEW c \in Ingests, NEW p \in {"idle", "read", "done", "failed"} \cup Working, p # "exists"
    PROVE  /\ [ingest[c] EXCEPT !.pc = p] \in CallState /\ Same(c, [ingest[c] EXCEPT !.pc = p])
           /\ [ingest[c] EXCEPT !.pc = p].pc = p /\ [ingest[c] EXCEPT !.pc = p].now = ingest[c].now
           /\ ingest[c] \in CallState
BY DEF IngestInv, IngestTyped, CallState, Same

LEMMA TakeLockKeeps ==
    ASSUME IngestInv, NEW c \in Ingests, TakeLock(c) PROVE IngestInv'
<1>1. PICK v \in CallState : Becomes(c, v, {}) /\ Same(c, v) /\ v.pc = "locked" /\ v.now = ingest[c].now
    BY Onward DEF TakeLock, Goto, Working
<1>2. /\ UNCHANGED <<disk, rows, vectors, cut>> /\ At(c) = "read" /\ held[SourceOf[c]] = Nobody
      /\ held' = [held EXCEPT ![SourceOf[c]] = c] /\ StageInv(c)
    BY DEF TakeLock, store, IngestInv, CallInv
<1>3. ingest'[c] = v /\ \A d \in Ingests \ {c} : Stays(d, {})
    BY <1>1, BecomesFacts DEF IngestInv
<1>4. /\ held' \in [Sources -> Ingests \cup {Nobody}] /\ held'[SourceOf[c]] = c
      /\ \A s \in Sources \ {SourceOf[c]} : held'[s] = held[s]
    BY <1>2, IngestAssumption DEF IngestInv, IngestTyped
<1>5. LockInv'
  <2>1. ASSUME NEW s \in Sources, held'[s] # Nobody PROVE SourceOf[held'[s]] = s /\ ingest'[held'[s]].pc \in Working
    <3>1. CASE s = SourceOf[c]
        BY <1>1, <1>3, <1>4, <3>1 DEF Working
    <3>2. CASE s # SourceOf[c]
      <4>1. held'[s] = held[s] /\ held[s] \in Ingests /\ SourceOf[held[s]] = s /\ At(held[s]) \in Working
          BY <1>4, <2>1, <3>2 DEF IngestInv, LockInv, IngestTyped
      <4>2. held[s] # c
          BY <3>2, <4>1
      <4> QED
          BY <1>3, <4>1, <4>2 DEF Stays, At
    <3> QED
        BY <3>1, <3>2
  <2>2. ASSUME NEW d \in Ingests, ingest'[d].pc \in Working PROVE held'[SourceOf[d]] = d
    <3>1. CASE d = c
        BY <1>4, <3>1
    <3>2. CASE d # c
      <4>1. held[SourceOf[d]] = d /\ SourceOf[d] \in Sources
          BY <1>3, <2>2, <3>2, IngestAssumption DEF Stays, At, IngestInv, LockInv
      <4>2. SourceOf[d] # SourceOf[c]
          BY <1>2, <4>1, IngestAssumption
      <4> QED
          BY <1>4, <4>1, <4>2
    <3> QED
        BY <3>1, <3>2
  <2> QED
      BY <2>1, <2>2 DEF LockInv, At
<1>6. StageInv(c)'
    BY <1>1, <1>2, <1>3 DEF StageInv, Same, At, Checking
<1>7. vectors' \subseteq Ids /\ vectors \subseteq vectors' /\ ingest[c].now \in vectors' \cup {v.now, Nobody}
    BY <1>1, <1>2 DEF IngestInv, IngestTyped
<1> QED
    BY <1>1, <1>2, <1>4, <1>5, <1>6, <1>7, SteadyStep DEF Checking

LEMMA OnwardKeeps ==
    ASSUME IngestInv, NEW c \in Ingests, NothingToReplace(c) \/ Embed(c) PROVE IngestInv'
<1>1. PICK v \in CallState : /\ Becomes(c, v, {}) /\ Same(c, v) /\ v.now = ingest[c].now
                             /\ \/ At(c) = "locked" /\ v.pc = "check" /\ v.mode = "add"
                                \/ At(c) = "check" /\ v.pc = "store" /\ ingest[c].todo = {}
  <2>1. CASE NothingToReplace(c)
    <3>1. PICK v : v = [ingest[c] EXCEPT !.pc = "check"]
        OBVIOUS
    <3>2. v \in CallState /\ Same(c, v) /\ v.pc = "check" /\ v.now = ingest[c].now
        BY <3>1, Onward DEF Working
    <3>3. Becomes(c, v, {}) /\ At(c) = "locked" /\ v.mode = "add"
        BY <2>1, <3>1, <3>2 DEF NothingToReplace, Goto, Same
    <3> QED
        BY <3>2, <3>3
  <2>2. CASE Embed(c)
      BY <2>2, Onward DEF Embed, Goto, Working
  <2> QED
      BY <2>1, <2>2
<1>2. UNCHANGED <<disk, rows, vectors, cut, held>> /\ StageInv(c)
    BY DEF NothingToReplace, Embed, store, IngestInv, CallInv
<1>3. ingest'[c] = v
    BY <1>1, BecomesFacts DEF IngestInv
<1>4. StageInv(c)'
    BY <1>1, <1>2, <1>3 DEF StageInv, Same, At, Checking
<1>5. LockInv' /\ held' \in [Sources -> Ingests \cup {Nobody}]
    BY <1>1, <1>2, LockStays DEF Working, Checking
<1>6. vectors' \subseteq Ids /\ vectors \subseteq vectors' /\ ingest[c].now \in vectors' \cup {v.now, Nobody}
    BY <1>1, <1>2 DEF IngestInv, IngestTyped
<1> QED
    BY <1>1, <1>2, <1>4, <1>5, <1>6, SteadyStep DEF Checking

LEMMA InsertVectorKeeps ==
    ASSUME IngestInv, NEW c \in Ingests, InsertVector(c) PROVE IngestInv'
<1>1. PICK v \in CallState : Becomes(c, v, {}) /\ Same(c, v) /\ v.pc = "store" /\ v.now = Nobody
  <2>1. ingest[c] \in CallState
      BY DEF IngestInv, IngestTyped
  <2>2. PICK v : v = [ingest[c] EXCEPT !.pc = "store", !.kept = TRUE, !.now = Nobody]
      OBVIOUS
  <2>3. v \in CallState /\ Same(c, v) /\ v.pc = "store" /\ v.now = Nobody
      BY <2>1, <2>2 DEF CallState, Working, Same
  <2> QED
      BY <2>2, <2>3 DEF InsertVector
<1>2. UNCHANGED <<disk, rows, cut, held>> /\ StageInv(c) /\ At(c) = "vector" /\ vectors' = vectors \cup {ingest[c].now}
    BY DEF InsertVector, IngestInv, CallInv
<1>3. ingest'[c] = v
    BY <1>1, BecomesFacts DEF IngestInv
<1>4. StageInv(c)'
    BY <1>1, <1>2, <1>3 DEF StageInv, Same, At, Checking
<1>5. LockInv' /\ held' \in [Sources -> Ingests \cup {Nobody}]
    BY <1>1, <1>2, LockStays DEF Working, Checking
<1>6. vectors' \subseteq Ids /\ vectors \subseteq vectors' /\ ingest[c].now \in vectors' \cup {v.now, Nobody}
  <2>1. ingest[c].now \in Ids /\ vectors \subseteq Ids
      BY <1>2 DEF IngestInv, IngestTyped, CallState, StageInv
  <2> QED
      BY <1>2, <2>1
<1> QED
    BY <1>1, <1>2, <1>4, <1>5, <1>6, SteadyStep DEF Checking

LEMMA ReadFileKeeps ==
    ASSUME IngestInv, NEW c \in Ingests, ReadFile(c) PROVE IngestInv'
<1>0. PICK mode \in ModesOf[c] :
          Becomes(c, [Fresh EXCEPT !.pc = "read", !.mode = mode, !.read = disk[SourceOf[c]],
                                   !.todo = disk[SourceOf[c]]], {})
    BY DEF ReadFile
<1>1. PICK v : /\ v = [Fresh EXCEPT !.pc = "read", !.mode = mode, !.read = disk[SourceOf[c]], !.todo = disk[SourceOf[c]]]
               /\ Becomes(c, v, {})
    BY <1>0
<1>2. /\ v \in CallState /\ v.pc = "read" /\ v.read = v.todo /\ v.plan = {} /\ v.now = Nobody
      /\ v.target = Nobody /\ v.lost = {} /\ v.cand = Nobody
  <2>1. mode \in {"add", "replace", "supersede"} /\ disk[SourceOf[c]] \in SUBSET Chunks
      BY IngestAssumption DEF IngestInv, IngestTyped
  <2>2. Fresh \in CallState /\ Fresh.plan = {} /\ Fresh.now = Nobody /\ Fresh.target = Nobody /\ Fresh.lost = {}
        /\ Fresh.cand = Nobody
      BY DEF Fresh, CallState
  <2>3. /\ v \in CallState /\ v.pc = "read" /\ v.read = v.todo /\ v.plan = Fresh.plan /\ v.now = Fresh.now
        /\ v.target = Fresh.target /\ v.lost = Fresh.lost /\ v.cand = Fresh.cand
      BY <1>1, <2>1, <2>2 DEF CallState
  <2> QED
      BY <2>2, <2>3
<1>3. UNCHANGED <<disk, rows, vectors, cut, held>> /\ At(c) = "idle" /\ StageInv(c)
    BY DEF ReadFile, store, IngestInv, CallInv
<1>4. PICK X : X = {}
    OBVIOUS
<1>5. RowChange(c, X) /\ Becomes(c, v, X)
    BY <1>1, <1>3, <1>4, QuietRows
<1>6. ingest'[c] = v
    BY <1>2, <1>5, BecomesFacts DEF IngestInv
<1>7. CallInv(c)'
  <2>1. StageInv(c)'
      BY <1>2, <1>6 DEF StageInv, At, Checking
  <2>2. SupersedeInv(c)' /\ PlanInv(c)' /\ ReadInv(c)'
      BY <1>2, <1>6 DEF SupersedeInv, PlanInv, Chosen, ReadInv, Settles, At
  <2> QED
      BY <2>1, <2>2 DEF CallInv
<1>8. LockInv' /\ held' \in [Sources -> Ingests \cup {Nobody}]
    BY <1>2, <1>3, <1>5, LockStays DEF Working, Checking
<1>9. Searchable'
  <2>1. ingest[c].now = Nobody
      BY <1>3 DEF StageInv
  <2> QED
      BY <1>2, <1>3, <1>5, <2>1, SearchStays
<1>10. Follows(c, v)
    BY <1>2, <1>3 DEF Follows, StageInv, Checking
<1>11. disk' \in [Sources -> SUBSET Chunks] /\ vectors' \subseteq Ids /\ cut' \subseteq Ids
    BY <1>3 DEF IngestInv, IngestTyped
<1> QED
    BY <1>2, <1>5, <1>7, <1>8, <1>9, <1>10, <1>11, CallMoves

\* A call ends.
LEMMA EndStep ==
    ASSUME IngestInv, NEW c \in Ingests, NEW v \in CallState, NEW X, Becomes(c, v, X), RowChange(c, X), Ended(c, v),
           \A q \in rows' : q.active => q \in rows, UNCHANGED <<disk, vectors>>, cut \subseteq cut', cut' \subseteq Ids,
           ingest[c].now \in cut' \cup {Nobody}, held' \in [Sources -> Ingests \cup {Nobody}], LockInv'
    PROVE  IngestInv'
<1>1. CallInv(c)' /\ Follows(c, v)
    BY EndedCall
<1>2. Searchable'
    BY SearchStays
<1>3. disk' \in [Sources -> SUBSET Chunks] /\ vectors' \subseteq Ids
    BY DEF IngestInv, IngestTyped
<1> QED
    BY <1>1, <1>2, <1>3, CallMoves

LEMMA FailKeeps ==
    ASSUME IngestInv, NEW c \in Ingests, LockTimeout(c) \/ Fail(c) PROVE IngestInv'
<1>1. PICK X, v : X = {} /\ v = Over(c, "failed")
    OBVIOUS
<1>2. v \in CallState /\ Ended(c, v) /\ v.pc = "failed" /\ Becomes(c, v, X)
    BY <1>1, OverEnds DEF LockTimeout, Fail
<1>3. UNCHANGED <<disk, rows, vectors>> /\ StageInv(c) /\ RowChange(c, X)
    BY <1>1, QuietRows DEF LockTimeout, Fail, store, IngestInv, CallInv
<1>4. LockInv' /\ held' \in [Sources -> Ingests \cup {Nobody}]
  <2>1. CASE LockTimeout(c)
    <3>1. held' = held /\ At(c) \notin Working /\ v.pc \notin Working
        BY <1>2, <2>1 DEF LockTimeout, Working
    <3> QED
        BY <1>2, <3>1, LockStays
  <2>2. CASE Fail(c)
    <3>1. Unlocked(c) /\ v.pc \notin Working
        BY <1>2, <2>2 DEF Fail, Working
    <3> QED
        BY <1>2, <3>1, LockGoes
  <2> QED
      BY <2>1, <2>2
<1>5. cut \subseteq cut' /\ cut' \subseteq Ids /\ ingest[c].now \in cut' \cup {Nobody}
  <2>1. cut \subseteq Ids /\ ingest[c].now \in Ids \cup {Nobody} /\ (At(c) = "vector" <=> ingest[c].now # Nobody)
      BY <1>3 DEF IngestInv, IngestTyped, CallState, StageInv
  <2>2. cut' = IF At(c) = "vector" THEN cut \cup {ingest[c].now} ELSE cut
      BY DEF LockTimeout, Fail, store
  <2> QED
      BY <2>1, <2>2
<1>6. \A q \in rows' : q.active => q \in rows
    BY <1>3
<1> QED
    BY <1>2, <1>3, <1>4, <1>5, <1>6, EndStep

LEMMA FinishKeeps ==
    ASSUME IngestInv, NEW c \in Ingests, Finish(c) PROVE IngestInv'
<1> DEFINE Old == {r \in ActiveRows : ingest[c].kept /\ r.id = ingest[c].target}
<1>1. PICK X, v : X = {r.id[1] : r \in Old} /\ v = Over(c, "done")
    OBVIOUS
<1>2. v \in CallState /\ Ended(c, v) /\ v.pc = "done" /\ Becomes(c, v, X)
    BY <1>1, OverEnds DEF Finish
<1>3. /\ UNCHANGED <<disk, vectors, cut>> /\ StageInv(c) /\ At(c) = "store" /\ Unlocked(c)
      /\ rows' = (rows \ Old) \cup {[r EXCEPT !.active = FALSE] : r \in Old}
    BY DEF Finish, IngestInv, CallInv
<1>4. \A r \in rows : r \in [id : Ids, src : Sources, active : BOOLEAN, by : Ingests]
    BY DEF IngestInv, IngestTyped
<1>5. ASSUME NEW q \in rows', q \notin rows \ Old
      PROVE  \E r \in Old : /\ r.active /\ r \in rows /\ r.id = ingest[c].target /\ r.id[1] \in X
                            /\ q \in [id : Ids, src : Sources, active : BOOLEAN, by : Ingests]
                            /\ ~q.active /\ q.id = r.id /\ q.by = r.by /\ q.src = r.src
  <2>1. PICK r \in Old : q = [r EXCEPT !.active = FALSE]
      BY <1>3, <1>5
  <2>2. r.active /\ r \in rows /\ r.id = ingest[c].target /\ r.id[1] \in X
      BY <1>1, <2>1 DEF ActiveRows
  <2> QED
      BY <1>4, <2>1, <2>2
<1>6. RowChange(c, X)
  <2>1. rows' \subseteq [id : Ids, src : Sources, active : BOOLEAN, by : Ingests]
      BY <1>4, <1>5
  <2>2. ASSUME NEW r \in rows', NEW q \in rows', r.id = q.id PROVE r = q
    <3>1. CASE r \in rows \ Old /\ q \in rows \ Old
        BY <2>2, <3>1 DEF IngestInv, RowInv
    <3>2. CASE r \notin rows \ Old /\ q \notin rows \ Old
      <4>1. PICK a \in Old : r = [a EXCEPT !.active = FALSE]
          BY <1>3, <3>2
      <4>2. PICK b \in Old : q = [b EXCEPT !.active = FALSE]
          BY <1>3, <3>2
      <4>3. a \in rows /\ b \in rows /\ a.id = b.id
          BY DEF ActiveRows
      <4> QED
          BY <4>1, <4>2, <4>3 DEF IngestInv, RowInv
    <3>3. CASE r \in rows \ Old /\ q \notin rows \ Old
      <4>1. PICK b \in Old : b \in rows /\ q.id = b.id
          BY <1>5, <3>3
      <4> QED
          BY <2>2, <3>3, <4>1 DEF IngestInv, RowInv
    <3>4. CASE r \notin rows \ Old /\ q \in rows \ Old
      <4>1. PICK b \in Old : b \in rows /\ r.id = b.id
          BY <1>5, <3>4
      <4> QED
          BY <2>2, <3>4, <4>1 DEF IngestInv, RowInv
    <3> QED
        BY <3>1, <3>2, <3>3, <3>4
  <2>3. \A r \in rows : r \in rows' \/ (r.active /\ r.id[1] \in X)
      BY <1>1, <1>3 DEF ActiveRows
  <2> QED
      BY <1>5, <2>1, <2>2, <2>3 DEF RowChange
<1>7. \A q \in rows' : q.active => q \in rows
    BY <1>5
<1>8. LockInv' /\ held' \in [Sources -> Ingests \cup {Nobody}]
  <2>1. v.pc \notin Working
      BY <1>2 DEF Working
  <2> QED
      BY <1>2, <1>3, <2>1, LockGoes
<1>9. ingest[c].now = Nobody /\ cut' \subseteq Ids
    BY <1>3 DEF StageInv, IngestInv, IngestTyped
<1> QED
    BY <1>2, <1>3, <1>6, <1>7, <1>8, <1>9, EndStep

\* A step of the call that leaves the tables and the locks alone.
LEMMA QuietStep ==
    ASSUME IngestInv, NEW c \in Ingests, NEW v \in CallState, Becomes(c, v, {}),
           UNCHANGED <<disk, rows, vectors, cut, held>>, v.now = ingest[c].now,
           At(c) \in Working <=> v.pc \in Working, Follows(c, v), CallInv(c)'
    PROVE  IngestInv'
<1>1. PICK X : X = {}
    OBVIOUS
<1>2. RowChange(c, X) /\ Becomes(c, v, X)
    BY <1>1, QuietRows
<1>3. LockInv' /\ held' \in [Sources -> Ingests \cup {Nobody}]
    BY <1>2, LockStays
<1>4. Searchable'
    BY <1>2, SearchStays
<1>5. disk' \in [Sources -> SUBSET Chunks] /\ vectors' \subseteq Ids /\ cut' \subseteq Ids
    BY DEF IngestInv, IngestTyped
<1> QED
    BY <1>2, <1>3, <1>4, <1>5, CallMoves

LEMMA FindTargetKeeps ==
    ASSUME IngestInv, NEW c \in Ingests, FindTarget(c) PROVE IngestInv'
<1>1. PICK r \in ActiveRows : Becomes(c, [ingest[c] EXCEPT !.pc = "check", !.target = r.id], {})
    BY DEF FindTarget
<1>2. PICK v : v = [ingest[c] EXCEPT !.pc = "check", !.target = r.id]
    OBVIOUS
<1>3. /\ UNCHANGED <<disk, rows, vectors, cut, held>> /\ StageInv(c)
      /\ At(c) = "locked" /\ ingest[c].mode = "supersede" /\ Becomes(c, v, {})
    BY <1>1, <1>2 DEF FindTarget, store, IngestInv, CallInv
<1>4. r \in rows /\ r.id \in Ids
    BY <1>1 DEF ActiveRows, IngestInv, IngestTyped
<1>5. /\ v \in CallState /\ v.pc = "check" /\ v.target = r.id /\ v.mode = ingest[c].mode /\ v.read = ingest[c].read
      /\ v.todo = ingest[c].todo /\ v.plan = ingest[c].plan /\ v.now = ingest[c].now /\ v.lost = ingest[c].lost
      /\ v.cand = ingest[c].cand
  <2>1. ingest[c] \in CallState
      BY DEF IngestInv, IngestTyped
  <2> QED
      BY <1>2, <1>4, <2>1 DEF CallState, Working
<1>6. ingest'[c] = v
    BY <1>3, <1>5, BecomesFacts DEF IngestInv
<1>7. CallInv(c)'
  <2>1. StageInv(c)'
      BY <1>3, <1>5, <1>6 DEF StageInv, At, Checking
  <2>2. SupersedeInv(c)'
      BY <1>3, <1>4, <1>5, <1>6 DEF SupersedeInv, InUse
  <2>3. PlanInv(c)' /\ ReadInv(c)'
      BY <1>3, <1>5, <1>6 DEF PlanInv, Chosen, ReadInv, Settles, StageInv, At, Checking
  <2> QED
      BY <2>1, <2>2, <2>3 DEF CallInv
<1>8. Follows(c, v)
    BY <1>3, <1>5 DEF Follows, StageInv, Checking
<1>9. At(c) \in Working <=> v.pc \in Working
    BY <1>3, <1>5 DEF Working
<1> QED
    BY <1>3, <1>5, <1>7, <1>8, <1>9, QuietStep

\* The loop over the chunks: what a step of it does to the call.
Keeps(c, v) ==
    /\ v.mode = ingest[c].mode /\ v.read = ingest[c].read /\ v.now = ingest[c].now /\ v.target = ingest[c].target

\* A chunk x is done with: there is a drawer, it is planned, or the gate dropped it.
ChunkSettled(c, x, v) ==
    /\ v.pc = "check" /\ v.cand = Nobody /\ v.todo = ingest[c].todo \ {x}
    /\ ingest[c].plan \subseteq v.plan /\ v.plan \subseteq Chosen(c) /\ ingest[c].lost \subseteq v.lost
    /\ \/ x \in v.lost
       \/ \E i \in v.plan : i[1] = x
       \/ \E r \in ActiveRows : r.id[1] = x /\ r.id # ingest[c].target

\* An id is tried, and found to be free.
Tries(c, v) ==
    /\ v.todo = ingest[c].todo /\ v.plan = ingest[c].plan /\ v.lost = ingest[c].lost
    /\ v.pc \in {"resolve", "exists"} /\ v.cand \in Ids /\ v.cand[1] \in ingest[c].todo
    /\ v.pc = "exists" => v.cand \notin InUse

LEMMA LoopStep ==
    ASSUME IngestInv, NEW c \in Ingests, NEW v \in CallState, Becomes(c, v, {}), Keeps(c, v),
           UNCHANGED <<disk, rows, vectors, cut, held>>, At(c) \in Checking,
           Tries(c, v) \/ \E x \in ingest[c].todo : ChunkSettled(c, x, v)
    PROVE  IngestInv'
<1>1. StageInv(c) /\ SupersedeInv(c) /\ PlanInv(c) /\ ReadInv(c)
    BY DEF IngestInv, CallInv
<1>2. ingest'[c] = v
    BY BecomesFacts DEF IngestInv
<1>3. /\ v.todo \subseteq ingest[c].todo /\ ingest[c].plan \subseteq v.plan /\ v.plan \subseteq Chosen(c)
      /\ ingest[c].lost \subseteq v.lost /\ v.pc \in Checking
    BY DEF Tries, ChunkSettled, Chosen, Checking
<1>4. \A i \in Chosen(c) : i[1] \in ingest[c].read
    BY <1>1 DEF Chosen, StageInv
<1>5. StageInv(c)'
  <2>1. v.pc \in {"resolve", "exists"} <=> v.cand # Nobody
      BY NobodyAssumption DEF Tries, ChunkSettled
  <2>2. v.cand # Nobody => v.cand[1] \in v.todo
      BY DEF Tries, ChunkSettled
  <2>3. ingest[c].now = Nobody /\ ingest[c].todo \subseteq ingest[c].read
      BY <1>1 DEF StageInv, Checking
  <2>4. v.todo \subseteq v.read /\ \A i \in v.plan : i[1] \in v.read
      BY <1>3, <1>4, <2>3 DEF Keeps
  <2> QED
      BY <1>2, <1>3, <2>1, <2>2, <2>3, <2>4 DEF StageInv, At, Checking, Keeps
<1>6. SupersedeInv(c)'
    BY <1>1, <1>2, <1>3 DEF SupersedeInv, InUse, Keeps
<1>7. PlanInv(c)'
  <2>1. v.target = ingest[c].target /\ v.read = ingest[c].read
      BY DEF Keeps
  <2> SUFFICES ASSUME NEW i \in v.plan \cup (IF v.pc = "exists" THEN {v.cand} ELSE {}), i[1] \notin v.lost
               PROVE  i # ingest[c].target /\ \A r \in rows : r.id = i => r.active
      BY <1>2, <2>1 DEF PlanInv, Chosen, At
  <2>2. CASE i \in v.plan
      BY <1>1, <1>3, <2>2 DEF PlanInv
  <2>3. CASE v.pc = "exists" /\ i = v.cand
    <3>1. i \in Ids /\ i \notin InUse /\ i[1] \in ingest[c].read /\ i[1] \notin ingest[c].lost
        BY <1>1, <1>3, <2>3 DEF Tries, ChunkSettled, StageInv
    <3>2. i # Nobody
        BY <3>1, NobodyAssumption
    <3> QED
        BY <1>1, <3>1, <3>2 DEF SupersedeInv, InUse
  <2> QED
      BY <2>2, <2>3
<1>8. ReadInv(c)'
  <2> SUFFICES ASSUME NEW y \in ingest[c].read, y \notin v.lost
               PROVE  \/ y \in v.todo
                      \/ \E i \in v.plan : i[1] = y
                      \/ \E r \in ActiveRows : r.id[1] = y /\ r.id # ingest[c].target
      BY <1>2 DEF ReadInv, Settles, ActiveRows, Keeps
  <2>1. Settles(c, y)
      BY <1>1, <1>3 DEF ReadInv
  <2>2. CASE Tries(c, v)
      BY <2>1, <2>2 DEF Settles, Tries
  <2>3. ASSUME NEW x \in ingest[c].todo, ChunkSettled(c, x, v)
        PROVE  \/ y \in v.todo
               \/ \E i \in v.plan : i[1] = y
               \/ \E r \in ActiveRows : r.id[1] = y /\ r.id # ingest[c].target
      BY <2>1, <2>3 DEF Settles, ChunkSettled
  <2> QED
      BY <2>2, <2>3
<1>9. Follows(c, v)
    BY <1>3 DEF Follows, Keeps, Checking
<1>10. (At(c) \in Working <=> v.pc \in Working) /\ CallInv(c)' /\ v.now = ingest[c].now
    BY <1>3, <1>5, <1>6, <1>7, <1>8 DEF Working, Checking, CallInv, Keeps
<1> QED
    BY <1>9, <1>10, QuietStep

\* The shape of the three steps.
LEMMA LoopShape ==
    ASSUME IngestInv, NEW c \in Ingests, (\E x \in Chunks : CheckChunk(c, x)) \/ ResolveId(c) \/ PlanChunk(c)
    PROVE  /\ UNCHANGED <<disk, rows, vectors, cut, held>> /\ At(c) \in Checking
           /\ \E v \in CallState : /\ Becomes(c, v, {}) /\ Keeps(c, v)
                                   /\ Tries(c, v) \/ \E x \in ingest[c].todo : ChunkSettled(c, x, v)
<1>1. ingest[c] \in CallState /\ StageInv(c) /\ PlanInv(c) /\ SupersedeInv(c)
    BY DEF IngestInv, IngestTyped, CallInv
<1>2. UNCHANGED <<disk, rows, vectors, cut, held>> /\ At(c) \in Checking
    BY DEF CheckChunk, ResolveId, PlanChunk, store, Checking
<1>3. ASSUME NEW x \in Chunks, CheckChunk(c, x), Duplicates(x, ingest[c].target) # {}
      PROVE  \E v \in CallState : Becomes(c, v, {}) /\ Keeps(c, v) /\ \E y \in ingest[c].todo : ChunkSettled(c, y, v)
  <2>1. PICK v : v = [ingest[c] EXCEPT !.todo = @ \ {x}, !.kept = TRUE]
      OBVIOUS
  <2>2. Becomes(c, v, {}) /\ x \in ingest[c].todo /\ At(c) = "check"
      BY <1>3, <2>1 DEF CheckChunk
  <2>3. /\ v \in CallState /\ Keeps(c, v) /\ v.todo = ingest[c].todo \ {x} /\ v.pc = ingest[c].pc
        /\ v.plan = ingest[c].plan /\ v.lost = ingest[c].lost /\ v.cand = ingest[c].cand
      BY <1>1, <2>1 DEF CallState, Keeps
  <2>4. ingest[c].cand = Nobody
      BY <1>1, <2>2 DEF StageInv
  <2>5. \E r \in ActiveRows : r.id[1] = x /\ r.id # ingest[c].target
      BY <1>3 DEF Duplicates
  <2>6. ChunkSettled(c, x, v)
      BY <2>2, <2>3, <2>4, <2>5 DEF ChunkSettled, Chosen, At
  <2> QED
      BY <2>2, <2>3, <2>6
<1>4. ASSUME NEW x \in Chunks, CheckChunk(c, x), Duplicates(x, ingest[c].target) = {}
      PROVE  \E v \in CallState : Becomes(c, v, {}) /\ Keeps(c, v) /\ Tries(c, v)
  <2>1. PICK v : v = [ingest[c] EXCEPT !.pc = "resolve", !.cand = <<x, 1>>]
      OBVIOUS
  <2>2. Becomes(c, v, {}) /\ x \in ingest[c].todo /\ <<x, 1>> \in Ids
    <3>1. <<x, 1>> \in Ids
        BY DEF Ids
    <3>2. Becomes(c, v, {}) /\ x \in ingest[c].todo
        BY <1>4, <2>1 DEF CheckChunk
    <3> QED
        BY <3>1, <3>2
  <2>3. /\ v \in CallState /\ Keeps(c, v) /\ v.todo = ingest[c].todo /\ v.pc = "resolve"
        /\ v.plan = ingest[c].plan /\ v.lost = ingest[c].lost /\ v.cand = <<x, 1>>
      BY <1>1, <2>1, <2>2 DEF CallState, Keeps, Working
  <2> QED
      BY <2>2, <2>3 DEF Tries
<1>5. ASSUME ResolveId(c) PROVE \E v \in CallState : Becomes(c, v, {}) /\ Keeps(c, v) /\ Tries(c, v)
  <2>1. PICK id : id = ingest[c].cand
      OBVIOUS
  <2>2. id \in Ids /\ id[1] \in ingest[c].todo /\ At(c) = "resolve" /\ <<id[1], id[2] + 1>> \in Ids
    <3>1. id \in Ids /\ id[1] \in ingest[c].todo /\ At(c) = "resolve"
        BY <1>1, <1>5, <2>1 DEF ResolveId, StageInv, CallState
    <3> QED
        BY <3>1 DEF Ids
  <2>3. CASE DrawerIdInUse(id)
    <3>1. PICK v : v = [ingest[c] EXCEPT !.cand = <<id[1], id[2] + 1>>]
        OBVIOUS
    <3>2. Becomes(c, v, {})
        BY <1>5, <2>1, <2>3, <3>1 DEF ResolveId
    <3>3. /\ v \in CallState /\ Keeps(c, v) /\ v.todo = ingest[c].todo /\ v.pc = "resolve"
          /\ v.plan = ingest[c].plan /\ v.lost = ingest[c].lost /\ v.cand = <<id[1], id[2] + 1>>
        BY <1>1, <2>2, <3>1 DEF CallState, Keeps, At
    <3> QED
        BY <2>2, <3>2, <3>3 DEF Tries
  <2>4. CASE ~DrawerIdInUse(id)
    <3>1. PICK v : v = [ingest[c] EXCEPT !.pc = "exists"]
        OBVIOUS
    <3>2. Becomes(c, v, {}) /\ id \notin InUse
        BY <1>5, <2>1, <2>4, <3>1 DEF ResolveId, DrawerIdInUse, InUse, Goto
    <3>3. /\ v \in CallState /\ Keeps(c, v) /\ v.todo = ingest[c].todo /\ v.pc = "exists"
          /\ v.plan = ingest[c].plan /\ v.lost = ingest[c].lost /\ v.cand = id
        BY <1>1, <2>1, <3>1 DEF CallState, Keeps, Working
    <3> QED
        BY <2>2, <3>2, <3>3 DEF Tries
  <2> QED
      BY <2>3, <2>4
<1>6. ASSUME PlanChunk(c)
      PROVE  \E v \in CallState : Becomes(c, v, {}) /\ Keeps(c, v) /\ \E y \in ingest[c].todo : ChunkSettled(c, y, v)
  <2>1. PICK id : id = ingest[c].cand
      OBVIOUS
  <2>2. id \in Ids /\ id[1] \in ingest[c].todo /\ At(c) = "exists" /\ id \in Chosen(c) /\ ingest[c].plan \subseteq Chosen(c)
      BY <1>1, <1>6, <2>1 DEF PlanChunk, StageInv, CallState, Chosen
  <2>3. PICK w : w = [ingest[c] EXCEPT !.pc = "check", !.todo = @ \ {id[1]}, !.cand = Nobody]
      OBVIOUS
  <2>4. /\ w \in CallState /\ Keeps(c, w) /\ w.pc = "check" /\ w.todo = ingest[c].todo \ {id[1]} /\ w.cand = Nobody
        /\ w.plan = ingest[c].plan /\ w.lost = ingest[c].lost
      BY <1>1, <2>3 DEF CallState, Keeps, Working
  <2>5. IF \E r \in ActiveRows : r.id = id
        THEN Becomes(c, w, {})
        ELSE \/ Becomes(c, [w EXCEPT !.plan = @ \cup {id}], {})
             \/ Becomes(c, [w EXCEPT !.lost = @ \cup {id[1]}], {})
      BY <1>6, <2>1, <2>3 DEF PlanChunk
  <2>6. ASSUME NEW r \in ActiveRows, r.id = id
        PROVE  Becomes(c, w, {}) /\ ChunkSettled(c, id[1], w)
    <3>1. Becomes(c, w, {})
        BY <2>5, <2>6
    <3>2. id[1] \in ingest[c].lost \/ id # ingest[c].target
        BY <1>1, <2>2 DEF PlanInv
    <3> QED
        BY <2>2, <2>4, <2>6, <3>1, <3>2 DEF ChunkSettled
  <2>7. CASE Becomes(c, [w EXCEPT !.plan = @ \cup {id}], {})
    <3>1. PICK v : v = [w EXCEPT !.plan = @ \cup {id}]
        OBVIOUS
    <3>2. /\ v \in CallState /\ Keeps(c, v) /\ v.pc = "check" /\ v.todo = ingest[c].todo \ {id[1]} /\ v.cand = Nobody
          /\ v.plan = ingest[c].plan \cup {id} /\ v.lost = ingest[c].lost
        BY <2>2, <2>4, <3>1 DEF CallState, Keeps
    <3>3. ChunkSettled(c, id[1], v)
        BY <2>2, <3>2 DEF ChunkSettled
    <3> QED
        BY <2>2, <2>7, <3>1, <3>2, <3>3
  <2>8. CASE Becomes(c, [w EXCEPT !.lost = @ \cup {id[1]}], {})
    <3>1. PICK v : v = [w EXCEPT !.lost = @ \cup {id[1]}]
        OBVIOUS
    <3>2. id[1] \in Chunks
        BY <2>2 DEF Ids
    <3>3. /\ v \in CallState /\ Keeps(c, v) /\ v.pc = "check" /\ v.todo = ingest[c].todo \ {id[1]} /\ v.cand = Nobody
          /\ v.plan = ingest[c].plan /\ v.lost = ingest[c].lost \cup {id[1]}
        BY <2>4, <3>1, <3>2 DEF CallState, Keeps
    <3>4. ChunkSettled(c, id[1], v)
        BY <2>2, <3>3 DEF ChunkSettled
    <3> QED
        BY <2>2, <2>8, <3>1, <3>3, <3>4
  <2> QED
      BY <2>2, <2>4, <2>5, <2>6, <2>7, <2>8
<1> QED
    BY <1>2, <1>3, <1>4, <1>5, <1>6

LEMMA LoopKeeps ==
    ASSUME IngestInv, NEW c \in Ingests, (\E x \in Chunks : CheckChunk(c, x)) \/ ResolveId(c) \/ PlanChunk(c)
    PROVE  IngestInv'
BY LoopShape, LoopStep

LEMMA ReplaceKeeps ==
    ASSUME IngestInv, NEW c \in Ingests, Replace(c) PROVE IngestInv'
<1>1. PICK X : X = {id[1] : id \in Dropped(c)}
    OBVIOUS
<1>2. PICK v : v = [ingest[c] EXCEPT !.pc = "check"]
    OBVIOUS
<1>3. v \in CallState /\ Same(c, v) /\ v.pc = "check" /\ v.now = ingest[c].now
    BY <1>2, Onward DEF Working
<1>4. /\ UNCHANGED <<disk, cut, held>> /\ At(c) = "locked" /\ StageInv(c)
      /\ rows' = {r \in rows : ~(r.active /\ r.src = SourceOf[c])} /\ vectors' = vectors \ Dropped(c)
      /\ Becomes(c, v, X)
    BY <1>1, <1>2 DEF Replace, IngestInv, CallInv
<1>5. ingest'[c] = v /\ \A d \in Ingests \ {c} : Stays(d, X)
    BY <1>3, <1>4, BecomesFacts DEF IngestInv
<1>6. RowChange(c, X)
  <2>1. \A r \in rows : r \in rows' \/ (r.active /\ r.id[1] \in X)
      BY <1>1, <1>4 DEF Dropped, ActiveRows
  <2>2. rows' \subseteq rows
      BY <1>4
  <2>3. /\ rows \subseteq [id : Ids, src : Sources, active : BOOLEAN, by : Ingests]
        /\ \A r, q \in rows : r.id = q.id => r = q
      BY DEF IngestInv, IngestTyped, RowInv
  <2> QED
      BY <2>1, <2>2, <2>3 DEF RowChange
<1>7. CallInv(c)'
  <2>1. StageInv(c)'
      BY <1>3, <1>4, <1>5 DEF StageInv, Same, At, Checking
  <2>2. v.target = Nobody /\ v.plan = {} /\ v.todo = v.read
      BY <1>3, <1>4 DEF StageInv, Same, Checking
  <2>3. SupersedeInv(c)' /\ PlanInv(c)' /\ ReadInv(c)'
      BY <1>3, <1>5, <2>2 DEF SupersedeInv, PlanInv, Chosen, ReadInv, Settles, At
  <2> QED
      BY <2>1, <2>3 DEF CallInv
<1>8. Follows(c, v)
    BY <1>3, <1>4 DEF Follows, Same, Checking
<1>9. LockInv' /\ held' \in [Sources -> Ingests \cup {Nobody}]
  <2>1. At(c) \in Working <=> v.pc \in Working
      BY <1>3, <1>4 DEF Working
  <2> QED
      BY <1>3, <1>4, <2>1, LockStays
<1>10. Searchable'
  <2> SUFFICES ASSUME NEW q \in rows', q.active
               PROVE  q.id \in vectors' \cup cut' \cup {ingest'[d].now : d \in Ingests}
      BY DEF Searchable, ActiveRows
  <2>1. q \in rows /\ q.id \notin Dropped(c)
    <3>1. q \in rows /\ q.src # SourceOf[c]
        BY <1>4
    <3> QED
        BY <3>1 DEF Dropped, ActiveRows, IngestInv, RowInv
  <2>2. q.id \in vectors \cup cut \/ \E d \in Ingests : q.id = ingest[d].now
      BY <2>1 DEF IngestInv, Searchable, ActiveRows
  <2>3. \A d \in Ingests : ingest'[d].now = ingest[d].now
      BY <1>3, <1>5 DEF Stays
  <2> QED
      BY <1>4, <2>1, <2>2, <2>3
<1>11. disk' \in [Sources -> SUBSET Chunks] /\ vectors' \subseteq Ids /\ cut' \subseteq Ids
    BY <1>4 DEF IngestInv, IngestTyped
<1> QED
    BY <1>3, <1>4, <1>6, <1>7, <1>8, <1>9, <1>10, <1>11, CallMoves

LEMMA InsertDrawerKeeps ==
    ASSUME IngestInv, NEW c \in Ingests, NEW id \in ingest[c].plan, InsertDrawer(c, id) PROVE IngestInv'
<1>0. id \in Ids
    BY DEF IngestInv, IngestTyped, CallState
<1>1. PICK new : new = [id |-> id, src |-> SourceOf[c], active |-> TRUE, by |-> c]
    OBVIOUS
<1>2. PICK v : v = [ingest[c] EXCEPT !.pc = "vector", !.plan = @ \ {id}, !.now = id]
    OBVIOUS
<1>3. PICK X : X = {}
    OBVIOUS
<1>4. /\ UNCHANGED <<disk, vectors, cut, held>> /\ At(c) = "store" /\ id \in ingest[c].plan
      /\ rows' = IF id \in InUse THEN rows ELSE rows \cup {new}
      /\ Becomes(c, v, X)
    BY <1>1, <1>2, <1>3 DEF InsertDrawer
<1>5. StageInv(c) /\ SupersedeInv(c) /\ PlanInv(c) /\ ReadInv(c) /\ id # Nobody
    BY <1>0, NobodyAssumption DEF IngestInv, CallInv
<1>6. /\ v \in CallState /\ v.pc = "vector" /\ v.mode = ingest[c].mode /\ v.read = ingest[c].read
      /\ v.todo = ingest[c].todo /\ v.plan = ingest[c].plan \ {id} /\ v.now = id
      /\ v.target = ingest[c].target /\ v.lost = ingest[c].lost /\ v.cand = ingest[c].cand
  <2>1. ingest[c] \in CallState
      BY DEF IngestInv, IngestTyped
  <2> QED
      BY <1>0, <1>2, <2>1 DEF CallState, Working
<1>7. ingest'[c] = v
    BY <1>4, <1>6, BecomesFacts DEF IngestInv
<1>8. /\ new.id = id /\ new.src = SourceOf[c] /\ new.active /\ new.by = c
      /\ new \in [id : Ids, src : Sources, active : BOOLEAN, by : Ingests]
    BY <1>0, <1>1, IngestAssumption
<1>9. rows \subseteq rows' /\ \A q \in rows' : q \in rows \/ (q = new /\ id \notin InUse)
    BY <1>4
<1>10. RowChange(c, X)
  <2>1. rows' \subseteq [id : Ids, src : Sources, active : BOOLEAN, by : Ingests]
      BY <1>8, <1>9 DEF IngestInv, IngestTyped
  <2>2. \A r, q \in rows' : r.id = q.id => r = q
      BY <1>8, <1>9 DEF IngestInv, RowInv, InUse
  <2> QED
      BY <1>4, <1>8, <1>9, <2>1, <2>2 DEF RowChange
<1>11. CallInv(c)'
  <2>1. StageInv(c)'
      BY <1>4, <1>5, <1>6, <1>7 DEF StageInv, At, Checking
  <2>4. SupersedeInv(c)'
      BY <1>5, <1>6, <1>7, <1>9 DEF SupersedeInv, InUse
  <2>5. PlanInv(c)'
      BY <1>5, <1>6, <1>7, <1>8, <1>9 DEF PlanInv, Chosen, At
  <2>6. ReadInv(c)'
    <3> SUFFICES ASSUME NEW x \in ingest[c].read, x \notin ingest[c].lost
                 PROVE  \/ x \in v.todo
                        \/ \E i \in v.plan : i[1] = x
                        \/ \E r \in rows' : r.active /\ r.id[1] = x /\ r.id # ingest[c].target
        BY <1>6, <1>7 DEF ReadInv, Settles, ActiveRows
    <3>1. Settles(c, x)
        BY <1>5 DEF ReadInv
    <3>2. CASE id[1] = x
      <4>1. id # ingest[c].target /\ \A r \in rows : r.id = id => r.active
          BY <1>4, <1>5, <3>2 DEF PlanInv, Chosen
      <4>2. CASE id \in InUse
          BY <1>9, <3>2, <4>1, <4>2 DEF InUse
      <4>3. CASE id \notin InUse
          BY <1>4, <1>8, <3>2, <4>1, <4>3
      <4> QED
          BY <4>2, <4>3
    <3>3. CASE id[1] # x
        BY <1>6, <1>9, <3>1, <3>3 DEF Settles, ActiveRows
    <3> QED
        BY <3>2, <3>3
  <2> QED
      BY <2>1, <2>4, <2>5, <2>6 DEF CallInv
<1>12. LockInv' /\ held' \in [Sources -> Ingests \cup {Nobody}]
  <2>1. At(c) \in Working <=> v.pc \in Working
      BY <1>4, <1>6 DEF Working
  <2> QED
      BY <1>4, <1>6, <2>1, LockStays
<1>13. Searchable'
  <2>1. ingest[c].now = Nobody
      BY <1>4, <1>5 DEF StageInv
  <2>2. \A q \in rows' : q.active /\ q \notin rows => q.id = v.now
      BY <1>6, <1>8, <1>9
  <2> QED
      BY <1>4, <1>6, <1>10, <2>1, <2>2, SearchStays
<1>14. Follows(c, v)
    BY <1>4, <1>6 DEF Follows, Checking
<1>15. disk' \in [Sources -> SUBSET Chunks] /\ vectors' \subseteq Ids /\ cut' \subseteq Ids
    BY <1>4 DEF IngestInv, IngestTyped
<1> QED
    BY <1>4, <1>6, <1>10, <1>11, <1>12, <1>13, <1>14, <1>15, CallMoves

----------------------------------------------------------------------------
\* The ingestion as a whole.

LEMMA IngestInitInv == IngestInit => IngestInv
<1> SUFFICES ASSUME IngestInit PROVE IngestInv
    OBVIOUS
<1>1. /\ disk \in [Sources -> SUBSET Chunks] /\ rows = {} /\ vectors = {} /\ cut = {}
      /\ held = [s \in Sources |-> Nobody] /\ ingest = [c \in Ingests |-> Fresh]
    BY DEF IngestInit
<1>2. /\ Fresh \in CallState /\ Fresh.pc = "idle" /\ Fresh.read = {} /\ Fresh.todo = {} /\ Fresh.plan = {}
      /\ Fresh.now = Nobody /\ Fresh.target = Nobody /\ Fresh.cand = Nobody
    BY DEF Fresh, CallState
<1>3. \A c \in Ingests : ingest[c] = Fresh
    BY <1>1
<1>4. IngestTyped
    BY <1>1, <1>2 DEF IngestTyped
<1>5. RowInv /\ LockInv /\ VersionInv /\ VersionsNeverMix /\ Searchable
    BY <1>1, <1>2, <1>3 DEF RowInv, LockInv, VersionInv, VersionsNeverMix, Searchable, ActiveRows, At, Working, Checking
<1>7. ASSUME NEW c \in Ingests PROVE CallInv(c)
  <2>1. StageInv(c)
      BY <1>2, <1>3 DEF StageInv, At, Checking
  <2>2. SupersedeInv(c) /\ PlanInv(c) /\ ReadInv(c)
      BY <1>2, <1>3 DEF SupersedeInv, PlanInv, Chosen, ReadInv, At
  <2> QED
      BY <2>1, <2>2 DEF CallInv
<1> QED
    BY <1>4, <1>5, <1>7 DEF IngestInv

LEMMA IngestNextInv == IngestInv /\ [IngestNext]_ingestVars => IngestInv'
<1> SUFFICES ASSUME IngestInv, [IngestNext]_ingestVars PROVE IngestInv'
    OBVIOUS
<1>1. CASE UNCHANGED ingestVars
  <2>1. disk' \in [Sources -> SUBSET Chunks] /\ UNCHANGED <<rows, vectors, cut, held, ingest>>
      BY <1>1 DEF ingestVars, IngestInv, IngestTyped
  <2> QED
      BY <2>1, EditKeeps
<1>2. ASSUME NEW s \in Sources, Edit(s) PROVE IngestInv'
  <2>1. disk' \in [Sources -> SUBSET Chunks] /\ UNCHANGED <<rows, vectors, cut, held, ingest>>
    <3>1. PICK words \in SUBSET Chunks : disk' = [disk EXCEPT ![s] = words]
        BY <1>2 DEF Edit
    <3> QED
        BY <1>2, <3>1 DEF Edit, store, IngestInv, IngestTyped
  <2> QED
      BY <2>1, EditKeeps
<1>3. ASSUME NEW c \in Ingests, ReadFile(c) \/ TakeLock(c) \/ LockTimeout(c) \/ Replace(c) PROVE IngestInv'
    BY <1>3, ReadFileKeeps, TakeLockKeeps, FailKeeps, ReplaceKeeps
<1>4. ASSUME NEW c \in Ingests, FindTarget(c) \/ NothingToReplace(c) \/ (\E x \in Chunks : CheckChunk(c, x))
                                 \/ ResolveId(c) \/ PlanChunk(c)
      PROVE  IngestInv'
    BY <1>4, FindTargetKeeps, OnwardKeeps, LoopKeeps
<1>5. ASSUME NEW c \in Ingests, Embed(c) \/ InsertVector(c) \/ Finish(c) \/ Fail(c) PROVE IngestInv'
    BY <1>5, OnwardKeeps, InsertVectorKeeps, FinishKeeps, FailKeeps
<1>6. ASSUME NEW c \in Ingests, NEW id \in ingest[c].plan, InsertDrawer(c, id) PROVE IngestInv'
    BY <1>6, InsertDrawerKeeps
<1> QED
    BY <1>1, <1>2, <1>3, <1>4, <1>5, <1>6 DEF IngestNext

\* The inductive invariant of the ingestion pipeline holds in every state.
THEOREM IngestInvariant == IngestSpec => []IngestInv
<1> QED
    BY IngestInitInv, IngestNextInv, PTL DEF IngestSpec

\* Tables, locks and calls keep their types, and a drawer's id stays its primary key.
THEOREM IngestTypes == IngestSpec => []IngestTypeOK
<1>1. IngestInv => IngestTypeOK
  <2> SUFFICES ASSUME IngestInv PROVE IngestTypeOK
      OBVIOUS
  <2>1. \A c \in Ingests : ingest[c] \in CallState
      BY DEF IngestInv, IngestTyped
  <2>2. \A c \in Ingests : /\ At(c) \in {"idle", "read", "locked", "check", "resolve", "exists", "store", "vector",
                                        "done", "failed"}
                           /\ ingest[c].plan \subseteq Ids /\ ingest[c].cand \in Ids \cup {Nobody}
                           /\ ingest[c].now \in Ids \cup {Nobody}
      BY <2>1 DEF CallState, Working, At
  <2> QED
      BY <2>2 DEF IngestTypeOK, IngestInv, IngestTyped, RowInv
<1> QED
    BY <1>1, IngestInvariant, PTL

\* However many replacing calls run against a source, and wherever they fail, its
\* active drawers of replacing calls come from one call (acquire_source_lock).
THEOREM IngestVersionsNeverMix == IngestSpec => []VersionsNeverMix
<1>1. IngestInv => VersionsNeverMix
    BY DEF IngestInv
<1> QED
    BY <1>1, IngestInvariant, PTL

\* An active drawer has its vector, or the call that inserted it is about to write
\* it, or that call ended between the two inserts.
THEOREM IngestSearchable == IngestSpec => []Searchable
<1>1. IngestInv => Searchable
    BY DEF IngestInv
<1> QED
    BY <1>1, IngestInvariant, PTL

\* Only Finish makes a call return with success.
LEMMA DoneByFinish ==
    ASSUME IngestInv, IngestNext, NEW c \in Ingests, At(c) # "done", ingest'[c].pc = "done" PROVE Finish(c)
<1>1. ingest[c] \in CallState
    BY DEF IngestInv, IngestTyped
<1>2. ASSUME NEW d \in Ingests, NEW v, NEW X, Becomes(d, v, X) PROVE d = c /\ v.pc = "done"
  <2>1. ASSUME d # c PROVE FALSE
    <3>1. ingest'[c] = [ingest[c] EXCEPT !.lost = @ \cup (X \cap ingest[c].read)]
        BY <1>2, <2>1 DEF Becomes
    <3>2. ingest'[c].pc = ingest[c].pc
        BY <1>1, <3>1 DEF CallState
    <3> QED
        BY <3>2 DEF At
  <2>2. ingest'[d] = v
      BY <1>2 DEF Becomes
  <2> QED
      BY <2>1, <2>2
<1>3. ASSUME NEW d \in Ingests, NEW p \in {"locked", "check", "store", "vector", "read"}, NEW X, 
             Becomes(d, [ingest[d] EXCEPT !.pc = p], X)
      PROVE  FALSE
    BY <1>1, <1>2, <1>3 DEF CallState
<1>4. ~UNCHANGED ingest
    BY DEF At
<1>5. \A s \in Sources : ~Edit(s)
    BY <1>4 DEF Edit
<1>6. ASSUME NEW d \in Ingests, ReadFile(d) PROVE FALSE
  <2>1. PICK mode \in ModesOf[d] :
          Becomes(d, [Fresh EXCEPT !.pc = "read", !.mode = mode, !.read = disk[SourceOf[d]],
                                   !.todo = disk[SourceOf[d]]], {})
      BY <1>6 DEF ReadFile
  <2>2. PICK v : v = [Fresh EXCEPT !.pc = "read", !.mode = mode, !.read = disk[SourceOf[d]], !.todo = disk[SourceOf[d]]]
      OBVIOUS
  <2>3. v.pc = "read"
      BY <2>2 DEF Fresh
  <2> QED
      BY <1>2, <2>1, <2>2, <2>3
<1>7. ASSUME NEW d \in Ingests, TakeLock(d) \/ NothingToReplace(d) \/ Embed(d) \/ Replace(d) PROVE FALSE
    BY <1>3, <1>7 DEF TakeLock, NothingToReplace, Embed, Replace, Goto
<1>8. ASSUME NEW d \in Ingests, LockTimeout(d) \/ Fail(d) PROVE FALSE
  <2>1. PICK v : v = Over(d, "failed")
      OBVIOUS
  <2>2. v.pc = "failed"
      BY <2>1, OverEnds
  <2>3. Becomes(d, v, {})
      BY <1>8, <2>1 DEF LockTimeout, Fail
  <2> QED
      BY <1>2, <2>2, <2>3
<1>9. ASSUME NEW d \in Ingests, FindTarget(d) PROVE FALSE
  <2>1. PICK r \in ActiveRows : Becomes(d, [ingest[d] EXCEPT !.pc = "check", !.target = r.id], {})
      BY <1>9 DEF FindTarget
  <2>2. PICK v : v = [ingest[d] EXCEPT !.pc = "check", !.target = r.id]
      OBVIOUS
  <2>3. v.pc = "check"
      BY <2>2 DEF IngestInv, IngestTyped, CallState
  <2> QED
      BY <1>2, <2>1, <2>2, <2>3
<1>10. ASSUME NEW d \in Ingests, (\E x \in Chunks : CheckChunk(d, x)) \/ ResolveId(d) \/ PlanChunk(d) PROVE FALSE
    BY <1>2, <1>10, LoopShape DEF Tries, ChunkSettled
<1>11. ASSUME NEW d \in Ingests, NEW id \in ingest[d].plan, InsertDrawer(d, id) PROVE FALSE
  <2>1. PICK v : v = [ingest[d] EXCEPT !.pc = "vector", !.plan = @ \ {id}, !.now = id]
      OBVIOUS
  <2>2. v.pc = "vector"
      BY <2>1 DEF IngestInv, IngestTyped, CallState
  <2> QED
      BY <1>2, <1>11, <2>1, <2>2 DEF InsertDrawer
<1>12. ASSUME NEW d \in Ingests, InsertVector(d) PROVE FALSE
  <2>1. PICK v : v = [ingest[d] EXCEPT !.pc = "store", !.kept = TRUE, !.now = Nobody]
      OBVIOUS
  <2>2. v.pc = "store"
      BY <2>1 DEF IngestInv, IngestTyped, CallState
  <2> QED
      BY <1>2, <1>12, <2>1, <2>2 DEF InsertVector
<1>13. PICK d \in Ingests : Finish(d)
    BY <1>5, <1>6, <1>7, <1>8, <1>9, <1>10, <1>11, <1>12 DEF IngestNext
<1>14. \E v, X : Becomes(d, v, X)
    BY <1>13 DEF Finish
<1> QED
    BY <1>2, <1>13, <1>14

\* A call that returns with success leaves each chunk it read in an active drawer,
\* but for what the gate dropped and what other calls removed while it ran.
THEOREM IngestSuccessMeansStored == IngestSpec => SuccessMeansStored
<1>1. ASSUME IngestInv, [IngestNext]_ingestVars, NEW c \in Ingests, At(c) # "done", ingest'[c].pc = "done",
             NEW x \in ingest[c].read \ ingest[c].lost
      PROVE  \E r \in rows' : r.active /\ r.id[1] = x
  <2>1. Finish(c)
    <3>1. ~UNCHANGED ingestVars
        BY <1>1 DEF ingestVars, At
    <3> QED
        BY <1>1, <3>1, DoneByFinish
  <2>2. StageInv(c) /\ ReadInv(c) /\ At(c) = "store" /\ ingest[c].plan = {}
      BY <1>1, <2>1 DEF Finish, IngestInv, CallInv
  <2>3. PICK r \in ActiveRows : r.id[1] = x /\ r.id # ingest[c].target
      BY <1>1, <2>2 DEF StageInv, ReadInv, Settles, Checking
  <2>4. r \in rows'
      BY <2>1, <2>3 DEF Finish, ActiveRows
  <2> QED
      BY <2>3, <2>4 DEF ActiveRows
<1>2. IngestInv /\ [IngestNext]_ingestVars =>
          [\A c \in Ingests : At(c) # "done" /\ ingest'[c].pc = "done" =>
              \A x \in ingest[c].read \ ingest[c].lost : \E r \in rows' : r.active /\ r.id[1] = x]_ingestVars
    BY <1>1
<1> QED
    BY <1>2, IngestInvariant, PTL DEF IngestSpec, SuccessMeansStored

----------------------------------------------------------------------------
\* The lifecycle of a knowledge card.

\* The commands end before their leases run out.
CliInTime == Overdue \cap Cli = {}

CardStages == {"idle", "held", "ready", "updated", "committed", "ok", "refused", "failed", "torn", "dead"}
CardCallState ==
    [pc : CardStages, req : CardRequests \cup {NoRequest},
     old : {r.to : r \in CardRequests} \cup {"none", "demoted"}, fresh : SUBSET Nat]

CardEvent ==
    [type : {"promoted", "retired", "demoted"}, reason : {r.reason : r \in CardRequests},
     from : {r.to : r \in CardRequests} \cup {"none", "demoted"}, to : {r.to : r \in CardRequests}]

CardTyped ==
    /\ call \in [CardCalls -> CardCallState] /\ holder \in CardCalls \cup {NoHolder}
    /\ IsFiniteSet(links) /\ events \in Seq(CardEvent)
    /\ cardStatus \in {r.to : r \in CardRequests} \cup {"demoted"}

\* Where a call stands tells what it asked for; a command has the lease all along.
TurnInv(c) ==
    /\ InProgress(c) => call[c].req \in CardRequests
    /\ InProgress(c) /\ c \in Cli => holder = c
    /\ InProgress(c) /\ c \notin Cli => call[c].req.kind # "link" /\ ~CardAt(c, "updated")
    /\ CardAt(c, "ready") \/ CardAt(c, "updated") => call[c].req.kind # "link"

\* What the evidence will be when the call has inserted the links it still has to.
Expected(n) == [Counts(links) EXCEPT !["verification"] = @ + n]

\* While it has the lease, a call that is ready knows the card: its status, the
\* links that are missing, and that the gate lets the card through with them.
ReadyInv(c) ==
    CardAt(c, "ready") /\ holder = c =>
        /\ call[c].old = cardStatus
        /\ call[c].fresh \subseteq DOMAIN call[c].req.refs
        /\ call[c].req.kind = "promote" /\ call[c].req.gated
               => GateAllows(call[c].req, Expected(Cardinality(call[c].fresh)))

CardInv == CardTyped /\ \A c \in CardCalls : TurnInv(c) /\ ReadyInv(c)

\* The events follow one another unless a command was cut off between its writes;
\* while one is between them, its event is the one that is missing.
ChainInv ==
    (\A c \in CardCalls : ~CardAt(c, "torn")) =>
        /\ Linked
        /\ (\A c \in CardCalls : ~CardAt(c, "updated")) => cardStatus = LastStatus
        /\ \A c \in CardCalls : CardAt(c, "updated") => call[c].old = LastStatus /\ cardStatus = call[c].req.to

LEMMA FiniteRefs ==
    ASSUME NEW r \in CardRequests PROVE IsFiniteSet(DOMAIN r.refs) /\ DOMAIN r.refs \subseteq Nat
<1>1. r.refs \in Seq(Range(r.refs))
    BY CardAssumption
<1>2. DOMAIN r.refs = 1..Len(r.refs) /\ Len(r.refs) \in Nat
    BY <1>1
<1>3. PICK n \in Nat : DOMAIN r.refs = 1..n
    BY <1>2
<1>4. IsFiniteSet(1..n) /\ 1..n \subseteq Nat
    BY FS_Interval
<1> QED
    BY <1>3, <1>4

\* The links that go in without a clash are one for each position.
LEMMA NewLinks ==
    ASSUME CardTyped, NEW refs, NEW at, IsFiniteSet(at), NEW role, ~LinksClash(refs, at, role),
           NEW new, new = {<<refs[i], role>> : i \in at}
    PROVE  IsFiniteSet(new) /\ Cardinality(new) = Cardinality(at) /\ new \cap links = {}
<1> DEFINE f == [i \in at |-> <<refs[i], role>>]
<1>1. \A i, j \in at : f[i] = f[j] => i = j
    BY DEF LinksClash
<1>2. f \in [at -> new] /\ \A n \in new : \E i \in at : f[i] = n
    OBVIOUS
<1>3. f \in Bijection(at, new)
    BY <1>1, <1>2 DEF Bijection, Injection, Surjection, IsInjective
<1>4. new \cap links = {}
    BY DEF LinksClash
<1>5. ExistsBijection(at, new)
    BY <1>3 DEF ExistsBijection
<1> QED
    BY <1>4, <1>5, FS_Bijection

LEMMA CountsAfter ==
    ASSUME CardTyped, NEW refs, NEW at, IsFiniteSet(at), NEW role \in Roles, ~LinksClash(refs, at, role)
    PROVE  /\ IsFiniteSet(WithLinks(refs, at, role))
           /\ Counts(WithLinks(refs, at, role)) = [Counts(links) EXCEPT ![role] = @ + Cardinality(at)]
<1>1. PICK new : new = {<<refs[i], role>> : i \in at}
    OBVIOUS
<1>2. IsFiniteSet(new) /\ Cardinality(new) = Cardinality(at) /\ new \cap links = {}
    BY <1>1, NewLinks
<1>3. WithLinks(refs, at, role) = links \cup new /\ \A n \in new : n[2] = role
    BY <1>1 DEF WithLinks
<1>4. IsFiniteSet(links) /\ IsFiniteSet(links \cup new)
    BY <1>2, FS_Union DEF CardTyped
<1>5. ASSUME NEW r \in Roles, r # role
      PROVE  {l \in links \cup new : l[2] = r} = {l \in links : l[2] = r}
    BY <1>3, <1>5
<1>6. PICK had : had = {l \in links : l[2] = role}
    OBVIOUS
<1>7. {l \in links \cup new : l[2] = role} = had \cup new /\ had \cap new = {} /\ had \in SUBSET links
    BY <1>2, <1>3, <1>6
<1>8. Cardinality(had \cup new) = Cardinality(had) + Cardinality(new)
  <2>1. IsFiniteSet(had)
      BY <1>4, <1>7, FS_Subset
  <2>2. Cardinality(had \cup new) = Cardinality(had) + Cardinality(new) - Cardinality({})
      BY <1>2, <1>7, <2>1, FS_Union
  <2>3. Cardinality(had) \in Nat /\ Cardinality(new) \in Nat /\ Cardinality({}) = 0
      BY <1>2, <2>1, FS_CardinalityType, FS_EmptySet
  <2> QED
      BY <2>2, <2>3
<1>9. PICK all : all = links \cup new
    OBVIOUS
<1>10. Counts(all)[role] = Counts(links)[role] + Cardinality(at)
    BY <1>2, <1>6, <1>7, <1>8, <1>9 DEF Counts
<1>11. \A r \in Roles \ {role} : Counts(all)[r] = Counts(links)[r]
    BY <1>5, <1>9 DEF Counts
<1>12. DOMAIN Counts(all) = Roles /\ DOMAIN Counts(links) = Roles /\ Counts(all) = [r \in Roles |-> Counts(all)[r]]
    BY DEF Counts
<1>13. Counts(all) = [Counts(links) EXCEPT ![role] = @ + Cardinality(at)]
  <2> HIDE DEF Counts
  <2>1. [Counts(links) EXCEPT ![role] = @ + Cardinality(at)]
            = [r \in Roles |-> IF r = role THEN Counts(links)[role] + Cardinality(at) ELSE Counts(links)[r]]
      BY <1>12
  <2>2. Counts(all) = [r \in Roles |-> IF r = role THEN Counts(links)[role] + Cardinality(at) ELSE Counts(links)[r]]
      BY <1>10, <1>11, <1>12
  <2> QED
      BY <2>1, <2>2
<1> QED
    BY <1>3, <1>4, <1>9, <1>13

\* The lease comes to c or goes from it.
HolderMoves(c) ==
    \/ holder' = holder
    \/ holder = c /\ holder' = NoHolder
    \/ holder = NoHolder /\ holder' = c

\* Whoever changes the card or its links has the lease.
Rightful(c) == UNCHANGED <<links, cardStatus>> \/ holder = c

TablesTyped ==
    /\ IsFiniteSet(links') /\ events' \in Seq(CardEvent)
    /\ cardStatus' \in {r.to : r \in CardRequests} \cup {"demoted"}

LEMMA OtherCardCalls ==
    ASSUME CardInv, NEW d \in CardCalls, NEW c \in CardCalls \ {d}, call'[c] = call[c], tier' = tier,
           HolderMoves(d), Rightful(d)
    PROVE  TurnInv(c)' /\ ReadyInv(c)'
<1>1. TurnInv(c) /\ ReadyInv(c) /\ NoHolder # c
    BY CardAssumption DEF CardInv
<1>2. holder' = c <=> holder = c
    BY <1>1 DEF HolderMoves
<1>3. TurnInv(c)'
    BY <1>1, <1>2 DEF TurnInv, InProgress, CardAt
<1>4. ReadyInv(c)'
  <2> SUFFICES ASSUME call[c].pc = "ready", holder = c PROVE ReadyInv(c)'
      BY <1>2 DEF ReadyInv, CardAt
  <2>1. UNCHANGED <<links, cardStatus, tier>> /\ holder' = c
      BY <1>2 DEF Rightful
  <2> QED
      BY <1>1, <2>1 DEF ReadyInv, CardAt, GateAllows, Requirements, Expected, Counts
<1> QED
    BY <1>3, <1>4

LEMMA CardMoves ==
    ASSUME CardInv, NEW d \in CardCalls, NEW w \in CardCallState, call' = [call EXCEPT ![d] = w], tier' = tier,
           HolderMoves(d), Rightful(d), TablesTyped, TurnInv(d)', ReadyInv(d)'
    PROVE  CardInv'
<1>1. call' \in [CardCalls -> CardCallState] /\ \A c \in CardCalls \ {d} : call'[c] = call[c]
    BY DEF CardInv, CardTyped
<1>2. holder' \in CardCalls \cup {NoHolder}
    BY DEF CardInv, CardTyped, HolderMoves
<1>3. CardTyped'
    BY <1>1, <1>2 DEF CardTyped, TablesTyped
<1>4. \A c \in CardCalls : TurnInv(c)' /\ ReadyInv(c)'
    BY <1>1, OtherCardCalls
<1> QED
    BY <1>3, <1>4 DEF CardInv

\* The call moves on to a stage, with what it has.
LEMMA CardGoes ==
    ASSUME CardInv, NEW d \in CardCalls, NEW p \in CardStages, CardGoto(d, p)
    PROVE  \E w \in CardCallState :
              /\ call' = [call EXCEPT ![d] = w] /\ call'[d] = w /\ w.pc = p
              /\ w.req = call[d].req /\ w.old = call[d].old /\ w.fresh = call[d].fresh
<1>1. call[d] \in CardCallState /\ call \in [CardCalls -> CardCallState]
    BY DEF CardInv, CardTyped
<1>2. PICK w : w = [call[d] EXCEPT !.pc = p]
    OBVIOUS
<1>3. w \in CardCallState /\ w.pc = p /\ w.req = call[d].req /\ w.old = call[d].old /\ w.fresh = call[d].fresh
    BY <1>1, <1>2 DEF CardCallState
<1>4. call' = [call EXCEPT ![d] = w] /\ call'[d] = w
    BY <1>1, <1>2 DEF CardGoto
<1> QED
    BY <1>3, <1>4

LEMMA CardEnds ==
    ASSUME CardInv, NEW d \in CardCalls, NEW p \in {"ok", "refused", "failed", "torn", "dead"}, CardGoto(d, p), tier' = tier,
           HolderMoves(d), Rightful(d), TablesTyped
    PROVE  CardInv'
<1>1. PICK w \in CardCallState : call' = [call EXCEPT ![d] = w] /\ call'[d] = w /\ w.pc = p
    BY CardGoes DEF CardStages
<1>2. TurnInv(d)' /\ ReadyInv(d)'
    BY <1>1 DEF TurnInv, ReadyInv, InProgress, CardAt
<1> QED
    BY <1>1, <1>2, CardMoves

LEMMA AnswerMoves ==
    ASSUME NEW d, NEW p, AnswerCard(d, p) PROVE CardGoto(d, p) /\ HolderMoves(d)
BY DEF AnswerCard, Freed, HolderMoves

LEMMA TablesStay ==
    ASSUME CardInv, NEW d, UNCHANGED <<links, cardStatus, events>> PROVE TablesTyped /\ Rightful(d)
BY DEF CardInv, CardTyped, TablesTyped, Rightful

LEMMA AcquireForCardKeeps ==
    ASSUME CardInv, NEW d \in CardCalls, AcquireForCard(d) PROVE CardInv'
<1>1. tier' = tier /\ TablesTyped /\ Rightful(d) /\ CardAt(d, "idle")
    BY TablesStay DEF AcquireForCard
<1>2. CASE CardGoto(d, "refused") /\ UNCHANGED holder
  <2>1. HolderMoves(d)
      BY <1>2 DEF HolderMoves
  <2> QED
      BY <1>1, <1>2, <2>1, CardEnds
<1>3. ASSUME NEW r \in CardRequests, r.kind = "link" => d \in Cli, holder = NoHolder, holder' = d,
             call' = [call EXCEPT ![d].pc = "held", ![d].req = r]
      PROVE  CardInv'
  <2>1. call[d] \in CardCallState /\ call \in [CardCalls -> CardCallState]
      BY DEF CardInv, CardTyped
  <2>2. PICK w : w = [call[d] EXCEPT !.pc = "held", !.req = r]
      OBVIOUS
  <2>3. w \in CardCallState /\ w.pc = "held" /\ w.req = r
      BY <2>1, <2>2 DEF CardCallState, CardStages
  <2>4. call' = [call EXCEPT ![d] = w] /\ call'[d] = w
      BY <1>3, <2>1, <2>2
  <2>5. TurnInv(d)' /\ ReadyInv(d)' /\ HolderMoves(d)
      BY <1>3, <2>3, <2>4 DEF TurnInv, ReadyInv, InProgress, CardAt, HolderMoves
  <2> QED
      BY <1>1, <2>3, <2>4, <2>5, CardMoves
<1> QED
    BY <1>2, <1>3 DEF AcquireForCard

LEMMA ReadCardKeeps ==
    ASSUME CardInv, NEW d \in CardCalls, ReadCard(d) PROVE CardInv'
<1>1. /\ UNCHANGED <<tier, links, cardStatus, events>> /\ TablesTyped /\ Rightful(d) /\ CardAt(d, "held")
      /\ call[d].req.kind # "link" /\ TurnInv(d)
    BY TablesStay DEF ReadCard, CardInv
<1>2. CASE ~Accepted(call[d].req)
    BY <1>1, <1>2, AnswerMoves, CardEnds DEF ReadCard
<1>3. CASE Accepted(call[d].req)
  <2>1. call[d] \in CardCallState /\ call \in [CardCalls -> CardCallState]
      BY DEF CardInv, CardTyped
  <2>2. PICK w : w = [call[d] EXCEPT !.pc = "ready", !.old = cardStatus, !.fresh = MissingRefs(call[d].req)]
      OBVIOUS
  <2>3. call[d].req \in CardRequests /\ (d \in Cli => holder = d)
      BY <1>1 DEF TurnInv, InProgress, CardAt
  <2>4. MissingRefs(call[d].req) \subseteq DOMAIN call[d].req.refs /\ MissingRefs(call[d].req) \in SUBSET Nat
      BY <2>3, FiniteRefs DEF MissingRefs
  <2>5. /\ w \in CardCallState /\ w.pc = "ready" /\ w.req = call[d].req /\ w.old = cardStatus
        /\ w.fresh = MissingRefs(call[d].req)
      BY <2>1, <2>2, <2>4 DEF CardCallState, CardStages, CardInv, CardTyped
  <2>6. call' = [call EXCEPT ![d] = w] /\ call'[d] = w /\ holder' = holder
      BY <1>3, <2>1, <2>2 DEF ReadCard
  <2>7. TurnInv(d)' /\ HolderMoves(d)
      BY <1>1, <2>3, <2>5, <2>6 DEF TurnInv, InProgress, CardAt, HolderMoves
  <2>8. ReadyInv(d)'
    <3>1. ASSUME w.req.kind = "promote", w.req.gated
          PROVE  GateAllows(w.req, [Counts(links) EXCEPT !["verification"] = @ + Cardinality(w.fresh)])
        BY <1>3, <2>5, <3>1 DEF Accepted, ProjectedCounts, RoleOf
    <3>2. call'[d].req = w.req /\ call'[d].fresh = w.fresh /\ call'[d].old = cardStatus' /\ w.fresh \subseteq DOMAIN w.req.refs
        BY <1>1, <2>4, <2>5, <2>6
    <3> QED
        BY <1>1, <2>6, <3>1, <3>2 DEF ReadyInv, Expected, GateAllows, Requirements, Counts
  <2> QED
      BY <1>1, <2>5, <2>6, <2>7, <2>8, CardMoves
<1> QED
    BY <1>2, <1>3

LEMMA EventTyped ==
    ASSUME CardInv, NEW d \in CardCalls, CardAt(d, "ready") \/ CardAt(d, "updated")
    PROVE  /\ EventOf(d) \in CardEvent /\ call[d].req \in CardRequests /\ call[d].req.kind # "link"
           /\ EventOf(d).from = call[d].old /\ EventOf(d).to = call[d].req.to
<1>1. call[d].req \in CardRequests /\ call[d] \in CardCallState /\ call[d].req.kind # "link"
    BY DEF CardInv, CardTyped, TurnInv, InProgress, CardAt
<1>2. EventType(call[d].req) \in {"promoted", "retired", "demoted"}
    BY DEF EventType
<1>3. /\ call[d].req.reason \in {r.reason : r \in CardRequests} /\ call[d].req.to \in {r.to : r \in CardRequests}
      /\ call[d].old \in {r.to : r \in CardRequests} \cup {"none", "demoted"}
    BY <1>1 DEF CardCallState
<1> QED
    BY <1>1, <1>2, <1>3 DEF EventOf, CardEvent

LEMMA FreshFinite ==
    ASSUME CardInv, NEW d \in CardCalls, CardAt(d, "ready"), holder = d
    PROVE  IsFiniteSet(call[d].fresh) /\ RoleOf(call[d].req) \in Roles
<1>1. call[d].req \in CardRequests /\ call[d].fresh \subseteq DOMAIN call[d].req.refs
    BY DEF CardInv, TurnInv, ReadyInv, InProgress, CardAt
<1>2. IsFiniteSet(DOMAIN call[d].req.refs)
    BY <1>1, FiniteRefs
<1> QED
    BY <1>1, <1>2, FS_Subset DEF RoleOf, Roles

\* The call has written everything and goes on to read the links back.
LEMMA CardCommits ==
    ASSUME CardInv, NEW d \in CardCalls, CardAt(d, "ready") \/ CardAt(d, "updated"), CardGoto(d, "committed"),
           tier' = tier, holder' = holder, Rightful(d), TablesTyped
    PROVE  CardInv'
<1>1. PICK w \in CardCallState :
         /\ call' = [call EXCEPT ![d] = w] /\ call'[d] = w /\ w.pc = "committed" /\ w.req = call[d].req
    BY CardGoes DEF CardStages
<1>2. TurnInv(d)
    BY DEF CardInv
<1>3. TurnInv(d)' /\ ReadyInv(d)' /\ HolderMoves(d)
    BY <1>1, <1>2 DEF TurnInv, ReadyInv, InProgress, CardAt, HolderMoves
<1> QED
    BY <1>1, <1>3, CardMoves

LEMMA ApplyFencedKeeps ==
    ASSUME CardInv, NEW d \in CardCalls, ApplyFenced(d) PROVE CardInv'
<1>1. CardAt(d, "ready") /\ d \notin Cli /\ tier' = tier
    BY DEF ApplyFenced
<1>2. CASE AnswerCard(d, "refused") /\ UNCHANGED <<links, cardStatus, events>>
    BY <1>1, <1>2, TablesStay, AnswerMoves, CardEnds
<1>3. CASE /\ holder = d /\ ~LinksClash(call[d].req.refs, call[d].fresh, RoleOf(call[d].req))
           /\ links' = WithLinks(call[d].req.refs, call[d].fresh, RoleOf(call[d].req))
           /\ cardStatus' = call[d].req.to /\ events' = Append(events, EventOf(d))
           /\ CardGoto(d, "committed") /\ UNCHANGED holder
  <2>1. IsFiniteSet(links')
      BY <1>1, <1>3, FreshFinite, CountsAfter DEF CardInv
  <2>2. EventOf(d) \in CardEvent /\ call[d].req \in CardRequests /\ events \in Seq(CardEvent)
      BY <1>1, EventTyped DEF CardInv, CardTyped
  <2>3. TablesTyped /\ Rightful(d) /\ HolderMoves(d)
      BY <1>3, <2>1, <2>2 DEF TablesTyped, Rightful, HolderMoves
  <2> QED
      BY <1>1, <1>3, <2>3, CardCommits
<1> QED
    BY <1>2, <1>3 DEF ApplyFenced, FenceHolds

LEMMA AddTwice ==
    ASSUME NEW R, NEW f \in [R -> Nat], NEW k \in R, NEW n \in Nat
    PROVE  [[f EXCEPT ![k] = @ + 1] EXCEPT ![k] = @ + (n - 1)] = [f EXCEPT ![k] = @ + n]
<1>1. PICK g : g = [f EXCEPT ![k] = @ + 1]
    OBVIOUS
<1>2. g[k] + (n - 1) = f[k] + n /\ \A r \in R \ {k} : g[r] = f[r]
    BY <1>1
<1>3. [g EXCEPT ![k] = g[k] + (n - 1)] = [r \in R |-> IF r = k THEN g[k] + (n - 1) ELSE g[r]]
    BY <1>1
<1>4. [f EXCEPT ![k] = f[k] + n] = [r \in R |-> IF r = k THEN f[k] + n ELSE f[r]]
    OBVIOUS
<1>5. [r \in R |-> IF r = k THEN g[k] + (n - 1) ELSE g[r]] = [r \in R |-> IF r = k THEN f[k] + n ELSE f[r]]
    BY <1>2
<1> QED
    BY <1>1, <1>3, <1>4, <1>5

LEMMA CliInsertLinkKeeps ==
    ASSUME CardInv, NEW d \in CardCalls, NEW i \in call[d].fresh, CliInsertLink(d, i) PROVE CardInv'
<1>1. CardAt(d, "ready") /\ d \in Cli /\ UNCHANGED <<tier, cardStatus, events>> /\ TurnInv(d) /\ ReadyInv(d)
    BY DEF CliInsertLink, CardInv
<1>2. holder = d /\ call[d].req \in CardRequests
    BY <1>1 DEF TurnInv, InProgress, CardAt
<1>3. CASE AnswerCard(d, "refused") /\ UNCHANGED links
    BY <1>1, <1>3, TablesStay, AnswerMoves, CardEnds
<1>4. CASE /\ ~LinksClash(call[d].req.refs, {i}, RoleOf(call[d].req))
           /\ links' = WithLinks(call[d].req.refs, {i}, RoleOf(call[d].req))
           /\ call' = [call EXCEPT ![d].fresh = @ \ {i}] /\ UNCHANGED holder
  <2>1. call[d] \in CardCallState /\ call \in [CardCalls -> CardCallState]
      BY DEF CardInv, CardTyped
  <2>2. PICK w : w = [call[d] EXCEPT !.fresh = @ \ {i}]
      OBVIOUS
  <2>3. w \in CardCallState /\ w.pc = "ready" /\ w.req = call[d].req /\ w.old = call[d].old /\ w.fresh = call[d].fresh \ {i}
      BY <1>1, <2>1, <2>2 DEF CardCallState, CardAt
  <2>4. call' = [call EXCEPT ![d] = w] /\ call'[d] = w
      BY <1>4, <2>1, <2>2
  <2>5. IsFiniteSet({i}) /\ Cardinality({i}) = 1
      BY FS_Singleton
  <2>6. IsFiniteSet(call[d].fresh) /\ RoleOf(call[d].req) \in Roles
      BY <1>1, <1>2, FreshFinite
  <2>7. IsFiniteSet(links') /\ Counts(links') = [Counts(links) EXCEPT ![RoleOf(call[d].req)] = @ + 1]
      BY <1>4, <2>5, <2>6, CountsAfter DEF CardInv
  <2>8. TurnInv(d)' /\ HolderMoves(d) /\ Rightful(d) /\ TablesTyped
    <3>1. TablesTyped
        BY <1>1, <2>7 DEF TablesTyped, CardInv, CardTyped
    <3> QED
        BY <1>1, <1>2, <1>4, <2>3, <2>4, <3>1 DEF TurnInv, InProgress, CardAt, HolderMoves, Rightful
  <2>9. ReadyInv(d)'
    <3>1. Cardinality(w.fresh) = Cardinality(call[d].fresh) - 1 /\ Cardinality(call[d].fresh) \in Nat
        BY <2>3, <2>6, FS_RemoveElement, FS_CardinalityType
    <3>2. ASSUME call[d].req.kind = "promote", call[d].req.gated
          PROVE  GateAllows(call[d].req, [Counts(links') EXCEPT !["verification"] = @ + Cardinality(w.fresh)])
      <4>1. GateAllows(call[d].req, [Counts(links) EXCEPT !["verification"] = @ + Cardinality(call[d].fresh)])
          BY <1>1, <1>2, <3>2 DEF ReadyInv, Expected
      <4>2. RoleOf(call[d].req) = "verification"
          BY <3>2 DEF RoleOf
      <4>3. Counts(links) \in [Roles -> Nat]
        <5>1. \A role \in Roles : IsFiniteSet({l \in links : l[2] = role})
          <6>1. IsFiniteSet(links) /\ \A role \in Roles : {l \in links : l[2] = role} \in SUBSET links
              BY DEF CardInv, CardTyped
          <6> QED
              BY <6>1, FS_Subset
        <5>2. \A role \in Roles : Cardinality({l \in links : l[2] = role}) \in Nat
            BY <5>1, FS_CardinalityType
        <5> QED
            BY <5>2 DEF Counts
      <4>4. [Counts(links') EXCEPT !["verification"] = @ + Cardinality(w.fresh)]
                = [Counts(links) EXCEPT !["verification"] = @ + Cardinality(call[d].fresh)]
        <5> HIDE DEF Counts
        <5>1. PICK n : n = Counts(links)
            OBVIOUS
        <5>2. PICK m : m = Cardinality(call[d].fresh)
            OBVIOUS
        <5>3. n \in [Roles -> Nat] /\ m \in Nat /\ "verification" \in Roles
            BY <3>1, <4>3, <5>1, <5>2 DEF Roles
        <5>4. [[n EXCEPT !["verification"] = @ + 1] EXCEPT !["verification"] = @ + (m - 1)]
                  = [n EXCEPT !["verification"] = @ + m]
            BY <5>3, AddTwice
        <5> QED
            BY <2>7, <3>1, <4>2, <5>1, <5>2, <5>4
      <4> QED
          BY <4>1, <4>4
    <3>3. call'[d].old = cardStatus' /\ call'[d].fresh \subseteq DOMAIN call'[d].req.refs
        BY <1>1, <1>2, <2>3, <2>4 DEF ReadyInv
    <3>4. ASSUME call[d].req.kind = "promote", call[d].req.gated
          PROVE  GateAllows(call[d].req, [Counts(links) EXCEPT !["verification"] = @ + Cardinality(w.fresh)])'
        BY <1>1, <2>3, <2>4, <3>2, <3>4 DEF GateAllows, Requirements, Counts
    <3> QED
        BY <2>3, <2>4, <3>3, <3>4 DEF ReadyInv, Expected
  <2> QED
      BY <1>1, <2>3, <2>4, <2>8, <2>9, CardMoves
<1> QED
    BY <1>3, <1>4 DEF CliInsertLink

LEMMA CliUpdateCardKeeps ==
    ASSUME CardInv, NEW d \in CardCalls, CliUpdateCard(d) PROVE CardInv'
<1>1. /\ CardAt(d, "ready") /\ d \in Cli /\ cardStatus' = call[d].req.to /\ CardGoto(d, "updated")
      /\ UNCHANGED <<tier, links, events, holder>> /\ TurnInv(d)
    BY DEF CliUpdateCard, CardInv
<1>2. holder = d /\ call[d].req \in CardRequests /\ call[d].req.kind # "link"
    BY <1>1 DEF TurnInv, InProgress, CardAt
<1>3. PICK w \in CardCallState : call' = [call EXCEPT ![d] = w] /\ call'[d] = w /\ w.pc = "updated" /\ w.req = call[d].req
    BY <1>1, CardGoes DEF CardStages
<1>4. TurnInv(d)' /\ ReadyInv(d)' /\ HolderMoves(d) /\ Rightful(d)
    BY <1>1, <1>2, <1>3 DEF TurnInv, ReadyInv, InProgress, CardAt, HolderMoves, Rightful
<1>5. TablesTyped
    BY <1>1, <1>2 DEF TablesTyped, CardInv, CardTyped
<1> QED
    BY <1>1, <1>3, <1>4, <1>5, CardMoves

LEMMA CliAppendEventKeeps ==
    ASSUME CardInv, NEW d \in CardCalls, CliAppendEvent(d) PROVE CardInv'
<1>1. CardAt(d, "updated") /\ UNCHANGED <<tier, links, cardStatus>>
    BY DEF CliAppendEvent
<1>2. EventOf(d) \in CardEvent /\ events \in Seq(CardEvent)
    BY <1>1, EventTyped DEF CardInv, CardTyped
<1>3. TablesTyped /\ Rightful(d)
    BY <1>1, <1>2 DEF TablesTyped, Rightful, CliAppendEvent, CardInv, CardTyped
<1>4. CASE AnswerCard(d, "torn")
    BY <1>1, <1>3, <1>4, AnswerMoves, CardEnds
<1>5. CASE CardGoto(d, "committed") /\ UNCHANGED holder
    BY <1>1, <1>3, <1>5, CardCommits
<1> QED
    BY <1>4, <1>5 DEF CliAppendEvent

LEMMA ReadBackKeeps ==
    ASSUME CardInv, NEW d \in CardCalls, ReadBack(d) PROVE CardInv'
<1>1. tier' = tier /\ TablesTyped /\ Rightful(d)
    BY TablesStay DEF ReadBack
<1>2. \E p \in {"ok", "failed"} : AnswerCard(d, p)
    BY DEF ReadBack
<1> QED
    BY <1>1, <1>2, AnswerMoves, CardEnds

LEMMA LinkEvidenceKeeps ==
    ASSUME CardInv, NEW d \in CardCalls, LinkEvidence(d) PROVE CardInv'
<1>1. /\ CardAt(d, "held") /\ call[d].req.kind = "link" /\ UNCHANGED <<tier, cardStatus, events>>
      /\ holder = d /\ call[d].req \in CardRequests
    BY DEF LinkEvidence, CardInv, TurnInv, InProgress, CardAt
<1>2. CASE AnswerCard(d, "refused") /\ UNCHANGED links
    BY <1>1, <1>2, TablesStay, AnswerMoves, CardEnds
<1>3. CASE /\ ~LinksClash(call[d].req.refs, DOMAIN call[d].req.refs, call[d].req.to)
           /\ AnswerCard(d, "ok") /\ links' = WithLinks(call[d].req.refs, DOMAIN call[d].req.refs, call[d].req.to)
  <2>1. PICK new : new = {<<call[d].req.refs[i], call[d].req.to>> : i \in DOMAIN call[d].req.refs}
      OBVIOUS
  <2>2. IsFiniteSet(new) /\ IsFiniteSet(links)
    <3>1. IsFiniteSet(DOMAIN call[d].req.refs) /\ CardTyped
        BY <1>1, FiniteRefs DEF CardInv
    <3> QED
        BY <1>3, <2>1, <3>1, NewLinks DEF CardTyped
  <2>3. IsFiniteSet(links')
      BY <1>3, <2>1, <2>2, FS_Union DEF WithLinks
  <2>4. TablesTyped /\ Rightful(d)
      BY <1>1, <2>3 DEF TablesTyped, Rightful, CardInv, CardTyped
  <2> QED
      BY <1>1, <1>3, <2>4, AnswerMoves, CardEnds
<1> QED
    BY <1>2, <1>3 DEF LinkEvidence

LEMMA LeaseLapsesKeeps ==
    ASSUME CliInTime, CardInv, NEW d \in CardCalls, LeaseLapses(d) PROVE CardInv'
<1>1. /\ UNCHANGED <<tier, cardStatus, links, events, call>> /\ holder = d /\ holder' = NoHolder /\ d \notin Cli
      /\ TurnInv(d)
    BY DEF LeaseLapses, CliInTime, CardInv
<1>2. PICK w : w = call[d]
    OBVIOUS
<1>3. w \in CardCallState /\ call' = [call EXCEPT ![d] = w]
    BY <1>1, <1>2 DEF CardInv, CardTyped
<1>4. TurnInv(d)' /\ ReadyInv(d)' /\ HolderMoves(d)
    BY <1>1, CardAssumption DEF TurnInv, ReadyInv, InProgress, CardAt, HolderMoves
<1> QED
    BY <1>1, <1>3, <1>4, TablesStay, CardMoves

LEMMA CardInitInv == CardInit => CardInv
<1> SUFFICES ASSUME CardInit PROVE CardInv
    OBVIOUS
<1>1. Untouched \in CardCallState /\ Untouched.pc = "idle"
    BY DEF Untouched, CardCallState, CardStages
<1>2. call \in [CardCalls -> CardCallState] /\ \A c \in CardCalls : call[c].pc = "idle"
    BY <1>1 DEF CardInit
<1>3. CardTyped
    BY <1>2, CardAssumption DEF CardInit, CardTyped
<1>4. \A c \in CardCalls : TurnInv(c) /\ ReadyInv(c)
    BY <1>2 DEF TurnInv, ReadyInv, InProgress, CardAt
<1> QED
    BY <1>3, <1>4 DEF CardInv

LEMMA CardNextInv == CliInTime /\ CardInv /\ [CardNext]_cardVars => CardInv'
<1> SUFFICES ASSUME CliInTime, CardInv, [CardNext]_cardVars PROVE CardInv'
    OBVIOUS
<1>1. CASE UNCHANGED cardVars
  <2>1. CardTyped'
      BY <1>1 DEF cardVars, CardInv, CardTyped
  <2>2. \A c \in CardCalls : TurnInv(c)' /\ ReadyInv(c)'
      BY <1>1 DEF cardVars, CardInv, TurnInv, ReadyInv, InProgress, CardAt, Expected, Counts, GateAllows, Requirements
  <2> QED
      BY <2>1, <2>2 DEF CardInv
<1>2. ASSUME NEW d \in CardCalls, AcquireForCard(d) \/ ReadCard(d) \/ ApplyFenced(d) \/ (\E i \in call[d].fresh : CliInsertLink(d, i))
      PROVE  CardInv'
    BY <1>2, AcquireForCardKeeps, ReadCardKeeps, ApplyFencedKeeps, CliInsertLinkKeeps
<1>3. ASSUME NEW d \in CardCalls,
             CliUpdateCard(d) \/ CliAppendEvent(d) \/ ReadBack(d) \/ LinkEvidence(d) \/ LeaseLapses(d)
      PROVE  CardInv'
    BY <1>3, CliUpdateCardKeeps, CliAppendEventKeeps, ReadBackKeeps, LinkEvidenceKeeps, LeaseLapsesKeeps
<1>4. ASSUME NEW d \in CardCalls, CardCallDies(d) PROVE CardInv'
  <2>1. (\E p \in {"torn", "dead"} : AnswerCard(d, p)) /\ tier' = tier /\ TablesTyped /\ Rightful(d)
      BY <1>4, TablesStay DEF CardCallDies
  <2> QED
      BY <2>1, AnswerMoves, CardEnds
<1> QED
    BY <1>1, <1>2, <1>3, <1>4 DEF CardNext

\* The inductive invariant of the card's lifecycle holds in every state.
THEOREM CardInvariant == CliInTime => (CardSpec => []CardInv)
<1> SUFFICES ASSUME CliInTime PROVE CardSpec => []CardInv
    OBVIOUS
<1>1. CardInit => CardInv
    BY CardInitInv
<1>2. CardInv /\ [CardNext]_cardVars => CardInv'
    BY CardNextInv
<1> QED
    BY <1>1, <1>2, PTL DEF CardSpec

\* A call only moves by its own steps.
LEMMA OwnCardStep ==
    ASSUME CardInv, NEW d \in CardCalls, NEW c \in CardCalls, c # d,
           \/ AcquireForCard(d) \/ ReadCard(d) \/ ApplyFenced(d) \/ (\E i \in call[d].fresh : CliInsertLink(d, i))
           \/ CliUpdateCard(d) \/ CliAppendEvent(d) \/ ReadBack(d) \/ LinkEvidence(d) \/ LeaseLapses(d) \/ CardCallDies(d)
    PROVE  call'[c] = call[c]
<1>1. call \in [CardCalls -> CardCallState]
    BY DEF CardInv, CardTyped
<1>2. \A p : CardGoto(d, p) => call'[c] = call[c]
    BY <1>1 DEF CardGoto
<1>3. CASE AcquireForCard(d) \/ ReadCard(d) \/ (\E i \in call[d].fresh : CliInsertLink(d, i))
    BY <1>1, <1>2, <1>3 DEF AcquireForCard, ReadCard, CliInsertLink, AnswerCard
<1>4. CASE ApplyFenced(d) \/ CliUpdateCard(d) \/ CliAppendEvent(d) \/ ReadBack(d) \/ LinkEvidence(d) \/ CardCallDies(d)
    BY <1>2, <1>4 DEF ApplyFenced, CliUpdateCard, CliAppendEvent, ReadBack, LinkEvidence, CardCallDies, AnswerCard
<1>5. CASE LeaseLapses(d)
    BY <1>5 DEF LeaseLapses
<1> QED
    BY <1>3, <1>4, <1>5

\* A gated promotion takes effect only on a card whose evidence, as it is linked at
\* that moment, meets the gate: with the fence for a call of the MCP server, and
\* link by link for a command that ends before its lease runs out.
THEOREM CardsGateHolds == CliInTime => (CardSpec => GateHoldsWhenPromoted)
<1> SUFFICES ASSUME CliInTime PROVE CardSpec => GateHoldsWhenPromoted
    OBVIOUS
<1>1. ASSUME CardInv, CardNext, NEW c \in CardCalls, WritesStatus(c), call[c].req.kind = "promote", call[c].req.gated
      PROVE  GateAllows(call[c].req, Counts(links'))
  <2>1. CardAt(c, "ready") /\ call'[c].pc \in {"updated", "committed"} /\ TurnInv(c) /\ ReadyInv(c) /\ call'[c] # call[c]
      BY <1>1 DEF WritesStatus, CardInv, CardAt
  <2>2. call \in [CardCalls -> CardCallState] /\ call[c] \in CardCallState
      BY <1>1 DEF CardInv, CardTyped
  <2>3. ASSUME NEW p, CardGoto(c, p) PROVE p \in {"updated", "committed"}
      BY <2>1, <2>2, <2>3 DEF CardGoto, CardCallState
  <2>4. ApplyFenced(c) \/ CliUpdateCard(c)
    <3>1. ~AcquireForCard(c) /\ ~ReadCard(c) /\ ~LinkEvidence(c) /\ ~CliAppendEvent(c) /\ ~ReadBack(c)
        BY <2>1 DEF AcquireForCard, ReadCard, LinkEvidence, CliAppendEvent, ReadBack, CardAt
    <3>2. ~LeaseLapses(c) /\ ~CardCallDies(c)
        BY <2>1, <2>3 DEF LeaseLapses, CardCallDies, AnswerCard
    <3>3. \A i \in call[c].fresh : ~CliInsertLink(c, i)
      <4> SUFFICES ASSUME NEW i \in call[c].fresh, CliInsertLink(c, i) PROVE FALSE
          OBVIOUS
      <4>1. call' = [call EXCEPT ![c].fresh = @ \ {i}]
          BY <2>3 DEF CliInsertLink, AnswerCard
      <4> QED
          BY <2>1, <2>2, <4>1 DEF CardCallState, CardAt
    <3> QED
        BY <1>1, <2>1, <3>1, <3>2, <3>3, OwnCardStep DEF CardNext
  <2>5. holder = c
    <3>1. CASE ApplyFenced(c)
        BY <2>3, <3>1 DEF ApplyFenced, AnswerCard, FenceHolds
    <3>2. CASE CliUpdateCard(c)
        BY <2>1, <3>2 DEF CliUpdateCard, TurnInv, InProgress, CardAt
    <3> QED
        BY <2>4, <3>1, <3>2
  <2>6. GateAllows(call[c].req, [Counts(links) EXCEPT !["verification"] = @ + Cardinality(call[c].fresh)])
      BY <1>1, <2>1, <2>5 DEF ReadyInv, Expected
  <2>7. CASE ApplyFenced(c)
    <3>1. /\ ~LinksClash(call[c].req.refs, call[c].fresh, "verification")
          /\ links' = WithLinks(call[c].req.refs, call[c].fresh, "verification")
        BY <1>1, <2>3, <2>7 DEF ApplyFenced, AnswerCard, RoleOf
    <3>2. Counts(links') = [Counts(links) EXCEPT !["verification"] = @ + Cardinality(call[c].fresh)]
        BY <1>1, <2>1, <2>5, <3>1, FreshFinite, CountsAfter DEF CardInv, Roles
    <3> QED
        BY <2>6, <3>2
  <2>8. CASE CliUpdateCard(c)
    <3>1. links' = links /\ Cardinality(call[c].fresh) = 0
        BY <2>8, FS_EmptySet DEF CliUpdateCard
    <3>2. Counts(links) = [Counts(links) EXCEPT !["verification"] = @ + 0]
      <4>1. \A role \in Roles : IsFiniteSet({l \in links : l[2] = role})
        <5>1. IsFiniteSet(links) /\ \A role \in Roles : {l \in links : l[2] = role} \in SUBSET links
            BY <1>1 DEF CardInv, CardTyped
        <5> QED
            BY <5>1, FS_Subset
      <4>2. \A role \in Roles : Cardinality({l \in links : l[2] = role}) \in Nat
          BY <4>1, FS_CardinalityType
      <4>3. Counts(links) \in [Roles -> Nat]
          BY <4>2 DEF Counts
      <4>4. PICK n : n = Counts(links)
          OBVIOUS
      <4>5. n \in [Roles -> Nat] /\ "verification" \in Roles
          BY <4>3, <4>4 DEF Roles
      <4>6. [n EXCEPT !["verification"] = @ + 0] = n
          BY <4>5
      <4> QED
          BY <4>4, <4>6
    <3> QED
        BY <2>6, <3>1, <3>2
  <2> QED
      BY <2>4, <2>7, <2>8
<1>2. CardInv /\ [CardNext]_cardVars =>
          [\A c \in CardCalls : WritesStatus(c) /\ call[c].req.kind = "promote" /\ call[c].req.gated
              => GateAllows(call[c].req, Counts(links'))]_cardVars
    BY <1>1
<1>3. CardSpec => []CardInv
    BY CardInvariant
<1> QED
    BY <1>2, <1>3, PTL DEF CardSpec, GateHoldsWhenPromoted

\* One more event that starts where the last one ended.
LEMMA HistoryGrows ==
    ASSUME CardTyped, Linked, NEW e \in CardEvent, e.from = LastStatus, events' = Append(events, e)
    PROVE  Linked' /\ LastStatus' = e.to
<1>1. events \in Seq(CardEvent) /\ Len(events) \in Nat /\ DOMAIN events = 1..Len(events)
    BY DEF CardTyped
<1>2. /\ events' \in Seq(CardEvent) /\ Len(events') = Len(events) + 1 /\ DOMAIN events' = 1..(Len(events) + 1)
      /\ events'[Len(events) + 1] = e /\ \A i \in 1..Len(events) : events'[i] = events[i]
    BY <1>1
<1>3. LastStatus' = e.to
    BY <1>1, <1>2 DEF LastStatus
<1>4. ASSUME NEW i \in 1..Len(events) PROVE events'[i].from = IF i = 1 THEN "demoted" ELSE events'[i - 1].to
  <2>1. events[i].from = IF i = 1 THEN "demoted" ELSE events[i - 1].to
      BY <1>1 DEF Linked
  <2>2. i # 1 => i - 1 \in 1..Len(events)
      BY <1>1
  <2> QED
      BY <1>2, <2>1, <2>2
<1>5. e.from = IF Len(events) + 1 = 1 THEN "demoted" ELSE events'[Len(events) + 1 - 1].to
  <2>1. CASE Len(events) = 0
      BY <1>1, <2>1 DEF LastStatus
  <2>2. CASE Len(events) # 0
    <3>1. events # <<>> /\ Len(events) \in 1..Len(events) /\ Len(events) + 1 - 1 = Len(events)
        BY <1>1, <2>2
    <3> QED
        BY <1>2, <2>2, <3>1 DEF LastStatus
  <2> QED
      BY <2>1, <2>2
<1>6. \A i \in DOMAIN events' : i \in 1..Len(events) \/ i = Len(events) + 1
    BY <1>1, <1>2
<1>7. Linked'
    BY <1>2, <1>4, <1>5, <1>6 DEF Linked
<1> QED
    BY <1>3, <1>7

\* Only a command is ever between its writes, and it has the lease then.
LEMMA OneBetweenWrites ==
    ASSUME CardInv, NEW c \in CardCalls, CardAt(c, "updated") PROVE holder = c
BY DEF CardInv, TurnInv, InProgress, CardAt

LEMMA ChainQuiet ==
    ASSUME ChainInv, NEW d \in CardCalls, \A c \in CardCalls \ {d} : call'[c] = call[c],
           UNCHANGED <<events, cardStatus>>, ~CardAt(d, "torn"), ~CardAt(d, "updated")',
           CardAt(d, "updated") => CardAt(d, "torn")'
    PROVE  ChainInv'
<1> SUFFICES ASSUME \A c \in CardCalls : ~CardAt(c, "torn")' PROVE
        /\ Linked' /\ ((\A c \in CardCalls : ~CardAt(c, "updated")') => cardStatus' = LastStatus')
        /\ \A c \in CardCalls : CardAt(c, "updated")' => call'[c].old = LastStatus' /\ cardStatus' = call'[c].req.to
    BY DEF ChainInv
<1>1. \A c \in CardCalls : (CardAt(c, "updated")' <=> CardAt(c, "updated")) /\ ~CardAt(c, "torn")
    BY DEF CardAt
<1>2. Linked' = Linked /\ LastStatus' = LastStatus /\ cardStatus' = cardStatus
    BY DEF Linked, LastStatus
<1>3. \A c \in CardCalls : CardAt(c, "updated")' => call'[c] = call[c]
    OBVIOUS
<1> QED
    BY <1>1, <1>2, <1>3 DEF ChainInv

\* The call appends its event, from the status the card had to the one it has now.
LEMMA ChainCommit ==
    ASSUME CardInv, ChainInv, NEW d \in CardCalls, \A c \in CardCalls \ {d} : call'[c] = call[c],
           CardAt(d, "committed")', events' = Append(events, EventOf(d)), cardStatus' = call[d].req.to, holder = d,
           CardAt(d, "ready") \/ CardAt(d, "updated")
    PROVE  ChainInv'
<1> SUFFICES ASSUME \A c \in CardCalls : ~CardAt(c, "torn")' PROVE
        /\ Linked' /\ ((\A c \in CardCalls : ~CardAt(c, "updated")') => cardStatus' = LastStatus')
        /\ \A c \in CardCalls : CardAt(c, "updated")' => call'[c].old = LastStatus' /\ cardStatus' = call'[c].req.to
    BY DEF ChainInv
<1>1. \A c \in CardCalls : ~CardAt(c, "torn")
    BY DEF CardAt
<1>2. \A c \in CardCalls \ {d} : ~CardAt(c, "updated") /\ ~CardAt(c, "updated")'
    BY OneBetweenWrites DEF CardAt
<1>3. ~CardAt(d, "updated")'
    BY DEF CardAt
<1>4. EventOf(d) \in CardEvent /\ EventOf(d).from = call[d].old /\ EventOf(d).to = call[d].req.to
    BY EventTyped
<1>5. call[d].old = LastStatus
  <2>1. CASE CardAt(d, "updated")
      BY <1>1, <2>1 DEF ChainInv
  <2>2. CASE CardAt(d, "ready")
    <3>1. call[d].old = cardStatus
        BY <2>2 DEF CardInv, ReadyInv
    <3>2. \A c \in CardCalls : ~CardAt(c, "updated")
        BY <1>2, <2>2 DEF CardAt
    <3> QED
        BY <1>1, <3>1, <3>2 DEF ChainInv
  <2> QED
      BY <2>1, <2>2
<1>6. PICK e \in CardEvent : e = EventOf(d)
    BY <1>4
<1>7. Linked' /\ LastStatus' = e.to
  <2>1. CardTyped /\ Linked /\ e.from = LastStatus /\ events' = Append(events, e)
      BY <1>1, <1>4, <1>5, <1>6 DEF CardInv, ChainInv
  <2> QED
      BY <2>1, HistoryGrows
<1> QED
    BY <1>2, <1>3, <1>4, <1>6, <1>7

LEMMA ChainUpdate ==
    ASSUME CardInv, ChainInv, NEW d \in CardCalls, CliUpdateCard(d) PROVE ChainInv'
<1>1. CardAt(d, "ready") /\ d \in Cli /\ CardGoto(d, "updated") /\ cardStatus' = call[d].req.to /\ events' = events
    BY DEF CliUpdateCard
<1>2. holder = d /\ call[d].old = cardStatus
    BY <1>1 DEF CardInv, TurnInv, ReadyInv, InProgress, CardAt
<1>3. PICK w \in CardCallState :
         call' = [call EXCEPT ![d] = w] /\ call'[d] = w /\ w.pc = "updated" /\ w.req = call[d].req /\ w.old = call[d].old
    BY <1>1, CardGoes DEF CardStages
<1>4. \A c \in CardCalls \ {d} : call'[c] = call[c]
    BY <1>3 DEF CardInv, CardTyped
<1>5. \A c \in CardCalls : ~CardAt(c, "updated")
    BY <1>1, <1>2, OneBetweenWrites DEF CardAt
<1>6. \A c \in CardCalls : CardAt(c, "updated")' <=> c = d
    BY <1>3, <1>4, <1>5 DEF CardAt
<1>7. Linked' = Linked /\ LastStatus' = LastStatus
    BY <1>1 DEF Linked, LastStatus
<1>8. (\A c \in CardCalls : ~CardAt(c, "torn")') => \A c \in CardCalls : ~CardAt(c, "torn")
    BY <1>1, <1>4 DEF CardAt
<1>9. CASE \A c \in CardCalls : ~CardAt(c, "torn")
  <2>1. Linked /\ cardStatus = LastStatus
      BY <1>5, <1>9 DEF ChainInv
  <2>2. CardAt(d, "updated")' /\ call'[d].old = LastStatus' /\ cardStatus' = call'[d].req.to
      BY <1>1, <1>2, <1>3, <1>7, <2>1 DEF CardAt
  <2> QED
      BY <1>6, <1>7, <2>1, <2>2 DEF ChainInv
<1> QED
    BY <1>8, <1>9 DEF ChainInv

LEMMA ChainNext == CliInTime /\ CardInv /\ ChainInv /\ [CardNext]_cardVars => ChainInv'
<1> SUFFICES ASSUME CliInTime, CardInv, ChainInv, [CardNext]_cardVars PROVE ChainInv'
    OBVIOUS
<1>1. CASE UNCHANGED cardVars
    BY <1>1 DEF cardVars, ChainInv, CardAt, Linked, LastStatus
<1> SUFFICES ASSUME NEW d \in CardCalls,
           \/ AcquireForCard(d) \/ ReadCard(d) \/ ApplyFenced(d) \/ (\E i \in call[d].fresh : CliInsertLink(d, i))
           \/ CliUpdateCard(d) \/ CliAppendEvent(d) \/ ReadBack(d) \/ LinkEvidence(d) \/ LeaseLapses(d) \/ CardCallDies(d)
        PROVE ChainInv'
    BY <1>1 DEF CardNext
<1>2. \A c \in CardCalls \ {d} : call'[c] = call[c]
    BY OwnCardStep
<1>3. call \in [CardCalls -> CardCallState] /\ call[d] \in CardCallState /\ TurnInv(d)
    BY DEF CardInv, CardTyped
<1>4. ASSUME NEW p, CardGoto(d, p) PROVE call'[d].pc = p
    BY <1>3, <1>4 DEF CardGoto, CardCallState
<1>5. CASE AcquireForCard(d)
  <2>1. call'[d].pc \in {"held", "refused"}
    <3>1. ASSUME NEW r, call' = [call EXCEPT ![d].pc = "held", ![d].req = r] PROVE call'[d].pc = "held"
        BY <1>3, <3>1 DEF CardCallState
    <3> QED
        BY <1>4, <1>5, <3>1 DEF AcquireForCard
  <2> QED
      BY <1>2, <1>5, <2>1, ChainQuiet DEF AcquireForCard, CardAt
<1>6. CASE ReadCard(d)
  <2>1. call'[d].pc \in {"ready", "refused"}
    <3>1. ASSUME call' = [call EXCEPT ![d].pc = "ready", ![d].old = cardStatus, ![d].fresh = MissingRefs(call[d].req)]
          PROVE  call'[d].pc = "ready"
        BY <1>3, <3>1 DEF CardCallState
    <3> QED
        BY <1>4, <1>6, <3>1 DEF ReadCard, AnswerCard
  <2> QED
      BY <1>2, <1>6, <2>1, ChainQuiet DEF ReadCard, CardAt
<1>7. CASE ApplyFenced(d)
  <2>1. CASE AnswerCard(d, "refused") /\ UNCHANGED <<links, cardStatus, events>>
      BY <1>2, <1>4, <1>7, <2>1, ChainQuiet DEF ApplyFenced, AnswerCard, CardAt
  <2>2. CASE /\ holder = d /\ cardStatus' = call[d].req.to /\ events' = Append(events, EventOf(d))
             /\ CardGoto(d, "committed")
      BY <1>2, <1>4, <1>7, <2>2, ChainCommit DEF ApplyFenced, CardAt
  <2> QED
      BY <1>7, <2>1, <2>2 DEF ApplyFenced, FenceHolds
<1>8. ASSUME NEW i \in call[d].fresh, CliInsertLink(d, i) PROVE ChainInv'
  <2>1. call'[d].pc \in {"ready", "refused"}
    <3>1. ASSUME call' = [call EXCEPT ![d].fresh = @ \ {i}] PROVE call'[d].pc = call[d].pc
        BY <1>3, <3>1 DEF CardCallState
    <3> QED
        BY <1>4, <1>8, <3>1 DEF CliInsertLink, AnswerCard, CardAt
  <2> QED
      BY <1>2, <1>8, <2>1, ChainQuiet DEF CliInsertLink, CardAt
<1>9. CASE CliUpdateCard(d)
    BY <1>9, ChainUpdate
<1>10. CASE CliAppendEvent(d)
  <2>1. CardAt(d, "updated") /\ UNCHANGED <<tier, cardStatus, links>> /\ holder = d
      BY <1>10, OneBetweenWrites DEF CliAppendEvent
  <2>2. CASE AnswerCard(d, "torn") /\ UNCHANGED events
      BY <1>2, <1>4, <2>1, <2>2, ChainQuiet DEF AnswerCard, CardAt
  <2>3. CASE CardGoto(d, "committed") /\ events' = Append(events, EventOf(d))
    <3>1. CASE \A c \in CardCalls : ~CardAt(c, "torn")
      <4>1. cardStatus' = call[d].req.to /\ CardAt(d, "committed")'
          BY <1>4, <2>1, <2>3, <3>1 DEF ChainInv, CardAt
      <4> QED
          BY <1>2, <2>1, <2>3, <4>1, ChainCommit
    <3>2. CASE \E c \in CardCalls : CardAt(c, "torn")
      <4>1. \E c \in CardCalls : CardAt(c, "torn")'
          BY <1>2, <2>1, <3>2 DEF CardAt
      <4> QED
          BY <4>1 DEF ChainInv
    <3> QED
        BY <3>1, <3>2
  <2> QED
      BY <1>10, <2>2, <2>3 DEF CliAppendEvent
<1>11. CASE ReadBack(d)
    BY <1>2, <1>4, <1>11, ChainQuiet DEF ReadBack, AnswerCard, CardAt
<1>12. CASE LinkEvidence(d)
    BY <1>2, <1>4, <1>12, ChainQuiet DEF LinkEvidence, AnswerCard, CardAt
<1>13. CASE LeaseLapses(d)
  <2>1. UNCHANGED <<call, events, cardStatus>> /\ InProgress(d) /\ d \notin Cli
      BY <1>13 DEF LeaseLapses, CliInTime
  <2>2. ~CardAt(d, "updated") /\ ~CardAt(d, "torn")
      BY <1>3, <2>1 DEF TurnInv, InProgress, CardAt
  <2> QED
      BY <1>2, <2>1, <2>2, ChainQuiet DEF CardAt
<1>14. CASE CardCallDies(d)
    BY <1>2, <1>4, <1>14, ChainQuiet DEF CardCallDies, InProgress, AnswerCard, CardAt
<1> QED
    BY <1>5, <1>6, <1>7, <1>8, <1>9, <1>10, <1>11, <1>12, <1>13, <1>14

\* While no command was cut off between its writes of card and event, every event
\* starts from the status the one before it set and the last names the card's:
\* over lost leases, errors after the commit and deaths of any other call
\* (apply_card_lifecycle and the fence).
THEOREM CardsHistoryIsUnbroken == CliInTime => (CardSpec => []HistoryIsUnbroken)
<1> SUFFICES ASSUME CliInTime PROVE CardSpec => []HistoryIsUnbroken
    OBVIOUS
<1>1. CardInit => ChainInv
  <2> SUFFICES ASSUME CardInit PROVE ChainInv
      OBVIOUS
  <2>1. events = <<>> /\ cardStatus = "demoted" /\ \A c \in CardCalls : ~CardAt(c, "updated")
      BY DEF CardInit, CardAt, Untouched
  <2>2. DOMAIN events = {}
      BY <2>1
  <2> QED
      BY <2>1, <2>2 DEF ChainInv, Linked, LastStatus
<1>2. CardInv /\ ChainInv /\ [CardNext]_cardVars => ChainInv'
    BY ChainNext
<1>3. ChainInv => HistoryIsUnbroken
    BY DEF ChainInv, HistoryIsUnbroken, CardAt
<1>4. CardSpec => []CardInv
    BY CardInvariant
<1> QED
    BY <1>1, <1>2, <1>3, <1>4, PTL DEF CardSpec

----------------------------------------------------------------------------
\* The admission of database holders.

\* The lock of a lease file is held by the process whose handle names it; a live
\* holder that is listed has its lease file, and one that is open is listed.
HandleInv(p) ==
    /\ handle[p] # NoToken <=> pc[p] \in {"open", "dropping"}
    /\ handle[p] # NoToken => handle[p][1] = p /\ handle[p] \in locked
    /\ handle[p] \in listed => handle[p] \in leases
    /\ pc[p] = "open" => handle[p] \in listed

AdmInv ==
    /\ AdmTypeOK /\ IsFiniteSet(listed)
    /\ \A t \in locked : \E p \in Procs : handle[p] = t
    /\ \A p \in Procs : HandleInv(p)

\* A probe keeps exactly the live holders and the ones it cannot judge.
LEMMA SurvivorsAreAlive ==
    ASSUME AdmInv, NEW U \in SUBSET listed
    PROVE  /\ Survivors(listed, U) = Alive \cup (listed \cap U)
           /\ Survivors(listed, U) \subseteq listed /\ IsFiniteSet(Survivors(listed, U))
           /\ \A p \in Procs : handle[p] \in listed => handle[p] \in Survivors(listed, U)
<1>1. ASSUME NEW t \in listed PROVE t \in leases \cap locked <=> handle[t[1]] = t
  <2>1. t \in Tokens /\ t # NoToken /\ t[1] \in Procs
      BY TokenAssumption DEF AdmInv, AdmTypeOK, Tokens
  <2>2. ASSUME t \in locked PROVE handle[t[1]] = t
    <3>1. PICK p \in Procs : handle[p] = t
        BY <2>2 DEF AdmInv
    <3> QED
        BY <2>1, <3>1 DEF AdmInv, HandleInv
  <2>3. ASSUME handle[t[1]] = t PROVE t \in leases \cap locked
      BY <2>1, <2>3 DEF AdmInv, HandleInv
  <2> QED
      BY <2>2, <2>3
<1>2. Survivors(listed, U) = Alive \cup (listed \cap U)
    BY <1>1 DEF Survivors, Alive
<1>3. Survivors(listed, U) \subseteq listed
    BY DEF Survivors
<1>4. IsFiniteSet(Survivors(listed, U))
    BY <1>3, FS_Subset DEF AdmInv
<1>5. ASSUME NEW p \in Procs, handle[p] \in listed PROVE handle[p] \in Survivors(listed, U)
  <2>1. handle[p] # NoToken
      BY <1>5, TokenAssumption DEF AdmInv, AdmTypeOK
  <2> QED
      BY <1>5, <2>1 DEF AdmInv, HandleInv, Survivors
<1> QED
    BY <1>2, <1>3, <1>4, <1>5

LEMMA MintIsNew ==
    ASSUME AdmInv, NEW p \in Procs, CanMint(p)
    PROVE  Mint(p) \in Tokens /\ Mint(p)[1] = p /\ Mint(p) \notin Used
BY DEF CanMint, Mint, Tokens

\* A step that touches the files but nobody's handle: it keeps what a handle names.
LEMMA FilesStep ==
    ASSUME AdmInv, UNCHANGED <<handle, locked>>, left' \in [Procs -> 0..Attempts],
           pc' \in [Procs -> {"closed", "refused", "open", "dropping"}],
           \A p \in Procs : pc'[p] \in {"open", "dropping"} <=> pc[p] \in {"open", "dropping"},
           \A p \in Procs : pc'[p] = "open" => pc[p] = "open",
           listed' \subseteq Tokens, leases' \subseteq Tokens, unsure' \subseteq Tokens, IsFiniteSet(listed'),
           \A p \in Procs : handle[p] \in listed' => handle[p] \in leases',
           \A p \in Procs : pc'[p] = "open" => handle[p] \in listed'
    PROVE  AdmInv'
<1>1. AdmTypeOK'
    BY DEF AdmInv, AdmTypeOK
<1>2. \A p \in Procs : HandleInv(p)'
    BY DEF AdmInv, HandleInv
<1> QED
    BY <1>1, <1>2 DEF AdmInv

\* A process lets go of its handle; of the files only its own row and lease may go.
LEMMA LetGoStep ==
    ASSUME AdmInv, NEW p \in Procs, LetGo(p), listed' \subseteq listed, leases' \subseteq Tokens, unsure' \subseteq Tokens,
           \A q \in Procs \ {p} : handle[q] \in listed => handle[q] \in listed' /\ handle[q] \in leases'
    PROVE  AdmInv'
<1>1. /\ handle \in [Procs -> Tokens \cup {NoToken}] /\ handle' = [handle EXCEPT ![p] = NoToken]
      /\ pc' = [pc EXCEPT ![p] = "closed"] /\ left' = [left EXCEPT ![p] = 0] /\ locked' = locked \ {handle[p]}
      /\ pc \in [Procs -> {"closed", "refused", "open", "dropping"}] /\ left \in [Procs -> 0..Attempts]
    BY DEF AdmInv, AdmTypeOK, LetGo, AdmGoto
<1>2. AdmTypeOK' /\ IsFiniteSet(listed')
  <2>1. 0 \in 0..Attempts
      BY ConfigAssumption
  <2>2. handle' \in [Procs -> Tokens \cup {NoToken}] /\ left' \in [Procs -> 0..Attempts]
        /\ pc' \in [Procs -> {"closed", "refused", "open", "dropping"}]
      BY <1>1, <2>1
  <2>3. listed' \subseteq Tokens /\ locked' \subseteq Tokens /\ IsFiniteSet(listed')
      BY <1>1, FS_Subset DEF AdmInv, AdmTypeOK
  <2> QED
      BY <2>2, <2>3 DEF AdmTypeOK
<1>3. \A q \in Procs \ {p} : handle'[q] = handle[q] /\ pc'[q] = pc[q]
    BY <1>1
<1>4. \A q \in Procs \ {p} : handle[q] # NoToken => handle[q] # handle[p]
    BY DEF AdmInv, HandleInv
<1>5. ASSUME NEW q \in Procs, q # p PROVE HandleInv(q)'
    BY <1>1, <1>3, <1>4, <1>5 DEF AdmInv, HandleInv
<1>6. HandleInv(p)'
  <2>1. handle'[p] = NoToken /\ pc'[p] = "closed" /\ NoToken \notin listed'
      BY <1>1, TokenAssumption DEF AdmInv, AdmTypeOK
  <2> QED
      BY <2>1 DEF HandleInv
<1>7. \A t \in locked' : \E q \in Procs : handle'[q] = t
    BY <1>1, <1>3 DEF AdmInv
<1> QED
    BY <1>2, <1>5, <1>6, <1>7 DEF AdmInv

LEMMA SweepKeeps ==
    ASSUME AdmInv, NEW H, NEW kept \in Sweeps(H)
    PROVE  kept \subseteq leases /\ kept \subseteq Tokens /\ \A p \in Procs : handle[p] \in listed => handle[p] \in kept
<1>1. ASSUME NEW p \in Procs, handle[p] \in listed PROVE handle[p] \in leases \cap locked
  <2>1. handle[p] # NoToken
      BY <1>1, TokenAssumption DEF AdmInv, AdmTypeOK
  <2> QED
      BY <1>1, <2>1 DEF AdmInv, HandleInv
<1> QED
    BY <1>1 DEF Sweeps, AdmInv, AdmTypeOK

\* The cleanup, to its end or in part.
LEMMA CleanupKeeps ==
    ASSUME AdmInv, NEW U \in SUBSET listed, UNCHANGED <<handle, left, locked>>,
           pc' \in [Procs -> {"closed", "refused", "open", "dropping"}],
           \A p \in Procs : pc'[p] \in {"open", "dropping"} <=> pc[p] \in {"open", "dropping"},
           \A p \in Procs : pc'[p] = "open" => pc[p] = "open",
           Cleaned(U) \/ CleanedInPart(U)
    PROVE  AdmInv'
<1>1. left' \in [Procs -> 0..Attempts] /\ unsure' \subseteq Tokens
    BY DEF AdmInv, AdmTypeOK, Cleaned, CleanedInPart
<1>2. listed' \subseteq listed /\ \A p \in Procs : handle[p] \in listed => handle[p] \in listed'
    BY SurvivorsAreAlive DEF Cleaned, CleanedInPart
<1>3. leases' \subseteq Tokens /\ \A p \in Procs : handle[p] \in listed => handle[p] \in leases'
    BY SweepKeeps DEF Cleaned, CleanedInPart
<1>4. IsFiniteSet(listed') /\ listed' \subseteq Tokens
    BY <1>2, FS_Subset DEF AdmInv, AdmTypeOK
<1>5. \A p \in Procs : pc'[p] = "open" => handle[p] \in listed'
    BY <1>2 DEF AdmInv, HandleInv
<1> QED
    BY <1>1, <1>2, <1>3, <1>4, <1>5, FilesStep

LEMMA AskGoes ==
    ASSUME AdmInv, NEW p \in Procs, MayAsk(p), NEW w \in {"closed", "refused"}, AdmGoto(p, w)
    PROVE  /\ pc' \in [Procs -> {"closed", "refused", "open", "dropping"}]
           /\ \A q \in Procs : pc'[q] \in {"open", "dropping"} <=> pc[q] \in {"open", "dropping"}
           /\ \A q \in Procs : pc'[q] = "open" => pc[q] = "open"
BY DEF AdmInv, AdmTypeOK, MayAsk, AdmGoto

LEMMA AcquireKeeps ==
    ASSUME AdmInv, NEW U \in SUBSET listed, NEW p \in Procs, Acquire(p, U) PROVE AdmInv'
<1>1. PICK H : H = Survivors(listed, U)
    OBVIOUS
<1>2. PICK t : t = Mint(p)
    OBVIOUS
<1>0. PICK kept \in Sweeps(H) : leases' = kept \cup {t}
    BY <1>1, <1>2 DEF Acquire
<1>3. /\ MayAsk(p) /\ listed' = H \cup {t} /\ leases' = kept \cup {t} /\ locked' = locked \cup {t}
      /\ handle' = [handle EXCEPT ![p] = t] /\ pc' = [pc EXCEPT ![p] = "open"] /\ unsure' = U /\ left' = left
    BY <1>0, <1>1, <1>2 DEF Acquire, AdmGoto
<1>4. t \in Tokens /\ t[1] = p /\ t \notin Used
    BY <1>2, MintIsNew DEF Acquire
<1>5. H \subseteq listed /\ IsFiniteSet(H) /\ \A q \in Procs : handle[q] \in listed => handle[q] \in H
    BY <1>1, SurvivorsAreAlive
<1>6. kept \subseteq Tokens /\ \A q \in Procs : handle[q] \in listed => handle[q] \in kept
    BY SweepKeeps
<1>7. /\ handle'[p] = t /\ pc'[p] = "open" /\ handle[p] = NoToken
      /\ \A q \in Procs \ {p} : handle'[q] = handle[q] /\ pc'[q] = pc[q] /\ handle[q] # t
    BY <1>3, <1>4 DEF AdmInv, AdmTypeOK, HandleInv, MayAsk, Used
<1>8. AdmTypeOK' /\ IsFiniteSet(listed')
  <2>1. /\ handle' \in [Procs -> Tokens \cup {NoToken}] /\ left' \in [Procs -> 0..Attempts]
        /\ pc' \in [Procs -> {"closed", "refused", "open", "dropping"}]
      BY <1>3, <1>4 DEF AdmInv, AdmTypeOK
  <2>2. /\ listed' \subseteq Tokens /\ leases' \subseteq Tokens /\ locked' \subseteq Tokens /\ unsure' \subseteq Tokens
        /\ IsFiniteSet(listed')
      BY <1>3, <1>4, <1>5, <1>6, FS_AddElement DEF AdmInv, AdmTypeOK
  <2> QED
      BY <2>1, <2>2 DEF AdmTypeOK
<1>9. ASSUME NEW q \in Procs, q # p PROVE HandleInv(q)'
  <2>1. HandleInv(q) /\ handle'[q] = handle[q] /\ pc'[q] = pc[q] /\ handle[q] # t
      BY <1>7, <1>9 DEF AdmInv
  <2>2. handle[q] \in listed' => handle[q] \in listed
      BY <1>3, <1>5, <2>1
  <2>3. handle[q] \in listed => handle[q] \in listed' /\ handle[q] \in leases'
      BY <1>3, <1>5, <1>6
  <2>4. locked \subseteq locked'
      BY <1>3
  <2> QED
      BY <2>1, <2>2, <2>3, <2>4 DEF HandleInv
<1>10. HandleInv(p)'
  <2>1. t # NoToken
      BY <1>4, TokenAssumption
  <2> QED
      BY <1>3, <1>4, <1>7, <2>1 DEF HandleInv
<1>11. \A u \in locked' : \E q \in Procs : handle'[q] = u
  <2> SUFFICES ASSUME NEW u \in locked, u # t PROVE \E q \in Procs : handle'[q] = u
      BY <1>3, <1>7
  <2>1. PICK q \in Procs : handle[q] = u
      BY DEF AdmInv
  <2>2. q # p
      BY <1>7, <2>1, TokenAssumption DEF AdmInv, AdmTypeOK
  <2> QED
      BY <1>7, <2>1, <2>2
<1> QED
    BY <1>8, <1>9, <1>10, <1>11 DEF AdmInv

LEMMA AcquireBrokenKeeps ==
    ASSUME AdmInv, NEW U \in SUBSET listed, NEW p \in Procs, AcquireBroken(p, U) PROVE AdmInv'
<1>1. PICK H : H = Survivors(listed, U)
    OBVIOUS
<1>2. PICK t : t = Mint(p)
    OBVIOUS
<1>0. PICK kept \in Sweeps(H) : leases' \in {kept, kept \cup {t}}
    BY <1>1, <1>2 DEF AcquireBroken
<1>3. /\ MayAsk(p) /\ listed' \in {H, H \cup {t}} /\ leases' \in {kept, kept \cup {t}}
      /\ AdmGoto(p, "closed") /\ UNCHANGED <<handle, left, locked, unsure>>
    BY <1>0, <1>1, <1>2 DEF AcquireBroken
<1>4. t \in Tokens /\ \A q \in Procs : handle[q] # t
    BY <1>2, MintIsNew DEF AcquireBroken, Used
<1>5. H \subseteq listed /\ IsFiniteSet(H) /\ \A q \in Procs : handle[q] \in listed => handle[q] \in H
    BY <1>1, SurvivorsAreAlive
<1>6. kept \subseteq Tokens /\ \A q \in Procs : handle[q] \in listed => handle[q] \in kept
    BY SweepKeeps
<1>7. /\ pc' \in [Procs -> {"closed", "refused", "open", "dropping"}]
      /\ \A q \in Procs : pc'[q] \in {"open", "dropping"} <=> pc[q] \in {"open", "dropping"}
      /\ \A q \in Procs : pc'[q] = "open" => pc[q] = "open"
    BY <1>3, AskGoes
<1>8. listed' \subseteq Tokens /\ leases' \subseteq Tokens /\ IsFiniteSet(listed')
  <2>1. IsFiniteSet(H \cup {t})
      BY <1>5, FS_AddElement
  <2> QED
      BY <1>3, <1>4, <1>5, <1>6, <2>1 DEF AdmInv, AdmTypeOK
<1>9. \A q \in Procs : handle[q] \in listed' => handle[q] \in leases'
    BY <1>3, <1>4, <1>5, <1>6
<1>10. \A q \in Procs : pc'[q] = "open" => handle[q] \in listed'
    BY <1>3, <1>5, <1>7 DEF AdmInv, HandleInv
<1>11. left' \in [Procs -> 0..Attempts] /\ unsure' \subseteq Tokens
    BY <1>3 DEF AdmInv, AdmTypeOK
<1> QED
    BY <1>3, <1>7, <1>8, <1>9, <1>10, <1>11, FilesStep

LEMMA BeginDropKeeps ==
    ASSUME AdmInv, NEW p \in Procs, BeginDrop(p) PROVE AdmInv'
<1>1. /\ pc[p] = "open" /\ pc' = [pc EXCEPT ![p] = "dropping"] /\ left' = [left EXCEPT ![p] = Attempts]
      /\ UNCHANGED <<handle, listed, leases, locked, unsure>>
    BY DEF BeginDrop, AdmGoto
<1>2. /\ pc' \in [Procs -> {"closed", "refused", "open", "dropping"}]
      /\ \A q \in Procs : pc'[q] \in {"open", "dropping"} <=> pc[q] \in {"open", "dropping"}
      /\ \A q \in Procs : pc'[q] = "open" => pc[q] = "open"
    BY <1>1 DEF AdmInv, AdmTypeOK
<1>3. left' \in [Procs -> 0..Attempts]
    BY <1>1, ConfigAssumption DEF AdmInv, AdmTypeOK
<1>4. /\ listed' \subseteq Tokens /\ leases' \subseteq Tokens /\ unsure' \subseteq Tokens /\ IsFiniteSet(listed')
      /\ \A q \in Procs : handle[q] \in listed' => handle[q] \in leases'
      /\ \A q \in Procs : pc'[q] = "open" => handle[q] \in listed'
    BY <1>1, <1>2 DEF AdmInv, AdmTypeOK, HandleInv
<1> QED
    BY <1>1, <1>2, <1>3, <1>4, FilesStep

\* What the attempts of a drop do to the files.
DropFiles(p) ==
    /\ listed' \in {listed, Without(p)}
    /\ leases' \subseteq leases
    /\ \A q \in Procs : handle[q] \in listed' => handle[q] \in leases'

LEMMA DropFilesFacts ==
    ASSUME AdmInv, NEW p \in Procs, pc[p] = "dropping",
           \/ UNCHANGED <<listed, leases>>
           \/ listed' \in {listed, Without(p)} /\ leases' \in Sweeps(listed)
           \/ listed' = Without(p) /\ \E kept \in Sweeps(listed) : leases' = kept \ {handle[p]}
    PROVE  DropFiles(p)
<1>1. \A q \in Procs : handle[q] \in listed => handle[q] \in leases
    BY DEF AdmInv, HandleInv
<1>2. handle[p] \notin Without(p)
    BY DEF Without
<1>3. CASE UNCHANGED <<listed, leases>>
    BY <1>1, <1>3 DEF DropFiles
<1>4. CASE listed' \in {listed, Without(p)} /\ leases' \in Sweeps(listed)
    BY <1>4, SweepKeeps DEF DropFiles, Without
<1>5. ASSUME NEW kept \in Sweeps(listed), listed' = Without(p), leases' = kept \ {handle[p]} PROVE DropFiles(p)
    BY <1>2, <1>5, SweepKeeps DEF DropFiles, Without
<1> QED
    BY <1>3, <1>4, <1>5

LEMMA DropKeeps ==
    ASSUME AdmInv, NEW p \in Procs, Release(p) \/ ReleaseFails(p) \/ Crash(p) PROVE AdmInv'
<1>1. unsure' = unsure /\ pc[p] \in {"open", "dropping"} /\ leases' \subseteq Tokens /\ listed' \in {listed, Without(p)}
      /\ \A q \in Procs : handle[q] \in listed' => handle[q] \in leases'
  <2>1. CASE Release(p) \/ ReleaseFails(p)
    <3>1. DropFiles(p) /\ pc[p] = "dropping" /\ unsure' = unsure
        BY <2>1, DropFilesFacts DEF Release, ReleaseFails
    <3> QED
        BY <3>1 DEF DropFiles, AdmInv, AdmTypeOK
  <2>2. CASE Crash(p)
      BY <2>2 DEF Crash, AdmInv, AdmTypeOK, HandleInv
  <2> QED
      BY <2>1, <2>2
<1>2. unsure' \subseteq Tokens /\ listed' \subseteq listed
    BY <1>1 DEF AdmInv, AdmTypeOK, Without
<1>3. handle[p] # NoToken /\ \A q \in Procs \ {p} : handle[q] # handle[p]
    BY <1>1 DEF AdmInv, HandleInv
<1>4. \A q \in Procs \ {p} : handle[q] \in listed => handle[q] \in listed' /\ handle[q] \in leases'
    BY <1>1, <1>3 DEF Without
<1>5. CASE LetGo(p)
    BY <1>1, <1>2, <1>4, <1>5, LetGoStep
<1>6. CASE pc[p] = "dropping" /\ left[p] > 1 /\ left' = [left EXCEPT ![p] = @ - 1] /\ UNCHANGED <<pc, handle, locked>>
  <2>1. left' \in [Procs -> 0..Attempts]
      BY <1>6, ConfigAssumption DEF AdmInv, AdmTypeOK
  <2>2. /\ pc' \in [Procs -> {"closed", "refused", "open", "dropping"}]
        /\ \A q \in Procs : pc'[q] \in {"open", "dropping"} <=> pc[q] \in {"open", "dropping"}
        /\ \A q \in Procs : pc'[q] = "open" => pc[q] = "open"
      BY <1>6 DEF AdmInv, AdmTypeOK
  <2>3. \A q \in Procs : pc'[q] = "open" => handle[q] \in listed'
      BY <1>4, <1>6 DEF AdmInv, HandleInv
  <2>4. listed' \subseteq Tokens /\ IsFiniteSet(listed')
      BY <1>2, FS_Subset DEF AdmInv, AdmTypeOK
  <2> QED
      BY <1>1, <1>2, <1>6, <2>1, <2>2, <2>3, <2>4, FilesStep
<1> QED
    BY <1>5, <1>6 DEF Release, ReleaseFails, Crash

LEMMA AdmInitInv == AdmInit => AdmInv
<1> SUFFICES ASSUME AdmInit PROVE AdmInv
    OBVIOUS
<1>1. AdmTypeOK /\ IsFiniteSet(listed)
    BY ConfigAssumption, FS_EmptySet DEF AdmInit, AdmTypeOK
<1>2. \A p \in Procs : HandleInv(p)
    BY DEF AdmInit, HandleInv
<1> QED
    BY <1>1, <1>2 DEF AdmInit, AdmInv

LEMMA AdmNextInv == AdmInv /\ [AdmNext]_admVars => AdmInv'
<1> SUFFICES ASSUME AdmInv, [AdmNext]_admVars PROVE AdmInv'
    OBVIOUS
<1>1. CASE UNCHANGED admVars
    BY <1>1 DEF admVars, AdmInv, AdmTypeOK, HandleInv
<1>2. ASSUME NEW U \in SUBSET listed, Snapshot(U) PROVE AdmInv'
  <2>1. UNCHANGED <<pc, handle, left, locked>> /\ Cleaned(U) /\ pc' \in [Procs -> {"closed", "refused", "open", "dropping"}]
      BY <1>2 DEF Snapshot, AdmInv, AdmTypeOK
  <2> QED
      BY <2>1, CleanupKeeps
<1>3. ASSUME NEW U \in SUBSET listed, NEW p \in Procs, AcquireRefused(p, U) \/ CleanupBroken(p, U) PROVE AdmInv'
  <2>1. /\ UNCHANGED <<handle, left, locked>> /\ (Cleaned(U) \/ CleanedInPart(U)) /\ MayAsk(p)
        /\ \E w \in {"closed", "refused"} : AdmGoto(p, w)
      BY <1>3 DEF AcquireRefused, CleanupBroken
  <2>2. /\ pc' \in [Procs -> {"closed", "refused", "open", "dropping"}]
        /\ \A q \in Procs : pc'[q] \in {"open", "dropping"} <=> pc[q] \in {"open", "dropping"}
        /\ \A q \in Procs : pc'[q] = "open" => pc[q] = "open"
      BY <2>1, AskGoes
  <2> QED
      BY <2>1, <2>2, CleanupKeeps
<1>4. ASSUME NEW U \in SUBSET listed, NEW p \in Procs, Acquire(p, U) \/ AcquireBroken(p, U) PROVE AdmInv'
    BY <1>4, AcquireKeeps, AcquireBrokenKeeps
<1>5. ASSUME NEW p \in Procs, BeginDrop(p) \/ Release(p) \/ ReleaseFails(p) \/ Crash(p) PROVE AdmInv'
    BY <1>5, BeginDropKeeps, DropKeeps
<1> QED
    BY <1>1, <1>2, <1>3, <1>4, <1>5 DEF AdmNext

\* The inductive invariant of the admission of database holders.
THEOREM AdmissionInvariant == AdmSpec => []AdmInv
<1> QED
    BY AdmInitInv, AdmNextInv, PTL DEF AdmSpec

\* A request is refused for the sake of live holders only, or of ones that cannot
\* be judged, whatever crashed processes and failed releases left behind.
THEOREM AdmissionRefusedOnlyWhenFull == AdmSpec => RefusedOnlyWhenFull
<1>1. ASSUME AdmInv, [AdmNext]_admVars, NEW p \in Procs, pc[p] # "refused", pc'[p] = "refused"
      PROVE  Exceeded(Alive \cup (listed \cap unsure'), p)
  <2>1. pc \in [Procs -> {"closed", "refused", "open", "dropping"}] /\ pc' # pc
      BY <1>1 DEF AdmInv, AdmTypeOK
  <2>2. ASSUME NEW q \in Procs, NEW w, AdmGoto(q, w) PROVE q = p /\ w = "refused"
      BY <1>1, <2>1, <2>2 DEF AdmGoto
  <2>3. ASSUME NEW q \in Procs PROVE ~BeginDrop(q) /\ ~Release(q) /\ ~ReleaseFails(q) /\ ~Crash(q)
    <3>1. ~LetGo(q) /\ ~BeginDrop(q)
        BY <2>2 DEF LetGo, BeginDrop
    <3> QED
        BY <2>1, <3>1 DEF Release, ReleaseFails, Crash
  <2>4. ASSUME NEW q \in Procs, NEW U PROVE ~Acquire(q, U) /\ ~AcquireBroken(q, U) /\ ~CleanupBroken(q, U)
      BY <2>2 DEF Acquire, AcquireBroken, CleanupBroken
  <2>5. PICK U \in SUBSET listed, q \in Procs : AcquireRefused(q, U)
      BY <1>1, <2>1, <2>3, <2>4 DEF AdmNext, Snapshot, admVars
  <2>6. q = p /\ Exceeded(Survivors(listed, U), p) /\ unsure' = U
      BY <2>2, <2>5 DEF AcquireRefused, Cleaned
  <2> QED
      BY <1>1, <2>6, SurvivorsAreAlive
<1>2. AdmInv /\ [AdmNext]_admVars =>
          [\A p \in Procs : pc[p] # "refused" /\ pc'[p] = "refused"
              => Exceeded(Alive \cup (listed \cap unsure'), p)]_admVars
    BY <1>1
<1> QED
    BY <1>2, AdmissionInvariant, PTL DEF AdmSpec, RefusedOnlyWhenFull

\* Every process that has the database open is among the survivors of a probe.
LEMMA OpenersSurvive ==
    ASSUME AdmInv, NEW U \in SUBSET listed, NEW S \in SUBSET Openers
    PROVE  Cardinality(S) <= Cardinality(Survivors(listed, U))
<1> DEFINE f == [p \in S |-> handle[p]]
<1>1. \A p \in S : p \in Procs /\ handle[p] \in Survivors(listed, U) /\ handle[p][1] = p
  <2> SUFFICES ASSUME NEW p \in S PROVE p \in Procs /\ handle[p] \in Survivors(listed, U) /\ handle[p][1] = p
      OBVIOUS
  <2>1. p \in Procs /\ pc[p] = "open"
      BY DEF Openers
  <2>2. handle[p] \in listed /\ handle[p][1] = p
      BY <2>1 DEF AdmInv, HandleInv
  <2> QED
      BY <2>1, <2>2, SurvivorsAreAlive
<1>2. f \in Injection(S, Survivors(listed, U))
    BY <1>1 DEF Injection, IsInjective
<1> QED
    BY <1>2, SurvivorsAreAlive, FS_Injection

LEMMA SeatsNext == AdmInv /\ SeatsKept /\ [AdmNext]_admVars => SeatsKept'
<1> SUFFICES ASSUME AdmInv, SeatsKept, [AdmNext]_admVars PROVE SeatsKept'
    OBVIOUS
<1>1. /\ MaxHolders \in Nat /\ Reserved \in Nat /\ IsFiniteSet(Openers) /\ IsFiniteSet(Openers \ Service)
      /\ Cardinality(Openers) \in Nat /\ Cardinality(Openers \ Service) \in Nat
  <2>1. IsFiniteSet(Openers) /\ IsFiniteSet(Openers \ Service)
    <3>1. Openers \in SUBSET Procs /\ Openers \ Service \in SUBSET Procs
        BY DEF Openers
    <3> QED
        BY <3>1, ProcsAssumption, FS_Subset
  <2> QED
      BY <2>1, ConfigAssumption, FS_CardinalityType
<1>2. ASSUME Openers' \subseteq Openers PROVE SeatsKept'
  <2>1. PICK O : O = Openers'
      OBVIOUS
  <2>2. O \in SUBSET Openers /\ O \ Service \in SUBSET (Openers \ Service)
      BY <1>2, <2>1
  <2>3. IsFiniteSet(O) /\ IsFiniteSet(O \ Service) /\ Cardinality(O) <= Cardinality(Openers)
        /\ Cardinality(O \ Service) <= Cardinality(Openers \ Service)
      BY <1>1, <2>2, FS_Subset
  <2>4. Cardinality(O) \in Nat /\ Cardinality(O \ Service) \in Nat
      BY <2>3, FS_CardinalityType
  <2>5. Cardinality(O) <= MaxHolders /\ Cardinality(O \ Service) <= MaxHolders - Reserved
      BY <1>1, <2>3, <2>4 DEF SeatsKept
  <2> QED
      BY <2>1, <2>5 DEF SeatsKept
<1>3. pc \in [Procs -> {"closed", "refused", "open", "dropping"}]
    BY DEF AdmInv, AdmTypeOK
<1>4. ASSUME NEW p \in Procs, NEW w \in {"closed", "refused", "dropping"}, AdmGoto(p, w) PROVE Openers' \subseteq Openers
    BY <1>3, <1>4 DEF AdmGoto, Openers
<1>5. CASE UNCHANGED pc
    BY <1>2, <1>5 DEF Openers
<1>6. ASSUME NEW U \in SUBSET listed, NEW p \in Procs, Acquire(p, U) PROVE SeatsKept'
  <2>1. PICK H : H = Survivors(listed, U)
      OBVIOUS
  <2>2. p \notin Openers /\ Openers' = Openers \cup {p} /\ ~Exceeded(H, p)
      BY <1>3, <1>6, <2>1 DEF Acquire, MayAsk, AdmGoto, Openers
  <2>3. Cardinality(Openers) <= Cardinality(H) /\ Cardinality(Openers \ Service) <= Cardinality(H) /\ Cardinality(H) \in Nat
      BY <2>1, OpenersSurvive, SurvivorsAreAlive, FS_CardinalityType
  <2>4. Cardinality(Openers') = Cardinality(Openers) + 1
      BY <1>1, <2>2, FS_AddElement
  <2>5. Cardinality(H) < MaxHolders /\ (p \notin Service /\ Reserved > 0 => Cardinality(H) + 1 + Reserved <= MaxHolders)
      BY <1>1, <2>2, <2>3 DEF Exceeded
  <2>6. CASE p \in Service
    <3>1. Openers' \ Service = Openers \ Service
        BY <2>2, <2>6
    <3> QED
        BY <1>1, <2>3, <2>4, <2>5, <3>1, SMTT(60) DEF SeatsKept
  <2>7. CASE p \notin Service
    <3>1. Openers' \ Service = (Openers \ Service) \cup {p}
        BY <2>2, <2>7
    <3>2. Cardinality(Openers' \ Service) = Cardinality(Openers \ Service) + 1
        BY <1>1, <2>2, <3>1, FS_AddElement
    <3>3. Cardinality(Openers)' = Cardinality(Openers) + 1 /\ Cardinality(Openers \ Service)' = Cardinality(Openers \ Service) + 1
        BY <2>4, <3>2
    <3> QED
        BY <1>1, <2>3, <2>5, <2>7, <3>3 DEF SeatsKept
  <2> QED
      BY <2>6, <2>7
<1>7. ASSUME NEW U, NEW p \in Procs, AcquireRefused(p, U) \/ AcquireBroken(p, U) \/ CleanupBroken(p, U)
      PROVE  SeatsKept'
    BY <1>2, <1>4, <1>7 DEF AcquireRefused, AcquireBroken, CleanupBroken
<1>8. ASSUME NEW p \in Procs, BeginDrop(p) \/ Release(p) \/ ReleaseFails(p) \/ Crash(p) PROVE SeatsKept'
    BY <1>2, <1>4, <1>5, <1>8 DEF BeginDrop, Release, ReleaseFails, Crash, LetGo
<1>9. ASSUME NEW U, Snapshot(U) PROVE SeatsKept'
    BY <1>5, <1>9 DEF Snapshot
<1> QED
    BY <1>5, <1>6, <1>7, <1>8, <1>9 DEF AdmNext, admVars

\* Whatever crashes, fails half-way or is reaped, the processes that have the
\* database open stay within max_holders, and the transient ones among them leave
\* the seats of the daemon and the MCP server free.
THEOREM AdmissionSeatsKept == AdmSpec => []SeatsKept
<1>1. AdmInit => SeatsKept
  <2> SUFFICES ASSUME AdmInit PROVE SeatsKept
      OBVIOUS
  <2>1. Openers = {} /\ Openers \ Service = {}
      BY DEF AdmInit, Openers
  <2>2. Cardinality(Openers) = 0 /\ Cardinality(Openers \ Service) = 0
      BY <2>1, FS_EmptySet
  <2> QED
      BY <2>2, ConfigAssumption DEF SeatsKept
<1> QED
    BY <1>1, SeatsNext, AdmissionInvariant, PTL DEF AdmSpec

\* The bytes of a finite set of holders: a holder adds what it asks for.
LEMMA CountedBytes ==
    ASSUME NEW H \in SUBSET Tokens, IsFiniteSet(H)
    PROVE  /\ IsFiniteSet(CacheOf(H)) /\ BytesIn(H) \in Nat
           /\ \A G \in SUBSET H : BytesIn(G) <= BytesIn(H)
           /\ \A t \in Tokens \ H : BytesIn(H \cup {t}) = BytesIn(H) + BytesOf[t[1]]
<1> DEFINE Of(t) == {t} \X (1..BytesOf[t[1]])
<1>1. ASSUME NEW t \in Tokens PROVE IsFiniteSet(Of(t)) /\ Cardinality(Of(t)) = BytesOf[t[1]]
  <2>1. PICK n : n = BytesOf[t[1]]
      OBVIOUS
  <2>2. n \in Nat
      BY <2>1, RequestAssumption DEF Tokens
  <2>3. IsFiniteSet(1..n) /\ Cardinality(1..n) = n
      BY <2>2, FS_Interval
  <2>4. IsFiniteSet({t}) /\ Cardinality({t}) = 1
      BY FS_Singleton
  <2>5. IsFiniteSet({t} \X (1..n)) /\ Cardinality({t} \X (1..n)) = 1 * n
      BY <2>3, <2>4, FS_Product, ZenonT(60)
  <2> QED
      BY <2>1, <2>2, <2>5
<1>2. IsFiniteSet(CacheOf(H))
  <2> DEFINE S == {Of(t) : t \in H}
  <2>1. [t \in H |-> Of(t)] \in Surjection(H, S)
      BY DEF Surjection
  <2>2. IsFiniteSet(S)
      BY <2>1, FS_Surjection
  <2>3. \A T \in S : IsFiniteSet(T)
      BY <1>1
  <2>4. IsFiniteSet(UNION S)
      BY <2>2, <2>3, FS_UNION
  <2> QED
      BY <2>4 DEF CacheOf
<1>3. BytesIn(H) \in Nat
    BY <1>2, FS_CardinalityType DEF BytesIn
<1>4. ASSUME NEW G \in SUBSET H PROVE BytesIn(G) <= BytesIn(H)
  <2>1. CacheOf(G) \in SUBSET CacheOf(H)
      BY DEF CacheOf
  <2> QED
      BY <1>2, <2>1, FS_Subset DEF BytesIn
<1>5. ASSUME NEW t \in Tokens \ H PROVE BytesIn(H \cup {t}) = BytesIn(H) + BytesOf[t[1]]
  <2>1. CacheOf(H \cup {t}) = CacheOf(H) \cup Of(t)
      BY DEF CacheOf
  <2>2. CacheOf(H) \cap Of(t) = {}
      BY <1>5 DEF CacheOf
  <2>3. Cardinality(CacheOf(H) \cup Of(t)) = Cardinality(CacheOf(H)) + Cardinality(Of(t)) - 0
    <3> HIDE DEF Of
    <3> QED
        BY <1>1, <1>2, <2>2, FS_Union, FS_EmptySet
  <2>4. BytesOf[t[1]] \in Nat /\ Cardinality(Of(t)) = BytesOf[t[1]]
      BY <1>1, RequestAssumption DEF Tokens
  <2>5. BytesIn(H \cup {t}) = BytesIn(H) + Cardinality(Of(t)) - 0
      BY <2>1, <2>3 DEF BytesIn
  <2> HIDE DEF Of
  <2> QED
      BY <1>3, <2>4, <2>5
<1> QED
    BY <1>2, <1>3, <1>4, <1>5

\* The admissions of the processes that have the database open.
OpenHandles == {handle[p] : p \in Openers}
CacheKept == BytesIn(OpenHandles) <= MaxCacheBytes

\* They are listed, and survive every probe.
LEMMA OpenHandlesSurvive ==
    ASSUME AdmInv, NEW U \in SUBSET listed
    PROVE  OpenHandles \subseteq Survivors(listed, U) /\ OpenHandles \subseteq Tokens /\ IsFiniteSet(OpenHandles)
<1>1. OpenHandles \subseteq Survivors(listed, U)
    BY SurvivorsAreAlive DEF OpenHandles, Openers, AdmInv, HandleInv
<1>2. OpenHandles \in SUBSET listed /\ listed \subseteq Tokens
    BY <1>1, SurvivorsAreAlive DEF AdmInv, AdmTypeOK
<1> QED
    BY <1>1, <1>2, FS_Subset DEF AdmInv

LEMMA CacheNext == AdmInv /\ CacheKept /\ [AdmNext]_admVars => CacheKept'
<1> SUFFICES ASSUME AdmInv, CacheKept, [AdmNext]_admVars PROVE CacheKept'
    OBVIOUS
<1>1. /\ pc \in [Procs -> {"closed", "refused", "open", "dropping"}] /\ handle \in [Procs -> Tokens \cup {NoToken}]
      /\ {} \in SUBSET listed /\ MaxCacheBytes \in Nat
    BY ConfigAssumption DEF AdmInv, AdmTypeOK
<1>2. OpenHandles \subseteq Tokens /\ IsFiniteSet(OpenHandles)
    BY <1>1, OpenHandlesSurvive
<1>3. ASSUME OpenHandles' \subseteq OpenHandles PROVE CacheKept'
  <2>1. PICK O : O = OpenHandles'
      OBVIOUS
  <2>2. IsFiniteSet(O) /\ O \subseteq Tokens
      BY <1>2, <1>3, <2>1, FS_Subset
  <2>3. BytesIn(O) <= BytesIn(OpenHandles) /\ BytesIn(O) \in Nat /\ BytesIn(OpenHandles) \in Nat
      BY <1>2, <1>3, <2>1, <2>2, CountedBytes
  <2>4. BytesIn(O) <= MaxCacheBytes
      BY <1>1, <2>3 DEF CacheKept
  <2> QED
      BY <2>1, <2>4 DEF CacheKept, BytesIn, CacheOf
<1>4. ASSUME NEW p \in Procs, NEW w \in {"closed", "refused", "dropping"}, AdmGoto(p, w),
             \A q \in Procs \ {p} : handle'[q] = handle[q]
      PROVE  OpenHandles' \subseteq OpenHandles
    BY <1>1, <1>4 DEF AdmGoto, OpenHandles, Openers
<1>5. CASE UNCHANGED <<pc, handle>>
    BY <1>3, <1>5 DEF OpenHandles, Openers
<1>6. ASSUME NEW U \in SUBSET listed, NEW p \in Procs, Acquire(p, U) PROVE CacheKept'
  <2>1. PICK H : H = Survivors(listed, U)
      OBVIOUS
  <2>2. PICK t : t = Mint(p)
      OBVIOUS
  <2>3. t \in Tokens /\ t[1] = p /\ t \notin listed
      BY <1>6, <2>2, MintIsNew DEF Acquire, Used
  <2>4. H \in SUBSET Tokens /\ IsFiniteSet(H) /\ t \notin H /\ OpenHandles \subseteq H
      BY <2>1, <2>3, SurvivorsAreAlive, OpenHandlesSurvive DEF AdmInv, AdmTypeOK
  <2>5. BytesIn(H) \in Nat /\ BytesIn(H \cup {t}) = BytesIn(H) + BytesOf[p]
      BY <2>3, <2>4, CountedBytes
  <2>6. BytesOf[p] \in Nat
      BY RequestAssumption
  <2>7. BytesIn(H \cup {t}) <= MaxCacheBytes /\ BytesIn(H \cup {t}) \in Nat
      BY <1>1, <1>6, <2>1, <2>5, <2>6 DEF Acquire, Exceeded
  <2>8. PICK O : O = OpenHandles'
      OBVIOUS
  <2>9. O \subseteq OpenHandles \cup {t}
      BY <1>1, <1>6, <2>2, <2>8 DEF Acquire, AdmGoto, OpenHandles, Openers
  <2>10. O \in SUBSET (H \cup {t}) /\ IsFiniteSet(H \cup {t}) /\ H \cup {t} \in SUBSET Tokens
      BY <2>3, <2>4, <2>9, FS_AddElement
  <2>11. IsFiniteSet(O) /\ O \in SUBSET Tokens
      BY <2>10, FS_Subset
  <2>12. BytesIn(O) <= BytesIn(H \cup {t}) /\ BytesIn(O) \in Nat
      BY <2>10, <2>11, CountedBytes
  <2>13. BytesIn(O) <= MaxCacheBytes
      BY <1>1, <2>7, <2>12
  <2> QED
      BY <2>8, <2>13 DEF CacheKept, BytesIn, CacheOf
<1>7. ASSUME NEW U, NEW p \in Procs, AcquireRefused(p, U) \/ AcquireBroken(p, U) \/ CleanupBroken(p, U)
      PROVE  CacheKept'
    BY <1>3, <1>4, <1>7 DEF AcquireRefused, AcquireBroken, CleanupBroken
<1>8. ASSUME NEW p \in Procs, BeginDrop(p) \/ Release(p) \/ ReleaseFails(p) \/ Crash(p) PROVE CacheKept'
  <2>1. CASE LetGo(p)
    <3>1. \A q \in Procs \ {p} : handle'[q] = handle[q]
        BY <1>1, <2>1 DEF LetGo
    <3> QED
        BY <1>3, <1>4, <2>1, <3>1 DEF LetGo
  <2> QED
      BY <1>3, <1>4, <1>5, <1>8, <2>1 DEF BeginDrop, Release, ReleaseFails, Crash
<1>9. ASSUME NEW U, Snapshot(U) PROVE CacheKept'
    BY <1>5, <1>9 DEF Snapshot
<1> QED
    BY <1>5, <1>6, <1>7, <1>8, <1>9 DEF AdmNext, admVars

\* Whatever crashes, fails half-way or is reaped, the processes that have the
\* database open stay within max_holders, the transient ones among them leave the
\* seats of the daemon and the MCP server free, and the page cache they asked for
\* stays within max_cache_bytes: no probe takes one of them for dead.
THEOREM AdmissionWithinBudget == AdmSpec => []WithinBudget
<1>1. AdmInit => CacheKept
  <2> SUFFICES ASSUME AdmInit PROVE CacheKept
      OBVIOUS
  <2>1. OpenHandles = {}
      BY DEF AdmInit, OpenHandles, Openers
  <2>2. CacheOf(OpenHandles) = {}
      BY <2>1 DEF CacheOf
  <2> QED
      BY <2>2, FS_EmptySet, ConfigAssumption DEF CacheKept, BytesIn
<1>2. SeatsKept /\ CacheKept => WithinBudget
    BY DEF CacheKept, OpenHandles, WithinBudget
<1> QED
    BY <1>1, <1>2, CacheNext, AdmissionInvariant, AdmissionSeatsKept, PTL DEF AdmSpec

----------------------------------------------------------------------------
\* The inbox of an agent on the bus.

\* The stages of a push that has written its line.
Wrote == {"line", "written", "stored", "logged", "sent", "error", "dead", "cut"}
PushStages == Wrote \cup {"idle", "fits", "full", "open", "typed", "refused", "noted", "ended"}
DrainStages == {"idle", "renamed", "read", "emptied", "counted", "done", "error", "lost", "dead"}

MailTyped ==
    /\ inbox \in Inodes \cup {NoFile} /\ draining \in Inodes \cup {NoFile}
    /\ text \in [Inodes -> Seq(Msgs \cup {NL})]
    /\ push \in [Msgs -> PushStages] /\ fd \in [Msgs -> Inodes \cup {NoFile}]
    /\ drain \in [Drains -> DrainStages] /\ got \in [Drains -> SUBSET Msgs]

\* One drain at a time, and the file it renamed is not the inbox.
DrainerInv == (\A j, k \in InDrain : j = k) /\ (inbox # NoFile => inbox # draining)

\* A message is in one file, and there or returned only when its push wrote it.
PlaceInv ==
    /\ \A m \in Msgs : \A i, j \in Inodes : m \in Range(text[i]) /\ m \in Range(text[j]) => i = j
    /\ \A m \in Msgs : (\E i \in Inodes : m \in Range(text[i])) => push[m] \in Wrote
    /\ \A m \in Msgs : (\E k \in Drains : m \in got[k]) => push[m] \in Wrote

\* What a drain has parsed is not in the inbox, not in the file a drain is about to
\* read and not with another drain.
GotInv ==
    /\ \A j, k \in Drains : j # k => got[j] \cap got[k] = {}
    /\ \A k \in Drains : got[k] \cap Range(TextOf(inbox)) = {}
    /\ (\E k \in Drains : drain[k] = "renamed") => \A k \in Drains : got[k] \cap Range(TextOf(draining)) = {}

MailInv == MailTyped /\ DrainerInv /\ PlaceInv /\ GotInv

LEMMA AppendedRange ==
    ASSUME NEW R, NEW s \in Seq(R), NEW e \in R PROVE Append(s, e) \in Seq(R) /\ Range(Append(s, e)) = Range(s) \cup {e}
<1>1. /\ Append(s, e) \in Seq(R) /\ DOMAIN s = 1..Len(s) /\ DOMAIN Append(s, e) = 1..(Len(s) + 1) /\ Len(s) \in Nat
      /\ Append(s, e)[Len(s) + 1] = e /\ \A i \in 1..Len(s) : Append(s, e)[i] = s[i]
    OBVIOUS
<1> QED
    BY <1>1 DEF Range

\* A line of one message is that message, and the newline is none.
LEMMA ParsedInText ==
    ASSUME NEW t \in Seq(Msgs \cup {NL}) PROVE Parsed(t) \subseteq Range(t) /\ Parsed(t) \subseteq Msgs
<1> DEFINE ends == {0} \cup {i \in 1..Len(t) : t[i] = NL} \cup {Len(t) + 1}
<1> DEFINE After(i) == Min({j \in ends : j > i})
<1>1. Len(t) \in Nat /\ DOMAIN t = 1..Len(t) /\ \A i \in 1..Len(t) : t[i] \in Msgs \cup {NL}
    OBVIOUS
<1>2. ASSUME NEW i \in ends \ {Len(t) + 1}, Len(SubSeq(t, i + 1, After(i) - 1)) = 1
      PROVE  SubSeq(t, i + 1, After(i) - 1)[1] \in Range(t) \cap Msgs
  <2>1. i \in 0..Len(t)
      BY <1>1, <1>2
  <2>2. PICK m \in {j \in ends : j > i} : After(i) = m /\ \A j \in {j \in ends : j > i} : m <= j
    <3>1. {j \in ends : j > i} \subseteq Nat /\ {j \in ends : j > i} # {}
        BY <1>1, <2>1
    <3>2. \E m \in {j \in ends : j > i} : \A j \in {j \in ends : j > i} : m <= j
        BY <3>1, LeastNumber
    <3> QED
        BY <3>2 DEF Min
  <2>3. m \in 1..(Len(t) + 1) /\ m > i /\ (i + 1 \in ends => m <= i + 1)
      BY <1>1, <2>1, <2>2
  <2>4. m = i + 2
    <3>1. Len(SubSeq(t, i + 1, m - 1)) = 1
        BY <1>2, <2>2
    <3>2. CASE i + 1 > m - 1
      <4>1. SubSeq(t, i + 1, m - 1) = << >>
          BY <1>1, <2>1, <2>3, <3>2
      <4> QED
          BY <3>1, <4>1
    <3>3. CASE i + 1 <= m - 1
      <4>1. Len(SubSeq(t, i + 1, m - 1)) = (m - 1) - (i + 1) + 1
          BY <1>1, <2>1, <2>3, <3>3
      <4> QED
          BY <1>1, <2>1, <2>3, <3>1, <4>1
    <3> QED
        BY <1>1, <2>1, <2>3, <3>2, <3>3
  <2>5. i + 1 \in 1..Len(t) /\ t[i + 1] # NL
    <3>1. i + 1 \in 1..Len(t)
        BY <1>1, <2>1, <2>3, <2>4
    <3>2. i + 1 \notin ends
        BY <1>1, <2>1, <2>3, <2>4
    <3> QED
        BY <3>1, <3>2
  <2>6. SubSeq(t, i + 1, After(i) - 1)[1] = t[i + 1]
    <3>1. PICK n : n = i + 1
        OBVIOUS
    <3>2. n \in 1..Len(t) /\ After(i) - 1 = n
        BY <2>1, <2>2, <2>4, <2>5, <3>1
    <3>3. SubSeq(t, n, n)[1] = t[n]
      <4>1. SubSeq(t, n, n) = [k \in 1..1 |-> t[k + n - 1]]
          BY <1>1, <3>2
      <4> QED
          BY <1>1, <3>2, <4>1
    <3> QED
        BY <3>1, <3>2, <3>3
  <2> QED
      BY <1>1, <2>5, <2>6 DEF Range
<1> QED
    BY <1>2 DEF Parsed, Lines

\* There is a file that nobody has.
LEMMA UnusedFile ==
    ASSUME MailTyped, inbox = NoFile
    PROVE  /\ Unused \in Inodes /\ Unused # draining /\ Unused # NoFile
           /\ \A m \in Msgs : fd[m] # Unused
<1> DEFINE taken == Range(fd) \cup {draining}
<1>1. Cardinality(Msgs) \in Nat /\ IsFiniteSet(Inodes) /\ Cardinality(Inodes) = Cardinality(Msgs) + 2
  <2>1. Cardinality(Msgs) \in Nat
      BY InboxAssumption, FS_CardinalityType
  <2> QED
      BY <2>1, FS_Interval, SMTT(60) DEF Inodes
<1>2. IsFiniteSet(Range(fd)) /\ Cardinality(Range(fd)) <= Cardinality(Msgs)
  <2>1. fd \in [Msgs -> Range(fd)] /\ \A r \in Range(fd) : \E m \in Msgs : fd[m] = r
      BY DEF MailTyped, Range
  <2>2. fd \in Surjection(Msgs, Range(fd))
      BY <2>1 DEF Surjection
  <2> QED
      BY <2>2, InboxAssumption, FS_Surjection
<1>3. IsFiniteSet(taken) /\ Cardinality(taken) <= Cardinality(Msgs) + 1
  <2>1. PICK r : r = Range(fd)
      OBVIOUS
  <2>2. Cardinality(r) \in Nat
      BY <1>2, <2>1, FS_CardinalityType
  <2>3. IsFiniteSet(r \cup {draining}) /\ Cardinality(r \cup {draining}) <= Cardinality(r) + 1
      BY <1>2, <2>1, <2>2, FS_AddElement, SMTT(60)
  <2>4. Cardinality(r \cup {draining}) \in Nat
      BY <2>3, FS_CardinalityType
  <2> QED
      BY <1>1, <1>2, <2>1, <2>2, <2>3, <2>4
<1>4. \E i \in Inodes : i \notin taken
  <2>1. SUFFICES ASSUME Inodes \in SUBSET taken PROVE FALSE
      OBVIOUS
  <2>2. Cardinality(Inodes) <= Cardinality(taken)
      BY <1>3, <2>1, FS_Subset
  <2>3. Cardinality(taken) \in Nat
      BY <1>3, FS_CardinalityType
  <2> QED
      BY <1>1, <1>3, <2>2, <2>3
<1>5. Range(fd) = {fd[m] : m \in Msgs} /\ NoFile \notin Inodes
    BY FileAssumption DEF MailTyped, Range
<1>6. \E i \in Inodes : i \notin {inbox, draining} \cup {fd[m] : m \in Msgs}
    BY <1>4, <1>5
<1> QED
    BY <1>5, <1>6 DEF Unused

\* A step of the calls that leaves the files and what was parsed alone.
LEMMA MailQuiet ==
    ASSUME MailInv, UNCHANGED <<inbox, draining, text, got>>, push' \in [Msgs -> PushStages],
           fd' \in [Msgs -> Inodes \cup {NoFile}], drain' \in [Drains -> DrainStages],
           \A m \in Msgs : push[m] \in Wrote => push'[m] \in Wrote,
           \A k \in Drains : drain'[k] \notin {"idle", "done", "error", "lost", "dead"} => k \in InDrain,
           \A k \in Drains : drain'[k] = "renamed" => drain[k] = "renamed"
    PROVE  MailInv'
<1>1. MailTyped'
    BY DEF MailInv, MailTyped
<1>2. DrainerInv'
    BY DEF MailInv, DrainerInv, InDrain
<1>3. PlaceInv'
    BY DEF MailInv, PlaceInv
<1>4. GotInv'
    BY DEF MailInv, GotInv, TextOf
<1> QED
    BY <1>1, <1>2, <1>3, <1>4 DEF MailInv

\* A push moves to a stage.
LEMMA PushMoves ==
    ASSUME MailInv, NEW m \in Msgs, NEW w \in PushStages, PushAt(m, w), push[m] \in Wrote => w \in Wrote
    PROVE  push' \in [Msgs -> PushStages] /\ \A n \in Msgs : push[n] \in Wrote => push'[n] \in Wrote
BY DEF MailInv, MailTyped, PushAt

LEMMA PushOnly ==
    ASSUME MailInv, NEW m \in Msgs, NEW w \in PushStages, PushAt(m, w), push[m] \in Wrote => w \in Wrote,
           UNCHANGED <<inbox, draining, text, got, drain>>, fd' \in [Msgs -> Inodes \cup {NoFile}]
    PROVE  MailInv'
<1>1. push' \in [Msgs -> PushStages] /\ \A n \in Msgs : push[n] \in Wrote => push'[n] \in Wrote
    BY PushMoves
<1>2. drain' \in [Drains -> DrainStages] /\ \A k \in Drains : drain'[k] = drain[k]
    BY DEF MailInv, MailTyped
<1>3. \A k \in Drains : drain'[k] \notin {"idle", "done", "error", "lost", "dead"} => k \in InDrain
    BY <1>2 DEF InDrain
<1> QED
    BY <1>1, <1>2, <1>3, MailQuiet

LEMMA DrainOnly ==
    ASSUME MailInv, NEW k \in Drains, NEW w \in DrainStages \ {"renamed"}, DrainAt(k, w),
           w \in {"done", "error", "lost", "dead"} \/ k \in InDrain, UNCHANGED <<inbox, draining, text, got, push, fd>>
    PROVE  MailInv'
<1>1. push' \in [Msgs -> PushStages] /\ fd' \in [Msgs -> Inodes \cup {NoFile}]
    BY DEF MailInv, MailTyped
<1>2. drain' \in [Drains -> DrainStages] /\ drain'[k] = w /\ \A j \in Drains \ {k} : drain'[j] = drain[j]
    BY DEF MailInv, MailTyped, DrainAt
<1>3. \A j \in Drains : drain'[j] \notin {"idle", "done", "error", "lost", "dead"} => j \in InDrain
    BY <1>2 DEF InDrain
<1>4. \A j \in Drains : drain'[j] = "renamed" => drain[j] = "renamed"
    BY <1>2
<1> QED
    BY <1>1, <1>2, <1>3, <1>4, MailQuiet

\* Opening the inbox, which may create the file.
LEMMA OpenInboxKeeps ==
    ASSUME MailInv, NEW m \in Msgs, OpenInbox(m) PROVE MailInv'
<1>1. push[m] = "fits" /\ fd' = [fd EXCEPT ![m] = inbox'] /\ PushAt(m, "open") /\ UNCHANGED <<draining, drain, got>>
    BY DEF OpenInbox
<1>2. CASE inbox # NoFile
  <2>1. UNCHANGED <<inbox, text>> /\ fd' \in [Msgs -> Inodes \cup {NoFile}]
      BY <1>1, <1>2 DEF OpenInbox, MailInv, MailTyped
  <2>2. "open" \in PushStages /\ push[m] \notin Wrote
      BY <1>1 DEF PushStages, Wrote
  <2> QED
      BY <1>1, <2>1, <2>2, PushOnly
<1>3. CASE inbox = NoFile
  <2>1. PICK u : u = Unused
      OBVIOUS
  <2>2. u \in Inodes /\ u # draining /\ u # NoFile
      BY <1>3, <2>1, UnusedFile DEF MailInv
  <2>3. inbox' = u /\ text' = [text EXCEPT ![u] = <<>>]
      BY <1>3, <2>1 DEF OpenInbox
  <2>4. text' \in [Inodes -> Seq(Msgs \cup {NL})] /\ text'[u] = <<>> /\ \A i \in Inodes \ {u} : text'[i] = text[i]
      BY <2>2, <2>3 DEF MailInv, MailTyped
  <2>5. Range(text'[u]) = {}
      BY <2>4 DEF Range
  <2>6. \A i \in Inodes : \A n \in Msgs : n \in Range(text'[i]) => i # u /\ n \in Range(text[i])
      BY <2>4, <2>5
  <2>7. push' \in [Msgs -> PushStages] /\ \A n \in Msgs : push[n] \in Wrote => push'[n] \in Wrote
    <3>1. "open" \in PushStages /\ push[m] \notin Wrote
        BY <1>1 DEF PushStages, Wrote
    <3> QED
        BY <1>1, <3>1, PushMoves
  <2>8. MailTyped'
      BY <1>1, <2>2, <2>3, <2>4, <2>7 DEF MailInv, MailTyped
  <2>9. DrainerInv'
      BY <1>1, <2>2, <2>3 DEF MailInv, DrainerInv, InDrain
  <2>10. PlaceInv'
      BY <1>1, <2>6, <2>7 DEF MailInv, PlaceInv
  <2>11. GotInv'
    <3>1. Range(TextOf(inbox)') = {}
        BY <2>2, <2>3, <2>5 DEF TextOf
    <3>2. TextOf(draining)' = TextOf(draining)
        BY <1>1, <2>2, <2>4 DEF TextOf, MailInv, MailTyped
    <3> QED
        BY <1>1, <3>1, <3>2 DEF MailInv, GotInv
  <2> QED
      BY <2>8, <2>9, <2>10, <2>11 DEF MailInv
<1> QED
    BY <1>2, <1>3

\* A write to the open file, of the message or of the newline.
LEMMA WriteKeeps ==
    ASSUME MailInv, NEW m \in Msgs, WriteLine(m) \/ WriteNewline(m) PROVE MailInv'
<1>1. PICK e \in Msgs \cup {NL} :
          /\ text' = [text EXCEPT ![fd[m]] = Append(@, e)]
          /\ e \in Msgs => e = m /\ push[m] = "open"
          /\ \E w \in {"line", "written"} : PushAt(m, w)
    BY InboxAssumption DEF WriteLine, WriteNewline
<1>2. UNCHANGED <<inbox, draining, fd, drain, got>>
    BY DEF WriteLine, WriteNewline
<1>3. push' \in [Msgs -> PushStages] /\ push'[m] \in Wrote /\ \A n \in Msgs : push[n] \in Wrote => push'[n] \in Wrote
  <2>1. PICK w \in {"line", "written"} : PushAt(m, w)
      BY <1>1
  <2>2. w \in PushStages /\ w \in Wrote
      BY DEF PushStages, Wrote
  <2> QED
      BY <2>1, <2>2, PushMoves DEF MailInv, MailTyped, PushAt
<1>4. /\ text' \in [Inodes -> Seq(Msgs \cup {NL})]
      /\ \A i \in Inodes : Range(text'[i]) = IF i = fd[m] THEN Range(text[i]) \cup {e} ELSE Range(text[i])
  <2>1. \A i \in Inodes : text[i] \in Seq(Msgs \cup {NL})
      BY DEF MailInv, MailTyped
  <2>2. \A i \in Inodes : text'[i] = IF i = fd[m] THEN Append(text[i], e) ELSE text[i]
      BY <1>1 DEF MailInv, MailTyped
  <2>3. text' = [i \in Inodes |-> text'[i]]
      BY <1>1 DEF MailInv, MailTyped
  <2>4. \A i \in Inodes : Append(text[i], e) \in Seq(Msgs \cup {NL}) /\ Range(Append(text[i], e)) = Range(text[i]) \cup {e}
      BY <2>1, AppendedRange
  <2> QED
      BY <2>1, <2>2, <2>3, <2>4
<1>5. \A i \in Inodes : \A n \in Msgs : n \in Range(text'[i]) => n \in Range(text[i]) \/ (n = m /\ e = m /\ i = fd[m])
    BY <1>1, <1>4
<1>6. e = m => (\A i \in Inodes : m \notin Range(text[i])) /\ (\A k \in Drains : m \notin got[k])
  <2> SUFFICES ASSUME e = m PROVE (\A i \in Inodes : m \notin Range(text[i])) /\ (\A k \in Drains : m \notin got[k])
      OBVIOUS
  <2>1. push[m] \notin Wrote
      BY <1>1 DEF Wrote
  <2> QED
      BY <2>1 DEF MailInv, PlaceInv
<1>7. MailTyped'
    BY <1>2, <1>3, <1>4 DEF MailInv, MailTyped
<1>8. DrainerInv'
    BY <1>2 DEF MailInv, DrainerInv, InDrain
<1>9. PlaceInv'
  <2>1. \A n \in Msgs : \A i, j \in Inodes : n \in Range(text'[i]) /\ n \in Range(text'[j]) => i = j
      BY <1>5, <1>6 DEF MailInv, PlaceInv
  <2>2. \A n \in Msgs : (\E i \in Inodes : n \in Range(text'[i])) => push'[n] \in Wrote
      BY <1>3, <1>5 DEF MailInv, PlaceInv
  <2>3. \A n \in Msgs : (\E k \in Drains : n \in got'[k]) => push'[n] \in Wrote
      BY <1>2, <1>3 DEF MailInv, PlaceInv
  <2> QED
      BY <2>1, <2>2, <2>3 DEF PlaceInv
<1>10. GotInv'
  <2>1. \A k \in Drains : e \notin got[k]
      BY <1>1, <1>6, InboxAssumption DEF MailInv, MailTyped
  <2>2. Range(TextOf(inbox)') \subseteq Range(TextOf(inbox)) \cup {e}
      BY <1>2, <1>4 DEF TextOf, MailInv, MailTyped
  <2>3. Range(TextOf(draining)') \subseteq Range(TextOf(draining)) \cup {e}
      BY <1>2, <1>4 DEF TextOf, MailInv, MailTyped
  <2> QED
      BY <1>2, <2>1, <2>2, <2>3 DEF MailInv, GotInv
<1> QED
    BY <1>7, <1>8, <1>9, <1>10 DEF MailInv

LEMMA RenameKeeps ==
    ASSUME OneDrainer, MailInv, NEW k \in Drains, Rename(k, "emptied") PROVE MailInv'
<1>1. /\ drain[k] = "idle" /\ InDrain = {} /\ UNCHANGED <<text, push, fd, got>>
      /\ drain \in [Drains -> DrainStages] /\ draining \in Inodes \cup {NoFile}
    BY DEF Rename, MailInv, MailTyped, files
<1>2. PICK w \in {"renamed", "emptied"} : DrainAt(k, w)
    BY DEF Rename
<1>3. drain' \in [Drains -> DrainStages] /\ \A j \in Drains \ {k} : drain'[j] = drain[j]
    BY <1>1, <1>2 DEF DrainAt, DrainStages
<1>4. \A j \in Drains : drain'[j] \notin {"idle", "done", "error", "lost", "dead"} => j = k
    BY <1>1, <1>3 DEF InDrain
<1>5. CASE inbox = NoFile
  <2>1. UNCHANGED <<inbox, draining>> /\ drain'[k] = "emptied"
      BY <1>1, <1>5 DEF Rename, files, DrainAt
  <2>2. MailTyped' /\ PlaceInv'
      BY <1>1, <1>3, <2>1 DEF MailInv, MailTyped, PlaceInv
  <2>3. DrainerInv'
      BY <1>4, <2>1 DEF MailInv, DrainerInv, InDrain
  <2>4. GotInv'
    <3>1. \A j \in Drains : drain'[j] # "renamed"
        BY <1>4, <2>1
    <3> QED
        BY <1>1, <2>1, <3>1 DEF MailInv, GotInv, TextOf
  <2> QED
      BY <2>2, <2>3, <2>4 DEF MailInv
<1>6. CASE inbox # NoFile
  <2>1. draining' = inbox /\ inbox' = NoFile
      BY <1>6 DEF Rename
  <2>2. MailTyped' /\ PlaceInv'
      BY <1>1, <1>3, <2>1 DEF MailInv, MailTyped, PlaceInv
  <2>3. DrainerInv'
      BY <1>4, <2>1 DEF DrainerInv, InDrain
  <2>4. GotInv'
    <3>1. TextOf(inbox)' = <<>> /\ Range(<<>>) = {} /\ TextOf(draining)' = TextOf(inbox)
        BY <1>1, <1>6, <2>1 DEF TextOf, Range
    <3> QED
        BY <1>1, <3>1 DEF MailInv, GotInv
  <2> QED
      BY <2>2, <2>3, <2>4 DEF MailInv
<1> QED
    BY <1>5, <1>6

LEMMA ReadKeeps ==
    ASSUME MailInv, NEW k \in Drains, Read(k) PROVE MailInv'
<1>1. drain[k] = "renamed" /\ UNCHANGED <<inbox, draining, text, push, fd>> /\ k \in InDrain
    BY DEF Read, files, InDrain
<1>2. CASE draining = NoFile
  <2>1. DrainAt(k, "error") /\ UNCHANGED got /\ "error" \in DrainStages \ {"renamed"}
      BY <1>2 DEF Read, DrainStages
  <2> QED
      BY <1>1, <2>1, DrainOnly
<1>3. CASE draining # NoFile
  <2>1. PICK P : P = Parsed(text[draining])
      OBVIOUS
  <2>2. draining \in Inodes /\ text[draining] \in Seq(Msgs \cup {NL})
      BY <1>3 DEF MailInv, MailTyped
  <2>3. P \subseteq Range(text[draining]) /\ P \subseteq Msgs
      BY <2>1, <2>2, ParsedInText
  <2>4. drain' = [drain EXCEPT ![k] = "read"] /\ got' = [got EXCEPT ![k] = P]
      BY <1>3, <2>1 DEF Read, DrainAt
  <2>5. /\ got' \in [Drains -> SUBSET Msgs] /\ got'[k] = P /\ \A j \in Drains \ {k} : got'[j] = got[j]
        /\ drain' \in [Drains -> DrainStages] /\ drain'[k] = "read" /\ \A j \in Drains \ {k} : drain'[j] = drain[j]
      BY <2>3, <2>4 DEF MailInv, MailTyped, DrainStages
  <2>6. MailTyped'
      BY <1>1, <2>5 DEF MailInv, MailTyped
  <2>7. DrainerInv'
      BY <1>1, <2>5 DEF MailInv, DrainerInv, InDrain
  <2>8. PlaceInv'
    <3>1. \A n \in P : push[n] \in Wrote
        BY <2>2, <2>3 DEF MailInv, PlaceInv
    <3>2. \A n \in Msgs : (\E j \in Drains : n \in got'[j]) => push[n] \in Wrote
        BY <2>5, <3>1 DEF MailInv, PlaceInv
    <3> QED
        BY <1>1, <3>2 DEF MailInv, PlaceInv
  <2>9. GotInv'
    <3>1. \A j \in Drains : got[j] \cap P = {}
        BY <1>1, <1>3, <2>2, <2>3 DEF MailInv, GotInv, TextOf
    <3>2. P \cap Range(TextOf(inbox)) = {}
      <4>1. CASE inbox = NoFile
          BY <4>1 DEF TextOf, Range
      <4>2. CASE inbox # NoFile
        <5>1. inbox \in Inodes /\ inbox # draining /\ TextOf(inbox) = text[inbox]
            BY <4>2 DEF MailInv, MailTyped, DrainerInv, TextOf
        <5> QED
            BY <2>2, <2>3, <5>1 DEF MailInv, PlaceInv
      <4> QED
          BY <4>1, <4>2
    <3>3. \A j \in Drains : drain'[j] # "renamed"
        BY <1>1, <2>5 DEF MailInv, DrainerInv, InDrain
    <3>4. TextOf(inbox)' = TextOf(inbox)
        BY <1>1 DEF TextOf
    <3>5. \A i, j \in Drains : i # j => got'[i] \cap got'[j] = {}
        BY <2>5, <3>1 DEF MailInv, GotInv
    <3>6. \A j \in Drains : got'[j] \cap Range(TextOf(inbox)) = {}
        BY <2>5, <3>2 DEF MailInv, GotInv
    <3> QED
        BY <3>3, <3>4, <3>5, <3>6 DEF GotInv
  <2> QED
      BY <2>6, <2>7, <2>8, <2>9 DEF MailInv
<1> QED
    BY <1>2, <1>3

LEMMA UnlinkKeeps ==
    ASSUME MailInv, NEW k \in Drains, Unlink(k, "emptied") PROVE MailInv'
<1>1. /\ drain[k] = "read" /\ draining' \in {NoFile, draining} /\ drain' = [drain EXCEPT ![k] = "emptied"]
      /\ UNCHANGED <<inbox, text, push, fd, got>> /\ k \in InDrain
    BY DEF Unlink, DrainAt, InDrain
<1>2. drain' \in [Drains -> DrainStages] /\ drain'[k] = "emptied" /\ \A j \in Drains \ {k} : drain'[j] = drain[j]
    BY <1>1 DEF MailInv, MailTyped, DrainStages
<1>3. \A j \in Drains : drain'[j] # "renamed"
    BY <1>1, <1>2 DEF MailInv, DrainerInv, InDrain
<1>4. MailTyped' /\ PlaceInv'
    BY <1>1, <1>2 DEF MailInv, MailTyped, PlaceInv
<1>5. DrainerInv'
    BY <1>1, <1>2 DEF MailInv, DrainerInv, InDrain
<1>6. GotInv'
    BY <1>1, <1>3 DEF MailInv, GotInv, TextOf
<1> QED
    BY <1>4, <1>5, <1>6 DEF MailInv

LEMMA MailInitInv == BusInit => MailInv
<1> SUFFICES ASSUME BusInit PROVE MailInv
    OBVIOUS
<1>1. /\ inbox = NoFile /\ draining = NoFile /\ text = [i \in Inodes |-> <<>>] /\ push = [m \in Msgs |-> "idle"]
      /\ fd = [m \in Msgs |-> NoFile] /\ drain = [k \in Drains |-> "idle"] /\ got = [k \in Drains |-> {}]
    BY DEF BusInit, InboxInit
<1>2. Range(<<>>) = {}
    BY DEF Range
<1>3. MailTyped
    BY <1>1 DEF MailTyped, PushStages, DrainStages
<1>4. DrainerInv
    BY <1>1 DEF DrainerInv, InDrain
<1>5. PlaceInv
  <2>1. \A i \in Inodes : Range(text[i]) = {}
      BY <1>1, <1>2
  <2> QED
      BY <1>1, <2>1 DEF PlaceInv
<1>6. GotInv
    BY <1>1 DEF GotInv
<1> QED
    BY <1>3, <1>4, <1>5, <1>6 DEF MailInv

LEMMA MailNextInv == OneDrainer /\ MailInv /\ [BusNext]_busVars => MailInv'
<1> SUFFICES ASSUME OneDrainer, MailInv, [BusNext]_busVars PROVE MailInv'
    OBVIOUS
<1>1. fd \in [Msgs -> Inodes \cup {NoFile}]
    BY DEF MailInv, MailTyped
<1>2. CASE UNCHANGED <<inboxVars>>
  <2>1. UNCHANGED <<inbox, draining, text, push, fd, drain, got>>
      BY <1>2 DEF inboxVars
  <2>2. push' \in [Msgs -> PushStages] /\ drain' \in [Drains -> DrainStages]
      BY <2>1 DEF MailInv, MailTyped
  <2>3. \A k \in Drains : drain'[k] \notin {"idle", "done", "error", "lost", "dead"} => k \in InDrain
      BY <2>1 DEF InDrain
  <2> QED
      BY <1>1, <2>1, <2>2, <2>3, MailQuiet
<1>3. ASSUME NEW m \in Msgs, CheckRoom(m) \/ Stat(m, "stored") \/ PushDies(m) PROVE MailInv'
  <2>1. \E w \in PushStages : PushAt(m, w) /\ (push[m] \in Wrote => w \in Wrote)
      BY <1>3 DEF CheckRoom, Stat, PushDies, PushStages, Wrote
  <2>2. UNCHANGED <<inbox, draining, text, got, drain>> /\ fd' \in [Msgs -> Inodes \cup {NoFile}]
      BY <1>1, <1>3 DEF CheckRoom, Stat, PushDies, files
  <2> QED
      BY <2>1, <2>2, PushOnly
<1>4. ASSUME NEW m \in Msgs, StatsFail(m) \/ SendTmux(m) \/ LogSent(m) \/ LogFailed(m)
                             \/ SendUnlogged(m) \/ EndSend(m)
      PROVE  MailInv'
  <2>1. \E w \in PushStages : PushAt(m, w) /\ (push[m] \in Wrote => w \in Wrote)
      BY <1>4 DEF StatsFail, SendTmux, LogSent, LogFailed, SendUnlogged, EndSend, PushStages, Wrote
  <2>2. UNCHANGED <<inbox, draining, text, got, drain>> /\ fd' \in [Msgs -> Inodes \cup {NoFile}]
      BY <1>1, <1>4 DEF StatsFail, SendTmux, LogSent, LogFailed, SendUnlogged, EndSend, files
  <2> QED
      BY <2>1, <2>2, PushOnly
<1>5. ASSUME NEW m \in Msgs, OpenInbox(m) \/ WriteLine(m) \/ WriteNewline(m) PROVE MailInv'
    BY <1>5, OpenInboxKeeps, WriteKeeps
<1>6. ASSUME NEW m \in Msgs, CheckAck(m) \/ LogAck(m) \/ EndAck(m) PROVE MailInv'
    BY <1>2, <1>6 DEF CheckAck, LogAck, EndAck
<1>7. ASSUME NEW k \in Drains, Rename(k, "emptied") \/ Read(k) \/ Unlink(k, "emptied") PROVE MailInv'
    BY <1>7, RenameKeeps, ReadKeeps, UnlinkKeeps
<1>8. ASSUME NEW k \in Drains, DrainDies(k) \/ LogDrain(k) \/ DrainUnlogged(k) \/ EndDrain(k) PROVE MailInv'
  <2>1. \E w \in DrainStages \ {"renamed"} : DrainAt(k, w) /\ k \in InDrain
      BY <1>8 DEF DrainDies, LogDrain, DrainUnlogged, EndDrain, DrainStages, InDrain
  <2>2. UNCHANGED <<inbox, draining, text, got, push, fd>>
      BY <1>8 DEF DrainDies, LogDrain, DrainUnlogged, EndDrain, files
  <2> QED
      BY <2>1, <2>2, DrainOnly
<1> QED
    BY <1>2, <1>3, <1>4, <1>5, <1>6, <1>7, <1>8 DEF BusNext, busVars

\* The types are kept by any drains, those that overlap too.
AckStages == {"idle", "checked", "logged", "done"}
BusTyped == MailTyped /\ met \subseteq Msgs /\ halfLine \in BOOLEAN /\ ack \in [Msgs -> AckStages]

LEMMA BusTypedInit == BusInit => BusTyped
BY MailInitInv DEF BusTyped, MailInv, BusInit, InboxInit, AckStages

LEMMA BusTypedNext == BusTyped /\ [BusNext]_busVars => BusTyped'
<1> SUFFICES ASSUME BusTyped, [BusNext]_busVars PROVE BusTyped'
    OBVIOUS
<1>1. /\ inbox \in Inodes \cup {NoFile} /\ draining \in Inodes \cup {NoFile} /\ text \in [Inodes -> Seq(Msgs \cup {NL})]
      /\ push \in [Msgs -> PushStages] /\ fd \in [Msgs -> Inodes \cup {NoFile}]
      /\ drain \in [Drains -> DrainStages] /\ got \in [Drains -> SUBSET Msgs]
      /\ met \subseteq Msgs /\ halfLine \in BOOLEAN /\ ack \in [Msgs -> AckStages]
    BY DEF BusTyped, MailTyped
<1>2. CASE UNCHANGED busVars
    BY <1>1, <1>2 DEF BusTyped, MailTyped, busVars, inboxVars
<1>3. ASSUME NEW m \in Msgs, CheckRoom(m) \/ Stat(m, "stored") \/ PushDies(m), UNCHANGED <<log, halfLine, ack>> PROVE BusTyped'
  <2>1. push' \in [Msgs -> PushStages] /\ met' \subseteq Msgs
      BY <1>1, <1>3, SMTT(60) DEF CheckRoom, Stat, PushDies, PushAt, PushStages, Wrote, Running
  <2>2. UNCHANGED <<inbox, draining, text, drain, got>> /\ fd' \in [Msgs -> Inodes \cup {NoFile}]
      BY <1>1, <1>3 DEF CheckRoom, Stat, PushDies, files
  <2> QED
      BY <1>1, <1>3, <2>1, <2>2 DEF BusTyped, MailTyped
<1>4. ASSUME NEW m \in Msgs, OpenInbox(m), UNCHANGED <<log, halfLine, ack>> PROVE BusTyped'
  <2>1. inbox' \in Inodes /\ text' \in [Inodes -> Seq(Msgs \cup {NL})]
    <3>1. CASE inbox = NoFile
      <4>1. PICK u : u = Unused
          OBVIOUS
      <4>2. u \in Inodes
          BY <3>1, <4>1, UnusedFile DEF BusTyped
      <4>3. inbox' = u /\ text' = [text EXCEPT ![u] = <<>>]
          BY <1>4, <3>1, <4>1 DEF OpenInbox
      <4> QED
          BY <1>1, <4>2, <4>3
    <3>2. CASE inbox # NoFile
        BY <1>1, <1>4, <3>2 DEF OpenInbox
    <3> QED
        BY <3>1, <3>2
  <2>2. push' \in [Msgs -> PushStages] /\ fd' \in [Msgs -> Inodes \cup {NoFile}] /\ UNCHANGED <<draining, drain, got, met>>
      BY <1>1, <1>4, <2>1 DEF OpenInbox, PushAt, PushStages
  <2> QED
      BY <1>1, <1>4, <2>1, <2>2 DEF BusTyped, MailTyped
<1>5. ASSUME NEW m \in Msgs, WriteLine(m) \/ WriteNewline(m), UNCHANGED <<log, halfLine, ack>> PROVE BusTyped'
  <2>1. PICK e \in Msgs \cup {NL} : text' = [text EXCEPT ![fd[m]] = Append(@, e)]
      BY <1>5 DEF WriteLine, WriteNewline
  <2>2. \A i \in Inodes : Append(text[i], e) \in Seq(Msgs \cup {NL})
      BY <1>1, AppendedRange
  <2>3. text' \in [Inodes -> Seq(Msgs \cup {NL})]
      BY <1>1, <2>1, <2>2
  <2>4. push' \in [Msgs -> PushStages] /\ UNCHANGED <<inbox, draining, fd, drain, got, met>>
      BY <1>1, <1>5 DEF WriteLine, WriteNewline, PushAt, PushStages, Wrote
  <2> QED
      BY <1>1, <1>5, <2>3, <2>4 DEF BusTyped, MailTyped
<1>6. ASSUME NEW m \in Msgs, StatsFail(m) \/ SendTmux(m) \/ LogSent(m) \/ LogFailed(m)
                             \/ SendUnlogged(m) \/ EndSend(m)
      PROVE  BusTyped'
  <2>1. push' \in [Msgs -> PushStages]
      BY <1>1, <1>6 DEF StatsFail, SendTmux, LogSent, LogFailed, SendUnlogged, EndSend, PushAt, PushStages, Wrote
  <2>2. UNCHANGED <<inbox, draining, text, fd, drain, got, met, ack>> /\ halfLine' \in BOOLEAN
      BY <1>1, <1>6 DEF StatsFail, SendTmux, LogSent, LogFailed, SendUnlogged, EndSend, LogLine, LogNewline, files
  <2> QED
      BY <1>1, <2>1, <2>2 DEF BusTyped, MailTyped
<1>7. ASSUME NEW m \in Msgs, CheckAck(m) \/ LogAck(m) \/ EndAck(m) PROVE BusTyped'
  <2>1. UNCHANGED <<inbox, draining, text, push, fd, drain, got, met>> /\ halfLine' \in BOOLEAN
      BY <1>1, <1>7 DEF CheckAck, LogAck, EndAck, LogLine, LogNewline, inboxVars
  <2>2. ack' \in [Msgs -> AckStages]
      BY <1>1, <1>7 DEF CheckAck, LogAck, EndAck, AckStages
  <2> QED
      BY <1>1, <2>1, <2>2 DEF BusTyped, MailTyped
<1>8. ASSUME NEW k \in Drains, Rename(k, "emptied") \/ Unlink(k, "emptied") \/ DrainDies(k), UNCHANGED <<log, halfLine, ack>>
      PROVE  BusTyped'
  <2>1. inbox' \in Inodes \cup {NoFile} /\ draining' \in Inodes \cup {NoFile} /\ UNCHANGED <<text, push, fd, got, met>>
      BY <1>1, <1>8 DEF Rename, Unlink, DrainDies, files
  <2>2. drain' \in [Drains -> DrainStages]
      BY <1>1, <1>8 DEF Rename, Unlink, DrainDies, DrainAt, DrainStages
  <2> QED
      BY <1>1, <1>8, <2>1, <2>2 DEF BusTyped, MailTyped
<1>9. ASSUME NEW k \in Drains, Read(k), UNCHANGED <<log, halfLine, ack>> PROVE BusTyped'
  <2>1. UNCHANGED <<inbox, draining, text, push, fd, met>> /\ drain' \in [Drains -> DrainStages]
      BY <1>1, <1>9 DEF Read, DrainAt, DrainStages, files
  <2>2. got' \in [Drains -> SUBSET Msgs]
    <3>1. CASE draining = NoFile
        BY <1>1, <1>9, <3>1 DEF Read
    <3>2. CASE draining # NoFile
      <4>1. Parsed(text[draining]) \subseteq Msgs
          BY <1>1, <3>2, ParsedInText
      <4> QED
          BY <1>1, <1>9, <3>2, <4>1 DEF Read
    <3> QED
        BY <3>1, <3>2
  <2> QED
      BY <1>1, <1>9, <2>1, <2>2 DEF BusTyped, MailTyped
<1>10. ASSUME NEW k \in Drains, LogDrain(k) \/ DrainUnlogged(k) \/ EndDrain(k) PROVE BusTyped'
  <2>1. UNCHANGED <<inbox, draining, text, push, fd, got, met, ack>> /\ halfLine' \in BOOLEAN
      BY <1>1, <1>10 DEF LogDrain, DrainUnlogged, EndDrain, LogLine, LogNewline, files
  <2>2. drain' \in [Drains -> DrainStages]
      BY <1>1, <1>10 DEF LogDrain, DrainUnlogged, EndDrain, DrainAt, DrainStages
  <2> QED
      BY <1>1, <2>1, <2>2 DEF BusTyped, MailTyped
<1> QED
    BY <1>2, <1>3, <1>4, <1>5, <1>6, <1>7, <1>8, <1>9, <1>10 DEF BusNext

\* The files, the log's last line and where every call stands keep their types.
THEOREM BusTypes == BusSpec => []BusTypeOK
<1>1. BusTyped => BusTypeOK
    BY DEF BusTyped, MailTyped, BusTypeOK, PushStages, Wrote, DrainStages, AckStages
<1> QED
    BY <1>1, BusTypedInit, BusTypedNext, PTL DEF BusSpec

----------------------------------------------------------------------------
\* What becomes of a message that was sent.

\* No drain was killed, and no send left half a line.
Whole == (\A k \in Drains : drain[k] \notin {"lost", "dead"}) /\ (\A n \in Msgs : push[n] # "cut")

\* The sends that are at work on the file.
Filing == {m \in Msgs : push[m] \in {"fits", "open", "line", "written"}}

\* The message is the last line, begun on a line of its own; it is a line of its own.
OwnLast(t, m) == Len(t) > 0 /\ t[Len(t)] = m /\ (Len(t) = 1 \/ t[Len(t) - 1] = NL)
OwnLine(t, m) ==
    \E p \in 1..(Len(t) - 1) : t[p] = m /\ t[p + 1] = NL /\ (p = 1 \/ t[p - 1] = NL)

\* The file a drain has yet to read.
ToRead(i) == i = inbox \/ (i = draining /\ \E k \in Drains : drain[k] = "renamed")
Safe(m) == (\E k \in Drains : m \in got[k]) \/ (\E i \in Inodes : ToRead(i) /\ OwnLine(text[i], m))

\* A line without an end belongs to a send that is about to end it, or was killed.
EndInv ==
    \A i \in Inodes : Len(text[i]) > 0 =>
        LET e == text[i][Len(text[i])]
        IN  e = NL \/ (push[e] = "line" /\ fd[e] = i) \/ push[e] = "cut"

\* A send that met no other is alone at the file.
AloneInv ==
    /\ \A m \in Filing \ met : Filing = {m}
    /\ \A m \in Msgs : push[m] \in {"open", "line", "written"} => fd[m] \in Inodes

UnreadInv ==
    \A k \in Drains : /\ drain[k] \in {"idle", "renamed"} => got[k] = {}
                      /\ drain[k] = "renamed" => draining # NoFile

\* Until it looks at the path, such a send has written to the inbox, or there is none;
\* after that its message is on its way to a drain.
KeptInv(m) ==
    /\ push[m] = "open" => inbox \in {NoFile, fd[m]}
    /\ push[m] = "line" => inbox = NoFile \/ (inbox = fd[m] /\ OwnLast(text[inbox], m))
    /\ push[m] = "written" => inbox = NoFile \/ (inbox = fd[m] /\ OwnLine(text[inbox], m))
    /\ push[m] \in {"stored", "logged", "sent"} => Safe(m)

SentInv ==
    /\ EndInv /\ AloneInv /\ UnreadInv
    /\ Whole => \A m \in Msgs \ met : KeptInv(m)

\* A message on a line of its own is parsed.
LEMMA OwnLineParsed ==
    ASSUME NEW t \in Seq(Msgs \cup {NL}), NEW m \in Msgs, OwnLine(t, m)
    PROVE  m \in Parsed(t) /\ m \in Range(t)
<1> DEFINE ends == {0} \cup {i \in 1..Len(t) : t[i] = NL} \cup {Len(t) + 1}
<1> DEFINE After(i) == Min({j \in ends : j > i})
<1>1. Len(t) \in Nat /\ DOMAIN t = 1..Len(t) /\ m # NL
    BY InboxAssumption
<1>2. PICK p \in 1..(Len(t) - 1) : t[p] = m /\ t[p + 1] = NL /\ (p = 1 \/ t[p - 1] = NL)
    BY DEF OwnLine
<1>3. p \in 1..Len(t) /\ p + 1 \in 1..Len(t) /\ p - 1 \in 0..Len(t)
    BY <1>1, <1>2
<1>4. PICK q : q = p - 1
    OBVIOUS
<1>5. q \in ends \ {Len(t) + 1} /\ p + 1 \in ends /\ p \notin ends
    BY <1>1, <1>2, <1>3, <1>4
<1>6. After(q) = p + 1
  <2>1. p + 1 \in {j \in ends : j > q} /\ \A j \in {j \in ends : j > q} : p + 1 <= j
      BY <1>1, <1>3, <1>4, <1>5
  <2>2. \A x \in {j \in ends : j > q} : (\A j \in {j \in ends : j > q} : x <= j) => x = p + 1
      BY <1>1, <1>3, <1>4, <1>5, <2>1
  <2> QED
      BY <2>1, <2>2 DEF Min
<1>7. SubSeq(t, q + 1, After(q) - 1) = SubSeq(t, p, p)
  <2>1. PICK a : a = After(q)
      OBVIOUS
  <2>2. q + 1 = p /\ a - 1 = p
      BY <1>3, <1>4, <1>6, <2>1
  <2> QED
      BY <2>1, <2>2
<1>8. SubSeq(t, p, p) = [k \in 1..1 |-> t[k + p - 1]] /\ Len(SubSeq(t, p, p)) = 1
    BY <1>1, <1>3
<1>9. SubSeq(t, p, p)[1] = m /\ SubSeq(t, p, p) # <<>>
    BY <1>2, <1>3, <1>8
<1>10. SubSeq(t, p, p) \in Lines(t)
    BY <1>5, <1>7, <1>9 DEF Lines
<1>11. m \in Parsed(t)
    BY <1>8, <1>9, <1>10 DEF Parsed
<1> QED
    BY <1>1, <1>2, <1>3, <1>11 DEF Range

\* What an append makes of the lines.
LEMMA AppendedLines ==
    ASSUME NEW t \in Seq(Msgs \cup {NL}), NEW e \in Msgs \cup {NL}, NEW m \in Msgs
    PROVE  /\ Len(Append(t, e)) > 0 /\ Append(t, e)[Len(Append(t, e))] = e
           /\ OwnLine(t, m) => OwnLine(Append(t, e), m)
           /\ OwnLast(t, m) => OwnLine(Append(t, NL), m)
           /\ Len(t) = 0 \/ t[Len(t)] = NL => OwnLast(Append(t, m), m)
<1>1. Len(t) \in Nat
    OBVIOUS
<1>2. ASSUME NEW x \in Msgs \cup {NL}
      PROVE  Len(Append(t, x)) = Len(t) + 1 /\ Append(t, x)[Len(t) + 1] = x /\ \A i \in 1..Len(t) : Append(t, x)[i] = t[i]
    OBVIOUS
<1>3. ASSUME OwnLine(t, m) PROVE OwnLine(Append(t, e), m)
  <2>1. PICK p \in 1..(Len(t) - 1) : t[p] = m /\ t[p + 1] = NL /\ (p = 1 \/ t[p - 1] = NL)
      BY <1>3 DEF OwnLine
  <2>2. p \in 1..(Len(Append(t, e)) - 1) /\ p \in 1..Len(t) /\ p + 1 \in 1..Len(t) /\ (p = 1 \/ p - 1 \in 1..Len(t))
      BY <1>1, <1>2, <2>1
  <2>3. Append(t, e)[p] = m /\ Append(t, e)[p + 1] = NL /\ (p = 1 \/ Append(t, e)[p - 1] = NL)
      BY <1>2, <2>1, <2>2
  <2> QED
      BY <2>2, <2>3 DEF OwnLine
<1>4. ASSUME OwnLast(t, m) PROVE OwnLine(Append(t, NL), m)
  <2>1. Len(t) > 0 /\ t[Len(t)] = m /\ (Len(t) = 1 \/ t[Len(t) - 1] = NL)
      BY <1>4 DEF OwnLast
  <2>2. PICK p : p = Len(t)
      OBVIOUS
  <2>3. p \in 1..(Len(Append(t, NL)) - 1) /\ p \in 1..Len(t) /\ (p = 1 \/ p - 1 \in 1..Len(t))
      BY <1>1, <1>2, <2>1, <2>2
  <2>4. Append(t, NL)[p] = m /\ Append(t, NL)[p + 1] = NL /\ (p = 1 \/ Append(t, NL)[p - 1] = NL)
      BY <1>2, <2>1, <2>2, <2>3, SMTT(60)
  <2> QED
      BY <2>3, <2>4 DEF OwnLine
<1>5. ASSUME Len(t) = 0 \/ t[Len(t)] = NL PROVE OwnLast(Append(t, m), m)
  <2>1. Len(Append(t, m)) = Len(t) + 1 /\ Append(t, m)[Len(t) + 1] = m
      BY <1>2
  <2>2. Len(t) = 0 \/ (Len(t) \in 1..Len(t) /\ Append(t, m)[Len(t)] = NL)
      BY <1>1, <1>2, <1>5
  <2>3. (Len(t) + 1) - 1 = Len(t) /\ Len(t) + 1 > 0 /\ (Len(t) = 0 => Len(t) + 1 = 1)
      BY <1>1
  <2> QED
      BY <2>1, <2>2, <2>3, ZenonT(60) DEF OwnLast
<1> QED
    BY <1>1, <1>2, <1>3, <1>4, <1>5

\* The last thing in a file is a message or the newline.
LEMMA LastInText ==
    ASSUME MailInv, NEW i \in Inodes, Len(text[i]) > 0
    PROVE  text[i][Len(text[i])] \in Msgs \cup {NL}
<1>1. text[i] \in Seq(Msgs \cup {NL})
    BY DEF MailInv, MailTyped
<1>2. Len(text[i]) \in 1..Len(text[i])
    BY <1>1
<1> QED
    BY <1>1, <1>2

\* A step of the calls that leaves the files and what was parsed alone.
LEMMA SentQuiet ==
    ASSUME MailInv, SentInv, UNCHANGED <<inbox, draining, text, got>>, met \subseteq met',
           \A n \in Msgs : push[n] = "line" => push'[n] = "cut" \/ (push'[n] = "line" /\ fd'[n] = fd[n]),
           \A n \in Msgs : push[n] = "cut" => push'[n] = "cut",
           \A n \in Msgs : push'[n] \in {"fits", "open", "line", "written"} => push'[n] = push[n] /\ fd'[n] = fd[n],
           \A n \in Msgs : push'[n] \in {"stored", "logged", "sent"} => push[n] \in {"stored", "logged", "sent"},
           \A k \in Drains : drain'[k] \in {"idle", "renamed"} => drain'[k] = drain[k],
           \A k \in Drains : drain[k] = "renamed" => drain'[k] \in {"renamed", "dead"},
           \A k \in Drains : drain[k] \in {"lost", "dead"} => drain'[k] = drain[k]
    PROVE  SentInv'
<1>1. EndInv'
  <2> SUFFICES ASSUME NEW i \in Inodes, Len(text[i]) > 0, NEW e, e = text[i][Len(text[i])]
               PROVE  e = NL \/ (push'[e] = "line" /\ fd'[e] = i) \/ push'[e] = "cut"
      BY DEF EndInv
  <2>1. e \in Msgs \cup {NL} /\ (e = NL \/ (push[e] = "line" /\ fd[e] = i) \/ push[e] = "cut")
      BY LastInText DEF SentInv, EndInv
  <2> QED
      BY <2>1
<1>2. Filing' \subseteq Filing
    BY DEF Filing
<1>3. AloneInv'
  <2>1. ASSUME NEW m \in Filing' \ met' PROVE Filing' = {m}
      BY <1>2, <2>1 DEF SentInv, AloneInv
  <2>2. \A m \in Msgs : push'[m] \in {"open", "line", "written"} => fd'[m] \in Inodes
      BY DEF SentInv, AloneInv
  <2> QED
      BY <2>1, <2>2 DEF AloneInv
<1>4. UnreadInv'
    BY DEF SentInv, UnreadInv
<1>5. ASSUME Whole', NEW m \in Msgs \ met' PROVE KeptInv(m)'
  <2>1. Whole
      BY <1>5 DEF Whole
  <2>2. KeptInv(m)
      BY <1>5, <2>1 DEF SentInv
  <2>3. Safe(m) => Safe(m)'
      BY <1>5 DEF Safe, ToRead, Whole
  <2> QED
      BY <1>5, <2>2, <2>3 DEF KeptInv
<1> QED
    BY <1>1, <1>3, <1>4, <1>5 DEF SentInv

LEMMA CheckRoomSent ==
    ASSUME MailInv, SentInv, NEW m \in Msgs, CheckRoom(m) PROVE SentInv'
<1>1. /\ push[m] = "idle" /\ UNCHANGED <<inbox, draining, text, fd, drain, got>>
      /\ met' = IF Running = {} THEN met ELSE met \cup Running \cup {m}
      /\ push \in [Msgs -> PushStages]
    BY DEF CheckRoom, files, MailInv, MailTyped
<1>2. PICK w \in {"fits", "full"} : PushAt(m, w)
    BY DEF CheckRoom
<1>3. push'[m] = w /\ \A n \in Msgs \ {m} : push'[n] = push[n]
    BY <1>1, <1>2 DEF PushAt
<1>4. Filing \subseteq Running /\ Filing' \subseteq Filing \cup {m}
    BY <1>3 DEF Filing, Running
<1>5. met \subseteq met'
    BY <1>1
<1>6. EndInv'
  <2> SUFFICES ASSUME NEW i \in Inodes, Len(text[i]) > 0, NEW e, e = text[i][Len(text[i])]
               PROVE  e = NL \/ (push'[e] = "line" /\ fd'[e] = i) \/ push'[e] = "cut"
      BY <1>1 DEF EndInv
  <2>1. e \in Msgs \cup {NL} /\ (e = NL \/ (push[e] = "line" /\ fd[e] = i) \/ push[e] = "cut")
      BY LastInText DEF SentInv, EndInv
  <2> QED
      BY <1>1, <1>3, <2>1
<1>7. AloneInv'
  <2>1. ASSUME NEW n \in Filing' \ met' PROVE Filing' = {n}
    <3>1. CASE Running = {}
        BY <1>4, <2>1, <3>1
    <3>2. CASE Running # {}
        BY <1>1, <1>4, <2>1, <3>2
    <3> QED
        BY <3>1, <3>2
  <2>2. \A n \in Msgs : push'[n] \in {"open", "line", "written"} => fd'[n] \in Inodes
      BY <1>1, <1>3 DEF SentInv, AloneInv
  <2> QED
      BY <2>1, <2>2 DEF AloneInv
<1>8. UnreadInv'
    BY <1>1 DEF SentInv, UnreadInv
<1>9. ASSUME Whole', NEW n \in Msgs \ met' PROVE KeptInv(n)'
  <2>1. Whole
      BY <1>1, <1>3, <1>9 DEF Whole
  <2>2. KeptInv(n)
      BY <1>5, <1>9, <2>1 DEF SentInv
  <2>3. Safe(n) => Safe(n)'
      BY <1>1 DEF Safe, ToRead
  <2> QED
      BY <1>1, <1>3, <2>2, <2>3 DEF KeptInv
<1> QED
    BY <1>6, <1>7, <1>8, <1>9 DEF SentInv

LEMMA OpenInboxSent ==
    ASSUME MailInv, SentInv, NEW m \in Msgs, OpenInbox(m) PROVE SentInv'
<1>1. /\ push[m] = "fits" /\ fd' = [fd EXCEPT ![m] = inbox'] /\ PushAt(m, "open")
      /\ UNCHANGED <<draining, drain, got, met>> /\ m \in Filing
    BY DEF OpenInbox, Filing
<1>2. /\ push'[m] = "open" /\ fd'[m] = inbox'
      /\ \A n \in Msgs \ {m} : push'[n] = push[n] /\ fd'[n] = fd[n]
    BY <1>1 DEF MailInv, MailTyped, PushAt
<1>3. Filing' = Filing
    BY <1>1, <1>2 DEF Filing
<1>4. /\ inbox' \in Inodes /\ text' \in [Inodes -> Seq(Msgs \cup {NL})]
      /\ \A i \in Inodes : text'[i] = text[i] \/ (Len(text'[i]) = 0 /\ i # draining /\ inbox = NoFile)
      /\ inbox # NoFile => inbox' = inbox
  <2>1. CASE inbox # NoFile
      BY <2>1 DEF OpenInbox, MailInv, MailTyped
  <2>2. CASE inbox = NoFile
    <3>1. PICK u : u = Unused
        OBVIOUS
    <3>2. u \in Inodes /\ u # draining /\ inbox' = u /\ text' = [text EXCEPT ![u] = <<>>]
        BY <2>2, <3>1, UnusedFile DEF OpenInbox, MailInv
    <3> QED
        BY <2>2, <3>2 DEF MailInv, MailTyped
  <2> QED
      BY <2>1, <2>2
<1>5. EndInv'
  <2> SUFFICES ASSUME NEW i \in Inodes, Len(text'[i]) > 0, NEW e, e = text'[i][Len(text'[i])]
               PROVE  e = NL \/ (push'[e] = "line" /\ fd'[e] = i) \/ push'[e] = "cut"
      BY DEF EndInv
  <2>1. text'[i] = text[i]
      BY <1>4
  <2>2. e \in Msgs \cup {NL} /\ (e = NL \/ (push[e] = "line" /\ fd[e] = i) \/ push[e] = "cut")
      BY <2>1, LastInText DEF SentInv, EndInv
  <2> QED
      BY <1>1, <1>2, <2>2
<1>6. AloneInv'
    BY <1>1, <1>2, <1>3, <1>4 DEF SentInv, AloneInv
<1>7. UnreadInv'
    BY <1>1 DEF SentInv, UnreadInv
<1>8. ASSUME Whole', NEW n \in Msgs \ met' PROVE KeptInv(n)'
  <2>1. Whole
      BY <1>1, <1>2, <1>8 DEF Whole
  <2>2. KeptInv(n)
      BY <1>1, <1>8, <2>1 DEF SentInv
  <2>3. n # m => push[n] \notin {"open", "line", "written"}
      BY <1>1, <1>8 DEF SentInv, AloneInv, Filing
  <2>4. Safe(n) => Safe(n)'
    <3>1. \A i \in Inodes : ToRead(i) => ToRead(i)' /\ text'[i] = text[i]
        BY <1>1, <1>4, FileAssumption DEF ToRead
    <3> QED
        BY <1>1, <3>1 DEF Safe
  <2> QED
      BY <1>2, <2>2, <2>3, <2>4 DEF KeptInv
<1> QED
    BY <1>5, <1>6, <1>7, <1>8 DEF SentInv

\* The two writes: a line begun after an end, and its end, are a line of its own.
LEMMA WriteSent ==
    ASSUME MailInv, SentInv, NEW m \in Msgs, WriteLine(m) \/ WriteNewline(m) PROVE SentInv'
<1>1. PICK e \in Msgs \cup {NL}, w \in {"line", "written"} :
          /\ text' = [text EXCEPT ![fd[m]] = Append(@, e)] /\ PushAt(m, w)
          /\ \/ push[m] = "open" /\ e = m /\ w = "line"
             \/ push[m] = "line" /\ e = NL /\ w = "written"
    BY DEF WriteLine, WriteNewline
<1>2. UNCHANGED <<inbox, draining, fd, drain, got, met>>
    BY DEF WriteLine, WriteNewline
<1>3. push'[m] = w /\ \A n \in Msgs \ {m} : push'[n] = push[n]
    BY <1>1 DEF MailInv, MailTyped, PushAt
<1>4. m \in Filing /\ Filing' = Filing /\ fd[m] \in Inodes
    BY <1>1, <1>3 DEF Filing, SentInv, AloneInv
<1>5. /\ \A i \in Inodes : text[i] \in Seq(Msgs \cup {NL})
      /\ text'[fd[m]] = Append(text[fd[m]], e) /\ \A i \in Inodes \ {fd[m]} : text'[i] = text[i]
    BY <1>1, <1>4 DEF MailInv, MailTyped
<1>6. EndInv'
  <2> SUFFICES ASSUME NEW i \in Inodes, Len(text'[i]) > 0, NEW x, x = text'[i][Len(text'[i])]
               PROVE  x = NL \/ (push'[x] = "line" /\ fd'[x] = i) \/ push'[x] = "cut"
      BY DEF EndInv
  <2>1. CASE i = fd[m]
    <3>1. x = e
        BY <1>4, <1>5, <2>1, AppendedLines
    <3> QED
        BY <1>1, <1>2, <1>3, <2>1, <3>1
  <2>2. CASE i # fd[m]
    <3>1. x \in Msgs \cup {NL} /\ (x = NL \/ (push[x] = "line" /\ fd[x] = i) \/ push[x] = "cut")
        BY <1>5, <2>2, LastInText DEF SentInv, EndInv
    <3> QED
        BY <1>1, <1>2, <1>3, <2>2, <3>1
  <2> QED
      BY <2>1, <2>2
<1>7. AloneInv'
    BY <1>2, <1>3, <1>4 DEF SentInv, AloneInv
<1>8. UnreadInv'
    BY <1>2 DEF SentInv, UnreadInv
<1>9. ASSUME Whole', NEW n \in Msgs \ met' PROVE KeptInv(n)'
  <2>1. Whole
      BY <1>1, <1>2, <1>3, <1>9 DEF Whole
  <2>2. KeptInv(n) /\ n \notin met
      BY <1>2, <1>9, <2>1 DEF SentInv
  <2>3. CASE n # m
    <3>1. push[n] \notin {"open", "line", "written"} /\ push'[n] = push[n]
        BY <1>3, <1>4, <2>2, <2>3 DEF SentInv, AloneInv, Filing
    <3>2. ASSUME NEW i \in Inodes, OwnLine(text[i], n) PROVE OwnLine(text'[i], n)
      <4>1. text[i] \in Seq(Msgs \cup {NL}) /\ n \in Msgs /\ e \in Msgs \cup {NL}
          BY <1>5
      <4>2. OwnLine(Append(text[i], e), n)
          BY <3>2, <4>1, AppendedLines
      <4>3. text'[i] = text[i] \/ text'[i] = Append(text[i], e)
          BY <1>5
      <4> QED
          BY <3>2, <4>2, <4>3
    <3>3. Safe(n) => Safe(n)'
        BY <1>2, <3>2 DEF Safe, ToRead
    <3> QED
        BY <2>2, <3>1, <3>3 DEF KeptInv
  <2>4. CASE n = m /\ push[m] = "open"
    <3>1. push'[n] = "line" /\ e = m
        BY <1>1, <1>3, <2>4
    <3>2. Len(text[fd[m]]) = 0 \/ text[fd[m]][Len(text[fd[m]])] = NL
      <4>1. PICK t : t = text[fd[m]]
          OBVIOUS
      <4>2. Len(t) \in Nat
          BY <1>4, <1>5, <4>1
      <4>3. CASE Len(t) > 0
        <5>1. PICK x : x = t[Len(t)]
            OBVIOUS
        <5>2. x \in Msgs \cup {NL} /\ (x = NL \/ (push[x] = "line" /\ fd[x] = fd[m]) \/ push[x] = "cut")
            BY <1>4, <4>1, <4>3, <5>1, LastInText DEF SentInv, EndInv
        <5>3. \A y \in Msgs : push[y] = "line" => y \in Filing
            BY DEF Filing
        <5> QED
            BY <1>4, <2>1, <2>2, <2>4, <4>1, <5>1, <5>2, <5>3 DEF SentInv, AloneInv, Whole
      <4> QED
          BY <4>1, <4>2, <4>3
    <3>3. OwnLast(text'[fd[m]], m)
        BY <1>4, <1>5, <3>1, <3>2, AppendedLines
    <3> QED
        BY <1>2, <2>2, <2>4, <3>1, <3>3 DEF KeptInv
  <2>5. CASE n = m /\ push[m] = "line"
    <3>1. push'[n] = "written" /\ e = NL
        BY <1>1, <1>3, <2>5
    <3>2. OwnLast(text[fd[m]], m) => OwnLine(text'[fd[m]], m)
        BY <1>4, <1>5, <3>1, AppendedLines
    <3> QED
        BY <1>2, <2>2, <2>5, <3>1, <3>2 DEF KeptInv
  <2> QED
      BY <1>1, <2>3, <2>4, <2>5
<1> QED
    BY <1>6, <1>7, <1>8, <1>9 DEF SentInv

LEMMA StatSent ==
    ASSUME MailInv, SentInv, NEW m \in Msgs, Stat(m, "stored") PROVE SentInv'
<1>1. /\ push[m] = "written" /\ fd' = [fd EXCEPT ![m] = NoFile]
      /\ UNCHANGED <<inbox, draining, text, drain, got, met>> /\ m \in Filing
      /\ PushAt(m, IF inbox = NoFile THEN "error" ELSE "stored")
    BY DEF Stat, files, Filing
<1>2. /\ push'[m] = IF inbox = NoFile THEN "error" ELSE "stored"
      /\ \A n \in Msgs \ {m} : push'[n] = push[n] /\ fd'[n] = fd[n]
    BY <1>1 DEF MailInv, MailTyped, PushAt
<1>3. Filing' \subseteq Filing \ {m}
    BY <1>2 DEF Filing
<1>4. EndInv'
  <2> SUFFICES ASSUME NEW i \in Inodes, Len(text[i]) > 0, NEW e, e = text[i][Len(text[i])]
               PROVE  e = NL \/ (push'[e] = "line" /\ fd'[e] = i) \/ push'[e] = "cut"
      BY <1>1 DEF EndInv
  <2>1. e \in Msgs \cup {NL} /\ (e = NL \/ (push[e] = "line" /\ fd[e] = i) \/ push[e] = "cut")
      BY LastInText DEF SentInv, EndInv
  <2> QED
      BY <1>1, <1>2, <2>1
<1>5. AloneInv'
  <2>1. ASSUME NEW n \in Filing' \ met' PROVE Filing' = {n}
      BY <1>1, <1>3, <2>1 DEF SentInv, AloneInv
  <2>2. \A n \in Msgs : push'[n] \in {"open", "line", "written"} => fd'[n] \in Inodes
      BY <1>2 DEF SentInv, AloneInv
  <2> QED
      BY <2>1, <2>2 DEF AloneInv
<1>6. UnreadInv'
    BY <1>1 DEF SentInv, UnreadInv
<1>7. ASSUME Whole', NEW n \in Msgs \ met' PROVE KeptInv(n)'
  <2>1. Whole
      BY <1>1, <1>2, <1>7 DEF Whole
  <2>2. KeptInv(n)
      BY <1>1, <1>7, <2>1 DEF SentInv
  <2>3. Safe(n) => Safe(n)'
      BY <1>1 DEF Safe, ToRead
  <2>4. CASE n = m
    <3>1. inbox # NoFile => Safe(m)
        BY <1>1, <2>2, <2>4 DEF KeptInv, Safe, ToRead, MailInv, MailTyped
    <3> QED
        BY <1>2, <2>3, <2>4, <3>1 DEF KeptInv
  <2>5. CASE n # m
      BY <1>1, <1>2, <2>2, <2>3, <2>5 DEF KeptInv
  <2> QED
      BY <2>4, <2>5
<1> QED
    BY <1>4, <1>5, <1>6, <1>7 DEF SentInv

LEMMA RenameSent ==
    ASSUME OneDrainer, MailInv, SentInv, NEW k \in Drains, Rename(k, "emptied") PROVE SentInv'
<1>1. drain[k] = "idle" /\ InDrain = {} /\ UNCHANGED <<push, fd, got, met, text>>
    BY DEF Rename, files
<1>2. \A j \in Drains : drain[j] # "renamed"
    BY <1>1 DEF InDrain
<1>3. CASE inbox = NoFile
  <2>1. drain'[k] = "emptied" /\ (\A j \in Drains \ {k} : drain'[j] = drain[j]) /\ UNCHANGED <<inbox, draining>>
      BY <1>3 DEF Rename, DrainAt, files, MailInv, MailTyped
  <2> QED
      BY <1>1, <1>2, <2>1, SentQuiet
<1>4. CASE inbox # NoFile
  <2>1. /\ drain'[k] = "renamed" /\ (\A j \in Drains \ {k} : drain'[j] = drain[j])
        /\ draining' = inbox /\ inbox' = NoFile
      BY <1>4 DEF Rename, DrainAt, MailInv, MailTyped
  <2>2. EndInv' /\ AloneInv'
      BY <1>1 DEF SentInv, EndInv, AloneInv, Filing
  <2>3. UnreadInv'
      BY <1>1, <1>2, <1>4, <2>1 DEF SentInv, UnreadInv
  <2>4. ASSUME Whole', NEW m \in Msgs \ met' PROVE KeptInv(m)'
    <3>1. Whole
        BY <1>1, <2>1, <2>4 DEF Whole
    <3>2. KeptInv(m)
        BY <1>1, <2>4, <3>1 DEF SentInv
    <3>3. Safe(m) => Safe(m)'
        BY <1>1, <1>2, <2>1 DEF Safe, ToRead
    <3> QED
        BY <1>1, <2>1, <3>2, <3>3 DEF KeptInv
  <2> QED
      BY <2>2, <2>3, <2>4 DEF SentInv
<1> QED
    BY <1>3, <1>4

LEMMA ReadSent ==
    ASSUME MailInv, SentInv, NEW k \in Drains, Read(k) PROVE SentInv'
<1>1. /\ drain[k] = "renamed" /\ draining # NoFile /\ draining \in Inodes /\ got[k] = {}
      /\ UNCHANGED <<inbox, draining, text, push, fd, met>>
    BY DEF Read, files, SentInv, UnreadInv, MailInv, MailTyped
<1>2. /\ drain'[k] = "read" /\ got'[k] = Parsed(text[draining])
      /\ \A j \in Drains \ {k} : drain'[j] = drain[j] /\ got'[j] = got[j]
    BY <1>1 DEF Read, DrainAt, MailInv, MailTyped
<1>3. EndInv' /\ AloneInv'
    BY <1>1 DEF SentInv, EndInv, AloneInv, Filing
<1>4. UnreadInv'
    BY <1>1, <1>2 DEF SentInv, UnreadInv
<1>5. ASSUME Whole', NEW m \in Msgs \ met' PROVE KeptInv(m)'
  <2>1. Whole
      BY <1>1, <1>2, <1>5 DEF Whole
  <2>2. KeptInv(m)
      BY <1>1, <1>5, <2>1 DEF SentInv
  <2>3. ASSUME Safe(m) PROVE Safe(m)'
    <3>1. CASE \E j \in Drains : m \in got[j]
        BY <1>1, <1>2, <3>1 DEF Safe
    <3>2. ASSUME NEW i \in Inodes, ToRead(i), OwnLine(text[i], m) PROVE Safe(m)'
      <4>1. CASE i = inbox
          BY <1>1, <3>2, <4>1 DEF Safe, ToRead
      <4>2. CASE i = draining
        <5>1. text[i] \in Seq(Msgs \cup {NL})
            BY DEF MailInv, MailTyped
        <5>2. m \in got'[k]
            BY <1>2, <3>2, <4>2, <5>1, OwnLineParsed
        <5> QED
            BY <5>2 DEF Safe
      <4> QED
          BY <3>2, <4>1, <4>2 DEF ToRead
    <3> QED
        BY <2>3, <3>1, <3>2 DEF Safe
  <2> QED
      BY <1>1, <2>2, <2>3 DEF KeptInv
<1> QED
    BY <1>3, <1>4, <1>5 DEF SentInv

\* The file a drain removes is one that it has read, and nobody else is to read it.
LEMMA UnlinkSent ==
    ASSUME MailInv, SentInv, NEW k \in Drains, Unlink(k, "emptied") PROVE SentInv'
<1>1. drain[k] = "read" /\ UNCHANGED <<inbox, text, push, fd, got, met>>
    BY DEF Unlink
<1>2. drain'[k] = "emptied" /\ \A j \in Drains \ {k} : drain'[j] = drain[j]
    BY DEF Unlink, DrainAt, MailInv, MailTyped
<1>3. \A j \in Drains : drain[j] # "renamed" /\ drain'[j] # "renamed"
  <2>1. k \in InDrain /\ \A j \in Drains : drain[j] = "renamed" => j \in InDrain
      BY <1>1 DEF InDrain
  <2> QED
      BY <1>1, <1>2, <2>1 DEF MailInv, DrainerInv
<1>4. EndInv' /\ AloneInv'
    BY <1>1 DEF SentInv, EndInv, AloneInv, Filing
<1>5. UnreadInv'
    BY <1>1, <1>2, <1>3 DEF SentInv, UnreadInv
<1>6. ASSUME Whole', NEW m \in Msgs \ met' PROVE KeptInv(m)'
  <2>1. Whole
      BY <1>1, <1>2, <1>6 DEF Whole
  <2>2. KeptInv(m)
      BY <1>1, <1>6, <2>1 DEF SentInv
  <2>3. Safe(m) => Safe(m)'
      BY <1>1, <1>3 DEF Safe, ToRead
  <2> QED
      BY <1>1, <2>2, <2>3 DEF KeptInv
<1> QED
    BY <1>4, <1>5, <1>6 DEF SentInv

LEMMA SentInitInv == BusInit => SentInv
<1> SUFFICES ASSUME BusInit PROVE SentInv
    OBVIOUS
<1>1. /\ \A i \in Inodes : text[i] = <<>>
      /\ \A m \in Msgs : push[m] = "idle"
      /\ \A k \in Drains : drain[k] = "idle" /\ got[k] = {}
    BY DEF BusInit, InboxInit
<1>2. EndInv
    BY <1>1 DEF EndInv
<1>3. AloneInv /\ UnreadInv /\ \A m \in Msgs : KeptInv(m)
    BY <1>1 DEF AloneInv, Filing, UnreadInv, KeptInv
<1> QED
    BY <1>2, <1>3 DEF SentInv

LEMMA SentNextInv == OneDrainer /\ MailInv /\ SentInv /\ [BusNext]_busVars => SentInv'
<1> SUFFICES ASSUME OneDrainer, MailInv, SentInv, [BusNext]_busVars PROVE SentInv'
    OBVIOUS
<1>1. push \in [Msgs -> PushStages] /\ drain \in [Drains -> DrainStages] /\ fd \in [Msgs -> Inodes \cup {NoFile}]
    BY DEF MailInv, MailTyped
<1>2. CASE UNCHANGED inboxVars
    BY <1>2, SentQuiet DEF inboxVars
<1>3. ASSUME NEW m \in Msgs, CheckRoom(m) \/ OpenInbox(m) \/ WriteLine(m) \/ WriteNewline(m) \/ Stat(m, "stored")
      PROVE  SentInv'
    BY <1>3, CheckRoomSent, OpenInboxSent, WriteSent, StatSent
<1>4. ASSUME NEW m \in Msgs, PushDies(m) PROVE SentInv'
  <2>1. push[m] \notin {"cut", "sent"} /\ UNCHANGED <<inbox, draining, text, drain, got, met>>
      BY <1>4 DEF PushDies, Running, files
  <2>2. /\ push'[m] = IF push[m] = "line" THEN "cut" ELSE "dead"
        /\ \A n \in Msgs \ {m} : push'[n] = push[n] /\ fd'[n] = fd[n]
      BY <1>1, <1>4 DEF PushDies, PushAt
  <2> QED
      BY <2>1, <2>2, SentQuiet
<1>5. ASSUME NEW m \in Msgs, StatsFail(m) \/ SendTmux(m) \/ LogSent(m) \/ LogFailed(m)
                             \/ SendUnlogged(m) \/ EndSend(m)
      PROVE  SentInv'
  <2>1. UNCHANGED <<inbox, draining, text, drain, got, met, fd>>
      BY <1>5 DEF StatsFail, SendTmux, LogSent, LogFailed, SendUnlogged, EndSend, files
  <2>2. PICK w \in {"typed", "refused", "logged", "noted", "sent", "ended", "error", "full"} :
            /\ PushAt(m, w) /\ push[m] \notin {"line", "cut"}
            /\ w \in {"logged", "sent"} => push[m] \in {"stored", "logged"}
      BY <1>5 DEF StatsFail, SendTmux, LogSent, LogFailed, SendUnlogged, EndSend
  <2>3. push'[m] = w /\ \A n \in Msgs \ {m} : push'[n] = push[n]
      BY <1>1, <2>2 DEF PushAt
  <2> QED
      BY <2>1, <2>2, <2>3, SentQuiet
<1>6. ASSUME NEW m \in Msgs, CheckAck(m) \/ LogAck(m) \/ EndAck(m) PROVE SentInv'
    BY <1>2, <1>6 DEF CheckAck, LogAck, EndAck
<1>7. ASSUME NEW k \in Drains, Rename(k, "emptied") \/ Read(k) \/ Unlink(k, "emptied") PROVE SentInv'
    BY <1>7, RenameSent, ReadSent, UnlinkSent
<1>8. ASSUME NEW k \in Drains, DrainDies(k) \/ LogDrain(k) \/ DrainUnlogged(k) \/ EndDrain(k) PROVE SentInv'
  <2>1. UNCHANGED <<inbox, draining, text, got, push, fd, met>>
      BY <1>8 DEF DrainDies, LogDrain, DrainUnlogged, EndDrain, files
  <2>2. PICK w \in {"dead", "lost", "counted", "done"} :
            /\ DrainAt(k, w) /\ drain[k] \notin {"lost", "dead"}
            /\ drain[k] = "renamed" => w = "dead"
      BY <1>8 DEF DrainDies, LogDrain, DrainUnlogged, EndDrain, InDrain
  <2>3. drain'[k] = w /\ \A j \in Drains \ {k} : drain'[j] = drain[j]
      BY <1>1, <2>2 DEF DrainAt
  <2> QED
      BY <2>1, <2>2, <2>3, SentQuiet
<1> QED
    BY <1>2, <1>3, <1>4, <1>5, <1>6, <1>7, <1>8 DEF BusNext, busVars

\* While the drains of an agent do not overlap, a message whose send met no other send
\* and was reported as sent is waiting, being drained or returned, unless a drain was
\* killed or a killed send left half a line: the file may be renamed under the sender's
\* descriptor between any two of its calls, and then the look at the path fails.
THEOREM BusSentIsKept == OneDrainer => (BusSpec => []SentIsKept)
<1> SUFFICES ASSUME OneDrainer PROVE BusSpec => []SentIsKept
    OBVIOUS
<1>1. BusInit => MailInv /\ SentInv
    BY MailInitInv, SentInitInv
<1>2. MailInv /\ SentInv /\ [BusNext]_busVars => MailInv' /\ SentInv'
    BY MailNextInv, SentNextInv
<1>3. MailInv /\ SentInv => SentIsKept
  <2> SUFFICES ASSUME MailInv, SentInv, NEW m \in Msgs, push[m] = "sent", m \notin met, Whole
               PROVE  m \in Range(TextOf(inbox)) \cup Range(TextOf(draining)) \cup UNION {got[k] : k \in Drains}
      BY DEF SentIsKept, Whole
  <2>1. Safe(m)
      BY DEF SentInv, KeptInv
  <2>2. CASE \E k \in Drains : m \in got[k]
      BY <2>2
  <2>3. ASSUME NEW i \in Inodes, ToRead(i), OwnLine(text[i], m)
        PROVE  m \in Range(TextOf(inbox)) \cup Range(TextOf(draining))
    <3>1. text[i] \in Seq(Msgs \cup {NL}) /\ i # NoFile
        BY FileAssumption DEF MailInv, MailTyped
    <3>2. m \in Range(text[i])
        BY <2>3, <3>1, OwnLineParsed
    <3> QED
        BY <2>3, <3>1, <3>2 DEF ToRead, TextOf
  <2> QED
      BY <2>1, <2>2, <2>3 DEF Safe
<1> QED
    BY <1>1, <1>2, <1>3, PTL DEF BusSpec

----------------------------------------------------------------------------
\* What the bus reports of the deliveries.

Statuses == {"none", "pending", "failed", "drained", "acked"}
Account == [order : Seq(Msgs), of : [Msgs -> Statuses]]
BusEvent == [type : {"pending", "failed", "acked"}, msg : Msgs] \cup [type : {"drain"}, count : Nat]

\* The sends that have not logged yet, and those that have and whose message is in a file.
Unlogged == {"idle", "fits", "open", "line", "written", "stored", "typed", "refused"}
Logged == {"logged", "sent"}

\* What the log says of a delivery agrees with where its send and its acknowledgement stand.
StatusInv ==
    /\ push \in [Msgs -> PushStages] /\ ack \in [Msgs -> AckStages]
    /\ Readable(log) =>
          /\ log \in Seq(BusEvent) /\ Replayed(log) \in Account
          /\ \A m \in Msgs :
                /\ push[m] \in Unlogged => StatusIn(log)[m] = "none"
                /\ push[m] \in Logged => StatusIn(log)[m] \in {"pending", "drained", "acked"}
                /\ ack[m] = "checked" => StatusIn(log)[m] \in {"pending", "drained"}

\* What the drains that logged have returned; no more deliveries are reported drained.
Reported == {k \in Drains : drain[k] \in {"counted", "done", "dead"}}
Taken == UNION {got[k] : k \in Reported}
ChargeInv == Readable(log) => Cardinality(InStatus("drained")) <= Cardinality(Taken)

\* A set of numbers that has a bound has a greatest one, its least bound.
LEMMA GreatestNumber ==
    ASSUME NEW c \in Nat, NEW K, K \subseteq 0..c, K # {} PROVE \E j \in K : \A i \in K : i <= j
<1> DEFINE bounds == {b \in Nat : \A i \in K : i <= b}
<1>1. c \in bounds
    OBVIOUS
<1>2. PICK j \in bounds : \A b \in bounds : j <= b
  <2>1. bounds \subseteq Nat
      OBVIOUS
  <2> HIDE DEF bounds
  <2> QED
      BY <1>1, <2>1, LeastNumber
<1>3. j \in K
  <2> SUFFICES ASSUME j \notin K PROVE FALSE
      OBVIOUS
  <2>1. \A i \in K : i \in Nat /\ i < j
      BY <1>2
  <2>2. j - 1 \in bounds
    <3>1. PICK i : i \in K
        OBVIOUS
    <3>2. j \in Nat /\ i \in Nat /\ i < j
        BY <1>2, <2>1, <3>1
    <3>3. j - 1 \in Nat /\ \A k \in K : k <= j - 1
        BY <2>1, <3>2
    <3> QED
        BY <3>3
  <2> QED
      BY <1>2, <2>2
<1> QED
    BY <1>2, <1>3

\* Proof by induction on a set of numbers: one that holds 0 and, with each number
\* below the bound, the next, holds all of them up to it.
LEMMA AllNumbers ==
    ASSUME NEW b \in Nat, NEW T, 0 \in T, \A n \in 0..(b - 1) : n \in T => n + 1 \in T
    PROVE  \A n \in 0..b : n \in T
<1> DEFINE out == {n \in 0..b : n \notin T}
<1> SUFFICES ASSUME out # {} PROVE FALSE
    OBVIOUS
<1>1. PICK m \in out : \A n \in out : m <= n
  <2>1. out \subseteq Nat
      OBVIOUS
  <2> HIDE DEF out
  <2> QED
      BY <2>1, LeastNumber
<1>2. m \in 1..b /\ m - 1 \in 0..(b - 1) /\ m - 1 \notin out
    BY <1>1
<1> QED
    BY <1>1, <1>2

\* r is the account after every line of the log l.
Replays(r, l) == r = [n \in 0..Len(l) |-> IF n = 0 THEN NoStatus ELSE Replay(r[n - 1], l[n])]

\* There is such a function, ...
LEMMA ReplayExists ==
    ASSUME NEW R, NEW l \in Seq(R) PROVE \E r : Replays(r, l)
<1> DEFINE Upto(r, b) == r = [n \in 0..b |-> IF n = 0 THEN NoStatus ELSE Replay(r[n - 1], l[n])]
<1> DEFINE T == {b \in Nat : \E r : Upto(r, b)}
<1>1. 0 \in T
  <2>1. Upto([n \in 0..0 |-> NoStatus], 0)
      OBVIOUS
  <2> QED
      BY <2>1
<1>2. ASSUME NEW b \in Nat, b \in T PROVE b + 1 \in T
  <2>1. PICK r : Upto(r, b)
      BY <1>2
  <2> DEFINE q == [n \in 0..(b + 1) |-> IF n = b + 1 THEN Replay(r[b], l[b + 1]) ELSE r[n]]
  <2>2. \A n \in 0..(b + 1) : q[n] = IF n = 0 THEN NoStatus ELSE Replay(q[n - 1], l[n])
    <3> SUFFICES ASSUME NEW n \in 0..(b + 1)
                 PROVE  q[n] = IF n = 0 THEN NoStatus ELSE Replay(q[n - 1], l[n])
        OBVIOUS
    <3>1. CASE n = b + 1
      <4>1. q[n] = Replay(r[b], l[b + 1]) /\ q[n - 1] = r[b] /\ n # 0
          BY <3>1
      <4> QED
          BY <3>1, <4>1
    <3>2. CASE n = 0
        BY <2>1, <3>2
    <3>3. CASE n \in 1..b
      <4>1. q[n] = r[n] /\ q[n - 1] = r[n - 1]
          BY <3>3
      <4>2. r[n] = Replay(r[n - 1], l[n])
          BY <2>1, <3>3
      <4> QED
          BY <3>3, <4>1, <4>2
    <3> QED
        BY <3>1, <3>2, <3>3
  <2>3. Upto(q, b + 1)
      BY <2>2
  <2> HIDE DEF q
  <2>4. \E f : Upto(f, b + 1)
      BY <2>3
  <2>5. b + 1 \in Nat
      OBVIOUS
  <2> QED
      BY <2>4, <2>5, Zenon
<1>3. Len(l) \in Nat
    OBVIOUS
<1>4. Len(l) \in T
  <2> HIDE DEF T
  <2>1. \A n \in 0..(Len(l) - 1) : n \in T => n + 1 \in T
      BY <1>2, <1>3
  <2>2. \A n \in 0..Len(l) : n \in T
      BY <1>1, <1>3, <2>1, AllNumbers
  <2> QED
      BY <1>3, <2>2
<1> QED
    BY <1>4 DEF Replays

\* ... and what it ends with is the account.
LEMMA ReplayedIs ==
    ASSUME NEW R, NEW l \in Seq(R) PROVE \E r : Replays(r, l) /\ Replayed(l) = r[Len(l)]
BY ReplayExists DEF Replayed, Replays

\* Another line of the log is replayed on top of the account.
LEMMA ReplayedAppend ==
    ASSUME NEW R, NEW l \in Seq(R), NEW e \in R PROVE Replayed(Append(l, e)) = Replay(Replayed(l), e)
<1>1. PICK r : Replays(r, l) /\ Replayed(l) = r[Len(l)]
    BY ReplayedIs
<1>2. PICK k : k = Append(l, e)
    OBVIOUS
<1>3. /\ k \in Seq(R) /\ Len(k) = Len(l) + 1 /\ Len(l) \in Nat /\ k[Len(l) + 1] = e
      /\ \A n \in 1..Len(l) : k[n] = l[n]
    BY <1>2
<1>4. PICK q : Replays(q, k) /\ Replayed(k) = q[Len(k)]
    BY <1>3, ReplayedIs
<1>5. /\ r[0] = NoStatus /\ q[0] = NoStatus
      /\ \A n \in 1..Len(l) : r[n] = Replay(r[n - 1], l[n])
      /\ \A n \in 1..(Len(l) + 1) : q[n] = Replay(q[n - 1], k[n])
  <2>1. /\ r = [n \in 0..Len(l) |-> IF n = 0 THEN NoStatus ELSE Replay(r[n - 1], l[n])]
        /\ q = [n \in 0..(Len(l) + 1) |-> IF n = 0 THEN NoStatus ELSE Replay(q[n - 1], k[n])]
      BY <1>1, <1>3, <1>4 DEF Replays
  <2>2. r[0] = NoStatus /\ q[0] = NoStatus
      BY <1>3, <2>1
  <2>3. ASSUME NEW n \in 1..Len(l) PROVE r[n] = Replay(r[n - 1], l[n])
    <3>1. n \in 0..Len(l) /\ n # 0
        BY <1>3
    <3> QED
        BY <2>1, <3>1
  <2>4. ASSUME NEW n \in 1..(Len(l) + 1) PROVE q[n] = Replay(q[n - 1], k[n])
    <3>1. n \in 0..(Len(l) + 1) /\ n # 0
        BY <1>3
    <3> QED
        BY <2>1, <3>1
  <2> QED
      BY <2>2, <2>3, <2>4
<1>6. r[Len(l)] = q[Len(l)]
  <2> DEFINE T == {n \in Nat : r[n] = q[n]}
  <2>1. 0 \in T
      BY <1>5
  <2>2. ASSUME NEW n \in 0..(Len(l) - 1), n \in T PROVE n + 1 \in T
    <3>1. PICK i : i = n + 1
        OBVIOUS
    <3>2. i \in 1..Len(l) /\ i \in 1..(Len(l) + 1) /\ i - 1 = n /\ i \in Nat
        BY <1>3, <3>1
    <3>3. r[i] = Replay(r[n], l[i]) /\ q[i] = Replay(q[n], k[i]) /\ k[i] = l[i] /\ r[n] = q[n]
        BY <1>3, <1>5, <2>2, <3>2
    <3> QED
        BY <3>1, <3>2, <3>3
  <2>3. Len(l) \in T
    <3> HIDE DEF T
    <3>1. \A n \in 0..Len(l) : n \in T
        BY <1>3, <2>1, <2>2, AllNumbers
    <3> QED
        BY <1>3, <3>1
  <2> QED
      BY <2>3
<1>7. q[Len(l) + 1] = Replay(q[Len(l)], e)
  <2>1. Len(l) + 1 \in 1..(Len(l) + 1) /\ (Len(l) + 1) - 1 = Len(l)
      BY <1>3
  <2> QED
      BY <1>3, <1>5, <2>1
<1> QED
    BY <1>1, <1>2, <1>3, <1>4, <1>6, <1>7

\* Of a set of numbers, no more than n have at most n members up to themselves.
LEMMA FirstOnes ==
    ASSUME NEW c \in Nat, NEW D, D \subseteq 0..c, NEW n \in Nat, NEW K, K = {j \in D : Cardinality({i \in D : i <= j}) <= n}
    PROVE  IsFiniteSet(K) /\ Cardinality(K) <= n
<1>1. IsFiniteSet(D) /\ IsFiniteSet(K) /\ K \subseteq D
  <2>1. IsFiniteSet(0..c)
      BY FS_Interval
  <2>2. IsFiniteSet(D)
      BY <2>1, FS_Subset
  <2> QED
      BY <2>2, FS_Subset
<1>2. CASE K = {}
  <2>1. Cardinality(K) = 0
      BY <1>1, <1>2, FS_EmptySet
  <2> QED
      BY <1>1, <2>1
<1>3. CASE K # {}
  <2>1. PICK j \in K : \A i \in K : i <= j
      BY <1>1, <1>3, GreatestNumber
  <2>2. PICK U : U = {i \in D : i <= j}
      OBVIOUS
  <2>3. K \subseteq U /\ IsFiniteSet(U) /\ Cardinality(U) <= n
    <3>1. K \subseteq U /\ U \subseteq D /\ Cardinality(U) <= n
        BY <1>1, <2>1, <2>2
    <3> QED
        BY <1>1, <3>1, FS_Subset
  <2>4. Cardinality(K) <= Cardinality(U) /\ Cardinality(U) \in Nat /\ Cardinality(K) \in Nat
      BY <1>1, <2>3, FS_Subset, FS_CardinalityType
  <2> QED
      BY <1>1, <2>3, <2>4
<1> QED
    BY <1>2, <1>3

\* What a drain of n messages changes: at most n pending deliveries.
Drained(a, n, b) ==
    \E hit \in SUBSET Msgs :
        /\ Cardinality(hit) <= n /\ \A m \in hit : a.of[m] = "pending"
        /\ b.of = [m \in Msgs |-> IF m \in hit THEN "drained" ELSE a.of[m]]

LEMMA ChargeFacts ==
    ASSUME NEW a \in Account, NEW n \in Nat PROVE Charge(a, n) \in Account /\ Drained(a, n, Charge(a, n))
<1> DEFINE due == {i \in DOMAIN a.order : a.of[a.order[i]] = "pending"}
<1> DEFINE K == {j \in due : Cardinality({i \in due : i <= j}) <= n}
<1> DEFINE hit == {a.order[i] : i \in K}
<1>1. /\ a.order \in Seq(Msgs) /\ a.of \in [Msgs -> Statuses] /\ a = [order |-> a.order, of |-> a.of]
      /\ DOMAIN a.order = 1..Len(a.order) /\ Len(a.order) \in Nat /\ \A i \in 1..Len(a.order) : a.order[i] \in Msgs
    BY DEF Account
<1>2. due \subseteq 0..Len(a.order)
    BY <1>1
<1>3. IsFiniteSet(K) /\ Cardinality(K) <= n
  <2> HIDE DEF due
  <2> QED
      BY <1>1, <1>2, FirstOnes
<1>4. K \subseteq due
    OBVIOUS
<1>5. hit \subseteq Msgs /\ \A m \in hit : a.of[m] = "pending"
    BY <1>1, <1>4
<1>6. Cardinality(hit) <= n
  <2>1. PICK f : f = [i \in K |-> a.order[i]]
      OBVIOUS
  <2>2. f \in Surjection(K, hit)
      BY <2>1 DEF Surjection
  <2>3. IsFiniteSet(hit) /\ Cardinality(hit) <= Cardinality(K)
    <3> HIDE DEF hit, K
    <3> QED
        BY <1>3, <2>2, FS_Surjection
  <2>4. Cardinality(hit) \in Nat /\ Cardinality(K) \in Nat
      BY <1>3, <2>3, FS_CardinalityType
  <2> QED
      BY <1>3, <2>3, <2>4
<1>7. Charge(a, n) = [a EXCEPT !.of = [m \in Msgs |-> IF m \in hit THEN "drained" ELSE a.of[m]]]
    BY DEF Charge
<1> HIDE DEF hit
<1>8. /\ Charge(a, n).of = [m \in Msgs |-> IF m \in hit THEN "drained" ELSE a.of[m]]
      /\ Charge(a, n) = [order |-> a.order, of |-> [m \in Msgs |-> IF m \in hit THEN "drained" ELSE a.of[m]]]
    BY <1>1, <1>7
<1>9. [m \in Msgs |-> IF m \in hit THEN "drained" ELSE a.of[m]] \in [Msgs -> Statuses]
    BY <1>1 DEF Statuses
<1> QED
    BY <1>1, <1>5, <1>6, <1>8, <1>9 DEF Account, Drained

\* What one line of the log changes.
LEMMA ReplayFacts ==
    ASSUME NEW a \in Account, NEW e \in BusEvent
    PROVE  /\ Replay(a, e) \in Account
           /\ e.type = "drain" => Drained(a, e.count, Replay(a, e))
           /\ e.type # "drain" => e.msg \in Msgs /\ Replay(a, e).of = [a.of EXCEPT ![e.msg] = e.type]
<1>1. /\ a.order \in Seq(Msgs) /\ a.of \in [Msgs -> Statuses] /\ a = [order |-> a.order, of |-> a.of]
    BY DEF Account
<1>2. CASE e.type = "drain"
  <2>1. e.count \in Nat
      BY <1>2 DEF BusEvent
  <2>2. Replay(a, e) = Charge(a, e.count)
      BY <1>2 DEF Replay
  <2> QED
      BY <1>2, <2>1, <2>2, ChargeFacts
<1>3. CASE e.type = "acked"
  <2>1. e.msg \in Msgs
      BY <1>3 DEF BusEvent
  <2>2. Replay(a, e) = [a EXCEPT !.of[e.msg] = "acked"]
      BY <1>3 DEF Replay
  <2>3. Replay(a, e) = [order |-> a.order, of |-> [a.of EXCEPT ![e.msg] = "acked"]]
      BY <1>1, <2>2
  <2>4. [a.of EXCEPT ![e.msg] = "acked"] \in [Msgs -> Statuses]
      BY <1>1 DEF Statuses
  <2> QED
      BY <1>1, <1>3, <2>1, <2>3, <2>4 DEF Account
<1>4. CASE e.type \notin {"drain", "acked"}
  <2>1. e.msg \in Msgs /\ e.type \in Statuses
      BY <1>4 DEF BusEvent, Statuses
  <2>2. Replay(a, e) = [order |-> Append(a.order, e.msg), of |-> [a.of EXCEPT ![e.msg] = e.type]]
      BY <1>4 DEF Replay
  <2>3. [a.of EXCEPT ![e.msg] = e.type] \in [Msgs -> Statuses] /\ Append(a.order, e.msg) \in Seq(Msgs)
      BY <1>1, <2>1
  <2> QED
      BY <1>4, <2>1, <2>2, <2>3 DEF Account
<1> QED
    BY <1>2, <1>3, <1>4

\* Every delivery only moves forward from one log to the other.
Forwards(l, k) == \A m \in Msgs : Forward(StatusIn(l)[m], StatusIn(k)[m])

\* An event is appended, or the log is no longer readable.
LEMMA LogGrows ==
    ASSUME StatusInv, NEW e \in BusEvent, LogLine(e), Readable(log')
    PROVE  /\ Readable(log) /\ log \in Seq(BusEvent) /\ log' \in Seq(BusEvent)
           /\ Replayed(log) \in Account /\ Replayed(log') = Replay(Replayed(log), e)
           /\ Replayed(log') \in Account
<1>1. Readable(log) /\ log' = Append(log, e)
    BY DEF LogLine, Readable
<1>2. log \in Seq(BusEvent) /\ Replayed(log) \in Account
    BY <1>1 DEF StatusInv
<1>3. log' \in Seq(BusEvent)
    BY <1>1, <1>2
<1>4. Replayed(log') = Replay(Replayed(log), e)
    BY <1>1, <1>2, ReplayedAppend
<1> QED
    BY <1>1, <1>2, <1>3, <1>4, ReplayFacts

\* A step that does not log, of a call that moves on or looks at the statuses.
LEMMA StatusQuiet ==
    ASSUME StatusInv, UNCHANGED log, push' \in [Msgs -> PushStages], ack' \in [Msgs -> AckStages],
           \A m \in Msgs : push'[m] \in Unlogged => push[m] \in Unlogged,
           \A m \in Msgs : push'[m] \in Logged => push[m] \in Logged,
           \A m \in Msgs : ack'[m] = "checked" => ack[m] = "checked" \/ MayAck(StatusIn(log)[m])
    PROVE  StatusInv' /\ Forwards(log, log')
<1>1. Readable(log)' => Readable(log)
    OBVIOUS
<1>2. StatusInv'
    BY <1>1 DEF StatusInv, MayAck
<1> QED
    BY <1>2 DEF Forwards, Forward

\* The event of a send.
LEMMA LogSendKeeps ==
    ASSUME StatusInv, NEW m \in Msgs, LogSent(m) \/ LogFailed(m)
    PROVE  StatusInv' /\ (Readable(log') => Forwards(log, log'))
<1>1. PICK s \in {"pending", "failed"} : LogLine([type |-> s, msg |-> m]) /\ (s = "failed" => push'[m] = "noted")
    BY DEF LogSent, LogFailed, PushAt, StatusInv
<1>2. /\ push[m] \in Unlogged /\ UNCHANGED ack /\ push' \in [Msgs -> PushStages]
      /\ push'[m] \in {"logged", "noted"} /\ \A n \in Msgs \ {m} : push'[n] = push[n]
    BY DEF LogSent, LogFailed, PushAt, StatusInv, PushStages, Wrote, Unlogged
<1>3. CASE ~Readable(log')
    BY <1>2, <1>3 DEF StatusInv
<1>4. CASE Readable(log')
  <2> DEFINE e == [type |-> s, msg |-> m]
  <2>1. e \in BusEvent /\ e.type = s /\ e.msg = m /\ e.type # "drain"
      BY DEF BusEvent
  <2> HIDE DEF e
  <2>2. LogLine(e)
      BY <1>1 DEF e
  <2>3. /\ Readable(log) /\ log' \in Seq(BusEvent) /\ Replayed(log) \in Account /\ Replayed(log') \in Account
        /\ Replayed(log') = Replay(Replayed(log), e)
      BY <1>4, <2>1, <2>2, LogGrows
  <2>4. StatusIn(log') = [StatusIn(log) EXCEPT ![m] = s] /\ StatusIn(log) \in [Msgs -> Statuses]
      BY <2>1, <2>3, ReplayFacts DEF StatusIn, Account
  <2>5. StatusIn(log')[m] = s /\ \A n \in Msgs \ {m} : StatusIn(log')[n] = StatusIn(log)[n]
      BY <2>4
  <2>6. StatusIn(log)[m] = "none" /\ ack[m] # "checked"
      BY <1>2, <2>3 DEF StatusInv
  <2>7. StatusInv'
    <3>1. ASSUME NEW n \in Msgs
          PROVE  /\ push'[n] \in Unlogged => StatusIn(log')[n] = "none"
                 /\ push'[n] \in Logged => StatusIn(log')[n] \in {"pending", "drained", "acked"}
                 /\ ack'[n] = "checked" => StatusIn(log')[n] \in {"pending", "drained"}
      <4>1. CASE n = m
          BY <1>1, <1>2, <2>5, <2>6, <4>1 DEF Unlogged, Logged
      <4>2. CASE n # m
          BY <1>2, <2>3, <2>5, <4>2 DEF StatusInv
      <4> QED
          BY <4>1, <4>2
    <3> QED
        BY <1>2, <2>3, <3>1 DEF StatusInv
  <2>8. Forwards(log, log')
      BY <2>5, <2>6 DEF Forwards, Forward
  <2> QED
      BY <2>7, <2>8
<1> QED
    BY <1>3, <1>4

\* The event of a drain; h are the deliveries it is charged to.
LEMMA LogDrainKeeps ==
    ASSUME StatusInv, NEW k \in Drains, LogDrain(k), Cardinality(got[k]) \in Nat
    PROVE  /\ StatusInv' /\ (Readable(log') => Forwards(log, log'))
           /\ Readable(log') =>
                \E h \in SUBSET Msgs : /\ Cardinality(h) <= Cardinality(got[k])
                                       /\ InStatus("drained")' = InStatus("drained") \cup h
<1>1. PICK n : n = Cardinality(got[k])
    OBVIOUS
<1>2. LogLine([type |-> "drain", count |-> n]) /\ UNCHANGED <<push, ack>>
    BY <1>1 DEF LogDrain
<1>3. CASE ~Readable(log')
    BY <1>2, <1>3 DEF StatusInv
<1>4. CASE Readable(log')
  <2> DEFINE e == [type |-> "drain", count |-> n]
  <2>1. e \in BusEvent /\ e.type = "drain" /\ e.count = n
      BY <1>1 DEF BusEvent
  <2> HIDE DEF e
  <2>2. LogLine(e)
      BY <1>2 DEF e
  <2>3. /\ Readable(log) /\ log' \in Seq(BusEvent) /\ Replayed(log) \in Account /\ Replayed(log') \in Account
        /\ Replayed(log') = Replay(Replayed(log), e)
      BY <1>4, <2>1, <2>2, LogGrows
  <2>4. Drained(Replayed(log), n, Replayed(log'))
      BY <2>1, <2>3, ReplayFacts
  <2>5. PICK h \in SUBSET Msgs :
            /\ Cardinality(h) <= n /\ \A m \in h : StatusIn(log)[m] = "pending"
            /\ StatusIn(log') = [m \in Msgs |-> IF m \in h THEN "drained" ELSE StatusIn(log)[m]]
      BY <2>4 DEF Drained, StatusIn
  <2>6. \A m \in Msgs : StatusIn(log')[m] = IF m \in h THEN "drained" ELSE StatusIn(log)[m]
      BY <2>5
  <2>7. StatusInv'
    <3>1. ASSUME NEW m \in Msgs
          PROVE  /\ push'[m] \in Unlogged => StatusIn(log')[m] = "none"
                 /\ push'[m] \in Logged => StatusIn(log')[m] \in {"pending", "drained", "acked"}
                 /\ ack'[m] = "checked" => StatusIn(log')[m] \in {"pending", "drained"}
      <4>1. CASE m \in h
        <5>1. StatusIn(log)[m] = "pending" /\ StatusIn(log')[m] = "drained"
            BY <2>5, <2>6, <4>1
        <5>2. push[m] \notin Unlogged
            BY <2>3, <5>1 DEF StatusInv
        <5> QED
            BY <1>2, <5>1, <5>2
      <4>2. CASE m \notin h
        <5>1. StatusIn(log')[m] = StatusIn(log)[m]
            BY <2>6, <4>2
        <5> QED
            BY <1>2, <2>3, <5>1 DEF StatusInv
      <4> QED
          BY <4>1, <4>2
    <3> QED
        BY <1>2, <2>3, <3>1 DEF StatusInv
  <2>8. Forwards(log, log')
      BY <2>5, <2>6 DEF Forwards, Forward
  <2>9. InStatus("drained")' = InStatus("drained") \cup h
      BY <2>6 DEF InStatus
  <2> QED
      BY <1>1, <2>5, <2>7, <2>8, <2>9
<1> QED
    BY <1>3, <1>4

\* The event of an acknowledgement: the delivery was pending or drained when it was
\* looked at, and can only have been drained since.
LEMMA LogAckKeeps ==
    ASSUME StatusInv, NEW m \in Msgs, LogAck(m)
    PROVE  StatusInv' /\ (Readable(log') => Forwards(log, log'))
<1>1. LogLine([type |-> "acked", msg |-> m]) /\ ack[m] = "checked" /\ ack' = [ack EXCEPT ![m] = "logged"] /\ UNCHANGED push
    BY DEF LogAck, inboxVars
<1>2. ack' \in [Msgs -> AckStages] /\ \A n \in Msgs : ack'[n] = "checked" => n # m /\ ack[n] = "checked"
    BY <1>1 DEF StatusInv, AckStages
<1>3. CASE ~Readable(log')
    BY <1>1, <1>2, <1>3 DEF StatusInv
<1>4. CASE Readable(log')
  <2> DEFINE e == [type |-> "acked", msg |-> m]
  <2>1. e \in BusEvent /\ e.type = "acked" /\ e.msg = m /\ e.type # "drain"
      BY DEF BusEvent
  <2> HIDE DEF e
  <2>2. LogLine(e)
      BY <1>1 DEF e
  <2>3. /\ Readable(log) /\ log' \in Seq(BusEvent) /\ Replayed(log) \in Account /\ Replayed(log') \in Account
        /\ Replayed(log') = Replay(Replayed(log), e)
      BY <1>4, <2>1, <2>2, LogGrows
  <2>4. StatusIn(log') = [StatusIn(log) EXCEPT ![m] = "acked"] /\ StatusIn(log) \in [Msgs -> Statuses]
    <3>1. Replayed(log').of = [Replayed(log).of EXCEPT ![e.msg] = e.type]
        BY <2>1, <2>3, ReplayFacts
    <3> QED
        BY <2>1, <2>3, <3>1 DEF StatusIn, Account
  <2>5. StatusIn(log')[m] = "acked" /\ \A n \in Msgs \ {m} : StatusIn(log')[n] = StatusIn(log)[n]
      BY <2>4
  <2>6. StatusIn(log)[m] \in {"pending", "drained"} /\ push[m] \notin Unlogged
      BY <1>1, <2>3 DEF StatusInv
  <2>7. StatusInv'
    <3>1. ASSUME NEW n \in Msgs
          PROVE  /\ push'[n] \in Unlogged => StatusIn(log')[n] = "none"
                 /\ push'[n] \in Logged => StatusIn(log')[n] \in {"pending", "drained", "acked"}
                 /\ ack'[n] = "checked" => StatusIn(log')[n] \in {"pending", "drained"}
      <4>1. CASE n = m
          BY <1>1, <1>2, <2>5, <2>6, <4>1
      <4>2. CASE n # m
          BY <1>1, <1>2, <2>3, <2>5, <4>2 DEF StatusInv
      <4> QED
          BY <4>1, <4>2
    <3> QED
        BY <1>1, <1>2, <2>3, <3>1 DEF StatusInv
  <2>8. Forwards(log, log')
      BY <2>5, <2>6 DEF Forwards, Forward
  <2> QED
      BY <2>7, <2>8
<1> QED
    BY <1>3, <1>4

LEMMA StatusInitInv == BusInit => StatusInv
<1> SUFFICES ASSUME BusInit PROVE StatusInv
    OBVIOUS
<1>1. log = <<>> /\ push = [m \in Msgs |-> "idle"] /\ ack = [m \in Msgs |-> "idle"]
    BY DEF BusInit, InboxInit
<1>2. Replayed(<<>>) = NoStatus
  <2>1. <<>> \in Seq(BusEvent) /\ Len(<<>>) = 0
      OBVIOUS
  <2>2. PICK r : Replays(r, <<>>) /\ Replayed(<<>>) = r[Len(<<>>)]
      BY <2>1, ReplayedIs
  <2> QED
      BY <2>1, <2>2 DEF Replays
<1>3. NoStatus \in Account /\ NoStatus.of = [m \in Msgs |-> "none"]
    BY DEF NoStatus, Account, Statuses
<1>4. log \in Seq(BusEvent) /\ Replayed(log) \in Account /\ \A m \in Msgs : StatusIn(log)[m] = "none"
    BY <1>1, <1>2, <1>3 DEF StatusIn
<1> QED
    BY <1>1, <1>4 DEF StatusInv, PushStages, AckStages, Logged

LEMMA StatusNext ==
    ASSUME StatusInv, [BusNext]_busVars, \A k \in Drains : Cardinality(got[k]) \in Nat
    PROVE  StatusInv' /\ (Readable(log) /\ Readable(log') => Forwards(log, log'))
<1>1. push \in [Msgs -> PushStages] /\ ack \in [Msgs -> AckStages]
    BY DEF StatusInv
<1>2. ASSUME UNCHANGED <<push, log, ack>> PROVE StatusInv' /\ Forwards(log, log')
    BY <1>1, <1>2, StatusQuiet
<1>3. ASSUME NEW m \in Msgs, UNCHANGED <<log, ack>>,
             \E w \in PushStages : /\ PushAt(m, w) /\ (w \in Unlogged => push[m] \in Unlogged)
                                   /\ (w \in Logged => push[m] \in Logged)
      PROVE  StatusInv' /\ Forwards(log, log')
  <2>1. /\ push' \in [Msgs -> PushStages] /\ \A n \in Msgs : push'[n] \in Unlogged => push[n] \in Unlogged
        /\ \A n \in Msgs : push'[n] \in Logged => push[n] \in Logged
      BY <1>1, <1>3 DEF PushAt
  <2> QED
      BY <1>1, <1>3, <2>1, StatusQuiet
<1>4. ASSUME NEW m \in Msgs, CheckRoom(m) \/ OpenInbox(m) \/ WriteLine(m) \/ WriteNewline(m)
                             \/ Stat(m, "stored") \/ PushDies(m), UNCHANGED <<log, halfLine, ack>>
      PROVE  StatusInv' /\ Forwards(log, log')
  <2>1. \E w \in PushStages : /\ PushAt(m, w) /\ (w \in Unlogged => push[m] \in Unlogged)
                              /\ (w \in Logged => push[m] \in Logged)
      BY <1>4 DEF CheckRoom, OpenInbox, WriteLine, WriteNewline, Stat, PushDies, PushStages, Wrote, Unlogged, Logged
  <2> QED
      BY <1>3, <1>4, <2>1
<1>5. ASSUME NEW m \in Msgs, StatsFail(m) \/ SendTmux(m) \/ SendUnlogged(m) \/ EndSend(m) PROVE StatusInv' /\ Forwards(log, log')
  <2>1. \E w \in PushStages : /\ PushAt(m, w) /\ (w \in Unlogged => push[m] \in Unlogged)
                              /\ (w \in Logged => push[m] \in Logged)
      BY <1>5 DEF StatsFail, SendTmux, SendUnlogged, EndSend, PushStages, Wrote, Unlogged, Logged
  <2>2. UNCHANGED <<log, ack>>
      BY <1>5 DEF StatsFail, SendTmux, SendUnlogged, EndSend, LogNewline
  <2> QED
      BY <1>3, <2>1, <2>2
<1>6. ASSUME NEW m \in Msgs, CheckAck(m) \/ EndAck(m) PROVE StatusInv' /\ Forwards(log, log')
  <2>1. UNCHANGED <<push, log>>
      BY <1>6 DEF CheckAck, EndAck, LogNewline, inboxVars
  <2>2. /\ ack' \in [Msgs -> AckStages]
        /\ \A n \in Msgs : ack'[n] = "checked" => ack[n] = "checked" \/ MayAck(StatusIn(log)[n])
      BY <1>1, <1>6 DEF CheckAck, EndAck, AckStages
  <2> QED
      BY <1>1, <2>1, <2>2, StatusQuiet
<1>7. ASSUME NEW k \in Drains,
             Rename(k, "emptied") \/ Read(k) \/ Unlink(k, "emptied") \/ DrainDies(k), UNCHANGED <<log, halfLine, ack>>
      PROVE  StatusInv' /\ Forwards(log, log')
  <2>1. UNCHANGED push
      BY <1>7 DEF Rename, Read, Unlink, DrainDies
  <2> QED
      BY <1>2, <1>7, <2>1
<1>8. ASSUME NEW k \in Drains, DrainUnlogged(k) \/ EndDrain(k) PROVE StatusInv' /\ Forwards(log, log')
    BY <1>2, <1>8 DEF DrainUnlogged, EndDrain, LogNewline
<1>9. ASSUME UNCHANGED busVars PROVE StatusInv' /\ Forwards(log, log')
    BY <1>2, <1>9 DEF busVars, inboxVars
<1> QED
    BY <1>4, <1>5, <1>6, <1>7, <1>8, <1>9, LogSendKeeps, LogDrainKeeps, LogAckKeeps DEF BusNext

\* What drains have parsed is a set of messages.
LEMMA GotCounted == MailTyped => \A k \in Drains : got[k] \subseteq Msgs /\ IsFiniteSet(got[k]) /\ Cardinality(got[k]) \in Nat
<1> SUFFICES ASSUME MailTyped, NEW k \in Drains PROVE got[k] \subseteq Msgs /\ IsFiniteSet(got[k]) /\ Cardinality(got[k]) \in Nat
    OBVIOUS
<1>1. got[k] \in SUBSET Msgs
    BY DEF MailTyped
<1>2. IsFiniteSet(got[k])
    BY <1>1, InboxAssumption, FS_Subset
<1> QED
    BY <1>1, <1>2, FS_CardinalityType

LEMMA UnionBound ==
    ASSUME NEW S, NEW T, IsFiniteSet(S), IsFiniteSet(T)
    PROVE  /\ IsFiniteSet(S \cup T) /\ Cardinality(S) \in Nat /\ Cardinality(T) \in Nat /\ Cardinality(S \cup T) \in Nat
           /\ Cardinality(S \cup T) <= Cardinality(S) + Cardinality(T)
           /\ S \cap T = {} => Cardinality(S \cup T) = Cardinality(S) + Cardinality(T)
<1>1. Cardinality(S) \in Nat /\ Cardinality(T) \in Nat
    BY FS_CardinalityType
<1>2. IsFiniteSet(S \cap T)
    BY FS_Subset
<1>3. Cardinality(S \cap T) \in Nat /\ (S \cap T = {} => Cardinality(S \cap T) = 0)
    BY <1>2, FS_CardinalityType, FS_EmptySet
<1>4. IsFiniteSet(S \cup T) /\ Cardinality(S \cup T) = Cardinality(S) + Cardinality(T) - Cardinality(S \cap T)
    BY FS_Union
<1>5. Cardinality(S \cup T) \in Nat
    BY <1>4, FS_CardinalityType
<1> QED
    BY <1>1, <1>3, <1>4, <1>5

LEMMA TakenCounted == MailTyped => Taken \subseteq Msgs /\ IsFiniteSet(Taken) /\ Cardinality(Taken) \in Nat
<1> SUFFICES ASSUME MailTyped PROVE Taken \subseteq Msgs /\ IsFiniteSet(Taken) /\ Cardinality(Taken) \in Nat
    OBVIOUS
<1>1. Taken \in SUBSET Msgs
    BY DEF MailTyped, Taken, Reported
<1>2. IsFiniteSet(Taken)
    BY <1>1, InboxAssumption, FS_Subset
<1> QED
    BY <1>1, <1>2, FS_CardinalityType

LEMMA StatusCounted ==
    ASSUME NEW s PROVE IsFiniteSet(InStatus(s)) /\ Cardinality(InStatus(s)) \in Nat /\ InStatus(s) \subseteq Msgs
<1>1. InStatus(s) \in SUBSET Msgs
    BY DEF InStatus
<1>2. IsFiniteSet(InStatus(s))
    BY <1>1, InboxAssumption, FS_Subset
<1> QED
    BY <1>1, <1>2, FS_CardinalityType

\* No delivery is newly drained, and what was returned stays so.
LEMMA ChargeQuiet ==
    ASSUME MailTyped', ChargeInv, Readable(log') => Readable(log) /\ InStatus("drained")' \subseteq InStatus("drained"),
           \A k \in Reported : k \in Reported' /\ got'[k] = got[k]
    PROVE  ChargeInv'
<1> SUFFICES ASSUME Readable(log') PROVE Cardinality(InStatus("drained")') <= Cardinality(Taken')
    BY DEF ChargeInv
<1>1. Taken \subseteq Taken'
    BY DEF Taken
<1>2. IsFiniteSet(Taken') /\ Cardinality(Taken') \in Nat
  <2>1. Taken' \in SUBSET Msgs
      BY DEF MailTyped, Taken, Reported
  <2>2. IsFiniteSet(Taken')
      BY <2>1, InboxAssumption, FS_Subset
  <2> QED
      BY <2>2, FS_CardinalityType
<1>3. IsFiniteSet(Taken) /\ Cardinality(Taken) <= Cardinality(Taken')
    BY <1>1, <1>2, FS_Subset
<1>4. Cardinality(Taken) \in Nat
    BY <1>3, FS_CardinalityType
<1>5. Cardinality(InStatus("drained")') <= Cardinality(InStatus("drained"))
    BY StatusCounted, FS_Subset
<1>6. Cardinality(InStatus("drained")) \in Nat /\ Cardinality(InStatus("drained")') \in Nat
  <2>1. IsFiniteSet(InStatus("drained")')
      BY StatusCounted, FS_Subset
  <2> QED
      BY <2>1, StatusCounted, FS_CardinalityType
<1>7. Cardinality(InStatus("drained")) <= Cardinality(Taken)
    BY DEF ChargeInv
<1> QED
    BY <1>2, <1>3, <1>4, <1>5, <1>6, <1>7

\* A drain is charged to as many deliveries as it returned, at most, and nobody
\* else returned those messages.
LEMMA LogDrainCharge ==
    ASSUME MailInv, MailTyped', StatusInv, ChargeInv, NEW k \in Drains, LogDrain(k) PROVE ChargeInv'
<1> SUFFICES ASSUME Readable(log') PROVE Cardinality(InStatus("drained")') <= Cardinality(Taken')
    BY DEF ChargeInv
<1>1. /\ drain[k] = "emptied" /\ drain' = [drain EXCEPT ![k] = "counted"] /\ UNCHANGED got
      /\ drain \in [Drains -> DrainStages] /\ MailTyped
    BY DEF LogDrain, DrainAt, MailInv, MailTyped
<1>2. Reported' = Reported \cup {k} /\ k \notin Reported
    BY <1>1 DEF Reported
<1>3. PICK G : G = got[k]
    OBVIOUS
<1>4. IsFiniteSet(G) /\ Cardinality(G) \in Nat
    BY <1>1, <1>3, GotCounted
<1>5. Taken' = Taken \cup G /\ Taken \cap G = {}
  <2>1. Taken' = Taken \cup G
      BY <1>1, <1>2, <1>3 DEF Taken
  <2>2. \A j \in Reported : got[j] \cap G = {}
      BY <1>2, <1>3 DEF MailInv, GotInv, Reported
  <2> QED
      BY <2>1, <2>2 DEF Taken
<1>6. PICK h \in SUBSET Msgs : Cardinality(h) <= Cardinality(G) /\ InStatus("drained")' = InStatus("drained") \cup h
    BY <1>3, <1>4, LogDrainKeeps
<1>7. IsFiniteSet(h) /\ Cardinality(h) \in Nat
    BY InboxAssumption, FS_Subset, FS_CardinalityType
<1>8. Cardinality(InStatus("drained")) <= Cardinality(Taken)
  <2>1. Readable(log)
      BY DEF LogDrain, LogLine, Readable
  <2> QED
      BY <2>1 DEF ChargeInv
<1>9. IsFiniteSet(Taken) /\ Cardinality(Taken) \in Nat
    BY <1>1, TakenCounted
<1>10. Cardinality(Taken \cup G) = Cardinality(Taken) + Cardinality(G)
    BY <1>4, <1>5, <1>9, UnionBound
<1>11. PICK D : D = InStatus("drained")
    OBVIOUS
<1>12. IsFiniteSet(D) /\ Cardinality(D) \in Nat /\ Cardinality(D) <= Cardinality(Taken)
    BY <1>8, <1>11, StatusCounted
<1>13. Cardinality(D \cup h) <= Cardinality(D) + Cardinality(h) /\ Cardinality(D \cup h) \in Nat
    BY <1>7, <1>12, UnionBound
<1>14. Cardinality(InStatus("drained")') = Cardinality(D \cup h) /\ Cardinality(Taken') = Cardinality(Taken) + Cardinality(G)
    BY <1>5, <1>6, <1>10, <1>11
<1> QED
    BY <1>4, <1>6, <1>7, <1>9, <1>12, <1>13, <1>14

LEMMA ChargeInitInv == BusInit => ChargeInv
<1> SUFFICES ASSUME BusInit PROVE ChargeInv
    OBVIOUS
<1>1. StatusInv
    BY StatusInitInv
<1>2. push = [m \in Msgs |-> "idle"]
    BY DEF BusInit, InboxInit
<1>3. Readable(log) => InStatus("drained") = {}
    BY <1>1, <1>2 DEF StatusInv, InStatus, Unlogged
<1>4. Cardinality({}) = 0
    BY FS_EmptySet
<1>5. Cardinality(Taken) \in Nat
    BY MailInitInv, TakenCounted DEF MailInv
<1> QED
    BY <1>3, <1>4, <1>5 DEF ChargeInv

LEMMA ChargeNext == MailInv /\ MailTyped' /\ StatusInv /\ ChargeInv /\ [BusNext]_busVars => ChargeInv'
<1> SUFFICES ASSUME MailInv, MailTyped', StatusInv, ChargeInv, [BusNext]_busVars PROVE ChargeInv'
    OBVIOUS
<1>1. drain \in [Drains -> DrainStages] /\ got \in [Drains -> SUBSET Msgs]
    BY DEF MailInv, MailTyped
<1>2. ASSUME UNCHANGED log, \A k \in Reported : k \in Reported' /\ got'[k] = got[k] PROVE ChargeInv'
    BY <1>2, ChargeQuiet DEF InStatus
<1>3. ASSUME UNCHANGED <<log, drain, got>> PROVE ChargeInv'
    BY <1>2, <1>3 DEF Reported
<1>4. ASSUME NEW m \in Msgs, CheckRoom(m) \/ OpenInbox(m) \/ WriteLine(m) \/ WriteNewline(m)
                             \/ Stat(m, "stored") \/ PushDies(m), UNCHANGED <<log, halfLine, ack>>
      PROVE  ChargeInv'
    BY <1>3, <1>4 DEF CheckRoom, OpenInbox, WriteLine, WriteNewline, Stat, PushDies
<1>5. ASSUME NEW m \in Msgs, StatsFail(m) \/ SendTmux(m) \/ SendUnlogged(m) \/ EndSend(m) \/ CheckAck(m) \/ EndAck(m)
      PROVE  ChargeInv'
    BY <1>3, <1>5 DEF StatsFail, SendTmux, SendUnlogged, EndSend, CheckAck, EndAck, LogNewline, inboxVars
<1>6. ASSUME NEW m \in Msgs, LogSent(m) \/ LogFailed(m) \/ LogAck(m) PROVE ChargeInv'
  <2>1. PICK s \in {"pending", "failed", "acked"} : LogLine([type |-> s, msg |-> m])
      BY <1>6 DEF LogSent, LogFailed, LogAck
  <2>2. UNCHANGED <<drain, got>>
      BY <1>6 DEF LogSent, LogFailed, LogAck, inboxVars
  <2>3. ASSUME Readable(log') PROVE Readable(log) /\ InStatus("drained")' \subseteq InStatus("drained")
    <3> DEFINE e == [type |-> s, msg |-> m]
    <3>1. e \in BusEvent /\ e.type = s /\ e.msg = m /\ e.type # "drain"
        BY DEF BusEvent
    <3> HIDE DEF e
    <3>2. LogLine(e)
        BY <2>1 DEF e
    <3>3. /\ Readable(log) /\ Replayed(log) \in Account /\ Replayed(log') = Replay(Replayed(log), e)
        BY <2>3, <3>1, <3>2, LogGrows
    <3>4. Replayed(log').of = [Replayed(log).of EXCEPT ![e.msg] = e.type]
        BY <3>1, <3>3, ReplayFacts
    <3>5. StatusIn(log') = [StatusIn(log) EXCEPT ![m] = s] /\ StatusIn(log) \in [Msgs -> Statuses]
        BY <3>1, <3>3, <3>4 DEF StatusIn, Account
    <3>6. \A n \in Msgs : StatusIn(log')[n] = "drained" => StatusIn(log)[n] = "drained"
        BY <3>5
    <3> QED
        BY <3>3, <3>6 DEF InStatus
  <2>4. \A k \in Reported : k \in Reported' /\ got'[k] = got[k]
      BY <2>2 DEF Reported
  <2> QED
      BY <2>3, <2>4, ChargeQuiet
<1>7. ASSUME NEW k \in Drains, DrainUnlogged(k) \/ EndDrain(k) PROVE ChargeInv'
  <2>1. UNCHANGED <<log, got>> /\ \E w \in DrainStages : drain' = [drain EXCEPT ![k] = w] /\ (k \in Reported => w = "done")
      BY <1>7 DEF DrainUnlogged, EndDrain, LogNewline, DrainAt, DrainStages, Reported
  <2>2. \A j \in Reported : j \in Reported' /\ got'[j] = got[j]
      BY <1>1, <2>1 DEF Reported
  <2> QED
      BY <1>2, <2>1, <2>2
<1>8. ASSUME NEW k \in Drains, UNCHANGED <<log, halfLine, ack>>,
             Rename(k, "emptied") \/ Read(k) \/ Unlink(k, "emptied") \/ DrainDies(k)
      PROVE  ChargeInv'
  <2>1. \E w \in DrainStages : drain' = [drain EXCEPT ![k] = w] /\ (k \in Reported => w = "dead")
      BY <1>8 DEF Rename, Read, Unlink, DrainDies, DrainAt, DrainStages, Reported
  <2>2. \A j \in Reported : j \in Reported'
      BY <1>1, <2>1 DEF Reported
  <2>3. \A j \in Reported : got'[j] = got[j]
      BY <1>1, <1>8 DEF Rename, Read, Unlink, DrainDies, Reported
  <2> QED
      BY <1>2, <1>8, <2>2, <2>3
<1>9. ASSUME NEW k \in Drains, LogDrain(k) PROVE ChargeInv'
    BY <1>9, LogDrainCharge
<1>10. ASSUME UNCHANGED busVars PROVE ChargeInv'
    BY <1>3, <1>10 DEF busVars, inboxVars
<1> QED
    BY <1>4, <1>5, <1>6, <1>7, <1>8, <1>9, <1>10 DEF BusNext

LEMMA MoreRoom ==
    ASSUME NEW I, NEW G, NEW P, NEW D, NEW B, IsFiniteSet(I), IsFiniteSet(G), IsFiniteSet(P), IsFiniteSet(D),
           IsFiniteSet(B), I \cap G = {}, I \cup G \subseteq (P \cup D) \cup B, Cardinality(D) <= Cardinality(G)
    PROVE  Cardinality(I) <= Cardinality(P) + Cardinality(B)
<1>1. /\ Cardinality(I \cup G) = Cardinality(I) + Cardinality(G)
      /\ Cardinality(I) \in Nat /\ Cardinality(G) \in Nat /\ Cardinality(I \cup G) \in Nat
    BY UnionBound
<1>2. /\ IsFiniteSet(P \cup D) /\ Cardinality(P) \in Nat /\ Cardinality(D) \in Nat /\ Cardinality(P \cup D) \in Nat
      /\ Cardinality(P \cup D) <= Cardinality(P) + Cardinality(D)
    BY UnionBound
<1>3. /\ IsFiniteSet((P \cup D) \cup B) /\ Cardinality(B) \in Nat /\ Cardinality((P \cup D) \cup B) \in Nat
      /\ Cardinality((P \cup D) \cup B) <= Cardinality(P \cup D) + Cardinality(B)
    BY <1>2, UnionBound
<1>4. Cardinality(I \cup G) <= Cardinality((P \cup D) \cup B)
    BY <1>3, FS_Subset
<1> QED
    BY <1>1, <1>2, <1>3, <1>4

\* With no call under way, the messages that wait and the ones that were returned are
\* different ones, and all of them are reported or were left behind by a call that ended early.
LEMMA ReportedEnough ==
    ASSUME MailInv, StatusInv, ChargeInv, Quiet, Readable(log)
    PROVE  Cardinality(Range(TextOf(inbox)) \ {NL})
               <= Cardinality(InStatus("pending") \cup InStatus("acked"))
                  + Cardinality({m \in Msgs : push[m] \in {"error", "dead", "cut"}})
<1>1. PICK I : I = Range(TextOf(inbox)) \ {NL}
    OBVIOUS
<1>2. PICK P : P = InStatus("pending") \cup InStatus("acked")
    OBVIOUS
<1>3. PICK D : D = InStatus("drained")
    OBVIOUS
<1>4. PICK B : B = {m \in Msgs : push[m] \in {"error", "dead", "cut"}}
    OBVIOUS
<1>5. PICK G : G = Taken
    OBVIOUS
<1>6. I \subseteq Msgs /\ \A m \in I : push[m] \in Wrote
  <2>1. CASE inbox = NoFile
      BY <1>1, <2>1 DEF TextOf, Range
  <2>2. CASE inbox # NoFile
    <3>1. inbox \in Inodes /\ TextOf(inbox) = text[inbox] /\ text[inbox] \in Seq(Msgs \cup {NL})
        BY <2>2 DEF MailInv, MailTyped, TextOf
    <3>2. I \subseteq Msgs /\ I \subseteq Range(text[inbox])
        BY <1>1, <3>1 DEF Range
    <3> QED
        BY <3>1, <3>2 DEF MailInv, PlaceInv
  <2> QED
      BY <2>1, <2>2
<1>7. G \subseteq Msgs /\ \A m \in G : push[m] \in Wrote
    BY <1>5 DEF Taken, Reported, MailInv, MailTyped, PlaceInv
<1>8. I \cap G = {}
    BY <1>1, <1>5 DEF Taken, Reported, MailInv, GotInv
<1>9. ASSUME NEW m \in Msgs, push[m] \in Wrote PROVE m \in (P \cup D) \cup B
  <2>1. push[m] = "sent" \/ m \in B
      BY <1>4, <1>9 DEF Quiet, Running, Wrote
  <2>2. push[m] = "sent" => m \in P \cup D
      BY <1>2, <1>3 DEF StatusInv, Logged, InStatus
  <2> QED
      BY <2>1, <2>2
<1>10. I \cup G \subseteq (P \cup D) \cup B
    BY <1>6, <1>7, <1>9
<1>11. P \subseteq Msgs /\ D \subseteq Msgs /\ B \subseteq Msgs
    BY <1>2, <1>3, <1>4 DEF InStatus
<1>12. /\ IsFiniteSet(I) /\ IsFiniteSet(G) /\ IsFiniteSet(P) /\ IsFiniteSet(D) /\ IsFiniteSet(B)
    BY <1>6, <1>7, <1>11, InboxAssumption, FS_Subset
<1>13. Cardinality(D) <= Cardinality(G)
    BY <1>3, <1>5 DEF ChargeInv
<1>14. Cardinality(I) <= Cardinality(P) + Cardinality(B)
    BY <1>8, <1>10, <1>12, <1>13, MoreRoom
<1> QED
    BY <1>1, <1>2, <1>4, <1>14

\* Whatever sends, drains and acknowledgements come between each other, and whoever is
\* killed between the line and its newline: as long as the log can be read, replaying it
\* never takes a delivery back, and never drains or acknowledges a failed one.
THEOREM BusStatusForward == BusSpec => StatusForward
<1>1. BusInit => BusTyped /\ StatusInv
    BY BusTypedInit, StatusInitInv
<1>2. BusTyped /\ StatusInv /\ [BusNext]_busVars => BusTyped' /\ StatusInv'
    BY BusTypedNext, StatusNext, GotCounted DEF BusTyped
<1>3. BusTyped /\ StatusInv /\ [BusNext]_busVars =>
          [Readable(log) /\ Readable(log') =>
              \A m \in Msgs : Forward(StatusIn(log)[m], StatusIn(log')[m])]_busVars
    BY StatusNext, GotCounted DEF Forwards, BusTyped
<1> QED
    BY <1>1, <1>2, <1>3, PTL DEF BusSpec, StatusForward

\* While the drains of an agent do not overlap, no more messages wait in the inbox than
\* are reported pending or were acknowledged, but for sends that ended before their event:
\* drains are charged by number, to other deliveries than the ones they returned perhaps,
\* but never to more of them than they returned messages that nobody else returned.
THEOREM BusMailIsReported == OneDrainer => (BusSpec => []MailIsReported)
<1> SUFFICES ASSUME OneDrainer PROVE BusSpec => []MailIsReported
    OBVIOUS
<1> DEFINE I == MailInv /\ StatusInv /\ ChargeInv
<1>1. BusInit => I
    BY MailInitInv, StatusInitInv, ChargeInitInv
<1>2. I /\ [BusNext]_busVars => I'
  <2> SUFFICES ASSUME MailInv, StatusInv, ChargeInv, [BusNext]_busVars PROVE I'
      OBVIOUS
  <2>1. MailInv' /\ MailTyped'
      BY MailNextInv DEF MailInv
  <2>2. StatusInv'
      BY StatusNext, GotCounted DEF MailInv
  <2>3. ChargeInv'
      BY <2>1, ChargeNext
  <2> QED
      BY <2>1, <2>2, <2>3
<1>3. I => MailIsReported
    BY ReportedEnough DEF MailIsReported
<1> QED
    BY <1>1, <1>2, <1>3, PTL DEF BusSpec

----------------------------------------------------------------------------
\* The reindex command.

\* The running command is a record of these fields.
JobShape ==
    job = [pc |-> job.pc, mode |-> job.mode, fits |-> job.fits, from |-> job.from, target |-> job.target,
           rows |-> job.rows, last |-> job.last, batch |-> job.batch, marks |-> job.marks,
           failed |-> job.failed, stash |-> job.stash, result |-> job.result,
           wrote |-> job.wrote, alone |-> job.alone, apt |-> job.apt]

\* A command that recreated a table with vectors, embedded nothing and was not
\* interfered with.
EmptyHanded == job.stash # NoStash /\ ~job.wrote /\ job.alone

Embedding == {"recreate", "load", "next", "embed", "clear", "insert", "pull", "vectors", "write", "mark"}
Deciding == {"release", "count", "drop", "create", "copy"}

\* It has the lease until it drops it, after which nobody has; the table it
\* recreated is empty, and gone when it is to be created again; and it is never
\* found to have embedded something.
EmptyInv ==
    EmptyHanded =>
        /\ job.pc \in Embedding \cup Deciding
        /\ lessee # "other"
        /\ job.pc \in Embedding => lessee = "reindex"
        /\ job.pc # "recreate" => index = [d \in Drawers |-> NoVector]
        /\ job.pc = "create" => layout = "absent"
        /\ job.pc = "copy" => layout = job.stash.layout

StashInv == job.pc \in {"idle", "layout", "plan", "stash"} => job.stash = NoStash

ReindexInv == JobShape /\ StashInv /\ EmptyInv /\ present \subseteq Drawers

\* Before the first run nothing is stashed.
LEMMA ReindexInvInit == ReindexInit => ReindexInv
BY SMTT(60) DEF ReindexInit, ReindexInv, JobShape, StashInv, EmptyInv, EmptyHanded, NoJob

LEMMA PlanShape ==
    ASSUME PlanReindex
    PROVE  Quit \/ (/\ UNCHANGED <<dbVars, progVars, lessee>>
                    /\ \E place \in {"stash", "load"} : \E target, from, apt :
                          job' = [job EXCEPT !.pc = place, !.target = target, !.from = from, !.apt = apt])
<1> SUFFICES ASSUME ~Quit PROVE
        /\ UNCHANGED <<dbVars, progVars, lessee>>
        /\ \E place \in {"stash", "load"} : \E target, from, apt :
              job' = [job EXCEPT !.pc = place, !.target = target, !.from = from, !.apt = apt]
    OBVIOUS
<1> DEFINE from == IF job.mode.resume /\ Resumable # {} THEN LatestResumable ELSE 0
           recreate == ~job.fits \/ (~job.mode.stale /\ from = 0)
<1>1. PICK target : /\ job' = [job EXCEPT !.pc = IF recreate THEN "stash" ELSE "load",
                                          !.target = target, !.from = IF recreate THEN 0 ELSE from,
                                          !.apt = recreate \/ from = 0 \/ progress[from].epoch = epoch]
                   /\ UNCHANGED <<dbVars, progVars, lessee>>
    BY ZenonT(60) DEF PlanReindex
<1> HIDE DEF from, recreate
<1>2. (IF recreate THEN "stash" ELSE "load") \in {"stash", "load"}
    OBVIOUS
<1> QED
    BY <1>1, <1>2

\* Every step of a run, of its end and of the others keeps it.
LEMMA ReindexInvStep == ReindexInv /\ [ReindexNext]_reindexVars => ReindexInv'
<1> SUFFICES ASSUME ReindexInv, [ReindexNext]_reindexVars PROVE ReindexInv'
    OBVIOUS
<1> USE DEF ReindexInv, JobShape, StashInv, EmptyInv, EmptyHanded, Embedding, Deciding, NoJob, dbVars
<1>1. ASSUME NEW mode \in Modes, StartReindex(mode) PROVE ReindexInv'
    BY <1>1, ZenonT(60) DEF StartReindex
<1>26. CASE ReadLayout
  <2>1. CASE Quit
      BY <2>1 DEF Quit
  <2>2. CASE job' = [job EXCEPT !.pc = "plan", !.fits = LayoutIsCurrent] /\ UNCHANGED <<dbVars, progVars, lessee>>
    <3>1. job.pc = "layout" /\ job.stash = NoStash
        BY <1>26 DEF ReadLayout
    <3>2. PICK fits : job' = [job EXCEPT !.pc = "plan", !.fits = fits]
        BY <2>2
    <3>3. job'.stash = NoStash /\ JobShape'
        BY <3>1, <3>2
    <3> QED
        BY <2>2, <3>3
  <2> QED
      BY <1>26, <2>1, <2>2 DEF ReadLayout
<1>27. CASE PlanReindex
  <2>1. CASE Quit
      BY <2>1 DEF Quit
  <2>2. CASE /\ UNCHANGED <<dbVars, progVars, lessee>>
             /\ \E place \in {"stash", "load"} : \E target, from, apt :
                   job' = [job EXCEPT !.pc = place, !.target = target, !.from = from, !.apt = apt]
    <3>4. PICK place \in {"stash", "load"} : \E target, from, apt :
             job' = [job EXCEPT !.pc = place, !.target = target, !.from = from, !.apt = apt]
        BY <2>2
    <3>1. PICK target, from, apt : job' = [job EXCEPT !.pc = place, !.target = target, !.from = from, !.apt = apt]
        BY <3>4
    <3>2. job.pc = "plan" /\ job.stash = NoStash
        BY <1>27 DEF PlanReindex
    <3>3. job'.stash = NoStash /\ JobShape'
        BY <3>1, <3>2
    <3> QED
        BY <2>2, <3>3
  <2>3. Quit \/ (/\ UNCHANGED <<dbVars, progVars, lessee>>
                 /\ \E place \in {"stash", "load"} : \E target, from, apt :
                       job' = [job EXCEPT !.pc = place, !.target = target, !.from = from, !.apt = apt])
      BY <1>27, PlanShape
  <2> QED
      BY <2>1, <2>2, <2>3
<1>2. CASE StashVectors
  <2>1. CASE lessee = "reindex" /\ HasVectors
    <3>1. job' = [job EXCEPT !.pc = "recreate", !.stash = Stash]
        BY <1>2, <2>1 DEF StashVectors
    <3> HIDE DEF Stash
    <3> QED
        BY <1>2, <2>1, <3>1 DEF StashVectors
  <2>2. CASE lessee = "reindex" /\ ~HasVectors
    <3>1. job' = [job EXCEPT !.pc = "recreate", !.stash = NoStash]
        BY <1>2, <2>2 DEF StashVectors
    <3> QED
        BY <1>2, <2>2, <3>1 DEF StashVectors
  <2>3. CASE lessee # "reindex"
    BY <1>2, <2>3 DEF StashVectors, Quit
  <2> QED
    BY <2>1, <2>2, <2>3
<1>3. CASE RecreateTable
    BY <1>3 DEF RecreateTable, Quit, Proceed
<1>4. CASE LoadRows
    BY <1>4 DEF LoadRows
<1>5. CASE NextRow \/ NoRowsLeft
    BY <1>5 DEF NextRow, NoRowsLeft, Proceed, Ends
<1>6. CASE EmbedRow
    BY <1>6 DEF EmbedRow, Proceed, Ends
<1>7. CASE ClearVector
    BY <1>7, ZenonT(60) DEF ClearVector, Fenced, Proceed, Ends
<1>8. CASE InsertRowVector
    BY <1>8 DEF InsertRowVector, Fenced, Ends
<1>9. CASE RecordMetadata \/ CheckpointRow
    BY <1>9 DEF RecordMetadata, CheckpointRow, Fenced, Proceed, Ends
<1>10. CASE SnapshotStale
    BY <1>10 DEF SnapshotStale, Fenced, Ends
<1>11. CASE PullBatch \/ BatchEmbedded
    BY <1>11, ZenonT(60) DEF PullBatch, BatchEmbedded, Proceed
<1>12. CASE BatchFailed
    BY <1>12 DEF BatchFailed, Fenced, Ends
<1>13. CASE WriteBatch
    BY <1>13, ZenonT(60) DEF WriteBatch, Fenced, Ends
<1>14. CASE MarkSource
    BY <1>14 DEF MarkSource, Fenced, Ends
<1>15. CASE FinalizeStale
    BY <1>15 DEF FinalizeStale, Fenced, Ends
<1>16. CASE ReleaseLease
    BY <1>16 DEF ReleaseLease, Proceed, ReindexOver
<1>17. CASE CountVectors
    BY <1>17 DEF CountVectors, NothingEmbedded, HasVectors, Proceed, ReindexOver
<1>18. CASE DropTable
    BY <1>18 DEF DropTable, Proceed
<1>19. CASE CreateTable
    BY <1>19 DEF CreateTable, Proceed, ReindexOver
<1>20. CASE CopyBack \/ FinalizeRows \/ KillReindex
    BY <1>20 DEF CopyBack, FinalizeRows, KillReindex, ReindexOver
<1>21. CASE OtherTakes
    BY <1>21 DEF OtherTakes
<1>22. CASE OtherReleases
    BY <1>22 DEF OtherReleases
<1>23. ASSUME NEW d \in Merged, OtherMerges(d) PROVE ReindexInv'
    BY <1>23 DEF OtherMerges
<1>24. ASSUME NEW d \in Deleted, RejudgeDeletes(d) PROVE ReindexInv'
    BY <1>24 DEF RejudgeDeletes
<1>25. CASE UNCHANGED reindexVars
    BY <1>25 DEF reindexVars
<1> QED
    BY <1>1, <1>2, <1>3, <1>4, <1>5, <1>6, <1>7, <1>8, <1>9, <1>10, <1>11, <1>12, <1>13, <1>14,
       <1>15, <1>16, <1>17, <1>18, <1>19, <1>20, <1>21, <1>22, <1>23, <1>24, <1>25,
       <1>26, <1>27 DEF ReindexNext

\* One step of EmptyRunRestores.
RestoresNow ==
    EmptyHanded /\ job'.pc = "idle" /\ job'.result # "killed" =>
        /\ \A d \in present : index'[d] = job.stash.vectors[d]
        /\ layout' = job.stash.layout

\* Only the copy of the stash lets such a command end by itself.
LEMMA EmptyStep == ReindexInv /\ [ReindexNext]_reindexVars => RestoresNow
<1> SUFFICES ASSUME ReindexInv, [ReindexNext]_reindexVars, EmptyHanded,
                    job'.pc = "idle", job'.result # "killed"
             PROVE  /\ \A d \in present : index'[d] = job.stash.vectors[d]
                    /\ layout' = job.stash.layout
    BY DEF RestoresNow
<1> USE DEF ReindexInv, JobShape, EmptyInv, EmptyHanded, Embedding, Deciding, NoJob, dbVars
<1>1. job.pc \in Embedding \cup Deciding
    OBVIOUS
<1>2. CASE CopyBack
  <2>1. index = [d \in Drawers |-> NoVector] /\ layout = job.stash.layout /\ job.pc = "copy"
      BY <1>2 DEF CopyBack
  <2>2. index' = [d \in Drawers |-> job.stash.vectors[d]] /\ layout' = layout
      BY <1>2, <2>1 DEF CopyBack
  <2> QED
      BY <2>1, <2>2
<1>3. CASE StashVectors \/ RecreateTable
    BY <1>3 DEF StashVectors, RecreateTable, Quit, Proceed, StashInv
<1>4. CASE ReleaseLease \/ CountVectors
    BY <1>4 DEF ReleaseLease, CountVectors, NothingEmbedded, HasVectors, Proceed, ReindexOver
<1>5. CASE CreateTable \/ DropTable
    BY <1>5 DEF CreateTable, DropTable, Proceed, ReindexOver
<1>6. ASSUME NEW r, Ends(r) PROVE FALSE
    BY <1>6 DEF Ends
<1>7. ASSUME \/ LoadRows \/ NextRow \/ NoRowsLeft \/ EmbedRow
             \/ ClearVector \/ InsertRowVector \/ RecordMetadata \/ CheckpointRow
             \/ SnapshotStale \/ PullBatch \/ BatchEmbedded \/ BatchFailed
             \/ WriteBatch \/ MarkSource \/ FinalizeStale
      PROVE  FALSE
  <2>1. CASE LoadRows
    BY <2>1 DEF LoadRows
  <2>2. CASE NextRow
    BY <2>2 DEF NextRow, Proceed
  <2>3. CASE NoRowsLeft
    BY <2>3, <1>6 DEF NoRowsLeft
  <2>4. CASE EmbedRow
    BY <2>4, <1>6 DEF EmbedRow, Proceed
  <2>5. CASE ClearVector
    BY <2>5, <1>6 DEF ClearVector, Fenced, Proceed
  <2>6. CASE InsertRowVector
    <3>1. Ends("error") \/ job'.pc = "record"
        BY <2>6, JobShape DEF InsertRowVector, Fenced
    <3> QED
        BY <3>1, <1>6
  <2>7. CASE RecordMetadata
    BY <2>7, <1>6 DEF RecordMetadata, Fenced, Proceed
  <2>8. CASE CheckpointRow
    BY <2>8, <1>6 DEF CheckpointRow, Fenced
  <2>9. CASE SnapshotStale
    <3>1. Ends("error") \/ job'.pc = "pull"
        BY <2>9, JobShape DEF SnapshotStale, Fenced
    <3> QED
        BY <3>1, <1>6
  <2>10. CASE PullBatch
    BY <2>10 DEF PullBatch
  <2>11. CASE BatchEmbedded
    BY <2>11 DEF BatchEmbedded, Proceed
  <2>12. CASE BatchFailed
    <3>1. Ends("error") \/ job'.pc = "mark"
        BY <2>12, JobShape DEF BatchFailed, Fenced
    <3> QED
        BY <3>1, <1>6
  <2>13. CASE WriteBatch
    <3>1. Ends("error") \/ job'.pc = "mark"
        BY <2>13, JobShape DEF WriteBatch, Fenced
    <3> QED
        BY <3>1, <1>6
  <2>14. CASE MarkSource
    BY <2>14, <1>6 DEF MarkSource, Fenced
  <2>15. CASE FinalizeStale
    BY <2>15, <1>6 DEF FinalizeStale, Fenced
  <2> QED
    BY <1>7, <2>1, <2>2, <2>3, <2>4, <2>5, <2>6, <2>7, <2>8, <2>9, <2>10, <2>11, <2>12,
       <2>13, <2>14, <2>15
<1>8. CASE FinalizeRows \/ KillReindex \/ OtherTakes \/ OtherReleases
    BY <1>8 DEF FinalizeRows, KillReindex, OtherTakes, OtherReleases, ReindexOver
<1>9. ASSUME ReadLayout \/ PlanReindex \/ \E mode \in Modes : StartReindex(mode) PROVE FALSE
    BY <1>9 DEF StartReindex, ReadLayout, PlanReindex
<1>10. ASSUME NEW d \in Merged, OtherMerges(d) PROVE FALSE
    BY <1>10 DEF OtherMerges
<1>11. ASSUME NEW d \in Deleted, RejudgeDeletes(d) PROVE FALSE
    BY <1>11 DEF RejudgeDeletes
<1>12. CASE UNCHANGED reindexVars
    BY <1>12 DEF reindexVars
<1> QED
    BY <1>2, <1>3, <1>4, <1>5, <1>7, <1>8, <1>9, <1>10, <1>11, <1>12 DEF ReindexNext

\* For any drawers, runs and mishaps: a run that recreated the table, embedded nothing,
\* was not killed and met no other writer ends with the vectors and the layout it found
\* (finalize_reindex_atomicity, restore_vectors_from_stash).
THEOREM ReindexEmptyRunRestores == ReindexSpec => EmptyRunRestores
<1>1. ReindexInv /\ [ReindexNext]_reindexVars => RestoresNow
    BY EmptyStep
<1> QED
    BY <1>1, ReindexInvInit, ReindexInvStep, PTL DEF ReindexSpec, EmptyRunRestores, RestoresNow, EmptyHanded

----------------------------------------------------------------------------
\* What a full run of the reindex command leaves.

LEMMA DrawerNumbers == \A d \in Drawers : d \in Nat \ {0}
<1>1. PICK n : n = Cardinality(Drawers)
    OBVIOUS
<1>2. n \in Nat /\ Drawers = 1..n
    BY <1>1, ReindexAssumption, FS_CardinalityType
<1> QED
    BY <1>2

LEMMA FirstRow ==
    ASSUME NEW R, R \subseteq [id : Drawers, body : Int], R # {}
    PROVE  First(R) \in R /\ First(R).id \in Drawers /\ \A q \in R : First(R).id <= q.id
<1> DEFINE ids == {r.id : r \in R}
<1>1. ids \subseteq Nat /\ ids # {}
    BY DrawerNumbers
<1>2. PICK m \in ids : \A n \in ids : m <= n
  <2> HIDE DEF ids
  <2> QED
      BY <1>1, LeastNumber
<1>3. \E r \in R : \A q \in R : r.id <= q.id
    BY <1>2
<1> QED
    BY <1>3 DEF First

RowStages == {"next", "embed", "clear", "insert", "record", "check"}
Current(d) == index[d] = Vector("new", body[d])
Awaited(d) == \E r \in job.rows : r.id = d

FullTyped ==
    /\ index = [d \in Drawers |-> index[d]] /\ body \in [Drawers -> Nat]
    /\ job.rows \subseteq [id : Drawers, body : Nat]

\* In a full run every drawer that is not waiting for its turn is current, the first
\* one once it has been inserted; while the run has the lease, what it read is what
\* is there, and the vector it is about to insert has no rival.
FullInv ==
    ~job.mode.stale /\ job.from = 0 /\ job.pc \in RowStages =>
        /\ job.pc # "next" => job.rows # {}
        /\ \A d \in present : Awaited(d) \/ Current(d)
        /\ job.pc \in {"record", "check"} => (First(job.rows).id \in present => Current(First(job.rows).id))
        /\ lessee = "reindex" => \A r \in job.rows : r.body = body[r.id]
        /\ job.pc = "insert" /\ lessee = "reindex" => index[First(job.rows).id] = NoVector

RunInv == ReindexInv /\ FullTyped /\ FullInv

\* A step of the run that keeps the tables, the rows and the plan.
LEMMA FullQuiet ==
    ASSUME RunInv, UNCHANGED <<present, body, index>>, job'.rows = job.rows,
           job'.mode = job.mode, job'.from = job.from, lessee' = "reindex" => lessee = "reindex",
           \/ job'.pc \notin RowStages
           \/ job'.pc = job.pc
           \/ job.pc = "next" /\ job'.pc = "embed" /\ job.rows # {}
           \/ job.pc = "embed" /\ job'.pc = "clear"
           \/ job.pc = "record" /\ job'.pc = "check"
    PROVE  FullTyped' /\ FullInv'
<1>1. FullTyped'
    BY DEF RunInv, FullTyped
<1>2. CASE job'.pc \notin RowStages
    BY <1>1, <1>2 DEF FullInv, RowStages
<1>3. CASE job'.pc \in RowStages
  <2>1. job.pc \in RowStages
      BY <1>3 DEF RowStages
  <2>2. \A d : (Awaited(d)' <=> Awaited(d)) /\ (Current(d)' <=> Current(d))
      BY DEF Awaited, Current, Vector
  <2>3. First(job'.rows) = First(job.rows)
      OBVIOUS
  <2> QED
      BY <1>1, <1>3, <2>1, <2>2, <2>3 DEF FullInv, RunInv, RowStages
<1> QED
    BY <1>1, <1>2, <1>3

\* A run that is not between rows has nothing to keep.
LEMMA FullAway ==
    ASSUME RunInv, job'.pc \notin RowStages, index' = [d \in Drawers |-> index'[d]],
           body' \in [Drawers -> Nat], job'.rows \subseteq [id : Drawers, body : Nat]
    PROVE  FullTyped' /\ FullInv'
BY DEF FullTyped, FullInv

LEMMA FullLoad ==
    ASSUME RunInv, LoadRows PROVE FullTyped' /\ FullInv'
<1> USE DEF RunInv, ReindexInv, JobShape
<1>1. /\ UNCHANGED <<present, body, index, lessee>> /\ job'.pc = "next" /\ job'.mode = job.mode /\ job'.from = job.from
    BY DEF LoadRows, dbVars
<1>2. job'.rows \subseteq {Row(d) : d \in present}
    BY DEF LoadRows
<1>3. \A d \in present : Row(d) \in [id : Drawers, body : Nat] /\ Row(d).id = d /\ Row(d).body = body[d]
    BY DEF FullTyped, Row
<1>4. FullTyped'
    BY <1>1, <1>2, <1>3 DEF FullTyped
<1>5. ASSUME ~job.mode.stale, job.from = 0 PROVE job'.rows = {Row(d) : d \in present}
    BY <1>5 DEF LoadRows
<1>6. FullInv'
    BY <1>1, <1>3, <1>5 DEF FullInv, Awaited
<1> QED
    BY <1>4, <1>6

LEMMA FullClear ==
    ASSUME RunInv, ClearVector PROVE FullTyped' /\ FullInv'
<1> USE DEF RunInv, ReindexInv, JobShape
<1>1. CASE Ends("error") /\ UNCHANGED <<dbVars, progVars>>
    BY <1>1, FullAway DEF Ends, dbVars, RowStages, FullTyped
<1>2. CASE /\ lessee = "reindex" /\ index' = [index EXCEPT ![First(job.rows).id] = NoVector] /\ Proceed("insert")
           /\ UNCHANGED <<present, body, layout, stamp, epoch, progVars>>
  <2>1. job.pc = "clear" /\ lessee' = lessee
      BY DEF ClearVector
  <2>2. job'.pc = "insert" /\ job'.rows = job.rows /\ job'.mode = job.mode /\ job'.from = job.from
      BY <1>2 DEF Proceed
  <2>3. FullTyped'
      BY <1>2, <2>2 DEF FullTyped
  <2>4. ASSUME ~job.mode.stale, job.from = 0 PROVE FullInv'
    <3>1. job.rows # {} /\ (\A d \in present : Awaited(d) \/ Current(d)) /\ \A r \in job.rows : r.body = body[r.id]
        BY <1>2, <2>1, <2>4 DEF FullInv, RowStages
    <3>2. First(job.rows) \in job.rows /\ First(job.rows).id \in Drawers
      <4>1. job.rows \subseteq [id : Drawers, body : Int]
          BY DEF FullTyped
      <4> QED
          BY <3>1, <4>1, FirstRow
    <3>3. \A d \in present : Awaited(d)' \/ Current(d)'
      <4> SUFFICES ASSUME NEW d \in present, ~Awaited(d) PROVE Current(d)'
          BY <2>2 DEF Awaited
      <4>1. d # First(job.rows).id
          BY <3>2 DEF Awaited
      <4>2. index'[d] = index[d] /\ body'[d] = body[d]
          BY <1>2, <4>1 DEF FullTyped
      <4> QED
          BY <3>1, <4>2 DEF Current, Vector
    <3>4. index'[First(job.rows).id] = NoVector
        BY <1>2, <3>2 DEF FullTyped
    <3> QED
        BY <1>2, <2>1, <2>2, <3>1, <3>3, <3>4 DEF FullInv
  <2> QED
      BY <2>2, <2>3, <2>4 DEF FullInv
<1> QED
    BY <1>1, <1>2 DEF ClearVector, Fenced

LEMMA FullInsert ==
    ASSUME RunInv, InsertRowVector PROVE FullTyped' /\ FullInv'
<1> USE DEF RunInv, ReindexInv, JobShape
<1> DEFINE r == First(job.rows)
<1>1. CASE Ends("error") /\ UNCHANGED <<dbVars, progVars>>
    BY <1>1, FullAway DEF Ends, dbVars, RowStages, FullTyped
<1>2. CASE /\ lessee = "reindex"
           /\ \/ index[r.id] = NoVector /\ index' = [index EXCEPT ![r.id] = Vector("new", r.body)]
              \/ index[r.id] # NoVector /\ UNCHANGED index
           /\ job' = [job EXCEPT !.pc = "record", !.wrote = TRUE]
           /\ UNCHANGED <<present, body>>
  <2>1. job.pc = "insert" /\ lessee' = lessee
      BY DEF InsertRowVector
  <2>2. job'.pc = "record" /\ job'.rows = job.rows /\ job'.mode = job.mode /\ job'.from = job.from
      BY <1>2
  <2>3. FullTyped'
      BY <1>2, <2>2 DEF FullTyped
  <2>4. ASSUME ~job.mode.stale, job.from = 0 PROVE FullInv'
    <3>1. /\ job.rows # {} /\ (\A d \in present : Awaited(d) \/ Current(d)) /\ \A q \in job.rows : q.body = body[q.id]
          /\ index[r.id] = NoVector
        BY <1>2, <2>1, <2>4 DEF FullInv, RowStages
    <3>2. r \in job.rows /\ r.id \in Drawers
      <4>1. job.rows \subseteq [id : Drawers, body : Int]
          BY DEF FullTyped
      <4> QED
          BY <3>1, <4>1, FirstRow
    <3>3. index' = [index EXCEPT ![r.id] = Vector("new", r.body)] /\ r.body = body[r.id]
        BY <1>2, <3>1, <3>2
    <3> HIDE DEF r
    <3>4. index'[r.id] = Vector("new", body'[r.id])
        BY <1>2, <3>2, <3>3 DEF FullTyped, Vector
    <3>5. \A d \in present : Awaited(d)' \/ Current(d)'
      <4> SUFFICES ASSUME NEW d \in present, ~Awaited(d) PROVE Current(d)'
          BY <2>2 DEF Awaited
      <4>1. d # r.id
          BY <3>2 DEF Awaited
      <4>2. index'[d] = index[d] /\ body'[d] = body[d]
          BY <1>2, <3>3, <4>1 DEF FullTyped
      <4> QED
          BY <3>1, <4>2 DEF Current, Vector
    <3> QED
        BY <1>2, <2>1, <2>2, <3>1, <3>4, <3>5 DEF FullInv, Current, Vector, r
  <2> QED
      BY <2>2, <2>3, <2>4 DEF FullInv
<1> QED
    BY <1>1, <1>2 DEF InsertRowVector, Fenced

LEMMA FullCheckpoint ==
    ASSUME RunInv, CheckpointRow PROVE FullTyped' /\ FullInv'
<1> USE DEF RunInv, ReindexInv, JobShape
<1>1. CASE Ends("error") /\ UNCHANGED <<dbVars, progVars>>
    BY <1>1, FullAway DEF Ends, dbVars, RowStages, FullTyped
<1>2. CASE /\ lessee = "reindex" /\ UNCHANGED dbVars
           /\ job' = [job EXCEPT !.pc = "next", !.rows = @ \ {First(@)}, !.last = First(job.rows).id]
  <2>1. job.pc = "check" /\ lessee' = lessee
      BY DEF CheckpointRow
  <2>2. job'.pc = "next" /\ job'.rows = job.rows \ {First(job.rows)} /\ job'.mode = job.mode /\ job'.from = job.from
      BY <1>2
  <2>3. UNCHANGED <<present, body, index>>
      BY <1>2 DEF dbVars
  <2>4. FullTyped'
      BY <2>2, <2>3 DEF FullTyped
  <2>5. ASSUME ~job.mode.stale, job.from = 0 PROVE FullInv'
    <3>1. /\ \A d \in present : Awaited(d) \/ Current(d)
          /\ First(job.rows).id \in present => Current(First(job.rows).id)
          /\ \A q \in job.rows : q.body = body[q.id]
        BY <1>2, <2>1, <2>5 DEF FullInv, RowStages
    <3>2. \A d \in present : Awaited(d)' \/ Current(d)'
      <4> SUFFICES ASSUME NEW d \in present PROVE Awaited(d)' \/ Current(d)'
          BY <2>3
      <4>1. Current(d)' <=> Current(d)
          BY <2>3 DEF Current, Vector
      <4>2. Awaited(d) => Awaited(d)' \/ d = First(job.rows).id
          BY <2>2 DEF Awaited
      <4> QED
          BY <3>1, <4>1, <4>2
    <3> QED
        BY <1>2, <2>1, <2>2, <2>3, <3>1, <3>2 DEF FullInv
  <2> QED
      BY <2>2, <2>4, <2>5 DEF FullInv
<1> QED
    BY <1>1, <1>2 DEF CheckpointRow, Fenced

\* What the others do: a merge leaves its drawer current, and happens without the
\* run's lease; what is deleted need not be.
LEMMA FullOthers ==
    ASSUME RunInv, UNCHANGED <<job, lessee>>, present' \subseteq present, NEW d \in Drawers,
           \/ /\ lessee = "other" /\ body' = [body EXCEPT ![d] = @ + 1]
              /\ index' = [index EXCEPT ![d] = Vector("new", body[d] + 1)]
           \/ d \notin present' /\ body' = body /\ index' = [index EXCEPT ![d] = NoVector]
    PROVE  FullTyped' /\ FullInv'
<1> USE DEF RunInv, ReindexInv
<1>1. FullTyped'
    BY DEF FullTyped
<1>2. \A e \in Drawers \ {d} : index'[e] = index[e] /\ body'[e] = body[e]
    BY DEF FullTyped
<1>3. \A e \in present' : Current(e) => Current(e)'
    BY <1>2 DEF FullTyped, Current, Vector
<1>4. \A e : Awaited(e)' <=> Awaited(e)
    BY DEF Awaited
<1>5. lessee = "reindex" => body' = body
    OBVIOUS
<1>6. ASSUME NEW e \in Drawers, lessee = "reindex", index[e] = NoVector PROVE index'[e] = NoVector
    BY <1>2, <1>6 DEF FullTyped
<1>7. First(job.rows)' = First(job.rows)
    OBVIOUS
<1>8. job.rows # {} => First(job.rows).id \in Drawers
  <2>1. job.rows \subseteq [id : Drawers, body : Int]
      BY DEF FullTyped
  <2> QED
      BY <2>1, FirstRow
<1>9. FullInv'
  <2> SUFFICES ASSUME ~job.mode.stale, job.from = 0, job.pc \in RowStages PROVE
         /\ job.pc # "next" => job.rows # {}
         /\ \A e \in present' : Awaited(e)' \/ Current(e)'
         /\ job.pc \in {"record", "check"} => (First(job.rows).id \in present' => Current(First(job.rows).id)')
         /\ lessee = "reindex" => \A r \in job.rows : r.body = body'[r.id]
         /\ job.pc = "insert" /\ lessee = "reindex" => index'[First(job.rows).id] = NoVector
      BY <1>7 DEF FullInv, Current
  <2>1. /\ job.pc # "next" => job.rows # {}
        /\ \A e \in present : Awaited(e) \/ Current(e)
        /\ job.pc \in {"record", "check"} => (First(job.rows).id \in present => Current(First(job.rows).id))
        /\ lessee = "reindex" => \A r \in job.rows : r.body = body[r.id]
        /\ job.pc = "insert" /\ lessee = "reindex" => index[First(job.rows).id] = NoVector
      BY DEF FullInv
  <2> QED
      BY <2>1, <1>3, <1>4, <1>5, <1>6, <1>8
<1> QED
    BY <1>1, <1>9

LEMMA RunInvStep == RunInv /\ [ReindexNext]_reindexVars => RunInv'
<1> SUFFICES ASSUME RunInv, [ReindexNext]_reindexVars PROVE FullTyped' /\ FullInv'
    BY ReindexInvStep DEF RunInv
<1> USE DEF dbVars
<1> DEFINE Rows == [id : Drawers, body : Nat]
<1>0. /\ JobShape /\ present \subseteq Drawers /\ FullTyped
      /\ index = [d \in Drawers |-> index[d]] /\ body \in [Drawers -> Nat] /\ job.rows \subseteq Rows
    BY DEF RunInv, ReindexInv, FullTyped
<1>1. ASSUME job' = NoJob \/ \E result : ReindexOver(result), UNCHANGED <<body, index>> PROVE FullTyped' /\ FullInv'
  <2>1. job'.pc = "idle" /\ job'.rows = {}
      BY <1>1 DEF ReindexOver, NoJob
  <2> QED
      BY <1>0, <1>1, <2>1, FullAway DEF RowStages
<1>2. ASSUME NEW result, Ends(result), UNCHANGED <<body, index>> PROVE FullTyped' /\ FullInv'
  <2>1. job'.pc = "release" /\ job'.rows = job.rows
      BY <1>0, <1>2 DEF Ends, JobShape
  <2> QED
      BY <1>0, <1>2, <2>1, FullAway DEF RowStages
<1>3. ASSUME NEW place, place \notin RowStages, Proceed(place), UNCHANGED <<body, index>> PROVE FullTyped' /\ FullInv'
  <2>1. job'.pc = place /\ job'.rows = job.rows
      BY <1>0, <1>3 DEF Proceed, JobShape
  <2> QED
      BY <1>0, <1>3, <2>1, FullAway
<1>4. ASSUME NEW mode \in Modes, StartReindex(mode) PROVE FullTyped' /\ FullInv'
  <2>1. job'.pc = "layout" /\ job'.rows = {} /\ UNCHANGED <<body, index>>
      BY <1>4 DEF StartReindex, NoJob
  <2> QED
      BY <1>0, <2>1, FullAway DEF RowStages
<1>5. CASE ReadLayout
  <2>1. CASE Quit
      BY <1>1, <2>1 DEF Quit
  <2>2. CASE job' = [job EXCEPT !.pc = "plan", !.fits = LayoutIsCurrent] /\ UNCHANGED <<dbVars, progVars, lessee>>
    <3>1. job'.pc = "plan" /\ job'.rows = job.rows
        BY <1>0, <2>2 DEF JobShape
    <3> QED
        BY <1>0, <2>2, <3>1, FullAway DEF RowStages
  <2> QED
      BY <1>5, <2>1, <2>2 DEF ReadLayout
<1>6. CASE PlanReindex
  <2>1. CASE Quit
      BY <1>1, <2>1 DEF Quit
  <2>2. CASE /\ UNCHANGED <<dbVars, progVars, lessee>>
             /\ \E place \in {"stash", "load"} : \E target, from, apt :
                   job' = [job EXCEPT !.pc = place, !.target = target, !.from = from, !.apt = apt]
    <3>1. job'.pc \in {"stash", "load"} /\ job'.rows = job.rows
        BY <1>0, <2>2 DEF JobShape
    <3> QED
        BY <1>0, <2>2, <3>1, FullAway DEF RowStages
  <2>3. Quit \/ (/\ UNCHANGED <<dbVars, progVars, lessee>>
                 /\ \E place \in {"stash", "load"} : \E target, from, apt :
                       job' = [job EXCEPT !.pc = place, !.target = target, !.from = from, !.apt = apt])
      BY <1>6, PlanShape
  <2> QED
      BY <2>1, <2>2, <2>3
<1>7. CASE StashVectors
  <2>1. CASE Quit
      BY <1>1, <2>1 DEF Quit
  <2>2. CASE \E s : job' = [job EXCEPT !.pc = "recreate", !.stash = s] /\ UNCHANGED <<dbVars, progVars, lessee>>
    <3>1. job'.pc = "recreate" /\ job'.rows = job.rows
        BY <1>0, <2>2 DEF JobShape
    <3> QED
        BY <1>0, <2>2, <3>1, FullAway DEF RowStages
  <2> QED
      BY <1>7, <2>1, <2>2 DEF StashVectors
<1>8. CASE RecreateTable
  <2>1. CASE Quit
      BY <1>1, <2>1 DEF Quit
  <2>2. CASE Proceed("load") /\ index' = [d \in Drawers |-> NoVector] /\ body' = body
    <3>1. job'.pc = "load" /\ job'.rows = job.rows
        BY <1>0, <2>2 DEF JobShape, Proceed
    <3> QED
        BY <1>0, <2>2, <3>1, FullAway DEF RowStages
  <2> QED
      BY <1>8, <2>1, <2>2 DEF RecreateTable
<1>9. CASE NextRow
  <2>1. job.pc = "next" /\ job.rows # {} /\ UNCHANGED <<present, body, index, lessee>> /\ Proceed("embed")
      BY <1>9 DEF NextRow
  <2>2. job'.pc = "embed" /\ job'.rows = job.rows /\ job'.mode = job.mode /\ job'.from = job.from
      BY <1>0, <2>1 DEF Proceed, JobShape
  <2> QED
      BY <2>1, <2>2, FullQuiet
<1>10. CASE NoRowsLeft
    BY <1>2, <1>10 DEF NoRowsLeft
<1>11. CASE EmbedRow
  <2>1. CASE Proceed("clear")
    <3>1. job.pc = "embed" /\ UNCHANGED <<present, body, index, lessee>>
        BY <1>11 DEF EmbedRow
    <3>2. job'.pc = "clear" /\ job'.rows = job.rows /\ job'.mode = job.mode /\ job'.from = job.from
        BY <1>0, <2>1 DEF Proceed, JobShape
    <3> QED
        BY <3>1, <3>2, FullQuiet
  <2>2. CASE Ends("error")
      BY <1>2, <1>11, <2>2 DEF EmbedRow
  <2> QED
      BY <1>11, <2>1, <2>2 DEF EmbedRow
<1>12. CASE RecordMetadata
  <2>1. CASE Proceed("check") /\ UNCHANGED <<present, body, index>>
    <3>1. job.pc = "record" /\ UNCHANGED lessee
        BY <1>12 DEF RecordMetadata
    <3>2. job'.pc = "check" /\ job'.rows = job.rows /\ job'.mode = job.mode /\ job'.from = job.from
        BY <1>0, <2>1 DEF Proceed, JobShape
    <3> QED
        BY <2>1, <3>1, <3>2, FullQuiet
  <2>2. CASE Ends("error") /\ UNCHANGED <<dbVars, progVars>>
      BY <1>2, <2>2
  <2> QED
      BY <1>12, <2>1, <2>2 DEF RecordMetadata, Fenced
<1>13. CASE SnapshotStale
  <2>1. CASE Ends("error") /\ UNCHANGED <<dbVars, progVars>>
      BY <1>2, <2>1
  <2>2. CASE /\ UNCHANGED <<dbVars, progVars>>
             /\ \E todo \in SUBSET present : job' = [job EXCEPT !.pc = "pull", !.rows = {Row(d) : d \in todo}]
    <3>1. PICK todo \in SUBSET present : job' = [job EXCEPT !.pc = "pull", !.rows = {Row(d) : d \in todo}]
        BY <2>2
    <3>2. job'.pc = "pull" /\ job'.rows = {Row(d) : d \in todo}
        BY <1>0, <3>1 DEF JobShape
    <3>3. \A d \in todo : Row(d) \in Rows
        BY <1>0 DEF Row
    <3> QED
        BY <1>0, <2>2, <3>2, <3>3, FullAway DEF RowStages
  <2>3. {d \in present \cap job.target : IsStale(d)} \in SUBSET present
      OBVIOUS
  <2> QED
      BY <1>13, <2>1, <2>2, <2>3 DEF SnapshotStale, Fenced
<1>14. CASE PullBatch
  <2>1. job'.pc = "vectors" /\ job'.rows \subseteq job.rows /\ UNCHANGED <<body, index>>
      BY <1>0, <1>14 DEF PullBatch, JobShape
  <2> QED
      BY <1>0, <2>1, FullAway DEF RowStages
<1>15. CASE BatchEmbedded
    BY <1>3, <1>15 DEF BatchEmbedded, RowStages
<1>16. CASE BatchFailed
  <2>1. CASE Ends("error") /\ UNCHANGED <<dbVars, progVars>>
      BY <1>2, <2>1
  <2>2. CASE job'.pc = "mark" /\ job'.rows = job.rows /\ UNCHANGED <<body, index>>
      BY <1>0, <2>2, FullAway DEF RowStages
  <2>3. \/ Ends("error") /\ UNCHANGED <<dbVars, progVars>>
        \/ job'.pc = "mark" /\ job'.rows = job.rows /\ UNCHANGED <<body, index>>
      BY <1>0, <1>16 DEF BatchFailed, Fenced, JobShape
  <2> QED
      BY <2>1, <2>2, <2>3
<1>17. CASE WriteBatch
  <2>1. CASE Ends("error") /\ UNCHANGED <<dbVars, progVars>>
      BY <1>2, <2>1
  <2>2. CASE /\ job'.pc = "mark" /\ job'.rows = job.rows /\ body' = body /\ index' = [d \in Drawers |-> index'[d]]
      BY <1>0, <2>2, FullAway DEF RowStages
  <2>3. \/ Ends("error") /\ UNCHANGED <<dbVars, progVars>>
        \/ job'.pc = "mark" /\ job'.rows = job.rows /\ body' = body /\ index' = [d \in Drawers |-> index'[d]]
      BY <1>0, <1>17 DEF WriteBatch, Fenced, JobShape
  <2> QED
      BY <2>1, <2>2, <2>3
<1>18. CASE MarkSource
  <2>1. CASE Ends("error") /\ UNCHANGED <<dbVars, progVars>>
      BY <1>2, <2>1
  <2>2. CASE job'.pc \in {"mark", "pull"} /\ job'.rows = job.rows /\ UNCHANGED <<body, index>>
      BY <1>0, <2>2, FullAway DEF RowStages
  <2>3. \/ Ends("error") /\ UNCHANGED <<dbVars, progVars>>
        \/ job'.pc \in {"mark", "pull"} /\ job'.rows = job.rows /\ UNCHANGED <<body, index>>
      BY <1>0, <1>18 DEF MarkSource, Fenced, JobShape
  <2> QED
      BY <2>1, <2>2, <2>3
<1>19. CASE FinalizeStale
    BY <1>2, <1>19 DEF FinalizeStale, Fenced
<1>20. CASE ReleaseLease \/ CountVectors
    BY <1>1, <1>3, <1>20 DEF ReleaseLease, CountVectors, RowStages
<1>21. CASE DropTable \/ CopyBack
  <2>1. job'.pc \notin RowStages /\ job'.rows \subseteq Rows
      BY <1>0, <1>21 DEF DropTable, CopyBack, Proceed, ReindexOver, NoJob, JobShape, RowStages
  <2>2. body' = body /\ index' = [d \in Drawers |-> index'[d]]
    <3>1. CASE DropTable
        BY <3>1 DEF DropTable
    <3>2. CASE CopyBack
        BY <1>0, <3>2 DEF CopyBack
    <3> QED
        BY <1>21, <3>1, <3>2
  <2> QED
      BY <1>0, <2>1, <2>2, FullAway
<1>22. CASE CreateTable
    BY <1>1, <1>3, <1>22 DEF CreateTable, RowStages
<1>23. CASE FinalizeRows \/ KillReindex
    BY <1>1, <1>23 DEF FinalizeRows, KillReindex
<1>24. CASE OtherTakes \/ OtherReleases \/ UNCHANGED reindexVars
  <2>1. /\ UNCHANGED <<present, body, index>> /\ job'.rows = job.rows /\ job'.mode = job.mode /\ job'.from = job.from
        /\ job'.pc = job.pc /\ (lessee' = "reindex" => lessee = "reindex")
      BY <1>0, <1>24 DEF OtherTakes, OtherReleases, reindexVars, JobShape
  <2> QED
      BY <2>1, FullQuiet
<1>25. ASSUME NEW d \in Merged, OtherMerges(d) PROVE FullTyped' /\ FullInv'
  <2>1. d \in Drawers
      BY ReindexAssumption
  <2> QED
      BY <1>25, <2>1, FullOthers DEF OtherMerges
<1>26. ASSUME NEW d \in Deleted, RejudgeDeletes(d) PROVE FullTyped' /\ FullInv'
  <2>1. d \in Drawers
      BY ReindexAssumption
  <2> QED
      BY <1>26, <2>1, FullOthers DEF RejudgeDeletes
<1> QED
    BY <1>4, <1>5, <1>6, <1>7, <1>8, <1>9, <1>10, <1>11, <1>12, <1>13, <1>14, <1>15, <1>16, <1>17, <1>18,
       <1>19, <1>20, <1>21, <1>22, <1>23, <1>24, <1>25, <1>26, FullLoad, FullClear, FullInsert, FullCheckpoint
       DEF ReindexNext

\* One step of FullRunIsCurrent: only the end of the loop completes a run.
LEMMA FullStep ==
    RunInv /\ [ReindexNext]_reindexVars => (Completes /\ ~job.mode.stale /\ job.from = 0 => AllCurrent)
<1> SUFFICES ASSUME RunInv, [ReindexNext]_reindexVars, job.pc = "next", job'.pc = "release",
                    ~job.mode.stale, job.from = 0
             PROVE  AllCurrent
    BY DEF Completes
<1> USE DEF dbVars
<1>1. JobShape
    BY DEF RunInv, ReindexInv
<1>2. CASE NoRowsLeft
  <2>1. \A d \in present : ~Awaited(d)
      BY <1>2 DEF NoRowsLeft, Awaited
  <2> QED
      BY <2>1 DEF RunInv, FullInv, RowStages, AllCurrent, Current
<1>3. CASE NextRow
    BY <1>1, <1>3 DEF NextRow, Proceed, JobShape
<1>4. CASE \/ \E mode \in Modes : StartReindex(mode)
           \/ ReadLayout \/ PlanReindex \/ StashVectors \/ RecreateTable \/ LoadRows \/ EmbedRow
           \/ ClearVector \/ InsertRowVector \/ RecordMetadata \/ CheckpointRow
    BY <1>4 DEF StartReindex, ReadLayout, PlanReindex, StashVectors, RecreateTable, LoadRows, EmbedRow, ClearVector,
                InsertRowVector, RecordMetadata, CheckpointRow
<1>5. CASE \/ SnapshotStale \/ PullBatch \/ BatchEmbedded \/ BatchFailed \/ WriteBatch \/ MarkSource
           \/ FinalizeStale \/ ReleaseLease \/ CountVectors \/ DropTable \/ CreateTable \/ CopyBack \/ FinalizeRows
    BY <1>5 DEF SnapshotStale, PullBatch, BatchEmbedded, BatchFailed, WriteBatch, MarkSource, FinalizeStale,
                ReleaseLease, CountVectors, DropTable, CreateTable, CopyBack, FinalizeRows
<1>6. CASE KillReindex
    BY <1>6 DEF KillReindex, ReindexOver, NoJob
<1>7. CASE OtherTakes \/ OtherReleases \/ UNCHANGED reindexVars
    BY <1>1, <1>7 DEF OtherTakes, OtherReleases, reindexVars, JobShape
<1>8. CASE (\E d \in Merged : OtherMerges(d)) \/ \E d \in Deleted : RejudgeDeletes(d)
    BY <1>8 DEF OtherMerges, RejudgeDeletes
<1> QED
    BY <1>2, <1>3, <1>4, <1>5, <1>6, <1>7, <1>8 DEF ReindexNext

\* For any drawers and mishaps: a full run that reports "reindex complete" leaves every
\* drawer with a vector of the configured model and of its present content, whatever
\* was merged or deleted since it read the rows (reindex_command_by_embedder).
THEOREM ReindexFullRunIsCurrent == ReindexSpec => FullRunIsCurrent
<1>1. ReindexInit => RunInv
  <2> SUFFICES ASSUME ReindexInit PROVE FullTyped /\ FullInv
      BY ReindexInvInit DEF RunInv
  <2>1. job.pc = "idle" /\ job.rows = {}
      BY DEF ReindexInit, NoJob
  <2>2. index = [d \in Drawers |-> index[d]] /\ body \in [Drawers -> Nat]
      BY DEF ReindexInit
  <2> QED
      BY <2>1, <2>2 DEF FullTyped, FullInv, RowStages
<1>2. RunInv /\ [ReindexNext]_reindexVars => (Completes /\ ~job.mode.stale /\ job.from = 0 => AllCurrent)
    BY FullStep
<1> QED
    BY <1>1, <1>2, RunInvStep, PTL DEF ReindexSpec, FullRunIsCurrent

=============================================================================
