------------------------- MODULE PendingQueueProofs -------------------------
(***************************************************************************)
(* Safety of the pending-message queue for every set of messages, workers, *)
(* payloads and bounds.  Most steps only age a row, put it back to pending *)
(* or fail it, and drop claims from memory: Benign collects them, and one  *)
(* lemma shows that such a step keeps the inductive invariant.  Enqueue,   *)
(* the claims, Complete and ArchiveFailed have lemmas of their own.        *)
(***************************************************************************)
EXTENDS PendingQueue, FiniteSetTheorems, TLAPS

ClaimType == [id : Ids \cup {None}, tok : Tokens \cup {None}, pay : Payloads \cup {None}]

\* Only a claimed row carries a token and a worker; only what is absent from a
\* table has no payload there.
RowShape ==
    \A id \in Ids : /\ rows[id].st = "claimed" => rows[id].tok # None /\ rows[id].owner # None
                    /\ rows[id].st # "claimed" => rows[id].tok = None /\ rows[id].owner = None
                    /\ rows[id].st = "none" <=> rows[id].pay = None
                    /\ completions[id].outcome = "none" <=> completions[id].pay = None

\* A token in memory that is also in the table belongs to the same message,
\* worker and payload on both sides.
TokenInv ==
    \A w \in Workers : \A id \in Ids :
        claims[w].tok # None /\ claims[w].tok = rows[id].tok =>
            claims[w].id = id /\ rows[id].owner = w /\ claims[w].pay = rows[id].pay

IInv == TypeOK /\ RowShape /\ TokenInv /\ NeverInBothTables /\ AckedWorkIsKept

SafeRow(r, s) ==
    /\ s.pay = r.pay
    /\ (s.st = "none") <=> (r.st = "none")
    /\ s.st = "claimed" => r.st = "claimed" /\ s.tok = r.tok /\ s.owner = r.owner
    /\ s.st # "claimed" => s.tok = None /\ s.owner = None

RestTyped ==
    /\ daemon' \in {"running", "draining", "stopped"}
    /\ leaseOk' \in BOOLEAN
    /\ query' \in [id : Ids \cup {None}, known : BOOLEAN, answer : {"none", "found", "missing"}]
    /\ faults' \in Nat

Benign ==
    /\ rows' \in [Ids -> RowType]
    /\ \A id \in Ids : SafeRow(rows[id], rows'[id])
    /\ claims' \in [Workers -> ClaimType]
    /\ \A w \in Workers : claims'[w] = claims[w] \/ claims'[w] = NoClaim
    /\ completions' = completions /\ acked' = acked
    /\ RestTyped

\* Rows built by the constructors are rows.
LEMMA RowConstructors ==
    /\ NoRow \in RowType
    /\ \A pay \in Payloads \cup {None}, born \in Int, due \in Int, retry \in Nat :
          PendingRow(pay, born, due, retry) \in RowType
    /\ \A r \in RowType, w \in Workers, t \in Tokens \cup {None}, beat \in Nat :
          ClaimedRow(r, w, t, beat) \in RowType
    /\ \A r \in RowType, retry \in Nat, class \in {"none", "terminal", "retryable_model"} :
          FailedRow(r, retry, class) \in RowType
BY DEF NoRow, PendingRow, ClaimedRow, FailedRow, RowType

\* An arrangement of row fields the provers use one field at a time.
LEMMA RowFields ==
    ASSUME NEW r \in RowType
    PROVE  /\ r.st \in {"none", "pending", "claimed", "failed"}
           /\ r.pay \in Payloads \cup {None} /\ r.born \in Int /\ r.due \in Int
           /\ r.retry \in Nat /\ r.class \in {"none", "terminal", "retryable_model"}
           /\ r.owner \in Workers \cup {None} /\ r.tok \in Tokens \cup {None}
           /\ r.beat \in Nat
BY DEF RowType

\* The initial tables are empty and nobody holds anything.
LEMMA InitIInv == Init => IInv
<1> SUFFICES ASSUME Init PROVE IInv
    OBVIOUS
<1> USE DEF Init
<1>1. rows \in [Ids -> RowType]
    BY RowConstructors
<1>2. claims \in [Workers -> ClaimType]
    BY DEF ClaimType, NoClaim
<1>3. TypeOK
    BY <1>1, <1>2, BoundsAssumption DEF TypeOK, ClaimType, NoCompletion, NoQuery
<1>4. RowShape /\ NeverInBothTables /\ AckedWorkIsKept
    BY DEF RowShape, NeverInBothTables, AckedWorkIsKept, NoRow, NoCompletion
<1>5. TokenInv
    BY DEF TokenInv, NoRow, NoClaim
<1> QED
    BY <1>3, <1>4, <1>5 DEF IInv

\* A benign step keeps the invariant: it neither loses a message nor lets a
\* token reach a second row.
LEMMA BenignKeepsIInv == IInv /\ Benign => IInv'
<1> SUFFICES ASSUME IInv, Benign PROVE IInv'
    OBVIOUS
<1>1. TypeOK'
    BY DEF IInv, Benign, RestTyped, TypeOK, ClaimType
<1>2. RowShape'
    BY DEF IInv, Benign, RowShape, SafeRow
<1>3. TokenInv'
  <2> SUFFICES ASSUME NEW w \in Workers, NEW id \in Ids,
                      claims'[w].tok # None, claims'[w].tok = rows'[id].tok
               PROVE  claims'[w].id = id /\ rows'[id].owner = w /\ claims'[w].pay = rows'[id].pay
      BY DEF TokenInv
  <2>1. claims'[w] = claims[w]
      BY DEF Benign, NoClaim
  <2>2. rows'[id].tok = rows[id].tok /\ rows'[id].owner = rows[id].owner /\ rows'[id].pay = rows[id].pay
      BY <2>1 DEF Benign, SafeRow
  <2> QED
      BY <2>1, <2>2 DEF IInv, TokenInv
<1>4. NeverInBothTables'
    BY DEF IInv, Benign, NeverInBothTables, SafeRow
<1>5. AckedWorkIsKept'
    BY DEF IInv, Benign, AckedWorkIsKept, SafeRow, Exists, StoredPayload
<1> QED
    BY <1>1, <1>2, <1>3, <1>4, <1>5 DEF IInv

----------------------------------------------------------------------------
\* Row updates that Benign allows.

\* Going back to pending.
LEMMA PendingSafe ==
    ASSUME NEW r \in RowType, r.st # "none", NEW due \in Int, NEW retry \in Nat
    PROVE  /\ PendingRow(r.pay, r.born, due, retry) \in RowType
           /\ SafeRow(r, PendingRow(r.pay, r.born, due, retry))
<1>1. r.pay \in Payloads \cup {None} /\ r.born \in Int
    BY RowFields
<1> QED
    BY <1>1, RowConstructors DEF SafeRow, PendingRow

\* Failing.
LEMMA FailedSafe ==
    ASSUME NEW r \in RowType, r.st # "none", NEW retry \in Nat,
           NEW class \in {"none", "terminal", "retryable_model"}
    PROVE  FailedRow(r, retry, class) \in RowType /\ SafeRow(r, FailedRow(r, retry, class))
BY RowConstructors DEF SafeRow, FailedRow

\* Keeping a row.
LEMMA SameSafe ==
    ASSUME NEW r \in RowType, r.st # "claimed" => r.tok = None /\ r.owner = None
    PROVE  SafeRow(r, r)
BY DEF SafeRow

\* Reclaiming stale claims, with any age.
LEMMA ReclaimSafe ==
    ASSUME IInv, NEW age \in Nat
    PROVE  /\ Reclaimed(rows, age) \in [Ids -> RowType]
           /\ \A id \in Ids : SafeRow(rows[id], Reclaimed(rows, age)[id])
<1>1. ASSUME NEW id \in Ids
      PROVE  Reclaimed(rows, age)[id] \in RowType /\ SafeRow(rows[id], Reclaimed(rows, age)[id])
  <2>1. rows[id] \in RowType
      BY DEF IInv, TypeOK
  <2>2. rows[id].due \in Int /\ rows[id].retry \in Nat
      BY <2>1, RowFields
  <2>3. CASE rows[id].st = "claimed" /\ rows[id].beat > age
      BY <2>1, <2>2, <2>3, PendingSafe DEF Reclaimed
  <2>4. CASE ~(rows[id].st = "claimed" /\ rows[id].beat > age)
      BY <2>1, <2>4, SameSafe DEF Reclaimed, IInv, RowShape
  <2> QED
      BY <2>3, <2>4
<1> QED
    BY <1>1 DEF Reclaimed

\* One row is replaced by a safe one.
LEMMA UpdateSafe ==
    ASSUME IInv, NEW i \in Ids, NEW s \in RowType, SafeRow(rows[i], s),
           rows' = [rows EXCEPT ![i] = s]
    PROVE  rows' \in [Ids -> RowType] /\ \A id \in Ids : SafeRow(rows[id], rows'[id])
<1>1. rows \in [Ids -> RowType]
    BY DEF IInv, TypeOK
<1>2. ASSUME NEW id \in Ids PROVE SafeRow(rows[id], rows'[id])
    BY <1>1, SameSafe DEF IInv, RowShape
<1> QED
    BY <1>1, <1>2

\* Rows that a step leaves alone.
LEMMA KeepSafe ==
    ASSUME IInv, rows' = rows
    PROVE  rows' \in [Ids -> RowType] /\ \A id \in Ids : SafeRow(rows[id], rows'[id])
BY SameSafe DEF IInv, TypeOK, RowShape

\* A worker's memory stays or is emptied.
LEMMA DoneSafe ==
    ASSUME IInv, NEW w \in Workers, Done(w)
    PROVE  /\ claims' \in [Workers -> ClaimType]
           /\ \A v \in Workers : claims'[v] = claims[v] \/ claims'[v] = NoClaim
<1>1. claims \in [Workers -> ClaimType] /\ NoClaim \in ClaimType
    BY DEF IInv, TypeOK, ClaimType, NoClaim
<1> QED
    BY <1>1 DEF Done

\* Claims that a step leaves alone.
LEMMA KeepClaims ==
    ASSUME IInv, claims' = claims
    PROVE  /\ claims' \in [Workers -> ClaimType]
           /\ \A v \in Workers : claims'[v] = claims[v] \/ claims'[v] = NoClaim
BY DEF IInv, TypeOK, ClaimType

\* What a finalizer knows about the row its claim names.
LEMMA HeldRow ==
    ASSUME IInv, NEW w \in Workers, Holding(w), OwnsClaim(w, claims[w].id)
    PROVE  /\ claims[w].id \in Ids
           /\ rows[claims[w].id] \in RowType
           /\ rows[claims[w].id].st = "claimed"
           /\ claims[w].pay = rows[claims[w].id].pay
<1>1. claims[w].id \in Ids /\ rows[claims[w].id].st = "claimed"
      /\ rows[claims[w].id].tok = claims[w].tok
    BY DEF Holding, OwnsClaim
<1>2. claims[w].tok # None
    BY <1>1 DEF IInv, RowShape
<1>3. claims[w].pay = rows[claims[w].id].pay
    BY <1>1, <1>2 DEF IInv, TokenInv
<1> QED
    BY <1>1, <1>3 DEF IInv, TypeOK

\* The retry arithmetic stays within its types.
LEMMA RetryTypes ==
    ASSUME NEW r \in RowType
    PROVE  NextRetry(r) \in Nat /\ RetryDelays(r) \subseteq Int
<1>1. NextRetry(r) \in Nat
    BY RowFields, BoundsAssumption DEF NextRetry
<1>2. BackoffOf(NextRetry(r)) \in Int
    BY BoundsAssumption DEF BackoffOf
<1>3. Hints \subseteq Int
    BY BoundsAssumption
<1> QED
    BY <1>1, <1>2, <1>3 DEF RetryDelays

----------------------------------------------------------------------------
\* The benign actions, one by one.

\* Putting a finalized row back to pending or failing it.
LEMMA FinalizersBenign ==
    ASSUME IInv, NEW w \in Workers,
           FailRetryable(w) \/ FailTerminal(w) \/ ReleaseClaim(w) \/ CancelledClaimReleased(w)
    PROVE  Benign
<1> DEFINE i == claims[w].id
<1>1. /\ i \in Ids /\ rows[i] \in RowType /\ rows[i].st # "none"
    BY HeldRow DEF FailRetryable, FailTerminal, ReleaseClaim, CancelledClaimReleased, MayFinalize
<1>2. /\ rows[i].due \in Int /\ rows[i].retry \in Nat
      /\ NextRetry(rows[i]) \in Nat /\ RetryDelays(rows[i]) \subseteq Int
    BY <1>1, RowFields, RetryTypes
<1>3. \E s \in RowType : SafeRow(rows[i], s) /\ rows' = [rows EXCEPT ![i] = s]
  <2>1. CASE FailRetryable(w)
    <3>1. PICK delay \in RetryDelays(rows[i]) :
             rows' = [rows EXCEPT ![i] = PendingRow(rows[i].pay, rows[i].born, delay, NextRetry(rows[i]))]
        BY <2>1 DEF FailRetryable
    <3> QED
        BY <1>1, <1>2, <3>1, PendingSafe
  <2>2. CASE FailTerminal(w)
      BY <1>1, <1>2, <2>2, FailedSafe DEF FailTerminal
  <2>3. CASE ReleaseClaim(w) \/ CancelledClaimReleased(w)
      BY <1>1, <1>2, <2>3, PendingSafe DEF ReleaseClaim, CancelledClaimReleased, ReleasedRow
  <2> QED
      BY <2>1, <2>2, <2>3
<1>4. rows' \in [Ids -> RowType] /\ \A id \in Ids : SafeRow(rows[id], rows'[id])
    BY <1>1, <1>3, UpdateSafe
<1>5. Done(w)
    BY DEF FailRetryable, FailTerminal, ReleaseClaim, CancelledClaimReleased
<1>6. RestTyped /\ completions' = completions /\ acked' = acked
    BY DEF IInv, TypeOK, RestTyped, FailRetryable, FailTerminal, ReleaseClaim,
           CancelledClaimReleased
<1> QED
    BY <1>4, <1>5, <1>6, DoneSafe DEF Benign

\* Steps that drop claims from memory and leave the tables alone.
LEMMA DropsBenign ==
    ASSUME IInv,
           \/ \E w \in Workers : FinalizeRefused(w) \/ FinalizeFails(w) \/ AbortWorker(w) \/ WorkerCrash(w)
           \/ DaemonCrash
    PROVE  Benign
<1>1. rows' = rows /\ completions' = completions /\ acked' = acked
    BY DEF FinalizeRefused, FinalizeFails, AbortWorker, WorkerCrash, DaemonCrash
<1>2. RestTyped
    BY DEF IInv, TypeOK, RestTyped, FinalizeRefused, FinalizeFails, AbortWorker, WorkerCrash, DaemonCrash
<1>3. /\ claims' \in [Workers -> ClaimType]
      /\ \A v \in Workers : claims'[v] = claims[v] \/ claims'[v] = NoClaim
  <2>1. CASE DaemonCrash
    <3>1. claims \in [Workers -> ClaimType] /\ NoClaim \in ClaimType
        BY DEF IInv, TypeOK, ClaimType, NoClaim
    <3> QED
        BY <2>1, <3>1 DEF DaemonCrash
  <2>2. ASSUME NEW w \in Workers, FinalizeRefused(w) \/ FinalizeFails(w) \/ AbortWorker(w) \/ WorkerCrash(w)
        PROVE  Done(w)
      BY <2>2 DEF FinalizeRefused, FinalizeFails, AbortWorker, WorkerCrash
  <2> QED
      BY <2>1, <2>2, DoneSafe
<1> QED
    BY <1>1, <1>2, <1>3, KeepSafe DEF Benign

\* Steps that change neither table nor memory.
LEMMA QuietBenign ==
    ASSUME IInv,
           \/ \E id \in Queried : StatusFirst(id)
           \/ StatusSecond \/ StatusReturn \/ LeaseLost \/ BeginShutdown
    PROVE  Benign
<1>1. rows' = rows /\ claims' = claims /\ completions' = completions /\ acked' = acked
    BY DEF StatusFirst, StatusSecond, StatusReturn, LeaseLost, BeginShutdown
<1>2. RestTyped
  <2>1. CASE \E id \in Queried : StatusFirst(id)
      BY <2>1, IdsAssumption DEF IInv, TypeOK, RestTyped, StatusFirst
  <2>2. CASE StatusSecond
      BY <2>2 DEF IInv, TypeOK, RestTyped, StatusSecond
  <2>3. CASE StatusReturn
      BY <2>3 DEF IInv, TypeOK, RestTyped, StatusReturn, NoQuery
  <2>4. CASE LeaseLost \/ BeginShutdown
    <3>1. faults' = faults \/ faults' = faults + 1
        BY <2>4 DEF LeaseLost, BeginShutdown
    <3>2. faults' \in Nat
        BY <3>1 DEF IInv, TypeOK
    <3>3. leaseOk' = leaseOk \/ leaseOk' = FALSE
        BY <2>4, Zenon DEF LeaseLost, BeginShutdown
    <3>4. leaseOk' \in BOOLEAN
        BY <3>3, Zenon DEF IInv, TypeOK
    <3>5. daemon' \in {"running", "draining", "stopped"} /\ query' = query
        BY <2>4 DEF LeaseLost, BeginShutdown, IInv, TypeOK
    <3> QED
        BY <3>2, <3>4, <3>5 DEF IInv, TypeOK, RestTyped
  <2> QED
      BY <2>1, <2>2, <2>3, <2>4
<1> QED
    BY <1>1, <1>2, KeepSafe, KeepClaims DEF Benign

\* A heartbeat rewrites a claimed row with the token and worker it has.
LEMMA HeartbeatBenign ==
    ASSUME IInv, NEW w \in Workers, RefreshHeartbeat(w)
    PROVE  Benign
<1> DEFINE i == claims[w].id
           s == ClaimedRow(rows[i], w, rows[i].tok, 0)
<1>1. /\ i \in Ids /\ rows[i].st = "claimed" /\ rows[i].owner = w
      /\ rows' = [rows EXCEPT ![i] = s]
    BY DEF RefreshHeartbeat, Holding, HeartbeatMatches
<1>2. rows[i] \in RowType
    BY <1>1 DEF IInv, TypeOK
<1>3. s \in RowType
    BY <1>2, RowConstructors, RowFields
<1>4. SafeRow(rows[i], s)
    BY <1>1 DEF SafeRow, ClaimedRow
<1>5. rows' \in [Ids -> RowType] /\ \A id \in Ids : SafeRow(rows[id], rows'[id])
    BY <1>1, <1>3, <1>4, UpdateSafe
<1>6. claims' = claims /\ RestTyped /\ completions' = completions /\ acked' = acked
    BY DEF IInv, TypeOK, RestTyped, RefreshHeartbeat
<1> QED
    BY <1>5, <1>6, KeepClaims DEF Benign

\* The two reclaims outside a claim.
LEMMA ReclaimsBenign ==
    ASSUME IInv, StartupReclaim \/ ShutdownReclaim
    PROVE  Benign
<1>1. rows' = Reclaimed(rows, StartupTtl) \/ rows' = Reclaimed(rows, 0)
    BY DEF StartupReclaim, ShutdownReclaim
<1>2. rows' \in [Ids -> RowType] /\ \A id \in Ids : SafeRow(rows[id], rows'[id])
    BY <1>1, ReclaimSafe, BoundsAssumption
<1>3. claims' = claims /\ RestTyped /\ completions' = completions /\ acked' = acked
    BY DEF IInv, TypeOK, RestTyped, StartupReclaim, ShutdownReclaim
<1> QED
    BY <1>2, <1>3, KeepClaims DEF Benign

\* Failing a message by its id alone.
LEMMA MarkModelBenign ==
    ASSUME IInv, NEW i \in Ids, MarkModelTaskFailed(i)
    PROVE  Benign
<1>1. rows[i] \in RowType /\ rows[i].st # "none"
    BY DEF IInv, TypeOK, MarkModelTaskFailed
<1>2. rows' \in [Ids -> RowType] /\ \A id \in Ids : SafeRow(rows[id], rows'[id])
    BY <1>1, FailedSafe, UpdateSafe DEF MarkModelTaskFailed
<1>3. claims' = claims /\ RestTyped /\ completions' = completions /\ acked' = acked
    BY DEF IInv, TypeOK, RestTyped, MarkModelTaskFailed
<1> QED
    BY <1>2, <1>3, KeepClaims DEF Benign

\* Requeueing any set of failed rows.
LEMMA RequeueSafe ==
    ASSUME IInv, NEW A \in SUBSET Ids, \A id \in A : rows[id].st = "failed", RequeueRows(A)
    PROVE  rows' \in [Ids -> RowType] /\ \A id \in Ids : SafeRow(rows[id], rows'[id])
<1>1. ASSUME NEW id \in Ids
      PROVE  rows'[id] \in RowType /\ SafeRow(rows[id], rows'[id])
  <2>1. rows[id] \in RowType
      BY DEF IInv, TypeOK
  <2>2. rows[id].born \in Int
      BY <2>1, RowFields
  <2>3. CASE id \in A
      BY <2>1, <2>2, <2>3, PendingSafe DEF RequeueRows
  <2>4. CASE id \notin A
      BY <2>1, <2>4, SameSafe DEF RequeueRows, IInv, RowShape
  <2> QED
      BY <2>3, <2>4
<1> QED
    BY <1>1 DEF RequeueRows

\* Both operator requeues.
LEMMA RequeuesBenign ==
    ASSUME IInv,
           \/ \E family \in {"embedding", "llm"} : AutoRequeue(family)
           \/ \E S \in SUBSET Ids : RetryFailed(S)
    PROVE  Benign
<1>1. \E A \in SUBSET Ids : (\A id \in A : rows[id].st = "failed") /\ RequeueRows(A)
  <2>1. ASSUME NEW family \in {"embedding", "llm"}, AutoRequeue(family)
        PROVE  \E A \in SUBSET Ids : (\A id \in A : rows[id].st = "failed") /\ RequeueRows(A)
      BY <2>1 DEF AutoRequeue
  <2>2. ASSUME NEW S \in SUBSET Ids, RetryFailed(S)
        PROVE  \E A \in SUBSET Ids : (\A id \in A : rows[id].st = "failed") /\ RequeueRows(A)
      BY <2>2 DEF RetryFailed
  <2> QED
      BY <2>1, <2>2
<1>2. rows' \in [Ids -> RowType] /\ \A id \in Ids : SafeRow(rows[id], rows'[id])
    BY <1>1, RequeueSafe
<1>3. claims' = claims /\ RestTyped /\ completions' = completions /\ acked' = acked
    BY DEF IInv, TypeOK, RestTyped, AutoRequeue, RetryFailed
<1> QED
    BY <1>2, <1>3, KeepClaims DEF Benign

\* Daemon start reclaims and puts hook rows back at their original place.
LEMMA StartBenign ==
    ASSUME IInv, DaemonStart
    PROVE  Benign
<1> DEFINE rs == Reclaimed(rows, StartupTtl)
<1>1. /\ rs \in [Ids -> RowType] /\ \A id \in Ids : SafeRow(rows[id], rs[id])
    BY ReclaimSafe, BoundsAssumption
<1> HIDE DEF rs
<1>2. PICK S \in SUBSET {id \in Ids : rs[id].st = "pending" /\ KindOf[id] = "hook" /\ rs[id].retry > 0} :
        rows' = [id \in Ids |-> IF id \in S THEN PendingRow(rs[id].pay, rs[id].born, rs[id].born, 0)
                                            ELSE rs[id]]
    BY DEF DaemonStart, rs
<1>3. ASSUME NEW id \in Ids
      PROVE  rows'[id] \in RowType /\ SafeRow(rows[id], rows'[id])
  <2>1. rs[id] \in RowType /\ SafeRow(rows[id], rs[id])
      BY <1>1
  <2>2. rs[id].born \in Int
      BY <2>1, RowFields
  <2>3. CASE id \in S
    <3>1. /\ PendingRow(rs[id].pay, rs[id].born, rs[id].born, 0) \in RowType
          /\ SafeRow(rs[id], PendingRow(rs[id].pay, rs[id].born, rs[id].born, 0))
        BY <2>1, <2>2, <2>3, PendingSafe
    <3>2. rows'[id] = PendingRow(rs[id].pay, rs[id].born, rs[id].born, 0)
        BY <1>2, <2>3
    <3>3. SafeRow(rs[id], rows'[id]) /\ rows'[id].st = "pending"
        BY <3>1, <3>2 DEF PendingRow
    <3> QED
        BY <2>1, <3>1, <3>2, <3>3 DEF SafeRow
  <2>4. CASE id \notin S
      BY <1>2, <2>1, <2>4
  <2> QED
      BY <2>3, <2>4
<1>4. rows' \in [Ids -> RowType]
    BY <1>2, <1>3
<1>5. RestTyped /\ completions' = completions /\ acked' = acked
    BY DEF IInv, TypeOK, RestTyped, DaemonStart
<1>6. /\ claims' \in [Workers -> ClaimType]
      /\ \A v \in Workers : claims'[v] = claims[v] \/ claims'[v] = NoClaim
  <2>1. claims \in [Workers -> ClaimType] /\ NoClaim \in ClaimType
      BY DEF IInv, TypeOK, ClaimType, NoClaim
  <2> QED
      BY <2>1 DEF DaemonStart
<1> QED
    BY <1>3, <1>4, <1>5, <1>6 DEF Benign

\* The clock moves times and nothing else.
LEMMA TickBenign ==
    ASSUME IInv, Tick
    PROVE  Benign
<1>1. ASSUME NEW id \in Ids
      PROVE  Aged(rows[id]) \in RowType /\ SafeRow(rows[id], Aged(rows[id]))
  <2>1. rows[id] \in RowType
      BY DEF IInv, TypeOK
  <2>2. /\ Earlier(rows[id].born) \in Int /\ Earlier(rows[id].due) \in Int
        /\ Later(rows[id].beat) \in Nat
      BY <2>1, RowFields, BoundsAssumption DEF Earlier, Later
  <2>3. CASE rows[id].st = "none"
      BY <2>1, <2>3, SameSafe DEF Aged, IInv, RowShape
  <2>4. CASE rows[id].st # "none"
    <3>1. Aged(rows[id]) \in RowType
        BY <2>1, <2>2, <2>4, RowFields DEF Aged, RowType
    <3>2. SafeRow(rows[id], Aged(rows[id]))
        BY <2>4 DEF Aged, SafeRow, IInv, RowShape
    <3> QED
        BY <3>1, <3>2
  <2> QED
      BY <2>3, <2>4
<1>2. rows' \in [Ids -> RowType] /\ \A id \in Ids : SafeRow(rows[id], rows'[id])
    BY <1>1 DEF Tick
<1>3. claims' = claims /\ RestTyped /\ completions' = completions /\ acked' = acked
    BY DEF IInv, TypeOK, RestTyped, Tick
<1> QED
    BY <1>2, <1>3, KeepClaims DEF Benign

----------------------------------------------------------------------------
\* The steps that add, take or finish work.

\* An accepted enqueue: the key is new, or names the same payload.
LEMMA EnqueueKeepsIInv ==
    ASSUME IInv, NEW i \in Ids, NEW p \in PayloadsOf[i],
           Enqueue(i, p) \/ EnqueueSpooled(i, p)
    PROVE  IInv'
<1>1. p \in Payloads
    BY DEF Payloads
<1>2. /\ ~KeyConflicts(i, p)
      /\ acked' = [acked EXCEPT ![i] = @ \cup {p}]
      /\ claims' = claims /\ completions' = completions
      /\ daemon' = daemon /\ leaseOk' = leaseOk /\ query' = query /\ faults' = faults
    BY DEF Enqueue, EnqueueSpooled
<1>3. acked' \in [Ids -> SUBSET Payloads]
    BY <1>1, <1>2 DEF IInv, TypeOK
<1>4. CASE Exists(i)
  <2>1. rows' = rows
      BY <1>4 DEF Enqueue, EnqueueSpooled
  <2>2. TypeOK'
      BY <1>2, <1>3, <2>1 DEF IInv, TypeOK
  <2>3. RowShape' /\ TokenInv' /\ NeverInBothTables'
      BY <1>2, <2>1 DEF IInv, RowShape, TokenInv, NeverInBothTables
  <2>4. StoredPayload(i) = p
      BY <1>2, <1>4 DEF KeyConflicts
  <2>5. AckedWorkIsKept'
    <3> SUFFICES ASSUME NEW id \in Ids, acked'[id] # {}
                 PROVE  Exists(id)' /\ acked'[id] = {StoredPayload(id)'}
        BY DEF AckedWorkIsKept
    <3>1. Exists(id)' = Exists(id) /\ StoredPayload(id)' = StoredPayload(id)
        BY <1>2, <2>1 DEF Exists, StoredPayload
    <3>2. CASE id = i
      <4>1. acked'[id] = acked[id] \cup {p}
          BY <1>2, <3>2 DEF IInv, TypeOK
      <4>2. acked[id] = {} \/ acked[id] = {p}
          BY <2>4, <3>2 DEF IInv, AckedWorkIsKept
      <4> QED
          BY <1>4, <2>4, <3>1, <3>2, <4>1, <4>2
    <3>3. CASE id # i
        BY <1>2, <3>1, <3>3 DEF IInv, AckedWorkIsKept, TypeOK
    <3> QED
        BY <3>2, <3>3
  <2> QED
      BY <2>2, <2>3, <2>5 DEF IInv
<1>5. CASE ~Exists(i)
  <2> DEFINE s == PendingRow(p, 0, 0, 0)
  <2>1. rows' = [rows EXCEPT ![i] = s]
      BY <1>5 DEF Enqueue, EnqueueSpooled, Insert
  <2>2. s \in RowType /\ s.st = "pending" /\ s.pay = p /\ s.tok = None /\ s.owner = None
    <3>1. s \in RowType
        BY <1>1, RowConstructors
    <3>2. s.st = "pending" /\ s.pay = p /\ s.tok = None /\ s.owner = None
        BY DEF PendingRow
    <3> QED
        BY <3>1, <3>2
  <2> HIDE DEF s
  <2>3. rows \in [Ids -> RowType]
      BY DEF IInv, TypeOK
  <2>4. TypeOK'
      BY <1>2, <1>3, <2>1, <2>2, <2>3 DEF IInv, TypeOK
  <2>5. RowShape'
    <3>1. p # None
        BY PayloadAssumption
    <3> QED
        BY <1>2, <2>1, <2>2, <2>3, <3>1 DEF IInv, RowShape
  <2>6. TokenInv'
      BY <1>2, <2>1, <2>2, <2>3 DEF IInv, TokenInv
  <2>7. NeverInBothTables'
      BY <1>2, <1>5, <2>1, <2>2, <2>3 DEF IInv, NeverInBothTables, Exists
  <2>8. AckedWorkIsKept'
    <3> SUFFICES ASSUME NEW id \in Ids, acked'[id] # {}
                 PROVE  Exists(id)' /\ acked'[id] = {StoredPayload(id)'}
        BY DEF AckedWorkIsKept
    <3>1. CASE id = i
      <4>1. acked[i] = {}
          BY <1>5 DEF IInv, AckedWorkIsKept
      <4>2. acked'[i] = {p}
          BY <1>2, <4>1 DEF IInv, TypeOK
      <4> QED
          BY <2>1, <2>2, <2>3, <3>1, <4>2 DEF Exists, StoredPayload
    <3>2. CASE id # i
      <4>1. rows'[id] = rows[id] /\ acked'[id] = acked[id] /\ completions'[id] = completions[id]
          BY <1>2, <2>1, <2>3, <3>2 DEF IInv, TypeOK
      <4> QED
          BY <4>1 DEF IInv, AckedWorkIsKept, Exists, StoredPayload
    <3> QED
        BY <3>1, <3>2
  <2> QED
      BY <2>4, <2>5, <2>6, <2>7, <2>8 DEF IInv
<1> QED
    BY <1>4, <1>5

\* Taking a row after the reclaim at the start of a claim: the token is new.
LEMMA TakeRowKeepsIInv ==
    ASSUME IInv, NEW w \in Workers, NEW i \in Ids, Tokens \ TokensInUse # {},
           NEW rs, rs \in [Ids -> RowType], \A id \in Ids : SafeRow(rows[id], rs[id]),
           rs[i].st # "none", TakeRow(rs, w, i),
           UNCHANGED <<completions, daemon, leaseOk, acked, query, faults>>
    PROVE  IInv'
<1> DEFINE t == MintToken(w)
           s == ClaimedRow(rs[i], w, t, 0)
<1>1. t \in Tokens /\ t \notin TokensInUse
    BY DEF MintToken
<1>2. t # None
    BY <1>1, TokenAssumption
<1>3. /\ rows' = [rs EXCEPT ![i] = s]
      /\ claims' = [claims EXCEPT ![w] = [id |-> i, tok |-> t, pay |-> rs[i].pay]]
    BY DEF TakeRow
<1>4. rs[i] \in RowType /\ rs[i].pay \in Payloads \cup {None} /\ rs[i].pay = rows[i].pay
    BY RowFields DEF SafeRow
<1>5. s \in RowType
    BY <1>1, <1>4, RowConstructors
<1>6. s.st = "claimed" /\ s.tok = t /\ s.owner = w /\ s.pay = rs[i].pay
    BY DEF ClaimedRow
<1>7. ASSUME NEW id \in Ids PROVE rows[id].tok # t
    BY <1>1 DEF TokensInUse
<1>8. ASSUME NEW v \in Workers PROVE claims[v].tok # t
    BY <1>1 DEF TokensInUse
<1> HIDE DEF s, t
<1>9. rows' \in [Ids -> RowType]
    BY <1>3, <1>5
<1>10. claims' \in [Workers -> ClaimType]
  <2>1. [id |-> i, tok |-> t, pay |-> rs[i].pay] \in ClaimType
      BY <1>1, <1>4 DEF ClaimType
  <2>2. claims \in [Workers -> ClaimType]
      BY DEF IInv, TypeOK, ClaimType
  <2> QED
      BY <1>3, <2>1, <2>2
<1>11. TypeOK'
    BY <1>9, <1>10 DEF IInv, TypeOK, ClaimType
<1>12. RowShape'
  <2> SUFFICES ASSUME NEW id \in Ids
               PROVE  /\ rows'[id].st = "claimed" => rows'[id].tok # None /\ rows'[id].owner # None
                      /\ rows'[id].st # "claimed" => rows'[id].tok = None /\ rows'[id].owner = None
                      /\ rows'[id].st = "none" <=> rows'[id].pay = None
      BY DEF RowShape, IInv
  <2>1. CASE id = i
    <3>1. w # None /\ rs[i].pay # None
        BY <1>4, WorkerAssumption DEF IInv, RowShape, SafeRow
    <3> QED
        BY <1>2, <1>3, <1>6, <2>1, <3>1
  <2>2. CASE id # i
    <3>1. rows'[id] = rs[id]
        BY <1>3, <2>2
    <3> QED
        BY <3>1 DEF SafeRow, IInv, RowShape
  <2> QED
      BY <2>1, <2>2
<1>13. TokenInv'
  <2> SUFFICES ASSUME NEW v \in Workers, NEW id \in Ids,
                      claims'[v].tok # None, claims'[v].tok = rows'[id].tok
               PROVE  claims'[v].id = id /\ rows'[id].owner = v /\ claims'[v].pay = rows'[id].pay
      BY DEF TokenInv
  <2>1. claims \in [Workers -> ClaimType]
      BY DEF IInv, TypeOK, ClaimType
  <2>2. CASE v = w /\ id = i
    <3>1. claims'[v] = [id |-> i, tok |-> t, pay |-> rs[i].pay] /\ rows'[id] = s
        BY <1>3, <2>1, <2>2
    <3> QED
        BY <1>6, <2>2, <3>1
  <2>3. CASE v = w /\ id # i
    <3>1. claims'[v].tok = t /\ rows'[id] = rs[id]
        BY <1>3, <2>1, <2>3
    <3>2. rs[id].tok = rows[id].tok \/ rs[id].tok = None
        BY DEF SafeRow
    <3> QED
        BY <1>2, <1>7, <3>1, <3>2
  <2>4. CASE v # w /\ id = i
    <3>1. claims'[v] = claims[v] /\ rows'[id].tok = t
        BY <1>3, <1>6, <2>1, <2>4
    <3> QED
        BY <1>8, <3>1
  <2>5. CASE v # w /\ id # i
    <3>1. claims'[v] = claims[v] /\ rows'[id] = rs[id]
        BY <1>3, <2>1, <2>5
    <3>2. rs[id].tok = rows[id].tok /\ rs[id].owner = rows[id].owner /\ rs[id].pay = rows[id].pay
        BY <3>1 DEF SafeRow
    <3> QED
        BY <3>1, <3>2 DEF IInv, TokenInv
  <2> QED
      BY <2>2, <2>3, <2>4, <2>5
<1>14. ASSUME NEW id \in Ids
       PROVE  ((rows'[id].st = "none") <=> (rows[id].st = "none")) /\ rows'[id].pay = rows[id].pay
  <2>1. CASE id = i
      BY <1>3, <1>4, <1>6, <2>1 DEF SafeRow
  <2>2. CASE id # i
      BY <1>3, <2>2 DEF SafeRow
  <2> QED
      BY <2>1, <2>2
<1>15. NeverInBothTables'
    BY <1>14 DEF IInv, NeverInBothTables
<1>16. AckedWorkIsKept'
    BY <1>14 DEF IInv, AckedWorkIsKept, Exists, StoredPayload
<1> QED
    BY <1>11, <1>12, <1>13, <1>15, <1>16 DEF IInv

\* What a claim that finds something does: silent claims are put back, and one
\* pending row of the result is taken.
Takes(w, i) ==
    LET rs == Reclaimed(rows, ClaimTtl)
    IN  /\ rs[i].st = "pending" /\ Tokens \ TokensInUse # {}
        /\ TakeRow(rs, w, i)
        /\ UNCHANGED <<completions, daemon, leaseOk, acked, query, faults>>

\* A claim call takes the head of its queue, or only reclaims.
LEMMA ClaimKinds ==
    ASSUME IInv, NEW w \in Workers,
           ClaimNext(w) \/ ClaimByKind(w) \/ \E id \in Ids : ClaimById(w, id)
    PROVE  Benign \/ \E i \in Ids : Takes(w, i)
<1> DEFINE rs == Reclaimed(rows, ClaimTtl)
<1>1. rs \in [Ids -> RowType] /\ \A id \in Ids : SafeRow(rows[id], rs[id])
    BY ReclaimSafe, BoundsAssumption
<1>2. /\ Tokens \ TokensInUse # {}
      /\ UNCHANGED <<completions, daemon, leaseOk, acked, query, faults>>
    BY DEF ClaimNext, ClaimByKind, ClaimById, CanClaim
<1>3. \/ \E id \in Ids : rs[id].st = "pending" /\ TakeRow(rs, w, id)
      \/ rows' = rs /\ claims' = claims
  <2>1. ASSUME NEW kind, NEW id \in HeadOf(rs, kind) PROVE id \in Ids /\ rs[id].st = "pending"
      BY DEF HeadOf, Due
  <2>2. CASE ClaimNext(w)
      BY <2>1, <2>2 DEF ClaimNext
  <2>3. CASE ClaimByKind(w)
      BY <2>1, <2>3 DEF ClaimByKind
  <2>4. CASE \E id \in Ids : ClaimById(w, id)
      BY <2>4 DEF ClaimById, Due
  <2> QED
      BY <2>2, <2>3, <2>4
<1> HIDE DEF rs
<1>4. CASE \E id \in Ids : rs[id].st = "pending" /\ TakeRow(rs, w, id)
    BY <1>2, <1>4 DEF Takes, rs
<1>5. CASE rows' = rs /\ claims' = claims
    BY <1>1, <1>2, <1>5, KeepClaims DEF Benign, RestTyped, IInv, TypeOK
<1> QED
    BY <1>3, <1>4, <1>5

\* So a claim that takes a row keeps the invariant.
LEMMA TakesKeepsIInv ==
    ASSUME IInv, NEW w \in Workers, NEW i \in Ids, Takes(w, i)
    PROVE  IInv'
<1> DEFINE rs == Reclaimed(rows, ClaimTtl)
<1>1. rs \in [Ids -> RowType] /\ \A id \in Ids : SafeRow(rows[id], rs[id])
    BY ReclaimSafe, BoundsAssumption
<1>2. /\ rs[i].st # "none" /\ Tokens \ TokensInUse # {} /\ TakeRow(rs, w, i)
      /\ UNCHANGED <<completions, daemon, leaseOk, acked, query, faults>>
    BY DEF Takes
<1> HIDE DEF rs
<1> QED
    BY <1>1, <1>2, TakeRowKeepsIInv

\* Work that leaves the first table arrives in the second one with its payload.
LEMMA MovedKeepsIInv ==
    ASSUME IInv, NEW S \in SUBSET Ids,
           completions' \in [Ids -> [outcome : {"none", "completed", "archived"},
                                    pay : Payloads \cup {None}]],
           rows' \in [Ids -> RowType],
           \A id \in S : /\ rows[id].st # "none" /\ rows'[id] = NoRow
                         /\ completions'[id].outcome # "none"
                         /\ completions'[id].pay = rows[id].pay,
           \A id \in Ids \ S : rows'[id] = rows[id] /\ completions'[id] = completions[id],
           claims' \in [Workers -> ClaimType],
           \A w \in Workers : claims'[w] = claims[w] \/ claims'[w] = NoClaim,
           acked' = acked, RestTyped
    PROVE  IInv'
<1>1. TypeOK'
    BY DEF IInv, TypeOK, RestTyped, ClaimType
<1>2. NoRow.st = "none" /\ NoRow.tok = None /\ NoRow.owner = None /\ NoRow.pay = None
    BY DEF NoRow
<1>3. RowShape'
  <2> SUFFICES ASSUME NEW id \in Ids
               PROVE  /\ rows'[id].st = "claimed" => rows'[id].tok # None /\ rows'[id].owner # None
                      /\ rows'[id].st # "claimed" => rows'[id].tok = None /\ rows'[id].owner = None
                      /\ rows'[id].st = "none" <=> rows'[id].pay = None
                      /\ completions'[id].outcome = "none" <=> completions'[id].pay = None
      BY DEF RowShape
  <2>1. CASE id \in S
      BY <1>2, <2>1 DEF IInv, RowShape
  <2>2. CASE id \notin S
      BY <2>2 DEF IInv, RowShape
  <2> QED
      BY <2>1, <2>2
<1>4. TokenInv'
  <2> SUFFICES ASSUME NEW w \in Workers, NEW id \in Ids,
                      claims'[w].tok # None, claims'[w].tok = rows'[id].tok
               PROVE  claims'[w].id = id /\ rows'[id].owner = w /\ claims'[w].pay = rows'[id].pay
      BY DEF TokenInv
  <2>1. claims'[w] = claims[w]
      BY DEF NoClaim
  <2>2. rows'[id] = rows[id]
      BY <1>2
  <2> QED
      BY <2>1, <2>2 DEF IInv, TokenInv
<1>5. NeverInBothTables'
    BY <1>2 DEF IInv, NeverInBothTables
<1>6. AckedWorkIsKept'
    BY <1>2 DEF IInv, AckedWorkIsKept, Exists, StoredPayload
<1> QED
    BY <1>1, <1>3, <1>4, <1>5, <1>6 DEF IInv

\* A completion moves the one message its worker owns.
LEMMA CompleteMoves ==
    ASSUME IInv, NEW w \in Workers, Complete(w)
    PROVE  /\ IInv'
           /\ \A id \in Ids : completions[id].outcome # "none" => completions'[id] = completions[id]
<1> DEFINE i == claims[w].id
           c == CompletionOf(w)
<1>1. /\ i \in Ids /\ rows[i] \in RowType /\ rows[i].st = "claimed"
      /\ claims[w].pay = rows[i].pay
    BY HeldRow DEF Complete, MayFinalize
<1>2. completions[i].outcome = "none"
    BY <1>1 DEF IInv, NeverInBothTables
<1>3. c.outcome = "completed" /\ c.pay = rows[i].pay
    BY <1>1, <1>2 DEF CompletionOf
<1>4. c \in [outcome : {"none", "completed", "archived"}, pay : Payloads \cup {None}]
  <2>1. rows[i].pay \in Payloads \cup {None}
      BY <1>1, RowFields
  <2>2. c = [outcome |-> "completed", pay |-> rows[i].pay]
      BY <1>1, <1>2 DEF CompletionOf
  <2> QED
      BY <2>1, <2>2
<1>5. /\ completions' = [completions EXCEPT ![i] = c]
      /\ rows' = [rows EXCEPT ![i] = NoRow] /\ acked' = acked
    BY DEF Complete
<1> HIDE DEF c
<1>6. rows' \in [Ids -> RowType]
    BY <1>5, RowConstructors DEF IInv, TypeOK
<1>7. completions' \in [Ids -> [outcome : {"none", "completed", "archived"},
                               pay : Payloads \cup {None}]]
    BY <1>4, <1>5 DEF IInv, TypeOK
<1>8. Done(w) /\ RestTyped
    BY DEF Complete, RestTyped, IInv, TypeOK
<1>9. /\ rows'[i] = NoRow /\ completions'[i] = c
      /\ \A id \in Ids \ {i} : rows'[id] = rows[id] /\ completions'[id] = completions[id]
    BY <1>1, <1>5 DEF IInv, TypeOK
<1>10. IInv'
  <2>1. /\ claims' \in [Workers -> ClaimType]
        /\ \A v \in Workers : claims'[v] = claims[v] \/ claims'[v] = NoClaim
      BY <1>8, DoneSafe
  <2>2. \A id \in {i} : /\ rows[id].st # "none" /\ rows'[id] = NoRow
                        /\ completions'[id].outcome # "none"
                        /\ completions'[id].pay = rows[id].pay
      BY <1>1, <1>3, <1>9
  <2>3. {i} \in SUBSET Ids
      BY <1>1
  <2> QED
      BY <1>5, <1>6, <1>7, <1>8, <1>9, <2>1, <2>2, <2>3, MovedKeepsIInv
<1> QED
    BY <1>2, <1>9, <1>10

\* An archive moves the failed messages it selects.
LEMMA ArchiveMoves ==
    ASSUME IInv, NEW S \in SUBSET Ids, ArchiveFailed(S)
    PROVE  /\ IInv'
           /\ \A id \in Ids : completions[id].outcome # "none" => completions'[id] = completions[id]
<1>1. /\ \A id \in S : rows[id].st = "failed"
      /\ completions' = [id \in Ids |-> IF id \in S THEN [outcome |-> "archived", pay |-> rows[id].pay]
                                                   ELSE completions[id]]
      /\ rows' = [id \in Ids |-> IF id \in S THEN NoRow ELSE rows[id]]
      /\ claims' = claims /\ acked' = acked
    BY DEF ArchiveFailed
<1>2. RestTyped
    BY DEF ArchiveFailed, RestTyped, IInv, TypeOK
<1>3. rows' \in [Ids -> RowType]
    BY <1>1, RowConstructors DEF IInv, TypeOK
<1>4. completions' \in [Ids -> [outcome : {"none", "completed", "archived"},
                               pay : Payloads \cup {None}]]
  <2>1. \A id \in Ids : rows[id].pay \in Payloads \cup {None}
      BY RowFields DEF IInv, TypeOK
  <2> QED
      BY <1>1, <2>1 DEF IInv, TypeOK
<1>5. \A id \in S : /\ rows[id].st # "none" /\ rows'[id] = NoRow
                    /\ completions'[id].outcome # "none"
                    /\ completions'[id].pay = rows[id].pay
    BY <1>1
<1>6. \A id \in Ids \ S : rows'[id] = rows[id] /\ completions'[id] = completions[id]
    BY <1>1
<1>7. IInv'
    BY <1>1, <1>2, <1>3, <1>4, <1>5, <1>6, KeepClaims, MovedKeepsIInv
<1>8. \A id \in S : completions[id].outcome = "none"
    BY <1>1 DEF IInv, NeverInBothTables
<1> QED
    BY <1>6, <1>7, <1>8

----------------------------------------------------------------------------
\* Every step is benign, accepts work, takes a row, or settles work.
LEMMA StepKinds ==
    ASSUME IInv, [Next]_vars
    PROVE  \/ Benign
           \/ \E i \in Ids : \E p \in PayloadsOf[i] : Enqueue(i, p) \/ EnqueueSpooled(i, p)
           \/ \E w \in Workers, i \in Ids : Takes(w, i)
           \/ \E w \in Workers : Complete(w)
           \/ \E S \in SUBSET Ids : ArchiveFailed(S)
<1> DEFINE Goal == \/ Benign
                   \/ \E i \in Ids : \E p \in PayloadsOf[i] : Enqueue(i, p) \/ EnqueueSpooled(i, p)
                   \/ \E w \in Workers, i \in Ids : Takes(w, i)
                   \/ \E w \in Workers : Complete(w)
                   \/ \E S \in SUBSET Ids : ArchiveFailed(S)
<1> SUFFICES Goal
    OBVIOUS
<1>1. Benign => Goal
    OBVIOUS
<1>2. ASSUME NEW i \in Ids, NEW p \in PayloadsOf[i], Enqueue(i, p) \/ EnqueueSpooled(i, p)
      PROVE Goal
    BY <1>2
<1>3. CASE (\E id \in Queried : StatusFirst(id)) \/ StatusSecond \/ StatusReturn
           \/ LeaseLost \/ BeginShutdown
    BY <1>1, <1>3, QuietBenign
<1>4. ASSUME NEW w \in Workers, WorkerStep(w) PROVE Goal
  <2>1. CASE ClaimNext(w) \/ ClaimByKind(w) \/ \E id \in Ids : ClaimById(w, id)
      BY <2>1, ClaimKinds
  <2>2. CASE Complete(w)
      BY <2>2
  <2>3. CASE FailRetryable(w) \/ FailTerminal(w) \/ ReleaseClaim(w) \/ CancelledClaimReleased(w)
      BY <1>1, <2>3, FinalizersBenign
  <2>4. CASE FinalizeRefused(w) \/ FinalizeFails(w) \/ AbortWorker(w) \/ WorkerCrash(w)
      BY <1>1, <2>4, DropsBenign
  <2>5. CASE RefreshHeartbeat(w)
      BY <1>1, <2>5, HeartbeatBenign
  <2> HIDE DEF Goal
  <2> QED
      BY <1>4, <2>1, <2>2, <2>3, <2>4, <2>5 DEF WorkerStep
<1>5. CASE StartupReclaim \/ ShutdownReclaim
    BY <1>1, <1>5, ReclaimsBenign
<1>6. CASE \E id \in Ids : MarkModelTaskFailed(id)
    BY <1>1, <1>6, MarkModelBenign
<1>7. CASE (\E family \in {"embedding", "llm"} : AutoRequeue(family))
           \/ (\E S \in SUBSET Ids : RetryFailed(S))
    BY <1>1, <1>7, RequeuesBenign
<1>8. ASSUME NEW S \in SUBSET Ids, ArchiveFailed(S) PROVE Goal
    BY <1>8
<1>9. CASE DaemonCrash
    BY <1>1, <1>9, DropsBenign
<1>10. CASE DaemonStart
    BY <1>1, <1>10, StartBenign
<1>11. CASE Tick
    BY <1>1, <1>11, TickBenign
<1>12. CASE UNCHANGED vars
    <2>1. RestTyped /\ rows' = rows /\ claims' = claims /\ completions' = completions /\ acked' = acked
        BY <1>12 DEF vars, RestTyped, IInv, TypeOK
    <2> QED
        BY <1>1, <2>1, KeepSafe, KeepClaims DEF Benign
<1>13. \A id \in Spooled : id \in Ids
    BY IdsAssumption
<1> HIDE DEF Goal
<1> QED
    BY <1>13, <1>2, <1>3, <1>4, <1>5, <1>6, <1>7, <1>8, <1>9, <1>10, <1>11, <1>12 DEF Next

\* Every step keeps the invariant and every recorded completion.
LEMMA NextKeepsIInv ==
    ASSUME IInv, [Next]_vars
    PROVE  /\ IInv'
           /\ \A id \in Ids : completions[id].outcome # "none" => completions'[id] = completions[id]
<1>1. CASE Benign
    BY <1>1, BenignKeepsIInv DEF Benign
<1>2. ASSUME NEW i \in Ids, NEW p \in PayloadsOf[i], Enqueue(i, p) \/ EnqueueSpooled(i, p)
      PROVE  IInv' /\ completions' = completions
    BY <1>2, EnqueueKeepsIInv DEF Enqueue, EnqueueSpooled
<1>3. ASSUME NEW w \in Workers, NEW i \in Ids, Takes(w, i)
      PROVE  IInv' /\ completions' = completions
    BY <1>3, TakesKeepsIInv DEF Takes
<1> QED
    BY StepKinds, <1>1, <1>2, <1>3, CompleteMoves, ArchiveMoves

\* Ownership follows from the correspondence of tokens.
LEMMA IInvOneOwner == IInv => OneOwner
<1> SUFFICES ASSUME IInv, NEW id \in Ids, NEW w \in Workers, OwnsClaim(w, id)
             PROVE  rows[id].owner = w /\ claims[w].id = id
    BY DEF OneOwner
<1>1. claims[w].tok = rows[id].tok /\ claims[w].tok # None
    BY DEF OwnsClaim, IInv, RowShape
<1> QED
    BY <1>1 DEF IInv, TokenInv

\* The inductive invariant holds in every reachable state.
LEMMA QueueInvariant == Spec => []IInv
<1>1. IInv /\ [Next]_vars => IInv'
    BY NextKeepsIInv
<1> QED
    BY InitIInv, <1>1, PTL DEF Spec

\* The queue's state is well typed: rows, completions, claims in memory.
THEOREM QueueTypeCorrect == Spec => []TypeOK
<1>1. IInv => TypeOK
    BY DEF IInv
<1> QED
    BY QueueInvariant, <1>1, PTL

\* Acknowledged work is never lost and never replaced by another payload,
\* through any sequence of claims, crashes, reclaims, failures and archives.
THEOREM QueueKeepsAckedWork == Spec => []AckedWorkIsKept
<1>1. IInv => AckedWorkIsKept
    BY DEF IInv
<1> QED
    BY QueueInvariant, <1>1, PTL

\* Finished work is never queued again (the NOT EXISTS completion clause of the
\* idempotent insert, and the identity check of the ingest enqueue).
THEOREM QueueNeverInBothTables == Spec => []NeverInBothTables
<1>1. IInv => NeverInBothTables
    BY DEF IInv
<1> QED
    BY QueueInvariant, <1>1, PTL

\* At most one worker can finalize a message (the claim_token guard of
\* confirm, mark_failed and release_claim), whoever remembers an old claim.
THEOREM QueueOneOwner == Spec => []OneOwner
BY QueueInvariant, IInvOneOwner, PTL

\* A recorded completion is never rewritten (confirm_in_tx upserts, but it can
\* only run for work that has no completion yet).
THEOREM QueueCompletionIsFinal == Spec => CompletionIsFinal
<1>1. IInv /\ [Next]_vars =>
        [\A id \in Ids : completions[id].outcome # "none" => completions'[id] = completions[id]]_vars
    BY NextKeepsIInv
<1> QED
    BY QueueInvariant, <1>1, PTL DEF Spec, CompletionIsFinal

----------------------------------------------------------------------------
\* Status lookups.

\* A lookup of acknowledged work that missed the row has its completion ahead.
QueryInv ==
    query.known =>
        /\ query.id \in Ids /\ query.answer # "missing"
        /\ query.answer = "none" => completions[query.id].outcome # "none"

\* The second lookup sees a later snapshot, in which the completion still is.
LEMMA NextKeepsQuery == IInv /\ QueryInv /\ [Next]_vars => QueryInv'
<1> SUFFICES ASSUME IInv, QueryInv, [Next]_vars PROVE QueryInv'
    OBVIOUS
<1>1. \A id \in Ids : completions[id].outcome # "none" => completions'[id] = completions[id]
    BY NextKeepsIInv
<1>2. ASSUME NEW id \in Queried, StatusFirst(id) PROVE QueryInv'
  <2>1. id \in Ids
      BY IdsAssumption
  <2>2. acked[id] # {} => rows[id].st # "none" \/ completions[id].outcome # "none"
      BY <2>1 DEF IInv, AckedWorkIsKept, Exists
  <2>3. /\ query' = [id |-> id, known |-> acked[id] # {},
                     answer |-> IF rows[id].st # "none" THEN "found" ELSE "none"]
        /\ completions' = completions
      BY <1>2 DEF StatusFirst, LookupOrder, InTable
  <2> QED
      BY <2>1, <2>2, <2>3 DEF QueryInv
<1>3. CASE StatusSecond
  <2>1. query' = [id |-> query.id, known |-> query.known,
                  answer |-> IF completions[query.id].outcome # "none" THEN "found" ELSE "missing"]
      BY <1>3 DEF StatusSecond, LookupOrder, InTable
  <2>2. query.answer = "none"
      BY <1>3 DEF StatusSecond
  <2> QED
      BY <2>1, <2>2 DEF QueryInv
<1>4. CASE StatusReturn
    BY <1>4 DEF StatusReturn, NoQuery, QueryInv
<1>5. CASE query' = query
    BY <1>1, <1>5, SMTT(60) DEF QueryInv
<1>6. \/ \E id \in Queried : StatusFirst(id)
      \/ StatusSecond \/ StatusReturn \/ query' = query
    BY DEF Next, vars, Enqueue, EnqueueSpooled, WorkerStep, ClaimNext, ClaimByKind, ClaimById, Complete,
           FailRetryable, FailTerminal, ReleaseClaim, FinalizeRefused, FinalizeFails, RefreshHeartbeat, AbortWorker,
           CancelledClaimReleased, WorkerCrash, StartupReclaim, MarkModelTaskFailed, AutoRequeue,
           RetryFailed, ArchiveFailed, LeaseLost, BeginShutdown, ShutdownReclaim, DaemonCrash,
           DaemonStart, Tick
<1> QED
    BY <1>2, <1>3, <1>4, <1>5, <1>6

\* A status call that starts after work was acknowledged never answers "missing",
\* whoever completes or archives it between the two lookups (operation_status).
THEOREM QueueStatusNeverMissing == Spec => []StatusNeverMissing
<1>1. Init => QueryInv
    BY DEF Init, QueryInv, NoQuery
<1>2. QueryInv => StatusNeverMissing
    BY DEF QueryInv, StatusNeverMissing
<1> QED
    BY QueueInvariant, NextKeepsQuery, <1>1, <1>2, PTL DEF Spec

----------------------------------------------------------------------------
\* Claims that are heard of.

\* How the claim of row id may end in one step.
ClaimEndsWell(id) ==
    ClaimEnds(id) =>
        \/ rows[id].beat > StartupTtl
        \/ \E w \in Workers : FinishedBy(w, id)
        \/ Shutdown
        \/ rows'[id].class = "retryable_model"

\* A reclaim takes back silent claims only.
LEMMA ReclaimSparesBeating ==
    ASSUME IInv, NEW age \in Nat, StartupTtl <= age, NEW id \in Ids,
           rows[id].st = "claimed", ~(rows[id].beat > StartupTtl)
    PROVE  Reclaimed(rows, age)[id] = rows[id]
<1>1. rows[id].beat \in Nat
    BY RowFields DEF IInv, TypeOK
<1> QED
    BY <1>1, BoundsAssumption DEF Reclaimed

\* A finalizer ends its own claim and no other.
LEMMA FinalizerEndsOwn ==
    ASSUME IInv, NEW w \in Workers, Holding(w), OwnsClaim(w, claims[w].id), Done(w),
           \A id \in Ids \ {claims[w].id} : rows'[id] = rows[id]
    PROVE  \A id \in Ids : ClaimEndsWell(id)
<1>1. claims'[w] = NoClaim
    BY DEF Done, IInv, TypeOK
<1>2. claims[w].tok = rows[claims[w].id].tok
    BY DEF OwnsClaim
<1> QED
    BY <1>1, <1>2 DEF ClaimEndsWell, ClaimEnds, FinishedBy

\* Every step treats claims that are heard of that way.
LEMMA NextEndsWell == IInv /\ [Next]_vars => \A id \in Ids : ClaimEndsWell(id)
<1> SUFFICES ASSUME IInv, [Next]_vars PROVE \A id \in Ids : ClaimEndsWell(id)
    OBVIOUS
<1>0. rows \in [Ids -> RowType]
    BY DEF IInv, TypeOK
<1>1. ASSUME \A id \in Ids : rows[id].st = "claimed" => rows'[id].tok = rows[id].tok
      PROVE  \A id \in Ids : ClaimEndsWell(id)
    BY <1>1 DEF ClaimEndsWell, ClaimEnds
<1>2. ASSUME NEW i \in Ids, NEW p \in PayloadsOf[i], Enqueue(i, p) \/ EnqueueSpooled(i, p)
      PROVE  \A id \in Ids : ClaimEndsWell(id)
  <2>1. rows' = rows \/ (~Exists(i) /\ rows' = [rows EXCEPT ![i] = PendingRow(p, 0, 0, 0)])
      BY <1>2 DEF Enqueue, EnqueueSpooled, Insert
  <2> QED
      BY <1>0, <1>1, <2>1 DEF Exists
<1>3. CASE rows' = rows
    BY <1>1, <1>3
<1>4. ASSUME NEW w \in Workers, WorkerStep(w) PROVE \A id \in Ids : ClaimEndsWell(id)
  <2>1. CASE ClaimNext(w) \/ ClaimByKind(w) \/ \E id \in Ids : ClaimById(w, id)
    <3> DEFINE rs == Reclaimed(rows, ClaimTtl)
    <3>1. \/ \E i \in Ids : rs[i].st = "pending" /\ TakeRow(rs, w, i)
          \/ rows' = rs
      <4>1. ASSUME NEW kind, NEW id \in HeadOf(rs, kind) PROVE id \in Ids /\ rs[id].st = "pending"
          BY DEF HeadOf, Due
      <4>2. CASE ClaimNext(w)
          BY <4>1, <4>2 DEF ClaimNext
      <4>3. CASE ClaimByKind(w)
          BY <4>1, <4>3 DEF ClaimByKind
      <4>4. CASE \E id \in Ids : ClaimById(w, id)
          BY <4>4 DEF ClaimById, Due
      <4> QED
          BY <2>1, <4>2, <4>3, <4>4
    <3>2. ASSUME NEW id \in Ids, rows[id].st = "claimed", ~(rows[id].beat > StartupTtl)
          PROVE  rows'[id] = rows[id]
      <4>1. rs[id] = rows[id]
          BY <3>2, ReclaimSparesBeating, BoundsAssumption
      <4>2. rs \in [Ids -> RowType]
          BY ReclaimSafe, BoundsAssumption
      <4> HIDE DEF rs
      <4> QED
          BY <3>1, <3>2, <4>1, <4>2 DEF TakeRow
    <3> QED
        BY <3>2 DEF ClaimEndsWell, ClaimEnds
  <2>2. CASE \/ Complete(w) \/ FailRetryable(w) \/ FailTerminal(w) \/ ReleaseClaim(w)
             \/ CancelledClaimReleased(w)
    <3>1. Holding(w) /\ OwnsClaim(w, claims[w].id) /\ Done(w)
        BY <2>2 DEF Complete, FailRetryable, FailTerminal, ReleaseClaim, CancelledClaimReleased,
                    MayFinalize
    <3>2. \E s : rows' = [rows EXCEPT ![claims[w].id] = s]
        BY <2>2 DEF Complete, FailRetryable, FailTerminal, ReleaseClaim, CancelledClaimReleased
    <3> QED
        BY <1>0, <3>1, <3>2, FinalizerEndsOwn
  <2>3. CASE FinalizeRefused(w) \/ FinalizeFails(w) \/ AbortWorker(w) \/ WorkerCrash(w)
      BY <1>3, <2>3 DEF FinalizeRefused, FinalizeFails, AbortWorker, WorkerCrash
  <2>4. CASE RefreshHeartbeat(w)
      BY <1>0, <1>1, <2>4 DEF RefreshHeartbeat, ClaimedRow
  <2> QED
      BY <1>4, <2>1, <2>2, <2>3, <2>4 DEF WorkerStep
<1>5. CASE StartupReclaim
  <2>1. ASSUME NEW id \in Ids, rows[id].st = "claimed", ~(rows[id].beat > StartupTtl)
        PROVE  rows'[id] = rows[id]
      BY <1>5, <2>1, ReclaimSparesBeating, BoundsAssumption DEF StartupReclaim
  <2> QED
      BY <2>1 DEF ClaimEndsWell, ClaimEnds
<1>6. CASE ShutdownReclaim
    BY <1>6 DEF ShutdownReclaim, Shutdown, ClaimEndsWell
<1>7. ASSUME NEW i \in Ids, MarkModelTaskFailed(i) PROVE \A id \in Ids : ClaimEndsWell(id)
    BY <1>0, <1>7 DEF MarkModelTaskFailed, FailedRow, ClaimEndsWell, ClaimEnds
<1>8. CASE (\E family \in {"embedding", "llm"} : AutoRequeue(family))
           \/ (\E S \in SUBSET Ids : RetryFailed(S))
  <2>1. \E A \in SUBSET Ids : (\A id \in A : rows[id].st = "failed") /\ RequeueRows(A)
    <3>1. ASSUME NEW family \in {"embedding", "llm"}, AutoRequeue(family)
          PROVE  \E A \in SUBSET Ids : (\A id \in A : rows[id].st = "failed") /\ RequeueRows(A)
        BY <3>1 DEF AutoRequeue
    <3>2. ASSUME NEW S \in SUBSET Ids, RetryFailed(S)
          PROVE  \E A \in SUBSET Ids : (\A id \in A : rows[id].st = "failed") /\ RequeueRows(A)
        BY <3>2 DEF RetryFailed
    <3> QED
        BY <1>8, <3>1, <3>2
  <2> QED
      BY <1>1, <2>1 DEF RequeueRows
<1>9. ASSUME NEW S \in SUBSET Ids, ArchiveFailed(S) PROVE \A id \in Ids : ClaimEndsWell(id)
    BY <1>1, <1>9 DEF ArchiveFailed
<1>10. CASE DaemonStart
  <2> DEFINE rs == Reclaimed(rows, StartupTtl)
  <2>1. \E S \in SUBSET {id \in Ids : rs[id].st = "pending"} :
           rows' = [id \in Ids |-> IF id \in S THEN PendingRow(rs[id].pay, rs[id].born, rs[id].born, 0)
                                               ELSE rs[id]]
      BY <1>10 DEF DaemonStart
  <2>2. ASSUME NEW id \in Ids, rows[id].st = "claimed", ~(rows[id].beat > StartupTtl)
        PROVE  rows'[id] = rows[id]
    <3>1. rs[id] = rows[id]
        BY <2>2, ReclaimSparesBeating, BoundsAssumption
    <3> HIDE DEF rs
    <3> QED
        BY <2>1, <2>2, <3>1
  <2> QED
      BY <2>2 DEF ClaimEndsWell, ClaimEnds
<1>11. CASE Tick
    BY <1>1, <1>11 DEF Tick, Aged
<1>12. CASE \/ \E id \in Queried : StatusFirst(id)
            \/ StatusSecond \/ StatusReturn \/ LeaseLost \/ BeginShutdown \/ DaemonCrash
            \/ UNCHANGED vars
    BY <1>3, <1>12 DEF StatusFirst, StatusSecond, StatusReturn, LeaseLost, BeginShutdown, DaemonCrash, vars
<1>13. \A id \in Spooled : id \in Ids
    BY IdsAssumption
<1> QED
    BY <1>13, <1>2, <1>4, <1>5, <1>6, <1>7, <1>8, <1>9, <1>10, <1>11, <1>12 DEF Next

\* A claim with a heartbeat within StartupTtl ends by its own worker, by the
\* daemon's shutdown or by a failure recorded for its id, never by somebody who
\* remembers an older claim (claim_token in every finalizer, reclaim_stale_tx).
THEOREM QueueHeartbeatKeepsClaim == Spec => HeartbeatKeepsClaim
<1>1. IInv /\ [Next]_vars => [\A id \in Ids : ClaimEndsWell(id)]_vars
    BY NextEndsWell
<1> QED
    BY QueueInvariant, <1>1, PTL DEF Spec, HeartbeatKeepsClaim, ClaimEndsWell

----------------------------------------------------------------------------
\* The refinement.

\* A row that a benign step rewrites rests, is freed, fails or is reopened.
LEMMA SafeRowMoves ==
    ASSUME IInv, IInv', NEW id \in Ids, SafeRow(rows[id], rows'[id]), completions'[id] = completions[id]
    PROVE  /\ Ledger!Move(id)
           /\ rows'[id].owner \in {rows[id].owner, None}
<1>1. rows[id] \in RowType /\ rows'[id] \in RowType
    BY DEF IInv, TypeOK
<1>2. /\ rows[id].st \in {"none", "pending", "claimed", "failed"}
      /\ rows'[id].st \in {"none", "pending", "claimed", "failed"}
    BY <1>1, RowFields
<1>3. /\ rows[id].st # "claimed" => rows[id].owner = None
      /\ rows'[id].st # "claimed" => rows'[id].owner = None
    BY DEF IInv, RowShape
<1>4. StoredPayload(id)' = StoredPayload(id)
    BY DEF SafeRow, StoredPayload
<1>5. rows'[id].owner \in {rows[id].owner, None}
    BY <1>3 DEF SafeRow
<1>6. CASE rows'[id].st = rows[id].st \/ rows'[id].st = "claimed"
  <2>1. LedgerState(id)' = LedgerState(id)
      BY <1>6 DEF LedgerState, SafeRow
  <2>2. rows'[id].owner = rows[id].owner
      BY <1>3, <1>6 DEF SafeRow
  <2> QED
      BY <1>4, <1>5, <2>1, <2>2 DEF Ledger!Move, Ledger!Rests, Ledger!Goes, Ledger!Keeps
<1>7. CASE rows'[id].st # rows[id].st /\ rows'[id].st # "claimed"
  <2>1. /\ rows[id].st # "none" /\ rows'[id].st \in {"pending", "failed"} /\ rows'[id].owner = None
      BY <1>2, <1>3, <1>7 DEF SafeRow
  <2>2. /\ LedgerState(id) = IF rows[id].st = "failed" THEN "failed" ELSE "open"
        /\ LedgerState(id)' = IF rows'[id].st = "failed" THEN "failed" ELSE "open"
      BY <2>1 DEF LedgerState
  <2> QED
      BY <1>4, <1>5, <1>7, <2>1, <2>2
         DEF Ledger!Move, Ledger!Freed, Ledger!Failed, Ledger!Reopened, Ledger!Goes, Ledger!Keeps,
             Ledger!Nobody
<1> QED
    BY <1>6, <1>7

\* A benign step is a step of the ledger in which nobody gets anything.
LEMMA BenignIsLedgerStep ==
    ASSUME IInv, IInv', Benign
    PROVE  Ledger!LedgerNext
<1>1. \A id \in Ids : Ledger!Move(id) /\ rows'[id].owner \in {rows[id].owner, None}
    BY SafeRowMoves DEF Benign
<1>2. Ledger!OneTaker
    BY <1>1 DEF Ledger!OneTaker
<1> QED
    BY <1>1, <1>2 DEF Ledger!LedgerNext

\* Accepting work.
LEMMA EnqueueIsLedgerStep ==
    ASSUME IInv, IInv', NEW i \in Ids, NEW p \in PayloadsOf[i], Enqueue(i, p) \/ EnqueueSpooled(i, p)
    PROVE  Ledger!LedgerNext
<1>0. rows \in [Ids -> RowType] /\ completions' = completions
    BY DEF IInv, TypeOK, Enqueue, EnqueueSpooled
<1>1. ASSUME NEW id \in Ids, rows'[id] = rows[id]
      PROVE  Ledger!Move(id) /\ rows'[id].owner \in {rows[id].owner, None}
  <2>1. SafeRow(rows[id], rows'[id])
      BY <1>0, <1>1, SameSafe DEF IInv, RowShape
  <2> QED
      BY <1>0, <2>1, SafeRowMoves
<1>2. ASSUME ~Exists(i), rows' = [rows EXCEPT ![i] = PendingRow(p, 0, 0, 0)]
      PROVE  Ledger!Move(i) /\ rows'[i].owner \in {rows[i].owner, None}
  <2>1. rows'[i] = PendingRow(p, 0, 0, 0)
      BY <1>0, <1>2
  <2>2. rows'[i].st = "pending" /\ rows'[i].pay = p /\ rows'[i].owner = None
      BY <2>1 DEF PendingRow
  <2>3. LedgerState(i) = "new" /\ LedgerState(i)' = "open" /\ StoredPayload(i)' = p
      BY <1>2, <2>2 DEF LedgerState, StoredPayload, Exists
  <2>4. p \in Payloads
      BY DEF Payloads
  <2> QED
      BY <2>2, <2>3, <2>4 DEF Ledger!Move, Ledger!Accepted, Ledger!Goes, Ledger!Nobody
<1>3. \/ rows' = rows
      \/ ~Exists(i) /\ rows' = [rows EXCEPT ![i] = PendingRow(p, 0, 0, 0)]
    BY DEF Enqueue, EnqueueSpooled, Insert
<1>4. \A id \in Ids : Ledger!Move(id) /\ rows'[id].owner \in {rows[id].owner, None}
    BY <1>0, <1>1, <1>2, <1>3
<1>5. Ledger!OneTaker
    BY <1>4 DEF Ledger!OneTaker
<1> QED
    BY <1>4, <1>5 DEF Ledger!LedgerNext

\* Handing out one message, after silent claims were put back.
LEMMA TakesIsLedgerStep ==
    ASSUME IInv, IInv', NEW w \in Workers, NEW i \in Ids, Takes(w, i)
    PROVE  Ledger!LedgerNext
<1> DEFINE rs == Reclaimed(rows, ClaimTtl)
           s == ClaimedRow(rs[i], w, MintToken(w), 0)
<1>1. rs \in [Ids -> RowType] /\ \A id \in Ids : SafeRow(rows[id], rs[id])
    BY ReclaimSafe, BoundsAssumption
<1>2. rs[i].st = "pending" /\ rows' = [rs EXCEPT ![i] = s] /\ completions' = completions
    BY DEF Takes, TakeRow
<1>3. s.st = "claimed" /\ s.owner = w /\ s.pay = rs[i].pay
    BY DEF ClaimedRow
<1> HIDE DEF rs, s
<1>4. ASSUME NEW id \in Ids, id # i
      PROVE  Ledger!Move(id) /\ rows'[id].owner \in {rows[id].owner, None}
  <2>1. SafeRow(rows[id], rows'[id])
      BY <1>1, <1>2, <1>4
  <2> QED
      BY <1>2, <2>1, SafeRowMoves
<1>5. Ledger!Move(i)
  <2>1. rows'[i] = s
      BY <1>1, <1>2
  <2>2. rows[i] \in RowType
      BY DEF IInv, TypeOK
  <2>3. rows[i].st # "none" /\ rs[i].pay = rows[i].pay
      BY <1>1, <1>2 DEF SafeRow
  <2>4. LedgerState(i)' = "open" /\ StoredPayload(i)' = StoredPayload(i)
      BY <1>3, <2>1, <2>3 DEF LedgerState, StoredPayload
  <2>5. CASE rows[i].st = "failed"
    <3>1. rs[i] = rows[i]
        BY <2>5 DEF rs, Reclaimed
    <3> QED
        BY <1>2, <2>5, <3>1
  <2>6. CASE rows[i].st # "failed"
    <3>1. LedgerState(i) = "open"
        BY <2>3, <2>6 DEF LedgerState
    <3> QED
        BY <1>3, <2>1, <2>4, <3>1 DEF Ledger!Move, Ledger!Taken, Ledger!Goes, Ledger!Keeps
  <2> QED
      BY <2>5, <2>6
<1>6. Ledger!OneTaker
    BY <1>4 DEF Ledger!OneTaker
<1> QED
    BY <1>4, <1>5, <1>6 DEF Ledger!LedgerNext

\* The work in S is settled: one message by its holder, or a set of failed ones.
Settles(S) ==
    /\ \A id \in Ids \ S : rows'[id] = rows[id] /\ completions'[id] = completions[id]
    /\ \A id \in S : /\ rows'[id] = NoRow /\ completions'[id].pay = rows[id].pay
                     /\ \/ completions'[id].outcome = "completed" /\ rows[id].st = "claimed"
                        \/ completions'[id].outcome = "archived" /\ rows[id].st = "failed"

\* Settling work is a step of the ledger.
LEMMA SettlesIsLedgerStep ==
    ASSUME IInv, IInv', NEW S \in SUBSET Ids, Settles(S)
    PROVE  Ledger!LedgerNext
<1>0. rows \in [Ids -> RowType]
    BY DEF IInv, TypeOK
<1>1. ASSUME NEW id \in Ids \ S
      PROVE  Ledger!Move(id) /\ rows'[id].owner \in {rows[id].owner, None}
  <2>1. SafeRow(rows[id], rows'[id])
      BY <1>0, SameSafe DEF Settles, IInv, RowShape
  <2> QED
      BY <2>1, SafeRowMoves DEF Settles
<1>2. ASSUME NEW id \in S
      PROVE  Ledger!Move(id) /\ rows'[id].owner \in {rows[id].owner, None}
  <2>1. id \in Ids /\ rows'[id].st = "none" /\ rows'[id].owner = None
      BY DEF NoRow, Settles
  <2>2. StoredPayload(id)' = StoredPayload(id)
      BY <2>1 DEF StoredPayload, Settles
  <2>3. CASE completions'[id].outcome = "completed" /\ rows[id].st = "claimed"
    <3>1. rows[id].owner \in Workers
        BY <1>0, <2>1, <2>3, RowFields DEF IInv, RowShape
    <3>2. LedgerState(id) = "open" /\ LedgerState(id)' = "completed"
        BY <2>1, <2>3 DEF LedgerState
    <3> QED
        BY <2>1, <2>2, <3>1, <3>2
           DEF Ledger!Move, Ledger!Completed, Ledger!Goes, Ledger!Keeps, Ledger!Nobody
  <2>4. CASE completions'[id].outcome = "archived" /\ rows[id].st = "failed"
    <3>1. LedgerState(id) = "failed" /\ LedgerState(id)' = "archived"
        BY <2>1, <2>4 DEF LedgerState
    <3> QED
        BY <2>1, <2>2, <3>1 DEF Ledger!Move, Ledger!Archived, Ledger!Goes, Ledger!Keeps, Ledger!Nobody
  <2> QED
      BY <2>3, <2>4 DEF Settles
<1>3. \A id \in Ids : Ledger!Move(id) /\ rows'[id].owner \in {rows[id].owner, None}
    BY <1>1, <1>2
<1>4. Ledger!OneTaker
    BY <1>3 DEF Ledger!OneTaker
<1> QED
    BY <1>3, <1>4 DEF Ledger!LedgerNext

\* A completion settles the message its worker holds.
LEMMA CompleteIsLedgerStep ==
    ASSUME IInv, IInv', NEW w \in Workers, Complete(w)
    PROVE  Ledger!LedgerNext
<1> DEFINE i == claims[w].id
<1>1. i \in Ids /\ rows[i].st = "claimed" /\ claims[w].pay = rows[i].pay
    BY HeldRow DEF Complete, MayFinalize
<1>2. completions[i].outcome = "none"
    BY <1>1 DEF IInv, NeverInBothTables
<1>3. CompletionOf(w) = [outcome |-> "completed", pay |-> rows[i].pay]
    BY <1>1, <1>2 DEF CompletionOf
<1>4. /\ rows'[i] = NoRow /\ completions'[i] = [outcome |-> "completed", pay |-> rows[i].pay]
      /\ \A id \in Ids \ {i} : rows'[id] = rows[id] /\ completions'[id] = completions[id]
    BY <1>1, <1>3 DEF Complete, IInv, TypeOK
<1>5. {i} \in SUBSET Ids /\ Settles({i})
    BY <1>1, <1>4 DEF Settles
<1> HIDE DEF i
<1> QED
    BY <1>5, SettlesIsLedgerStep

\* An archive settles the failed messages it selects.
LEMMA ArchiveIsLedgerStep ==
    ASSUME IInv, IInv', NEW S \in SUBSET Ids, ArchiveFailed(S)
    PROVE  Ledger!LedgerNext
<1>1. /\ \A id \in Ids \ S : rows'[id] = rows[id] /\ completions'[id] = completions[id]
      /\ \A id \in S : /\ rows'[id] = NoRow /\ rows[id].st = "failed"
                       /\ completions'[id].outcome = "archived" /\ completions'[id].pay = rows[id].pay
    BY DEF ArchiveFailed
<1>2. Settles(S)
    BY <1>1 DEF Settles
<1> QED
    BY <1>2, SettlesIsLedgerStep

\* The two tables, with their claims, retries, reclaims and restarts, implement the
\* ledger of accepted work, for any number of messages, workers and processes
\* (every transaction of queue.rs that changes a row or a completion).
THEOREM QueueImplementsLedger == Spec => ImplementsLedger
<1>1. Init => Ledger!LedgerInit
    BY DEF Init, Ledger!LedgerInit, LedgerState, StoredPayload, NoRow, NoCompletion
<1>2. IInv /\ [Next]_vars => Ledger!LedgerNext
  <2> SUFFICES ASSUME IInv, [Next]_vars PROVE Ledger!LedgerNext
      OBVIOUS
  <2>1. IInv'
      BY NextKeepsIInv
  <2> QED
      BY <2>1, StepKinds, BenignIsLedgerStep, EnqueueIsLedgerStep, TakesIsLedgerStep,
         CompleteIsLedgerStep, ArchiveIsLedgerStep
<1>3. IInv /\ [Next]_vars => [Ledger!LedgerNext]_(Ledger!ledgerVars)
    BY <1>2
<1> QED
    BY QueueInvariant, <1>1, <1>3, PTL DEF Spec, ImplementsLedger, Ledger!LedgerSpec

----------------------------------------------------------------------------
\* The byte budget.

\* Nothing of kind ingest comes in through the spool, which charges no budget.
BudgetCharged == \A id \in Spooled : KindOf[id] # "ingest"

LEMMA ByteOf ==
    ASSUME NEW rs, NEW S, NEW x
    PROVE  x \in Bytes(rs, S) <=>
              \E id \in S : KindOf[id] = "ingest" /\ x \in {id} \X (1..SizeOf[rs[id].pay])
BY DEF Bytes

LEMMA BytesOfOne ==
    ASSUME NEW z, NEW n \in Nat
    PROVE  IsFiniteSet({z} \X (1..n)) /\ Cardinality({z} \X (1..n)) = n
<1>1. PICK I : I = 1..n
    OBVIOUS
<1>2. IsFiniteSet(I) /\ Cardinality(I) = n
    BY <1>1, FS_Interval
<1>3. PICK Z : Z = {z}
    OBVIOUS
<1>4. IsFiniteSet(Z) /\ Cardinality(Z) = 1
    BY <1>3, FS_Singleton
<1>5. IsFiniteSet(Z \X I) /\ Cardinality(Z \X I) = 1 * n
    BY <1>2, <1>4, FS_Product
<1> QED
    BY <1>1, <1>3, <1>5

\* Messages have finitely many bytes.
LEMMA BytesFinite ==
    ASSUME NEW rs, NEW S \in SUBSET Ids, \A id \in S : SizeOf[rs[id].pay] \in Nat
    PROVE  IsFiniteSet(Bytes(rs, S)) /\ Cardinality(Bytes(rs, S)) \in Nat
<1> DEFINE R == {o \in S : KindOf[o] = "ingest"}
<1> DEFINE Of(id) == {id} \X (1..SizeOf[rs[id].pay])
<1> DEFINE U == {Of(id) : id \in R}
<1>1. IsFiniteSet(R)
    BY IdsAssumption, FS_Subset
<1>2. [id \in R |-> Of(id)] \in Surjection(R, U)
    BY DEF Surjection
<1>3. \A T \in U : IsFiniteSet(T)
  <2>1. ASSUME NEW id \in R PROVE IsFiniteSet(Of(id))
    <3>1. PICK n \in Nat : n = SizeOf[rs[id].pay]
        OBVIOUS
    <3>2. IsFiniteSet({id} \X (1..n))
        BY BytesOfOne
    <3> QED
        BY <3>1, <3>2
  <2> HIDE DEF Of
  <2> QED
      BY <2>1
<1>4. IsFiniteSet(U)
  <2> HIDE DEF R, U
  <2> QED
      BY <1>1, <1>2, FS_Surjection
<1>5. IsFiniteSet(UNION U)
    BY <1>3, <1>4, FS_UNION
<1>6. IsFiniteSet(Bytes(rs, S))
    BY <1>5 DEF Bytes
<1> QED
    BY <1>6, FS_CardinalityType

\* Rows hold payloads, and payloads have sizes.
LEMMA RowSizes ==
    ASSUME IInv, NEW id \in Ids, rows[id].st # "none" PROVE SizeOf[rows[id].pay] \in Nat
<1>1. rows[id].pay \in Payloads
    BY DEF IInv, TypeOK, RowType, RowShape
<1> QED
    BY <1>1, PayloadAssumption DEF Payloads

LEMMA ActiveFinite ==
    ASSUME IInv
    PROVE  IsFiniteSet(Bytes(rows, ActiveIn(rows))) /\ ActiveBytes(rows) \in Nat
<1>1. ActiveIn(rows) \in SUBSET Ids /\ \A id \in ActiveIn(rows) : SizeOf[rows[id].pay] \in Nat
    BY RowSizes DEF ActiveIn
<1> QED
    BY <1>1, BytesFinite DEF ActiveBytes

\* Bytes that were active, and some more of which there are few enough.
LEMMA BudgetStep ==
    ASSUME IInv, NEW C, IsFiniteSet(C), ActiveBytes(rows) + Cardinality(C) <= MaxActiveBytes,
           \A x \in Bytes(rows', ActiveIn(rows')) : x \in Bytes(rows, ActiveIn(rows)) \cup C
    PROVE  BudgetRespected'
<1>1. PICK B : B = Bytes(rows, ActiveIn(rows))
    OBVIOUS
<1>2. PICK D : D = Bytes(rows', ActiveIn(rows'))
    OBVIOUS
<1>3. IsFiniteSet(B) /\ Cardinality(B) \in Nat /\ ActiveBytes(rows) = Cardinality(B) /\ Cardinality(C) \in Nat
    BY <1>1, ActiveFinite, FS_CardinalityType DEF ActiveBytes
<1>4. /\ IsFiniteSet(B \cup C) /\ Cardinality(B \cup C) \in Nat
      /\ Cardinality(B \cup C) <= Cardinality(B) + Cardinality(C)
  <2>1. IsFiniteSet(B \cap C) /\ Cardinality(B \cap C) \in Nat
      BY <1>3, FS_Intersection, FS_CardinalityType
  <2>2. IsFiniteSet(B \cup C) /\ Cardinality(B \cup C) = Cardinality(B) + Cardinality(C) - Cardinality(B \cap C)
      BY <1>3, FS_Union
  <2>3. Cardinality(B \cup C) \in Nat
      BY <2>2, FS_CardinalityType
  <2> QED
      BY <1>3, <2>1, <2>2, <2>3
<1>5. D \in SUBSET (B \cup C)
    BY <1>1, <1>2
<1>6. Cardinality(D) <= Cardinality(B \cup C) /\ Cardinality(D) \in Nat
    BY <1>4, <1>5, FS_Subset, FS_CardinalityType
<1>7. Cardinality(D) <= MaxActiveBytes
    BY <1>3, <1>4, <1>6, BoundsAssumption
<1> QED
    BY <1>2, <1>7 DEF BudgetRespected, ActiveBytes

\* No ingest message becomes active, and none changes what it holds.
LEMMA BudgetCalm ==
    ASSUME IInv, BudgetRespected,
           \A id \in Ids : KindOf[id] = "ingest" /\ rows'[id].st \in {"pending", "claimed"} =>
              rows[id].st \in {"pending", "claimed"} /\ rows'[id].pay = rows[id].pay
    PROVE  BudgetRespected'
<1>1. ASSUME NEW x \in Bytes(rows', ActiveIn(rows')) PROVE x \in Bytes(rows, ActiveIn(rows)) \cup {}
  <2>1. PICK id \in ActiveIn(rows') : KindOf[id] = "ingest" /\ x \in {id} \X (1..SizeOf[rows'[id].pay])
      BY <1>1, ByteOf
  <2>2. id \in ActiveIn(rows) /\ rows'[id].pay = rows[id].pay
      BY <2>1 DEF ActiveIn
  <2> QED
      BY <2>1, <2>2, ByteOf
<1>2. IsFiniteSet({}) /\ Cardinality({}) = 0
    BY FS_EmptySet
<1>3. ActiveBytes(rows) + Cardinality({}) <= MaxActiveBytes
    BY <1>2, ActiveFinite DEF BudgetRespected
<1> QED
    BY <1>1, <1>2, <1>3, BudgetStep

\* An admission is charged.
LEMMA EnqueueInBudget ==
    ASSUME IInv, BudgetRespected, NEW id \in Ids, NEW p \in PayloadsOf[id], Enqueue(id, p)
    PROVE  BudgetRespected'
<1>0. rows \in [Ids -> RowType]
    BY DEF IInv, TypeOK
<1>1. CASE rows' = rows
    BY <1>1 DEF BudgetRespected, ActiveBytes, ActiveIn, Bytes
<1>2. CASE rows' # rows
  <2>1. rows' = [rows EXCEPT ![id] = PendingRow(p, 0, 0, 0)] /\ (KindOf[id] = "ingest" => FitsBudget(p))
      BY <1>2 DEF Enqueue, Insert
  <2>2. rows'[id].pay = p /\ \A o \in Ids : o # id => rows'[o] = rows[o]
      BY <1>0, <2>1 DEF PendingRow
  <2>3. CASE KindOf[id] # "ingest"
    <3>1. \A o \in Ids : KindOf[o] = "ingest" => rows'[o] = rows[o]
        BY <2>2, <2>3
    <3> QED
        BY <3>1, BudgetCalm
  <2>4. CASE KindOf[id] = "ingest"
    <3>1. PICK n \in Nat : n = SizeOf[p]
        BY PayloadAssumption
    <3>2. PICK C : C = {id} \X (1..n)
        OBVIOUS
    <3>3. IsFiniteSet(C) /\ Cardinality(C) = n
        BY <3>2, BytesOfOne
    <3>4. ActiveBytes(rows) + Cardinality(C) <= MaxActiveBytes
        BY <2>1, <2>4, <3>1, <3>3, ActiveFinite, BoundsAssumption DEF FitsBudget
    <3>5. ASSUME NEW x \in Bytes(rows', ActiveIn(rows')) PROVE x \in Bytes(rows, ActiveIn(rows)) \cup C
      <4>1. PICK o \in ActiveIn(rows') : KindOf[o] = "ingest" /\ x \in {o} \X (1..SizeOf[rows'[o].pay])
          BY <3>5, ByteOf
      <4>2. CASE o = id
          BY <2>2, <3>1, <3>2, <4>1, <4>2
      <4>3. CASE o # id
        <5>1. o \in ActiveIn(rows) /\ rows'[o].pay = rows[o].pay
            BY <2>2, <4>1, <4>3 DEF ActiveIn
        <5> QED
            BY <4>1, <5>1, ByteOf
      <4> QED
          BY <4>2, <4>3
    <3> QED
        BY <3>3, <3>4, <3>5, BudgetStep
  <2> QED
      BY <2>3, <2>4
<1> QED
    BY <1>1, <1>2

\* Failed messages become active again when one of them, z, fits beside the others.
LEMMA RequeueInBudget ==
    ASSUME IInv, BudgetRespected, NEW A \in SUBSET Ids, \A id \in A : rows[id].st = "failed", RequeueRows(A),
           NEW z \in A, KindOf[z] = "ingest", SizeOf[rows[z].pay] > 0, NEW S \in SUBSET A, FitsBeside(z, S),
           \A o \in A : KindOf[o] = "ingest" /\ SizeOf[rows[o].pay] > 0 => o = z \/ o \in S
    PROVE  BudgetRespected'
<1>1. PICK n \in Nat : n = SizeOf[rows[z].pay]
    BY RowSizes
<1>2. PICK C : C = {z} \X (1..n)
    OBVIOUS
<1>3. IsFiniteSet(C) /\ Cardinality(C) = n
    BY <1>2, BytesOfOne
<1>4. PICK E : E = Bytes(rows, S)
    OBVIOUS
<1>5. IsFiniteSet(E) /\ Cardinality(E) \in Nat
  <2>1. \A id \in S : SizeOf[rows[id].pay] \in Nat
      BY RowSizes
  <2> QED
      BY <1>4, <2>1, BytesFinite
<1>6. ActiveBytes(rows) + Cardinality(E) + n <= MaxActiveBytes
  <2>1. n <= RoomBeside(ActiveBytes(rows) + Cardinality(E)) /\ n > 0
      BY <1>1, <1>4 DEF FitsBeside, BytesOf
  <2> QED
      BY <1>5, <2>1, ActiveFinite, BoundsAssumption DEF RoomBeside
<1>7. PICK F : F = E \cup C
    OBVIOUS
<1>8. IsFiniteSet(F) /\ Cardinality(F) \in Nat /\ Cardinality(F) <= Cardinality(E) + n
  <2>1. IsFiniteSet(E \cap C) /\ Cardinality(E \cap C) \in Nat
      BY <1>3, <1>5, FS_Intersection, FS_CardinalityType
  <2>2. IsFiniteSet(F) /\ Cardinality(F) = Cardinality(E) + Cardinality(C) - Cardinality(E \cap C)
      BY <1>3, <1>5, <1>7, FS_Union
  <2>3. Cardinality(F) \in Nat
      BY <2>2, FS_CardinalityType
  <2> QED
      BY <1>3, <1>5, <2>1, <2>2, <2>3
<1>9. ActiveBytes(rows) + Cardinality(F) <= MaxActiveBytes
    BY <1>5, <1>6, <1>8, ActiveFinite, BoundsAssumption
<1>10. ASSUME NEW id \in Ids
       PROVE  rows'[id].pay = rows[id].pay /\ (id \notin A => rows'[id] = rows[id])
    BY DEF RequeueRows, PendingRow
<1>11. ASSUME NEW x \in Bytes(rows', ActiveIn(rows')) PROVE x \in Bytes(rows, ActiveIn(rows)) \cup F
  <2>1. PICK o \in ActiveIn(rows') : KindOf[o] = "ingest" /\ x \in {o} \X (1..SizeOf[rows'[o].pay])
      BY <1>11, ByteOf
  <2>2. o \in Ids /\ rows'[o].pay = rows[o].pay
      BY <1>10 DEF ActiveIn
  <2>3. CASE o \notin A
    <3>1. o \in ActiveIn(rows)
        BY <1>10, <2>2, <2>3 DEF ActiveIn
    <3> QED
        BY <2>1, <2>2, <3>1, ByteOf
  <2>4. CASE o = z
      BY <1>1, <1>2, <1>7, <2>1, <2>2, <2>4
  <2>5. CASE o \in A /\ o # z
    <3>1. SizeOf[rows[o].pay] \in Nat
        BY <2>2, <2>5, RowSizes
    <3>2. SizeOf[rows[o].pay] > 0
        BY <2>1, <2>2, <3>1
    <3>3. o \in S
        BY <2>1, <2>5, <3>2
    <3>4. x \in Bytes(rows, S)
        BY <2>1, <2>2, <3>3, ByteOf
    <3> QED
        BY <1>4, <1>7, <3>4
  <2> QED
      BY <2>3, <2>4, <2>5
<1> QED
    BY <1>8, <1>9, <1>11, BudgetStep

\* Some message has no younger one.
LEMMA Youngest ==
    ASSUME IInv, NEW T \in SUBSET Ids, T # {}
    PROVE  \E z \in T : \A o \in T \ {z} : OlderFailed(o, z)
<1>0. \A i \in T : i \in Nat /\ rows[i].born \in Int
    BY IdsAssumption DEF IInv, TypeOK, RowType
<1> DEFINE After(i) == {o \in T : OlderFailed(i, o)}
<1> DEFINE P == {After(i) : i \in T}
<1>1. IsFiniteSet(T)
    BY IdsAssumption, FS_Subset
<1>2. P \subseteq FiniteSubsetsOf(T) /\ P # {}
  <2>1. \A i \in T : After(i) \in SUBSET T
      OBVIOUS
  <2>2. SUBSET T = FiniteSubsetsOf(T)
      BY <1>1, FS_FiniteSubsetsOfFinite
  <2> HIDE DEF After
  <2> QED
      BY <2>1, <2>2
<1>3. \E m \in P : \A y \in P : ~(<<y, m>> \in StrictSubsetOrdering(T))
  <2>1. IsWellFoundedOn(StrictSubsetOrdering(T), FiniteSubsetsOf(T))
      BY FS_StrictSubsetOrderingWellFounded
  <2> HIDE DEF P
  <2> QED
      BY <1>2, <2>1, WFMin
<1>4. PICK z \in T : \A i \in T : ~(<<After(i), After(z)>> \in StrictSubsetOrdering(T))
  <2> HIDE DEF After
  <2> QED
      BY <1>3
<1>5. ASSUME NEW o \in T \ {z}, ~OlderFailed(o, z) PROVE FALSE
  <2>1. OlderFailed(z, o)
      BY <1>0, <1>5 DEF OlderFailed
  <2>2. After(o) \subseteq After(z)
      BY <1>0, <2>1 DEF OlderFailed
  <2>3. o \in After(z) /\ o \notin After(o)
      BY <1>0, <2>1 DEF OlderFailed
  <2>4. After(o) \in SUBSET T /\ After(z) \in SUBSET T
      OBVIOUS
  <2>5. <<After(o), After(z)>> \in StrictSubsetOrdering(T)
    <3> HIDE DEF After
    <3> QED
        BY <2>2, <2>3, <2>4 DEF StrictSubsetOrdering
  <2> HIDE DEF After
  <2> QED
      BY <1>4, <2>5
<1> QED
    BY <1>5

\* Requeues and retries stop at the budget.
LEMMA RequeuesInBudget ==
    ASSUME IInv, BudgetRespected, NEW A \in SUBSET Ids, \A id \in A : rows[id].st = "failed", RequeueRows(A),
           \/ \A id \in A : FitsBeside(id, {o \in A : OlderFailed(o, id)})
           \/ \A id \in A : FitsBeside(id, A \ {id})
    PROVE  BudgetRespected'
<1> DEFINE T == {id \in A : KindOf[id] = "ingest" /\ SizeOf[rows[id].pay] > 0}
<1>1. CASE T = {}
  <2>1. ASSUME NEW x \in Bytes(rows', ActiveIn(rows')) PROVE x \in Bytes(rows, ActiveIn(rows)) \cup {}
    <3>1. PICK o \in ActiveIn(rows') : KindOf[o] = "ingest" /\ x \in {o} \X (1..SizeOf[rows'[o].pay])
        BY <2>1, ByteOf
    <3>2. o \in Ids /\ rows'[o].pay = rows[o].pay /\ (o \notin A => rows'[o] = rows[o])
        BY DEF ActiveIn, RequeueRows, PendingRow
    <3>3. o \notin A
      <4>1. ASSUME o \in A PROVE FALSE
        <5>1. SizeOf[rows[o].pay] \in Nat
            BY <3>2, <4>1, RowSizes
        <5>2. SizeOf[rows[o].pay] > 0
            BY <3>1, <3>2, <5>1
        <5> QED
            BY <1>1, <3>1, <4>1, <5>2
      <4> QED
          BY <4>1
    <3>4. o \in ActiveIn(rows)
        BY <3>2, <3>3 DEF ActiveIn
    <3> QED
        BY <3>1, <3>2, <3>4, ByteOf
  <2>2. IsFiniteSet({}) /\ Cardinality({}) = 0
      BY FS_EmptySet
  <2>3. ActiveBytes(rows) + Cardinality({}) <= MaxActiveBytes
      BY <2>2, ActiveFinite DEF BudgetRespected
  <2> QED
      BY <2>1, <2>2, <2>3, BudgetStep
<1>2. CASE T # {}
  <2>1. PICK z \in T : \A o \in T \ {z} : OlderFailed(o, z)
      BY <1>2, Youngest
  <2>2. CASE FitsBeside(z, {o \in A : OlderFailed(o, z)})
    <3>1. PICK S \in SUBSET A : S = {o \in A : OlderFailed(o, z)}
        OBVIOUS
    <3>2. \A o \in A : KindOf[o] = "ingest" /\ SizeOf[rows[o].pay] > 0 => o = z \/ o \in S
        BY <2>1, <3>1
    <3> QED
        BY <2>2, <3>1, <3>2, RequeueInBudget
  <2>3. CASE FitsBeside(z, A \ {z})
    <3>1. PICK S \in SUBSET A : S = A \ {z}
        OBVIOUS
    <3>2. \A o \in A : KindOf[o] = "ingest" /\ SizeOf[rows[o].pay] > 0 => o = z \/ o \in S
        BY <3>1
    <3> QED
        BY <2>3, <3>1, <3>2, RequeueInBudget
  <2> QED
      BY <2>2, <2>3
<1> QED
    BY <1>1, <1>2

\* Every other step leaves inactive what is inactive.
Stays(r, s) == s.st \in {"pending", "claimed"} => r.st \in {"pending", "claimed"} /\ s.pay = r.pay

LEMMA ReclaimStays ==
    ASSUME NEW age, NEW id \in Ids PROVE Stays(rows[id], Reclaimed(rows, age)[id])
BY DEF Reclaimed, PendingRow, Stays

LEMMA WorkersStay ==
    ASSUME IInv, NEW w \in Workers, WorkerStep(w), NEW id \in Ids PROVE Stays(rows[id], rows'[id])
<1>0. rows \in [Ids -> RowType]
    BY DEF IInv, TypeOK
<1>1. CASE rows' = rows
    BY <1>1 DEF Stays
<1>2. CASE ClaimNext(w) \/ ClaimByKind(w) \/ \E i \in Ids : ClaimById(w, i)
  <2> DEFINE rs == Reclaimed(rows, ClaimTtl)
  <2>1. rs \in [Ids -> RowType] /\ Stays(rows[id], rs[id])
      BY ReclaimSafe, ReclaimStays, BoundsAssumption
  <2>2. \/ \E i \in Ids : rs[i].st = "pending" /\ TakeRow(rs, w, i)
        \/ rows' = rs
    <3>1. ASSUME NEW kind, NEW i \in HeadOf(rs, kind) PROVE i \in Ids /\ rs[i].st = "pending"
        BY DEF HeadOf, Due
    <3>2. CASE ClaimNext(w)
        BY <3>1, <3>2 DEF ClaimNext
    <3>3. CASE ClaimByKind(w)
        BY <3>1, <3>3 DEF ClaimByKind
    <3>4. CASE \E i \in Ids : ClaimById(w, i)
        BY <3>4 DEF ClaimById, Due
    <3> QED
        BY <1>2, <3>2, <3>3, <3>4
  <2> HIDE DEF rs
  <2>3. CASE rows' = rs
      BY <2>1, <2>3
  <2>4. ASSUME NEW i \in Ids, rs[i].st = "pending", TakeRow(rs, w, i) PROVE Stays(rows[id], rows'[id])
    <3>1. rows' = [rs EXCEPT ![i] = ClaimedRow(rs[i], w, MintToken(w), 0)]
        BY <2>4 DEF TakeRow
    <3> QED
        BY <2>1, <2>4, <3>1 DEF Stays, ClaimedRow
  <2> QED
      BY <2>2, <2>3, <2>4
<1>3. CASE \/ Complete(w) \/ FailRetryable(w) \/ FailTerminal(w) \/ ReleaseClaim(w)
           \/ CancelledClaimReleased(w)
  <2>1. PICK i \in Ids : i = claims[w].id /\ rows[i].st = "claimed"
      BY <1>3 DEF Complete, FailRetryable, FailTerminal, ReleaseClaim, CancelledClaimReleased,
                  MayFinalize, Holding, OwnsClaim
  <2>2. \E s : rows' = [rows EXCEPT ![i] = s] /\ Stays(rows[i], s)
      BY <1>3, <2>1 DEF Complete, FailRetryable, FailTerminal, ReleaseClaim, CancelledClaimReleased,
                        NoRow, PendingRow, FailedRow, ReleasedRow, Stays
  <2> QED
      BY <1>0, <2>2 DEF Stays
<1>4. CASE FinalizeRefused(w) \/ FinalizeFails(w) \/ AbortWorker(w) \/ WorkerCrash(w)
    BY <1>1, <1>4 DEF FinalizeRefused, FinalizeFails, AbortWorker, WorkerCrash
<1>5. CASE RefreshHeartbeat(w)
    BY <1>0, <1>5 DEF RefreshHeartbeat, HeartbeatMatches, ClaimedRow, Stays
<1> QED
    BY <1>2, <1>3, <1>4, <1>5 DEF WorkerStep

LEMMA NextInBudget == IInv /\ BudgetRespected /\ BudgetCharged /\ [Next]_vars => BudgetRespected'
<1> SUFFICES ASSUME IInv, BudgetRespected, BudgetCharged, [Next]_vars PROVE BudgetRespected'
    OBVIOUS
<1>0. rows \in [Ids -> RowType]
    BY DEF IInv, TypeOK
<1>1. ASSUME \A id \in Ids : KindOf[id] = "ingest" => Stays(rows[id], rows'[id]) PROVE BudgetRespected'
    BY <1>1, BudgetCalm DEF Stays
<1>2. ASSUME NEW id \in Spooled, NEW p \in PayloadsOf[id], EnqueueSpooled(id, p) PROVE BudgetRespected'
  <2>1. KindOf[id] # "ingest"
      BY DEF BudgetCharged
  <2>2. \A o \in Ids : o # id => rows'[o] = rows[o]
      BY <1>0, <1>2 DEF EnqueueSpooled, Insert
  <2> QED
      BY <1>1, <2>1, <2>2 DEF Stays
<1>3. ASSUME NEW w \in Workers, WorkerStep(w) PROVE BudgetRespected'
    BY <1>1, <1>3, WorkersStay
<1>4. CASE StartupReclaim \/ ShutdownReclaim
    BY <1>1, <1>4, ReclaimStays DEF StartupReclaim, ShutdownReclaim
<1>5. ASSUME NEW i \in Ids, MarkModelTaskFailed(i) PROVE BudgetRespected'
    BY <1>0, <1>1, <1>5 DEF MarkModelTaskFailed, FailedRow, Stays
<1>6. ASSUME NEW family \in {"embedding", "llm"}, AutoRequeue(family) PROVE BudgetRespected'
  <2>1. PICK A \in SUBSET Ids : /\ \A id \in A : rows[id].st = "failed"
                                /\ \A id \in A : FitsBeside(id, {o \in A : OlderFailed(o, id)})
                                /\ RequeueRows(A)
      BY <1>6 DEF AutoRequeue
  <2> QED
      BY <2>1, RequeuesInBudget
<1>7. ASSUME NEW S \in SUBSET Ids, RetryFailed(S) PROVE BudgetRespected'
  <2>1. PICK A \in SUBSET Ids : /\ \A id \in A : rows[id].st = "failed"
                                /\ \A id \in A : FitsBeside(id, A \ {id})
                                /\ RequeueRows(A)
      BY <1>7 DEF RetryFailed
  <2> QED
      BY <2>1, RequeuesInBudget
<1>8. ASSUME NEW S \in SUBSET Ids, ArchiveFailed(S) PROVE BudgetRespected'
    BY <1>1, <1>8 DEF ArchiveFailed, NoRow, Stays
<1>9. CASE DaemonStart
  <2> DEFINE rs == Reclaimed(rows, StartupTtl)
  <2>1. \E S \in SUBSET {id \in Ids : rs[id].st = "pending"} :
           rows' = [id \in Ids |-> IF id \in S THEN PendingRow(rs[id].pay, rs[id].born, rs[id].born, 0)
                                               ELSE rs[id]]
      BY <1>9 DEF DaemonStart
  <2>2. \A id \in Ids : Stays(rows[id], rs[id])
      BY ReclaimStays
  <2> HIDE DEF rs
  <2>3. \A id \in Ids : Stays(rows[id], rows'[id])
      BY <2>1, <2>2 DEF PendingRow, Stays
  <2> QED
      BY <1>1, <2>3
<1>10. CASE Tick
    BY <1>1, <1>10 DEF Tick, Aged, Stays
<1>11. CASE \/ \E id \in Queried : StatusFirst(id)
            \/ StatusSecond \/ StatusReturn \/ LeaseLost \/ BeginShutdown \/ DaemonCrash
            \/ UNCHANGED vars
  <2>1. rows' = rows
      BY <1>11 DEF StatusFirst, StatusSecond, StatusReturn, LeaseLost, BeginShutdown, DaemonCrash, vars
  <2> QED
      BY <1>1, <2>1 DEF Stays
<1> QED
    BY <1>2, <1>3, <1>4, <1>5, <1>6, <1>7, <1>8, <1>9, <1>10, <1>11, EnqueueInBudget DEF Next

\* Pending and claimed ingest payloads stay within max_ingest_active_bytes, for any
\* messages, sizes and workers, through every mix of admissions, failures, requeues
\* and retries, as long as no ingest message comes in through the spool
\* (enqueue_ingest_with_byte_budget, requeue_failed_model_tasks,
\* retry_failed_messages).
THEOREM QueueBudgetRespected == BudgetCharged => (Spec => []BudgetRespected)
<1> SUFFICES ASSUME BudgetCharged PROVE Spec => []BudgetRespected
    OBVIOUS
<1>1. Init => BudgetRespected
  <2> SUFFICES ASSUME Init PROVE BudgetRespected
      OBVIOUS
  <2>1. ActiveIn(rows) = {}
      BY DEF Init, ActiveIn, NoRow
  <2>2. Bytes(rows, ActiveIn(rows)) = {}
      BY <2>1 DEF Bytes
  <2> QED
      BY <2>2, FS_EmptySet, BoundsAssumption DEF BudgetRespected, ActiveBytes
<1>2. IInv /\ BudgetRespected /\ [Next]_vars => BudgetRespected'
    BY NextInBudget
<1> QED
    BY <1>1, <1>2, QueueInvariant, PTL DEF Spec
=============================================================================
