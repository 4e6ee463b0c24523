------------------------- MODULE WriterLeaseProofs -------------------------
(***************************************************************************)
(* For every set of processes, assignment of modes and namespaces, and     *)
(* lease lifetime: fenced writes commit in generation order.               *)
(***************************************************************************)
EXTENDS WriterLease, TLAPS

RowType == [holder : Procs \cup {None}, gen : Nat, exp : Nat]

\* What a cleanup may leave of the table: every row as it was, or gone.
Shrunk(t) ==
    /\ t \in [Names -> RowType]
    /\ \A n \in Names : t[n] = rows[n] \/ t[n] = NoRow

\* A handle names a generation that was issued; only the rejudge uses the
\* scoped name, and it acquires once in its life.
HandleInv ==
    \A p \in Procs :
        /\ handle[p].gen <= lastGen[handle[p].name]
        /\ Mode[p] # "rejudge" => handle[p].name = SqliteWriter
        /\ Mode[p] = "rejudge" /\ pc[p] \in {"idle", "checked", "conflict", "scoped"}
              => handle[p].gen = 0
        /\ pc[p] \in {"held", "stopping"} => handle[p].gen > 0

\* No generation of a name is in two handles.
UniqueGen ==
    \A p, q \in Procs :
        /\ p # q
        /\ handle[p].name = handle[q].name
        /\ handle[p].gen = handle[q].gen
        => handle[p].gen = 0

RowPositive == \A n \in Names : Held(n) => rows[n].gen > 0

\* The last write of a name has an issued generation, and that generation
\* belongs to the process that wrote.
WriteInv ==
    \A n \in Names :
        /\ lastWrite[n].gen <= lastGen[n]
        /\ \A p \in Procs :
              /\ lastWrite[n].gen > 0
              /\ handle[p].name = n
              /\ handle[p].gen = lastWrite[n].gen
              => lastWrite[n].who = p

IInv == TypeOK /\ RowIsNewestGeneration /\ RowPositive /\ HandleInv /\ UniqueGen /\ WriteInv

----------------------------------------------------------------------------
\* The cleanup that starts every lease transaction only deletes rows.
LEMMA CleanupShrinks ==
    ASSUME TypeOK, NEW p \in Procs, NEW b \in BOOLEAN
    PROVE  Shrunk(CleanupExpired(p, b))
BY DEF TypeOK, Shrunk, CleanupExpired, NoRow, RowType, Held

\* So does the cleanup of an acquisition, whatever its policy.
LEMMA AcquireCleanupShrinks ==
    ASSUME TypeOK, NEW p \in Procs, NEW n \in Names, NEW policy \in Policies
    PROVE  Shrunk(AfterAcquireCleanup(p, n, policy))
<1> DEFINE t == CleanupExpired(p, policy # "Standard")
<1>1. Shrunk(t)
  BY CleanupShrinks
<1>2. Shrunk(RebindDead(p, n, t))
  <2> HIDE DEF t
  <2> QED BY <1>1 DEF Shrunk, RebindDead, NoRow, RowType, TypeOK
<1> QED BY <1>1, <1>2 DEF AfterAcquireCleanup

\* The initial state satisfies the inductive invariant.
LEMMA InitIInv == Init => IInv
BY ProcsAssumption DEF Init, IInv, TypeOK, RowIsNewestGeneration, RowPositive, HandleInv, UniqueGen,
       WriteInv, NoRow, NoHandle, Held, Names, SqliteWriter, RejudgeWriter

\* Rows that survive a cleanup, renewed or not, keep their generation.
LEMMA SurvivorsAreNewest ==
    ASSUME IInv, NEW t, Shrunk(t), lastGen' = lastGen,
           \A p \in Procs : handle'[p].gen = handle[p].gen /\ handle'[p].name = handle[p].name,
           \A k \in Names : rows'[k].holder = t[k].holder /\ rows'[k].gen = t[k].gen
    PROVE  RowIsNewestGeneration' /\ RowPositive'
<1> SUFFICES ASSUME NEW k \in Names, Held(k)'
             PROVE  /\ rows'[k].gen = lastGen'[k] /\ rows'[k].gen > 0
                    /\ handle'[rows'[k].holder].name = k
                    /\ handle'[rows'[k].holder].gen = rows'[k].gen
  BY DEF RowIsNewestGeneration, RowPositive
<1>1. t[k] = rows[k] /\ Held(k)
  BY DEF Shrunk, Held, NoRow
<1>2. rows[k].holder \in Procs
  BY <1>1 DEF IInv, TypeOK, Held
<1> QED BY <1>1, <1>2 DEF IInv, RowIsNewestGeneration, RowPositive

\* A step that only deletes rows and moves the program counter keeps it.
LEMMA ShrinkPreserves ==
    ASSUME IInv, TypeOK', Shrunk(rows'),
           UNCHANGED <<lastGen, lastWrite>>,
           \A p \in Procs : handle'[p].gen = handle[p].gen /\ handle'[p].name = handle[p].name,
           HandleInv'
    PROVE  IInv'
<1>1. RowIsNewestGeneration' /\ RowPositive'
  BY SurvivorsAreNewest
<1>2. UniqueGen' /\ WriteInv'
  BY DEF IInv, UniqueGen, WriteInv, TypeOK
<1> QED BY <1>1, <1>2 DEF IInv

\* The acquire transaction keeps the invariant: it issues a fresh generation.
LEMMA AcquirePreserves ==
    ASSUME IInv, NEW p \in Procs, NEW n \in Names, NEW policy \in Policies,
           NEW refusedPc \in {"idle", "conflict", "exited"},
           Mode[p] # "rejudge" => n = SqliteWriter,
           Mode[p] = "rejudge" => pc[p] \in {"checked", "scoped"},
           Acquire(p, n, policy, refusedPc)
    PROVE  IInv'
<1> DEFINE t == AfterAcquireCleanup(p, n, policy)
           g == lastGen[n] + 1
<1>1. Shrunk(t)
  BY AcquireCleanupShrinks DEF IInv
<1>a. t[n].holder \in Procs \cup {None} /\ t \in [Names -> RowType]
  BY <1>1 DEF Shrunk, RowType
<1> HIDE DEF t
<1>2. CASE t[n].holder = None
  <2>1. /\ lastGen' = [lastGen EXCEPT ![n] = g]
        /\ rows' = [t EXCEPT ![n] = NewRow(p, g)]
        /\ handle' = [handle EXCEPT ![p] = NewHandle(n, g)]
        /\ active' = [active EXCEPT ![p] = TRUE]
        /\ pc' = [pc EXCEPT ![p] = "held"]
        /\ alive' = [alive EXCEPT ![p] = @ /\ "held" # "exited"]
        /\ UNCHANGED <<now, lastWrite>>
    BY <1>2 DEF Acquire, Exits, t
  <2> USE DEF NewRow, NewHandle
  <2>2. TypeOK'
    BY <2>1, <1>a, BoundsAssumption DEF IInv, TypeOK, RowType
  <2>3. HandleInv'
    BY <2>1 DEF IInv, TypeOK, HandleInv, Names
  <2>4. RowPositive'
    BY <2>1, <1>1, ProcsAssumption DEF IInv, TypeOK, RowPositive, Held, Shrunk, NoRow
  <2>5. ASSUME NEW k \in Names, k # n, t[k].holder = p
        PROVE  FALSE
    BY <2>5, <1>1, ProcsAssumption
       DEF IInv, TypeOK, RowIsNewestGeneration, RowPositive, HandleInv, Held, Shrunk, NoRow
  <2>6. RowIsNewestGeneration'
    <3> SUFFICES ASSUME NEW k \in Names, Held(k)'
                 PROVE  /\ rows'[k].gen = lastGen'[k]
                        /\ handle'[rows'[k].holder].name = k
                        /\ handle'[rows'[k].holder].gen = rows'[k].gen
      BY DEF RowIsNewestGeneration
    <3>1. CASE k = n
      BY <2>1, <3>1, <1>a DEF IInv, TypeOK
    <3>2. CASE k # n
      <4>1. rows'[k] = t[k] /\ lastGen'[k] = lastGen[k]
        BY <2>1, <3>2, <1>a DEF IInv, TypeOK
      <4>2. t[k] = rows[k] /\ rows[k].holder # p /\ rows[k].holder \in Procs /\ Held(k)
        BY <4>1, <2>5, <3>2, <1>1 DEF Held, Shrunk, NoRow, IInv, TypeOK
      <4>3. handle'[rows[k].holder] = handle[rows[k].holder]
        BY <2>1, <4>2 DEF IInv, TypeOK
      <4> QED BY <4>1, <4>2, <4>3 DEF IInv, RowIsNewestGeneration
    <3> QED BY <3>1, <3>2
  <2>7. UniqueGen'
    BY <2>1 DEF IInv, TypeOK, UniqueGen, HandleInv, Names
  <2>8. WriteInv'
    BY <2>1 DEF IInv, TypeOK, WriteInv, HandleInv
  <2> QED BY <2>2, <2>3, <2>4, <2>6, <2>7, <2>8 DEF IInv
<1>3. CASE t[n].holder # None
  <2>1. /\ rows' = t
        /\ pc' = [pc EXCEPT ![p] = refusedPc]
        /\ alive' = [alive EXCEPT ![p] = @ /\ refusedPc # "exited"]
        /\ UNCHANGED <<now, lastWrite, lastGen, handle, active>>
    BY <1>3 DEF Acquire, Exits, t
  <2>2. TypeOK' /\ HandleInv'
    BY <2>1, <1>a DEF IInv, TypeOK, RowType, HandleInv
  <2>3. Shrunk(rows')
    BY <2>1, <1>1
  <2> QED BY <2>1, <2>2, <2>3, ShrinkPreserves DEF IInv
<1> QED BY <1>2, <1>3

\* Every process step that is not an acquisition keeps the invariant; the
\* restore is the one that puts a row back, under the newest generation.
LEMMA OtherStepPreserves ==
    ASSUME IInv, NEW p \in Procs,
           \/ EnsureNoRejudge(p) \/ RejudgeInspectConflict(p)
           \/ Renew(p) \/ RenewUnconfirmed(p) \/ Release(p) \/ ReleaseFails(p)
           \/ FencedWrite(p) \/ RejudgeLostGlobal(p) \/ RejudgeRestore(p)
    PROVE  IInv'
<1> DEFINE t == CleanupExpired(p, TRUE)
<1>0. Shrunk(t) /\ t \in [Names -> RowType] /\ Shrunk(rows)
  BY CleanupShrinks DEF IInv, TypeOK, Shrunk, RowType
<1>1. CASE EnsureNoRejudge(p)
  <2>1. rows' = t /\ TypeOK' /\ HandleInv'
    BY <1>1, <1>0, ModeAssumption
       DEF EnsureNoRejudge, IInv, TypeOK, HandleInv, Exits, AfterRefusal, RowType
  <2> QED BY <2>1, <1>0, <1>1, ShrinkPreserves DEF EnsureNoRejudge
<1>2. CASE RejudgeInspectConflict(p)
  <2>1. rows' = t /\ TypeOK' /\ HandleInv'
    BY <1>2, <1>0 DEF RejudgeInspectConflict, IInv, TypeOK, HandleInv, Exits, RowType
  <2> QED BY <2>1, <1>0, <1>2, ShrinkPreserves DEF RejudgeInspectConflict
<1>3. CASE Renew(p)
  <2> DEFINE n == handle[p].name
  <2> HIDE DEF t
  <2>0. n \in Names /\ lastGen' = lastGen /\ lastWrite' = lastWrite /\ pc[p] = "held"
    BY <1>3 DEF Renew, IInv, TypeOK
  <2>1. \/ rows' = t /\ handle' = handle
        \/ /\ OwnsRow(p, t)
           /\ rows' = [t EXCEPT ![n] = NewRow(p, handle[p].gen)]
           /\ handle' = [handle EXCEPT ![p] = NewHandle(n, handle[p].gen)]
    BY <1>3 DEF Renew, FenceOpen, t
  <2>2. TypeOK'
    <3>1. rows' \in [Names -> RowType]
      <4>1. NewRow(p, handle[p].gen) \in RowType
        BY BoundsAssumption DEF IInv, TypeOK, RowType, NewRow
      <4> QED BY <4>1, <1>0, <2>0, <2>1
    <3>2. handle' \in [Procs -> [name : Names, gen : Nat, exp : Nat]]
      BY <2>0, <2>1, BoundsAssumption, SMTT(60) DEF IInv, TypeOK, NewHandle
    <3>3. /\ active' \in [Procs -> BOOLEAN]
          /\ pc' = pc \/ pc' = [pc EXCEPT ![p] = AfterRenewalRefused(p)]
          /\ UNCHANGED <<now, alive>>
      BY <1>3 DEF Renew, IInv, TypeOK, FenceOpen, OwnsRow
    <3> QED BY <3>1, <3>2, <3>3, <2>0 DEF IInv, TypeOK, RowType, AfterRenewalRefused
  <2>3. \A q \in Procs : handle'[q].gen = handle[q].gen /\ handle'[q].name = handle[q].name
    BY <2>1 DEF IInv, TypeOK, NewHandle
  <2>4. \A q \in Procs : pc'[q] = pc[q] \/ (q = p /\ pc'[q] \in {"held", "stopping"})
    BY <1>3 DEF Renew, IInv, TypeOK, AfterRenewalRefused
  <2>5. HandleInv'
    BY <2>0, <2>3, <2>4 DEF IInv, TypeOK, HandleInv
  <2>6. \A k \in Names : rows'[k].holder = t[k].holder /\ rows'[k].gen = t[k].gen
    BY <2>1, <2>0, <1>0 DEF RowType, NewRow, OwnsRow
  <2>7. RowIsNewestGeneration' /\ RowPositive'
    BY <2>0, <2>3, <2>6, <1>0, SurvivorsAreNewest
  <2>8. UniqueGen' /\ WriteInv'
    BY <2>0, <2>3 DEF IInv, UniqueGen, WriteInv, TypeOK
  <2> QED BY <2>2, <2>5, <2>7, <2>8 DEF IInv
<1>4. CASE RenewUnconfirmed(p)
  <2>1. TypeOK' /\ HandleInv'
    BY <1>4 DEF RenewUnconfirmed, IInv, TypeOK, HandleInv
  <2> QED BY <2>1, <1>0, <1>4, ShrinkPreserves DEF RenewUnconfirmed
<1>5. CASE Release(p)
  <2>1. rows' \in [Names -> RowType] /\ Shrunk(rows')
    BY <1>5, <1>0 DEF Release, Shrunk, NoRow, RowType, IInv, TypeOK
  <2>2. TypeOK' /\ HandleInv'
    BY <1>5, <2>1 DEF Release, IInv, TypeOK, HandleInv, Exits, RowType
  <2> QED BY <2>1, <2>2, <1>5, ShrinkPreserves DEF Release
<1>6. CASE ReleaseFails(p)
  <2>1. TypeOK' /\ HandleInv'
    BY <1>6 DEF ReleaseFails, IInv, TypeOK, HandleInv, Exits
  <2> QED BY <2>1, <1>0, <1>6, ShrinkPreserves DEF ReleaseFails
<1>7. CASE FencedWrite(p)
  <2> DEFINE n == handle[p].name
  <2>1. /\ rows' = t /\ OwnsRow(p, t) /\ n \in Names
        /\ lastWrite' = [lastWrite EXCEPT ![n] = [who |-> p, gen |-> handle[p].gen]]
        /\ UNCHANGED <<now, lastGen, alive, pc, handle, active>>
    BY <1>7 DEF FencedWrite, FenceOpen, IInv, TypeOK
  <2> HIDE DEF t
  <2>2. TypeOK' /\ HandleInv'
    BY <2>1, <1>0 DEF IInv, TypeOK, HandleInv, RowType
  <2>3. RowIsNewestGeneration' /\ RowPositive'
    BY <2>1, <1>0, SurvivorsAreNewest
  <2>4. UniqueGen'
    BY <2>1 DEF IInv, UniqueGen
  <2>5. WriteInv'
    BY <2>1 DEF IInv, TypeOK, WriteInv, HandleInv, UniqueGen
  <2> QED BY <2>2, <2>3, <2>4, <2>5 DEF IInv
<1>8. CASE RejudgeLostGlobal(p)
  <2>1. rows' = t /\ TypeOK' /\ HandleInv'
    BY <1>8, <1>0 DEF RejudgeLostGlobal, RejudgeLost, IInv, TypeOK, HandleInv, RowType
  <2> QED BY <2>1, <1>0, <1>8, ShrinkPreserves DEF RejudgeLostGlobal
<1>9. CASE RejudgeRestore(p)
  <2> DEFINE n == handle[p].name
             row == NewRow(p, handle[p].gen)
  <2>1. /\ n \in Names /\ pc[p] = "held" /\ UNCHANGED <<now, lastGen, alive, handle, lastWrite>>
        /\ \/ rows' = t
           \/ /\ lastGen[n] = handle[p].gen
              /\ rows' = [t EXCEPT ![n] = row]
    BY <1>9 DEF RejudgeRestore, CanRestore, RejudgeLost, IInv, TypeOK
  <2> HIDE DEF t
  <2>2. TypeOK'
    <3>1. rows' \in [Names -> RowType]
      <4>1. NewRow(p, handle[p].gen) \in RowType
        BY BoundsAssumption DEF IInv, TypeOK, RowType, NewRow
      <4> QED BY <4>1, <1>0, <2>1
    <3>2. /\ active' \in [Procs -> BOOLEAN]
          /\ pc' = pc \/ pc' = [pc EXCEPT ![p] = "stopping"]
      BY <1>9 DEF RejudgeRestore, IInv, TypeOK
    <3> QED BY <3>1, <3>2, <2>1 DEF IInv, TypeOK, RowType
  <2>3. HandleInv'
    BY <1>9, <2>1 DEF RejudgeRestore, IInv, TypeOK, HandleInv
  <2>4. CASE rows' = t
    BY <2>4, <2>1, <2>2, <2>3, <1>0, ShrinkPreserves
  <2>5. CASE lastGen[n] = handle[p].gen /\ rows' = [t EXCEPT ![n] = row]
    <3>1. RowIsNewestGeneration' /\ RowPositive'
      <4>1. ASSUME NEW k \in Names, k # n, Held(k)'
            PROVE  /\ rows'[k].gen = lastGen'[k] /\ rows'[k].gen > 0
                   /\ handle'[rows'[k].holder].name = k
                   /\ handle'[rows'[k].holder].gen = rows'[k].gen
        <5>1. rows'[k] = rows[k] /\ Held(k)
          BY <2>5, <1>0, <4>1 DEF Shrunk, Held, NoRow
        <5> QED BY <5>1, <4>1, <2>1 DEF IInv, RowIsNewestGeneration, RowPositive
      <4>2. rows'[n] = row
        BY <2>5, <2>1, <1>0
      <4>3. handle[p].gen > 0
        BY <2>1 DEF IInv, HandleInv
      <4> QED BY <4>1, <4>2, <4>3, <2>1, <2>5
              DEF RowIsNewestGeneration, RowPositive, NewRow, Held
    <3>2. UniqueGen' /\ WriteInv'
      BY <2>1 DEF IInv, UniqueGen, WriteInv
    <3> QED BY <2>2, <2>3, <3>1, <3>2 DEF IInv
  <2> QED BY <2>1, <2>4, <2>5
<1> QED BY <1>1, <1>2, <1>3, <1>4, <1>5, <1>6, <1>7, <1>8, <1>9

\* The invariant is inductive.
LEMMA NextIInv == IInv /\ [Next]_vars => IInv'
<1> SUFFICES ASSUME IInv, [Next]_vars PROVE IInv'
  OBVIOUS
<1>1. CASE UNCHANGED vars
  BY <1>1 DEF vars, IInv, TypeOK, RowIsNewestGeneration, RowPositive, HandleInv, UniqueGen,
              WriteInv, Held
<1>2. CASE Tick
  <2>1. TypeOK'
    BY <1>2 DEF Tick, IInv, TypeOK
  <2> QED BY <2>1, <1>2 DEF Tick, IInv, RowIsNewestGeneration, RowPositive, HandleInv,
                            UniqueGen, WriteInv, Held
<1>3. ASSUME NEW p \in Procs, Crash(p) PROVE IInv'
  <2>1. TypeOK' /\ HandleInv' /\ Shrunk(rows')
    BY <1>3 DEF Crash, IInv, TypeOK, HandleInv, Shrunk, RowType
  <2> QED BY <2>1, <1>3, ShrinkPreserves DEF Crash
<1>4. ASSUME NEW p \in Procs, ProcStep(p) PROVE IInv'
  <2>1. ASSUME DaemonAcquire(p) \/ McpAcquire(p) \/ CliAcquire(p) PROVE IInv'
    BY <2>1, AcquirePreserves
       DEF DaemonAcquire, McpAcquire, CliAcquire, AfterRefusal, Policies, Names
  <2>2. ASSUME RejudgeAcquire(p) \/ RejudgeAcquireScoped(p) PROVE IInv'
    BY <2>2, AcquirePreserves
       DEF RejudgeAcquire, RejudgeAcquireScoped, AfterRefusal, Policies, Names
  <2> QED BY <1>4, <2>1, <2>2, OtherStepPreserves DEF ProcStep
<1> QED BY <1>1, <1>2, <1>3, <1>4 DEF Next

\* The lease tables and the processes' memory keep their types.
THEOREM LeaseTypeCorrect == Spec => []TypeOK
<1>1. IInv => TypeOK
  BY DEF IInv
<1> QED BY <1>1, InitIInv, NextIInv, PTL DEF Spec

\* No generation is issued twice: a row always carries the newest one, which is
\* the one its holder remembers (acquire, restore and release transactions).
THEOREM LeaseRowIsNewest == Spec => []RowIsNewestGeneration
<1>1. IInv => RowIsNewestGeneration
  BY DEF IInv
<1> QED BY <1>1, InitIInv, NextIInv, PTL DEF Spec

\* What a committed fenced write may do to the record of the last one.
WriteStepOrdered ==
    \A n \in Names : lastWrite'[n] # lastWrite[n] =>
        \/ lastWrite'[n].gen > lastWrite[n].gen
        \/ lastWrite'[n].who = lastWrite[n].who /\ lastWrite'[n].gen = lastWrite[n].gen

\* A step that changes the last write is a fenced write, whose row is newest.
LEMMA WriteOrdered == IInv /\ [Next]_vars => WriteStepOrdered
<1> SUFFICES ASSUME IInv, [Next]_vars PROVE WriteStepOrdered
  OBVIOUS
<1>1. ASSUME NEW p \in Procs, FencedWrite(p) PROVE WriteStepOrdered
  <2> DEFINE n == handle[p].name
             t == CleanupExpired(p, TRUE)
  <2>1. /\ OwnsRow(p, t) /\ n \in Names
        /\ lastWrite' = [lastWrite EXCEPT ![n] = [who |-> p, gen |-> handle[p].gen]]
    BY <1>1 DEF FencedWrite, FenceOpen, IInv, TypeOK
  <2>2. Shrunk(t)
    BY CleanupShrinks DEF IInv
  <2> HIDE DEF t
  <2>3. rows[n].holder = p /\ rows[n].gen = handle[p].gen
    BY <2>1, <2>2, ProcsAssumption DEF OwnsRow, Shrunk, NoRow
  <2>4. handle[p].gen = lastGen[n] /\ handle[p].gen > 0
    BY <2>3, <2>1, ProcsAssumption DEF IInv, RowIsNewestGeneration, RowPositive, Held
  <2>5. \/ lastWrite[n].gen < handle[p].gen
        \/ lastWrite[n].gen = handle[p].gen /\ lastWrite[n].who = p
    BY <2>4, <2>1 DEF IInv, WriteInv, TypeOK
  <2> QED BY <2>1, <2>5 DEF WriteStepOrdered, IInv, TypeOK
<1>2. ASSUME lastWrite' = lastWrite PROVE WriteStepOrdered
  BY <1>2 DEF WriteStepOrdered
<1>3. \/ \E p \in Procs : FencedWrite(p)
      \/ lastWrite' = lastWrite
  BY ZenonT(60) DEF Next, vars, Tick, Crash, ProcStep, DaemonAcquire, McpAcquire, CliAcquire, EnsureNoRejudge,
         RejudgeAcquire, RejudgeInspectConflict, RejudgeAcquireScoped, Acquire, Renew,
         RenewUnconfirmed, Release, ReleaseFails, RejudgeLostGlobal, RejudgeRestore
<1> QED BY <1>1, <1>2, <1>3

\* Fenced writes commit in generation order for any number of processes: a
\* process that lost the lease never commits after its successor did
\* (with_runtime_writer_lease_transaction_until).
THEOREM LeaseWritesInGenerationOrder == Spec => WritesInGenerationOrder
<1>1. IInv /\ [Next]_vars => [WriteStepOrdered]_vars
  BY WriteOrdered
<1> QED BY <1>1, InitIInv, NextIInv, PTL DEF Spec, WritesInGenerationOrder, WriteStepOrdered
----------------------------------------------------------------------------
\* Live holders.

\* All processes see one another in /proc.
OneNamespace == \A p, q \in Procs : Namespace[p] = Namespace[q]

\* What a step may do to the row of a live process that did not move.
LiveHolderStep ==
    \A n \in Names :
        LET h == rows[n].holder
        IN  Removed(n) /\ alive[h] /\ pc'[h] = pc[h] =>
              /\ Expired(rows[n])
              /\ \E c \in Procs : Mode[c] = "cli" /\ pc[c] = "checked" /\ pc'[c] # "checked"

\* The live-preserving cleanup and the rebinding one leave the row of a live
\* process alone, expired or not.
LEMMA LiveRowSurvives ==
    ASSUME IInv, OneNamespace, NEW p \in Procs, NEW n \in Names, Held(n), alive[rows[n].holder]
    PROVE  /\ CleanupExpired(p, TRUE)[n] = rows[n]
           /\ \A k \in Names, policy \in Policies \ {"Standard"} :
                 AfterAcquireCleanup(p, k, policy)[n] = rows[n]
<1>1. rows[n].holder \in Procs /\ rows[n].holder # None
  BY DEF IInv, TypeOK, Held
<1>2. HolderShouldRetain(p, rows[n].holder)
  BY <1>1 DEF OneNamespace, HolderShouldRetain, HolderIsLive, Verifiable
<1>3. CleanupExpired(p, TRUE)[n] = rows[n]
  BY <1>2 DEF CleanupExpired
<1>4. ASSUME NEW k \in Names, NEW policy \in Policies \ {"Standard"}
      PROVE  AfterAcquireCleanup(p, k, policy)[n] = rows[n]
  <2> DEFINE t == CleanupExpired(p, TRUE)
  <2>1. Shrunk(t) /\ t[n] = rows[n]
    BY <1>3, CleanupShrinks DEF IInv
  <2>2. AfterAcquireCleanup(p, k, policy) \in {t, RebindDead(p, k, t)}
    BY DEF AfterAcquireCleanup
  <2> HIDE DEF t
  <2>3. RebindDead(p, k, t)[n] = rows[n]
    BY <1>2, <2>1 DEF RebindDead, Shrunk
  <2> QED BY <2>1, <2>2, <2>3
<1> QED BY <1>3, <1>4

\* An acquisition that finds the name held leaves every surviving row alone.
LEMMA AcquireKeepsTable ==
    ASSUME IInv, NEW p \in Procs, NEW k \in Names, NEW policy \in Policies, NEW refusedPc,
           Acquire(p, k, policy, refusedPc),
           NEW n \in Names, Held(n), AfterAcquireCleanup(p, k, policy)[n] = rows[n]
    PROVE  rows'[n] = rows[n]
<1> DEFINE t == AfterAcquireCleanup(p, k, policy)
<1>1. Shrunk(t) /\ t[n] = rows[n]
  BY AcquireCleanupShrinks DEF IInv
<1>2. \/ rows' = t
      \/ t[k].holder = None /\ rows' = [t EXCEPT ![k] = NewRow(p, lastGen[k] + 1)]
  BY DEF Acquire
<1> HIDE DEF t
<1>3. n = k => t[k].holder # None
  BY <1>1 DEF Held
<1> QED BY <1>1, <1>2, <1>3 DEF Shrunk

\* Only the cleanup of a command's acquisition removes the row of a live holder.
LEMMA LiveHolder == OneNamespace /\ IInv /\ [Next]_vars => LiveHolderStep
<1> SUFFICES ASSUME OneNamespace, IInv, [Next]_vars, NEW n \in Names, Held(n),
                    alive[rows[n].holder], pc'[rows[n].holder] = pc[rows[n].holder],
                    rows'[n].holder # rows[n].holder \/ rows'[n].gen # rows[n].gen
             PROVE  /\ Expired(rows[n])
                    /\ \E c \in Procs : Mode[c] = "cli" /\ pc[c] = "checked" /\ pc'[c] # "checked"
  BY DEF LiveHolderStep, Removed
<1>1. ASSUME rows'[n] = rows[n] PROVE FALSE
  BY <1>1
<1>2. PICK p \in Procs : ProcStep(p)
  BY <1>1 DEF Next, vars, Tick, Crash
<1> DEFINE t == CleanupExpired(p, TRUE)
           h == rows[n].holder
<1>3. /\ t[n] = rows[n] /\ Shrunk(t)
      /\ \A k \in Names, policy \in Policies \ {"Standard"} :
            AfterAcquireCleanup(p, k, policy)[n] = rows[n]
  BY LiveRowSurvives, CleanupShrinks DEF IInv
<1>4. CASE CliAcquire(p)
  <2> DEFINE u == CleanupExpired(p, FALSE)
  <2>1. Acquire(p, SqliteWriter, "Standard", AfterRefusal(p)) /\ Mode[p] = "cli" /\ pc[p] = "checked"
    BY <1>4 DEF CliAcquire
  <2>2. pc'[p] # "checked"
    BY <2>1 DEF Acquire, AfterRefusal, IInv, TypeOK
  <2>3. AfterAcquireCleanup(p, SqliteWriter, "Standard") = u
    BY DEF AfterAcquireCleanup
  <2>4. Expired(rows[n])
    <3>1. SUFFICES ASSUME ~Expired(rows[n]) PROVE FALSE
      OBVIOUS
    <3>2. u[n] = rows[n]
      BY <3>1 DEF CleanupExpired
    <3> QED BY <1>1, <2>1, <2>3, <3>2, AcquireKeepsTable DEF Policies, Names
  <2> QED BY <2>1, <2>2, <2>4
<1>5. CASE DaemonAcquire(p) \/ McpAcquire(p) \/ RejudgeAcquire(p) \/ RejudgeAcquireScoped(p)
  <2>1. \E k \in Names, policy \in Policies \ {"Standard"}, refusedPc \in {"idle", "exited", "conflict"} :
          Acquire(p, k, policy, refusedPc)
    BY <1>5 DEF DaemonAcquire, McpAcquire, RejudgeAcquire, RejudgeAcquireScoped, AfterRefusal,
                Policies, Names
  <2> QED BY <1>1, <1>3, <2>1, AcquireKeepsTable
<1>6. CASE EnsureNoRejudge(p) \/ RejudgeInspectConflict(p) \/ FencedWrite(p) \/ RejudgeLostGlobal(p)
  <2>1. rows' = t
    BY <1>6 DEF EnsureNoRejudge, RejudgeInspectConflict, FencedWrite, RejudgeLostGlobal
  <2> QED BY <1>1, <1>3, <2>1
<1>7. CASE RenewUnconfirmed(p) \/ ReleaseFails(p)
  BY <1>1, <1>7 DEF RenewUnconfirmed, ReleaseFails
<1>8. CASE Renew(p)
  <2>1. \/ rows' = t
        \/ OwnsRow(p, t) /\ rows' = [t EXCEPT ![handle[p].name] = NewRow(p, handle[p].gen)]
    BY <1>8 DEF Renew, FenceOpen
  <2> HIDE DEF t
  <2>2. rows'[n].holder = t[n].holder /\ rows'[n].gen = t[n].gen
    BY <2>1, <1>3 DEF Shrunk, OwnsRow, NewRow
  <2> QED BY <1>3, <2>2
<1>9. CASE Release(p)
  <2>1. OwnsRow(p, rows) /\ handle[p].name = n
    BY <1>1, <1>9 DEF Release, IInv, TypeOK
  <2>2. h = p
    BY <2>1 DEF OwnsRow
  <2>3. pc'[p] # pc[p]
    BY <1>9 DEF Release, IInv, TypeOK
  <2> QED BY <2>2, <2>3
<1>10. CASE RejudgeRestore(p)
  <2>1. \/ rows' = t
        \/ /\ OwnsRow(p, t) \/ t[handle[p].name].holder = None
           /\ ~OwnsRow(p, t)
           /\ rows' = [t EXCEPT ![handle[p].name] = NewRow(p, handle[p].gen)]
    BY <1>10 DEF RejudgeRestore, CanRestore
  <2> HIDE DEF t
  <2>2. rows'[n] = t[n]
    BY <2>1, <1>3 DEF Shrunk, Held
  <2> QED BY <1>1, <1>3, <2>2
<1> QED BY <1>2, <1>4, <1>5, <1>6, <1>7, <1>8, <1>9, <1>10 DEF ProcStep

\* Where processes can see one another, a process that is alive and keeps its
\* guard loses its row only after it expired and only to a command: daemon start,
\* MCP server, rejudge and every renewal spare it
\* (runtime_writer_lease_cleanup_expired_tx, runtime_writer_lease_holder_should_retain).
THEOREM LeaseLiveHolderKept == OneNamespace => (Spec => LiveHolderKept)
<1> SUFFICES ASSUME OneNamespace PROVE Spec => LiveHolderKept
  OBVIOUS
<1>1. IInv /\ [Next]_vars => [LiveHolderStep]_vars
  BY LiveHolder
<1> QED BY <1>1, InitIInv, NextIInv, PTL DEF Spec, LiveHolderKept, LiveHolderStep
=============================================================================
