----------------------- MODULE DaemonAdmissionProofs -----------------------
(***************************************************************************)
(* A daemon start is refused only because of a durable-ingest worker, for  *)
(* every lease lifetime, wait and number of holders.                       *)
(***************************************************************************)
EXTENDS DaemonAdmission, TLAPS

IInv == TypeOK /\ RefusedOnlyByIngestWorker

\* The wait is never zero, and re-arming never shortens it to zero: the
\* deadline is in the future at every look, so it never expires.
LEMMA WaitIsPositive ==
    ASSUME TypeOK, NEW left \in Nat
    PROVE  Rearm(EffectiveWait(left)) \in Nat \ {0}
<1>1. EffectiveWait(left) \in Nat \ {0}
    BY WaitAssumption DEF EffectiveWait
<1> QED
    BY <1>1 DEF Rearm, TypeOK

LEMMA NoRowType == NoRow \in RowType
    BY TtlAssumption DEF RowType, NoRow

LEMMA CleanedType ==
    ASSUME TypeOK
    PROVE  Cleaned(row) \in RowType /\ Cleaned(row).left \in Nat
<1>1. Cleaned(row) \in RowType
    BY NoRowType DEF TypeOK, Cleaned
<1> QED
    BY <1>1, TtlAssumption DEF RowType

LEMMA InductiveInit == Init => IInv
<1> SUFFICES ASSUME Init PROVE IInv
    OBVIOUS
<1>1. PICK mode \in OtherModes, left \in 0..Ttl, alive \in BOOLEAN :
        row \in {NoRow, [mode |-> mode, left |-> left, alive |-> alive]}
    BY DEF Init
<1>2. row \in RowType
    BY <1>1, NoRowType DEF RowType
<1> QED
    BY <1>2 DEF Init, IInv, TypeOK, RefusedOnlyByIngestWorker

LEMMA InductiveStep == IInv /\ [Next]_vars => IInv'
<1> SUFFICES ASSUME IInv, [Next]_vars PROVE IInv'
    OBVIOUS
<1> USE DEF IInv, RefusedOnlyByIngestWorker
<1>1. CASE Attempt
  <2>1. [mode |-> "daemon", left |-> Ttl, alive |-> TRUE] \in RowType
      BY TtlAssumption DEF RowType
  <2>2. row' \in RowType /\ phase' \in {"observe", "admitted"}
      BY <1>1, <2>1 DEF Attempt, TypeOK
  <2> QED
      BY <1>1, <2>2 DEF Attempt, TypeOK
<1>2. CASE AttemptFails
    BY <1>2 DEF AttemptFails, TypeOK
<1>3. CASE Observe
  <2>1. CASE RefusesImmediately(Cleaned(row).mode)
      BY <1>3, <2>1, CleanedType DEF Observe, TypeOK, RefusesImmediately, RowType
  <2>2. CASE ~RefusesImmediately(Cleaned(row).mode)
    <3>1. Rearm(EffectiveWait(Cleaned(row).left)) \in Nat \ {0}
        BY CleanedType, WaitIsPositive
    <3>2. phase' = "sleep" /\ deadline' \in Nat /\ armed' = TRUE
        BY <1>3, <2>2, <3>1 DEF Observe, WaitOn
    <3> QED
        BY <1>3, <3>2, CleanedType DEF Observe, TypeOK, RowType
  <2> QED
      BY <2>1, <2>2
<1>4. CASE ObserveFails
  <2>1. phase' = "sleep" /\ deadline' \in Nat /\ armed' = TRUE
      BY <1>4, WaitIsPositive DEF ObserveFails, WaitOn
  <2> QED
      BY <1>4, <2>1 DEF ObserveFails, TypeOK
<1>5. CASE Wake
    BY <1>5 DEF Wake, TypeOK
<1>6. ASSUME NEW mode \in OtherModes, HolderTakes(mode) PROVE IInv'
  <2>1. [mode |-> mode, left |-> Ttl, alive |-> TRUE] \in RowType
      BY TtlAssumption DEF RowType
  <2> QED
      BY <1>6, <2>1 DEF HolderTakes, TypeOK
<1>7. CASE HolderRenews \/ HolderReleases \/ HolderDies
  <2>1. row' \in RowType
    <3>1. CASE HolderRenews
        BY <3>1, TtlAssumption DEF HolderRenews, TypeOK, RowType
    <3>2. CASE HolderReleases
        BY <3>2, NoRowType DEF HolderReleases
    <3>3. CASE HolderDies
        BY <3>3 DEF HolderDies, TypeOK, RowType
    <3> QED
        BY <1>7, <3>1, <3>2, <3>3
  <2> QED
      BY <1>7, <2>1 DEF HolderRenews, HolderReleases, HolderDies, TypeOK
<1>8. CASE Tick
  <2>1. Down(row.left) \in 0..Ttl /\ Down(deadline) \in Nat
      BY TtlAssumption DEF TypeOK, RowType, Down
  <2>2. row' \in RowType
      BY <1>8, <2>1 DEF Tick, TypeOK, RowType
  <2> QED
      BY <1>8, <2>1, <2>2 DEF Tick, TypeOK
<1>9. CASE UNCHANGED vars
    BY <1>9 DEF vars, TypeOK
<1> QED
    BY <1>1, <1>2, <1>3, <1>4, <1>5, <1>6, <1>7, <1>8, <1>9 DEF Next

\* A daemon start gives up only when it saw a live durable-ingest worker; the
\* deadline of the admission wait alone never refuses it.
THEOREM AdmissionRefusal == Spec => []RefusedOnlyByIngestWorker
<1>1. IInv => RefusedOnlyByIngestWorker
    BY DEF IInv
<1> QED
    BY <1>1, InductiveInit, InductiveStep, PTL DEF Spec
=============================================================================
