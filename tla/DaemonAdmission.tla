-------------------------- MODULE DaemonAdmission --------------------------
(***************************************************************************)
(* Daemon start waits for the sqlite-writer lease: the loop of             *)
(* acquire_daemon_writer_lease_with_holder_observed.  One iteration takes  *)
(* the database mutex twice, once to acquire and once to look at who holds *)
(* the lease, and then sleeps; the holder may renew, release, die or be    *)
(* replaced at any point in between.                                       *)
(*                                                                         *)
(* The row is seen from the starting daemon: whose mode it has, how many   *)
(* seconds its lease has left (0: expired) and whether its process lives.  *)
(* Times are distances from now; a deadline that has passed stays at 0.    *)
(***************************************************************************)
EXTENDS Naturals

CONSTANTS
    Ttl,         \* lifetime of a holder's lease
    WaitMax,     \* DAEMON_WRITER_LEASE_ADMISSION_WAIT_MAX
    ExtendedMax, \* DAEMON_WRITER_LEASE_ADMISSION_WAIT_EXTENDED_MAX
    MaxHolders   \* bound: holders that come and go while the daemon starts

ASSUME WaitAssumption == WaitMax \in Nat \ {0} /\ ExtendedMax \in Nat
ASSUME TtlAssumption == Ttl \in Nat \ {0} /\ MaxHolders \in Nat

VARIABLES
    row,      \* the sqlite-writer row
    phase,    \* where the loop is
    deadline, \* when the loop gives up
    armed,    \* the deadline has been set
    seen,     \* the mode of the holder last looked at
    holders   \* holders so far

vars == <<row, phase, deadline, armed, seen, holders>>

\* "maintenance" stands for every mode that is waited out.
OtherModes == {"maintenance", "mcp-ingest-worker"}
NoRow == [mode |-> "none", left |-> 0, alive |-> FALSE]

\* writer_lease_holder_refuses_immediately
RefusesImmediately(mode) == mode = "mcp-ingest-worker"

\* At least WaitMax, and what the holder has left as far as ExtendedMax.
EffectiveWait(left) ==
    LET extend == IF left <= ExtendedMax THEN left ELSE ExtendedMax
    IN  IF WaitMax >= extend THEN WaitMax ELSE extend

\* Both transactions first delete an expired row whose process is dead.
Cleaned(r) == IF r.left = 0 /\ ~r.alive THEN NoRow ELSE r

\* The daemon's acquisition: a row is deleted when its process is dead.
Attempt ==
    /\ phase = "attempt"
    /\ IF row.alive
       THEN phase' = "observe" /\ UNCHANGED row
       ELSE phase' = "admitted" /\ row' = [mode |-> "daemon", left |-> Ttl, alive |-> TRUE]
    /\ UNCHANGED <<deadline, armed, seen, holders>>

\* The acquisition ends in a database error, which ends the daemon's start.
AttemptFails ==
    /\ phase = "attempt"
    /\ phase' = "failed"
    /\ UNCHANGED <<row, deadline, armed, seen, holders>>

\* The deadline is set by the first look and stays.
MutRearm(target) == IF armed THEN deadline ELSE target
Rearm(target) == IF armed /\ deadline >= target THEN deadline ELSE target

\* The decision to wait on or to give up, from the seconds the holder has left.
WaitOn(left) ==
    LET dl == Rearm(EffectiveWait(left))
    IN  /\ deadline' = dl /\ armed' = TRUE
        /\ phase' = IF dl = 0 THEN "refused" ELSE "sleep"

\* runtime_writer_lease_status: cleans up and reports whoever holds the lease.
Observe ==
    /\ phase = "observe"
    /\ row' = Cleaned(row)
    /\ seen' = Cleaned(row).mode
    /\ IF RefusesImmediately(Cleaned(row).mode)
       THEN phase' = "refused" /\ UNCHANGED <<deadline, armed>>
       ELSE WaitOn(Cleaned(row).left)
    /\ UNCHANGED holders

\* The status cannot be read: no holder is known.
ObserveFails ==
    /\ phase = "observe"
    /\ seen' = "none"
    /\ WaitOn(0)
    /\ UNCHANGED <<row, holders>>

Wake ==
    /\ phase = "sleep"
    /\ phase' = "attempt"
    /\ UNCHANGED <<row, deadline, armed, seen, holders>>

----------------------------------------------------------------------------
\* Whoever else wants the lease.

HolderTakes(mode) ==
    /\ Cleaned(row) = NoRow /\ holders < MaxHolders
    /\ row' = [mode |-> mode, left |-> Ttl, alive |-> TRUE]
    /\ holders' = holders + 1
    /\ UNCHANGED <<phase, deadline, armed, seen>>

\* A renewal needs a lease that has not run out.
HolderRenews ==
    /\ row.mode \in OtherModes /\ row.alive /\ row.left > 0
    /\ row' = [row EXCEPT !.left = Ttl]
    /\ UNCHANGED <<phase, deadline, armed, seen, holders>>

HolderReleases ==
    /\ row.mode \in OtherModes /\ row.alive
    /\ row' = NoRow
    /\ UNCHANGED <<phase, deadline, armed, seen, holders>>

HolderDies ==
    /\ row.mode \in OtherModes /\ row.alive
    /\ row' = [row EXCEPT !.alive = FALSE]
    /\ UNCHANGED <<phase, deadline, armed, seen, holders>>

Down(t) == IF t > 0 THEN t - 1 ELSE 0
Tick ==
    /\ row' = [row EXCEPT !.left = Down(row.left)]
    /\ deadline' = Down(deadline)
    /\ UNCHANGED <<phase, armed, seen, holders>>

----------------------------------------------------------------------------
Init ==
    /\ \E mode \in OtherModes, left \in 0..Ttl, alive \in BOOLEAN :
          row \in {NoRow, [mode |-> mode, left |-> left, alive |-> alive]}
    /\ phase = "attempt"
    /\ deadline = 0 /\ armed = FALSE
    /\ seen = "none"
    /\ holders = 0

Next ==
    \/ Attempt \/ AttemptFails \/ Observe \/ ObserveFails \/ Wake
    \/ \E mode \in OtherModes : HolderTakes(mode)
    \/ HolderRenews \/ HolderReleases \/ HolderDies
    \/ Tick

Spec == Init /\ [][Next]_vars

\* The starting daemon and the clock run, and the status can be read now and then.
StartFairness == WF_vars(Attempt) /\ SF_vars(Observe) /\ WF_vars(Wake) /\ WF_vars(Tick)
FairSpec == Spec /\ StartFairness

----------------------------------------------------------------------------
RowType == [mode : OtherModes \cup {"none", "daemon"}, left : 0..Ttl, alive : BOOLEAN]

\* Types of the lease row and of the wait loop; no remaining time is negative
\* (saturating_duration_since, the admission deadline).
TypeOK ==
    /\ row \in RowType
    /\ phase \in {"attempt", "observe", "sleep", "admitted", "refused", "failed"}
    /\ deadline \in Nat
    /\ armed \in BOOLEAN
    /\ seen \in OtherModes \cup {"none", "daemon"}
    /\ holders \in Nat

\* A daemon start gives up (exit 75, which strands the user unit) only when it
\* saw a live durable-ingest worker hold the lease, however long it waited.
RefusedOnlyByIngestWorker == phase = "refused" => seen = "mcp-ingest-worker"

\* A starting daemon is admitted, refused or fails in the end: the wait for the
\* holder of the lease is bounded.
AdmissionEnds == phase = "attempt" ~> phase \in {"admitted", "refused", "failed"}
=============================================================================
