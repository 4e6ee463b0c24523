---------------------------- MODULE DbAdmission ----------------------------
(***************************************************************************)
(* Admission of SQLite holders across processes: core/db_admission*.rs.    *)
(* A state file beside the database lists the holders; every holder keeps  *)
(* a flock on a lease file of its own, which the kernel drops when the     *)
(* process dies.  Everything that reads or writes the state file runs      *)
(* under one flock, so one call is one action, with an outcome for every   *)
(* place where it can fail or the process can die.  Waiting longer than    *)
(* the lock's timeout returns an error and changes nothing.                *)
(***************************************************************************)
EXTENDS Integers, FiniteSets

CONSTANTS
    Procs,          \* processes, each opening one holder at a time
    Service,        \* the daemon and MCP processes among them
    BytesOf,        \* the page cache each of them asks for
    Serials,         \* tells the admissions of one process apart
    NoToken,
    Sticky,         \* tokens whose lease file a sweep may fail to remove
    Attempts,       \* ADMISSION_RELEASE_MAX_ATTEMPTS
    MaxHolders,     \* DbAdmissionConfig::max_holders
    Reserved,       \* reserved_service_holders
    MaxCacheBytes   \* max_cache_bytes

ASSUME ProcsAssumption == IsFiniteSet(Procs) /\ Service \subseteq Procs
ASSUME RequestAssumption == BytesOf \in [Procs -> Nat \ {0}]
ASSUME ConfigAssumption ==
    /\ MaxHolders \in Nat \ {0} /\ MaxCacheBytes \in Nat \ {0} /\ Attempts \in Nat \ {0}
    /\ Reserved \in 0..MaxHolders

\* An admission token is a hash of the owner's identity, the generation and the
\* time; the lease file is named after it.
Tokens == Procs \X Serials
ASSUME TokenAssumption == NoToken \notin Tokens

VARIABLES
    pc,         \* where each process stands
    handle,     \* the token of its ProfileDbAdmission
    left,       \* attempts its drop has left
    listed,     \* the holders in the state file
    leases,     \* the lease files in the directory
    locked,     \* the lease files some live process holds the flock of
    unsure      \* holders the last look could not judge (unknown_holder_diagnostics)

admVars == <<pc, handle, left, listed, leases, locked, unsure>>

\* The page cache of the holders H: its bytes one by one, and their number.
CacheOf(H) == UNION {{t} \X (1..BytesOf[t[1]]) : t \in H}
BytesIn(H) == Cardinality(CacheOf(H))

AdmInit ==
    /\ pc = [p \in Procs |-> "closed"]
    /\ handle = [p \in Procs |-> NoToken]
    /\ left = [p \in Procs |-> 0]
    /\ listed = {} /\ leases = {} /\ locked = {} /\ unsure = {}

----------------------------------------------------------------------------
\* holder_lease_liveness: a missing lease file, or one whose lock is free, is a
\* dead holder's; a lease that cannot be opened or probed (U) is kept.
MutSurvivors(H, U) == H
Survivors(H, U) == {h \in H : h \in U \/ h \in leases \cap locked}

\* sweep_unreferenced_holder_leases, what it may leave: the files the holders H
\* refer to, the ones whose lock is held, and any it cannot open, verify, lock or
\* unlink.
Sweeps(H) == {(leases \cap (H \cup locked)) \cup stay : stay \in SUBSET (leases \cap Sticky)}

\* budget_exceeded_reason, for a request of p beside the holders H.
MutExceeded(H, p) ==
    \/ Cardinality(H) >= MaxHolders
    \/ BytesIn(H) > MaxCacheBytes
    \/ p \notin Service /\ Reserved > 0 /\ Cardinality(H) + 1 + Reserved > MaxHolders
Exceeded(H, p) ==
    \/ Cardinality(H) >= MaxHolders
    \/ BytesIn(H) + BytesOf[p] > MaxCacheBytes
    \/ p \notin Service /\ Reserved > 0 /\ Cardinality(H) + 1 + Reserved > MaxHolders

\* Tokens are never reused; here, not while anything still has them.
Used == listed \cup leases \cup {handle[p] : p \in Procs}
CanMint(p) == \E n \in Serials : <<p, n>> \notin Used
Mint(p) == <<p, CHOOSE n \in Serials : <<p, n>> \notin Used>>

AdmGoto(p, where) == pc' = [pc EXCEPT ![p] = where]

\* What every acquisition and snapshot does first, to its end.
Cleaned(U) ==
    /\ listed' = Survivors(listed, U)
    /\ leases' \in Sweeps(Survivors(listed, U))
    /\ unsure' = U

\* The same, when the process dies or the disk fails on the way: the state
\* without the dead holders may have been saved, their leases are still there.
CleanedInPart(U) ==
    /\ listed' \in {listed, Survivors(listed, U)}
    /\ leases' \in Sweeps(listed)
    /\ UNCHANGED unsure

MayAsk(p) == pc[p] \in {"closed", "refused"}

\* ProfileDbAdmission::acquire; SQLite is opened after it returned.
Acquire(p, U) ==
    /\ MayAsk(p) /\ CanMint(p)
    /\ LET H == Survivors(listed, U)
       IN  /\ ~Exceeded(H, p)
           /\ listed' = H \cup {Mint(p)}
           /\ \E kept \in Sweeps(H) : leases' = kept \cup {Mint(p)}
    /\ locked' = locked \cup {Mint(p)}
    /\ handle' = [handle EXCEPT ![p] = Mint(p)]
    /\ AdmGoto(p, "open")
    /\ unsure' = U
    /\ UNCHANGED left

AcquireRefused(p, U) ==
    /\ MayAsk(p) /\ Exceeded(Survivors(listed, U), p)
    /\ Cleaned(U)
    /\ AdmGoto(p, "refused")
    /\ UNCHANGED <<handle, left, locked>>

\* The call fails, or its process dies, after the lease file was created: the
\* holder may have been published (the directory's sync fails after the
\* rename), and the lease file may be left.
AcquireBroken(p, U) ==
    /\ MayAsk(p) /\ CanMint(p)
    /\ LET H == Survivors(listed, U)
       IN  /\ ~Exceeded(H, p)
           /\ listed' \in {H, H \cup {Mint(p)}}
           /\ \E kept \in Sweeps(H) : leases' \in {kept, kept \cup {Mint(p)}}
    /\ AdmGoto(p, "closed")
    /\ UNCHANGED <<handle, left, locked, unsure>>

\* The call fails, or its process dies, while it cleans up.
CleanupBroken(p, U) ==
    /\ MayAsk(p)
    /\ CleanedInPart(U)
    /\ AdmGoto(p, "closed")
    /\ UNCHANGED <<handle, left, locked>>

\* ProfileDbAdmission::snapshot, by anybody.
Snapshot(U) ==
    /\ Cleaned(U)
    /\ UNCHANGED <<pc, handle, left, locked>>

----------------------------------------------------------------------------
\* The connections close before the admission is dropped.
BeginDrop(p) ==
    /\ pc[p] = "open"
    /\ AdmGoto(p, "dropping")
    /\ left' = [left EXCEPT ![p] = Attempts]
    /\ UNCHANGED <<handle, listed, leases, locked, unsure>>

\* The end of drop, or of the process: the descriptor of the lease is closed.
LetGo(p) ==
    /\ locked' = locked \ {handle[p]}
    /\ handle' = [handle EXCEPT ![p] = NoToken]
    /\ left' = [left EXCEPT ![p] = 0]
    /\ AdmGoto(p, "closed")

Without(p) == listed \ {handle[p]}

\* release: the row goes first, then the lease file.
Release(p) ==
    /\ pc[p] = "dropping"
    /\ listed' = Without(p)
    /\ \E kept \in Sweeps(listed) : leases' = kept \ {handle[p]}
    /\ LetGo(p)
    /\ UNCHANGED unsure

\* One attempt fails: at the lock, before or after the state was saved, or at
\* the lease file (unlinked, but the directory not synced).
ReleaseFails(p) ==
    /\ pc[p] = "dropping"
    /\ \/ UNCHANGED <<listed, leases>>
       \/ listed' \in {listed, Without(p)} /\ leases' \in Sweeps(listed)
       \/ listed' = Without(p) /\ \E kept \in Sweeps(listed) : leases' = kept \ {handle[p]}
    /\ IF left[p] > 1
       THEN left' = [left EXCEPT ![p] = @ - 1] /\ UNCHANGED <<pc, handle, locked>>
       ELSE LetGo(p)
    /\ UNCHANGED unsure

Crash(p) ==
    /\ pc[p] \in {"open", "dropping"}
    /\ LetGo(p)
    /\ UNCHANGED <<listed, leases, unsure>>

AdmNext ==
    \E U \in SUBSET listed :
        \/ Snapshot(U)
        \/ \E p \in Procs :
              \/ Acquire(p, U) \/ AcquireRefused(p, U)
              \/ AcquireBroken(p, U) \/ CleanupBroken(p, U)
              \/ U = {} /\ (BeginDrop(p) \/ Release(p) \/ ReleaseFails(p) \/ Crash(p))

AdmSpec == AdmInit /\ [][AdmNext]_admVars

----------------------------------------------------------------------------
Openers == {p \in Procs : pc[p] = "open"}
\* The holders whose process is alive and has not let go.
Alive == {t \in listed : handle[t[1]] = t}

\* Types of the sidecar files and of what each process holds.
AdmTypeOK ==
    /\ pc \in [Procs -> {"closed", "refused", "open", "dropping"}]
    /\ handle \in [Procs -> Tokens \cup {NoToken}]
    /\ left \in [Procs -> 0..Attempts]
    /\ listed \subseteq Tokens
    /\ leases \subseteq Tokens
    /\ locked \subseteq Tokens
    /\ unsure \subseteq Tokens

\* The processes that have the database open never exceed the profile's limits,
\* and transient ones never fill the seats reserved for the daemon and the MCP
\* server, whatever crashed, failed half-way or was reaped: no live holder is
\* taken for a dead one (holder_lease_liveness, persist_reaped_holders).
SeatsKept ==
    /\ Cardinality(Openers) <= MaxHolders
    /\ Cardinality(Openers \ Service) <= MaxHolders - Reserved
\* The same, and the cache they asked for stays within the profile's.
WithinBudget ==
    /\ SeatsKept
    /\ BytesIn({handle[p] : p \in Openers}) <= MaxCacheBytes

\* A request is refused for the sake of live holders only, or of ones that
\* cannot be judged: what crashed processes and failed releases left in the
\* state file costs nobody a seat.
RefusedOnlyWhenFull ==
    [][\A p \in Procs : pc[p] # "refused" /\ pc'[p] = "refused"
          => Exceeded(Alive \cup (listed \cap unsure'), p)]_admVars
=============================================================================
