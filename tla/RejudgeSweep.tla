---------------------------- MODULE RejudgeSweep ----------------------------
(***************************************************************************)
(* mempal maintenance rejudge --all --execute: a sweep over a snapshot of  *)
(* the drawers that removes the ones the judges condemn.  A sweep takes    *)
(* pages of work items, asks a proposal lane and then a confirmation lane, *)
(* appends what it is about to remove to a backup file, and removes it     *)
(* with the page's work items and the checkpoint in one transaction fenced *)
(* by its lease.  The daemon, other commands and mempal maintenance        *)
(* rejudge restore change drawers around it.  A sweep may be killed        *)
(* anywhere and resumed from its checkpoint; the lanes may be split over   *)
(* several runs (--proposal-only, --confirm-pending-only).                 *)
(***************************************************************************)
EXTENDS Integers, FiniteSets

CONSTANTS
    Drawers,        \* the drawers, by rowid
    Protected,      \* drawers with a historical_protection_reason
    Tier1,          \* drawers the deterministic tier rejects
    Hashless,       \* old drawers without a content_hash
    TwoStage,       \* --confirm-llm-endpoint is given
    PageSize, Concurrency,
    Edited,         \* the drawers others merge content into or delete
    MaxVersions,    \* bound on the contents of a drawer
    MaxSweeps,      \* bound on the runs of the command
    MaxMishaps,     \* bound on kills, lost leases, locks and failing endpoints
    None

Modes == {"paired", "proposal_only", "confirm_pending_only"}
Versions == 0..MaxVersions
\* A row of historical_rejudge_work_items, the checkpoint, and what a sweep removed.
WorkItem == [snap : Versions, stage : {"none", "confirm_pending"},
             decision : {"open", "keep", "skip", "missing", "changed"}]
Checkpoint == [run : 1..MaxSweeps, scanned : Nat, mutated : Nat, file : 0..MaxSweeps,
               status : {"running", "waiting_llm", "failed", "proposal_pending", "confirm_pending", "done"}]
Removal == [ver : Versions, file : 0..MaxSweeps, run : 1..MaxSweeps]

ASSUME SweepAssumption ==
    /\ IsFiniteSet(Drawers) /\ Drawers \subseteq Nat \ {0}
    /\ Protected \subseteq Drawers /\ Tier1 \subseteq Drawers \ Protected
    /\ Hashless \subseteq Drawers /\ Edited \subseteq Drawers /\ TwoStage \in BOOLEAN
    /\ PageSize \in Nat \ {0} /\ Concurrency \in Nat \ {0}
    /\ MaxVersions \in Nat /\ MaxSweeps \in Nat /\ MaxMishaps \in Nat
    /\ None \notin Nat \cup WorkItem \cup Checkpoint \cup Removal

VARIABLES
    drawers,    \* the version of each drawer's content and whether deleted_at is null
    work,       \* historical_rejudge_work_items: the snapshot, llm_stage and decision of each
    ckpt,       \* the checkpoint in fork_ext_meta
    files,      \* the backup of each sweep: the version of each drawer in it
    sweep,      \* the running command
    lease,      \* its lease: "free", held as "sqlite" or "rejudge", or lost: "daemon" has
                \* the name, it is "unheld", or "taken" by another
    sweeps, mishaps,
    removed,    \* history: the version and the file of what a sweep removed
    condemned, confirmed    \* history: the contents each lane has condemned

sweepVars == <<drawers, work, ckpt, files, sweep, lease, sweeps, mishaps, removed, condemned, confirmed>>

MayMutate(mode) == mode # "proposal_only"
NoSweep == [pc |-> "idle", mode |-> "paired", stage |-> "paired", ckpt |-> None,
            phase |-> [d \in Drawers |-> "out"], seen |-> [d \in Drawers |-> 0],
            error |-> "none", batch |-> {}]

SweepInit ==
    /\ drawers = [d \in Drawers |-> [ver |-> 0, live |-> TRUE]]
    /\ work = [d \in Drawers |-> None] /\ ckpt = None
    /\ files = [f \in 1..MaxSweeps |-> [d \in Drawers |-> None]]
    /\ sweep = NoSweep /\ lease = "free"
    /\ sweeps = 0 /\ mishaps = 0
    /\ removed = [d \in Drawers |-> None] /\ condemned = {} /\ confirmed = {}

----------------------------------------------------------------------------
Holding == lease \in {"sqlite", "rejudge"}
Items == {d \in Drawers : work[d] # None}
Open == {d \in Items : work[d].decision = "open"}
Pending == {d \in Open : work[d].stage = "confirm_pending"}
First(n, D) == {d \in D : Cardinality({e \in D : e < d}) < n}
MayMishap == mishaps < MaxMishaps
Mishap == MayMishap /\ mishaps' = mishaps + 1

\* The command returns, with or without an error: its lease guard is dropped.
Over == sweep' = NoSweep /\ lease' = "free"
Goes(pc) == sweep' = [sweep EXCEPT !.pc = pc]

\* save_historical_rejudge_checkpoint_with_writer_lease
Save(c, pc) ==
    IF Holding THEN /\ ckpt' = c /\ sweep' = [sweep EXCEPT !.ckpt = c, !.pc = pc]
                    /\ UNCHANGED lease
    ELSE Over /\ UNCHANGED ckpt

\* The lease is acquired, and the checkpoint is loaded, or a new one is started: the
\* backup file, the snapshot and the checkpoint, which fall in one transaction but
\* for the file, empty and unnamed until then.
StartSweep(mode, resume) ==
    LET fresh == ~resume \/ ckpt = None
        loaded == [run |-> sweeps + 1, status |-> "running", scanned |-> 0, mutated |-> 0,
                   file |-> IF MayMutate(mode) THEN sweeps + 1 ELSE 0]
    IN  /\ sweep.pc = "idle" /\ sweeps < MaxSweeps
        /\ mode # "paired" => TwoStage
        /\ mode = "confirm_pending_only" => resume
        /\ ~fresh => ckpt.status # "done"
        /\ sweeps' = sweeps + 1
        /\ lease' \in {"sqlite", "rejudge"}
        /\ IF fresh
           THEN /\ ckpt' = loaded
                /\ work' = [d \in Drawers |->
                              IF drawers[d].live THEN [snap |-> drawers[d].ver, stage |-> "none", decision |-> "open"]
                              ELSE None]
           ELSE UNCHANGED <<ckpt, work>>
        /\ sweep' = [NoSweep EXCEPT !.mode = mode, !.stage = mode, !.ckpt = ckpt',
                        !.pc = IF MayMutate(mode) /\ ckpt'.file = 0 THEN "backup" ELSE "mark"]
        /\ UNCHANGED <<drawers, files, mishaps, removed, condemned, confirmed>>

\* ensure_historical_rejudge_checkpoint_backup_for_mutation
EnsureBackup ==
    /\ sweep.pc = "backup"
    /\ Save([sweep.ckpt EXCEPT !.file = sweeps], "mark")
    /\ UNCHANGED <<drawers, work, files, sweeps, mishaps, removed, condemned, confirmed>>

MarkRunning ==
    /\ sweep.pc = "mark"
    /\ Save([sweep.ckpt EXCEPT !.status = "running"], "page")
    /\ UNCHANGED <<drawers, work, files, sweeps, mishaps, removed, condemned, confirmed>>

\* next_historical_rejudge_work_items_for_stage; the mutant lists what is pending in
\* proposal-only mode too.
MutForStage(stage) == IF stage = "confirm_pending_only" THEN Pending ELSE Open
ForStage(stage) ==
    CASE stage = "paired" -> Open
      [] stage = "proposal_only" -> Open \ Pending
      [] stage = "confirm_pending_only" -> Pending
NextPage ==
    /\ sweep.pc = "page"
    /\ LET page == First(PageSize, ForStage(sweep.stage))
       IN  sweep' = [sweep EXCEPT !.pc = IF page = {} THEN "final" ELSE "evaluate", !.error = "none",
                        !.batch = {}, !.seen = NoSweep.seen,
                        !.phase = [d \in Drawers |-> IF d \in page THEN "queued" ELSE "out"]]
    /\ UNCHANGED <<drawers, work, ckpt, files, lease, sweeps, mishaps, removed, condemned, confirmed>>

----------------------------------------------------------------------------
In(p) == {d \in Drawers : sweep.phase[d] \in p}
InFlight == In({"propose", "persist", "confirm"})
Judged == In({"missing", "changed", "keep", "delete", "pending"})
Becomes(d, p) == sweep' = [sweep EXCEPT !.phase[d] = p]

\* record_historical_rejudge_prepare_error: the first error, or the first that no
\* retry will mend.
Retryable(e) == e \in {"llm", "confirm"}
Fails(d, e) ==
    sweep' = [sweep EXCEPT !.phase[d] = "failed",
                !.error = IF @ = "none" \/ (Retryable(@) /\ ~Retryable(e)) THEN e ELSE @]

\* historical_rejudge_work_item_matches_snapshot; the mutant trusts the row id.
MutMatchesSnapshot(d) == d \notin Hashless
MatchesSnapshot(d) == d \notin Hashless /\ drawers[d].ver = work[d].snap

\* prepare_historical_rejudge_work_item up to its first await, with
\* evaluate_historical_pre_llm.
BeforeLanes(d) ==
    IF ~drawers[d].live THEN "missing"
    ELSE IF ~MatchesSnapshot(d) THEN "changed"
    ELSE IF d \in Protected THEN "keep"
    ELSE IF d \in Tier1 /\ sweep.stage = "paired" THEN "delete"
    ELSE IF d \in Tier1 /\ sweep.stage = "proposal_only" THEN "persist"
    ELSE IF TwoStage /\ work[d].stage = "confirm_pending" THEN "confirm"
    ELSE "propose"
LoadItem(d) ==
    /\ sweep.pc = "evaluate" /\ sweep.error = "none"
    /\ d \in First(1, In({"queued"})) /\ Cardinality(InFlight) < Concurrency
    /\ sweep' = [sweep EXCEPT !.phase[d] = BeforeLanes(d), !.seen[d] = drawers[d].ver]
    /\ UNCHANGED <<drawers, work, ckpt, files, lease, sweeps, mishaps, removed, condemned, confirmed>>

\* The proposal lane keeps the drawer, condemns it, or fails.
ProposalAnswers(d) ==
    /\ sweep.pc = "evaluate" /\ sweep.phase[d] = "propose"
    /\ \/ Becomes(d, "keep") /\ UNCHANGED condemned
       \/ /\ Becomes(d, IF TwoStage THEN "persist" ELSE "delete")
          /\ condemned' = condemned \cup {<<d, sweep.seen[d]>>}
    /\ UNCHANGED <<drawers, work, ckpt, files, lease, sweeps, mishaps, removed, confirmed>>
ProposalFails(d) ==
    /\ sweep.pc = "evaluate" /\ sweep.phase[d] = "propose"
    /\ Mishap
    /\ Fails(d, "llm") \/ Fails(d, "fatal")
    /\ UNCHANGED <<drawers, work, ckpt, files, lease, sweeps, removed, condemned, confirmed>>

\* mark_..._llm_confirm_pending_or_keep_with_writer_lease: a database that stays locked
\* turns the proposal into a keep.
PersistProposal(d) ==
    /\ sweep.pc = "evaluate" /\ sweep.phase[d] = "persist"
    /\ IF Holding
       THEN /\ work' = [work EXCEPT ![d].stage = "confirm_pending"]
            /\ Becomes(d, IF sweep.stage = "proposal_only" THEN "pending" ELSE "confirm")
       ELSE Fails(d, "fatal") /\ UNCHANGED work
    /\ UNCHANGED <<drawers, ckpt, files, lease, sweeps, mishaps, removed, condemned, confirmed>>
PersistLocked(d) ==
    /\ sweep.pc = "evaluate" /\ sweep.phase[d] = "persist"
    /\ Mishap
    /\ Becomes(d, "keep")
    /\ UNCHANGED <<drawers, work, ckpt, files, lease, sweeps, removed, condemned, confirmed>>

ConfirmationAnswers(d) ==
    /\ sweep.pc = "evaluate" /\ sweep.phase[d] = "confirm"
    /\ \/ Becomes(d, "keep") /\ UNCHANGED confirmed
       \/ Becomes(d, "delete") /\ confirmed' = confirmed \cup {<<d, sweep.seen[d]>>}
    /\ UNCHANGED <<drawers, work, ckpt, files, lease, sweeps, mishaps, removed, condemned>>
ConfirmationFails(d) ==
    /\ sweep.pc = "evaluate" /\ sweep.phase[d] = "confirm"
    /\ Mishap
    /\ Fails(d, IF sweep.stage = "paired" THEN "confirm" ELSE "llm") \/ Fails(d, "fatal")
    /\ UNCHANGED <<drawers, work, ckpt, files, lease, sweeps, removed, condemned, confirmed>>

\* process_historical_rejudge_prepared_page: what was judged before an endpoint went
\* away is applied, and the error is returned after it.
PagePrepared ==
    /\ sweep.pc = "evaluate" /\ InFlight = {}
    /\ sweep.error # "none" \/ In({"queued"}) = {}
    /\ Goes(IF sweep.error = "none" \/ (Retryable(sweep.error) /\ Judged # {}) THEN "append" ELSE "error")
    /\ UNCHANGED <<drawers, work, ckpt, files, lease, sweeps, mishaps, removed, condemned, confirmed>>

----------------------------------------------------------------------------
\* finalize_prepared_historical_rejudge_work_items compares the drawers once more, and
\* append_historical_rejudge_backup_items_durable syncs the file.
AppendBackup ==
    /\ sweep.pc = "append"
    /\ LET doomed == In({"delete"})
           batch == {d \in doomed : drawers[d].live /\ drawers[d].ver = sweep.seen[d]}
       IN  IF batch # {} /\ sweep.ckpt.file = 0
           THEN sweep' = [sweep EXCEPT !.pc = "error", !.error = "fatal"] /\ UNCHANGED files
           ELSE /\ files' = [f \in DOMAIN files |-> [d \in Drawers |->
                               IF f = sweep.ckpt.file /\ d \in batch THEN drawers[d].ver ELSE files[f][d]]]
                /\ sweep' = [sweep EXCEPT !.pc = "apply", !.batch = batch,
                               !.phase = [d \in Drawers |-> IF d \in doomed \ batch THEN "changed" ELSE @[d]]]
    /\ UNCHANGED <<drawers, work, ckpt, lease, sweeps, mishaps, removed, condemned, confirmed>>

\* current_drawer_matches_backup_row; the mutant goes by deleted_at alone.
MutMatchesBackup(d) == drawers[d].live
MatchesBackup(d) == drawers[d].live /\ files[sweep.ckpt.file][d] = drawers[d].ver

\* mark_historical_rejudge_work_item_processed, for the items that are not pending
Decided(d) == [snap |-> work[d].snap, stage |-> "none",
               decision |-> IF sweep.phase[d] = "delete" THEN "skip" ELSE sweep.phase[d]]

Unchanged == {d \in sweep.batch : MatchesBackup(d)}
Processed == Judged \ In({"pending"})
NextCheckpoint ==
    [sweep.ckpt EXCEPT !.scanned = @ + Cardinality(Processed), !.mutated = @ + Cardinality(Unchanged)]

\* The transaction of process_prepared_historical_rejudge_work_items; only when it is
\* committed does the new checkpoint replace the one in memory.
ApplyPage ==
    /\ sweep.pc = "apply"
    /\ LET gone == Unchanged
           next == NextCheckpoint
       IN  IF Holding
           THEN /\ drawers' = [d \in Drawers |-> IF d \in gone THEN [drawers[d] EXCEPT !.live = FALSE] ELSE drawers[d]]
                /\ removed' = [d \in Drawers |->
                      IF d \in gone THEN [ver |-> drawers[d].ver, file |-> sweep.ckpt.file, run |-> sweep.ckpt.run]
                      ELSE removed[d]]
                /\ work' = [d \in Drawers |-> IF d \in Processed THEN Decided(d) ELSE work[d]]
                /\ ckpt' = next
                /\ sweep' = [sweep EXCEPT !.ckpt = next, !.pc = IF sweep.error = "none" THEN "page" ELSE "error"]
           ELSE /\ sweep' = [sweep EXCEPT !.pc = "error", !.error = "fatal"]
                /\ UNCHANGED <<drawers, removed, work, ckpt>>
    /\ UNCHANGED <<files, lease, sweeps, mishaps, condemned, confirmed>>

\* The backup cannot be written, or the transaction finds the database locked; in the
\* mutant the checkpoint in memory has moved on by then.
MutApplyFails ==
    /\ Mishap /\ sweep.pc = "apply"
    /\ sweep' = [sweep EXCEPT !.pc = "error", !.error = "lock", !.ckpt = NextCheckpoint]
    /\ UNCHANGED <<drawers, work, ckpt, files, lease, sweeps, removed, condemned, confirmed>>
ApplyFails ==
    /\ Mishap
    /\ \/ sweep.pc = "append" /\ sweep' = [sweep EXCEPT !.pc = "error", !.error = "fatal"]
       \/ sweep.pc = "apply" /\ sweep' = [sweep EXCEPT !.pc = "error", !.error = "lock"]
    /\ UNCHANGED <<drawers, work, ckpt, files, lease, sweeps, removed, condemned, confirmed>>

----------------------------------------------------------------------------
\* save_..._with_writer_lease_outcome: saved, put off because the database is locked or
\* the lease may come back, or the end.  A rejudge lease nobody holds is restored.
SaveStatus(status, then) ==
    LET c == [sweep.ckpt EXCEPT !.status = status]
    IN  \/ /\ Holding
           /\ ckpt' = c
           /\ IF then = "exit" THEN Over
              ELSE sweep' = [sweep EXCEPT !.ckpt = c, !.pc = then] /\ UNCHANGED lease
           /\ UNCHANGED mishaps
        \/ /\ Mishap
           /\ sweep' = [sweep EXCEPT !.pc = "page", !.ckpt = IF status = "failed" THEN @ ELSE c]
           /\ UNCHANGED <<ckpt, lease>>
        \/ /\ lease \in {"daemon", "unheld"}
           /\ sweep' = [sweep EXCEPT !.pc = "page", !.ckpt = IF status = "failed" THEN @ ELSE c]
           /\ lease' = IF lease = "unheld" THEN "rejudge" ELSE lease
           /\ UNCHANGED <<ckpt, mishaps>>
        \/ lease = "taken" /\ Over /\ UNCHANGED <<ckpt, mishaps>>

\* The error arm of the loop.
HandleError ==
    /\ sweep.pc = "error"
    /\ IF sweep.error = "confirm" /\ sweep.mode = "paired"
       THEN /\ sweep' = [sweep EXCEPT !.pc = "page", !.stage = "proposal_only"]
            /\ UNCHANGED <<ckpt, lease, mishaps>>
       ELSE IF sweep.error = "lock" THEN Goes("page") /\ UNCHANGED <<ckpt, lease, mishaps>>
       ELSE IF Retryable(sweep.error) THEN SaveStatus("waiting_llm", "wait")
       ELSE SaveStatus("failed", "exit")
    /\ UNCHANGED <<drawers, work, files, sweeps, removed, condemned, confirmed>>
AfterWait ==
    /\ sweep.pc = "wait"
    /\ SaveStatus("running", "page")
    /\ UNCHANGED <<drawers, work, files, sweeps, removed, condemned, confirmed>>

\* The status after the last page, from historical_rejudge_backlog_counts.
FinalStatus ==
    IF Open = {} THEN "done" ELSE IF Open = Pending THEN "confirm_pending" ELSE "proposal_pending"
FinishSweep ==
    /\ sweep.pc = "final"
    /\ IF Holding THEN ckpt' = [sweep.ckpt EXCEPT !.status = FinalStatus] ELSE UNCHANGED ckpt
    /\ Over
    /\ UNCHANGED <<drawers, work, files, sweeps, mishaps, removed, condemned, confirmed>>

----------------------------------------------------------------------------
\* The command is killed, or ends on an error that nothing handles: a query that fails,
\* a locked database outside the page loop.
KillSweep ==
    /\ sweep.pc # "idle"
    /\ Mishap
    /\ Over
    /\ UNCHANGED <<drawers, work, ckpt, files, sweeps, removed, condemned, confirmed>>

\* A lease that ran out while the command was suspended: a daemon or another command
\* has the name since, or, for the lease beside the daemon, nobody.
LoseLease ==
    /\ Holding
    /\ Mishap
    /\ lease' \in {"taken", IF lease = "sqlite" THEN "daemon" ELSE "unheld"}
    /\ UNCHANGED <<drawers, work, ckpt, files, sweep, sweeps, removed, condemned, confirmed>>
DaemonStops ==
    /\ lease = "daemon"
    /\ lease' = "taken"
    /\ UNCHANGED <<drawers, work, ckpt, files, sweep, sweeps, mishaps, removed, condemned, confirmed>>

\* Others merge content into a drawer or delete it; not beside a sweep that has the
\* writer lease itself.
EditDrawer(d) ==
    /\ lease # "sqlite" /\ drawers[d].live
    /\ \/ drawers[d].ver < MaxVersions /\ drawers' = [drawers EXCEPT ![d].ver = @ + 1]
       \/ drawers' = [drawers EXCEPT ![d].live = FALSE]
    /\ UNCHANGED <<work, ckpt, files, sweep, lease, sweeps, mishaps, removed, condemned, confirmed>>

\* restore_rejudge_backup_item_mutation, one item of rejudge restore --execute, which
\* needs the writer lease: a live drawer is skipped unless it is to be overwritten.
RestoreItem(f, d) ==
    /\ lease = "free" /\ files[f][d] # None
    /\ drawers' = [drawers EXCEPT ![d] = [ver |-> files[f][d], live |-> TRUE]]
    /\ removed' = [removed EXCEPT ![d] = None]
    /\ UNCHANGED <<work, ckpt, files, sweep, lease, sweeps, mishaps, condemned, confirmed>>

SweepStep ==
    \/ EnsureBackup \/ MarkRunning \/ NextPage \/ PagePrepared \/ AppendBackup \/ ApplyPage
    \/ HandleError \/ AfterWait \/ FinishSweep
    \/ \E d \in Drawers : LoadItem(d) \/ ProposalAnswers(d) \/ PersistProposal(d) \/ ConfirmationAnswers(d)

SweepNext ==
    \/ \E mode \in Modes, resume \in BOOLEAN : StartSweep(mode, resume)
    \/ SweepStep
    \/ \E d \in Drawers : ProposalFails(d) \/ PersistLocked(d) \/ ConfirmationFails(d)
    \/ ApplyFails \/ KillSweep \/ LoseLease \/ DaemonStops
    \/ \E d \in Edited : EditDrawer(d)
    \/ \E f \in DOMAIN files, d \in Drawers : RestoreItem(f, d)

SweepFairness == WF_sweepVars(SweepStep)
SweepSpec == SweepInit /\ [][SweepNext]_sweepVars /\ SweepFairness

----------------------------------------------------------------------------
\* The running command.
SweepState ==
    [pc : {"idle", "backup", "mark", "page", "evaluate", "append", "apply", "error", "wait", "final"},
     mode : Modes, stage : Modes, ckpt : Checkpoint \cup {None},
     phase : [Drawers -> {"out", "queued", "propose", "persist", "confirm", "missing", "changed",
                          "keep", "delete", "pending", "failed"}],
     seen : [Drawers -> Versions], batch : SUBSET Drawers,
     error : {"none", "llm", "confirm", "fatal", "lock"}]

\* Types of the tables, the files and the running command.
SweepTypeOK ==
    /\ drawers \in [Drawers -> [ver : Versions, live : BOOLEAN]]
    /\ work \in [Drawers -> WorkItem \cup {None}]
    /\ ckpt \in Checkpoint \cup {None}
    /\ files \in [1..MaxSweeps -> [Drawers -> Versions \cup {None}]]
    /\ sweep \in SweepState
    /\ lease \in {"free", "sqlite", "rejudge", "daemon", "unheld", "taken"}
    /\ sweeps \in 0..MaxSweeps /\ mishaps \in Nat
    /\ removed \in [Drawers -> Removal \cup {None}]
    /\ condemned \subseteq Drawers \X Versions /\ confirmed \subseteq Drawers \X Versions

\* "append ... before deletion": what a sweep removed is in the backup its checkpoint
\* names at the content it had when it was removed, whenever the sweep was killed
\* or fenced off and whoever changed the drawer meanwhile.
RemovedIsRestorable ==
    \A d \in Drawers : removed[d] # None => files[removed[d].file][d] = removed[d].ver

\* "Only Spark-confirmed candidates are soft-deleted", but for those the deterministic
\* tier rejects: the content a sweep removed is the content both lanes condemned, also
\* when the proposal is one an earlier run left pending.
OnlyCondemnedRemoved ==
    \A d \in Drawers : removed[d] # None =>
        /\ d \notin Protected
        /\ d \in Tier1 \/ <<d, removed[d].ver>> \in IF TwoStage THEN condemned \cap confirmed ELSE condemned

\* The checkpoint counts what the work items say, and a sweep is done when every
\* drawer of its snapshot was decided, through kills, retries and resumes.
CheckpointAgrees ==
    ckpt # None =>
        /\ ckpt.scanned = Cardinality(Items \ Open)
        /\ Cardinality({d \in Drawers : removed[d] # None /\ removed[d].run = ckpt.run}) <= ckpt.mutated
        /\ ckpt.mutated <= Cardinality({d \in Items : work[d].decision = "skip"})
        /\ ckpt.status = "done" => Open = {}

\* "Qwen is not called again for rows already marked confirm_pending".
ProposalAskedOnce ==
    [][\A d \in Drawers : sweep.phase[d] # "propose" /\ sweep'.phase[d] = "propose" =>
          work[d].stage # "confirm_pending" \/ ~TwoStage]_sweepVars

\* A sweep ends by itself, whatever fails, unless a daemon has taken its lease: then
\* it goes on asking the lanes about the same page.
SweepEnds == sweep.pc # "idle" ~> (sweep.pc = "idle" \/ lease = "daemon")
=============================================================================
