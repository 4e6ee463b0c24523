------------------------- MODULE RejudgeSweepProofs -------------------------
(***************************************************************************)
(* The historical rejudge for every set of drawers, page size, number of   *)
(* lanes and of runs: what a sweep removes is in its backup, was condemned *)
(* as it was removed, and is counted by the checkpoint, whenever the sweep *)
(* is killed, fenced off or resumed.                                       *)
(***************************************************************************)
EXTENDS RejudgeSweep, FiniteSetTheorems, TLAPS

\* A command holds or has lost a lease as long as it runs.
LeaseInv == sweep.pc = "idle" <=> lease = "free"

\* The checkpoint in memory counts what the saved one counts, and neither is done.
MemoryInv ==
    sweep.pc # "idle" =>
        /\ ckpt # None /\ sweep.ckpt # None
        /\ sweep.ckpt.run = ckpt.run
        /\ sweep.ckpt.scanned = ckpt.scanned /\ sweep.ckpt.mutated = ckpt.mutated
        /\ ckpt.status # "done" /\ sweep.ckpt.status # "done"

\* Runs are numbered in the order they start.
RunInv ==
    /\ ckpt # None => ckpt.run <= sweeps
    /\ \A d \in Drawers : removed[d] # None => removed[d].run <= sweeps

\* A page is in work: its items are open until the page is applied.
Judging == sweep.pc \in {"evaluate", "append", "apply"}
PageInv == Judging => \A d \in Drawers : sweep.phase[d] # "out" => d \in Open

\* What the lanes have said of the content that the snapshot and the sweep have seen.
Rejected(d, v) == d \in Tier1 \/ <<d, v>> \in condemned
Confirmed(d, v) == d \in Tier1 \/ ~TwoStage \/ <<d, v>> \in confirmed
LaneInv ==
    Judging => \A d \in Drawers :
        /\ sweep.phase[d] \in {"propose", "persist", "confirm", "delete"} =>
              d \notin Protected /\ sweep.seen[d] = work[d].snap
        /\ sweep.phase[d] \in {"persist", "confirm", "delete"} => Rejected(d, sweep.seen[d])
        /\ sweep.phase[d] = "delete" => Confirmed(d, sweep.seen[d])

\* A stored proposal is about the content of the snapshot.
PendingInv == \A d \in Items : work[d].stage = "confirm_pending" => Rejected(d, work[d].snap)

\* What is about to be removed is in the backup as the lanes saw it.
BatchInv ==
    sweep.pc = "apply" => \A d \in sweep.batch :
        /\ sweep.ckpt.file # 0 /\ sweep.phase[d] = "delete"
        /\ files[sweep.ckpt.file][d] = sweep.seen[d]

\* What was removed is gone until it is restored, and the backup still has it.
RemovalInv ==
    \A d \in Drawers : removed[d] # None =>
        /\ ~drawers[d].live /\ removed[d].file # 0
        /\ files[removed[d].file][d] = removed[d].ver

IInv ==
    /\ SweepTypeOK /\ LeaseInv /\ MemoryInv /\ RunInv /\ PageInv /\ LaneInv /\ PendingInv
    /\ BatchInv /\ RemovalInv /\ OnlyCondemnedRemoved /\ CheckpointAgrees

----------------------------------------------------------------------------
\* Steps that steer the command: they move its counter, save the checkpoint with
\* another status or file, or lose the lease.

SameCounts(c, e) == c.run = e.run /\ c.scanned = e.scanned /\ c.mutated = e.mutated

Steers ==
    /\ UNCHANGED <<drawers, work, files, sweeps, removed, condemned, confirmed>>
    /\ mishaps' \in Nat
    /\ \/ ckpt' = ckpt
       \/ /\ sweep.pc # "idle" /\ ckpt' \in Checkpoint /\ SameCounts(ckpt', sweep.ckpt)
          /\ ckpt'.status = "done" => sweep' = NoSweep /\ Open = {}
    /\ \/ sweep' = NoSweep /\ lease' = "free"
       \/ sweep' = sweep /\ lease' = lease
       \/ sweep' = sweep /\ lease # "free" /\ lease' \in {"daemon", "unheld", "taken"}
       \/ /\ sweep.pc # "idle" /\ sweep' \in SweepState /\ sweep'.pc # "idle"
          /\ lease' \in {"sqlite", "rejudge", "daemon", "unheld", "taken"}
          /\ sweep'.ckpt \in Checkpoint /\ SameCounts(sweep'.ckpt, sweep.ckpt)
          /\ sweep'.ckpt.status # "done"
          /\ \/ sweep'.pc \notin {"evaluate", "append", "apply"}
             \/ sweep.pc = "evaluate" /\ sweep' = [sweep EXCEPT !.pc = "append"]
             \/ /\ sweep'.pc = "evaluate"
                /\ \A d \in Drawers : /\ sweep'.phase[d] \in {"out", "queued"}
                                      /\ sweep'.phase[d] # "out" => d \in Open

\* None is not a record of any of the tables.
LEMMA NoneIsNoRecord ==
    /\ None \notin WorkItem /\ None \notin Checkpoint /\ None \notin Removal /\ None \notin Versions
    /\ MaxSweeps \in Nat /\ MaxVersions \in Nat
BY SweepAssumption DEF Versions

\* The command at rest.
LEMMA NoSweepTyped ==
    /\ NoSweep \in SweepState /\ NoSweep.pc = "idle"
    /\ \A d \in Drawers : NoSweep.phase[d] = "out" /\ NoSweep.seen[d] = 0
BY NoneIsNoRecord DEF NoSweep, SweepState, Modes, Versions

\* A steering step keeps the invariant.
LEMMA SteersKeepsIInv == IInv /\ Steers => IInv'
<1> SUFFICES ASSUME IInv, Steers PROVE IInv'
    OBVIOUS
<1>0. /\ UNCHANGED <<drawers, work, files, sweeps, removed, condemned, confirmed>>
      /\ Items' = Items /\ Open' = Open
    BY DEF Steers, Items, Open
<1>1. sweep' \in SweepState
    BY NoSweepTyped DEF Steers, IInv, SweepTypeOK
<1>2. ckpt' \in Checkpoint \cup {None}
    BY DEF Steers, IInv, SweepTypeOK
<1>3. SweepTypeOK'
    BY <1>0, <1>1, <1>2 DEF Steers, IInv, SweepTypeOK
<1>4. LeaseInv'
    BY NoSweepTyped DEF Steers, IInv, LeaseInv
<1>5. ckpt' # ckpt => /\ ckpt # None /\ ckpt' # None /\ SameCounts(ckpt', ckpt)
                      /\ ckpt'.status = "done" => Open = {}
    BY NoneIsNoRecord DEF Steers, IInv, MemoryInv, SameCounts
<1>6. MemoryInv'
    BY NoSweepTyped, NoneIsNoRecord DEF Steers, IInv, MemoryInv, SameCounts
<1>7. RunInv'
    BY <1>0, <1>5 DEF IInv, RunInv, SameCounts
<1>8. \/ ~Judging'
      \/ Judging /\ sweep'.phase = sweep.phase /\ sweep'.seen = sweep.seen
      \/ \A d \in Drawers : /\ sweep'.phase[d] \in {"out", "queued"}
                            /\ sweep'.phase[d] # "out" => d \in Open
    BY NoSweepTyped DEF Steers, Judging, IInv, SweepTypeOK, SweepState
<1>9. PageInv'
    BY <1>0, <1>8 DEF IInv, PageInv
<1>10. LaneInv'
    BY <1>0, <1>8 DEF IInv, LaneInv, Rejected, Confirmed
<1>11. PendingInv'
    BY <1>0 DEF IInv, PendingInv, Rejected
<1>12. sweep'.pc = "apply" => sweep' = sweep
    BY NoSweepTyped DEF Steers, IInv, SweepTypeOK, SweepState
<1>13. BatchInv'
    BY <1>0, <1>12 DEF IInv, BatchInv
<1>14. RemovalInv' /\ OnlyCondemnedRemoved'
    BY <1>0 DEF IInv, RemovalInv, OnlyCondemnedRemoved
<1>15. CheckpointAgrees'
    BY <1>0, <1>5 DEF IInv, CheckpointAgrees, SameCounts
<1> QED
    BY <1>3, <1>4, <1>6, <1>7, <1>9, <1>10, <1>11, <1>13, <1>14, <1>15 DEF IInv

\* Statuses and files that a saved checkpoint may get.
LEMMA CheckpointUpdates ==
    ASSUME NEW c \in Checkpoint
    PROVE  /\ \A f \in 0..MaxSweeps : /\ [c EXCEPT !.file = f] \in Checkpoint
                                      /\ SameCounts([c EXCEPT !.file = f], c)
                                      /\ [c EXCEPT !.file = f].status = c.status
           /\ \A st \in {"running", "waiting_llm", "failed", "proposal_pending", "confirm_pending", "done"} :
                 /\ [c EXCEPT !.status = st] \in Checkpoint
                 /\ SameCounts([c EXCEPT !.status = st], c)
                 /\ [c EXCEPT !.status = st].status = st
BY DEF Checkpoint, SameCounts

\* What a running command knows of its checkpoint.
LEMMA RunningCheckpoint ==
    ASSUME IInv, sweep.pc # "idle"
    PROVE  /\ sweep.ckpt \in Checkpoint /\ sweep.ckpt.status # "done" /\ lease # "free"
           /\ lease \in {"sqlite", "rejudge", "daemon", "unheld", "taken"}
           /\ sweep \in SweepState
BY DEF IInv, MemoryInv, LeaseInv, SweepTypeOK, SweepState

\* Saving the checkpoint, by the plain save.
LEMMA SaveSteers ==
    ASSUME IInv, sweep.pc # "idle", NEW c \in Checkpoint, SameCounts(c, sweep.ckpt),
           c.status # "done", NEW pc \in {"mark", "page"}, Save(c, pc),
           UNCHANGED <<drawers, work, files, sweeps, mishaps, removed, condemned, confirmed>>
    PROVE  Steers
<1>1. CASE Holding
  <2>1. /\ ckpt' = c /\ sweep' = [sweep EXCEPT !.ckpt = c, !.pc = pc] /\ lease' = lease
      BY <1>1 DEF Save
  <2>2. sweep' \in SweepState /\ sweep'.pc = pc /\ sweep'.ckpt = c
      BY <2>1, RunningCheckpoint DEF SweepState
  <2> QED
      BY <2>1, <2>2, RunningCheckpoint DEF Steers, IInv, SweepTypeOK
<1>2. CASE ~Holding
    BY <1>2 DEF Save, Over, Steers, IInv, SweepTypeOK
<1> QED
    BY <1>1, <1>2

\* Saving it with another status, or putting that off.
LEMMA SaveStatusSteers ==
    ASSUME IInv, sweep.pc # "idle", NEW status \in {"running", "waiting_llm", "failed"},
           NEW then \in {"exit", "wait", "page"}, SaveStatus(status, then),
           UNCHANGED <<drawers, work, files, sweeps, removed, condemned, confirmed>>
    PROVE  Steers
<1> DEFINE c == [sweep.ckpt EXCEPT !.status = status]
<1>1. c \in Checkpoint /\ SameCounts(c, sweep.ckpt) /\ c.status # "done"
    BY RunningCheckpoint, CheckpointUpdates
<1>2. sweep.ckpt \in Checkpoint /\ SameCounts(sweep.ckpt, sweep.ckpt) /\ sweep.ckpt.status # "done"
    BY RunningCheckpoint DEF SameCounts
<1>3. mishaps' \in Nat
    BY DEF SaveStatus, Mishap, IInv, SweepTypeOK
<1>4. \/ ckpt' = ckpt
      \/ ckpt' = c
    BY DEF SaveStatus
<1>5. \/ sweep' = NoSweep /\ lease' = "free"
      \/ \E e \in {c, sweep.ckpt}, pc \in {"page", "wait"} :
            /\ sweep' = [sweep EXCEPT !.ckpt = e, !.pc = pc]
            /\ lease' \in {"sqlite", "rejudge", "daemon", "unheld", "taken"}
  <2>1. lease \in {"sqlite", "rejudge", "daemon", "unheld", "taken"} /\ sweep \in SweepState
      BY RunningCheckpoint
  <2>2. [sweep EXCEPT !.pc = "page", !.ckpt = IF status = "failed" THEN @ ELSE c]
          = [sweep EXCEPT !.ckpt = IF status = "failed" THEN sweep.ckpt ELSE c, !.pc = "page"]
      BY <2>1 DEF SweepState
  <2>3. CASE /\ Holding
             /\ IF then = "exit" THEN Over
                ELSE sweep' = [sweep EXCEPT !.ckpt = c, !.pc = then] /\ UNCHANGED lease
      BY <2>1, <2>3 DEF Over
  <2>4. CASE sweep' = [sweep EXCEPT !.pc = "page", !.ckpt = IF status = "failed" THEN @ ELSE c]
             /\ (lease' = lease \/ lease' = "rejudge")
    <3> HIDE DEF c
    <3> QED
      BY <2>1, <2>2, <2>4
  <2>5. CASE Over
      BY <2>5 DEF Over
  <2> QED
      BY <2>3, <2>4, <2>5 DEF SaveStatus
<1> HIDE DEF c
<1>6. ASSUME NEW e \in {c, sweep.ckpt}, NEW pc \in {"page", "wait"},
             sweep' = [sweep EXCEPT !.ckpt = e, !.pc = pc]
      PROVE  /\ sweep' \in SweepState /\ sweep'.pc = pc /\ sweep'.ckpt = e
    BY <1>1, <1>2, <1>6, RunningCheckpoint DEF SweepState
<1>7. \/ sweep' = NoSweep /\ lease' = "free"
      \/ /\ sweep' \in SweepState /\ sweep'.pc \in {"page", "wait"}
         /\ lease' \in {"sqlite", "rejudge", "daemon", "unheld", "taken"}
         /\ sweep'.ckpt \in Checkpoint /\ SameCounts(sweep'.ckpt, sweep.ckpt)
         /\ sweep'.ckpt.status # "done"
    BY <1>1, <1>2, <1>5, <1>6
<1> QED
    BY <1>1, <1>3, <1>4, <1>7 DEF Steers

\* The steering actions.
LEMMA SteeringActions ==
    ASSUME IInv,
           \/ EnsureBackup \/ MarkRunning \/ NextPage \/ PagePrepared \/ HandleError \/ AfterWait
           \/ FinishSweep \/ ApplyFails \/ KillSweep \/ LoseLease \/ DaemonStops \/ UNCHANGED sweepVars
    PROVE  Steers
<1>0. mishaps' \in Nat
    BY DEF IInv, SweepTypeOK, EnsureBackup, MarkRunning, NextPage, PagePrepared, HandleError, AfterWait,
           FinishSweep, ApplyFails, KillSweep, LoseLease, DaemonStops, sweepVars, Mishap, SaveStatus
<1>1. CASE EnsureBackup
  <2>1. [sweep.ckpt EXCEPT !.file = sweeps] \in Checkpoint
        /\ SameCounts([sweep.ckpt EXCEPT !.file = sweeps], sweep.ckpt)
        /\ [sweep.ckpt EXCEPT !.file = sweeps].status # "done" /\ sweep.pc # "idle"
    <3>1. sweep.pc # "idle" /\ sweeps \in 0..MaxSweeps
        BY <1>1 DEF EnsureBackup, IInv, SweepTypeOK
    <3> QED
        BY <3>1, RunningCheckpoint, CheckpointUpdates
  <2> QED
      BY <1>1, <2>1, SaveSteers DEF EnsureBackup
<1>2. CASE MarkRunning
  <2>1. [sweep.ckpt EXCEPT !.status = "running"] \in Checkpoint
        /\ SameCounts([sweep.ckpt EXCEPT !.status = "running"], sweep.ckpt)
        /\ [sweep.ckpt EXCEPT !.status = "running"].status # "done" /\ sweep.pc # "idle"
    <3>1. sweep.pc # "idle"
        BY <1>2 DEF MarkRunning
    <3> QED
        BY <3>1, RunningCheckpoint, CheckpointUpdates
  <2> QED
      BY <1>2, <2>1, SaveSteers DEF MarkRunning
<1>3. CASE NextPage
  <2> DEFINE page == First(PageSize, ForStage(sweep.stage))
             ph == [d \in Drawers |-> IF d \in page THEN "queued" ELSE "out"]
  <2>1. page \subseteq Open
    <3>1. ForStage(sweep.stage) \subseteq Open
        BY <1>3 DEF IInv, SweepTypeOK, SweepState, Modes, ForStage, Pending
    <3> QED
        BY <3>1 DEF First
  <2> HIDE DEF page
  <2>2. sweep' = [sweep EXCEPT !.pc = IF page = {} THEN "final" ELSE "evaluate", !.error = "none",
                     !.batch = {}, !.seen = NoSweep.seen, !.phase = ph]
      BY <1>3 DEF NextPage, page
  <2>3. ph \in [Drawers -> {"out", "queued", "propose", "persist", "confirm", "missing", "changed",
                            "keep", "delete", "pending", "failed"}]
      OBVIOUS
  <2>4. \A d \in Drawers : ph[d] \in {"out", "queued"} /\ (ph[d] # "out" => d \in Open)
      BY <2>1
  <2> HIDE DEF ph
  <2>5. NoSweep.seen \in [Drawers -> Versions]
      BY NoneIsNoRecord DEF NoSweep, Versions
  <2>6. /\ sweep' \in SweepState /\ sweep'.phase = ph /\ sweep'.ckpt = sweep.ckpt
        /\ sweep'.pc \in {"final", "evaluate"}
      BY <1>3, <2>2, <2>3, <2>5, RunningCheckpoint, ZenonT(60) DEF NextPage, SweepState
  <2>7. SameCounts(sweep'.ckpt, sweep.ckpt)
      BY <2>6 DEF SameCounts
  <2> QED
      BY <1>0, <1>3, <2>4, <2>6, <2>7, RunningCheckpoint DEF NextPage, Steers
<1>4. CASE PagePrepared
  <2>1. /\ sweep.pc = "evaluate"
        /\ sweep' = [sweep EXCEPT !.pc = "append"] \/ sweep' = [sweep EXCEPT !.pc = "error"]
      BY <1>4 DEF PagePrepared, Goes
  <2>2. /\ sweep' \in SweepState /\ sweep'.ckpt = sweep.ckpt /\ sweep'.pc # "idle"
        /\ sweep' = [sweep EXCEPT !.pc = "append"] \/ sweep'.pc = "error"
      BY <2>1, RunningCheckpoint DEF SweepState
  <2>3. SameCounts(sweep'.ckpt, sweep.ckpt)
      BY <2>2 DEF SameCounts
  <2> QED
      BY <1>0, <1>4, <2>1, <2>2, <2>3, RunningCheckpoint DEF PagePrepared, Steers
<1>5. CASE HandleError
  <2>1. sweep.pc # "idle" /\ UNCHANGED <<drawers, work, files, sweeps, removed, condemned, confirmed>>
      BY <1>5 DEF HandleError
  <2>2. CASE SaveStatus("waiting_llm", "wait") \/ SaveStatus("failed", "exit")
      BY <2>1, <2>2, SaveStatusSteers
  <2>3. CASE (sweep' = [sweep EXCEPT !.pc = "page", !.stage = "proposal_only"]
              \/ sweep' = [sweep EXCEPT !.pc = "page"]) /\ UNCHANGED <<ckpt, lease, mishaps>>
    <3>1. sweep' \in SweepState /\ sweep'.ckpt = sweep.ckpt /\ sweep'.pc = "page"
        BY <2>1, <2>3, RunningCheckpoint DEF SweepState, Modes
    <3>2. SameCounts(sweep'.ckpt, sweep.ckpt)
        BY <3>1 DEF SameCounts
    <3> QED
        BY <1>0, <2>1, <2>3, <3>1, <3>2, RunningCheckpoint DEF Steers
  <2> QED
      BY <1>5, <2>2, <2>3 DEF HandleError, Goes
<1>6. CASE AfterWait
    BY <1>6, SaveStatusSteers DEF AfterWait
<1>7. CASE FinishSweep
  <2>1. sweep.pc # "idle" /\ Over /\ UNCHANGED <<drawers, work, files, sweeps, mishaps, removed, condemned, confirmed>>
      BY <1>7 DEF FinishSweep
  <2>2. ckpt' = ckpt \/ ckpt' = [sweep.ckpt EXCEPT !.status = FinalStatus]
      BY <1>7 DEF FinishSweep
  <2>3. FinalStatus \in {"done", "confirm_pending", "proposal_pending"} /\ (FinalStatus = "done" => Open = {})
      BY DEF FinalStatus
  <2>4. /\ [sweep.ckpt EXCEPT !.status = FinalStatus] \in Checkpoint
        /\ SameCounts([sweep.ckpt EXCEPT !.status = FinalStatus], sweep.ckpt)
        /\ [sweep.ckpt EXCEPT !.status = FinalStatus].status = FinalStatus
    <3>1. sweep.ckpt \in Checkpoint
        BY <2>1, RunningCheckpoint
    <3>2. FinalStatus \in {"running", "waiting_llm", "failed", "proposal_pending", "confirm_pending", "done"}
        BY <2>3
    <3> QED
        BY <3>1, <3>2, CheckpointUpdates
  <2> QED
      BY <1>0, <2>1, <2>2, <2>3, <2>4 DEF Over, Steers
<1>8. CASE ApplyFails
  <2>1. /\ sweep.pc # "idle"
        /\ sweep' = [sweep EXCEPT !.pc = "error", !.error = "fatal"]
           \/ sweep' = [sweep EXCEPT !.pc = "error", !.error = "lock"]
      BY <1>8 DEF ApplyFails
  <2>2. sweep' \in SweepState /\ sweep'.ckpt = sweep.ckpt /\ sweep'.pc = "error"
      BY <2>1, RunningCheckpoint DEF SweepState
  <2>3. SameCounts(sweep'.ckpt, sweep.ckpt)
      BY <2>2 DEF SameCounts
  <2> QED
      BY <1>0, <1>8, <2>1, <2>2, <2>3, RunningCheckpoint DEF ApplyFails, Steers
<1>9. CASE KillSweep
    BY <1>0, <1>9 DEF KillSweep, Over, Steers
<1>10. CASE LoseLease \/ DaemonStops
    BY <1>0, <1>10 DEF LoseLease, DaemonStops, Steers, Holding
<1>11. CASE UNCHANGED sweepVars
    BY <1>0, <1>11 DEF sweepVars, Steers
<1> QED
    BY <1>1, <1>2, <1>3, <1>4, <1>5, <1>6, <1>7, <1>8, <1>9, <1>10, <1>11

----------------------------------------------------------------------------
\* Steps that move one item of the page through the lanes.

Judges(d) ==
    /\ sweep.pc = "evaluate" /\ sweep.phase[d] # "out"
    /\ UNCHANGED <<drawers, ckpt, files, lease, sweeps, removed>> /\ mishaps' \in Nat
    /\ sweep' \in SweepState /\ sweep'.pc = "evaluate" /\ sweep'.ckpt = sweep.ckpt
    /\ \A e \in Drawers \ {d} :
          sweep'.phase[e] = sweep.phase[e] /\ sweep'.seen[e] = sweep.seen[e] /\ work'[e] = work[e]
    /\ condemned \subseteq condemned' /\ condemned' \subseteq Drawers \X Versions
    /\ confirmed \subseteq confirmed' /\ confirmed' \subseteq Drawers \X Versions
    /\ work' \in [Drawers -> WorkItem \cup {None}]
    /\ \/ work'[d] = work[d]
       \/ /\ work'[d] = [work[d] EXCEPT !.stage = "confirm_pending"]
          /\ Rejected(d, work[d].snap)
    /\ sweep'.phase[d] \in {"propose", "persist", "confirm", "delete"} =>
          d \notin Protected /\ sweep'.seen[d] = work[d].snap
    /\ sweep'.phase[d] \in {"persist", "confirm", "delete"} => Rejected(d, sweep.seen[d])'
    /\ sweep'.phase[d] = "delete" => Confirmed(d, sweep.seen[d])'

\* Such a step keeps the invariant.
LEMMA JudgesKeepsIInv ==
    ASSUME IInv, NEW d \in Drawers, Judges(d)
    PROVE  IInv'
<1>0. /\ UNCHANGED <<drawers, ckpt, files, lease, sweeps, removed>>
      /\ sweep.pc = "evaluate" /\ sweep'.pc = "evaluate" /\ sweep'.ckpt = sweep.ckpt
      /\ condemned \subseteq condemned' /\ confirmed \subseteq confirmed'
    BY DEF Judges
<1>1. SweepTypeOK'
    BY DEF Judges, IInv, SweepTypeOK
<1>2. d \in Open /\ work[d] \in WorkItem /\ work[d] # None
    BY NoneIsNoRecord DEF Judges, IInv, PageInv, Judging, Open, Items, SweepTypeOK
<1>3. /\ work'[d] \in WorkItem /\ work'[d] # None
      /\ work'[d].snap = work[d].snap /\ work'[d].decision = work[d].decision
  <2>1. work'[d] = work[d] \/ work'[d] = [work[d] EXCEPT !.stage = "confirm_pending"]
      BY DEF Judges
  <2> QED
      BY <1>2, <2>1, NoneIsNoRecord DEF WorkItem
<1>4. \A e \in Drawers : /\ (work'[e] = None) <=> (work[e] = None)
                         /\ work'[e].snap = work[e].snap /\ work'[e].decision = work[e].decision
    BY <1>2, <1>3 DEF Judges
<1>5. Items' = Items /\ Open' = Open
    BY <1>4 DEF Items, Open
<1>6. LeaseInv' /\ MemoryInv' /\ RunInv' /\ BatchInv' /\ RemovalInv'
    BY <1>0 DEF IInv, LeaseInv, MemoryInv, RunInv, BatchInv, RemovalInv
<1>7. PageInv'
    BY <1>2, <1>5 DEF Judges, IInv, PageInv, Judging
<1>8. LaneInv'
  <2> SUFFICES ASSUME NEW e \in Drawers
               PROVE  /\ sweep'.phase[e] \in {"propose", "persist", "confirm", "delete"} =>
                            e \notin Protected /\ sweep'.seen[e] = work'[e].snap
                      /\ sweep'.phase[e] \in {"persist", "confirm", "delete"} => Rejected(e, sweep.seen[e])'
                      /\ sweep'.phase[e] = "delete" => Confirmed(e, sweep.seen[e])'
      BY DEF LaneInv
  <2>1. CASE e = d
      BY <1>3, <2>1 DEF Judges
  <2>2. CASE e # d
    <3>1. sweep'.phase[e] = sweep.phase[e] /\ sweep'.seen[e] = sweep.seen[e] /\ work'[e] = work[e]
        BY <2>2 DEF Judges
    <3> QED
        BY <1>0, <3>1 DEF IInv, LaneInv, Judging, Rejected, Confirmed
  <2> QED
      BY <2>1, <2>2
<1>9. PendingInv'
  <2> SUFFICES ASSUME NEW e \in Items, work'[e].stage = "confirm_pending"
               PROVE  Rejected(e, work[e].snap)
      BY <1>0, <1>4, <1>5 DEF PendingInv, Rejected, Items
  <2>1. CASE e = d
      BY <1>2, <2>1 DEF Judges, IInv, PendingInv, Items
  <2>2. CASE e # d
      BY <2>2 DEF Judges, IInv, PendingInv, Items
  <2> QED
      BY <2>1, <2>2
<1>10. OnlyCondemnedRemoved'
    BY <1>0 DEF IInv, OnlyCondemnedRemoved
<1>11. CheckpointAgrees'
  <2>1. {e \in Items : work[e].decision = "skip"}' = {e \in Items : work[e].decision = "skip"}
      BY <1>4, <1>5 DEF Items
  <2> QED
      BY <1>0, <1>5, <2>1 DEF IInv, CheckpointAgrees
<1> QED
    BY <1>1, <1>6, <1>7, <1>8, <1>9, <1>10, <1>11 DEF IInv

\* One item changes its phase.
Updates(d, p, v, er) == sweep' = [sweep EXCEPT !.phase[d] = p, !.seen[d] = v, !.error = er]

\* The sweep after one item changed its phase.
LEMMA PhaseUpdate ==
    ASSUME IInv, NEW d \in Drawers, sweep.pc = "evaluate",
           NEW p \in {"propose", "persist", "confirm", "missing", "changed", "keep", "delete", "pending",
                      "failed"},
           NEW v \in Versions, NEW er \in {"none", "llm", "confirm", "fatal", "lock"},
           Updates(d, p, v, er)
    PROVE  /\ sweep' \in SweepState /\ sweep'.pc = "evaluate" /\ sweep'.ckpt = sweep.ckpt
           /\ sweep'.phase[d] = p /\ sweep'.seen[d] = v
           /\ \A e \in Drawers \ {d} : sweep'.phase[e] = sweep.phase[e] /\ sweep'.seen[e] = sweep.seen[e]
BY ZenonT(60) DEF IInv, SweepTypeOK, SweepState, Updates

\* The two ways the lanes' steps write the sweep, as such updates.
LEMMA PhaseForms ==
    ASSUME IInv, NEW d \in Drawers
    PROVE  /\ sweep.seen[d] \in Versions /\ sweep.error \in {"none", "llm", "confirm", "fatal", "lock"}
           /\ \A p : Becomes(d, p) =>
                 Updates(d, p, sweep.seen[d], sweep.error)
           /\ \A e \in {"llm", "confirm", "fatal"} : Fails(d, e) =>
                 \E er \in {"none", "llm", "confirm", "fatal", "lock"} :
                    Updates(d, "failed", sweep.seen[d], er)
<1>1. sweep \in SweepState
    BY DEF IInv, SweepTypeOK
<1>2. ASSUME NEW p, Becomes(d, p)
      PROVE  Updates(d, p, sweep.seen[d], sweep.error)
    BY <1>1, <1>2 DEF Becomes, SweepState, Updates
<1>3. ASSUME NEW e \in {"llm", "confirm", "fatal"}, Fails(d, e)
      PROVE  \E er \in {"none", "llm", "confirm", "fatal", "lock"} :
                Updates(d, "failed", sweep.seen[d], er)
  <2> DEFINE er == IF sweep.error = "none" \/ (Retryable(sweep.error) /\ ~Retryable(e)) THEN e
                   ELSE sweep.error
  <2>1. sweep' = [sweep EXCEPT !.phase[d] = "failed", !.error = er]
      BY <1>3 DEF Fails
  <2>2. er \in {"none", "llm", "confirm", "fatal", "lock"}
      BY <1>1 DEF SweepState
  <2> HIDE DEF er
  <2>3. Updates(d, "failed", sweep.seen[d], er)
      BY <1>1, <2>1, <2>2 DEF SweepState, Updates
  <2> QED
      BY <2>2, <2>3
<1> QED
    BY <1>1, <1>2, <1>3 DEF SweepState

\* What an item in the lanes brings with it.
LEMMA LaneFacts ==
    ASSUME IInv, NEW d \in Drawers, sweep.pc = "evaluate", sweep.phase[d] # "out"
    PROVE  /\ work[d] \in WorkItem /\ d \in Items
           /\ sweep.phase[d] \in {"propose", "persist", "confirm", "delete"} =>
                 d \notin Protected /\ sweep.seen[d] = work[d].snap
           /\ sweep.phase[d] \in {"persist", "confirm"} => Rejected(d, sweep.seen[d])
BY NoneIsNoRecord DEF IInv, PageInv, LaneInv, Judging, Open, Items, SweepTypeOK

\* The steps of the lanes judge one item.
LEMMA LaneActions ==
    ASSUME IInv, NEW d \in Drawers,
           \/ LoadItem(d) \/ ProposalAnswers(d) \/ ProposalFails(d) \/ PersistProposal(d)
           \/ PersistLocked(d) \/ ConfirmationAnswers(d) \/ ConfirmationFails(d)
    PROVE  Judges(d)
<1>0. /\ sweep.pc = "evaluate" /\ UNCHANGED <<drawers, ckpt, files, lease, sweeps, removed>>
      /\ mishaps' \in Nat /\ sweep.phase[d] # "out"
  <2>1. CASE LoadItem(d)
      BY <2>1 DEF LoadItem, First, In, IInv, SweepTypeOK
  <2>2. CASE ~LoadItem(d)
      BY <2>2 DEF ProposalAnswers, ProposalFails, PersistProposal, PersistLocked, ConfirmationAnswers,
                  ConfirmationFails, Mishap, IInv, SweepTypeOK
  <2> QED
      BY <2>1, <2>2
<1>1. /\ work[d] \in WorkItem /\ d \in Items
      /\ sweep.phase[d] \in {"propose", "persist", "confirm", "delete"} =>
            d \notin Protected /\ sweep.seen[d] = work[d].snap
      /\ sweep.phase[d] \in {"persist", "confirm"} => Rejected(d, sweep.seen[d])
    BY <1>0, LaneFacts
<1>2. /\ condemned \subseteq Drawers \X Versions /\ confirmed \subseteq Drawers \X Versions
      /\ work \in [Drawers -> WorkItem \cup {None}] /\ sweep.seen[d] \in Versions
      /\ drawers[d].ver \in Versions
    BY DEF IInv, SweepTypeOK, SweepState
<1>3. CASE LoadItem(d)
  <2> DEFINE p == BeforeLanes(d)
  <2>1. /\ sweep' = [sweep EXCEPT !.phase[d] = p, !.seen[d] = drawers[d].ver]
        /\ UNCHANGED <<work, condemned, confirmed>>
      BY <1>3 DEF LoadItem
  <2>2. p \in {"propose", "persist", "confirm", "missing", "changed", "keep", "delete"}
      BY DEF BeforeLanes
  <2>3. p \in {"propose", "persist", "confirm", "delete"} =>
           d \notin Protected /\ drawers[d].ver = work[d].snap
      BY DEF BeforeLanes, MatchesSnapshot
  <2>4. p \in {"persist", "confirm", "delete"} => Rejected(d, drawers[d].ver)
      BY <1>1 DEF BeforeLanes, MatchesSnapshot, Rejected, IInv, PendingInv
  <2>5. p = "delete" => Confirmed(d, drawers[d].ver)
      BY DEF BeforeLanes, Confirmed
  <2> HIDE DEF p
  <2>6. Updates(d, p, drawers[d].ver, sweep.error)
        /\ sweep.error \in {"none", "llm", "confirm", "fatal", "lock"}
      BY <2>1 DEF IInv, SweepTypeOK, SweepState, Updates
  <2>7. /\ sweep' \in SweepState /\ sweep'.pc = "evaluate" /\ sweep'.ckpt = sweep.ckpt
        /\ sweep'.phase[d] = p /\ sweep'.seen[d] = drawers[d].ver
        /\ \A e \in Drawers \ {d} : sweep'.phase[e] = sweep.phase[e] /\ sweep'.seen[e] = sweep.seen[e]
      BY <1>0, <1>2, <2>2, <2>6, PhaseUpdate
  <2> QED
      BY <1>0, <1>2, <2>1, <2>3, <2>4, <2>5, <2>7 DEF Judges, Rejected, Confirmed
<1>4. ASSUME NEW p \in {"propose", "persist", "confirm", "missing", "changed", "keep", "delete", "pending",
                        "failed"},
             NEW er \in {"none", "llm", "confirm", "fatal", "lock"},
             Updates(d, p, sweep.seen[d], er)
      PROVE  /\ sweep' \in SweepState /\ sweep'.pc = "evaluate" /\ sweep'.ckpt = sweep.ckpt
             /\ sweep'.phase[d] = p /\ sweep'.seen[d] = sweep.seen[d]
             /\ \A e \in Drawers \ {d} : sweep'.phase[e] = sweep.phase[e] /\ sweep'.seen[e] = sweep.seen[e]
    BY <1>0, <1>2, <1>4, PhaseUpdate
<1>5. ASSUME NEW e \in {"llm", "confirm", "fatal"}, Fails(d, e), UNCHANGED <<work, condemned, confirmed>>
      PROVE  Judges(d)
  <2>1. \E er \in {"none", "llm", "confirm", "fatal", "lock"} :
           Updates(d, "failed", sweep.seen[d], er)
      BY <1>5, PhaseForms
  <2>2. /\ sweep' \in SweepState /\ sweep'.pc = "evaluate" /\ sweep'.ckpt = sweep.ckpt
        /\ sweep'.phase[d] = "failed"
        /\ \A x \in Drawers \ {d} : sweep'.phase[x] = sweep.phase[x] /\ sweep'.seen[x] = sweep.seen[x]
      BY <1>4, <2>1
  <2> QED
      BY <1>0, <1>2, <1>5, <2>2 DEF Judges
<1>6. ASSUME NEW p \in {"persist", "confirm", "keep", "delete", "pending"}, Becomes(d, p)
      PROVE  /\ sweep' \in SweepState /\ sweep'.pc = "evaluate" /\ sweep'.ckpt = sweep.ckpt
             /\ sweep'.phase[d] = p /\ sweep'.seen[d] = sweep.seen[d]
             /\ \A e \in Drawers \ {d} : sweep'.phase[e] = sweep.phase[e] /\ sweep'.seen[e] = sweep.seen[e]
  <2>1. /\ Updates(d, p, sweep.seen[d], sweep.error)
        /\ sweep.error \in {"none", "llm", "confirm", "fatal", "lock"}
      BY <1>6, PhaseForms
  <2> QED
      BY <1>4, <2>1
<1>7. CASE ProposalAnswers(d)
  <2>1. sweep.phase[d] = "propose" /\ work' = work /\ confirmed' = confirmed
      BY <1>7 DEF ProposalAnswers
  <2>2. CASE Becomes(d, "keep") /\ condemned' = condemned
      BY <1>0, <1>2, <1>6, <2>1, <2>2 DEF Judges
  <2>3. CASE /\ Becomes(d, IF TwoStage THEN "persist" ELSE "delete")
             /\ condemned' = condemned \cup {<<d, sweep.seen[d]>>}
    <3>1. PICK p \in {"persist", "delete"} : Becomes(d, p) /\ (p = "delete" => ~TwoStage)
        BY <2>3
    <3>2. /\ sweep' \in SweepState /\ sweep'.pc = "evaluate" /\ sweep'.ckpt = sweep.ckpt
          /\ sweep'.phase[d] = p /\ sweep'.seen[d] = sweep.seen[d]
          /\ \A e \in Drawers \ {d} : sweep'.phase[e] = sweep.phase[e] /\ sweep'.seen[e] = sweep.seen[e]
        BY <1>6, <3>1
    <3>3. condemned' \subseteq Drawers \X Versions /\ <<d, sweep.seen[d]>> \in condemned'
        BY <1>2, <2>3
    <3>4. Rejected(d, sweep.seen[d])' /\ (p = "delete" => Confirmed(d, sweep.seen[d])')
        BY <3>1, <3>2, <3>3 DEF Rejected, Confirmed
    <3> QED
        BY <1>0, <1>1, <1>2, <2>1, <2>3, <3>2, <3>3, <3>4 DEF Judges
  <2> QED
      BY <1>7, <2>2, <2>3 DEF ProposalAnswers
<1>8. CASE ProposalFails(d) \/ ConfirmationFails(d)
    BY <1>5, <1>8 DEF ProposalFails, ConfirmationFails
<1>9. CASE PersistProposal(d)
  <2>1. sweep.phase[d] = "persist" /\ UNCHANGED <<condemned, confirmed>>
      BY <1>9 DEF PersistProposal
  <2>2. CASE Holding
    <3>1. PICK p \in {"pending", "confirm"} : Becomes(d, p)
        BY <1>9, <2>2 DEF PersistProposal
    <3>2. /\ sweep' \in SweepState /\ sweep'.pc = "evaluate" /\ sweep'.ckpt = sweep.ckpt
          /\ sweep'.phase[d] = p /\ sweep'.seen[d] = sweep.seen[d]
          /\ \A e \in Drawers \ {d} : sweep'.phase[e] = sweep.phase[e] /\ sweep'.seen[e] = sweep.seen[e]
        BY <1>6, <3>1
    <3>3. /\ work' = [work EXCEPT ![d].stage = "confirm_pending"]
          /\ [work[d] EXCEPT !.stage = "confirm_pending"] \in WorkItem
        BY <1>1, <1>9, <2>2 DEF PersistProposal, WorkItem
    <3>4. /\ work' \in [Drawers -> WorkItem \cup {None}]
          /\ work'[d] = [work[d] EXCEPT !.stage = "confirm_pending"]
          /\ \A e \in Drawers \ {d} : work'[e] = work[e]
        BY <1>2, <3>3
    <3>5. Rejected(d, work[d].snap) /\ Rejected(d, sweep.seen[d])'
        BY <1>1, <2>1, <3>2 DEF Rejected
    <3> QED
        BY <1>0, <1>1, <1>2, <2>1, <3>2, <3>4, <3>5 DEF Judges
  <2>3. CASE ~Holding
      BY <1>5, <1>9, <2>3 DEF PersistProposal
  <2> QED
      BY <2>2, <2>3
<1>10. CASE PersistLocked(d)
  <2>1. Becomes(d, "keep") /\ UNCHANGED <<work, condemned, confirmed>>
      BY <1>10 DEF PersistLocked
  <2> QED
      BY <1>0, <1>2, <1>6, <2>1 DEF Judges
<1>11. CASE ConfirmationAnswers(d)
  <2>1. sweep.phase[d] = "confirm" /\ work' = work /\ condemned' = condemned
      BY <1>11 DEF ConfirmationAnswers
  <2>2. CASE Becomes(d, "keep") /\ confirmed' = confirmed
      BY <1>0, <1>2, <1>6, <2>1, <2>2 DEF Judges
  <2>3. CASE Becomes(d, "delete") /\ confirmed' = confirmed \cup {<<d, sweep.seen[d]>>}
    <3>1. /\ sweep' \in SweepState /\ sweep'.pc = "evaluate" /\ sweep'.ckpt = sweep.ckpt
          /\ sweep'.phase[d] = "delete" /\ sweep'.seen[d] = sweep.seen[d]
          /\ \A e \in Drawers \ {d} : sweep'.phase[e] = sweep.phase[e] /\ sweep'.seen[e] = sweep.seen[e]
        BY <1>6, <2>3
    <3>2. confirmed' \subseteq Drawers \X Versions /\ <<d, sweep.seen[d]>> \in confirmed'
        BY <1>2, <2>3
    <3>3. Rejected(d, sweep.seen[d])' /\ Confirmed(d, sweep.seen[d])'
        BY <1>1, <2>1, <3>1, <3>2 DEF Rejected, Confirmed
    <3> QED
        BY <1>0, <1>1, <1>2, <2>1, <2>3, <3>1, <3>2, <3>3 DEF Judges
  <2> QED
      BY <1>11, <2>2, <2>3 DEF ConfirmationAnswers
<1> QED
    BY <1>3, <1>7, <1>8, <1>9, <1>10, <1>11

----------------------------------------------------------------------------
\* The other steps: a run starts, a page is backed up and applied, and others change
\* the drawers.

\* The invariant holds before the first run.
LEMMA InitIInv == SweepInit => IInv
<1> SUFFICES ASSUME SweepInit PROVE IInv
    OBVIOUS
<1>1. SweepTypeOK
    BY NoSweepTyped, NoneIsNoRecord DEF SweepInit, SweepTypeOK, Versions
<1>2. LeaseInv /\ MemoryInv /\ RunInv /\ PageInv /\ LaneInv /\ BatchInv
    BY NoSweepTyped DEF SweepInit, LeaseInv, MemoryInv, RunInv, PageInv, LaneInv, BatchInv, Judging
<1>3. PendingInv /\ RemovalInv /\ OnlyCondemnedRemoved /\ CheckpointAgrees
    BY DEF SweepInit, PendingInv, Items, RemovalInv, OnlyCondemnedRemoved, CheckpointAgrees
<1> QED
    BY <1>1, <1>2, <1>3 DEF IInv

\* Subsets of the drawers have a cardinality.
LEMMA DrawerSets ==
    /\ \A S : S \subseteq Drawers => IsFiniteSet(S) /\ Cardinality(S) \in Nat
    /\ \A S, T : T \subseteq Drawers /\ S \subseteq T => Cardinality(S) <= Cardinality(T)
    /\ \A S, T : S \subseteq Drawers /\ T \subseteq Drawers /\ S \cap T = {} =>
          Cardinality(S \cup T) = Cardinality(S) + Cardinality(T)
    /\ \A S, T : S \subseteq Drawers /\ T \subseteq Drawers =>
          Cardinality(S \cup T) <= Cardinality(S) + Cardinality(T)
<1>1. ASSUME NEW S, S \subseteq Drawers
      PROVE  IsFiniteSet(S) /\ Cardinality(S) \in Nat
    BY <1>1, SweepAssumption, FS_Subset, FS_CardinalityType
<1>2. ASSUME NEW S, NEW T, T \subseteq Drawers, S \subseteq T
      PROVE  Cardinality(S) <= Cardinality(T)
    BY <1>1, <1>2, FS_Subset
<1>3. ASSUME NEW S, NEW T, S \subseteq Drawers, T \subseteq Drawers
      PROVE  Cardinality(S \cup T) = Cardinality(S) + Cardinality(T) - Cardinality(S \cap T)
    BY <1>1, <1>3, FS_Union
<1>4. ASSUME NEW S, NEW T, S \subseteq Drawers, T \subseteq Drawers
      PROVE  /\ Cardinality(S \cup T) <= Cardinality(S) + Cardinality(T)
             /\ S \cap T = {} => Cardinality(S \cup T) = Cardinality(S) + Cardinality(T)
  <2>1. /\ Cardinality(S) \in Nat /\ Cardinality(T) \in Nat /\ Cardinality(S \cap T) \in Nat
        /\ S \cap T = {} => Cardinality(S \cap T) = 0
      BY <1>1, <1>4, FS_EmptySet
  <2>2. Cardinality(S \cup T) = Cardinality(S) + Cardinality(T) - Cardinality(S \cap T)
      BY <1>3, <1>4
  <2> QED
      BY <2>1, <2>2
<1> QED
    BY <1>1, <1>2, <1>4

\* What the checkpoint counts as mutated, from below and from above.
RemovedInRun == {d \in Drawers : removed[d] # None /\ removed[d].run = ckpt.run}
Skipped == {d \in Items : work[d].decision = "skip"}

\* A run starts from the saved checkpoint or with a new snapshot.
LEMMA StartKeepsIInv ==
    ASSUME IInv, NEW mode \in Modes, NEW resume \in BOOLEAN, StartSweep(mode, resume)
    PROVE  IInv'
<1> DEFINE fresh == ~resume \/ ckpt = None
           loaded == [run |-> sweeps + 1, status |-> "running", scanned |-> 0, mutated |-> 0,
                      file |-> IF MayMutate(mode) THEN sweeps + 1 ELSE 0]
           items == [d \in Drawers |->
                       IF drawers[d].live THEN [snap |-> drawers[d].ver, stage |-> "none", decision |-> "open"]
                       ELSE None]
<1>1. /\ sweep.pc = "idle" /\ sweeps < MaxSweeps /\ sweeps' = sweeps + 1
      /\ lease' \in {"sqlite", "rejudge"}
      /\ UNCHANGED <<drawers, files, mishaps, removed, condemned, confirmed>>
    BY DEF StartSweep
<1>2. \/ ckpt' = loaded /\ work' = items
      \/ ckpt' = ckpt /\ work' = work /\ ckpt # None /\ ckpt.status # "done"
    BY DEF StartSweep
<1>3. /\ sweeps \in Nat /\ sweeps' \in 1..MaxSweeps /\ MaxSweeps \in Nat
    BY <1>1, NoneIsNoRecord DEF IInv, SweepTypeOK
<1>4. loaded \in Checkpoint /\ loaded # None
    BY <1>1, <1>3, NoneIsNoRecord DEF Checkpoint
<1>5. items \in [Drawers -> WorkItem \cup {None}]
    BY DEF IInv, SweepTypeOK, WorkItem
<1>6. ckpt' \in Checkpoint /\ ckpt' # None /\ ckpt'.status # "done" /\ ckpt'.run <= sweeps'
  <2>1. CASE ckpt' = loaded
      BY <1>1, <1>3, <1>4, <2>1
  <2>2. CASE ckpt' = ckpt /\ ckpt # None /\ ckpt.status # "done"
    <3>1. ckpt \in Checkpoint /\ ckpt.run <= sweeps
        BY <2>2 DEF IInv, RunInv, SweepTypeOK
    <3>2. ckpt.run \in Int
        BY <3>1, <1>3 DEF Checkpoint
    <3> QED
        BY <1>1, <1>3, <2>2, <3>1, <3>2
  <2> QED
      BY <1>2, <2>1, <2>2
<1>7. /\ sweep' \in SweepState /\ sweep'.pc \in {"backup", "mark"} /\ sweep'.ckpt = ckpt'
  <2>1. PICK pc \in {"backup", "mark"} :
           sweep' = [NoSweep EXCEPT !.mode = mode, !.stage = mode, !.ckpt = ckpt', !.pc = pc]
      BY DEF StartSweep
  <2> QED
      BY <1>6, <2>1, NoSweepTyped DEF SweepState
<1>8. SweepTypeOK'
    BY <1>1, <1>2, <1>3, <1>5, <1>6, <1>7 DEF IInv, SweepTypeOK
<1>9. LeaseInv' /\ MemoryInv' /\ PageInv' /\ LaneInv' /\ BatchInv'
    BY <1>1, <1>6, <1>7 DEF LeaseInv, MemoryInv, PageInv, LaneInv, BatchInv, Judging
<1>10. RunInv' /\ \A d \in Drawers : removed[d] # None => removed[d].run \in Nat /\ removed[d].run <= sweeps
  <2>1. ASSUME NEW d \in Drawers, removed[d] # None
        PROVE  removed[d].run \in Nat /\ removed[d].run <= sweeps
      BY <1>3, <2>1 DEF IInv, RunInv, SweepTypeOK, Removal
  <2> QED
      BY <1>1, <1>3, <1>6, <2>1 DEF RunInv
<1>11. RemovalInv' /\ OnlyCondemnedRemoved'
    BY <1>1 DEF IInv, RemovalInv, OnlyCondemnedRemoved
<1>12. PendingInv' /\ CheckpointAgrees'
  <2>1. CASE ckpt' = loaded /\ work' = items
    <3>1. \A d \in Drawers : work'[d] # None => work'[d].stage = "none" /\ work'[d].decision = "open"
        BY <2>1
    <3>2. (Items \ Open)' = {}
        BY <3>1 DEF Items, Open
    <3>3. RemovedInRun' = {}
        BY <1>1, <1>3, <1>10, <2>1 DEF RemovedInRun
    <3>4. Cardinality({}) = 0
        BY FS_EmptySet
    <3>5. Cardinality(Skipped)' \in Nat
        BY DrawerSets DEF Items, Skipped
    <3>6. ckpt'.scanned = 0 /\ ckpt'.mutated = 0 /\ ckpt'.status # "done"
        BY <2>1
    <3>7. PendingInv'
        BY <3>1 DEF PendingInv, Items
    <3> HIDE DEF loaded, items
    <3>8. (ckpt.scanned = Cardinality(Items \ Open))'
        BY <3>2, <3>4, <3>6
    <3>9. (Cardinality(RemovedInRun) <= ckpt.mutated)'
        BY <3>3, <3>4, <3>6
    <3>10. (ckpt.mutated <= Cardinality(Skipped))'
        BY <3>5, <3>6
    <3> QED
        BY <3>6, <3>7, <3>8, <3>9, <3>10 DEF CheckpointAgrees, RemovedInRun, Skipped
  <2>2. CASE ckpt' = ckpt /\ work' = work
      BY <1>1, <2>2 DEF IInv, PendingInv, CheckpointAgrees, Items, Open, Rejected
  <2> QED
      BY <1>2, <2>1, <2>2
<1> QED
    BY <1>8, <1>9, <1>10, <1>11, <1>12 DEF IInv

\* A page's condemned drawers are compared and written to the backup.
LEMMA AppendKeepsIInv == ASSUME IInv, AppendBackup PROVE IInv'
<1> DEFINE doomed == In({"delete"})
           batch == {d \in doomed : drawers[d].live /\ drawers[d].ver = sweep.seen[d]}
           ph == [d \in Drawers |-> IF d \in doomed \ batch THEN "changed" ELSE sweep.phase[d]]
<1>0. /\ sweep.pc = "append"
      /\ UNCHANGED <<drawers, work, ckpt, lease, sweeps, mishaps, removed, condemned, confirmed>>
    BY DEF AppendBackup
<1>1. sweep \in SweepState /\ sweep.ckpt \in Checkpoint /\ sweep.ckpt.status # "done"
    BY <1>0, RunningCheckpoint
<1>2. Items' = Items /\ Open' = Open
    BY <1>0 DEF Items, Open
<1>3. batch \subseteq Drawers /\ \A d \in Drawers : d \in doomed <=> sweep.phase[d] = "delete"
    BY DEF In
<1>4. CASE batch # {} /\ sweep.ckpt.file = 0
  <2>1. sweep' = [sweep EXCEPT !.pc = "error", !.error = "fatal"] /\ files' = files
      BY <1>4 DEF AppendBackup
  <2>2. sweep' \in SweepState /\ sweep'.pc = "error" /\ sweep'.ckpt = sweep.ckpt
      BY <1>1, <2>1 DEF SweepState
  <2>3. SameCounts(sweep'.ckpt, sweep.ckpt)
      BY <2>2 DEF SameCounts
  <2>4. Steers
      BY <1>0, <1>1, <2>1, <2>2, <2>3, RunningCheckpoint DEF Steers, IInv, SweepTypeOK
  <2> QED
      BY <2>4, SteersKeepsIInv
<1>5. CASE ~(batch # {} /\ sweep.ckpt.file = 0)
  <2>1. /\ files' = [f \in DOMAIN files |-> [d \in Drawers |->
                        IF f = sweep.ckpt.file /\ d \in batch THEN drawers[d].ver ELSE files[f][d]]]
        /\ sweep' = [sweep EXCEPT !.pc = "apply", !.batch = batch, !.phase = ph]
      BY <1>1, <1>5 DEF AppendBackup, SweepState
  <2>2. ph \in [Drawers -> {"out", "queued", "propose", "persist", "confirm", "missing", "changed",
                            "keep", "delete", "pending", "failed"}]
      BY <1>1 DEF SweepState
  <2>3. /\ \A d \in Drawers : ph[d] = sweep.phase[d] \/ (ph[d] = "changed" /\ sweep.phase[d] = "delete")
        /\ \A d \in batch : ph[d] = "delete" /\ drawers[d].live /\ drawers[d].ver = sweep.seen[d]
      BY <1>3
  <2>4. \A f \in 1..MaxSweeps : \A d \in Drawers :
           files'[f][d] = IF f = sweep.ckpt.file /\ d \in batch THEN drawers[d].ver ELSE files[f][d]
      BY <2>1 DEF IInv, SweepTypeOK
  <2>5. files' \in [1..MaxSweeps -> [Drawers -> Versions \cup {None}]]
      BY <2>1 DEF IInv, SweepTypeOK
  <2>6. batch = {} \/ sweep.ckpt.file \in 1..MaxSweeps
      BY <1>1, <1>5, NoneIsNoRecord DEF Checkpoint
  <2> HIDE DEF batch, ph, doomed
  <2>7. /\ sweep' \in SweepState /\ sweep'.pc = "apply" /\ sweep'.ckpt = sweep.ckpt
        /\ sweep'.batch = batch /\ sweep'.phase = ph /\ sweep'.seen = sweep.seen
      BY <1>1, <1>3, <2>1, <2>2 DEF SweepState
  <2>8. SweepTypeOK'
      BY <1>0, <2>5, <2>7 DEF IInv, SweepTypeOK
  <2>9. LeaseInv' /\ MemoryInv' /\ RunInv' /\ OnlyCondemnedRemoved'
      BY <1>0, <2>7 DEF IInv, LeaseInv, MemoryInv, RunInv, OnlyCondemnedRemoved
  <2>10. CheckpointAgrees' /\ PendingInv'
      BY <1>0, <1>2 DEF IInv, CheckpointAgrees, PendingInv, Rejected
  <2>11. PageInv'
      BY <1>0, <1>2, <2>3, <2>7 DEF IInv, PageInv, Judging
  <2>12. LaneInv'
      BY <1>0, <2>3, <2>7 DEF IInv, LaneInv, Judging, Rejected, Confirmed
  <2>13. BatchInv'
      BY <1>3, <2>3, <2>4, <2>6, <2>7 DEF BatchInv
  <2>14. RemovalInv'
    <3> SUFFICES ASSUME NEW d \in Drawers, removed[d] # None
                 PROVE  /\ ~drawers[d].live /\ removed[d].file # 0
                        /\ files'[removed[d].file][d] = removed[d].ver
        BY <1>0 DEF RemovalInv
    <3>1. /\ ~drawers[d].live /\ removed[d].file # 0
          /\ files[removed[d].file][d] = removed[d].ver
        BY DEF IInv, RemovalInv
    <3>2. removed[d].file \in 1..MaxSweeps
        BY <3>1, NoneIsNoRecord DEF IInv, SweepTypeOK, Removal
    <3>3. d \notin batch
        BY <2>3, <3>1
    <3> QED
        BY <2>4, <3>1, <3>2, <3>3
  <2> QED
      BY <2>8, <2>9, <2>10, <2>11, <2>12, <2>13, <2>14 DEF IInv
<1> QED
    BY <1>4, <1>5

\* What a page that is applied decides and removes.
LEMMA PageSets ==
    ASSUME IInv, sweep.pc = "apply"
    PROVE  /\ Processed \subseteq Open /\ Unchanged \subseteq Processed /\ Open \subseteq Items /\ Items \subseteq Drawers
           /\ \A d \in Processed : /\ sweep.phase[d] \in {"missing", "changed", "keep", "delete"}
                                   /\ Decided(d) \in WorkItem /\ Decided(d).snap = work[d].snap
                                   /\ Decided(d).stage = "none" /\ Decided(d).decision # "open"
           /\ \A d \in Unchanged :
                 /\ Decided(d).decision = "skip" /\ drawers[d].live /\ removed[d] = None
                 /\ sweep.ckpt.file \in 1..MaxSweeps
                 /\ files[sweep.ckpt.file][d] = drawers[d].ver /\ drawers[d].ver = sweep.seen[d]
                 /\ d \notin Protected /\ Rejected(d, drawers[d].ver) /\ Confirmed(d, drawers[d].ver)
<1>0. sweep \in SweepState /\ sweep.ckpt \in Checkpoint
    BY RunningCheckpoint
<1>1. Open \subseteq Items /\ Items \subseteq Drawers
    BY DEF Open, Items
<1>2. ASSUME NEW d \in Processed
      PROVE  d \in Drawers /\ d \in Open /\ sweep.phase[d] \in {"missing", "changed", "keep", "delete"}
    BY DEF Processed, Judged, In, IInv, PageInv, Judging
<1>3. ASSUME NEW d \in Processed
      PROVE  /\ Decided(d) \in WorkItem /\ Decided(d).snap = work[d].snap
             /\ Decided(d).stage = "none" /\ Decided(d).decision # "open"
             /\ sweep.phase[d] = "delete" => Decided(d).decision = "skip"
  <2>1. work[d] \in WorkItem
      BY <1>1, <1>2 DEF Items, IInv, SweepTypeOK
  <2>2. work[d].snap \in Versions
      BY <2>1 DEF WorkItem
  <2> QED
      BY <1>2, <2>2 DEF Decided, WorkItem
<1>4. ASSUME NEW d \in Unchanged
      PROVE  /\ d \in Drawers /\ sweep.phase[d] = "delete" /\ drawers[d].live
             /\ sweep.ckpt.file # 0 /\ files[sweep.ckpt.file][d] = drawers[d].ver
             /\ files[sweep.ckpt.file][d] = sweep.seen[d]
    BY <1>0 DEF Unchanged, MatchesBackup, IInv, BatchInv, SweepState
<1>5. ASSUME NEW d \in Unchanged
      PROVE  /\ d \in Processed /\ removed[d] = None /\ sweep.ckpt.file \in 1..MaxSweeps
             /\ d \notin Protected /\ Rejected(d, drawers[d].ver) /\ Confirmed(d, drawers[d].ver)
  <2>1. d \in Processed
      BY <1>4 DEF Processed, Judged, In
  <2>2. removed[d] = None
      BY <1>4 DEF IInv, RemovalInv
  <2>3. sweep.ckpt.file \in 1..MaxSweeps
      BY <1>0, <1>4, NoneIsNoRecord DEF Checkpoint
  <2>4. d \notin Protected /\ Rejected(d, sweep.seen[d]) /\ Confirmed(d, sweep.seen[d])
      BY <1>4 DEF IInv, LaneInv, Judging
  <2> QED
      BY <1>4, <2>1, <2>2, <2>3, <2>4
<1> QED
    BY <1>1, <1>2, <1>3, <1>4, <1>5

\* The checkpoint of the next page.
Counted(c, a, b) == [c EXCEPT !.scanned = @ + a, !.mutated = @ + b]

\* It counts what the page decided.
LEMMA CheckpointCounts ==
    ASSUME NEW c \in Checkpoint, NEW a \in Nat, NEW b \in Nat
    PROVE  /\ Counted(c, a, b) \in Checkpoint
           /\ Counted(c, a, b).run = c.run /\ Counted(c, a, b).status = c.status
           /\ Counted(c, a, b).scanned = c.scanned + a /\ Counted(c, a, b).mutated = c.mutated + b
<1>1. c.scanned + a \in Nat /\ c.mutated + b \in Nat
    BY DEF Checkpoint
<1> QED
    BY <1>1 DEF Checkpoint, Counted

\* The transaction of a page.
LEMMA ApplyKeepsIInv == ASSUME IInv, ApplyPage PROVE IInv'
<1>0. sweep.pc = "apply" /\ UNCHANGED <<files, lease, sweeps, mishaps, condemned, confirmed>>
    BY DEF ApplyPage
<1>1. sweep \in SweepState /\ sweep.ckpt \in Checkpoint /\ sweep.ckpt.status # "done" /\ lease # "free"
    BY <1>0, RunningCheckpoint
<1>2. CASE ~Holding
  <2>1. /\ sweep' = [sweep EXCEPT !.pc = "error", !.error = "fatal"]
        /\ UNCHANGED <<drawers, removed, work, ckpt>>
      BY <1>2 DEF ApplyPage
  <2>2. sweep' \in SweepState /\ sweep'.pc = "error" /\ sweep'.ckpt = sweep.ckpt
      BY <1>1, <2>1 DEF SweepState
  <2>3. SameCounts(sweep'.ckpt, sweep.ckpt)
      BY <2>2 DEF SameCounts
  <2>4. Steers
      BY <1>0, <1>1, <2>1, <2>2, <2>3, RunningCheckpoint DEF Steers, IInv, SweepTypeOK
  <2> QED
      BY <2>4, SteersKeepsIInv
<1>3. CASE Holding
  <2>1. /\ drawers' = [d \in Drawers |-> IF d \in Unchanged THEN [drawers[d] EXCEPT !.live = FALSE] ELSE drawers[d]]
        /\ removed' = [d \in Drawers |->
              IF d \in Unchanged THEN [ver |-> drawers[d].ver, file |-> sweep.ckpt.file, run |-> sweep.ckpt.run]
              ELSE removed[d]]
        /\ work' = [d \in Drawers |-> IF d \in Processed THEN Decided(d) ELSE work[d]]
        /\ ckpt' = NextCheckpoint
        /\ sweep' = [sweep EXCEPT !.ckpt = NextCheckpoint, !.pc = IF sweep.error = "none" THEN "page" ELSE "error"]
      BY <1>3 DEF ApplyPage
  <2>2. /\ Processed \subseteq Open /\ Unchanged \subseteq Processed /\ Open \subseteq Items /\ Items \subseteq Drawers
        /\ Processed \subseteq Drawers /\ Unchanged \subseteq Drawers
      BY <1>0, PageSets
  <2>3. /\ Cardinality(Processed) \in Nat /\ Cardinality(Unchanged) \in Nat
      BY <2>2, DrawerSets
  <2>4. /\ NextCheckpoint \in Checkpoint /\ NextCheckpoint.run = sweep.ckpt.run
        /\ NextCheckpoint.status = sweep.ckpt.status
        /\ NextCheckpoint.scanned = sweep.ckpt.scanned + Cardinality(Processed)
        /\ NextCheckpoint.mutated = sweep.ckpt.mutated + Cardinality(Unchanged)
    <3>1. NextCheckpoint = Counted(sweep.ckpt, Cardinality(Processed), Cardinality(Unchanged))
        BY DEF NextCheckpoint, Counted
    <3> QED
        BY <1>1, <2>3, <3>1, CheckpointCounts
  <2>5. /\ sweep' \in SweepState /\ sweep'.pc \in {"page", "error"} /\ sweep'.ckpt = NextCheckpoint
      BY <1>1, <2>1, <2>4 DEF SweepState
  <2>6. SweepTypeOK'
    <3>1. drawers' \in [Drawers -> [ver : Versions, live : BOOLEAN]]
        BY <2>1 DEF IInv, SweepTypeOK
    <3>2. work' \in [Drawers -> WorkItem \cup {None}]
      <4>1. \A d \in Processed : Decided(d) \in WorkItem
          BY <1>0, PageSets
      <4> QED
          BY <2>1, <4>1 DEF IInv, SweepTypeOK
    <3>3. removed' \in [Drawers -> Removal \cup {None}]
      <4>1. ASSUME NEW d \in Drawers
            PROVE  [ver |-> drawers[d].ver, file |-> sweep.ckpt.file, run |-> sweep.ckpt.run] \in Removal
          BY <1>1 DEF Checkpoint, Removal, IInv, SweepTypeOK
      <4> QED
          BY <2>1, <4>1 DEF IInv, SweepTypeOK
    <3> QED
        BY <1>0, <2>1, <2>4, <2>5, <3>1, <3>2, <3>3 DEF IInv, SweepTypeOK
  <2>7. ckpt \in Checkpoint /\ ckpt # None /\ ckpt' # None /\ ckpt'.run = ckpt.run /\ ckpt'.status # "done"
      BY <1>0, <1>1, <2>1, <2>4, NoneIsNoRecord DEF IInv, MemoryInv, SweepTypeOK
  <2>8. LeaseInv' /\ MemoryInv' /\ PageInv' /\ LaneInv' /\ BatchInv'
      BY <1>0, <1>1, <2>1, <2>5, <2>7
      DEF LeaseInv, MemoryInv, PageInv, LaneInv, BatchInv, Judging
  <2>9. ASSUME NEW d \in Drawers
        PROVE  /\ d \in Unchanged => /\ removed'[d] # None /\ removed'[d].ver = drawers[d].ver
                                      /\ removed'[d].file = sweep.ckpt.file /\ removed'[d].run = ckpt.run
                                      /\ ~drawers'[d].live
               /\ d \notin Unchanged => removed'[d] = removed[d] /\ drawers'[d] = drawers[d]
    <3>1. CASE d \in Unchanged
      <4>1. removed'[d] = [ver |-> drawers[d].ver, file |-> sweep.ckpt.file, run |-> sweep.ckpt.run]
          BY <2>1, <3>1
      <4>2. removed'[d] \in Removal
          BY <1>1, <4>1 DEF Checkpoint, Removal, IInv, SweepTypeOK
      <4>3. sweep.ckpt.run = ckpt.run
          BY <1>0 DEF IInv, MemoryInv
      <4>4. ~drawers'[d].live
          BY <2>1, <3>1 DEF IInv, SweepTypeOK
      <4> QED
          BY <3>1, <4>1, <4>2, <4>3, <4>4, NoneIsNoRecord
    <3>2. CASE d \notin Unchanged
        BY <2>1, <3>2
    <3> QED
        BY <3>1, <3>2
  <2>10. RunInv'
      BY <1>0, <2>7, <2>9 DEF IInv, RunInv
  <2>11. RemovalInv' /\ OnlyCondemnedRemoved'
    <3> SUFFICES ASSUME NEW d \in Drawers, removed'[d] # None
                 PROVE  /\ ~drawers'[d].live /\ removed'[d].file # 0
                        /\ files'[removed'[d].file][d] = removed'[d].ver
                        /\ d \notin Protected
                        /\ Rejected(d, removed'[d].ver) /\ Confirmed(d, removed'[d].ver)
        BY <1>0, SweepAssumption DEF RemovalInv, OnlyCondemnedRemoved, Rejected, Confirmed
    <3>1. CASE d \in Unchanged
      <4>1. /\ sweep.ckpt.file \in 1..MaxSweeps /\ files[sweep.ckpt.file][d] = drawers[d].ver
            /\ d \notin Protected /\ Rejected(d, drawers[d].ver) /\ Confirmed(d, drawers[d].ver)
          BY <1>0, <3>1, PageSets
      <4>2. sweep.ckpt.file # 0
          BY <4>1, NoneIsNoRecord
      <4> QED
          BY <1>0, <2>9, <3>1, <4>1, <4>2
    <3>2. CASE d \notin Unchanged
      <4>1. removed'[d] = removed[d] /\ drawers'[d] = drawers[d]
          BY <2>9, <3>2
      <4> QED
          BY <1>0, <4>1, SweepAssumption DEF IInv, RemovalInv, OnlyCondemnedRemoved, Rejected, Confirmed
    <3> QED
        BY <3>1, <3>2
  <2>12. ASSUME NEW d \in Drawers
         PROVE  /\ d \in Processed => /\ work'[d] # None /\ work'[d].stage = "none"
                                       /\ work'[d].decision # "open"
                /\ d \notin Processed => work'[d] = work[d]
                /\ d \in Unchanged => work'[d].decision = "skip"
    <3>1. work'[d] = IF d \in Processed THEN Decided(d) ELSE work[d]
        BY <2>1
    <3> QED
        BY <1>0, <2>2, <3>1, PageSets, NoneIsNoRecord
  <2>13. Items' = Items /\ Open' = Open \ Processed
      BY <2>2, <2>12 DEF Items, Open
  <2>14. PendingInv'
    <3> SUFFICES ASSUME NEW d \in Items, work'[d].stage = "confirm_pending"
                 PROVE  Rejected(d, work[d].snap) /\ work'[d] = work[d]
        BY <1>0, <2>13 DEF PendingInv, Rejected
    <3> QED
        BY <2>2, <2>12 DEF IInv, PendingInv
  <2>15. ckpt'.scanned = Cardinality(Items' \ Open')
    <3>1. /\ Items' \ Open' = (Items \ Open) \cup Processed /\ (Items \ Open) \cap Processed = {}
          /\ Items \ Open \subseteq Drawers
        BY <2>2, <2>13
    <3>2. Cardinality(Items' \ Open') = Cardinality(Items \ Open) + Cardinality(Processed)
        BY <2>2, <3>1, DrawerSets
    <3> QED
        BY <1>0, <2>1, <2>4, <2>7, <3>2 DEF IInv, MemoryInv, CheckpointAgrees
  <2>16. Cardinality(RemovedInRun)' <= ckpt'.mutated
    <3>1. RemovedInRun' \subseteq RemovedInRun \cup Unchanged
        BY <2>7, <2>9 DEF RemovedInRun
    <3>2. RemovedInRun \subseteq Drawers
        BY DEF RemovedInRun
    <3>3. /\ Cardinality(RemovedInRun') <= Cardinality(RemovedInRun \cup Unchanged)
          /\ Cardinality(RemovedInRun \cup Unchanged) <= Cardinality(RemovedInRun) + Cardinality(Unchanged)
        BY <2>2, <3>1, <3>2, DrawerSets
    <3>4. /\ Cardinality(RemovedInRun') \in Nat /\ Cardinality(RemovedInRun) \in Nat
          /\ Cardinality(RemovedInRun \cup Unchanged) \in Nat
        BY <2>2, <3>1, <3>2, DrawerSets
    <3>5. Cardinality(RemovedInRun) <= ckpt.mutated
        BY <2>7 DEF IInv, CheckpointAgrees, RemovedInRun
    <3>6. ckpt'.mutated = ckpt.mutated + Cardinality(Unchanged) /\ ckpt.mutated \in Nat
        BY <1>0, <2>1, <2>4, <2>7 DEF IInv, MemoryInv, Checkpoint
    <3> QED
        BY <2>3, <3>3, <3>4, <3>5, <3>6
  <2>17. ckpt'.mutated <= Cardinality(Skipped)'
    <3>1. Skipped \subseteq Items \ Open
        BY DEF Skipped, Open
    <3>2. Skipped \cup Unchanged \subseteq Skipped' /\ Skipped \cap Unchanged = {} /\ Skipped' \subseteq Drawers
        BY <2>2, <2>12, <2>13, <3>1 DEF Skipped
    <3>3. /\ Cardinality(Skipped \cup Unchanged) <= Cardinality(Skipped')
          /\ Cardinality(Skipped \cup Unchanged) = Cardinality(Skipped) + Cardinality(Unchanged)
          /\ Cardinality(Skipped) \in Nat /\ Cardinality(Skipped') \in Nat
        BY <2>2, <3>1, <3>2, DrawerSets
    <3>4. ckpt.mutated <= Cardinality(Skipped)
        BY <2>7 DEF IInv, CheckpointAgrees, Skipped
    <3>5. ckpt'.mutated = ckpt.mutated + Cardinality(Unchanged) /\ ckpt.mutated \in Nat
        BY <1>0, <2>1, <2>4, <2>7 DEF IInv, MemoryInv, Checkpoint
    <3> QED
        BY <2>3, <3>3, <3>4, <3>5
  <2>18. CheckpointAgrees'
      BY <2>7, <2>15, <2>16, <2>17 DEF CheckpointAgrees, RemovedInRun, Skipped
  <2> QED
      BY <2>6, <2>8, <2>10, <2>11, <2>14, <2>18 DEF IInv
<1> QED
    BY <1>2, <1>3

\* Others change a live drawer.
LEMMA EditKeepsIInv == ASSUME IInv, NEW d \in Drawers, EditDrawer(d) PROVE IInv'
<1>0. /\ drawers[d].live
      /\ UNCHANGED <<work, ckpt, files, sweep, lease, sweeps, mishaps, removed, condemned, confirmed>>
      /\ Items' = Items /\ Open' = Open
    BY DEF EditDrawer, Items, Open
<1>1. drawers' \in [Drawers -> [ver : Versions, live : BOOLEAN]]
  <2>1. drawers[d].ver < MaxVersions => drawers[d].ver + 1 \in Versions
      BY NoneIsNoRecord DEF IInv, SweepTypeOK, Versions
  <2> QED
      BY <2>1, ZenonT(60) DEF EditDrawer, IInv, SweepTypeOK
<1>2. \A e \in Drawers \ {d} : drawers'[e] = drawers[e]
    BY DEF EditDrawer, IInv, SweepTypeOK
<1>3. SweepTypeOK'
    BY <1>0, <1>1 DEF IInv, SweepTypeOK
<1>4. LeaseInv' /\ MemoryInv' /\ RunInv' /\ PageInv' /\ LaneInv' /\ PendingInv' /\ BatchInv'
    BY <1>0 DEF IInv, LeaseInv, MemoryInv, RunInv, PageInv, LaneInv, PendingInv, BatchInv, Judging,
                Rejected, Confirmed
<1>5. RemovalInv'
    BY <1>0, <1>2 DEF IInv, RemovalInv
<1>6. OnlyCondemnedRemoved' /\ CheckpointAgrees'
    BY <1>0 DEF IInv, OnlyCondemnedRemoved, CheckpointAgrees
<1> QED
    BY <1>3, <1>4, <1>5, <1>6 DEF IInv

\* A drawer is restored, between runs.
LEMMA RestoreKeepsIInv ==
    ASSUME IInv, NEW f \in DOMAIN files, NEW d \in Drawers, RestoreItem(f, d)
    PROVE  IInv'
<1>0. /\ lease = "free" /\ files[f][d] # None
      /\ UNCHANGED <<work, ckpt, files, sweep, lease, sweeps, mishaps, condemned, confirmed>>
      /\ Items' = Items /\ Open' = Open /\ Skipped' = Skipped
    BY DEF RestoreItem, Items, Open, Skipped
<1>1. sweep.pc = "idle"
    BY <1>0 DEF IInv, LeaseInv
<1>2. /\ drawers' \in [Drawers -> [ver : Versions, live : BOOLEAN]]
      /\ \A e \in Drawers \ {d} : drawers'[e] = drawers[e]
  <2>1. files[f][d] \in Versions
      BY <1>0 DEF IInv, SweepTypeOK
  <2> QED
      BY <2>1 DEF RestoreItem, IInv, SweepTypeOK
<1>3. /\ removed' \in [Drawers -> Removal \cup {None}] /\ removed'[d] = None
      /\ \A e \in Drawers \ {d} : removed'[e] = removed[e]
    BY DEF RestoreItem, IInv, SweepTypeOK
<1>4. SweepTypeOK'
    BY <1>0, <1>2, <1>3 DEF IInv, SweepTypeOK
<1>5. LeaseInv' /\ MemoryInv' /\ PageInv' /\ LaneInv' /\ PendingInv' /\ BatchInv'
    BY <1>0, <1>1 DEF IInv, LeaseInv, MemoryInv, PageInv, LaneInv, PendingInv, BatchInv, Judging, Rejected
<1>6. RunInv' /\ RemovalInv' /\ OnlyCondemnedRemoved'
    BY <1>0, <1>2, <1>3 DEF IInv, RunInv, RemovalInv, OnlyCondemnedRemoved
<1>7. CheckpointAgrees'
  <2> SUFFICES ASSUME ckpt # None
               PROVE  Cardinality(RemovedInRun') <= ckpt.mutated
      BY <1>0 DEF IInv, CheckpointAgrees, RemovedInRun
  <2>1. RemovedInRun' \subseteq RemovedInRun /\ RemovedInRun \subseteq Drawers
      BY <1>0, <1>3 DEF RemovedInRun
  <2>2. /\ Cardinality(RemovedInRun') <= Cardinality(RemovedInRun)
        /\ Cardinality(RemovedInRun') \in Nat /\ Cardinality(RemovedInRun) \in Nat
      BY <2>1, DrawerSets
  <2>3. Cardinality(RemovedInRun) <= ckpt.mutated /\ ckpt.mutated \in Nat
      BY DEF IInv, CheckpointAgrees, RemovedInRun, SweepTypeOK, Checkpoint
  <2> QED
      BY <2>2, <2>3
<1> QED
    BY <1>4, <1>5, <1>6, <1>7 DEF IInv

----------------------------------------------------------------------------
\* Every step keeps the invariant.
LEMMA NextIInv == IInv /\ [SweepNext]_sweepVars => IInv'
<1> SUFFICES ASSUME IInv, [SweepNext]_sweepVars PROVE IInv'
    OBVIOUS
<1>1. CASE \E mode \in Modes, resume \in BOOLEAN : StartSweep(mode, resume)
    BY <1>1, StartKeepsIInv
<1>2. CASE \/ EnsureBackup \/ MarkRunning \/ NextPage \/ PagePrepared \/ HandleError \/ AfterWait
           \/ FinishSweep \/ ApplyFails \/ KillSweep \/ LoseLease \/ DaemonStops \/ UNCHANGED sweepVars
    BY <1>2, SteeringActions, SteersKeepsIInv
<1>3. CASE AppendBackup
    BY <1>3, AppendKeepsIInv
<1>4. CASE ApplyPage
    BY <1>4, ApplyKeepsIInv
<1>5. CASE \E d \in Drawers : \/ LoadItem(d) \/ ProposalAnswers(d) \/ ProposalFails(d)
                              \/ PersistProposal(d) \/ PersistLocked(d)
                              \/ ConfirmationAnswers(d) \/ ConfirmationFails(d)
    BY <1>5, LaneActions, JudgesKeepsIInv
<1>6. CASE \E d \in Edited : EditDrawer(d)
    BY <1>6, EditKeepsIInv, SweepAssumption
<1>7. CASE \E f \in DOMAIN files, d \in Drawers : RestoreItem(f, d)
    BY <1>7, RestoreKeepsIInv
<1> QED
    BY <1>1, <1>2, <1>3, <1>4, <1>5, <1>6, <1>7 DEF SweepNext, SweepStep

\* The inductive invariant holds in every state of the sweep.
LEMMA SweepIInv == SweepSpec => []IInv
BY InitIInv, NextIInv, PTL DEF SweepSpec

\* What rejudge --all removed can be restored: its backup file has it at the content
\* it had, however the command was killed, fenced off and resumed.
THEOREM SweepRemovedIsRestorable == SweepSpec => []RemovedIsRestorable
<1>1. IInv => RemovedIsRestorable
    BY DEF IInv, RemovalInv, RemovedIsRestorable
<1> QED
    BY <1>1, SweepIInv, PTL

\* No drawer is removed but for content that the tier rejects or that both lanes have
\* condemned, also when the proposal is an earlier run's.
THEOREM SweepOnlyCondemnedRemoved == SweepSpec => []OnlyCondemnedRemoved
<1>1. IInv => OnlyCondemnedRemoved
    BY DEF IInv
<1> QED
    BY <1>1, SweepIInv, PTL

\* The saved checkpoint counts what the work items say, and says done only when no
\* item is open.
THEOREM SweepCheckpointAgrees == SweepSpec => []CheckpointAgrees
<1>1. IInv => CheckpointAgrees
    BY DEF IInv
<1> QED
    BY <1>1, SweepIInv, PTL

----------------------------------------------------------------------------
\* A step that puts no item in the proposal lane.
AsksNobody == \A d \in Drawers : sweep'.phase[d] = sweep.phase[d] \/ sweep'.phase[d] # "propose"

\* Only loading an item may put it in the proposal lane.
LEMMA OnlyLoadingAsks ==
    ASSUME IInv, [SweepNext]_sweepVars
    PROVE  AsksNobody \/ \E d \in Drawers : LoadItem(d)
<1>0. sweep \in SweepState
    BY DEF IInv, SweepTypeOK
<1>1. ASSUME sweep' = NoSweep PROVE AsksNobody
    BY <1>1, NoSweepTyped DEF AsksNobody
<1>2. ASSUME sweep'.phase = sweep.phase PROVE AsksNobody
    BY <1>2 DEF AsksNobody
<1>3. ASSUME NEW mode, NEW resume, StartSweep(mode, resume) PROVE AsksNobody
  <2>1. sweep'.phase = NoSweep.phase
    <3>1. \E pc : sweep' = [NoSweep EXCEPT !.mode = mode, !.stage = mode, !.ckpt = ckpt', !.pc = pc]
        BY <1>3 DEF StartSweep
    <3> QED
        BY <3>1, NoSweepTyped DEF SweepState
  <2> QED
      BY <2>1, NoSweepTyped DEF AsksNobody
<1>4. CASE EnsureBackup \/ MarkRunning
  <2>1. sweep' = NoSweep \/ \E c, pc : sweep' = [sweep EXCEPT !.ckpt = c, !.pc = pc]
      BY <1>4 DEF EnsureBackup, MarkRunning, Save, Over
  <2> QED
      BY <1>0, <1>1, <1>2, <2>1 DEF SweepState
<1>5. ASSUME NEW status, NEW then, SaveStatus(status, then) PROVE AsksNobody
  <2>1. \/ sweep' = NoSweep
        \/ \E c, pc : sweep' = [sweep EXCEPT !.ckpt = c, !.pc = pc]
        \/ sweep' = [sweep EXCEPT !.pc = "page", !.ckpt = IF status = "failed" THEN @
                                                       ELSE [sweep.ckpt EXCEPT !.status = status]]
      BY <1>5 DEF SaveStatus, Over
  <2> QED
      BY <1>0, <1>1, <1>2, <2>1 DEF SweepState
<1>6. CASE HandleError \/ AfterWait
  <2>1. \/ \E status, then : SaveStatus(status, then)
        \/ sweep' = [sweep EXCEPT !.pc = "page", !.stage = "proposal_only"]
        \/ sweep' = [sweep EXCEPT !.pc = "page"]
      BY <1>6 DEF HandleError, AfterWait, Goes
  <2> QED
      BY <1>0, <1>2, <1>5, <2>1 DEF SweepState
<1>7. CASE NextPage
  <2>1. \E pc : sweep' = [sweep EXCEPT !.pc = pc, !.error = "none", !.batch = {}, !.seen = NoSweep.seen,
            !.phase = [d \in Drawers |-> IF d \in First(PageSize, ForStage(sweep.stage)) THEN "queued" ELSE "out"]]
      BY <1>7 DEF NextPage
  <2>2. sweep'.phase = [d \in Drawers |-> IF d \in First(PageSize, ForStage(sweep.stage)) THEN "queued" ELSE "out"]
      BY <1>0, <2>1 DEF SweepState
  <2> QED
      BY <2>2 DEF AsksNobody
<1>8. CASE PagePrepared \/ ApplyFails
  <2>1. \E pc, er : sweep' = [sweep EXCEPT !.pc = pc] \/ sweep' = [sweep EXCEPT !.pc = pc, !.error = er]
      BY <1>8 DEF PagePrepared, ApplyFails, Goes
  <2> QED
      BY <1>0, <1>2, <2>1 DEF SweepState
<1>9. CASE FinishSweep \/ KillSweep
    BY <1>1, <1>9 DEF FinishSweep, KillSweep, Over
<1>10. CASE \/ LoseLease \/ DaemonStops \/ UNCHANGED sweepVars \/ (\E d \in Edited : EditDrawer(d))
            \/ \E f \in DOMAIN files, d \in Drawers : RestoreItem(f, d)
    BY <1>2, <1>10 DEF LoseLease, DaemonStops, EditDrawer, RestoreItem, sweepVars
<1>11. CASE AppendBackup
  <2> DEFINE doomed == In({"delete"})
             batch == {d \in doomed : drawers[d].live /\ drawers[d].ver = sweep.seen[d]}
             ph == [d \in Drawers |-> IF d \in doomed \ batch THEN "changed" ELSE sweep.phase[d]]
  <2>1. \/ sweep' = [sweep EXCEPT !.pc = "error", !.error = "fatal"]
        \/ sweep' = [sweep EXCEPT !.pc = "apply", !.batch = batch, !.phase = ph]
      BY <1>0, <1>11 DEF AppendBackup, SweepState
  <2>2. \A d \in Drawers : ph[d] = sweep.phase[d] \/ ph[d] = "changed"
      OBVIOUS
  <2> HIDE DEF batch, ph, doomed
  <2>3. sweep'.phase = sweep.phase \/ sweep'.phase = ph
      BY <1>0, <2>1 DEF SweepState
  <2> QED
      BY <1>2, <2>2, <2>3 DEF AsksNobody
<1>12. CASE ApplyPage
  <2>1. \/ sweep' = [sweep EXCEPT !.pc = "error", !.error = "fatal"]
        \/ \E c, pc : sweep' = [sweep EXCEPT !.ckpt = c, !.pc = pc]
      BY <1>12 DEF ApplyPage
  <2> QED
      BY <1>0, <1>2, <2>1 DEF SweepState
<1>13. ASSUME NEW d \in Drawers,
              \/ ProposalAnswers(d) \/ ProposalFails(d) \/ PersistProposal(d) \/ PersistLocked(d)
              \/ ConfirmationAnswers(d) \/ ConfirmationFails(d)
       PROVE  AsksNobody
  <2>1. \/ \E p \in {"persist", "confirm", "keep", "delete", "pending"} : Becomes(d, p)
        \/ \E e \in {"llm", "confirm", "fatal"} : Fails(d, e)
      BY <1>13 DEF ProposalAnswers, ProposalFails, PersistProposal, PersistLocked, ConfirmationAnswers,
                   ConfirmationFails
  <2>2. \E p \in {"persist", "confirm", "keep", "delete", "pending", "failed"},
            er \in {"none", "llm", "confirm", "fatal", "lock"} : Updates(d, p, sweep.seen[d], er)
      BY <2>1, PhaseForms
  <2>3. sweep.pc = "evaluate" /\ sweep.seen[d] \in Versions
      BY <1>13, PhaseForms DEF ProposalAnswers, ProposalFails, PersistProposal, PersistLocked,
                               ConfirmationAnswers, ConfirmationFails
  <2> QED
      BY <2>2, <2>3, PhaseUpdate DEF AsksNobody
<1> QED
    BY <1>3, <1>4, <1>6, <1>7, <1>8, <1>9, <1>10, <1>11, <1>12, <1>13 DEF SweepNext, SweepStep

\* The proposal lane is never asked again about an item whose proposal is stored, in
\* whichever run and mode the item is loaded.
THEOREM SweepProposalAskedOnce == SweepSpec => ProposalAskedOnce
<1>1. ASSUME IInv, [SweepNext]_sweepVars
      PROVE  [\A d \in Drawers : sweep.phase[d] # "propose" /\ sweep'.phase[d] = "propose" =>
                work[d].stage # "confirm_pending" \/ ~TwoStage]_sweepVars
  <2> SUFFICES ASSUME NEW d \in Drawers, sweep.phase[d] # "propose", sweep'.phase[d] = "propose"
               PROVE  work[d].stage # "confirm_pending" \/ ~TwoStage
      OBVIOUS
  <2>1. PICK e \in Drawers : LoadItem(e)
      BY <1>1, OnlyLoadingAsks DEF AsksNobody
  <2>2. sweep' = [sweep EXCEPT !.phase[e] = BeforeLanes(e), !.seen[e] = drawers[e].ver]
      BY <2>1 DEF LoadItem
  <2>3. e = d /\ BeforeLanes(d) = "propose"
      BY <1>1, <2>2 DEF IInv, SweepTypeOK, SweepState
  <2> QED
      BY <2>3 DEF BeforeLanes
<1> QED
    BY <1>1, SweepIInv, PTL DEF SweepSpec, ProposalAskedOnce
=============================================================================
