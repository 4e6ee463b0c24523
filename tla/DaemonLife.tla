----------------------------- MODULE DaemonLife -----------------------------
(***************************************************************************)
(* The life of the daemon from its start to its exit: the singleton lock   *)
(* and its metadata file (daemon_singleton.rs), the bootstrap up to the    *)
(* PID file (daemon_bootstrap.rs), the restart budget that all generations *)
(* share (daemon_recovery.rs), the faults that charge it (daemon.rs,       *)
(* daemon/writer_lease.rs), and the commands stop and reap (main.rs),      *)
(* which take no lock.  Times are distances from now, so the clock never   *)
(* stops.  A birth is one process: the two halves of daemonize are one     *)
(* birth.  An update of the recovery state runs under its own flock and is *)
(* one action.  The scan of /proc is one action too.                       *)
(***************************************************************************)
EXTENDS Naturals, FiniteSets

CONSTANTS
    Births,         \* processes; a number says which PID is lower
    NoOne,
    MaxRestarts,    \* MAX_RESTARTS_PER_WINDOW
    Window,         \* RESTART_WINDOW_SECS
    Cooldown,       \* RESTART_COOLDOWN_SECS
    MaxTrouble      \* bound: faults, kills, failed starts and commands

ASSUME LifeAssumption ==
    /\ Births \subseteq Nat /\ NoOne \notin Births
    /\ MaxRestarts \in Nat \ {0} /\ Window \in Nat /\ Cooldown \in Nat \ {0}
    /\ MaxTrouble \in Nat

VARIABLES
    daemon,     \* where each birth stands, and its nap and flags
    lock,       \* who holds the flock of daemon.lock
    meta,       \* whom the metadata file names
    pidfile,    \* whom daemon.pid names
    budget,     \* daemon-recovery.json
    cmd,        \* the operator's command
    trouble,
    charged,    \* history: faults charged and not made good since
    meddled     \* history: a command changed daemon.pid after its daemon wrote it

lifeVars == <<daemon, lock, meta, pidfile, budget, cmd, trouble, charged, meddled>>
lockFiles == <<lock, meta>>
pid == <<pidfile, meddled>>
charges == <<budget, charged>>

\* reported: DaemonRecoveryFaultReporter; watched: the stall watchdog runs.
Gone == [pc |-> "none", nap |-> 0, reported |-> FALSE, watched |-> TRUE, stop |-> FALSE]
NoCommand == [pc |-> "none", kind |-> "none", saw |-> NoOne, keep |-> NoOne, targets |-> {}]

----------------------------------------------------------------------------
\* DaemonRecoveryState.  A fault remembers its age and whether the current
\* generation was charged with it; an active cooldown freezes the list.  Only how
\* many faults there are is ever asked of the list, so it is a set of numbered ones.
Healthy == [phase |-> "healthy", faults |-> {}, left |-> 0]
Recent(fs) == {f \in fs : f.age <= Window}
Unnumbered(fs) == CHOOSE n \in 1..MaxRestarts : \A f \in fs : f.n # n
Push(fs) == fs \cup {[n |-> Unnumbered(fs), age |-> 0, own |-> TRUE]}

Prune(b) ==
    IF b.phase = "cooldown"
    THEN IF b.left = 0 THEN Healthy ELSE b
    ELSE [b EXCEPT !.faults = Recent(@)]

Cooling(b) == b.phase = "cooldown" /\ b.left > 0

\* record_fault: a fault beyond the budget starts the cooldown.
RecordFault(b) ==
    LET fs == Push(Prune(b).faults)
    IN  IF Cooling(b) THEN b
        ELSE IF Cardinality(fs) >= MaxRestarts
        THEN [phase |-> "cooldown", faults |-> fs, left |-> Cooldown]
        ELSE [phase |-> "recovering", faults |-> fs, left |-> 0]

Allowed(b) == Prune(b).phase # "cooldown"
\* admit_start begins a new generation.
AdmitStart(b) ==
    LET p == Prune(b)
    IN  IF ~Allowed(b) THEN p
        ELSE [phase |-> "recovering", left |-> 0,
              faults |-> {[f EXCEPT !.own = FALSE] : f \in p.faults}]

\* A generation that came up clears what earlier ones were charged with, and
\* in the mutant its own charge as well.
MutRecordRecovered(b) == IF Prune(b).phase = "cooldown" THEN Prune(b) ELSE Healthy
RecordRecovered(b) ==
    LET p == Prune(b)
        own == {f \in p.faults : f.own}
    IN  IF p.phase = "cooldown" THEN p
        ELSE [phase |-> IF own = {} THEN "healthy" ELSE "recovering", faults |-> own, left |-> 0]

----------------------------------------------------------------------------
\* Start.

At(d) == daemon[d].pc
Go(d, pc) == daemon' = [daemon EXCEPT ![d].pc = pc]
InTrouble == trouble < MaxTrouble /\ trouble' = trouble + 1

\* A PID is used again when nothing remembers it.
Remembered == {pidfile, meta, cmd.saw, cmd.keep} \cup cmd.targets \cup {f.by : f \in charged}

Spawn(d) ==
    /\ At(d) = "none" /\ d \notin Remembered
    /\ Go(d, "new")
    /\ UNCHANGED <<lockFiles, pid, charges, cmd, trouble>>

\* try_acquire: on contention the process leaves with DaemonAlreadyRunning.
\* One mutant takes the lock whoever holds it, the other takes metadata that a
\* crash left for a running daemon.
MutTryLock(d) ==
    /\ At(d) = "new"
    /\ lock' = d /\ Go(d, "gated")
    /\ UNCHANGED <<meta, pid, charges, cmd, trouble>>
MutStaleMeta(d) ==
    /\ At(d) = "new"
    /\ IF lock = NoOne /\ meta = NoOne
       THEN lock' = d /\ Go(d, "gated")
       ELSE daemon' = [daemon EXCEPT ![d] = Gone] /\ UNCHANGED lock
    /\ UNCHANGED <<meta, pid, charges, cmd, trouble>>
TryLock(d) ==
    /\ At(d) = "new"
    /\ IF lock = NoOne
       THEN lock' = d /\ Go(d, "gated")
       ELSE daemon' = [daemon EXCEPT ![d] = Gone] /\ UNCHANGED lock
    /\ UNCHANGED <<meta, pid, charges, cmd, trouble>>

WriteMeta(d) ==
    /\ At(d) = "gated"
    /\ meta' = d
    /\ Go(d, "admit")
    /\ UNCHANGED <<lock, pid, charges, cmd, trouble>>

\* The wait before the second try: what the cooldown has left and a second.
NapFor(b) ==
    LET rest == IF b.left < Cooldown THEN b.left ELSE Cooldown - 1
    IN  IF rest + 1 < Cooldown THEN rest + 1 ELSE Cooldown

\* admit_start_with_cooldown_wait, the first try; then daemonize and
\* refresh_metadata.
Admit(d) ==
    /\ At(d) = "admit"
    /\ budget' = AdmitStart(budget)
    /\ IF Allowed(budget)
       THEN Go(d, "open") /\ meta' = d
       ELSE /\ daemon' = [daemon EXCEPT ![d].pc = "nap", ![d].nap = NapFor(Prune(budget))]
            /\ UNCHANGED meta
    /\ UNCHANGED <<lock, pid, charged, cmd, trouble>>

\* The second try; DaemonCooldownRequired ends the process.
AdmitAgain(d) ==
    /\ At(d) = "nap" /\ daemon[d].nap = 0
    /\ budget' = AdmitStart(budget)
    /\ IF Allowed(budget) THEN Go(d, "open") /\ meta' = d
                          ELSE Go(d, "turnedAway") /\ UNCHANGED meta
    /\ UNCHANGED <<lock, pid, charged, cmd, trouble>>

\* open_daemon_storage_with_remediation
OpenStorage(d) ==
    /\ At(d) = "open"
    /\ Go(d, "pid")
    /\ UNCHANGED <<lockFiles, pid, charges, cmd, trouble>>

\* PidFileGuard::create
WritePid(d) ==
    /\ At(d) = "pid"
    /\ pidfile' = d /\ meddled' = FALSE
    /\ Go(d, "lease")
    /\ UNCHANGED <<lockFiles, charges, cmd, trouble>>

\* run_loop: the writer lease is acquired (module DaemonAdmission) and its
\* heartbeat begins.
HoldLease(d) ==
    /\ At(d) = "lease"
    /\ Go(d, "starting")
    /\ UNCHANGED <<lockFiles, pid, charges, cmd, trouble>>

\* The workers run: record_recovered, whatever was requested meanwhile.
Recovered(d) ==
    /\ At(d) = "starting"
    /\ budget' = RecordRecovered(budget)
    /\ charged' = IF Cooling(budget) THEN charged ELSE {f \in charged : f.by = d}
    /\ Go(d, "serve")
    /\ UNCHANGED <<lockFiles, pid, cmd, trouble>>

----------------------------------------------------------------------------
\* Faults and exits.

\* record_fault_once; all its attempts to save may fail, which restores the flag.
Report(d, saved) ==
    IF saved /\ ~daemon[d].reported
    THEN /\ budget' = RecordFault(budget)
         /\ charged' = IF Cooling(budget) THEN charged ELSE charged \cup {[by |-> d, age |-> 0]}
    ELSE UNCHANGED charges

\* The database stays locked at the start: the fault is charged and the start fails.
StartLocked(d, saved) ==
    /\ At(d) \in {"open", "lease"} /\ InTrouble
    /\ Report(d, saved)
    /\ Go(d, IF At(d) = "open" THEN "unmeta" ELSE "unpid")
    /\ UNCHANGED <<lockFiles, pid, cmd>>

\* Any other error of a start.
StartFails(d) ==
    /\ At(d) \in {"gated", "admit", "open", "pid", "lease", "starting"} /\ InTrouble
    /\ Go(d, CASE At(d) = "gated" -> "unlock"
               [] At(d) \in {"lease", "starting"} -> "unpid"
               [] OTHER -> "unmeta")
    /\ UNCHANGED <<lockFiles, pid, charges, cmd>>

\* The lease heartbeat finds the lease lost: charge, then request shutdown.
LeaseLost(d, saved) ==
    /\ At(d) \in {"starting", "serve"} /\ ~daemon[d].stop /\ InTrouble
    /\ Report(d, saved)
    /\ daemon' = [daemon EXCEPT ![d].stop = TRUE, ![d].reported = @ \/ saved]
    /\ UNCHANGED <<lockFiles, pid, cmd>>

\* The write stall watchdog charges the budget and ends; the daemon runs on.
WriteStall(d, saved) ==
    /\ At(d) = "serve" /\ ~daemon[d].stop /\ daemon[d].watched /\ InTrouble
    /\ Report(d, saved)
    /\ daemon' = [daemon EXCEPT ![d].watched = FALSE, ![d].reported = @ \/ saved]
    /\ UNCHANGED <<lockFiles, pid, cmd>>

\* The loop sees the request and returns; the context is dropped field by field.
EndLoop(d) ==
    /\ At(d) = "serve" /\ daemon[d].stop
    /\ Go(d, "unpid")
    /\ UNCHANGED <<lockFiles, pid, charges, cmd, trouble>>

RemovePid(d) ==
    /\ At(d) = "unpid"
    /\ pidfile' = NoOne
    /\ Go(d, "unmeta")
    /\ UNCHANGED <<lockFiles, charges, cmd, trouble, meddled>>

RemoveMeta(d) ==
    /\ At(d) \in {"unmeta", "turnedAway"}
    /\ meta' = NoOne
    /\ Go(d, "unlock")
    /\ UNCHANGED <<lock, pid, charges, cmd, trouble>>

Killed(D) ==
    /\ lock' = IF lock \in D THEN NoOne ELSE lock
    /\ daemon' = [d \in Births |-> IF d \in D THEN Gone ELSE daemon[d]]
Unlock(d) ==
    /\ At(d) = "unlock"
    /\ Killed({d})
    /\ UNCHANGED <<meta, pid, charges, cmd, trouble>>

\* SIGKILL, or a crash: the files stay.
Die(d) ==
    /\ At(d) # "none" /\ InTrouble
    /\ Killed({d})
    /\ UNCHANGED <<meta, pid, charges, cmd>>

----------------------------------------------------------------------------
\* The commands.  start is a reap that finds no keeper, and a birth.

\* What the scan finds: processes of daemon commands with the database open.
HasDb(d) == At(d) \in {"pid", "lease", "starting", "serve"}
Candidates == {d \in Births : HasDb(d)}

CmdRead(kind) ==
    /\ cmd.pc = "none" /\ InTrouble
    /\ cmd' = [NoCommand EXCEPT !.pc = "scan", !.kind = kind, !.saw = pidfile]
    /\ UNCHANGED <<daemon, lockFiles, pid, charges>>

\* plan_daemon_reap keeps the PID file's daemon, or the lowest PID.
Keeper(C, saw) ==
    IF C = {} THEN NoOne ELSE IF saw \in C THEN saw ELSE CHOOSE d \in C : \A e \in C : d <= e

\* What follows when nothing is to be terminated, or the targets are gone: stop,
\* and reap without a keeper, remove the PID file; else it shall name the keeper.
Afterwards(c) ==
    IF c.kind = "stop" \/ c.keep = NoOne THEN [c EXCEPT !.pc = "clear"]
    ELSE IF c.keep = c.saw THEN NoCommand
    ELSE [c EXCEPT !.pc = "write"]

\* stop terminates all, reap all but the keeper.
CmdScan ==
    /\ cmd.pc = "scan"
    /\ LET keep == IF cmd.kind = "stop" THEN NoOne ELSE Keeper(Candidates, cmd.saw)
           plan == [cmd EXCEPT !.pc = "term", !.keep = keep, !.targets = Candidates \ {keep}]
       IN  cmd' = IF plan.targets = {} THEN Afterwards(plan) ELSE plan
    /\ UNCHANGED <<daemon, lockFiles, pid, charges, trouble>>

\* SIGTERM kills (K) until install_shutdown_handlers, which run_loop calls some
\* time after it has the lease.
CmdTerm(K) ==
    /\ cmd.pc = "term"
    /\ K \subseteq cmd.targets
    /\ \A d \in K : HasDb(d) /\ At(d) # "serve"
    /\ \A d \in cmd.targets : At(d) \in {"pid", "lease"} => d \in K
    /\ daemon' = [d \in Births |->
                    IF d \in K THEN Gone
                    ELSE IF d \in cmd.targets /\ HasDb(d) THEN [daemon[d] EXCEPT !.stop = TRUE]
                    ELSE daemon[d]]
    /\ lock' = IF lock \in K THEN NoOne ELSE lock
    /\ cmd' = [cmd EXCEPT !.pc = "wait"]
    /\ UNCHANGED <<meta, pid, charges, trouble>>

\* The targets are gone, or SIGKILL follows after the grace.  A signal that
\* failed ends the command.
CmdWaited ==
    /\ cmd.pc = "wait"
    /\ Killed(cmd.targets)
    /\ cmd' \in {Afterwards(cmd), NoCommand}
    /\ UNCHANGED <<meta, pid, charges, trouble>>

\* The PID file is removed, whoever wrote it.
CmdClear ==
    /\ cmd.pc = "clear"
    /\ pidfile' = NoOne /\ meddled' = TRUE
    /\ cmd' = NoCommand
    /\ UNCHANGED <<daemon, lockFiles, charges, trouble>>

\* write_daemon_pid_file: is the keeper's birth current, then the rename.
CmdWrite ==
    /\ cmd.pc = "write"
    /\ cmd' = IF At(cmd.keep) = "none" THEN NoCommand ELSE [cmd EXCEPT !.pc = "rename"]
    /\ UNCHANGED <<daemon, lockFiles, pid, charges, trouble>>
CmdRename ==
    /\ cmd.pc = "rename"
    /\ pidfile' = cmd.keep /\ meddled' = TRUE
    /\ cmd' = NoCommand
    /\ UNCHANGED <<daemon, lockFiles, charges, trouble>>

----------------------------------------------------------------------------
Older(f) == [f EXCEPT !.age = IF @ <= Window THEN @ + 1 ELSE @]
Less(n) == IF n = 0 THEN 0 ELSE n - 1

\* A second passes.
Second ==
    /\ budget' = [budget EXCEPT !.faults = {Older(f) : f \in @}, !.left = Less(@)]
    /\ daemon' = [d \in Births |-> [daemon[d] EXCEPT !.nap = Less(@)]]
    /\ charged' = IF budget.phase = "cooldown"
                  THEN IF budget.left <= 1 THEN {} ELSE charged
                  ELSE {f \in {Older(g) : g \in charged} : f.age <= Window}
    /\ UNCHANGED <<lockFiles, pid, cmd, trouble>>

LifeInit ==
    /\ daemon = [d \in Births |-> Gone]
    /\ lock = NoOne /\ meta = NoOne /\ pidfile = NoOne
    /\ budget = Healthy /\ cmd = NoCommand /\ trouble = 0
    /\ charged = {} /\ meddled = FALSE

DaemonStep(d) ==
    \/ TryLock(d) \/ WriteMeta(d) \/ Admit(d) \/ AdmitAgain(d) \/ OpenStorage(d) \/ WritePid(d)
    \/ HoldLease(d) \/ Recovered(d) \/ EndLoop(d) \/ RemovePid(d) \/ RemoveMeta(d) \/ Unlock(d)
CmdStep ==
    \/ CmdScan \/ CmdWaited \/ CmdClear \/ CmdWrite \/ CmdRename
    \/ \E K \in SUBSET Births : CmdTerm(K)

LifeNext ==
    \/ \E d \in Births :
          \/ Spawn(d) \/ DaemonStep(d) \/ StartFails(d) \/ Die(d)
          \/ \E saved \in BOOLEAN :
                StartLocked(d, saved) \/ LeaseLost(d, saved) \/ WriteStall(d, saved)
    \/ \E kind \in {"stop", "reap"} : CmdRead(kind)
    \/ CmdStep \/ Second

NoDaemon == \A d \in Births : At(d) = "none"

\* Somebody starts a daemon when there is none (a supervisor, a hook or the
\* operator), processes run, commands end and time passes.
LifeFairness ==
    /\ WF_lifeVars(\E d \in Births : NoDaemon /\ Spawn(d))
    /\ \A d \in Births : WF_lifeVars(DaemonStep(d))
    /\ WF_lifeVars(CmdStep)
    /\ WF_lifeVars(Second)
LifeSpec == LifeInit /\ [][LifeNext]_lifeVars /\ LifeFairness

----------------------------------------------------------------------------
\* Where a birth stands.
BirthState ==
    [pc : {"none", "new", "gated", "admit", "nap", "open", "pid", "lease", "starting", "serve",
           "unpid", "unmeta", "turnedAway", "unlock"},
     nap : 0..Cooldown, reported : BOOLEAN, watched : BOOLEAN, stop : BOOLEAN]

\* Types of the daemon's files and of where each process and command stands.
LifeTypeOK ==
    /\ daemon \in [Births -> BirthState]
    /\ {lock, meta, pidfile, cmd.saw, cmd.keep} \cup cmd.targets \subseteq Births \cup {NoOne}
    /\ budget.phase \in {"healthy", "recovering", "cooldown"}
    /\ budget.left \in 0..Cooldown
    /\ Cardinality(budget.faults) <= MaxRestarts

\* No two processes are past the singleton gate with the database open, whatever
\* was killed and whatever command runs; and a daemon that came up is the one the
\* lock, the metadata and, unless a command meddled with it, daemon.pid name: what
\* its predecessor removes on its way out (drop order of DaemonContext) is never
\* the successor's.
OneDaemon ==
    /\ Cardinality(Candidates) <= 1
    /\ \A d \in Births : At(d) \in {"starting", "serve"} =>
          lock = d /\ meta = d /\ (meddled \/ pidfile = d)

\* The budget counts every fault charged within the window and not made good by a
\* later generation, once each; MaxRestarts of them, and no fewer, bring the
\* cooldown (record_fault, record_recovered, prune).
BudgetIsExact ==
    IF Cooling(budget) THEN Cardinality(charged) = MaxRestarts
    ELSE Cardinality(Prune(budget).faults) = Cardinality(charged) /\ Cardinality(charged) < MaxRestarts

\* A cooldown runs its time: nothing ends or lengthens it, and nobody is admitted
\* while it lasts, however often the supervisor tries.
CooldownFixed ==
    [][Cooling(budget) =>
          /\ budget'.phase = "cooldown" /\ budget'.left \in {budget.left, budget.left - 1}
          /\ \A d \in Births : At(d) \in {"admit", "nap"} => daemon'[d].pc # "open"]_lifeVars

\* A start that waits out the cooldown is admitted: it never ends with
\* DaemonCooldownRequired, after which nobody starts the daemon again.
NeverTurnedAway == \A d \in Births : At(d) # "turnedAway"

\* Faults, kills and commands come to an end, and then a daemon serves for good.
DaemonServes == <>[](\E d \in Births : At(d) = "serve")
=============================================================================
