--------------------------- MODULE MCDaemonStart ---------------------------
(***************************************************************************)
(* The daemon's start and the historical rejudge, for TLC: the wait for    *)
(* the writer lease, the life around it, and a sweep over the drawers.     *)
(* The wait is one step of the life (HoldLease, or a failed start), and a  *)
(* sweep meets the daemon only through its lease and its edits, which are  *)
(* actions of the sweep, so each is explored with the others at rest; part *)
(* says which one.  A life at rest is a daemon that serves, a wait at rest *)
(* is over, a sweep at rest has not been started.                          *)
(***************************************************************************)
EXTENDS DaemonAdmission, DaemonLife, RejudgeSweep

VARIABLE part
startVars == <<vars, lifeVars, sweepVars, part>>

Serving ==
    LET d == CHOOSE b \in Births : TRUE
    IN  /\ daemon = [[b \in Births |-> Gone] EXCEPT ![d].pc = "serve"]
        /\ lock = d /\ meta = d /\ pidfile = d
        /\ budget = Healthy /\ cmd = NoCommand /\ trouble = 0
        /\ charged = {} /\ meddled = FALSE

Waited ==
    /\ row = [mode |-> "daemon", left |-> 0, alive |-> TRUE]
    /\ phase = "admitted"
    /\ deadline = 0 /\ armed = FALSE /\ seen = "none" /\ holders = 0

StartInit ==
    /\ SweepInit
    /\ \/ part = "wait" /\ Init /\ Serving
       \/ part = "life" /\ LifeInit /\ Waited
       \/ part = "sweep" /\ Serving /\ Waited

\* No further run of the command within the bound.
SweepAtRest == sweep.pc = "idle" /\ sweeps = MaxSweeps /\ UNCHANGED sweepVars

StartNext ==
    \/ part = "wait" /\ Next /\ UNCHANGED <<lifeVars, sweepVars, part>>
    \/ part = "life" /\ LifeNext /\ UNCHANGED <<vars, sweepVars, part>>
    \/ part = "sweep" /\ (SweepNext \/ SweepAtRest) /\ UNCHANGED <<vars, lifeVars, part>>

StartSpec == StartInit /\ [][StartNext]_startVars /\ LifeFairness /\ SweepFairness

\* Types of the wait for the lease, of the lives around it and of the sweep.
StartTypeOK == TypeOK /\ LifeTypeOK /\ SweepTypeOK
=============================================================================
