-------------------------- MODULE DaemonLifeProofs --------------------------
(***************************************************************************)
(* The singleton and the restart budget of the daemon for every number of  *)
(* processes, faults, kills and commands, and every window and cooldown.   *)
(***************************************************************************)
EXTENDS DaemonLife, FiniteSetTheorems, TLAPS

\* The processes, and the part of the budget that a cooldown is about.
Typed ==
    /\ daemon \in [Births -> BirthState]
    /\ budget = [phase |-> budget.phase, faults |-> budget.faults, left |-> budget.left]
    /\ budget.phase \in {"healthy", "recovering", "cooldown"}
    /\ budget.left \in 0..Cooldown

\* Whoever is past the gate holds the lock.
GateInv == \A d \in Births : At(d) \notin {"none", "new"} => lock = d

\* The files name the process whose they are, from its writing to its removing them.
FilesInv ==
    \A d \in Births :
        /\ At(d) \in {"admit", "nap", "open", "pid", "lease", "starting", "serve", "unpid", "unmeta"} => meta = d
        /\ At(d) \in {"lease", "starting", "serve"} => meddled \/ pidfile = d

\* A nap outlasts the cooldown it was taken for.
NapInv ==
    \A d \in Births : /\ At(d) = "nap" /\ budget.phase = "cooldown" => budget.left <= daemon[d].nap
                      /\ At(d) # "turnedAway"

IInv == Typed /\ GateInv /\ FilesInv /\ NapInv

----------------------------------------------------------------------------
\* Facts about the constants.
LEMMA Constants == Cooldown \in Nat /\ Cooldown # 0 /\ NoOne \notin Births
BY LifeAssumption

\* A process that is not there, and a clock that counts down.
LEMMA GoneAndLess ==
    /\ Gone \in BirthState /\ Gone.pc = "none"
    /\ \A n \in 0..Cooldown : Less(n) \in 0..Cooldown
<1>1. Gone \in BirthState /\ Gone.pc = "none"
    BY Constants DEF Gone, BirthState
<1>2. ASSUME NEW n \in 0..Cooldown PROVE Less(n) \in 0..Cooldown
  <2>1. n \in Nat /\ n <= Cooldown
      BY Constants
  <2> QED
      BY <2>1, Constants DEF Less
<1> QED
    BY <1>1, <1>2

\* The budget after each of its updates.
BudgetTyped(b) ==
    /\ b = [phase |-> b.phase, faults |-> b.faults, left |-> b.left]
    /\ b.phase \in {"healthy", "recovering", "cooldown"}
    /\ b.left \in 0..Cooldown

\* Its updates keep its type, and leave a cooldown as it is.
LEMMA BudgetUpdates ==
    ASSUME NEW b, BudgetTyped(b)
    PROVE  /\ BudgetTyped(Prune(b)) /\ BudgetTyped(RecordFault(b))
           /\ BudgetTyped(AdmitStart(b)) /\ BudgetTyped(RecordRecovered(b))
           /\ Cooling(b) => /\ Prune(b) = b /\ RecordFault(b) = b /\ AdmitStart(b) = b
                            /\ RecordRecovered(b) = b /\ ~Allowed(b)
           /\ ~Cooling(b) => Allowed(b)
           /\ AdmitStart(b).phase = "cooldown" => Cooling(b)
<1>1. BudgetTyped(Prune(b)) /\ (Prune(b).phase = "cooldown" <=> Cooling(b)) /\ (Cooling(b) => Prune(b) = b)
    BY Constants DEF BudgetTyped, Prune, Healthy, Cooling
<1>2. BudgetTyped(RecordFault(b)) /\ (Cooling(b) => RecordFault(b) = b)
  <2>1. CASE Cooling(b)
      BY <2>1 DEF RecordFault
  <2>2. CASE ~Cooling(b)
    <3>1. \E fs : \/ RecordFault(b) = [phase |-> "cooldown", faults |-> fs, left |-> Cooldown]
                  \/ RecordFault(b) = [phase |-> "recovering", faults |-> fs, left |-> 0]
        BY <2>2, Zenon DEF RecordFault
    <3> QED
        BY <2>2, <3>1, Constants DEF BudgetTyped
  <2> QED
      BY <2>1, <2>2
<1>3. /\ BudgetTyped(AdmitStart(b)) /\ (Cooling(b) <=> ~Allowed(b))
      /\ Cooling(b) => AdmitStart(b) = b
      /\ AdmitStart(b).phase = "cooldown" => Cooling(b)
  <2>1. \/ Cooling(b) /\ AdmitStart(b) = Prune(b) /\ ~Allowed(b)
        \/ /\ ~Cooling(b) /\ Allowed(b)
           /\ \E fs : AdmitStart(b) = [phase |-> "recovering", left |-> 0, faults |-> fs]
      BY <1>1 DEF AdmitStart, Allowed
  <2> QED
      BY <1>1, <2>1, Constants DEF BudgetTyped
<1>4. BudgetTyped(RecordRecovered(b)) /\ (Cooling(b) => RecordRecovered(b) = b)
    BY <1>1, Constants DEF BudgetTyped, RecordRecovered
<1> QED
    BY <1>1, <1>2, <1>3, <1>4

----------------------------------------------------------------------------
\* A step of the process that is past the gate: nobody else moves.
Moves(d) ==
    /\ At(d) \notin {"none", "new"}
    /\ daemon' \in [Births -> BirthState]
    /\ \A e \in Births \ {d} : daemon'[e] = daemon[e]
    /\ BudgetTyped(budget')
    /\ lock' = lock \/ daemon'[d].pc = "none"
    /\ daemon'[d].pc \in {"admit", "nap", "open", "pid", "lease", "starting", "serve", "unpid", "unmeta"} => meta' = d
    /\ daemon'[d].pc \in {"lease", "starting", "serve"} => meddled' \/ pidfile' = d
    /\ daemon'[d].pc = "nap" /\ budget'.phase = "cooldown" => budget'.left <= daemon'[d].nap
    /\ daemon'[d].pc # "turnedAway"

\* Only one process is past the gate.
LEMMA OthersOutside ==
    ASSUME IInv, NEW d \in Births, At(d) \notin {"none", "new"}
    PROVE  lock = d /\ \A e \in Births \ {d} : At(e) \in {"none", "new"}
BY DEF IInv, GateInv

\* Its step keeps the invariant.
LEMMA MovesKeepsIInv ==
    ASSUME IInv, NEW d \in Births, Moves(d)
    PROVE  IInv'
<1>1. lock = d /\ \A e \in Births \ {d} : At(e) \in {"none", "new"} /\ At(e)' = At(e)
    BY OthersOutside DEF Moves, At
<1>2. Typed'
    BY DEF Moves, BudgetTyped, Typed
<1>3. GateInv'
    BY <1>1 DEF Moves, GateInv, At
<1>4. FilesInv' /\ NapInv'
    BY <1>1 DEF Moves, FilesInv, NapInv, At
<1> QED
    BY <1>2, <1>3, <1>4 DEF IInv

\* Its actions are such steps.
LEMMA HolderActions ==
    ASSUME IInv, NEW d \in Births,
           \/ WriteMeta(d) \/ Admit(d) \/ AdmitAgain(d) \/ OpenStorage(d) \/ WritePid(d) \/ HoldLease(d)
           \/ Recovered(d) \/ EndLoop(d) \/ RemovePid(d) \/ RemoveMeta(d) \/ Unlock(d) \/ StartFails(d)
           \/ (Die(d) /\ At(d) # "new")
           \/ \E saved \in BOOLEAN : StartLocked(d, saved) \/ LeaseLost(d, saved) \/ WriteStall(d, saved)
    PROVE  Moves(d)
<1>0. /\ daemon \in [Births -> BirthState] /\ daemon[d] \in BirthState /\ BudgetTyped(budget)
      /\ At(d) # "turnedAway"
    BY DEF IInv, Typed, BudgetTyped, NapInv
<1>1. ASSUME NEW pc \in {"admit", "open", "pid", "lease", "starting", "serve", "unpid", "unmeta", "unlock"},
             Go(d, pc)
      PROVE  /\ daemon' \in [Births -> BirthState] /\ daemon'[d].pc = pc
             /\ \A e \in Births \ {d} : daemon'[e] = daemon[e]
    BY <1>0, <1>1 DEF Go, BirthState
<1>2. BudgetTyped(AdmitStart(budget)) /\ BudgetTyped(RecordFault(budget)) /\ BudgetTyped(RecordRecovered(budget))
    BY <1>0, BudgetUpdates
<1>3. At(d) \in {"admit", "nap", "open", "pid", "lease", "starting", "serve", "unpid", "unmeta"} => meta = d
    BY DEF IInv, FilesInv
<1>4. At(d) \in {"lease", "starting", "serve"} => meddled \/ pidfile = d
    BY DEF IInv, FilesInv
<1>5. CASE WriteMeta(d) \/ OpenStorage(d) \/ WritePid(d) \/ HoldLease(d) \/ EndLoop(d) \/ RemovePid(d) \/ RemoveMeta(d)
    BY <1>0, <1>1, <1>3, <1>4, <1>5
    DEF WriteMeta, OpenStorage, WritePid, HoldLease, EndLoop, RemovePid, RemoveMeta, Moves, lockFiles, pid, charges
<1>6. CASE Admit(d)
  <2>1. At(d) = "admit" /\ lock' = lock /\ budget' = AdmitStart(budget) /\ meta = d
      BY <1>3, <1>6 DEF Admit
  <2>2. CASE Allowed(budget)
      BY <1>0, <1>1, <1>2, <1>6, <2>1, <2>2 DEF Admit, Moves
  <2>3. CASE ~Allowed(budget)
    <3>1. Cooling(budget) /\ Prune(budget) = budget /\ budget' = budget
        BY <1>0, <2>1, <2>3, BudgetUpdates
    <3>2. daemon' = [daemon EXCEPT ![d].pc = "nap", ![d].nap = NapFor(budget)] /\ meta' = meta
        BY <1>6, <2>3, <3>1 DEF Admit
    <3>3. NapFor(budget) \in 0..Cooldown /\ budget.left <= NapFor(budget)
        BY <1>0, Constants DEF NapFor, BudgetTyped
    <3>4. /\ daemon' \in [Births -> BirthState] /\ daemon'[d].pc = "nap" /\ daemon'[d].nap = NapFor(budget)
          /\ \A e \in Births \ {d} : daemon'[e] = daemon[e]
        BY <1>0, <3>2, <3>3 DEF BirthState
    <3> QED
        BY <1>0, <2>1, <3>1, <3>2, <3>3, <3>4 DEF Moves
  <2> QED
      BY <2>2, <2>3
<1>7. CASE AdmitAgain(d)
  <2>1. At(d) = "nap" /\ daemon[d].nap = 0 /\ lock' = lock /\ budget' = AdmitStart(budget)
      BY <1>7 DEF AdmitAgain
  <2>2. ~Cooling(budget)
      BY <1>0, <2>1, Constants DEF IInv, NapInv, Cooling, BudgetTyped
  <2>3. Allowed(budget)
      BY <1>0, <2>2, BudgetUpdates
  <2> QED
      BY <1>0, <1>1, <1>2, <1>7, <2>1, <2>3 DEF AdmitAgain, Moves
<1>8. CASE Recovered(d)
    BY <1>0, <1>1, <1>2, <1>3, <1>4, <1>8 DEF Recovered, Moves, lockFiles, pid
<1>9. CASE Unlock(d) \/ (Die(d) /\ At(d) # "new")
  <2>1. At(d) \notin {"none", "new"} /\ Killed({d}) /\ budget' = budget
      BY <1>9 DEF Unlock, Die, charges
  <2>2. /\ daemon' \in [Births -> BirthState] /\ daemon'[d].pc = "none"
        /\ \A e \in Births \ {d} : daemon'[e] = daemon[e]
      BY <1>0, <2>1, Constants DEF Killed, Gone, BirthState
  <2> QED
      BY <1>0, <2>1, <2>2 DEF Moves
<1>10. CASE StartFails(d)
  <2>1. /\ At(d) \in {"gated", "admit", "open", "pid", "lease", "starting"}
        /\ \E pc \in {"unlock", "unpid", "unmeta"} : Go(d, pc) /\ (pc # "unlock" => At(d) # "gated")
        /\ UNCHANGED <<lock, meta, pidfile, meddled, budget>>
      BY <1>10 DEF StartFails, lockFiles, pid, charges
  <2> QED
      BY <1>0, <1>1, <1>3, <2>1 DEF Moves
<1>11. ASSUME NEW saved \in BOOLEAN, StartLocked(d, saved) \/ LeaseLost(d, saved) \/ WriteStall(d, saved)
       PROVE  Moves(d)
  <2>1. BudgetTyped(budget') /\ UNCHANGED <<lock, meta, pidfile, meddled>>
      BY <1>0, <1>2, <1>11 DEF StartLocked, LeaseLost, WriteStall, Report, lockFiles, pid, charges
  <2>2. CASE StartLocked(d, saved)
      BY <1>0, <1>1, <1>3, <2>1, <2>2 DEF StartLocked, Moves
  <2>3. CASE LeaseLost(d, saved) \/ WriteStall(d, saved)
    <3>1. /\ At(d) \in {"starting", "serve"}
          /\ \E st \in BOOLEAN, wa \in BOOLEAN, re \in BOOLEAN :
                daemon' = [daemon EXCEPT ![d] = [@ EXCEPT !.stop = st, !.watched = wa, !.reported = re]]
      <4>1. CASE LeaseLost(d, saved)
        <5>1. daemon' = [daemon EXCEPT ![d].stop = TRUE, ![d].reported = @ \/ saved]
            BY <4>1 DEF LeaseLost
        <5>2. daemon' = [daemon EXCEPT ![d] = [@ EXCEPT !.stop = TRUE, !.watched = daemon[d].watched,
                                                        !.reported = daemon[d].reported \/ saved]]
            BY <1>0, <5>1 DEF BirthState
        <5> QED
            BY <1>0, <4>1, <5>2 DEF LeaseLost, BirthState
      <4>2. CASE WriteStall(d, saved)
        <5>1. daemon' = [daemon EXCEPT ![d].watched = FALSE, ![d].reported = @ \/ saved]
            BY <4>2 DEF WriteStall
        <5>2. daemon' = [daemon EXCEPT ![d] = [@ EXCEPT !.stop = daemon[d].stop, !.watched = FALSE,
                                                        !.reported = daemon[d].reported \/ saved]]
            BY <1>0, <5>1 DEF BirthState
        <5> QED
            BY <1>0, <4>2, <5>2 DEF WriteStall, BirthState
      <4> QED
          BY <2>3, <4>1, <4>2
    <3>2. /\ daemon' \in [Births -> BirthState] /\ daemon'[d].pc = daemon[d].pc
          /\ \A e \in Births \ {d} : daemon'[e] = daemon[e]
      <4>1. PICK st \in BOOLEAN, wa \in BOOLEAN, re \in BOOLEAN :
               daemon' = [daemon EXCEPT ![d] = [@ EXCEPT !.stop = st, !.watched = wa, !.reported = re]]
          BY <3>1
      <4> DEFINE r == [daemon[d] EXCEPT !.stop = st, !.watched = wa, !.reported = re]
      <4>2. r \in BirthState /\ r.pc = daemon[d].pc
          BY <1>0 DEF BirthState
      <4>3. daemon' = [daemon EXCEPT ![d] = r]
          BY <4>1
      <4> HIDE DEF r
      <4> QED
          BY <1>0, <4>2, <4>3
    <3> QED
        BY <1>3, <1>4, <2>1, <3>1, <3>2 DEF Moves, At
  <2> QED
      BY <1>11, <2>2, <2>3
<1> QED
    BY <1>5, <1>6, <1>7, <1>8, <1>9, <1>10, <1>11

----------------------------------------------------------------------------
\* The invariant holds before the first start.
LEMMA InitIInv == LifeInit => IInv
BY Constants DEF LifeInit, IInv, Typed, GateInv, FilesInv, NapInv, At, Gone, Healthy, BirthState

\* Processes appear, try the lock and leave.
LEMMA OutsideKeepsIInv ==
    ASSUME IInv, NEW d \in Births, Spawn(d) \/ TryLock(d) \/ (Die(d) /\ At(d) = "new")
    PROVE  IInv'
<1>0. /\ At(d) \in {"none", "new"} /\ daemon \in [Births -> BirthState]
      /\ UNCHANGED <<meta, pidfile, meddled, budget>>
    BY DEF Spawn, TryLock, Die, lockFiles, pid, charges, IInv, Typed
<1>1. /\ daemon' \in [Births -> BirthState] /\ \A e \in Births \ {d} : daemon'[e] = daemon[e]
      /\ daemon'[d].pc \in {"none", "new", "gated"}
  <2>1. \/ \E pc \in {"new", "gated"} : daemon' = [daemon EXCEPT ![d].pc = pc]
        \/ daemon' = [daemon EXCEPT ![d] = Gone]
        \/ daemon' = [e \in Births |-> IF e \in {d} THEN Gone ELSE daemon[e]]
      BY DEF Spawn, TryLock, Die, Killed, Go
  <2>2. CASE \E pc \in {"new", "gated"} : daemon' = [daemon EXCEPT ![d].pc = pc]
      BY <1>0, <2>2 DEF BirthState
  <2> QED
      BY <1>0, <2>1, <2>2, GoneAndLess
<1>2. daemon'[d].pc = "gated" => lock = NoOne /\ lock' = d
    BY <1>0 DEF Spawn, TryLock, Die, Killed, Go, Gone, BirthState
<1>3. daemon'[d].pc # "gated" => lock' = lock \/ (lock = d /\ lock' = NoOne)
    BY <1>0 DEF Spawn, TryLock, Die, Killed, Go, Gone, BirthState, lockFiles
<1>4. Typed'
    BY <1>0, <1>1 DEF IInv, Typed
<1>5. GateInv'
    BY <1>1, <1>2, <1>3, Constants DEF IInv, GateInv, At
<1>6. FilesInv' /\ NapInv'
    BY <1>0, <1>1 DEF IInv, FilesInv, NapInv, At
<1> QED
    BY <1>4, <1>5, <1>6 DEF IInv

\* Processes are killed or asked to stop by a command.
Ends(D) ==
    /\ UNCHANGED <<meta, pidfile, meddled, budget>>
    /\ lock' = IF lock \in D THEN NoOne ELSE lock
    /\ \A d \in D \cap Births : daemon'[d] = Gone
    /\ \A d \in Births \ D : daemon'[d] = daemon[d] \/ daemon'[d] = [daemon[d] EXCEPT !.stop = TRUE]
    /\ daemon' = [d \in Births |-> daemon'[d]]

\* The commands kill, or meddle with daemon.pid and say so.
LEMMA EndsKeepsIInv ==
    ASSUME IInv, NEW D, Ends(D)
    PROVE  IInv'
<1>0. daemon \in [Births -> BirthState] /\ UNCHANGED <<meta, pidfile, meddled, budget>>
    BY DEF Ends, IInv, Typed
<1>1. ASSUME NEW d \in Births
      PROVE  /\ daemon'[d] \in BirthState /\ (daemon'[d].pc = "none" \/ (d \notin D /\ daemon'[d].pc = daemon[d].pc))
             /\ daemon'[d].pc # "none" => daemon'[d].nap = daemon[d].nap
  <2>1. CASE d \in D
      BY <2>1, GoneAndLess DEF Ends
  <2>2. CASE d \notin D
    <3>1. daemon[d] \in BirthState /\ (daemon'[d] = daemon[d] \/ daemon'[d] = [daemon[d] EXCEPT !.stop = TRUE])
        BY <1>0, <2>2 DEF Ends
    <3> QED
        BY <2>2, <3>1 DEF BirthState
  <2> QED
      BY <2>1, <2>2
<1>2. daemon' \in [Births -> BirthState]
    BY <1>1 DEF Ends
<1>3. Typed' /\ GateInv'
    BY <1>0, <1>1, <1>2 DEF Ends, IInv, Typed, GateInv, At
<1>4. FilesInv' /\ NapInv'
    BY <1>0, <1>1 DEF IInv, FilesInv, NapInv, At
<1> QED
    BY <1>3, <1>4 DEF IInv

\* Commands.
LEMMA CommandsKeepIInv ==
    ASSUME IInv, CmdStep \/ \E kind \in {"stop", "reap"} : CmdRead(kind)
    PROVE  IInv'
<1>1. CASE \E kind \in {"stop", "reap"} : CmdRead(kind)
    BY <1>1 DEF CmdRead, lockFiles, pid, charges, IInv, Typed, GateInv, FilesInv, NapInv, At
<1>2. CASE CmdScan \/ CmdWrite
    BY <1>2 DEF CmdScan, CmdWrite, lockFiles, pid, charges, IInv, Typed, GateInv, FilesInv, NapInv, At
<1>3. CASE CmdClear \/ CmdRename
    BY <1>3 DEF CmdClear, CmdRename, lockFiles, charges, IInv, Typed, GateInv, FilesInv, NapInv, At
<1>4. ASSUME NEW K \in SUBSET Births, CmdTerm(K) PROVE IInv'
  <2>1. Ends(K)
      BY <1>4 DEF CmdTerm, Ends, pid, charges
  <2> QED
      BY <2>1, EndsKeepsIInv
<1>5. CASE CmdWaited
  <2>1. Ends(cmd.targets)
      BY <1>5 DEF CmdWaited, Killed, Ends, pid, charges
  <2> QED
      BY <2>1, EndsKeepsIInv
<1> QED
    BY <1>1, <1>2, <1>3, <1>4, <1>5 DEF CmdStep

\* A second passes for the budget and for the naps alike.
LEMMA SecondKeepsIInv == ASSUME IInv, Second PROVE IInv'
<1>0. /\ daemon \in [Births -> BirthState] /\ UNCHANGED <<lock, meta, pidfile, meddled>>
      /\ daemon' = [d \in Births |-> [daemon[d] EXCEPT !.nap = Less(@)]]
      /\ BudgetTyped(budget)
    BY DEF Second, IInv, Typed, BudgetTyped, lockFiles, pid
<1>1. /\ budget'.phase = budget.phase /\ budget'.left = Less(budget.left) /\ BudgetTyped(budget')
  <2>1. \E fs : budget' = [budget EXCEPT !.faults = fs, !.left = Less(@)]
      BY DEF Second
  <2>2. Less(budget.left) \in 0..Cooldown
      BY <1>0, GoneAndLess DEF BudgetTyped
  <2> QED
      BY <1>0, <2>1, <2>2 DEF BudgetTyped
<1>2. ASSUME NEW d \in Births
      PROVE  daemon'[d] \in BirthState /\ daemon'[d].pc = daemon[d].pc /\ daemon'[d].nap = Less(daemon[d].nap)
  <2>1. Less(daemon[d].nap) \in 0..Cooldown
      BY <1>0, GoneAndLess DEF BirthState
  <2> QED
      BY <1>0, <2>1 DEF BirthState
<1>3. Typed'
    BY <1>0, <1>1, <1>2 DEF Typed, BudgetTyped
<1>4. GateInv' /\ FilesInv'
    BY <1>0, <1>2 DEF IInv, GateInv, FilesInv, At
<1>5. NapInv'
  <2> SUFFICES ASSUME NEW d \in Births, At(d) = "nap", budget.phase = "cooldown"
               PROVE  Less(budget.left) <= Less(daemon[d].nap)
      BY <1>1, <1>2 DEF IInv, NapInv, At
  <2>1. budget.left <= daemon[d].nap /\ budget.left \in Nat /\ daemon[d].nap \in Nat
      BY <1>0, Constants DEF IInv, NapInv, BudgetTyped, BirthState
  <2> QED
      BY <2>1 DEF Less
<1> QED
    BY <1>3, <1>4, <1>5 DEF IInv

\* Every step keeps the invariant.
LEMMA NextIInv == IInv /\ [LifeNext]_lifeVars => IInv'
<1> SUFFICES ASSUME IInv, [LifeNext]_lifeVars PROVE IInv'
    OBVIOUS
<1>1. ASSUME NEW d \in Births,
             \/ Spawn(d) \/ DaemonStep(d) \/ StartFails(d) \/ Die(d)
             \/ \E saved \in BOOLEAN : StartLocked(d, saved) \/ LeaseLost(d, saved) \/ WriteStall(d, saved)
      PROVE  IInv'
    BY <1>1, HolderActions, MovesKeepsIInv, OutsideKeepsIInv DEF DaemonStep
<1>2. CASE UNCHANGED lifeVars
    BY <1>2 DEF lifeVars, IInv, Typed, GateInv, FilesInv, NapInv, At
<1> QED
    BY <1>1, <1>2, CommandsKeepIInv, SecondKeepsIInv DEF LifeNext

\* The inductive invariant holds through every life.
LEMMA LifeIInv == LifeSpec => []IInv
BY InitIInv, NextIInv, PTL DEF LifeSpec

----------------------------------------------------------------------------
\* There is never more than one daemon with the database open, and the lock, the
\* metadata and an unmeddled daemon.pid name the one that came up.
THEOREM LifeOneDaemon == LifeSpec => []OneDaemon
<1>1. IInv => OneDaemon
  <2> SUFFICES ASSUME IInv PROVE OneDaemon
      OBVIOUS
  <2>1. Candidates \subseteq {lock}
      BY DEF Candidates, HasDb, IInv, GateInv
  <2>2. Cardinality(Candidates) <= 1
    <3>1. IsFiniteSet({lock}) /\ Cardinality({lock}) = 1
        BY FS_Singleton
    <3> QED
        BY <2>1, <3>1, FS_Subset
  <2> QED
      BY <2>2 DEF IInv, GateInv, FilesInv, OneDaemon
<1> QED
    BY <1>1, LifeIInv, PTL

\* A start that naps through the cooldown is admitted afterwards.
THEOREM LifeNeverTurnedAway == LifeSpec => []NeverTurnedAway
<1>1. IInv => NeverTurnedAway
    BY DEF IInv, NapInv, NeverTurnedAway
<1> QED
    BY <1>1, LifeIInv, PTL

\* Nothing ends, shortens or lengthens a cooldown but the clock, and nobody is
\* admitted in it.
THEOREM LifeCooldownFixed == LifeSpec => CooldownFixed
<1>1. ASSUME IInv, [LifeNext]_lifeVars
      PROVE  [Cooling(budget) =>
                 /\ budget'.phase = "cooldown" /\ budget'.left \in {budget.left, budget.left - 1}
                 /\ \A d \in Births : At(d) \in {"admit", "nap"} => daemon'[d].pc # "open"]_lifeVars
  <2> SUFFICES ASSUME Cooling(budget), LifeNext
               PROVE  /\ budget'.phase = "cooldown" /\ budget'.left \in {budget.left, budget.left - 1}
                      /\ \A d \in Births : At(d) \in {"admit", "nap"} => daemon'[d].pc # "open"
      BY <1>1
  <2>0. /\ BudgetTyped(budget) /\ daemon \in [Births -> BirthState]
        /\ budget.phase = "cooldown" /\ budget.left \in Nat /\ budget.left > 0
        /\ RecordFault(budget) = budget /\ AdmitStart(budget) = budget /\ RecordRecovered(budget) = budget
        /\ ~Allowed(budget)
      BY <1>1, BudgetUpdates, Constants DEF IInv, Typed, BudgetTyped, Cooling
  <2>1. \/ budget' = budget
        \/ Second
    <3>1. ASSUME NEW d \in Births,
                 \/ Spawn(d) \/ DaemonStep(d) \/ StartFails(d) \/ Die(d)
                 \/ \E saved \in BOOLEAN : StartLocked(d, saved) \/ LeaseLost(d, saved) \/ WriteStall(d, saved)
          PROVE  budget' = budget
        BY <2>0, <3>1 DEF Spawn, DaemonStep, TryLock, WriteMeta, Admit, AdmitAgain, OpenStorage, WritePid,
               HoldLease, Recovered, EndLoop, RemovePid, RemoveMeta, Unlock, StartFails, Die, StartLocked,
               LeaseLost, WriteStall, Report, charges
    <3>2. ASSUME CmdStep \/ \E kind \in {"stop", "reap"} : CmdRead(kind)
          PROVE  budget' = budget
        BY <3>2 DEF CmdStep, CmdRead, CmdScan, CmdTerm, CmdWaited, CmdClear, CmdWrite, CmdRename, charges
    <3> QED
        BY <3>1, <3>2 DEF LifeNext
  <2>2. Second => budget'.phase = "cooldown" /\ budget'.left = budget.left - 1
    <3> SUFFICES ASSUME Second PROVE budget'.phase = "cooldown" /\ budget'.left = budget.left - 1
        OBVIOUS
    <3>1. \E fs : budget' = [budget EXCEPT !.faults = fs, !.left = Less(@)]
        BY DEF Second
    <3> QED
        BY <2>0, <3>1 DEF BudgetTyped, Less
  <2>3. ASSUME NEW d \in Births, At(d) \in {"admit", "nap"}
        PROVE  daemon'[d].pc # "open"
    <3>0. daemon[d] \in BirthState /\ daemon[d].pc \in {"admit", "nap"}
        BY <2>0, <2>3 DEF At
    <3>1. ASSUME NEW e \in Births \ {d}, Spawn(e) \/ DaemonStep(e) \/ StartFails(e) \/ Die(e)
                 \/ \E saved \in BOOLEAN : StartLocked(e, saved) \/ LeaseLost(e, saved) \/ WriteStall(e, saved)
          PROVE  daemon'[d] = daemon[d]
        BY <2>0, <3>1 DEF Spawn, DaemonStep, TryLock, WriteMeta, Admit, AdmitAgain, OpenStorage, WritePid,
               HoldLease, Recovered, EndLoop, RemovePid, RemoveMeta, Unlock, StartFails, Die, StartLocked,
               LeaseLost, WriteStall, Go, Killed
    <3>2. ASSUME Spawn(d) \/ DaemonStep(d) \/ StartFails(d) \/ Die(d)
                 \/ \E saved \in BOOLEAN : StartLocked(d, saved) \/ LeaseLost(d, saved) \/ WriteStall(d, saved)
          PROVE  daemon'[d].pc \in {"nap", "turnedAway", "unmeta", "none"}
      <4>1. \/ Admit(d) \/ AdmitAgain(d) \/ StartFails(d) \/ Die(d)
          BY <2>3, <3>2 DEF Spawn, DaemonStep, TryLock, WriteMeta, OpenStorage, WritePid,
               HoldLease, Recovered, EndLoop, RemovePid, RemoveMeta, Unlock, StartLocked, LeaseLost, WriteStall
      <4>2. CASE Admit(d) \/ AdmitAgain(d)
          BY <2>0, <3>0, <4>2 DEF Admit, AdmitAgain, Go, BirthState
      <4>3. CASE StartFails(d) \/ Die(d)
          BY <2>0, <2>3, <3>0, <4>3 DEF StartFails, Die, Go, Killed, Gone, BirthState
      <4> QED
          BY <4>1, <4>2, <4>3
    <3>3. ASSUME CmdStep \/ \E kind \in {"stop", "reap"} : CmdRead(kind)
          PROVE  daemon'[d] = daemon[d] \/ daemon'[d] = Gone \/ daemon'[d] = [daemon[d] EXCEPT !.stop = TRUE]
        BY <2>0, <3>3 DEF CmdStep, CmdRead, CmdScan, CmdTerm, CmdWaited, CmdClear, CmdWrite, CmdRename, Killed
    <3>4. ASSUME Second PROVE daemon'[d] = [daemon[d] EXCEPT !.nap = Less(@)]
        BY <2>0, <3>4 DEF Second
    <3> QED
        BY <3>0, <3>1, <3>2, <3>3, <3>4 DEF LifeNext, Gone, BirthState
  <2> QED
      BY <2>0, <2>1, <2>2, <2>3
<1> QED
    BY <1>1, LifeIInv, PTL DEF LifeSpec, CooldownFixed
----------------------------------------------------------------------------
\* The budget.  `charged` is the history of what it should count.

Early == {"none", "new", "gated", "admit", "nap", "open", "pid", "lease"}
Admitted(d) == At(d) \in {"open", "pid", "lease", "starting", "serve"}
\* A process that may still be charged with a fault.
Unreported(d) == At(d) \in Early \cup {"starting", "serve"} /\ At(d) # "none" /\ ~daemon[d].reported

Fault == [n : 1..MaxRestarts, age : 0..(Window + 1), own : BOOLEAN]
\* No two faults of the list have one number.
Numbered(F) == F \subseteq Fault /\ \A f, g \in F : f.n = g.n => f = g

\* The faults F are those that the processes of C were charged with, each once and at
\* its age; h says which is whose.
Pairs(h, C, F) ==
    /\ \A c \in C : \E f \in F : f.n = h[c.by] /\ f.age = c.age
    /\ \A f \in F : \E c \in C : f.n = h[c.by]
    /\ \A b, c \in C : h[b.by] = h[c.by] => b = c

\* The current generation's faults are those that the admitted process is charged with.
Owns(h, C, F) ==
    \A d \in Births : Admitted(d) => \A c \in C, f \in F : f.n = h[c.by] => (f.own <=> c.by = d)

\* What is counted while there is no cooldown.
Counted ==
    /\ Cardinality(charged) < MaxRestarts
    /\ \E h \in [Births -> 1..MaxRestarts] :
          Pairs(h, charged, Prune(budget).faults) /\ Owns(h, charged, Prune(budget).faults)

\* Who was charged, and what with.
ChargeTyped ==
    /\ charged \subseteq [by : Births, age : 0..Window] /\ IsFiniteSet(charged)
    /\ Numbered(budget.faults)
ReportInv ==
    \A d \in Births : /\ At(d) \in Early => ~daemon[d].reported
                      /\ Unreported(d) => \A c \in charged : c.by # d
CountInv == IF Cooling(budget) THEN Cardinality(charged) = MaxRestarts ELSE Counted

ChargeInv == ChargeTyped /\ ReportInv /\ CountInv

\* Charges that are paired with the faults are as many as they are.
LEMMA PairsCount ==
    ASSUME NEW C, IsFiniteSet(C), NEW F, Numbered(F), NEW h, Pairs(h, C, F)
    PROVE  IsFiniteSet(F) /\ Cardinality(F) = Cardinality(C)
<1> DEFINE Of(c) == CHOOSE f \in F : f.n = h[c.by]
           g == [c \in C |-> Of(c)]
<1>1. \A c \in C : Of(c) \in F /\ Of(c).n = h[c.by]
    BY DEF Pairs
<1>2. \A b, c \in C : Of(b) = Of(c) => b = c
    BY <1>1 DEF Pairs
<1>3. \A f \in F : \E c \in C : Of(c) = f
    BY <1>1 DEF Pairs, Numbered
<1> HIDE DEF Of
<1>4. g \in Bijection(C, F)
    BY <1>1, <1>2, <1>3 DEF Bijection, Injection, Surjection, IsInjective
<1>5. ExistsBijection(C, F)
    BY <1>4 DEF ExistsBijection
<1> QED
    BY <1>5, FS_Bijection

\* While fewer faults are counted than the budget allows, there is a number for one more.
LEMMA NumberLeft ==
    ASSUME NEW F, Numbered(F), IsFiniteSet(F), Cardinality(F) < MaxRestarts
    PROVE  Unnumbered(F) \in 1..MaxRestarts /\ \A f \in F : f.n # Unnumbered(F)
<1>1. \E n \in 1..MaxRestarts : \A f \in F : f.n # n
  <2> SUFFICES ASSUME \A n \in 1..MaxRestarts : \E f \in F : f.n = n
               PROVE  FALSE
      OBVIOUS
  <2> DEFINE g == [f \in F |-> f.n]
  <2>1. g \in Surjection(F, 1..MaxRestarts)
      BY DEF Numbered, Fault, Surjection
  <2>2. Cardinality(1..MaxRestarts) <= Cardinality(F)
      BY <2>1, FS_Surjection
  <2>3. MaxRestarts \in Nat \ {0} /\ Cardinality(1..MaxRestarts) = MaxRestarts
      BY LifeAssumption, FS_Interval
  <2>4. Cardinality(F) \in Nat
      BY FS_CardinalityType
  <2> QED
      BY <2>2, <2>3, <2>4
<1> QED
    BY <1>1 DEF Unnumbered

\* D and Push(F) are still paired, and what was paired before is as before.
Pushed(C, F, h, d, D) ==
    /\ IsFiniteSet(D) /\ Cardinality(D) = Cardinality(C) + 1
    /\ D \subseteq [by : Births, age : 0..Window]
    /\ Numbered(Push(F)) /\ Cardinality(Push(F)) = Cardinality(D)
    /\ \E k \in [Births -> 1..MaxRestarts] :
          /\ Pairs(k, D, Push(F))
          /\ \A c \in C : k[c.by] = h[c.by] /\ k[c.by] # k[d]
          /\ \A f \in Push(F) : f \in F \/ (f.n = k[d] /\ f.own)

\* A charge more and a fault more.
LEMMA PairsPush ==
    ASSUME NEW C \in SUBSET [by : Births, age : 0..Window], IsFiniteSet(C), NEW F, Numbered(F),
           Cardinality(C) < MaxRestarts, NEW h \in [Births -> 1..MaxRestarts], Pairs(h, C, F),
           NEW d \in Births, \A c \in C : c.by # d, NEW D, D = C \cup {[by |-> d, age |-> 0]}
    PROVE  Pushed(C, F, h, d, D)
<1> DEFINE u == Unnumbered(F)
           new == [n |-> u, age |-> 0, own |-> TRUE]
           k == [h EXCEPT ![d] = u]
<1>0. Window \in Nat /\ MaxRestarts \in Nat
    BY LifeAssumption
<1>1. IsFiniteSet(F) /\ Cardinality(F) = Cardinality(C)
    BY PairsCount
<1>2. u \in 1..MaxRestarts /\ \A f \in F : f.n # u
    BY <1>1, NumberLeft
<1>3. [by |-> d, age |-> 0] \notin C
    OBVIOUS
<1>4. /\ IsFiniteSet(D) /\ Cardinality(D) = Cardinality(C) + 1
      /\ D \subseteq [by : Births, age : 0..Window]
    BY <1>0, <1>3, FS_AddElement
<1> HIDE DEF u
<1>5. Push(F) = F \cup {new}
    BY DEF Push, u
<1>6. Numbered(Push(F))
  <2>1. new \in Fault /\ new.n = u
      BY <1>0, <1>2 DEF Fault
  <2> QED
      BY <1>2, <1>5, <2>1 DEF Numbered
<1>7. /\ k \in [Births -> 1..MaxRestarts] /\ k[d] = u
      /\ \A c \in C : k[c.by] = h[c.by] /\ k[c.by] # k[d]
  <2>1. k \in [Births -> 1..MaxRestarts] /\ k[d] = u /\ \A e \in Births \ {d} : k[e] = h[e]
      BY <1>2
  <2>2. \A c \in C : c.by \in Births \ {d} /\ h[c.by] # u
      BY <1>2 DEF Pairs
  <2> QED
      BY <2>1, <2>2
<1> HIDE DEF k
<1>8. Pairs(k, D, Push(F))
  <2>1. \A c \in D : c \in C \/ (c.by = d /\ c.age = 0 /\ c = [by |-> d, age |-> 0])
      OBVIOUS
  <2>2. new.n = u /\ new.age = 0
      OBVIOUS
  <2>3. ASSUME NEW c \in D PROVE \E f \in Push(F) : f.n = k[c.by] /\ f.age = c.age
    <3>1. CASE c \in C
        BY <1>5, <1>7, <3>1 DEF Pairs
    <3>2. CASE c \notin C
      <4>1. new \in Push(F) /\ new.n = k[c.by] /\ new.age = c.age
          BY <1>5, <1>7, <2>1, <2>2, <3>2
      <4> QED
          BY <4>1
    <3> QED
        BY <3>1, <3>2
  <2>4. \A f \in Push(F) : \E c \in D : f.n = k[c.by]
    <3>1. [by |-> d, age |-> 0] \in D /\ [by |-> d, age |-> 0].by = d
        OBVIOUS
    <3>2. ASSUME NEW f \in F PROVE \E c \in D : f.n = k[c.by]
        BY <1>7 DEF Pairs
    <3> QED
        BY <1>5, <1>7, <2>2, <3>1, <3>2
  <2>5. \A b, c \in D : k[b.by] = k[c.by] => b = c
      BY <1>7, <2>1 DEF Pairs
  <2> QED
      BY <2>3, <2>4, <2>5 DEF Pairs
<1>9. \A f \in Push(F) : f \in F \/ (f.n = k[d] /\ f.own)
    BY <1>5, <1>7
<1>10. Cardinality(Push(F)) = Cardinality(D)
    BY <1>4, <1>6, <1>8, PairsCount
<1> QED
    BY <1>4, <1>6, <1>7, <1>8, <1>9, <1>10 DEF Pushed

----------------------------------------------------------------------------
\* Steps that charge nothing: nobody is admitted, and whoever may now be charged was
\* not charged before.
Uncharged ==
    /\ UNCHANGED <<budget, charged>>
    /\ \A d \in Births :
          /\ daemon'[d].pc \in Early => ~daemon'[d].reported
          /\ Admitted(d)' => Admitted(d)
          /\ Unreported(d)' => Unreported(d) \/ \A c \in charged : c.by # d

LEMMA UnchargedKeeps ==
    ASSUME ChargeInv, Uncharged PROVE ChargeInv'
<1>1. ChargeTyped' /\ ReportInv'
    BY DEF Uncharged, ChargeInv, ChargeTyped, ReportInv, Unreported, At
<1>2. Counted => Counted'
    BY DEF Uncharged, Counted, Owns
<1>3. CountInv'
    BY <1>2 DEF Uncharged, ChargeInv, CountInv
<1> QED
    BY <1>1, <1>3 DEF ChargeInv

\* What one process does to its own state only: its flags stay, or it is gone.
OwnMove(d) ==
    /\ \A e \in Births \ {d} : daemon'[e] = daemon[e]
    /\ \/ daemon'[d] = Gone
       \/ /\ daemon'[d].pc \in {"new", "gated", "admit", "nap", "open", "pid", "lease", "starting", "serve",
                                "unpid", "unmeta", "turnedAway", "unlock"}
          /\ daemon'[d].reported = daemon[d].reported

\* The moves of a process that leave the budget alone charge nothing.
LEMMA OwnMoveUncharged ==
    ASSUME ChargeInv, NEW d \in Births, OwnMove(d), UNCHANGED <<budget, charged>>,
           \/ daemon'[d] = Gone
           \/ daemon'[d].pc = "new" /\ \A c \in charged : c.by # d
           \/ /\ At(d) \in Early \cup {"starting", "serve"} /\ At(d) # "none"
              /\ daemon'[d].pc \in {"open", "pid", "lease", "starting", "serve"} => Admitted(d)
              /\ daemon'[d].pc \in Early => At(d) \in Early
           \/ daemon'[d].pc \in {"unpid", "unmeta", "turnedAway", "unlock"},
           daemon'[d].pc = "new" => At(d) = "none"
    PROVE  Uncharged
<1>1. Gone.pc = "none" /\ ~Gone.reported
    BY DEF Gone
<1>2. /\ daemon'[d].pc \in Early => ~daemon'[d].reported
      /\ Admitted(d)' => Admitted(d)
      /\ Unreported(d)' => Unreported(d) \/ \A c \in charged : c.by # d
    BY <1>1 DEF ChargeInv, ReportInv, OwnMove, Admitted, Unreported, At, Early
<1>3. ASSUME NEW e \in Births \ {d}
      PROVE  /\ daemon'[e].pc \in Early => ~daemon'[e].reported
             /\ Admitted(e)' => Admitted(e)
             /\ Unreported(e)' => Unreported(e)
    BY DEF ChargeInv, ReportInv, OwnMove, Admitted, Unreported, At
<1> QED
    BY <1>2, <1>3 DEF Uncharged

\* Such are all the moves of a process but its admission, its recovery and its faults.
LEMMA MovesUncharged ==
    ASSUME IInv, ChargeInv, NEW d \in Births,
           \/ Spawn(d) \/ TryLock(d) \/ WriteMeta(d) \/ OpenStorage(d) \/ WritePid(d) \/ HoldLease(d)
           \/ EndLoop(d) \/ RemovePid(d) \/ RemoveMeta(d) \/ Unlock(d) \/ StartFails(d) \/ Die(d)
    PROVE  Uncharged
<1>0. daemon \in [Births -> BirthState] /\ daemon[d] \in BirthState /\ UNCHANGED <<budget, charged>>
    BY DEF IInv, Typed, Spawn, TryLock, WriteMeta, OpenStorage, WritePid, HoldLease, EndLoop, RemovePid,
           RemoveMeta, Unlock, StartFails, Die, charges
<1>1. ASSUME NEW pc \in {"new", "gated", "admit", "nap", "open", "pid", "lease", "starting", "serve",
                         "unpid", "unmeta", "turnedAway", "unlock"}, Go(d, pc)
      PROVE  OwnMove(d) /\ daemon'[d].pc = pc
    BY <1>0, <1>1 DEF Go, OwnMove, BirthState
<1>2. ASSUME daemon' = [daemon EXCEPT ![d] = Gone] \/ Killed({d})
      PROVE  OwnMove(d) /\ daemon'[d] = Gone /\ daemon'[d].pc = "none"
  <2>1. daemon'[d] = Gone /\ \A e \in Births \ {d} : daemon'[e] = daemon[e]
      BY <1>0, <1>2 DEF Killed
  <2> QED
      BY <2>1, GoneAndLess DEF OwnMove
<1>3. CASE Spawn(d)
  <2>1. Go(d, "new") /\ At(d) = "none" /\ \A c \in charged : c.by # d
      BY <1>3 DEF Spawn, Remembered
  <2> QED
      BY <1>0, <1>1, <2>1, OwnMoveUncharged
<1>4. CASE TryLock(d)
  <2>1. CASE Go(d, "gated")
      BY <1>0, <1>1, <1>4, <2>1, OwnMoveUncharged DEF TryLock, Early
  <2>2. CASE daemon' = [daemon EXCEPT ![d] = Gone]
      BY <1>0, <1>2, <2>2, OwnMoveUncharged
  <2> QED
      BY <1>4, <2>1, <2>2 DEF TryLock
<1>5. CASE WriteMeta(d)
    BY <1>0, <1>1, <1>5, OwnMoveUncharged DEF WriteMeta, Early
<1>6. CASE OpenStorage(d) \/ WritePid(d) \/ HoldLease(d)
    BY <1>0, <1>1, <1>6, OwnMoveUncharged DEF OpenStorage, WritePid, HoldLease, Early, Admitted
<1>7. CASE EndLoop(d) \/ RemovePid(d) \/ RemoveMeta(d)
    BY <1>0, <1>1, <1>7, OwnMoveUncharged DEF EndLoop, RemovePid, RemoveMeta
<1>8. CASE StartFails(d)
  <2>1. \E pc \in {"unlock", "unpid", "unmeta"} : Go(d, pc)
      BY <1>8 DEF StartFails
  <2> QED
      BY <1>0, <1>1, <2>1, OwnMoveUncharged
<1>9. CASE Unlock(d) \/ Die(d)
  <2>1. Killed({d})
      BY <1>9 DEF Unlock, Die
  <2> QED
      BY <1>0, <1>2, <2>1, OwnMoveUncharged
<1> QED
    BY <1>3, <1>4, <1>5, <1>6, <1>7, <1>8, <1>9

\* The commands end processes or ask them to stop.
LEMMA CommandsUncharged ==
    ASSUME IInv, ChargeInv, CmdStep \/ \E kind \in {"stop", "reap"} : CmdRead(kind)
    PROVE  Uncharged
<1>0. daemon \in [Births -> BirthState] /\ UNCHANGED <<budget, charged>>
    BY DEF IInv, Typed, CmdStep, CmdRead, CmdScan, CmdTerm, CmdWaited, CmdClear, CmdWrite, CmdRename, charges
<1>1. \A d \in Births : \/ daemon'[d] = daemon[d] \/ daemon'[d] = Gone
                        \/ daemon'[d] = [daemon[d] EXCEPT !.stop = TRUE]
    BY <1>0 DEF CmdStep, CmdRead, CmdScan, CmdTerm, CmdWaited, CmdClear, CmdWrite, CmdRename, Killed
<1>2. ASSUME NEW d \in Births
      PROVE  \/ daemon'[d].pc = "none" /\ ~daemon'[d].reported
             \/ daemon'[d].pc = daemon[d].pc /\ daemon'[d].reported = daemon[d].reported
  <2>1. daemon[d] \in BirthState
      BY <1>0
  <2>2. Gone.pc = "none" /\ ~Gone.reported
      BY DEF Gone
  <2>3. [daemon[d] EXCEPT !.stop = TRUE].pc = daemon[d].pc
        /\ [daemon[d] EXCEPT !.stop = TRUE].reported = daemon[d].reported
      BY <2>1 DEF BirthState
  <2> QED
      BY <1>1, <2>2, <2>3
<1>3. ASSUME NEW d \in Births
      PROVE  /\ daemon'[d].pc \in Early => ~daemon'[d].reported
             /\ Admitted(d)' => Admitted(d)
             /\ Unreported(d)' => Unreported(d)
    BY <1>2 DEF ChargeInv, ReportInv, Admitted, Unreported, At
<1> QED
    BY <1>0, <1>3 DEF Uncharged

----------------------------------------------------------------------------
\* What counts outside a cooldown.
LEMMA PruneCounts ==
    ASSUME NEW b, BudgetTyped(b), Numbered(b.faults)
    PROVE  /\ ~Cooling(b) => /\ Numbered(Prune(b).faults) /\ Prune(b).phase # "cooldown"
                             /\ \A f \in Prune(b).faults : f.age <= Window
           /\ b.phase # "cooldown" => ~Cooling(b) /\ Prune(b).faults = Recent(b.faults)
<1>1. b.phase # "cooldown" => Prune(b).faults = Recent(b.faults) /\ Prune(b).phase = b.phase /\ ~Cooling(b)
    BY DEF Prune, Cooling, BudgetTyped
<1>2. b.phase = "cooldown" /\ ~Cooling(b) => Prune(b).faults = {} /\ Prune(b).phase = "healthy"
    BY Constants DEF Prune, Cooling, BudgetTyped, Healthy
<1>3. Numbered({}) /\ Numbered(Recent(b.faults)) /\ \A f \in Recent(b.faults) : f.age <= Window
    BY DEF Numbered, Recent
<1> QED
    BY <1>1, <1>2, <1>3

\* A process is admitted: nothing is charged to its generation yet.
LEMMA AdmitKeeps ==
    ASSUME IInv, ChargeInv, NEW d \in Births, At(d) \in {"admit", "nap"}, ~Cooling(budget),
           budget' = AdmitStart(budget), charged' = charged, Go(d, "open")
    PROVE  ChargeInv'
<1> DEFINE P == Prune(budget).faults
           Q == {[f EXCEPT !.own = FALSE] : f \in P}
<1>0. /\ daemon \in [Births -> BirthState] /\ daemon[d] \in BirthState /\ BudgetTyped(budget)
      /\ Numbered(budget.faults) /\ ChargeTyped /\ ReportInv /\ Counted
    BY DEF IInv, Typed, BudgetTyped, ChargeInv, ChargeTyped, CountInv
<1>1. /\ daemon'[d].pc = "open" /\ daemon'[d].reported = daemon[d].reported
      /\ \A e \in Births \ {d} : daemon'[e] = daemon[e]
    BY <1>0 DEF Go, BirthState
<1>2. \A e \in Births \ {d} : ~Admitted(e)'
    BY <1>1, OthersOutside DEF Admitted, At
<1>3. \A c \in charged : c.by # d
    BY <1>0 DEF ReportInv, Unreported, Early
<1>4. Numbered(P) /\ \A f \in P : f.age <= Window
    BY <1>0, PruneCounts
<1>5. budget' = [phase |-> "recovering", left |-> 0, faults |-> Q]
    BY <1>0, BudgetUpdates DEF AdmitStart
<1> HIDE DEF P
<1>6. /\ \A f \in P : [f EXCEPT !.own = FALSE] \in Fault
      /\ \A f \in P : LET g == [f EXCEPT !.own = FALSE] IN g.n = f.n /\ g.age = f.age /\ g.own = FALSE
    BY <1>4 DEF Numbered, Fault
<1>7. Numbered(Q) /\ \A g \in Q : \E f \in P : g = [f EXCEPT !.own = FALSE] /\ g.n = f.n /\ g.age = f.age /\ ~g.own
  <2>1. \A g \in Q : \E f \in P : g = [f EXCEPT !.own = FALSE] /\ g.n = f.n /\ g.age = f.age /\ ~g.own
      BY <1>6
  <2>2. Q \subseteq Fault
      BY <1>6
  <2>3. ASSUME NEW g \in Q, NEW k \in Q, g.n = k.n PROVE g = k
    <3>1. PICK f \in P : g = [f EXCEPT !.own = FALSE] /\ g.n = f.n
        BY <2>1
    <3>2. PICK e \in P : k = [e EXCEPT !.own = FALSE] /\ k.n = e.n
        BY <2>1
    <3>3. f = e
        BY <1>4, <2>3, <3>1, <3>2 DEF Numbered
    <3> QED
        BY <3>1, <3>2, <3>3
  <2> QED
      BY <2>1, <2>2, <2>3 DEF Numbered
<1> HIDE DEF Q
<1>8. /\ budget'.phase = "recovering" /\ budget'.faults = Q /\ ~Cooling(budget') /\ Prune(budget').faults = Q
  <2>1. budget'.phase = "recovering" /\ budget'.faults = Q
      BY <1>5
  <2>2. BudgetTyped(budget')
      BY <1>0, BudgetUpdates
  <2>3. \A f \in Q : f.age <= Window
      BY <1>4, <1>7
  <2>4. Recent(Q) = Q
      BY <2>3 DEF Recent
  <2> QED
      BY <1>7, <2>1, <2>2, <2>4, PruneCounts
<1>9. PICK h \in [Births -> 1..MaxRestarts] : Pairs(h, charged, P)
    BY <1>0 DEF Counted, P
<1>10. Pairs(h, charged, Q)
  <2>1. ASSUME NEW c \in charged PROVE \E g \in Q : g.n = h[c.by] /\ g.age = c.age
    <3>1. PICK f \in P : f.n = h[c.by] /\ f.age = c.age
        BY <1>9 DEF Pairs
    <3>2. [f EXCEPT !.own = FALSE] \in Q
        BY DEF Q
    <3> QED
        BY <1>6, <3>1, <3>2
  <2>2. \A g \in Q : \E c \in charged : g.n = h[c.by]
      BY <1>7, <1>9 DEF Pairs
  <2> QED
      BY <1>9, <2>1, <2>2 DEF Pairs
<1>11. \A c \in charged, f \in Q : f.own <=> c.by = d
    BY <1>3, <1>7
<1>12. Counted'
    BY <1>0, <1>8, <1>9, <1>10, <1>11, <1>2 DEF Counted, Owns, Pairs
<1>13. ReportInv'
    BY <1>0, <1>1, <1>3 DEF ReportInv, Unreported, At, Early
<1>14. ChargeTyped' /\ CountInv'
    BY <1>0, <1>7, <1>8, <1>12 DEF ChargeTyped, CountInv
<1> QED
    BY <1>13, <1>14 DEF ChargeInv

\* A generation that came up is left with what it was charged with itself.
LEMMA RecoveredKeeps ==
    ASSUME IInv, ChargeInv, NEW d \in Births, Recovered(d)
    PROVE  ChargeInv'
<1> DEFINE P == Prune(budget).faults
           own == {f \in P : f.own}
<1>0. /\ daemon \in [Births -> BirthState] /\ daemon[d] \in BirthState /\ BudgetTyped(budget)
      /\ Numbered(budget.faults) /\ ChargeTyped /\ ReportInv /\ CountInv /\ At(d) = "starting"
    BY DEF IInv, Typed, BudgetTyped, ChargeInv, ChargeTyped, Recovered
<1>1. /\ daemon'[d].pc = "serve" /\ daemon'[d].reported = daemon[d].reported
      /\ \A e \in Births \ {d} : daemon'[e] = daemon[e]
    BY <1>0 DEF Recovered, Go, BirthState
<1>2. \A e \in Births \ {d} : ~Admitted(e)'
    BY <1>0, <1>1, OthersOutside DEF Admitted, At
<1>3. Admitted(d)
    BY <1>0 DEF Admitted
<1>4. CASE Cooling(budget)
  <2>1. UNCHANGED <<budget, charged>>
      BY <1>0, <1>4, BudgetUpdates DEF Recovered
  <2>2. OwnMove(d)
      BY <1>1 DEF OwnMove
  <2>3. Uncharged
      BY <1>0, <1>1, <1>3, <2>1, <2>2, OwnMoveUncharged DEF Early
  <2> QED
      BY <2>3, UnchargedKeeps
<1>5. CASE ~Cooling(budget)
  <2>1. Numbered(P) /\ Prune(budget).phase # "cooldown" /\ \A f \in P : f.age <= Window
      BY <1>0, <1>5, PruneCounts
  <2>2. \E ph \in {"healthy", "recovering"} : budget' = [phase |-> ph, faults |-> own, left |-> 0]
      BY <2>1 DEF Recovered, RecordRecovered
  <2>3. charged' = {c \in charged : c.by = d}
      BY <1>5 DEF Recovered
  <2> HIDE DEF P
  <2>4. Numbered(own) /\ Recent(own) = own
      BY <2>1 DEF Numbered, Recent
  <2>5. budget'.faults = own /\ ~Cooling(budget') /\ Prune(budget').faults = own
    <3>1. budget'.faults = own /\ budget'.phase # "cooldown"
        BY <2>2
    <3>2. BudgetTyped(budget')
        BY <1>0, BudgetUpdates DEF Recovered
    <3> QED
        BY <2>4, <3>1, <3>2, PruneCounts
  <2>6. PICK h \in [Births -> 1..MaxRestarts] : Pairs(h, charged, P) /\ Owns(h, charged, P)
      BY <1>0, <1>5 DEF CountInv, Counted, P
  <2>7. \A c \in charged, f \in P : f.n = h[c.by] => (f.own <=> c.by = d)
      BY <1>3, <2>6 DEF Owns
  <2>8. Pairs(h, charged', own)
    <3>1. ASSUME NEW c \in charged' PROVE \E f \in own : f.n = h[c.by] /\ f.age = c.age
        BY <2>3, <2>6, <2>7 DEF Pairs
    <3>2. ASSUME NEW f \in own PROVE \E c \in charged' : f.n = h[c.by]
        BY <2>3, <2>6, <2>7 DEF Pairs
    <3> QED
        BY <2>3, <2>6, <3>1, <3>2 DEF Pairs
  <2>9. \A c \in charged', f \in own : f.own <=> c.by = d
      BY <2>3
  <2>10. IsFiniteSet(charged') /\ Cardinality(charged') < MaxRestarts
    <3>1. IsFiniteSet(charged) /\ Cardinality(charged) < MaxRestarts /\ charged' \subseteq charged
        BY <1>0, <1>5, <2>3 DEF ChargeTyped, CountInv, Counted
    <3>2. IsFiniteSet(charged') /\ Cardinality(charged') <= Cardinality(charged)
        BY <3>1, FS_Subset
    <3>3. Cardinality(charged) \in Nat /\ Cardinality(charged') \in Nat /\ MaxRestarts \in Nat
        BY <3>1, <3>2, FS_CardinalityType, LifeAssumption
    <3> QED
        BY <3>1, <3>2, <3>3
  <2> HIDE DEF own
  <2>11. Counted'
      BY <1>2, <2>5, <2>6, <2>8, <2>9, <2>10 DEF Counted, Owns, Pairs
  <2>12. ReportInv'
      BY <1>0, <1>1, <2>3 DEF ReportInv, Unreported, At, Early
  <2>13. ChargeTyped' /\ CountInv'
      BY <1>0, <2>3, <2>4, <2>5, <2>10, <2>11 DEF ChargeTyped, CountInv
  <2> QED
      BY <2>12, <2>13 DEF ChargeInv
<1> QED
    BY <1>4, <1>5

\* A fault is charged once; the last one that the budget allows starts the cooldown.
LEMMA FaultKeeps ==
    ASSUME IInv, ChargeInv, NEW d \in Births, Admitted(d), ~daemon[d].reported, ~Cooling(budget),
           budget' = RecordFault(budget), charged' = charged \cup {[by |-> d, age |-> 0]},
           \A e \in Births \ {d} : daemon'[e] = daemon[e],
           daemon'[d].pc \in {"unpid", "unmeta"} \/ (daemon'[d].pc = At(d) /\ At(d) \notin Early /\ daemon'[d].reported)
    PROVE  ChargeInv'
<1> DEFINE P == Prune(budget).faults
<1>0. /\ BudgetTyped(budget) /\ Numbered(budget.faults) /\ ChargeTyped /\ ReportInv /\ Counted
      /\ MaxRestarts \in Nat /\ Window \in Nat
    BY LifeAssumption DEF IInv, Typed, BudgetTyped, ChargeInv, ChargeTyped, CountInv
<1>1. \A c \in charged : c.by # d
    BY <1>0 DEF ReportInv, Unreported, Admitted, Early
<1>2. \A e \in Births \ {d} : ~Admitted(e)'
    BY OthersOutside DEF Admitted, At
<1>3. Numbered(P) /\ \A f \in P : f.age <= Window
    BY <1>0, PruneCounts
<1>4. PICK h \in [Births -> 1..MaxRestarts] : Pairs(h, charged, P) /\ Owns(h, charged, P)
    BY <1>0 DEF Counted
<1>5. budget' = IF Cardinality(Push(P)) >= MaxRestarts
                THEN [phase |-> "cooldown", faults |-> Push(P), left |-> Cooldown]
                ELSE [phase |-> "recovering", faults |-> Push(P), left |-> 0]
    BY DEF RecordFault
<1> HIDE DEF P
<1>6. Pushed(charged, P, h, d, charged')
  <2>1. charged \in SUBSET [by : Births, age : 0..Window] /\ IsFiniteSet(charged) /\ Cardinality(charged) < MaxRestarts
      BY <1>0 DEF ChargeTyped, Counted
  <2> QED
      BY <1>1, <1>3, <1>4, <2>1, PairsPush
<1>7. PICK k \in [Births -> 1..MaxRestarts] :
            /\ Pairs(k, charged', Push(P))
            /\ \A c \in charged : k[c.by] = h[c.by] /\ k[c.by] # k[d]
            /\ \A f \in Push(P) : f \in P \/ (f.n = k[d] /\ f.own)
    BY <1>6 DEF Pushed
<1>8. budget'.faults = Push(P)
    BY <1>5
<1>9. Cardinality(charged) \in Nat /\ Cardinality(charged) < MaxRestarts
    BY <1>0, FS_CardinalityType DEF ChargeTyped, Counted
<1>10. CountInv'
  <2>1. CASE Cardinality(Push(P)) >= MaxRestarts
    <3>1. Cooling(budget')
        BY <1>5, <2>1, Constants DEF Cooling
    <3> QED
        BY <1>0, <1>6, <1>9, <2>1, <3>1 DEF CountInv, Pushed
  <2>2. CASE ~(Cardinality(Push(P)) >= MaxRestarts)
    <3>1. budget'.phase = "recovering"
        BY <1>5, <2>2
    <3>2. \A f \in Push(P) : f.age <= Window
        BY <1>0, <1>3 DEF Push
    <3>3. Recent(Push(P)) = Push(P)
        BY <3>2 DEF Recent
    <3>4. ~Cooling(budget') /\ Prune(budget').faults = Push(P)
      <4>1. BudgetTyped(budget')
          BY <1>0, BudgetUpdates
      <4> QED
          BY <1>6, <1>8, <3>1, <3>3, <4>1, PruneCounts DEF Pushed
    <3>5. ASSUME NEW c \in charged', NEW f \in Push(P), f.n = k[c.by]
          PROVE  f.own <=> c.by = d
      <4>1. CASE c \in charged
        <5>1. f \in P /\ f.n = h[c.by]
            BY <1>7, <3>5, <4>1
        <5> QED
            BY <1>4, <4>1, <5>1 DEF Owns
      <4>2. CASE c \notin charged
        <5>1. c.by = d
            BY <4>2
        <5>2. f \notin P
            BY <1>4, <1>7, <3>5, <5>1 DEF Pairs
        <5> QED
            BY <1>7, <5>1, <5>2
      <4> QED
          BY <4>1, <4>2
    <3>6. Cardinality(charged') < MaxRestarts
        BY <1>0, <1>6, <1>9, <2>2 DEF Pushed
    <3>7. Counted'
        BY <1>2, <1>7, <3>4, <3>5, <3>6 DEF Counted, Owns, Pairs
    <3> QED
        BY <3>4, <3>7 DEF CountInv
  <2> QED
      BY <2>1, <2>2
<1>11. ReportInv'
    BY <1>0 DEF ReportInv, Unreported, At, Early
<1> QED
    BY <1>6, <1>8, <1>10, <1>11 DEF ChargeInv, ChargeTyped, Pushed

\* The actions that may charge a fault.
LEMMA FaultsKeep ==
    ASSUME IInv, ChargeInv, NEW d \in Births, NEW saved \in BOOLEAN,
           StartLocked(d, saved) \/ LeaseLost(d, saved) \/ WriteStall(d, saved)
    PROVE  ChargeInv'
<1>0. /\ daemon \in [Births -> BirthState] /\ daemon[d] \in BirthState /\ BudgetTyped(budget)
      /\ ReportInv /\ Admitted(d)
    BY DEF IInv, Typed, BudgetTyped, ChargeInv, StartLocked, LeaseLost, WriteStall, Admitted
<1>1. /\ \A e \in Births \ {d} : daemon'[e] = daemon[e]
      /\ \/ daemon'[d].pc \in {"unpid", "unmeta"}
         \/ /\ daemon'[d].pc = At(d) /\ At(d) \in {"starting", "serve"}
            /\ daemon'[d].reported = (daemon[d].reported \/ saved)
  <2>1. CASE StartLocked(d, saved)
      BY <1>0, <2>1 DEF StartLocked, Go, BirthState
  <2>2. CASE LeaseLost(d, saved)
    <3>0. daemon' = [daemon EXCEPT ![d].stop = TRUE, ![d].reported = @ \/ saved]
        BY <2>2 DEF LeaseLost
    <3>1. daemon' = [daemon EXCEPT ![d] = [@ EXCEPT !.stop = TRUE, !.reported = daemon[d].reported \/ saved]]
        BY <1>0, <3>0 DEF BirthState
    <3>2. LET r == [daemon[d] EXCEPT !.stop = TRUE, !.reported = daemon[d].reported \/ saved]
          IN  r.pc = daemon[d].pc /\ r.reported = (daemon[d].reported \/ saved)
        BY <1>0 DEF BirthState
    <3> QED
        BY <1>0, <2>2, <3>1, <3>2 DEF LeaseLost, At
  <2>3. CASE WriteStall(d, saved)
    <3>0. daemon' = [daemon EXCEPT ![d].watched = FALSE, ![d].reported = @ \/ saved]
        BY <2>3 DEF WriteStall
    <3>1. daemon' = [daemon EXCEPT ![d] = [@ EXCEPT !.watched = FALSE, !.reported = daemon[d].reported \/ saved]]
        BY <1>0, <3>0 DEF BirthState
    <3>2. LET r == [daemon[d] EXCEPT !.watched = FALSE, !.reported = daemon[d].reported \/ saved]
          IN  r.pc = daemon[d].pc /\ r.reported = (daemon[d].reported \/ saved)
        BY <1>0 DEF BirthState
    <3> QED
        BY <1>0, <2>3, <3>1, <3>2 DEF WriteStall, At
  <2> QED
      BY <2>1, <2>2, <2>3
<1>2. Report(d, saved)
    BY DEF StartLocked, LeaseLost, WriteStall
<1>3. CASE saved /\ ~daemon[d].reported /\ ~Cooling(budget)
  <2>1. budget' = RecordFault(budget) /\ charged' = charged \cup {[by |-> d, age |-> 0]}
      BY <1>2, <1>3 DEF Report
  <2>2. daemon'[d].pc \in {"unpid", "unmeta"} \/ (daemon'[d].pc = At(d) /\ At(d) \notin Early /\ daemon'[d].reported)
      BY <1>1, <1>3 DEF Early
  <2> QED
      BY <1>0, <1>1, <1>3, <2>1, <2>2, FaultKeeps
<1>4. CASE ~(saved /\ ~daemon[d].reported /\ ~Cooling(budget))
  <2>1. UNCHANGED <<budget, charged>>
      BY <1>0, <1>2, <1>4, BudgetUpdates DEF Report, charges
  <2>2. Uncharged
      BY <1>0, <1>1, <2>1 DEF Uncharged, Unreported, Admitted, At, Early, ReportInv
  <2> QED
      BY <2>2, UnchargedKeeps
<1> QED
    BY <1>3, <1>4

\* A second passes: the faults and the charges age alike.
LEMMA SecondKeeps ==
    ASSUME IInv, ChargeInv, Second
    PROVE  ChargeInv'
<1> DEFINE F == budget.faults
           G == {Older(f) : f \in F}
<1>0. /\ daemon \in [Births -> BirthState] /\ BudgetTyped(budget) /\ ChargeTyped /\ ReportInv /\ CountInv
      /\ Window \in Nat /\ MaxRestarts \in Nat \ {0}
    BY LifeAssumption DEF IInv, Typed, BudgetTyped, ChargeInv
<1>1. \A d \in Births : daemon'[d].pc = daemon[d].pc /\ daemon'[d].reported = daemon[d].reported
    BY <1>0 DEF Second, BirthState
<1>2. /\ budget'.phase = budget.phase /\ budget'.left = Less(budget.left) /\ budget'.faults = G
      /\ BudgetTyped(budget')
  <2>1. budget' = [budget EXCEPT !.faults = G, !.left = Less(@)]
      BY DEF Second
  <2>2. Less(budget.left) \in 0..Cooldown
      BY <1>0, GoneAndLess DEF BudgetTyped
  <2> QED
      BY <1>0, <2>1, <2>2 DEF BudgetTyped
<1>3. ASSUME NEW f \in Fault
      PROVE  /\ Older(f) \in Fault /\ Older(f).n = f.n /\ Older(f).own = f.own
             /\ f.age <= Window => Older(f).age = f.age + 1
             /\ ~(f.age <= Window) => Older(f).age = f.age
  <2>1. f.age \in 0..(Window + 1)
      BY DEF Fault
  <2>2. (IF f.age <= Window THEN f.age + 1 ELSE f.age) \in 0..(Window + 1)
      BY <1>0, <2>1
  <2> QED
      BY <2>1, <2>2 DEF Older, Fault
<1>4. Numbered(G)
  <2>0. F \subseteq Fault
      BY <1>0 DEF ChargeTyped, Numbered
  <2>1. G \subseteq Fault
      BY <1>3, <2>0
  <2>2. ASSUME NEW f \in G, NEW g \in G, f.n = g.n PROVE f = g
    <3>1. PICK a \in F : f = Older(a)
        OBVIOUS
    <3>2. PICK b \in F : g = Older(b)
        OBVIOUS
    <3>3. a.n = b.n
        BY <1>3, <2>0, <2>2, <3>1, <3>2
    <3>4. a = b
        BY <1>0, <3>3 DEF ChargeTyped, Numbered
    <3> QED
        BY <3>1, <3>2, <3>4
  <2> QED
      BY <2>1, <2>2 DEF Numbered
<1>5. CASE budget.phase = "cooldown" /\ budget.left > 1
  <2>1. Cooling(budget) /\ Cooling(budget') /\ charged' = charged
      BY <1>0, <1>2, <1>5 DEF Cooling, BudgetTyped, Second, Less
  <2> QED
      BY <1>0, <1>1, <1>2, <1>4, <2>1 DEF ChargeInv, ChargeTyped, CountInv, ReportInv, Unreported, At
<1>6. CASE budget.phase = "cooldown" /\ ~(budget.left > 1)
  <2>1. charged' = {} /\ ~Cooling(budget') /\ budget'.phase = "cooldown"
      BY <1>0, <1>2, <1>6, Constants DEF Cooling, BudgetTyped, Second, Less
  <2>2. Prune(budget').faults = {}
      BY <1>2, <2>1, Constants DEF Prune, Cooling, Healthy, BudgetTyped
  <2>3. IsFiniteSet({}) /\ Cardinality({}) = 0
      BY FS_EmptySet
  <2>4. [d \in Births |-> 1] \in [Births -> 1..MaxRestarts]
      BY <1>0
  <2>5. Counted'
    <3>1. Pairs([d \in Births |-> 1], {}, {}) /\ \A d \in Births : \A c \in {}, f \in {} : f.own
        BY DEF Pairs
    <3> QED
        BY <1>0, <2>1, <2>2, <2>3, <2>4, <3>1 DEF Counted, Owns
  <2>6. ChargeTyped' /\ ReportInv'
      BY <1>0, <1>1, <1>2, <1>4, <2>1, <2>3 DEF ChargeTyped, ReportInv, At
  <2> QED
      BY <2>1, <2>5, <2>6 DEF ChargeInv, CountInv
<1>7. CASE budget.phase # "cooldown"
  <2> DEFINE P == Recent(F)
             Q == Recent(G)
  <2>1. /\ ~Cooling(budget) /\ Prune(budget).faults = P /\ ~Cooling(budget') /\ Prune(budget').faults = Q
      BY <1>0, <1>2, <1>4, <1>7, PruneCounts DEF ChargeTyped
  <2>2. charged' = {c \in {Older(b) : b \in charged} : c.age <= Window}
      BY <1>7 DEF Second
  <2>3. \A c \in charged : Older(c) = [by |-> c.by, age |-> c.age + 1]
      BY <1>0 DEF ChargeTyped, Older
  <2>4. \A c \in charged' : \E b \in charged : c = [by |-> b.by, age |-> b.age + 1] /\ b.age + 1 <= Window
      BY <2>2, <2>3
  <2>5. \A b \in charged : b.age + 1 <= Window => [by |-> b.by, age |-> b.age + 1] \in charged'
      BY <2>2, <2>3
  <2>6. PICK h \in [Births -> 1..MaxRestarts] : Pairs(h, charged, P) /\ Owns(h, charged, P)
      BY <1>0, <2>1 DEF CountInv, Counted
  <2>7. \A g \in Q : \E f \in P : g.n = f.n /\ g.own = f.own /\ g.age = f.age + 1 /\ f.age + 1 <= Window
    <3> SUFFICES ASSUME NEW g \in Q
                 PROVE  \E f \in P : g.n = f.n /\ g.own = f.own /\ g.age = f.age + 1 /\ f.age + 1 <= Window
        OBVIOUS
    <3>1. PICK f \in F : g = Older(f)
        BY DEF Recent
    <3>2. f \in Fault /\ g.age <= Window
        BY <1>0 DEF ChargeTyped, Numbered, Recent
    <3>3. f.age <= Window /\ g.age = f.age + 1 /\ g.n = f.n /\ g.own = f.own
        BY <1>3, <3>1, <3>2
    <3> QED
        BY <3>2, <3>3 DEF Recent
  <2>8. \A f \in P : f.age + 1 <= Window => \E g \in Q : g.n = f.n /\ g.age = f.age + 1
    <3> SUFFICES ASSUME NEW f \in P, f.age + 1 <= Window
                 PROVE  Older(f) \in Q /\ Older(f).n = f.n /\ Older(f).age = f.age + 1
        OBVIOUS
    <3>1. f \in F /\ f \in Fault /\ f.age <= Window
        BY <1>0 DEF ChargeTyped, Numbered, Recent
    <3> QED
        BY <1>3, <3>1 DEF Recent
  <2> HIDE DEF P, Q
  <2>9. /\ \A c \in charged : c.by \in Births /\ c.age \in Nat
        /\ \A b, c \in charged : b.by = c.by /\ b.age = c.age => b = c
        /\ \A c \in charged : \E f \in P : f.n = h[c.by] /\ f.age = c.age
        /\ \A f \in P : \E c \in charged : f.n = h[c.by] /\ f.age = c.age
    <3>1. \A c \in charged : c.by \in Births /\ c.age \in Nat /\ c = [by |-> c.by, age |-> c.age]
        BY <1>0 DEF ChargeTyped
    <3>2. \A c \in charged : \E f \in P : f.n = h[c.by] /\ f.age = c.age
        BY <2>6 DEF Pairs
    <3>3. ASSUME NEW f \in P PROVE \E c \in charged : f.n = h[c.by] /\ f.age = c.age
      <4>1. PICK c \in charged : f.n = h[c.by]
          BY <2>6 DEF Pairs
      <4>2. PICK e \in P : e.n = h[c.by] /\ e.age = c.age
          BY <3>2
      <4>3. e = f
          BY <1>0, <4>1, <4>2 DEF ChargeTyped, Numbered, P, Recent
      <4> QED
          BY <4>1, <4>2, <4>3
    <3>4. \A b, c \in charged : b.by = c.by /\ b.age = c.age => b = c
        BY <2>6 DEF Pairs
    <3> QED
        BY <3>1, <3>2, <3>3, <3>4
  <2>10. ASSUME NEW c \in charged' PROVE \E g \in Q : g.n = h[c.by] /\ g.age = c.age
    <3>1. PICK b \in charged : c = [by |-> b.by, age |-> b.age + 1] /\ b.age + 1 <= Window
        BY <2>4
    <3>2. PICK f \in P : f.n = h[b.by] /\ f.age = b.age
        BY <2>9
    <3>3. PICK g \in Q : g.n = f.n /\ g.age = f.age + 1
        BY <2>8, <3>1, <3>2
    <3> QED
        BY <3>1, <3>2, <3>3
  <2>11. ASSUME NEW g \in Q PROVE \E c \in charged' : g.n = h[c.by]
    <3>1. PICK f \in P : g.n = f.n /\ f.age + 1 <= Window
        BY <2>7
    <3>2. PICK b \in charged : f.n = h[b.by] /\ f.age = b.age
        BY <2>9
    <3>3. [by |-> b.by, age |-> b.age + 1] \in charged'
        BY <2>5, <3>1, <3>2
    <3> QED
        BY <3>1, <3>2, <3>3
  <2>12. ASSUME NEW b \in charged', NEW c \in charged', h[b.by] = h[c.by] PROVE b = c
    <3>1. PICK x \in charged : b = [by |-> x.by, age |-> x.age + 1]
        BY <2>4
    <3>2. PICK y \in charged : c = [by |-> y.by, age |-> y.age + 1]
        BY <2>4
    <3>3. x = y
        BY <2>6, <2>12, <3>1, <3>2 DEF Pairs
    <3> QED
        BY <3>1, <3>2, <3>3
  <2>13. ASSUME NEW d \in Births, Admitted(d), NEW c \in charged', NEW g \in Q, g.n = h[c.by]
         PROVE  g.own <=> c.by = d
    <3>1. PICK b \in charged : c = [by |-> b.by, age |-> b.age + 1]
        BY <2>4
    <3>2. PICK f \in P : g.n = f.n /\ g.own = f.own
        BY <2>7
    <3>3. f.own <=> b.by = d
        BY <2>6, <2>13, <3>1, <3>2 DEF Owns
    <3> QED
        BY <3>1, <3>2, <3>3
  <2>14. \A d \in Births : Admitted(d)' = Admitted(d)
      BY <1>1 DEF Admitted, At
  <2>15. /\ IsFiniteSet(charged') /\ Cardinality(charged') < MaxRestarts
         /\ charged' \subseteq [by : Births, age : 0..Window]
    <3> DEFINE Back(c) == [by |-> c.by, age |-> c.age - 1]
               g == [c \in charged' |-> Back(c)]
    <3>1. ASSUME NEW c \in charged'
          PROVE  Back(c) \in charged /\ c \in [by : Births, age : 0..Window] /\ c.age - 1 + 1 = c.age
      <4>1. PICK b \in charged : c = [by |-> b.by, age |-> b.age + 1] /\ b.age + 1 <= Window
          BY <2>4
      <4>2. b = [by |-> b.by, age |-> b.age] /\ b.by \in Births /\ b.age \in 0..Window
          BY <1>0 DEF ChargeTyped
      <4> QED
          BY <1>0, <4>1, <4>2
    <3>2. ASSUME NEW b \in charged', NEW c \in charged', Back(b) = Back(c) PROVE b = c
      <4>1. b.by = c.by
          BY <3>2
      <4> QED
          BY <2>12, <4>1
    <3> HIDE DEF Back
    <3>3. g \in Injection(charged', charged)
        BY <3>1, <3>2 DEF Injection, IsInjective
    <3>4. IsFiniteSet(charged) /\ Cardinality(charged) < MaxRestarts
        BY <1>0, <2>1 DEF ChargeTyped, CountInv, Counted
    <3>5. IsFiniteSet(charged') /\ Cardinality(charged') <= Cardinality(charged)
        BY <3>3, <3>4, FS_Injection
    <3>6. Cardinality(charged) \in Nat /\ Cardinality(charged') \in Nat
        BY <3>4, <3>5, FS_CardinalityType
    <3> QED
        BY <1>0, <3>1, <3>4, <3>5, <3>6
  <2>16. Pairs(h, charged', Q)
      BY <2>10, <2>11, <2>12 DEF Pairs
  <2>17. Counted'
      BY <2>1, <2>6, <2>13, <2>14, <2>15, <2>16 DEF Counted, Owns, Pairs
  <2>18. ReportInv'
      BY <1>0, <1>1, <2>4 DEF ReportInv, Unreported, At, Early
  <2> QED
      BY <1>2, <1>4, <2>1, <2>15, <2>17, <2>18 DEF ChargeInv, ChargeTyped, CountInv
<1> QED
    BY <1>5, <1>6, <1>7

\* Nothing is charged before the first start.
LEMMA InitCharge == LifeInit => ChargeInv
<1> SUFFICES ASSUME LifeInit PROVE ChargeInv
    OBVIOUS
<1>0. MaxRestarts \in Nat \ {0} /\ IsFiniteSet({}) /\ Cardinality({}) = 0
    BY LifeAssumption, FS_EmptySet
<1>1. charged = {} /\ budget.faults = {} /\ budget.phase = "healthy" /\ \A d \in Births : daemon[d] = Gone
    BY DEF LifeInit, Healthy
<1>2. ~Cooling(budget) /\ Prune(budget).faults = {}
    BY <1>1 DEF LifeInit, Cooling, Prune, Recent, Healthy
<1>3. [d \in Births |-> 1] \in [Births -> 1..MaxRestarts]
    BY <1>0
<1>4. Pairs([d \in Births |-> 1], {}, {}) /\ Owns([d \in Births |-> 1], {}, {})
    BY DEF Pairs, Owns
<1>5. Counted
    BY <1>0, <1>1, <1>2, <1>3, <1>4 DEF Counted
<1>6. ReportInv
    BY <1>1 DEF ReportInv, Unreported, At, Gone
<1> QED
    BY <1>0, <1>1, <1>2, <1>5, <1>6 DEF ChargeInv, ChargeTyped, CountInv, Numbered

\* Every step keeps the budget in step with the history.
LEMMA NextCharge == IInv /\ ChargeInv /\ [LifeNext]_lifeVars => ChargeInv'
<1> SUFFICES ASSUME IInv, ChargeInv, [LifeNext]_lifeVars PROVE ChargeInv'
    OBVIOUS
<1>0. BudgetTyped(budget)
    BY DEF IInv, Typed, BudgetTyped
<1>1. ASSUME NEW d \in Births, Admit(d) \/ AdmitAgain(d) PROVE ChargeInv'
  <2>1. /\ At(d) \in {"admit", "nap"} /\ budget' = AdmitStart(budget) /\ charged' = charged
        /\ Allowed(budget) => Go(d, "open")
      BY <1>1 DEF Admit, AdmitAgain
  <2>2. CASE ~Cooling(budget)
      BY <1>0, <2>1, <2>2, AdmitKeeps, BudgetUpdates
  <2>3. CASE Cooling(budget)
    <3>1. budget' = budget /\ ~Allowed(budget)
        BY <1>0, <2>1, <2>3, BudgetUpdates
    <3>2. daemon \in [Births -> BirthState] /\ daemon[d] \in BirthState
        BY DEF IInv, Typed
    <3>3. OwnMove(d) /\ daemon'[d].pc \in {"nap", "turnedAway"}
        BY <1>1, <3>1, <3>2 DEF Admit, AdmitAgain, Go, OwnMove, BirthState
    <3>4. Uncharged
        BY <2>1, <3>1, <3>3, OwnMoveUncharged DEF Early
    <3> QED
        BY <3>4, UnchargedKeeps
  <2> QED
      BY <2>2, <2>3
<1>2. ASSUME NEW d \in Births,
             \/ Spawn(d) \/ DaemonStep(d) \/ StartFails(d) \/ Die(d)
             \/ \E saved \in BOOLEAN : StartLocked(d, saved) \/ LeaseLost(d, saved) \/ WriteStall(d, saved)
      PROVE  ChargeInv'
    BY <1>1, <1>2, MovesUncharged, UnchargedKeeps, RecoveredKeeps, FaultsKeep DEF DaemonStep
<1>3. CASE UNCHANGED lifeVars
  <2>1. Uncharged
      BY <1>3 DEF lifeVars, Uncharged, ChargeInv, ReportInv, Admitted, Unreported, At
  <2> QED
      BY <2>1, UnchargedKeeps
<1> QED
    BY <1>2, <1>3, CommandsUncharged, UnchargedKeeps, SecondKeeps DEF LifeNext

\* The restart budget that the generations of the daemon share is exact: it counts every
\* fault of the window that no later generation made good, once, and MaxRestarts of them
\* bring the cooldown (record_fault, record_recovered, prune of daemon_recovery.rs).
THEOREM LifeBudgetIsExact == LifeSpec => []BudgetIsExact
<1>1. LifeSpec => []ChargeInv
    BY InitCharge, NextCharge, LifeIInv, PTL DEF LifeSpec
<1>2. IInv /\ ChargeInv => BudgetIsExact
  <2> SUFFICES ASSUME IInv, ChargeInv PROVE BudgetIsExact
      OBVIOUS
  <2>1. CASE Cooling(budget)
      BY <2>1 DEF ChargeInv, CountInv, BudgetIsExact
  <2>2. CASE ~Cooling(budget)
    <3>1. Numbered(Prune(budget).faults) /\ IsFiniteSet(charged) /\ Counted
        BY <2>2, PruneCounts DEF IInv, Typed, BudgetTyped, ChargeInv, ChargeTyped, CountInv
    <3>2. Cardinality(Prune(budget).faults) = Cardinality(charged)
        BY <3>1, PairsCount DEF Counted
    <3> QED
        BY <2>2, <3>1, <3>2 DEF BudgetIsExact, Counted
  <2> QED
      BY <2>1, <2>2
<1> QED
    BY <1>1, <1>2, LifeIInv, PTL

=============================================================================
