-------------------------- MODULE DaemonLockProofs ---------------------------
(***************************************************************************)
(* Theorems about DaemonLock for every set of PIDs, with or without reuse. *)
(***************************************************************************)
EXTENDS DaemonLock, TLAPS

(***************************************************************************)
(* A stop about to signal knows whom, and it is not itself.                *)
(***************************************************************************)
KillsAnother == \A p \in Pids : pc[p] = "kill" => seen[p] \in Pids \ {p}

(***************************************************************************)
(* The inductive invariant: whoever writes the record holds the lock, so   *)
(* nobody writes it while a daemon holds the lock and runs.                *)
(***************************************************************************)
LockInv == TypeOK /\ KillsAnother /\ LockMatchesOwner /\ RecordedWhileRunning

LEMMA LockInvInit == Init => LockInv
  BY ConstantsAssumption
  DEF Init, LockInv, TypeOK, KillsAnother, LockMatchesOwner, RecordedWhileRunning,
      Holding, Probing

(***************************************************************************)
(* Steps of the kernel.                                                    *)
(***************************************************************************)
LEMMA KernelStep ==
  ASSUME LockInv, NEW p \in Pids, OtherStarts(p) \/ OtherExits(p) \/ Killed(p)
  PROVE  LockInv'
  <1> USE ConstantsAssumption
      DEF LockInv, OtherStarts, OtherExits, Killed, Exit, Forget, Goto, Unlocked
  <1>1. TypeOK'
    BY DEF TypeOK
  <1>2. KillsAnother'
    BY DEF TypeOK, KillsAnother, DaemonSteps, StopSteps, StartSteps
  <1>3. LockMatchesOwner'
    BY DEF TypeOK, LockMatchesOwner, Holding, Probing, Fresh, Alive
  <1>4. RecordedWhileRunning'
    BY DEF TypeOK, RecordedWhileRunning
  <1> QED
    BY <1>1, <1>2, <1>3, <1>4

(***************************************************************************)
(* Steps of a daemon.                                                      *)
(***************************************************************************)
LEMMA DaemonStep ==
  ASSUME LockInv, NEW p \in Pids, Daemon(p) \/ RecordFails(p) \/ StartupFails(p)
  PROVE  LockInv'
  <1> USE ConstantsAssumption
      DEF LockInv, Daemon, AcquireLock, AcquireRefused, TruncatePID, RecordPID, Run,
          ReleaseTruncate, ReleaseUnlock, DaemonExits, RecordFails, StartupFails,
          Exit, Forget, Goto, Unlocked
  <1>1. TypeOK'
    BY DEF TypeOK, DaemonSteps, Holding
  <1>2. KillsAnother'
    BY DEF TypeOK, KillsAnother
  <1>3. LockMatchesOwner'
    BY DEF TypeOK, LockMatchesOwner, Holding, Probing
  <1>4. RecordedWhileRunning'
    BY DEF TypeOK, RecordedWhileRunning, LockMatchesOwner, Holding
  <1> QED
    BY <1>1, <1>2, <1>3, <1>4

(***************************************************************************)
(* Steps of a stop that concern itself, the file and the lock only.        *)
(***************************************************************************)
LEMMA StopStep ==
  ASSUME LockInv, NEW p \in Pids,
         \/ InvokeStop(p) \/ ReadPID(p) \/ ProbeTakesLock(p) \/ Unprobe(p)
         \/ ProbeFindsHeld(p) \/ SignalFindsNobody(p) \/ ClearTakesLock(p)
         \/ ClearRefused(p) \/ EraseStalePID(p) \/ Unclear(p)
  PROVE  LockInv'
  <1> USE ConstantsAssumption
      DEF LockInv, InvokeStop, ReadPID, ProbeTakesLock, Unprobe, ProbeFindsHeld,
          SignalFindsNobody, ClearTakesLock, ClearRefused, EraseStalePID, Unclear,
          Exit, Forget, Goto, Unlocked
  <1>1. TypeOK'
    BY DEF TypeOK, StopSteps, Probing
  <1>2. KillsAnother'
    BY DEF TypeOK, KillsAnother
  <1>3. LockMatchesOwner'
    BY DEF TypeOK, LockMatchesOwner, Holding, Probing, Fresh, Alive
  <1>4. RecordedWhileRunning'
    BY DEF TypeOK, RecordedWhileRunning, LockMatchesOwner, Holding, Probing
  <1> QED
    BY <1>1, <1>2, <1>3, <1>4

(***************************************************************************)
(* A signal: the victim leaves the lock to nobody, or goes on to release.  *)
(***************************************************************************)
LEMMA SignalStep ==
  ASSUME LockInv, NEW p \in Pids, SignalDaemon(p) \/ SignalKills(p)
  PROVE  LockInv'
  <1> USE ConstantsAssumption DEF LockInv
  <1> DEFINE v == seen[p]
  <1>1. v \in Pids /\ v # p
    BY DEF SignalDaemon, SignalKills, KillsAnother
  <1>2. \/ /\ pc[v] = "running"
           /\ pc' = [pc EXCEPT ![p] = "free", ![v] = "release"]
           /\ seen' = [seen EXCEPT ![p] = NoPid]
           /\ owner' = owner
        \/ /\ pc' = [pc EXCEPT ![p] = "free", ![v] = "free"]
           /\ seen' = [seen EXCEPT ![p] = NoPid, ![v] = NoPid]
           /\ owner' = Unlocked(v)
    BY DEF SignalDaemon, SignalKills, Forget
  <1>3. pc[p] = "kill" /\ UNCHANGED <<recorded, stops, kills>>
    BY DEF SignalDaemon, SignalKills
  <1> HIDE DEF v
  <1>4. TypeOK'
    BY <1>1, <1>2, <1>3 DEF TypeOK, DaemonSteps, Holding, Unlocked
  <1>5. KillsAnother'
    BY <1>1, <1>2 DEF TypeOK, KillsAnother
  <1>6. LockMatchesOwner'
    BY <1>1, <1>2, <1>3 DEF TypeOK, LockMatchesOwner, Holding, Probing, Unlocked
  <1>7. RecordedWhileRunning'
    BY <1>1, <1>2, <1>3 DEF TypeOK, RecordedWhileRunning
  <1> QED
    BY <1>4, <1>5, <1>6, <1>7

(***************************************************************************)
(* Steps of a start, spawning included.                                    *)
(***************************************************************************)
LEMMA StartStep ==
  ASSUME LockInv, NEW p \in Pids, InvokeStart(p) \/ Start(p)
  PROVE  LockInv'
  <1> USE ConstantsAssumption
      DEF LockInv, InvokeStart, Start, LookForPID, RereadPID, AlreadyRunning,
          NotRunning, SpawnDetached, Exit, Forget, Goto
  <1>1. TypeOK'
    BY DEF TypeOK, StartSteps, DaemonSteps
  <1>2. KillsAnother'
    BY DEF TypeOK, KillsAnother
  <1>3. LockMatchesOwner'
    BY DEF TypeOK, LockMatchesOwner, Holding, Probing, Fresh, Alive
  <1>4. RecordedWhileRunning'
    BY DEF TypeOK, RecordedWhileRunning
  <1> QED
    BY <1>1, <1>2, <1>3, <1>4

LEMMA LockInvStep == LockInv /\ [Next]_vars => LockInv'
  <1> SUFFICES ASSUME LockInv, [Next]_vars PROVE LockInv'
    OBVIOUS
  <1>1. CASE Next
    <2>1. PICK p \in Pids :
            \/ OtherStarts(p) \/ OtherExits(p) \/ Killed(p)
            \/ InvokeStop(p) \/ InvokeStart(p)
            \/ RecordFails(p) \/ StartupFails(p)
            \/ Command(p)
      BY <1>1 DEF Next
    <2> QED
      BY <2>1, KernelStep, DaemonStep, StopStep, SignalStep, StartStep
      DEF Command, SignalStop
  <1>2. CASE UNCHANGED vars
    BY <1>2 DEF vars, LockInv, TypeOK, KillsAnother, LockMatchesOwner,
                RecordedWhileRunning
  <1> QED
    BY <1>1, <1>2

(***************************************************************************)
(* At most one process holds the session lock, and it is its owner.        *)
(***************************************************************************)
THEOREM LockExclusive == Spec => []LockMatchesOwner
  BY LockInvInit, LockInvStep, PTL DEF Spec, LockInv

(***************************************************************************)
(* Whatever starts, stops, is killed or takes over a number, a running     *)
(* daemon's PID stays in the file.                                         *)
(***************************************************************************)
THEOREM RunningIsRecorded == Spec => []RecordedWhileRunning
  BY LockInvInit, LockInvStep, PTL DEF Spec, LockInv

-----------------------------------------------------------------------------
(* Stale records, when no PID that somebody still remembers is reused.     *)

Lapsed == {"free", "release", "unlock", "exit"}

(***************************************************************************)
(* A number that is written down or was read is, or was, a daemon that got *)
(* as far as recording itself, and a stop clears only after it is gone.    *)
(***************************************************************************)
RememberedIsDaemon ==
    \A d \in Pids : Remembered(d) => pc[d] \in Lapsed \cup {"starting", "running"}

ClearsLapsed ==
    \A p \in Pids :
        pc[p] \in {"clear", "erase"} => seen[p] \in Pids /\ pc[seen[p]] \in Lapsed

StaleInv == RememberedIsDaemon /\ ClearsLapsed

LEMMA StaleInvInit == Init => StaleInv
  BY ConstantsAssumption DEF Init, StaleInv, RememberedIsDaemon, ClearsLapsed, Remembered

(***************************************************************************)
(* A stop that has taken the probe's lock finds no daemon behind the PID   *)
(* it read; one whose signal finds nobody, likewise.                       *)
(***************************************************************************)
LEMMA ProbedIsLapsed ==
  ASSUME LockInv, StaleInv, NEW p \in Pids, NEW d \in Pids, seen[p] = d,
         pc[p] = "unprobe"
  PROVE  pc[d] \in Lapsed
  <1>1. owner = p /\ p # d
    BY DEF LockInv, LockMatchesOwner, Probing, StaleInv, RememberedIsDaemon,
           Remembered, Lapsed
  <1>2. pc[d] \notin Holding
    BY <1>1 DEF LockInv, LockMatchesOwner
  <1> QED
    BY <1>2 DEF StaleInv, RememberedIsDaemon, Remembered, Lapsed, Holding

LEMMA StaleInvStep ==
  ASSUME ~PidReuse
  PROVE  LockInv /\ StaleInv /\ [Next]_vars => StaleInv'
  <1> SUFFICES ASSUME LockInv, StaleInv, [Next]_vars PROVE StaleInv'
    OBVIOUS
  <1> USE ConstantsAssumption DEF StaleInv
  <1>1. ASSUME NEW p \in Pids,
               OtherStarts(p) \/ OtherExits(p) \/ Killed(p) \/ InvokeStop(p) \/ InvokeStart(p)
        PROVE  StaleInv'
    <2> USE <1>1 DEF OtherStarts, OtherExits, Killed, InvokeStop, InvokeStart, Fresh,
                     Alive, Exit, Forget, Goto
    <2>1. RememberedIsDaemon'
      BY DEF LockInv, TypeOK, RememberedIsDaemon, Remembered, Lapsed
    <2>2. ClearsLapsed'
      BY DEF LockInv, TypeOK, ClearsLapsed, Remembered, Lapsed
    <2> QED
      BY <2>1, <2>2
  <1>2. ASSUME NEW p \in Pids, Daemon(p) \/ RecordFails(p) \/ StartupFails(p)
        PROVE  StaleInv'
    <2> USE <1>2 DEF Daemon, AcquireLock, AcquireRefused, TruncatePID, RecordPID, Run,
                     ReleaseTruncate, ReleaseUnlock, DaemonExits, RecordFails,
                     StartupFails, Exit, Forget, Goto
    <2>1. RememberedIsDaemon'
      BY DEF LockInv, TypeOK, RememberedIsDaemon, Remembered, Lapsed
    <2>2. ClearsLapsed'
      BY DEF LockInv, TypeOK, ClearsLapsed, Lapsed
    <2> QED
      BY <2>1, <2>2
  <1>3. ASSUME NEW p \in Pids, SignalDaemon(p) \/ SignalKills(p)
        PROVE  StaleInv'
    <2> USE <1>3 DEF SignalDaemon, SignalKills, Forget
    <2>1. RememberedIsDaemon'
      BY DEF LockInv, TypeOK, KillsAnother, RememberedIsDaemon, Remembered, Lapsed
    <2>2. ClearsLapsed'
      BY DEF LockInv, TypeOK, KillsAnother, ClearsLapsed, Lapsed
    <2> QED
      BY <2>1, <2>2
  <1>4. ASSUME NEW p \in Pids, SignalStop(p), ~SignalDaemon(p), ~SignalKills(p)
        PROVE  StaleInv'
    <2> USE <1>4 DEF SignalStop, ReadPID, ProbeTakesLock, Unprobe, ProbeFindsHeld,
                     SignalFindsNobody, ClearTakesLock, ClearRefused, EraseStalePID,
                     Unclear, Alive, Exit, Forget, Goto
    <2>1. RememberedIsDaemon'
      BY DEF LockInv, TypeOK, RememberedIsDaemon, Remembered, Lapsed
    <2>2. ClearsLapsed'
      BY ProbedIsLapsed DEF LockInv, TypeOK, KillsAnother, ClearsLapsed, Lapsed
    <2> QED
      BY <2>1, <2>2
  <1>5. ASSUME NEW p \in Pids, Start(p)
        PROVE  StaleInv'
    <2> USE <1>5 DEF Start, LookForPID, RereadPID, AlreadyRunning, NotRunning,
                     SpawnDetached, Fresh, Alive, Exit, Forget, Goto
    <2>1. RememberedIsDaemon'
      BY DEF LockInv, TypeOK, RememberedIsDaemon, Remembered, Lapsed
    <2>2. ClearsLapsed'
      BY DEF LockInv, TypeOK, ClearsLapsed, Remembered, Lapsed
    <2> QED
      BY <2>1, <2>2
  <1>6. CASE UNCHANGED vars
    BY <1>6 DEF vars, RememberedIsDaemon, ClearsLapsed, Remembered
  <1> QED
    BY <1>1, <1>2, <1>3, <1>4, <1>5, <1>6 DEF Next, Command

(***************************************************************************)
(* However many processes start, stop and die, no stop takes the PID of a  *)
(* daemon that is up for a stale record, as long as a PID somebody still   *)
(* remembers goes to nobody else.                                          *)
(***************************************************************************)
THEOREM UpIsNeverStale ==
  ASSUME ~PidReuse
  PROVE  Spec => []StaleMeansGone
  <1>1. StaleInv => StaleMeansGone
    BY DEF StaleInv, ClearsLapsed, StaleMeansGone, Lapsed
  <1> QED
    BY LockInvInit, LockInvStep, StaleInvInit, StaleInvStep, <1>1, PTL DEF Spec

=============================================================================
