----------------------------- MODULE DaemonLock ------------------------------
(***************************************************************************)
(* The session's single-daemon guarantee (src/internal/state/lock_unix.go) *)
(* and the three commands that depend on it (src/internal/cli/app.go):     *)
(* daemon, start and stop.  They share one file, which carries both an     *)
(* flock and the daemon's PID in plain text, and the kernel's process      *)
(* table, where a PID number may be given to a new process after its       *)
(* owner died.                                                             *)
(*                                                                         *)
(* A process is identified by its PID; pc says which command it runs and   *)
(* how far it has got.  Every system call on the file or on another        *)
(* process is a step of its own.                                           *)
(***************************************************************************)
EXTENDS Naturals

CONSTANTS
    Pids,       \* process ids
    NoPid,      \* an empty PID file, an unlocked file, nothing read
    PidReuse,   \* whether a PID that somebody still remembers may be reused
    MaxStops,   \* bound: at most so many `stop` commands
    MaxKills    \* bound: at most so many processes die by SIGKILL

ASSUME ConstantsAssumption ==
    /\ NoPid \notin Pids
    /\ PidReuse \in BOOLEAN
    /\ MaxStops \in Nat
    /\ MaxKills \in Nat

VARIABLES
    pc,       \* what each process is doing, "free" when there is none
    owner,    \* the process whose descriptor holds the flock
    recorded, \* the PID written in the file
    seen,     \* the PID a start or stop process read from the file
    stops,    \* counts stop commands
    kills     \* counts SIGKILLs

vars == <<pc, owner, recorded, seen, stops, kills>>

\* A daemon that holds the lock, from Acquire's flock to Release's unlock.
Holding == {"truncate", "record", "starting", "running", "release", "unlock"}
DaemonSteps == {"acquire", "exit"} \cup Holding

\* A stop command that holds the lock for the moment of a probe or a clear.
Probing == {"unprobe", "erase", "unclear"}
StopSteps == {"read", "probe", "clear", "kill"} \cup Probing

StartSteps == {"look", "reread", "alive", "spawn"}

TypeOK ==
    /\ pc \in [Pids -> {"free", "other"} \cup DaemonSteps \cup StopSteps \cup StartSteps]
    /\ owner \in Pids \cup {NoPid}
    /\ recorded \in Pids \cup {NoPid}
    /\ seen \in [Pids -> Pids \cup {NoPid}]
    /\ stops \in 0..MaxStops
    /\ kills \in 0..MaxKills

Init ==
    /\ pc = [p \in Pids |-> "free"]
    /\ owner = NoPid
    /\ recorded = NoPid
    /\ seen = [p \in Pids |-> NoPid]
    /\ stops = 0
    /\ kills = 0

Alive(p) == pc[p] # "free"

-----------------------------------------------------------------------------
(* The kernel: processes come and go, descriptors close when they go.      *)

Remembered(p) == p = recorded \/ \E q \in Pids : seen[q] = p

Fresh(p) == ~Alive(p) /\ (PidReuse \/ ~Remembered(p))

Goto(p, step) == pc' = [pc EXCEPT ![p] = step]

Forget(p) == seen' = [seen EXCEPT ![p] = NoPid]

\* p's exit closes its descriptors, which drops its flock.
Unlocked(p) == IF owner = p THEN NoPid ELSE owner

Exit(p) == Goto(p, "free") /\ Forget(p)

OtherStarts(p) ==
    /\ Fresh(p)
    /\ \A q \in Pids : pc[q] # "other"
    /\ Goto(p, "other")
    /\ UNCHANGED <<owner, recorded, seen, stops, kills>>

OtherExits(p) ==
    /\ pc[p] = "other"
    /\ Exit(p)
    /\ UNCHANGED <<owner, recorded, stops, kills>>

\* SIGKILL, or a crash: no deferred function runs.
Killed(p) ==
    /\ Alive(p)
    /\ kills < MaxKills
    /\ kills' = kills + 1
    /\ Exit(p)
    /\ owner' = Unlocked(p)
    /\ UNCHANGED <<recorded, stops>>

-----------------------------------------------------------------------------
(* daemon: Acquire, run, Release.                                          *)

AcquireLock(p) ==
    /\ pc[p] = "acquire"
    /\ owner = NoPid
    /\ owner' = p
    /\ Goto(p, "truncate")
    /\ UNCHANGED <<recorded, seen, stops, kills>>

AcquireRefused(p) ==
    /\ pc[p] = "acquire"
    /\ owner # NoPid
    /\ Exit(p)
    /\ UNCHANGED <<owner, recorded, stops, kills>>

TruncatePID(p) ==
    /\ pc[p] = "truncate"
    /\ recorded' = NoPid
    /\ Goto(p, "record")
    /\ UNCHANGED <<owner, seen, stops, kills>>

RecordPID(p) ==
    /\ pc[p] = "record"
    /\ recorded' = p
    /\ Goto(p, "starting")
    /\ UNCHANGED <<owner, seen, stops, kills>>

\* The PID cannot be written, or is written but not flushed: Acquire unlocks
\* and gives up.
RecordFails(p) ==
    /\ \/ pc[p] \in {"truncate", "record"} /\ UNCHANGED recorded
       \/ pc[p] = "record" /\ recorded' = p
    /\ owner' = Unlocked(p)
    /\ Exit(p)
    /\ UNCHANGED <<stops, kills>>

\* NotifyContext has been called: from here SIGTERM cancels the context.
Run(p) ==
    /\ pc[p] = "starting"
    /\ Goto(p, "running")
    /\ UNCHANGED <<owner, recorded, seen, stops, kills>>

\* No valid configuration: daemon returns, and its deferred Release runs.
StartupFails(p) ==
    /\ pc[p] = "starting"
    /\ Goto(p, "release")
    /\ UNCHANGED <<owner, recorded, seen, stops, kills>>

\* A plausible mistake: unlock first and clear the record afterwards.
ReleaseUnlocksFirst(p) ==
    /\ pc[p] = "release"
    /\ owner' = NoPid
    /\ Goto(p, "unlock")
    /\ UNCHANGED <<recorded, seen, stops, kills>>

\* Truncation may fail; the unlock comes anyway.
ReleaseTruncate(p) ==
    /\ pc[p] = "release"
    /\ recorded' \in {NoPid, recorded}
    /\ Goto(p, "unlock")
    /\ UNCHANGED <<owner, seen, stops, kills>>

ReleaseUnlock(p) ==
    /\ pc[p] = "unlock"
    /\ owner' = Unlocked(p)
    /\ Goto(p, "exit")
    /\ UNCHANGED <<recorded, seen, stops, kills>>

DaemonExits(p) ==
    /\ pc[p] = "exit"
    /\ Exit(p)
    /\ UNCHANGED <<owner, recorded, stops, kills>>

-----------------------------------------------------------------------------
(* stop: SignalStop.                                                       *)

InvokeStop(p) ==
    /\ Fresh(p)
    /\ stops < MaxStops
    /\ stops' = stops + 1
    /\ Goto(p, "read")
    /\ UNCHANGED <<owner, recorded, seen, kills>>

ReadPID(p) ==
    /\ pc[p] = "read"
    /\ seen' = [seen EXCEPT ![p] = recorded]
    /\ Goto(p, "probe")
    /\ UNCHANGED <<owner, recorded, stops, kills>>

ProbeTakesLock(p) ==
    /\ pc[p] = "probe"
    /\ owner = NoPid
    /\ owner' = p
    /\ Goto(p, "unprobe")
    /\ UNCHANGED <<recorded, seen, stops, kills>>

\* Not held: a record that was read is stale, and is cleared.
Unprobe(p) ==
    /\ pc[p] = "unprobe"
    /\ owner' = Unlocked(p)
    /\ IF seen[p] = NoPid THEN Exit(p) ELSE Goto(p, "clear") /\ UNCHANGED seen
    /\ UNCHANGED <<recorded, stops, kills>>

\* A plausible mistake: take the refused probe for an unheld lock.
RefusedMeansStale(p) ==
    /\ pc[p] = "probe"
    /\ owner # NoPid
    /\ IF seen[p] = NoPid THEN Exit(p) ELSE Goto(p, "clear") /\ UNCHANGED seen
    /\ UNCHANGED <<owner, recorded, stops, kills>>

\* Held: signal the PID that was read, unless there is none or it is p's own.
ProbeFindsHeld(p) ==
    /\ pc[p] = "probe"
    /\ owner # NoPid
    /\ IF seen[p] \in {NoPid, p} THEN Exit(p) ELSE Goto(p, "kill") /\ UNCHANGED seen
    /\ UNCHANGED <<owner, recorded, stops, kills>>

(***************************************************************************)
(* SIGTERM cancels the context of a running daemon.  Before NotifyContext, *)
(* and again once daemon has returned from Run (its deferred stop() comes  *)
(* before Release), the signal has its default effect, as it has on every  *)
(* other process.                                                          *)
(***************************************************************************)
SignalDaemon(p) ==
    /\ pc[p] = "kill"
    /\ pc[seen[p]] = "running"
    /\ pc' = [pc EXCEPT ![p] = "free", ![seen[p]] = "release"]
    /\ Forget(p)
    /\ UNCHANGED <<owner, recorded, stops, kills>>

SignalKills(p) ==
    /\ pc[p] = "kill"
    /\ Alive(seen[p])
    /\ pc[seen[p]] # "running"
    /\ pc' = [pc EXCEPT ![p] = "free", ![seen[p]] = "free"]
    /\ seen' = [seen EXCEPT ![p] = NoPid, ![seen[p]] = NoPid]
    /\ owner' = Unlocked(seen[p])
    /\ UNCHANGED <<recorded, stops, kills>>

SignalFindsNobody(p) ==
    /\ pc[p] = "kill"
    /\ ~Alive(seen[p])
    /\ Goto(p, "clear")
    /\ UNCHANGED <<owner, recorded, seen, stops, kills>>

\* A plausible mistake: clear without asking for the lock.
ClearUnlocked(p) ==
    /\ pc[p] = "clear"
    /\ recorded' = NoPid
    /\ Exit(p)
    /\ UNCHANGED <<owner, stops, kills>>

ClearTakesLock(p) ==
    /\ pc[p] = "clear"
    /\ owner = NoPid
    /\ owner' = p
    /\ Goto(p, "erase")
    /\ UNCHANGED <<recorded, seen, stops, kills>>

ClearRefused(p) ==
    /\ pc[p] = "clear"
    /\ owner # NoPid
    /\ Exit(p)
    /\ UNCHANGED <<owner, recorded, stops, kills>>

\* Truncation may fail here as well.
EraseStalePID(p) ==
    /\ pc[p] = "erase"
    /\ recorded' \in {NoPid, recorded}
    /\ Goto(p, "unclear")
    /\ UNCHANGED <<owner, seen, stops, kills>>

Unclear(p) ==
    /\ pc[p] = "unclear"
    /\ owner' = Unlocked(p)
    /\ Exit(p)
    /\ UNCHANGED <<recorded, stops, kills>>

-----------------------------------------------------------------------------
(* start, invoked by the startup hook and by every pane.created event.     *)

InvokeStart(p) ==
    /\ Fresh(p)
    /\ \A q \in Pids : pc[q] \notin StartSteps
    /\ Goto(p, "look")
    /\ UNCHANGED <<owner, recorded, seen, stops, kills>>

LookForPID(p) ==
    /\ pc[p] = "look"
    /\ Goto(p, IF recorded = NoPid THEN "spawn" ELSE "reread")
    /\ UNCHANGED <<owner, recorded, seen, stops, kills>>

RereadPID(p) ==
    /\ pc[p] = "reread"
    /\ seen' = [seen EXCEPT ![p] = recorded]
    /\ Goto(p, IF recorded = NoPid THEN "spawn" ELSE "alive")
    /\ UNCHANGED <<owner, recorded, stops, kills>>

\* A plausible mistake: take a recorded PID for a running daemon.
RecordedMeansRunning(p) ==
    /\ pc[p] = "alive"
    /\ Exit(p)
    /\ UNCHANGED <<owner, recorded, stops, kills>>

\* kill(pid, 0) succeeds for any process that carries the number.
AlreadyRunning(p) ==
    /\ pc[p] = "alive"
    /\ Alive(seen[p])
    /\ Exit(p)
    /\ UNCHANGED <<owner, recorded, stops, kills>>

NotRunning(p) ==
    /\ pc[p] = "alive"
    /\ ~Alive(seen[p])
    /\ Goto(p, "spawn")
    /\ UNCHANGED <<owner, recorded, seen, stops, kills>>

SpawnDetached(p, d) ==
    /\ pc[p] = "spawn"
    /\ Fresh(d)
    /\ pc' = [pc EXCEPT ![p] = "free", ![d] = "acquire"]
    /\ Forget(p)
    /\ UNCHANGED <<owner, recorded, stops, kills>>

-----------------------------------------------------------------------------

Daemon(p) ==
    \/ AcquireLock(p) \/ AcquireRefused(p)
    \/ TruncatePID(p) \/ RecordPID(p) \/ Run(p)
    \/ ReleaseTruncate(p) \/ ReleaseUnlock(p) \/ DaemonExits(p)

SignalStop(p) ==
    \/ ReadPID(p)
    \/ ProbeTakesLock(p) \/ Unprobe(p) \/ ProbeFindsHeld(p)
    \/ SignalDaemon(p) \/ SignalKills(p) \/ SignalFindsNobody(p)
    \/ ClearTakesLock(p) \/ ClearRefused(p) \/ EraseStalePID(p) \/ Unclear(p)

Start(p) ==
    \/ LookForPID(p) \/ RereadPID(p)
    \/ AlreadyRunning(p) \/ NotRunning(p)
    \/ \E d \in Pids : SpawnDetached(p, d)

Command(p) == Daemon(p) \/ SignalStop(p) \/ Start(p)

Next ==
    \E p \in Pids :
        \/ OtherStarts(p) \/ OtherExits(p) \/ Killed(p)
        \/ InvokeStop(p) \/ InvokeStart(p)
        \/ RecordFails(p) \/ StartupFails(p)
        \/ Command(p)

(***************************************************************************)
(* The kernel runs every process.  Nothing is assumed of users, of other   *)
(* processes, or of failures; that start is invoked again and again is a   *)
(* premise of the property that needs it.                                  *)
(***************************************************************************)
Spec == Init /\ [][Next]_vars /\ \A p \in Pids : WF_vars(Command(p))

-----------------------------------------------------------------------------
(* Properties.                                                             *)

(***************************************************************************)
(* Only one process at a time is between a successful flock and its        *)
(* unlock, and it is the one the kernel says (Acquire: the flock is held   *)
(* on the PID file for the daemon's whole lifetime).                       *)
(***************************************************************************)
LockMatchesOwner ==
    \A p \in Pids : pc[p] \in Holding \cup Probing <=> owner = p

(***************************************************************************)
(* While a daemon runs its PID is in the file: neither a losing contender, *)
(* nor a predecessor's Release, nor a stop that takes the record for stale *)
(* erases or overwrites it (comments on Acquire and clearStalePID).        *)
(***************************************************************************)
RecordedWhileRunning ==
    \A p \in Pids : pc[p] \in {"starting", "running"} => recorded = p

(***************************************************************************)
(* No stop takes the PID of a daemon that is up for a stale record, so it  *)
(* signals that daemon instead of giving it up, whoever else takes the     *)
(* lock, starts or dies between its steps (comment on SignalStop: it tells *)
(* a running daemon from the leftover of one that is gone).                *)
(***************************************************************************)
StaleMeansGone ==
    \A p \in Pids :
        pc[p] \in {"clear", "erase"} => pc[seen[p]] \notin {"starting", "running"}

(***************************************************************************)
(* If start is invoked again and again, then, once the last stop and the   *)
(* last kill have happened and start-up has stopped failing, a daemon runs *)
(* for good (README: "a restored session picks the daemon back up").       *)
(***************************************************************************)
Invoked == \E p \in Pids : InvokeStart(p)
StartupTrouble == \E p \in Pids : RecordFails(p) \/ StartupFails(p)

DaemonComesBack ==
    []<><<Invoked>>_vars /\ <>[][~StartupTrouble]_vars
        => <>[](\E p \in Pids : pc[p] = "running")

=============================================================================
