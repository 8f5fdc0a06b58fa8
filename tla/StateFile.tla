------------------------------ MODULE StateFile -------------------------------
(***************************************************************************)
(* How the label store is kept in a file (src/internal/state/store.go and  *)
(* store.lock in lock_unix.go): Load and Update take a shared or an        *)
(* exclusive flock on a lock file, and Update replaces the state file by a *)
(* temporary one, flushed before it is renamed into place.  Any process    *)
(* may be killed at any step, any system call may fail, and the machine    *)
(* may lose power.                                                         *)
(*                                                                         *)
(* A file is the table it decodes to and whether its data has reached the  *)
(* disk.  LabelStore says what this adds up to.                            *)
(***************************************************************************)
EXTENDS Naturals

CONSTANTS
    Processes,  \* the daemon and the rename-current processes
    Tables,     \* the tables a state file may hold
    NoEntries,  \* the empty table
    Mutations,  \* what callers of Update may ask for
    Mutate,     \* Mutate[m][t]: the table that mutation m makes of t
    NoFile,     \* there is no state file
    Unreadable, \* a state file that does not decode: cut short, or not ours
    Nothing     \* no temporary file, no mutation, no encoded table

ASSUME ConstantsAssumption ==
    /\ NoEntries \in Tables
    /\ Mutate \in [Mutations -> [Tables -> Tables]]
    /\ NoFile \notin Tables
    /\ Unreadable \notin Tables \cup {NoFile}
    /\ Nothing \notin Tables \cup Mutations \cup [table : Tables, synced : BOOLEAN]

VARIABLES
    pc,         \* the step each process is at
    lock,       \* how each process holds the lock file
    update,     \* the mutation a process is applying
    encoded,    \* the table it is about to write
    temporary,  \* its temporary file
    file,       \* the file at the state path
    survivors   \* the files a loss of power may leave there

private == <<pc, lock, update, encoded, temporary>>
disk    == <<file, survivors>>
vars    == <<private, disk>>

File == [table : Tables \cup {NoFile, Unreadable}, synced : BOOLEAN]
Steps == {"idle", "share", "load", "exclude", "mutate", "write", "sync",
          "rename", "syncDir", "unlock"}

TypeOK ==
    /\ pc \in [Processes -> Steps]
    /\ lock \in [Processes -> {"none", "shared", "exclusive"}]
    /\ update \in [Processes -> Mutations \cup {Nothing}]
    /\ encoded \in [Processes -> Tables \cup {Nothing}]
    /\ temporary \in [Processes -> [table : Tables, synced : BOOLEAN] \cup {Nothing}]
    /\ file \in File
    /\ survivors \subseteq File

\* No file yet, or one of another schema version, or one that was tampered with.
InitialFiles == {[table |-> t, synced |-> TRUE] : t \in {NoFile, Unreadable}}

Init ==
    /\ pc = [p \in Processes |-> "idle"]
    /\ lock = [p \in Processes |-> "none"]
    /\ update = [p \in Processes |-> Nothing]
    /\ encoded = [p \in Processes |-> Nothing]
    /\ temporary = [p \in Processes |-> Nothing]
    /\ file \in InitialFiles
    /\ survivors = {file}

\* What read makes of a file: no file is an empty session.
Decoded(f) == IF f.table = NoFile THEN NoEntries ELSE f.table

Goto(p, step) == pc' = [pc EXCEPT ![p] = step]

-----------------------------------------------------------------------------
(* The state lock.                                                         *)

Begin(p) ==
    /\ pc[p] = "idle"
    /\ UNCHANGED <<lock, encoded, temporary, disk>>

BeginLoad(p) ==
    /\ Begin(p)
    /\ Goto(p, "share")
    /\ UNCHANGED update

BeginUpdate(p, m) ==
    /\ Begin(p)
    /\ Goto(p, "exclude")
    /\ update' = [update EXCEPT ![p] = m]

LockShared(p) ==
    /\ pc[p] = "share"
    /\ \A q \in Processes : lock[q] # "exclusive"
    /\ lock' = [lock EXCEPT ![p] = "shared"]
    /\ Goto(p, "load")
    /\ UNCHANGED <<update, encoded, temporary, disk>>

\* A plausible mistake: take the shared lock for a read-modify-write.
LockSharedInstead(p) ==
    /\ pc[p] = "exclude"
    /\ \A q \in Processes : lock[q] # "exclusive"
    /\ lock' = [lock EXCEPT ![p] = "shared"]
    /\ Goto(p, "mutate")
    /\ UNCHANGED <<update, encoded, temporary, disk>>

LockExclusive(p) ==
    /\ pc[p] = "exclude"
    /\ \A q \in Processes : lock[q] = "none"
    /\ lock' = [lock EXCEPT ![p] = "exclusive"]
    /\ Goto(p, "mutate")
    /\ UNCHANGED <<update, encoded, temporary, disk>>

Forget(p) ==
    /\ Goto(p, "idle")
    /\ lock' = [lock EXCEPT ![p] = "none"]
    /\ update' = [update EXCEPT ![p] = Nothing]
    /\ encoded' = [encoded EXCEPT ![p] = Nothing]

Unlock(p) ==
    /\ pc[p] = "unlock"
    /\ Forget(p)
    /\ UNCHANGED <<temporary, disk>>

-----------------------------------------------------------------------------
(* Load and Update.                                                        *)

Load(p) ==
    /\ pc[p] = "load"
    /\ Goto(p, "unlock")
    /\ UNCHANGED <<lock, update, encoded, temporary, disk>>

Refused(p) ==
    /\ pc[p] = "mutate"
    /\ file.table = Unreadable
    /\ Goto(p, "unlock")
    /\ UNCHANGED <<lock, update, encoded, temporary, disk>>

\* The table as the callback of process p leaves it.
Mutated(p) == Mutate[update[p]][Decoded(file)]

\* The callback declines, or the encoded table equals what the file holds.
NothingToWrite(p) ==
    /\ pc[p] = "mutate"
    /\ file.table # Unreadable
    /\ Mutated(p) = Decoded(file)
    /\ Goto(p, "unlock")
    /\ UNCHANGED <<lock, update, encoded, temporary, disk>>

\* A plausible mistake: write whenever the callback meant to change something.
WriteAnyway(p) ==
    /\ pc[p] = "mutate"
    /\ file.table # Unreadable
    /\ encoded' = [encoded EXCEPT ![p] = Mutated(p)]
    /\ Goto(p, "write")
    /\ UNCHANGED <<lock, update, temporary, disk>>

\* An absent file differs from the encoding of every table.
Encode(p) ==
    /\ pc[p] = "mutate"
    /\ file.table # Unreadable
    /\ file.table # Mutated(p)
    /\ encoded' = [encoded EXCEPT ![p] = Mutated(p)]
    /\ Goto(p, "write")
    /\ UNCHANGED <<lock, update, temporary, disk>>

WriteTemporary(p) ==
    /\ pc[p] = "write"
    /\ temporary' = [temporary EXCEPT ![p] = [table |-> encoded[p], synced |-> FALSE]]
    /\ Goto(p, "sync")
    /\ UNCHANGED <<lock, update, encoded, disk>>

SyncTemporary(p) ==
    /\ pc[p] = "sync"
    /\ temporary' = [temporary EXCEPT ![p] = [table |-> encoded[p], synced |-> TRUE]]
    /\ Goto(p, "rename")
    /\ UNCHANGED <<lock, update, encoded, disk>>

CommitRename(p) ==
    /\ pc[p] = "rename"
    /\ file' = temporary[p]
    /\ survivors' = survivors \cup {temporary[p]}
    /\ temporary' = [temporary EXCEPT ![p] = Nothing]
    /\ Goto(p, "syncDir")
    /\ UNCHANGED <<lock, update, encoded>>

\* Its failure is ignored.
SyncDir(p) ==
    /\ pc[p] = "syncDir"
    /\ survivors' \in {{file}, survivors}
    /\ Goto(p, "unlock")
    /\ UNCHANGED <<lock, update, encoded, temporary, file>>

\* A plausible mistake: give up without removing the temporary file.
WriteFailsUncleaned(p) ==
    /\ pc[p] \in {"load", "mutate", "write", "sync", "rename"}
    /\ Goto(p, "unlock")
    /\ UNCHANGED <<lock, update, encoded, temporary, disk>>

\* A plausible mistake: give up without releasing the lock.
WriteFailsLocked(p) ==
    /\ pc[p] \in {"load", "mutate", "write", "sync", "rename"}
    /\ temporary' = [temporary EXCEPT ![p] = Nothing]
    /\ Goto(p, "idle")
    /\ UNCHANGED <<lock, update, encoded, disk>>

\* A system call fails: the temporary file, if there is one, is removed.
WriteFails(p) ==
    /\ pc[p] \in {"load", "mutate", "write", "sync", "rename"}
    /\ temporary' = [temporary EXCEPT ![p] = Nothing]
    /\ Goto(p, "unlock")
    /\ UNCHANGED <<lock, update, encoded, disk>>

LockFails(p) ==
    /\ pc[p] \in {"share", "exclude"}
    /\ Forget(p)
    /\ UNCHANGED <<temporary, disk>>

-----------------------------------------------------------------------------
(* Crashes.                                                                *)

\* The kernel drops p's flock; a temporary file of p stays, but nobody
\* ever opens it again.
Killed(p) ==
    /\ pc[p] # "idle"
    /\ Forget(p)
    /\ temporary' = [temporary EXCEPT ![p] = Nothing]
    /\ UNCHANGED disk

\* Data that was never flushed may be gone although its name is there.
Remains(f) == IF f.synced THEN {f} ELSE {f, [table |-> Unreadable, synced |-> TRUE]}

PowerLoss ==
    /\ \E f \in survivors : file' \in Remains(f)
    /\ survivors' = {file'}
    /\ pc' = [p \in Processes |-> "idle"]
    /\ lock' = [p \in Processes |-> "none"]
    /\ update' = [p \in Processes |-> Nothing]
    /\ encoded' = [p \in Processes |-> Nothing]
    /\ temporary' = [p \in Processes |-> Nothing]

-----------------------------------------------------------------------------

Take(p) == LockShared(p) \/ LockExclusive(p)

Step(p) ==
    \/ Load(p)
    \/ Refused(p) \/ NothingToWrite(p) \/ Encode(p)
    \/ WriteTemporary(p) \/ SyncTemporary(p) \/ CommitRename(p) \/ SyncDir(p)
    \/ WriteFails(p)
    \/ Unlock(p)

Next ==
    \/ PowerLoss
    \/ \E p \in Processes :
        \/ BeginLoad(p) \/ \E m \in Mutations : BeginUpdate(p, m)
        \/ Take(p) \/ Step(p)
        \/ LockFails(p) \/ Killed(p)

(***************************************************************************)
(* The kernel runs every process and grants a flock that is free again and *)
(* again.  Nothing is assumed of callers or of failures.                   *)
(***************************************************************************)
Fairness == \A p \in Processes : WF_vars(Step(p)) /\ SF_vars(Take(p))

Spec == Init /\ [][Next]_vars /\ Fairness

-----------------------------------------------------------------------------
(* Properties.                                                             *)

(***************************************************************************)
(* The state file is LabelStore's table, whatever is killed, fails or      *)
(* loses power: no update is lost to a concurrent one (comment on          *)
(* TestConcurrentStoresMergeRatherThanOverwrite), and the file is never    *)
(* seen half-written (package comment of state: "Writes are atomic").  A   *)
(* file that does not decode stays as it is (comment on schemaVersion).    *)
(***************************************************************************)
Store == INSTANCE LabelStore WITH
    table     <- Decoded(file),
    unflushed <- {Decoded(f) : f \in survivors}

AtomicUpdates == Store!Spec

(***************************************************************************)
(* The file is replaced only by one that differs from it (package comment: *)
(* writes are "skipped entirely when they would not change the stored      *)
(* bytes"), although it was read several steps before.                     *)
(***************************************************************************)
ReplacedOnlyToChange ==
    [][\A p \in Processes :
          pc[p] = "rename" /\ pc'[p] = "syncDir" => file'.table # file.table]_vars

(***************************************************************************)
(* Update leaves no temporary file behind, at whichever of its steps it    *)
(* failed (comment on commitRename).                                       *)
(***************************************************************************)
NoLeftovers ==
    \A p \in Processes : pc[p] \in {"idle", "unlock"} => temporary[p] = Nothing

(***************************************************************************)
(* Nobody waits for the state lock for ever: no process that failed or was *)
(* killed keeps it (deferred release of Load and Update).  flock does not  *)
(* queue, so overlapping Loads could starve an Update; the property is     *)
(* about runs in which they do not overlap for ever.                       *)
(***************************************************************************)
ReadersPause == []<>(\A p \in Processes : lock[p] # "shared")

CallsReturn ==
    ReadersPause => \A p \in Processes : pc[p] # "idle" ~> pc[p] = "idle"

=============================================================================
