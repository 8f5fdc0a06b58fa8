--------------------------- MODULE StateFileProofs ----------------------------
(***************************************************************************)
(* The state file implements LabelStore, for any number of processes, any  *)
(* tables and any mutations, with kills, failures and losses of power      *)
(* without bound.                                                          *)
(*                                                                         *)
(* What a process has computed stays true of the file until it is renamed  *)
(* into place because the process holds the exclusive lock all the while   *)
(* (Prepared), and no file that was not flushed is ever at the state path  *)
(* (OnlyFlushed).                                                          *)
(***************************************************************************)
EXTENDS StateFile, TLAPS

Updating == {"mutate", "write", "sync", "rename", "syncDir"}

Exclusive ==
    /\ \A p \in Processes : pc[p] \in Updating => lock[p] = "exclusive"
    /\ \A p, q \in Processes : lock[p] = "exclusive" /\ p # q => lock[q] = "none"

Asked ==
    \A p \in Processes : pc[p] \in Updating \cup {"exclude"} => update[p] \in Mutations

Prepared ==
    \A p \in Processes : pc[p] \in {"write", "sync", "rename"} =>
        /\ file.table # Unreadable
        /\ encoded[p] = Mutate[update[p]][Decoded(file)]

Temporary ==
    /\ \A p \in Processes :
        pc[p] = "sync" => temporary[p] = [table |-> encoded[p], synced |-> FALSE]
    /\ \A p \in Processes :
        pc[p] = "rename" => temporary[p] = [table |-> encoded[p], synced |-> TRUE]

OnlyFlushed ==
    /\ file \in survivors
    /\ \A f \in survivors : f.synced

Inv ==
    /\ TypeOK
    /\ Exclusive
    /\ Asked
    /\ Prepared
    /\ Temporary
    /\ OnlyFlushed

-----------------------------------------------------------------------------

(***************************************************************************)
(* A file that decodes to a table yields, after any mutation, a table.     *)
(***************************************************************************)
LEMMA MutatedIsTable ==
    ASSUME NEW f \in File, f.table # Unreadable, NEW m \in Mutations
    PROVE  Decoded(f) \in Tables /\ Mutate[m][Decoded(f)] \in Tables
<1>1. Decoded(f) \in Tables
  BY ConstantsAssumption DEF File, Decoded
<1> QED
  BY <1>1, ConstantsAssumption

LEMMA InvInit == Init => Inv
<1> SUFFICES ASSUME Init PROVE Inv
  OBVIOUS
<1>1. file \in File /\ file.synced
  <2>1. PICK t \in {NoFile, Unreadable} : file = [table |-> t, synced |-> TRUE]
    BY DEF Init, InitialFiles
  <2> QED
    BY <2>1 DEF File
<1> QED
  BY <1>1 DEF Init, Inv, TypeOK, Steps, Exclusive, Updating, Asked, Prepared,
              Temporary, OnlyFlushed

(***************************************************************************)
(* Steps of p that leave the disk alone and only move p on, or take it     *)
(* back to idle: what they must not disturb is what the others prepared.   *)
(***************************************************************************)
LEMMA LocksKeepInv ==
    ASSUME Inv, NEW p \in Processes,
           \/ BeginLoad(p) \/ \E m \in Mutations : BeginUpdate(p, m)
           \/ Take(p) \/ LockFails(p) \/ Killed(p) \/ Unlock(p)
    PROVE  Inv'
<1> USE DEF Inv, TypeOK, Steps, Exclusive, Updating, Asked, Prepared, Temporary, OnlyFlushed,
            Goto, disk, Decoded
<1>1. CASE BeginLoad(p)
  BY <1>1 DEF BeginLoad, Begin
<1>2. CASE \E m \in Mutations : BeginUpdate(p, m)
  BY <1>2 DEF BeginUpdate, Begin
<1>3. CASE LockShared(p)
  BY <1>3 DEF LockShared
<1>4. CASE LockExclusive(p)
  BY <1>4 DEF LockExclusive
<1>5. CASE LockFails(p)
  BY <1>5 DEF LockFails, Forget
<1>6. CASE Killed(p)
  <2>1. TypeOK' /\ Exclusive'
    BY <1>6 DEF Killed, Forget
  <2>2. \A q \in Processes :
          pc'[q] # "idle" => /\ pc'[q] = pc[q] /\ update'[q] = update[q]
                             /\ encoded'[q] = encoded[q] /\ temporary'[q] = temporary[q]
    BY <1>6 DEF Killed, Forget
  <2>3. Asked' /\ Prepared'
    BY <1>6, <2>2 DEF Killed
  <2>t. Temporary
    OBVIOUS
  <2>4. \A q \in Processes :
          pc'[q] = "sync" => temporary'[q] = [table |-> encoded'[q], synced |-> FALSE]
    BY ONLY <2>2, <2>t DEF Temporary
  <2>5. \A q \in Processes :
          pc'[q] = "rename" => temporary'[q] = [table |-> encoded'[q], synced |-> TRUE]
    BY ONLY <2>2, <2>t DEF Temporary
  <2>6. OnlyFlushed'
    BY <1>6 DEF Killed
  <2> QED
    BY <2>1, <2>3, <2>4, <2>5, <2>6
<1>7. CASE Unlock(p)
  BY <1>7 DEF Unlock, Forget
<1> QED
  BY <1>1, <1>2, <1>3, <1>4, <1>5, <1>6, <1>7 DEF Take

LEMMA WorkKeepsInv ==
    ASSUME Inv, NEW p \in Processes,
           \/ Load(p) \/ Refused(p) \/ NothingToWrite(p) \/ Encode(p)
           \/ WriteTemporary(p) \/ SyncTemporary(p) \/ WriteFails(p)
    PROVE  Inv'
<1> USE DEF Inv, TypeOK, Steps, Exclusive, Updating, Asked, Prepared, Temporary, OnlyFlushed,
            Goto, disk
<1>1. CASE Load(p)
  BY <1>1 DEF Load, Decoded
<1>2. CASE Refused(p)
  BY <1>2 DEF Refused, Decoded
<1>3. CASE NothingToWrite(p)
  BY <1>3 DEF NothingToWrite, Decoded
<1>4. CASE Encode(p)
  <2>1. Mutated(p) \in Tables
    BY <1>4, MutatedIsTable DEF Encode, Mutated
  <2> QED
    BY <1>4, <2>1 DEF Encode, Mutated, Decoded
<1>5. CASE WriteTemporary(p)
  <2>1. encoded[p] \in Tables
    BY <1>5, MutatedIsTable DEF WriteTemporary
  <2> QED
    BY <1>5, <2>1 DEF WriteTemporary, Decoded
<1>6. CASE SyncTemporary(p)
  <2>1. encoded[p] \in Tables
    BY <1>6, MutatedIsTable DEF SyncTemporary
  <2> QED
    BY <1>6, <2>1 DEF SyncTemporary, Decoded
<1>7. CASE WriteFails(p)
  BY <1>7 DEF WriteFails, Decoded
<1> QED
  BY <1>1, <1>2, <1>3, <1>4, <1>5, <1>6, <1>7

LEMMA RenameKeepsInv ==
    ASSUME Inv, NEW p \in Processes, CommitRename(p) \/ SyncDir(p)
    PROVE  Inv'
<1> USE DEF Inv, TypeOK, Steps, Exclusive, Updating, Asked, Prepared, Temporary, OnlyFlushed, Goto
<1>1. CASE CommitRename(p)
  <2>1. temporary[p] = [table |-> encoded[p], synced |-> TRUE] /\ encoded[p] \in Tables
    BY <1>1, MutatedIsTable DEF CommitRename
  <2>2. file' \in File /\ file'.synced
    BY <1>1, <2>1 DEF CommitRename, File
  <2>3. \A q \in Processes : q # p => pc[q] \notin Updating
    BY <1>1 DEF CommitRename
  <2> QED
    BY <1>1, <2>2, <2>3 DEF CommitRename
<1>2. CASE SyncDir(p)
  BY <1>2 DEF SyncDir, Decoded
<1> QED
  BY <1>1, <1>2

LEMMA PowerLossKeepsInv ==
    ASSUME Inv, PowerLoss
    PROVE  Inv' /\ file' \in survivors
<1>1. file' \in survivors
  BY DEF PowerLoss, Inv, OnlyFlushed, Remains
<1> QED
  BY <1>1 DEF PowerLoss, Inv, TypeOK, Steps, Exclusive, Updating, Asked, Prepared, Temporary,
              OnlyFlushed

LEMMA InvStep == Inv /\ [Next]_vars => Inv'
<1> SUFFICES ASSUME Inv, [Next]_vars
             PROVE  Inv'
  OBVIOUS
<1>1. CASE Next
  BY <1>1, LocksKeepInv, WorkKeepsInv, RenameKeepsInv, PowerLossKeepsInv DEF Next, Step
<1>2. CASE UNCHANGED vars
  BY <1>2 DEF vars, private, disk, Inv, TypeOK, Exclusive, Asked, Prepared, Temporary,
              OnlyFlushed, Decoded
<1> QED
  BY <1>1, <1>2

-----------------------------------------------------------------------------

(***************************************************************************)
(* The variables keep their types: in particular only whole tables are     *)
(* encoded and renamed into place.                                         *)
(***************************************************************************)
THEOREM TypeCorrect == Spec => []TypeOK
<1>1. Inv => TypeOK
  BY DEF Inv
<1> QED
  BY <1>1, InvInit, InvStep, PTL DEF Spec

-----------------------------------------------------------------------------
(* What is left behind and what is replaced.                               *)

(***************************************************************************)
(* A process has a temporary file between creating and renaming it only.   *)
(***************************************************************************)
Tidy == \A p \in Processes : pc[p] \notin {"sync", "rename"} => temporary[p] = Nothing

LEMMA TidyStep == Inv /\ Tidy /\ [Next]_vars => Tidy'
<1> SUFFICES ASSUME Inv, Tidy, [Next]_vars
             PROVE  Tidy'
  OBVIOUS
<1> USE DEF Inv, TypeOK, Tidy, Goto
<1>1. ASSUME NEW p \in Processes, BeginLoad(p) \/ \E m \in Mutations : BeginUpdate(p, m)
      PROVE  Tidy'
  BY <1>1 DEF BeginLoad, BeginUpdate, Begin
<1>2. ASSUME NEW p \in Processes, Take(p)
      PROVE  Tidy'
  BY <1>2 DEF Take, LockShared, LockExclusive
<1>3. ASSUME NEW p \in Processes, LockFails(p) \/ Killed(p) \/ Unlock(p)
      PROVE  Tidy'
  BY <1>3 DEF LockFails, Killed, Unlock, Forget
<1>4. ASSUME NEW p \in Processes,
             Load(p) \/ Refused(p) \/ NothingToWrite(p) \/ Encode(p) \/ WriteFails(p)
      PROVE  Tidy'
  BY <1>4 DEF Load, Refused, NothingToWrite, Encode, WriteFails
<1>5. ASSUME NEW p \in Processes,
             WriteTemporary(p) \/ SyncTemporary(p) \/ CommitRename(p) \/ SyncDir(p)
      PROVE  Tidy'
  BY <1>5 DEF WriteTemporary, SyncTemporary, CommitRename, SyncDir
<1>6. CASE PowerLoss
  BY <1>6 DEF PowerLoss
<1>7. CASE UNCHANGED vars
  BY <1>7 DEF vars, private
<1> QED
  BY <1>1, <1>2, <1>3, <1>4, <1>5, <1>6, <1>7 DEF Next, Step

(***************************************************************************)
(* Whichever step of an update fails, its temporary file is gone when the  *)
(* lock is released.                                                       *)
(***************************************************************************)
THEOREM NothingLeftBehind == Spec => []NoLeftovers
<1>1. Init => Tidy
  BY DEF Init, Tidy
<1>2. Tidy => NoLeftovers
  BY DEF Tidy, NoLeftovers
<1> QED
  BY <1>1, <1>2, InvInit, InvStep, TidyStep, PTL DEF Spec

(***************************************************************************)
(* What an update is about to write differs from the file, which nobody    *)
(* else replaces while the update holds the lock.                          *)
(***************************************************************************)
Differs ==
    \A p \in Processes : pc[p] \in {"write", "sync", "rename"} => encoded[p] # file.table

LEMMA DiffersStep == Inv /\ Differs /\ [Next]_vars => Differs'
<1> SUFFICES ASSUME Inv, Differs, [Next]_vars
             PROVE  Differs'
  OBVIOUS
<1> USE DEF Inv, TypeOK, Exclusive, Updating, Differs, Goto, disk
<1>1. ASSUME NEW p \in Processes, BeginLoad(p) \/ \E m \in Mutations : BeginUpdate(p, m)
      PROVE  Differs'
  BY <1>1 DEF BeginLoad, BeginUpdate, Begin
<1>2. ASSUME NEW p \in Processes, Take(p)
      PROVE  Differs'
  BY <1>2 DEF Take, LockShared, LockExclusive
<1>3. ASSUME NEW p \in Processes, LockFails(p) \/ Killed(p) \/ Unlock(p)
      PROVE  Differs'
  <2>1. \A q \in Processes :
          pc'[q] # "idle" => pc'[q] = pc[q] /\ encoded'[q] = encoded[q]
    BY <1>3 DEF LockFails, Killed, Unlock, Forget
  <2>2. file' = file
    BY <1>3 DEF LockFails, Killed, Unlock
  <2> QED
    BY <2>1, <2>2
<1>4. ASSUME NEW p \in Processes,
             Load(p) \/ Refused(p) \/ NothingToWrite(p) \/ Encode(p) \/ WriteFails(p)
      PROVE  Differs'
  BY <1>4 DEF Load, Refused, NothingToWrite, Encode, WriteFails
<1>5. ASSUME NEW p \in Processes, WriteTemporary(p) \/ SyncTemporary(p) \/ SyncDir(p)
      PROVE  Differs'
  BY <1>5 DEF WriteTemporary, SyncTemporary, SyncDir
<1>6. ASSUME NEW p \in Processes, CommitRename(p)
      PROVE  Differs'
  BY <1>6 DEF CommitRename
<1>7. CASE PowerLoss
  BY <1>7 DEF PowerLoss
<1>8. CASE UNCHANGED vars
  BY <1>8 DEF vars, private
<1> QED
  BY <1>1, <1>2, <1>3, <1>4, <1>5, <1>6, <1>7, <1>8 DEF Next, Step

(***************************************************************************)
(* The state file is replaced only by one that differs from it.            *)
(***************************************************************************)
THEOREM ReplacesOnlyToChange == Spec => ReplacedOnlyToChange
<1>1. Init => Differs
  BY DEF Init, Differs
<1>2. Inv /\ Differs /\ [Next]_vars =>
        [\A p \in Processes :
            pc[p] = "rename" /\ pc'[p] = "syncDir" => file'.table # file.table]_vars
  <2> SUFFICES ASSUME Inv, Differs, [Next]_vars,
                      NEW p \in Processes, pc[p] = "rename", pc'[p] = "syncDir"
               PROVE  file'.table # file.table
    OBVIOUS
  <2>1. CASE PowerLoss
    BY <2>1 DEF PowerLoss
  <2>2. CASE UNCHANGED vars
    BY <2>2 DEF vars, private
  <2>3. ASSUME NEW q \in Processes,
               \/ BeginLoad(q) \/ \E m \in Mutations : BeginUpdate(q, m)
               \/ Take(q) \/ LockFails(q) \/ Killed(q) \/ Unlock(q)
        PROVE  pc'[p] # "syncDir"
    BY <2>3 DEF Inv, TypeOK, Goto, Forget, BeginLoad, BeginUpdate, Begin, Take, LockShared,
                LockExclusive, LockFails, Killed, Unlock
  <2>4. ASSUME NEW q \in Processes,
               \/ Load(q) \/ Refused(q) \/ NothingToWrite(q) \/ Encode(q) \/ WriteFails(q)
               \/ WriteTemporary(q) \/ SyncTemporary(q) \/ SyncDir(q)
        PROVE  pc'[p] # "syncDir"
    BY <2>4 DEF Inv, TypeOK, Goto, Load, Refused, NothingToWrite, Encode, WriteFails,
                WriteTemporary, SyncTemporary, SyncDir
  <2>5. ASSUME NEW q \in Processes, CommitRename(q)
        PROVE  file'.table # file.table
    <3>1. p = q
      BY <2>5 DEF CommitRename, Goto, Inv, TypeOK
    <3>2. file' = temporary[p]
      BY <2>5, <3>1 DEF CommitRename
    <3>3. temporary[p] = [table |-> encoded[p], synced |-> TRUE]
      BY DEF Inv, Temporary
    <3> QED
      BY <3>2, <3>3 DEF Differs
  <2> QED
    BY <2>1, <2>2, <2>3, <2>4, <2>5 DEF Next, Step
<1> QED
  BY <1>1, <1>2, InvInit, InvStep, DiffersStep, PTL DEF Spec, ReplacedOnlyToChange

-----------------------------------------------------------------------------
(* The refinement.                                                         *)

(***************************************************************************)
(* Every step of the file is a step of the abstract store or leaves it     *)
(* alone: the rename is the instant at which an Update takes effect, on    *)
(* the table the file holds at that instant.                               *)
(***************************************************************************)
LEMMA StepRefines ==
    Inv /\ [Next]_vars => [Store!Next]_<<Decoded(file), {Decoded(f) : f \in survivors}>>
<1> SUFFICES ASSUME Inv, [Next]_vars
             PROVE  [Store!Next]_<<Decoded(file), {Decoded(f) : f \in survivors}>>
  OBVIOUS
<1>1. CASE UNCHANGED disk
  BY <1>1 DEF disk, Decoded
<1>2. CASE PowerLoss
  <2>1. file' \in survivors
    BY <1>2, PowerLossKeepsInv
  <2>2. survivors' = {file'}
    BY <1>2 DEF PowerLoss
  <2>3. Store!PowerLoss
    BY <2>1, <2>2 DEF Store!PowerLoss, Decoded
  <2> QED
    BY <2>3 DEF Store!Next
<1>3. CASE \E p \in Processes : CommitRename(p)
  <2>1. PICK p \in Processes : CommitRename(p)
    BY <1>3
  <2>2. /\ temporary[p] = [table |-> encoded[p], synced |-> TRUE]
        /\ encoded[p] = Mutate[update[p]][Decoded(file)]
        /\ file \in File /\ file.table # Unreadable /\ update[p] \in Mutations
    BY <2>1 DEF CommitRename, Inv, TypeOK, Temporary, Prepared, Asked, Updating
  <2>3. encoded[p] \in Tables
    BY <2>2, MutatedIsTable
  <2>4. Decoded(file)' = Mutate[update[p]][Decoded(file)]
    BY <2>1, <2>2, <2>3, ConstantsAssumption DEF CommitRename, Decoded
  <2>5. {Decoded(f) : f \in survivors}' = {Decoded(f) : f \in survivors} \cup {Decoded(file)'}
    BY <2>1 DEF CommitRename, Decoded
  <2>6. Decoded(file) # Unreadable
    BY <2>2, MutatedIsTable, ConstantsAssumption
  <2>7. Store!Update(update[p])
    BY <2>4, <2>5, <2>6 DEF Store!Update
  <2> QED
    BY <2>2, <2>7 DEF Store!Next
<1>4. CASE \E p \in Processes : SyncDir(p)
  <2>1. file' = file /\ survivors' \in {{file}, survivors}
    BY <1>4 DEF SyncDir
  <2>2. CASE survivors' = survivors
    BY <2>1, <2>2 DEF Decoded
  <2>3. CASE survivors' = {file}
    <3>1. Store!Flush
      BY <2>1, <2>3 DEF Store!Flush, Decoded
    <3> QED
      BY <3>1 DEF Store!Next
  <2> QED
    BY <2>1, <2>2, <2>3
<1>5. UNCHANGED disk \/ PowerLoss \/ \E p \in Processes : CommitRename(p) \/ SyncDir(p)
  BY DEF Next, vars, Step, Take, BeginLoad, BeginUpdate, Begin, LockShared, LockExclusive,
         Unlock, Load, Refused, NothingToWrite, Encode, WriteTemporary, SyncTemporary,
         WriteFails, LockFails, Killed, disk
<1> QED
  BY <1>1, <1>2, <1>3, <1>4, <1>5

(***************************************************************************)
(* Updates are atomic and durable up to the last flush, and an unreadable  *)
(* file is never replaced, whatever is killed, fails or loses power.       *)
(***************************************************************************)
THEOREM ImplementsStore == Spec => AtomicUpdates
<1>1. Init => Store!Init
  <2> SUFFICES ASSUME Init PROVE Store!Init
    OBVIOUS
  <2>1. Decoded(file) \in {NoEntries, Unreadable}
    BY DEF Init, InitialFiles, Decoded
  <2>2. {Decoded(f) : f \in survivors} = {Decoded(file)}
    BY DEF Init
  <2> QED
    BY <2>1, <2>2 DEF Store!Init
<1> QED
  BY <1>1, InvInit, InvStep, StepRefines, PTL DEF Spec, AtomicUpdates, Store!Spec

=============================================================================
