------------------------- MODULE ConfigManagerProofs --------------------------
(***************************************************************************)
(* Theorems about ConfigManager, for any goroutines, contents and number   *)
(* of changes and failures.                                                *)
(***************************************************************************)
EXTENDS ConfigManager, TLAPS

Inside(c) == pc[c] \in {"stat", "decide"}

(***************************************************************************)
(* One goroutine at a time is between Stat and return.                     *)
(***************************************************************************)
Exclusive == \A c \in Callers : Inside(c) => reloadMu = c /\ result[c] = "ok"

(***************************************************************************)
(* The file that is there has no time stamp of the future.                 *)
(***************************************************************************)
OnDisk ==
    /\ now >= 1
    /\ file \in versions
    /\ file = Missing \/ (file.content # Absent /\ file.stamp <= now)
    /\ \A version \in versions : version = Missing \/
                                    (version.content # Absent /\ version.stamp <= now)

(***************************************************************************)
(* No version the file may become for the first time has signature s: it   *)
(* is one the file was, or a hash taken later than a stamp that is past.   *)
(***************************************************************************)
Spent(s) == s \in versions \/ (s.content # Absent /\ s.stamp < now)

SignaturesSpent ==
    /\ signature # None => Spent(signature)
    /\ \A c \in Callers :
          /\ pc[c] = "stat" =>
                /\ sig[c].stamp <= now
                /\ sig[c].stamp = now => file = Missing \/ file.stamp = now
          /\ pc[c] = "decide" => Spent(sig[c])

(***************************************************************************)
(* What is taken of a file that is left alone is its signature.            *)
(***************************************************************************)
SignaturesFresh ==
    \A c \in Callers : ~touched[c] =>
        /\ pc[c] = "stat" => file # Missing /\ sig[c].stamp = file.stamp
        /\ pc[c] = "decide" => sig[c] = file

ManagerInv == TypeOK /\ Exclusive /\ OnDisk /\ SignaturesSpent /\ SignaturesFresh

LEMMA ManagerInvInit == Init => ManagerInv
  <1> SUFFICES ASSUME Init PROVE ManagerInv
    OBVIOUS
  <1>1. Missing \in Version
    BY DEF Missing, Version
  <1>2. /\ file \in Version
        /\ file = Missing \/ (file.content # Absent /\ file.stamp <= now)
    BY <1>1, ConstantsAssumption DEF Init, Version
  <1>3. TypeOK
    <2>1. reloadMu \in Callers \cup {None} /\ signature \in Version \cup {None}
          /\ current \in Loadable \cup {None}
      BY DEF Init
    <2>2. again \in BOOLEAN /\ crossed \in BOOLEAN /\ reported \in BOOLEAN
      BY DEF Init
    <2>3. sig \in [Callers -> Version]
      BY <1>1 DEF Init
    <2> QED
      BY <1>2, <2>1, <2>2, <2>3 DEF Init, TypeOK
  <1>4. Exclusive /\ SignaturesSpent /\ SignaturesFresh
    BY DEF Init, Exclusive, Inside, SignaturesSpent, SignaturesFresh
  <1>5. OnDisk
    BY <1>2 DEF Init, OnDisk
  <1> QED
    BY <1>3, <1>4, <1>5 DEF ManagerInv

LEMMA EditorStep ==
  ASSUME ManagerInv, Save \/ Delete \/ Restore
  PROVE  /\ ManagerInv'
         /\ again' \/ signature # file'
         /\ ~reported' /\ \A c \in Callers : touched'[c]
  <1> DEFINE Comes(version) ==
           /\ Becomes(version)
           /\ version = Missing \/ (version.content # Absent /\ version.stamp <= now')
           /\ version \in versions \/ version = Missing \/ version.stamp >= now
           /\ version = Missing \/ version.stamp = now' \/ now' > now
           /\ now' \in Nat /\ now' >= now
  <1>1. PICK version \in Version : Comes(version)
    <2>1. CASE Save
      <3>1. PICK content \in Contents, stamp \in {now, now + 1} :
               Becomes([content |-> content, stamp |-> stamp]) /\ now' = stamp
        BY <2>1 DEF Save
      <3>2. [content |-> content, stamp |-> stamp] \in Version
        BY DEF ManagerInv, TypeOK, Version
      <3>3. Comes([content |-> content, stamp |-> stamp])
        BY <3>1, ConstantsAssumption DEF ManagerInv, TypeOK
      <3> QED
        BY <3>2, <3>3
    <2>2. CASE Delete
      <3>1. Missing \in Version
        BY DEF Missing, Version
      <3>2. Comes(Missing)
        BY <2>2 DEF Delete, ManagerInv, TypeOK
      <3> QED
        BY <3>1, <3>2
    <2>3. CASE Restore
      <3>1. PICK version \in versions \ {Missing} : Becomes(version) /\ now' = now + 1
        BY <2>3 DEF Restore
      <3>2. version \in Version /\ version.stamp \in Nat
        BY DEF ManagerInv, TypeOK, Version
      <3>3. version.content # Absent /\ version.stamp <= now
        BY DEF ManagerInv, OnDisk
      <3>4. Comes(version)
        BY <3>1, <3>2, <3>3 DEF ManagerInv, TypeOK
      <3> QED
        BY <3>2, <3>4
    <2> QED
      BY <2>1, <2>2, <2>3
  <1>2. again' \in BOOLEAN
    BY <1>1 DEF Becomes
  <1> USE ConstantsAssumption DEF ManagerInv, TypeOK, Version, Missing, Becomes, managerVars
  <1>3. TypeOK'
    <2>1. again' \in BOOLEAN /\ crossed' \in BOOLEAN /\ reported' \in BOOLEAN
      BY <1>1, <1>2
    <2>2. /\ file' \in Version /\ now' \in Nat
          /\ versions' \subseteq Version /\ edits' \in Nat
      BY <1>1
    <2>3. touched' \in [Callers -> BOOLEAN]
      BY <1>1
    <2> QED
      BY <1>1, <2>1, <2>2, <2>3
  <1>4. Exclusive'
    BY <1>1 DEF Exclusive, Inside
  <1>5. OnDisk'
    BY <1>1 DEF OnDisk
  <1>6. SignaturesSpent'
    BY <1>1 DEF SignaturesSpent, Spent
  <1>7. SignaturesFresh'
    BY <1>1 DEF SignaturesFresh
  <1>8. again' \/ signature # file'
    <2>1. again' \/ version \notin versions
      BY <1>1, Zenon
    <2>2. CASE version \notin versions
      <3>1. version = Missing \/ version.stamp >= now
        BY <1>1, <2>2
      <3>2. signature # None => signature \in versions \/ signature.stamp < now
        BY DEF SignaturesSpent, Spent
      <3>3. signature = version => version = Missing
        BY <2>2, <3>1, <3>2
      <3> QED
        BY <1>1, <2>2, <3>3 DEF SignaturesSpent, Spent
    <2> QED
      BY <2>1, <2>2
  <1>9. ~reported' /\ \A c \in Callers : touched'[c]
    BY <1>1
  <1> QED
    BY <1>3, <1>4, <1>5, <1>6, <1>7, <1>8, <1>9

LEMMA ReloadStep ==
  ASSUME ManagerInv, NEW c \in Callers, ReloadIfChanged(c)
  PROVE  ManagerInv'
  <1> USE ConstantsAssumption
      DEF ManagerInv, TypeOK, disk, diskVars, managerVars, Return, ReadFails
  <1>1. CASE Stat(c)
    <2> USE <1>1 DEF Stat
    <2>1. TypeOK'
      BY DEF Version
    <2>2. Exclusive'
      BY DEF Exclusive, Inside
    <2>3. OnDisk'
      BY DEF OnDisk
    <2>4. SignaturesSpent'
      BY DEF SignaturesSpent, Spent, OnDisk, Missing, Version
    <2>5. SignaturesFresh'
      BY DEF SignaturesFresh, Missing, Version
    <2> QED
      BY <2>1, <2>2, <2>3, <2>4, <2>5
  <1>2. CASE StatFails(c) \/ HashFails(c) \/ Unchanged(c)
    <2> USE <1>2 DEF StatFails, HashFails, Unchanged
    <2>1. TypeOK'
      <3>1. Missing \in Version
        BY DEF Version, Missing
      <3>2. sig' \in [Callers -> Version]
        BY <3>1
      <3>3. pc' \in [Callers -> {"idle", "stat", "decide", "returned"}]
        OBVIOUS
      <3>4. result' \in [Callers -> {"ok", "error"}]
        OBVIOUS
      <3>5. touched' \in [Callers -> BOOLEAN]
        OBVIOUS
      <3>6. failures' \in Nat
        OBVIOUS
      <3> QED
        BY <3>2, <3>3, <3>4, <3>5, <3>6
    <2>2. Exclusive'
      BY DEF Exclusive, Inside
    <2>3. OnDisk'
      BY DEF OnDisk
    <2>4. SignaturesSpent'
      BY DEF SignaturesSpent, Spent
    <2>5. SignaturesFresh'
      BY DEF SignaturesFresh
    <2> QED
      BY <2>1, <2>2, <2>3, <2>4, <2>5
  <1>3. CASE Hash(c)
    <2> USE <1>3 DEF Hash
    <2>1. sig' = [sig EXCEPT ![c] = [content |-> file.content, stamp |-> sig[c].stamp]]
      OBVIOUS
    <2>2. TypeOK'
      <3>1. [content |-> file.content, stamp |-> sig[c].stamp] \in Version
        BY DEF Version
      <3> QED
        BY <2>1, <3>1
    <2>3. Exclusive'
      BY DEF Exclusive, Inside
    <2>4. OnDisk'
      BY DEF OnDisk
    <2>5. SignaturesSpent'
      <3>1. sig'[c].content # Absent /\ sig'[c].stamp = sig[c].stamp
        BY <2>1 DEF OnDisk
      <3>2. sig[c].stamp <= now /\ sig[c].stamp \in Nat
            /\ (sig[c].stamp = now => file.stamp = now)
        BY DEF SignaturesSpent, Version
      <3>3. sig[c].stamp = now => sig'[c] = file
        <4>1. file.stamp = now => file = [content |-> file.content, stamp |-> now]
          BY DEF Version
        <4> QED
          BY <2>1, <3>2, <4>1
      <3>4. Spent(sig'[c])
        BY <3>1, <3>2, <3>3 DEF Spent, OnDisk
      <3> QED
        BY <3>4 DEF SignaturesSpent, Spent
    <2>6. SignaturesFresh'
      BY <2>1 DEF SignaturesFresh, Version
    <2> QED
      BY <2>2, <2>3, <2>4, <2>5, <2>6
  <1>4. CASE Reload(c) \/ ReloadFails(c)
    <2> USE <1>4 DEF Reload, ReloadFails
    <2>1. TypeOK'
      <3>1. Missing \in Version
        BY DEF Version, Missing
      <3>2. sig' \in [Callers -> Version]
        BY <3>1
      <3>3. crossed' \in BOOLEAN /\ reported' \in BOOLEAN
        BY Zenon
      <3>4. /\ signature' \in Version \cup {None} /\ current' \in Loadable \cup {None}
            /\ reloadMu' \in Callers \cup {None} /\ failures' \in Nat
            /\ pc' \in [Callers -> {"idle", "stat", "decide", "returned"}]
            /\ result' \in [Callers -> {"ok", "error"}]
        OBVIOUS
      <3> QED
        BY <3>2, <3>3, <3>4
    <2>2. Exclusive'
      BY DEF Exclusive, Inside
    <2>3. OnDisk'
      BY DEF OnDisk
    <2>4. SignaturesSpent'
      BY DEF SignaturesSpent, Spent
    <2>5. SignaturesFresh'
      BY DEF SignaturesFresh
    <2> QED
      BY <2>1, <2>2, <2>3, <2>4, <2>5
  <1> QED
    BY <1>1, <1>2, <1>3, <1>4 DEF ReloadIfChanged

LEMMA ManagerInvStep == ManagerInv /\ [Next]_vars => ManagerInv'
  <1> SUFFICES ASSUME ManagerInv, [Next]_vars
               PROVE  ManagerInv'
    OBVIOUS
  <1>1. CASE Next
    BY <1>1, EditorStep, ReloadStep DEF Next
  <1>2. CASE UNCHANGED vars
    BY <1>2 DEF vars, disk, managerVars, ManagerInv, TypeOK, Exclusive, Inside, OnDisk, SignaturesSpent,
                Spent, SignaturesFresh
  <1> QED
    BY <1>1, <1>2

(***************************************************************************)
(* Every variable keeps its type, the lock excludes, and a signature never *)
(* is that of a version the file will be for the first time: if it is that *)
(* of a version to come, it is of one that comes back.                     *)
(***************************************************************************)
THEOREM ManagerConsistent == Spec => []ManagerInv
  BY ManagerInvInit, ManagerInvStep, PTL DEF Spec

-----------------------------------------------------------------------------
(* What takes effect.                                                      *)

(***************************************************************************)
(* Unless Load read another content than the one it was taken of, the      *)
(* signature explains what is in force; and if Load did, the signature is  *)
(* not the file's until the file comes back.                               *)
(***************************************************************************)
Explained ==
    /\ signature = None => ~crossed
    /\ ~crossed /\ signature # None /\ signature.content \in Loadable =>
          current = signature.content
    /\ crossed /\ ~again => signature # file

EffectInv == ManagerInv /\ Explained /\ TakesEffect

LEMMA EffectInvInit == Init => EffectInv
  <1> SUFFICES ASSUME Init PROVE EffectInv
    OBVIOUS
  <1>1. ManagerInv
    BY ManagerInvInit
  <1>2. Explained /\ TakesEffect
    BY <1>1, ConstantsAssumption
    DEF Init, Explained, TakesEffect, EditsTakeEffect, Effective, ManagerInv, TypeOK
  <1> QED
    BY <1>1, <1>2 DEF EffectInv

LEMMA EffectInvStep ==
  ASSUME "load" \notin Failures, EffectInv, [Next]_vars
  PROVE  EffectInv'
  <1>1. ManagerInv'
    BY ManagerInvStep DEF EffectInv
  <1> USE DEF EffectInv, Explained, TakesEffect, Mistaken, EditsTakeEffect, Effective
  <1>2. CASE Save \/ Delete \/ Restore
    <2>1. again' \/ signature # file'
      BY <1>2, EditorStep
    <2>2. \A c \in Callers : touched'[c]
      BY <1>2, EditorStep
    <2>3. UNCHANGED managerVars
      BY <1>2 DEF Save, Delete, Restore, Becomes
    <2> QED
      BY <1>1, <2>1, <2>2, <2>3 DEF managerVars
  <1>3. ASSUME NEW c \in Callers, ReloadIfChanged(c)
        PROVE  EffectInv'
    <2> USE DEF ManagerInv, TypeOK, Return, disk, diskVars, managerVars
    <2>1. CASE Stat(c) \/ Hash(c)
      BY <1>1, <2>1 DEF Stat, Hash
    <2>2. CASE StatFails(c) \/ HashFails(c)
      BY <1>1, <2>2 DEF StatFails, HashFails
    <2>3. CASE Unchanged(c)
      BY <1>1, <2>3, ConstantsAssumption DEF Unchanged, SameSignature, SignaturesFresh
    <2>4. ASSUME Reload(c) \/ ReloadFails(c)
          PROVE  /\ signature' = sig[c] /\ signature' # None
                 /\ crossed' <=> file.content # sig[c].content
      <3>1. crossed' <=> file.content # sig[c].content
        BY <2>4, Zenon DEF Reload, ReloadFails
      <3> QED
        BY <2>4, <3>1, ConstantsAssumption DEF Reload, ReloadFails
    <2>5. CASE Reload(c)
      BY <1>1, <2>4, <2>5 DEF Reload
    <2>6. CASE ReloadFails(c)
      <3>1. file.content \notin Loadable
        BY <2>6 DEF ReloadFails, ReadFails
      <3>2. result'[c] = "error"
        BY <2>6 DEF ReloadFails
      <3> QED
        BY <1>1, <2>4, <2>6, <3>1, <3>2 DEF ReloadFails
    <2> QED
      BY <1>3, <2>1, <2>2, <2>3, <2>5, <2>6 DEF ReloadIfChanged
  <1>4. CASE UNCHANGED vars
    BY <1>1, <1>4 DEF vars, disk, managerVars
  <1> QED
    BY <1>2, <1>3, <1>4 DEF Next

(***************************************************************************)
(* A call that returns without error leaves the file it saw in force,      *)
(* unless that is a version which is back and which Load mistook another   *)
(* for: mixed signatures, coarse stamps and files put back are covered.    *)
(***************************************************************************)
THEOREM ChangesTakeEffect ==
  ASSUME "load" \notin Failures
  PROVE  Spec => []TakesEffect
  <1>1. EffectInv /\ [Next]_vars => EffectInv'
    BY EffectInvStep
  <1>2. EffectInv => TakesEffect
    BY DEF EffectInv
  <1> QED
    BY EffectInvInit, <1>1, <1>2, PTL DEF Spec

-----------------------------------------------------------------------------
(* What is reported.                                                       *)

(***************************************************************************)
(* A file that was reported is remembered, and whoever is inside has       *)
(* looked at no older one.                                                 *)
(***************************************************************************)
Remembered ==
    reported =>
        /\ signature = file
        /\ \A c \in Callers : Inside(c) => ~touched[c]

ReportInv == ManagerInv /\ Remembered

LEMMA ReportInvInit == Init => ReportInv
  BY ManagerInvInit DEF ReportInv, Remembered, Init

LEMMA ReportInvStep ==
  ASSUME ReportInv, [Next]_vars
  PROVE  ReportInv'
  <1>1. ManagerInv'
    BY ManagerInvStep DEF ReportInv
  <1> USE DEF ReportInv, Remembered
  <1>2. CASE Save \/ Delete \/ Restore
    BY <1>1, <1>2, EditorStep
  <1>3. ASSUME NEW c \in Callers, ReloadIfChanged(c)
        PROVE  ReportInv'
    <2> USE DEF ManagerInv, TypeOK, Inside, Exclusive, Return, disk, diskVars, managerVars
    <2>1. CASE Stat(c) \/ Hash(c)
      BY <1>1, <2>1, ConstantsAssumption DEF Stat, Hash
    <2>2. CASE StatFails(c) \/ HashFails(c) \/ Unchanged(c)
      BY <1>1, <2>2 DEF StatFails, HashFails, Unchanged
    <2>3. CASE Reload(c)
      BY <1>1, <2>3 DEF Reload, SameSignature, SignaturesFresh
    <2>4. CASE ReloadFails(c)
      BY <1>1, <2>4 DEF ReloadFails, SameSignature, SignaturesFresh
    <2> QED
      BY <1>3, <2>1, <2>2, <2>3, <2>4 DEF ReloadIfChanged
  <1>4. CASE UNCHANGED vars
    BY <1>1, <1>4 DEF vars, disk, managerVars, Inside
  <1> QED
    BY <1>2, <1>3, <1>4 DEF Next

(***************************************************************************)
(* An edit that does not load is reported once, reads that fail included.  *)
(***************************************************************************)
THEOREM InvalidEditsReportedOnce == Spec => ReportedOnce
  <1> DEFINE Once ==
        \A c \in Callers :
          pc[c] = "decide" /\ result'[c] = "error" /\ ~touched[c] => ~reported
  <1>1. ReportInv /\ [Next]_vars => [Once]_vars
    <2> SUFFICES ASSUME ReportInv, Next, NEW c \in Callers,
                        pc[c] = "decide", result'[c] = "error", ~touched[c]
                 PROVE  ~reported
      OBVIOUS
    <2> USE DEF ReportInv, ManagerInv, TypeOK, Exclusive, Inside
    <2>1. result[c] = "ok"
      OBVIOUS
    <2>2. ~(Save \/ Delete \/ Restore)
      BY <2>1 DEF Save, Delete, Restore, Becomes
    <2>3. PICK d \in Callers : ReloadIfChanged(d)
      BY <2>2 DEF Next
    <2>4. d = c
      BY <2>1, <2>3 DEF ReloadIfChanged, Stat, StatFails, Hash, HashFails, Unchanged,
                        Reload, ReloadFails, Return
    <2>5. ~SameSignature(signature, sig[c])
      BY <2>1, <2>3, <2>4 DEF ReloadIfChanged, Stat, StatFails, Hash, HashFails,
                              Unchanged, Reload, ReloadFails, Return
    <2> QED
      BY <2>5 DEF Remembered, SameSignature, SignaturesFresh
  <1>2. ReportInv /\ [Next]_vars => ReportInv'
    BY ReportInvStep
  <1> QED
    BY ReportInvInit, <1>1, <1>2, PTL DEF Spec, ReportedOnce

=============================================================================
