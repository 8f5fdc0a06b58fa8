----------------------------- MODULE ConfigManager -----------------------------
(***************************************************************************)
(* Hot reload of the configuration file (Manager in                        *)
(* src/internal/config/load.go).                                           *)
(*                                                                         *)
(* ReloadIfChanged looks at the file three times: Stat for its time stamp, *)
(* ReadFile for its hash, and ReadFile again in Load.  Editors save, write *)
(* in place, delete and put an old file back between any two of them.  A   *)
(* version of the file is its content and its time stamp; the size is a    *)
(* function of the content, and a compiled configuration is named by the   *)
(* content it came from.                                                   *)
(***************************************************************************)
EXTENDS Naturals

CONSTANTS
    Callers,      \* goroutines that call ReloadIfChanged
    Contents,     \* what the file may hold, half-written files included
    Valid,        \* the contents compile accepts
    Absent,       \* no file: compile(source{}), the compatibility defaults
    None,         \* no configuration, no signature, nobody
    Failures,     \* reads that may fail: among "stat", "hash" and "load"
    MaxEdits,     \* bound: changes of the file
    MaxFailures   \* bound: failing reads

\* The versions of a file; the zero signature stands for a missing one.
Version == [content : Contents \cup {Absent}, stamp : Nat]
Missing == [content |-> Absent, stamp |-> 0]

ASSUME ConstantsAssumption ==
    /\ Valid \subseteq Contents
    /\ Absent \notin Contents
    /\ None \notin Contents \cup {Absent} \cup Callers \cup Version
    /\ Failures \subseteq {"stat", "hash", "load"}
    /\ MaxEdits \in Nat
    /\ MaxFailures \in Nat

VARIABLES
    file,       \* the version of the file on disk
    now,        \* the clock time stamps are taken from
    versions,   \* every version the file ever was
    edits,      \* counts the changes of the file
    again,      \* the file is a version it was before
    reloadMu,   \* the caller in ReloadIfChanged
    signature,  \* m.signature, None while ~m.seen
    current,    \* m.current
    crossed,    \* history variable: when the signature was remembered, Load had
                \* read another content than the one it was taken of
    pc,         \* pc[c]: "idle", "stat", "decide" or "returned"
    sig,        \* sig[c]: the signature it has taken: a stamp, then a content
    result,     \* result[c]: whether the last call returned an error
    touched,    \* touched[c]: the file was changed since its last call began
    reported,   \* Load's error was returned for the file as it is, by a call
                \* during which it was not touched
    failures    \* failing reads so far

disk == <<file, now, versions, edits, again>>
diskVars == <<disk, touched>>
managerVars == <<signature, current, crossed>>
vars == <<disk, reloadMu, managerVars, pc, sig, result, touched, reported, failures>>

Loadable == Valid \cup {Absent}

Init ==
    /\ \/ file = Missing
       \/ \E content \in Contents : file = [content |-> content, stamp |-> 1]
    /\ now = 1
    /\ versions = {file}
    /\ edits = 0
    /\ again = FALSE
    /\ reloadMu = None
    /\ signature = None
    /\ current = None
    /\ crossed = FALSE
    /\ pc = [c \in Callers |-> "idle"]
    /\ sig = [c \in Callers |-> Missing]
    /\ result = [c \in Callers |-> "ok"]
    /\ touched = [c \in Callers |-> FALSE]
    /\ reported = FALSE
    /\ failures = 0

-----------------------------------------------------------------------------
(* The user's editor.                                                      *)

Becomes(version) ==
    /\ version # file
    /\ edits < MaxEdits
    /\ edits' = edits + 1
    /\ file' = version
    /\ versions' = versions \cup {version}
    /\ again' = (version \in versions)
    /\ touched' = [c \in Callers |-> TRUE]
    /\ reported' = FALSE
    /\ UNCHANGED <<reloadMu, managerVars, pc, sig, result, failures>>

\* Time stamps are coarse, so two saves may share one; they do not go back.
Save ==
    \E content \in Contents, stamp \in {now, now + 1} :
        /\ Becomes([content |-> content, stamp |-> stamp])
        /\ now' = stamp

\* Every missing file is the same version.
Delete ==
    /\ Becomes(Missing)
    /\ UNCHANGED now

\* An old file moved or linked back into place has the stamp it had.  That
\* takes longer than the clock is coarse.
Restore ==
    \E version \in versions \ {Missing} :
        /\ Becomes(version)
        /\ now' = now + 1

-----------------------------------------------------------------------------
(* ReloadIfChanged.                                                        *)

Return(c, outcome) ==
    /\ reloadMu' = None
    /\ pc' = [pc EXCEPT ![c] = "returned"]
    /\ result' = [result EXCEPT ![c] = outcome]
    /\ sig' = [sig EXCEPT ![c] = Missing]

ReadFails(read) ==
    /\ read \in Failures
    /\ failures < MaxFailures
    /\ failures' = failures + 1

\* A plausible mistake: keep what is in force when the file is gone.
StatKeepsWhenMissing(c) ==
    /\ pc[c] \in {"idle", "returned"}
    /\ reloadMu = None
    /\ touched' = [touched EXCEPT ![c] = FALSE]
    /\ \/ file = Missing /\ Return(c, "ok")
       \/ /\ file # Missing
          /\ reloadMu' = c
          /\ sig' = [sig EXCEPT ![c] = [content |-> Absent, stamp |-> file.stamp]]
          /\ pc' = [pc EXCEPT ![c] = "stat"]
          /\ result' = [result EXCEPT ![c] = "ok"]
    /\ UNCHANGED <<disk, managerVars, reported, failures>>

\* os.Stat.  A file that is not there has the zero signature.
Stat(c) ==
    /\ pc[c] \in {"idle", "returned"}
    /\ reloadMu = None
    /\ reloadMu' = c
    /\ sig' = [sig EXCEPT ![c] = [content |-> Absent, stamp |-> file.stamp]]
    /\ pc' = [pc EXCEPT ![c] = IF file = Missing THEN "decide" ELSE "stat"]
    /\ result' = [result EXCEPT ![c] = "ok"]
    /\ touched' = [touched EXCEPT ![c] = FALSE]
    /\ UNCHANGED <<disk, managerVars, reported, failures>>

StatFails(c) ==
    /\ pc[c] \in {"idle", "returned"}
    /\ reloadMu = None
    /\ ReadFails("stat")
    /\ Return(c, "error")
    /\ touched' = [touched EXCEPT ![c] = FALSE]
    /\ UNCHANGED <<disk, managerVars, reported>>

\* os.ReadFile and the hash.
Hash(c) ==
    /\ pc[c] = "stat"
    /\ file # Missing
    /\ sig' = [sig EXCEPT ![c] = [content |-> file.content, stamp |-> @.stamp]]
    /\ pc' = [pc EXCEPT ![c] = "decide"]
    /\ UNCHANGED <<diskVars, reloadMu, managerVars, result, reported, failures>>

\* The file went away since Stat, or cannot be read.
HashFails(c) ==
    /\ pc[c] = "stat"
    /\ \/ file = Missing /\ UNCHANGED failures
       \/ ReadFails("hash")
    /\ Return(c, "error")
    /\ UNCHANGED <<diskVars, managerVars, reported>>

\* A plausible mistake: compare time stamps only.
SameStamp(s, t) == s # None /\ s.stamp = t.stamp

SameSignature(s, t) == s = t

Unchanged(c) ==
    /\ pc[c] = "decide"
    /\ SameSignature(signature, sig[c])
    /\ Return(c, "ok")
    /\ UNCHANGED <<diskVars, managerVars, reported, failures>>

\* Load reads the file again, whatever it is by now, and the result is
\* installed under the signature taken before.  The code compares again before
\* it installs; nobody else can have installed anything while it holds reloadMu.
Reload(c) ==
    /\ pc[c] = "decide"
    /\ ~SameSignature(signature, sig[c])
    /\ file.content \in Loadable
    /\ signature' = sig[c]
    /\ current' = file.content
    /\ crossed' = (file.content # sig[c].content)
    /\ Return(c, "ok")
    /\ UNCHANGED <<diskVars, reported, failures>>

\* A plausible mistake: forget the signature of a file that does not load.
ReloadFailsForgotten(c) ==
    /\ pc[c] = "decide"
    /\ ~SameSignature(signature, sig[c])
    /\ \/ file.content \notin Loadable /\ UNCHANGED failures
       \/ ReadFails("load")
    /\ reported' = (reported \/ ~touched[c])
    /\ Return(c, "error")
    /\ UNCHANGED <<diskVars, managerVars>>

\* Load returns an error: the signature is remembered all the same.
ReloadFails(c) ==
    /\ pc[c] = "decide"
    /\ ~SameSignature(signature, sig[c])
    /\ \/ file.content \notin Loadable /\ UNCHANGED failures
       \/ ReadFails("load")
    /\ signature' = sig[c]
    /\ crossed' = (file.content # sig[c].content)
    /\ reported' = (reported \/ ~touched[c])
    /\ Return(c, "error")
    /\ UNCHANGED <<diskVars, current>>

ReloadIfChanged(c) ==
    \/ Stat(c) \/ StatFails(c)
    \/ Hash(c) \/ HashFails(c)
    \/ Unchanged(c) \/ Reload(c) \/ ReloadFails(c)

Next == Save \/ Delete \/ Restore \/ \E c \in Callers : ReloadIfChanged(c)

\* The runner calls Reconcile, and Reconcile ReloadIfChanged, again and again.
Fairness == \A c \in Callers : WF_vars(ReloadIfChanged(c))

Spec == Init /\ [][Next]_vars /\ Fairness

-----------------------------------------------------------------------------
(* Properties.                                                             *)

TypeOK ==
    /\ file \in Version /\ now \in Nat
    /\ versions \subseteq Version
    /\ edits \in Nat /\ again \in BOOLEAN
    /\ reloadMu \in Callers \cup {None}
    /\ signature \in Version \cup {None}
    /\ current \in Loadable \cup {None}
    /\ crossed \in BOOLEAN
    /\ pc \in [Callers -> {"idle", "stat", "decide", "returned"}]
    /\ sig \in [Callers -> Version]
    /\ result \in [Callers -> {"ok", "error"}]
    /\ touched \in [Callers -> BOOLEAN]
    /\ reported \in BOOLEAN
    /\ failures \in Nat

(***************************************************************************)
(* "A valid change takes effect on the next pass" (README on hot reload):  *)
(* a call that returns without error, and during and since which nobody    *)
(* changed the file, leaves the file's configuration in force, if the file *)
(* is valid.                                                               *)
(***************************************************************************)
Effective(c) ==
    pc[c] = "returned" /\ result[c] = "ok" /\ ~touched[c] /\ file.content \in Loadable =>
        current = file.content

EditsTakeEffect == \A c \in Callers : Effective(c)

(***************************************************************************)
(* The signature remembered, that of a version which is back, was once     *)
(* taken by a call whose Load then read another one.                       *)
(***************************************************************************)
Mistaken == again /\ crossed

(***************************************************************************)
(* What the code keeps of that promise: however the changes fell between   *)
(* the reads of earlier calls, a change takes effect unless it brings back *)
(* a version that Load once mistook another for.  A mixture of two         *)
(* versions in one signature, and a stamp shared by two saves, do no harm. *)
(***************************************************************************)
TakesEffect == ~Mistaken => EditsTakeEffect

(***************************************************************************)
(* "An invalid edit is reported once" (README on hot reload): of the calls *)
(* during which nobody changed the file, one at most reports it, until it  *)
(* changes.                                                                *)
(***************************************************************************)
ReportedOnce ==
    [][\A c \in Callers :
          pc[c] = "decide" /\ result'[c] = "error" /\ ~touched[c] => ~reported]_vars

(***************************************************************************)
(* Whatever failed on the way, a file that is left alone is in the end the *)
(* configuration in force: its content if that is valid, the defaults if   *)
(* it was deleted.  Again a version is excepted that is mistaken.          *)
(***************************************************************************)
CatchesUp ==
    \A content \in Loadable :
        <>[](file.content = content /\ ~Mistaken) => <>[](current = content)

=============================================================================
