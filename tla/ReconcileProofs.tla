--------------------------- MODULE ReconcileProofs ---------------------------
(***************************************************************************)
(* Theorems about Reconcile for every set of tabs, labels, modes,          *)
(* templates, actions and failure bounds.                                  *)
(***************************************************************************)
EXTENDS Reconcile, TLAPS

(***************************************************************************)
(* A reconciler that is requesting a rename has a rename to request.       *)
(***************************************************************************)
JobOK ==
    \A p \in Reconcilers :
        pc[p] = "rename" => job[p] \in [tab : Tabs, label : Labels]

LEMMA EmptyIsLabel == Empty \in Labels
  BY DEF Labels

(***************************************************************************)
(* The source label of a tab is a label.                                   *)
(***************************************************************************)
LEMMA SourceLabelType ==
  ASSUME NEW h \in [Tabs -> Entry \cup {Unknown}], NEW t \in Tabs,
         NEW current \in Labels
  PROVE  SourceLabelFor(h, t, current) \in Labels
  BY ConstantsAssumption DEF SourceLabelFor, Entry

(***************************************************************************)
(* What ReachTab records is an entry or nothing.                           *)
(***************************************************************************)
LEMMA ObservedType ==
  ASSUME NEW h \in [Tabs -> Entry \cup {Unknown}], NEW t \in Tabs,
         NEW current \in Labels
  PROVE  ObserveSourceLabel(h, t, current) \in Entry \cup {Unknown}
  <1> DEFINE observed == SourceLabelFor(h, t, current)
  <1>1. observed \in Labels
    BY SourceLabelType
  <1>2. h[t] # Unknown => h[t].rendered \in Labels
    BY DEF Entry
  <1> HIDE DEF observed
  <1>3. [source   |-> observed,
         rendered |-> IF h[t] # Unknown THEN h[t].rendered ELSE Empty] \in Entry
    BY <1>1, <1>2, EmptyIsLabel DEF Entry
  <1> QED
    BY <1>3 DEF ObserveSourceLabel, observed

(***************************************************************************)
(* The tabs still to be visited, and the tab being renamed, are tabs of    *)
(* the pass's snapshot.                                                    *)
(***************************************************************************)
LoopOK ==
    \A p \in Reconcilers :
        /\ \A t \in todo[p] : snap[p][t] # Closed
        /\ pc[p] = "rename" => snap[p][job[p].tab] # Closed

TypeInv == TypeOK /\ JobOK /\ LoopOK

-----------------------------------------------------------------------------

LEMMA TypeInvInit == Init => TypeInv
  <1> SUFFICES ASSUME Init PROVE TypeInv
    OBVIOUS
  <1> USE ConstantsAssumption DEF Init
  <1>1. label \in [Tabs -> Labels \cup {Closed}]
    BY DEF Labels
  <1>2. given \in [Tabs -> SUBSET Labels]
    BY DEF Labels
  <1>3. TypeOK
    BY <1>1, <1>2 DEF TypeOK, NoHistory, NoTabs
  <1>4. JobOK /\ LoopOK
    BY DEF JobOK, LoopOK
  <1> QED
    BY <1>3, <1>4 DEF TypeInv

(***************************************************************************)
(* Ending a pass leaves well-typed idle state behind.                      *)
(***************************************************************************)
LEMMA EndPassTypes ==
  ASSUME TypeInv, NEW p \in Reconcilers, EndPass(p), UNCHANGED herdr,
         file' \in [Tabs -> Entry \cup {Unknown}], UNCHANGED <<edits, ghosts>>,
         faults' \in 0..MaxFaults
  PROVE  TypeInv'
  <1> USE DEF TypeInv, EndPass, herdr, ghosts
  <1>1. TypeOK'
    BY DEF TypeOK, NoHistory, NoTabs
  <1>2. JobOK'
    BY DEF TypeOK, JobOK
  <1>3. LoopOK'
    BY DEF TypeOK, LoopOK
  <1> QED
    BY <1>1, <1>2, <1>3

(***************************************************************************)
(* The failure budget is respected.                                        *)
(***************************************************************************)
LEMMA FaultTypes ==
  ASSUME TypeOK, NEW kind, Fault(kind)
  PROVE  faults' \in 0..MaxFaults
  BY ConstantsAssumption DEF TypeOK, Fault

LEMMA OutsideTypes ==
  ASSUME TypeInv, Outside
  PROVE  TypeInv'
  <1> USE DEF TypeInv
  <1>1. PICK t \in Tabs :
          \/ \E l \in Names : OpenTab(t, l) \/ UserRename(t, l)
          \/ CloseTab(t)
          \/ \E f \in Facts : RunProcess(t, f)
    BY DEF Outside
  <1>2. Edit /\ edits' \in 0..MaxEdits /\ UNCHANGED <<file, private, faults, wrote>>
    BY <1>1, ConstantsAssumption
    DEF OpenTab, UserRename, CloseTab, RunProcess, Edit, TypeOK
  <1> DEFINE HerdrTypes ==
        /\ label \in [Tabs -> Labels \cup {Closed}]
        /\ runs \in [Tabs -> Facts]
        /\ given \in [Tabs -> SUBSET Labels]
  <1>3. HerdrTypes'
    <2>1. ASSUME NEW l \in Names, OpenTab(t, l) \/ UserRename(t, l)
          PROVE  HerdrTypes'
      <3>1. GiveLabel(t, l) /\ UNCHANGED runs /\ l \in Labels
        BY <2>1 DEF OpenTab, UserRename, Labels
      <3>2. given[t] \cup {l} \in SUBSET Labels
        BY <3>1 DEF TypeOK
      <3>3. given' \in [Tabs -> SUBSET Labels]
        BY <3>1, <3>2 DEF GiveLabel, TypeOK
      <3> QED
        BY <3>1, <3>3 DEF GiveLabel, TypeOK
    <2>2. CASE CloseTab(t)
      BY <2>2, ConstantsAssumption DEF CloseTab, TypeOK
    <2>3. ASSUME NEW f \in Facts, RunProcess(t, f) PROVE HerdrTypes'
      BY <2>3 DEF RunProcess, TypeOK
    <2> QED
      BY <1>1, <2>1, <2>2, <2>3
  <1>4. TypeOK'
    BY <1>2, <1>3 DEF TypeOK, private
  <1>5. JobOK' /\ LoopOK'
    BY <1>2 DEF JobOK, LoopOK, private
  <1> QED
    BY <1>4, <1>5

LEMMA ReachTabTypes ==
  ASSUME TypeInv, NEW p \in Reconcilers, NEW t \in Tabs, ReachTab(p, t)
  PROVE  /\ todo' \in [Reconcilers -> SUBSET Tabs]
         /\ updates' \in [Reconcilers -> [Tabs -> Entry \cup {Unknown}]]
         /\ \A q \in Reconcilers : \A u \in todo'[q] : snap'[q][u] # Closed
         /\ snap'[p][t] # Closed
         /\ snap[p][t] \in Labels
  <1> USE DEF TypeInv
  <1>1. snap[p][t] \in Labels
    BY DEF ReachTab, TypeOK, LoopOK
  <1>2. ObserveSourceLabel(hist[p], t, snap[p][t]) \in Entry \cup {Unknown}
    BY <1>1, ObservedType DEF TypeOK
  <1> QED
    BY <1>1, <1>2 DEF ReachTab, TypeOK, LoopOK

(***************************************************************************)
(* Every step of every reconciler preserves TypeInv.                       *)
(***************************************************************************)
LEMMA PassTypes ==
  ASSUME TypeInv, NEW p \in Reconcilers,
         LoadHistory(p) \/ Proceed(p) \/ Fail(p)
  PROVE  TypeInv'
  <1> USE DEF TypeInv
  <1>1. CASE LoadHistory(p)
    <2>1. TypeOK'
      <3>1. edits' \in 0..MaxEdits
        BY <1>1, ConstantsAssumption DEF LoadHistory, Begin, TypeOK
      <3> QED
        BY <1>1, <3>1 DEF LoadHistory, TypeOK, herdr, ghosts
    <2>2. JobOK' /\ LoopOK'
      BY <1>1 DEF LoadHistory, TypeOK, JobOK, LoopOK
    <2> QED
      BY <2>1, <2>2
  <1>2. CASE TakeSnapshot(p)
    <2>1. TypeOK'
      BY <1>2 DEF TakeSnapshot, TypeOK, herdr, ghosts
    <2>2. JobOK'
      BY <1>2 DEF TakeSnapshot, TypeOK, JobOK
    <2>3. LoopOK'
      BY <1>2 DEF TakeSnapshot, TypeOK, LoopOK, Open
    <2> QED
      BY <2>1, <2>2, <2>3
  <1>3. ASSUME NEW t \in Tabs, LeaveTab(p, t) \/ ProcessInfoFails(p, t)
        PROVE  TypeInv'
    <2>1. ReachTab(p, t) /\ UNCHANGED <<pc, job>> /\ faults' \in 0..MaxFaults
      BY <1>3, FaultTypes DEF LeaveTab, ProcessInfoFails, TypeOK
    <2>2. TypeOK'
      BY <2>1, ReachTabTypes DEF ReachTab, TypeOK, herdr, ghosts
    <2>3. JobOK'
      BY <2>1 DEF JobOK
    <2>4. LoopOK'
      BY <2>1, ReachTabTypes DEF ReachTab, LoopOK
    <2> QED
      BY <2>2, <2>3, <2>4
  <1>4. ASSUME NEW t \in Tabs, RequestRename(p, t)
        PROVE  TypeInv'
    <2>1. ReachTab(p, t) /\ snap[p][t] \in Labels
      BY <1>4, ReachTabTypes DEF RequestRename
    <2>2. Desired(p, t) \in Labels
      <3>1. SourceLabelFor(hist[p], t, snap[p][t]) \in Labels
        BY <2>1, SourceLabelType DEF TypeOK
      <3>2. Desired(p, t) \in Labels \cup {Undisplayable}
        BY <3>1, ConstantsAssumption DEF Desired, TypeOK
      <3> QED
        BY <1>4, <3>2 DEF RequestRename, NeedsRename
    <2>3. job' = [job EXCEPT ![p] = [tab |-> t, label |-> Desired(p, t)]]
      BY <1>4 DEF RequestRename
    <2>4. job' \in [Reconcilers -> [tab : Tabs, label : Labels] \cup {NoJob}]
      BY <2>2, <2>3 DEF TypeOK
    <2>5. TypeOK'
      BY <1>4, <2>1, <2>4, ReachTabTypes
      DEF RequestRename, ReachTab, TypeOK, herdr, ghosts
    <2>6. JobOK'
      BY <1>4, <2>2, <2>3 DEF RequestRename, JobOK, TypeOK
    <2>7. LoopOK'
      BY <1>4, <2>1, <2>3, ReachTabTypes DEF RequestRename, ReachTab, LoopOK, TypeOK
    <2> QED
      BY <2>5, <2>6, <2>7
  <1>5. ASSUME RenameTab(p) \/ RenameRefused(p) \/ RenameReplyLost(p)
        PROVE  TypeInv'
    <2>1. job[p] \in [tab : Tabs, label : Labels] /\ snap[p][job[p].tab] \in Labels
      BY <1>5 DEF RenameTab, RenameRefused, RenameReplyLost, JobOK, LoopOK, TypeOK
    <2>2. WrittenEntry(p, job[p]) \in Entry
      BY <2>1, SourceLabelType DEF WrittenEntry, Entry, TypeOK
    <2>3. faults' \in 0..MaxFaults
      BY <1>5, FaultTypes DEF RenameTab, RenameRefused, RenameReplyLost, TypeOK
    <2>4. /\ label' \in [Tabs -> Labels \cup {Closed}]
          /\ wrote' \in [Tabs -> SUBSET Labels]
          /\ updates' \in [Reconcilers -> [Tabs -> Entry \cup {Unknown}]]
      <3>1. Apply(job[p]) \/ UNCHANGED <<label, wrote>>
        BY <1>5 DEF RenameTab, RenameRefused, RenameReplyLost
      <3>2. wrote[job[p].tab] \cup {job[p].label} \in SUBSET Labels
        BY <2>1 DEF TypeOK
      <3>3. wrote' \in [Tabs -> SUBSET Labels]
        BY <3>1, <3>2 DEF Apply, TypeOK
      <3>4. label' \in [Tabs -> Labels \cup {Closed}]
        BY <2>1, <3>1 DEF Apply, TypeOK
      <3>5. updates' \in [Reconcilers -> [Tabs -> Entry \cup {Unknown}]]
        <4> DEFINE e == WrittenEntry(p, job[p])
        <4>1. \/ UNCHANGED updates
              \/ updates' = [updates EXCEPT ![p][job[p].tab] = e]
          BY <1>5 DEF RenameTab, RenameRefused, RenameReplyLost
        <4>2. e \in Entry /\ job[p].tab \in Tabs
          BY <2>1, <2>2
        <4> DEFINE row == [updates[p] EXCEPT ![job[p].tab] = e]
        <4>3. updates[p] \in [Tabs -> Entry \cup {Unknown}]
          BY DEF TypeOK
        <4>4. row \in [Tabs -> Entry \cup {Unknown}]
          <5> HIDE DEF e
          <5> QED
            BY <4>2, <4>3
        <4>5. \/ UNCHANGED updates
              \/ updates' = [updates EXCEPT ![p] = row]
          BY <4>1
        <4> HIDE DEF row
        <4> QED
          BY <4>4, <4>5 DEF TypeOK
      <3> QED
        BY <3>3, <3>4, <3>5
    <2>5. ReturnToLoop(p)
      BY <1>5 DEF RenameTab, RenameRefused, RenameReplyLost
    <2>6. TypeOK'
      BY <2>3, <2>4, <2>5 DEF ReturnToLoop, TypeOK
    <2>7. JobOK' /\ LoopOK'
      BY <2>5 DEF ReturnToLoop, JobOK, LoopOK, TypeOK
    <2> QED
      BY <2>6, <2>7
  <1>6. CASE Commit(p)
    <2>1. Merged(p) \in [Tabs -> Entry \cup {Unknown}]
      BY DEF Merged, TypeOK
    <2> QED
      BY <1>6, <2>1, EndPassTypes DEF Commit, TypeOK
  <1>7. CASE TargetMissing(p)
    BY <1>7, EndPassTypes DEF TargetMissing, TypeOK
  <1>8. CASE SnapshotFails(p) \/ CommitFails(p) \/ Stop(p)
    BY <1>8, EndPassTypes, FaultTypes DEF SnapshotFails, CommitFails, Stop, TypeOK
  <1> QED
    BY <1>1, <1>2, <1>3, <1>4, <1>5, <1>6, <1>7, <1>8 DEF Proceed, Fail

(***************************************************************************)
(* Every variable keeps its type, a reconciler renames only a tab of its   *)
(* own snapshot, and it does so with a rename to request.                  *)
(***************************************************************************)
THEOREM TypeCorrect == Spec => []TypeInv
  <1>1. TypeInv /\ [Next]_vars => TypeInv'
    <2> SUFFICES ASSUME TypeInv, [Next]_vars PROVE TypeInv'
      OBVIOUS
    <2>1. CASE Next
      BY <2>1, OutsideTypes, PassTypes DEF Next
    <2>2. CASE UNCHANGED vars
      BY <2>2 DEF TypeInv, TypeOK, JobOK, LoopOK, vars, herdr, private, ghosts
    <2> QED
      BY <2>1, <2>2
  <1> QED
    BY TypeInvInit, <1>1, PTL DEF Spec

-----------------------------------------------------------------------------
(* History never claims what did not happen.                               *)

(***************************************************************************)
(* An entry is honest for a tab that was given the labels g from outside   *)
(* and the labels w by the plugin.                                         *)
(***************************************************************************)
HonestEntry(e, g, w) ==
    e # Unknown => /\ e.rendered \in w \cup {Empty}
                   /\ e.source \in g \cup w

(***************************************************************************)
(* The inductive form: every copy of the history, in the file or in a      *)
(* pass, is honest, and every snapshot shows labels the tab did carry.     *)
(***************************************************************************)
HonestInv ==
    /\ \A t \in Tabs :
          /\ label[t] \in given[t] \cup wrote[t] \cup {Closed}
          /\ HonestEntry(file[t], given[t], wrote[t])
    /\ \A p \in Reconcilers : \A t \in Tabs :
          /\ snap[p][t] \in given[t] \cup wrote[t] \cup {Closed}
          /\ HonestEntry(hist[p][t], given[t], wrote[t])
          /\ HonestEntry(updates[p][t], given[t], wrote[t])

LEMMA HonestImplies == HonestInv => RenderedWasWritten /\ SourceWasShown
  BY DEF HonestInv, HonestEntry, RenderedWasWritten, SourceWasShown

LEMMA HonestInit == Init => HonestInv
  BY DEF Init, HonestInv, HonestEntry, NoHistory, NoTabs

LEMMA HonestOutside ==
  ASSUME TypeInv, HonestInv, Outside
  PROVE  HonestInv'
  <1> USE DEF TypeInv, HonestInv, HonestEntry
  <1>1. PICK u \in Tabs :
          \/ \E l \in Names : OpenTab(u, l) \/ UserRename(u, l)
          \/ CloseTab(u)
          \/ \E f \in Facts : RunProcess(u, f)
    BY DEF Outside
  <1>2. UNCHANGED <<file, hist, snap, updates, wrote>>
    BY <1>1 DEF OpenTab, UserRename, CloseTab, RunProcess, Edit, private
  <1>3. \A t \in Tabs :
          /\ given[t] \subseteq given'[t]
          /\ label'[t] \in given'[t] \cup wrote[t] \cup {Closed}
    <2>1. ASSUME NEW l \in Names, OpenTab(u, l) \/ UserRename(u, l), NEW t \in Tabs
          PROVE  /\ given[t] \subseteq given'[t]
                 /\ label'[t] \in given'[t] \cup wrote[t] \cup {Closed}
      <3>1. GiveLabel(u, l)
        BY <2>1 DEF OpenTab, UserRename
      <3>2. /\ given'[t] = IF t = u THEN given[t] \cup {l} ELSE given[t]
            /\ label'[t] = IF t = u THEN l ELSE label[t]
        BY <3>1 DEF GiveLabel, TypeOK
      <3> QED
        BY <3>2
    <2>2. CASE CloseTab(u)
      BY <2>2 DEF CloseTab, TypeOK
    <2>3. CASE \E f \in Facts : RunProcess(u, f)
      BY <2>3 DEF RunProcess
    <2> QED
      BY <1>1, <2>1, <2>2, <2>3
  <1> QED
    BY <1>2, <1>3

LEMMA HonestEndPass ==
  ASSUME TypeInv, HonestInv, NEW p \in Reconcilers, EndPass(p),
         UNCHANGED <<label, ghosts>>,
         \A t \in Tabs : HonestEntry(file'[t], given[t], wrote[t])
  PROVE  HonestInv'
  BY DEF TypeInv, TypeOK, HonestInv, HonestEntry, EndPass, NoHistory, NoTabs, ghosts

LEMMA HonestReachTab ==
  ASSUME TypeInv, HonestInv, NEW p \in Reconcilers, NEW u \in Tabs, ReachTab(p, u)
  PROVE  HonestInv'
  <1> USE DEF TypeInv, HonestInv, HonestEntry
  <1>1. SourceLabelFor(hist[p], u, snap[p][u]) \in given[u] \cup wrote[u]
    BY DEF SourceLabelFor, ReachTab, LoopOK
  <1>2. HonestEntry(ObserveSourceLabel(hist[p], u, snap[p][u]), given[u], wrote[u])
    BY <1>1 DEF ObserveSourceLabel
  <1> QED
    BY <1>2 DEF ReachTab, TypeOK, herdr, ghosts

LEMMA HonestPass ==
  ASSUME TypeInv, HonestInv, NEW p \in Reconcilers,
         LoadHistory(p) \/ Proceed(p) \/ Fail(p)
  PROVE  HonestInv'
  <1> USE DEF TypeInv
  <1>1. CASE LoadHistory(p)
    BY <1>1 DEF HonestInv, LoadHistory, TypeOK, herdr, ghosts
  <1>2. CASE TakeSnapshot(p)
    BY <1>2 DEF HonestInv, TakeSnapshot, TypeOK, herdr, ghosts
  <1>3. ASSUME NEW t \in Tabs,
               LeaveTab(p, t) \/ RequestRename(p, t) \/ ProcessInfoFails(p, t)
        PROVE  HonestInv'
    BY <1>3, HonestReachTab DEF LeaveTab, RequestRename, ProcessInfoFails
  <1>4. CASE RenameTab(p) \/ RenameReplyLost(p)
    <2> DEFINE u == job[p].tab
    <2>1. /\ u \in Tabs
          /\ snap[p][u] # Closed
          /\ Apply(job[p])
          /\ ReturnToLoop(p)
      BY <1>4 DEF RenameTab, RenameReplyLost, JobOK, LoopOK
    <2>2. \A t \in Tabs :
            /\ wrote[t] \subseteq wrote'[t]
            /\ label'[t] \in given[t] \cup wrote'[t] \cup {Closed}
      BY <2>1 DEF Apply, HonestInv, TypeOK
    <2>3. job[p].label \in wrote'[u]
      BY <2>1 DEF Apply, TypeOK
    <2>4. SourceLabelFor(hist[p], u, snap[p][u]) \in given[u] \cup wrote[u]
      BY <2>1 DEF SourceLabelFor, HonestInv, HonestEntry
    <2>5. HonestEntry(WrittenEntry(p, job[p]), given[u], wrote'[u])
      BY <2>1, <2>2, <2>3, <2>4 DEF HonestEntry, WrittenEntry
    <2>6. \A q \in Reconcilers : \A t \in Tabs :
            \/ updates'[q][t] = updates[q][t]
            \/ t = u /\ updates'[q][t] = WrittenEntry(p, job[p])
      <3>1. CASE RenameTab(p)
        BY <2>1, <3>1 DEF RenameTab, TypeOK
      <3>2. CASE RenameReplyLost(p)
        BY <3>2 DEF RenameReplyLost
      <3> QED
        BY <1>4, <3>1, <3>2
    <2> HIDE DEF u
    <2>7. ASSUME NEW q \in Reconcilers, NEW t \in Tabs
          PROVE  HonestEntry(updates'[q][t], given[t], wrote'[t])
      BY <2>2, <2>5, <2>6 DEF HonestInv, HonestEntry
    <2> QED
      BY <2>1, <2>2, <2>7 DEF ReturnToLoop, HonestInv, HonestEntry
  <1>5. CASE RenameRefused(p)
    BY <1>5 DEF RenameRefused, ReturnToLoop, HonestInv
  <1>6. CASE Commit(p)
    <2>1. \A t \in Tabs : HonestEntry(file'[t], given[t], wrote[t])
      BY <1>6 DEF Commit, Merged, HonestInv, HonestEntry
    <2> QED
      BY <1>6, <2>1, HonestEndPass DEF Commit, herdr
  <1>7. CASE TargetMissing(p) \/ SnapshotFails(p) \/ CommitFails(p) \/ Stop(p)
    <2>1. EndPass(p) /\ UNCHANGED <<label, file, ghosts>>
      BY <1>7 DEF TargetMissing, SnapshotFails, CommitFails, Stop, herdr
    <2> QED
      BY <2>1, HonestEndPass DEF HonestInv
  <1> QED
    BY <1>1, <1>2, <1>3, <1>4, <1>5, <1>6, <1>7 DEF Proceed, Fail

LEMMA HonestStep ==
  ASSUME TypeInv, HonestInv, [Next]_vars
  PROVE  HonestInv'
  <1>1. CASE Next
    BY <1>1, HonestOutside, HonestPass DEF Next
  <1>2. CASE UNCHANGED vars
    BY <1>2 DEF HonestInv, vars, herdr, private, ghosts
  <1> QED
    BY <1>1, <1>2

(***************************************************************************)
(* Whatever fails, and however many passes share the file: a rendered      *)
(* label in the history was written by the plugin.                         *)
(***************************************************************************)
THEOREM RenderedHonest == Spec => []RenderedWasWritten
  <1> QED
    BY HonestInit, HonestStep, HonestImplies, TypeCorrect, PTL DEF Spec

(***************************************************************************)
(* Under the same faults, a source label in the history was shown by its   *)
(* tab.                                                                    *)
(***************************************************************************)
THEOREM SourcesHonest == Spec => []SourceWasShown
  <1> QED
    BY HonestInit, HonestStep, HonestImplies, TypeCorrect, PTL DEF Spec

-----------------------------------------------------------------------------
(* One reconciler that loses no rename never takes its own label for the   *)
(* user's.                                                                 *)

(***************************************************************************)
(* No rename-current process runs, and every rename Herdr applies reaches  *)
(* the state file: no reply is lost, no pass is stopped, the file can be   *)
(* written.  ReconcileConcurrent.cfg shows that the theorem needs the      *)
(* first half; one stop between a rename and its commit is enough to show  *)
(* that it needs the second.                                               *)
(***************************************************************************)
Solo ==
    /\ Actions = {}
    /\ FaultKinds \subseteq {"read", "refuse"}

GivenSource(e, g) == e # Unknown => e.source \in g

(***************************************************************************)
(* Label l is one the tab was given, or entry e recognises it as written   *)
(* by the plugin.                                                          *)
(***************************************************************************)
Recognised(l, e, g) == l \in g \cup {Closed} \/ (e # Unknown /\ e.rendered = l)

\* The entry of t once the daemon's pass has committed.
Pending(t) == IF updates[Daemon][t] # Unknown THEN updates[Daemon][t] ELSE file[t]

InLoop == pc[Daemon] \in {"tabs", "rename"}

SourcesGiven ==
    \A t \in Tabs :
        /\ GivenSource(file[t], given[t])
        /\ GivenSource(updates[Daemon][t], given[t])

LabelsRecognised ==
    \A t \in Tabs : Recognised(label[t], Pending(t), given[t])

(***************************************************************************)
(* While a pass is in its loop nothing but its own updates has happened to *)
(* the history, tabs it does not know of still carry what they were given, *)
(* and the source it holds for each of its tabs was given.                 *)
(***************************************************************************)
PassSound ==
    /\ pc[Daemon] # "idle" => hist[Daemon] = file
    /\ ~InLoop => updates[Daemon] = NoHistory
    /\ \A t \in todo[Daemon] : updates[Daemon][t] = Unknown
    /\ pc[Daemon] = "rename" => job[Daemon].tab \notin todo[Daemon]
    /\ InLoop => \A t \in Tabs :
          IF snap[Daemon][t] = Closed
          THEN /\ label[t] \in given[t] \cup {Closed}
               /\ t \notin todo[Daemon]
          ELSE SourceLabelFor(file, t, snap[Daemon][t]) \in given[t]

SoloInv == SourcesGiven /\ LabelsRecognised /\ PassSound

LEMMA SoloImplies == SoloInv => SourceNeverOwn
  BY DEF SoloInv, SourcesGiven, GivenSource, SourceNeverOwn

LEMMA SoloInit == Init => SoloInv
  BY DEF Init, SoloInv, SourcesGiven, GivenSource, LabelsRecognised, Recognised,
         Pending, PassSound, InLoop, NoHistory, NoTabs, Reconcilers

LEMMA SoloOutside ==
  ASSUME TypeInv, SoloInv, Outside
  PROVE  SoloInv'
  <1> USE DEF TypeInv, SoloInv
  <1>1. PICK u \in Tabs :
          \/ \E l \in Names : OpenTab(u, l) \/ UserRename(u, l)
          \/ CloseTab(u)
          \/ \E f \in Facts : RunProcess(u, f)
    BY DEF Outside
  <1>2. UNCHANGED <<file, private>>
    BY <1>1 DEF OpenTab, UserRename, CloseTab, RunProcess, Edit
  <1>3. \A t \in Tabs :
          /\ given[t] \subseteq given'[t]
          /\ label'[t] = label[t] \/ label'[t] \in given'[t] \cup {Closed}
    <2>1. ASSUME NEW l \in Names, OpenTab(u, l) \/ UserRename(u, l), NEW t \in Tabs
          PROVE  /\ given[t] \subseteq given'[t]
                 /\ label'[t] = label[t] \/ label'[t] \in given'[t] \cup {Closed}
      BY <2>1 DEF OpenTab, UserRename, GiveLabel, TypeOK
    <2>2. CASE CloseTab(u) \/ \E f \in Facts : RunProcess(u, f)
      BY <2>2 DEF CloseTab, RunProcess, TypeOK
    <2> QED
      BY <1>1, <2>1, <2>2
  <1>4. SourcesGiven'
    BY <1>2, <1>3 DEF SourcesGiven, GivenSource, private
  <1>5. LabelsRecognised'
    BY <1>2, <1>3 DEF LabelsRecognised, Recognised, Pending, private
  <1>6. PassSound'
    BY <1>2, <1>3 DEF PassSound, InLoop, SourceLabelFor, private
  <1> QED
    BY <1>4, <1>5, <1>6

LEMMA SoloReachTab ==
  ASSUME TypeInv, SoloInv, NEW u \in Tabs, ReachTab(Daemon, u),
         pc'[Daemon] = "tabs" \/ (pc'[Daemon] = "rename" /\ job'[Daemon].tab = u)
  PROVE  SoloInv'
  <1> USE DEF TypeInv, SoloInv, herdr, ghosts
  <1> DEFINE observed == ObserveSourceLabel(hist[Daemon], u, snap[Daemon][u])
  <1>1. /\ Daemon \in Reconcilers
        /\ pc[Daemon] = "tabs"
        /\ hist[Daemon] = file
        /\ updates[Daemon][u] = Unknown
        /\ SourceLabelFor(file, u, snap[Daemon][u]) \in given[u]
    BY DEF ReachTab, PassSound, InLoop, LoopOK, Reconcilers
  <1>2. \A t \in Tabs :
          updates'[Daemon][t] = IF t = u THEN observed ELSE updates[Daemon][t]
    BY <1>1 DEF ReachTab, TypeOK
  <1>3. /\ GivenSource(observed, given[u])
        /\ observed # Unknown /\ file[u] # Unknown
             => observed.rendered = file[u].rendered
    BY <1>1 DEF ObserveSourceLabel, GivenSource
  <1> HIDE DEF observed
  <1>4. SourcesGiven'
    BY <1>2, <1>3 DEF ReachTab, SourcesGiven
  <1>5. LabelsRecognised'
    BY <1>1, <1>2, <1>3 DEF ReachTab, LabelsRecognised, Recognised, Pending
  <1>6. PassSound'
    BY <1>1, <1>2 DEF ReachTab, PassSound, InLoop, TypeOK
  <1> QED
    BY <1>4, <1>5, <1>6

LEMMA SoloRename ==
  ASSUME TypeInv, SoloInv, RenameTab(Daemon)
  PROVE  SoloInv'
  <1> USE DEF TypeInv, SoloInv
  <1> DEFINE u == job[Daemon].tab
  <1>1. /\ Daemon \in Reconcilers
        /\ u \in Tabs
        /\ snap[Daemon][u] # Closed
        /\ u \notin todo[Daemon]
        /\ hist[Daemon] = file
        /\ SourceLabelFor(file, u, snap[Daemon][u]) \in given[u]
    BY DEF RenameTab, JobOK, LoopOK, PassSound, InLoop, Reconcilers
  <1>2. /\ updates' = [updates EXCEPT ![Daemon][u] = WrittenEntry(Daemon, job[Daemon])]
        /\ label' = [label EXCEPT ![u] = job[Daemon].label]
        /\ pc' = [pc EXCEPT ![Daemon] = "tabs"]
        /\ UNCHANGED <<file, hist, snap, todo, given>>
    BY DEF RenameTab, Apply, ReturnToLoop
  <1> HIDE DEF u
  <1>3. \A t \in Tabs :
          /\ updates'[Daemon][t] = IF t = u THEN WrittenEntry(Daemon, job[Daemon])
                                            ELSE updates[Daemon][t]
          /\ label'[t] = IF t = u THEN job[Daemon].label ELSE label[t]
    BY <1>1, <1>2 DEF TypeOK
  <1>4. /\ WrittenEntry(Daemon, job[Daemon]).source \in given[u]
        /\ WrittenEntry(Daemon, job[Daemon]).rendered = job[Daemon].label
        /\ WrittenEntry(Daemon, job[Daemon]) # Unknown
    <2>1. WrittenEntry(Daemon, job[Daemon]) \in Entry
      <3>1. snap[Daemon][u] \in Labels
        BY <1>1 DEF TypeOK
      <3>2. SourceLabelFor(hist[Daemon], u, snap[Daemon][u]) \in Labels
        BY <1>1, <3>1, SourceLabelType DEF TypeOK
      <3> QED
        BY <1>1, <3>2 DEF WrittenEntry, Entry, JobOK, RenameTab, u
    <2> QED
      BY <1>1, <2>1, ConstantsAssumption DEF WrittenEntry, u
  <1>5. SourcesGiven'
    BY <1>2, <1>3, <1>4 DEF SourcesGiven, GivenSource
  <1>6. LabelsRecognised'
    BY <1>2, <1>3, <1>4 DEF LabelsRecognised, Recognised, Pending
  <1>7. PassSound'
    BY <1>1, <1>2, <1>3 DEF PassSound, InLoop, TypeOK, RenameTab
  <1> QED
    BY <1>5, <1>6, <1>7

LEMMA SoloPass ==
  ASSUME Solo, TypeInv, SoloInv,
         LoadHistory(Daemon) \/ Proceed(Daemon) \/ Fail(Daemon)
  PROVE  SoloInv'
  <1> USE DEF TypeInv, SoloInv
  <1>0. Daemon \in Reconcilers /\ Daemon \notin Actions
    BY ConstantsAssumption DEF Reconcilers
  <1>1. CASE LoadHistory(Daemon)
    BY <1>0, <1>1
    DEF LoadHistory, TypeOK, SourcesGiven, LabelsRecognised, Pending, PassSound,
        InLoop, herdr, ghosts
  <1>2. CASE TakeSnapshot(Daemon)
    <2>1. SourcesGiven' /\ LabelsRecognised'
      BY <1>2 DEF TakeSnapshot, SourcesGiven, LabelsRecognised, Pending, herdr, ghosts
    <2>2. /\ hist[Daemon] = file
          /\ updates[Daemon] = NoHistory
          /\ pc'[Daemon] = "tabs"
          /\ snap'[Daemon] = label
          /\ todo'[Daemon] = {t \in Tabs : label[t] # Closed}
          /\ UNCHANGED <<file, hist, label, given, updates>>
      BY <1>0, <1>2
      DEF TakeSnapshot, TypeOK, PassSound, InLoop, Open, herdr, ghosts
    <2>3. ASSUME NEW t \in Tabs, label[t] # Closed
          PROVE  SourceLabelFor(file, t, label[t]) \in given[t]
      BY <2>2, <2>3
      DEF SourceLabelFor, LabelsRecognised, Recognised, Pending, NoHistory,
          SourcesGiven, GivenSource
    <2>4. PassSound'
      BY <2>2, <2>3 DEF PassSound, InLoop, NoHistory
    <2> QED
      BY <2>1, <2>4
  <1>3. ASSUME NEW t \in Tabs,
               \/ LeaveTab(Daemon, t)
               \/ RequestRename(Daemon, t)
               \/ ProcessInfoFails(Daemon, t)
        PROVE  SoloInv'
    <2>1. /\ ReachTab(Daemon, t)
          /\ \/ pc'[Daemon] = "tabs"
             \/ pc'[Daemon] = "rename" /\ job'[Daemon].tab = t
      BY <1>0, <1>3
      DEF LeaveTab, RequestRename, ProcessInfoFails, ReachTab, TypeOK
    <2> QED
      BY <2>1, SoloReachTab
  <1>4. CASE RenameTab(Daemon)
    BY <1>4, SoloRename
  <1>5. CASE RenameRefused(Daemon)
    <2>1. UNCHANGED <<label, file, hist, snap, todo, updates, given>>
      BY <1>5 DEF RenameRefused, ReturnToLoop
    <2>2. pc[Daemon] = "rename" /\ pc'[Daemon] = "tabs"
      BY <1>0, <1>5 DEF RenameRefused, ReturnToLoop, TypeOK
    <2> QED
      BY <2>1, <2>2 DEF SourcesGiven, LabelsRecognised, Pending, PassSound, InLoop
  <1>6. CASE Commit(Daemon)
    <2>1. /\ pc[Daemon] = "tabs"
          /\ file' = Merged(Daemon)
          /\ updates'[Daemon] = NoHistory
          /\ pc'[Daemon] = "idle"
          /\ todo'[Daemon] = {}
          /\ UNCHANGED <<label, given>>
      BY <1>0, <1>6 DEF Commit, AtEndOfLoop, EndPass, TypeOK, herdr, ghosts
    <2>2. \A t \in Tabs :
            file'[t] = IF snap[Daemon][t] = Closed THEN Unknown ELSE Pending(t)
      BY <2>1 DEF Merged, Pending
    <2>3. SourcesGiven'
      BY <2>1, <2>2 DEF SourcesGiven, GivenSource, Pending, NoHistory
    <2>4. LabelsRecognised'
      <3> SUFFICES ASSUME NEW t \in Tabs
                   PROVE  Recognised(label[t], file'[t], given[t])
        BY <2>1 DEF LabelsRecognised, Recognised, Pending, NoHistory
      <3>1. CASE snap[Daemon][t] = Closed
        BY <2>1, <3>1 DEF PassSound, InLoop, Recognised
      <3>2. CASE snap[Daemon][t] # Closed
        BY <2>2, <3>2 DEF LabelsRecognised
      <3> QED
        BY <3>1, <3>2
    <2>5. PassSound'
      BY <2>1 DEF PassSound, InLoop
    <2> QED
      BY <2>3, <2>4, <2>5
  <1>7. CASE SnapshotFails(Daemon)
    <2>1. /\ updates[Daemon] = NoHistory
          /\ updates'[Daemon] = NoHistory
          /\ pc'[Daemon] = "idle"
          /\ todo'[Daemon] = {}
          /\ UNCHANGED <<label, file, given>>
      BY <1>0, <1>7
      DEF SnapshotFails, EndPass, TypeOK, PassSound, InLoop, herdr, ghosts
    <2> QED
      BY <2>1 DEF SourcesGiven, LabelsRecognised, Pending, PassSound, InLoop
  <1>8. ~TargetMissing(Daemon)
    BY <1>0 DEF TargetMissing, TargetPresent
  <1>9. ~RenameReplyLost(Daemon) /\ ~CommitFails(Daemon) /\ ~Stop(Daemon)
    BY DEF Solo, RenameReplyLost, CommitFails, Stop, Fault
  <1> QED
    BY <1>1, <1>2, <1>3, <1>4, <1>5, <1>6, <1>7, <1>8, <1>9 DEF Proceed, Fail

(***************************************************************************)
(* The daemon alone, losing no rename, never records a label that only the *)
(* plugin wrote as a tab's source label, however the user opens, renames   *)
(* and closes tabs between its steps.                                      *)
(***************************************************************************)
THEOREM SoloSourceNeverOwn ==
  ASSUME Solo
  PROVE  Spec => []SourceNeverOwn
  <1>1. TypeInv /\ SoloInv /\ [Next]_vars => SoloInv'
    <2> SUFFICES ASSUME TypeInv, SoloInv, [Next]_vars PROVE SoloInv'
      OBVIOUS
    <2>1. CASE Outside
      BY <2>1, SoloOutside
    <2>2. ASSUME NEW p \in Reconcilers, LoadHistory(p) \/ Proceed(p) \/ Fail(p)
          PROVE  SoloInv'
      BY <2>2, SoloPass DEF Solo, Reconcilers
    <2>3. CASE UNCHANGED vars
      BY <2>3
      DEF SoloInv, SourcesGiven, LabelsRecognised, Pending, PassSound, InLoop,
          vars, herdr, private, ghosts
    <2> QED
      BY <2>1, <2>2, <2>3 DEF Next
  <1> QED
    BY SoloInit, SoloImplies, TypeCorrect, <1>1, PTL DEF Spec


-----------------------------------------------------------------------------
(* Nobody writes a tab that is the user's.                                 *)

RenamesAllowed == \A p \in Reconcilers : pc[p] = "rename" => MayWrite(job[p].tab)

AllowedInv == RenamesAllowed /\ UntouchedUnlessEligible

(***************************************************************************)
(* A pass requests a rename only for a tab whose mode allows it for the    *)
(* trigger of that pass (eligible in controller.go).                       *)
(***************************************************************************)
LEMMA RequestAllowed ==
  ASSUME TypeInv, NEW p \in Reconcilers, NEW t \in Tabs, RequestRename(p, t)
  PROVE  MayWrite(t)
  <1>1. runs[t] \in Facts
    BY DEF TypeInv, TypeOK
  <1>2. CASE Mode[t][runs[t]] = "auto"
    BY <1>1, <1>2 DEF MayWrite
  <1>3. CASE Mode[t][runs[t]] = "keybind" /\ p \in Actions
    <2>1. Target[p] = t
      BY <1>3 DEF RequestRename, WorthQuerying, Considered
    <2> QED
      BY <1>1, <1>3, <2>1 DEF MayWrite
  <1> QED
    BY <1>2, <1>3 DEF RequestRename, NeedsRename, Eligible

LEMMA AllowedPass ==
  ASSUME TypeInv, AllowedInv, NEW p \in Reconcilers,
         LoadHistory(p) \/ Proceed(p) \/ Fail(p)
  PROVE  AllowedInv'
  <1> USE DEF AllowedInv, RenamesAllowed, UntouchedUnlessEligible
  <1>1. pc \in [Reconcilers -> {"idle", "snapshot", "tabs", "rename"}]
        /\ DOMAIN job = Reconcilers /\ DOMAIN wrote = Tabs
    BY DEF TypeInv, TypeOK
  <1>2. MayWrite(job[p].tab)' <=> MayWrite(job'[p].tab)
    BY DEF MayWrite
  <1>3. \A t \in Tabs : MayWrite(t)' <=> MayWrite(t)
    BY DEF MayWrite
  <1>4. CASE LoadHistory(p) \/ TakeSnapshot(p)
    BY <1>1, <1>4 DEF LoadHistory, TakeSnapshot, MayWrite, ghosts
  <1>5. CASE \E t \in Tabs : LeaveTab(p, t) \/ ProcessInfoFails(p, t)
    BY <1>1, <1>5 DEF LeaveTab, ProcessInfoFails, ReachTab, MayWrite, ghosts
  <1>6. CASE \E t \in Tabs : RequestRename(p, t)
    <2>1. PICK t \in Tabs : RequestRename(p, t)
      BY <1>6
    <2>2. MayWrite(t)
      BY <2>1, RequestAllowed
    <2>3. job'[p].tab = t /\ wrote' = wrote
      BY <1>1, <2>1 DEF RequestRename, ReachTab, ghosts
    <2>4. \A q \in Reconcilers : q # p => pc'[q] = pc[q] /\ job'[q] = job[q]
      BY <1>1, <2>1 DEF RequestRename
    <2> QED
      BY <1>1, <2>2, <2>3, <2>4 DEF MayWrite
  <1>7. CASE RenameTab(p) \/ RenameReplyLost(p)
    <2>1. pc[p] = "rename" /\ MayWrite(job[p].tab)
      BY <1>7 DEF RenameTab, RenameReplyLost
    <2>2. \A t \in Tabs : t # job[p].tab => wrote'[t] = wrote[t]
      BY <1>1, <1>7 DEF RenameTab, RenameReplyLost, Apply
    <2>3. \A q \in Reconcilers : pc'[q] = "rename" => pc[q] = "rename" /\ job'[q] = job[q]
      BY <1>1, <1>7 DEF RenameTab, RenameReplyLost, ReturnToLoop
    <2> QED
      BY <2>1, <2>2, <2>3 DEF MayWrite
  <1>8. CASE RenameRefused(p)
    BY <1>1, <1>8 DEF RenameRefused, ReturnToLoop, MayWrite
  <1>9. CASE Commit(p) \/ TargetMissing(p) \/ SnapshotFails(p) \/ CommitFails(p) \/ Stop(p)
    BY <1>1, <1>9 DEF Commit, TargetMissing, SnapshotFails, CommitFails, Stop, EndPass,
                      MayWrite, ghosts
  <1> QED
    BY <1>4, <1>5, <1>6, <1>7, <1>8, <1>9 DEF Proceed, Fail

(***************************************************************************)
(* A tab whose mode is off, or keybind with no action that targets it, is  *)
(* never written, by whatever processes and through whatever failures      *)
(* (README, Modes).                                                        *)
(***************************************************************************)
THEOREM UsersTabsUntouched == Spec => []UntouchedUnlessEligible
  <1>1. Init => AllowedInv
    BY DEF Init, AllowedInv, RenamesAllowed, UntouchedUnlessEligible
  <1>2. TypeInv /\ AllowedInv /\ [Next]_vars => AllowedInv'
    <2> SUFFICES ASSUME TypeInv, AllowedInv, [Next]_vars PROVE AllowedInv'
      OBVIOUS
    <2>1. CASE Outside
      BY <2>1 DEF Outside, OpenTab, UserRename, CloseTab, RunProcess, Edit, private,
                  AllowedInv, RenamesAllowed, UntouchedUnlessEligible, MayWrite
    <2>2. ASSUME NEW p \in Reconcilers, LoadHistory(p) \/ Proceed(p) \/ Fail(p)
          PROVE  AllowedInv'
      BY <2>2, AllowedPass
    <2>3. CASE UNCHANGED vars
      BY <2>3 DEF AllowedInv, RenamesAllowed, UntouchedUnlessEligible, MayWrite,
                  vars, private, ghosts
    <2> QED
      BY <2>1, <2>2, <2>3 DEF Next
  <1> QED
    BY <1>1, <1>2, TypeCorrect, PTL DEF Spec, AllowedInv

=============================================================================
