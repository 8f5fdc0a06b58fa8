------------------------------ MODULE Reconcile ------------------------------
(***************************************************************************)
(* One reconciliation pass of the controller                               *)
(* (src/internal/controller/controller.go), run by the daemon over and     *)
(* over and by any number of `rename-current` processes beside it.  The    *)
(* passes share two things and no lock spans both: the label history in    *)
(* the state file, which Load and Update each lock only for their own      *)
(* duration, and the labels Herdr shows, which the user may also change    *)
(* at any moment.                                                          *)
(*                                                                         *)
(* Labels, and what a pane runs, are opaque values.  Profile resolution    *)
(* and rendering are the constant functions Mode and Render of what they   *)
(* read.                                                                   *)
(***************************************************************************)
EXTENDS Naturals

CONSTANTS
    Tabs,           \* tab ids
    Names,          \* the labels Herdr or the user may give a tab
    OwnLabels,      \* the labels templates may render
    Empty,          \* the empty string, Go's zero value of a label
    Undisplayable,  \* Render's answer when Execute returns an error
    Facts,          \* what the foreground of a pane may be
    NoProcess,      \* the fact "no foreground process is known"
    Mode,           \* Mode[t][f]: the mode Resolve gives t when it runs f
    Render,         \* Render[s][f]: the label for source label s and fact f
    Daemon,         \* the daemon's runner, which calls Reconcile(TriggerAuto)
    Actions,        \* rename-current processes: Reconcile(TriggerAction)
    Target,         \* Target[a]: the tab id resolved by action a
    Closed,         \* label of a tab that does not exist
    Unknown,        \* history of a tab that has no entry
    NoJob,          \* no rename is being requested
    FaultKinds,     \* the failures that may happen, a subset of AllFaults
    MaxFaults,      \* bound: at most so many failures
    MaxEdits        \* bound: at most so many things the user does

Modes == {"auto", "keybind", "off"}

Labels == Names \cup OwnLabels \cup {Empty}

(***************************************************************************)
(* "read": a snapshot or process query fails.  "refuse": Herdr refuses a   *)
(* rename it did not apply.  "lost": a rename is applied but its reply     *)
(* never arrives.  "stop": the pass ends between two steps because the     *)
(* process is killed or its context is cancelled.  "persist": the state    *)
(* file cannot be written.                                                 *)
(***************************************************************************)
AllFaults == {"read", "refuse", "lost", "stop", "persist"}

Reconcilers == {Daemon} \cup Actions

Entry == [source : Labels, rendered : Labels]

ASSUME ConstantsAssumption ==
    /\ NoProcess \in Facts
    /\ Mode \in [Tabs -> [Facts -> Modes]]
    /\ Render \in [Labels -> [Facts -> Labels \cup {Undisplayable}]]
    /\ Undisplayable \notin Labels
    /\ Closed \notin Labels
    /\ Unknown \notin Entry
    /\ Daemon \notin Actions
    /\ Target \in [Actions -> Tabs]
    /\ NoJob \notin [tab : Tabs, label : Labels]
    /\ FaultKinds \subseteq AllFaults
    /\ MaxFaults \in Nat
    /\ MaxEdits \in Nat

VARIABLES
    label,    \* the label Herdr shows for each tab
    runs,     \* the foreground of each tab's selected pane
    file,     \* the label history in the state file
    pc,       \* where each reconciler's pass has got to
    hist,     \* the history a pass loaded
    snap,     \* the labels in the snapshot a pass took
    todo,     \* the snapshot's tabs the loop has not reached
    updates,  \* the history entries a pass will merge
    job,      \* the rename a pass is requesting
    edits,    \* counts what the user did: changes outside the plugin, actions
    faults,   \* counts the failures
    given,    \* history variable: the labels a tab ever got from elsewhere
    wrote     \* history variable: the labels the plugin ever put on a tab

herdr   == <<label, runs>>
private == <<pc, hist, snap, todo, updates, job>>
ghosts  == <<given, wrote>>
vars    == <<herdr, file, private, edits, faults, ghosts>>

NoHistory == [t \in Tabs |-> Unknown]
NoTabs    == [t \in Tabs |-> Closed]

TypeOK ==
    /\ label \in [Tabs -> Labels \cup {Closed}]
    /\ runs \in [Tabs -> Facts]
    /\ file \in [Tabs -> Entry \cup {Unknown}]
    /\ pc \in [Reconcilers -> {"idle", "snapshot", "tabs", "rename"}]
    /\ hist \in [Reconcilers -> [Tabs -> Entry \cup {Unknown}]]
    /\ snap \in [Reconcilers -> [Tabs -> Labels \cup {Closed}]]
    /\ todo \in [Reconcilers -> SUBSET Tabs]
    /\ updates \in [Reconcilers -> [Tabs -> Entry \cup {Unknown}]]
    /\ job \in [Reconcilers -> [tab : Tabs, label : Labels] \cup {NoJob}]
    /\ edits \in 0..MaxEdits
    /\ faults \in 0..MaxFaults
    /\ given \in [Tabs -> SUBSET Labels]
    /\ wrote \in [Tabs -> SUBSET Labels]

Init ==
    /\ label \in [Tabs -> Names \cup {Closed}]
    /\ runs = [t \in Tabs |-> NoProcess]
    /\ file = NoHistory
    /\ pc = [p \in Reconcilers |-> "idle"]
    /\ hist = [p \in Reconcilers |-> NoHistory]
    /\ snap = [p \in Reconcilers |-> NoTabs]
    /\ todo = [p \in Reconcilers |-> {}]
    /\ updates = [p \in Reconcilers |-> NoHistory]
    /\ job = [p \in Reconcilers |-> NoJob]
    /\ edits = 0
    /\ faults = 0
    /\ given = [t \in Tabs |-> {label[t]} \ {Closed}]
    /\ wrote = [t \in Tabs |-> {}]

Open(t) == label[t] # Closed

Fault(kind) ==
    /\ kind \in FaultKinds
    /\ faults < MaxFaults
    /\ faults' = faults + 1

-----------------------------------------------------------------------------
(* What happens outside the plugin.                                        *)

Edit ==
    /\ edits < MaxEdits
    /\ edits' = edits + 1
    /\ UNCHANGED <<file, private, faults, wrote>>

GiveLabel(t, l) ==
    /\ label' = [label EXCEPT ![t] = l]
    /\ given' = [given EXCEPT ![t] = @ \cup {l}]

OpenTab(t, l) ==
    /\ ~Open(t)
    /\ GiveLabel(t, l)
    /\ Edit
    /\ UNCHANGED runs

UserRename(t, l) ==
    /\ Open(t)
    /\ label[t] # l
    /\ GiveLabel(t, l)
    /\ Edit
    /\ UNCHANGED runs

CloseTab(t) ==
    /\ Open(t)
    /\ label' = [label EXCEPT ![t] = Closed]
    /\ runs' = [runs EXCEPT ![t] = NoProcess]
    /\ Edit
    /\ UNCHANGED given

RunProcess(t, f) ==
    /\ Open(t)
    /\ runs[t] # f
    /\ runs' = [runs EXCEPT ![t] = f]
    /\ Edit
    /\ UNCHANGED <<label, given>>

Outside ==
    \E t \in Tabs :
        \/ \E l \in Names : OpenTab(t, l) \/ UserRename(t, l)
        \/ CloseTab(t)
        \/ \E f \in Facts : RunProcess(t, f)

-----------------------------------------------------------------------------
(* The controller's decisions about one tab.                               *)

\* A plausible mistake: take whatever Herdr shows for the source label.
CurrentLabelFor(h, t, current) == current

SourceLabelFor(h, t, current) ==
    IF h[t] # Unknown /\ current = h[t].rendered
    THEN h[t].source
    ELSE current

\* A plausible mistake: record a source label for known tabs only.
ObservedWhenKnown(h, t, current) ==
    IF h[t] # Unknown /\ h[t].source # SourceLabelFor(h, t, current)
    THEN [h[t] EXCEPT !.source = SourceLabelFor(h, t, current)]
    ELSE Unknown

(***************************************************************************)
(* The entry that records a source label changed outside the plugin, or    *)
(* Unknown when there is nothing to record.                                *)
(***************************************************************************)
ObserveSourceLabel(h, t, current) ==
    LET observed == SourceLabelFor(h, t, current)
        known    == h[t] # Unknown
    IN  IF (known /\ h[t].source = observed) \/ (~known /\ observed = Empty)
        THEN Unknown
        ELSE [source   |-> observed,
              rendered |-> IF known THEN h[t].rendered ELSE Empty]

\* A plausible mistake: forget that keybind mode waits for an action.
EligibleUnlessOff(mode, p) == mode # "off"

Eligible(mode, p) ==
    \/ mode = "auto"
    \/ mode = "keybind" /\ p \in Actions

Considered(p, t) == p \in Actions => t = Target[p]

Desired(p, t) == Render[SourceLabelFor(hist[p], t, snap[p][t])][runs[t]]

(***************************************************************************)
(* reconcileTab resolves twice: first without the process, so that an      *)
(* ineligible tab costs no process call, then with it.                     *)
(***************************************************************************)
WorthQuerying(p, t) == Considered(p, t) /\ Eligible(Mode[t][NoProcess], p)

\* A plausible mistake: skip a label because it was written last time.
NeedsRenameUnlessWritten(p, t) ==
    /\ Eligible(Mode[t][runs[t]], p)
    /\ Desired(p, t) # Undisplayable
    /\ hist[p][t] # Unknown => Desired(p, t) # hist[p][t].rendered

NeedsRename(p, t) ==
    /\ Eligible(Mode[t][runs[t]], p)
    /\ Desired(p, t) \notin {Undisplayable, snap[p][t]}

-----------------------------------------------------------------------------
(* One pass of reconciler p.                                               *)

EndPass(p) ==
    /\ pc' = [pc EXCEPT ![p] = "idle"]
    /\ hist' = [hist EXCEPT ![p] = NoHistory]
    /\ snap' = [snap EXCEPT ![p] = NoTabs]
    /\ todo' = [todo EXCEPT ![p] = {}]
    /\ updates' = [updates EXCEPT ![p] = NoHistory]
    /\ job' = [job EXCEPT ![p] = NoJob]

\* The runner begins the daemon's passes, the user those of an action.
Begin(p) ==
    \/ p = Daemon /\ UNCHANGED edits
    \/ p \in Actions /\ edits < MaxEdits /\ edits' = edits + 1

LoadHistory(p) ==
    /\ pc[p] = "idle"
    /\ Begin(p)
    /\ pc' = [pc EXCEPT ![p] = "snapshot"]
    /\ hist' = [hist EXCEPT ![p] = file]
    /\ UNCHANGED <<herdr, file, snap, todo, updates, job, faults, ghosts>>

TakeSnapshot(p) ==
    /\ pc[p] = "snapshot"
    /\ pc' = [pc EXCEPT ![p] = "tabs"]
    /\ snap' = [snap EXCEPT ![p] = label]
    /\ todo' = [todo EXCEPT ![p] = {t \in Tabs : Open(t)}]
    /\ UNCHANGED <<herdr, file, hist, updates, job, edits, faults, ghosts>>

SnapshotFails(p) ==
    /\ pc[p] = "snapshot"
    /\ Fault("read")
    /\ EndPass(p)
    /\ UNCHANGED <<herdr, file, edits, ghosts>>

(***************************************************************************)
(* The loop reaches tab t: its source label is observed whatever happens   *)
(* to the tab afterwards.                                                  *)
(***************************************************************************)
ReachTab(p, t) ==
    /\ pc[p] = "tabs"
    /\ t \in todo[p]
    /\ todo' = [todo EXCEPT ![p] = @ \ {t}]
    /\ updates' = [updates EXCEPT
                     ![p][t] = ObserveSourceLabel(hist[p], t, snap[p][t])]
    /\ UNCHANGED <<herdr, file, hist, snap, edits, ghosts>>

LeaveTab(p, t) ==
    /\ ReachTab(p, t)
    /\ \/ ~WorthQuerying(p, t)
       \/ Open(t) /\ ~NeedsRename(p, t)
    /\ UNCHANGED <<pc, job, faults>>

ProcessInfoFails(p, t) ==
    /\ ReachTab(p, t)
    /\ WorthQuerying(p, t)
    /\ \/ ~Open(t) /\ UNCHANGED faults
       \/ Open(t) /\ Fault("read")
    /\ UNCHANGED <<pc, job>>

RequestRename(p, t) ==
    /\ ReachTab(p, t)
    /\ WorthQuerying(p, t)
    /\ Open(t)
    /\ NeedsRename(p, t)
    /\ pc' = [pc EXCEPT ![p] = "rename"]
    /\ job' = [job EXCEPT ![p] = [tab |-> t, label |-> Desired(p, t)]]
    /\ UNCHANGED faults

ReturnToLoop(p) ==
    /\ pc' = [pc EXCEPT ![p] = "tabs"]
    /\ job' = [job EXCEPT ![p] = NoJob]
    /\ UNCHANGED <<runs, file, hist, snap, todo, edits, given>>

Apply(j) ==
    /\ Open(j.tab)
    /\ label' = [label EXCEPT ![j.tab] = j.label]
    /\ wrote' = [wrote EXCEPT ![j.tab] = @ \cup {j.label}]

\* A plausible mistake: keep the prior source label, "" if there is none.
EntryKeepsSource(p, j) ==
    [source   |-> IF hist[p][j.tab] = Unknown THEN Empty ELSE hist[p][j.tab].source,
     rendered |-> j.label]

WrittenEntry(p, j) ==
    [source   |-> SourceLabelFor(hist[p], j.tab, snap[p][j.tab]),
     rendered |-> j.label]

RenameTab(p) ==
    /\ pc[p] = "rename"
    /\ Apply(job[p])
    /\ updates' = [updates EXCEPT ![p][job[p].tab] = WrittenEntry(p, job[p])]
    /\ ReturnToLoop(p)
    /\ UNCHANGED faults

\* A plausible mistake: record the write before knowing that it happened.
RefusedButRecorded(p) ==
    /\ pc[p] = "rename"
    /\ \/ ~Open(job[p].tab) /\ UNCHANGED faults
       \/ Open(job[p].tab) /\ Fault("refuse")
    /\ updates' = [updates EXCEPT ![p][job[p].tab] = WrittenEntry(p, job[p])]
    /\ ReturnToLoop(p)
    /\ UNCHANGED <<label, wrote>>

RenameRefused(p) ==
    /\ pc[p] = "rename"
    /\ \/ ~Open(job[p].tab) /\ UNCHANGED faults
       \/ Open(job[p].tab) /\ Fault("refuse")
    /\ ReturnToLoop(p)
    /\ UNCHANGED <<label, wrote, updates>>

RenameReplyLost(p) ==
    /\ pc[p] = "rename"
    /\ Apply(job[p])
    /\ Fault("lost")
    /\ ReturnToLoop(p)
    /\ UNCHANGED updates

TargetPresent(p) == p \in Actions => snap[p][Target[p]] # Closed

(***************************************************************************)
(* The file after commit: the touched entries merged into what the file    *)
(* holds now, less the tabs the pass's snapshot did not list.              *)
(***************************************************************************)
Merged(p) ==
    [t \in Tabs |-> IF snap[p][t] = Closed THEN Unknown
                    ELSE IF updates[p][t] # Unknown THEN updates[p][t]
                    ELSE file[t]]

AtEndOfLoop(p) == pc[p] = "tabs" /\ todo[p] = {}

Commit(p) ==
    /\ AtEndOfLoop(p)
    /\ TargetPresent(p)
    /\ file' = Merged(p)
    /\ EndPass(p)
    /\ UNCHANGED <<herdr, edits, faults, ghosts>>

CommitFails(p) ==
    /\ AtEndOfLoop(p)
    /\ TargetPresent(p)
    /\ Fault("persist")
    /\ EndPass(p)
    /\ UNCHANGED <<herdr, file, edits, ghosts>>

TargetMissing(p) ==
    /\ AtEndOfLoop(p)
    /\ ~TargetPresent(p)
    /\ EndPass(p)
    /\ UNCHANGED <<herdr, file, edits, faults, ghosts>>

Stop(p) ==
    /\ pc[p] # "idle"
    /\ Fault("stop")
    /\ EndPass(p)
    /\ UNCHANGED <<herdr, file, edits, ghosts>>

-----------------------------------------------------------------------------

(* The steps of a pass that has begun, failures of the fault budget left   *)
(* out.                                                                    *)
Proceed(p) ==
    \/ TakeSnapshot(p)
    \/ \E t \in Tabs : LeaveTab(p, t) \/ RequestRename(p, t) \/ ProcessInfoFails(p, t)
    \/ RenameTab(p)
    \/ RenameRefused(p)
    \/ Commit(p)
    \/ TargetMissing(p)

Fail(p) ==
    \/ SnapshotFails(p)
    \/ RenameReplyLost(p)
    \/ CommitFails(p)
    \/ Stop(p)

Next ==
    \/ Outside
    \/ \E p \in Reconcilers : LoadHistory(p) \/ Proceed(p) \/ Fail(p)

(***************************************************************************)
(* The daemon calls Reconcile again and again (Runner says under which     *)
(* conditions).  No call to Herdr has a deadline, so Herdr is assumed to   *)
(* answer or to drop every call it accepts; then a pass, once begun, runs  *)
(* to its end.  Nothing makes the user start a rename-current process, and *)
(* nothing is assumed of failures.                                         *)
(***************************************************************************)
Fairness ==
    /\ WF_vars(LoadHistory(Daemon))
    /\ \A p \in Reconcilers : WF_vars(Proceed(p))

Spec == Init /\ [][Next]_vars /\ Fairness

-----------------------------------------------------------------------------
(* Properties.                                                             *)

(***************************************************************************)
(* A rendered label in the state file is one the plugin really put on that *)
(* tab: history never claims a write that did not happen, whatever fails   *)
(* (reconcileTab returns no entry unless RenameTab succeeded).             *)
(***************************************************************************)
RenderedWasWritten ==
    \A t \in Tabs : file[t] # Unknown =>
        file[t].rendered \in wrote[t] \cup {Empty}

(***************************************************************************)
(* A source label in the state file is one the tab really showed, although *)
(* it was merged by a pass that read file and labels at different moments. *)
(***************************************************************************)
SourceWasShown ==
    \A t \in Tabs : file[t] # Unknown =>
        file[t].source \in given[t] \cup wrote[t]

(***************************************************************************)
(* README: ".Tab.Label is the source label - the newest label this plugin  *)
(* did not write".  So no source label is one that only the plugin wrote.  *)
(***************************************************************************)
SourceNeverOwn ==
    \A t \in Tabs : file[t] # Unknown => file[t].source \in given[t]

(***************************************************************************)
(* The same promise in the long run: a source label taken from a label the *)
(* plugin wrote does not stay in the state file for ever.                  *)
(***************************************************************************)
SourceRecovers ==
    \A t \in Tabs : []<>(file[t] # Unknown => file[t].source \in given[t])

(***************************************************************************)
(* A tab that is never auto, and that no action targets, is never written: *)
(* the user's name for it stays (modes off and keybind).                   *)
(***************************************************************************)
MayWrite(t) ==
    \E f \in Facts :
        \/ Mode[t][f] = "auto"
        \/ Mode[t][f] = "keybind" /\ \E a \in Actions : Target[a] = t

UntouchedUnlessEligible ==
    \A t \in Tabs : ~MayWrite(t) => wrote[t] = {}

(***************************************************************************)
(* When the user leaves the tabs alone and starts no more actions, every   *)
(* auto tab ends up with the label its template yields for its recorded    *)
(* source and its process (README: "the plugin owns the label"), failures  *)
(* notwithstanding.  While actions go on, each may take the label the      *)
(* daemon just wrote for the source, and the daemon the action's: with a   *)
(* template that quotes its source there is then a new label every time.   *)
(***************************************************************************)
SourceOf(t) == SourceLabelFor(file, t, label[t])

Settled(t) ==
    Open(t) /\ Mode[t][runs[t]] = "auto" =>
        Render[SourceOf(t)][runs[t]] \in {label[t], Undisplayable}

Converges == \A t \in Tabs : <>[]Settled(t)

(***************************************************************************)
(* The history of a tab that stays closed is purged for good, and that of  *)
(* an open tab the plugin may not write records the name it carries        *)
(* (README on off: "It still observes manual renames").                    *)
(***************************************************************************)
HistoryCurrent(t) ==
    IF Open(t) THEN ~MayWrite(t) => file[t] # Unknown /\ file[t].source = label[t]
               ELSE file[t] = Unknown

HistoryCatchesUp == \A t \in Tabs : <>[]HistoryCurrent(t)

=============================================================================
