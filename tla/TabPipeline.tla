------------------------------ MODULE TabPipeline ------------------------------
(***************************************************************************)
(* The composition of collector, profiles and controller: from a changing  *)
(* Herdr session to the labels of its tabs, pass after pass.               *)
(*                                                                         *)
(* Reconcile models how passes interleave and fail, with the outcome of    *)
(* profiles and templates as constants; here is what they compute, for one *)
(* pass at a time.  A tab's process query and its rename are one step, and *)
(* templates show what they name: a rendered label is the record of the    *)
(* values shown.  Cutting it to its width is Rendering's subject.          *)
(***************************************************************************)
EXTENDS Profiles, FiniteSets, TLC

CONSTANTS
    Sessions,   \* snapshots the session may start as
    Sources,    \* decoded configuration files
    Icons,      \* Icons[status]: the configured icons, for the statuses that have one
    Names,      \* labels the user may give a tab
    Arrivals,   \* tabs that may be opened, each with its pane
    Agents,     \* agents Herdr may identify
    Infos,      \* foregrounds a pane may have
    MaxEdits,   \* bound: changes of the session
    MaxActions  \* bound: invocations of rename-current

ASSUME BoundsAssumption == MaxEdits \in Nat /\ MaxActions \in Nat

Unique(items) == \A i, j \in DOMAIN items : items[i].id = items[j].id => i = j

\* Herdr's snapshots: ids are unique, and every tab has a layout, if an empty one.
ASSUME SessionsAssumption ==
    \A s \in Sessions :
        /\ DOMAIN s = {"tabs", "panes", "layouts", "agents"}
        /\ s.tabs \in Seq(ToSet(s.tabs)) /\ Unique(s.tabs)
        /\ \A tab \in ToSet(s.tabs) :
              /\ DOMAIN tab = {"id", "workspace", "label"}
              /\ tab.id \in DOMAIN s.layouts /\ tab.label \in Names
        /\ s.panes \in Seq(ToSet(s.panes)) /\ Unique(s.panes)
        /\ \A pane \in ToSet(s.panes) : {"id", "tab"} \subseteq DOMAIN pane
        /\ \A tab \in DOMAIN s.layouts :
              /\ DOMAIN s.layouts[tab] = {"focused", "marked"}
              /\ s.layouts[tab].marked \in Seq(ToSet(s.layouts[tab].marked))

ASSUME ArrivalsAssumption ==
    \A arrival \in Arrivals :
        /\ DOMAIN arrival.tab = {"id", "workspace", "label"} /\ arrival.tab.label \in Names
        /\ {"id", "tab"} \subseteq DOMAIN arrival.pane

ASSUME NamesAssumption == Nothing \notin Names

ASSUME SourcesAssumption ==
    \A source \in Sources : source.profiles \in Seq(ToSet(source.profiles))

VARIABLES
    session,   \* what a snapshot would show now
    runs,      \* runs[p]: the foreground of pane p
    compiled,  \* the configuration in force
    history,   \* the state file: per tab, its entry or Nothing
    pc,        \* "idle", "snapshot", or "tabs" within a pass
    target,    \* the tab of a rename-current, Nothing in the daemon's passes
    hist,      \* the history the pass loaded
    contexts,  \* what Build made of the pass's snapshot
    reached,   \* the contexts the loop has reached
    updates,   \* per tab, the entry the pass will merge
    decision,  \* history variable: what the pass did with the last tab
    edits,     \* counts the changes of the session
    actions,   \* counts the invocations of rename-current
    seen,      \* history variable: seen[t]: of the labels of tab t that a snapshot
               \* has shown, the last that the plugin did not write
    quiet      \* history variable: nothing changed since the last whole pass of
               \* the daemon began; "pass" while the first such pass goes on

pass == <<pc, target, hist, contexts, reached, updates, decision>>
vars == <<session, runs, compiled, history, pass, edits, actions, seen, quiet>>

Tabs == {session.tabs[i].id : i \in DOMAIN session.tabs}
Panes == {session.panes[i].id : i \in DOMAIN session.panes}
TabIds == DOMAIN session.layouts

Index(tab) == CHOOSE i \in DOMAIN session.tabs : session.tabs[i].id = tab
LabelOf(tab) == session.tabs[Index(tab)].label

FirstInfo == CHOOSE info \in Infos : TRUE
NoEntries == [t \in TabIds |-> Nothing]

Init ==
    /\ session \in Sessions
    /\ runs = [pane \in Panes |-> FirstInfo]
    /\ \E source \in Sources : Accepted(source) /\ compiled = Compile(source)
    /\ history = NoEntries
    /\ pc = "idle"
    /\ target = Nothing
    /\ hist = NoEntries
    /\ contexts = <<>>
    /\ reached = 0
    /\ updates = NoEntries
    /\ decision = Nothing
    /\ edits = 0
    /\ actions = 0
    /\ seen = NoEntries
    /\ quiet = "no"

-----------------------------------------------------------------------------
(* What happens in Herdr.                                                  *)

Edit ==
    /\ edits < MaxEdits
    /\ edits' = edits + 1
    /\ quiet' = "no"
    /\ UNCHANGED <<compiled, history, pass, actions, seen>>

Change(part, value) ==
    /\ session[part] # value
    /\ session' = [session EXCEPT ![part] = value]
    /\ Edit
    /\ UNCHANGED runs

\* Two neighbours change places, tabs of one workspace or of two.
MoveTab(i) ==
    /\ i + 1 \in DOMAIN session.tabs
    /\ Change("tabs", [session.tabs EXCEPT ![i] = session.tabs[i + 1],
                                           ![i + 1] = session.tabs[i]])

\* The id may be that of a tab closed before.
OpenTab(arrival) ==
    /\ arrival.tab.id \in TabIds \ Tabs /\ arrival.pane.id \notin Panes
    /\ session' = [session EXCEPT !.tabs  = Append(@, arrival.tab),
                                  !.panes = Append(@, arrival.pane)]
    /\ runs' = (arrival.pane.id :> FirstInfo) @@ runs
    /\ Edit

CloseTab(i) ==
    /\ session' = [session EXCEPT
                     !.tabs  = RemoveAt(@, i),
                     !.panes = FoldLeft(LAMBDA kept, pane :
                                           IF pane.tab = session.tabs[i].id THEN kept
                                           ELSE Append(kept, pane),
                                        <<>>, @)]
    /\ Edit
    /\ UNCHANGED runs

UserRename(i, name) == Change("tabs", [session.tabs EXCEPT ![i].label = name])

\* The layout of the tab it leaves may name it still.
MovePane(i, tab) == Change("panes", [session.panes EXCEPT ![i].tab = tab])

FocusPane(tab, pane) == Change("layouts", [session.layouts EXCEPT ![tab].focused = pane])

IdentifyAgent(pane, agent) ==
    Change("agents", [p \in DOMAIN session.agents \cup {pane} |->
                         IF p = pane THEN agent ELSE session.agents[p]])

RunProcess(pane, info) ==
    /\ runs[pane] # info
    /\ runs' = [runs EXCEPT ![pane] = info]
    /\ Edit
    /\ UNCHANGED session

Herdr ==
    \/ \E i \in DOMAIN session.tabs :
          MoveTab(i) \/ CloseTab(i) \/ \E name \in Names : UserRename(i, name)
    \/ \E arrival \in Arrivals : OpenTab(arrival)
    \/ \E i \in DOMAIN session.panes, tab \in Tabs : MovePane(i, tab)
    \/ \E tab \in Tabs, pane \in Panes : FocusPane(tab, pane)
    \/ \E pane \in Panes :
          \/ \E agent \in Agents : IdentifyAgent(pane, agent)
          \/ \E info \in Infos : RunProcess(pane, info)

-----------------------------------------------------------------------------
(* Rendering: what a template can show.                                    *)

StatusIcon(status) == IF status \in DOMAIN Icons THEN Icons[status] ELSE status

Fields(context, profile) ==
    [number    |-> context.number,
     directory |-> Base[context.cwd],
     label     |-> context.label,
     leader    |-> context.leader,
     profile   |-> profile,
     agent     |-> Coalesce(context.agent.about.displayName, context.agent.about.kind)]
    @@ ("agent or process" :>
           IF context.agent.active
           THEN Coalesce(context.agent.about.displayName, context.agent.about.kind)
           ELSE context.process)
    @@ ("status of agent" :>
           IF context.agent.active THEN StatusIcon(context.agent.about.status)
           ELSE Nothing)

Execute(effective, context) ==
    [maxWidth |-> effective.maxWidth,
     text     |-> [field \in effective.template |->
                      Fields(context, effective.profileName)[field]]]

-----------------------------------------------------------------------------
(* One pass.                                                               *)

Trigger == IF target = Nothing THEN "auto" ELSE "action"

Eligible(mode) ==
    \/ mode = "auto"
    \/ mode = "keybind" /\ Trigger = "action"

Begin ==
    /\ pc = "idle"
    /\ pc' = "snapshot"
    /\ hist' = history
    /\ UNCHANGED <<session, runs, compiled, history, contexts, reached, updates,
                   decision, edits, seen>>

BeginAuto ==
    /\ Begin
    /\ target' = Nothing
    /\ quiet' = IF quiet = "yes" THEN "yes" ELSE "pass"
    /\ UNCHANGED actions

\* resolveTabID: HERDR_TAB_ID, the context JSON, or the tab in focus, which is
\* none for an action that is triggered globally.
ResolveTabID(tabID, contextJSON, focused) ==
    Coalesce(tabID, Coalesce(contextJSON, focused))

BeginAction ==
    /\ actions < MaxActions
    /\ actions' = actions + 1
    /\ Begin
    /\ \E tabID, contextJSON, focused \in Tabs \cup {Nothing} :
          target' = ResolveTabID(tabID, contextJSON, focused)
    /\ target' # Nothing
    /\ quiet' = "no"

TakeSnapshot ==
    /\ pc = "snapshot"
    /\ pc' = "tabs"
    /\ contexts' = Build(session, hist)
    /\ seen' = [t \in TabIds |-> IF t \in Tabs /\ LabelOf(t) \in Names THEN LabelOf(t)
                                 ELSE seen[t]]
    /\ UNCHANGED <<session, runs, compiled, history, target, hist, reached, updates,
                   decision, edits, actions, quiet>>

Reached == contexts[reached + 1]

\* A plausible mistake: resolve once, before the process is known.
DesiredFromFirst(context, info) ==
    IF Eligible(Resolve(compiled, context).mode)
    THEN Execute(Resolve(compiled, context), AttachProcess(context, info))
    ELSE Nothing

\* The label reconcileTab asks for once it knows the process, or Nothing.
Desired(context, info) ==
    LET known     == AttachProcess(context, info)
        effective == Resolve(compiled, known)
    IN  IF Eligible(effective.mode) THEN Execute(effective, known) ELSE Nothing

\* observeSourceLabel: the entry to record, or Nothing.
Observed(context) ==
    LET entry == hist[context.tab]
    IN  IF (entry = Nothing /\ context.label = Nothing)
           \/ (entry # Nothing /\ entry.source = context.label)
        THEN Nothing
        ELSE [source   |-> context.label,
              rendered |-> IF entry = Nothing THEN Nothing ELSE entry.rendered]

Reach(action, label, info) ==
    /\ pc = "tabs"
    /\ reached < Len(contexts)
    /\ reached' = reached + 1
    /\ decision' = [action |-> action, context |-> Reached, label |-> label, info |-> info]
    /\ UNCHANGED <<runs, compiled, history, pc, target, hist, contexts, edits, actions, seen>>

Considered == target # Nothing => Reached.tab = target

WorthQuerying == Considered /\ Eligible(Resolve(compiled, Reached).mode)

\* Not the target, or not eligible as far as is known: no process is asked for.
PassOver ==
    /\ Reach(IF Considered THEN "pass over" ELSE "ignore", Nothing, Nothing)
    /\ ~WorthQuerying
    /\ updates' = [updates EXCEPT ![Reached.tab] = Observed(Reached)]
    /\ UNCHANGED <<session, quiet>>

\* The pane went away with its tab.
ProcessInfoFails ==
    /\ Reach("fail", Nothing, Nothing)
    /\ WorthQuerying
    /\ Reached.pane \notin Panes \cup {Nothing}
    /\ updates' = [updates EXCEPT ![Reached.tab] = Observed(Reached)]
    /\ UNCHANGED <<session, quiet>>

\* A tab without panes has no process; AttachProcess is not called for it.
InfoOf(context) ==
    IF context.pane = Nothing THEN [foreground |-> <<>>, leader |-> Nothing]
    ELSE runs[context.pane]

LeaveLabel ==
    LET info == InfoOf(Reached)
    IN  /\ Reach("leave", Desired(Reached, info), info)
        /\ WorthQuerying
        /\ Reached.pane \in Panes \cup {Nothing}
        /\ Desired(Reached, info) \in {Nothing, Reached.currentLabel}
        /\ updates' = [updates EXCEPT ![Reached.tab] = Observed(Reached)]
        /\ UNCHANGED <<session, quiet>>

RenameTab ==
    LET info    == InfoOf(Reached)
        desired == Desired(Reached, info)
    IN  /\ Reach("rename", desired, info)
        /\ WorthQuerying
        /\ Reached.pane \in Panes \cup {Nothing}
        /\ desired \notin {Nothing, Reached.currentLabel}
        /\ Reached.tab \in Tabs
        /\ session' = [session EXCEPT !.tabs[Index(Reached.tab)].label = desired]
        /\ updates' = [updates EXCEPT
                         ![Reached.tab] = [source |-> Reached.label, rendered |-> desired]]
        /\ UNCHANGED quiet

\* The tab was closed; its pane is in another one, or it had none.
RenameRefused ==
    /\ Reach("fail", Nothing, Nothing)
    /\ WorthQuerying
    /\ Reached.pane \in Panes \cup {Nothing}
    /\ Desired(Reached, InfoOf(Reached)) \notin {Nothing, Reached.currentLabel}
    /\ Reached.tab \notin Tabs
    /\ updates' = [updates EXCEPT ![Reached.tab] = Observed(Reached)]
    /\ UNCHANGED <<session, quiet>>

Live == {contexts[i].tab : i \in DOMAIN contexts}

EndPass ==
    /\ pc = "tabs"
    /\ reached = Len(contexts)
    /\ pc' = "idle"
    /\ contexts' = <<>>
    /\ reached' = 0
    /\ hist' = NoEntries
    /\ updates' = NoEntries
    /\ decision' = Nothing
    /\ target' = Nothing
    /\ UNCHANGED <<session, runs, compiled, edits, actions, seen>>

Commit ==
    /\ target # Nothing => target \in Live
    /\ EndPass
    /\ history' = [t \in TabIds |-> IF t \notin Live THEN Nothing
                                    ELSE Coalesce(updates[t], history[t])]
    /\ quiet' = IF quiet = "pass" THEN "yes" ELSE quiet

TargetMissing ==
    /\ target # Nothing /\ target \notin Live
    /\ EndPass
    /\ UNCHANGED <<history, quiet>>

Next ==
    \/ Herdr
    \/ BeginAuto \/ BeginAction \/ TakeSnapshot
    \/ PassOver \/ ProcessInfoFails \/ LeaveLabel \/ RenameTab \/ RenameRefused
    \/ Commit \/ TargetMissing

Spec == Init /\ [][Next]_vars

-----------------------------------------------------------------------------
(* Properties.                                                             *)

\* What the README says the label of a tab is about, in words of its own.

Rank(pane, layout, i) ==
    IF pane.id = layout.focused THEN 0
    ELSE IF pane.id \in ToSet(layout.marked)
    THEN CHOOSE k \in DOMAIN layout.marked :
            /\ layout.marked[k] = pane.id
            /\ \A j \in 1..k - 1 : layout.marked[j] # pane.id
    ELSE Len(layout.marked) + i

PaneShown(snapshot, tab) ==
    LET indices == {i \in DOMAIN snapshot.panes : snapshot.panes[i].tab = tab}
        RankOf(i) == Rank(snapshot.panes[i], snapshot.layouts[tab], i)
    IN  IF indices = {} THEN NoPane
        ELSE snapshot.panes[CHOOSE i \in indices :
                              \A j \in indices : RankOf(i) <= RankOf(j)]

Running(pane) == InfoOf([pane |-> pane.id])

ContextNow(i) ==
    LET tab  == session.tabs[i]
        pane == PaneShown(session, tab.id)
    IN  [tab |-> tab.id, workspace |-> tab.workspace,
         number |-> Cardinality({j \in 1..i : session.tabs[j].workspace = tab.workspace}),
         label |-> seen[tab.id], currentLabel |-> tab.label,
         pane |-> pane.id,
         cwd |-> IF pane.foregroundCwd = Nothing THEN pane.cwd ELSE pane.foregroundCwd,
         agent |-> IF pane.id \in DOMAIN session.agents
                   THEN [active |-> TRUE, about |-> session.agents[pane.id]]
                   ELSE [active |-> FALSE, about |-> pane.agent],
         process |-> IF Running(pane).foreground = <<>> THEN Nothing
                     ELSE Running(pane).foreground[1],
         leader |-> IF \E k \in DOMAIN Running(pane).foreground :
                          Running(pane).foreground[k] = Running(pane).leader
                    THEN Running(pane).leader
                    ELSE Nothing]

MatchedBy(config, context) ==
    {i \in DOMAIN config.profiles :
        \A c \in Categories :
            LET patterns == config.profiles[i].match[c]
            IN  patterns # {} => Subject(context)[c] \in UNION patterns}

\* The last of the profiles in matched that sets any of the settings, or 0.
LastToSet(config, settings, matched) ==
    LET setters == {i \in matched : \E x \in settings : config.profiles[i][x] # Nothing}
    IN  IF setters = {} THEN 0 ELSE Max(setters)

AsDeclared(config, context) ==
    LET LastOf(settings) == LastToSet(config, settings, MatchedBy(config, context))
        Setting(x) == IF LastOf({x}) = 0 THEN config[x]
                      ELSE config.profiles[LastOf({x})][x]
        overrode   == LastOf({"mode", "template", "maxWidth"})
    IN  [mode |-> Setting("mode"), template |-> Setting("template"),
         maxWidth |-> Setting("maxWidth"),
         profileName |-> IF overrode = 0 THEN "default" ELSE config.profiles[overrode].name]

(***************************************************************************)
(* After a pass of the daemon during and since which nothing changed,      *)
(* every tab in auto mode shows the label that the README defines: of its  *)
(* number in the order of its workspace, of the pane its layout designates *)
(* and what runs there, of the newest label that is not the plugin's, with *)
(* the template of the last profile that matches.  The exception are tabs  *)
(* that only the process makes auto.                                       *)
(***************************************************************************)
LabelsTellTheTruth ==
    quiet = "yes" =>
        \A i \in DOMAIN session.tabs :
            LET now == ContextNow(i)
            IN  /\ AsDeclared(compiled, now).mode = "auto"
                /\ AsDeclared(compiled, [now EXCEPT !.process = Nothing]).mode = "auto"
                => session.tabs[i].label = Execute(AsDeclared(compiled, now), now)

(***************************************************************************)
(* The plugin's own labels have no effect on the next ones: once a pass    *)
(* of the daemon is done and nothing changes, its passes rename no tab,    *)
(* whatever profiles match on and templates show.                          *)
(***************************************************************************)
SettlesDown ==
    [][quiet = "yes" /\ edits' = edits => session' = session]_vars

(***************************************************************************)
(* "Profiles are evaluated in declaration order, and every matching        *)
(* profile applies in turn", "categories combine with AND and entries      *)
(* within a category with OR" (README), and no accepted file makes a tab's *)
(* settings invalid: for each tab a pass comes to, whatever runs in it.    *)
(***************************************************************************)
ResolvesAsDeclared ==
    reached < Len(contexts) => \A info \in Infos :
        LET context   == AttachProcess(Reached, info)
            effective == Resolve(compiled, context)
        IN  /\ effective = AsDeclared(compiled, context)
            /\ effective.mode \in Modes
            /\ effective.maxWidth \in 0..1024

\* The preview command, which resolves once, when it knows the process.
Preview(context, info) ==
    LET known     == AttachProcess(context, info)
        effective == Resolve(compiled, known)
    IN  [mode |-> effective.mode, label |-> Execute(effective, known)]

ProcessSetsMode ==
    \E i \in DOMAIN compiled.profiles :
        compiled.profiles[i].match.process # {} /\ compiled.profiles[i].mode # Nothing

(***************************************************************************)
(* What preview prints is what a pass writes: a label the pass asked for   *)
(* is preview's, and a tab passed over because of its mode is one for      *)
(* which preview prints a mode that writes no label, whatever the tab      *)
(* runs, unless a profile makes the mode depend on the process.            *)
(***************************************************************************)
PreviewAgrees ==
    /\ decision # Nothing /\ decision.action \in {"rename", "leave"} =>
          LET preview == Preview(decision.context, decision.info)
          IN  decision.label =
                 IF Eligible(preview.mode) THEN preview.label ELSE Nothing
    /\ decision # Nothing /\ decision.action = "pass over" /\ ~ProcessSetsMode =>
          \A info \in Infos : ~Eligible(Preview(decision.context, info).mode)

=============================================================================
