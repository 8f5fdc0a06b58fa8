------------------------------- MODULE Collector -------------------------------
(***************************************************************************)
(* How a snapshot of Herdr's session becomes one context per tab           *)
(* (src/internal/collector/collector.go).                                  *)
(*                                                                         *)
(* A snapshot is a record of                                               *)
(*   tabs     a sequence of [id, workspace, label], in the order shown;    *)
(*   panes    a sequence of [id, tab, cwd, foregroundCwd, agent];          *)
(*   layouts  per tab [focused, marked]: the id of its focused pane, and   *)
(*            those of its entries that are marked as focused;             *)
(*   agents   for some panes, the agent Herdr has identified there.        *)
(* An agent is [kind, displayName, status].  Of the fields that are copied *)
(* without a decision, the ones that profiles match on are kept.           *)
(***************************************************************************)
EXTENDS Naturals, SequencesExt

CONSTANTS
    Nothing,  \* the empty string, and no pane, layout, process or entry
    Base      \* Base[d]: the last element of the path d

NoLayout == [focused |-> Nothing, marked |-> <<>>]
NoAgent  == [kind |-> Nothing, displayName |-> Nothing, status |-> Nothing]
NoPane   == [id |-> Nothing, tab |-> Nothing, cwd |-> Nothing,
             foregroundCwd |-> Nothing, agent |-> NoAgent]

\* The helper coalesce, of two values.
Coalesce(value, fallback) == IF value # Nothing THEN value ELSE fallback

\* A plausible mistake: believe a layout that names a pane of another tab.
SelectPaneAnywhere(snapshot, tab) ==
    LET focused == snapshot.layouts[tab].focused
        chosen  == SelectInSeq(snapshot.panes, LAMBDA pane : pane.id = focused)
        first   == SelectInSeq(snapshot.panes, LAMBDA pane : pane.tab = tab)
    IN  IF chosen # 0 THEN snapshot.panes[chosen]
        ELSE IF first # 0 THEN snapshot.panes[first]
        ELSE NoPane

(***************************************************************************)
(* The pane a tab's label is about: of those the layout designates, the    *)
(* first that is in the tab, otherwise the tab's first pane.               *)
(***************************************************************************)
SelectPane(snapshot, tab) ==
    LET Find(id)   == SelectInSeq(snapshot.panes,
                                  LAMBDA pane : pane.tab = tab /\ pane.id = id)
        layout     == snapshot.layouts[tab]
        named      == <<layout.focused>> \o layout.marked
        designated == SelectInSeq(named, LAMBDA id : Find(id) # 0)
        first      == SelectInSeq(snapshot.panes, LAMBDA pane : pane.tab = tab)
    IN  IF designated # 0 THEN snapshot.panes[Find(named[designated])]
        ELSE IF first # 0 THEN snapshot.panes[first]
        ELSE NoPane

\* normalizePane: the shell's directory, unless the foreground has its own.
EffectiveCwd(pane) == Coalesce(pane.foregroundCwd, pane.cwd)

\* The agent identified in the pane, or else what the pane says of itself.
NormalizeAgent(snapshot, pane) ==
    IF pane.id \in DOMAIN snapshot.agents
    THEN [active |-> TRUE, about |-> snapshot.agents[pane.id]]
    ELSE [active |-> FALSE, about |-> pane.agent]

\* A plausible mistake: take the label that is shown for the user's.
SourceLabelShown(history, raw) == raw.label

\* The newest label of a tab that the plugin did not write.
SourceLabel(history, raw) ==
    IF history[raw.id] # Nothing /\ raw.label = history[raw.id].rendered
    THEN history[raw.id].source
    ELSE raw.label

\* The position a tab takes among the tabs of its workspace seen so far.
NextNumber(positions, workspace) == positions[workspace] + 1

Context(snapshot, history, raw, number) ==
    LET pane == SelectPane(snapshot, raw.id)
    IN  [tab |-> raw.id, workspace |-> raw.workspace, number |-> number,
         label |-> SourceLabel(history, raw), currentLabel |-> raw.label,
         pane |-> pane.id, cwd |-> EffectiveCwd(pane),
         agent |-> NormalizeAgent(snapshot, pane),
         process |-> Nothing, leader |-> Nothing]

\* The contexts of the snapshot's tabs, in their order.
Build(snapshot, history) ==
    LET Extend(built, raw) ==
            LET number == NextNumber(built.positions, raw.workspace)
            IN  [positions |-> [built.positions EXCEPT ![raw.workspace] = number],
                 contexts  |-> Append(built.contexts,
                                      Context(snapshot, history, raw, number))]
        workspaces == {raw.workspace : raw \in ToSet(snapshot.tabs)}
    IN  FoldLeft(Extend,
                 [positions |-> [w \in workspaces |-> 0], contexts |-> <<>>],
                 snapshot.tabs).contexts

\* info: the foreground processes of the pane, and the leader of their group.
AttachProcess(context, info) ==
    [context EXCEPT
        !.process = IF info.foreground = <<>> THEN Nothing ELSE info.foreground[1],
        !.leader  = IF info.leader \in ToSet(info.foreground) THEN info.leader ELSE Nothing]

=============================================================================
