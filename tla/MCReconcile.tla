----------------------------- MODULE MCReconcile -----------------------------
(***************************************************************************)
(* Small instances of Reconcile.  Each .cfg picks the modes, the failures  *)
(* and the actions; what they share is here.                               *)
(***************************************************************************)
EXTENDS Reconcile

CONSTANTS t1, t2, shell, vim

MCTabs  == {t1, t2}
MCOneTab == {t1}
MCFacts == {shell, vim}

(***************************************************************************)
(* A template that names the process and quotes the source label: distinct *)
(* for every pair of what it reads, a source that is itself rendered, and  *)
(* so decorated already, included.  Labels are numbers: 0 is the empty     *)
(* one, 1 and 2 are names, and label s is quoted by 2 * s + 3 and, for     *)
(* vim, 2 * s + 4.  So the labels decorated n times or less are those      *)
(* below 3 * (2 ^ (n + 1) - 1).                                            *)
(***************************************************************************)
Decorated(n) == 0..(3 * (2 ^ (n + 1) - 1) - 1)

\* Bound: nothing quotes a label decorated more often.  DecorationsBounded
\* says that no tab shows one.
MaxDecorations == 11
MCOwnLabels == Decorated(MaxDecorations + 1) \ {0, 1, 2}
MCRender ==
    [s \in Decorated(MaxDecorations + 1) |-> [f \in MCFacts |->
        IF s \notin Decorated(MaxDecorations) THEN Undisplayable
        ELSE IF f = vim THEN 2 * s + 4 ELSE 2 * s + 3]]

(***************************************************************************)
(* Two reconcilers that take each other's labels for source labels         *)
(* decorate them ever more, but not by themselves: an action allows for    *)
(* three more decorations, a failure for one.  (README: ".Tab.Label is the *)
(* source label - the newest label this plugin did not write".)            *)
(***************************************************************************)
DecorationsBounded ==
    \A t \in Tabs :
        Open(t) => label[t] \in Decorated(1 + 3 * edits + faults)

\* The first tab is the plugin's, the second the user's whatever it runs.
AutoAndUsers ==
    [t \in MCTabs |-> [f \in MCFacts |->
        IF t = t1 THEN "auto" ELSE IF f = vim THEN "off" ELSE "keybind"]]
\* One tab of one mode.
KeybindOnly == [t \in MCOneTab |-> [f \in MCFacts |-> "keybind"]]
\* One tab, the plugin's unless a profile leaves it to the keybinding.
KeybindForVim ==
    [t \in MCOneTab |-> [f \in MCFacts |-> IF f = vim THEN "keybind" ELSE "auto"]]
\* One tab, the user's unless a profile matching process_regex makes it auto.
AutoForVim ==
    [t \in MCOneTab |-> [f \in MCFacts |-> IF f = vim THEN "auto" ELSE "off"]]

MCNoTarget == <<>>
MCTarget == [a \in Actions |-> t1]

=============================================================================
