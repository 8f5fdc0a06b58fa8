---------------------------- MODULE MCTabPipeline -----------------------------
(***************************************************************************)
(* Three tabs of two workspaces, interleaved in the strip: one with two    *)
(* panes, one with a pane, one with none.                                  *)
(***************************************************************************)
EXTENDS TabPipeline

CONSTANTS
    w1, w2, t1, t2, t3, t4, p1, p2, p3, p4, n1, n2, \* workspaces, tabs, panes, names
    srcApi, srcWeb, api, web,               \* directories and their last elements
    zsh, node, claude,                      \* processes, and an agent
    working, blocked, halfCircle            \* the agent's status, and an icon

MCBase == (srcApi :> api) @@ (srcWeb :> web) @@ (Nothing :> Nothing)
MCIcons == working :> halfCircle       \* the other status has none
MCNames == {n1, n2}

Tab(id, workspace) == [id |-> id, workspace |-> workspace, label |-> n1]
Pane(id, tab, foregroundCwd) ==
    [id |-> id, tab |-> tab, cwd |-> srcApi, foregroundCwd |-> foregroundCwd,
     agent |-> NoAgent]

MCSessions ==
    {[tabs    |-> <<Tab(t1, w1), Tab(t3, w2), Tab(t2, w1)>>,
      panes   |-> <<Pane(p1, t1, Nothing), Pane(p2, t1, srcWeb), Pane(p3, t3, Nothing)>>,
      layouts |-> (t1 :> [focused |-> p2, marked |-> <<p1>>]) @@ (t2 :> NoLayout)
                  @@ (t3 :> [focused |-> Nothing, marked |-> <<p3>>])
                  @@ (t4 :> NoLayout),
      agents  |-> <<>>]}

MCArrivals ==
    {[tab |-> Tab(t4, w1), pane |-> Pane(p4, t4, Nothing)],
     [tab |-> [Tab(t1, w2) EXCEPT !.label = n2], pane |-> Pane(p1, t1, srcWeb)]}

Claude(status) == [kind |-> claude, displayName |-> Nothing, status |-> status]
MCAgents == {Claude(working), Claude(blocked)}

MCInfos ==
    {[foreground |-> <<zsh>>, leader |-> node],
     [foreground |-> <<node, claude>>, leader |-> claude]}

Anything == [c \in Categories |-> {}]
Profile(name, mode, template, maxWidth, match) ==
    [name |-> name, mode |-> mode, template |-> template, maxWidth |-> maxWidth,
     match |-> match @@ Anything]
Config(mode, template, profiles) ==
    [mode |-> mode, template |-> template, maxWidth |-> Nothing, profiles |-> profiles]

MCSources ==
    {\* The built-in defaults.
     Config(Nothing, Nothing, <<>>),
     \* Profiles that match on what the plugin's own label replaces, and on the process.
     Config("auto", {"label", "number"},
         <<Profile("named", Nothing, {"label", "directory", "profile"}, Nothing,
                   "tabLabel" :> {{n2}}),
           Profile("busy", Nothing, Nothing, 12, "process" :> {{zsh}, {node}})>>),
     \* Profiles that override each other, for workspaces, agents and directories.
     Config("auto", Nothing,
         <<Profile("second", "keybind", {"number", "profile"}, 0, "workspaceLabel" :> {{w2}}),
           Profile("waiting", "auto", {"agent", "leader"}, 1024,
                   ("agentStatus" :> {{blocked}}) @@ ("tabLabel" :> {{n1}})),
           Profile("web", Nothing, {"profile"}, Nothing, "cwd" :> {{srcWeb}})>>),
     \* A mode that depends on the process.
     Config("off", Nothing,
         <<Profile("node", "auto", Nothing, Nothing, "process" :> {{node}}),
           Profile("first", "auto", Nothing, Nothing, "workspaceLabel" :> {{w1}})>>),
     \* Not accepted.
     Config("auto", Nothing, <<Profile("wide", Nothing, Nothing, 1025, "agent" :> {{claude}})>>)}

=============================================================================
