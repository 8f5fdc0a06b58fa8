------------------------------- MODULE Profiles -------------------------------
(***************************************************************************)
(* Compiling a configuration (compile in src/internal/config/load.go) and  *)
(* resolving it for one tab (src/internal/config/profile.go).              *)
(*                                                                         *)
(* A decoded file is a record [mode, template, maxWidth, profiles]; a      *)
(* profile is [name, mode, template, maxWidth, match].  A value the file   *)
(* leaves out is Nothing.  A match has a set of patterns for each category *)
(* and a pattern, regular expression or glob, is the set of the values it  *)
(* matches.  A template is the set of the fields it shows.                 *)
(***************************************************************************)
EXTENDS Collector

Modes == {"auto", "keybind", "off"}

Categories == {"workspaceLabel", "tabLabel", "cwd", "process", "agent", "agentStatus"}

DefaultTemplate == {"number", "directory", "status of agent", "agent or process"}

-----------------------------------------------------------------------------
(* compile.                                                                *)

ValidMode(mode) == mode \in Modes

ValidWidth(width) == width \in 0..1024

ValidProfile(profile) ==
    /\ profile.name # Nothing
    /\ profile.mode # Nothing => ValidMode(profile.mode)
    /\ profile.maxWidth # Nothing => ValidWidth(profile.maxWidth)

\* The files compile accepts.  That every template and pattern compiles is
\* beyond this model.
Accepted(source) ==
    /\ ValidMode(Coalesce(source.mode, "auto"))
    /\ ValidWidth(Coalesce(source.maxWidth, 0))
    /\ \A i \in DOMAIN source.profiles :
          /\ ValidProfile(source.profiles[i])
          /\ \A j \in DOMAIN source.profiles :
                source.profiles[i].name = source.profiles[j].name => i = j

Compile(source) ==
    [mode     |-> Coalesce(source.mode, "auto"),
     template |-> Coalesce(source.template, DefaultTemplate),
     maxWidth |-> Coalesce(source.maxWidth, 0),
     profiles |-> source.profiles]

-----------------------------------------------------------------------------
(* Resolve.                                                                *)

\* What a pattern of each category is compared with.
Subject(context) ==
    [workspaceLabel |-> context.workspace,
     tabLabel       |-> context.label,
     cwd            |-> context.cwd,
     process        |-> context.process,
     agent          |-> context.agent.about.kind,
     agentStatus    |-> context.agent.about.status]

\* regexMatches, globMatches and stringMatches.
OneMatches(patterns, value) ==
    patterns = {} \/ \E pattern \in patterns : value \in pattern

Matches(match, context) ==
    \A c \in Categories : OneMatches(match[c], Subject(context)[c])

\* A plausible mistake: keep what an earlier profile has set.
OverrideOnce(effective, profile) ==
    IF effective.profileName = "default"
    THEN [mode        |-> Coalesce(profile.mode, effective.mode),
          template    |-> Coalesce(profile.template, effective.template),
          maxWidth    |-> Coalesce(profile.maxWidth, effective.maxWidth),
          profileName |-> profile.name]
    ELSE effective

Override(effective, profile) ==
    [mode        |-> Coalesce(profile.mode, effective.mode),
     template    |-> Coalesce(profile.template, effective.template),
     maxWidth    |-> Coalesce(profile.maxWidth, effective.maxWidth),
     profileName |->
        IF \E setting \in {"mode", "template", "maxWidth"} : profile[setting] # Nothing
        THEN profile.name
        ELSE effective.profileName]

Resolve(compiled, context) ==
    FoldLeft(LAMBDA effective, profile :
                IF Matches(profile.match, context) THEN Override(effective, profile)
                ELSE effective,
             [mode |-> compiled.mode, template |-> compiled.template,
              maxWidth |-> compiled.maxWidth, profileName |-> "default"],
             compiled.profiles)

=============================================================================
