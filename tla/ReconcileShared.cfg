\* The daemon and one rename-current process, every failure: what holds regardless.
SPECIFICATION Spec
CONSTANTS
    t1 = t1
    t2 = t2
    shell = shell
    vim = vim
    Tabs <- MCOneTab
    Names = {1, 2}
    OwnLabels <- MCOwnLabels
    Empty = 0
    Undisplayable = Undisplayable
    Facts <- MCFacts
    NoProcess = shell
    Mode <- KeybindForVim
    Render <- MCRender
    Daemon = daemon
    Actions = {action}
    Target <- MCTarget
    Closed = Closed
    Unknown = Unknown
    NoJob = NoJob
    FaultKinds = {"lost", "stop", "persist"}
    MaxFaults = 1
    MaxEdits = 3
INVARIANTS
    RenderedWasWritten
    SourceWasShown
    DecorationsBounded
PROPERTY
    Converges
