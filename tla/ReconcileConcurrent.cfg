\* A rename-current process beside the daemon; nothing fails.
SPECIFICATION Spec
CONSTANTS
    t1 = t1
    t2 = t2
    shell = shell
    vim = vim
    Tabs <- MCOneTab
    Names = {1, 2}
    OwnLabels <- MCOwnLabels
    Empty = 0
    Undisplayable = Undisplayable
    Facts <- MCFacts
    NoProcess = shell
    Mode <- KeybindOnly
    Render <- MCRender
    Daemon = daemon
    Actions = {action}
    Target <- MCTarget
    Closed = Closed
    Unknown = Unknown
    NoJob = NoJob
    FaultKinds = {}
    MaxFaults = 0
    MaxEdits = 1
PROPERTY SourceRecovers
