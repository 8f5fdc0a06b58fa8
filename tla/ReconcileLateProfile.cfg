\* A process_regex profile turns a tab to auto that is otherwise off.
SPECIFICATION Spec
CONSTANTS
    t1 = t1
    t2 = t2
    shell = shell
    vim = vim
    Tabs <- MCOneTab
    Names = {1, 2}
    OwnLabels <- MCOwnLabels
    Empty = 0
    Undisplayable = Undisplayable
    Facts <- MCFacts
    NoProcess = shell
    Mode <- AutoForVim
    Render <- MCRender
    Daemon = daemon
    Actions = {}
    Target <- MCNoTarget
    Closed = Closed
    Unknown = Unknown
    NoJob = NoJob
    FaultKinds = {}
    MaxFaults = 0
    MaxEdits = 1
PROPERTY Converges
