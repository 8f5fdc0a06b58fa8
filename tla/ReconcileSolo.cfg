\* The daemon alone, two tabs, and only failures that lose no rename.
SPECIFICATION Spec
CONSTANTS
    t1 = t1
    t2 = t2
    shell = shell
    vim = vim
    Tabs <- MCTabs
    Names = {1, 2}
    OwnLabels <- MCOwnLabels
    Empty = 0
    Undisplayable = Undisplayable
    Facts <- MCFacts
    NoProcess = shell
    Mode <- AutoAndUsers
    Render <- MCRender
    Daemon = daemon
    Actions = {}
    Target <- MCNoTarget
    Closed = Closed
    Unknown = Unknown
    NoJob = NoJob
    FaultKinds = {"read", "refuse"}
    MaxFaults = 2
    MaxEdits = 4
INVARIANTS
    SourceNeverOwn
    UntouchedUnlessEligible
PROPERTIES
    Converges
    HistoryCatchesUp
