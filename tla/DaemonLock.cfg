\* No PID that somebody still remembers is given to a new process.
SPECIFICATION Spec
CONSTANTS
    p1 = p1
    p2 = p2
    p3 = p3
    p4 = p4
    Pids <- MCPids
    NoPid = NoPid
    PidReuse = FALSE
    MaxStops = 2
    MaxKills = 1
INVARIANTS
    LockMatchesOwner
    RecordedWhileRunning
    StaleMeansGone
PROPERTIES
    DaemonComesBack
