\* Operations are made once and Close is final, so the system stops.
SPECIFICATION Spec
CONSTANTS
    snapshot = snapshot
    rename = rename
    stream = stream
    quit = quit
    Callers <- MCCallers
    Streams <- MCStreams
    Closers <- MCClosers
    Impatient <- MCImpatient
    MaxConnections = 1
    MaxEvents = 1
INVARIANTS
    CloseIsFinal
    ConnectionsLimited
    SuccessMeansApplied
PROPERTIES
    CloseReturns
    CallsReturn
    HangupIsSeen
CHECK_DEADLOCK FALSE
