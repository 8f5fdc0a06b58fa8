\* A read of Load does not fail here: see CatchesUp in the README.
SPECIFICATION Spec
CONSTANTS
    c1 = c1
    c2 = c2
    plain = plain
    fancy = fancy
    broken = broken
    Absent = Absent
    None = None
    Callers <- MCCallers
    Contents <- MCContents
    Valid <- MCValid
    Failures = {"stat", "hash"}
    MaxEdits = 3
    MaxFailures = 1
INVARIANTS
    TakesEffect
PROPERTIES
    ReportedOnce
    CatchesUp
