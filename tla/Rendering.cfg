\* Every call is made once, so the system stops.
SPECIFICATION Spec
CONSTANTS
    Texts <- MCTexts
    MaxWidth = 9
INVARIANTS
    FitsWidth
    WastesNoCells
    KeepsPadding
    KeepsBothEnds
    OnlyDisplayable
CHECK_DEADLOCK FALSE
