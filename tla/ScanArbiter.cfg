SPECIFICATION Spec
CONSTANTS
    Width = 4
    Intervals <- MCIntervals
    Retry = 1
    AfterPairing = 1
    OffLimit = 7
    ActionsUsed = TRUE
INVARIANTS
    WizardScanIsWhole
    WindowComesInTime
PROPERTIES
    WindowsRecur
