SPECIFICATION Spec
CONSTANTS
    Keypads <- OneKeypad
    MaxKey = 2
    MaxJobs = 1
    MaxRestart = 0
    ActionsUsed = FALSE
INVARIANTS PairedKeypadHoldsOurKey
CHECK_DEADLOCK FALSE
