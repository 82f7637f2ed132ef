SPECIFICATION Spec
CONSTANTS
    Keypads <- TwoKeypads
    MaxKey = 2
    MaxJobs = 2
    MaxRestart = 1
    ActionsUsed = TRUE
INVARIANTS RebootChangesNothing AppliedAtMostOnce PairedIsOneKeypad WizardHasCurrentKey
PROPERTIES AppliedUnlessOvertaken
CHECK_DEADLOCK FALSE
