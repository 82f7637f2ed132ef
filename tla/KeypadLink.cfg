SPECIFICATION Spec
CONSTANTS
    Slots <- MCSlots
    Credentials <- OneCredential
    ReplayHistorySize = 1
    TagSize = 1
    AutoRelock = 0
    Intervals = {0}
    MaxAge = 0
    AgeCycle = 1
    EventLogMax = 1
    RearmOnUnlock = FALSE
    Keypads <- TwoKeypads
    SlotOf <- MCSlotOf
    KeypadCommands <- UnlockOnly
    MaxKey = 2
    MaxIv = 2
    MaxLink = 2
    MaxQueue = 2
    MaxRestart = 0
INVARIANTS TypeOK AnswersReachTheAsker SessionOfThisLink
PROPERTIES OnlyAuthorisedCommands ImplementsLockService BecomesConnectable
