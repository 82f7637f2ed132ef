SPECIFICATION Spec
CONSTANTS
    Slots <- MCSlots
    Credentials <- ThreeCredentials
    ReplayHistorySize = 3
    TagSize = 2
    AutoRelock = 1
    Intervals = {0}
    MaxAge = 0
    AgeCycle = 1
    EventLogMax = 1
    RearmOnUnlock = TRUE
    Keypads <- OneKeypad
    SlotOf <- MCSlotOf
    KeypadCommands <- LockUnlockRing
    MaxKey = 1
    MaxIv = 2
    MaxLink = 1
    MaxQueue = 1
    MaxRestart = 1
INVARIANTS NoRepeatInWindow
