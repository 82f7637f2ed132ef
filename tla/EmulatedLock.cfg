SPECIFICATION LockSpec
CONSTANTS
    Slots <- MCSlots
    Credentials <- MCCredentials
    ReplayHistorySize = 1
    TagSize = 1
    AutoRelock = 2
    Intervals = {0, 1, 2}
    MaxAge = 3
    AgeCycle = 5
    EventLogMax = 1
    RearmOnUnlock = FALSE
INVARIANTS NeverStuckOpen RelockCountsFromLatestUnlock
PROPERTIES DebounceSpacing SuppressesOnlyRepeatsUntilWrapped ReturnsToLocked
