SPECIFICATION Spec
CONSTANTS
    Requests <- BrowserAndActions
    Params = 2
    MaxJobs = 2
    MaxAir = 1
INVARIANTS OneJobAtATime
