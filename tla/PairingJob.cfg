SPECIFICATION Spec
CONSTANTS
    Requests <- OneCaller
    Params = 2
    MaxJobs = 2
    MaxAir = 1
INVARIANTS OneJobAtATime SuccessMeansPaired ReadsAreComplete OneCentralUntilJobEnds
PROPERTIES ImplementsJobService JobEnds ReachableAgain
