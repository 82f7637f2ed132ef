SPECIFICATION ReadsSpec
CONSTANTS
    Deadline = 2
    MaxStarts = 4
INVARIANTS WrongOnlyAfterAbandoned
PROPERTIES ReadIsResolved
CHECK_DEADLOCK FALSE
