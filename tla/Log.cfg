CONSTANTS
    Writers = {w1, w2}
    Capacities = {0, 1, 4}
    SplitLines = 2
    MaxDay = 2
    MaxLines = 2
    NoLine = NoLine
SPECIFICATION FairSpec
INVARIANTS
    FilesRight
    EveryLineOnce
    SyncLineOnDisk
PROPERTIES
    AcceptedLineWritten
CHECK_DEADLOCK FALSE
