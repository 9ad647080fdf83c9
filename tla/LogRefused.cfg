CONSTANTS
    Writers = {w1, w2}
    Capacities = {1}
    SplitLines = 2
    MaxDay = 1
    MaxLines = 2
    NoLine = NoLine
SPECIFICATION Spec
INVARIANT NothingRefused
CHECK_DEADLOCK FALSE
