CONSTANTS
    Writers = {w1, w2}
    Capacities = {0}
    SplitLines = 2
    MaxDay = 2
    MaxLines = 2
    NoLine = NoLine
SPECIFICATION Spec
PROPERTY NeverBackInTime
CHECK_DEADLOCK FALSE
