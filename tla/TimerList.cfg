CONSTANTS
    Timers = {t1, t2, t3}
    Null = Null
    Lifetime = 2
    MaxTime = 3
SPECIFICATION Spec
INVARIANTS
    ListSound
    FaultNeedsCause
PROPERTIES
    TickExact
CHECK_DEADLOCK FALSE
