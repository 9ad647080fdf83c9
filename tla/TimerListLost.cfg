CONSTANTS
    Timers = {t1, t2, t3}
    Null = Null
    Lifetime = 2
    MaxTime = 3
SPECIFICATION Spec
INVARIANT ManagesAllTimers
CHECK_DEADLOCK FALSE
