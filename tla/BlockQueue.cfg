CONSTANTS
    Pushers = {p1, p2}
    Poppers = {c1, c2}
    TimedPoppers = {t1}
    Clearers = {z}
    Items = {a, b}
    MaxSize = 2
    NoItem = NoItem
    NoThread = NoThread
SPECIFICATION Spec
INVARIANTS
    NoLostWakeup
PROPERTIES
    ImplementsBoundedQueue
