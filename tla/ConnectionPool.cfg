CONSTANTS
    Users = {u1, u2, u3}
    Destroyers = {main}
    Conns = {c1, c2}
    NoConn = NoConn
    NoThread = NoThread
SPECIFICATION FairSpec
INVARIANTS
    ExclusiveLoan
    ReserveAgrees
    NoUseAfterClose
PROPERTIES
    EveryWaitEnds
    DestroyEnds
CHECK_DEADLOCK FALSE
