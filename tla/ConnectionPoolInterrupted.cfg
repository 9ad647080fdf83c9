CONSTANTS
    Users = {u1, u2, u3}
    Destroyers = {}
    Conns = {c1, c2}
    NoConn = NoConn
    NoThread = NoThread
SPECIFICATION Spec
INVARIANT NeverPopsEmpty
CHECK_DEADLOCK FALSE
