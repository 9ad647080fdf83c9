SPECIFICATION ElSpec
CONSTANTS
    Fds = {1, 2}
    Workers = {1, 2}
    Modes <- MCModes
    MaxConnections = 2
    MaxRequests = 1
INVARIANT
    ElOneThread
