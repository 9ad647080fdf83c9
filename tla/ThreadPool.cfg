CONSTANTS
    Callers = {main}
    Workers = {w1, w2}
    Requests = {r1, r2}
    MaxRequests = 2
    NoRequest = NoRequest
    NoThread = NoThread
SPECIFICATION FairSpec
INVARIANTS
    NoStrandedRequest
    NoTokenLeak
PROPERTIES
    ImplementsWorkQueue
