SPECIFICATION Spec
CONSTANTS
    Elements <- MCElements
    Key <- MCKey
    NoNode = NoNode
    Tmp = Tmp
    Items = {e1, e2, e3, e4}
    Heads = {ha, hb}
    NoItem = NoItem
    CacheKeys = {k1, k2, k3, k4}
    CacheValues = {0, 1}
    Capacities = {0, 1, 3}
    Dhead = Dhead
    Dtail = Dtail
    NullNode = NullNode
    Ptrs = {p1, p2, p3}
    Blocks = {b1, b2}
    NoBlock = NoBlock
    NoPtr = NoPtr
    ESmallObjectBytes = 4096
    READ_BUFFER_SIZE = 10
    WRITE_BUFFER_SIZE = 8
    Streams <- MCStreams
    MaxConns = 2
    ShortWrites = 2
    Workers = {w1, w2}
    Names = {name}
    Passwords = {pw1, pw2}
    NoPassword = NoPassword
    NoWorker = NoWorker
    UniqueNames = TRUE
    Typed <- MCTyped
    Folder <- MCFolder
    Seconds <- MCSeconds
    Number <- MCNumber
    Clients = {c1, c2}
    Server = Server
    Storer = Storer
    MaxSend = 2
    PipeSize = 2
    MaxReads = 2
    MaxVs = {4, 7}
    Counts = {0, 1, 3, 4}
    Modulus = 64
\* The libraries and the server's connections may rest; a program that has ended stays so.
CHECK_DEADLOCK FALSE
INVARIANTS
    RbTreeRight
    SplayTreeRight
    QPointersRight
    LRUStructureRight
    NoDangling
    SizeClassFits
    HttpBuffersRight
    
    HttpUnmapsWhatItMapped
    WinnerCanLogIn
    
    
    SumAsSerial
PROPERTIES
    
    LRUForgetsOldest
    
    VideoReturns
    
