SPECIFICATION Spec
CONSTANTS
    ann = ann
    bob = bob
    cat = cat
    c0 = c0
    c1 = c1
    c2 = c2
    Peers = {ann, bob, cat}
    Chunks = {c0, c1, c2}
    NoPeer = NoPeer
    NoChunk = NoChunk
    N = 3
    QueueMax = 1
    Lossy = TRUE
    Dups = 0
    Shared = TRUE
    MaxInFlight = 2
    HasFiles <- BobHasThree
    RequestFiles <- AnnThreeCatOne
    MaxLines = 3
    MaxConn = 2
    WaitMax = 2
    HeapSlot <- WordBeyondChunk
    HeapStatus = {0}
INVARIANTS
    GotIntact
    TablesSuffice
    QueueHasWaker
PROPERTIES
    BlockAtItsPlace
CHECK_DEADLOCK FALSE
