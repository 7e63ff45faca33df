SPECIFICATION Spec
CONSTANTS
    ann = ann
    bob = bob
    cat = cat
    c0 = c0
    c1 = c1
    c2 = c2
    Peers = {ann, bob}
    Chunks = {c0, c1, c2}
    NoPeer = NoPeer
    NoChunk = NoChunk
    N = 3
    QueueMax = 10
    Lossy = TRUE
    Dups = 1
    Shared = FALSE
    MaxInFlight = 4
    HasFiles <- BobHasThree
    RequestFiles <- AnnWantsThree
    MaxLines = 3
    MaxConn = 2
    WaitMax = 2
    HeapSlot <- WordBeyondChunk
    HeapStatus = {0}
INVARIANTS
    OneSessionPerPeer
