SPECIFICATION FairSpec
CONSTANTS
    ann = ann
    bob = bob
    cat = cat
    c0 = c0
    c1 = c1
    c2 = c2
    Peers = {ann, bob, cat}
    Chunks = {c0, c1}
    NoPeer = NoPeer
    NoChunk = NoChunk
    N = 2
    QueueMax = 10
    Lossy = TRUE
    Dups = 0
    Shared = FALSE
    MaxInFlight = 3
    HasFiles <- ProvidersShare
    RequestFiles <- AnnWantsTwo
    MaxLines = 2
    MaxConn = 2
    WaitMax = 2
    HeapSlot <- WordBeyondChunk
    HeapStatus = {0}
PROPERTIES
    FileArrives
