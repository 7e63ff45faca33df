SPECIFICATION Spec
CONSTANTS
    ann = ann
    bob = bob
    cat = cat
    c0 = c0
    c1 = c1
    c2 = c2
    Peers = {ann, bob, cat}
    Chunks = {c0, c1, c2}
    NoPeer = NoPeer
    NoChunk = NoChunk
    N = 2
    QueueMax = 6
    Lossy = TRUE
    Dups = 0
    Shared = FALSE
    MaxInFlight = 2
    HasFiles <- TradersHave
    RequestFiles <- TradersWant
    MaxLines = 2
    MaxConn = 2
    WaitMax = 2
    HeapSlot <- WordBeyondChunk
    HeapStatus = {0}
INVARIANTS
    OneSessionPerPeer
    OneSessionPerChunk
    UploadServesSession
PROPERTIES
    EveryDownloadVerifies
