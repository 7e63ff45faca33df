SPECIFICATION Spec
CONSTANTS
    ann = ann
    bob = bob
    cat = cat
    c0 = c0
    c1 = c1
    c2 = c2
    Peers = {ann, bob}
    Chunks = {c0, c1}
    NoPeer = NoPeer
    NoChunk = NoChunk
    N = 3
    QueueMax = 21
    Lossy = TRUE
    Dups = 1
    Shared = FALSE
    MaxInFlight = 6
    HasFiles <- BobHasTwo
    RequestFiles <- AnnWantsTwo
    MaxLines = 2
    MaxConn = 2
    WaitMax = 2
    HeapSlot <- WordBeyondChunk
    HeapStatus = {0}
INVARIANTS
    TypeOK
    SessionInStep
    BlocksInPlace
    GotIntact
    OneSessionPerPeer
    GetsHaveRoom
    UploadServesSession
    SenderNotAhead
    QueueHasWaker
PROPERTIES
    EveryDownloadVerifies
    MaxAckGrows
    KeepsPromise
