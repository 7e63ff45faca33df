SPECIFICATION Spec
CONSTANTS
    Block = 4
    LenBytes = 2
    ChunkSize = 8
    NoFile = NoFile
    Files <- FilesOfEveryLength
INVARIANTS
    ChunksTypeOK
    NothingLost
    PaddedRight
    SlotsSuffice
    ListingIsFile
PROPERTIES
    Finishes
CHECK_DEADLOCK FALSE
