SPECIFICATION FairLoop
CONSTANTS
    a = a
    nl = nl
    Text = {a}
    Newline = nl
    Nul = Nul
    BufSize = 3
    CurMod = 64
    Pieces <- Typed
    Second = 4
    MaxSecs = 2
    FirstSeconds = 2
    Carries = TRUE
    Straddles = FALSE
    Garbage <- Unwritten
    Strays = {"stdout"}
INVARIANTS
    LoopTypeOK
    ReceivesWhatIsThere
    SleepsHalfASecond
    CrashMeansFirstTimeout
    ExitMeansLongLine
PROPERTIES
    ReadsLines
    BlockRepeated
CHECK_DEADLOCK FALSE
