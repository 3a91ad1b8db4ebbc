SPECIFICATION Spec
CONSTANTS
    BufSizes = {2}
    DefaultBufSz = 2
    BurstSz = 2
    Env = {"down", "reset", "close", "stats", "rmmod"}
    MaxBytes = 2
    MaxWireBytes = 1
INVARIANTS TypeOK FifosLive NoStrandedBytes InOrder  
PROPERTY ImplementsChannel
