SPECIFICATION Spec
CONSTANTS
    BufSizes = {1, 2}
    DefaultBufSz = 2
    BurstSz = 2
    Env = {"down", "attrs", "resize"}
    MaxBytes = 2
    MaxWireBytes = 0
INVARIANTS  FifosLive
