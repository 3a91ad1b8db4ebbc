SPECIFICATION Spec
CONSTANTS
    BufSizes = {2}
    DefaultBufSz = 2
    BurstSz = 1
    Env = {"close"}
    MaxBytes = 2
    MaxWireBytes = 0
INVARIANT ShutdownStopsTimer
