SPECIFICATION Spec
CONSTANTS
    BufSizes = {2}
    DefaultBufSz = 2
    BurstSz = 1
    Env = {"reset", "close"}
    MaxBytes = 2
    MaxWireBytes = 0
PROPERTIES QueuedByteLeaves ResetEndsRead HangupCloses
