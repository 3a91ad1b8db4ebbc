SPECIFICATION Spec
CONSTANTS
    BufSizes = {1}
    DefaultBufSz = 1
    BurstSz = 1
    Env = {"close"}
    MaxBytes = 2
    MaxWireBytes = 0
PROPERTY BlockedWriteResumes
