SPECIFICATION ReadingSpec
CONSTANTS
    Insts = {u0}
    Sig = sig
    Env = {"simclose", "reset"}
    RxCap = 2
    SockCap = 2
    Backlog = 2
PROPERTIES  ConnectAccepted ResetEndsSession
CHECK_DEADLOCK FALSE
