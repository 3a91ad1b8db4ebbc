SPECIFICATION Spec
CONSTANTS
    Insts = {u0}
    Sig = sig
    Env = {"tty", "reset", "lost"}
    RxCap = 2
    SockCap = 2
    Backlog = 2
INVARIANT NoAbort
CHECK_DEADLOCK FALSE
