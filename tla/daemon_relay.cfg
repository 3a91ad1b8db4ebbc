SPECIFICATION Spec
CONSTANTS
    Insts = {u0, u1}
    Sig = sig
    Env = {"tty", "reset", "lost", "simclose"}
    RxCap = 1
    SockCap = 1
    Backlog = 1
INVARIANTS TypeOK StateMatchesFds NoStaleHandler LostWireIsOffline 
CHECK_DEADLOCK FALSE
