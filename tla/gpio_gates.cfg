SPECIFICATION Spec
CONSTANTS
    Injectors = {i1}
    Worker = w
    Env = {"down", "reset", "delay", "drop", "disable", "aut", "stats", "rmmod"}
    MaxInjects = 2
    MaxDrops = 1
INVARIANTS TypeOK FreedUnlessLate
 
