SPECIFICATION Spec
CONSTANTS
    Injectors = {i1}
    Worker = w
    Env = {"reset"}
    MaxInjects = 1
    MaxDrops = 1
PROPERTY ResetDiscards
