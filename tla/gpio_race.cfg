SPECIFICATION Spec
CONSTANTS
    Injectors = {i1, i2}
    Worker = w
    Env = {"reset", "delay", "flip"}
    MaxInjects = 2
    MaxDrops = 1
INVARIANTS NoForgottenInject CommitsNewest
PROPERTIES NeverRegress InjectSettles
