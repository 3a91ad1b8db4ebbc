SPECIFICATION LabSpec
CONSTANTS
    Devs = {"u0", "u1", "g0"}
    Storers = {s1, s2}
    Seeds <- MCSeeds
    MaxDraws = 6
    Uarts <- MCUarts
    Gpios <- MCGpios
    Pids = {1, 2}
INVARIANTS EventsAgree NoDangling AllOrNothing PrngNeverZero
           RollbackRestores DownRecovers 
PROPERTY ResetThenUp
