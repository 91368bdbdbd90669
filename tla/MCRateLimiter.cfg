\* Both limits; a window is one and a half seconds.
SPECIFICATION Spec
CONSTANTS
    Clients = {c1, c2}
    Rpm = 2
    Tpm = 2
    Window = 3
    TicksPerSecond = 2
    Costs = {0, 1, 2}
    MaxCost = 2
    TokenCeiling = 4
    MaxAdmissions = 6
    MaxLag = 1
    MaxTime = 7
SYMMETRY Interchangeable
INVARIANTS
    TypeOK
    WindowQuota
    BurstBound
    TokenOvershoot
    WaitingPaysOff
    NoOverWait
