\* One process that is killed and restarted, three days, room for two.
SPECIFICATION Spec
CONSTANTS
    Processes = {p1}
    Days = {1, 2, 3}
    MaxDays = 2
    Inodes = {i1, i2, i3}
    MaxTurns = 5
INVARIANTS
    SavedTurnsSurvive
