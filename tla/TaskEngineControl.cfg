SPECIFICATION Spec
CONSTANTS
    t1 = t1
    t2 = t2
    t3 = t3
    control = control
    download = download
    NoKey = NoKey
    NoTask = NoTask
    k = k
    r1 = r1
    r2 = r2
    Tasks = {t1}
    Keys = {k}
    Lanes = {control}
    LaneOf <- MCLaneOf
    Requests = {r1, r2}
    Controls = {"pause", "resume", "cancel"}
    MaxRestarts = 1
    MaxCalls = 4
INVARIANTS
    TypeOK
    RunningIsHeld
PROPERTIES
    UndocumentedOnlyByRace
    LaneDiesOnlyByRace
SYMMETRY RequestSymmetry
CHECK_DEADLOCK FALSE
