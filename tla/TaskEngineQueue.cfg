SPECIFICATION FairSpec
CONSTANTS
    t1 = t1
    t2 = t2
    t3 = t3
    control = control
    download = download
    NoKey = NoKey
    NoTask = NoTask
    k = k
    r1 = r1
    r2 = r2
    Tasks = {t1, t2, t3}
    Keys = {k}
    Lanes = {control, download}
    LaneOf <- MCLaneOf
    Requests = {r1, r2}
    Controls = {}
    MaxRestarts = 1
    MaxCalls = 3
INVARIANT OneLiveTaskPerInput
PROPERTIES
    QueuedIsFinished
