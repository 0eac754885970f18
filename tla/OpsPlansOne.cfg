SPECIFICATION FairSpec
CONSTANTS
    s1 = s1
    p1 = p1
    p2 = p2
    t1 = t1
    t2 = t2
    t3 = t3
    t4 = t4
    r1 = r1
    r2 = r2
    NoTask = NoTask
    Nothing = Nothing
    Sessions = {s1}
    Plans = {p1}
    Tasks = {t1, t2, t3}
    Steps = 2
    Requests = {r1}
    Controls = {"pause", "resume", "cancel"}
    MaxRestarts = 1
    MaxCalls = 6
CHECK_DEADLOCK FALSE
INVARIANTS
    StepOncePerStart
    UnfinishedPlanIsResumable
PROPERTIES
    FollowsLifecycle
    ApprovedEnds
