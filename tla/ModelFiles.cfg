\* Two files, two delete tasks, a crash, a fault, and requests in any order.
SPECIFICATION Spec
CONSTANTS
    f1 = f1
    f2 = f2
    Files = {f1, f2}
    Payload = f1
    Dels = {1, 2}
    NoDir = NoDir
    NoRow = NoRow
    MaxAttempts = 2
    MaxIds = 2
    MaxCalls = 3
    MaxCrashes = 1
    MaxFaults = 1
CHECK_DEADLOCK FALSE
INVARIANTS
    SnapshotsHoldWholeFiles
    NoStrayDownloader
    DeletingHasItsTask
    NoDeleteInUse
