\* One task that is claimed up to three times, two tools, one restart, every control.
SPECIFICATION Spec
CONSTANTS
    t1 = t1
    Tasks = {t1}
    a = a
    b = b
    Tools = {a, b}
    None = None
    MaxToolTurns = 2
    MaxResultChars = 1
    MaxTotalChars = 2
    MaxPayload = 2
    CallSlots = 1
    MaxClaims = 3
    MaxRestarts = 1
CHECK_DEADLOCK FALSE
INVARIANTS
    OpenRunHasItsWorker
    CallsAreBounded
PROPERTIES
    FailedToolNotRepeated
    ResponseEnds
