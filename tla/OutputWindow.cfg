SPECIFICATION WindowSpec
CONSTANTS
    output_limit = 4
    MAX_CHARS = 4
    MARKER_CHARS = 2
    Widths = {1, 2, 4}
    MaxBytes = 9
    MaxChunk = 2
    MaxLost = 1
INVARIANTS
    WindowIsSuffix
    NoSilentGap
    DoneHasTail
    FailsOnlyAfterLostWrite
CHECK_DEADLOCK FALSE
