\* One job through two restarts and two failing writes, its file of any size.
SPECIFICATION FairSpec
CONSTANTS
    j1 = j1
    Jobs = {j1}
    MaxRestarts = 2
    MaxFaults = 2
INVARIANTS
    IdentityBeforeCommand
    NoUnwatchedCommand
PROPERTIES
    TerminalOnDiskIsFinal
    JobEnds
    LauncherLeaves
CHECK_DEADLOCK FALSE
