\* Two deployments of three specifications, two tasks, a scan, a control, a crash, a fault.
SPECIFICATION Spec
CONSTANTS
    a1 = a1
    a2 = a2
    b1 = b1
    Specs = {a1, a2, b1}
    NameOf <- MCNameOf
    PortOf <- MCPortOf
    FixOf <- MCFixOf
    AutoPort = AutoPort
    FirstSpec = a1
    NoSpec = NoSpec
    NoRow = NoRow
    OldRow = OldRow
    NoBox = NoBox
    NoDep = NoDep
    d1 = d1
    d2 = d2
    d3 = d3
    Deps = {d1, d2, d3}
    Tasks = {1, 2}
    Ports = {1, 2, 3, 4}
    MaxBoxes = 4
    MaxCalls = 2
    MaxCrashes = 1
    MaxFaults = 1
CHECK_DEADLOCK FALSE
INVARIANTS
    RowKeepsItsContainer
    TransientHasItsTask
    PortsDiffer
PROPERTIES
    DeleteHitsItsSnapshot
