\* Two callers, any mix of calls, an edit of the configuration and a fault.
SPECIFICATION Spec
CONSTANTS
    c1 = c1
    c2 = c2
    u1 = u1
    u2 = u2
    k1 = k1
    d1 = d1
    d2 = d2
    d3 = d3
    local = local
    other = other
    alias = alias
    None = None
    Callers = {c1, c2}
    Deployments = {d1, d2, d3}
    RouteOf <- MCRouteOf
    CapsOf <- MCCapsOf
    Models = {local, other, alias}
    MagpieUrls = {u2}
    AliasOf <- MCAliasOf
    Media = {"image"}
    Urls = {u1, u2}
    Keys = {k1}
    Published <- MCPublished
    FirstConfig <- MCFirstConfig
    FallbackEnv <- MCFallbackEnv
    Kinds = {"both", "callx", "done"}
    MaxEvents <- MCMaxEvents
    MaxChunk = 4
    MaxKeepalives = 1
    MaxEdits = 1
    MaxFaults = 1
CHECK_DEADLOCK FALSE
INVARIANTS
    CallsAreAccounted
    RelaysKeepEvents
    ResponsesAreWellFormed
    ListsAreOfTheirUpstream
