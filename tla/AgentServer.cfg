\* A read call and a shell call, one of them delivered twice, two threads, one restart.
SPECIFICATION Spec
CONSTANTS
    a = a
    b = b
    Calls = {a, b}
    k1 = k1
    k2 = k2
    k3 = k3
    Conns = {k1, k2, k3}
    h1 = h1
    h2 = h2
    Handlers = {h1, h2}
    None = None
    KindOf <- MCKindOf
    Backlog = 2
    MaxAge = 2
    ReadTimeout = 1
    NonceCapacity = 2
    MaxCopies = 1
    MaxRestarts = 1
    MaxTime = 3
SYMMETRY Symmetry
CHECK_DEADLOCK FALSE
INVARIANTS
    AnswersAreFresh
    ReadJobIsAwaited
PROPERTIES
    AcceptedOnce
