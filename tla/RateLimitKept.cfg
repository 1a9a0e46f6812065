SPECIFICATION Spec
CONSTANTS
    Handlers = {h1,h2}
    Max = 2
    Window = 2
    Ttl = 3
    Delay = 0
    Horizon = 4
    MaxCalls = 4
    MaxMishaps = 1
    Faults = {}
SYMMETRY Symmetry
INVARIANTS
    LimitKept
