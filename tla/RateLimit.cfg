SPECIFICATION Spec
CONSTANTS
    Handlers = {h1,h2}
    Max = 2
    Window = 2
    Ttl = 3
    Delay = 1
    Horizon = 4
    MaxCalls = 5
    MaxMishaps = 1
    Faults = {"redis", "resend"}
SYMMETRY Symmetry
INVARIANTS
    TypeOK
    BoundedOverrun
    NeverImmortal
    NoUndueDenial
PROPERTIES
    TtlOutlivesWindow
