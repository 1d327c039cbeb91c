SPECIFICATION Spec
SYMMETRY Symmetry
CONSTANTS
    Emails = {alice}
    Flights = {f1, f2}
    Admins = {a1}
    Callers = {c1}
    None = None
    TTL = 0
    Grace = 0
    MaxClock = 1
    MaxGeneration = 1
    MaxIdentity = 0
    MaxRows = 1
    Kinds = {"scoped"}
    Publishing = TRUE
INVARIANTS
    TenantPair
    RefreshPropagates
PROPERTIES
    TenantForward
