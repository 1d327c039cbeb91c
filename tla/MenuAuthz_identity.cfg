SPECIFICATION Spec
SYMMETRY Symmetry
CONSTANTS
    Emails = {alice}
    Flights = {f1, f2}
    Admins = {}
    Callers = {c1, c2}
    None = None
    TTL = 0
    Grace = 1
    MaxClock = 2
    MaxGeneration = 1
    MaxIdentity = 1
    MaxRows = 0
    Kinds = {"all", "refused"}
    Publishing = FALSE
INVARIANTS
    EvictionBarrier
    SingleFlight
    AnswerAfterEviction
    GraceBound
