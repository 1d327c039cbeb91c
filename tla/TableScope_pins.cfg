SPECIFICATION ScopeFairSpec
CONSTANTS
    Emails = {alice}
    Flights = {f1, f2}
    Admins = {a1}
    Callers = {c1, c2}
    Gates = {c1}
    None = None
    TTL = 0
    Grace = 0
    MaxClock = 0
    MaxGeneration = 1
    MaxIdentity = 1
    MaxRows = 0
    Kinds = {"scoped"}
    Publishing = FALSE
INVARIANTS
    PinFollowsEviction
PROPERTIES
    CallersAnswered
