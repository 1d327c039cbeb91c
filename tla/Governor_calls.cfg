SPECIFICATION FairSpec
CONSTANTS
    Calls = {c1, c2}
    Sessions = {u1, u2}
    Kinds = {"sql", "saved"}
    MaxInflight = 1
    Timeout = 1
    ParseTimeout = 0
    Budget = 1
    Window = 4
    ProbeBudget = 1
INVARIANTS
    SlotsConserved
    BoundedWait
    BoundedOvershoot
PROPERTIES
    WorkIsCharged
    BudgetRecovers
