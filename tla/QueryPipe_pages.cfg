SPECIFICATION Spec
CONSTANTS
    Table = {open, hidden, denied}
    NoGate = NoGate
    Denied = {denied}
    Forms <- MCForms
    Branches <- MCBranches
    Tops = {1, 5}
    Sizes = {2, 3}
    Pages = {1, 2, 3}
    MaxPageSize = 3
    ProbeBudget = 2
INVARIANTS
    OnlyGatedRuns
    CompleteIsWhole
    RefusedPagesEmpty
CHECK_DEADLOCK FALSE
