SPECIFICATION Spec
CONSTANTS
    N = 2
    Kinds <- MCKinds
    Budgets = {2, 3}
    DomainTTL = 1
    Changes = 1
INVARIANTS
    NoFalseEmpty
    AccusedIsAbsent
