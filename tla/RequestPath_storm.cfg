SPECIFICATION PathFairSpec
CONSTANTS
    Handler = {r1, r2, r3}
    Task = {t1, t2}
    NoTask = NoTask
    Threshold = 2
    Window = 1
INVARIANTS
    StormBounded
PROPERTIES
    Reopens
    NotBlocked
