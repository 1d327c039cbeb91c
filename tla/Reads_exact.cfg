SPECIFICATION ReadsSpec
CONSTANTS
    Calls = {c1}
    Kinds = {"page", "rollup", "join", "joinroll", "count"}
    MaxRows = 6
    Changes = 2
    Limits = {1, 2, 4}
    PageSize = 3
    MinPage = 2
    MaxPages = 3
    Keep = 2
    Offload = FALSE
INVARIANTS
    NothingMissing
    PrefixOnly
