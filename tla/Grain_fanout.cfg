SPECIFICATION Spec
CONSTANTS
    Sources = 3
    Column = {"co", "x", "y"}
    Company = "co"
    Keys <- MCKeys
    Lefts <- MCLefts
    Ons <- MCOns
    Wheres <- MCWheres
INVARIANTS
    NoMissedFanout
    WarningsPossible
CHECK_DEADLOCK FALSE
