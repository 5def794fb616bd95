SPECIFICATION Spec
CONSTANTS
    r1 = r1
    r2 = r2
    r3 = r3
    Runs = {r1, r2, r3}
    MaxConcurrency = 1
    MaxInFlight = 1
    MaxSugared = 1
INVARIANTS TypeOK RequestsBounded ZeroTakesNoSlot
PROPERTIES AnsweredUnlessLeaked KeepsServing Returns
CHECK_DEADLOCK FALSE
