SPECIFICATION FairSpec
CONSTANTS
    o1 = o1
    o2 = o2
    x1 = x1
    Malformed = Malformed
    Jobs = {1, 2, 3, 4, 5, 6}
    Executors = {x1}
    Exprs <- SomeExprs
    Conns = {1, 2}
    Owners = {o1, o2}
    Nobody = Nobody
    Names = {"a", "b", "c", "d"}
    Keys = {"key"}
    NoKey = NoKey
    Half = 4
    Requests = {1, 2}
    MaxFields = 2
    Traffic <- SomeTraffic
    Tables <- SomeTables
    MaxSearch = 2
    MaxFaults = 1
INVARIANTS TypeOK LoansAccounted ShowsOwnRows AnswersTrue 
PROPERTIES OwnRowsOnly EveryRequestEnds
CHECK_DEADLOCK FALSE
