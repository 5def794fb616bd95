SPECIFICATION Spec
CONSTANTS
    k1 = k1
    k2 = k2
    s1 = s1
    s2 = s2
    x1 = x1
    x2 = x2
    None = None
    Jobs = {1}
    Executors = {x1}
    Exprs = {"at", "every"}
    Clients = {k1, k2}
    Sessions = {s1, s2}
    ClientOf <- TwoClients
    ExecutorOf <- OneExecutor
    MaxInFlight = 1
    MaxFlushSize = 2
    Slots = {1, 2}
    Answers = {"commit", "fail", "retry"}
    HandlerExprs = {"at"}
    BadAnswers = {FALSE, TRUE}
    ApiCalls = {"create", "update", "expr", "stop", "restart", "delete"}
    Cancellable = {s1}
    Leavers = {}
    Crashable = {k1}
    MaxFaults = 1
INVARIANTS TypeOK ExclusiveDelivery
PROPERTIES RestingStays KeepsLeases OnlyOneShotsSucceed
CHECK_DEADLOCK FALSE
