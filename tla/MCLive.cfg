SPECIFICATION FairSpec
CONSTANTS
    k1 = k1
    k2 = k2
    s1 = s1
    s2 = s2
    x1 = x1
    x2 = x2
    None = None
    Jobs = {1}
    Executors = {x1}
    Exprs = {"after", "every"}
    Clients = {k1, k2}
    Sessions = {s1, s2}
    ClientOf <- TwoClients
    ExecutorOf <- OneExecutor
    MaxInFlight = 1
    MaxFlushSize = 2
    Slots = {1, 2}
    Answers = {"commit", "fail", "retry"}
    HandlerExprs = {}
    BadAnswers = {FALSE}
    ApiCalls = {"create", "stop", "restart", "delete"}
    Cancellable = {s2}
    Leavers = {s2}
    Crashable = {k2}
    MaxFaults = 1
PROPERTIES AtLeastOnce PendingEnds
CHECK_DEADLOCK FALSE
