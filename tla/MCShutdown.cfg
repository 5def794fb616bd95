SPECIFICATION FairSpec
CONSTANTS
    k1 = k1
    k2 = k2
    s1 = s1
    s2 = s2
    x1 = x1
    x2 = x2
    None = None
    Jobs = {1, 2}
    Executors = {x1}
    Exprs = {"after"}
    Clients = {k1}
    Sessions = {s1, s2}
    ClientOf <- OneClient
    ExecutorOf <- OneExecutor
    MaxInFlight = 2
    MaxFlushSize = 2
    Slots = {1}
    Answers = {"commit", "fail"}
    HandlerExprs = {}
    BadAnswers = {FALSE}
    ApiCalls = {"create"}
    Cancellable = {s1, s2}
    Leavers = {s2}
    Crashable = {}
    MaxFaults = 0
PROPERTIES NoAnswerLost Drains
CHECK_DEADLOCK FALSE
