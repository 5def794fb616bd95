SPECIFICATION Spec
CONSTANTS
    k1 = k1
    k2 = k2
    s1 = s1
    s2 = s2
    x1 = x1
    x2 = x2
    None = None
    Jobs = {1}
    Executors = {x1}
    Exprs = {"after"}
    Clients = {k1}
    Sessions = {s1}
    ClientOf <- OneClient
    ExecutorOf <- OneExecutor
    MaxInFlight = 1
    MaxFlushSize = 2
    Slots = {1, 2}
    Answers = {"fail", "retry"}
    HandlerExprs = {}
    BadAnswers = {FALSE}
    ApiCalls = {"create"}
    Cancellable = {}
    Leavers = {}
    Crashable = {}
    MaxFaults = 0
PROPERTY FailureIsForever
CHECK_DEADLOCK FALSE
