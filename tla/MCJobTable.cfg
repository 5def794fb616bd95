SPECIFICATION Spec
CONSTANTS
    x1 = x1
    x2 = x2
    Jobs = {1}
    Executors = {x1, x2}
    Exprs <- SomeExprs
    MinutesPerHour = 2
    HoursPerDay = 2
    DaysPerWeek = 3
    Dates <- SomeDates
    LastMonth = 2
    LastDay = 2
    Horizon = 6
    NoDate = NoDate
    Crontabs <- SomeCrontabs
    Starts = {0, 2}
    Timeouts <- SomeTimeouts
    Attempts <- SomeAttempts
    AnsweredIn = {"READY", "PENDING", "PAUSED", "SUCCESS", "FAILURE"}
    DefaultTimeout = 1
    DefaultRetries = 2
    MaxRetries = 2
    MaxBackoff = 1
    MaxTime = 3
    MaxExecutions = 3
SYMMETRY Symmetry
INVARIANTS TypeOK AttemptsCanFail NoEarlyFailure RunAtConsistent CronOnTime
PROPERTY KeepsStore
CHECK_DEADLOCK FALSE
