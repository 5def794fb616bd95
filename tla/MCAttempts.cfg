SPECIFICATION Spec
CONSTANTS
    x1 = x1
    x2 = x2
    Jobs = {1}
    Executors = {x1}
    Exprs <- SomeExprs
    MinutesPerHour = 2
    HoursPerDay = 2
    DaysPerWeek = 3
    Dates <- SomeDates
    LastMonth = 2
    LastDay = 2
    Horizon = 6
    NoDate = NoDate
    Crontabs <- SomeCrontabs
    Starts = {0}
    Timeouts = {0}
    Attempts = {0}
    AnsweredIn = {"PENDING"}
    DefaultTimeout = 1
    DefaultRetries = 3
    MaxRetries = 3
    MaxBackoff = 3
    MaxTime = 5
    MaxExecutions = 3
INVARIANT MaximumRetries
CHECK_DEADLOCK FALSE
