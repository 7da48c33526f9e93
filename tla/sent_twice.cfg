SPECIFICATION Spec
CONSTANTS
    n1 = n1  n2 = n2  w1 = w1  w2 = w2
    NoLog = NoLog
    Logs <- TwoLogs
    Workers <- TwoWorkers
    MaxAttempts = 2
    BatchSize = 2
    MaxFaults = 1
PROPERTY SentStaysSent
CHECK_DEADLOCK FALSE
