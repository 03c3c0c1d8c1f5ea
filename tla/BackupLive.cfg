CONSTANTS
    Empty = Empty
    Torn = Torn
    Callers = {cron, call}
    Engine = "redis"
    Provider = "gcp"
    HasKey = FALSE
    Keep = 2
    Crashes = TRUE
    MaxFaults = 2
    MaxGen = 2
    MaxBackups = 3
SPECIFICATION FairSpec
INVARIANT StoredOrder
PROPERTY SemaphoreReleased
