CONSTANTS
    Empty = Empty
    Torn = Torn
    Callers = {cron, call}
    Engine = "rethinkdb"
    Provider = "s3"
    HasKey = TRUE
    Keep = 2
    Crashes = TRUE
    MaxFaults = 2
    MaxGen = 3
    MaxBackups = 4
SYMMETRY CallerSymmetry
SPECIFICATION Spec
INVARIANTS TypeOK StoredOrder LatestRestorable
PROPERTIES AckedIsStored NewestSurvives
