CONSTANTS
    Empty = Empty
    Torn = Torn
    Callers = {cron, call}
    Engine = "postgres"
    Provider = "local"
    HasKey = FALSE
    Keep = 3
    Crashes = FALSE
    MaxFaults = 1
    MaxGen = 3
    MaxBackups = 5
SYMMETRY CallerSymmetry
SPECIFICATION Spec
PROPERTIES NewestSurvives KeepsContract
