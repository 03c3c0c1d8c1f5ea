CONSTANTS
    Empty = Empty
    Torn = Torn
    NoBackup = NoBackup
    Main = Main
    Engine = "rethinkdb"
    HasKey = FALSE
    Rpc = {}
    EarlyBackup = FALSE
    Interrupts = FALSE
    RecoverFails = TRUE
    KillInRecover = FALSE
    MaxFaults = 3
    Keep = 1
    MaxGen = 3
    MaxBackups = 3
SPECIFICATION Spec
INVARIANT NoSilentLoss
PROPERTY KeepsBackups
