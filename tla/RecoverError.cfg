CONSTANTS
    Empty = Empty
    Torn = Torn
    NoBackup = NoBackup
    Main = Main
    Engine = "postgres"
    HasKey = TRUE
    Rpc = {}
    EarlyBackup = FALSE
    Interrupts = FALSE
    RecoverFails = TRUE
    KillInRecover = FALSE
    MaxFaults = 2
    Keep = 1
    MaxGen = 1
    MaxBackups = 1
SPECIFICATION Spec
INVARIANT NoSilentLoss
