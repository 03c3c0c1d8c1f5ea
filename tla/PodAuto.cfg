CONSTANTS
    Empty = Empty
    Torn = Torn
    NoBackup = NoBackup
    Main = Main
    Engine = "etcd"
    HasKey = TRUE
    Rpc = {}
    EarlyBackup = FALSE
    Interrupts = FALSE
    RecoverFails = FALSE
    KillInRecover = FALSE
    MaxFaults = 3
    Keep = 1
    MaxGen = 2
    MaxBackups = 2
SPECIFICATION FairSpec
INVARIANTS TypeOK AutoRestoreExclusive NoSilentLoss
PROPERTIES KeepsContract Resumes
