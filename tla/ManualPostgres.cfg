CONSTANTS
    Empty = Empty
    Torn = Torn
    NoBackup = NoBackup
    Main = Main
    Engine = "postgres"
    HasKey = TRUE
    Rpc = {r1, r2}
    EarlyBackup = TRUE
    Interrupts = TRUE
    RecoverFails = TRUE
    KillInRecover = TRUE
    MaxFaults = 1
    Keep = 1
    MaxGen = 2
    MaxBackups = 1
SYMMETRY RpcSymmetry
SPECIFICATION ManualSpec
INVARIANT TypeOK
PROPERTY SoloRestoreDelivers
