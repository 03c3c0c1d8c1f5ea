CONSTANTS
    Empty = Empty
    Torn = Torn
    MaxVersion = 3
    MaxFaults = 4
    MaxGen = 2
SPECIFICATION FairSpec
INVARIANTS TypeOK NothingLost OldBinariesKept
PROPERTIES UpgradeDelivers BackupUpgradable Upgraded
