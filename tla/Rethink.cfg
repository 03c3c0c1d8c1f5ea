CONSTANTS
  Main = Main
  Real = Real
  Requests = {r1}
  Containers <- BothContainers
  Count <- OneEach
  MaxFaults = 3
SPECIFICATION FairSpec
INVARIANTS
  TypeOK
  ServedWhole
  NoServerLeft
PROPERTIES
  RecoverDelivers
  StopEnds
  Settles
CHECK_DEADLOCK FALSE
