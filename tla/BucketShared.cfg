CONSTANTS
  a = a
  b = b
  None = None
  Sidecars = {a, b}
  Providers = {"s3", "gcp", "local"}
  Extends <- Overlap
  Root <- RootSidecars
  ObjectsToKeep <- Configured
  DefaultObjectsToKeep = 2
  Early = FALSE
  MaxDate = 4
  MaxFaults = 1
SPECIFICATION FairSpec
INVARIANTS
  TypeOK
  PickedIsDelivered
PROPERTIES
  RulesKept
  KeepHonoured
  RoundKept
  Trimmed
  GetsThrough
