CONSTANTS
  a = a
  b = b
  None = None
  Sidecars = {a, b}
  Providers = {"s3", "gcp"}
  Extends <- Overlap
  Root <- NoSidecars
  ObjectsToKeep <- Configured
  DefaultObjectsToKeep = 2
  Early = FALSE
  MaxDate = 4
  MaxFaults = 1
SPECIFICATION Spec
INVARIANT LatestIsOwn
