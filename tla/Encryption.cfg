CONSTANTS
  BlockSize = 2
  BufLen = 2
  MaxLen = 4
  MaxBackups = 2
SPECIFICATION Spec
INVARIANTS
  TypeOK
  UploadedSealed
  RestoredExact
CHECK_DEADLOCK FALSE
