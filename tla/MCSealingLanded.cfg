SPECIFICATION Spec
CONSTANTS
  MaxMessages = 5
  MaxWaiting = 4
  Settings <- UpgradeSettings
INVARIANT LandedNotAborted
CHECK_DEADLOCK FALSE
