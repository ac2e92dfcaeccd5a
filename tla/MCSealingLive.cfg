SPECIFICATION FairSpec
CONSTANTS
  MaxMessages = 5
  MaxWaiting = 6
  Settings <- LiveSettings
PROPERTY Proceeds
CHECK_DEADLOCK FALSE
