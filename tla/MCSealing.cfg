SPECIFICATION Spec
CONSTANTS
  MaxMessages = 5
  MaxWaiting = 4
  Settings <- MCSettings
INVARIANTS TypeOK NotAbandoned SealedIsProven EndsForAReason
CHECK_DEADLOCK FALSE
