SPECIFICATION FairSpec
CONSTANTS
  MaxReloads = 2
  MaxChanges = 2
PROPERTY TreeRight
CHECK_DEADLOCK FALSE
