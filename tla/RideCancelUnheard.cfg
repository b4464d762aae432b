CONSTANTS
  MaxReads = 2
  MaxFaults = 0
SPECIFICATION Spec

PROPERTY CancelReachesDriver
\* When the screens are left nothing more happens.
CHECK_DEADLOCK FALSE
