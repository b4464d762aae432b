CONSTANTS
  requests = requests
  ride = ride
  None = None
  Hooks <- MCHooks
  ByOn <- MCByOn
  Events = {e1}
  MaxSockets = 3
  MaxFaults = 2
SPECIFICATION Spec
INVARIANTS TypeOK NoStraySocket
PROPERTIES Reconnects ImplementsLink
CHECK_DEADLOCK FALSE
