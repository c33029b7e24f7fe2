SPECIFICATION FairSpec
CONSTANTS
  Games = {g1}
  NQ = 2
  None = None
  b = b
  People <- Everyone
  Setups <- HostTab
  MaxTickets = 2
  MaxSockets = 2
  MaxRetries = 1
  MaxUp = 1
  MaxDown = 3
PROPERTIES
  ResumeConnects
CHECK_DEADLOCK FALSE
