SPECIFICATION FairTabSpec
CONSTANTS
  Games = {g1}
  NQ = 2
  None = None
  b = b
  People <- Everyone
  Setups <- AllTabs
  MaxTickets = 2
  MaxSockets = 2
  MaxRetries = 1
  MaxUp = 1
  MaxDown = 3
INVARIANTS
  TypeOK
  
  AnswersMeetTheirQuestion
PROPERTIES
  ChoiceStands
  AnnouncedEndIsShown
CHECK_DEADLOCK FALSE
