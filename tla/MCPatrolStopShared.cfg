CONSTANTS
  fire = fire
  leak = leak
  vision = vision
  operator = operator
  NoEvent = NoEvent
  Events <- OneEvent
  Vision = vision
  OtherClients <- MCOthers
  HandResumes = TRUE
  LastStep = 1
  LastFuture = 5
  ResumeDepth = 2
SPECIFICATION Spec
INVARIANTS TypeOK NoOrphanedWaiter HoldCanEnd ConfirmedStopHolds UndisturbedStopHolds
PROPERTY ImplementsStopReport
