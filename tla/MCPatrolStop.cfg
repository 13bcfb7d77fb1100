CONSTANTS
  fire = fire
  leak = leak
  vision = vision
  operator = operator
  NoEvent = NoEvent
  Events <- MCEvents
  Vision = vision
  OtherClients <- NoOthers
  HandResumes = FALSE
  LastStep = 2
  LastFuture = 4
  ResumeDepth = 2
SPECIFICATION LiveSpec
PROPERTIES StopAnswered HoldEnds
