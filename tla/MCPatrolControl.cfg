CONSTANTS
  robot1 = robot1
  robot6 = robot6
  fire1 = fire1
  NoRobot = NoRobot
  NoEvent = NoEvent
  Robots <- MCRobots
  FireEvents <- MCFires
  InitialRobot = robot1
  AutoStart = TRUE
  Failures = TRUE
  MaxGoals = 2
  MaxCommands = 2
  MaxFrames = 1
  MaxFeedback = 1
SPECIFICATION LiveSpec
INVARIANTS SlotMatchesCall DeniedDriverSentToSafety WorkOutsideSlotHasFailed
PROPERTIES ImplementsMissionSlot SlotReleased WaitingIsServed
