CONSTANTS
  robot1 = robot1
  robot6 = robot6
  fire1 = fire1
  NoRobot = NoRobot
  NoEvent = NoEvent
  Robots <- MCRobots
  FireEvents <- MCFires
  InitialRobot = robot1
  AutoStart = FALSE
  Failures = FALSE
  MaxGoals = 2
  MaxCommands = 1
  MaxFrames = 1
  MaxFeedback = 1
SPECIFICATION Spec
INVARIANT GrantFromOwnGoal
