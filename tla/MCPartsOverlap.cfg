CONSTANTS
  web = web
  adapter = adapter
  Processes <- MCProcesses
  NoKey = NoKey
  OldDatabases <- MCOldDatabases
  OldRows = {"old"}
  NewRows = {"new"}
  MapSenders <- MCProcesses
  Adapter = adapter
  Grids <- MCGrids
  NoGrid = NoGrid
  GridClock = 1
  FrameSenders <- MCProcesses
  Frames <- MCFrames
  NoFrame = NoFrame
  NoSender = NoSender
  FrameClock = 2
  Interval = 4
  Early = 1
  MaxTime = 20
  NoTime = NoTime
  Estops <- MCEstops
  NoEstop = NoEstop
  MaxEstopRows = 3
  PermitDepth = 2
  MaxPermits = 5
  Operators <- MCOperators
  NotShown = NotShown
  CameraStates <- MCCameraStates
  Passages <- MCPassages
  NoState = NoState
  Users <- MCUsers
  Roles <- MCRoles
  Browsers <- MCBrowsers
  NoUser = NoUser
  LastStep = 3
  Points = 3
  MaxReached = 3
  NoCheckpoint = NoCheckpoint
  top = top
  bottom = bottom
  NoRoi = NoRoi
  Xs <- MCXs
  NoX <- MCNoX
  LeftLine = 1
  RightLine = 3
  Confirm = 2
  Cooldown = 2
  Rois <- MCRois
  Stay = 2
  ExitConfirm = 1
  CenterCooldown = 2
  MaxEvents = 2
  MaxStrays = 1
SPECIFICATION Spec
INVARIANT RecordsKept
