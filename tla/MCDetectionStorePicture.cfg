CONSTANTS
  adapter = adapter
  web = web
  door = door
  hall = hall
  NoReport = NoReport
  Callers <- MCCallers
  Reports <- OneEvent
  Window = 2
SYMMETRY Symmetry
SPECIFICATION Spec
INVARIANT PictureKept
