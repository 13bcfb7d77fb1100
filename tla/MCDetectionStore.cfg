CONSTANTS
  adapter = adapter
  web = web
  door = door
  hall = hall
  NoReport = NoReport
  Callers <- MCCallers
  Reports <- MCReports
  Window = 2
SYMMETRY Symmetry
SPECIFICATION Spec
INVARIANTS WindowHoldsApart PictureKeptApart
PROPERTY ImplementsIntake
